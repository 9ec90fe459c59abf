-------------------------- MODULE MCTokenObjects ---------------------------
(***************************************************************************)
(* Small instances for TLC of three modules that share no state.  A        *)
(* behaviour is of Certificates, of SecretKeys or of RSASignatures; the     *)
(* variables of the other two stay as they are.                            *)
(***************************************************************************)
EXTENDS Certificates, SecretKeys, RSASignatures, TLC

CONSTANTS
  leaf, bare,      \* issued by "ca", the second without key identifiers
  ca, renewed,     \* two certificates of the same key and name
  decoy,           \* another authority with that name and key identifier
  root, cross      \* the root's own certificate, and one that "ca" issued it

Names(subject, issuer, keyId, authority) ==
  [subject |-> subject, issuer |-> issuer, keyId |-> keyId, authority |-> authority]

MCFields ==
  leaf :> Names("leaf", "ca", None, "k") @@
  bare :> Names("leaf", "ca", None, None) @@
  ca :> Names("ca", "root", "k", None) @@
  renewed :> Names("ca", "root", "k", "r") @@
  decoy :> Names("ca", "ca", "k", "k") @@
  root :> Names("root", "root", "r", None) @@
  cross :> Names("root", "ca", "r", "k")

MCSigns ==
  ({ca, renewed} \X {leaf, bare, cross}) \cup ({root, cross} \X {ca, renewed})
  \cup {<<root, root>>, <<decoy, decoy>>}

CONSTANTS
  oLeaf, oBare, oCa, oRenewed, oDecoy, oRoot, oCross,
  oOdd,    \* imported with a subject attribute that is not the certificate's
  oBad,    \* its value does not parse
  oWtls,   \* not an X.509 certificate
  kLeaf, pLeaf,   \* the key pair of oLeaf
  kCa,            \* a private key with the id of oCa
  kBare           \* a private key without id and label

Object(id, subject, cert) == [class |-> "x509", id |-> id, subject |-> subject, cert |-> cert]
Other(class, id) == [class |-> class, id |-> id, subject |-> "", cert |-> None]

MCData ==
  oLeaf :> Object("i", "leaf", leaf) @@
  oBare :> Object("i", "leaf", bare) @@
  oCa :> Object("c", "ca", ca) @@
  oRenewed :> Object("c", "ca", renewed) @@
  oOdd :> Object("c", "odd", ca) @@
  oDecoy :> Object("d", "ca", decoy) @@
  oRoot :> Object("r", "root", root) @@
  oCross :> Object("r", "root", cross) @@
  oBad :> Object("i", "ca", None) @@
  oWtls :> Other("certificate", "i") @@
  kLeaf :> Other("private", "i") @@
  pLeaf :> Other("public", "i") @@
  kCa :> Other("private", "c") @@
  kBare :> Other("private", None)

MCAsked == [op : {"find", "chain", "delete"}, id : {"i"}]
           \cup [op : {"all", "paired"}, id : {None}]
           \cup [op : {"import", "delete"}, id : {"c"}]

MCStarts == {{oLeaf, oCa, oRenewed, oCross, oRoot, kLeaf, kCa},
             {oLeaf, oOdd, oDecoy, oCross, oRoot, kLeaf, pLeaf},
             {oBare, oOdd, oDecoy, kLeaf, kCa},
             {oBare, oRenewed, oWtls, kLeaf, kBare},
             {oBad, oLeaf, oOdd, kCa}}

----------------------------------------------------------------------------
(* SecretKeys.                                                             *)

Pair(keyType, genMech) == [keyType |-> keyType, genMech |-> genMech]

\* CipherAES, CipherHMACSHA256, CipherGeneric, and one of a caller's own.
MCCiphers ==
  [aes |-> [genParams |-> <<Pair("aes", "aes")>>,
            encrypt |-> "yes", mac |-> "no", gcm |-> TRUE],
   hmac |-> [genParams |-> <<Pair("sha256", "sha256"), Pair("sha256", "vendor"),
                             Pair("generic secret", "generic")>>,
             encrypt |-> "no", mac |-> "yes", gcm |-> FALSE],
   custom |-> [genParams |-> <<Pair("generic secret", "generic"), Pair("custom", "vendor")>>,
               encrypt |-> "yes", mac |-> "yes", gcm |-> FALSE],
   generic |-> [genParams |-> <<Pair("generic secret", "generic")>>,
                encrypt |-> "no", mac |-> "yes", gcm |-> FALSE]]

\* Nothing, or some attributes of the caller's own.
MCTemplates == {[a \in {} |-> Nothing], [encrypt |-> "yes", sign |-> "no"],
                [extractable |-> "yes", decrypt |-> "no"]}

NoKey ==
  /\ step = "unused" /\ cipher = Nothing /\ n = 0 /\ own = Nothing /\ template = Nothing
  /\ made = {} /\ key = Nothing /\ config = Nothing /\ token = Nothing
  /\ ivs = 0 /\ nonce = Nothing /\ sealed = {} /\ opened = Nothing

----------------------------------------------------------------------------
(* RSASignatures.                                                          *)

\* Those with a meaning of their own, -1 and 0, and salts about as long as a
\* hash and as the longest that fits.
MCSaltLengths == {-2, -1, 0, 1, 10, 20, 43, 44, 62, 63, 64}

NoSignature ==
  phase = "unused" /\ request = [pss |-> FALSE] /\ salt = 0 /\ signature = FALSE

----------------------------------------------------------------------------
(* A behaviour is of one of the three.                                     *)

AnyToken == Init /\ live = CHOOSE start \in Starts : TRUE

EitherInit ==
  \/ Init /\ NoKey /\ NoSignature
  \/ AnyToken /\ KeyInit /\ NoSignature
  \/ AnyToken /\ NoKey /\ SignInit

Unused == step = "unused" /\ phase = "unused"

EitherNext ==
  \/ Unused /\ Next /\ UNCHANGED <<keyVars, signatureVars>>
  \/ KeyNext /\ UNCHANGED <<vars, signatureVars>>
  \/ SignNext /\ UNCHANGED <<vars, keyVars>>

EitherSpec ==
  /\ EitherInit /\ [][EitherNext]_<<vars, keyVars, signatureVars>>
  /\ \A c \in Callers : WF_vars(Unused /\ Steps(c))
=============================================================================
