------------------------------ MODULE KeyPairs ------------------------------
(***************************************************************************)
(* Keys as objects on a token: enumeration (keys.go, rsa.go, mlkem.go), the *)
(* pairing of a private key with its public half (pairing.go), generation   *)
(* and deletion of key pairs.                                              *)
(*                                                                         *)
(* An object has its attributes for life and its handle is not given to     *)
(* another one.  Other sessions create and destroy objects at any time; a   *)
(* step here is one search of the token, or one object read.                *)
(***************************************************************************)
EXTENDS Naturals

CONSTANTS
  Objects,   \* every object there may ever be
  Data,      \* their attributes
  Foreign,   \* the ones other sessions create and destroy
  Finders,   \* goroutines that enumerate keys
  Makers,    \* goroutines that generate or adopt a key pair and delete it
  Asked,     \* what enumerations ask for: a kind of key, an id and a label
  Starts,    \* what may be on the token at first
  None

Class(o) == Data[o].class
Type(o) == Data[o].type
Key(o) == Data[o].key       \* the key it is a half of, or certifies
Id(o) == Data[o].id
Label(o) == Data[o].label
Sound(o) == Data[o].sound   \* whether crypto11 can parse its value

\* What a private key lets be checked of its public half: "attribute" if it
\* has CKA_MODULUS or CKA_PUBLIC_KEY_INFO, "probe" if it may sign (not with
\* RSA) or decapsulate, otherwise "none".
Evidence(o) == Data[o].evidence

Signers == {"rsa", "ec", "ed"}       \* makeKeyPair; "ec" stands for DSA too
Ciphers == {"aes"}                   \* the keys of the map Ciphers
Types == Signers \cup Ciphers \cup {"kem", "other"}
PairKinds == {"pairs", "rsa pairs", "certified"}
Kinds == PairKinds \cup {"privates", "rsa privates", "secrets", "kem"}

ASSUME ObjectAssumption ==
  /\ Data \in [Objects -> [class : {"private", "public", "certificate", "secret"},
                           type : Types, key : STRING, id : STRING \cup {None},
                           label : STRING \cup {None}, sound : BOOLEAN,
                           evidence : {"attribute", "probe", "none"}]]
  /\ Foreign \subseteq Objects
  /\ Asked \subseteq [kind : Kinds, id : STRING \cup {None}, label : STRING \cup {None}]
  /\ Starts \subseteq SUBSET Objects
  /\ None \notin Objects

VARIABLES
  live, gone,   \* the objects on the token, and those destroyed
  pc, call,     \* where a finder is, and what it was asked for
  todo,         \* the handles it has still to look at
  look,         \* what it knows of the private key it looks at
  found,        \* what it has found
  steady,       \* what has been on the token ever since it started
  disturbed,    \* whether an object was destroyed since
  failed,       \* whether the token has failed a call of it
  mpc, value,   \* where a maker is, and its key pair
  reported      \* whether the error it returns tells of objects left behind

tokenVars == <<live, gone>>
finderVars == <<pc, call, todo, look, found, failed>>
historyVars == <<steady, disturbed>>
makerVars == <<mpc, value, reported>>
vars == <<tokenVars, finderVars, historyVars, makerVars>>

NoCall == [kind |-> None, id |-> None, label |-> None]
NoLook == [at |-> None, primary |-> {}, secondary |-> {}, certs |-> {},
           proof |-> FALSE, half |-> None, cert |-> None, links |-> {}]
NoValue == [priv |-> None, pub |-> None, cert |-> None, key |-> None, proof |-> FALSE]

Init ==
  /\ live \in Starts
  /\ gone = {}
  /\ pc = [f \in Finders |-> "idle"]
  /\ call = [f \in Finders |-> NoCall]
  /\ todo = [f \in Finders |-> {}]
  /\ look = [f \in Finders |-> NoLook]
  /\ found = [f \in Finders |-> {}]
  /\ steady = [f \in Finders |-> {}]
  /\ disturbed = [f \in Finders |-> FALSE]
  /\ failed = [f \in Finders |-> FALSE]
  /\ mpc = [m \in Makers |-> "idle"]
  /\ value = [m \in Makers |-> NoValue]
  /\ reported = [m \in Makers |-> FALSE]

Unborn == Objects \ (live \cup gone)

Goto(f, next) == pc' = [pc EXCEPT ![f] = next]

----------------------------------------------------------------------------
(* The token.                                                              *)

Stays == UNCHANGED <<tokenVars, historyVars>>

Appears(o) ==
  /\ o \in Unborn
  /\ live' = live \cup {o}
  /\ UNCHANGED <<gone, historyVars>>

\* C_DestroyObject
Destroyed(o) ==
  /\ o \in live
  /\ live' = live \ {o}
  /\ gone' = gone \cup {o}
  /\ steady' = [f \in Finders |-> steady[f] \ {o}]
  /\ disturbed' = [f \in Finders |-> TRUE]

\* Another session creates or destroys an object.
Others(o) ==
  /\ Appears(o) \/ Destroyed(o)
  /\ UNCHANGED <<finderVars, makerVars>>

\* findKeys: an empty id or label is left out of the template.
Matches(o, id, label) == id \in {None, Id(o)} /\ label \in {None, Label(o)}

FindKeys(class, types, id, label) ==
  {o \in live : Class(o) = class /\ Type(o) \in types /\ Matches(o, id, label)}

----------------------------------------------------------------------------
(* Enumeration.                                                            *)

CallFind(f) ==
  /\ pc[f] = "idle"
  /\ \E c \in Asked : call' = [call EXCEPT ![f] = c]
  /\ steady' = [steady EXCEPT ![f] = live]
  /\ disturbed' = [disturbed EXCEPT ![f] = FALSE]
  /\ Goto(f, "list")
  /\ UNCHANGED <<tokenVars, todo, look, found, failed, makerVars>>

\* findKeysWithAttributes: C_FindObjects pages through one search.
List(f) ==
  /\ pc[f] = "list"
  /\ LET c == call[f] IN
     todo' = [todo EXCEPT ![f] =
       CASE c.kind = "secrets" -> FindKeys("secret", Types, c.id, c.label)
         [] c.kind = "kem" -> FindKeys("private", {"kem"}, c.id, c.label)
         [] OTHER -> FindKeys("private", Types, c.id, c.label)]
  /\ Goto(f, "next")
  /\ UNCHANGED <<tokenVars, historyVars, call, look, found, failed, makerVars>>

\* Any error that the loop does not skip ends it, and nothing is returned; only
\* FindMLKEMKeyPairsWithAttributes returns with the error what it has.
Aborts(f) ==
  /\ Goto(f, "error")
  /\ look' = [look EXCEPT ![f] = NoLook]
  /\ todo' = [todo EXCEPT ![f] = {}]
  /\ found' = [found EXCEPT ![f] = IF call[f].kind = "kem" THEN @ ELSE {}]
  /\ UNCHANGED <<tokenVars, historyVars, call, makerVars>>

\* The token fails a call.
Fails(f) ==
  /\ \/ pc[f] \in {"list", "primary", "secondary", "certs", "build", "hop", "links"}
     \/ pc[f] = "next" /\ todo[f] # {}
  /\ failed' = [failed EXCEPT ![f] = TRUE]
  /\ Aborts(f)

\* One of the handles is no longer that of an object.
Vanished(f) ==
  /\ pc[f] = "next" /\ todo[f] \ live # {}
  /\ UNCHANGED failed
  /\ Aborts(f)

\* The keys that are looked at now and kept, with which result, or skipped.
Keeps(f, o, r) ==
  /\ todo' = [todo EXCEPT ![f] = @ \ {o}]
  /\ found' = [found EXCEPT ![f] = @ \cup r]
  /\ look' = [look EXCEPT ![f] = NoLook]
  /\ Goto(f, "next")
  /\ UNCHANGED <<tokenVars, historyVars, call, makerVars>>

Only(o) == [NoValue EXCEPT !.priv = o, !.key = Key(o)]

\* Defect: a key of another type
\* is an error like any other.
MakePrivateKeyOrAbort(f, kind, types) ==
  /\ pc[f] = "next" /\ call[f].kind = kind
  /\ \E o \in todo[f] \cap live :
       IF Type(o) \in types THEN Keeps(f, o, {Only(o)}) ELSE Aborts(f)
  /\ UNCHANGED failed

\* makePrivateKey and makeRSAPrivateKey: errUnsupportedKeyType is skipped.
MakePrivateKey(f, kind, types) ==
  /\ pc[f] = "next" /\ call[f].kind = kind
  /\ \E o \in todo[f] \cap live :
       Keeps(f, o, IF Type(o) \in types THEN {Only(o)} ELSE {})
  /\ UNCHANGED failed

FindPrivateKeys(f) == MakePrivateKey(f, "privates", Signers)
FindRSAPrivateKeys(f) == MakePrivateKey(f, "rsa privates", {"rsa"})
FindSecretKeys(f) == MakePrivateKey(f, "secrets", Ciphers)

\* getKeyPair and makeMLKEMKeyPair: a key without id and label is an error,
\* which only the latter makes one that is skipped.
Nameless(f) ==
  /\ pc[f] = "next"
  /\ \E o \in todo[f] \cap live :
       /\ Id(o) = None /\ Label(o) = None
       /\ \/ call[f].kind \in PairKinds /\ Aborts(f)
          \/ call[f].kind = "kem" /\ Keeps(f, o, {})
  /\ UNCHANGED failed

Describe(f) ==
  /\ pc[f] = "next" /\ call[f].kind \in PairKinds \cup {"kem"}
  /\ \E o \in todo[f] \cap live :
       /\ Id(o) # None \/ Label(o) # None
       /\ look' = [look EXCEPT ![f].at = o]
  /\ Goto(f, "primary")
  /\ UNCHANGED <<tokenVars, historyVars, call, todo, found, failed, makerVars>>

\* findPublicKeyHandles: the public keys with the id and label of the private
\* key.  If the token refuses the search for a key that has no label, only
\* those that have none either are kept.
FindPrimary(f) ==
  LET o == look[f].at
      all == FindKeys("public", {Type(o)}, Id(o), Label(o)) IN
  /\ pc[f] = "primary"
  /\ \/ look' = [look EXCEPT ![f].primary = all] /\ UNCHANGED failed
     \/ /\ Label(o) = None
        /\ look' = [look EXCEPT ![f].primary = {c \in all : Label(c) = None}]
        /\ failed' = [failed EXCEPT ![f] = TRUE]
  /\ Goto(f, "secondary")
  /\ UNCHANGED <<tokenVars, historyVars, call, todo, found, makerVars>>

\* Then those that have only its id.
FindSecondary(f) ==
  /\ pc[f] = "secondary"
  /\ LET o == look[f].at IN
     look' = [look EXCEPT ![f].secondary =
       IF Id(o) = None THEN {}
       ELSE FindKeys("public", {Type(o)}, Id(o), None) \ look[f].primary]
  /\ Goto(f, "verifier")
  /\ UNCHANGED <<tokenVars, historyVars, call, todo, found, failed, makerVars>>

\* newPairVerifier and newMLKEMPairVerifier, and the test signature.  They
\* report no error: what they cannot read or try proves nothing.
NewVerifier(f) ==
  LET o == look[f].at IN
  /\ pc[f] = "verifier"
  /\ \E proof \in BOOLEAN :
       /\ proof => o \in live /\ Evidence(o) # "none"
       /\ failed' = [failed EXCEPT ![f] = @ \/ (~proof /\ o \in live /\ Evidence(o) = "attribute")]
       /\ look' = [look EXCEPT ![f].proof = proof]
  /\ Goto(f, IF call[f].kind = "kem" THEN "choose" ELSE "certs")
  /\ UNCHANGED <<tokenVars, historyVars, call, todo, found, makerVars>>

\* findCertificatesByID, which leaves out what it cannot read or parse.
FindCertificates(f) ==
  /\ pc[f] = "certs"
  /\ LET id == Id(look[f].at)
         all == {c \in FindKeys("certificate", Types, id, None) : Sound(c)} IN
     IF id = None THEN UNCHANGED <<look, failed>>
     ELSE \E read \in SUBSET all :
            /\ look' = [look EXCEPT ![f].certs = read]
            /\ failed' = [failed EXCEPT ![f] = @ \/ read # all]
  /\ Goto(f, "choose")
  /\ UNCHANGED <<tokenVars, historyVars, call, todo, found, makerVars>>

\* Defect: what is known to be
\* another key is kept as a candidate.
CheckLeniently(key, proof, c) == IF proof /\ Key(c) = key THEN "verified" ELSE "unverified"

\* pairVerifier.check
Check(key, proof, c) ==
  IF ~proof THEN "unverified" ELSE IF Key(c) = key THEN "verified" ELSE "mismatch"

\* The candidates of the first tier that has any with this outcome.
FirstWith(tiers, key, proof, match) ==
  LET having == [t \in DOMAIN tiers |-> {c \in tiers[t] : Check(key, proof, c) = match}] IN
  UNION {having[t] : t \in {t \in DOMAIN tiers : \A s \in 1..(t - 1) : having[s] = {}}}

\* Defect: the first candidate, ...
SelectFirst(tiers, key, proof) ==
  UNION {tiers[t] : t \in {t \in DOMAIN tiers : \A s \in 1..(t - 1) : tiers[s] = {}}}

\* ... any one that cannot be checked, ...
SelectAny(tiers, key, proof) ==
  LET verified == FirstWith(tiers, key, proof, "verified") IN
  IF verified # {} THEN verified ELSE FirstWith(tiers, key, proof, "unverified")

\* ... or none if they disagree, without checking them.
SelectAgreed(tiers, key, proof) ==
  LET all == UNION {tiers[t] : t \in DOMAIN tiers} IN
  IF \E c, d \in all : Key(c) # Key(d) THEN {} ELSE {c \in all : proof => Key(c) = key}

\* selectPublicHalf returns the first of these: in which order a token lists
\* its objects is not known.
SelectPublicHalf(tiers, key, proof) ==
  LET verified == FirstWith(tiers, key, proof, "verified")
      pool == FirstWith(tiers, key, proof, "unverified") IN
  IF verified # {} THEN verified
  ELSE IF \E c, d \in pool : Key(c) # Key(d) THEN {}   \* errAmbiguousPublicHalf
  ELSE pool

\* exportPublicKey leaves out the objects that are gone or malformed.  These
\* are read one by one; as nothing but their being destroyed matters, it is
\* the same as reading them at once.
Readable(f) == {c \in look[f].primary \cup look[f].secondary : c \in live /\ Sound(c)}

\* The rest of getKeyPair.
Choose(f) ==
  LET l == look[f] IN
  /\ pc[f] = "choose" /\ call[f].kind \in PairKinds
  /\ \E read \in SUBSET Readable(f) :
     LET exported == IF Type(l.at) \in Signers THEN read ELSE {}
         choice == SelectPublicHalf(<<l.primary \cap exported, l.secondary \cap exported, l.certs>>,
                                    Key(l.at), l.proof) IN
     /\ failed' = [failed EXCEPT ![f] = @ \/ read # Readable(f)]
     /\ IF choice = {} THEN Keeps(f, l.at, {})   \* errNoPublicHalf
        ELSE /\ \E half \in choice :
                LET certs == {c \in l.certs : Key(c) = Key(half)} IN
                \E cert \in IF certs = {} THEN {None} ELSE certs :
                  look' = [look EXCEPT ![f].half = half, ![f].cert = cert]
             /\ Goto(f, "build")
             /\ UNCHANGED <<tokenVars, historyVars, call, todo, found, makerVars>>

\* The types of which makeKeyPair and makeRSAKeyPair build key pairs.
Buildable(kind) == IF kind = "rsa pairs" THEN {"rsa"} ELSE Signers

\* FindAllPairedCertificates leaves out keys that have no certificate.
Uncertified(kind, cert) == kind = "certified" /\ cert = None

Pair(f) ==
  LET l == look[f] IN
  [priv |-> l.at, pub |-> IF Class(l.half) = "certificate" THEN None ELSE l.half,
   cert |-> l.cert, key |-> Key(l.half), proof |-> l.proof]

\* The walk goes on, with these certificates to be read.
Walks(f, next, links) ==
  /\ look' = [look EXCEPT ![f].links = links]
  /\ Goto(f, next)
  /\ UNCHANGED <<tokenVars, historyVars, call, todo, found, makerVars>>

\* makeKeyPair and makeRSAKeyPair read the public key object once more.  An
\* Ed25519 key is asked for its parameters, and needs a key of its own type.
\* FindAllPairedCertificates goes on to the issuers of the certificate.
Build(f) ==
  LET l == look[f]
      kind == call[f].kind
      types == Buildable(kind)
      isCert == Class(l.half) = "certificate"
      skipped == \/ Type(l.at) \notin types
                 \/ Type(l.at) = "ed" /\ isCert /\ Type(l.half) # "ed"
                 \/ Uncertified(kind, l.cert)
      lost == Type(l.at) \in types /\
                \/ ~isCert /\ l.half \notin live
                \/ Type(l.at) = "ed" /\ l.at \notin live IN
  /\ pc[f] = "build"
  /\ \/ lost /\ Aborts(f)
     \/ ~lost /\ skipped /\ Keeps(f, l.at, {})
     \/ ~lost /\ ~skipped /\ kind = "certified" /\ Walks(f, "hop", {})
     \/ ~lost /\ ~skipped /\ kind # "certified" /\ Keeps(f, l.at, {Pair(f)})
  /\ UNCHANGED failed

\* findIssuerChain, whose choices are in Certificates: it ends, or a search for
\* an issuer returns some of the certificates ...
FindIssuer(f) ==
  /\ pc[f] = "hop"
  /\ \/ Keeps(f, look[f].at, {Pair(f)})
     \/ \E certs \in SUBSET {c \in live : Class(c) = "certificate"} : Walks(f, "links", certs)
  /\ UNCHANGED failed

\* ... and all of these must be there to be read, and parse.
ReadIssuers(f) ==
  /\ pc[f] = "links"
  /\ IF \A c \in look[f].links : c \in live /\ Sound(c) THEN Walks(f, "hop", {}) ELSE Aborts(f)
  /\ UNCHANGED failed

\* makeMLKEMKeyPair takes what is verified only.  Each candidate is tried on
\* its own, and an attempt that fails says nothing.
ChooseMLKEM(f) ==
  LET l == look[f] IN
  /\ pc[f] = "choose" /\ call[f].kind = "kem"
  /\ \E read \in SUBSET Readable(f) :
     LET choice == FirstWith(<<l.primary \cap read, l.secondary \cap read>>,
                             Key(l.at), l.proof, "verified") IN
     /\ failed' = [failed EXCEPT ![f] = @ \/ read # Readable(f)]
     /\ IF choice = {} THEN Keeps(f, l.at, {})
        ELSE \E half \in choice :
               Keeps(f, l.at, {[priv |-> l.at, pub |-> half, cert |-> None,
                                key |-> Key(half), proof |-> l.proof]})

Finish(f) ==
  /\ pc[f] = "next" /\ todo[f] = {}
  /\ Goto(f, "done")
  /\ UNCHANGED <<tokenVars, historyVars, call, todo, look, found, failed, makerVars>>

Find(f) ==
  \/ CallFind(f) \/ List(f) \/ Fails(f) \/ Vanished(f)
  \/ FindPrivateKeys(f) \/ FindRSAPrivateKeys(f) \/ FindSecretKeys(f)
  \/ Nameless(f) \/ Describe(f) \/ FindPrimary(f) \/ FindSecondary(f)
  \/ NewVerifier(f) \/ FindCertificates(f)
  \/ Choose(f) \/ Build(f) \/ FindIssuer(f) \/ ReadIssuers(f) \/ ChooseMLKEM(f) \/ Finish(f)

----------------------------------------------------------------------------
(* Generation and deletion.                                                *)

Moves(m, next) == mpc' = [mpc EXCEPT ![m] = next]

\* C_GenerateKeyPair.
Generate(m, types, next) ==
  /\ mpc[m] = "idle"
  /\ \E a, b \in Unborn :
       /\ Class(a) = "private" /\ Class(b) = "public" /\ Key(a) = Key(b)
       /\ Type(a) \in types /\ Type(b) = Type(a)
       /\ Id(a) # None /\ Id(a) = Id(b) /\ Label(a) = Label(b)
       /\ live' = live \cup {a, b}
       /\ value' = [value EXCEPT ![m] = [NoValue EXCEPT !.priv = a, !.pub = b, !.key = Key(a), !.proof = TRUE]]
  /\ Moves(m, next)
  /\ UNCHANGED <<gone, historyVars, finderVars, reported>>

GenerateKeyPair(m) == Generate(m, Signers, "export")

\* An ML-KEM key pair is returned as it is.
GenerateMLKEMKeyPair(m) == Generate(m, {"kem"}, "has")

\* The public key is read, and compared with the parameters asked for.
Export(m) ==
  /\ mpc[m] = "export"
  /\ \/ value[m].pub \in live /\ Sound(value[m].pub) /\ Moves(m, "has")
     \/ Moves(m, "undo private")
  /\ UNCHANGED <<tokenVars, historyVars, finderVars, value, reported>>

\* A call of C_DestroyObject that may fail.
Destroys(o, ok, failure) ==
  \/ Destroyed(o) /\ ok
  \/ Stays /\ failure

\* Defect: the second failure to
\* destroy an object is not looked at.
UndoFirst(m, from, o, next) ==
  /\ mpc[m] = from
  /\ Destroys(o, UNCHANGED reported, reported' = [reported EXCEPT ![m] = @ \/ from = "undo private"])
  /\ Moves(m, next)
  /\ UNCHANGED <<finderVars, value>>

\* destroyKeyPair tries both, and remembers whether one failed.
Undo(m, from, o, next) ==
  /\ mpc[m] = from
  /\ Destroys(o, UNCHANGED reported, reported' = [reported EXCEPT ![m] = TRUE])
  /\ Moves(m, next)
  /\ UNCHANGED <<finderVars, value>>

DestroyKeyPair(m) ==
  \/ Undo(m, "undo private", value[m].priv, "undo public")
  \/ Undo(m, "undo public", value[m].pub, "failed")

\* A key pair that was found.
Adopt(m) ==
  /\ mpc[m] = "idle"
  /\ \E f \in Finders : pc[f] = "done" /\ call[f].kind \in PairKinds \cup {"kem"} /\
       \E v \in found[f] : value' = [value EXCEPT ![m] = v]
  /\ Moves(m, "has")
  /\ UNCHANGED <<tokenVars, historyVars, finderVars, reported>>

\* Delete.  If it fails on the private half it may be tried again; after that
\* the key has no handle of it any more, and every further call fails.
DeletePrivate(m) ==
  /\ mpc[m] = "has"
  /\ Destroys(value[m].priv, Moves(m, IF value[m].pub = None THEN "deleted" ELSE "delete public"),
              UNCHANGED mpc)
  /\ UNCHANGED <<finderVars, value, reported>>

DeletePublic(m) ==
  /\ mpc[m] = "delete public"
  /\ Destroys(value[m].pub, Moves(m, "deleted"), Moves(m, "half deleted"))
  /\ UNCHANGED <<finderVars, value, reported>>

Make(m) ==
  \/ GenerateKeyPair(m) \/ GenerateMLKEMKeyPair(m) \/ Export(m) \/ DestroyKeyPair(m)
  \/ Adopt(m) \/ DeletePrivate(m) \/ DeletePublic(m)

Next ==
  \/ \E o \in Foreign : Others(o)
  \/ \E f \in Finders : Find(f)
  \/ \E m \in Makers : Make(m)

Spec == Init /\ [][Next]_vars

----------------------------------------------------------------------------
(* Properties.                                                             *)

Pairs == [priv : Objects, pub : Objects \cup {None}, cert : Objects \cup {None},
                 key : STRING, proof : BOOLEAN]

Looks == [at : Objects \cup {None}, primary : SUBSET Objects, secondary : SUBSET Objects,
          certs : SUBSET Objects, proof : BOOLEAN,
          half : Objects \cup {None}, cert : Objects \cup {None}, links : SUBSET Objects]

\* Every variable has a value of its type.
TypeOK ==
  /\ live \subseteq Objects /\ gone \subseteq Objects \ live
  /\ pc \in [Finders -> {"idle", "list", "next", "primary", "secondary", "verifier",
                         "certs", "choose", "build", "hop", "links", "done", "error"}]
  /\ call \in [Finders -> Asked \cup {NoCall}]
  /\ todo \in [Finders -> SUBSET Objects]
  /\ look \in [Finders -> Looks]
  /\ found \in [Finders -> SUBSET Pairs]
  /\ steady \in [Finders -> SUBSET live] /\ disturbed \in [Finders -> BOOLEAN]
  /\ failed \in [Finders -> BOOLEAN]
  /\ mpc \in [Makers -> {"idle", "export", "undo private", "undo public", "failed", "has",
                         "delete public", "half deleted", "deleted"}]
  /\ value \in [Makers -> Pairs \cup {NoValue}]
  /\ reported \in [Makers -> BOOLEAN]

\* The public key objects that are found first for a private key, and are of
\* its key.
OwnHalves(o) ==
  {h \in Objects : /\ Class(h) = "public" /\ Type(h) = Type(o) /\ Key(h) = Key(o)
                   /\ Matches(h, Id(o), Label(o)) /\ Sound(h)}

\* A private key that tells its public half is never given another one,
\* whatever other sessions create and destroy in the meantime: at most the key
\* has gone since, or the token has failed to tell.
Genuine ==
  \A f \in Finders : \A v \in found[f] :
    v.priv \in live /\ Evidence(v.priv) = "attribute" /\ ~failed[f] => v.key = Key(v.priv)

\* A private key, even one that tells nothing, is not given another key while
\* its own public half is there: it is rather not returned at all.
NeverReplaced ==
  \A f \in Finders : \A v \in found[f] :
    OwnHalves(v.priv) \cap steady[f] # {} /\ ~failed[f] => v.key = Key(v.priv)

\* What an enumeration is meant to return: every key that was asked for, and,
\* for a key pair, has a name, tells its public half and has it on the token.
Returnable(f, o) ==
  LET c == call[f] IN
  /\ Matches(o, c.id, c.label)
  /\ \/ c.kind = "privates" /\ Class(o) = "private" /\ Type(o) \in Signers
     \/ c.kind = "rsa privates" /\ Class(o) = "private" /\ Type(o) = "rsa"
     \/ c.kind = "secrets" /\ Class(o) = "secret" /\ Type(o) \in Ciphers
     \/ /\ Class(o) = "private" /\ Evidence(o) = "attribute"
        /\ Id(o) # None \/ Label(o) # None
        /\ OwnHalves(o) \cap steady[f] # {}
        /\ \/ c.kind = "pairs" /\ Type(o) \in Signers
           \/ c.kind = "rsa pairs" /\ Type(o) = "rsa"
           \/ c.kind = "kem" /\ Type(o) = "kem"
           \/ /\ c.kind = "certified" /\ Type(o) \in Signers /\ Id(o) # None
              /\ \E h \in steady[f] : /\ Class(h) = "certificate" /\ Sound(h)
                                          /\ Key(h) = Key(o) /\ Id(h) = Id(o)

\* An enumeration that succeeds returns every such key that was on the token
\* all the time, whatever else there is with the same id or label.
Complete ==
  \A f \in Finders : pc[f] = "done" /\ ~failed[f] =>
    \A o \in steady[f] : Returnable(f, o) => \E v \in found[f] : v.priv = o

\* An enumeration fails only if the token fails, or an object was destroyed
\* under it, or if there is a private key without id and label (getKeyPair) or,
\* for the pairs with their certificates' issuers, a malformed certificate.
NotHidden ==
  \A f \in Finders : pc[f] = "error" =>
    \/ failed[f] \/ disturbed[f]
    \/ call[f].kind \in PairKinds /\ \E o \in live : Class(o) = "private" /\ Id(o) = None /\ Label(o) = None
    \/ call[f].kind = "certified" /\ \E o \in live : Class(o) = "certificate" /\ ~Sound(o)

\* What keys.go:20 and keys.go:31 say: a key without an id, or one of a kind
\* that this package does not know, is skipped and hides no other key.
OddKeysSkipped == \A f \in Finders : pc[f] = "error" => failed[f] \/ disturbed[f]

\* A generation that fails and does not say that it left something behind has
\* not, and nothing is left after Delete.  A Delete that fails half-way, which
\* cannot be called again, has left the public half, not the private one.
NothingLeft ==
  \A m \in Makers :
    /\ mpc[m] = "deleted" \/ (mpc[m] = "failed" /\ ~reported[m]) =>
         value[m].priv \notin live /\ value[m].pub \notin live
    /\ mpc[m] = "half deleted" => value[m].priv \notin live

\* Delete destroys the halves of the key pair, and, if the pair was verified,
\* those of no other key; never a certificate.
DeletesOwn ==
  [][\A m \in Makers : mpc'[m] # mpc[m] => \A o \in live \ live' :
       /\ o \in {value[m].priv, value[m].pub} /\ Class(o) # "certificate"
       /\ value[m].proof => Key(o) = Key(value[m].priv)]_vars
=====
