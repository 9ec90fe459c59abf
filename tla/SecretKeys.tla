----------------------------- MODULE SecretKeys -----------------------------
(***************************************************************************)
(* A secret key from its generation to its use with GCM: the loop over the  *)
(* parameters of a cipher and the attribute set it works on (symmetric.go,  *)
(* attributes.go), then Seal and Open with an IV that comes from the caller *)
(* or from the token (aead.go).                                            *)
(*                                                                         *)
(* Each step is one call of the token.  A token answers as it likes; how it *)
(* treats IVs is settled from the start, like the Context's Config.         *)
(***************************************************************************)
EXTENDS Naturals, Sequences

CONSTANTS
  Ciphers,     \* what each SymmetricCipher is
  Templates,   \* the attribute sets callers start from
  IVLengths,   \* what Config.GCMIVLength may be
  MaxIVs,      \* bound: IVs made in a behaviour
  Nothing

Attributes == {"key type", "encrypt", "decrypt", "sign", "extractable"}

\* A cipher must have parameters: the code says so.
ASSUME CipherAssumption ==
  /\ \A c \in DOMAIN Ciphers :
       /\ Ciphers[c].genParams \in Seq([keyType : STRING, genMech : STRING])
       /\ Ciphers[c].genParams # <<>>
  /\ \A t \in Templates : DOMAIN t \subseteq Attributes
  /\ IVLengths \subseteq Nat

MinGCMNonceSize == 12
OtherLengths == {0, 1}   \* of nonces that are not NonceSize() long

VARIABLES
  step, cipher, n,   \* where the caller is, its cipher and the parameters tried
  own, template,   \* the attribute set it passed, and what has become of it
  made,            \* the attributes of the keys on the token
  key,             \* those of the key it was given
  config,          \* of the Context: hsmIV, supplyEncrypt, supplyDecrypt, length
  token,           \* what it does with an IV it is given, and without one
  ivs,             \* how many IVs were made
  nonce,           \* the caller's nonce slice
  sealed, opened   \* what Seal returned, and what came of the last Open

generateVars == <<cipher, n, own, template, made, key>>
setupVars == <<config, token>>
gcmVars == <<ivs, nonce, sealed, opened>>
keyVars == <<step, generateVars, setupVars, gcmVars>>

\* An IV or nonce has a length and a number, 0 in a constant one.
IV(length, number) == [length |-> length, number |-> number]

Configs == [hsmIV : BOOLEAN, supplyEncrypt : BOOLEAN, supplyDecrypt : BOOLEAN, length : IVLengths]
Tokens == [given : {"uses it", "fills it in", "overwrites it"}, without : {"appends one", "uses none"}]

NoAttributes == [a \in {} |-> Nothing]

KeyInit ==
  /\ step = "idle" /\ cipher = Nothing /\ n = 0
  /\ own = NoAttributes /\ template = NoAttributes
  /\ made = {} /\ key = Nothing
  /\ config \in Configs
  /\ token \in Tokens
  /\ ivs = 0
  /\ nonce = IV(0, 0)
  /\ sealed = {} /\ opened = Nothing

----------------------------------------------------------------------------
(* Attribute sets.                                                         *)

AddIfNotPresent(a, additional) ==
  [t \in DOMAIN a \cup DOMAIN additional |-> IF t \in DOMAIN a THEN a[t] ELSE additional[t]]

Set(a, type, value) == [t \in DOMAIN a \cup {type} |-> IF t = type THEN value ELSE a[t]]
Unset(a, types) == [t \in DOMAIN a \ types |-> a[t]]

----------------------------------------------------------------------------
(* Generation: GenerateSecretKeyWithAttributes.                            *)

GenParams == Ciphers[cipher].genParams

\* The attributes that matter here; CKA_SIGN stands for CKA_VERIFY,
\* CKA_EXTRACTABLE for the others that depend on nothing.
Defaults(c) ==
  [encrypt |-> Ciphers[c].encrypt, decrypt |-> Ciphers[c].encrypt,
   sign |-> Ciphers[c].mac, extractable |-> "no"]

\* The template may be one that an earlier call, which failed, has filled in.
Generate ==
  /\ step \in {"idle", "failed"}
  /\ \E c \in DOMAIN Ciphers, t \in Templates \cup {template} :
       /\ cipher' = c
       /\ own' = t
       /\ template' = AddIfNotPresent(t, Defaults(c))
  /\ n' = 1
  /\ step' = "try"
  /\ UNCHANGED <<made, key, setupVars, gcmVars>>

LastParams == n = Len(GenParams)

\* mechanismAvailable: the token says that it has no such mechanism.
Unavailable ==
  /\ step = "try" /\ ~LastParams
  /\ n' = n + 1
  /\ UNCHANGED <<step, cipher, own, template, made, key, setupVars, gcmVars>>

\* C_GenerateKey makes a key.
Makes(attributes) ==
  /\ made' = made \cup {attributes}
  /\ key' = attributes
  /\ step' = "made"
  /\ UNCHANGED <<cipher, n, own>>

\* The errors by which a token says that it does not know such a pair.
Unknown == {"CKR_TEMPLATE_INCONSISTENT", "CKR_ATTRIBUTE_VALUE_INVALID",
            "CKR_MECHANISM_INVALID", "CKR_ATTRIBUTE_TYPE_INVALID"}
TokenErrors == Unknown \cup {"CKR_ARGUMENTS_BAD", "CKR_DEVICE_MEMORY"}

Passes(error) ==
  /\ IF ~LastParams /\ error \in Unknown THEN step' = "try" /\ n' = n + 1
     ELSE step' = "failed" /\ UNCHANGED n
  /\ UNCHANGED <<cipher, own, made, key>>

Try ==
  LET typed == Set(template, "key type", GenParams[n].keyType) IN
  /\ step = "try"
  /\ template' = typed
  /\ \/ Makes(typed)
     \/ \E error \in TokenErrors :
          IF error = "CKR_ARGUMENTS_BAD" /\ GenParams[n].genMech = "generic" THEN
            /\ step' = "try without"
            /\ UNCHANGED <<cipher, n, own, made, key>>
          ELSE Passes(error)
  /\ UNCHANGED <<setupVars, gcmVars>>

\* Defect: the caller's template
\* keeps what the key has not.
TryWithoutTelling ==
  LET adjusted == Unset(template, {"encrypt", "decrypt"}) IN
  /\ step = "try without"
  /\ Makes(adjusted) \/ (\E error \in TokenErrors : Passes(error))
  /\ UNCHANGED <<template, setupVars, gcmVars>>

\* The special case of CloudHSM.
TryWithout ==
  LET adjusted == Unset(template, {"encrypt", "decrypt"}) IN
  /\ step = "try without"
  /\ \/ Makes(adjusted) /\ template' = adjusted
     \/ \E error \in TokenErrors : Passes(error) /\ UNCHANGED template
  /\ UNCHANGED <<setupVars, gcmVars>>

----------------------------------------------------------------------------
(* GCM.                                                                    *)

NewGCM ==
  /\ step = "made" /\ Ciphers[cipher].gcm
  /\ config.length >= MinGCMNonceSize
  /\ step' = "gcm"
  /\ UNCHANGED <<generateVars, setupVars, gcmVars>>

\* ivSupplied and makeMech: whether the nonce goes to the token.
Supplied(supply) == ~config.hsmIV \/ supply

CallersIV == IV(config.length, ivs + 1)
TokensIV == IV(config.length, ivs + 2)
Constant == IV(config.length, 0)

\* What callers pass: never a nonce of theirs twice, unless it is a constant of
\* another length; but if the IV is the token's, a slice that holds anything.
Nonces ==
  {IV(l, 0) : l \in OtherLengths} \cup
  (IF config.hsmIV THEN {Constant, nonce} ELSE {CallersIV})

\* The IV that the token encrypts with ...
UsedIV(passed) ==
  IF Supplied(config.supplyEncrypt) THEN
    IF token.given = "overwrites it" \/ (token.given = "fills it in" /\ passed = Constant)
    THEN TokensIV ELSE passed
  ELSE IF token.without = "appends one" THEN TokensIV ELSE IV(0, 0)

\* ... and whether it is at the end of what it returns.
Appends == ~Supplied(config.supplyEncrypt) /\ token.without = "appends one"

Acceptable(passed) ==
  passed.length = config.length \/ (~Supplied(config.supplyEncrypt) /\ passed.length = 0)

\* Defect: any output will do.
GeneratedAnyway(passed) == TRUE

\* With UseGCMIVFromHSM Seal makes sure that the token has generated an IV: the
\* buffer has changed, or the output is long enough.
Generated(passed) ==
  IF ~config.hsmIV THEN TRUE
  ELSE IF config.supplyEncrypt THEN UsedIV(passed) # passed
  ELSE Appends

\* Defect: the token's IV is
\* not copied into the slice.
SliceUnchanged(passed) == passed

SliceAfter(passed) ==
  IF config.hsmIV /\ config.supplyEncrypt THEN UsedIV(passed) ELSE passed

\* Seal.  In any other case it panics.
Seal ==
  /\ step = "gcm" /\ ivs + 2 <= MaxIVs
  /\ \E passed \in Nonces :
       \/ /\ Acceptable(passed) /\ Generated(passed)
          /\ nonce' = SliceAfter(passed)
          /\ sealed' = sealed \cup {[number |-> ivs, iv |-> UsedIV(passed),
                                     nonce |-> SliceAfter(passed), appended |-> Appends]}
       \/ nonce' = passed /\ UNCHANGED sealed
  /\ ivs' = ivs + 2
  /\ UNCHANGED <<step, generateVars, setupVars, opened>>

\* What Open lets the token decrypt with: the nonce as Seal left it, or what is
\* at the end of the ciphertext, which is none of it otherwise.
Recovered(m) ==
  IF Supplied(config.supplyDecrypt)
  THEN m.nonce.length = config.length /\ m.nonce = m.iv /\ ~m.appended
  ELSE m.appended \/ m.iv = IV(0, 0)

Open ==
  /\ step = "gcm"
  /\ \E m \in sealed : opened' = [of |-> m, recovered |-> Recovered(m)]
  /\ UNCHANGED <<step, generateVars, setupVars, ivs, nonce, sealed>>

KeyNext ==
  \/ Generate \/ Unavailable \/ Try \/ TryWithout
  \/ NewGCM \/ Seal \/ Open

KeySpec == KeyInit /\ [][KeyNext]_keyVars

----------------------------------------------------------------------------
(* Properties.                                                             *)

IsIV(v) == v = IV(v.length, v.number) /\ v.length \in Nat /\ v.number \in Nat

\* Every variable has a value of its type.
KeyTypeOK ==
  /\ step \in {"idle", "try", "try without", "failed", "made", "gcm"}
  /\ step # "idle" => cipher \in DOMAIN Ciphers /\ n \in 1..Len(GenParams)
  /\ DOMAIN template \subseteq Attributes
  /\ config \in Configs /\ token \in Tokens
  /\ ivs \in Nat /\ IsIV(nonce)
  /\ \A m \in sealed : IsIV(m.iv) /\ IsIV(m.nonce) /\ m.appended \in BOOLEAN
  /\ opened # Nothing => opened.of \in sealed /\ opened.recovered \in BOOLEAN

\* However many parameters and templates were tried: a call that fails leaves no
\* key behind; one that succeeds has made one key, of a type that its cipher
\* lists, the caller's template tells its attributes, and they are those the
\* caller asked for, but for the type and the two that CloudHSM does not accept.
KeyAsTold ==
  IF step \notin {"made", "gcm"} THEN made = {}
  ELSE /\ made = {key} /\ template = key
       /\ key["key type"] = GenParams[n].keyType
       /\ \A a \in DOMAIN own \ {"key type"} :
            IF a \in DOMAIN key THEN key[a] = own[a]
            ELSE a \in {"encrypt", "decrypt"} /\ GenParams[n].genMech = "generic"

\* No two messages that Seal returned were encrypted with the same IV, even if
\* the token does not generate the IVs it is meant to, the slice is used again
\* or a nonce is a constant of the wrong length.
IVsFresh == \A a, b \in sealed : a.iv = b.iv => a = b

\* The Config says for both directions the same of the IV, and what is true of
\* the token.
Consistent ==
  IF config.hsmIV THEN config.supplyEncrypt = config.supplyDecrypt
  ELSE token.given = "uses it"

\* Whoever generates the IV, Open recovers what Seal returned from it and the
\* nonce slice as Seal left it.
OpensWhatWasSealed == opened # Nothing /\ Consistent => opened.recovered
=============================================================================
