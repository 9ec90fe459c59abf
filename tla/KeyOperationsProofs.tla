------------------------- MODULE KeyOperationsProofs -------------------------
(***************************************************************************)
(* Theorems about SecretKeys, for any ciphers, templates and IV lengths, and *)
(* about RSASignatures, for moduli and salts of any length.                 *)
(***************************************************************************)
EXTENDS SecretKeys, RSASignatures, TLAPS

----------------------------------------------------------------------------
(* Type correctness.                                                       *)

LEMMA TypeInit == ASSUME KeyInit PROVE KeyTypeOK
BY CipherAssumption DEF KeyInit, KeyTypeOK, NoAttributes, IV, IsIV

LEMMA DefaultAttributes ==
  ASSUME NEW c, NEW t, DOMAIN t \subseteq Attributes
  PROVE  DOMAIN AddIfNotPresent(t, Defaults(c)) \subseteq Attributes
BY DEF AddIfNotPresent, Defaults, Attributes

LEMMA IVTyped == ASSUME NEW l \in Nat, NEW i \in Nat PROVE IsIV(IV(l, i))
BY DEF IsIV, IV

LEMMA AcceptedIVs ==
  ASSUME KeyTypeOK, NEW passed \in Nonces
  PROVE  IsIV(passed) /\ IsIV(UsedIV(passed)) /\ IsIV(SliceAfter(passed))
<1>1. config.length \in Nat /\ ivs \in Nat /\ ivs + 1 \in Nat /\ ivs + 2 \in Nat
  <2>1. config.length \in IVLengths
    BY DEF KeyTypeOK, Configs
  <2>2. config.length \in Nat
    BY <2>1, CipherAssumption
  <2>3. ivs \in Nat
    BY DEF KeyTypeOK
  <2> QED
    BY <2>2, <2>3
<1>2. IsIV(Constant) /\ IsIV(CallersIV) /\ IsIV(TokensIV) /\ IsIV(IV(0, 0))
  BY <1>1, IVTyped DEF Constant, CallersIV, TokensIV
<1>3. \A l \in OtherLengths : IsIV(IV(l, 0))
  BY IVTyped DEF OtherLengths
<1>4. IsIV(nonce)
  BY DEF KeyTypeOK
<1>5. IsIV(passed)
  BY <1>2, <1>3, <1>4 DEF Nonces
<1>6. IsIV(UsedIV(passed))
  BY <1>2, <1>5 DEF UsedIV
<1> QED
  BY <1>5, <1>6 DEF SliceAfter

\* Where there are more parameters to try, the next is one of them.
LEMMA NextParams ==
  ASSUME KeyTypeOK, step # "idle", n' = n \/ (~LastParams /\ n' = n + 1)
  PROVE  n' \in 1..Len(GenParams)
<1>1. Len(GenParams) \in Nat
  <2>1. cipher \in DOMAIN Ciphers
    BY DEF KeyTypeOK
  <2>2. GenParams \in Seq([keyType : STRING, genMech : STRING])
    BY <2>1, CipherAssumption DEF GenParams
  <2> QED
    BY <2>2
<1>2. n \in 1..Len(GenParams)
  BY DEF KeyTypeOK
<1> QED
  BY <1>1, <1>2 DEF LastParams

LEMMA TypeNext == ASSUME KeyTypeOK, [KeyNext]_keyVars PROVE KeyTypeOK'
<1>1. CASE Generate
  <2>1. PICK c \in DOMAIN Ciphers, t \in Templates \cup {template} :
          cipher' = c /\ template' = AddIfNotPresent(t, Defaults(c))
    BY <1>1 DEF Generate
  <2>2. DOMAIN template' \subseteq Attributes
    BY <2>1, DefaultAttributes, CipherAssumption DEF KeyTypeOK
  <2>3. n' \in 1..Len(Ciphers[cipher'].genParams)
    BY <1>1, <2>1, CipherAssumption DEF Generate
  <2> QED
    BY <1>1, <2>1, <2>2, <2>3 DEF Generate, KeyTypeOK, GenParams, setupVars, gcmVars, IsIV, IV
<1>2. CASE Unavailable
  BY <1>2, CipherAssumption DEF Unavailable, LastParams, KeyTypeOK, GenParams, setupVars, gcmVars, IsIV, IV
<1>3. CASE Try
  <2>1. DOMAIN template' \subseteq Attributes
    BY <1>3 DEF Try, Set, KeyTypeOK, Attributes
  <2>2. cipher' = cipher /\ n' \in 1..Len(GenParams) /\ step' \in {"try", "try without", "failed", "made"}
    <3>1. cipher' = cipher /\ (n' = n \/ (~LastParams /\ n' = n + 1))
      BY <1>3 DEF Try, Makes, Passes
    <3>2. step' \in {"try", "try without", "failed", "made"}
      BY <1>3 DEF Try, Makes, Passes
    <3> QED
      BY <1>3, <3>1, <3>2, NextParams DEF Try
  <2> QED
    BY <1>3, <2>1, <2>2 DEF Try, KeyTypeOK, GenParams, setupVars, gcmVars, IsIV, IV
<1>4. CASE TryWithout
  <2>1. DOMAIN template' \subseteq Attributes
    BY <1>4 DEF TryWithout, Unset, KeyTypeOK
  <2>2. cipher' = cipher /\ n' \in 1..Len(GenParams) /\ step' \in {"try", "failed", "made"}
    <3>1. cipher' = cipher /\ (n' = n \/ (~LastParams /\ n' = n + 1))
      BY <1>4 DEF TryWithout, Makes, Passes
    <3>2. step' \in {"try", "failed", "made"}
      BY <1>4 DEF TryWithout, Makes, Passes
    <3> QED
      BY <1>4, <3>1, <3>2, NextParams DEF TryWithout
  <2> QED
    BY <1>4, <2>1, <2>2 DEF TryWithout, KeyTypeOK, GenParams, setupVars, gcmVars, IsIV, IV
<1>5. CASE NewGCM
  BY <1>5 DEF NewGCM, KeyTypeOK, GenParams, generateVars, setupVars, gcmVars, IsIV, IV
<1>6. CASE Seal
  <2>1. PICK passed \in Nonces :
          \/ /\ nonce' = SliceAfter(passed)
             /\ sealed' = sealed \cup {[number |-> ivs, iv |-> UsedIV(passed),
                                        nonce |-> SliceAfter(passed), appended |-> Appends]}
          \/ nonce' = passed /\ sealed' = sealed
    BY <1>6 DEF Seal
  <2>2. IsIV(nonce') /\ \A m \in sealed' : IsIV(m.iv) /\ IsIV(m.nonce) /\ m.appended \in BOOLEAN
    <3>1. Appends \in BOOLEAN
      BY DEF Appends, Supplied
    <3>2. IsIV(passed) /\ IsIV(UsedIV(passed)) /\ IsIV(SliceAfter(passed))
      BY AcceptedIVs
    <3>3. \A m \in sealed : IsIV(m.iv) /\ IsIV(m.nonce) /\ m.appended \in BOOLEAN
      BY DEF KeyTypeOK
    <3>4. \A m \in sealed' : \/ m \in sealed
                             \/ /\ m.iv = UsedIV(passed) /\ m.nonce = SliceAfter(passed)
                                /\ m.appended = Appends
      BY <2>1
    <3>5. IsIV(nonce')
      BY <2>1, <3>2
    <3> QED
      BY <3>1, <3>2, <3>3, <3>4, <3>5
  <2> QED
    BY <1>6, <2>1, <2>2 DEF Seal, KeyTypeOK, GenParams, generateVars, setupVars
<1>7. CASE Open
  <2>1. PICK m \in sealed : opened' = [of |-> m, recovered |-> Recovered(m)]
    BY <1>7 DEF Open
  <2>2. Recovered(m) \in BOOLEAN
    BY DEF Recovered, KeyTypeOK
  <2> QED
    BY <1>7, <2>1, <2>2 DEF Open, KeyTypeOK, GenParams, generateVars, setupVars, IsIV, IV
<1>8. CASE UNCHANGED keyVars
  BY <1>8 DEF keyVars, generateVars, setupVars, gcmVars, KeyTypeOK, GenParams, IsIV, IV
<1> QED
  BY <1>1, <1>2, <1>3, <1>4, <1>5, <1>6, <1>7, <1>8 DEF KeyNext

\* Every variable keeps its type, in the generation of a key and in GCM.
THEOREM TypeCorrect == KeySpec => []KeyTypeOK
BY TypeInit, TypeNext, PTL DEF KeySpec

----------------------------------------------------------------------------
(* The generation loop.                                                    *)

\* What the caller asked for is in its template, whatever has been added.
Asked ==
  /\ DOMAIN own \subseteq DOMAIN template
  /\ \A a \in DOMAIN own \ {"key type"} : template[a] = own[a]

Generating ==
  /\ step \in {"try", "try without"} => Asked
  /\ step = "try without" =>
       /\ "key type" \in DOMAIN template /\ template["key type"] = GenParams[n].keyType
       /\ GenParams[n].genMech = "generic"

LEMMA TypedTemplate ==
  ASSUME NEW t, NEW value, Asked
  PROVE  LET typed == Set(template, "key type", value) IN
           /\ "key type" \in DOMAIN typed /\ typed["key type"] = value
           /\ DOMAIN own \subseteq DOMAIN typed
           /\ \A a \in DOMAIN own \ {"key type"} : typed[a] = own[a]
BY DEF Asked, Set

LEMMA AdjustedTemplate ==
  ASSUME Asked, "key type" \in DOMAIN template
  PROVE  LET adjusted == Unset(template, {"encrypt", "decrypt"}) IN
           /\ "key type" \in DOMAIN adjusted
           /\ adjusted["key type"] = template["key type"]
           /\ \A a \in DOMAIN own \ {"key type"} :
                IF a \in DOMAIN adjusted THEN adjusted[a] = own[a] ELSE a \in {"encrypt", "decrypt"}
BY DEF Asked, Unset

LEMMA GenerationInit == ASSUME KeyInit PROVE KeyAsTold /\ Generating
BY DEF KeyInit, KeyAsTold, Generating

LEMMA GenerationNext ==
  ASSUME KeyAsTold, Generating, [KeyNext]_keyVars
  PROVE  (KeyAsTold /\ Generating)'
<1>1. CASE Generate
  <2>1. PICK t : own' = t /\ (\E c : template' = AddIfNotPresent(t, Defaults(c)))
    BY <1>1 DEF Generate
  <2>2. Asked'
    BY <2>1 DEF Asked, AddIfNotPresent
  <2> QED
    BY <1>1, <2>2 DEF Generate, KeyAsTold, Generating
<1>2. CASE Unavailable
  BY <1>2 DEF Unavailable, KeyAsTold, Generating, Asked
<1>3. CASE Try
  <2> DEFINE typed == Set(template, "key type", GenParams[n].keyType)
  <2>1. step = "try" /\ made = {} /\ Asked /\ template' = typed /\ own' = own
    BY <1>3 DEF Try, KeyAsTold, Generating, Makes, Passes
  <2>2. /\ "key type" \in DOMAIN typed /\ typed["key type"] = GenParams[n].keyType
        /\ DOMAIN own \subseteq DOMAIN typed
        /\ \A a \in DOMAIN own \ {"key type"} : typed[a] = own[a]
    BY <2>1, TypedTemplate
  <2> HIDE DEF typed
  <2>3. Asked'
    BY <2>1, <2>2 DEF Asked
  <2>4. CASE Makes(typed)
    <3>1. GenParams' = GenParams /\ n' = n /\ made' = {typed} /\ key' = typed /\ step' = "made"
      BY <2>1, <2>4 DEF Makes, GenParams
    <3> QED
      BY <2>1, <2>2, <3>1 DEF KeyAsTold, Generating
  <2>5. CASE /\ step' = "try without" /\ GenParams[n].genMech = "generic"
             /\ UNCHANGED <<cipher, n, own, made, key>>
    BY <2>1, <2>2, <2>3, <2>5 DEF KeyAsTold, Generating, GenParams
  <2>6. CASE \E error \in TokenErrors : Passes(error)
    BY <2>1, <2>3, <2>6 DEF KeyAsTold, Generating, Passes
  <2> QED
    BY <1>3, <2>4, <2>5, <2>6 DEF Try, typed
<1>4. CASE TryWithout
  <2> DEFINE adjusted == Unset(template, {"encrypt", "decrypt"})
  <2>1. step = "try without" /\ made = {} /\ Asked /\ own' = own
    BY <1>4 DEF TryWithout, KeyAsTold, Generating, Makes, Passes
  <2>2. /\ "key type" \in DOMAIN template /\ template["key type"] = GenParams[n].keyType
        /\ GenParams[n].genMech = "generic"
    BY <2>1 DEF Generating
  <2>3. /\ "key type" \in DOMAIN adjusted /\ adjusted["key type"] = GenParams[n].keyType
        /\ \A a \in DOMAIN own \ {"key type"} :
             IF a \in DOMAIN adjusted THEN adjusted[a] = own[a] ELSE a \in {"encrypt", "decrypt"}
    BY <2>1, <2>2, AdjustedTemplate
  <2> HIDE DEF adjusted
  <2>4. CASE Makes(adjusted) /\ template' = adjusted
    <3>1. GenParams' = GenParams /\ n' = n /\ made' = {adjusted} /\ key' = adjusted /\ step' = "made"
      BY <2>1, <2>4 DEF Makes, GenParams
    <3> QED
      BY <2>1, <2>2, <2>3, <2>4, <3>1 DEF KeyAsTold, Generating
  <2>5. CASE \E error \in TokenErrors : Passes(error) /\ UNCHANGED template
    BY <2>1, <2>5 DEF KeyAsTold, Generating, Passes, Asked
  <2> QED
    BY <1>4, <2>4, <2>5 DEF TryWithout, adjusted
<1>5. CASE NewGCM
  BY <1>5 DEF NewGCM, generateVars, KeyAsTold, Generating, GenParams
<1>6. CASE Seal \/ Open
  BY <1>6 DEF Seal, Open, generateVars, KeyAsTold, Generating, GenParams
<1>7. CASE UNCHANGED keyVars
  BY <1>7 DEF keyVars, generateVars, KeyAsTold, Generating, GenParams, Asked
<1> QED
  BY <1>1, <1>2, <1>3, <1>4, <1>5, <1>6, <1>7 DEF KeyNext

\* Whatever pairs of key type and mechanism a cipher lists and however the token
\* answers, a key has the attributes the caller's template tells, and is the
\* only one that the loop has made.
THEOREM GeneratedAsTold == KeySpec => []KeyAsTold
<1>1. KeyInit => KeyAsTold /\ Generating
  BY GenerationInit
<1>2. KeyAsTold /\ Generating /\ [KeyNext]_keyVars => (KeyAsTold /\ Generating)'
  BY GenerationNext
<1> QED
  BY <1>1, <1>2, PTL DEF KeySpec

----------------------------------------------------------------------------
(* GCM.                                                                    *)

\* The IVs of what is sealed were made one after the other, and Open would
\* recover it if it is right about the IV; the nonces are of the right length.
GCMInv ==
  /\ step = "gcm" => config.length >= MinGCMNonceSize
  /\ \A m \in sealed : m.iv.number <= ivs
  /\ Consistent => \A m \in sealed : Recovered(m)
  /\ opened # Nothing /\ Consistent => opened.recovered

LEMMA Components == \A l, i : IV(l, i).length = l /\ IV(l, i).number = i
BY DEF IV

\* An accepted nonce of the right length is no constant.
LEMMA NonceOfCaller ==
  ASSUME KeyTypeOK, GCMInv, step = "gcm", ~config.hsmIV,
         NEW passed \in Nonces, Acceptable(passed)
  PROVE  passed = CallersIV
<1>1. passed.length = config.length
  BY DEF Acceptable, Supplied
<1>2. config.length >= 12
  BY DEF GCMInv, MinGCMNonceSize
<1>3. config.length \in Nat
  <2>1. config.length \in IVLengths
    BY DEF KeyTypeOK, Configs
  <2> QED
    BY <2>1, CipherAssumption
<1>4. ASSUME NEW l \in OtherLengths, passed = IV(l, 0) PROVE FALSE
  BY <1>1, <1>2, <1>3, <1>4, Components DEF OtherLengths
<1> QED
  BY <1>4 DEF Nonces

\* Every IV that Seal accepts is a new one.
LEMMA NewIV ==
  ASSUME KeyTypeOK, GCMInv, step = "gcm",
         NEW passed \in Nonces, Acceptable(passed), Generated(passed)
  PROVE  UsedIV(passed) \in {CallersIV, TokensIV}
<1>1. CASE ~config.hsmIV
  BY <1>1, NonceOfCaller DEF UsedIV, Supplied
<1>2. CASE config.hsmIV /\ config.supplyEncrypt
  BY <1>2 DEF Generated, UsedIV, Supplied
<1>3. CASE config.hsmIV /\ ~config.supplyEncrypt
  BY <1>3 DEF Generated, UsedIV, Appends, Supplied
<1> QED
  BY <1>1, <1>2, <1>3

LEMMA Recoverable ==
  ASSUME KeyTypeOK, GCMInv, step = "gcm", Consistent,
         NEW passed \in Nonces, Acceptable(passed), Generated(passed),
         NEW m, m.iv = UsedIV(passed), m.nonce = SliceAfter(passed), m.appended = Appends
  PROVE  Recovered(m)
<1>1. CASE ~config.hsmIV
  <2>1. UsedIV(passed) = passed /\ SliceAfter(passed) = passed /\ ~Appends
    BY <1>1 DEF Consistent, UsedIV, SliceAfter, Appends, Supplied
  <2>2. passed.length = config.length
    BY <1>1, NonceOfCaller, Components DEF CallersIV
  <2> QED
    BY <1>1, <2>1, <2>2 DEF Recovered, Supplied
<1>2. CASE config.hsmIV /\ config.supplyEncrypt
  <2>1. UsedIV(passed) = TokensIV /\ SliceAfter(passed) = UsedIV(passed) /\ ~Appends
    BY <1>2 DEF Generated, UsedIV, SliceAfter, Appends, Supplied
  <2>2. TokensIV.length = config.length
    BY Components DEF TokensIV
  <2> QED
    BY <1>2, <2>1, <2>2 DEF Recovered, Supplied, Consistent
<1>3. CASE config.hsmIV /\ ~config.supplyEncrypt
  BY <1>3 DEF Generated, Recovered, Supplied, Consistent
<1> QED
  BY <1>1, <1>2, <1>3

LEMMA GCMInit == ASSUME KeyInit PROVE GCMInv /\ IVsFresh
BY DEF KeyInit, GCMInv, IVsFresh

LEMMA GCMNext ==
  ASSUME KeyTypeOK, GCMInv, IVsFresh, [KeyNext]_keyVars
  PROVE  (GCMInv /\ IVsFresh)'
<1>0. ASSUME UNCHANGED <<setupVars, ivs, sealed, opened>>,
             step' = "gcm" => config.length >= MinGCMNonceSize
      PROVE  (GCMInv /\ IVsFresh)'
  <2>1. (\A m : Recovered(m)' <=> Recovered(m)) /\ (Consistent' <=> Consistent)
    BY <1>0 DEF Recovered, Supplied, Consistent, setupVars
  <2> QED
    BY <1>0, <2>1 DEF GCMInv, IVsFresh, setupVars
<1>1. CASE Generate \/ Unavailable \/ Try \/ TryWithout \/ NewGCM
  BY <1>0, <1>1 DEF Generate, Unavailable, Try, TryWithout, Makes, Passes, NewGCM, setupVars, gcmVars
<1>2. CASE Seal
  <2>1. step = "gcm" /\ config' = config /\ token' = token /\ ivs' = ivs + 2 /\ opened' = opened
    BY <1>2 DEF Seal, setupVars
  <2>2. ivs \in Nat /\ \A m \in sealed : IsIV(m.iv)
    BY DEF KeyTypeOK
  <2>3. \A m : Recovered(m)' <=> Recovered(m)
    BY <2>1 DEF Recovered, Supplied
  <2>4. CASE sealed' = sealed
    <3>1. \A m \in sealed : m.iv.number <= ivs + 2
      BY <2>2 DEF GCMInv, IsIV
    <3>2. Consistent' <=> Consistent
      BY <2>1 DEF Consistent
    <3> QED
      BY <2>1, <2>3, <2>4, <3>1, <3>2 DEF GCMInv, IVsFresh
  <2>5. CASE sealed' # sealed
    <3>1. PICK passed \in Nonces :
            /\ Acceptable(passed) /\ Generated(passed)
            /\ sealed' = sealed \cup {[number |-> ivs, iv |-> UsedIV(passed),
                                       nonce |-> SliceAfter(passed), appended |-> Appends]}
      BY <1>2, <2>5 DEF Seal
    <3> DEFINE new == [number |-> ivs, iv |-> UsedIV(passed),
                       nonce |-> SliceAfter(passed), appended |-> Appends]
    <3>2. /\ new.iv = UsedIV(passed) /\ new.nonce = SliceAfter(passed) /\ new.appended = Appends
          /\ sealed' = sealed \cup {new}
      BY <3>1
    <3> HIDE DEF new
    <3>3. new.iv.number \in {ivs + 1, ivs + 2}
      BY <2>1, <3>1, <3>2, NewIV, Components DEF CallersIV, TokensIV
    <3>4. IVsFresh'
      <4>1. \A m \in sealed : m.iv.number <= ivs /\ m.iv.number \in Nat
        BY <2>2 DEF GCMInv, IsIV
      <4>2. \A m \in sealed : m.iv # new.iv
        BY <2>2, <3>3, <4>1
      <4> QED
        BY <3>2, <4>2 DEF IVsFresh
    <3>5. \A m \in sealed' : m.iv.number <= ivs'
      BY <2>1, <2>2, <3>2, <3>3 DEF GCMInv, IsIV
    <3>6. Consistent => Recovered(new)
      BY <2>1, <3>1, <3>2, Recoverable
    <3> QED
      BY <2>1, <2>3, <3>2, <3>4, <3>5, <3>6 DEF GCMInv, Consistent
  <2> QED
    BY <2>4, <2>5
<1>3. CASE Open
  <2>1. PICK m \in sealed : opened' = [of |-> m, recovered |-> Recovered(m)]
    BY <1>3 DEF Open
  <2>2. UNCHANGED <<step, config, token, ivs, sealed>>
    BY <1>3 DEF Open, setupVars
  <2> QED
    BY <2>1, <2>2 DEF GCMInv, IVsFresh, Consistent, Recovered, Supplied
<1>4. CASE UNCHANGED keyVars
  BY <1>4 DEF keyVars, setupVars, gcmVars, GCMInv, IVsFresh, Consistent, Recovered, Supplied
<1> QED
  BY <1>1, <1>2, <1>3, <1>4 DEF KeyNext

\* Every message that Seal returns has an IV of its own, for IVs of any length
\* that NewGCM accepts, whoever makes them.
THEOREM NoIVTwice == KeySpec => []IVsFresh
<1>1. KeyInit => KeyTypeOK /\ GCMInv /\ IVsFresh
  BY TypeInit, GCMInit
<1>2. KeyTypeOK /\ GCMInv /\ IVsFresh /\ [KeyNext]_keyVars => (KeyTypeOK /\ GCMInv /\ IVsFresh)'
  BY TypeNext, GCMNext
<1> QED
  BY <1>1, <1>2, PTL DEF KeySpec

\* What Seal returned can be opened, wherever the IV is, if the Config says the
\* same for both directions.
THEOREM SealedOpens == KeySpec => []OpensWhatWasSealed
<1>1. KeyInit => KeyTypeOK /\ GCMInv /\ IVsFresh
  BY TypeInit, GCMInit
<1>2. KeyTypeOK /\ GCMInv /\ IVsFresh /\ [KeyNext]_keyVars => (KeyTypeOK /\ GCMInv /\ IVsFresh)'
  BY TypeNext, GCMNext
<1>3. GCMInv => OpensWhatWasSealed
  BY DEF GCMInv, OpensWhatWasSealed
<1> QED
  BY <1>1, <1>2, <1>3, PTL DEF KeySpec

----------------------------------------------------------------------------
(* RSA signatures.                                                         *)

\* The limit is the longest salt that fits, and there is one if an empty one does.
LEMMA LongestSalt ==
  ASSUME NEW bits \in Nat, NEW h \in Nat, NEW s \in Int,
         s = (bits - 1 + 7) \div 8 - 2 - h
  PROVE  /\ 8 * (s + h + 1) < bits - 1
         /\ \A t \in Int : 8 * (t + h + 1) < bits - 1 <=> t <= s
<1>1. s + h + 2 = (bits + 6) \div 8
  OBVIOUS
<1> DEFINE e == (bits + 6) \div 8
<1>2. e \in Int /\ 8 * e <= bits + 6 /\ bits + 6 < 8 * e + 8
  OBVIOUS
<1> HIDE DEF e
<1>3. \A t \in Int : 8 * (t + h + 1) < bits - 1 <=> t <= s
  BY <1>1, <1>2 DEF e
<1> QED
  BY <1>3

LEMMA HashLengths == \A h \in DOMAIN HashLen : HashLen[h] \in Nat
BY DEF HashLen

LEMMA Limit ==
  ASSUME NEW r \in Requests, r.hash \in DOMAIN HashLen
  PROVE  /\ \A s \in MaxPSSSaltLength(r) :
              r.known /\ s \in Nat /\ \A t \in Int : Fits(r, t) <=> t <= s
         /\ MaxPSSSaltLength(r) = {} => ~(r.known /\ Fits(r, 0))
<1> DEFINE s == (r.bits - 1 + 7) \div 8 - 2 - HashLen[r.hash]
<1>1. r.bits \in Nat /\ HashLen[r.hash] \in Nat
  BY HashLengths, LengthAssumption DEF Requests
<1>2. s \in Int
  BY <1>1
<1>3. \A t \in Int : Fits(r, t) <=> t <= s
  BY <1>1, <1>2, LongestSalt DEF Fits
<1>4. MaxPSSSaltLength(r) = {x \in {s} : r.known /\ x >= 0}
  BY DEF MaxPSSSaltLength
<1> HIDE DEF s
<1> QED
  BY <1>2, <1>3, <1>4

LEMMA SaltChosen ==
  ASSUME NEW r \in Requests, Hashed(r), NEW s \in PSSSaltLength(r)
  PROVE  AsAsked(r, s)
<1>1. r.hash \in DOMAIN HashLen /\ r.saltLength \in Int
  BY LengthAssumption DEF Hashed, Requests
<1>2. CASE r.saltLength = PSSSaltLengthAuto
  <2>1. s \in MaxPSSSaltLength(r)
    BY <1>2 DEF PSSSaltLength, PSSSaltLengthAuto, PSSSaltLengthEqualsHash
  <2>2. r.known /\ s \in Nat /\ \A t \in Int : Fits(r, t) <=> t <= s
    BY <1>1, <2>1, Limit
  <2>3. Fits(r, s) /\ ~Fits(r, s + 1)
    BY <2>2
  <2> QED
    BY <1>2, <2>2, <2>3 DEF AsAsked, PSSSaltLengthAuto, PSSSaltLengthEqualsHash
<1>3. CASE r.saltLength = PSSSaltLengthEqualsHash
  BY <1>3 DEF PSSSaltLength, AsAsked, PSSSaltLengthAuto, PSSSaltLengthEqualsHash
<1>4. CASE r.saltLength \notin {PSSSaltLengthAuto, PSSSaltLengthEqualsHash}
  <2>1. s = r.saltLength /\ s >= 0 /\ \A limit \in MaxPSSSaltLength(r) : s <= limit
    BY <1>4 DEF PSSSaltLength
  <2>2. ASSUME r.known, Fits(r, 0) PROVE Fits(r, s)
    <3>1. PICK limit \in MaxPSSSaltLength(r) : TRUE
      BY <1>1, <2>2, Limit
    <3>2. Fits(r, s) <=> s <= limit
      BY <1>1, <2>1, <3>1, Limit
    <3> QED
      BY <2>1, <3>2
  <2> QED
    BY <1>4, <2>1, <2>2 DEF AsAsked
<1> QED
  BY <1>2, <1>3, <1>4

LEMMA RightlyRefused ==
  ASSUME NEW r \in Requests, Hashed(r) => PSSSaltLength(r) = {}
  PROVE  Refusable(r)
<1> SUFFICES ASSUME Hashed(r) PROVE Refusable(r)
  BY DEF Refusable, Unsupported, Hashed
<1>1. r.hash \in DOMAIN HashLen /\ r.saltLength \in Int /\ PSSSaltLength(r) = {}
  BY LengthAssumption DEF Hashed, Requests
<1>2. CASE r.saltLength = PSSSaltLengthAuto
  <2>1. MaxPSSSaltLength(r) = {}
    BY <1>1, <1>2 DEF PSSSaltLength
  <2> QED
    BY <1>1, <1>2, <2>1, Limit DEF Refusable
<1>3. r.saltLength # PSSSaltLengthEqualsHash
  BY <1>1 DEF PSSSaltLength, PSSSaltLengthAuto, PSSSaltLengthEqualsHash
<1>4. CASE r.saltLength > 0
  <2>1. PICK limit \in MaxPSSSaltLength(r) : ~(r.saltLength <= limit)
    BY <1>1, <1>3, <1>4 DEF PSSSaltLength, PSSSaltLengthAuto
  <2>2. r.known /\ ~Fits(r, r.saltLength)
    BY <1>1, <2>1, Limit
  <2> QED
    BY <1>4, <2>2 DEF Refusable
<1>5. CASE r.saltLength < 0
  BY <1>1, <1>3, <1>5 DEF Refusable, PSSSaltLengthEqualsHash
<1> QED
  BY <1>1, <1>2, <1>4, <1>5 DEF PSSSaltLengthAuto

LEMMA SigningInit == ASSUME SignInit PROVE request \in Requests /\ SignedAsAsked
BY DEF SignInit, SignedAsAsked

LEMMA SigningNext ==
  ASSUME request \in Requests, SignedAsAsked, [SignNext]_signatureVars
  PROVE  (request \in Requests /\ SignedAsAsked)'
<1>1. request' = request
  BY DEF SignNext, SignPSS, SignPKCS1v15, Refuse, TokenSigns, CheckRSASignature,
         signatureVars
<1>2. CASE SignPSS
  <2>1. CASE /\ Hashed(request) /\ phase' = "token"
             /\ \E s \in PSSSaltLength(request) : salt' = s
    BY <1>1, <1>2, <2>1, SaltChosen DEF SignedAsAsked
  <2>2. CASE (Hashed(request) => PSSSaltLength(request) = {}) /\ Refuse
    BY <1>1, <2>2, RightlyRefused DEF SignedAsAsked, Refuse
  <2> QED
    BY <1>2, <2>1, <2>2 DEF SignPSS
<1>3. CASE SignPKCS1v15
  BY <1>1, <1>3 DEF SignPKCS1v15, Refuse, SignedAsAsked
<1>4. CASE TokenSigns
  BY <1>1, <1>4 DEF TokenSigns, SignedAsAsked
<1>5. CASE CheckRSASignature
  <2>1. request.bits \in Nat
    BY LengthAssumption DEF Requests
  <2>2. salt' = salt /\ phase = "signed" /\ phase' \in {"failed", "returned"}
    BY <1>5 DEF CheckRSASignature
  <2>3. phase' = "returned" => signature' \/ ~request.known \/ request.bits < 1024
    BY <1>5, <2>1 DEF CheckRSASignature
  <2> QED
    BY <1>1, <2>2, <2>3 DEF SignedAsAsked
<1>6. CASE UNCHANGED signatureVars
  BY <1>6 DEF signatureVars, SignedAsAsked
<1> QED
  BY <1>2, <1>3, <1>4, <1>5, <1>6 DEF SignNext

\* With a modulus of any number of bits and any SaltLength: the salt is the one
\* asked for; the longest one fits and no longer one does; an explicit one fits if
\* the modulus is known and has room for any salt (that of the hash's length is
\* left to the token). PSS is refused only for an unlisted hash, a digest of the
\* wrong length, or a salt that does not fit, cannot be computed or means nothing.
\* No wrong signature is returned that could have been checked.
THEOREM Signed == SignSpec => []SignedAsAsked
<1>1. SignInit => request \in Requests /\ SignedAsAsked
  BY SigningInit
<1>2. request \in Requests /\ SignedAsAsked /\ [SignNext]_signatureVars
      => (request \in Requests /\ SignedAsAsked)'
  BY SigningNext
<1> QED
  BY <1>1, <1>2, PTL DEF SignSpec
=============================================================================
