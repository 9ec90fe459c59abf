--------------------------- MODULE KeyPairsProofs ---------------------------
(* What enumerations, generations and deletions of keys promise, for any    *)
(* number of objects and goroutines.                                       *)
EXTENDS KeyPairs, TLAPS

\* A finder looks at one private key, and has settled on its public half.
Settled == {"build", "hop", "links"}
Busy == {"primary", "secondary", "verifier", "certs", "choose"} \cup Settled

\* Types, and that a finder which looks at a key has one.
Typed ==
  /\ TypeOK
  /\ \A f \in Finders :
       /\ pc[f] \in Busy => look[f].at \in todo[f]
       /\ pc[f] \in Settled => look[f].half \in Objects

----------------------------------------------------------------------------
(* The data.                                                               *)

LEMMA DataType ==
  ASSUME NEW o \in Objects
  PROVE  /\ Key(o) \in STRING /\ Type(o) \in Types
         /\ Class(o) \in {"private", "public", "certificate", "secret"}
         /\ o # None
BY ObjectAssumption DEF Key, Type, Class

LEMMA OnlyType == \A o \in Objects : Only(o) \in Pairs
BY DataType DEF Only, NoValue, Pairs

LEMMA FoundTypes ==
  ASSUME TypeOK
  PROVE  /\ NoLook \in Looks
         /\ \A class, types, id, label : FindKeys(class, types, id, label) \subseteq live
         /\ live \subseteq Objects
BY DEF NoLook, Looks, FindKeys, TypeOK

\* What selectPublicHalf returns is one of the candidates, with the outcome
\* that was looked for.
LEMMA FirstWithElement ==
  ASSUME NEW tiers, NEW key, NEW proof, NEW match,
         NEW c \in FirstWith(tiers, key, proof, match)
  PROVE  Check(key, proof, c) = match /\ \E t \in DOMAIN tiers : c \in tiers[t]
BY DEF FirstWith

LEMMA SelectedElement ==
  ASSUME NEW tiers, NEW key, NEW proof \in BOOLEAN, NEW c \in SelectPublicHalf(tiers, key, proof)
  PROVE  /\ proof => Key(c) = key
         /\ \E t \in DOMAIN tiers : c \in tiers[t]
<1>1. \/ c \in FirstWith(tiers, key, proof, "verified")
      \/ c \in FirstWith(tiers, key, proof, "unverified")
  BY DEF SelectPublicHalf
<1>2. \/ Check(key, proof, c) = "verified"
      \/ Check(key, proof, c) = "unverified"
  BY <1>1, FirstWithElement
<1>3. proof => Key(c) = key
  BY <1>2 DEF Check
<1>4. \E t \in DOMAIN tiers : c \in tiers[t]
  BY <1>1, FirstWithElement
<1> QED
  BY <1>3, <1>4

\* A candidate of the first tier with the outcome that is looked for wins over
\* those of the other tiers.
LEMMA FirstTierWins ==
  ASSUME NEW tiers, 1 \in DOMAIN tiers, DOMAIN tiers \subseteq Nat \ {0},
         NEW key, NEW proof, NEW match,
         NEW h \in tiers[1], Check(key, proof, h) = match
  PROVE  /\ h \in FirstWith(tiers, key, proof, match)
         /\ FirstWith(tiers, key, proof, match) \subseteq tiers[1]
<1> DEFINE having == [t \in DOMAIN tiers |-> {c \in tiers[t] : Check(key, proof, c) = match}]
           first == {t \in DOMAIN tiers : \A s \in 1..(t - 1) : having[s] = {}}
<1>1. h \in having[1]
  OBVIOUS
<1>2. 1 \in first
  OBVIOUS
<1>3. ASSUME NEW t \in first PROVE t = 1
  <2>1. t \in Nat \ {0}
    OBVIOUS
  <2>2. t # 1 => 1 \in 1..(t - 1)
    BY <2>1
  <2> QED
    BY <1>1, <2>2
<1>4. FirstWith(tiers, key, proof, match) = UNION {having[t] : t \in first}
  BY DEF FirstWith
<1>5. FirstWith(tiers, key, proof, match) = having[1]
  BY <1>2, <1>3, <1>4
<1> QED
  BY <1>1, <1>5

----------------------------------------------------------------------------
(* Types.                                                                  *)

\* The parts of TypeOK, for the steps that change one of them.
TokenTypes ==
  /\ live \subseteq Objects /\ gone \subseteq Objects \ live
  /\ steady \in [Finders -> SUBSET live] /\ disturbed \in [Finders -> BOOLEAN]
FinderTypes ==
  /\ pc \in [Finders -> {"idle", "list", "next", "primary", "secondary", "verifier",
                         "certs", "choose", "build", "hop", "links", "done", "error"}]
  /\ call \in [Finders -> Asked \cup {NoCall}]
  /\ todo \in [Finders -> SUBSET Objects]
  /\ look \in [Finders -> Looks]
  /\ found \in [Finders -> SUBSET Pairs]
  /\ failed \in [Finders -> BOOLEAN]
MakerTypes ==
  /\ mpc \in [Makers -> {"idle", "export", "undo private", "undo public", "failed", "has",
                         "delete public", "half deleted", "deleted"}]
  /\ value \in [Makers -> Pairs \cup {NoValue}]
  /\ reported \in [Makers -> BOOLEAN]
Looking(f) ==
  /\ pc[f] \in Busy => look[f].at \in todo[f]
  /\ pc[f] \in Settled => look[f].half \in Objects

LEMMA TypedParts ==
  Typed <=> TokenTypes /\ FinderTypes /\ MakerTypes /\ \A f \in Finders : Looking(f)
BY DEF Typed, TypeOK, TokenTypes, FinderTypes, MakerTypes, Looking

LEMMA TypedPartsNext ==
  TokenTypes' /\ FinderTypes' /\ MakerTypes' /\ (\A f \in Finders : Looking(f)') => Typed'
BY DEF Typed, TypeOK, TokenTypes, FinderTypes, MakerTypes, Looking

LEMMA InitTyped == Init => Typed
<1> SUFFICES ASSUME Init PROVE Typed
  OBVIOUS
<1>1. TokenTypes
  BY ObjectAssumption DEF Init, TokenTypes
<1>2. NoLook \in Looks
  BY DEF NoLook, Looks
<1>3. FinderTypes
  BY <1>2 DEF Init, FinderTypes
<1>4. MakerTypes
  BY DEF Init, MakerTypes
<1>5. \A f \in Finders : Looking(f)
  BY DEF Init, Looking, Busy, Settled
<1> QED
  BY <1>1, <1>3, <1>4, <1>5, TypedParts

LEMMA DestroyedTyped ==
  ASSUME TokenTypes, NEW o, Destroyed(o)
  PROVE  TokenTypes'
<1>1. live' \subseteq Objects /\ gone' \subseteq Objects \ live'
  BY DEF TokenTypes, Destroyed
<1>2. steady' \in [Finders -> SUBSET live']
  BY DEF TokenTypes, Destroyed
<1>3. disturbed' \in [Finders -> BOOLEAN]
  BY DEF TokenTypes, Destroyed
<1> QED
  BY <1>1, <1>2, <1>3 DEF TokenTypes

LEMMA AppearsTyped ==
  ASSUME TokenTypes, live' \subseteq live \cup Unborn, live \subseteq live',
         UNCHANGED <<gone, historyVars>>
  PROVE  TokenTypes'
BY DEF TokenTypes, Unborn, historyVars

LEMMA MakersTyped ==
  ASSUME Typed, NEW m \in Makers, Make(m)
  PROVE  Typed'
<1>0. TokenTypes /\ FinderTypes /\ MakerTypes /\ \A f \in Finders : Looking(f)
  BY TypedParts
<1>1. UNCHANGED finderVars
  BY DEF Make, GenerateKeyPair, GenerateMLKEMKeyPair, Generate, Export, DestroyKeyPair, Undo,
         Adopt, DeletePrivate, DeletePublic
<1>2. FinderTypes' /\ \A f \in Finders : Looking(f)'
  BY <1>0, <1>1 DEF FinderTypes, Looking, finderVars
<1>3. ASSUME NEW types, NEW next \in {"export", "has"}, Generate(m, types, next)
      PROVE  TokenTypes' /\ MakerTypes'
  <2>1. PICK a, b \in Unborn :
          /\ live' = live \cup {a, b}
          /\ value' = [value EXCEPT ![m] = [NoValue EXCEPT !.priv = a, !.pub = b, !.key = Key(a), !.proof = TRUE]]
    BY <1>3 DEF Generate
  <2>2. a \in Objects /\ b \in Objects
    BY DEF Unborn
  <2>3. TokenTypes'
    BY <1>0, <1>3, <2>1, AppearsTyped DEF Generate
  <2>4. [NoValue EXCEPT !.priv = a, !.pub = b, !.key = Key(a), !.proof = TRUE] \in Pairs
    BY <2>2, DataType DEF NoValue, Pairs
  <2>5. value' \in [Makers -> Pairs \cup {NoValue}]
    BY <1>0, <2>1, <2>4 DEF MakerTypes
  <2>6. mpc' = [mpc EXCEPT ![m] = next] /\ reported' = reported
    BY <1>3 DEF Generate, Moves
  <2>7. MakerTypes'
    BY <1>0, <2>5, <2>6 DEF MakerTypes
  <2> QED
    BY <2>3, <2>7
<1>4. ASSUME Export(m) \/ Adopt(m) PROVE TokenTypes' /\ MakerTypes'
  <2>1. TokenTypes'
    BY <1>0, <1>4 DEF Export, Adopt, TokenTypes, tokenVars, historyVars
  <2>2. CASE Export(m)
    BY <1>0, <2>1, <2>2 DEF Export, Moves, MakerTypes
  <2>3. CASE Adopt(m)
    <3>1. PICK v \in Pairs : value' = [value EXCEPT ![m] = v]
      BY <1>0, <2>3 DEF Adopt, FinderTypes
    <3> QED
      BY <1>0, <2>1, <2>3, <3>1 DEF Adopt, Moves, MakerTypes
  <2> QED
    BY <1>4, <2>2, <2>3
<1>5. ASSUME NEW from, NEW o, NEW next \in {"undo public", "failed"}, Undo(m, from, o, next)
      PROVE  TokenTypes' /\ MakerTypes'
  <2>1. Destroyed(o) \/ Stays
    BY <1>5 DEF Undo, Destroys
  <2>2. TokenTypes'
    BY <1>0, <2>1, DestroyedTyped DEF Stays, TokenTypes, tokenVars, historyVars
  <2>3. mpc' = [mpc EXCEPT ![m] = next] /\ value' = value
        /\ (reported' = reported \/ reported' = [reported EXCEPT ![m] = TRUE])
    BY <1>5 DEF Undo, Destroys, Moves
  <2>4. MakerTypes'
    BY <1>0, <2>3 DEF MakerTypes
  <2> QED
    BY <2>2, <2>4
<1>6. ASSUME DeletePrivate(m) \/ DeletePublic(m) PROVE TokenTypes' /\ MakerTypes'
  <2>1. (\E o : Destroyed(o)) \/ Stays
    BY <1>6 DEF DeletePrivate, DeletePublic, Destroys
  <2>2. TokenTypes'
    BY <1>0, <2>1, DestroyedTyped DEF Stays, TokenTypes, tokenVars, historyVars
  <2>3. value' = value /\ reported' = reported
    BY <1>6 DEF DeletePrivate, DeletePublic
  <2>4. mpc' = mpc \/ \E next \in {"deleted", "delete public", "half deleted"} : mpc' = [mpc EXCEPT ![m] = next]
    BY <1>6 DEF DeletePrivate, DeletePublic, Destroys, Moves
  <2>5. MakerTypes'
    BY <1>0, <2>3, <2>4 DEF MakerTypes
  <2> QED
    BY <2>2, <2>5
<1>7. TokenTypes' /\ MakerTypes'
  BY <1>3, <1>4, <1>5, <1>6 DEF Make, GenerateKeyPair, GenerateMLKEMKeyPair, DestroyKeyPair
<1> QED
  BY <1>2, <1>7, TypedPartsNext

LEMMA SettledTyped ==
  ASSUME FinderTypes, \A g \in Finders : Looking(g), NEW f \in Finders,
         failed' \in [Finders -> BOOLEAN],
         \/ Aborts(f)
         \/ \E o, r : Keeps(f, o, r) /\ r \subseteq Pairs
  PROVE  FinderTypes' /\ \A g \in Finders : Looking(g)'
<1>0. NoLook \in Looks
  BY DEF NoLook, Looks
<1>1. PICK next \in {"next", "error"} : pc' = [pc EXCEPT ![f] = next]
  BY DEF Aborts, Keeps, Goto
<1>2. call' = call /\ look' = [look EXCEPT ![f] = NoLook]
  BY DEF Aborts, Keeps
<1>3. PICK left \in SUBSET Objects : todo' = [todo EXCEPT ![f] = left]
  BY DEF FinderTypes, Aborts, Keeps
<1>4. PICK r \in SUBSET Pairs : found' = [found EXCEPT ![f] = r]
  <2>1. CASE Aborts(f)
    BY <2>1 DEF FinderTypes, Aborts
  <2>2. ASSUME NEW o, NEW r, Keeps(f, o, r), r \subseteq Pairs
        PROVE \E s \in SUBSET Pairs : found' = [found EXCEPT ![f] = s]
    <3>1. found[f] \cup r \in SUBSET Pairs
      BY <2>2 DEF FinderTypes
    <3> QED
      BY <2>2, <3>1 DEF Keeps
  <2> QED
    BY <2>1, <2>2
<1>5. FinderTypes'
  BY <1>0, <1>1, <1>2, <1>3, <1>4 DEF FinderTypes
<1>6. ASSUME NEW g \in Finders PROVE Looking(g)'
  BY <1>1, <1>2, <1>3 DEF FinderTypes, Looking, Busy, Settled
<1> QED
  BY <1>5, <1>6

\* The steps at which one field of look changes.
LEMMA LookTyped ==
  ASSUME FinderTypes, \A g \in Finders : Looking(g), NEW f \in Finders,
         NEW next \in Busy, NEW l \in Looks,
         look' = [look EXCEPT ![f] = l], l.at \in todo[f], next \in Settled => l.half \in Objects,
         Goto(f, next), failed' \in [Finders -> BOOLEAN],
         UNCHANGED <<call, todo, found>>
  PROVE  FinderTypes' /\ \A g \in Finders : Looking(g)'
<1>1. FinderTypes'
  BY DEF FinderTypes, Goto, Busy, Settled
<1>2. ASSUME NEW g \in Finders PROVE Looking(g)'
  BY DEF FinderTypes, Looking, Goto, Busy, Settled
<1> QED
  BY <1>1, <1>2

\* What a pair is made of is an object that was listed.
LEMMA ChosenTypes ==
  ASSUME Typed, NEW f \in Finders, NEW read \in SUBSET Readable(f), NEW exported \in {read, {}}
  PROVE  LET l == look[f]
             tiers == <<l.primary \cap exported, l.secondary \cap exported, l.certs>> IN
         /\ SelectPublicHalf(tiers, Key(l.at), l.proof) \subseteq l.primary \cup l.secondary \cup l.certs
         /\ FirstWith(<<l.primary \cap read, l.secondary \cap read>>, Key(l.at), l.proof, "verified")
              \subseteq l.primary \cup l.secondary
<1> DEFINE l == look[f]
           tiers == <<l.primary \cap exported, l.secondary \cap exported, l.certs>>
           two == <<l.primary \cap read, l.secondary \cap read>>
<1>1. l.proof \in BOOLEAN
  BY DEF Typed, TypeOK, Looks
<1>2. DOMAIN tiers = {1, 2, 3} /\ DOMAIN two = {1, 2}
  OBVIOUS
<1>3. \A t \in DOMAIN tiers : tiers[t] \subseteq l.primary \cup l.secondary \cup l.certs
  BY <1>2
<1>4. \A t \in DOMAIN two : two[t] \subseteq l.primary \cup l.secondary
  BY <1>2
<1> HIDE DEF l, tiers, two
<1>5. SelectPublicHalf(tiers, Key(l.at), l.proof) \subseteq l.primary \cup l.secondary \cup l.certs
  BY <1>1, <1>3, SelectedElement
<1>6. FirstWith(two, Key(l.at), l.proof, "verified") \subseteq l.primary \cup l.secondary
  BY <1>4, FirstWithElement
<1> QED
  BY <1>5, <1>6 DEF l, tiers, two

LEMMA FindersTyped ==
  ASSUME Typed, NEW f \in Finders, Find(f)
  PROVE  Typed'
<1>0. TokenTypes /\ FinderTypes /\ MakerTypes /\ \A g \in Finders : Looking(g)
  BY TypedParts
<1> DEFINE Right == FinderTypes' /\ \A g \in Finders : Looking(g)'
<1>a. look[f] \in Looks /\ todo[f] \subseteq Objects
  BY <1>0 DEF FinderTypes
<1>b. \A class, types, id, label : FindKeys(class, types, id, label) \subseteq Objects
  BY FoundTypes DEF Typed
<1>1. CASE CallFind(f)
  <2>1. TokenTypes'
    BY <1>0, <1>1 DEF CallFind, TokenTypes, tokenVars
  <2>2. FinderTypes'
    BY <1>0, <1>1 DEF CallFind, Goto, FinderTypes
  <2>3. \A g \in Finders : Looking(g)'
    BY <1>0, <1>1 DEF CallFind, Goto, FinderTypes, Looking, Busy, Settled
  <2>4. MakerTypes'
    BY <1>0, <1>1 DEF CallFind, MakerTypes, makerVars
  <2> QED
    BY <2>1, <2>2, <2>3, <2>4, TypedPartsNext
<1>2. ASSUME List(f) PROVE Right
  <2>1. PICK handles \in SUBSET Objects : todo' = [todo EXCEPT ![f] = handles]
    BY <1>2, <1>b DEF List
  <2>2. FinderTypes'
    BY <1>0, <1>2, <2>1 DEF List, Goto, FinderTypes
  <2>3. \A g \in Finders : Looking(g)'
    BY <1>0, <1>2, <2>1 DEF List, Goto, FinderTypes, Looking, Busy, Settled
  <2> QED
    BY <2>2, <2>3
<1>3. ASSUME Fails(f) \/ Vanished(f) PROVE Right
  <2>1. failed' \in [Finders -> BOOLEAN] /\ Aborts(f)
    BY <1>0, <1>3 DEF Fails, Vanished, FinderTypes
  <2> QED
    BY <1>0, <2>1, SettledTyped
<1>4. ASSUME NEW kind, NEW types, MakePrivateKey(f, kind, types) PROVE Right
  <2>1. failed' \in [Finders -> BOOLEAN]
    BY <1>0, <1>4 DEF MakePrivateKey, FinderTypes
  <2>2. PICK o \in todo[f] : Keeps(f, o, IF Type(o) \in types THEN {Only(o)} ELSE {})
    BY <1>4 DEF MakePrivateKey
  <2>3. (IF Type(o) \in types THEN {Only(o)} ELSE {}) \subseteq Pairs
    BY <1>a, OnlyType
  <2> QED
    BY <1>0, <2>1, <2>2, <2>3, SettledTyped
<1>5. ASSUME Nameless(f) PROVE Right
  <2>1. failed' \in [Finders -> BOOLEAN]
    BY <1>0, <1>5 DEF Nameless, FinderTypes
  <2>2. Aborts(f) \/ \E o : Keeps(f, o, {})
    BY <1>5 DEF Nameless
  <2> QED
    BY <1>0, <2>1, <2>2, SettledTyped
<1>6. ASSUME Describe(f) PROVE Right
  <2>1. PICK o \in todo[f] : look' = [look EXCEPT ![f].at = o]
    BY <1>6 DEF Describe
  <2>2. [look[f] EXCEPT !.at = o] \in Looks /\ [look[f] EXCEPT !.at = o].at = o
    BY <1>a, <2>1 DEF Looks
  <2>3. look' = [look EXCEPT ![f] = [look[f] EXCEPT !.at = o]]
    BY <2>1
  <2> QED
    BY <1>0, <1>6, <2>2, <2>3, LookTyped DEF Describe, Busy, Settled, FinderTypes
<1>7. ASSUME FindPrimary(f) PROVE Right
  <2>1. PICK keys \in SUBSET Objects : look' = [look EXCEPT ![f].primary = keys]
    BY <1>7, <1>b DEF FindPrimary
  <2>2. [look[f] EXCEPT !.primary = keys] \in Looks /\ [look[f] EXCEPT !.primary = keys].at = look[f].at
    BY <1>a DEF Looks
  <2>3. look' = [look EXCEPT ![f] = [look[f] EXCEPT !.primary = keys]]
    BY <2>1
  <2>4. look[f].at \in todo[f] /\ failed' \in [Finders -> BOOLEAN]
    BY <1>0, <1>7 DEF FindPrimary, Looking, Busy, Settled, FinderTypes
  <2> QED
    BY <1>0, <1>7, <2>2, <2>3, <2>4, LookTyped DEF FindPrimary, Busy, Settled
<1>8. ASSUME FindSecondary(f) PROVE Right
  <2>1. PICK keys \in SUBSET Objects : look' = [look EXCEPT ![f].secondary = keys]
    BY <1>8, <1>b DEF FindSecondary
  <2>2. [look[f] EXCEPT !.secondary = keys] \in Looks /\ [look[f] EXCEPT !.secondary = keys].at = look[f].at
    BY <1>a DEF Looks
  <2>3. look' = [look EXCEPT ![f] = [look[f] EXCEPT !.secondary = keys]]
    BY <2>1
  <2>4. look[f].at \in todo[f] /\ failed' \in [Finders -> BOOLEAN]
    BY <1>0, <1>8 DEF FindSecondary, Looking, Busy, Settled, FinderTypes
  <2> QED
    BY <1>0, <1>8, <2>2, <2>3, <2>4, LookTyped DEF FindSecondary, Busy, Settled
<1>9. ASSUME NewVerifier(f) PROVE Right
  <2>1. PICK proof \in BOOLEAN : look' = [look EXCEPT ![f].proof = proof]
    BY <1>9 DEF NewVerifier
  <2>2. [look[f] EXCEPT !.proof = proof] \in Looks /\ [look[f] EXCEPT !.proof = proof].at = look[f].at
    BY <1>a DEF Looks
  <2>3. look' = [look EXCEPT ![f] = [look[f] EXCEPT !.proof = proof]]
    BY <2>1
  <2>4. look[f].at \in todo[f]
    BY <1>0, <1>9 DEF NewVerifier, Looking, Busy, Settled
  <2>5. failed' \in [Finders -> BOOLEAN]
    BY <1>0, <1>9 DEF NewVerifier, FinderTypes
  <2>6. PICK next \in {"choose", "certs"} : Goto(f, next)
    BY <1>9 DEF NewVerifier
  <2> QED
    BY <1>0, <1>9, <2>2, <2>3, <2>4, <2>5, <2>6, LookTyped DEF NewVerifier, Busy, Settled
<1>10. ASSUME FindCertificates(f) PROVE Right
  <2>1. PICK keys \in SUBSET Objects : look' = [look EXCEPT ![f].certs = keys]
    <3>1. CASE UNCHANGED look
      <4>1. look' = [look EXCEPT ![f].certs = look[f].certs] /\ look[f].certs \in SUBSET Objects
        BY <1>0, <1>a, <3>1 DEF FinderTypes, Looks
      <4> QED
        BY <4>1
    <3>2. CASE ~UNCHANGED look
      BY <1>10, <1>b, <3>2 DEF FindCertificates
    <3> QED
      BY <3>1, <3>2
  <2>2. [look[f] EXCEPT !.certs = keys] \in Looks /\ [look[f] EXCEPT !.certs = keys].at = look[f].at
    BY <1>a DEF Looks
  <2>3. look' = [look EXCEPT ![f] = [look[f] EXCEPT !.certs = keys]]
    BY <2>1
  <2>4. look[f].at \in todo[f]
    BY <1>0, <1>10 DEF FindCertificates, Looking, Busy, Settled
  <2>5. failed' \in [Finders -> BOOLEAN]
    BY <1>0, <1>10 DEF FindCertificates, FinderTypes
  <2> QED
    BY <1>0, <1>10, <2>2, <2>3, <2>4, <2>5, LookTyped DEF FindCertificates, Busy, Settled
<1>11. ASSUME Choose(f) PROVE Right
  <2>1. failed' \in [Finders -> BOOLEAN]
    BY <1>0, <1>11 DEF Choose, FinderTypes
  <2>2. CASE Keeps(f, look[f].at, {})
    BY <1>0, <2>1, <2>2, SettledTyped
  <2>3. CASE ~Keeps(f, look[f].at, {})
    <3>1. PICK half \in look[f].primary \cup look[f].secondary \cup look[f].certs, cert \in look[f].certs \cup {None} :
            look' = [look EXCEPT ![f].half = half, ![f].cert = cert]
      BY <1>11, <2>3, ChosenTypes DEF Choose
    <3>2. half \in Objects /\ cert \in Objects \cup {None}
      BY <1>a DEF Looks
    <3> DEFINE l == [look[f] EXCEPT !.half = half, !.cert = cert]
    <3>3. l \in Looks /\ l.at = look[f].at /\ l.half = half
      BY <1>a, <3>2 DEF Looks
    <3>4. look' = [look EXCEPT ![f] = l]
      BY <3>1
    <3>5. look[f].at \in todo[f]
      BY <1>0, <1>11 DEF Choose, Looking, Busy, Settled
    <3>6. Goto(f, "build") /\ UNCHANGED <<call, todo, found>>
      BY <1>11, <2>3 DEF Choose
    <3> QED
      BY <1>0, <2>1, <3>2, <3>3, <3>4, <3>5, <3>6, LookTyped DEF Busy, Settled
  <2> QED
    BY <2>2, <2>3
<1>12. ASSUME Build(f) \/ FindIssuer(f) \/ ReadIssuers(f) PROVE Right
  <2>1. failed' \in [Finders -> BOOLEAN]
    BY <1>0, <1>12 DEF Build, FindIssuer, ReadIssuers, FinderTypes
  <2>2. pc[f] \in Settled /\ look[f].at \in todo[f] /\ look[f].half \in Objects
    BY <1>0, <1>12 DEF Build, FindIssuer, ReadIssuers, Looking, Busy, Settled
  <2>3. Pair(f) \in Pairs
    BY <1>a, <2>2, DataType DEF Pair, Pairs, Looks
  <2>4. CASE Aborts(f) \/ Keeps(f, look[f].at, {}) \/ Keeps(f, look[f].at, {Pair(f)})
    BY <1>0, <2>1, <2>3, <2>4, SettledTyped
  <2>5. ASSUME NEW next \in {"hop", "links"}, NEW certs \in SUBSET Objects, Walks(f, next, certs)
        PROVE  Right
    <3> DEFINE l == [look[f] EXCEPT !.links = certs]
    <3>1. l \in Looks /\ l.at = look[f].at /\ l.half = look[f].half
      BY <1>a DEF Looks
    <3>2. look' = [look EXCEPT ![f] = l] /\ Goto(f, next) /\ UNCHANGED <<call, todo, found>>
      BY <2>5 DEF Walks
    <3> HIDE DEF l
    <3> QED
      BY <1>0, <2>1, <2>2, <3>1, <3>2, LookTyped DEF Busy, Settled
  <2>6. {c \in live : Class(c) = "certificate"} \subseteq Objects
    BY FoundTypes DEF Typed
  <2> QED
    BY <1>12, <2>4, <2>5, <2>6 DEF Build, FindIssuer, ReadIssuers
<1>13. ASSUME ChooseMLKEM(f) PROVE Right
  <2>1. failed' \in [Finders -> BOOLEAN]
    BY <1>0, <1>13 DEF ChooseMLKEM, FinderTypes
  <2>2. look[f].at \in Objects
    BY <1>0, <1>a, <1>13 DEF ChooseMLKEM, Looking, Busy, Settled
  <2>3. \/ Keeps(f, look[f].at, {})
        \/ \E half \in look[f].primary \cup look[f].secondary :
             Keeps(f, look[f].at, {[priv |-> look[f].at, pub |-> half, cert |-> None,
                                    key |-> Key(half), proof |-> look[f].proof]})
    BY <1>13, ChosenTypes DEF ChooseMLKEM
  <2>4. \A half \in look[f].primary \cup look[f].secondary :
          [priv |-> look[f].at, pub |-> half, cert |-> None,
           key |-> Key(half), proof |-> look[f].proof] \in Pairs
    BY <1>a, <2>2, DataType DEF Pairs, Looks
  <2>5. \E o, r : Keeps(f, o, r) /\ r \subseteq Pairs
    <3>1. CASE Keeps(f, look[f].at, {})
      BY <3>1
    <3>2. ASSUME NEW half \in look[f].primary \cup look[f].secondary,
                 Keeps(f, look[f].at, {[priv |-> look[f].at, pub |-> half, cert |-> None,
                                        key |-> Key(half), proof |-> look[f].proof]})
          PROVE  \E o, r : Keeps(f, o, r) /\ r \subseteq Pairs
      <4> DEFINE pair == [priv |-> look[f].at, pub |-> half, cert |-> None,
                          key |-> Key(half), proof |-> look[f].proof]
      <4>1. {pair} \subseteq Pairs
        BY <2>4
      <4>2. Keeps(f, look[f].at, {pair})
        BY <3>2
      <4> HIDE DEF pair
      <4> QED
        BY <4>1, <4>2
    <3> QED
      BY <2>3, <3>1, <3>2
  <2> QED
    BY <1>0, <2>1, <2>5, SettledTyped
<1>14. ASSUME Finish(f) PROVE Right
  <2>1. FinderTypes'
    BY <1>0, <1>14 DEF Finish, Goto, FinderTypes
  <2>2. \A g \in Finders : Looking(g)'
    BY <1>0, <1>14 DEF Finish, Goto, FinderTypes, Looking, Busy, Settled
  <2> QED
    BY <2>1, <2>2
<1>15. CASE ~CallFind(f)
  <2>1. UNCHANGED <<tokenVars, historyVars, makerVars>>
    BY <1>15 DEF Find, List, Fails, Vanished, Aborts, Keeps, FindPrivateKeys, FindRSAPrivateKeys,
         FindSecretKeys, MakePrivateKey, Nameless, Describe, FindPrimary, FindSecondary, NewVerifier,
         FindCertificates, Choose, Build, FindIssuer, ReadIssuers, Walks, ChooseMLKEM, Finish
  <2>2. TokenTypes' /\ MakerTypes'
    BY <1>0, <2>1 DEF TokenTypes, MakerTypes, tokenVars, historyVars, makerVars
  <2>3. Right
    BY <1>2, <1>3, <1>4, <1>5, <1>6, <1>7, <1>8, <1>9, <1>10, <1>11, <1>12, <1>13, <1>14, <1>15
       DEF Find, FindPrivateKeys, FindRSAPrivateKeys, FindSecretKeys
  <2> QED
    BY <2>2, <2>3, TypedPartsNext
<1> QED
  BY <1>1, <1>15

LEMMA NextTyped == Typed /\ [Next]_vars => Typed'
<1> SUFFICES ASSUME Typed, [Next]_vars PROVE Typed'
  OBVIOUS
<1>0. TokenTypes /\ FinderTypes /\ MakerTypes /\ \A f \in Finders : Looking(f)
  BY TypedParts
<1>1. ASSUME NEW o \in Foreign, Others(o) PROVE Typed'
  <2>1. TokenTypes'
    BY <1>0, <1>1, DestroyedTyped, AppearsTyped DEF Others, Appears
  <2>2. FinderTypes' /\ MakerTypes' /\ \A f \in Finders : Looking(f)'
    BY <1>0, <1>1 DEF Others, FinderTypes, MakerTypes, Looking, finderVars, makerVars
  <2> QED
    BY <2>1, <2>2, TypedPartsNext
<1>2. CASE UNCHANGED vars
  <2>1. TokenTypes' /\ FinderTypes' /\ MakerTypes' /\ \A f \in Finders : Looking(f)'
    BY <1>0, <1>2 DEF vars, tokenVars, finderVars, historyVars, makerVars,
         TokenTypes, FinderTypes, MakerTypes, Looking
  <2> QED
    BY <2>1, TypedPartsNext
<1> QED
  BY <1>1, <1>2, FindersTyped, MakersTyped DEF Next

\* Every variable keeps its type.
THEOREM TypeCorrect == Spec => []TypeOK
<1>1. Typed => TypeOK
  BY DEF Typed
<1> QED
  BY <1>1, InitTyped, NextTyped, PTL DEF Spec

----------------------------------------------------------------------------
(* What a step of somebody else may do to a finder.                        *)

Around(f) ==
  /\ pc'[f] = pc[f] /\ call'[f] = call[f] /\ todo'[f] = todo[f]
  /\ look'[f] = look[f] /\ found'[f] = found[f] /\ failed'[f] = failed[f]
  /\ gone \subseteq gone' /\ live \subseteq live' \cup gone'
  /\ steady'[f] \subseteq steady[f]
  /\ disturbed[f] => disturbed'[f]
  /\ live \subseteq live' \/ disturbed'[f]

LEMMA FindQuiet ==
  ASSUME NEW f \in Finders, Find(f)
  PROVE  UNCHANGED <<tokenVars, makerVars>> /\ (CallFind(f) \/ UNCHANGED historyVars)
<1>1. CASE CallFind(f)
  BY <1>1 DEF CallFind
<1>2. CASE ~CallFind(f)
  BY <1>2 DEF Find, List, Fails, Vanished, Aborts, Keeps, FindPrivateKeys, FindRSAPrivateKeys,
       FindSecretKeys, MakePrivateKey, Nameless, Describe, FindPrimary, FindSecondary, NewVerifier,
       FindCertificates, Choose, Build, FindIssuer, ReadIssuers, Walks, ChooseMLKEM, Finish
<1> QED
  BY <1>1, <1>2

\* A finder changes its own variables only.
LEMMA FindOwn ==
  ASSUME Typed, NEW g \in Finders, Find(g), NEW f \in Finders, f # g
  PROVE  Around(f)
<1>0. TokenTypes /\ FinderTypes
  BY TypedParts
<1>1. pc'[f] = pc[f]
  BY <1>0 DEF FinderTypes, Find, CallFind, List, Fails, Vanished, Aborts, Keeps, FindPrivateKeys, FindRSAPrivateKeys,
       FindSecretKeys, MakePrivateKey, Nameless, Describe, FindPrimary, FindSecondary, NewVerifier,
       FindCertificates, Choose, Build, FindIssuer, ReadIssuers, Walks, ChooseMLKEM, Finish, Goto
<1>2. call'[f] = call[f] /\ todo'[f] = todo[f]
  BY <1>0 DEF FinderTypes, Find, CallFind, List, Fails, Vanished, Aborts, Keeps, FindPrivateKeys, FindRSAPrivateKeys,
       FindSecretKeys, MakePrivateKey, Nameless, Describe, FindPrimary, FindSecondary, NewVerifier,
       FindCertificates, Choose, Build, FindIssuer, ReadIssuers, Walks, ChooseMLKEM, Finish
<1>3. look'[f] = look[f]
  BY <1>0 DEF FinderTypes, Find, CallFind, List, Fails, Vanished, Aborts, Keeps, FindPrivateKeys, FindRSAPrivateKeys,
       FindSecretKeys, MakePrivateKey, Nameless, Describe, FindPrimary, FindSecondary, NewVerifier,
       FindCertificates, Choose, Build, FindIssuer, ReadIssuers, Walks, ChooseMLKEM, Finish
<1>4. found'[f] = found[f] /\ failed'[f] = failed[f]
  BY <1>0 DEF FinderTypes, Find, CallFind, List, Fails, Vanished, Aborts, Keeps, FindPrivateKeys, FindRSAPrivateKeys,
       FindSecretKeys, MakePrivateKey, Nameless, Describe, FindPrimary, FindSecondary, NewVerifier,
       FindCertificates, Choose, Build, FindIssuer, ReadIssuers, Walks, ChooseMLKEM, Finish
<1>5. live' = live /\ gone' = gone
  BY FindQuiet DEF tokenVars
<1>6. steady'[f] = steady[f] /\ disturbed'[f] = disturbed[f]
  <2>1. CASE CallFind(g)
    BY <1>0, <2>1 DEF CallFind, TokenTypes
  <2>2. CASE UNCHANGED historyVars
    BY <2>2 DEF historyVars
  <2> QED
    BY <2>1, <2>2, FindQuiet
<1> QED
  BY <1>1, <1>2, <1>3, <1>4, <1>5, <1>6 DEF Around

LEMMA TokenSteps ==
  ASSUME Typed, UNCHANGED finderVars,
         \/ \E o : Destroyed(o)
         \/ live \subseteq live' /\ UNCHANGED <<gone, historyVars>>,
         NEW f \in Finders
  PROVE  Around(f)
<1>0. TokenTypes
  BY TypedParts
<1>1. /\ pc'[f] = pc[f] /\ call'[f] = call[f] /\ todo'[f] = todo[f]
      /\ look'[f] = look[f] /\ found'[f] = found[f] /\ failed'[f] = failed[f]
  BY DEF finderVars
<1>2. ASSUME NEW o, Destroyed(o) PROVE Around(f)
  BY <1>0, <1>1, <1>2 DEF Destroyed, Around, TokenTypes
<1>3. CASE live \subseteq live' /\ UNCHANGED <<gone, historyVars>>
  BY <1>1, <1>3 DEF Around, historyVars
<1> QED
  BY <1>2, <1>3

LEMMA MakeSteps ==
  ASSUME NEW m \in Makers, Make(m)
  PROVE  /\ UNCHANGED finderVars
         /\ \/ \E o : Destroyed(o)
            \/ live \subseteq live' /\ UNCHANGED <<gone, historyVars>>
<1>1. UNCHANGED finderVars
  BY DEF Make, GenerateKeyPair, GenerateMLKEMKeyPair, Generate, Export, DestroyKeyPair, Undo,
         Adopt, DeletePrivate, DeletePublic
<1>2. CASE GenerateKeyPair(m) \/ GenerateMLKEMKeyPair(m)
  BY <1>1, <1>2 DEF GenerateKeyPair, GenerateMLKEMKeyPair, Generate
<1>3. CASE Export(m) \/ Adopt(m)
  BY <1>1, <1>3 DEF Export, Adopt, tokenVars
<1>4. CASE DestroyKeyPair(m) \/ DeletePrivate(m) \/ DeletePublic(m)
  BY <1>1, <1>4 DEF DestroyKeyPair, Undo, DeletePrivate, DeletePublic, Destroys, Stays, tokenVars
<1> QED
  BY <1>2, <1>3, <1>4 DEF Make

LEMMA FindOrAround ==
  ASSUME Typed, [Next]_vars, NEW f \in Finders
  PROVE  Find(f) \/ Around(f)
<1>1. ASSUME NEW o \in Foreign, Others(o) PROVE Around(f)
  BY <1>1, TokenSteps DEF Others, Appears
<1>2. ASSUME NEW g \in Finders, Find(g) PROVE Find(f) \/ Around(f)
  BY <1>2, FindOwn
<1>3. ASSUME NEW m \in Makers, Make(m) PROVE Around(f)
  BY <1>3, MakeSteps, TokenSteps
<1>4. CASE UNCHANGED vars
  BY <1>4, TokenSteps DEF vars, tokenVars
<1> QED
  BY <1>1, <1>2, <1>3, <1>4 DEF Next

LEMMA KeepsEffect ==
  ASSUME FinderTypes, NEW f \in Finders, NEW o, NEW r, Keeps(f, o, r)
  PROVE  /\ pc'[f] = "next" /\ call'[f] = call[f] /\ todo'[f] = todo[f] \ {o}
         /\ look'[f] = NoLook /\ found'[f] = found[f] \cup r
         /\ UNCHANGED <<live, gone, steady, disturbed>>
BY DEF FinderTypes, Keeps, Goto, tokenVars, historyVars

LEMMA AbortsEffect ==
  ASSUME FinderTypes, NEW f \in Finders, Aborts(f)
  PROVE  /\ pc'[f] = "error" /\ call'[f] = call[f] /\ todo'[f] = {}
         /\ look'[f] = NoLook /\ found'[f] \subseteq found[f]
         /\ UNCHANGED <<live, gone, steady, disturbed>>
BY DEF FinderTypes, Aborts, Goto, tokenVars, historyVars

LEMMA CallEffect ==
  ASSUME Typed, NEW f \in Finders, CallFind(f)
  PROVE  /\ pc[f] = "idle" /\ pc'[f] = "list" /\ call'[f] \in Asked
         /\ todo'[f] = todo[f] /\ look'[f] = look[f] /\ found'[f] = found[f] /\ failed'[f] = failed[f]
         /\ live' = live /\ gone' = gone /\ steady'[f] = live /\ disturbed'[f] = FALSE
<1>0. TokenTypes /\ FinderTypes
  BY TypedParts
<1> QED
  BY <1>0 DEF TokenTypes, FinderTypes, CallFind, Goto, tokenVars

\* What List finds.
Handles(f) ==
  LET c == call[f] IN
  CASE c.kind = "secrets" -> FindKeys("secret", Types, c.id, c.label)
    [] c.kind = "kem" -> FindKeys("private", {"kem"}, c.id, c.label)
    [] OTHER -> FindKeys("private", Types, c.id, c.label)

LEMMA ListEffect ==
  ASSUME Typed, NEW f \in Finders, List(f)
  PROVE  /\ pc[f] = "list" /\ pc'[f] = "next" /\ todo'[f] = Handles(f)
         /\ call'[f] = call[f] /\ look'[f] = look[f] /\ found'[f] = found[f] /\ failed'[f] = failed[f]
         /\ UNCHANGED <<live, gone, steady, disturbed>>
<1>0. FinderTypes
  BY TypedParts
<1>1. todo' = [todo EXCEPT ![f] = Handles(f)]
  BY DEF List, Handles
<1> QED
  BY <1>0, <1>1 DEF FinderTypes, List, Goto, tokenVars, historyVars

\* The steps of a finder that learn something of the key it looks at.
Learns(f) ==
  Describe(f) \/ FindPrimary(f) \/ FindSecondary(f) \/ NewVerifier(f) \/ FindCertificates(f)

LEMMA LookEffect ==
  ASSUME Typed, NEW f \in Finders, Learns(f)
  PROVE  /\ call'[f] = call[f] /\ todo'[f] = todo[f] /\ found'[f] = found[f]
         /\ failed[f] => failed'[f]
         /\ pc'[f] \in Busy \ Settled
         /\ UNCHANGED <<live, gone, steady, disturbed>>
<1>0. FinderTypes
  BY TypedParts
<1>1. call' = call /\ todo' = todo /\ found' = found /\ UNCHANGED <<live, gone, steady, disturbed>>
  BY DEF Learns, Describe, FindPrimary, FindSecondary, NewVerifier, FindCertificates, tokenVars, historyVars
<1>2. pc'[f] \in Busy \ Settled
  BY <1>0 DEF FinderTypes, Learns, Describe, FindPrimary, FindSecondary, NewVerifier,
     FindCertificates, Goto, Busy, Settled
<1>3. failed[f] => failed'[f]
  BY <1>0 DEF FinderTypes, Learns, Describe, FindPrimary, FindSecondary, NewVerifier, FindCertificates
<1> QED
  BY <1>1, <1>2, <1>3

\* The step that settles on a public half.
Settles(f) == Choose(f) /\ ~Keeps(f, look[f].at, {})

LEMMA SettlesEffect ==
  ASSUME Typed, NEW f \in Finders, Settles(f)
  PROVE  \E read \in SUBSET Readable(f) :
           LET l == look[f]
               exported == IF Type(l.at) \in Signers THEN read ELSE {}
               tiers == <<l.primary \cap exported, l.secondary \cap exported, l.certs>>
               half == look'[f].half
               certs == {c \in l.certs : Key(c) = Key(half)} IN
           /\ failed'[f] = (failed[f] \/ read # Readable(f))
           /\ half \in SelectPublicHalf(tiers, Key(l.at), l.proof)
           /\ half \in l.primary \cup l.secondary \cup l.certs
           /\ look'[f] = [l EXCEPT !.half = half, !.cert = look'[f].cert]
           /\ look'[f].cert \in IF certs = {} THEN {None} ELSE certs
           /\ pc[f] = "choose" /\ pc'[f] = "build"
           /\ call[f].kind \in PairKinds
           /\ call'[f] = call[f] /\ todo'[f] = todo[f] /\ found'[f] = found[f]
           /\ UNCHANGED <<live, gone, steady, disturbed>>
<1>0. FinderTypes
  BY TypedParts
<1> DEFINE l == look[f]
           E(read) == IF Type(l.at) \in Signers THEN read ELSE {}
           T(read) == <<l.primary \cap E(read), l.secondary \cap E(read), l.certs>>
           C(half) == {c \in l.certs : Key(c) = Key(half)}
<1>1. PICK read \in SUBSET Readable(f) :
        /\ failed' = [failed EXCEPT ![f] = @ \/ read # Readable(f)]
        /\ \E half \in SelectPublicHalf(T(read), Key(l.at), l.proof) :
           \E cert \in IF C(half) = {} THEN {None} ELSE C(half) :
             look' = [look EXCEPT ![f].half = half, ![f].cert = cert]
        /\ Goto(f, "build")
        /\ UNCHANGED <<tokenVars, historyVars, call, todo, found>>
  BY DEF Settles, Choose
<1>a. PICK half \in SelectPublicHalf(T(read), Key(l.at), l.proof) :
        \E cert \in IF C(half) = {} THEN {None} ELSE C(half) :
          look' = [look EXCEPT ![f].half = half, ![f].cert = cert]
  BY <1>1
<1>b. PICK cert \in IF C(half) = {} THEN {None} ELSE C(half) :
        look' = [look EXCEPT ![f].half = half, ![f].cert = cert]
  BY <1>a
<1>2. half \in l.primary \cup l.secondary \cup l.certs
  BY ChosenTypes
<1>3. l \in Looks
  BY <1>0 DEF FinderTypes
<1>4. look'[f] = [l EXCEPT !.half = half, !.cert = cert]
  BY <1>0, <1>b DEF FinderTypes
<1>5. look'[f].half = half /\ look'[f].cert = cert
  BY <1>3, <1>4 DEF Looks
<1>6. failed'[f] = (failed[f] \/ read # Readable(f)) /\ pc'[f] = "build"
  BY <1>0, <1>1 DEF FinderTypes, Goto
<1>7. pc[f] = "choose" /\ call[f].kind \in PairKinds
  BY DEF Settles, Choose
<1>8. call'[f] = call[f] /\ todo'[f] = todo[f] /\ found'[f] = found[f] /\ UNCHANGED <<live, gone, steady, disturbed>>
  BY <1>1 DEF tokenVars, historyVars
<1> WITNESS read \in SUBSET Readable(f)
<1> QED
  BY <1>1, <1>2, <1>4, <1>5, <1>6, <1>7, <1>8

LEMMA SkipEffect ==
  ASSUME Typed, NEW f \in Finders, Choose(f), Keeps(f, look[f].at, {})
  PROVE  \E read \in SUBSET Readable(f) :
           LET l == look[f]
               exported == IF Type(l.at) \in Signers THEN read ELSE {}
               tiers == <<l.primary \cap exported, l.secondary \cap exported, l.certs>> IN
           /\ failed'[f] = (failed[f] \/ read # Readable(f))
           /\ SelectPublicHalf(tiers, Key(l.at), l.proof) = {}
<1>0. FinderTypes
  BY TypedParts
<1> DEFINE l == look[f]
           E(read) == IF Type(l.at) \in Signers THEN read ELSE {}
           T(read) == <<l.primary \cap E(read), l.secondary \cap E(read), l.certs>>
<1>1. PICK read \in SUBSET Readable(f) :
        /\ failed' = [failed EXCEPT ![f] = @ \/ read # Readable(f)]
        /\ SelectPublicHalf(T(read), Key(l.at), l.proof) = {} \/ Goto(f, "build")
  BY DEF Choose
<1>2. ~Goto(f, "build")
  BY <1>0, KeepsEffect DEF Goto, FinderTypes
<1>3. failed'[f] = (failed[f] \/ read # Readable(f))
  BY <1>0, <1>1 DEF FinderTypes
<1> WITNESS read \in SUBSET Readable(f)
<1> QED
  BY <1>1, <1>2, <1>3

LEMMA KEMEffect ==
  ASSUME Typed, NEW f \in Finders, ChooseMLKEM(f)
  PROVE  \E read \in SUBSET Readable(f) :
           LET l == look[f]
               choice == FirstWith(<<l.primary \cap read, l.secondary \cap read>>, Key(l.at), l.proof, "verified") IN
           /\ failed'[f] = (failed[f] \/ read # Readable(f))
           /\ \/ choice = {} /\ Keeps(f, l.at, {})
              \/ \E half \in choice :
                   /\ Keeps(f, l.at, {[priv |-> l.at, pub |-> half, cert |-> None,
                                       key |-> Key(half), proof |-> l.proof]})
                   /\ half \in l.primary \cup l.secondary /\ l.proof /\ Key(half) = Key(l.at)
<1>0. FinderTypes
  BY TypedParts
<1> DEFINE l == look[f]
           T(read) == <<l.primary \cap read, l.secondary \cap read>>
           C(read) == FirstWith(T(read), Key(l.at), l.proof, "verified")
<1>1. PICK read \in SUBSET Readable(f) :
        /\ failed' = [failed EXCEPT ![f] = @ \/ read # Readable(f)]
        /\ IF C(read) = {} THEN Keeps(f, l.at, {})
           ELSE \E half \in C(read) :
                  Keeps(f, l.at, {[priv |-> l.at, pub |-> half, cert |-> None,
                                   key |-> Key(half), proof |-> l.proof]})
  BY DEF ChooseMLKEM
<1>2. failed'[f] = (failed[f] \/ read # Readable(f))
  BY <1>0, <1>1 DEF FinderTypes
<1>3. \A half \in C(read) : half \in l.primary \cup l.secondary
  BY ChosenTypes
<1>4. \A half \in C(read) : l.proof /\ Key(half) = Key(l.at)
  BY FirstWithElement DEF Check
<1> WITNESS read \in SUBSET Readable(f)
<1> QED
  BY <1>1, <1>2, <1>3, <1>4

\* The steps of a finder that has settled on a public half: they keep the pair,
\* leave it out, fail, or go on to an issuer.
Concludes(f) == Build(f) \/ FindIssuer(f) \/ ReadIssuers(f)

Advances(f) ==
  \E next \in {"hop", "links"}, certs \in SUBSET {c \in live : Class(c) = "certificate"} :
    Walks(f, next, certs) /\ (next = "hop" => certs = {})

\* When makeKeyPair leaves a pair out.
Skipped(f) ==
  LET l == look[f] IN
  \/ Type(l.at) \notin Buildable(call[f].kind)
  \/ Type(l.at) = "ed" /\ Class(l.half) = "certificate" /\ Type(l.half) # "ed"
  \/ Uncertified(call[f].kind, l.cert)

LEMMA AdvancesEffect ==
  ASSUME FinderTypes, NEW f \in Finders, Advances(f)
  PROVE  /\ pc'[f] \in {"hop", "links"} /\ (pc'[f] = "hop" => look'[f].links = {})
         /\ look'[f].links \subseteq {c \in live : Class(c) = "certificate"}
         /\ look'[f] = [look[f] EXCEPT !.links = look'[f].links]
         /\ look'[f].at = look[f].at /\ look'[f].primary = look[f].primary
         /\ look'[f].secondary = look[f].secondary /\ look'[f].certs = look[f].certs
         /\ look'[f].half = look[f].half /\ look'[f].proof = look[f].proof
         /\ call'[f] = call[f] /\ todo'[f] = todo[f] /\ found'[f] = found[f]
         /\ UNCHANGED <<live, gone, steady, disturbed>>
<1>1. PICK next \in {"hop", "links"}, certs \in SUBSET {c \in live : Class(c) = "certificate"} :
        Walks(f, next, certs) /\ (next = "hop" => certs = {})
  BY DEF Advances
<1>2. look[f] \in Looks
  BY DEF FinderTypes
<1>3. pc'[f] = next /\ look'[f] = [look[f] EXCEPT !.links = certs]
  BY <1>1 DEF Walks, Goto, FinderTypes
<1>4. call'[f] = call[f] /\ todo'[f] = todo[f] /\ found'[f] = found[f]
      /\ UNCHANGED <<live, gone, steady, disturbed>>
  BY <1>1 DEF Walks, tokenVars, historyVars
<1> QED
  BY <1>1, <1>2, <1>3, <1>4 DEF Looks

\* The steps of a finder, as the proofs below take them.
LEMMA FindCases ==
  ASSUME NEW f \in Finders, Find(f)
  PROVE  \/ CallFind(f) \/ List(f) \/ Fails(f) \/ Vanished(f)
         \/ \E kind, types : /\ MakePrivateKey(f, kind, types)
                             /\ <<kind, types>> \in {<<"privates", Signers>>, <<"rsa privates", {"rsa"}>>,
                                                     <<"secrets", Ciphers>>}
         \/ Nameless(f) \/ Learns(f) \/ Settles(f) \/ (Choose(f) /\ Keeps(f, look[f].at, {}))
         \/ Concludes(f) \/ ChooseMLKEM(f) \/ Finish(f)
BY DEF Find, FindPrivateKeys, FindRSAPrivateKeys, FindSecretKeys, Learns, Settles, Concludes

----------------------------------------------------------------------------
(* What a finder knows of the objects it has listed.                       *)

Known(f) ==
  /\ pc[f] \in {"idle", "list"} => todo[f] = {} /\ found[f] = {}
  /\ todo[f] \subseteq live \cup gone
  /\ \A o \in todo[f] : Class(o) = IF call[f].kind = "secrets" THEN "secret" ELSE "private"
  /\ \A c \in look[f].primary \cup look[f].secondary : Class(c) = "public"
  /\ \A c \in look[f].certs : Class(c) = "certificate"
  /\ pc[f] \in Busy => call[f].kind \in PairKinds \cup {"kem"}
  /\ pc[f] \in Settled => call[f].kind \in PairKinds
  /\ pc[f] \in {"hop", "links"} => Type(look[f].at) \in Signers /\ call[f].kind = "certified"
  /\ pc[f] # "links" => look[f].links = {}
  /\ \A c \in look[f].links : Class(c) = "certificate"
  /\ ~disturbed[f] => todo[f] \subseteq live /\ look[f].links \subseteq live
  /\ ~disturbed[f] /\ pc[f] = "build" /\ Class(look[f].half) # "certificate" => look[f].half \in live

\* A pair is kept only of a key of a type of which there are pairs.
LEMMA ConcludesEffect ==
  ASSUME NEW f \in Finders, Known(f), Concludes(f)
  PROVE  /\ pc[f] \in Settled /\ failed' = failed
         /\ \/ Aborts(f)
            \/ pc[f] = "build" /\ Skipped(f) /\ Keeps(f, look[f].at, {})
            \/ Type(look[f].at) \in Signers /\ Keeps(f, look[f].at, {Pair(f)})
            \/ Type(look[f].at) \in Signers /\ call[f].kind = "certified" /\ Advances(f)
<1>1. Buildable(call[f].kind) \subseteq Signers
  BY DEF Buildable, Signers
<1>2. ASSUME NEW next, NEW certs, Walks(f, next, certs), next \in {"hop", "links"},
             certs \subseteq {c \in live : Class(c) = "certificate"}, next = "hop" => certs = {}
      PROVE  Advances(f)
  BY <1>2 DEF Advances
<1>3. CASE Build(f)
  <2>1. \/ Aborts(f)
        \/ Skipped(f) /\ Keeps(f, look[f].at, {})
        \/ ~Skipped(f) /\ Keeps(f, look[f].at, {Pair(f)})
        \/ ~Skipped(f) /\ call[f].kind = "certified" /\ Walks(f, "hop", {})
    BY <1>3 DEF Build, Skipped
  <2>2. ~Skipped(f) => Type(look[f].at) \in Signers
    BY <1>1 DEF Skipped
  <2>3. pc[f] = "build" /\ failed' = failed
    BY <1>3 DEF Build
  <2> QED
    BY <1>2, <2>1, <2>2, <2>3 DEF Settled
<1>4. CASE FindIssuer(f)
  <2>1. /\ pc[f] = "hop" /\ failed' = failed
        /\ \/ Keeps(f, look[f].at, {Pair(f)})
           \/ \E certs \in SUBSET {c \in live : Class(c) = "certificate"} : Walks(f, "links", certs)
    BY <1>4 DEF FindIssuer
  <2> QED
    BY <1>2, <2>1 DEF Known, Settled
<1>5. CASE ReadIssuers(f)
  <2>1. pc[f] = "links" /\ failed' = failed /\ (Walks(f, "hop", {}) \/ Aborts(f))
    BY <1>5 DEF ReadIssuers
  <2> QED
    BY <1>2, <2>1 DEF Known, Settled
<1> QED
  BY <1>3, <1>4, <1>5 DEF Concludes

LEMMA InitKnown == Init => \A f \in Finders : Known(f)
BY DEF Init, Known, Busy, Settled, NoLook

LEMMA AroundKnown ==
  ASSUME NEW f \in Finders, Known(f), Around(f)
  PROVE  Known(f)'
BY DEF Known, Around

LEMMA FindKnown ==
  ASSUME Typed, NEW f \in Finders, Known(f), Find(f)
  PROVE  Known(f)'
<1>0. FinderTypes
  BY TypedParts
<1>a. NoLook.primary \cup NoLook.secondary = {} /\ NoLook.certs = {} /\ NoLook.links = {}
  BY DEF NoLook
<1>1. CASE CallFind(f)
  BY <1>1, CallEffect DEF Known, Busy, Settled
<1>2. CASE List(f)
  <2>1. Handles(f) \subseteq live
    BY DEF Handles, FindKeys
  <2>2. \A o \in Handles(f) : Class(o) = IF call[f].kind = "secrets" THEN "secret" ELSE "private"
    BY DEF Handles, FindKeys
  <2> QED
    BY <1>2, <2>1, <2>2, ListEffect DEF Known, Busy, Settled
<1>3. ASSUME Aborts(f) PROVE Known(f)'
  BY <1>0, <1>3, <1>a, AbortsEffect DEF Known, Busy, Settled
<1>4. ASSUME NEW o, NEW r, Keeps(f, o, r) PROVE Known(f)'
  BY <1>0, <1>4, <1>a, KeepsEffect DEF Known, Busy, Settled
<1>5. CASE Learns(f)
  <2>1. call[f].kind \in PairKinds \cup {"kem"}
    BY <1>5 DEF Known, Busy, Settled, Learns, Describe, FindPrimary, FindSecondary, NewVerifier, FindCertificates
  <2>2. \A c \in look'[f].primary \cup look'[f].secondary : Class(c) = "public"
    <3>1. CASE FindPrimary(f)
      BY <1>0, <3>1 DEF FindPrimary, Known, FinderTypes, Looks, FindKeys
    <3>2. CASE FindSecondary(f)
      <4>1. look'[f].primary = look[f].primary
        BY <1>0, <3>2 DEF FindSecondary, FinderTypes, Looks
      <4>2. \A c \in look'[f].secondary : Class(c) = "public"
        BY <1>0, <3>2 DEF FindSecondary, FinderTypes, Looks, FindKeys
      <4> QED
        BY <4>1, <4>2 DEF Known
    <3>3. CASE Describe(f) \/ NewVerifier(f) \/ FindCertificates(f)
      <4>1. look'[f].primary = look[f].primary /\ look'[f].secondary = look[f].secondary
        BY <1>0, <3>3 DEF Describe, NewVerifier, FindCertificates, FinderTypes, Looks
      <4> QED
        BY <4>1 DEF Known
    <3> QED
      BY <1>5, <3>1, <3>2, <3>3 DEF Learns
  <2>3. \A c \in look'[f].certs : Class(c) = "certificate"
    <3>1. CASE FindCertificates(f)
      <4>1. look' = look \/ \E read \in SUBSET FindKeys("certificate", Types, Id(look[f].at), None) :
                             look' = [look EXCEPT ![f].certs = read]
        BY <3>1 DEF FindCertificates
      <4>2. \A c \in FindKeys("certificate", Types, Id(look[f].at), None) : Class(c) = "certificate"
        BY DEF FindKeys
      <4> QED
        BY <1>0, <4>1, <4>2 DEF FinderTypes, Looks, Known
    <3>2. CASE Describe(f) \/ FindPrimary(f) \/ FindSecondary(f) \/ NewVerifier(f)
      <4>1. look'[f].certs = look[f].certs
        BY <1>0, <3>2 DEF Describe, FindPrimary, FindSecondary, NewVerifier, FinderTypes, Looks
      <4> QED
        BY <4>1 DEF Known
    <3> QED
      BY <1>5, <3>1, <3>2 DEF Learns
  <2>4. look'[f].links = look[f].links /\ pc[f] # "links"
    BY <1>0, <1>5 DEF Learns, Describe, FindPrimary, FindSecondary, NewVerifier, FindCertificates,
       FinderTypes, Looks
  <2> QED
    BY <1>5, <2>1, <2>2, <2>3, <2>4, LookEffect DEF Known, Busy, Settled
<1>6. CASE Settles(f)
  <2>1. /\ pc'[f] = "build" /\ call[f].kind \in PairKinds
        /\ call'[f] = call[f] /\ todo'[f] = todo[f] /\ found'[f] = found[f]
        /\ UNCHANGED <<live, gone, steady, disturbed>>
    BY <1>6, SettlesEffect
  <2>2. look'[f].primary = look[f].primary /\ look'[f].secondary = look[f].secondary
        /\ look'[f].certs = look[f].certs /\ look'[f].links = look[f].links /\ pc[f] # "links"
    BY <1>0, <1>6, SettlesEffect DEF FinderTypes, Looks
  <2>3. Class(look'[f].half) # "certificate" => look'[f].half \in live
    <3>1. PICK read \in SUBSET Readable(f) :
            LET l == look[f]
                exported == IF Type(l.at) \in Signers THEN read ELSE {}
                tiers == <<l.primary \cap exported, l.secondary \cap exported, l.certs>> IN
            look'[f].half \in SelectPublicHalf(tiers, Key(l.at), l.proof)
      BY <1>6, SettlesEffect
    <3>2. \E t \in {1, 2, 3} : look'[f].half \in
            <<look[f].primary \cap (IF Type(look[f].at) \in Signers THEN read ELSE {}),
              look[f].secondary \cap (IF Type(look[f].at) \in Signers THEN read ELSE {}), look[f].certs>>[t]
      <4>1. look[f].proof \in BOOLEAN
        BY <1>0 DEF FinderTypes, Looks
      <4> QED
        BY <3>1, <4>1, SelectedElement
    <3>3. look'[f].half \in live \/ look'[f].half \in look[f].certs
      BY <3>2 DEF Readable
    <3> QED
      BY <3>3 DEF Known
  <2> QED
    BY <2>1, <2>2, <2>3 DEF Known, Busy, Settled
<1>7. CASE Finish(f)
  BY <1>0, <1>7 DEF Finish, Goto, FinderTypes, Known, Busy, Settled, tokenVars, historyVars
<1>8. CASE Choose(f) /\ Keeps(f, look[f].at, {})
  BY <1>4, <1>8
<1>9. CASE Concludes(f)
  <2>1. CASE Advances(f) /\ Type(look[f].at) \in Signers /\ call[f].kind = "certified"
    <3>1. pc[f] \in Settled
      BY <1>9, ConcludesEffect
    <3> QED
      BY <1>0, <2>1, <3>1, AdvancesEffect DEF Known, Busy, Settled
  <2> QED
    BY <1>3, <1>4, <1>9, <2>1, ConcludesEffect
<1>10. CASE ChooseMLKEM(f)
  BY <1>4, <1>10, KEMEffect
<1> QED
  BY <1>1, <1>2, <1>3, <1>4, <1>5, <1>6, <1>7, <1>8, <1>9, <1>10, FindCases
     DEF Fails, Vanished, MakePrivateKey, Nameless

----------------------------------------------------------------------------
(* An enumeration fails with a reason.                                     *)

Excused(f) ==
  pc[f] = "error" =>
    \/ failed[f] \/ disturbed[f]
    \/ call[f].kind \in PairKinds /\ \E o \in live : Class(o) = "private" /\ Id(o) = None /\ Label(o) = None
    \/ call[f].kind = "certified" /\ \E o \in live : Class(o) = "certificate" /\ ~Sound(o)

LEMMA AroundExcused ==
  ASSUME NEW f \in Finders, Excused(f), Around(f)
  PROVE  Excused(f)'
BY DEF Excused, Around, Class, Id, Label, Sound

LEMMA FindExcused ==
  ASSUME Typed, NEW f \in Finders, Known(f), Find(f)
  PROVE  Excused(f)'
<1>0. TokenTypes /\ FinderTypes /\ Looking(f)
  BY TypedParts
<1>1. CASE Fails(f)
  BY <1>0, <1>1 DEF Fails, FinderTypes, Excused
<1>2. CASE Vanished(f)
  <2>1. disturbed[f]
    BY <1>2 DEF Vanished, Known
  <2> QED
    BY <1>0, <1>2, <2>1, AbortsEffect DEF Vanished, Excused
<1>3. CASE Nameless(f)
  <2>1. CASE call[f].kind \in PairKinds /\ Aborts(f)
    <3>1. PICK o \in todo[f] \cap live : Id(o) = None /\ Label(o) = None
      BY <1>3 DEF Nameless
    <3>2. call[f].kind # "secrets"
      BY <2>1 DEF PairKinds
    <3>3. Class(o) = "private"
      BY <3>2 DEF Known
    <3> QED
      BY <1>0, <2>1, <3>1, <3>3, AbortsEffect DEF Excused
  <2>2. CASE \E o : Keeps(f, o, {})
    BY <1>0, <2>2, KeepsEffect DEF Excused
  <2> QED
    BY <1>3, <2>1, <2>2 DEF Nameless
<1>4. CASE Concludes(f)
  <2>1. CASE Aborts(f)
    <3>1. pc'[f] = "error" /\ failed' = failed /\ disturbed' = disturbed /\ live' = live /\ call'[f] = call[f]
      BY <1>0, <1>4, <2>1, AbortsEffect, ConcludesEffect
    <3>2. CASE Build(f)
      <4>1. pc[f] = "build" /\ look[f].at \in todo[f]
        BY <1>0, <3>2 DEF Build, Looking, Busy, Settled
      <4>2. ~(\E r : Keeps(f, look[f].at, r)) /\ ~Walks(f, "hop", {})
        BY <1>0, <3>1 DEF Keeps, Walks, Goto, FinderTypes
      <4>3. \/ Class(look[f].half) # "certificate" /\ look[f].half \notin live
            \/ look[f].at \notin live
        BY <3>2, <4>2 DEF Build
      <4>4. disturbed[f]
        BY <4>1, <4>3 DEF Known
      <4> QED
        BY <3>1, <4>4 DEF Excused
    <3>3. CASE FindIssuer(f)
      <4>1. ~(\E r : Keeps(f, look[f].at, r)) /\ ~(\E certs : Walks(f, "links", certs))
        BY <1>0, <3>1 DEF Keeps, Walks, Goto, FinderTypes
      <4> QED
        BY <3>3, <4>1 DEF FindIssuer
    <3>4. CASE ReadIssuers(f)
      <4>1. ~Walks(f, "hop", {})
        BY <1>0, <3>1 DEF Walks, Goto, FinderTypes
      <4>2. PICK c \in look[f].links : c \notin live \/ ~Sound(c)
        BY <3>4, <4>1 DEF ReadIssuers
      <4>3. call[f].kind = "certified" /\ Class(c) = "certificate"
        BY <3>4 DEF ReadIssuers, Known
      <4>4. c \notin live => disturbed[f]
        BY DEF Known
      <4> QED
        BY <3>1, <4>2, <4>3, <4>4 DEF Excused, Class, Sound
    <3> QED
      BY <1>4, <3>2, <3>3, <3>4 DEF Concludes
  <2>2. ASSUME NEW r, Keeps(f, look[f].at, r) PROVE Excused(f)'
    BY <1>0, <2>2, KeepsEffect DEF Excused
  <2>3. CASE Advances(f)
    BY <1>0, <2>3, AdvancesEffect DEF Excused
  <2> QED
    BY <1>4, <2>1, <2>2, <2>3, ConcludesEffect
<1>5. ASSUME NEW o, NEW r, Keeps(f, o, r) PROVE Excused(f)'
  BY <1>0, <1>5, KeepsEffect DEF Excused
<1>6. CASE CallFind(f) \/ List(f) \/ Learns(f) \/ Settles(f)
  <2>1. pc'[f] # "error"
    BY <1>6, CallEffect, ListEffect, LookEffect, SettlesEffect DEF Busy, Settled
  <2> QED
    BY <2>1 DEF Excused
<1>7. CASE Finish(f)
  BY <1>0, <1>7 DEF Finish, Goto, FinderTypes, Excused
<1>8. CASE ChooseMLKEM(f)
  BY <1>5, <1>8, KEMEffect
<1> QED
  BY <1>1, <1>2, <1>3, <1>4, <1>5, <1>6, <1>7, <1>8, FindCases DEF MakePrivateKey

LEMMA KnownInvariant == Spec => [](Typed /\ \A f \in Finders : Known(f))
<1>1. Init => Typed /\ \A f \in Finders : Known(f)
  BY InitTyped, InitKnown
<1>2. Typed /\ (\A f \in Finders : Known(f)) /\ [Next]_vars => Typed' /\ (\A f \in Finders : Known(f))'
  BY NextTyped, FindOrAround, AroundKnown, FindKnown
<1> QED
  BY <1>1, <1>2, PTL DEF Spec

\* An enumeration fails only if the token fails, if an object is destroyed
\* under it, if there is a private key without id and label, or, where it looks
\* for issuers, a malformed certificate.
THEOREM ErrorsExcused == Spec => []NotHidden
<1> DEFINE Inv == \A f \in Finders : Excused(f)
           K == Typed /\ \A f \in Finders : Known(f)
<1>1. Init => Inv
  BY DEF Init, Excused
<1>2. K /\ Inv /\ [Next]_vars => Inv'
  BY FindOrAround, AroundExcused, FindExcused
<1>3. Inv => NotHidden
  BY DEF Excused, NotHidden
<1> QED
  BY <1>1, <1>2, <1>3, KnownInvariant, PTL DEF Spec

----------------------------------------------------------------------------
(* The public half belongs to the private key.                             *)

\* What an enumeration returns, and Delete relies on.
WellPaired(v) ==
  /\ Class(v.priv) # "certificate"
  /\ v.pub # None => Class(v.pub) # "certificate" /\ Key(v.pub) = v.key
  /\ v.proof => v.key = Key(v.priv)

Paired(f) ==
  /\ pc[f] \in {"certs", "choose"} \cup Settled /\ look[f].at \in live
       /\ Evidence(look[f].at) = "attribute" /\ ~failed[f] => look[f].proof
  /\ pc[f] \in Settled /\ look[f].proof => Key(look[f].half) = Key(look[f].at)
  /\ \A v \in found[f] :
       /\ WellPaired(v) /\ v.priv \in live \cup gone
       /\ v.priv \in live /\ Evidence(v.priv) = "attribute" /\ ~failed[f] => v.key = Key(v.priv)

LEMMA AroundPaired ==
  ASSUME Typed, Typed', NEW f \in Finders, Known(f), Paired(f), Around(f)
  PROVE  Paired(f)'
<1>0. TokenTypes /\ TokenTypes' /\ Looking(f)
  BY TypedParts DEF Typed, TypeOK, TokenTypes
<1>1. live' \cap (live \cup gone) \subseteq live
  BY <1>0 DEF Around, TokenTypes
<1>2. pc[f] \in Busy => look[f].at \in live \cup gone
  BY <1>0 DEF Looking, Known
<1> QED
  BY <1>1, <1>2 DEF Around, Paired, WellPaired, Busy, Settled, Class, Key, Evidence

\* A pair that is added is right, if the one looked at is.
LEMMA KeepsPaired ==
  ASSUME Typed, NEW f \in Finders, Paired(f), NEW o, NEW r, Keeps(f, o, r), failed[f] => failed'[f],
         \A v \in r : /\ WellPaired(v) /\ v.priv \in live \cup gone
                      /\ v.priv \in live /\ Evidence(v.priv) = "attribute" /\ ~failed'[f] => v.key = Key(v.priv)
  PROVE  Paired(f)'
<1>0. FinderTypes
  BY TypedParts
<1> QED
  BY <1>0, KeepsEffect DEF Settled, Paired, WellPaired, Class, Key, Evidence

LEMMA FindPaired ==
  ASSUME Typed, NEW f \in Finders, Known(f), Paired(f), Find(f)
  PROVE  Paired(f)'
<1>0. TokenTypes /\ FinderTypes /\ Looking(f)
  BY TypedParts
<1>a. look[f] \in Looks
  BY <1>0 DEF FinderTypes
<1>1. CASE CallFind(f)
  <2>1. found[f] = {}
    BY <1>1 DEF CallFind, Known
  <2> QED
    BY <1>1, <2>1, CallEffect DEF Settled, Paired
<1>2. CASE List(f)
  <2>1. found[f] = {}
    BY <1>2 DEF List, Known
  <2> QED
    BY <1>2, <2>1, ListEffect DEF Settled, Paired
<1>3. ASSUME Aborts(f), failed[f] => failed'[f] PROVE Paired(f)'
  BY <1>0, <1>3, AbortsEffect DEF Settled, Paired, WellPaired, Class, Key, Evidence
<1>4. CASE Fails(f) \/ Vanished(f)
  BY <1>0, <1>3, <1>4 DEF Fails, Vanished, FinderTypes
<1>5. ASSUME NEW kind, NEW types, MakePrivateKey(f, kind, types) PROVE Paired(f)'
  <2>1. PICK o \in todo[f] \cap live : Keeps(f, o, IF Type(o) \in types THEN {Only(o)} ELSE {})
    BY <1>5 DEF MakePrivateKey
  <2>2. failed' = failed
    BY <1>5 DEF MakePrivateKey
  <2>3. Class(o) # "certificate"
    BY DEF Known
  <2>4. Only(o).priv = o /\ Only(o).pub = None /\ Only(o).key = Key(o) /\ Only(o).proof = FALSE
    BY DEF Only, NoValue
  <2>5. WellPaired(Only(o))
    BY <2>3, <2>4 DEF WellPaired
  <2> QED
    BY <2>1, <2>2, <2>4, <2>5, KeepsPaired
<1>6. CASE Nameless(f)
  BY <1>3, <1>6, KeepsPaired DEF Nameless
<1>7. CASE Learns(f)
  <2>1. look'[f].at = look[f].at \/ Describe(f)
    BY <1>0, <1>7 DEF Learns, FindPrimary, FindSecondary, NewVerifier, FindCertificates, FinderTypes, Looks
  <2>2. CASE NewVerifier(f)
    <3>1. PICK proof \in BOOLEAN :
            /\ failed' = [failed EXCEPT ![f] = @ \/ (~proof /\ look[f].at \in live /\ Evidence(look[f].at) = "attribute")]
            /\ look' = [look EXCEPT ![f].proof = proof]
      BY <2>2 DEF NewVerifier
    <3>2. look'[f].proof = proof /\ look'[f].at = look[f].at
      BY <1>0, <1>a, <3>1 DEF FinderTypes, Looks
    <3>3. look[f].at \in live /\ Evidence(look[f].at) = "attribute" /\ ~failed'[f] => proof
      BY <1>0, <3>1 DEF FinderTypes
    <3> QED
      BY <1>7, <3>2, <3>3, LookEffect DEF Paired, WellPaired, Class, Key, Evidence
  <2>3. CASE FindCertificates(f)
    <3>1. look'[f].proof = look[f].proof /\ look'[f].at = look[f].at
      BY <1>0, <1>a, <2>3 DEF FindCertificates, FinderTypes, Looks
    <3>2. pc[f] = "certs"
      BY <2>3 DEF FindCertificates
    <3> QED
      BY <1>7, <3>1, <3>2, LookEffect DEF Paired, WellPaired, Class, Key, Evidence
  <2>4. CASE Describe(f) \/ FindPrimary(f) \/ FindSecondary(f)
    <3>1. pc'[f] \notin {"certs", "choose"} \cup Settled
      BY <1>0, <2>4 DEF Describe, FindPrimary, FindSecondary, Goto, FinderTypes, Settled
    <3> QED
      BY <1>7, <3>1, LookEffect DEF Paired, WellPaired, Class, Key, Evidence
  <2> QED
    BY <1>7, <2>2, <2>3, <2>4 DEF Learns
<1>8. CASE Settles(f)
  <2>1. PICK read \in SUBSET Readable(f) :
          LET l == look[f]
              exported == IF Type(l.at) \in Signers THEN read ELSE {}
              tiers == <<l.primary \cap exported, l.secondary \cap exported, l.certs>> IN
          /\ failed'[f] = (failed[f] \/ read # Readable(f))
          /\ look'[f].half \in SelectPublicHalf(tiers, Key(l.at), l.proof)
          /\ look'[f] = [l EXCEPT !.half = look'[f].half, !.cert = look'[f].cert]
          /\ pc[f] = "choose" /\ pc'[f] = "build" /\ found'[f] = found[f]
          /\ UNCHANGED <<live, gone, steady, disturbed>>
    BY <1>8, SettlesEffect
  <2>2. look'[f].at = look[f].at /\ look'[f].proof = look[f].proof
    BY <1>a, <2>1 DEF Looks
  <2>3. look[f].proof => Key(look'[f].half) = Key(look[f].at)
    <3> DEFINE exported == IF Type(look[f].at) \in Signers THEN read ELSE {}
               tiers == <<look[f].primary \cap exported, look[f].secondary \cap exported, look[f].certs>>
    <3>1. look[f].proof \in BOOLEAN
      BY <1>a DEF Looks
    <3>2. look'[f].half \in SelectPublicHalf(tiers, Key(look[f].at), look[f].proof)
      BY <2>1
    <3> HIDE DEF tiers
    <3> QED
      BY <3>1, <3>2, SelectedElement
  <2> QED
    BY <2>1, <2>2, <2>3 DEF Paired, WellPaired, Class, Key, Evidence
<1>9. CASE Choose(f) /\ Keeps(f, look[f].at, {})
  <2>1. failed[f] => failed'[f]
    BY <1>9, SkipEffect
  <2> QED
    BY <1>9, <2>1, KeepsPaired
<1>10. CASE Concludes(f)
  <2> DEFINE l == look[f]
  <2>1. failed' = failed /\ pc[f] \in Settled
    BY <1>10, ConcludesEffect
  <2>2. l.at \in todo[f]
    BY <1>0, <2>1 DEF Looking, Busy
  <2>3. l.proof => Key(l.half) = Key(l.at)
    BY <2>1 DEF Paired
  <2>4. Pair(f).priv = l.at /\ Pair(f).key = Key(l.half) /\ WellPaired(Pair(f))
    BY <2>2, <2>3 DEF Pair, WellPaired, Known
  <2>5. l.at \in live /\ Evidence(l.at) = "attribute" /\ ~failed[f] => l.proof
    BY <2>1 DEF Paired
  <2>6. CASE Keeps(f, l.at, {Pair(f)})
    BY <2>1, <2>2, <2>3, <2>4, <2>5, <2>6, KeepsPaired DEF Known
  <2>7. CASE Keeps(f, l.at, {})
    BY <2>1, <2>7, KeepsPaired
  <2>8. CASE Advances(f)
    <3>1. /\ pc'[f] \in Settled /\ found'[f] = found[f] /\ live' = live /\ gone' = gone
          /\ look'[f].at = l.at /\ look'[f].half = l.half /\ look'[f].proof = l.proof
      BY <1>0, <2>8, AdvancesEffect DEF Settled
    <3>2. l.at \in live /\ Evidence(l.at) = "attribute" /\ ~failed'[f] => look'[f].proof
      BY <2>1, <2>5, <3>1
    <3>3. look'[f].proof => Key(look'[f].half) = Key(look'[f].at)
      BY <2>3, <3>1
    <3>4. \A v \in found'[f] :
            /\ WellPaired(v) /\ v.priv \in live' \cup gone'
            /\ v.priv \in live' /\ Evidence(v.priv) = "attribute" /\ ~failed'[f] => v.key = Key(v.priv)
      BY <2>1, <3>1 DEF Paired
    <3> HIDE DEF l
    <3> QED
      BY <3>1, <3>2, <3>3, <3>4 DEF Paired, WellPaired, Class, Key, Evidence
  <2> QED
    BY <1>3, <1>10, <2>1, <2>6, <2>7, <2>8, ConcludesEffect
<1>11. CASE ChooseMLKEM(f)
  <2> DEFINE l == look[f]
             pair(half) == [priv |-> l.at, pub |-> half, cert |-> None, key |-> Key(half), proof |-> l.proof]
  <2>1. failed[f] => failed'[f]
    BY <1>11, KEMEffect
  <2>2. CASE Keeps(f, l.at, {})
    BY <2>1, <2>2, KeepsPaired
  <2>3. ASSUME NEW half \in l.primary \cup l.secondary, Keeps(f, l.at, {pair(half)}),
               l.proof, Key(half) = Key(l.at)
        PROVE  Paired(f)'
    <3>1. l.at \in todo[f]
      BY <1>0, <1>11 DEF ChooseMLKEM, Looking, Busy, Settled
    <3>2. /\ WellPaired(pair(half)) /\ pair(half).priv = l.at
          /\ pair(half).key = Key(l.at)
      BY <2>3, <3>1 DEF WellPaired, Known
    <3>3. l.at \in live \cup gone
      BY <3>1 DEF Known
    <3> HIDE DEF pair
    <3>4. \A v \in {pair(half)} :
            /\ WellPaired(v) /\ v.priv \in live \cup gone
            /\ v.priv \in live /\ Evidence(v.priv) = "attribute" /\ ~failed'[f] => v.key = Key(v.priv)
      BY <3>2, <3>3
    <3> QED
      BY <2>1, <2>3, <3>4, KeepsPaired
  <2> QED
    BY <1>11, <2>2, <2>3, KEMEffect
<1>12. CASE Finish(f)
  BY <1>0, <1>12 DEF Settled, Finish, Goto, FinderTypes, Paired, WellPaired, Class, Key, Evidence,
     tokenVars, historyVars
<1> QED
  BY <1>1, <1>2, <1>4, <1>5, <1>6, <1>7, <1>8, <1>9, <1>10, <1>11, <1>12, FindCases

LEMMA PairedInvariant == Spec => [](\A f \in Finders : Paired(f))
<1> DEFINE K == Typed /\ \A f \in Finders : Known(f)
           Inv == \A f \in Finders : Paired(f)
<1>1. Init => Inv
  BY DEF Settled, Init, Paired
<1>2. K /\ K' /\ Inv /\ [Next]_vars => Inv'
  BY FindOrAround, AroundPaired, FindPaired
<1> QED
  BY <1>1, <1>2, KnownInvariant, PTL DEF Spec

\* A private key that tells its public half is given no other one.
THEOREM GenuineHalves == Spec => []Genuine
<1>1. (\A f \in Finders : Paired(f)) => Genuine
  BY DEF Paired, Genuine
<1> QED
  BY <1>1, PairedInvariant, PTL

----------------------------------------------------------------------------
(* A private key is not given another key while its own public half is      *)
(* there: that one is in the first tier, and either wins or disagrees.      *)

LEMMA OwnSelected ==
  ASSUME NEW tiers, 1 \in DOMAIN tiers, DOMAIN tiers \subseteq Nat \ {0},
         NEW key, NEW proof \in BOOLEAN, NEW h \in tiers[1], Key(h) = key,
         NEW c \in SelectPublicHalf(tiers, key, proof)
  PROVE  Key(c) = key
<1>1. CASE proof
  BY <1>1, SelectedElement
<1>2. CASE ~proof
  <2>1. FirstWith(tiers, key, proof, "verified") = {}
    BY <1>2, FirstWithElement DEF Check
  <2>2. Check(key, proof, h) = "unverified"
    BY <1>2 DEF Check
  <2>3. h \in FirstWith(tiers, key, proof, "unverified")
    BY <2>2, FirstTierWins
  <2> QED
    BY <2>1, <2>3 DEF SelectPublicHalf
<1> QED
  BY <1>1, <1>2

LEMMA OwnVerified ==
  ASSUME NEW tiers, 1 \in DOMAIN tiers, DOMAIN tiers \subseteq Nat \ {0},
         NEW key, NEW h \in tiers[1], Key(h) = key
  PROVE  /\ FirstWith(tiers, key, TRUE, "verified") # {}
         /\ SelectPublicHalf(tiers, key, TRUE) # {}
         /\ SelectPublicHalf(tiers, key, TRUE) \subseteq tiers[1]
<1>1. Check(key, TRUE, h) = "verified"
  BY DEF Check
<1>2. /\ h \in FirstWith(tiers, key, TRUE, "verified")
      /\ FirstWith(tiers, key, TRUE, "verified") \subseteq tiers[1]
  BY <1>1, FirstTierWins
<1>3. SelectPublicHalf(tiers, key, TRUE) = FirstWith(tiers, key, TRUE, "verified")
  BY <1>2 DEF SelectPublicHalf
<1> QED
  BY <1>2, <1>3

OwnFirst(f) ==
  /\ pc[f] \in {"secondary", "verifier", "certs", "choose"} /\ ~failed[f] =>
       OwnHalves(look[f].at) \cap steady[f] \subseteq look[f].primary
  /\ pc[f] \in Settled /\ Type(look[f].at) \in Signers /\ ~failed[f]
       /\ OwnHalves(look[f].at) \cap steady[f] # {} => Key(look[f].half) = Key(look[f].at)
  /\ \A v \in found[f] :
       OwnHalves(v.priv) \cap steady[f] # {} /\ ~failed[f] => v.key = Key(v.priv)

LEMMA OwnHalvesKey ==
  ASSUME NEW o, NEW h \in OwnHalves(o)
  PROVE  Key(h) = Key(o) /\ Sound(h) /\ Class(h) = "public" /\ h \in Objects
BY DEF OwnHalves

LEMMA AroundOwnFirst ==
  ASSUME NEW f \in Finders, OwnFirst(f), Around(f)
  PROVE  OwnFirst(f)'
<1>1. \A o : OwnHalves(o)' = OwnHalves(o)
  BY DEF OwnHalves, Class, Type, Key, Matches, Id, Label, Sound
<1>2. (\A o : Key(o)' = Key(o)) /\ (\A o : Type(o)' = Type(o))
  BY DEF Key, Type
<1> QED
  BY <1>1, <1>2 DEF Around, OwnFirst, Key, Type, OwnHalves, Class, Matches, Id, Label, Sound

\* What is read of the first tier, if the token fails no call.
LEMMA OwnReadable ==
  ASSUME Typed, NEW f \in Finders, OwnFirst(f), pc[f] = "choose", ~failed[f],
         NEW h \in OwnHalves(look[f].at) \cap steady[f]
  PROVE  h \in look[f].primary /\ h \in Readable(f)
<1>1. h \in live
  BY TypedParts DEF TokenTypes
<1>2. h \in look[f].primary
  BY DEF OwnFirst
<1> QED
  BY <1>1, <1>2, OwnHalvesKey DEF Readable

LEMMA KeepsOwnFirst ==
  ASSUME Typed, NEW f \in Finders, OwnFirst(f), NEW o, NEW r, Keeps(f, o, r), failed[f] => failed'[f],
         \A v \in r : OwnHalves(v.priv) \cap steady[f] # {} /\ ~failed'[f] => v.key = Key(v.priv)
  PROVE  OwnFirst(f)'
<1>0. FinderTypes
  BY TypedParts
<1> QED
  BY <1>0, KeepsEffect DEF Settled, OwnFirst, Key, Type, OwnHalves, Class, Matches, Id, Label, Sound

LEMMA FindOwnFirst ==
  ASSUME Typed, NEW f \in Finders, Known(f), OwnFirst(f), Find(f)
  PROVE  OwnFirst(f)'
<1>0. TokenTypes /\ FinderTypes /\ Looking(f)
  BY TypedParts
<1>a. look[f] \in Looks
  BY <1>0 DEF FinderTypes
<1> USE DEF Key, Type, OwnHalves, Class, Matches, Id, Label, Sound
<1>1. CASE CallFind(f)
  <2>1. found[f] = {}
    BY <1>1 DEF CallFind, Known
  <2> QED
    BY <1>1, <2>1, CallEffect DEF Settled, OwnFirst
<1>2. CASE List(f)
  <2>1. found[f] = {}
    BY <1>2 DEF List, Known
  <2> QED
    BY <1>2, <2>1, ListEffect DEF Settled, OwnFirst
<1>3. ASSUME Aborts(f), failed[f] => failed'[f] PROVE OwnFirst(f)'
  BY <1>0, <1>3, AbortsEffect DEF Settled, OwnFirst
<1>4. CASE Fails(f) \/ Vanished(f)
  BY <1>0, <1>3, <1>4 DEF Fails, Vanished, FinderTypes
<1>5. ASSUME NEW kind, NEW types, MakePrivateKey(f, kind, types) PROVE OwnFirst(f)'
  <2>1. PICK o \in todo[f] \cap live : Keeps(f, o, IF Type(o) \in types THEN {Only(o)} ELSE {})
    BY <1>5 DEF MakePrivateKey
  <2>2. failed' = failed
    BY <1>5 DEF MakePrivateKey
  <2>3. Only(o).priv = o /\ Only(o).key = Key(o)
    BY DEF Only, NoValue
  <2> QED
    BY <2>1, <2>2, <2>3, KeepsOwnFirst
<1>6. CASE Nameless(f)
  BY <1>3, <1>6, KeepsOwnFirst DEF Nameless
<1>7. CASE Learns(f)
  <2>1. CASE FindPrimary(f)
    <3>1. look'[f].at = look[f].at
      BY <1>0, <1>a, <2>1 DEF FindPrimary, FinderTypes, Looks
    <3>2. ~failed'[f] => look'[f].primary = FindKeys("public", {Type(look[f].at)}, Id(look[f].at), Label(look[f].at))
      BY <1>0, <1>a, <2>1 DEF FindPrimary, FinderTypes, Looks
    <3>3. steady[f] \subseteq live
      BY <1>0 DEF TokenTypes
    <3>4. OwnHalves(look[f].at) \cap steady[f]
            \subseteq FindKeys("public", {Type(look[f].at)}, Id(look[f].at), Label(look[f].at))
      BY <3>3 DEF FindKeys
    <3>5. pc'[f] = "secondary" /\ found'[f] = found[f] /\ steady'[f] = steady[f] /\ (failed[f] => failed'[f])
      BY <1>0, <1>7, <2>1, LookEffect DEF FindPrimary, FinderTypes, Goto
    <3> QED
      BY <3>1, <3>2, <3>4, <3>5 DEF Settled, OwnFirst
  <2>2. CASE FindSecondary(f) \/ NewVerifier(f) \/ FindCertificates(f)
    <3>1. look'[f].at = look[f].at /\ look'[f].primary = look[f].primary
      BY <1>0, <1>a, <2>2 DEF FindSecondary, NewVerifier, FindCertificates, FinderTypes, Looks
    <3>2. pc[f] \in {"secondary", "verifier", "certs"}
      BY <2>2 DEF FindSecondary, NewVerifier, FindCertificates
    <3> QED
      BY <1>7, <3>1, <3>2, LookEffect DEF OwnFirst, Busy
  <2>3. CASE Describe(f)
    <3>1. pc'[f] = "primary"
      BY <1>0, <2>3 DEF Describe, Goto, FinderTypes
    <3> QED
      BY <1>7, <3>1, LookEffect DEF OwnFirst
  <2> QED
    BY <1>7, <2>1, <2>2, <2>3 DEF Learns
<1>8. CASE Settles(f)
  <2>1. PICK read \in SUBSET Readable(f) :
          LET l == look[f]
              exported == IF Type(l.at) \in Signers THEN read ELSE {}
              tiers == <<l.primary \cap exported, l.secondary \cap exported, l.certs>> IN
          /\ failed'[f] = (failed[f] \/ read # Readable(f))
          /\ look'[f].half \in SelectPublicHalf(tiers, Key(l.at), l.proof)
          /\ look'[f] = [l EXCEPT !.half = look'[f].half, !.cert = look'[f].cert]
          /\ pc[f] = "choose" /\ pc'[f] = "build" /\ found'[f] = found[f]
          /\ UNCHANGED <<live, gone, steady, disturbed>>
    BY <1>8, SettlesEffect
  <2>2. look'[f].at = look[f].at /\ look[f].proof \in BOOLEAN
    BY <1>a, <2>1 DEF Looks
  <2>3. ASSUME Type(look[f].at) \in Signers, ~failed'[f],
               NEW h \in OwnHalves(look[f].at) \cap steady[f]
        PROVE  Key(look'[f].half) = Key(look[f].at)
    <3> DEFINE tiers == <<look[f].primary \cap read, look[f].secondary \cap read, look[f].certs>>
    <3>1. look'[f].half \in SelectPublicHalf(tiers, Key(look[f].at), look[f].proof)
      BY <2>1, <2>3
    <3>2. ~failed[f] /\ read = Readable(f)
      BY <2>1, <2>3
    <3>3. h \in tiers[1]
      BY <2>1, <3>2, OwnReadable
    <3>4. 1 \in DOMAIN tiers /\ DOMAIN tiers \subseteq Nat \ {0}
      OBVIOUS
    <3>5. Key(h) = Key(look[f].at)
      BY OwnHalvesKey
    <3> HIDE DEF tiers
    <3> QED
      BY <2>2, <3>1, <3>3, <3>4, <3>5, OwnSelected
  <2> QED
    BY <2>1, <2>2, <2>3 DEF OwnFirst, Settled
<1>9. CASE Choose(f) /\ Keeps(f, look[f].at, {})
  <2>1. failed[f] => failed'[f]
    BY <1>9, SkipEffect
  <2> QED
    BY <1>9, <2>1, KeepsOwnFirst
<1>10. CASE Concludes(f)
  <2>1. pc[f] \in Settled /\ failed' = failed
    BY <1>10, ConcludesEffect
  <2>2. CASE Keeps(f, look[f].at, {})
    BY <2>1, <2>2, KeepsOwnFirst
  <2>3. CASE Type(look[f].at) \in Signers /\ Keeps(f, look[f].at, {Pair(f)})
    <3>1. Pair(f).priv = look[f].at /\ Pair(f).key = Key(look[f].half)
      BY DEF Pair
    <3>2. \A v \in {Pair(f)} : OwnHalves(v.priv) \cap steady[f] # {} /\ ~failed'[f] => v.key = Key(v.priv)
      BY <2>1, <2>3, <3>1 DEF OwnFirst
    <3> QED
      BY <2>1, <2>3, <3>2, KeepsOwnFirst
  <2>4. CASE Advances(f)
    <3>1. /\ pc'[f] \in Settled /\ found'[f] = found[f] /\ steady' = steady
          /\ look'[f].at = look[f].at /\ look'[f].half = look[f].half
      BY <1>0, <2>4, AdvancesEffect DEF Settled
    <3>2. (\A o : OwnHalves(o)' = OwnHalves(o)) /\ (\A o : Key(o)' = Key(o)) /\ (\A o : Type(o)' = Type(o))
      BY DEF OwnHalves, Class, Type, Key, Matches, Id, Label, Sound
    <3>3. Type(look[f].at) \in Signers /\ ~failed'[f] /\ OwnHalves(look[f].at) \cap steady'[f] # {} =>
            Key(look'[f].half) = Key(look'[f].at)
      BY <2>1, <3>1 DEF OwnFirst
    <3>4. \A v \in found'[f] : OwnHalves(v.priv) \cap steady'[f] # {} /\ ~failed'[f] => v.key = Key(v.priv)
      BY <2>1, <3>1 DEF OwnFirst
    <3> QED
      BY <3>1, <3>2, <3>3, <3>4 DEF OwnFirst, Settled, Key, Type, OwnHalves, Class, Matches, Id, Label, Sound
  <2> QED
    BY <1>3, <1>10, <2>1, <2>2, <2>3, <2>4, ConcludesEffect
<1>11. CASE ChooseMLKEM(f)
  <2> DEFINE l == look[f]
             pair(half) == [priv |-> l.at, pub |-> half, cert |-> None, key |-> Key(half), proof |-> l.proof]
  <2>1. failed[f] => failed'[f]
    BY <1>11, KEMEffect
  <2>2. CASE Keeps(f, l.at, {})
    BY <2>1, <2>2, KeepsOwnFirst
  <2>3. ASSUME NEW half, Keeps(f, l.at, {pair(half)}), Key(half) = Key(l.at)
        PROVE  OwnFirst(f)'
    <3>1. pair(half).priv = l.at /\ pair(half).key = Key(l.at)
      BY <2>3
    <3> HIDE DEF pair
    <3> QED
      BY <2>1, <2>3, <3>1, KeepsOwnFirst
  <2> QED
    BY <1>11, <2>2, <2>3, KEMEffect
<1>12. CASE Finish(f)
  BY <1>0, <1>12 DEF Settled, Finish, Goto, FinderTypes, OwnFirst, tokenVars, historyVars
<1> QED
  BY <1>1, <1>2, <1>4, <1>5, <1>6, <1>7, <1>8, <1>9, <1>10, <1>11, <1>12, FindCases

LEMMA OwnFirstInvariant == Spec => [](\A f \in Finders : OwnFirst(f))
<1> DEFINE K == Typed /\ \A f \in Finders : Known(f)
           Inv == \A f \in Finders : OwnFirst(f)
<1>1. Init => Inv
  BY DEF Init, OwnFirst
<1>2. K /\ Inv /\ [Next]_vars => Inv'
  BY FindOrAround, AroundOwnFirst, FindOwnFirst
<1> QED
  BY <1>1, <1>2, KnownInvariant, PTL DEF Spec

\* A private key is not given another key while its own public half is there.
THEOREM OwnHalfWins == Spec => []NeverReplaced
<1>1. (\A f \in Finders : OwnFirst(f)) => NeverReplaced
  BY DEF OwnFirst, NeverReplaced
<1> QED
  BY <1>1, OwnFirstInvariant, PTL

----------------------------------------------------------------------------
(* Generation and deletion: a maker has a well-made pair, and keeps count of *)
(* what it has destroyed.                                                  *)

Handled(m) ==
  LET v == value[m] IN
  /\ mpc[m] # "idle" => v \in Pairs /\ WellPaired(v)
  /\ mpc[m] = "undo public" /\ ~reported[m] => v.priv \in gone
  /\ mpc[m] = "failed" /\ ~reported[m] => v.priv \in gone /\ v.pub \in gone
  /\ mpc[m] \in {"delete public", "half deleted", "deleted"} => v.priv \in gone
  /\ mpc[m] = "deleted" => v.pub \in gone \cup {None}

\* What other steps leave of it.
LEMMA AroundHandled ==
  ASSUME NEW m \in Makers, Handled(m), gone \subseteq gone',
         mpc'[m] = mpc[m], value'[m] = value[m], reported'[m] = reported[m]
  PROVE  Handled(m)'
BY DEF Handled, WellPaired, Class, Key

LEMMA MakeOwn ==
  ASSUME MakerTypes, NEW n \in Makers, Make(n), NEW m \in Makers, m # n
  PROVE  mpc'[m] = mpc[m] /\ value'[m] = value[m] /\ reported'[m] = reported[m]
<1>1. mpc'[m] = mpc[m]
  BY DEF MakerTypes, Make, GenerateKeyPair, GenerateMLKEMKeyPair, Generate, Export, DestroyKeyPair,
     Undo, Adopt, DeletePrivate, DeletePublic, Destroys, Moves
<1>2. value'[m] = value[m]
  BY DEF MakerTypes, Make, GenerateKeyPair, GenerateMLKEMKeyPair, Generate, Export, DestroyKeyPair,
     Undo, Adopt, DeletePrivate, DeletePublic
<1>3. reported'[m] = reported[m]
  BY DEF MakerTypes, Make, GenerateKeyPair, GenerateMLKEMKeyPair, Generate, Export, DestroyKeyPair,
     Undo, Adopt, DeletePrivate, DeletePublic, Destroys
<1> QED
  BY <1>1, <1>2, <1>3

LEMMA MakeGone ==
  ASSUME NEW m \in Makers, Make(m)
  PROVE  gone \subseteq gone'
BY MakeSteps DEF Destroyed

LEMMA MakeHandled ==
  ASSUME Typed, NEW m \in Makers, Handled(m), Make(m), \A f \in Finders : Paired(f)
  PROVE  Handled(m)'
<1>0. TokenTypes /\ FinderTypes /\ MakerTypes
  BY TypedParts
<1> USE DEF WellPaired, Class, Key
<1>1. ASSUME NEW types, NEW next \in {"export", "has"}, Generate(m, types, next)
      PROVE  Handled(m)'
  <2>1. PICK a, b \in Unborn :
          /\ Class(a) = "private" /\ Class(b) = "public" /\ Key(a) = Key(b)
          /\ value' = [value EXCEPT ![m] = [NoValue EXCEPT !.priv = a, !.pub = b, !.key = Key(a), !.proof = TRUE]]
    BY <1>1 DEF Generate
  <2>2. mpc'[m] = next
    BY <1>0, <1>1 DEF Generate, Moves, MakerTypes
  <2>3. value'[m] = [priv |-> a, pub |-> b, cert |-> None, key |-> Key(a), proof |-> TRUE]
    BY <1>0, <2>1 DEF NoValue, MakerTypes
  <2>4. a \in Objects /\ b \in Objects
    BY DEF Unborn
  <2>5. Key(a) \in STRING /\ Class(a) # "certificate" /\ Class(b) # "certificate"
    BY <2>1, <2>4, DataType
  <2>6. value'[m] \in Pairs
    BY <2>3, <2>4, <2>5 DEF Pairs
  <2>7. WellPaired(value'[m])
    BY <2>1, <2>3, <2>5
  <2> QED
    BY <2>2, <2>6, <2>7 DEF Handled
<1>2. CASE Export(m)
  <2>1. mpc[m] = "export" /\ mpc'[m] \in {"has", "undo private"} /\ value' = value
    BY <1>0, <1>2 DEF Export, Moves, MakerTypes
  <2> QED
    BY <2>1 DEF Handled
<1>3. CASE Adopt(m)
  <2>1. PICK f \in Finders : \E v \in found[f] : value' = [value EXCEPT ![m] = v]
    BY <1>3 DEF Adopt
  <2>2. PICK v \in found[f] : value' = [value EXCEPT ![m] = v]
    BY <2>1
  <2>3. value'[m] = v /\ mpc'[m] = "has"
    BY <1>0, <1>3, <2>2 DEF Adopt, Moves, MakerTypes
  <2>4. v \in Pairs /\ WellPaired(v)
    BY <1>0, <2>2 DEF FinderTypes, Paired
  <2> QED
    BY <2>3, <2>4 DEF Handled
<1>4. CASE Undo(m, "undo private", value[m].priv, "undo public")
  <2>1. mpc[m] = "undo private" /\ mpc'[m] = "undo public" /\ value' = value
    BY <1>0, <1>4 DEF Undo, Moves, MakerTypes
  <2>2. value[m].priv \in gone' \/ reported'[m]
    BY <1>0, <1>4 DEF Undo, Destroys, Destroyed, MakerTypes
  <2> QED
    BY <2>1, <2>2 DEF Handled
<1>5. CASE Undo(m, "undo public", value[m].pub, "failed")
  <2>1. mpc[m] = "undo public" /\ mpc'[m] = "failed" /\ value' = value
    BY <1>0, <1>5 DEF Undo, Moves, MakerTypes
  <2>2. reported'[m] \/ (value[m].pub \in gone' /\ reported' = reported)
    BY <1>0, <1>5 DEF Undo, Destroys, Destroyed, MakerTypes
  <2> QED
    BY <2>1, <2>2, MakeGone DEF Handled
<1>6. CASE DeletePrivate(m)
  <2>1. mpc[m] = "has" /\ value' = value
    BY <1>6 DEF DeletePrivate
  <2>2. CASE Destroyed(value[m].priv) /\ Moves(m, IF value[m].pub = None THEN "deleted" ELSE "delete public")
    <3>1. mpc'[m] = IF value[m].pub = None THEN "deleted" ELSE "delete public"
      BY <1>0, <2>2 DEF Moves, MakerTypes
    <3>2. value[m].priv \in gone'
      BY <2>2 DEF Destroyed
    <3> QED
      BY <2>1, <3>1, <3>2 DEF Handled
  <2>3. CASE mpc' = mpc
    BY <2>1, <2>3 DEF Handled
  <2> QED
    BY <1>6, <2>2, <2>3 DEF DeletePrivate, Destroys
<1>7. CASE DeletePublic(m)
  <2>1. mpc[m] = "delete public" /\ value' = value
    BY <1>7 DEF DeletePublic
  <2>2. \/ mpc'[m] = "deleted" /\ value[m].pub \in gone'
        \/ mpc'[m] = "half deleted"
    BY <1>0, <1>7 DEF DeletePublic, Destroys, Destroyed, Moves, MakerTypes
  <2> QED
    BY <2>1, <2>2, MakeGone DEF Handled
<1> QED
  BY <1>1, <1>2, <1>3, <1>4, <1>5, <1>6, <1>7
     DEF Make, GenerateKeyPair, GenerateMLKEMKeyPair, DestroyKeyPair

\* Who does not make anything leaves the makers alone.
LEMMA MakersAlone ==
  ASSUME [Next]_vars, \A m \in Makers : ~Make(m)
  PROVE  UNCHANGED makerVars /\ gone \subseteq gone'
<1>1. ASSUME NEW o, Others(o) PROVE UNCHANGED makerVars /\ gone \subseteq gone'
  BY <1>1 DEF Others, Appears, Destroyed
<1>2. ASSUME NEW f \in Finders, Find(f) PROVE UNCHANGED makerVars /\ gone \subseteq gone'
  BY <1>2, FindQuiet DEF tokenVars
<1> QED
  BY <1>1, <1>2 DEF Next, vars, tokenVars

LEMMA NextHandled ==
  ASSUME Typed, \A f \in Finders : Paired(f), [Next]_vars, NEW m \in Makers, Handled(m)
  PROVE  Handled(m)'
<1>1. ASSUME NEW n \in Makers, Make(n) PROVE Handled(m)'
  <2>1. CASE n = m
    BY <1>1, <2>1, MakeHandled
  <2>2. CASE n # m
    BY <1>1, <2>2, TypedParts, MakeOwn, MakeGone, AroundHandled
  <2> QED
    BY <2>1, <2>2
<1>2. CASE \A n \in Makers : ~Make(n)
  BY <1>2, MakersAlone, AroundHandled DEF makerVars
<1> QED
  BY <1>1, <1>2

LEMMA HandledInvariant == Spec => [](\A m \in Makers : Handled(m))
<1> DEFINE P == \A f \in Finders : Paired(f)
           K == Typed /\ \A f \in Finders : Known(f)
           Inv == \A m \in Makers : Handled(m)
<1>1. Init => Inv
  BY DEF Init, Handled
<1>2. K /\ P /\ Inv /\ [Next]_vars => Inv'
  BY NextHandled
<1> QED
  BY <1>1, <1>2, KnownInvariant, PairedInvariant, PTL DEF Spec

\* Neither a generation that fails without saying so nor Delete leaves a half
\* of the key pair behind, nor a Delete that fails half-way the private one.
THEOREM NoHalfLeft == Spec => []NothingLeft
<1> DEFINE K == Typed /\ \A f \in Finders : Known(f)
           Inv == \A m \in Makers : Handled(m)
<1>1. K /\ Inv => NothingLeft
  <2> SUFFICES ASSUME K, Inv, NEW m \in Makers
               PROVE  /\ mpc[m] = "deleted" \/ (mpc[m] = "failed" /\ ~reported[m]) =>
                           value[m].priv \notin live /\ value[m].pub \notin live
                      /\ mpc[m] = "half deleted" => value[m].priv \notin live
    BY DEF NothingLeft
  <2>1. /\ mpc[m] = "deleted" \/ (mpc[m] = "failed" /\ ~reported[m]) =>
             value[m].priv \in gone /\ value[m].pub \in gone \cup {None}
        /\ mpc[m] = "half deleted" => value[m].priv \in gone
    BY DEF Handled
  <2>2. gone \cap live = {} /\ None \notin live
    BY TypedParts, ObjectAssumption DEF TokenTypes
  <2> QED
    BY <2>1, <2>2
<1> QED
  BY <1>1, KnownInvariant, HandledInvariant, PTL

\* Delete destroys the two halves of its key pair and nothing else; if the pair
\* was verified, both are of one key.
LEMMA MakeDestroys ==
  ASSUME Typed, NEW m \in Makers, Handled(m), Make(m), NEW o \in live \ live'
  PROVE  /\ o \in {value[m].priv, value[m].pub} /\ Class(o) # "certificate"
         /\ value[m].proof => Key(o) = Key(value[m].priv)
<1>1. live \subseteq Objects /\ None \notin Objects
  BY TypedParts, ObjectAssumption DEF TokenTypes
<1>2. ~GenerateKeyPair(m) /\ ~GenerateMLKEMKeyPair(m) /\ ~Export(m) /\ ~Adopt(m)
  BY DEF GenerateKeyPair, GenerateMLKEMKeyPair, Generate, Export, Adopt, tokenVars
<1>3. mpc[m] # "idle" /\ (Destroyed(value[m].priv) \/ Destroyed(value[m].pub))
  BY <1>2 DEF Make, DestroyKeyPair, Undo, DeletePrivate, DeletePublic, Destroys, Stays, tokenVars
<1>4. o \in {value[m].priv, value[m].pub} /\ o # None
  BY <1>1, <1>3 DEF Destroyed
<1>5. WellPaired(value[m])
  BY <1>3 DEF Handled
<1> QED
  BY <1>4, <1>5 DEF WellPaired

\* Delete destroys the halves of its key pair, and those of no other key.
THEOREM DeletesItsOwn == Spec => DeletesOwn
<1> DEFINE K == Typed /\ \A f \in Finders : Known(f)
           Inv == \A m \in Makers : Handled(m)
           Own == \A m \in Makers : mpc'[m] # mpc[m] => \A o \in live \ live' :
                    /\ o \in {value[m].priv, value[m].pub} /\ Class(o) # "certificate"
                    /\ value[m].proof => Key(o) = Key(value[m].priv)
<1>1. K /\ Inv /\ [Next]_vars => [Own]_vars
  <2> SUFFICES ASSUME K, Inv, [Next]_vars, NEW m \in Makers, mpc'[m] # mpc[m], NEW o \in live \ live'
               PROVE  /\ o \in {value[m].priv, value[m].pub} /\ Class(o) # "certificate"
                      /\ value[m].proof => Key(o) = Key(value[m].priv)
    OBVIOUS
  <2>1. PICK n \in Makers : Make(n)
    BY MakersAlone DEF makerVars
  <2>2. n = m
    BY <2>1, TypedParts, MakeOwn
  <2> QED
    BY <2>1, <2>2, MakeDestroys
<1> QED
  BY <1>1, KnownInvariant, HandledInvariant, PTL DEF Spec, DeletesOwn

----------------------------------------------------------------------------
(* An enumeration leaves no key out: what it is meant to return is either    *)
(* still to be looked at or found.                                         *)

\* The certificates that are found for a private key.
Certifying(o) == {c \in Objects : Class(c) = "certificate" /\ Sound(c) /\ Id(c) = Id(o)}

ToReturn(f) ==
  pc[f] \notin {"idle", "list", "error"} /\ ~failed[f] =>
    \A o \in steady[f] : Returnable(f, o) => o \in todo[f] \/ \E v \in found[f] : v.priv = o

Certified(f) ==
  pc[f] = "choose" /\ call[f].kind \in PairKinds /\ Id(look[f].at) # None /\ ~failed[f] =>
    Certifying(look[f].at) \cap steady[f] \subseteq look[f].certs

Complementary(f) ==
  pc[f] = "build" /\ look[f].at \in steady[f] /\ Returnable(f, look[f].at) /\ ~failed[f] =>
    /\ Class(look[f].half) # "certificate"
    /\ call[f].kind = "certified" => look[f].cert # None

Thorough(f) == ToReturn(f) /\ Certified(f) /\ Complementary(f)

LEMMA ReturnableShrinks ==
  ASSUME NEW f, call'[f] = call[f], steady'[f] \subseteq steady[f], NEW o, Returnable(f, o)'
  PROVE  Returnable(f, o)
BY DEF Returnable, OwnHalves, Matches, Class, Type, Key, Id, Label, Sound, Evidence

\* What Returnable says of the object, by what is asked for.
LEMMA ReturnableKey ==
  ASSUME NEW f, NEW o, Returnable(f, o)
  PROVE  /\ Matches(o, call[f].id, call[f].label)
         /\ Class(o) = IF call[f].kind = "secrets" THEN "secret" ELSE "private"
         /\ call[f].kind = "privates" => Type(o) \in Signers
         /\ call[f].kind = "rsa privates" => Type(o) = "rsa"
         /\ call[f].kind = "secrets" => Type(o) \in Ciphers
         /\ call[f].kind = "kem" => Type(o) = "kem"
         /\ call[f].kind \in PairKinds => Type(o) \in Buildable(call[f].kind)
BY DEF Returnable, PairKinds, Buildable, Signers

LEMMA ReturnablePair ==
  ASSUME NEW f, NEW o, Returnable(f, o), call[f].kind \in PairKinds \cup {"kem"}
  PROVE  /\ Id(o) # None \/ Label(o) # None
         /\ Evidence(o) = "attribute"
         /\ OwnHalves(o) \cap steady[f] # {}
         /\ call[f].kind = "certified" =>
              Id(o) # None /\ \E h \in steady[f] : /\ Class(h) = "certificate" /\ Sound(h)
                                                    /\ Key(h) = Key(o) /\ Id(h) = Id(o)
BY DEF Returnable, PairKinds

LEMMA AroundThorough ==
  ASSUME NEW f \in Finders, Thorough(f), Around(f)
  PROVE  Thorough(f)'
<1>1. \A o : Returnable(f, o)' => Returnable(f, o)
  BY ReturnableShrinks DEF Around
<1>3. /\ pc'[f] = pc[f] /\ call'[f] = call[f] /\ todo'[f] = todo[f] /\ look'[f] = look[f]
      /\ found'[f] = found[f] /\ failed'[f] = failed[f] /\ steady'[f] \subseteq steady[f]
  BY DEF Around
<1>4. ToReturn(f)'
  BY <1>1, <1>3 DEF Thorough, ToReturn
<1>5. Certified(f)'
  BY <1>3 DEF Thorough, Certified, Certifying, Class, Sound, Id
<1>6. Complementary(f)'
  <2>1. Returnable(f, look[f].at)' => Returnable(f, look[f].at)
    BY <1>3, ReturnableShrinks
  <2> QED
    BY <1>3, <2>1 DEF Thorough, Complementary, Class
<1> QED
  BY <1>4, <1>5, <1>6 DEF Thorough

LEMMA KeepsThorough ==
  ASSUME Typed, NEW f \in Finders, Thorough(f), NEW o, NEW r, Keeps(f, o, r),
         failed[f] => failed'[f], pc[f] \notin {"idle", "list", "error"},
         o \in steady[f] /\ Returnable(f, o) /\ ~failed'[f] => \E v \in r : v.priv = o
  PROVE  Thorough(f)'
<1>0. FinderTypes
  BY TypedParts
<1>1. /\ pc'[f] = "next" /\ call'[f] = call[f] /\ todo'[f] = todo[f] \ {o}
      /\ found'[f] = found[f] \cup r /\ steady' = steady
  BY <1>0, KeepsEffect
<1>2. \A p : Returnable(f, p)' => Returnable(f, p)
  BY <1>1, ReturnableShrinks
<1>3. ~failed'[f] => \A p \in steady[f] : Returnable(f, p) => p \in todo'[f] \/ \E v \in found'[f] : v.priv = p
  BY <1>1 DEF Thorough, ToReturn
<1> QED
  BY <1>1, <1>2, <1>3 DEF Thorough, ToReturn, Certified, Complementary

\* The token tells the public half of a key that is to be returned, and lists
\* it: it is chosen.
LEMMA ReturnableChosen ==
  ASSUME Typed, NEW f \in Finders, Paired(f), OwnFirst(f), pc[f] = "choose", ~failed[f],
         call[f].kind \in PairKinds \cup {"kem"}, look[f].at \in steady[f], Returnable(f, look[f].at)
  PROVE  LET l == look[f]
             two == <<l.primary \cap Readable(f), l.secondary \cap Readable(f)>>
             three == <<l.primary \cap Readable(f), l.secondary \cap Readable(f), l.certs>> IN
         /\ l.proof = TRUE
         /\ FirstWith(two, Key(l.at), l.proof, "verified") # {}
         /\ SelectPublicHalf(three, Key(l.at), l.proof) # {}
         /\ SelectPublicHalf(three, Key(l.at), l.proof) \subseteq l.primary
<1> DEFINE l == look[f]
           two == <<l.primary \cap Readable(f), l.secondary \cap Readable(f)>>
           three == <<l.primary \cap Readable(f), l.secondary \cap Readable(f), l.certs>>
<1>1. PICK h \in OwnHalves(l.at) \cap steady[f] : TRUE
  BY ReturnablePair
<1>2. h \in l.primary \cap Readable(f)
  BY <1>1, OwnReadable
<1>3. l.at \in live
  BY TypedParts DEF TokenTypes
<1>4. l.proof
  BY <1>3, ReturnablePair DEF Paired
<1>5. l.proof = TRUE
  BY <1>4, TypedParts DEF FinderTypes, Looks
<1>6. Key(h) = Key(l.at)
  BY <1>1, OwnHalvesKey
<1>7. /\ 1 \in DOMAIN two /\ DOMAIN two \subseteq Nat \ {0} /\ h \in two[1]
      /\ 1 \in DOMAIN three /\ DOMAIN three \subseteq Nat \ {0} /\ h \in three[1]
      /\ three[1] \subseteq l.primary
  BY <1>2
<1> HIDE DEF two, three, l
<1>8. FirstWith(two, Key(l.at), TRUE, "verified") # {}
  BY <1>6, <1>7, OwnVerified
<1>9. /\ SelectPublicHalf(three, Key(l.at), TRUE) # {}
      /\ SelectPublicHalf(three, Key(l.at), TRUE) \subseteq three[1]
  BY <1>6, <1>7, OwnVerified
<1> QED
  BY <1>5, <1>7, <1>8, <1>9 DEF two, three, l

LEMMA FindThorough ==
  ASSUME Typed, NEW f \in Finders, Known(f), Paired(f), OwnFirst(f), Thorough(f), Find(f)
  PROVE  Thorough(f)'
<1>0. TokenTypes /\ FinderTypes /\ Looking(f)
  BY TypedParts
<1>a. look[f] \in Looks /\ steady[f] \subseteq live /\ live \subseteq Objects
  BY <1>0 DEF FinderTypes, TokenTypes
<1>1. CASE CallFind(f)
  BY <1>1, CallEffect DEF Thorough, ToReturn, Certified, Complementary
<1>2. CASE List(f)
  <2>1. \A o \in steady[f] : Returnable(f, o) => o \in Handles(f)
    <3> SUFFICES ASSUME NEW o \in steady[f], Returnable(f, o) PROVE o \in Handles(f)
      OBVIOUS
    <3>1. o \in live /\ Type(o) \in Types
      BY <1>a, DataType
    <3>2. Matches(o, call[f].id, call[f].label)
          /\ Class(o) = (IF call[f].kind = "secrets" THEN "secret" ELSE "private")
          /\ (call[f].kind = "kem" => Type(o) = "kem")
      BY ReturnableKey
    <3> QED
      BY <3>1, <3>2 DEF Handles, FindKeys
  <2>2. pc'[f] = "next" /\ todo'[f] = Handles(f) /\ call'[f] = call[f] /\ steady' = steady
    BY <1>2, ListEffect
  <2>3. \A o : Returnable(f, o)' => Returnable(f, o)
    BY <2>2, ReturnableShrinks
  <2> QED
    BY <2>1, <2>2, <2>3 DEF Thorough, ToReturn, Certified, Complementary
<1>3. CASE Aborts(f)
  BY <1>0, <1>3, AbortsEffect DEF Thorough, ToReturn, Certified, Complementary
<1>4. CASE Fails(f) \/ Vanished(f)
  BY <1>3, <1>4 DEF Fails, Vanished
<1>5. ASSUME NEW kind, NEW types, MakePrivateKey(f, kind, types),
             <<kind, types>> \in {<<"privates", Signers>>, <<"rsa privates", {"rsa"}>>, <<"secrets", Ciphers>>}
      PROVE  Thorough(f)'
  <2>1. PICK o \in todo[f] \cap live : Keeps(f, o, IF Type(o) \in types THEN {Only(o)} ELSE {})
    BY <1>5 DEF MakePrivateKey
  <2>2. failed' = failed /\ pc[f] = "next" /\ call[f].kind = kind
    BY <1>5 DEF MakePrivateKey
  <2>3. Returnable(f, o) => Type(o) \in types
    BY <1>5, <2>2, ReturnableKey
  <2>4. Only(o).priv = o
    BY DEF Only, NoValue
  <2> QED
    BY <2>1, <2>2, <2>3, <2>4, KeepsThorough
<1>6. CASE Nameless(f)
  <2>1. PICK o \in todo[f] \cap live :
          /\ Id(o) = None /\ Label(o) = None
          /\ Aborts(f) \/ (call[f].kind = "kem" /\ Keeps(f, o, {}))
    BY <1>6 DEF Nameless
  <2>2. failed' = failed /\ pc[f] = "next"
    BY <1>6 DEF Nameless
  <2>3. call[f].kind = "kem" => ~Returnable(f, o)
    BY <2>1, ReturnablePair
  <2> QED
    BY <1>3, <2>1, <2>2, <2>3, KeepsThorough
<1>7. CASE Learns(f)
  <2>1. /\ call'[f] = call[f] /\ todo'[f] = todo[f] /\ found'[f] = found[f] /\ steady' = steady
        /\ failed[f] => failed'[f]
        /\ pc'[f] \in Busy \ Settled
    BY <1>7, LookEffect
  <2>2. \A o : Returnable(f, o)' => Returnable(f, o)
    BY <2>1, ReturnableShrinks
  <2>3. pc[f] \notin {"idle", "list", "error"}
    BY <1>7 DEF Learns, Describe, FindPrimary, FindSecondary, NewVerifier, FindCertificates
  <2>4. ToReturn(f)'
    BY <2>1, <2>2, <2>3 DEF Thorough, ToReturn
  <2>5. Certified(f)'
    <3>1. CASE FindCertificates(f)
      <4> DEFINE id == Id(look[f].at)
                 all == {c \in FindKeys("certificate", Types, id, None) : Sound(c)}
      <4> SUFFICES ASSUME id # None, ~failed'[f]
                   PROVE  Certifying(look[f].at) \cap steady[f] \subseteq look'[f].certs /\ look'[f].at = look[f].at
        <5>1. look'[f].at = look[f].at
          BY <1>0, <1>a, <3>1 DEF FindCertificates, FinderTypes, Looks
        <5> QED
          BY <2>1, <5>1 DEF Certified, Certifying, Class, Sound, Id
      <4>1. PICK read \in SUBSET all : look' = [look EXCEPT ![f].certs = read]
                                      /\ failed' = [failed EXCEPT ![f] = @ \/ read # all]
        BY <3>1 DEF FindCertificates
      <4>2. look'[f].certs = read /\ look'[f].at = look[f].at /\ read = all
        BY <1>0, <1>a, <4>1 DEF FinderTypes, Looks
      <4>3. Certifying(look[f].at) \cap steady[f] \subseteq all
        BY <1>a, DataType DEF Certifying, FindKeys, Matches
      <4> QED
        BY <4>2, <4>3
    <3>2. CASE NewVerifier(f)
      <4>1. pc'[f] = "choose" => call[f].kind = "kem"
        BY <1>0, <3>2 DEF NewVerifier, Goto, FinderTypes
      <4> QED
        BY <2>1, <4>1 DEF Certified, PairKinds
    <3>3. CASE Describe(f) \/ FindPrimary(f) \/ FindSecondary(f)
      <4>1. pc'[f] # "choose"
        BY <1>0, <3>3 DEF Describe, FindPrimary, FindSecondary, Goto, FinderTypes
      <4> QED
        BY <4>1 DEF Certified
    <3> QED
      BY <1>7, <3>1, <3>2, <3>3 DEF Learns
  <2>6. Complementary(f)'
    BY <2>1 DEF Complementary, Settled
  <2> QED
    BY <2>4, <2>5, <2>6 DEF Thorough
<1>8. CASE Settles(f)
  <2> DEFINE l == look[f]
             half == look'[f].half
             certs == {c \in l.certs : Key(c) = Key(half)}
             tiers(read) == <<l.primary \cap (IF Type(l.at) \in Signers THEN read ELSE {}),
                              l.secondary \cap (IF Type(l.at) \in Signers THEN read ELSE {}), l.certs>>
  <2>1. PICK read \in SUBSET Readable(f) :
          /\ failed'[f] = (failed[f] \/ read # Readable(f))
          /\ half \in SelectPublicHalf(tiers(read), Key(l.at), l.proof)
          /\ look'[f] = [l EXCEPT !.half = half, !.cert = look'[f].cert]
          /\ look'[f].cert \in IF certs = {} THEN {None} ELSE certs
    BY <1>8, SettlesEffect
  <2>2. /\ pc[f] = "choose" /\ pc'[f] = "build" /\ call[f].kind \in PairKinds
        /\ call'[f] = call[f] /\ todo'[f] = todo[f] /\ found'[f] = found[f] /\ steady' = steady
    BY <1>8, SettlesEffect
  <2>3. \A o : Returnable(f, o)' => Returnable(f, o)
    BY <2>2, ReturnableShrinks
  <2>4. look'[f].at = l.at
    BY <1>a, <2>1 DEF Looks
  <2>5. ToReturn(f)' /\ Certified(f)'
    BY <2>1, <2>2, <2>3 DEF Thorough, ToReturn, Certified
  <2>6. ASSUME l.at \in steady[f], Returnable(f, l.at), ~failed'[f]
        PROVE  Class(half) # "certificate" /\ (call[f].kind = "certified" => look'[f].cert # None)
    <3>1. ~failed[f] /\ read = Readable(f)
      BY <2>1, <2>6
    <3>2. Type(l.at) \in Signers
      BY <2>2, <2>6, ReturnableKey DEF Buildable, Signers
    <3>3. half \in l.primary
      BY <2>1, <2>2, <2>6, <3>1, <3>2, ReturnableChosen
    <3>4. Class(half) = "public"
      BY <3>3 DEF Known
    <3>5. Key(half) = Key(l.at)
      <4>1. l.proof = TRUE
        BY <2>2, <2>6, <3>1, ReturnableChosen
      <4>2. half \in SelectPublicHalf(tiers(read), Key(l.at), TRUE)
        BY <2>1, <4>1
      <4> HIDE DEF tiers, half, l
      <4> QED
        BY <4>2, SelectedElement
    <3>6. ASSUME call[f].kind = "certified" PROVE look'[f].cert # None
      <4>1. Id(l.at) # None
        BY <2>2, <2>6, <3>6, ReturnablePair
      <4>2. PICK h \in steady[f] : /\ Class(h) = "certificate" /\ Sound(h)
                                   /\ Key(h) = Key(l.at) /\ Id(h) = Id(l.at)
        BY <2>2, <2>6, <3>6, ReturnablePair
      <4>3. h \in l.certs
        BY <1>a, <2>2, <3>1, <4>1, <4>2 DEF Thorough, Certified, Certifying
      <4>4. look'[f].cert \in certs
        BY <2>1, <3>5, <4>2, <4>3
      <4>5. l.certs \subseteq Objects
        BY <1>a DEF Looks
      <4> QED
        BY <4>4, <4>5, ObjectAssumption
    <3> QED
      BY <3>4, <3>6
  <2>7. Complementary(f)'
    <3>1. Returnable(f, look[f].at)' => Returnable(f, look[f].at)
      BY <2>2, <2>4, ReturnableShrinks
    <3> QED
      BY <2>2, <2>4, <2>6, <3>1 DEF Complementary, Class
  <2> QED
    BY <2>5, <2>7 DEF Thorough
<1>9. CASE Choose(f) /\ Keeps(f, look[f].at, {})
  <2> DEFINE l == look[f]
             tiers(read) == <<l.primary \cap (IF Type(l.at) \in Signers THEN read ELSE {}),
                              l.secondary \cap (IF Type(l.at) \in Signers THEN read ELSE {}), l.certs>>
  <2>1. PICK read \in SUBSET Readable(f) :
          /\ failed'[f] = (failed[f] \/ read # Readable(f))
          /\ SelectPublicHalf(tiers(read), Key(l.at), l.proof) = {}
    BY <1>9, SkipEffect
  <2>2. pc[f] = "choose" /\ call[f].kind \in PairKinds
    BY <1>9 DEF Choose
  <2>3. ASSUME l.at \in steady[f], Returnable(f, l.at), ~failed'[f] PROVE FALSE
    <3>1. ~failed[f] /\ read = Readable(f)
      BY <2>1, <2>3
    <3>2. Type(l.at) \in Signers
      BY <2>2, <2>3, ReturnableKey DEF Buildable, Signers
    <3> QED
      BY <2>1, <2>2, <2>3, <3>1, <3>2, ReturnableChosen
  <2>4. failed[f] => failed'[f]
    BY <2>1
  <2> QED
    BY <1>9, <2>2, <2>3, <2>4, KeepsThorough
<1>10. CASE Concludes(f)
  <2>1. pc[f] \in Settled /\ failed' = failed
    BY <1>10, ConcludesEffect
  <2>2. CASE pc[f] = "build" /\ Skipped(f) /\ Keeps(f, look[f].at, {})
    <3>1. look[f].at \in steady[f] /\ Returnable(f, look[f].at) => failed[f]
      BY <2>1, <2>2, ReturnableKey DEF Thorough, Complementary, Skipped, Uncertified, Known
    <3> QED
      BY <2>1, <2>2, <3>1, KeepsThorough
  <2>3. CASE Keeps(f, look[f].at, {Pair(f)})
    <3>1. Pair(f).priv = look[f].at
      BY DEF Pair
    <3> QED
      BY <2>1, <2>3, <3>1, KeepsThorough DEF Settled
  <2>4. CASE Advances(f)
    <3>1. /\ pc'[f] \in {"hop", "links"} /\ steady' = steady
          /\ call'[f] = call[f] /\ todo'[f] = todo[f] /\ found'[f] = found[f]
      BY <1>0, <2>4, AdvancesEffect
    <3>2. \A o : Returnable(f, o)' => Returnable(f, o)
      BY <3>1, ReturnableShrinks
    <3> QED
      BY <2>1, <3>1, <3>2 DEF Thorough, ToReturn, Certified, Complementary, Settled
  <2> QED
    BY <1>3, <1>10, <2>2, <2>3, <2>4, ConcludesEffect
<1>11. CASE ChooseMLKEM(f)
  <2> DEFINE l == look[f]
             two(read) == <<l.primary \cap read, l.secondary \cap read>>
             pair(half) == [priv |-> l.at, pub |-> half, cert |-> None, key |-> Key(half), proof |-> l.proof]
  <2>1. PICK read \in SUBSET Readable(f) :
          /\ failed'[f] = (failed[f] \/ read # Readable(f))
          /\ \/ FirstWith(two(read), Key(l.at), l.proof, "verified") = {} /\ Keeps(f, l.at, {})
             \/ \E half : Keeps(f, l.at, {pair(half)})
    BY <1>11, KEMEffect
  <2>2. pc[f] = "choose" /\ call[f].kind = "kem"
    BY <1>11 DEF ChooseMLKEM
  <2>3. CASE FirstWith(two(read), Key(l.at), l.proof, "verified") = {} /\ Keeps(f, l.at, {})
    <3>1. l.at \in steady[f] /\ Returnable(f, l.at) => failed'[f]
      BY <2>1, <2>2, <2>3, ReturnableChosen
    <3>2. failed[f] => failed'[f]
      BY <2>1
    <3> QED
      BY <2>2, <2>3, <3>1, <3>2, KeepsThorough
  <2>4. ASSUME NEW half, Keeps(f, l.at, {pair(half)}) PROVE Thorough(f)'
    <3>1. pair(half).priv = l.at
      OBVIOUS
    <3>2. failed[f] => failed'[f]
      BY <2>1
    <3> HIDE DEF pair
    <3> QED
      BY <2>2, <2>4, <3>1, <3>2, KeepsThorough
  <2> QED
    BY <2>1, <2>3, <2>4
<1>12. CASE Finish(f)
  <2>1. /\ pc[f] = "next" /\ pc'[f] = "done" /\ todo' = todo /\ found' = found
        /\ failed' = failed /\ call' = call /\ steady' = steady
    BY <1>0, <1>12 DEF Finish, Goto, FinderTypes, historyVars
  <2>2. \A o : Returnable(f, o)' => Returnable(f, o)
    BY <2>1, ReturnableShrinks
  <2> QED
    BY <2>1, <2>2 DEF Thorough, ToReturn, Certified, Complementary
<1> QED
  BY <1>1, <1>2, <1>4, <1>5, <1>6, <1>7, <1>8, <1>9, <1>10, <1>11, <1>12, FindCases

LEMMA ThoroughInvariant == Spec => [](\A f \in Finders : Thorough(f))
<1> DEFINE K == Typed /\ \A f \in Finders : Known(f)
           P == \A f \in Finders : Paired(f)
           O == \A f \in Finders : OwnFirst(f)
           Inv == \A f \in Finders : Thorough(f)
<1>1. Init => Inv
  BY DEF Init, Thorough, ToReturn, Certified, Complementary
<1>2. K /\ P /\ O /\ Inv /\ [Next]_vars => Inv'
  BY FindOrAround, AroundThorough, FindThorough
<1> QED
  BY <1>1, <1>2, KnownInvariant, PairedInvariant, OwnFirstInvariant, PTL DEF Spec

\* An enumeration that succeeds returns every key it is meant to return that
\* was on the token all the time.
THEOREM NothingLeftOut == Spec => []Complete
<1> DEFINE K == Typed /\ \A f \in Finders : Known(f)
           Inv == \A f \in Finders : Thorough(f)
           Over == \A f \in Finders : pc[f] = "done" => todo[f] = {}
<1>1. Init => Over
  BY DEF Init
<1>2. K /\ Over /\ [Next]_vars => Over'
  <2> SUFFICES ASSUME K, Over, [Next]_vars, NEW f \in Finders, pc'[f] = "done" PROVE todo'[f] = {}
    OBVIOUS
  <2>0. FinderTypes
    BY TypedParts
  <2>1. CASE Around(f)
    BY <2>1 DEF Around
  <2>2. CASE Find(f)
    <3>1. ASSUME NEW o, NEW r, Keeps(f, o, r) PROVE FALSE
      BY <2>0, <3>1, KeepsEffect
    <3>2. ~Aborts(f)
      BY <2>0, AbortsEffect
    <3>3. ~CallFind(f) /\ ~List(f) /\ ~Learns(f) /\ ~Settles(f)
      BY CallEffect, ListEffect, LookEffect, SettlesEffect DEF Busy, Settled
    <3>4. ~ChooseMLKEM(f)
      BY <3>1, KEMEffect
    <3>5. ~Concludes(f)
      BY <2>0, <3>1, <3>2, ConcludesEffect, AdvancesEffect
    <3>6. Finish(f)
      BY <2>2, <3>1, <3>2, <3>3, <3>4, <3>5, FindCases DEF Fails, Vanished, MakePrivateKey, Nameless
    <3> QED
      BY <3>6 DEF Finish
  <2> QED
    BY <2>1, <2>2, FindOrAround
<1>3. Inv /\ Over => Complete
  BY DEF Thorough, ToReturn, Complete
<1> QED
  BY <1>1, <1>2, <1>3, KnownInvariant, ThoroughInvariant, PTL DEF Spec

=============================================================================
