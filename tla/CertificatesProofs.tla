------------------------- MODULE CertificatesProofs -------------------------
(***************************************************************************)
(* Theorems about Certificates, for any objects, certificates and callers.  *)
(***************************************************************************)
EXTENDS Certificates, TLAPS

Walking == {"hop", "by subject", "by key id", "authority"}

\* Which call a caller is in.
Sites(c) ==
  /\ pc[c] \in {"leaf", "value"} => call[c].op \in {"find", "chain"}
  /\ pc[c] \in {"all", "everything"} => call[c].op = "all"
  /\ pc[c] \in Walking => call[c].op \in {"chain", "paired"}
  /\ pc[c] \in {"privates", "pair", "half"} => call[c].op = "paired"
  /\ pc[c] = "create" => call[c].op = "import"
  /\ pc[c] \in {"match", "destroy"} => call[c].op = "delete"

\* What there is of a chain.
Walk(c) ==
  /\ pc[c] \in Walking \cup {"half"} => chain[c] # <<>>
  /\ pc[c] \in Walking \ {"hop"} => Len(chain[c]) < MaxDepth /\ ~SelfIssued(Last(c))
  /\ pc[c] \in {"idle", "leaf", "value", "privates", "pair"} => chain[c] = <<>>
  /\ pc[c] \notin Walking => ~scanned[c]
  /\ pc[c] = "idle" => found[c] = {}

SoundAt(c) == Sound(chain[c]) /\ \A s \in found[c] : Sound(s)

\* A handle that a search returned can only have been destroyed since.
Handles(c) ==
  /\ pc[c] = "value" =>
       \A o \in todo[c] : (o \in live \/ disturbed[c]) /\ IsCertificate(o) /\ Id(o) = call[c].id
  /\ pc[c] \in Reading => \A o \in todo[c] : (o \in live \/ disturbed[c]) /\ X509(o)
  /\ pc[c] \in {"destroy", "half"} => todo[c] \subseteq live \/ disturbed[c]

Explained(c) ==
  pc[c] = "error" =>
    \/ failed[c]
    \/ disturbed[c] /\ call[c].op # "import"
    \/ /\ call[c].op \notin {"import", "delete"}
       /\ \E o \in live : Value(o) = None /\ (X509(o) \/ (IsCertificate(o) /\ Id(o) = call[c].id))
    \/ call[c].op = "paired" /\ \E o \in live : Nameless(o)

\* So can a private key that was listed.
Keyed(c) ==
  /\ pc[c] = "idle" => keys[c] = {}
  /\ \A o \in keys[c] : o \in live \/ disturbed[c]

\* What a search has still to read, or has read, and what it has shown.
Searched(c) ==
  /\ pc[c] = "by subject" =>
       \A o \in steady[c] : X509(o) /\ SubjectOf(o) = RawIssuer(Last(c)) =>
         o \in todo[c] \/ Value(o) \in read[c]
  /\ pc[c] \in {"by key id", "everything"} =>
       \A o \in steady[c] : X509(o) => o \in todo[c] \/ Value(o) \in read[c]
  /\ pc[c] \in {"by key id", "authority"} =>
       \A o \in steady[c] :
         X509(o) /\ SubjectOf(o) = RawIssuer(Last(c)) /\ <<Value(o), Last(c)>> \in Signs
         => Value(o) \in Placed(c)
  /\ scanned[c] => \A o \in steady[c] : X509(o) => Value(o) \in all[c]

Missed(c) ==
  /\ \A s \in found[c] : Exhausted(c, s)
  /\ pc[c] = "returned" =>
       /\ call[c].op \in {"find", "chain"} /\ chain[c] = <<>> =>
            \A o \in steady[c] : IsCertificate(o) => Id(o) # call[c].id
       /\ call[c].op = "chain" /\ chain[c] # <<>> => Exhausted(c, chain[c])
       /\ call[c].op = "all" => \A o \in steady[c] : X509(o) => Value(o) \in read[c]

CallerInv(c) ==
  Sites(c) /\ Walk(c) /\ SoundAt(c) /\ Handles(c) /\ Explained(c) /\ Searched(c) /\ Missed(c)

Inv == TypeOK /\ \A c \in Callers : CallerInv(c) /\ Keyed(c)

----------------------------------------------------------------------------
(* Type correctness.                                                       *)

LEMMA ValueType == \A o \in Objects : Value(o) \in Certs \cup {None}
BY CertificateAssumption DEF Value

LEMMA LegibleType == \A o \in Objects : Legible(o) => Value(o) \in Certs
BY ValueType DEF Legible

LEMMA OneCert == ASSUME NEW x \in Certs PROVE <<x>> \in Chains
BY CertificateAssumption DEF Chains

LEMMA OneMore ==
  ASSUME NEW s \in Chains, NEW x \in Certs, Len(s) < MaxDepth
  PROVE  Append(s, x) \in Chains
BY CertificateAssumption DEF Chains

LEMMA InitTyped == ASSUME Init PROVE TypeOK
BY CertificateAssumption DEF Init, TypeOK, Ended, NoCall

Positions == Ended \cup Reading \cup
  {"leaf", "value", "all", "privates", "pair", "half", "create", "match", "destroy", "hop", "authority"}

\* The part of TypeOK about a caller's own variables.
LocalTypes ==
  /\ pc \in [Callers -> Positions]
  /\ call \in [Callers -> Asked \cup {NoCall}]
  /\ keys \in [Callers -> SUBSET Objects]
  /\ todo \in [Callers -> SUBSET Objects]
  /\ read \in [Callers -> SUBSET Certs]
  /\ all \in [Callers -> SUBSET Certs] /\ scanned \in [Callers -> BOOLEAN]
  /\ chain \in [Callers -> Chains \cup {<<>>}]
  /\ found \in [Callers -> SUBSET Chains]
  /\ failed \in [Callers -> BOOLEAN]

TokenTypes ==
  /\ live \subseteq Objects /\ gone \subseteq Objects \ live
  /\ steady \in [Callers -> SUBSET live] /\ disturbed \in [Callers -> BOOLEAN]

LEMMA TwoParts == TypeOK <=> LocalTypes /\ TokenTypes
BY DEF TypeOK, LocalTypes, TokenTypes, Positions

LEMMA TwoPartsNext == LocalTypes' /\ TokenTypes' => TypeOK'
BY DEF TypeOK, LocalTypes, TokenTypes, Positions

\* How a step may change the token and what is known of its past.
TokenStep ==
  \/ UNCHANGED <<live, gone, steady, disturbed>>
  \/ \E o \in Objects : Created(o)
  \/ \E o \in Objects : Destroyed(o)

LEMMA TokenTyped == ASSUME TokenTypes, TokenStep PROVE TokenTypes'
<1>1. CASE UNCHANGED <<live, gone, steady, disturbed>>
  BY <1>1 DEF TokenTypes
<1>2. ASSUME NEW o \in Objects, Created(o) PROVE TokenTypes'
  BY <1>2 DEF TokenTypes, Created, historyVars
<1>3. ASSUME NEW o \in Objects, Destroyed(o) PROVE TokenTypes'
  BY <1>3 DEF TokenTypes, Destroyed
<1> QED
  BY <1>1, <1>2, <1>3 DEF TokenStep

LEMMA ErrorsTyped ==
  ASSUME LocalTypes, NEW c \in Callers, Errors(c), failed' \in [Callers -> BOOLEAN]
  PROVE  LocalTypes'
BY DEF LocalTypes, Errors, Forgets, Goto, Positions, Ended

LEMMA SearchTyped ==
  ASSUME LocalTypes, NEW c \in Callers, NEW objects \in SUBSET Objects,
         NEW next \in Positions, Search(c, objects, next)
  PROVE  LocalTypes'
BY DEF LocalTypes, Search, Goto, walkVars

LEMMA EndTyped ==
  ASSUME LocalTypes, NEW c \in Callers, chain[c] # <<>>, EndWalk(c)
  PROVE  LocalTypes'
<1>1. chain[c] \in Chains /\ chain \in [Callers -> Chains \cup {<<>>}]
  BY DEF LocalTypes
<1>2. found' \in [Callers -> SUBSET Chains] /\ chain' \in [Callers -> Chains \cup {<<>>}]
  BY <1>1 DEF LocalTypes, EndWalk
<1>3. pc' \in [Callers -> Positions]
  BY DEF LocalTypes, EndWalk, Goto, Positions, Ended
<1> QED
  BY <1>2, <1>3 DEF LocalTypes, EndWalk

LEMMA PlacesTyped ==
  ASSUME LocalTypes, NEW c \in Callers, chain[c] # <<>>, Len(chain[c]) < MaxDepth,
         NEW issuers \in SUBSET Certs, Places(c, issuers)
  PROVE  LocalTypes'
<1>1. PICK x \in issuers : chain' = [chain EXCEPT ![c] = Append(@, x)]
  BY DEF Places
<1>2. Append(chain[c], x) \in Chains
  BY OneMore DEF LocalTypes
<1>3. chain' \in [Callers -> Chains \cup {<<>>}]
  BY <1>1, <1>2 DEF LocalTypes
<1> QED
  BY <1>3 DEF LocalTypes, Places, Goto, Positions

LEMMA TokenUntouched ==
  ASSUME UNCHANGED <<tokenVars, historyVars>> PROVE TokenStep
BY DEF TokenStep, tokenVars, historyVars

\* Whatever a caller does in a call but call, it changes the token like others.
LEMMA StepsOnToken ==
  ASSUME TypeOK, NEW c \in Callers, Steps(c) PROVE TokenStep
<1>1. CASE Fails(c) \/ ReadLeaf(c) \/ ReadCertificate(c)
  BY <1>1, TokenUntouched DEF Fails, Errors, ReadLeaf, ReadCertificate
<1>2. CASE FindRawCertificate(c) \/ FindAllCertificates(c) \/ Hop(c) \/ FindIssuer(c)
  BY <1>2, TokenUntouched
     DEF FindRawCertificate, FindAllCertificates, Search, Hop, EndWalk, FindIssuer, Places
<1>3. CASE ScanAll(c) \/ FindAuthority(c) \/ FindPrivateKeys(c) \/ MakeKeyPair(c) \/ ReadPair(c)
  BY <1>3, TokenUntouched
     DEF ScanAll, Search, FindAuthority, Places, EndWalk, FindPrivateKeys, MakeKeyPair, ReadPair, Errors
<1>4. CASE ImportCertificate(c)
  BY <1>4 DEF ImportCertificate, TokenStep
<1>5. CASE DeleteCertificate(c)
  BY <1>5, TokenUntouched DEF DeleteCertificate, Errors, TokenStep, TypeOK
<1> QED
  BY <1>1, <1>2, <1>3, <1>4, <1>5 DEF Steps

LEMMA LastType ==
  ASSUME LocalTypes, NEW c \in Callers, chain[c] # <<>>
  PROVE  Last(c) \in Certs
BY DEF LocalTypes, Chains, Last

LEMMA StepsTyped ==
  ASSUME TypeOK, NEW c \in Callers, Walk(c), Steps(c) PROVE LocalTypes'
<1>0. LocalTypes /\ failed \in [Callers -> BOOLEAN] /\ todo[c] \in SUBSET Objects
  BY TwoParts DEF LocalTypes
<1>1. AllX509 \in SUBSET Objects /\ \A id : Matching(id) \in SUBSET Objects
  BY DEF AllX509, Matching, TypeOK
<1>2. CASE Fails(c)
  BY <1>0, <1>2, ErrorsTyped DEF Fails
<1>3. CASE FindRawCertificate(c)
  BY <1>0, <1>1, <1>3 DEF FindRawCertificate, Goto, LocalTypes, Positions, Ended, walkVars
<1>4. CASE ReadLeaf(c)
  <2>1. PICK o \in todo[c] :
          \/ /\ Legible(o) /\ chain' = [chain EXCEPT ![c] = <<Value(o)>>]
             /\ Goto(c, IF call[c].op = "find" THEN "returned" ELSE "hop")
             /\ todo' = [todo EXCEPT ![c] = {}]
             /\ UNCHANGED <<call, keys, read, all, scanned, found, failed>>
          \/ Errors(c) /\ failed' = failed
    BY <1>4 DEF ReadLeaf
  <2>2. CASE Errors(c) /\ failed' = failed
    BY <1>0, <2>2, ErrorsTyped
  <2>3. CASE ~(Errors(c) /\ failed' = failed)
    <3>1. <<Value(o)>> \in Chains
      BY <1>0, <2>1, <2>3, LegibleType, OneCert
    <3>2. chain' \in [Callers -> Chains \cup {<<>>}]
      BY <1>0, <2>1, <2>3, <3>1 DEF LocalTypes
    <3> QED
      BY <1>0, <2>1, <2>3, <3>2 DEF LocalTypes, Goto, Positions, Ended
  <2> QED
    BY <2>2, <2>3
<1>5. CASE ReadCertificate(c)
  <2>1. PICK o \in todo[c] :
          \/ /\ Legible(o)
             /\ todo' = [todo EXCEPT ![c] = @ \ {o}]
             /\ read' = [read EXCEPT ![c] = @ \cup {Value(o)}]
             /\ UNCHANGED <<pc, call, keys, all, scanned, chain, found, failed>>
          \/ Errors(c) /\ failed' = failed
    BY <1>5 DEF ReadCertificate, walkVars
  <2>2. Legible(o) => Value(o) \in Certs
    BY <1>0, <2>1, LegibleType
  <2> QED
    BY <1>0, <2>1, <2>2, ErrorsTyped DEF LocalTypes
<1>6. CASE FindAllCertificates(c)
  BY <1>0, <1>1, <1>6, SearchTyped
     DEF FindAllCertificates, Goto, LocalTypes, Positions, Ended, Reading, searchVars, walkVars
<1>7. CASE Hop(c)
  <2>1. {o \in AllX509 : SubjectOf(o) = RawIssuer(Last(c))} \in SUBSET Objects
    BY <1>1
  <2>2. chain[c] # <<>>
    BY <1>7 DEF Hop, Walk, Walking
  <2>3. "by subject" \in Positions
    BY DEF Positions, Reading
  <2> QED
    BY <1>0, <1>7, <2>1, <2>2, <2>3, SearchTyped, EndTyped DEF Hop
<1>8. CASE FindIssuer(c) \/ FindAuthority(c)
  <2>1. chain[c] # <<>> /\ Len(chain[c]) < MaxDepth
    BY <1>8 DEF FindIssuer, FindAuthority, Walk, Walking
  <2>2. read[c] \in SUBSET Certs /\ all[c] \in SUBSET Certs
    BY <1>0 DEF LocalTypes
  <2>3. \A certs \in SUBSET Certs : SelectIssuer(Last(c), certs, Placed(c)) \in SUBSET Certs
    BY DEF SelectIssuer
  <2>4. ByKeyId(Last(c), all[c]) \in SUBSET Certs
    BY <2>2 DEF ByKeyId
  <2>5. CASE \E issuers \in SUBSET Certs : Places(c, issuers)
    BY <1>0, <2>1, <2>5, PlacesTyped
  <2>6. CASE EndWalk(c)
    BY <1>0, <2>1, <2>6, EndTyped
  <2>7. CASE /\ Goto(c, "authority")
             /\ UNCHANGED <<tokenVars, call, keys, searchVars, walkVars, found, historyVars, failed>>
    BY <1>0, <2>7 DEF LocalTypes, Goto, Positions, searchVars, walkVars
  <2> QED
    BY <1>8, <2>2, <2>3, <2>4, <2>5, <2>6, <2>7 DEF FindIssuer, FindAuthority
<1>9. CASE ScanAll(c)
  <2>1. "by key id" \in Positions
    BY DEF Positions, Reading
  <2>2. CASE Search(c, AllX509, "by key id")
    BY <1>0, <1>1, <2>1, <2>2, SearchTyped
  <2>3. CASE ~Search(c, AllX509, "by key id")
    <3>1. /\ all' = [all EXCEPT ![c] = read[c]]
          /\ scanned' = [scanned EXCEPT ![c] = TRUE]
          /\ read' = [read EXCEPT ![c] = {}]
          /\ Goto(c, "authority")
          /\ UNCHANGED <<call, keys, todo, chain, found, failed>>
      BY <1>9, <2>3 DEF ScanAll
    <3> QED
      BY <1>0, <3>1 DEF LocalTypes, Goto, Positions
  <2> QED
    BY <2>2, <2>3
<1>10. CASE FindPrivateKeys(c)
  BY <1>0, <1>10 DEF FindPrivateKeys, LocalTypes, Goto, Positions, searchVars, walkVars, TypeOK
<1>11. CASE MakeKeyPair(c)
  <2>1. CASE Errors(c) /\ failed' = failed
    BY <1>0, <2>1, ErrorsTyped
  <2>2. CASE keys[c] = {} /\ Goto(c, "returned") /\ UNCHANGED keys
             /\ UNCHANGED <<call, searchVars, walkVars, found, failed>>
    BY <1>0, <2>2 DEF LocalTypes, Goto, Positions, Ended, searchVars, walkVars
  <2>3. ASSUME NEW o \in keys[c], keys' = [keys EXCEPT ![c] = @ \ {o}], UNCHANGED <<pc, todo, chain>>,
               UNCHANGED <<call, read, all, scanned, found, failed>>
        PROVE  LocalTypes'
    BY <1>0, <2>3 DEF LocalTypes
  <2>4. ASSUME NEW o \in keys[c], keys' = [keys EXCEPT ![c] = @ \ {o}],
               NEW x \in AllX509, Legible(x), chain' = [chain EXCEPT ![c] = <<Value(x)>>],
               NEW again \in SUBSET live, todo' = [todo EXCEPT ![c] = again], Goto(c, "half"),
               UNCHANGED <<call, read, all, scanned, found, failed>>
        PROVE  LocalTypes'
    <3>1. <<Value(x)>> \in Chains
      BY <1>1, <2>4, LegibleType, OneCert
    <3>2. chain' \in [Callers -> Chains \cup {<<>>}]
      BY <1>0, <2>4, <3>1 DEF LocalTypes
    <3>3. again \in SUBSET Objects
      BY DEF TypeOK
    <3> QED
      BY <1>0, <2>4, <3>2, <3>3 DEF LocalTypes, Goto, Positions
  <2> QED
    BY <1>11, <2>1, <2>2, <2>3, <2>4 DEF MakeKeyPair
<1>14. CASE ReadPair(c)
  <2>1. CASE Errors(c) /\ failed' = failed
    BY <1>0, <2>1, ErrorsTyped
  <2>2. CASE ~(Errors(c) /\ failed' = failed)
    BY <1>0, <1>14, <2>2 DEF ReadPair, LocalTypes, Goto, Positions, walkVars
  <2> QED
    BY <2>1, <2>2
<1>12. CASE ImportCertificate(c)
  BY <1>0, <1>12 DEF ImportCertificate, LocalTypes, Goto, Positions, Ended, searchVars, walkVars
<1>13. CASE DeleteCertificate(c)
  <2>1. CASE Errors(c) /\ failed' = failed
    BY <1>0, <2>1, ErrorsTyped
  <2>2. CASE ~(Errors(c) /\ failed' = failed)
    BY <1>0, <1>1, <1>13, <2>2
       DEF DeleteCertificate, LocalTypes, Goto, Positions, Ended, searchVars, walkVars
  <2> QED
    BY <2>1, <2>2
<1> QED
  BY <1>2, <1>3, <1>4, <1>5, <1>6, <1>7, <1>8, <1>9, <1>10, <1>11, <1>12, <1>13, <1>14 DEF Steps

LEMMA CallTyped ==
  ASSUME TypeOK, NEW c \in Callers, Call(c) PROVE TypeOK'
<1>1. PICK a \in Asked : call' = [call EXCEPT ![c] = a] /\ Goto(c, First(a.op))
  BY DEF Call
<1>2. First(a.op) \in Positions
  BY CertificateAssumption DEF First, Positions, Operations
<1> QED
  BY <1>1, <1>2 DEF Call, TypeOK, Positions, Goto, tokenVars, searchVars, walkVars

LEMMA ProceedTyped ==
  ASSUME TypeOK, NEW c \in Callers, Proceed(c) PROVE TypeOK'
<1>1. LocalTypes'
  BY TwoParts DEF Proceed, LocalTypes, Goto, Positions, Ended
<1>2. TokenTypes'
  BY TwoParts DEF Proceed, TokenTypes, tokenVars
<1> QED
  BY <1>1, <1>2, TwoPartsNext

LEMMA TypeNext ==
  ASSUME TypeOK, \A c \in Callers : Walk(c), [Next]_vars PROVE TypeOK'
<1>1. ASSUME NEW o \in Foreign, Others(o) PROVE TypeOK'
  <2>1. LocalTypes'
    BY <1>1, TwoParts DEF Others, LocalTypes, searchVars, walkVars
  <2>2. TokenStep
    BY <1>1, CertificateAssumption DEF Others, TokenStep
  <2> QED
    BY <2>1, <2>2, TwoParts, TwoPartsNext, TokenTyped
<1>2. ASSUME NEW c \in Callers, Steps(c) PROVE TypeOK'
  BY <1>2, StepsTyped, StepsOnToken, TwoParts, TwoPartsNext, TokenTyped
<1>3. CASE UNCHANGED vars
  BY <1>3 DEF vars, tokenVars, searchVars, walkVars, historyVars, TypeOK
<1> QED
  BY <1>1, <1>2, <1>3, CallTyped, ProceedTyped DEF Next

----------------------------------------------------------------------------
(* A caller that does nothing.                                             *)

Same(d) ==
  /\ pc'[d] = pc[d] /\ call'[d] = call[d] /\ keys'[d] = keys[d]
  /\ todo'[d] = todo[d] /\ read'[d] = read[d]
  /\ all'[d] = all[d] /\ scanned'[d] = scanned[d]
  /\ chain'[d] = chain[d] /\ found'[d] = found[d]
  /\ failed'[d] = failed[d]

\* What a step of somebody else on the token may do to what d relies on.
Aged(d) ==
  /\ steady'[d] \subseteq steady[d]
  /\ disturbed[d] => disturbed'[d]
  /\ live \subseteq live' \/ disturbed'[d]

LEMMA TokenAges ==
  ASSUME TypeOK, TokenStep, NEW d \in Callers PROVE Aged(d)
<1>1. ASSUME NEW o \in Objects, Created(o) PROVE Aged(d)
  BY <1>1 DEF Created, Aged, historyVars
<1>2. ASSUME NEW o \in Objects, Destroyed(o) PROVE Aged(d)
  BY <1>2 DEF Destroyed, Aged, TypeOK
<1> QED
  BY <1>1, <1>2 DEF TokenStep, Aged

\* What is shown of a chain's end stays so while the steady objects get fewer.
LEMMA StaysExhausted ==
  ASSUME NEW d \in Callers, NEW s, steady'[d] \subseteq steady[d], Exhausted(d, s)
  PROVE  Exhausted(d, s)'
BY DEF Exhausted, CouldIssue

LEMMA Elsewhere ==
  ASSUME NEW d \in Callers, CallerInv(d), Same(d), Aged(d) PROVE CallerInv(d)'
<1>1. Last(d)' = Last(d) /\ Placed(d)' = Placed(d)
  BY DEF Same, Last, Placed
<1>2. Sites(d)' /\ Walk(d)' /\ SoundAt(d)'
  BY <1>1 DEF CallerInv, Same, Sites, Walk, SoundAt
<1>3. Handles(d)'
  BY DEF CallerInv, Same, Aged, Handles
<1>4. Explained(d)'
  BY DEF CallerInv, Same, Aged, Explained
<1>5. Searched(d)'
  BY <1>1 DEF CallerInv, Same, Aged, Searched
<1>6. Missed(d)'
  BY StaysExhausted DEF CallerInv, Same, Aged, Missed
<1> QED
  BY <1>2, <1>3, <1>4, <1>5, <1>6 DEF CallerInv

LEMMA ElsewhereKeyed ==
  ASSUME NEW d \in Callers, Keyed(d), keys'[d] \subseteq keys[d], pc'[d] = "idle" => pc[d] = "idle",
         Aged(d)
  PROVE  Keyed(d)'
BY DEF Keyed, Aged

LEMMA OthersSame ==
  ASSUME TypeOK, NEW c \in Callers, Steps(c), NEW d \in Callers \ {c} PROVE Same(d)
<1> USE DEF Same, TypeOK, Goto, searchVars, walkVars
<1>1. ASSUME Errors(c), failed' = failed PROVE Same(d)
  BY <1>1 DEF Errors, Forgets
<1>2. ASSUME EndWalk(c) PROVE Same(d)
  BY <1>2 DEF EndWalk
<1>3. ASSUME NEW objects, NEW next, Search(c, objects, next) PROVE Same(d)
  BY <1>3 DEF Search
<1>4. ASSUME NEW issuers, Places(c, issuers) PROVE Same(d)
  BY <1>4 DEF Places
<1>5. CASE Fails(c)
  BY <1>5 DEF Fails, Errors, Forgets
<1>6. CASE FindRawCertificate(c)
  BY <1>6 DEF FindRawCertificate
<1>7. CASE ReadLeaf(c) \/ ReadCertificate(c)
  BY <1>1, <1>7 DEF ReadLeaf, ReadCertificate
<1>8. CASE FindAllCertificates(c) \/ Hop(c)
  BY <1>2, <1>3, <1>8 DEF FindAllCertificates, Hop
<1>9. CASE FindIssuer(c) \/ FindAuthority(c)
  BY <1>2, <1>4, <1>9 DEF FindIssuer, FindAuthority
<1>10. CASE ScanAll(c)
  BY <1>3, <1>10 DEF ScanAll
<1>11. CASE FindPrivateKeys(c) \/ MakeKeyPair(c) \/ ReadPair(c)
  BY <1>1, <1>11 DEF FindPrivateKeys, MakeKeyPair, ReadPair
<1>12. CASE ImportCertificate(c)
  BY <1>12 DEF ImportCertificate
<1>13. CASE DeleteCertificate(c)
  BY <1>1, <1>13 DEF DeleteCertificate
<1> QED
  BY <1>5, <1>6, <1>7, <1>8, <1>9, <1>10, <1>11, <1>12, <1>13 DEF Steps

----------------------------------------------------------------------------
(* How a call or a walk ends.                                              *)

LEMMA SoundEmpty == Sound(<<>>)
BY DEF Sound

LEMMA SoundOne == ASSUME NEW x PROVE Sound(<<x>>)
BY DEF Sound

LEMMA ErrorKeeps ==
  ASSUME TypeOK, NEW c \in Callers, CallerInv(c), Errors(c),
         \/ failed'[c]
         \/ disturbed[c] /\ call[c].op # "import"
         \/ /\ call[c].op \notin {"import", "delete"}
            /\ \E o \in live : Value(o) = None /\ (X509(o) \/ (IsCertificate(o) /\ Id(o) = call[c].id))
         \/ call[c].op = "paired" /\ \E o \in live : Nameless(o)
  PROVE  CallerInv(c)'
<1>1. /\ pc'[c] = "error" /\ call'[c] = call[c]
      /\ todo'[c] = {} /\ scanned'[c] = FALSE /\ chain'[c] = <<>> /\ found'[c] = {}
      /\ live' = live /\ disturbed' = disturbed
  BY DEF Errors, Forgets, Goto, TypeOK, tokenVars, historyVars
<1>2. Sites(c)' /\ Walk(c)' /\ Handles(c)' /\ Searched(c)' /\ Missed(c)'
  BY <1>1 DEF Sites, Walk, Walking, Handles, Reading, Searched, Missed
<1>3. SoundAt(c)'
  BY <1>1, SoundEmpty DEF SoundAt
<1>4. Explained(c)'
  BY <1>1 DEF Explained
<1> QED
  BY <1>2, <1>3, <1>4 DEF CallerInv

LEMMA EndKeeps ==
  ASSUME TypeOK, NEW c \in Callers, CallerInv(c), pc[c] \in Walking,
         Exhausted(c, chain[c]), EndWalk(c)
  PROVE  CallerInv(c)'
<1>1. /\ call' = call /\ todo' = todo /\ steady' = steady /\ live' = live
      /\ scanned'[c] = FALSE
  BY DEF EndWalk, TypeOK, tokenVars, historyVars
<1>2. call[c].op \in {"chain", "paired"} /\ chain[c] # <<>>
  BY DEF CallerInv, Sites, Walk
<1>3. \A s : Exhausted(c, s)' <=> Exhausted(c, s)
  BY <1>1 DEF Exhausted, CouldIssue
<1>4. CASE call[c].op = "paired"
  <2>1. found'[c] = found[c] \cup {chain[c]} /\ chain'[c] = <<>> /\ pc'[c] = "pair"
    BY <1>4 DEF EndWalk, Goto, TypeOK
  <2>2. Sites(c)' /\ Walk(c)' /\ Handles(c)' /\ Explained(c)' /\ Searched(c)'
    BY <1>1, <1>4, <2>1 DEF Sites, Walk, Walking, Handles, Reading, Explained, Searched
  <2>3. SoundAt(c)'
    BY <2>1, SoundEmpty DEF SoundAt, CallerInv
  <2>4. Missed(c)'
    BY <1>3, <2>1 DEF Missed, CallerInv
  <2> QED
    BY <2>2, <2>3, <2>4 DEF CallerInv
<1>5. CASE call[c].op # "paired"
  <2>1. found' = found /\ chain' = chain /\ pc'[c] = "returned"
    BY <1>5 DEF EndWalk, Goto, TypeOK
  <2>2. Sites(c)' /\ Walk(c)' /\ Handles(c)' /\ Explained(c)' /\ Searched(c)'
    BY <1>1, <2>1 DEF Sites, Walk, Walking, Handles, Reading, Explained, Searched
  <2>3. SoundAt(c)'
    BY <2>1 DEF SoundAt, CallerInv
  <2>4. Missed(c)'
    BY <1>1, <1>2, <1>3, <1>5, <2>1 DEF Missed, CallerInv
  <2> QED
    BY <2>2, <2>3, <2>4 DEF CallerInv
<1> QED
  BY <1>4, <1>5

\* A new certificate that has signed the last one, which another has issued,
\* keeps the chain sound.
LEMMA SoundMore ==
  ASSUME NEW s \in Chains, Sound(s), NEW x \in Certs, <<x, s[Len(s)]>> \in Signs,
         ~SelfIssued(s[Len(s)]), \A i \in 1..Len(s) : s[i] # x
  PROVE  Sound(Append(s, x))
<1> DEFINE t == Append(s, x)
<1>1. Len(s) \in Nat /\ Len(s) >= 1 /\ s \in Seq(Certs)
  BY CertificateAssumption DEF Chains
<1>2. Len(t) = Len(s) + 1 /\ t[Len(s) + 1] = x /\ \A i \in 1..Len(s) : t[i] = s[i]
  BY <1>1
<1> HIDE DEF t
<1>3. ASSUME NEW i \in 1..(Len(t) - 1) PROVE <<t[i + 1], t[i]>> \in Signs /\ ~SelfIssued(t[i])
  <2>1. CASE i = Len(s)
    BY <1>1, <1>2, <2>1
  <2>2. CASE i # Len(s)
    <3>1. i \in 1..(Len(s) - 1) /\ i \in 1..Len(s) /\ i + 1 \in 1..Len(s)
      BY <1>1, <1>2, <2>2
    <3> QED
      BY <1>2, <3>1 DEF Sound
  <2> QED
    BY <2>1, <2>2
<1>4. ASSUME NEW i \in 1..Len(t), NEW j \in 1..Len(t), t[i] = t[j] PROVE i = j
  <2>1. \A k \in 1..Len(t) : k = Len(s) + 1 \/ k \in 1..Len(s)
    BY <1>1, <1>2
  <2> QED
    BY <1>2, <1>4, <2>1 DEF Sound
<1> QED
  BY <1>3, <1>4 DEF Sound, t

LEMMA PlacesKeeps ==
  ASSUME TypeOK, NEW c \in Callers, CallerInv(c), pc[c] \in Walking \ {"hop"},
         NEW candidates \in SUBSET Certs,
         Places(c, SelectIssuer(Last(c), candidates, Placed(c)))
  PROVE  CallerInv(c)'
<1>1. PICK x \in candidates : /\ x \notin Placed(c) /\ <<x, Last(c)>> \in Signs
                              /\ chain' = [chain EXCEPT ![c] = Append(@, x)]
  BY DEF Places, SelectIssuer
<1>2. chain[c] \in Chains /\ ~SelfIssued(Last(c)) /\ call[c].op \in {"chain", "paired"}
  BY DEF CallerInv, Walk, Sites, TypeOK
<1>3. Sound(Append(chain[c], x))
  BY <1>1, <1>2, SoundMore DEF CallerInv, SoundAt, Last, Placed
<1>4. chain'[c] = Append(chain[c], x) /\ Append(chain[c], x) # <<>>
  BY <1>1, <1>2 DEF TypeOK, Chains
<1>5. /\ pc'[c] = "hop" /\ call' = call /\ todo' = todo /\ scanned' = scanned /\ all' = all
      /\ found' = found /\ steady' = steady
  BY DEF Places, Goto, TypeOK, historyVars
<1>6. Sites(c)' /\ Walk(c)' /\ Handles(c)' /\ Explained(c)' /\ Searched(c)'
  BY <1>2, <1>4, <1>5 DEF CallerInv, Sites, Walk, Walking, Handles, Reading, Explained, Searched
<1>7. SoundAt(c)'
  BY <1>3, <1>4, <1>5 DEF CallerInv, SoundAt
<1>8. Missed(c)'
  BY <1>5, StaysExhausted DEF CallerInv, Missed
<1> QED
  BY <1>6, <1>7, <1>8 DEF CallerInv

----------------------------------------------------------------------------
(* What each action does to the invariant of its own caller.               *)

LEMMA FailsKeeps ==
  ASSUME TypeOK, NEW c \in Callers, CallerInv(c), Fails(c) PROVE CallerInv(c)'
BY ErrorKeeps DEF Fails, TypeOK

LEMMA FindRawKeeps ==
  ASSUME TypeOK, NEW c \in Callers, CallerInv(c), FindRawCertificate(c) PROVE CallerInv(c)'
<1>1. /\ call' = call /\ read' = read /\ scanned' = scanned /\ all' = all /\ chain' = chain
      /\ found' = found /\ steady' = steady /\ live' = live /\ disturbed' = disturbed
  BY DEF FindRawCertificate, tokenVars, walkVars, historyVars
<1>2. /\ pc[c] = "leaf" /\ call[c].op \in {"find", "chain"} /\ chain[c] = <<>> /\ ~scanned[c]
  BY DEF CallerInv, FindRawCertificate, Sites, Walk, Walking
<1>3. CASE Matching(call[c].id) = {} /\ pc' = [pc EXCEPT ![c] = "returned"] /\ todo' = todo
  <2>1. pc'[c] = "returned"
    BY <1>3 DEF TypeOK
  <2>2. Sites(c)' /\ Walk(c)' /\ Handles(c)' /\ Explained(c)' /\ Searched(c)'
    BY <1>1, <1>2, <2>1 DEF Sites, Walk, Walking, Handles, Reading, Explained, Searched
  <2>3. SoundAt(c)'
    BY <1>1 DEF CallerInv, SoundAt
  <2>4. \A o \in steady[c] : IsCertificate(o) => Id(o) # call[c].id
    BY <1>3 DEF Matching, TypeOK
  <2>5. Missed(c)'
    BY <1>1, <1>2, <2>4, StaysExhausted DEF CallerInv, Missed
  <2> QED
    BY <2>2, <2>3, <2>5 DEF CallerInv
<1>4. ASSUME NEW o \in Matching(call[c].id), todo' = [todo EXCEPT ![c] = {o}],
             pc' = [pc EXCEPT ![c] = "value"]
      PROVE  CallerInv(c)'
  <2>1. pc'[c] = "value" /\ todo'[c] = {o} /\ o \in live /\ IsCertificate(o) /\ Id(o) = call[c].id
    BY <1>4 DEF TypeOK, Matching
  <2>2. Sites(c)' /\ Walk(c)' /\ Handles(c)' /\ Explained(c)' /\ Searched(c)'
    BY <1>1, <1>2, <2>1 DEF Sites, Walk, Walking, Handles, Reading, Explained, Searched
  <2>3. SoundAt(c)'
    BY <1>1 DEF CallerInv, SoundAt
  <2>4. Missed(c)'
    BY <1>1, <2>1, StaysExhausted DEF CallerInv, Missed
  <2> QED
    BY <2>2, <2>3, <2>4 DEF CallerInv
<1> QED
  BY <1>3, <1>4 DEF FindRawCertificate, Goto

LEMMA ReadLeafKeeps ==
  ASSUME TypeOK, NEW c \in Callers, CallerInv(c), ReadLeaf(c) PROVE CallerInv(c)'
<1>1. PICK o \in todo[c] :
        IF Legible(o) THEN
          /\ chain' = [chain EXCEPT ![c] = <<Value(o)>>]
          /\ Goto(c, IF call[c].op = "find" THEN "returned" ELSE "hop")
          /\ todo' = [todo EXCEPT ![c] = {}]
          /\ UNCHANGED <<tokenVars, call, keys, read, all, scanned, found, historyVars>>
        ELSE Errors(c)
  BY DEF ReadLeaf
<1>2. /\ pc[c] = "value" /\ call[c].op \in {"find", "chain"} /\ ~scanned[c]
      /\ IsCertificate(o) /\ Id(o) = call[c].id /\ (o \in live \/ disturbed[c])
  BY <1>1 DEF ReadLeaf, CallerInv, Sites, Handles, Walk, Walking
<1>3. CASE ~Legible(o)
  BY <1>1, <1>2, <1>3, ErrorKeeps DEF Legible
<1>4. CASE Legible(o)
  <2>1. /\ chain'[c] = <<Value(o)>> /\ <<Value(o)>> # <<>> /\ todo'[c] = {} /\ call' = call
        /\ pc'[c] = (IF call[c].op = "find" THEN "returned" ELSE "hop")
        /\ scanned' = scanned /\ found' = found /\ steady' = steady
    BY <1>1, <1>4 DEF Goto, TypeOK, tokenVars, historyVars
  <2>2. Sites(c)' /\ Walk(c)' /\ Handles(c)' /\ Explained(c)' /\ Searched(c)'
    BY <1>2, <2>1 DEF Sites, Walk, Walking, Handles, Reading, Explained, Searched
  <2>3. SoundAt(c)'
    BY <2>1, SoundOne DEF CallerInv, SoundAt
  <2>4. Missed(c)'
    BY <1>2, <2>1, StaysExhausted DEF CallerInv, Missed
  <2> QED
    BY <2>2, <2>3, <2>4 DEF CallerInv
<1> QED
  BY <1>3, <1>4

LEMMA ReadKeeps ==
  ASSUME TypeOK, NEW c \in Callers, CallerInv(c), ReadCertificate(c) PROVE CallerInv(c)'
<1>1. PICK o \in todo[c] :
        IF Legible(o) THEN
          /\ todo' = [todo EXCEPT ![c] = @ \ {o}]
          /\ read' = [read EXCEPT ![c] = @ \cup {Value(o)}]
          /\ UNCHANGED <<tokenVars, pc, call, keys, walkVars, found, historyVars>>
        ELSE Errors(c)
  BY DEF ReadCertificate
<1>2. /\ pc[c] \in Reading /\ X509(o) /\ (o \in live \/ disturbed[c])
      /\ call[c].op \in {"all", "chain", "paired"}
  BY <1>1 DEF ReadCertificate, CallerInv, Sites, Handles, Walking, Reading
<1>3. CASE ~Legible(o)
  BY <1>1, <1>2, <1>3, ErrorKeeps DEF Legible
<1>4. CASE Legible(o)
  <2>1. /\ todo'[c] = todo[c] \ {o} /\ read'[c] = read[c] \cup {Value(o)}
        /\ pc' = pc /\ call' = call /\ scanned' = scanned /\ all' = all /\ chain' = chain
        /\ found' = found /\ steady' = steady /\ live' = live /\ disturbed' = disturbed
    BY <1>1, <1>4 DEF TypeOK, tokenVars, walkVars, historyVars
  <2>2. Last(c)' = Last(c) /\ Placed(c)' = Placed(c)
    BY <2>1 DEF Last, Placed
  <2>3. Sites(c)' /\ Walk(c)' /\ SoundAt(c)'
    BY <2>1, <2>2 DEF CallerInv, Sites, Walk, SoundAt
  <2>4. Handles(c)' /\ Explained(c)'
    BY <1>2, <2>1 DEF CallerInv, Handles, Explained, Reading
  <2>5. Searched(c)'
    BY <2>1, <2>2 DEF CallerInv, Searched
  <2>6. Missed(c)'
    BY <1>2, <2>1, StaysExhausted DEF CallerInv, Missed, Reading
  <2> QED
    BY <2>3, <2>4, <2>5, <2>6 DEF CallerInv
<1> QED
  BY <1>3, <1>4

\* A new search returns handles of certificates that are there.
LEMMA SearchKeeps ==
  ASSUME TypeOK, NEW c \in Callers, CallerInv(c),
         NEW objects \in SUBSET AllX509, NEW next \in Reading, Search(c, objects, next),
         next = "everything" => call[c].op = "all",
         next # "everything" => call[c].op \in {"chain", "paired"},
         next # "everything" =>
           chain[c] # <<>> /\ Len(chain[c]) < MaxDepth /\ ~SelfIssued(Last(c)),
         scanned[c] => next = "by subject" /\ pc[c] \in Walking,
         next = "by subject" =>
           \A o \in live : X509(o) /\ SubjectOf(o) = RawIssuer(Last(c)) => o \in objects,
         next # "by subject" => objects = AllX509,
         next = "by key id" => pc[c] = "authority"
  PROVE  CallerInv(c)'
<1>1. /\ pc'[c] = next /\ todo'[c] = objects /\ read'[c] = {}
      /\ call' = call /\ scanned' = scanned /\ all' = all /\ chain' = chain
      /\ found' = found /\ steady' = steady /\ live' = live /\ disturbed' = disturbed
  BY DEF Search, Goto, TypeOK, tokenVars, walkVars, historyVars
<1>2. Last(c)' = Last(c) /\ Placed(c)' = Placed(c)
  BY <1>1 DEF Last, Placed
<1>3. Sites(c)'
  BY <1>1 DEF Sites, Walking, Reading
<1>4. Walk(c)'
  BY <1>1, <1>2 DEF Walk, Walking, Reading
<1>5. SoundAt(c)'
  BY <1>1 DEF CallerInv, SoundAt
<1>6. Handles(c)' /\ Explained(c)'
  BY <1>1 DEF Handles, Explained, Reading, AllX509
<1>7. \A o \in steady[c] : X509(o) => o \in AllX509
  BY DEF AllX509, TypeOK
<1>8. Searched(c)'
  <2>1. next = "by subject" =>
          \A o \in steady[c] : X509(o) /\ SubjectOf(o) = RawIssuer(Last(c)) => o \in objects
    BY DEF TypeOK
  <2>2. next \in {"by key id", "everything"} => \A o \in steady[c] : X509(o) => o \in objects
    BY <1>7
  <2>3. next = "by key id" =>
          \A o \in steady[c] :
            X509(o) /\ SubjectOf(o) = RawIssuer(Last(c)) /\ <<Value(o), Last(c)>> \in Signs
            => Value(o) \in Placed(c)
    BY DEF CallerInv, Searched
  <2>4. scanned[c] => \A o \in steady[c] : X509(o) => Value(o) \in all[c]
    BY DEF CallerInv, Searched
  <2> QED
    BY <1>1, <1>2, <2>1, <2>2, <2>3, <2>4 DEF Searched, Reading
<1>9. Missed(c)'
  BY <1>1, StaysExhausted DEF CallerInv, Missed, Reading
<1> QED
  BY <1>3, <1>4, <1>5, <1>6, <1>8, <1>9 DEF CallerInv

LEMMA FindAllKeeps ==
  ASSUME TypeOK, NEW c \in Callers, CallerInv(c), FindAllCertificates(c) PROVE CallerInv(c)'
<1>1. CASE pc[c] = "all" /\ Search(c, AllX509, "everything")
  <2>1. call[c].op = "all" /\ ~scanned[c] /\ "everything" \in Reading
    BY <1>1 DEF CallerInv, Sites, Walk, Walking, Reading
  <2> QED
    BY <1>1, <2>1, SearchKeeps
<1>2. CASE pc[c] = "everything" /\ todo[c] = {} /\ Goto(c, "returned")
           /\ UNCHANGED <<tokenVars, call, keys, searchVars, walkVars, found, historyVars, failed>>
  <2>1. pc[c] = "everything" /\ call[c].op = "all" /\ ~scanned[c]
    BY <1>2 DEF CallerInv, Sites, Walk, Walking
  <2>2. /\ pc'[c] = "returned" /\ call' = call /\ todo' = todo /\ read' = read /\ chain' = chain
        /\ scanned' = scanned /\ all' = all /\ found' = found /\ steady' = steady
    BY <1>2 DEF Goto, TypeOK, tokenVars, searchVars, walkVars, historyVars
  <2>3. Sites(c)' /\ Walk(c)' /\ Handles(c)' /\ Explained(c)' /\ Searched(c)'
    BY <2>1, <2>2 DEF Sites, Walk, Walking, Handles, Reading, Explained, Searched
  <2>4. SoundAt(c)'
    BY <2>2 DEF CallerInv, SoundAt
  <2>5. \A o \in steady[c] : X509(o) => Value(o) \in read[c]
    BY <1>2, <2>1 DEF CallerInv, Searched
  <2>6. Missed(c)'
    BY <2>1, <2>2, <2>5, StaysExhausted DEF CallerInv, Missed
  <2> QED
    BY <2>3, <2>4, <2>6 DEF CallerInv
<1> QED
  BY <1>1, <1>2 DEF FindAllCertificates

LEMMA HopKeeps ==
  ASSUME TypeOK, NEW c \in Callers, CallerInv(c), Hop(c) PROVE CallerInv(c)'
<1>1. /\ pc[c] = "hop" /\ pc[c] \in Walking /\ chain[c] # <<>> /\ chain[c] \in Chains
      /\ call[c].op \in {"chain", "paired"}
  BY DEF Hop, CallerInv, Sites, Walk, Walking, TypeOK
<1>2. CASE Len(chain[c]) >= MaxDepth \/ SelfIssued(Last(c))
  <2>1. Len(chain[c]) = MaxDepth \/ SelfIssued(Last(c))
    BY <1>1, <1>2, CertificateAssumption DEF Chains
  <2>2. Exhausted(c, chain[c])
    BY <2>1 DEF Exhausted, Last
  <2> QED
    BY <1>1, <1>2, <2>2, EndKeeps DEF Hop
<1>3. CASE ~(Len(chain[c]) >= MaxDepth \/ SelfIssued(Last(c)))
  <2> DEFINE objects == {o \in AllX509 : SubjectOf(o) = RawIssuer(Last(c))}
  <2>1. Len(chain[c]) < MaxDepth /\ ~SelfIssued(Last(c))
    BY <1>1, <1>3, CertificateAssumption DEF Chains
  <2>2. Search(c, objects, "by subject") /\ objects \in SUBSET AllX509 /\ "by subject" \in Reading
    BY <1>3 DEF Hop, Reading
  <2>3. \A o \in live : X509(o) /\ SubjectOf(o) = RawIssuer(Last(c)) => o \in objects
    BY DEF AllX509
  <2> QED
    BY <1>1, <2>1, <2>2, <2>3, SearchKeeps
<1> QED
  BY <1>2, <1>3

LEMMA FindIssuerKeeps ==
  ASSUME TypeOK, NEW c \in Callers, CallerInv(c), FindIssuer(c) PROVE CallerInv(c)'
<1> DEFINE issuers == SelectIssuer(Last(c), read[c], Placed(c))
<1>1. /\ pc[c] = "by subject" /\ todo[c] = {} /\ call[c].op \in {"chain", "paired"}
      /\ pc[c] \in Walking \ {"hop"} /\ read[c] \in SUBSET Certs
  BY DEF FindIssuer, CallerInv, Sites, Walking, TypeOK
\* The objects with the right subject have been read, and none will do.
<1>2. ASSUME issuers = {}
      PROVE  \A o \in steady[c] :
               X509(o) /\ SubjectOf(o) = RawIssuer(Last(c)) /\ <<Value(o), Last(c)>> \in Signs
               => Value(o) \in Placed(c)
  BY <1>1, <1>2 DEF CallerInv, Searched, SelectIssuer
<1>3. CASE Places(c, issuers)
  BY <1>1, <1>3, PlacesKeeps
<1>4. CASE issuers = {} /\ AuthorityKeyId(Last(c)) = None /\ EndWalk(c)
  <2>1. Exhausted(c, chain[c])
    BY <1>2, <1>4 DEF Exhausted, CouldIssue, Last, Placed
  <2> QED
    BY <1>1, <1>4, <2>1, EndKeeps
<1>5. CASE /\ issuers = {} /\ Goto(c, "authority")
           /\ UNCHANGED <<tokenVars, call, keys, searchVars, walkVars, found, historyVars, failed>>
  <2>1. /\ pc'[c] = "authority" /\ call' = call /\ todo' = todo /\ read' = read /\ chain' = chain
        /\ scanned' = scanned /\ all' = all /\ found' = found /\ steady' = steady
    BY <1>5 DEF Goto, TypeOK, tokenVars, searchVars, walkVars, historyVars
  <2>2. Last(c)' = Last(c) /\ Placed(c)' = Placed(c)
    BY <2>1 DEF Last, Placed
  <2>3. Sites(c)' /\ Walk(c)' /\ Handles(c)' /\ Explained(c)'
    BY <1>1, <2>1, <2>2 DEF CallerInv, Sites, Walk, Walking, Handles, Reading, Explained
  <2>4. Searched(c)'
    BY <1>2, <1>5, <2>1, <2>2 DEF CallerInv, Searched
  <2>5. SoundAt(c)' /\ Missed(c)'
    BY <2>1, StaysExhausted DEF CallerInv, SoundAt, Missed
  <2> QED
    BY <2>3, <2>4, <2>5 DEF CallerInv
<1> QED
  BY <1>3, <1>4, <1>5 DEF FindIssuer

LEMMA ScanAllKeeps ==
  ASSUME TypeOK, NEW c \in Callers, CallerInv(c), ScanAll(c) PROVE CallerInv(c)'
<1>1. pc[c] \in Walking \ {"hop"} /\ call[c].op \in {"chain", "paired"}
  BY DEF ScanAll, CallerInv, Sites, Walking
<1>2. chain[c] # <<>> /\ Len(chain[c]) < MaxDepth /\ ~SelfIssued(Last(c))
  BY <1>1 DEF CallerInv, Walk
<1>3. CASE pc[c] = "authority" /\ ~scanned[c] /\ Search(c, AllX509, "by key id")
  <2>1. "by key id" \in Reading
    BY DEF Reading
  <2> QED
    BY <1>1, <1>2, <1>3, <2>1, SearchKeeps
<1>4. CASE /\ pc[c] = "by key id" /\ todo[c] = {}
           /\ all' = [all EXCEPT ![c] = read[c]]
           /\ scanned' = [scanned EXCEPT ![c] = TRUE]
           /\ read' = [read EXCEPT ![c] = {}]
           /\ Goto(c, "authority")
           /\ UNCHANGED <<tokenVars, call, keys, todo, chain, found, historyVars, failed>>
  <2>1. /\ pc'[c] = "authority" /\ call' = call /\ todo' = todo /\ chain' = chain
        /\ all'[c] = read[c] /\ found' = found /\ steady' = steady
    BY <1>4 DEF Goto, TypeOK, tokenVars, historyVars
  <2>2. Last(c)' = Last(c) /\ Placed(c)' = Placed(c)
    BY <2>1 DEF Last, Placed
  <2>3. Sites(c)' /\ Handles(c)' /\ Explained(c)'
    BY <1>1, <2>1 DEF Sites, Walking, Handles, Reading, Explained
  <2>4. Walk(c)'
    BY <1>2, <2>1, <2>2 DEF Walk, Walking
  <2>5. Searched(c)'
    <3>1. \A o \in steady[c] : X509(o) => Value(o) \in read[c]
      BY <1>4 DEF CallerInv, Searched
    <3>2. \A o \in steady[c] :
            X509(o) /\ SubjectOf(o) = RawIssuer(Last(c)) /\ <<Value(o), Last(c)>> \in Signs
            => Value(o) \in Placed(c)
      BY <1>4 DEF CallerInv, Searched
    <3> QED
      BY <2>1, <2>2, <3>1, <3>2 DEF Searched
  <2>6. SoundAt(c)' /\ Missed(c)'
    BY <2>1, StaysExhausted DEF CallerInv, SoundAt, Missed
  <2> QED
    BY <2>3, <2>4, <2>5, <2>6 DEF CallerInv
<1> QED
  BY <1>3, <1>4 DEF ScanAll

LEMMA FindAuthorityKeeps ==
  ASSUME TypeOK, NEW c \in Callers, CallerInv(c), FindAuthority(c) PROVE CallerInv(c)'
<1> DEFINE issuers == SelectIssuer(Last(c), ByKeyId(Last(c), all[c]), Placed(c))
<1>1. /\ pc[c] = "authority" /\ scanned[c] /\ pc[c] \in Walking \ {"hop"}
      /\ ByKeyId(Last(c), all[c]) \in SUBSET Certs
  BY DEF FindAuthority, Walking, TypeOK, ByKeyId
<1>2. CASE Places(c, issuers)
  BY <1>1, <1>2, PlacesKeeps
<1>3. CASE issuers = {} /\ EndWalk(c)
  <2>1. ASSUME NEW o \in steady[c], CouldIssue(o, Last(c)) PROVE Value(o) \in Placed(c)
    <3>1. CASE SubjectOf(o) = RawIssuer(Last(c))
      BY <1>1, <2>1, <3>1 DEF CallerInv, Searched, CouldIssue
    <3>2. CASE SubjectKeyId(Value(o)) = AuthorityKeyId(Last(c))
      <4>1. Value(o) \in all[c]
        BY <1>1, <2>1 DEF CallerInv, Searched, CouldIssue
      <4> QED
        BY <1>3, <2>1, <3>2, <4>1 DEF SelectIssuer, ByKeyId, CouldIssue
    <3> QED
      BY <2>1, <3>1, <3>2 DEF CouldIssue
  <2>2. Exhausted(c, chain[c])
    BY <2>1 DEF Exhausted, Last, Placed
  <2> QED
    BY <1>1, <1>3, <2>2, EndKeeps
<1> QED
  BY <1>2, <1>3 DEF FindAuthority

LEMMA FindPrivateKeysKeeps ==
  ASSUME TypeOK, NEW c \in Callers, CallerInv(c), FindPrivateKeys(c) PROVE CallerInv(c)'
<1>1. /\ pc[c] = "privates" /\ call[c].op = "paired" /\ chain[c] = <<>> /\ ~scanned[c]
  BY DEF FindPrivateKeys, CallerInv, Sites, Walk, Walking
<1>2. /\ pc'[c] = "pair" /\ call' = call /\ chain' = chain
      /\ scanned' = scanned /\ found' = found /\ steady' = steady
  BY DEF FindPrivateKeys, Goto, TypeOK, walkVars, historyVars
<1>3. Sites(c)' /\ Walk(c)' /\ Handles(c)' /\ Explained(c)' /\ Searched(c)'
  BY <1>1, <1>2 DEF Sites, Walk, Walking, Handles, Reading, Explained, Searched
<1>4. SoundAt(c)' /\ Missed(c)'
  BY <1>2, StaysExhausted DEF CallerInv, SoundAt, Missed
<1> QED
  BY <1>3, <1>4 DEF CallerInv

LEMMA MakeKeyPairKeeps ==
  ASSUME TypeOK, NEW c \in Callers, CallerInv(c), Keyed(c), MakeKeyPair(c) PROVE CallerInv(c)'
<1>1. pc[c] = "pair" /\ call[c].op = "paired" /\ chain[c] = <<>> /\ ~scanned[c]
  BY DEF MakeKeyPair, CallerInv, Sites, Walk, Walking
<1>2. CASE Errors(c)
  <2>1. CASE \E o \in keys[c] : o \notin live \/ Nameless(o)
    <3>1. PICK o \in keys[c] : o \notin live \/ Nameless(o)
      BY <2>1
    <3>2. o \in live \/ disturbed[c]
      BY DEF Keyed
    <3> QED
      BY <1>1, <1>2, <3>1, <3>2, ErrorKeeps
  <2>2. CASE ~\E o \in keys[c] : o \notin live \/ Nameless(o)
    <3>1. pc'[c] # "error"
      BY <1>1, <2>2 DEF MakeKeyPair, Goto, TypeOK
    <3> QED
      BY <1>2, <3>1 DEF Errors, Goto, TypeOK
  <2> QED
    BY <2>1, <2>2
<1>3. CASE ~Errors(c)
  <2>1. /\ call' = call /\ scanned' = scanned /\ found' = found /\ steady' = steady
        /\ live' = live /\ disturbed' = disturbed
    BY <1>3 DEF MakeKeyPair, walkVars, tokenVars, historyVars
  <2>2. \/ pc'[c] \in {"pair", "returned"} /\ chain'[c] = <<>>
        \/ pc'[c] = "half" /\ todo'[c] \subseteq live /\ \E x : chain'[c] = <<x>>
    BY <1>1, <1>3 DEF MakeKeyPair, Goto, TypeOK, walkVars
  <2>3. (\E x : chain'[c] = <<x>>) => chain'[c] # <<>>
    OBVIOUS
  <2>4. pc'[c] \in {"pair", "returned", "half"} /\ ~scanned'[c]
    BY <1>1, <2>1, <2>2
  <2>5. Sites(c)' /\ Walk(c)'
    BY <1>1, <2>1, <2>2, <2>3, <2>4 DEF Sites, Walk, Walking
  <2>6. Handles(c)' /\ Explained(c)' /\ Searched(c)'
    BY <2>1, <2>2, <2>4 DEF Handles, Reading, Explained, Searched
  <2>7. SoundAt(c)'
    BY <2>1, <2>2, SoundEmpty, SoundOne DEF CallerInv, SoundAt
  <2>8. Missed(c)'
    BY <1>1, <2>1, <2>4, StaysExhausted DEF CallerInv, Missed
  <2> QED
    BY <2>5, <2>6, <2>7, <2>8 DEF CallerInv
<1> QED
  BY <1>2, <1>3

LEMMA ReadPairKeeps ==
  ASSUME TypeOK, NEW c \in Callers, CallerInv(c), ReadPair(c) PROVE CallerInv(c)'
<1>1. pc[c] = "half" /\ call[c].op = "paired" /\ chain[c] # <<>> /\ ~scanned[c]
  BY DEF ReadPair, CallerInv, Sites, Walk, Walking
<1>2. CASE ~(todo[c] \subseteq live)
  BY <1>1, <1>2, ErrorKeeps DEF ReadPair, CallerInv, Handles
<1>3. CASE todo[c] \subseteq live
  <2>1. /\ pc'[c] = "hop" /\ call' = call /\ chain' = chain
        /\ scanned' = scanned /\ found' = found /\ steady' = steady
    BY <1>3 DEF ReadPair, Goto, TypeOK, walkVars, historyVars
  <2>2. Sites(c)' /\ Walk(c)' /\ Handles(c)' /\ Explained(c)' /\ Searched(c)'
    BY <1>1, <2>1 DEF Sites, Walk, Walking, Handles, Reading, Explained, Searched
  <2>3. SoundAt(c)' /\ Missed(c)'
    BY <2>1, StaysExhausted DEF CallerInv, SoundAt, Missed
  <2> QED
    BY <2>2, <2>3 DEF CallerInv
<1> QED
  BY <1>2, <1>3

LEMMA ImportKeeps ==
  ASSUME TypeOK, NEW c \in Callers, CallerInv(c), ImportCertificate(c) PROVE CallerInv(c)'
<1>1. pc[c] = "create" /\ call[c].op = "import" /\ ~scanned[c]
  BY DEF ImportCertificate, CallerInv, Sites, Walk, Walking
<1>2. /\ pc'[c] = "returned" /\ call' = call /\ chain' = chain
      /\ scanned' = scanned /\ found' = found /\ steady' = steady
  BY DEF ImportCertificate, Created, Goto, TypeOK, walkVars, historyVars
<1>3. Sites(c)' /\ Walk(c)' /\ Handles(c)' /\ Explained(c)' /\ Searched(c)'
  BY <1>1, <1>2 DEF Sites, Walk, Walking, Handles, Reading, Explained, Searched
<1>4. SoundAt(c)' /\ Missed(c)'
  BY <1>1, <1>2, StaysExhausted DEF CallerInv, SoundAt, Missed
<1> QED
  BY <1>3, <1>4 DEF CallerInv

LEMMA DeleteKeeps ==
  ASSUME TypeOK, NEW c \in Callers, CallerInv(c), DeleteCertificate(c) PROVE CallerInv(c)'
<1>1. pc[c] \in {"match", "destroy"} /\ call[c].op = "delete" /\ ~scanned[c]
  BY DEF DeleteCertificate, CallerInv, Sites, Walk, Walking
<1>2. CASE Errors(c) /\ ~(todo[c] \subseteq live) /\ pc[c] = "destroy"
  <2>1. disturbed[c]
    BY <1>2 DEF CallerInv, Handles
  <2> QED
    BY <1>1, <1>2, <2>1, ErrorKeeps
<1>3. CASE ~(Errors(c) /\ ~(todo[c] \subseteq live) /\ pc[c] = "destroy")
  <2>1. /\ call' = call /\ chain' = chain /\ scanned' = scanned /\ found' = found
        /\ steady'[c] \subseteq steady[c]
    BY <1>3 DEF DeleteCertificate, Destroyed, TypeOK, walkVars, historyVars
  <2>2. \/ pc'[c] = "returned"
        \/ pc'[c] = "destroy" /\ todo'[c] \subseteq live'
    BY <1>3 DEF DeleteCertificate, Matching, Goto, TypeOK, tokenVars
  <2>3. Sites(c)' /\ Walk(c)' /\ Handles(c)' /\ Explained(c)' /\ Searched(c)'
    BY <1>1, <2>1, <2>2 DEF Sites, Walk, Walking, Handles, Reading, Explained, Searched
  <2>4. SoundAt(c)' /\ Missed(c)'
    BY <1>1, <2>1, <2>2, StaysExhausted DEF CallerInv, SoundAt, Missed
  <2> QED
    BY <2>3, <2>4 DEF CallerInv
<1> QED
  BY <1>2, <1>3

LEMMA StepsKeep ==
  ASSUME TypeOK, NEW c \in Callers, CallerInv(c), Keyed(c), Steps(c) PROVE CallerInv(c)'
BY FailsKeeps, FindRawKeeps, ReadLeafKeeps, ReadKeeps, FindAllKeeps, HopKeeps, FindIssuerKeeps,
   ScanAllKeeps, FindAuthorityKeeps, FindPrivateKeysKeeps, MakeKeyPairKeeps, ReadPairKeeps,
   ImportKeeps, DeleteKeeps
   DEF Steps

LEMMA StepsKeyed ==
  ASSUME TypeOK, NEW c \in Callers, Keyed(c), Steps(c) PROVE Keyed(c)'
<1> USE DEF TypeOK, Goto, searchVars, walkVars
<1>0. Aged(c)
  BY StepsOnToken, TokenAges
<1>a. ASSUME Errors(c) PROVE Keyed(c)'
  BY <1>a DEF Errors, Forgets, Keyed
<1>b. ASSUME keys'[c] \subseteq keys[c], pc'[c] # "idle" PROVE Keyed(c)'
  BY <1>0, <1>b, ElsewhereKeyed
<1>1. CASE FindPrivateKeys(c)
  <2>1. pc'[c] = "pair" /\ keys'[c] \subseteq live /\ live' = live
    BY <1>1 DEF FindPrivateKeys, tokenVars
  <2> QED
    BY <2>1 DEF Keyed
<1>2. CASE Fails(c) \/ ReadLeaf(c) \/ ReadCertificate(c) \/ ReadPair(c) \/ MakeKeyPair(c) \/ DeleteCertificate(c)
  <2>1. CASE ~Errors(c)
    <3>1. keys'[c] \subseteq keys[c]
      BY <1>2, <2>1 DEF Fails, ReadLeaf, ReadCertificate, ReadPair, MakeKeyPair, DeleteCertificate
    <3>2. pc'[c] # "idle"
      BY <1>2, <2>1
         DEF Fails, ReadLeaf, ReadCertificate, ReadPair, MakeKeyPair, DeleteCertificate, Reading
    <3> QED
      BY <1>b, <3>1, <3>2
  <2> QED
    BY <1>a, <2>1
<1>3. ASSUME NEW objects, NEW next, next # "idle", Search(c, objects, next) PROVE Keyed(c)'
  BY <1>b, <1>3 DEF Search
<1>4. CASE EndWalk(c)
  BY <1>b, <1>4 DEF EndWalk
<1>5. ASSUME NEW issuers, Places(c, issuers) PROVE Keyed(c)'
  BY <1>b, <1>5 DEF Places
<1>6. CASE FindRawCertificate(c) \/ ImportCertificate(c)
  BY <1>b, <1>6 DEF FindRawCertificate, ImportCertificate
<1>7. CASE FindAllCertificates(c) \/ Hop(c)
  BY <1>b, <1>3, <1>4, <1>7 DEF FindAllCertificates, Hop
<1>8. CASE ScanAll(c)
  BY <1>b, <1>3, <1>8 DEF ScanAll
<1>9. CASE FindIssuer(c) \/ FindAuthority(c)
  BY <1>b, <1>4, <1>5, <1>9 DEF FindIssuer, FindAuthority
<1> QED
  BY <1>1, <1>2, <1>6, <1>7, <1>8, <1>9 DEF Steps

LEMMA CallKeeps ==
  ASSUME TypeOK, NEW c \in Callers, NEW d \in Callers, CallerInv(d), Keyed(d), Call(c)
  PROVE  CallerInv(d)' /\ Keyed(d)'
<1>1. PICK a \in Asked : call' = [call EXCEPT ![c] = a] /\ pc' = [pc EXCEPT ![c] = First(a.op)]
  BY DEF Call, Goto
<1>2. CASE d = c
  <2>1. /\ call'[c] = a /\ pc'[c] = First(a.op) /\ a.op \in Operations /\ pc[c] = "idle"
        /\ scanned' = scanned /\ chain' = chain /\ found' = found
    BY <1>1, CertificateAssumption DEF Call, TypeOK, walkVars
  <2>2. chain[c] = <<>> /\ ~scanned[c] /\ found[c] = {}
    BY <1>2, <2>1 DEF CallerInv, Walk, Walking
  <2>3. \/ a.op \in {"find", "chain"} /\ pc'[c] = "leaf"
        \/ a.op = "all" /\ pc'[c] = "all"
        \/ a.op = "paired" /\ pc'[c] = "privates"
        \/ a.op = "import" /\ pc'[c] = "create"
        \/ a.op = "delete" /\ pc'[c] = "match"
    BY <2>1 DEF First, Operations
  <2>4. Sites(c)' /\ Walk(c)' /\ Handles(c)' /\ Explained(c)' /\ Searched(c)'
    BY <2>1, <2>2, <2>3 DEF Sites, Walk, Walking, Handles, Reading, Explained, Searched
  <2>5. SoundAt(c)' /\ Missed(c)'
    BY <2>1, <2>2, <2>3, SoundEmpty DEF SoundAt, Missed
  <2>6. Keyed(c)'
    BY <1>2, <2>1, <2>3 DEF Call, Keyed
  <2> QED
    BY <1>2, <2>4, <2>5, <2>6 DEF CallerInv
<1>3. CASE d # c
  <2>1. Same(d)
    BY <1>1, <1>3 DEF Call, Same, TypeOK, searchVars, walkVars
  <2>2. Aged(d)
    BY <1>3 DEF Call, Aged, TypeOK, tokenVars
  <2> QED
    BY <2>1, <2>2, Elsewhere, ElsewhereKeyed DEF Same
<1> QED
  BY <1>2, <1>3

LEMMA ProceedKeeps ==
  ASSUME TypeOK, NEW c \in Callers, NEW d \in Callers, CallerInv(d), Keyed(d), Proceed(c)
  PROVE  CallerInv(d)' /\ Keyed(d)'
<1>1. CASE d = c
  <2>1. /\ pc'[c] = "idle" /\ chain'[c] = <<>> /\ found'[c] = {} /\ scanned' = scanned
        /\ pc[c] \in {"returned", "error"}
    BY DEF Proceed, Goto, TypeOK
  <2>2. ~scanned[c]
    BY <1>1, <2>1 DEF CallerInv, Walk, Walking
  <2>3. Sites(c)' /\ Walk(c)' /\ Handles(c)' /\ Explained(c)' /\ Searched(c)'
    BY <2>1, <2>2 DEF Sites, Walk, Walking, Handles, Reading, Explained, Searched
  <2>4. SoundAt(c)' /\ Missed(c)'
    BY <2>1, SoundEmpty DEF SoundAt, Missed
  <2>5. Keyed(c)'
    BY DEF Proceed, Keyed, TypeOK
  <2> QED
    BY <1>1, <2>3, <2>4, <2>5 DEF CallerInv
<1>2. CASE d # c
  <2>1. Same(d)
    BY <1>2 DEF Proceed, Same, Goto, TypeOK
  <2>2. Aged(d)
    BY <1>2 DEF Proceed, Aged, TypeOK, tokenVars
  <2> QED
    BY <2>1, <2>2, Elsewhere, ElsewhereKeyed DEF Same
<1> QED
  BY <1>1, <1>2

----------------------------------------------------------------------------
(* The invariant, and what it implies.                                     *)

LEMMA InitInv == ASSUME Init PROVE Inv
<1>1. ASSUME NEW c \in Callers PROVE CallerInv(c) /\ Keyed(c)
  <2>1. /\ pc[c] = "idle" /\ keys[c] = {} /\ chain[c] = <<>> /\ found[c] = {} /\ scanned[c] = FALSE
    BY DEF Init
  <2>2. Sites(c) /\ Walk(c) /\ Handles(c) /\ Explained(c) /\ Searched(c)
    BY <2>1 DEF Sites, Walk, Walking, Handles, Reading, Explained, Searched
  <2>3. SoundAt(c) /\ Missed(c)
    BY <2>1, SoundEmpty DEF SoundAt, Missed
  <2> QED
    BY <2>1, <2>2, <2>3 DEF CallerInv, Keyed
<1> QED
  BY <1>1, InitTyped DEF Inv

LEMMA NextInv == ASSUME Inv, [Next]_vars PROVE Inv'
<1>1. TypeOK'
  BY TypeNext DEF Inv, CallerInv
<1>2. ASSUME NEW d \in Callers PROVE CallerInv(d)' /\ Keyed(d)'
  <2>0. TypeOK /\ CallerInv(d) /\ Keyed(d)
    BY DEF Inv
  <2>1. ASSUME NEW o \in Foreign, Others(o) PROVE CallerInv(d)' /\ Keyed(d)'
    <3>1. Same(d)
      BY <2>1 DEF Others, Same, searchVars, walkVars
    <3>2. TokenStep
      BY <2>1, CertificateAssumption DEF Others, TokenStep
    <3> QED
      BY <2>0, <3>1, <3>2, TokenAges, Elsewhere, ElsewhereKeyed DEF Same
  <2>2. ASSUME NEW c \in Callers, Call(c) PROVE CallerInv(d)' /\ Keyed(d)'
    BY <2>0, <2>2, CallKeeps
  <2>3. ASSUME NEW c \in Callers, Proceed(c) PROVE CallerInv(d)' /\ Keyed(d)'
    BY <2>0, <2>3, ProceedKeeps
  <2>4. ASSUME NEW c \in Callers, Steps(c) PROVE CallerInv(d)' /\ Keyed(d)'
    <3>1. CASE c = d
      BY <2>0, <2>4, <3>1, StepsKeep, StepsKeyed
    <3>2. CASE c # d
      <4>1. Same(d)
        BY <2>0, <2>4, <3>2, OthersSame
      <4>2. Aged(d)
        BY <2>0, <2>4, StepsOnToken, TokenAges
      <4> QED
        BY <2>0, <4>1, <4>2, Elsewhere, ElsewhereKeyed DEF Same
    <3> QED
      BY <3>1, <3>2
  <2>5. CASE UNCHANGED vars
    <3>1. Same(d) /\ Aged(d)
      BY <2>5 DEF vars, tokenVars, searchVars, walkVars, historyVars, Same, Aged
    <3> QED
      BY <2>0, <3>1, Elsewhere, ElsewhereKeyed DEF Same
  <2> QED
    BY <2>1, <2>2, <2>3, <2>4, <2>5 DEF Next
<1> QED
  BY <1>1, <1>2 DEF Inv

\* The invariant holds in every state.
THEOREM Invariant == Spec => []Inv
<1>1. Init => Inv
  BY InitInv
<1>2. Inv /\ [Next]_vars => Inv'
  BY NextInv
<1> QED
  BY <1>1, <1>2, PTL DEF Spec

\* Every variable keeps its type, whatever is on the token and whoever calls:
\* in particular no chain grows past MaxDepth.
THEOREM TypeCorrect == Spec => []TypeOK
<1>1. Inv => TypeOK
  BY DEF Inv
<1> QED
  BY <1>1, Invariant, PTL

\* What findIssuerChain has placed is sound, for any certificates, names, key
\* identifiers and objects, created and destroyed at any time.
THEOREM OnlySoundChains == Spec => []ChainsSound
<1>1. Inv => ChainsSound
  BY DEF Inv, CallerInv, SoundAt, ChainsSound
<1> QED
  BY <1>1, Invariant, PTL

\* A search that succeeds has missed nothing that was there throughout.
THEOREM NothingIsMissed == Spec => []NothingMissed
<1>1. Inv => NothingMissed
  BY DEF Inv, CallerInv, Missed, NothingMissed
<1> QED
  BY <1>1, Invariant, PTL

\* A call fails for one of four reasons: the token, an object destroyed under
\* it, a malformed certificate, or, for paired certificates, a private key
\* without id and label; never a certificate that is well formed.
THEOREM ErrorsExplained == Spec => []ErrorExplained
<1>1. Inv => ErrorExplained
  BY DEF Inv, CallerInv, Explained, ErrorExplained
<1> QED
  BY <1>1, Invariant, PTL
=============================================================================
