------------------------ MODULE TokenContextsProofs ------------------------
(* The Contexts of a process do not disturb each other.                    *)
EXTENDS TokenContexts, FiniteSetTheorems, TLAPS

\* The key of a Context's library, and the library it leads to.
LEMMA KeyFacts ==
  \A c \in Contexts : Key(c) \in Paths /\ Lib(c) \in Libraries /\ Lib(c) = LibraryAt[Key(c)]
BY FilesAssumption DEF Lib, Key

LEMMA InitTyped == Init => TypeOK
<1> SUFFICES ASSUME Init PROVE TypeOK
  OBVIOUS
<1>1. refCount \in [Paths -> Nat] /\ refCtx \in [Paths -> Contexts \cup {None}]
  BY DEF Init
<1>2. initialized \in [Libraries -> Contexts \cup {None}] /\ ctx \in [Contexts -> Contexts \cup {None}]
  BY DEF Init
<1>3. sessions \in SUBSET (Contexts \X {"persistent", "pooled"}) /\ loggedIn \in SUBSET Tokens
  BY DEF Init
<1>4. drift \in BOOLEAN
  BY DEF Init
<1>5. pc \in [Contexts -> Labels]
  BY DEF Init, Labels
<1> QED
  BY <1>1, <1>2, <1>3, <1>4, <1>5 DEF TypeOK

LEMMA NextTyped == TypeOK /\ [Next]_vars => TypeOK'
<1> SUFFICES ASSUME TypeOK, [Next]_vars PROVE TypeOK'
  OBVIOUS
<1> USE KeyFacts DEF TypeOK, Goto, moduleVars, tokenVars, SessionsLeft, Labels
<1>1. ASSUME NEW c \in Contexts, Call(c) \/ OpenModule(c) PROVE TypeOK'
  BY <1>1 DEF Call, OpenModule, ShareModule, LoadModule, LoadFails
<1>2. ASSUME NEW c \in Contexts, DropModule(c) PROVE TypeOK'
  <2>1. CASE DropLast(c)
    BY <2>1 DEF DropLast
  <2>2. CASE DropShared(c)
    <3>1. refCount' \in [Paths -> Nat]
      BY <2>2 DEF DropShared, Drifted
    <3> QED
      BY <2>2, <3>1 DEF DropShared, Drifted
  <2> QED
    BY <1>2, <2>1, <2>2 DEF DropModule
<1>3. ASSUME NEW c \in Contexts, Configure(c) PROVE TypeOK'
  BY <1>3, TokenAssumption DEF Configure, FindToken, FindTokenFails, OpenPersistent,
    OpenPersistentFails, Login, LoginFails
<1>4. ASSUME NEW c \in Contexts, Work(c) PROVE TypeOK'
  BY <1>4 DEF Work, OpenPooled, ClosePooled, ClosePool, ClosePersistent
<1>5. CASE UNCHANGED vars
  BY <1>5 DEF vars
<1> QED
  BY <1>1, <1>2, <1>3, <1>4, <1>5 DEF Next

\* The variables keep their types, whatever the Contexts do.
THEOREM TypeCorrect == Spec => []TypeOK
BY InitTyped, NextTyped, PTL DEF Spec

----------------------------------------------------------------------------
(* How a step of one Context changes the users of a key and the holders of *)
(* a library.                                                              *)

\* The holders of a library that came to it by this absolute path.
Users(p) == {c \in Contexts : Key(c) = p /\ pc[c] \in Holding}

\* No Context takes a reference or gives one up.
LEMMA HoldersStay ==
  ASSUME TypeOK, NEW c \in Contexts, NEW label, Goto(c, label),
         pc[c] \in Holding <=> label \in Holding
  PROVE  /\ \A p \in Paths : Users(p)' = Users(p)
         /\ \A l \in Libraries : Holders(l)' = Holders(l)
BY DEF TypeOK, Goto, Users, Holders, Key, Lib

LEMMA HoldersJoin ==
  ASSUME TypeOK, NEW c \in Contexts, NEW label \in Holding, Goto(c, label), pc[c] \notin Holding
  PROVE  /\ c \notin Users(Key(c)) /\ Users(Key(c))' = Users(Key(c)) \cup {c}
         /\ \A p \in Paths \ {Key(c)} : Users(p)' = Users(p)
         /\ Holders(Lib(c))' = Holders(Lib(c)) \cup {c}
         /\ \A l \in Libraries \ {Lib(c)} : Holders(l)' = Holders(l)
<1>1. Key(c)' = Key(c) /\ Lib(c)' = Lib(c)
  BY DEF Key, Lib
<1> QED
  BY <1>1 DEF TypeOK, Goto, Users, Holders, Key, Lib

LEMMA HoldersLeave ==
  ASSUME TypeOK, NEW c \in Contexts, NEW label, label \notin Holding, Goto(c, label),
         pc[c] \in Holding
  PROVE  /\ c \in Users(Key(c)) /\ c \in Holders(Lib(c))
         /\ Users(Key(c))' = Users(Key(c)) \ {c}
         /\ \A p \in Paths \ {Key(c)} : Users(p)' = Users(p)
         /\ Holders(Lib(c))' = Holders(Lib(c)) \ {c}
         /\ \A l \in Libraries \ {Lib(c)} : Holders(l)' = Holders(l)
BY DEF TypeOK, Goto, Users, Holders, Key, Lib

LEMMA UsersFinite == \A p \in Paths : IsFiniteSet(Users(p))
<1> TAKE p \in Paths
<1>1. Users(p) \subseteq Contexts
  BY DEF Users
<1> QED
  BY <1>1, FS_Subset, TokenAssumption

----------------------------------------------------------------------------
(* The references to the libraries.                                        *)

\* Each entry counts its users, and has the *pkcs11.Ctx through which the
\* library it leads to is initialised.
Counted ==
  /\ \A p \in Paths : refCount[p] = Cardinality(Users(p))
  /\ \A c \in Contexts : pc[c] \in Holding => refCtx[Key(c)] = initialized[Lib(c)]

\* A library is held under one key at a time, however many lead to it: under a
\* second one C_Initialize is refused.
OneKey == \A l \in Libraries : \A c, d \in Holders(l) : Key(c) = Key(d)

References == TypeOK /\ Counted /\ OneKey /\ LibraryHeld /\ NoDrift

LEMMA InitReferences == Init => References
<1> SUFFICES ASSUME Init PROVE References
  OBVIOUS
<1>1. \A c \in Contexts : pc[c] \notin Holding
  BY DEF Init, Holding
<1>2. (\A p \in Paths : Users(p) = {}) /\ (\A l \in Libraries : Holders(l) = {})
  BY <1>1 DEF Users, Holders
<1>3. Cardinality({}) = 0
  BY FS_EmptySet
<1>4. Counted
  BY <1>1, <1>2, <1>3 DEF Init, Counted
<1> QED
  BY <1>2, <1>4, InitTyped DEF Init, References, OneKey, LibraryHeld, NoDrift

\* A key with no reference has no user; the users of a key hold the library it
\* leads to alone; and a Context that holds its library finds itself in its entry.
LEMMA HolderFacts ==
  ASSUME References, NEW c \in Contexts
  PROVE  /\ refCount[Key(c)] = 0 <=> Users(Key(c)) = {}
         /\ Users(Key(c)) \subseteq Holders(Lib(c))
         /\ Users(Key(c)) # {} => Holders(Lib(c)) = Users(Key(c))
         /\ refCount[Key(c)] = 1 /\ c \in Users(Key(c)) => Holders(Lib(c)) = {c}
         /\ c \in Users(Key(c)) => ~Drifted(c)
<1>1. /\ IsFiniteSet(Users(Key(c))) /\ Key(c) \in Paths /\ Lib(c) \in Libraries
      /\ refCount[Key(c)] = Cardinality(Users(Key(c)))
  BY KeyFacts, UsersFinite DEF References, Counted
<1>2. refCount[Key(c)] = 0 <=> Users(Key(c)) = {}
  BY <1>1, FS_EmptySet
<1>3. Users(Key(c)) \subseteq Holders(Lib(c))
  BY KeyFacts DEF Users, Holders
<1>4. ASSUME Users(Key(c)) # {} PROVE Holders(Lib(c)) = Users(Key(c))
  <2>1. PICK d : d \in Users(Key(c))
    BY <1>4
  <2>2. d \in Holders(Lib(c)) /\ Key(d) = Key(c)
    BY <2>1, <1>3 DEF Users
  <2>3. \A e \in Holders(Lib(c)) : Key(e) = Key(d) /\ e \in Contexts /\ pc[e] \in Holding
    BY <1>1, <2>2 DEF References, OneKey, Holders
  <2>4. Holders(Lib(c)) \subseteq Users(Key(c))
    BY <2>2, <2>3 DEF Users
  <2> QED
    BY <1>3, <2>4
<1>5. ASSUME refCount[Key(c)] = 1, c \in Users(Key(c)) PROVE Holders(Lib(c)) = {c}
  <2>1. PICK x : Users(Key(c)) = {x}
    BY <1>1, <1>5, FS_Singleton
  <2> QED
    BY <1>4, <1>5, <2>1
<1>6. ASSUME c \in Users(Key(c)) PROVE ~Drifted(c)
  <2>1. refCount[Key(c)] # 0
    BY <1>2, <1>6
  <2>2. refCtx[Key(c)] = initialized[Lib(c)]
    BY <1>6 DEF References, Counted, Users
  <2>3. ctx[c] = initialized[Lib(c)]
    BY <1>1, <1>3, <1>6 DEF References, LibraryHeld
  <2> QED
    BY <2>1, <2>2, <2>3 DEF Drifted
<1> QED
  BY <1>2, <1>3, <1>4, <1>5, <1>6

\* The steps that leave the references alone.
LEMMA QuietReferences ==
  ASSUME References, TypeOK', UNCHANGED <<moduleVars, ctx>>,
         \A c \in Contexts : pc'[c] \in Holding <=> pc[c] \in Holding
  PROVE  References'
<1>1. /\ \A p \in Paths : Users(p)' = Users(p)
      /\ \A l \in Libraries : Holders(l)' = Holders(l)
  BY DEF Users, Holders, Key, Lib
<1>2. \A c \in Contexts : Key(c)' = Key(c) /\ Lib(c)' = Lib(c)
  BY DEF Key, Lib
<1>3. Counted'
  BY <1>1, <1>2 DEF References, Counted, moduleVars
<1>4. OneKey'
  BY <1>1 DEF References, OneKey, Key
<1>5. LibraryHeld' /\ NoDrift'
  BY <1>1 DEF References, LibraryHeld, NoDrift, moduleVars
<1> QED
  BY <1>3, <1>4, <1>5 DEF References

LEMMA OpenReferences ==
  ASSUME References, TypeOK', NEW c \in Contexts, OpenModule(c)
  PROVE  References'
<1> DEFINE l == Lib(c)
           k == Key(c)
<1>0. TypeOK /\ k \in Paths /\ l \in Libraries
  BY KeyFacts DEF References
<1>a. \A m \in Libraries : \A d \in Holders(m) : d \in Contexts /\ Lib(d) = m /\ pc[d] \in Holding
  BY DEF Holders
<1>1. CASE ShareModule(c)
  <2>1. /\ c \notin Users(k) /\ Users(k)' = Users(k) \cup {c}
        /\ \A p \in Paths \ {k} : Users(p)' = Users(p)
        /\ Holders(l)' = Holders(l) \cup {c}
        /\ \A m \in Libraries \ {l} : Holders(m)' = Holders(m)
    BY <1>0, <1>1, HoldersJoin DEF ShareModule, Holding
  <2>2. Cardinality(Users(k)') = Cardinality(Users(k)) + 1
    BY <1>0, <2>1, UsersFinite, FS_AddElement
  <2>3. /\ refCount' = [refCount EXCEPT ![k] = @ + 1] /\ ctx' = [ctx EXCEPT ![c] = refCtx[k]]
        /\ UNCHANGED <<refCtx, initialized, drift>> /\ refCount[k] > 0
        /\ pc' = [pc EXCEPT ![c] = "slots"]
    BY <1>1 DEF ShareModule, Goto
  <2>4. Users(k) # {} /\ Holders(l) = Users(k)
    <3>1. refCount[k] # 0
      BY <2>3
    <3> QED
      BY <3>1, HolderFacts
  <2>5. refCtx[k] = initialized[l] /\ initialized[l] # None
    <3>1. PICK d : d \in Users(k)
      BY <2>4
    <3>2. d \in Contexts /\ Key(d) = k /\ pc[d] \in Holding /\ Lib(d) = l
      BY <3>1, KeyFacts DEF Users
    <3> QED
      BY <1>0, <2>4, <3>2 DEF References, Counted, LibraryHeld
  <2>6. Counted'
    <3>1. \A p \in Paths : refCount'[p] = Cardinality(Users(p)')
      BY <1>0, <2>1, <2>2, <2>3 DEF References, Counted, TypeOK
    <3>2. \A d \in Contexts : pc'[d] \in Holding => refCtx[Key(d)] = initialized[Lib(d)]
      BY <1>0, <2>3, <2>5 DEF References, Counted, TypeOK
    <3>3. \A d \in Contexts : Key(d)' = Key(d) /\ Lib(d)' = Lib(d)
      BY DEF Key, Lib
    <3> QED
      BY <2>3, <3>1, <3>2, <3>3 DEF Counted
  <2>7. OneKey'
    <3>1. \A d \in Holders(l)' : Key(d) = k
      BY <2>1, <2>4 DEF Users
    <3>2. \A m \in Libraries : \A d, e \in Holders(m)' : Key(d) = Key(e)
      BY <2>1, <3>1 DEF References, OneKey
    <3> QED
      BY <3>2 DEF OneKey, Key
  <2>8. LibraryHeld'
    <3>1. ctx'[c] = initialized[l] /\ \A d \in Contexts \ {c} : ctx'[d] = ctx[d]
      BY <1>0, <2>3, <2>5 DEF TypeOK
    <3> QED
      BY <1>0, <1>a, <2>1, <2>3, <2>5, <3>1 DEF References, LibraryHeld
  <2> QED
    BY <2>3, <2>6, <2>7, <2>8 DEF References, NoDrift
<1>2. CASE LoadModule(c)
  <2>1. /\ c \notin Users(k) /\ Users(k)' = Users(k) \cup {c}
        /\ \A p \in Paths \ {k} : Users(p)' = Users(p)
        /\ Holders(l)' = Holders(l) \cup {c}
        /\ \A m \in Libraries \ {l} : Holders(m)' = Holders(m)
    BY <1>0, <1>2, HoldersJoin DEF LoadModule, Holding
  <2>2. Cardinality(Users(k)') = Cardinality(Users(k)) + 1
    BY <1>0, <2>1, UsersFinite, FS_AddElement
  <2>3. /\ refCount' = [refCount EXCEPT ![k] = 1] /\ refCtx' = [refCtx EXCEPT ![k] = c]
        /\ initialized' = [initialized EXCEPT ![l] = c] /\ ctx' = [ctx EXCEPT ![c] = c]
        /\ UNCHANGED drift /\ refCount[k] = 0 /\ initialized[l] = None
        /\ pc' = [pc EXCEPT ![c] = "slots"]
    BY <1>2 DEF LoadModule, Goto
  <2>4. Holders(l) = {} /\ Users(k) = {}
    BY <1>0, <2>3, HolderFacts DEF References, LibraryHeld
  <2>5. Counted'
    <3>1. refCount'[k] = Cardinality(Users(k)')
      BY <1>0, <2>2, <2>3, <2>4, FS_EmptySet DEF TypeOK
    <3>2. \A p \in Paths : refCount'[p] = Cardinality(Users(p)')
      BY <1>0, <2>1, <2>3, <3>1 DEF References, Counted, TypeOK
    <3>3. ASSUME NEW d \in Contexts \ {c}, pc'[d] \in Holding
          PROVE  refCtx'[Key(d)] = initialized'[Lib(d)]
      <4>1. pc[d] \in Holding /\ refCtx[Key(d)] = initialized[Lib(d)]
        BY <1>0, <2>3, <3>3 DEF References, Counted, TypeOK
      <4>2. Lib(d) # l /\ Key(d) # k
        BY <2>4, <4>1 DEF Holders, Users
      <4>3. Key(d) \in Paths /\ Lib(d) \in Libraries
        BY KeyFacts
      <4> QED
        BY <1>0, <2>3, <4>1, <4>2, <4>3 DEF TypeOK
    <3>4. refCtx'[k] = c /\ initialized'[l] = c
      BY <1>0, <2>3 DEF TypeOK
    <3>5. \A d \in Contexts : Key(d)' = Key(d) /\ Lib(d)' = Lib(d)
      BY DEF Key, Lib
    <3> QED
      BY <3>2, <3>3, <3>4, <3>5 DEF Counted
  <2>6. OneKey'
    <3>1. \A m \in Libraries : \A d, e \in Holders(m)' : Key(d) = Key(e)
      BY <2>1, <2>4 DEF References, OneKey
    <3> QED
      BY <3>1 DEF OneKey, Key
  <2>7. LibraryHeld'
    <3>1. Holders(l)' = {c} /\ c # None
      BY <2>1, <2>4, TokenAssumption
    <3>2. ctx'[c] = c /\ \A d \in Contexts \ {c} : ctx'[d] = ctx[d]
      BY <2>3, <1>0 DEF TypeOK
    <3>3. initialized'[l] = c /\ \A m \in Libraries \ {l} : initialized'[m] = initialized[m]
      BY <2>3, <1>0 DEF TypeOK
    <3> QED
      BY <1>0, <1>a, <2>1, <3>1, <3>2, <3>3 DEF References, LibraryHeld
  <2> QED
    BY <2>3, <2>5, <2>6, <2>7 DEF References, NoDrift
<1>3. CASE LoadFails(c)
  <2>1. \A d \in Contexts : pc'[d] \in Holding <=> pc[d] \in Holding
    BY <1>0, <1>3 DEF LoadFails, Goto, Holding, TypeOK
  <2> QED
    BY <1>3, <2>1, QuietReferences DEF LoadFails
<1> QED
  BY <1>1, <1>2, <1>3 DEF OpenModule

LEMMA DropReferences ==
  ASSUME References, TypeOK', NEW c \in Contexts, DropModule(c)
  PROVE  References'
<1> DEFINE l == Lib(c)
           k == Key(c)
<1>0. TypeOK /\ k \in Paths /\ l \in Libraries
  BY KeyFacts DEF References
<1>1. /\ c \in Users(k) /\ c \in Holders(l)
      /\ Users(k)' = Users(k) \ {c} /\ \A p \in Paths \ {k} : Users(p)' = Users(p)
      /\ Holders(l)' = Holders(l) \ {c} /\ \A m \in Libraries \ {l} : Holders(m)' = Holders(m)
  <2>1. CASE DropLast(c)
    BY <1>0, <2>1, HoldersLeave DEF DropLast, Holding
  <2>2. CASE DropShared(c)
    BY <1>0, <2>2, HoldersLeave DEF DropShared, Holding
  <2> QED
    BY <2>1, <2>2 DEF DropModule
<1>2. Cardinality(Users(k)') = Cardinality(Users(k)) - 1
  BY <1>0, <1>1, UsersFinite, FS_RemoveElement
<1>3. \A m \in Libraries : \A d \in Holders(m) : d \in Contexts /\ Lib(d) = m
  BY DEF Holders
<1>4. pc' = [pc EXCEPT ![c] = "done"]
  BY DEF DropModule, DropLast, DropShared, Goto
<1>5. OneKey'
  <2>1. \A m \in Libraries : \A d, e \in Holders(m)' : Key(d) = Key(e)
    BY <1>1 DEF References, OneKey
  <2> QED
    BY <2>1 DEF OneKey, Key
<1>6. \A d \in Contexts : pc'[d] \in Holding => d # c /\ pc[d] \in Holding
  BY <1>0, <1>4 DEF TypeOK, Holding
<1>7. \A d \in Contexts : Key(d)' = Key(d) /\ Lib(d)' = Lib(d) /\ Key(d) \in Paths /\ Lib(d) \in Libraries
  BY KeyFacts DEF Key, Lib
<1>8. CASE DropLast(c)
  <2>1. /\ refCount' = [refCount EXCEPT ![k] = 0] /\ refCtx' = [refCtx EXCEPT ![k] = None]
        /\ initialized' = [initialized EXCEPT ![l] = None] /\ UNCHANGED <<ctx, drift>>
        /\ refCount[k] = 1
    BY <1>8 DEF DropLast
  <2>2. Holders(l)' = {} /\ Users(k)' = {}
    BY <1>1, <2>1, HolderFacts
  <2>3. Counted'
    <3>1. \A p \in Paths : refCount'[p] = Cardinality(Users(p)')
      BY <1>0, <1>1, <2>1, <2>2, FS_EmptySet DEF References, Counted, TypeOK
    <3>2. ASSUME NEW d \in Contexts, pc'[d] \in Holding PROVE refCtx'[Key(d)] = initialized'[Lib(d)]
      <4>1. refCtx[Key(d)] = initialized[Lib(d)]
        BY <1>6, <3>2 DEF References, Counted
      <4>2. Lib(d) # l /\ Key(d) # k
        BY <2>2, <3>2, <1>7 DEF Holders, Users
      <4> QED
        BY <1>0, <1>7, <2>1, <4>1, <4>2 DEF TypeOK
    <3> QED
      BY <1>7, <3>1, <3>2 DEF Counted
  <2>4. LibraryHeld'
    <3>1. initialized'[l] = None /\ \A m \in Libraries \ {l} : initialized'[m] = initialized[m]
      BY <1>0, <2>1 DEF TypeOK
    <3> QED
      BY <1>0, <1>1, <2>1, <2>2, <3>1 DEF References, LibraryHeld
  <2> QED
    BY <1>5, <2>1, <2>3, <2>4 DEF References, NoDrift
<1>9. CASE DropShared(c)
  <2>1. ~Drifted(c)
    BY <1>1, HolderFacts
  <2>2. /\ refCount' = [refCount EXCEPT ![k] = @ - 1] /\ refCount[k] > 1
        /\ UNCHANGED <<refCtx, initialized, ctx>>
    BY <1>9, <2>1 DEF DropShared
  <2>3. drift' = drift
    BY <1>0, <1>9, <2>1, Zenon DEF DropShared, TypeOK
  <2>4. Holders(l)' # {}
    <3>1. refCount[k] = Cardinality(Users(k)) /\ Cardinality({}) = 0
      BY <1>0, FS_EmptySet DEF References, Counted
    <3>2. refCount[k] - 1 # 0
      BY <2>2, <1>0 DEF TypeOK
    <3>3. Users(k)' # {} /\ Holders(l) = Users(k)
      BY <1>1, <1>2, <3>1, <3>2, HolderFacts
    <3> QED
      BY <1>1, <3>3
  <2>5. Counted'
    <3>1. \A p \in Paths : refCount'[p] = Cardinality(Users(p)')
      BY <1>0, <1>1, <1>2, <2>2 DEF References, Counted, TypeOK
    <3>2. \A d \in Contexts : pc'[d] \in Holding => refCtx'[Key(d)] = initialized'[Lib(d)]
      BY <1>6, <2>2 DEF References, Counted
    <3> QED
      BY <1>7, <3>1, <3>2 DEF Counted
  <2>6. LibraryHeld'
    BY <1>0, <1>1, <2>2, <2>4 DEF References, LibraryHeld
  <2> QED
    BY <1>5, <2>3, <2>5, <2>6 DEF References, NoDrift
<1> QED
  BY <1>8, <1>9 DEF DropModule

LEMMA NextReferences == References /\ [Next]_vars => References'
<1> SUFFICES ASSUME References, [Next]_vars PROVE References'
  OBVIOUS
<1>0. TypeOK /\ TypeOK'
  BY NextTyped DEF References
<1>1. ASSUME NEW c \in Contexts, OpenModule(c) PROVE References'
  BY <1>0, <1>1, OpenReferences
<1>2. ASSUME NEW c \in Contexts, DropModule(c) PROVE References'
  BY <1>0, <1>2, DropReferences
<1>3. ASSUME NEW c \in Contexts, Call(c) \/ Configure(c) \/ Work(c) PROVE References'
  <2>1. UNCHANGED <<moduleVars, ctx>>
    BY <1>3 DEF Call, Configure, Work, FindToken, FindTokenFails, OpenPersistent,
      OpenPersistentFails, Login, LoginFails, OpenPooled, ClosePooled, ClosePool, ClosePersistent
  <2>2. \A d \in Contexts : pc'[d] \in Holding <=> pc[d] \in Holding
    BY <1>0, <1>3 DEF TypeOK, Goto, Holding, Call, Configure, Work, FindToken, FindTokenFails,
      OpenPersistent, OpenPersistentFails, Login, LoginFails, OpenPooled, ClosePooled, ClosePool,
      ClosePersistent
  <2> QED
    BY <1>0, <2>1, <2>2, QuietReferences
<1>4. CASE UNCHANGED vars
  BY <1>0, <1>4, QuietReferences DEF vars
<1> QED
  BY <1>1, <1>2, <1>3, <1>4 DEF Next

\* A library is initialised exactly while some Context holds it, and all of
\* them call through the *pkcs11.Ctx it was initialised with: for any number
\* of Contexts and libraries, any spelling of their paths and any links.
THEOREM LibraryKept == Spec => []LibraryHeld
<1>1. References => LibraryHeld
  BY DEF References
<1> QED
  BY InitReferences, NextReferences, <1>1, PTL DEF Spec

\* moduleCtx.Close never finds the count inconsistent.
THEOREM CountKept == Spec => []NoDrift
<1>1. References => NoDrift
  BY DEF References
<1> QED
  BY InitReferences, NextReferences, <1>1, PTL DEF Spec

\* openModule never tries to initialise a library that another Context has
\* initialised under the same absolute path, however the two spell it: a
\* Configure that is refused its library shares it with no such Context.
THEOREM Shared == Spec => NotRefused
<1> DEFINE A == \A c \in Contexts :
                  pc[c] = "open" /\ pc'[c] = "done" =>
                    \A d \in Holders(Lib(c)) : Abs[Path[d]] # Abs[Path[c]]
<1>1. References /\ [Next]_vars => [A]_vars
  <2> SUFFICES ASSUME References, [Next]_vars, NEW c \in Contexts, pc[c] = "open", pc'[c] = "done"
               PROVE  \A d \in Holders(Lib(c)) : Abs[Path[d]] # Abs[Path[c]]
    BY DEF A
  <2>0. TypeOK
    BY DEF References
  <2>1. LoadFails(c)
    <3>1. \E d \in Contexts : Call(d) \/ OpenModule(d) \/ DropModule(d) \/ Configure(d) \/ Work(d)
      BY DEF Next, vars
    <3>2. PICK d \in Contexts : Call(d) \/ OpenModule(d) \/ DropModule(d) \/ Configure(d) \/ Work(d)
      BY <3>1
    <3>3. d = c
      BY <2>0, <3>2 DEF TypeOK, Goto, Call, OpenModule, DropModule, Configure, Work, ShareModule,
        LoadModule, LoadFails, DropLast, DropShared, FindToken, FindTokenFails, OpenPersistent,
        OpenPersistentFails, Login, LoginFails, OpenPooled, ClosePooled, ClosePool, ClosePersistent
    <3> QED
      BY <2>0, <3>2, <3>3 DEF TypeOK, Goto, Call, OpenModule, DropModule, Configure, Work, ShareModule,
        LoadModule, LoadFails, DropLast, DropShared, FindToken, FindTokenFails, OpenPersistent,
        OpenPersistentFails, Login, LoginFails, OpenPooled, ClosePooled, ClosePool, ClosePersistent
  <2>2. Users(Key(c)) = {}
    BY <2>1, HolderFacts DEF LoadFails
  <2> QED
    BY <2>2 DEF Users, Holders, Key
<1> QED
  BY InitReferences, NextReferences, <1>1, PTL DEF Spec, NotRefused, A

----------------------------------------------------------------------------
(* The sessions and the login.                                             *)

Sessions == References /\ SessionsOwned /\ LoggedIn

\* A token that keeps a session stays logged in.
LEMMA StaysLoggedIn ==
  ASSUME NEW S, SessionsLeft(S), NEW c \in Contexts, <<c, "persistent">> \in S,
         Token[c] \in loggedIn
  PROVE  Token[c] \in loggedIn'
<1>1. <<c, "persistent">>[1] = c
  OBVIOUS
<1>2. Token[c] \in {Token[s[1]] : s \in S}
  BY <1>1
<1> QED
  BY <1>2 DEF SessionsLeft

LEMMA InitSessions == Init => Sessions
<1> SUFFICES ASSUME Init PROVE References /\ SessionsOwned /\ LoggedIn
  BY DEF Sessions
<1>1. sessions = {} /\ \A c \in Contexts : pc[c] = "idle"
  BY DEF Init
<1>2. SessionsOwned
  BY <1>1 DEF SessionsOwned
<1>3. LoggedIn
  BY <1>1, TokenAssumption DEF LoggedIn
<1> QED
  BY <1>2, <1>3, InitReferences

LEMMA NextSessions == Sessions /\ [Next]_vars => Sessions'
<1> SUFFICES ASSUME Sessions, [Next]_vars PROVE SessionsOwned' /\ LoggedIn'
  BY NextReferences DEF Sessions
<1>0. TypeOK /\ References /\ SessionsOwned /\ LoggedIn /\ LoggingIn \subseteq Contexts
  BY TokenAssumption DEF Sessions, References
<1> USE <1>0 DEF TypeOK, Goto, SessionsOwned, LoggedIn, tokenVars
<1>1. ASSUME NEW c \in Contexts, Call(c) \/ OpenModule(c) PROVE SessionsOwned' /\ LoggedIn'
  BY <1>1 DEF Call, OpenModule, ShareModule, LoadModule, LoadFails
<1>2. ASSUME NEW c \in Contexts, DropModule(c) PROVE SessionsOwned' /\ LoggedIn'
  <2>1. CASE DropLast(c)
    <3> DEFINE S == {s \in sessions : Lib(s[1]) # Lib(c)}
    <3>1. c \in Users(Key(c)) /\ refCount[Key(c)] = 1
      BY <2>1 DEF DropLast, Users, Holding
    <3>2. Holders(Lib(c)) = {c}
      BY <3>1, HolderFacts
    <3>3. pc[c] = "drop" /\ pc' = [pc EXCEPT ![c] = "done"] /\ SessionsLeft(S)
      BY <2>1 DEF DropLast
    <3>4. \A d \in Contexts : Lib(d) = Lib(c) => d = c \/ pc[d] \notin Holding
      BY <3>2 DEF Holders
    <3>5. ASSUME NEW d \in Contexts, NEW k \in {"persistent", "pooled"}, <<d, k>> \in sessions
          PROVE  <<d, k>> \in S
      <4>1. pc[d] \in {"login", "ready", "persistent"}
        BY <3>5
      <4>2. Lib(d) # Lib(c)
        BY <3>3, <3>4, <4>1 DEF Holding
      <4>3. <<d, k>>[1] = d
        OBVIOUS
      <4> QED
        BY <3>5, <4>2, <4>3
    <3>6. sessions' = sessions
      <4>1. ASSUME NEW s \in sessions PROVE s \in S
        <5>1. PICK d \in Contexts, k \in {"persistent", "pooled"} : s = <<d, k>>
          OBVIOUS
        <5> QED
          BY <3>5, <5>1
      <4>2. S \subseteq sessions /\ sessions' = S
        BY <3>3 DEF SessionsLeft
      <4> QED
        BY <4>1, <4>2
    <3>7. SessionsOwned'
      BY <3>3, <3>6
    <3>8. LoggedIn'
      BY <3>3, <3>5, StaysLoggedIn
    <3> QED
      BY <3>7, <3>8
  <2>2. CASE DropShared(c)
    BY <2>2 DEF DropShared
  <2> QED
    BY <1>2, <2>1, <2>2 DEF DropModule
<1>3. ASSUME NEW c \in Contexts, Configure(c) PROVE SessionsOwned' /\ LoggedIn'
  <2>1. CASE OpenPersistent(c)
    BY <2>1 DEF OpenPersistent
  <2>2. CASE Login(c)
    BY <2>2 DEF Login
  <2>3. CASE FindToken(c) \/ FindTokenFails(c) \/ OpenPersistentFails(c) \/ LoginFails(c)
    BY <2>3 DEF FindToken, FindTokenFails, OpenPersistentFails, LoginFails
  <2> QED
    BY <1>3, <2>1, <2>2, <2>3 DEF Configure
<1>4. ASSUME NEW c \in Contexts, Work(c) PROVE SessionsOwned' /\ LoggedIn'
  <2>1. CASE OpenPooled(c)
    BY <2>1 DEF OpenPooled
  <2>2. CASE ClosePooled(c) \/ ClosePool(c)
    <3> DEFINE S == sessions \ {<<c, "pooled">>}
    <3>1. SessionsLeft(S)
      BY <2>2 DEF ClosePooled, ClosePool
    <3>2. pc' = pc \/ (pc[c] = "ready" /\ pc' = [pc EXCEPT ![c] = "persistent"])
      BY <2>2 DEF ClosePooled, ClosePool
    <3>3. SessionsOwned'
      BY <3>1, <3>2 DEF SessionsLeft
    <3>4. \A d \in LoggingIn : pc'[d] = "ready" =>
            d \in Contexts /\ <<d, "persistent">> \in S /\ Token[d] \in loggedIn
      BY <3>2
    <3>5. LoggedIn'
      BY <3>1, <3>4, StaysLoggedIn
    <3> QED
      BY <3>3, <3>5
  <2>3. CASE ClosePersistent(c)
    <3> DEFINE S == sessions \ {<<c, "persistent">>}
    <3>1. SessionsLeft(S) /\ pc[c] = "persistent" /\ pc' = [pc EXCEPT ![c] = "drop"]
      BY <2>3 DEF ClosePersistent
    <3>2. SessionsOwned'
      BY <3>1 DEF SessionsLeft
    <3>3. \A d \in LoggingIn : pc'[d] = "ready" =>
            d \in Contexts /\ <<d, "persistent">> \in S /\ Token[d] \in loggedIn
      BY <3>1
    <3>4. LoggedIn'
      BY <3>1, <3>3, StaysLoggedIn
    <3> QED
      BY <3>2, <3>4
  <2> QED
    BY <1>4, <2>1, <2>2, <2>3 DEF Work
<1>5. CASE UNCHANGED vars
  BY <1>5 DEF vars
<1> QED
  BY <1>1, <1>2, <1>3, <1>4, <1>5 DEF Next

\* No Configure that fails, and no Close, leaves a session open on a token,
\* and none closes the session of another Context.
THEOREM NoSessionLeft == Spec => []SessionsOwned
<1>1. Sessions => SessionsOwned
  BY DEF Sessions
<1> QED
  BY InitSessions, NextSessions, <1>1, PTL DEF Spec

\* A Context stays logged in for as long as it is used, whatever becomes of
\* the Context that called C_Login.
THEOREM StayLoggedIn == Spec => []LoggedIn
<1>1. Sessions => LoggedIn
  BY DEF Sessions
<1> QED
  BY InitSessions, NextSessions, <1>1, PTL DEF Spec
=============================================================================
