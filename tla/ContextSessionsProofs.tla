------------------------ MODULE ContextSessionsProofs ------------------------
(***************************************************************************)
(* Proofs of the safety of ContextSessions, for any number of operations,  *)
(* goroutines, closers and sessions, nested operations included.           *)
(*                                                                         *)
(* The invariant has four parts.  Claims says which operations have a      *)
(* session and that no two have the same one.  Locking ties the program    *)
(* counters to the read-write lock.  Once says that one closer at most is  *)
(* inside closeOnce.  Progress says how far the teardown has come at each  *)
(* of its steps, and that with closed set no operation is past its check.  *)
(***************************************************************************)
EXTENDS ContextSessions, FiniteSetTheorems, TLAPS

InLock == {"check", "get", "using", "failed", "replace", "runlock"}
InOnce == {"lock", "mark", "pool", "logout", "unload", "unlock"}
Holding == {"mark", "pool", "logout", "unload", "unlock"}

Claims ==
  /\ \A o \in Ops : claimed[o] # None <=> pc[o] \in {"using", "failed"}
  /\ \A o \in Ops : claimed[o] # None => claimed[o] \in open
  /\ \A o, q \in Ops : claimed[o] = claimed[q] /\ claimed[o] # None => o = q
  /\ \A s \in poisoned : \E o \in Ops : claimed[o] = s /\ pc[o] = "failed"

Locking ==
  /\ \A o \in Ops : pc[o] \in InLock <=> o \in readers
  /\ \A k \in Closers : pc[k] \in Holding => writer = "held" /\ readers = {}

Once ==
  /\ \A k \in Closers : pc[k] \in InOnce => once = "running"
  /\ \A j, k \in Closers : pc[j] \in InOnce /\ pc[k] \in InOnce => j = k

Progress ==
  /\ closed => \A o \in Ops : pc[o] \in {"idle", "rlock", "check"}
  /\ shut => open = {}
  /\ ~closed => persistent /\ module = 1
  /\ \A k \in Closers :
       /\ pc[k] \in {"pool", "logout", "unload", "unlock"} => closed
       /\ pc[k] \in {"logout", "unload", "unlock"} => shut
       /\ pc[k] \in {"unload", "unlock"} => ~persistent
       /\ pc[k] \in {"lock", "mark", "pool", "logout", "unload"} => module = 1
       /\ pc[k] = "unlock" => module = 0
       /\ pc[k] \in {"lock", "mark"} => ~closed
  /\ once = "new" => ~closed
  /\ once = "done" => closed /\ shut /\ ~persistent /\ module = 0

IInv == TypeOK /\ Claims /\ Locking /\ Once /\ Progress

----------------------------------------------------------------------------

LEMMA InitIInv == Init => IInv
<1> SUFFICES ASSUME Init PROVE IInv
  OBVIOUS
<1> USE ContextAssumption DEF Init, Pool!Init
<1>1. TypeOK
  <2>1. pc \in [Ops \cup Closers -> OpLabels \cup CloserLabels]
    BY DEF OpLabels, CloserLabels
  <2>2. closed \in BOOLEAN /\ persistent \in BOOLEAN /\ shut \in BOOLEAN
    OBVIOUS
  <2> QED
    BY <2>1, <2>2 DEF TypeOK, OpLabels, CloserLabels
<1>2. Claims
  BY DEF Claims
<1>3. Locking
  BY DEF Locking, InLock, Holding
<1>4. Once
  BY DEF Once, InOnce
<1>5. Progress
  BY DEF Progress
<1> QED
  BY <1>1, <1>2, <1>3, <1>4, <1>5 DEF IInv

LEMMA NextTypeOK == IInv /\ [Next]_vars => TypeOK'
<1> SUFFICES ASSUME IInv, [Next]_vars PROVE TypeOK'
  OBVIOUS
<1> USE ContextAssumption DEF IInv, TypeOK, OpLabels, CloserLabels, Goto, lockVars, tokenVars,
  poolVars
<1>1. ASSUME NEW o \in Ops, Begin(o) \/ RLock(o) \/ Refuse(o) \/ Proceed(o) \/ GetFails(o) \/ RUnlock(o)
      PROVE TypeOK'
  BY <1>1 DEF Begin, RLock, Refuse, Proceed, GetFails, RUnlock
<1>2. ASSUME NEW o \in Ops, Get(o) PROVE TypeOK'
  BY <1>2 DEF Get, Pool!ClaimIdle, Pool!ClaimNew
<1>3. ASSUME NEW o \in Ops, Fatal(o) PROVE TypeOK'
  BY <1>3 DEF Fatal, Claims
<1>4. ASSUME NEW o \in Ops, PutHealthy(o) \/ PutFatal(o) PROVE TypeOK'
  BY <1>4 DEF PutHealthy, PutFatal, Pool!Release, Pool!Discard
<1>5. ASSUME NEW o \in Ops, Replace(o) PROVE TypeOK'
  BY <1>5 DEF Replace, Pool!OpenIdle
<1>6. ASSUME NEW k \in Closers, CallClose(k) \/ EnterOnce(k) \/ SkipOnce(k) \/ Lock(k) \/ Unlock(k)
      PROVE TypeOK'
  BY <1>6 DEF CallClose, EnterOnce, SkipOnce, Lock, Unlock
<1>7. ASSUME NEW k \in Closers, MarkClosed(k) \/ ClosePersistent(k) \/ DropModule(k)
      PROVE TypeOK'
  <2>1. CASE MarkClosed(k)
    BY <2>1 DEF MarkClosed
  <2>2. CASE ClosePersistent(k)
    BY <2>2 DEF ClosePersistent
  <2>3. CASE DropModule(k)
    BY <2>3 DEF DropModule
  <2> QED
    BY <1>7, <2>1, <2>2, <2>3
<1>8. ASSUME NEW k \in Closers, CloseSession(k) \/ ClosePool(k) PROVE TypeOK'
  BY <1>8 DEF CloseSession, ClosePool, Pool!CloseIdle, Pool!Shut
<1>9. CASE UNCHANGED vars
  BY <1>9 DEF vars
<1> QED
  BY <1>1, <1>2, <1>3, <1>4, <1>5, <1>6, <1>7, <1>8, <1>9 DEF Next, OpSteps, CloseSteps

LEMMA NextClaims == IInv /\ [Next]_vars => Claims'
<1> SUFFICES ASSUME IInv, [Next]_vars PROVE Claims'
  OBVIOUS
<1> USE ContextAssumption DEF IInv, TypeOK, Claims, Goto, lockVars, tokenVars, poolVars
<1>1. ASSUME NEW o \in Ops, Begin(o) \/ RLock(o) \/ Refuse(o) \/ Proceed(o) \/ GetFails(o) \/ RUnlock(o)
      PROVE Claims'
  BY <1>1 DEF Begin, RLock, Refuse, Proceed, GetFails, RUnlock
<1>2. ASSUME NEW o \in Ops, Get(o) PROVE Claims'
  <2>1. PICK s \in Sessions : /\ claimed' = [claimed EXCEPT ![o] = s]
                              /\ \A q \in Ops : claimed[q] # s
                              /\ s \in open' /\ open \subseteq open'
    BY <1>2 DEF Get, Pool!ClaimIdle, Pool!ClaimNew, Pool!Claimed
  <2> QED
    BY <1>2, <2>1 DEF Get
<1>3. ASSUME NEW o \in Ops, Fatal(o) PROVE Claims'
  BY <1>3 DEF Fatal
<1>4. ASSUME NEW o \in Ops, PutHealthy(o) PROVE Claims'
  BY <1>4 DEF PutHealthy, Pool!Release
<1>5. ASSUME NEW o \in Ops, PutFatal(o) PROVE Claims'
  BY <1>5 DEF PutFatal, Pool!Discard
<1>6. ASSUME NEW o \in Ops, Replace(o) PROVE Claims'
  BY <1>6 DEF Replace, Pool!OpenIdle
<1>7. ASSUME NEW k \in Closers,
             \/ CallClose(k) \/ EnterOnce(k) \/ SkipOnce(k) \/ Lock(k) \/ MarkClosed(k)
             \/ ClosePersistent(k) \/ DropModule(k) \/ Unlock(k)
      PROVE Claims'
  <2>1. /\ claimed' = claimed /\ open' = open /\ poisoned' = poisoned
        /\ \A o \in Ops : pc'[o] = pc[o]
    BY <1>7 DEF CallClose, EnterOnce, SkipOnce, Lock, MarkClosed, ClosePersistent, DropModule, Unlock
  <2> QED
    BY <2>1
<1>8. ASSUME NEW k \in Closers, CloseSession(k) PROVE Claims'
  BY <1>8 DEF CloseSession, Pool!CloseIdle, Pool!Claimed
<1>9. ASSUME NEW k \in Closers, ClosePool(k) PROVE Claims'
  BY <1>9 DEF ClosePool, Pool!Shut
<1>10. CASE UNCHANGED vars
  BY <1>10 DEF vars
<1> QED
  BY <1>1, <1>2, <1>3, <1>4, <1>5, <1>6, <1>7, <1>8, <1>9, <1>10 DEF Next, OpSteps, CloseSteps

LEMMA NextLocking == IInv /\ [Next]_vars => Locking'
<1> SUFFICES ASSUME IInv, [Next]_vars PROVE Locking'
  OBVIOUS
<1> USE ContextAssumption DEF IInv, TypeOK, Locking, InLock, Holding, Goto, lockVars, tokenVars,
  poolVars
<1>1. ASSUME NEW o \in Ops, Begin(o) \/ RLock(o) \/ Refuse(o) \/ Proceed(o)
      PROVE Locking'
  BY <1>1 DEF Begin, RLock, Refuse, Proceed
<1>2. ASSUME NEW o \in Ops, Get(o) \/ GetFails(o) \/ Fatal(o) \/ RUnlock(o) PROVE Locking'
  BY <1>2 DEF Get, GetFails, Fatal, RUnlock
<1>3. ASSUME NEW o \in Ops, PutHealthy(o) \/ PutFatal(o) \/ Replace(o) PROVE Locking'
  BY <1>3 DEF PutHealthy, PutFatal, Replace
<1>4. ASSUME NEW k \in Closers, CallClose(k) \/ EnterOnce(k) \/ SkipOnce(k) \/ Unlock(k) PROVE Locking'
  <2>1. CASE Unlock(k)
    <3>1. \A j \in Closers : pc[j] \in Holding => j = k
      BY <2>1 DEF Unlock, Once, InOnce
    <3> QED
      BY <2>1, <3>1 DEF Unlock
  <2>2. CASE CallClose(k) \/ SkipOnce(k)
    BY <2>2 DEF CallClose, SkipOnce
  <2>3. CASE EnterOnce(k)
    <3>1. \A j \in Closers : pc[j] \notin Holding
      BY <2>3 DEF EnterOnce, Once, InOnce
    <3> QED
      BY <2>3, <3>1 DEF EnterOnce
  <2> QED
    BY <1>4, <2>1, <2>2, <2>3
<1>5. ASSUME NEW k \in Closers, Lock(k) \/ MarkClosed(k) \/ CloseSession(k) PROVE Locking'
  BY <1>5 DEF Lock, MarkClosed, CloseSession
<1>6. ASSUME NEW k \in Closers, ClosePool(k) \/ ClosePersistent(k) \/ DropModule(k) PROVE Locking'
  BY <1>6 DEF ClosePool, ClosePersistent, DropModule
<1>7. CASE UNCHANGED vars
  BY <1>7 DEF vars
<1> QED
  BY <1>1, <1>2, <1>3, <1>4, <1>5, <1>6, <1>7 DEF Next, OpSteps, CloseSteps

LEMMA NextOnce == IInv /\ [Next]_vars => Once'
<1> SUFFICES ASSUME IInv, [Next]_vars PROVE Once'
  OBVIOUS
<1> USE ContextAssumption DEF IInv, TypeOK, Once, InOnce, Goto, lockVars, tokenVars, poolVars
<1>1. ASSUME NEW o \in Ops, Begin(o) \/ OpSteps(o) PROVE Once'
  <2>1. once' = once /\ \A k \in Closers : pc'[k] = pc[k]
    BY <1>1 DEF OpSteps, Begin, RLock, Refuse, Proceed, Get, GetFails, Fatal, PutHealthy, PutFatal,
      Replace, RUnlock
  <2> QED
    BY <2>1
<1>2. ASSUME NEW k \in Closers, CallClose(k) \/ EnterOnce(k) \/ SkipOnce(k) \/ Lock(k) \/ Unlock(k)
      PROVE Once'
  BY <1>2 DEF CallClose, EnterOnce, SkipOnce, Lock, Unlock
<1>3. ASSUME NEW k \in Closers,
             MarkClosed(k) \/ CloseSession(k) \/ ClosePool(k) \/ ClosePersistent(k) \/ DropModule(k)
      PROVE Once'
  BY <1>3 DEF MarkClosed, CloseSession, ClosePool, ClosePersistent, DropModule
<1>4. CASE UNCHANGED vars
  BY <1>4 DEF vars
<1> QED
  BY <1>1, <1>2, <1>3, <1>4 DEF Next, CloseSteps

LEMMA NextProgress == IInv /\ [Next]_vars => Progress'
<1> SUFFICES ASSUME IInv, [Next]_vars PROVE Progress'
  OBVIOUS
<1> USE ContextAssumption DEF IInv, TypeOK, Progress, Goto, lockVars, tokenVars, poolVars
<1>1. ASSUME NEW o \in Ops, Begin(o) \/ RLock(o) \/ Refuse(o) \/ Proceed(o) \/ GetFails(o) \/ RUnlock(o)
      PROVE Progress'
  BY <1>1 DEF Begin, RLock, Refuse, Proceed, GetFails, RUnlock
<1>2. ASSUME NEW o \in Ops, Get(o) PROVE Progress'
  BY <1>2 DEF Get, Pool!ClaimIdle, Pool!ClaimNew
<1>3. ASSUME NEW o \in Ops, Fatal(o) \/ PutHealthy(o) PROVE Progress'
  BY <1>3 DEF Fatal, PutHealthy, Pool!Release
<1>4. ASSUME NEW o \in Ops, PutFatal(o) PROVE Progress'
  BY <1>4 DEF PutFatal, Pool!Discard
<1>5. ASSUME NEW o \in Ops, Replace(o) PROVE Progress'
  BY <1>5 DEF Replace, Pool!OpenIdle
<1>6. ASSUME NEW k \in Closers, CallClose(k) \/ SkipOnce(k) PROVE Progress'
  BY <1>6 DEF CallClose, SkipOnce
<1>7. ASSUME NEW k \in Closers, EnterOnce(k) PROVE Progress'
  BY <1>7 DEF EnterOnce, Once, InOnce
<1>8. ASSUME NEW k \in Closers, Lock(k) PROVE Progress'
  BY <1>8 DEF Lock
<1>9. ASSUME NEW k \in Closers, MarkClosed(k) PROVE Progress'
  <2>1. \A o \in Ops : pc[o] \in {"idle", "rlock", "check"}
    BY <1>9 DEF MarkClosed, Locking, InLock, Holding, OpLabels
  <2>2. \A j \in Closers : pc[j] \in InOnce => j = k
    BY <1>9 DEF MarkClosed, Once, InOnce
  <2> QED
    BY <1>9, <2>1, <2>2 DEF MarkClosed, Once, InOnce
<1>10. ASSUME NEW k \in Closers, CloseSession(k) \/ ClosePool(k) PROVE Progress'
  BY <1>10 DEF CloseSession, ClosePool, Pool!CloseIdle, Pool!Shut
<1>11. ASSUME NEW k \in Closers, ClosePersistent(k) \/ DropModule(k) PROVE Progress'
  <2>1. /\ \A j \in Closers : pc[j] \in InOnce => j = k
        /\ once = "running"
    BY <1>11 DEF ClosePersistent, DropModule, Once, InOnce
  <2>2. CASE ClosePersistent(k)
    BY <2>1, <2>2 DEF ClosePersistent, InOnce
  <2>3. CASE DropModule(k)
    BY <2>1, <2>3 DEF DropModule, InOnce
  <2> QED
    BY <1>11, <2>2, <2>3
<1>12. ASSUME NEW k \in Closers, Unlock(k) PROVE Progress'
  BY <1>12 DEF Unlock
<1>13. CASE UNCHANGED vars
  BY <1>13 DEF vars
<1> QED
  BY <1>1, <1>2, <1>3, <1>4, <1>5, <1>6, <1>7, <1>8, <1>9, <1>10, <1>11, <1>12, <1>13
  DEF Next, OpSteps, CloseSteps

----------------------------------------------------------------------------

\* The invariant holds in every state of every Context.
THEOREM Invariance == Spec => []IInv
<1>1. IInv /\ [Next]_vars => IInv'
  BY NextTypeOK, NextClaims, NextLocking, NextOnce, NextProgress DEF IInv
<1> QED
  BY InitIInv, <1>1, PTL DEF Spec

\* Every variable of the Context keeps its type.
THEOREM TypeCorrect == Spec => []TypeOK
<1>1. IInv => TypeOK
  BY DEF IInv
<1> QED
  BY Invariance, <1>1, PTL

\* Context.Close tears down neither the login nor the library under an
\* operation that has a session, however many operations and closers there are.
THEOREM Outlived == Spec => []SessionsOutlived
<1>1. IInv => SessionsOutlived
  BY DEF IInv, SessionsOutlived, Pool!Claimed, Claims, Progress
<1> QED
  BY Invariance, <1>1, PTL

\* When Context.Close closes the pool, no session is checked out of it.
THEOREM AllReturned == Spec => []NothingCheckedOut
<1>1. IInv => NothingCheckedOut
  BY DEF IInv, NothingCheckedOut, Claims, Progress
<1> QED
  BY Invariance, <1>1, PTL

\* A session that failed fatally is never there for another operation to draw.
THEOREM NoPoisonInPool == Spec => []PoisonedReplaced
<1>1. IInv => PoisonedReplaced
  BY ContextAssumption DEF IInv, TypeOK, PoisonedReplaced, Pool!Claimed, Claims
<1> QED
  BY Invariance, <1>1, PTL

\* Whoever returns from Context.Close finds the teardown complete, and done once.
THEOREM TornDown == Spec => TornDownOnce
<1>1. IInv /\ [Next]_vars =>
        [\A k \in Closers : pc[k] # "idle" /\ pc'[k] = "idle" =>
           (closed /\ shut /\ open = {} /\ ~persistent /\ module = 0)']_vars
  <2> SUFFICES ASSUME IInv, Next, NEW k \in Closers, pc[k] # "idle", pc'[k] = "idle"
               PROVE (closed /\ shut /\ open = {} /\ ~persistent /\ module = 0)'
    BY DEF vars
  <2> USE ContextAssumption DEF IInv, TypeOK, Goto, lockVars, tokenVars, poolVars
  <2>1. SkipOnce(k) \/ Unlock(k)
    <3>1. ASSUME NEW o \in Ops, Begin(o) \/ OpSteps(o) PROVE pc'[k] = pc[k]
      BY <3>1 DEF OpSteps, Begin, RLock, Refuse, Proceed, Get, GetFails, Fatal, PutHealthy,
        PutFatal, Replace, RUnlock
    <3>2. ASSUME NEW j \in Closers, CallClose(j) \/ CloseSteps(j) PROVE SkipOnce(k) \/ Unlock(k)
      BY <3>2 DEF CloseSteps, CallClose, EnterOnce, SkipOnce, Lock, MarkClosed, CloseSession,
        ClosePool, ClosePersistent, DropModule, Unlock
    <3> QED
      BY <3>1, <3>2 DEF Next
  <2> QED
    BY <2>1 DEF SkipOnce, Unlock, Progress
<1> QED
  BY Invariance, <1>1, PTL DEF Spec, TornDownOnce

----------------------------------------------------------------------------
(* After Close.                                                            *)

\* From the moment Context.Close has set closed, while it is still tearing the
\* Context down and ever after, no operation has a session, nor asks for one.
ClosedToAll == closed => \A o \in Ops : claimed[o] = None /\ pc[o] # "get"

\* The check of closed in getSession is as good at the call of the pool as when
\* it was made: a Close that comes between finds the lock taken.
THEOREM NoneAfterClose == Spec => []ClosedToAll
<1>1. IInv => ClosedToAll
  BY DEF IInv, ClosedToAll, Claims, Progress
<1> QED
  BY Invariance, <1>1, PTL

\* The reference to the library is given up once, after the last session of the
\* pool and the persistent one are closed, and once closed is set.
DropsLast ==
  module' # module =>
    /\ module = 1 /\ module' = 0
    /\ closed /\ shut /\ open = {} /\ ~persistent

\* Context.Close gives up the library only when it has nothing open left there,
\* and gives it up only once, however many callers race.
THEOREM LibraryDroppedLast == Spec => [][DropsLast]_vars
<1>1. IInv /\ [Next]_vars => [DropsLast]_vars
  <2> SUFFICES ASSUME IInv, Next, module' # module PROVE DropsLast
    BY DEF DropsLast
  <2>1. PICK k \in Closers : DropModule(k)
    <3>1. ASSUME NEW o \in Ops, Begin(o) \/ OpSteps(o) PROVE FALSE
      BY <3>1 DEF OpSteps, Begin, RLock, Refuse, Proceed, Get, GetFails, Fatal, PutHealthy,
        PutFatal, Replace, RUnlock, tokenVars
    <3>2. ASSUME NEW k \in Closers, CallClose(k) \/ CloseSteps(k) PROVE DropModule(k)
      BY <3>2 DEF CloseSteps, CallClose, EnterOnce, SkipOnce, Lock, MarkClosed, CloseSession,
        ClosePool, ClosePersistent, Unlock, tokenVars
    <3> QED
      BY <3>1, <3>2 DEF Next
  <2> QED
    BY <2>1 DEF DropsLast, DropModule, IInv, Progress
<1> QED
  BY Invariance, <1>1, PTL DEF Spec

----------------------------------------------------------------------------
(* The Context as a user of the pool.  Its steps are steps of SessionPool, *)
(* which ResourcePool implements, so what that promises is true here.      *)

LEMMA SameCount == Pool!Cardinality(open) = Cardinality(open)
BY DEF Pool!Cardinality, Cardinality

\* What a Context does to its pool is what SessionPool lets the pool's clients do:
\* nothing is released twice, nor discarded without having been claimed.
THEOREM PoolUsedAsPromised == Spec => Pool!Spec
<1>1. Init => Pool!Init
  BY DEF Init
<1>2. [Next]_vars => [Pool!Next]_(Pool!poolVars)
  <2> SUFFICES ASSUME [Next]_vars PROVE Pool!Next \/ UNCHANGED poolVars
    BY DEF poolVars, Pool!poolVars
  <2>1. ASSUME NEW o \in Ops,
               \/ Begin(o) \/ RLock(o) \/ Refuse(o) \/ Proceed(o) \/ GetFails(o)
               \/ Fatal(o) \/ RUnlock(o)
        PROVE UNCHANGED poolVars
    BY <2>1 DEF Begin, RLock, Refuse, Proceed, GetFails, Fatal, RUnlock
  <2>2. ASSUME NEW o \in Ops, Get(o) \/ PutHealthy(o) \/ PutFatal(o) PROVE Pool!Next
    BY <2>2 DEF Get, PutHealthy, PutFatal, Pool!Next
  <2>3. ASSUME NEW o \in Ops, Replace(o) PROVE Pool!Next \/ UNCHANGED poolVars
    BY <2>3 DEF Replace, Pool!Next
  <2>4. ASSUME NEW k \in Closers, CloseSession(k) \/ ClosePool(k) PROVE Pool!Next
    BY <2>4 DEF CloseSession, ClosePool, Pool!Next
  <2>5. ASSUME NEW k \in Closers,
               \/ CallClose(k) \/ EnterOnce(k) \/ SkipOnce(k) \/ Lock(k) \/ MarkClosed(k)
               \/ ClosePersistent(k) \/ DropModule(k) \/ Unlock(k)
        PROVE UNCHANGED poolVars
    BY <2>5 DEF CallClose, EnterOnce, SkipOnce, Lock, MarkClosed, ClosePersistent, DropModule, Unlock
  <2>6. CASE UNCHANGED vars
    BY <2>6 DEF vars
  <2> QED
    BY <2>1, <2>2, <2>3, <2>4, <2>5, <2>6 DEF Next, OpSteps, CloseSteps
<1> QED
  BY <1>1, <1>2, PTL DEF Spec, Pool!Spec

\* What the promise amounts to: what is claimed is open, by one client only, no
\* more than MaxCap sessions are open, and none when the pool is shut.
PoolKept ==
  /\ claimed \in [Ops -> Sessions \cup {None}]
  /\ open \subseteq Sessions
  /\ IsFiniteSet(open) /\ Cardinality(open) <= MaxCap
  /\ \A o \in Ops : claimed[o] # None => claimed[o] \in open
  /\ \A o, q \in Ops : claimed[o] = claimed[q] /\ claimed[o] # None => o = q
  /\ shut => open = {}

LEMMA InitKept == Pool!Init => PoolKept
BY ContextAssumption, FS_EmptySet DEF Pool!Init, PoolKept

LEMMA NextKept == PoolKept /\ [Pool!Next]_(Pool!poolVars) => PoolKept'
<1> SUFFICES ASSUME PoolKept, [Pool!Next]_(Pool!poolVars) PROVE PoolKept'
  OBVIOUS
<1> USE ContextAssumption DEF PoolKept
<1>1. ASSUME NEW s \in Sessions \ open, Pool!Cardinality(open) < MaxCap, open' = open \cup {s}
      PROVE  IsFiniteSet(open') /\ Cardinality(open') <= MaxCap
  <2>1. Cardinality(open) \in Nat
    BY FS_CardinalityType
  <2>2. IsFiniteSet(open \cup {s}) /\ Cardinality(open \cup {s}) = Cardinality(open) + 1
    BY FS_AddElement
  <2> QED
    BY <1>1, <2>1, <2>2, SameCount
<1>2. ASSUME NEW s \in open, open' = open \ {s}
      PROVE  IsFiniteSet(open') /\ Cardinality(open') <= MaxCap
  <2>1. Cardinality(open) \in Nat
    BY FS_CardinalityType
  <2>2. IsFiniteSet(open \ {s}) /\ Cardinality(open \ {s}) = Cardinality(open) - 1
    BY FS_RemoveElement
  <2> QED
    BY <1>2, <2>1, <2>2
<1>3. ASSUME NEW o \in Ops, Pool!ClaimIdle(o) PROVE PoolKept'
  <2>1. PICK s \in open \ Pool!Claimed : claimed' = [claimed EXCEPT ![o] = s]
    BY <1>3 DEF Pool!ClaimIdle
  <2>2. s \in Sessions /\ s # None /\ \A q \in Ops : claimed[q] # s
    BY <2>1 DEF Pool!Claimed
  <2>3. open' = open /\ shut' = shut
    BY <1>3 DEF Pool!ClaimIdle
  <2> QED
    BY <2>1, <2>2, <2>3
<1>4. ASSUME NEW o \in Ops, Pool!ClaimNew(o) PROVE PoolKept'
  <2>1. PICK s \in Sessions \ open :
          claimed' = [claimed EXCEPT ![o] = s] /\ open' = open \cup {s}
    BY <1>4 DEF Pool!ClaimNew
  <2>2. ~shut /\ shut' = shut /\ Pool!Cardinality(open) < MaxCap
    BY <1>4 DEF Pool!ClaimNew
  <2>3. IsFiniteSet(open') /\ Cardinality(open') <= MaxCap
    BY <1>1, <2>1, <2>2
  <2> QED
    BY <2>1, <2>2, <2>3
<1>5. ASSUME NEW o \in Ops, Pool!Release(o) PROVE PoolKept'
  BY <1>5 DEF Pool!Release
<1>6. ASSUME NEW o \in Ops, Pool!Discard(o) PROVE PoolKept'
  <2>1. /\ claimed[o] \in open /\ open' = open \ {claimed[o]}
        /\ claimed' = [claimed EXCEPT ![o] = None] /\ shut' = shut
    BY <1>6 DEF Pool!Discard
  <2>2. IsFiniteSet(open') /\ Cardinality(open') <= MaxCap
    BY <1>2, <2>1
  <2> QED
    BY <2>1, <2>2
<1>7. CASE Pool!OpenIdle
  <2>1. PICK s \in Sessions \ open : open' = open \cup {s}
    BY <1>7 DEF Pool!OpenIdle
  <2>2. ~shut /\ shut' = shut /\ claimed' = claimed /\ Pool!Cardinality(open) < MaxCap
    BY <1>7 DEF Pool!OpenIdle
  <2>3. IsFiniteSet(open') /\ Cardinality(open') <= MaxCap
    BY <1>1, <2>1, <2>2
  <2> QED
    BY <2>1, <2>2, <2>3
<1>8. CASE Pool!CloseIdle
  <2>1. PICK s \in open : open' = open \ {s} /\ \A q \in Ops : claimed[q] = None \/ claimed[q] # s
    BY <1>8 DEF Pool!CloseIdle, Pool!Claimed
  <2>2. shut' = shut /\ claimed' = claimed
    BY <1>8 DEF Pool!CloseIdle
  <2>3. IsFiniteSet(open') /\ Cardinality(open') <= MaxCap
    BY <1>2, <2>1
  <2> QED
    BY <2>1, <2>2, <2>3
<1>9. CASE Pool!Shut \/ UNCHANGED Pool!poolVars
  BY <1>9 DEF Pool!Shut, Pool!poolVars
<1> QED
  BY <1>3, <1>4, <1>5, <1>6, <1>7, <1>8, <1>9 DEF Pool!Next

\* The operations of a Context never share a session, never have one that is
\* closed, and never have more than MaxSessions open between them and the pool.
THEOREM SessionsWithinLimit == Spec => []PoolKept
<1>1. Pool!Spec => []PoolKept
  BY InitKept, NextKept, PTL DEF Pool!Spec
<1> QED
  BY PoolUsedAsPromised, <1>1, PTL

\* Nothing is opened, claimed or returned once the pool is shut.
THEOREM ShutForGood == Spec => [][shut => UNCHANGED poolVars]_vars
<1>1. PoolKept /\ [Pool!Next]_(Pool!poolVars) => [shut => UNCHANGED poolVars]_vars
  <2> SUFFICES ASSUME PoolKept, [Pool!Next]_(Pool!poolVars), shut PROVE UNCHANGED poolVars
    OBVIOUS
  <2> USE ContextAssumption DEF PoolKept, poolVars
  <2>1. open = {} /\ \A o \in Ops : claimed[o] = None
    OBVIOUS
  <2>2. ASSUME NEW o \in Ops,
               Pool!ClaimIdle(o) \/ Pool!ClaimNew(o) \/ Pool!Release(o) \/ Pool!Discard(o)
        PROVE FALSE
    BY <2>1, <2>2 DEF Pool!ClaimIdle, Pool!ClaimNew, Pool!Release, Pool!Discard
  <2>3. ~Pool!OpenIdle /\ ~Pool!CloseIdle
    BY <2>1 DEF Pool!OpenIdle, Pool!CloseIdle
  <2>4. CASE Pool!Shut \/ UNCHANGED Pool!poolVars
    BY <2>4 DEF Pool!Shut, Pool!poolVars
  <2> QED
    BY <2>2, <2>3, <2>4 DEF Pool!Next
<1> QED
  BY PoolUsedAsPromised, SessionsWithinLimit, <1>1, PTL DEF Pool!Spec
=============================================================================
