-------------------------- MODULE ContextSessions --------------------------
(***************************************************************************)
(* How a crypto11 Context shares its sessions among operations, and how it *)
(* is closed: sessions.go and Context.Close of crypto11.go, above a pool   *)
(* that keeps the promise of SessionPool.                                  *)
(*                                                                         *)
(* An operation is a call of withSession, or the life of a multi-part      *)
(* object (an HMAC, a block mode) from its getSession to its putSession.   *)
(* Goroutines run operations; where MayNest holds, one that has a session  *)
(* for a multi-part object may start another operation meanwhile.          *)
(***************************************************************************)
EXTENDS Integers, FiniteSets

CONSTANTS
  Ops,          \* operations
  Goroutines,
  Owner,        \* the goroutine that runs each operation
  Closers,      \* goroutines that call Context.Close
  MayNest,      \* whether a goroutine starts an operation during another
  HasWaitTimeout,  \* whether PoolWaitTimeout is positive
  Sessions, None, MaxCap

ASSUME ContextAssumption ==
  /\ Ops \cap Closers = {}
  /\ Owner \in [Ops -> Goroutines]
  /\ MayNest \in BOOLEAN /\ HasWaitTimeout \in BOOLEAN
  /\ None \notin Sessions
  /\ MaxCap \in Nat \ {0}

VARIABLES
  readers,     \* c.ops: the operations that hold it for reading
  writer,      \* c.ops: the closer's claim: "none", "waiting" or "held"
  once,        \* c.closeOnce: "new", "running" or "done"
  closed,      \* c.closed
  persistent,  \* the persistent session is open (and the token logged in)
  module,      \* the references this Context has to its loaded module
  poisoned,    \* the open sessions that have returned a fatal error
  pc,
  claimed, open, shut   \* the pool

poolVars == <<claimed, open, shut>>
tokenVars == <<persistent, module>>
lockVars == <<readers, writer>>
vars == <<lockVars, once, closed, tokenVars, poisoned, pc, poolVars>>

Pool == INSTANCE SessionPool WITH Clients <- Ops

Goto(p, label) == pc' = [pc EXCEPT ![p] = label]

\* Configure has succeeded: the library is loaded, the token logged in.
Init ==
  /\ readers = {} /\ writer = "none"
  /\ once = "new" /\ closed = FALSE
  /\ persistent = TRUE /\ module = 1
  /\ poisoned = {}
  /\ pc = [p \in Ops \cup Closers |-> "idle"]
  /\ Pool!Init

----------------------------------------------------------------------------
(* getSession.                                                             *)

\* The goroutine of o is not inside the library for another operation.
Free(o) ==
  \A q \in Ops \ {o} : Owner[q] = Owner[o] =>
    pc[q] = "idle" \/ (MayNest /\ pc[q] = "using")

Begin(o) ==
  /\ pc[o] = "idle" /\ Free(o) /\ Goto(o, "rlock")
  /\ UNCHANGED <<lockVars, once, closed, tokenVars, poisoned, poolVars>>

\* A sync.RWMutex that a writer waits for admits no new reader.
RLock(o) ==
  /\ pc[o] = "rlock" /\ Goto(o, "check")
  /\ writer = "none"
  /\ readers' = readers \cup {o}
  /\ UNCHANGED <<writer, once, closed, tokenVars, poisoned, poolVars>>

Refuse(o) ==
  /\ pc[o] = "check" /\ closed /\ Goto(o, "idle")
  /\ readers' = readers \ {o}
  /\ UNCHANGED <<writer, once, closed, tokenVars, poisoned, poolVars>>

Proceed(o) ==
  /\ pc[o] = "check" /\ ~closed /\ Goto(o, "get")
  /\ UNCHANGED <<lockVars, once, closed, tokenVars, poisoned, poolVars>>

\* Defect: a deferred RUnlock gives up the lock when getSession returns.
GetAndUnlock(o) ==
  /\ pc[o] = "get" /\ Goto(o, "using")
  /\ Pool!ClaimIdle(o) \/ Pool!ClaimNew(o)
  /\ readers' = readers \ {o}
  /\ UNCHANGED <<writer, once, closed, tokenVars, poisoned>>

Get(o) ==
  /\ pc[o] = "get" /\ Goto(o, "using")
  /\ Pool!ClaimIdle(o) \/ Pool!ClaimNew(o)
  /\ UNCHANGED <<lockVars, once, closed, tokenVars, poisoned>>

\* Defects: the error path keeps the lock, or the error is ignored.
GetFailsLocked(o) ==
  /\ pc[o] = "get" /\ Goto(o, "idle")
  /\ HasWaitTimeout \/ shut \/ Cardinality(open) < MaxCap
  /\ UNCHANGED <<lockVars, once, closed, tokenVars, poisoned, poolVars>>
GetFailsUnnoticed(o) ==
  /\ pc[o] = "get" /\ Goto(o, "using")
  /\ HasWaitTimeout \/ shut \/ Cardinality(open) < MaxCap
  /\ UNCHANGED <<lockVars, once, closed, tokenVars, poisoned, poolVars>>

\* The wait for a session times out, the pool has an entry without a session
\* and C_OpenSession fails, or the pool is closed.
GetFails(o) ==
  /\ pc[o] = "get" /\ Goto(o, "idle")
  /\ HasWaitTimeout \/ shut \/ Cardinality(open) < MaxCap
  /\ readers' = readers \ {o}
  /\ UNCHANGED <<writer, once, closed, tokenVars, poisoned, poolVars>>

----------------------------------------------------------------------------
(* The operation and putSession.                                           *)

\* A call on the session returns one of the errors of sessionFatal.
Fatal(o) ==
  /\ pc[o] = "using" /\ Free(o) /\ Goto(o, "failed")
  /\ poisoned' = poisoned \cup {claimed[o]}
  /\ UNCHANGED <<lockVars, once, closed, tokenVars, poolVars>>

PutHealthy(o) ==
  /\ pc[o] = "using" /\ Free(o) /\ Goto(o, "runlock")
  /\ Pool!Release(o)
  /\ UNCHANGED <<lockVars, once, closed, tokenVars, poisoned>>

\* Defect: putSession does not look at the error.
PutFatalBack(o) ==
  /\ pc[o] = "failed" /\ Goto(o, "runlock")
  /\ Pool!Release(o)
  /\ UNCHANGED <<lockVars, once, closed, tokenVars, poisoned>>

\* session.Close; the token may give the handle out again.
PutFatal(o) ==
  /\ pc[o] = "failed" /\ Goto(o, "replace")
  /\ Pool!Discard(o)
  /\ poisoned' = poisoned \ {claimed[o]}
  /\ UNCHANGED <<lockVars, once, closed, tokenVars>>

\* Put(nil): the pool opens a session in place of the one discarded, if it can.
Replace(o) ==
  /\ pc[o] = "replace" /\ Goto(o, "runlock")
  /\ Pool!OpenIdle \/ UNCHANGED poolVars
  /\ UNCHANGED <<lockVars, once, closed, tokenVars, poisoned>>

RUnlock(o) ==
  /\ pc[o] = "runlock" /\ Goto(o, "idle")
  /\ readers' = readers \ {o}
  /\ UNCHANGED <<writer, once, closed, tokenVars, poisoned, poolVars>>

----------------------------------------------------------------------------
(* Close.                                                                  *)

CallClose(k) ==
  /\ pc[k] = "idle" /\ Goto(k, "once")
  /\ UNCHANGED <<lockVars, once, closed, tokenVars, poisoned, poolVars>>

\* Defect: the token is logged out before the lock is taken.
EnterOnceLoggingOut(k) ==
  /\ pc[k] = "once" /\ once = "new" /\ Goto(k, "lock")
  /\ once' = "running"
  /\ writer' = "waiting"
  /\ persistent' = FALSE
  /\ UNCHANGED <<readers, closed, module, poisoned, poolVars>>

\* closeOnce runs the teardown for its first caller; others wait for its end.
EnterOnce(k) ==
  /\ pc[k] = "once" /\ once = "new" /\ Goto(k, "lock")
  /\ once' = "running"
  /\ writer' = "waiting"
  /\ UNCHANGED <<readers, closed, tokenVars, poisoned, poolVars>>

\* Defect: a flag instead of a sync.Once, so the second caller does not wait.
SkipOnceAtOnce(k) ==
  /\ pc[k] = "once" /\ once # "new" /\ Goto(k, "idle")
  /\ UNCHANGED <<lockVars, once, closed, tokenVars, poisoned, poolVars>>

SkipOnce(k) ==
  /\ pc[k] = "once" /\ once = "done" /\ Goto(k, "idle")
  /\ UNCHANGED <<lockVars, once, closed, tokenVars, poisoned, poolVars>>

Lock(k) ==
  /\ pc[k] = "lock" /\ Goto(k, "mark")
  /\ readers = {}
  /\ writer' = "held"
  /\ UNCHANGED <<readers, once, closed, tokenVars, poisoned, poolVars>>

MarkClosed(k) ==
  /\ pc[k] = "mark" /\ Goto(k, "pool")
  /\ closed' = TRUE
  /\ UNCHANGED <<lockVars, once, tokenVars, poisoned, poolVars>>

\* pool.Close waits for each session to come back and closes it ...
CloseSession(k) ==
  /\ pc[k] = "pool"
  /\ Pool!CloseIdle
  /\ UNCHANGED <<lockVars, once, closed, tokenVars, poisoned, pc>>

\* ... and shuts the pool after the last one.
ClosePool(k) ==
  /\ pc[k] = "pool" /\ Goto(k, "logout")
  /\ Pool!Shut
  /\ UNCHANGED <<lockVars, once, closed, tokenVars, poisoned>>

ClosePersistent(k) ==
  /\ pc[k] = "logout" /\ Goto(k, "unload")
  /\ persistent' = FALSE
  /\ UNCHANGED <<lockVars, once, closed, module, poisoned, poolVars>>

DropModule(k) ==
  /\ pc[k] = "unload" /\ Goto(k, "unlock")
  /\ module' = module - 1
  /\ UNCHANGED <<lockVars, once, closed, persistent, poisoned, poolVars>>

\* Defect: no deferred Unlock.
UnlockNever(k) ==
  /\ pc[k] = "unlock" /\ Goto(k, "idle")
  /\ once' = "done"
  /\ UNCHANGED <<lockVars, closed, tokenVars, poisoned, poolVars>>

Unlock(k) ==
  /\ pc[k] = "unlock" /\ Goto(k, "idle")
  /\ writer' = "none"
  /\ once' = "done"
  /\ UNCHANGED <<readers, closed, tokenVars, poisoned, poolVars>>

----------------------------------------------------------------------------

OpSteps(o) ==
  \/ RLock(o) \/ Refuse(o) \/ Proceed(o) \/ Get(o) \/ GetFails(o)
  \/ Fatal(o) \/ PutHealthy(o) \/ PutFatal(o) \/ Replace(o) \/ RUnlock(o)
CloseSteps(k) ==
  \/ EnterOnce(k) \/ SkipOnce(k) \/ Lock(k) \/ MarkClosed(k)
  \/ CloseSession(k) \/ ClosePool(k) \/ ClosePersistent(k) \/ DropModule(k) \/ Unlock(k)

Next ==
  \/ \E o \in Ops : Begin(o) \/ OpSteps(o)
  \/ \E k \in Closers : CallClose(k) \/ CloseSteps(k)

Spec == Init /\ [][Next]_vars

\* Every goroutine in the library that can run does, operations come to an
\* end, and the pool serves waiting goroutines in order.  Nobody has to begin.
FairSpec ==
  /\ Spec
  /\ \A o \in Ops : SF_vars(OpSteps(o))
  /\ \A k \in Closers : WF_vars(CloseSteps(k))

----------------------------------------------------------------------------
(* Type invariant.                                                         *)

OpLabels == {"idle", "rlock", "check", "get", "using", "failed", "replace", "runlock"}
CloserLabels == {"idle", "once", "lock", "mark", "pool", "logout", "unload", "unlock"}

TypeOK ==
  /\ readers \in SUBSET Ops
  /\ writer \in {"none", "waiting", "held"}
  /\ once \in {"new", "running", "done"}
  /\ closed \in BOOLEAN /\ persistent \in BOOLEAN /\ shut \in BOOLEAN
  /\ module \in Int
  /\ poisoned \in SUBSET Sessions /\ open \in SUBSET Sessions
  /\ claimed \in [Ops -> Sessions \cup {None}]
  /\ pc \in [Ops \cup Closers -> OpLabels \cup CloserLabels]
  /\ \A o \in Ops : pc[o] \in OpLabels
  /\ \A k \in Closers : pc[k] \in CloserLabels

----------------------------------------------------------------------------
(* Safety.                                                                 *)

\* An operation has its session only while the token is logged in and the
\* library loaded: Close tears neither down under an operation in flight.
SessionsOutlived == Pool!Claimed # {} => persistent /\ module = 1

\* "Nothing is checked out any more, so this returns at once": pool.Close never
\* waits, and no operation is about to ask the pool it closes for a session.
NothingCheckedOut ==
  (\E k \in Closers : pc[k] = "pool") =>
    \A o \in Ops : claimed[o] = None /\ pc[o] # "get"

\* A session that failed fatally is never idle in the pool, where another
\* operation would draw it.
PoisonedReplaced == poisoned \subseteq Pool!Claimed

\* The teardown happens once, and whoever returns from Close, even a second
\* concurrent caller, finds it complete.
TornDownOnce ==
  [][\A k \in Closers : pc[k] # "idle" /\ pc'[k] = "idle" =>
       (closed /\ shut /\ open = {} /\ ~persistent /\ module = 0)']_vars

----------------------------------------------------------------------------
(* Liveness.                                                               *)

\* Close returns, once the operations in flight have finished.
CloseReturns == \A k \in Closers : pc[k] = "once" ~> pc[k] = "idle"

\* Every operation that asks for a session gets one or an error.
GetReturns == \A o \in Ops : pc[o] = "rlock" ~> pc[o] \in {"using", "idle"}
=============================================================================
