---------------------------- MODULE ResourcePool ----------------------------
(***************************************************************************)
(* The session pool of internal/pool/resource_pool.go, at the grain of its *)
(* channel operations and atomic counters.                                 *)
(*                                                                         *)
(* Clients call Get and Put, Closers call Close, Resizers call             *)
(* SetCapacity, and Housekeeper is the goroutine of the idle timer.  Each  *)
(* process has a program counter; a step between two values of it is one   *)
(* channel operation, one atomic counter update or one call of the         *)
(* factory or of Resource.Close, the points at which goroutines interleave.*)
(*                                                                         *)
(* A wrapper is represented by its resource: a member of Sessions, or      *)
(* Empty for a wrapper without one.  timeUsed is abstracted: any open      *)
(* session the housekeeper looks at may have expired.  The cumulative      *)
(* statistics (waitCount, waitTime, idleClosed, idleReused) are left out:  *)
(* nothing in the code reads them back.                                    *)
(***************************************************************************)
EXTENDS Integers, Sequences, FiniteSets, Counting

CONSTANTS
  Clients,      \* goroutines that Get and Put
  Closers,      \* goroutines that call Close
  Resizers,     \* goroutines that call SetCapacity
  Housekeeper,  \* the goroutine that runs closeIdleResources
  Sessions,     \* the session handles the token can give out
  Empty,        \* a wrapper with no resource
  Timed,        \* the clients whose context may expire
  MaxCap,       \* the size of the channel
  Targets,      \* the capacities the resizers ask for
  HasIdleTimer  \* whether idleTimeout is nonzero

Shrinkers == Closers \cup Resizers
Procs == Clients \cup Shrinkers \cup {Housekeeper}
Entries == Sessions \cup {Empty}

ASSUME ProcAssumption ==
  /\ Clients \cap Shrinkers = {}
  /\ Housekeeper \notin Clients \cup Shrinkers
  /\ Timed \subseteq Clients
  /\ IsFiniteSet(Clients) /\ IsFiniteSet(Shrinkers)

ASSUME PoolAssumption ==
  /\ MaxCap \in Nat \ {0}
  /\ Targets \subseteq 0..MaxCap
  /\ Empty \notin Sessions
  /\ IsFiniteSet(Sessions)
  /\ HasIdleTimer \in BOOLEAN

VARIABLES
  capacity,   \* rp.capacity
  resources,  \* the buffered channel rp.resources
  closed,     \* whether that channel is closed
  available, active, inUse,   \* the counters behind PoolStats
  running,    \* rp.idleTimer is running
  open,       \* the sessions open on the token
  pc,         \* where each process is
  wrapper,    \* the wrapper in each process's hand
  held,       \* takeIdle: empty wrappers passed over, to be put back
  left,       \* iterations left of the loop a shrinker or the housekeeper is in
  target,     \* SetCapacity's argument
  fault       \* the panic that ended the program

chanVars == <<resources, closed, fault>>
counters == <<available, active, inUse>>
loopVars == <<held, left, target>>
vars == <<capacity, chanVars, counters, running, open, pc, wrapper, loopVars>>

----------------------------------------------------------------------------
(* The Go primitives the pool is built from.                               *)

\* The goroutine p goes on at label.  None does once one of them has panicked.
Goto(p, label) ==
  /\ fault = "none"
  /\ pc' = [pc EXCEPT ![p] = label]

\* A receive completes when the channel has an entry, or is closed: then it
\* yields the zero wrapper.
CanReceive == resources # <<>> \/ closed
Received == IF resources = <<>> THEN Empty ELSE Head(resources)
Drained == IF resources = <<>> THEN resources ELSE Tail(resources)
Receive(p) ==
  /\ CanReceive
  /\ resources' = Drained
  /\ wrapper' = [wrapper EXCEPT ![p] = Received]
  /\ UNCHANGED <<closed, fault>>

\* A send to a closed channel panics; to a full one it blocks.
Send(e) ==
  /\ closed \/ Len(resources) < MaxCap
  /\ resources' = IF closed THEN resources ELSE Append(resources, e)
  /\ fault' = IF closed THEN "send on closed channel" ELSE fault
  /\ UNCHANGED closed

\* Put's select with a default: a send to a full channel panics too.
SendOrPanic(e) ==
  /\ resources' = IF closed \/ Len(resources) >= MaxCap THEN resources
                  ELSE Append(resources, e)
  /\ fault' = IF closed THEN "send on closed channel"
              ELSE IF Len(resources) >= MaxCap
              THEN "attempt to Put into a full ResourcePool" ELSE fault
  /\ UNCHANGED closed

----------------------------------------------------------------------------
(* NewResourcePool: capacity empty wrappers in a channel of size maxCap.   *)

Init ==
  /\ capacity \in 1..MaxCap
  /\ resources = [i \in 1..capacity |-> Empty]
  /\ closed = FALSE
  /\ available = capacity /\ active = 0 /\ inUse = 0
  /\ running = HasIdleTimer
  /\ open = {}
  /\ pc = [p \in Procs |-> "idle"]
  /\ wrapper = [p \in Procs |-> Empty]
  /\ held = [p \in Clients |-> 0]
  /\ left = [p \in Procs \ Clients |-> 0]
  /\ target = [p \in Shrinkers |-> 0]
  /\ fault = "none"

----------------------------------------------------------------------------
(* Get.                                                                    *)

StartGet(p) ==
  /\ pc[p] = "idle" /\ Goto(p, "fetch")
  /\ UNCHANGED <<capacity, chanVars, counters, running, open, wrapper, loopVars>>

\* The context expires, before the fetch or while it waits: ErrTimeout.
Expire(p) ==
  /\ p \in Timed
  /\ pc[p] = "fetch" /\ Goto(p, "idle")
  /\ UNCHANGED <<capacity, chanVars, counters, running, open, wrapper, loopVars>>

\* The channel is closed and drained: ErrClosed.
Refuse(p) ==
  /\ closed /\ resources = <<>>
  /\ pc[p] = "fetch" /\ Goto(p, "idle")
  /\ UNCHANGED <<capacity, chanVars, counters, running, open, wrapper, loopVars>>

\* Defect: get opens a session for any empty wrapper, without takeIdle.
FetchWithoutReuse(p) ==
  /\ resources # <<>>
  /\ Receive(p)
  /\ pc[p] = "fetch" /\ Goto(p, IF Received = Empty THEN "open" ELSE "claim")
  /\ UNCHANGED <<capacity, counters, running, open, loopVars>>

Fetch(p) ==
  /\ resources # <<>>
  /\ Receive(p)
  /\ pc[p] = "fetch" /\ Goto(p, IF Received = Empty THEN "scan" ELSE "claim")
  /\ UNCHANGED <<capacity, counters, running, open, loopVars>>

\* Where takeIdle leads once n empty wrappers remain to be put back and w is
\* the wrapper it returns.
AfterScan(n, w) ==
  IF n > 0 THEN "restore" ELSE IF w = Empty THEN "open" ELSE "claim"

\* takeIdle takes one more candidate.  When that is an open session, the
\* empty wrapper the scan began with joins those to be put back.
Scan(p) ==
  /\ pc[p] = "scan"
  /\ held[p] < MaxCap /\ resources # <<>>
  /\ Receive(p)
  /\ held' = [held EXCEPT ![p] = @ + 1]
  /\ Goto(p, IF Received = Empty THEN "scan" ELSE "restore")
  /\ UNCHANGED <<capacity, counters, running, open, left, target>>

\* takeIdle finds the channel empty (or has looked at MaxCap entries).
ScanEnds(p) ==
  /\ pc[p] = "scan"
  /\ held[p] = MaxCap \/ resources = <<>>
  /\ Goto(p, AfterScan(held[p], wrapper[p]))
  /\ UNCHANGED <<capacity, chanVars, counters, running, open, wrapper, loopVars>>

\* Defects: one empty wrapper too many is put back; the session found is.
RestoreOneMore(p) ==
  /\ pc[p] = "restore"
  /\ Send(Empty)
  /\ held' = [held EXCEPT ![p] = @ - 1]
  /\ Goto(p, AfterScan(held[p], wrapper[p]))
  /\ UNCHANGED <<capacity, counters, running, open, wrapper, left, target>>
RestoreFound(p) ==
  /\ pc[p] = "restore"
  /\ Send(wrapper[p])
  /\ held' = [held EXCEPT ![p] = @ - 1]
  /\ Goto(p, AfterScan(held[p] - 1, wrapper[p]))
  /\ UNCHANGED <<capacity, counters, running, open, wrapper, left, target>>

Restore(p) ==
  /\ pc[p] = "restore"
  /\ Send(Empty)
  /\ held' = [held EXCEPT ![p] = @ - 1]
  /\ Goto(p, AfterScan(held[p] - 1, wrapper[p]))
  /\ UNCHANGED <<capacity, counters, running, open, wrapper, left, target>>

\* The factory opens a session on the token ...
Open(p) ==
  /\ pc[p] = "open" /\ Goto(p, "opened")
  /\ \E s \in Sessions \ open :
       open' = open \cup {s} /\ wrapper' = [wrapper EXCEPT ![p] = s]
  /\ UNCHANGED <<capacity, chanVars, counters, running, loopVars>>

\* Defect: the error is returned and the empty wrapper is not given back.
OpenFailsForGood(p) ==
  /\ pc[p] = "open" /\ Goto(p, "idle")
  /\ UNCHANGED <<capacity, chanVars, counters, running, open, wrapper, loopVars>>

\* ... or fails, and get gives the empty wrapper back and returns the error.
OpenFails(p) ==
  /\ pc[p] = "open" /\ Goto(p, "refund")
  /\ UNCHANGED <<capacity, chanVars, counters, running, open, wrapper, loopVars>>

\* Defect: the error path returns before the wrapper is sent.
RefundNothing(p) ==
  /\ pc[p] = "refund" /\ Goto(p, "idle")
  /\ UNCHANGED <<capacity, chanVars, counters, running, open, wrapper, loopVars>>

Refund(p) ==
  /\ pc[p] = "refund" /\ Goto(p, "idle")
  /\ Send(Empty)
  /\ UNCHANGED <<capacity, counters, running, open, wrapper, loopVars>>

CountOpened(p) ==
  /\ pc[p] = "opened" /\ Goto(p, "claim")
  /\ active' = active + 1
  /\ UNCHANGED <<capacity, chanVars, available, inUse, running, open, wrapper, loopVars>>

CountTaken(p) ==
  /\ pc[p] = "claim" /\ Goto(p, "claimed")
  /\ available' = available - 1
  /\ UNCHANGED <<capacity, chanVars, active, inUse, running, open, wrapper, loopVars>>

CountInUse(p) ==
  /\ pc[p] = "claimed" /\ Goto(p, "using")
  /\ inUse' = inUse + 1
  /\ UNCHANGED <<capacity, chanVars, available, active, running, open, wrapper, loopVars>>

----------------------------------------------------------------------------
(* Put.                                                                    *)

\* Defect: Put(session) instead of Put(nil) for a session already closed.
DiscardAndPut(p) ==
  /\ pc[p] = "using" /\ Goto(p, "return")
  /\ open' = open \ {wrapper[p]}
  /\ UNCHANGED <<capacity, chanVars, counters, running, wrapper, loopVars>>

\* The client's session died: it closes it and calls Put(nil).
Discard(p) ==
  /\ pc[p] = "using" /\ Goto(p, "reopen")
  /\ open' = open \ {wrapper[p]}
  /\ wrapper' = [wrapper EXCEPT ![p] = Empty]
  /\ UNCHANGED <<capacity, chanVars, counters, running, loopVars>>

\* reopenResource, for Put(nil) and for closeIdleResources.
Reopen(p) ==
  /\ pc[p] = "reopen" /\ Goto(p, "return")
  /\ \E s \in Sessions \ open :
       open' = open \cup {s} /\ wrapper' = [wrapper EXCEPT ![p] = s]
  /\ UNCHANGED <<capacity, chanVars, counters, running, loopVars>>

\* Defect: a session that could not be replaced still counts as active.
ReopenFailsUncounted(p) ==
  /\ pc[p] = "reopen" /\ Goto(p, "return")
  /\ UNCHANGED <<capacity, chanVars, counters, running, open, wrapper, loopVars>>

ReopenFails(p) ==
  /\ pc[p] = "reopen" /\ Goto(p, "return")
  /\ active' = active - 1
  /\ UNCHANGED <<capacity, chanVars, available, inUse, running, open, wrapper, loopVars>>

\* Defect: a session is put back twice (a finaliser after a Close).
PutTwice(p) ==
  /\ pc[p] \in {"using", "return"}
  /\ Goto(p, IF pc[p] = "using" THEN "return" ELSE "returned")
  /\ SendOrPanic(wrapper[p])
  /\ wrapper' = [wrapper EXCEPT ![p] = Empty]
  /\ UNCHANGED <<capacity, counters, running, open, loopVars>>

Put(p) ==
  /\ pc[p] \in {"using", "return"} /\ Goto(p, "returned")
  /\ SendOrPanic(wrapper[p])
  /\ wrapper' = [wrapper EXCEPT ![p] = Empty]
  /\ UNCHANGED <<capacity, counters, running, open, loopVars>>

CountReturned(p) ==
  /\ pc[p] = "returned" /\ Goto(p, "released")
  /\ inUse' = inUse - 1
  /\ UNCHANGED <<capacity, chanVars, available, active, running, open, wrapper, loopVars>>

CountAvailable(p) ==
  /\ pc[p] = "released" /\ Goto(p, "idle")
  /\ available' = available + 1
  /\ UNCHANGED <<capacity, chanVars, active, inUse, running, open, wrapper, loopVars>>

----------------------------------------------------------------------------
(* closeIdleResources, run by the idle timer.                              *)

Sweeping(n) == IF n > 0 THEN "sweep" ELSE "idle"

\* The timer fires: the number of entries to look at is read once.
Tick ==
  /\ running
  /\ pc[Housekeeper] = "idle" /\ available > 0
  /\ left' = [left EXCEPT ![Housekeeper] = available]
  /\ Goto(Housekeeper, "sweep")
  /\ UNCHANGED <<capacity, chanVars, counters, running, open, wrapper, held, target>>

\* The receive does not look at the channel's ok flag.
Sweep ==
  /\ pc[Housekeeper] = "sweep"
  /\ Receive(Housekeeper)
  /\ left' = [left EXCEPT ![Housekeeper] = @ - 1]
  /\ Goto(Housekeeper, "inspect")
  /\ UNCHANGED <<capacity, counters, running, open, held, target>>

SweepEnds ==
  /\ pc[Housekeeper] = "sweep" /\ ~CanReceive
  /\ left' = [left EXCEPT ![Housekeeper] = 0]
  /\ Goto(Housekeeper, "idle")
  /\ UNCHANGED <<capacity, chanVars, counters, running, open, wrapper, held, target>>

\* The session has been idle for too long: it is closed and replaced.
CloseIdle ==
  /\ pc[Housekeeper] = "inspect" /\ wrapper[Housekeeper] # Empty
  /\ open' = open \ {wrapper[Housekeeper]}
  /\ wrapper' = [wrapper EXCEPT ![Housekeeper] = Empty]
  /\ Goto(Housekeeper, "reopen")
  /\ UNCHANGED <<capacity, chanVars, counters, running, loopVars>>

\* Defect: the housekeeper puts back only what it has a session for.
GiveBackSessions ==
  /\ pc[Housekeeper] \in {"inspect", "return"}
  /\ IF wrapper[Housekeeper] = Empty THEN UNCHANGED chanVars ELSE Send(wrapper[Housekeeper])
  /\ wrapper' = [wrapper EXCEPT ![Housekeeper] = Empty]
  /\ Goto(Housekeeper, Sweeping(left[Housekeeper]))
  /\ UNCHANGED <<capacity, counters, running, open, loopVars>>

\* The deferred send puts the entry, replaced or not, back.
GiveBack ==
  /\ pc[Housekeeper] \in {"inspect", "return"}
  /\ Send(wrapper[Housekeeper])
  /\ wrapper' = [wrapper EXCEPT ![Housekeeper] = Empty]
  /\ Goto(Housekeeper, Sweeping(left[Housekeeper]))
  /\ UNCHANGED <<capacity, counters, running, open, loopVars>>

----------------------------------------------------------------------------
(* Close and SetCapacity.                                                  *)

CallClose(k) ==
  /\ pc[k] = "idle" /\ Goto(k, "stop")
  /\ UNCHANGED <<capacity, chanVars, counters, running, open, wrapper, loopVars>>

\* Defect: Stop does not wait for the timer's goroutine.
StopTimerAtOnce(k) ==
  /\ pc[k] = "stop" /\ Goto(k, "resize")
  /\ running' = FALSE
  /\ target' = [target EXCEPT ![k] = 0]
  /\ UNCHANGED <<capacity, chanVars, counters, open, wrapper, held, left>>

\* Timer.Stop returns when the timer's goroutine has taken the stop message,
\* which it does between two calls of closeIdleResources.
StopTimer(k) ==
  /\ pc[k] = "stop" /\ Goto(k, "resize")
  /\ running => pc[Housekeeper] = "idle"
  /\ running' = FALSE
  /\ target' = [target EXCEPT ![k] = 0]
  /\ UNCHANGED <<capacity, chanVars, counters, open, wrapper, held, left>>

CallSetCapacity(k) ==
  /\ pc[k] = "idle" /\ Goto(k, "resize")
  /\ \E c \in Targets : target' = [target EXCEPT ![k] = c]
  /\ UNCHANGED <<capacity, chanVars, counters, running, open, wrapper, held, left>>

\* The capacity is zero (ErrClosed), or what it should be.
Unchanged(k) ==
  /\ pc[k] = "resize" /\ Goto(k, "idle")
  /\ capacity \in {0, target[k]}
  /\ UNCHANGED <<capacity, chanVars, counters, running, open, wrapper, loopVars>>

\* Defect: a shrink takes out the old capacity, not the difference.
SwapForAll(k) ==
  /\ pc[k] = "resize" /\ capacity \notin {0, target[k]}
  /\ capacity' = target[k]
  /\ left' = [left EXCEPT ![k] = capacity]
  /\ Goto(k, IF target[k] < capacity THEN "shrink" ELSE "grow")
  /\ UNCHANGED <<chanVars, counters, running, open, wrapper, held, target>>

\* The compare-and-swap that succeeds.  A failed one only goes round the loop.
Swap(k) ==
  /\ pc[k] = "resize" /\ capacity \notin {0, target[k]}
  /\ capacity' = target[k]
  /\ left' = [left EXCEPT ![k] = IF target[k] < capacity THEN capacity - target[k]
                                 ELSE target[k] - capacity]
  /\ Goto(k, IF target[k] < capacity THEN "shrink" ELSE "grow")
  /\ UNCHANGED <<chanVars, counters, running, open, wrapper, held, target>>

\* Defect: the session taken out of the channel is dropped, not closed.
ShrinkWithoutClose(k) ==
  /\ pc[k] = "shrink"
  /\ Receive(k)
  /\ left' = [left EXCEPT ![k] = @ - 1]
  /\ Goto(k, "shrunk")
  /\ UNCHANGED <<capacity, counters, running, open, held, target>>

Shrink(k) ==
  /\ pc[k] = "shrink"
  /\ Receive(k)
  /\ left' = [left EXCEPT ![k] = @ - 1]
  /\ Goto(k, IF Received = Empty THEN "shrunk" ELSE "retire")
  /\ UNCHANGED <<capacity, counters, running, open, held, target>>

\* Defect: the session is closed but stays counted as active.
RetireUncounted(k) ==
  /\ pc[k] = "retire" /\ Goto(k, "shrunk")
  /\ open' = open \ {wrapper[k]}
  /\ wrapper' = [wrapper EXCEPT ![k] = Empty]
  /\ UNCHANGED <<capacity, chanVars, counters, running, loopVars>>

Retire(k) ==
  /\ pc[k] = "retire" /\ Goto(k, "retired")
  /\ open' = open \ {wrapper[k]}
  /\ wrapper' = [wrapper EXCEPT ![k] = Empty]
  /\ UNCHANGED <<capacity, chanVars, counters, running, loopVars>>

CountRetired(k) ==
  /\ pc[k] = "retired" /\ Goto(k, "shrunk")
  /\ active' = active - 1
  /\ UNCHANGED <<capacity, chanVars, available, inUse, running, open, wrapper, loopVars>>

\* Defects: the loop ends one entry early, or one late.
CountShrunkEarly(k) ==
  /\ pc[k] = "shrunk"
  /\ available' = available - 1
  /\ Goto(k, IF left[k] > 1 THEN "shrink" ELSE IF target[k] = 0 THEN "close" ELSE "idle")
  /\ UNCHANGED <<capacity, chanVars, active, inUse, running, open, wrapper, loopVars>>
CountShrunkLate(k) ==
  /\ pc[k] = "shrunk"
  /\ available' = available - 1
  /\ Goto(k, IF left[k] >= 0 THEN "shrink" ELSE IF target[k] = 0 THEN "close" ELSE "idle")
  /\ UNCHANGED <<capacity, chanVars, active, inUse, running, open, wrapper, loopVars>>

CountShrunk(k) ==
  /\ pc[k] = "shrunk"
  /\ available' = available - 1
  /\ Goto(k, IF left[k] > 0 THEN "shrink" ELSE IF target[k] = 0 THEN "close" ELSE "idle")
  /\ UNCHANGED <<capacity, chanVars, active, inUse, running, open, wrapper, loopVars>>

CloseChannel(k) ==
  /\ pc[k] = "close" /\ Goto(k, "idle")
  /\ closed' = TRUE
  /\ UNCHANGED <<capacity, resources, fault, counters, running, open, wrapper, loopVars>>

Grow(k) ==
  /\ pc[k] = "grow" /\ Goto(k, "grown")
  /\ Send(Empty)
  /\ left' = [left EXCEPT ![k] = @ - 1]
  /\ UNCHANGED <<capacity, counters, running, open, wrapper, held, target>>

CountGrown(k) ==
  /\ pc[k] = "grown"
  /\ available' = available + 1
  /\ Goto(k, IF left[k] > 0 THEN "grow" ELSE "idle")
  /\ UNCHANGED <<capacity, chanVars, active, inUse, running, open, wrapper, loopVars>>

----------------------------------------------------------------------------
(* The steps of each goroutine once it has been called.                    *)

GetSteps(p) ==
  \/ Expire(p) \/ Refuse(p) \/ Fetch(p) \/ Scan(p) \/ ScanEnds(p) \/ Restore(p)
  \/ Open(p) \/ OpenFails(p) \/ Refund(p)
  \/ CountOpened(p) \/ CountTaken(p) \/ CountInUse(p)
PutSteps(p) == Discard(p) \/ Put(p) \/ CountReturned(p) \/ CountAvailable(p)
ReopenSteps(p) == Reopen(p) \/ ReopenFails(p)
ClientSteps(p) == GetSteps(p) \/ PutSteps(p) \/ ReopenSteps(p)
KeeperSteps == Sweep \/ SweepEnds \/ CloseIdle \/ GiveBack \/ ReopenSteps(Housekeeper)
ResizeSteps(k) ==
  \/ StopTimer(k) \/ Unchanged(k) \/ Swap(k)
  \/ Shrink(k) \/ Retire(k) \/ CountRetired(k) \/ CountShrunk(k) \/ CloseChannel(k)
  \/ Grow(k) \/ CountGrown(k)

Next ==
  \/ \E p \in Clients : StartGet(p) \/ ClientSteps(p)
  \/ Tick \/ KeeperSteps
  \/ \E k \in Shrinkers : ResizeSteps(k)
  \/ \E k \in Closers : CallClose(k)
  \/ \E k \in Resizers : CallSetCapacity(k)

Spec == Init /\ [][Next]_vars

\* The scheduler runs every goroutine that can run, and every Get is followed
\* by its Put.  Fairness is strong because a goroutine blocked on the channel
\* is served in FIFO order, before any that comes later, and because the
\* select of the timer's goroutine takes the stop message sooner or later.
\* Nobody is obliged to call Get, Close or SetCapacity, and no timer to fire.
Fairness ==
  /\ \A p \in Clients : SF_vars(ClientSteps(p))
  /\ SF_vars(KeeperSteps)
  /\ \A k \in Shrinkers : SF_vars(ResizeSteps(k))

FairSpec == Spec /\ Fairness

----------------------------------------------------------------------------
(* Type invariant.                                                         *)

ClientLabels == {"idle", "fetch", "scan", "restore", "open", "refund", "opened", "claim",
                 "claimed", "using", "reopen", "return", "returned", "released"}
KeeperLabels == {"idle", "sweep", "inspect", "reopen", "return"}
ShrinkerLabels == {"idle", "stop", "resize", "shrink", "retire", "retired", "shrunk",
                   "close", "grow", "grown"}

TypeOK ==
  /\ capacity \in 0..MaxCap
  /\ resources \in Seq(Entries)
  /\ closed \in BOOLEAN /\ running \in BOOLEAN
  /\ available \in Int /\ active \in Int /\ inUse \in Int
  /\ open \in SUBSET Sessions
  /\ pc \in [Procs -> ClientLabels \cup KeeperLabels \cup ShrinkerLabels]
  /\ \A p \in Clients : pc[p] \in ClientLabels
  /\ \A k \in Shrinkers : pc[k] \in ShrinkerLabels
  /\ pc[Housekeeper] \in KeeperLabels
  /\ wrapper \in [Procs -> Entries]
  /\ held \in [Clients -> Nat]
  /\ left \in [Procs \ Clients -> Nat]
  /\ target \in [Shrinkers -> 0..MaxCap]
  /\ fault \in {"none", "send on closed channel", "attempt to Put into a full ResourcePool"}

----------------------------------------------------------------------------
(* Safety.                                                                 *)

\* The entries a client or the housekeeper has taken and will put back.
Lent == {"scan", "restore", "open", "refund", "opened", "claim", "claimed", "using",
         "reopen", "return", "inspect"}
Loans == [p \in Clients \cup {Housekeeper} |->
            (IF pc[p] \in Lent THEN 1 ELSE 0) + (IF p \in Clients THEN held[p] ELSE 0)]
\* The entries SetCapacity has still to take out of the channel, or to add.
Shrinking == [k \in Shrinkers |-> IF pc[k] \in {"grow", "grown"} THEN 0 ELSE left[k]]
Growing == [k \in Shrinkers |-> IF pc[k] \in {"grow", "grown"} THEN left[k] ELSE 0]

\* Put never finds the channel full, and nothing is sent on a closed channel.
NoPanic == fault = "none"

\* Entries are neither lost nor invented while the pool is open: what is in the
\* channel, on loan or about to be added is the capacity, or what is left of a
\* larger one.  A session is put back as often as it is taken out.
Conservation ==
  ~closed /\ NoPanic =>
    Len(resources) + Total(Loans) + Total(Growing) = capacity + Total(Shrinking)

\* Every session open on the token is in exactly one place, a slot of the
\* channel or the hand of one goroutine, and nothing there has been closed.
\* Two operations never share a session, and no session is leaked.
Exclusive ==
  /\ \A i, j \in DOMAIN resources : resources[i] = resources[j] => i = j \/ resources[i] = Empty
  /\ \A p, q \in Procs : wrapper[p] = wrapper[q] => p = q \/ wrapper[p] = Empty
  /\ \A p \in Procs, i \in DOMAIN resources :
       wrapper[p] = resources[i] => wrapper[p] = Empty
  /\ open = ({resources[i] : i \in DOMAIN resources} \cup {wrapper[p] : p \in Procs}) \ {Empty}

\* Close (and SetCapacity(0)) closes the channel only when every entry is back
\* and every session of the pool has been closed on the token.
ClosedIsEmpty ==
  closed => /\ capacity = 0 /\ resources = <<>> /\ open = {}
            /\ \A p \in Clients \cup {Housekeeper} : pc[p] \notin Lent

\* There are never more sessions open than the capacity, once SetCapacity has
\* done what it set out to do.
WithinCapacity ==
  (\A k \in Shrinkers : pc[k] \notin {"shrink", "retire", "retired", "shrunk"})
    => Cardinality(open) <= capacity

\* takeIdle: the number of sessions open on the token follows the number of
\* operations in flight, not the number of requests served.  A session
\* SetCapacity is about to close does not count, and the housekeeper may keep
\* one more out of takeIdle's sight.
OpenTracksConcurrency ==
  Cardinality(open \ {wrapper[k] : k \in Shrinkers})
    <= Cardinality(Clients) + (IF HasIdleTimer THEN 1 ELSE 0)

\* The counters agree with the pool whenever no goroutine is between two
\* updates of them: so nothing they count drifts away over time.
CountersAgree ==
  (\A p \in Procs : pc[p] \in {"idle", "fetch", "using"}) =>
    /\ available = capacity - inUse
    /\ active = Cardinality(open)
    /\ inUse = Cardinality({p \in Clients : pc[p] = "using"})

----------------------------------------------------------------------------
(* What comments say and the code does not do.                              *)

\* Close "waits for all resources to be returned (Put)": not when a SetCapacity
\* is still waiting for its share of them.
CloseWaits == closed => \A p \in Clients : wrapper[p] = Empty

\* "attempt to Put into a full ResourcePool" is a misuse of Put: but with two
\* SetCapacity calls it is reached by clients that Put what they got, once.
PutHasRoom == fault # "attempt to Put into a full ResourcePool"

\* The fields of PoolStats are "individually accurate" in a snapshot taken at
\* any time: each is then at least within the range of what it counts.
SnapshotInRange == available \in 0..MaxCap /\ active \in 0..MaxCap /\ inUse \in 0..MaxCap

----------------------------------------------------------------------------
(* Liveness.                                                               *)

\* Every Get ends: with a session, or with an error that leaves the client
\* without one.
GetReturns == \A p \in Clients : pc[p] = "fetch" ~> pc[p] \in {"idle", "using"}

\* Close and SetCapacity return once enough sessions have been put back.
ResizeReturns == \A k \in Shrinkers : pc[k] \in {"stop", "resize"} ~> pc[k] = "idle"

----------------------------------------------------------------------------
(* What the pool promises its callers.                                     *)

Promise == INSTANCE SessionPool WITH
  None <- Empty, claimed <- [p \in Clients |-> wrapper[p]], shut <- closed

Refines == Promise!Spec
=============================================================================
