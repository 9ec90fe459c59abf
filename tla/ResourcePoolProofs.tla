------------------------- MODULE ResourcePoolProofs -------------------------
(***************************************************************************)
(* Proofs about ResourcePool, for any number of clients and closers, any   *)
(* capacity, with or without the idle timer.                               *)
(*                                                                         *)
(* Whoever calls SetCapacity: types, conservation of entries, that no two  *)
(* goroutines have the same session, and that the counters do not drift.   *)
(* When nobody calls it but Close, or one goroutine does both (Single):    *)
(* that nothing panics, Close leaves nothing behind, the sessions open     *)
(* follow the operations in flight, and the pool implements SessionPool.   *)
(***************************************************************************)
EXTENDS ResourcePool, CountingProofs, SequenceTheorems, TLAPS

----------------------------------------------------------------------------
(* Types.  A loop is entered only with an iteration left.                  *)

Loops ==
  /\ \A p \in Clients : pc[p] = "restore" => held[p] > 0
  /\ \A k \in Shrinkers : pc[k] \in {"shrink", "grow"} => left[k] > 0
  /\ pc[Housekeeper] = "sweep" => left[Housekeeper] > 0

Typed == TypeOK /\ Loops

\* The kinds of processes.
LEMMA ProcKinds ==
  /\ \A p \in Clients : p \in Procs /\ p \notin Shrinkers /\ p # Housekeeper
  /\ \A k \in Shrinkers : k \in Procs /\ k \in Procs \ Clients /\ k \notin Clients /\ k # Housekeeper
  /\ Housekeeper \in Procs /\ Housekeeper \in Procs \ Clients
BY ProcAssumption DEF Procs

\* The channel's operations keep its type, and its receiver's.
LEMMA ReceiveTypes ==
  ASSUME TypeOK, NEW p \in Procs, Receive(p)
  PROVE  /\ Received \in Entries
         /\ resources' \in Seq(Entries)
         /\ wrapper' \in [Procs -> Entries]
         /\ closed' = closed /\ fault' = fault
         /\ wrapper'[p] = Received
<1> USE DEF TypeOK, Entries
<1>1. Received \in Entries /\ Drained \in Seq(Entries)
  <2>1. CASE resources = <<>>
    BY <2>1 DEF Received, Drained
  <2>2. CASE resources # <<>>
    BY <2>2, HeadTailProperties DEF Received, Drained
  <2> QED
    BY <2>1, <2>2
<1> QED
  BY <1>1 DEF Receive

LEMMA SendTypes ==
  ASSUME TypeOK, NEW e \in Entries, Send(e) \/ SendOrPanic(e)
  PROVE  /\ resources' \in Seq(Entries)
         /\ closed' = closed
         /\ fault' \in {"none", "send on closed channel",
                        "attempt to Put into a full ResourcePool"}
<1>1. resources' \in Seq(Entries)
  <2>1. resources \in Seq(Entries)
    BY DEF TypeOK
  <2>2. Append(resources, e) \in Seq(Entries)
    BY <2>1, AppendProperties
  <2>3. resources' \in {resources, Append(resources, e)}
    BY DEF Send, SendOrPanic
  <2> QED
    BY <2>1, <2>2, <2>3
<1>2. closed' = closed
  BY DEF Send, SendOrPanic
<1>3. fault' \in {"none", "send on closed channel", "attempt to Put into a full ResourcePool"}
  <2>1. CASE Send(e)
    BY <2>1 DEF TypeOK, Send
  <2>2. CASE SendOrPanic(e)
    BY <2>2 DEF TypeOK, SendOrPanic
  <2> QED
    BY <2>1, <2>2
<1> QED
  BY <1>1, <1>2, <1>3

LEMMA InitTyped == Init => Typed
<1> SUFFICES ASSUME Init PROVE Typed
  OBVIOUS
<1> USE ProcAssumption, PoolAssumption DEF Init, Procs, Shrinkers
<1>1. resources \in Seq(Entries)
  <2>1. capacity \in Nat /\ resources \in [1..capacity -> Entries]
    BY DEF Entries
  <2> QED
    BY <2>1, SeqDef
<1>2. pc \in [Procs -> ClientLabels \cup KeeperLabels \cup ShrinkerLabels]
  BY DEF ClientLabels
<1>3. /\ \A p \in Clients : pc[p] \in ClientLabels
      /\ \A k \in Shrinkers : pc[k] \in ShrinkerLabels
      /\ pc[Housekeeper] \in KeeperLabels
  BY DEF ClientLabels, KeeperLabels, ShrinkerLabels
<1>4. /\ wrapper \in [Procs -> Entries]
      /\ held \in [Clients -> Nat]
      /\ left \in [Procs \ Clients -> Nat]
      /\ target \in [Shrinkers -> 0..MaxCap]
  BY DEF Entries
<1>5. /\ capacity \in 0..MaxCap
      /\ available \in Int /\ active \in Int /\ inUse \in Int
      /\ open \in SUBSET Sessions
      /\ fault = "none"
  OBVIOUS
<1>6. closed \in BOOLEAN /\ running \in BOOLEAN
  OBVIOUS
<1>7. Loops
  BY DEF Loops
<1> QED
  BY <1>1, <1>2, <1>3, <1>4, <1>5, <1>6, <1>7 DEF Typed, TypeOK

----------------------------------------------------------------------------
(* Who moves, and to where.                                                *)

LEMMA ClientMoves ==
  ASSUME NEW p \in Clients, StartGet(p) \/ ClientSteps(p)
  PROVE  \E l \in ClientLabels : Goto(p, l)
<1> USE DEF ClientLabels
<1>1. CASE StartGet(p) \/ Expire(p) \/ Refuse(p) \/ Fetch(p) \/ Open(p) \/ OpenFails(p) \/ Refund(p)
  BY <1>1 DEF StartGet, Expire, Refuse, Fetch, Open, OpenFails, Refund
<1>2. CASE Scan(p) \/ ScanEnds(p) \/ Restore(p)
  BY <1>2 DEF Scan, ScanEnds, Restore, AfterScan
<1>3. CASE CountOpened(p) \/ CountTaken(p) \/ CountInUse(p)
  BY <1>3 DEF CountOpened, CountTaken, CountInUse
<1>4. CASE PutSteps(p) \/ ReopenSteps(p)
  BY <1>4 DEF PutSteps, ReopenSteps, Discard, Put, CountReturned, CountAvailable, Reopen, ReopenFails
<1> QED
  BY <1>1, <1>2, <1>3, <1>4 DEF ClientSteps, GetSteps

LEMMA KeeperMoves ==
  ASSUME Tick \/ KeeperSteps
  PROVE  \E l \in KeeperLabels : Goto(Housekeeper, l)
BY DEF KeeperLabels, Tick, KeeperSteps, ReopenSteps, Reopen, ReopenFails, Sweep, SweepEnds,
  CloseIdle, GiveBack, Sweeping

LEMMA ShrinkerMoves ==
  ASSUME NEW k \in Shrinkers, ResizeSteps(k) \/ CallClose(k) \/ CallSetCapacity(k)
  PROVE  \E l \in ShrinkerLabels : Goto(k, l)
<1> USE DEF ShrinkerLabels
<1>1. CASE CallClose(k) \/ CallSetCapacity(k) \/ StopTimer(k) \/ Unchanged(k) \/ Swap(k)
  BY <1>1 DEF CallClose, CallSetCapacity, StopTimer, Unchanged, Swap
<1>2. CASE Shrink(k) \/ Retire(k) \/ CountRetired(k) \/ CountShrunk(k) \/ CloseChannel(k)
  BY <1>2 DEF Shrink, Retire, CountRetired, CountShrunk, CloseChannel
<1>3. CASE Grow(k) \/ CountGrown(k)
  BY <1>3 DEF Grow, CountGrown
<1> QED
  BY <1>1, <1>2, <1>3 DEF ResizeSteps

\* A step is one of a client, of the housekeeper or of a shrinker.
LEMMA StepKinds ==
  ASSUME Next
  PROVE  \/ \E p \in Clients : StartGet(p) \/ ClientSteps(p)
         \/ Tick \/ KeeperSteps
         \/ \E k \in Shrinkers : ResizeSteps(k) \/ CallClose(k) \/ CallSetCapacity(k)
BY DEF Next, Shrinkers

----------------------------------------------------------------------------
(* Type correctness, one group of variables at a time.                     *)

PcTyped ==
  /\ pc \in [Procs -> ClientLabels \cup KeeperLabels \cup ShrinkerLabels]
  /\ \A p \in Clients : pc[p] \in ClientLabels
  /\ \A k \in Shrinkers : pc[k] \in ShrinkerLabels
  /\ pc[Housekeeper] \in KeeperLabels

LEMMA NextPcTyped == TypeOK /\ [Next]_vars => PcTyped'
<1> SUFFICES ASSUME TypeOK, [Next]_vars PROVE PcTyped'
  OBVIOUS
<1> USE ProcKinds DEF TypeOK, PcTyped
<1>1. ASSUME NEW p \in Clients, NEW l \in ClientLabels, Goto(p, l) PROVE PcTyped'
  BY <1>1 DEF Goto
<1>2. ASSUME NEW l \in KeeperLabels, Goto(Housekeeper, l) PROVE PcTyped'
  BY <1>2 DEF Goto
<1>3. ASSUME NEW k \in Shrinkers, NEW l \in ShrinkerLabels, Goto(k, l) PROVE PcTyped'
  BY <1>3 DEF Goto
<1>4. CASE UNCHANGED vars
  BY <1>4 DEF vars
<1> QED
  BY <1>1, <1>2, <1>3, <1>4, StepKinds, ClientMoves, KeeperMoves, ShrinkerMoves

CountsTyped == available \in Int /\ active \in Int /\ inUse \in Int

LEMMA NextCountsTyped == TypeOK /\ [Next]_vars => CountsTyped'
<1> SUFFICES ASSUME CountsTyped, [Next]_vars PROVE CountsTyped'
  BY DEF TypeOK, CountsTyped
<1> USE DEF CountsTyped, counters
<1>1. ASSUME NEW p \in Clients, StartGet(p) \/ ClientSteps(p) PROVE CountsTyped'
  <2>1. CASE GetSteps(p) \/ StartGet(p)
    BY <2>1 DEF GetSteps, StartGet, Expire, Refuse, Fetch, Scan, ScanEnds, Restore, Open, OpenFails,
      Refund, CountOpened, CountTaken, CountInUse
  <2>2. CASE PutSteps(p) \/ ReopenSteps(p)
    BY <2>2 DEF PutSteps, ReopenSteps, Discard, Put, CountReturned, CountAvailable, Reopen, ReopenFails
  <2> QED
    BY <1>1, <2>1, <2>2 DEF ClientSteps
<1>2. CASE Tick \/ KeeperSteps
  BY <1>2 DEF Tick, KeeperSteps, ReopenSteps, Reopen, ReopenFails, Sweep, SweepEnds, CloseIdle, GiveBack
<1>3. ASSUME NEW k \in Shrinkers, ResizeSteps(k) \/ CallClose(k) \/ CallSetCapacity(k)
      PROVE CountsTyped'
  BY <1>3 DEF ResizeSteps, CallClose, CallSetCapacity, StopTimer, Unchanged, Swap, Shrink, Retire,
    CountRetired, CountShrunk, CloseChannel, Grow, CountGrown
<1>4. CASE UNCHANGED vars
  BY <1>4 DEF vars
<1> QED
  BY <1>1, <1>2, <1>3, <1>4, StepKinds

DataTyped ==
  /\ capacity \in 0..MaxCap
  /\ resources \in Seq(Entries)
  /\ closed \in BOOLEAN /\ running \in BOOLEAN
  /\ open \in SUBSET Sessions
  /\ wrapper \in [Procs -> Entries]
  /\ fault \in {"none", "send on closed channel", "attempt to Put into a full ResourcePool"}

LEMMA NextDataTyped == TypeOK /\ [Next]_vars => DataTyped'
<1> SUFFICES ASSUME TypeOK, [Next]_vars PROVE DataTyped'
  OBVIOUS
<1>0. DataTyped
  BY DEF TypeOK, DataTyped
<1> USE ProcKinds DEF DataTyped, chanVars
<1>1. ASSUME NEW p \in Procs, Receive(p), UNCHANGED <<capacity, running, open>>
      PROVE DataTyped'
  BY <1>0, <1>1, ReceiveTypes
<1>2. ASSUME NEW e \in Entries, Send(e) \/ SendOrPanic(e), UNCHANGED <<capacity, running, open>>,
             wrapper' \in [Procs -> Entries]
      PROVE DataTyped'
  BY <1>0, <1>2, SendTypes
<1>3. ASSUME NEW p \in Procs, Open(p) \/ Reopen(p) PROVE DataTyped'
  BY <1>0, <1>3 DEF Open, Reopen, Entries
<1>4. ASSUME NEW p \in Clients, StartGet(p) \/ GetSteps(p) PROVE DataTyped'
  <2>1. CASE StartGet(p) \/ Expire(p) \/ Refuse(p) \/ ScanEnds(p) \/ OpenFails(p)
             \/ CountOpened(p) \/ CountTaken(p) \/ CountInUse(p)
    BY <1>0, <2>1 DEF StartGet, Expire, Refuse, ScanEnds, OpenFails, CountOpened, CountTaken, CountInUse
  <2>2. CASE Fetch(p) \/ Scan(p)
    BY <1>1, <2>2 DEF Fetch, Scan
  <2>3. CASE Restore(p) \/ Refund(p)
    BY <1>0, <1>2, <2>3 DEF Restore, Refund, Entries
  <2> QED
    BY <1>3, <1>4, <2>1, <2>2, <2>3 DEF GetSteps
<1>5. ASSUME NEW p \in Clients, PutSteps(p) PROVE DataTyped'
  <2>1. CASE Discard(p)
    BY <1>0, <2>1 DEF Discard, Entries
  <2>2. CASE Put(p)
    BY <1>0, <1>2, <2>2 DEF Put, Entries
  <2>3. CASE CountReturned(p) \/ CountAvailable(p)
    BY <1>0, <2>3 DEF CountReturned, CountAvailable
  <2> QED
    BY <1>5, <2>1, <2>2, <2>3 DEF PutSteps
<1>6. ASSUME NEW p \in Procs, ReopenSteps(p) PROVE DataTyped'
  BY <1>0, <1>3, <1>6 DEF ReopenSteps, ReopenFails
<1>7. CASE Tick \/ Sweep \/ SweepEnds
  BY <1>0, <1>1, <1>7 DEF Tick, Sweep, SweepEnds
<1>8. CASE CloseIdle \/ GiveBack
  BY <1>0, <1>2, <1>8 DEF CloseIdle, GiveBack, Entries
<1>9. ASSUME NEW k \in Shrinkers, ResizeSteps(k) \/ CallClose(k) \/ CallSetCapacity(k)
      PROVE DataTyped'
  <2>1. CASE CallClose(k) \/ CallSetCapacity(k) \/ Unchanged(k) \/ CountRetired(k) \/ CountShrunk(k)
             \/ CountGrown(k)
    BY <1>0, <2>1 DEF CallClose, CallSetCapacity, Unchanged, CountRetired, CountShrunk, CountGrown
  <2>2. CASE StopTimer(k) \/ CloseChannel(k)
    BY <1>0, <2>2 DEF StopTimer, CloseChannel
  <2>3. CASE Swap(k)
    BY <1>0, <2>3 DEF Swap, TypeOK
  <2>4. CASE Shrink(k)
    BY <1>1, <2>4 DEF Shrink
  <2>5. CASE Retire(k)
    BY <1>0, <2>5 DEF Retire, Entries
  <2>6. CASE Grow(k)
    BY <1>0, <1>2, <2>6 DEF Grow, Entries
  <2> QED
    BY <1>9, <2>1, <2>2, <2>3, <2>4, <2>5, <2>6 DEF ResizeSteps
<1>10. CASE UNCHANGED vars
  BY <1>0, <1>10 DEF vars
<1> QED
  BY <1>4, <1>5, <1>6, <1>7, <1>8, <1>9, <1>10, StepKinds DEF ClientSteps, KeeperSteps

LoopsTyped ==
  /\ held \in [Clients -> Nat]
  /\ left \in [Procs \ Clients -> Nat]
  /\ target \in [Shrinkers -> 0..MaxCap]
  /\ Loops

LEMMA NextLoopsTyped == Typed /\ [Next]_vars => LoopsTyped'
<1> SUFFICES ASSUME Typed, [Next]_vars PROVE LoopsTyped'
  OBVIOUS
<1>0. /\ LoopsTyped /\ PcTyped
      /\ available \in Int /\ capacity \in 0..MaxCap
  BY DEF Typed, TypeOK, LoopsTyped, PcTyped
<1> USE ProcKinds DEF LoopsTyped, Loops, loopVars, PcTyped, Goto
<1>1. ASSUME NEW p \in Clients, NEW l \in ClientLabels, l # "restore", Goto(p, l),
             UNCHANGED loopVars
      PROVE LoopsTyped'
  BY <1>0, <1>1
<1>2. ASSUME NEW p \in Clients, StartGet(p) \/ GetSteps(p) PROVE LoopsTyped'
  <2>1. CASE StartGet(p) \/ Expire(p) \/ Refuse(p) \/ Fetch(p) \/ Open(p) \/ OpenFails(p)
    BY <1>1, <2>1 DEF StartGet, Expire, Refuse, Fetch, Open, OpenFails, ClientLabels
  <2>2. CASE Refund(p) \/ CountOpened(p) \/ CountTaken(p) \/ CountInUse(p)
    BY <1>1, <2>2 DEF Refund, CountOpened, CountTaken, CountInUse, ClientLabels
  <2>3. CASE Scan(p)
    BY <1>0, <2>3 DEF Scan
  <2>4. CASE ScanEnds(p)
    BY <1>0, <2>4 DEF ScanEnds, AfterScan
  <2>5. CASE Restore(p)
    BY <1>0, <2>5 DEF Restore, AfterScan
  <2> QED
    BY <1>2, <2>1, <2>2, <2>3, <2>4, <2>5 DEF GetSteps
<1>3. ASSUME NEW p \in Clients, PutSteps(p) \/ ReopenSteps(p) PROVE LoopsTyped'
  BY <1>1, <1>3 DEF PutSteps, ReopenSteps, Discard, Put, CountReturned, CountAvailable, Reopen,
    ReopenFails, ClientLabels
<1>4. CASE Tick \/ Sweep \/ SweepEnds
  BY <1>0, <1>4 DEF Tick, Sweep, SweepEnds
<1>5. CASE CloseIdle \/ GiveBack \/ ReopenSteps(Housekeeper)
  BY <1>0, <1>5 DEF CloseIdle, GiveBack, Sweeping, ReopenSteps, Reopen, ReopenFails
<1>6. ASSUME NEW k \in Shrinkers, NEW l \in ShrinkerLabels \ {"shrink", "grow"}, Goto(k, l),
             UNCHANGED loopVars
      PROVE LoopsTyped'
  BY <1>0, <1>6
<1>7. ASSUME NEW k \in Shrinkers, ResizeSteps(k) \/ CallClose(k) \/ CallSetCapacity(k)
      PROVE LoopsTyped'
  <2>1. CASE CallClose(k) \/ Unchanged(k) \/ Retire(k) \/ CountRetired(k) \/ CloseChannel(k)
    BY <1>6, <2>1 DEF CallClose, Unchanged, Retire, CountRetired, CloseChannel, ShrinkerLabels
  <2>2. CASE CallSetCapacity(k) \/ StopTimer(k)
    BY <1>0, <2>2, PoolAssumption DEF CallSetCapacity, StopTimer
  <2>3. CASE Swap(k)
    BY <1>0, <2>3, PoolAssumption DEF Swap
  <2>4. CASE Shrink(k)
    BY <1>0, <2>4 DEF Shrink
  <2>5. CASE CountShrunk(k)
    BY <1>0, <2>5 DEF CountShrunk
  <2>6. CASE Grow(k)
    BY <1>0, <2>6 DEF Grow
  <2>7. CASE CountGrown(k)
    BY <1>0, <2>7 DEF CountGrown
  <2> QED
    BY <1>7, <2>1, <2>2, <2>3, <2>4, <2>5, <2>6, <2>7 DEF ResizeSteps
<1>8. CASE UNCHANGED vars
  BY <1>0, <1>8 DEF vars
<1> QED
  BY <1>2, <1>3, <1>4, <1>5, <1>7, <1>8, StepKinds DEF ClientSteps, KeeperSteps

LEMMA NextTyped == Typed /\ [Next]_vars => Typed'
BY NextPcTyped, NextCountsTyped, NextDataTyped, NextLoopsTyped
DEF Typed, TypeOK, PcTyped, CountsTyped, DataTyped, LoopsTyped

\* The types are kept, and a loop is entered only with an iteration left.
THEOREM Typing == Spec => []Typed
BY InitTyped, NextTyped, PTL DEF Spec

\* Every variable of the pool keeps its type, whatever calls are made of it.
THEOREM TypeCorrect == Spec => []TypeOK
<1>1. Typed => TypeOK
  BY DEF Typed
<1> QED
  BY Typing, <1>1, PTL

----------------------------------------------------------------------------
(* Conservation.  A step of a client or of the housekeeper moves an entry  *)
(* between the channel and its loan; a step of SetCapacity moves one       *)
(* between the channel and what it still has to take or to add.            *)

Borrowers == Clients \cup {Housekeeper}

\* Outside its loops a shrinker has nothing left to do.
Rested == \A k \in Shrinkers : pc[k] \in {"idle", "stop", "resize", "close"} => left[k] = 0

AccountsTyped ==
  /\ Loans \in [Borrowers -> Nat]
  /\ Growing \in [Shrinkers -> Nat] /\ Shrinking \in [Shrinkers -> Nat]
  /\ Total(Loans) \in Nat /\ Total(Growing) \in Nat /\ Total(Shrinking) \in Nat
  /\ Len(resources) \in Nat

LEMMA FiniteKinds == IsFiniteSet(Borrowers) /\ IsFiniteSet(Shrinkers)
BY ProcAssumption, FS_AddElement DEF Borrowers

LEMMA Accounts == TypeOK => AccountsTyped
<1> SUFFICES ASSUME TypeOK PROVE AccountsTyped
  OBVIOUS
<1>1. Loans \in [Borrowers -> Nat]
  <2>1. \A p \in Clients : held[p] \in Nat
    BY DEF TypeOK
  <2> QED
    BY <2>1 DEF Loans, Borrowers
<1>2. Growing \in [Shrinkers -> Nat] /\ Shrinking \in [Shrinkers -> Nat]
  BY ProcKinds DEF TypeOK, Growing, Shrinking
<1>3. Len(resources) \in Nat
  BY LenProperties DEF TypeOK
<1> QED
  BY <1>1, <1>2, <1>3, FiniteKinds, TokensFinite DEF AccountsTyped

LEMMA AccountsAfter == TypeOK' => AccountsTyped'
BY Accounts, PTL

\* When only p's loan changes, the loans in total change by as much.
LEMMA LoansChange ==
  ASSUME TypeOK, TypeOK', NEW p \in Borrowers,
         \A q \in Borrowers \ {p} : Loans'[q] = Loans[q]
  PROVE  Total(Loans') - Loans'[p] = Total(Loans) - Loans[p]
<1> DEFINE f == Loans
           g == Loans'
<1>1. IsFiniteSet(Borrowers) /\ f \in [Borrowers -> Nat] /\ g \in [Borrowers -> Nat]
  BY FiniteKinds, Accounts, AccountsAfter DEF AccountsTyped
<1>2. \A q \in Borrowers \ {p} : g[q] = f[q]
  OBVIOUS
<1> HIDE DEF f, g
<1>3. Total(g) - g[p] = Total(f) - f[p]
  BY <1>1, <1>2, TotalChange
<1> QED
  BY <1>3 DEF f, g

LEMMA LeftChange ==
  ASSUME TypeOK, TypeOK', NEW k \in Shrinkers,
         \A j \in Shrinkers \ {k} : pc'[j] = pc[j] /\ left'[j] = left[j]
  PROVE  /\ Total(Growing') - Growing'[k] = Total(Growing) - Growing[k]
         /\ Total(Shrinking') - Shrinking'[k] = Total(Shrinking) - Shrinking[k]
<1> DEFINE f == Growing
           g == Growing'
           h == Shrinking
           i == Shrinking'
<1>1. /\ IsFiniteSet(Shrinkers) /\ f \in [Shrinkers -> Nat] /\ g \in [Shrinkers -> Nat]
      /\ h \in [Shrinkers -> Nat] /\ i \in [Shrinkers -> Nat]
  BY FiniteKinds, Accounts, AccountsAfter DEF AccountsTyped
<1>2. \A j \in Shrinkers \ {k} : g[j] = f[j] /\ i[j] = h[j]
  BY DEF Growing, Shrinking
<1> HIDE DEF f, g, h, i
<1>3. Total(g) - g[k] = Total(f) - f[k] /\ Total(i) - i[k] = Total(h) - h[k]
  BY <1>1, <1>2, TotalChange
<1> QED
  BY <1>3 DEF f, g, h, i

\* While the channel is open, a receive takes one entry from it and a send
\* that does not panic adds one.
LEMMA ReceiveLength ==
  ASSUME TypeOK, NEW p \in Procs, Receive(p), ~closed
  PROVE  Len(resources') = Len(resources) - 1
BY HeadTailProperties DEF TypeOK, Receive, CanReceive, Drained

LEMMA SendLength ==
  ASSUME TypeOK, NEW e \in Entries, Send(e) \/ SendOrPanic(e), ~closed, fault' = "none"
  PROVE  Len(resources') = Len(resources) + 1
<1>1. resources' = Append(resources, e)
  BY DEF Send, SendOrPanic
<1> QED
  BY <1>1, AppendProperties DEF TypeOK

\* What a client has in hand or owes goes to the channel or comes from there.
LEMMA ClientBalance ==
  ASSUME Typed, NEW p \in Clients, StartGet(p) \/ ClientSteps(p), ~closed', fault' = "none"
  PROVE  Len(resources') + Loans'[p] = Len(resources) + Loans[p]
<1> USE DEF Typed, Goto, Lent, loopVars, chanVars
<1>0. /\ p \in Procs /\ p \in Clients \cup {Housekeeper}
      /\ pc \in [Procs -> ClientLabels \cup KeeperLabels \cup ShrinkerLabels]
      /\ held \in [Clients -> Nat]
      /\ Len(resources) \in Nat
      /\ Empty \in Entries /\ wrapper[p] \in Entries
  BY ProcKinds, Accounts DEF TypeOK, Entries, AccountsTyped
<1> DEFINE loan == (IF pc[p] \in Lent THEN 1 ELSE 0) + held[p]
           owed == (IF pc'[p] \in Lent THEN 1 ELSE 0) + held'[p]
<1>1. Loans[p] = loan /\ Loans'[p] = owed
  BY <1>0 DEF Loans
<1>2. CASE StartGet(p) \/ Expire(p) \/ Refuse(p)
  BY <1>0, <1>1, <1>2 DEF StartGet, Expire, Refuse
<1>3. CASE Fetch(p)
  <2>1. Len(resources') = Len(resources) - 1
    BY <1>0, <1>3, ReceiveLength DEF Fetch, Receive
  <2> QED
    BY <1>0, <1>1, <1>3, <2>1 DEF Fetch
<1>4. CASE Scan(p)
  <2>1. Len(resources') = Len(resources) - 1
    BY <1>0, <1>4, ReceiveLength DEF Scan, Receive
  <2> QED
    BY <1>0, <1>1, <1>4, <2>1 DEF Scan
<1>5. CASE ScanEnds(p)
  BY <1>0, <1>1, <1>5 DEF ScanEnds, AfterScan
<1>6. CASE Restore(p)
  <2>1. Len(resources') = Len(resources) + 1
    BY <1>0, <1>6, SendLength DEF Restore, Send
  <2> QED
    BY <1>0, <1>1, <1>6, <2>1 DEF Restore, AfterScan
<1>7. CASE Open(p) \/ OpenFails(p) \/ CountOpened(p) \/ CountTaken(p) \/ CountInUse(p)
  BY <1>0, <1>1, <1>7 DEF Open, OpenFails, CountOpened, CountTaken, CountInUse
<1>8. CASE Refund(p)
  <2>1. Len(resources') = Len(resources) + 1
    BY <1>0, <1>8, SendLength DEF Refund, Send
  <2> QED
    BY <1>0, <1>1, <1>8, <2>1 DEF Refund
<1>9. CASE Discard(p) \/ ReopenSteps(p) \/ CountReturned(p) \/ CountAvailable(p)
  BY <1>0, <1>1, <1>9 DEF Discard, ReopenSteps, Reopen, ReopenFails, CountReturned, CountAvailable
<1>10. CASE Put(p)
  <2>1. Len(resources') = Len(resources) + 1
    BY <1>0, <1>10, SendLength DEF Put, SendOrPanic
  <2>2. pc[p] \in {"using", "return"} /\ pc'[p] = "returned" /\ held' = held
    BY <1>0, <1>10 DEF Put
  <2> QED
    BY <1>0, <1>1, <2>1, <2>2
<1> QED
  BY <1>2, <1>3, <1>4, <1>5, <1>6, <1>7, <1>8, <1>9, <1>10 DEF ClientSteps, GetSteps, PutSteps

\* So does what the housekeeper has in hand.
LEMMA KeeperBalance ==
  ASSUME Typed, Tick \/ KeeperSteps, ~closed', fault' = "none"
  PROVE  Len(resources') + Loans'[Housekeeper] = Len(resources) + Loans[Housekeeper]
<1> USE DEF Typed, Goto, Lent, loopVars, chanVars
<1>0. /\ Housekeeper \in Procs /\ Housekeeper \in Clients \cup {Housekeeper}
      /\ Housekeeper \notin Clients
      /\ pc \in [Procs -> ClientLabels \cup KeeperLabels \cup ShrinkerLabels]
      /\ Len(resources) \in Nat
      /\ wrapper[Housekeeper] \in Entries
  BY ProcKinds, Accounts DEF TypeOK, AccountsTyped
<1>1. /\ Loans[Housekeeper] = IF pc[Housekeeper] \in Lent THEN 1 ELSE 0
      /\ Loans'[Housekeeper] = IF pc'[Housekeeper] \in Lent THEN 1 ELSE 0
  BY <1>0 DEF Loans
<1>2. CASE Tick \/ SweepEnds \/ CloseIdle \/ ReopenSteps(Housekeeper)
  BY <1>0, <1>1, <1>2 DEF Tick, SweepEnds, CloseIdle, ReopenSteps, Reopen, ReopenFails
<1>3. CASE Sweep
  <2>1. Len(resources') = Len(resources) - 1
    BY <1>0, <1>3, ReceiveLength DEF Sweep, Receive
  <2> QED
    BY <1>0, <1>1, <1>3, <2>1 DEF Sweep
<1>4. CASE GiveBack
  <2>1. Len(resources') = Len(resources) + 1
    BY <1>0, <1>4, SendLength DEF GiveBack, Send
  <2> QED
    BY <1>0, <1>1, <1>4, <2>1 DEF GiveBack, Sweeping
<1> QED
  BY <1>2, <1>3, <1>4 DEF KeeperSteps

\* And what SetCapacity takes or adds is what it has undertaken to.
LEMMA ShrinkerBalance ==
  ASSUME Typed, Rested, NEW k \in Shrinkers, ResizeSteps(k) \/ CallClose(k) \/ CallSetCapacity(k),
         ~closed', fault' = "none"
  PROVE  Len(resources') + Growing'[k] - (capacity' + Shrinking'[k])
           = Len(resources) + Growing[k] - (capacity + Shrinking[k])
<1> USE DEF Typed, Goto, loopVars, chanVars
<1>0. /\ k \in Procs /\ k \in Procs \ Clients
      /\ pc \in [Procs -> ClientLabels \cup KeeperLabels \cup ShrinkerLabels]
      /\ left \in [Procs \ Clients -> Nat]
      /\ target \in [Shrinkers -> 0..MaxCap] /\ capacity \in 0..MaxCap /\ MaxCap \in Nat
      /\ Len(resources) \in Nat
      /\ Empty \in Entries
  BY ProcKinds, Accounts, PoolAssumption DEF TypeOK, AccountsTyped, Entries
<1>1. /\ Growing[k] = IF pc[k] \in {"grow", "grown"} THEN left[k] ELSE 0
      /\ Growing'[k] = IF pc'[k] \in {"grow", "grown"} THEN left'[k] ELSE 0
      /\ Shrinking[k] = IF pc[k] \in {"grow", "grown"} THEN 0 ELSE left[k]
      /\ Shrinking'[k] = IF pc'[k] \in {"grow", "grown"} THEN 0 ELSE left'[k]
  BY DEF Growing, Shrinking
<1>2. CASE CallClose(k) \/ CallSetCapacity(k) \/ StopTimer(k) \/ Unchanged(k)
  BY <1>0, <1>1, <1>2 DEF CallClose, CallSetCapacity, StopTimer, Unchanged
<1>3. CASE Swap(k)
  <2>1. left[k] = 0
    BY <1>3 DEF Swap, Rested
  <2> QED
    BY <1>0, <1>1, <1>3, <2>1 DEF Swap
<1>4. CASE Shrink(k)
  <2>1. Len(resources') = Len(resources) - 1
    BY <1>0, <1>4, ReceiveLength DEF Shrink, Receive
  <2>2. pc'[k] \in {"shrunk", "retire"} /\ left'[k] = left[k] - 1 /\ capacity' = capacity
    BY <1>0, <1>4 DEF Shrink
  <2> QED
    BY <1>0, <1>1, <1>4, <2>1, <2>2 DEF Shrink
<1>5. CASE Retire(k) \/ CountRetired(k) \/ CountShrunk(k)
  BY <1>0, <1>1, <1>5 DEF Retire, CountRetired, CountShrunk
<1>6. CASE CloseChannel(k)
  BY <1>6 DEF CloseChannel
<1>7. CASE Grow(k)
  <2>1. Len(resources') = Len(resources) + 1
    BY <1>0, <1>7, SendLength DEF Grow, Send
  <2>2. pc[k] = "grow" /\ pc'[k] = "grown" /\ left'[k] = left[k] - 1 /\ capacity' = capacity
    BY <1>0, <1>7 DEF Grow
  <2>3. Growing[k] = left[k] /\ Growing'[k] = left[k] - 1 /\ Shrinking[k] = 0 /\ Shrinking'[k] = 0
    BY <1>1, <2>2
  <2> DEFINE r == Len(resources) rr == Len(resources')
             c == capacity       cc == capacity'
             n == left[k]
             m == Growing[k]     mm == Growing'[k]
             i == Shrinking[k]   ii == Shrinking'[k]
  <2>4. r \in Nat /\ c \in Nat /\ n \in Nat
    BY <1>0
  <2>5. rr = r + 1 /\ cc = c /\ m = n /\ mm = n - 1 /\ i = 0 /\ ii = 0
    BY <2>1, <2>2, <2>3
  <2> HIDE DEF r, rr, c, cc, n, m, mm, i, ii
  <2>6. rr + mm - (cc + ii) = r + m - (c + i)
    BY <2>4, <2>5
  <2> QED
    BY <2>6 DEF r, rr, c, cc, m, mm, i, ii
<1>8. CASE CountGrown(k)
  BY <1>0, <1>1, <1>8 DEF CountGrown
<1> QED
  BY <1>2, <1>3, <1>4, <1>5, <1>6, <1>7, <1>8 DEF ResizeSteps

\* What the steps of one kind of process leave alone.
LEMMA ClientFrame ==
  ASSUME TypeOK, NEW p \in Clients, StartGet(p) \/ ClientSteps(p)
  PROVE  /\ \A q \in Procs \ {p} : pc'[q] = pc[q]
         /\ \A q \in Clients \ {p} : held'[q] = held[q]
         /\ UNCHANGED <<left, target, capacity, closed, running>>
<1>1. \A q \in Procs \ {p} : pc'[q] = pc[q]
  BY ClientMoves DEF Goto, TypeOK
<1> USE DEF chanVars, loopVars
<1>2. CASE StartGet(p) \/ GetSteps(p)
  BY <1>1, <1>2 DEF GetSteps, StartGet, Expire, Refuse, Fetch, Scan, ScanEnds, Restore, Open,
    OpenFails, Refund, CountOpened, CountTaken, CountInUse, Receive, Send, TypeOK
<1>3. CASE PutSteps(p) \/ ReopenSteps(p)
  BY <1>1, <1>3 DEF PutSteps, ReopenSteps, Discard, Put, CountReturned, CountAvailable, Reopen,
    ReopenFails, SendOrPanic
<1> QED
  BY <1>2, <1>3 DEF ClientSteps

LEMMA KeeperFrame ==
  ASSUME TypeOK, Tick \/ KeeperSteps
  PROVE  /\ \A q \in Procs \ {Housekeeper} : pc'[q] = pc[q]
         /\ \A k \in Shrinkers : left'[k] = left[k]
         /\ UNCHANGED <<held, target, capacity, closed, running>>
<1>1. \A q \in Procs \ {Housekeeper} : pc'[q] = pc[q]
  BY KeeperMoves DEF Goto, TypeOK
<1> USE DEF chanVars, loopVars
<1>2. CASE Tick \/ Sweep \/ SweepEnds
  BY <1>1, <1>2, ProcKinds DEF Tick, Sweep, SweepEnds, Receive, TypeOK
<1>3. CASE CloseIdle \/ GiveBack \/ ReopenSteps(Housekeeper)
  BY <1>1, <1>3 DEF CloseIdle, GiveBack, ReopenSteps, Reopen, ReopenFails, Send
<1> QED
  BY <1>2, <1>3 DEF KeeperSteps

LEMMA ShrinkerFrame ==
  ASSUME TypeOK, NEW k \in Shrinkers, ResizeSteps(k) \/ CallClose(k) \/ CallSetCapacity(k)
  PROVE  /\ \A q \in Procs \ {k} : pc'[q] = pc[q]
         /\ \A j \in Shrinkers \ {k} : left'[j] = left[j] /\ target'[j] = target[j]
         /\ held' = held
         /\ closed => closed'
<1>1. \A q \in Procs \ {k} : pc'[q] = pc[q]
  BY ShrinkerMoves DEF Goto, TypeOK
<1> USE ProcKinds DEF chanVars, loopVars, TypeOK
<1>2. CASE CallClose(k) \/ CallSetCapacity(k) \/ StopTimer(k) \/ Unchanged(k)
  BY <1>1, <1>2 DEF CallClose, CallSetCapacity, StopTimer, Unchanged
<1>3. CASE Swap(k) \/ Shrink(k) \/ Grow(k)
  BY <1>1, <1>3 DEF Swap, Shrink, Grow, Receive, Send
<1>4. CASE Retire(k) \/ CountRetired(k) \/ CountShrunk(k) \/ CloseChannel(k) \/ CountGrown(k)
  BY <1>1, <1>4 DEF Retire, CountRetired, CountShrunk, CloseChannel, CountGrown
<1> QED
  BY <1>2, <1>3, <1>4 DEF ResizeSteps

\* ... and what is in the hands of the others.
LEMMA ClientHand ==
  ASSUME TypeOK, NEW p \in Clients, StartGet(p) \/ ClientSteps(p)
  PROVE  \A q \in Procs \ {p} : wrapper'[q] = wrapper[q]
<1>1. wrapper' = wrapper \/ \E w : wrapper' = [wrapper EXCEPT ![p] = w]
  <2>1. CASE StartGet(p) \/ GetSteps(p)
    BY <2>1 DEF StartGet, GetSteps, Expire, Refuse, Fetch, Scan, ScanEnds, Restore, Open,
      OpenFails, Refund, CountOpened, CountTaken, CountInUse, Receive
  <2>2. CASE PutSteps(p) \/ ReopenSteps(p)
    BY <2>2 DEF PutSteps, ReopenSteps, Discard, Put, CountReturned, CountAvailable, Reopen, ReopenFails
  <2> QED
    BY <2>1, <2>2 DEF ClientSteps
<1> QED
  BY <1>1 DEF TypeOK

LEMMA KeeperHand ==
  ASSUME TypeOK, Tick \/ KeeperSteps
  PROVE  \A q \in Procs \ {Housekeeper} : wrapper'[q] = wrapper[q]
<1>1. wrapper' = wrapper \/ \E w : wrapper' = [wrapper EXCEPT ![Housekeeper] = w]
  BY DEF Tick, KeeperSteps, Sweep, SweepEnds, CloseIdle, GiveBack, ReopenSteps, Reopen,
    ReopenFails, Receive
<1> QED
  BY <1>1 DEF TypeOK

LEMMA ShrinkerHand ==
  ASSUME TypeOK, NEW k \in Shrinkers, ResizeSteps(k) \/ CallClose(k) \/ CallSetCapacity(k)
  PROVE  \A q \in Procs \ {k} : wrapper'[q] = wrapper[q]
<1>1. wrapper' = wrapper \/ \E w : wrapper' = [wrapper EXCEPT ![k] = w]
  BY DEF ResizeSteps, CallClose, CallSetCapacity, StopTimer, Unchanged, Swap, Shrink, Retire,
    CountRetired, CountShrunk, CloseChannel, Grow, CountGrown, Receive
<1> QED
  BY <1>1 DEF TypeOK

LEMMA NoneLeft == \A n \in Nat : ~(n > 0) => n = 0
OBVIOUS

LEMMA NextRested == Typed /\ Rested /\ [Next]_vars => Rested'
<1> SUFFICES ASSUME Typed, Rested, [Next]_vars PROVE Rested'
  OBVIOUS
<1> USE ProcKinds DEF Rested, Typed
<1>1. ASSUME NEW p \in Clients, StartGet(p) \/ ClientSteps(p) PROVE Rested'
  BY <1>1, ClientFrame
<1>2. CASE Tick \/ KeeperSteps
  BY <1>2, KeeperFrame
<1>3. ASSUME NEW k \in Shrinkers, ResizeSteps(k) \/ CallClose(k) \/ CallSetCapacity(k)
      PROVE Rested'
  <2>1. pc'[k] \in {"idle", "stop", "resize", "close"} => left'[k] = 0
    <3> USE DEF Goto, TypeOK, loopVars
    <3>1. CASE CallClose(k) \/ CallSetCapacity(k) \/ StopTimer(k) \/ Unchanged(k) \/ CloseChannel(k)
      BY <3>1 DEF CallClose, CallSetCapacity, StopTimer, Unchanged, CloseChannel
    <3>2. CASE Swap(k) \/ Shrink(k) \/ Grow(k)
      BY <3>2 DEF Swap, Shrink, Grow
    <3>3. CASE Retire(k) \/ CountRetired(k)
      BY <3>3 DEF Retire, CountRetired
    <3>4. CASE CountShrunk(k) \/ CountGrown(k)
      <4>1. left' = left
        BY <3>4 DEF CountShrunk, CountGrown
      <4>2. pc'[k] \in {"idle", "close"} => ~(left[k] > 0)
        BY <3>4 DEF CountShrunk, CountGrown
      <4>3. pc'[k] \in {"idle", "close", "shrink", "grow"}
        BY <3>4 DEF CountShrunk, CountGrown
      <4>4. ~(left[k] > 0) => left'[k] = 0
        <5>1. k \in Procs \ Clients /\ left \in [Procs \ Clients -> Nat]
          BY ProcKinds
        <5>2. left[k] \in Nat
          BY <5>1
        <5> QED
          BY <4>1, <5>2, NoneLeft, Zenon
      <4>5. pc'[k] \in {"idle", "stop", "resize", "close"} => pc'[k] \in {"idle", "close"}
        BY <4>3
      <4> QED
        BY <4>2, <4>4, <4>5
    <3> QED
      BY <1>3, <3>1, <3>2, <3>3, <3>4 DEF ResizeSteps
  <2> QED
    BY <1>3, <2>1, ShrinkerFrame
<1>4. CASE UNCHANGED vars
  BY <1>4 DEF vars, loopVars
<1> QED
  BY <1>1, <1>2, <1>3, <1>4, StepKinds

Balanced == Typed /\ Rested /\ Conservation

LEMMA InitBalanced == Init => Balanced
<1> SUFFICES ASSUME Init PROVE Balanced
  OBVIOUS
<1>1. Typed
  BY InitTyped
<1>2. Rested
  BY ProcKinds DEF Init, Rested, Procs
<1>3. AccountsTyped
  BY <1>1, Accounts DEF Typed
<1>4. (\A p \in Borrowers : Loans[p] = 0) /\ (\A k \in Shrinkers : Growing[k] = 0 /\ Shrinking[k] = 0)
  BY ProcKinds DEF Init, Loans, Growing, Shrinking, Borrowers, Lent
<1>5. Total(Loans) = 0 /\ Total(Growing) = 0 /\ Total(Shrinking) = 0
  BY <1>3, <1>4, FiniteKinds, TotalZero DEF AccountsTyped
<1>6. Len(resources) = capacity
  <2>1. capacity \in Nat /\ resources \in Seq(Entries) /\ resources = [i \in 1..capacity |-> Empty]
    BY <1>1, PoolAssumption DEF Init, Typed, TypeOK
  <2>2. DOMAIN resources = 1..Len(resources) /\ Len(resources) \in Nat
    BY <2>1, LenProperties
  <2>3. 1..Len(resources) = 1..capacity
    BY <2>1, <2>2
  <2> QED
    BY <2>1, <2>2, <2>3
<1>7. Conservation
  <2>1. capacity \in 0..MaxCap
    BY <1>1 DEF Typed, TypeOK
  <2> QED
    BY <1>5, <1>6, <2>1 DEF Conservation
<1> QED
  BY <1>1, <1>2, <1>7 DEF Balanced

LEMMA NextConservation == Balanced /\ [Next]_vars => Conservation'
<1> SUFFICES ASSUME Balanced, [Next]_vars, ~closed', fault' = "none"
             PROVE  Len(resources') + Total(Loans') + Total(Growing') = capacity' + Total(Shrinking')
  BY DEF Conservation, NoPanic
<1>1. Typed /\ Typed' /\ TypeOK /\ TypeOK' /\ Rested
  BY NextTyped DEF Balanced, Typed
<1>2. AccountsTyped /\ AccountsTyped'
  BY <1>1, Accounts, AccountsAfter
<1>3. capacity \in Nat /\ capacity' \in Nat
  <2>1. capacity \in 0..MaxCap /\ capacity' \in 0..MaxCap
    BY <1>1 DEF TypeOK
  <2> QED
    BY <2>1
<1>10. /\ Total(Loans) \in Nat /\ Total(Growing) \in Nat /\ Total(Shrinking) \in Nat
       /\ Total(Loans') \in Nat /\ Total(Growing') \in Nat /\ Total(Shrinking') \in Nat
       /\ Len(resources) \in Nat /\ Len(resources') \in Nat
  BY <1>2 DEF AccountsTyped
<1>4. ~closed /\ fault = "none" =>
        Len(resources) + Total(Loans) + Total(Growing) = capacity + Total(Shrinking)
  BY DEF Balanced, Conservation, NoPanic
<1>5. ASSUME \A k \in Shrinkers : pc'[k] = pc[k] /\ left'[k] = left[k]
      PROVE  Growing' = Growing /\ Shrinking' = Shrinking
  BY <1>5 DEF Growing, Shrinking
<1>6. ASSUME NEW p \in Clients, StartGet(p) \/ ClientSteps(p)
      PROVE  Len(resources') + Total(Loans') + Total(Growing') = capacity' + Total(Shrinking')
  <2>1. /\ \A q \in Procs \ {p} : pc'[q] = pc[q]
        /\ \A q \in Clients \ {p} : held'[q] = held[q]
        /\ left' = left /\ capacity' = capacity /\ closed' = closed
    BY <1>1, <1>6, ClientFrame
  <2>2. fault = "none"
    BY <1>6, ClientMoves DEF Goto
  <2>3. p \in Borrowers /\ \A q \in Borrowers \ {p} : Loans'[q] = Loans[q]
    BY <2>1, ProcKinds DEF Loans, Borrowers
  <2>4. Total(Loans') - Loans'[p] = Total(Loans) - Loans[p]
    BY <1>1, <2>3, LoansChange
  <2>5. Len(resources') + Loans'[p] = Len(resources) + Loans[p]
    BY <1>1, <1>6, ClientBalance
  <2>6. Growing' = Growing /\ Shrinking' = Shrinking
    BY <1>5, <2>1, ProcKinds
  <2>7. Loans[p] \in Nat /\ Loans'[p] \in Nat
    BY <1>2, <2>3 DEF AccountsTyped
  <2>8. Len(resources) + Total(Loans) + Total(Growing) = capacity + Total(Shrinking)
    BY <1>4, <2>1, <2>2
  <2> DEFINE r == Len(resources)   rr == Len(resources')
             t == Total(Loans)     tt == Total(Loans')
             l == Loans[p]         ll == Loans'[p]
             g == Total(Growing)   gg == Total(Growing')
             s == Total(Shrinking) ss == Total(Shrinking')
             c == capacity         cc == capacity'
  <2>9. /\ r \in Nat /\ rr \in Nat /\ t \in Nat /\ tt \in Nat /\ l \in Nat /\ ll \in Nat
        /\ g \in Nat /\ s \in Nat /\ c \in Nat
    BY <1>3, <1>10, <2>7
  <2>10. gg = g /\ ss = s /\ cc = c
    BY <2>1, <2>6
  <2>11. tt - ll = t - l /\ rr + ll = r + l /\ r + t + g = c + s
    BY <2>4, <2>5, <2>8
  <2> HIDE DEF r, rr, t, tt, l, ll, g, gg, s, ss, c, cc
  <2>12. rr + tt + gg = cc + ss
    BY <2>9, <2>10, <2>11
  <2> QED
    BY <2>12 DEF rr, tt, gg, cc, ss
<1>7. CASE Tick \/ KeeperSteps
  <2>1. /\ \A q \in Procs \ {Housekeeper} : pc'[q] = pc[q]
        /\ \A k \in Shrinkers : left'[k] = left[k]
        /\ held' = held /\ capacity' = capacity /\ closed' = closed
    BY <1>1, <1>7, KeeperFrame
  <2>2. fault = "none"
    BY <1>7, KeeperMoves DEF Goto
  <2>3. Housekeeper \in Borrowers /\ \A q \in Borrowers \ {Housekeeper} : Loans'[q] = Loans[q]
    BY <2>1, ProcKinds DEF Loans, Borrowers
  <2>4. Total(Loans') - Loans'[Housekeeper] = Total(Loans) - Loans[Housekeeper]
    BY <1>1, <2>3, LoansChange
  <2>5. Len(resources') + Loans'[Housekeeper] = Len(resources) + Loans[Housekeeper]
    BY <1>1, <1>7, KeeperBalance
  <2>6. Growing' = Growing /\ Shrinking' = Shrinking
    BY <1>5, <2>1, ProcKinds
  <2>7. Loans[Housekeeper] \in Nat /\ Loans'[Housekeeper] \in Nat
    BY <1>2, <2>3 DEF AccountsTyped
  <2>8. Len(resources) + Total(Loans) + Total(Growing) = capacity + Total(Shrinking)
    BY <1>4, <2>1, <2>2
  <2> DEFINE r == Len(resources)   rr == Len(resources')
             t == Total(Loans)     tt == Total(Loans')
             l == Loans[Housekeeper]         ll == Loans'[Housekeeper]
             g == Total(Growing)   gg == Total(Growing')
             s == Total(Shrinking) ss == Total(Shrinking')
             c == capacity         cc == capacity'
  <2>9. /\ r \in Nat /\ rr \in Nat /\ t \in Nat /\ tt \in Nat /\ l \in Nat /\ ll \in Nat
        /\ g \in Nat /\ s \in Nat /\ c \in Nat
    BY <1>3, <1>10, <2>7
  <2>10. gg = g /\ ss = s /\ cc = c
    BY <2>1, <2>6
  <2>11. tt - ll = t - l /\ rr + ll = r + l /\ r + t + g = c + s
    BY <2>4, <2>5, <2>8
  <2> HIDE DEF r, rr, t, tt, l, ll, g, gg, s, ss, c, cc
  <2>12. rr + tt + gg = cc + ss
    BY <2>9, <2>10, <2>11
  <2> QED
    BY <2>12 DEF rr, tt, gg, cc, ss
<1>8. ASSUME NEW k \in Shrinkers, ResizeSteps(k) \/ CallClose(k) \/ CallSetCapacity(k)
      PROVE  Len(resources') + Total(Loans') + Total(Growing') = capacity' + Total(Shrinking')
  <2>1. /\ \A q \in Procs \ {k} : pc'[q] = pc[q]
        /\ \A j \in Shrinkers \ {k} : left'[j] = left[j]
        /\ held' = held /\ ~closed
    BY <1>1, <1>8, ShrinkerFrame
  <2>2. fault = "none"
    BY <1>8, ShrinkerMoves DEF Goto
  <2>3. Loans' = Loans
    BY <2>1, ProcKinds DEF Loans
  <2>4. /\ Total(Growing') - Growing'[k] = Total(Growing) - Growing[k]
        /\ Total(Shrinking') - Shrinking'[k] = Total(Shrinking) - Shrinking[k]
    BY <1>1, <2>1, LeftChange, ProcKinds
  <2>5. Len(resources') + Growing'[k] - (capacity' + Shrinking'[k])
          = Len(resources) + Growing[k] - (capacity + Shrinking[k])
    BY <1>1, <1>8, ShrinkerBalance
  <2>6. Growing[k] \in Nat /\ Growing'[k] \in Nat /\ Shrinking[k] \in Nat /\ Shrinking'[k] \in Nat
    BY <1>2 DEF AccountsTyped
  <2>7. Len(resources) + Total(Loans) + Total(Growing) = capacity + Total(Shrinking)
    BY <1>4, <2>1, <2>2
  <2> DEFINE r == Len(resources)   rr == Len(resources')
             t == Total(Loans)     tt == Total(Loans')
             g == Total(Growing)   gg == Total(Growing')
             s == Total(Shrinking) ss == Total(Shrinking')
             c == capacity         cc == capacity'
             m == Growing[k]       mm == Growing'[k]
             n == Shrinking[k]     nn == Shrinking'[k]
  <2>8. /\ r \in Nat /\ rr \in Nat /\ t \in Nat /\ c \in Nat /\ cc \in Nat
        /\ g \in Nat /\ gg \in Nat /\ s \in Nat /\ ss \in Nat
        /\ m \in Nat /\ mm \in Nat /\ n \in Nat /\ nn \in Nat
    BY <1>3, <1>10, <2>6
  <2>9. tt = t /\ gg - mm = g - m /\ ss - nn = s - n
    BY <2>3, <2>4
  <2>10. rr + mm - (cc + nn) = r + m - (c + n) /\ r + t + g = c + s
    BY <2>5, <2>7
  <2> HIDE DEF r, rr, t, tt, g, gg, s, ss, c, cc, m, mm, n, nn
  <2>11. rr + tt + gg = cc + ss
    BY <2>8, <2>9, <2>10
  <2> QED
    BY <2>11 DEF rr, tt, gg, cc, ss
<1>9. CASE UNCHANGED vars
  <2>1. Loans' = Loans /\ Growing' = Growing /\ Shrinking' = Shrinking
    BY <1>9 DEF vars, loopVars, Loans, Growing, Shrinking
  <2> QED
    BY <1>4, <1>9, <2>1 DEF vars, chanVars
<1> QED
  BY <1>6, <1>7, <1>8, <1>9, StepKinds

\* While the pool is open no entry is lost or invented, with any number of
\* clients, of SetCapacity calls and of entries.
THEOREM EntriesConserved == Spec => []Conservation
<1>1. Balanced /\ [Next]_vars => Balanced'
  BY NextTyped, NextRested, NextConservation DEF Balanced
<1>2. Balanced => Conservation
  BY DEF Balanced
<1> QED
  BY InitBalanced, <1>1, <1>2, PTL DEF Spec

----------------------------------------------------------------------------
(* Exclusive.  A step moves one wrapper: from the channel to an empty hand, *)
(* from a hand to the channel, or from a hand to the token or back.         *)

\* Each part of Exclusive, and the two inclusions its equation stands for.
Slots == \A i, j \in DOMAIN resources : resources[i] = resources[j] => i = j \/ resources[i] = Empty
Carried == \A p, q \in Procs : wrapper[p] = wrapper[q] => p = q \/ wrapper[p] = Empty
Apart == \A p \in Procs, i \in DOMAIN resources : wrapper[p] = resources[i] => wrapper[p] = Empty
Live == /\ \A i \in DOMAIN resources : resources[i] = Empty \/ resources[i] \in open
        /\ \A p \in Procs : wrapper[p] = Empty \/ wrapper[p] \in open
NoLeak == \A s \in open : \/ \E i \in DOMAIN resources : resources[i] = s
                          \/ \E p \in Procs : wrapper[p] = s
Parts == Slots /\ Carried /\ Apart /\ Live /\ NoLeak

LEMMA ExclusiveParts == TypeOK => (Exclusive <=> Parts)
<1> SUFFICES ASSUME TypeOK PROVE Exclusive <=> Parts
  OBVIOUS
<1>1. open \subseteq Sessions /\ Empty \notin open
  BY PoolAssumption DEF TypeOK
<1> DEFINE Places == {resources[i] : i \in DOMAIN resources} \cup {wrapper[p] : p \in Procs}
<1>2. open = Places \ {Empty} <=> Live /\ NoLeak
  BY <1>1 DEF Live, NoLeak
<1> QED
  BY <1>2 DEF Exclusive, Parts, Slots, Carried, Apart

\* The channel as a function on 1..Len(resources), after each operation on it.
LEMMA AfterReceive ==
  ASSUME TypeOK, NEW p \in Procs, Receive(p), resources # <<>>
  PROVE  /\ 1 \in DOMAIN resources
         /\ \A i \in DOMAIN resources' : i + 1 \in DOMAIN resources /\ i + 1 # 1
                                         /\ resources'[i] = resources[i + 1]
         /\ \A i \in DOMAIN resources : i # 1 => i - 1 \in DOMAIN resources'
                                                 /\ resources'[i - 1] = resources[i]
         /\ DOMAIN resources \subseteq Int /\ DOMAIN resources' \subseteq Int
         /\ wrapper' = [wrapper EXCEPT ![p] = resources[1]]
<1>1. resources \in Seq(Entries) /\ resources' = Tail(resources)
  BY DEF TypeOK, Receive, Drained
<1>2. /\ Len(resources) \in Nat \ {0} /\ DOMAIN resources = 1..Len(resources)
      /\ DOMAIN resources' = 1..(Len(resources) - 1)
      /\ \A i \in 1..(Len(resources) - 1) : resources'[i] = resources[i + 1]
  <2>1. Len(resources) \in Nat /\ Len(resources) # 0 /\ DOMAIN resources = 1..Len(resources)
    BY <1>1, EmptySeq, LenProperties
  <2>2. resources' \in Seq(Entries) /\ Len(resources') = Len(resources) - 1
        /\ \A i \in 1..Len(Tail(resources)) : Tail(resources)[i] = resources[i + 1]
    BY <1>1, HeadTailProperties
  <2>3. DOMAIN resources' = 1..Len(resources')
    BY <2>2, LenProperties
  <2> QED
    BY <1>1, <2>1, <2>2, <2>3
<1>3. wrapper' = [wrapper EXCEPT ![p] = resources[1]]
  BY <1>1 DEF Receive, Received
<1> QED
  BY <1>2, <1>3

LEMMA AfterAppend ==
  ASSUME TypeOK, NEW e \in Entries, resources' = Append(resources, e)
  PROVE  \E n : /\ n \notin DOMAIN resources
                /\ DOMAIN resources' = DOMAIN resources \cup {n}
                /\ resources'[n] = e
                /\ \A i \in DOMAIN resources : resources'[i] = resources[i]
<1>1. resources \in Seq(Entries)
  BY DEF TypeOK
<1>2. /\ Len(resources) \in Nat /\ DOMAIN resources = 1..Len(resources)
      /\ DOMAIN resources' = 1..(Len(resources) + 1)
      /\ resources'[Len(resources) + 1] = e
      /\ \A i \in 1..Len(resources) : resources'[i] = resources[i]
  BY <1>1, AppendProperties, LenProperties
<1>3. Len(resources) + 1 \notin DOMAIN resources
      /\ DOMAIN resources' = DOMAIN resources \cup {Len(resources) + 1}
  BY <1>2
<1> QED
  BY <1>2, <1>3

LEMMA TakenOnce ==
  ASSUME TypeOK, Parts, NEW p \in Procs, Receive(p), wrapper[p] = Empty, UNCHANGED open
  PROVE  Parts'
<1> USE DEF TypeOK
<1>1. CASE resources = <<>>
  <2>1. resources' = resources /\ wrapper' = wrapper
    BY <1>1 DEF Receive, Received, Drained
  <2> QED
    BY <2>1 DEF Parts, Slots, Carried, Apart, Live, NoLeak
<1>2. CASE resources # <<>>
  <2>1. /\ 1 \in DOMAIN resources
        /\ \A i \in DOMAIN resources' : i + 1 \in DOMAIN resources /\ i + 1 # 1
                                         /\ resources'[i] = resources[i + 1]
        /\ \A i \in DOMAIN resources : i # 1 => i - 1 \in DOMAIN resources'
                                                 /\ resources'[i - 1] = resources[i]
        /\ DOMAIN resources \subseteq Int /\ DOMAIN resources' \subseteq Int
        /\ wrapper' = [wrapper EXCEPT ![p] = resources[1]]
    BY <1>2, AfterReceive
  <2>2. wrapper'[p] = resources[1] /\ \A q \in Procs \ {p} : wrapper'[q] = wrapper[q]
    BY <2>1
  <2> HIDE DEF TypeOK
  <2>3. Slots'
    BY <2>1 DEF Parts, Slots
  <2>4. Carried'
    BY <2>1, <2>2 DEF Parts, Carried, Apart
  <2>5. Apart'
    BY <2>1, <2>2 DEF Parts, Slots, Apart
  <2>6. Live'
    BY <2>1, <2>2 DEF Parts, Live
  <2>7. NoLeak'
    <3> SUFFICES ASSUME NEW s \in open
                 PROVE  \/ \E i \in DOMAIN resources' : resources'[i] = s
                        \/ \E q \in Procs : wrapper'[q] = s
      BY DEF NoLeak
    <3>1. s # Empty
      BY PoolAssumption DEF TypeOK
    <3>2. CASE \E i \in DOMAIN resources : resources[i] = s
      BY <2>1, <2>2, <3>2
    <3>3. CASE \E q \in Procs : wrapper[q] = s
      BY <2>2, <3>1, <3>3
    <3> QED
      BY <3>2, <3>3 DEF Parts, NoLeak
  <2> QED
    BY <2>3, <2>4, <2>5, <2>6, <2>7 DEF Parts
<1> QED
  BY <1>1, <1>2

LEMMA PutOnce ==
  ASSUME TypeOK, Parts, NEW p \in Procs, resources' = Append(resources, wrapper[p]),
         wrapper' = [wrapper EXCEPT ![p] = Empty], UNCHANGED open
  PROVE  Parts'
<1>1. wrapper[p] \in Entries
  BY DEF TypeOK
<1>2. PICK n : /\ n \notin DOMAIN resources
               /\ DOMAIN resources' = DOMAIN resources \cup {n}
               /\ resources'[n] = wrapper[p]
               /\ \A i \in DOMAIN resources : resources'[i] = resources[i]
  BY <1>1, AfterAppend
<1>3. wrapper'[p] = Empty /\ \A q \in Procs \ {p} : wrapper'[q] = wrapper[q]
  BY DEF TypeOK
<1>4. Slots'
  BY <1>2 DEF Parts, Slots, Apart
<1>5. Carried'
  BY <1>3 DEF Parts, Carried
<1>6. Apart'
  BY <1>2, <1>3 DEF Parts, Apart, Carried
<1>7. Live'
  BY <1>2, <1>3 DEF Parts, Live
<1>8. NoLeak'
  BY <1>2, <1>3 DEF Parts, NoLeak
<1> QED
  BY <1>4, <1>5, <1>6, <1>7, <1>8 DEF Parts

LEMMA EmptyPut ==
  ASSUME TypeOK, Parts, resources' = Append(resources, Empty), UNCHANGED <<wrapper, open>>
  PROVE  Parts'
<1>1. PICK n : /\ n \notin DOMAIN resources
               /\ DOMAIN resources' = DOMAIN resources \cup {n}
               /\ resources'[n] = Empty
               /\ \A i \in DOMAIN resources : resources'[i] = resources[i]
  BY AfterAppend DEF Entries
<1>2. Slots' /\ Carried'
  BY <1>1 DEF Parts, Slots, Carried
<1>3. Apart' /\ Live'
  BY <1>1 DEF Parts, Apart, Live
<1>4. NoLeak'
  BY <1>1 DEF Parts, NoLeak
<1> QED
  BY <1>2, <1>3, <1>4 DEF Parts

LEMMA ClosedOnce ==
  ASSUME TypeOK, Parts, NEW p \in Procs, open' = open \ {wrapper[p]},
         wrapper' = [wrapper EXCEPT ![p] = Empty], UNCHANGED resources
  PROVE  Parts'
<1>1. wrapper'[p] = Empty /\ \A q \in Procs \ {p} : wrapper'[q] = wrapper[q]
  BY DEF TypeOK
<1>2. Slots' /\ Carried' /\ Apart'
  BY <1>1 DEF Parts, Slots, Carried, Apart
<1>3. Live'
  BY <1>1 DEF Parts, Live, Carried, Apart
<1>4. NoLeak'
  BY <1>1 DEF Parts, NoLeak
<1> QED
  BY <1>2, <1>3, <1>4 DEF Parts

LEMMA OpenedOnce ==
  ASSUME TypeOK, Parts, NEW p \in Procs, wrapper[p] = Empty,
         NEW s \in Sessions \ open, open' = open \cup {s},
         wrapper' = [wrapper EXCEPT ![p] = s], UNCHANGED resources
  PROVE  Parts'
<1>1. wrapper'[p] = s /\ s # Empty /\ \A q \in Procs \ {p} : wrapper'[q] = wrapper[q]
  BY PoolAssumption DEF TypeOK
<1>2. Slots'
  BY DEF Parts, Slots
<1>3. Carried' /\ Apart'
  BY <1>1 DEF Parts, Carried, Apart, Live
<1>4. Live'
  BY <1>1 DEF Parts, Live
<1>5. NoLeak'
  <2> SUFFICES ASSUME NEW x \in open \cup {s}
               PROVE  \/ \E i \in DOMAIN resources : resources[i] = x
                      \/ \E q \in Procs : wrapper'[q] = x
    BY DEF NoLeak
  <2>1. Empty \notin open
    BY PoolAssumption DEF TypeOK
  <2> QED
    BY <1>1, <2>1 DEF Parts, NoLeak
<1> QED
  BY <1>2, <1>3, <1>4, <1>5 DEF Parts

----------------------------------------------------------------------------
\* Who has nothing in hand, where.  A wrapper is overwritten only there.
Hands ==
  /\ \A p \in Clients : pc[p] \in {"idle", "fetch", "scan", "open", "refund", "reopen",
                                   "returned", "released"} => wrapper[p] = Empty
  /\ pc[Housekeeper] \in {"idle", "sweep", "reopen"} => wrapper[Housekeeper] = Empty
  /\ \A k \in Shrinkers : pc[k] # "retire" => wrapper[k] = Empty

Placed == Typed /\ (NoPanic => Hands /\ Parts)

LEMMA Kept ==
  ASSUME Parts, UNCHANGED <<resources, wrapper, open>>
  PROVE  Parts'
BY DEF Parts, Slots, Carried, Apart, Live, NoLeak

\* A send that does not panic adds its entry to the channel.
LEMMA SendAppends ==
  ASSUME NEW e, Send(e) \/ SendOrPanic(e), fault' = "none"
  PROVE  resources' = Append(resources, e)
BY DEF Send, SendOrPanic

LEMMA InitPlaced == Init => Placed
<1> SUFFICES ASSUME Init PROVE Placed
  OBVIOUS
<1>1. Typed
  BY InitTyped
<1>2. DOMAIN resources = 1..capacity /\ \A i \in DOMAIN resources : resources[i] = Empty
  BY DEF Init
<1>3. \A p \in Procs : wrapper[p] = Empty
  BY DEF Init
<1>4. Hands
  BY <1>3, ProcKinds DEF Hands
<1>5. Parts
  BY <1>2, <1>3 DEF Init, Parts, Slots, Carried, Apart, Live, NoLeak
<1> QED
  BY <1>1, <1>4, <1>5 DEF Placed

LEMMA ClientPlaces ==
  ASSUME Typed, Hands, Parts, fault' = "none",
         NEW p \in Clients, StartGet(p) \/ ClientSteps(p)
  PROVE  Hands' /\ Parts'
<1>1. TypeOK /\ p \in Procs
  BY ProcKinds DEF Typed
<1>2. pc[p] \in {"idle", "fetch", "scan", "open", "refund", "reopen", "returned", "released"}
        => wrapper[p] = Empty
  BY DEF Hands
<1>3. Parts'
  <2> USE DEF chanVars
  <2>1. CASE StartGet(p) \/ Expire(p) \/ Refuse(p) \/ ScanEnds(p) \/ OpenFails(p)
             \/ CountOpened(p) \/ CountTaken(p) \/ CountInUse(p)
    BY <2>1, Kept DEF StartGet, Expire, Refuse, ScanEnds, OpenFails, CountOpened, CountTaken, CountInUse
  <2>2. CASE Fetch(p) \/ Scan(p)
    BY <1>1, <1>2, <2>2, TakenOnce DEF Fetch, Scan
  <2>3. CASE Restore(p) \/ Refund(p)
    BY <1>1, <2>3, SendAppends, EmptyPut DEF Restore, Refund
  <2>4. CASE Open(p) \/ Reopen(p)
    BY <1>1, <1>2, <2>4, OpenedOnce DEF Open, Reopen
  <2>5. CASE Discard(p)
    BY <1>1, <2>5, ClosedOnce DEF Discard
  <2>6. CASE Put(p)
    BY <1>1, <2>6, SendAppends, PutOnce DEF Put
  <2>7. CASE CountReturned(p) \/ CountAvailable(p) \/ ReopenFails(p)
    BY <2>7, Kept DEF CountReturned, CountAvailable, ReopenFails
  <2> QED
    BY <2>1, <2>2, <2>3, <2>4, <2>5, <2>6, <2>7 DEF ClientSteps, GetSteps, PutSteps, ReopenSteps
<1>4. \A q \in Procs \ {p} : wrapper'[q] = wrapper[q] /\ pc'[q] = pc[q]
  BY <1>1, ClientFrame, ClientHand
<1>5. pc'[p] \in {"idle", "fetch", "scan", "open", "refund", "reopen", "returned", "released"}
        => wrapper'[p] = Empty
  <2> USE <1>1 DEF TypeOK, Goto
  <2>1. CASE StartGet(p) \/ Expire(p) \/ Refuse(p) \/ OpenFails(p) \/ Refund(p)
    BY <1>2, <2>1 DEF StartGet, Expire, Refuse, OpenFails, Refund
  <2>2. CASE Fetch(p) \/ Scan(p)
    BY <1>2, <2>2, ReceiveTypes DEF Fetch, Scan
  <2>3. CASE ScanEnds(p) \/ Restore(p)
    BY <2>3 DEF ScanEnds, Restore, AfterScan
  <2>4. CASE Open(p) \/ Reopen(p) \/ CountOpened(p) \/ CountTaken(p) \/ CountInUse(p) \/ ReopenFails(p)
    BY <2>4 DEF Open, Reopen, CountOpened, CountTaken, CountInUse, ReopenFails
  <2>5. CASE Discard(p) \/ Put(p)
    BY <2>5 DEF Discard, Put
  <2>6. CASE CountReturned(p) \/ CountAvailable(p)
    BY <1>2, <2>6 DEF CountReturned, CountAvailable
  <2> QED
    BY <2>1, <2>2, <2>3, <2>4, <2>5, <2>6 DEF ClientSteps, GetSteps, PutSteps, ReopenSteps
<1>6. Hands'
  BY <1>4, <1>5, ProcKinds DEF Hands
<1> QED
  BY <1>3, <1>6

LEMMA KeeperPlaces ==
  ASSUME Typed, Hands, Parts, fault' = "none", Tick \/ KeeperSteps
  PROVE  Hands' /\ Parts'
<1>1. TypeOK /\ Housekeeper \in Procs
  BY ProcKinds DEF Typed
<1>2. pc[Housekeeper] \in {"idle", "sweep", "reopen"} => wrapper[Housekeeper] = Empty
  BY DEF Hands
<1>3. Parts'
  <2> USE DEF chanVars
  <2>1. CASE Tick \/ SweepEnds \/ ReopenFails(Housekeeper)
    BY <2>1, Kept DEF Tick, SweepEnds, ReopenFails
  <2>2. CASE Sweep
    BY <1>1, <1>2, <2>2, TakenOnce DEF Sweep
  <2>3. CASE CloseIdle
    BY <1>1, <2>3, ClosedOnce DEF CloseIdle
  <2>4. CASE GiveBack
    BY <1>1, <2>4, SendAppends, PutOnce DEF GiveBack
  <2>5. CASE Reopen(Housekeeper)
    BY <1>1, <1>2, <2>5, OpenedOnce DEF Reopen
  <2> QED
    BY <2>1, <2>2, <2>3, <2>4, <2>5 DEF KeeperSteps, ReopenSteps
<1>4. \A q \in Procs \ {Housekeeper} : wrapper'[q] = wrapper[q] /\ pc'[q] = pc[q]
  BY <1>1, KeeperFrame, KeeperHand
<1>5. pc'[Housekeeper] \in {"idle", "sweep", "reopen"} => wrapper'[Housekeeper] = Empty
  <2> USE <1>1 DEF TypeOK, Goto
  <2>1. CASE Tick \/ Sweep \/ SweepEnds
    BY <1>2, <2>1 DEF Tick, Sweep, SweepEnds
  <2>2. CASE CloseIdle \/ GiveBack
    BY <2>2 DEF CloseIdle, GiveBack
  <2>3. CASE ReopenSteps(Housekeeper)
    BY <2>3 DEF ReopenSteps, Reopen, ReopenFails
  <2> QED
    BY <2>1, <2>2, <2>3 DEF KeeperSteps
<1>6. Hands'
  BY <1>4, <1>5, ProcKinds DEF Hands
<1> QED
  BY <1>3, <1>6

LEMMA ShrinkerPlaces ==
  ASSUME Typed, Hands, Parts, fault' = "none",
         NEW k \in Shrinkers, ResizeSteps(k) \/ CallClose(k) \/ CallSetCapacity(k)
  PROVE  Hands' /\ Parts'
<1>1. TypeOK /\ k \in Procs
  BY ProcKinds DEF Typed
<1>2. pc[k] # "retire" => wrapper[k] = Empty
  BY DEF Hands
<1>3. Parts'
  <2> USE DEF chanVars
  <2>1. CASE CallClose(k) \/ CallSetCapacity(k) \/ StopTimer(k) \/ Unchanged(k) \/ Swap(k)
    BY <2>1, Kept DEF CallClose, CallSetCapacity, StopTimer, Unchanged, Swap
  <2>2. CASE CountRetired(k) \/ CountShrunk(k) \/ CloseChannel(k) \/ CountGrown(k)
    BY <2>2, Kept DEF CountRetired, CountShrunk, CloseChannel, CountGrown
  <2>3. CASE Shrink(k)
    BY <1>1, <1>2, <2>3, TakenOnce DEF Shrink
  <2>4. CASE Retire(k)
    BY <1>1, <2>4, ClosedOnce DEF Retire
  <2>5. CASE Grow(k)
    BY <1>1, <2>5, SendAppends, EmptyPut DEF Grow
  <2> QED
    BY <2>1, <2>2, <2>3, <2>4, <2>5 DEF ResizeSteps
<1>4. \A q \in Procs \ {k} : wrapper'[q] = wrapper[q] /\ pc'[q] = pc[q]
  BY <1>1, ShrinkerFrame, ShrinkerHand
<1>5. pc'[k] # "retire" => wrapper'[k] = Empty
  <2> USE <1>1 DEF TypeOK, Goto
  <2>1. CASE CallClose(k) \/ CallSetCapacity(k) \/ StopTimer(k) \/ Unchanged(k) \/ Swap(k)
    BY <1>2, <2>1 DEF CallClose, CallSetCapacity, StopTimer, Unchanged, Swap
  <2>2. CASE CountRetired(k) \/ CountShrunk(k) \/ CloseChannel(k) \/ CountGrown(k) \/ Grow(k)
    BY <1>2, <2>2 DEF CountRetired, CountShrunk, CloseChannel, CountGrown, Grow
  <2>3. CASE Shrink(k)
    BY <1>2, <2>3, ReceiveTypes DEF Shrink
  <2>4. CASE Retire(k)
    BY <2>4 DEF Retire
  <2> QED
    BY <2>1, <2>2, <2>3, <2>4 DEF ResizeSteps
<1>6. Hands'
  BY <1>4, <1>5, ProcKinds DEF Hands
<1> QED
  BY <1>3, <1>6

LEMMA NextPlaced == Placed /\ [Next]_vars => Placed'
<1> SUFFICES ASSUME Placed, [Next]_vars PROVE Placed'
  OBVIOUS
<1>1. Typed /\ Typed'
  BY NextTyped DEF Placed
<1>2. ASSUME Next, fault' = "none" PROVE Hands' /\ Parts'
  <2>1. fault = "none"
    BY <1>2, StepKinds, ClientMoves, KeeperMoves, ShrinkerMoves DEF Goto
  <2>2. Hands /\ Parts
    BY <2>1 DEF Placed, NoPanic
  <2> QED
    BY <1>1, <1>2, <2>2, StepKinds, ClientPlaces, KeeperPlaces, ShrinkerPlaces
<1>3. ASSUME UNCHANGED vars, fault' = "none" PROVE Hands' /\ Parts'
  <2>1. UNCHANGED <<resources, wrapper, open, pc, fault>>
    BY <1>3 DEF vars, chanVars
  <2>2. Hands /\ Parts
    BY <1>3, <2>1 DEF Placed, NoPanic
  <2> QED
    BY <2>1, <2>2, Kept DEF Hands
<1> QED
  BY <1>1, <1>2, <1>3 DEF Placed, NoPanic

\* While nothing has panicked, every open session is in exactly one place: a
\* slot of the channel or the hand of one goroutine.  Two operations never
\* share a session, and none is leaked, however many goroutines call the pool.
THEOREM SessionsExclusive == Spec => [](NoPanic => Exclusive)
<1>1. Placed => (NoPanic => Exclusive)
  BY ExclusiveParts DEF Placed, Typed
<1> QED
  BY InitPlaced, NextPlaced, <1>1, PTL DEF Spec

----------------------------------------------------------------------------
(* The counters behind PoolStats.  Each differs from what it counts by the *)
(* goroutines between two of their steps, whatever SetCapacity does and    *)
(* whatever panics.                                                        *)

\* Who has a session in hand, where.
Filled ==
  /\ \A p \in Clients : pc[p] \in {"opened", "claim", "claimed", "using"} => wrapper[p] # Empty
  /\ \A k \in Shrinkers : pc[k] = "retire" => wrapper[k] # Empty

LEMMA NextFilled == Typed /\ Filled /\ [Next]_vars => Filled'
<1> SUFFICES ASSUME Typed, Filled, [Next]_vars PROVE Filled'
  OBVIOUS
<1>1. TypeOK
  BY DEF Typed
<1>2. ASSUME NEW p \in Clients, StartGet(p) \/ ClientSteps(p) PROVE Filled'
  <2>1. p \in Procs
    BY ProcKinds
  <2>2. pc'[p] \in {"opened", "claim", "claimed", "using"} => wrapper'[p] # Empty
    <3> USE <1>1, <2>1 DEF TypeOK, Goto
    <3>1. CASE StartGet(p) \/ Expire(p) \/ Refuse(p) \/ OpenFails(p) \/ Refund(p) \/ PutSteps(p)
               \/ ReopenSteps(p)
      BY <3>1 DEF StartGet, Expire, Refuse, OpenFails, Refund, PutSteps, ReopenSteps, Discard, Put,
        CountReturned, CountAvailable, Reopen, ReopenFails
    <3>2. CASE Fetch(p) \/ Scan(p)
      BY <3>2, ReceiveTypes DEF Fetch, Scan
    <3>3. CASE ScanEnds(p) \/ Restore(p)
      BY <3>3 DEF ScanEnds, Restore, AfterScan
    <3>4. CASE Open(p)
      BY <3>4, PoolAssumption DEF Open
    <3>5. CASE CountOpened(p) \/ CountTaken(p) \/ CountInUse(p)
      BY <3>5 DEF CountOpened, CountTaken, CountInUse, Filled
    <3> QED
      BY <1>2, <3>1, <3>2, <3>3, <3>4, <3>5 DEF ClientSteps, GetSteps
  <2> QED
    BY <1>1, <1>2, <2>2, ClientFrame, ClientHand, ProcKinds DEF Filled
<1>3. CASE Tick \/ KeeperSteps
  BY <1>1, <1>3, KeeperFrame, KeeperHand, ProcKinds DEF Filled
<1>4. ASSUME NEW k \in Shrinkers, ResizeSteps(k) \/ CallClose(k) \/ CallSetCapacity(k) PROVE Filled'
  <2>1. k \in Procs
    BY ProcKinds
  <2>2. pc'[k] = "retire" => wrapper'[k] # Empty
    <3> USE <1>1, <2>1 DEF TypeOK, Goto
    <3>1. CASE Shrink(k)
      BY <3>1, ReceiveTypes DEF Shrink
    <3>2. CASE ~Shrink(k)
      BY <1>4, <3>2 DEF ResizeSteps, CallClose, CallSetCapacity, StopTimer, Unchanged, Swap, Retire,
        CountRetired, CountShrunk, CloseChannel, Grow, CountGrown
    <3> QED
      BY <3>1, <3>2
  <2> QED
    BY <1>1, <1>4, <2>2, ShrinkerFrame, ShrinkerHand, ProcKinds DEF Filled
<1>5. CASE UNCHANGED vars
  BY <1>5 DEF vars, Filled
<1> QED
  BY <1>2, <1>3, <1>4, <1>5, StepKinds

\* Who has changed one counter and not yet the next.
Taking == {p \in Clients : pc[p] \in {"claimed", "using", "reopen", "return", "returned", "released"}}
Using == {p \in Clients : pc[p] \in {"using", "reopen", "return", "returned"}}
Opened == {p \in Clients : pc[p] = "opened"}
Replacing == {p \in Borrowers : pc[p] = "reopen"}
Retired == {k \in Shrinkers : pc[k] = "retired"}
Removing == {k \in Shrinkers : pc[k] \in {"retire", "retired", "shrunk"}}
Adding == {k \in Shrinkers : pc[k] = "grown"}

AvailableRight ==
  available + Cardinality(Taking) + Total(Growing) + Cardinality(Adding)
    = capacity + Total(Shrinking) + Cardinality(Removing)
InUseRight == inUse = Cardinality(Using)
ActiveRight ==
  active + Cardinality(Opened) = Cardinality(open) + Cardinality(Replacing) + Cardinality(Retired)

Counted == AvailableRight /\ InUseRight /\ ActiveRight

In(p, S) == IF p \in S THEN 1 ELSE 0

\* Sets that differ in p alone differ in size by p.
LEMMA CountChange ==
  ASSUME NEW F, NEW G, IsFiniteSet(F), IsFiniteSet(G), NEW p, G \ {p} = F \ {p}
  PROVE  /\ Cardinality(F) \in Nat /\ Cardinality(G) \in Nat
         /\ Cardinality(G) - In(p, G) = Cardinality(F) - In(p, F)
<1> DEFINE R == F \ {p}
<1>1. ASSUME NEW S, IsFiniteSet(S), S \ {p} = R
      PROVE  Cardinality(S) = Cardinality(R) + In(p, S) /\ Cardinality(S) \in Nat
  <2>1. Cardinality(S) \in Nat
    BY <1>1, FS_CardinalityType
  <2>2. CASE p \in S
    <3>1. Cardinality(R) = Cardinality(S) - 1
      BY <1>1, <2>2, FS_RemoveElement
    <3> HIDE DEF R
    <3> QED
      BY <2>1, <2>2, <3>1 DEF In
  <2>3. CASE p \notin S
    <3>1. S = R
      BY <1>1, <2>3
    <3> HIDE DEF R
    <3> QED
      BY <2>1, <2>3, <3>1 DEF In
  <2> QED
    BY <2>1, <2>2, <2>3
<1>2. /\ Cardinality(F) = Cardinality(R) + In(p, F) /\ Cardinality(F) \in Nat
      /\ Cardinality(G) = Cardinality(R) + In(p, G) /\ Cardinality(G) \in Nat
  BY <1>1
<1>3. Cardinality(R) \in Nat /\ In(p, F) \in Nat /\ In(p, G) \in Nat
  BY FS_RemoveElement, FS_Subset, FS_CardinalityType DEF In
<1> HIDE DEF R
<1> QED
  BY <1>2, <1>3

LEMMA FiniteTallies ==
  /\ IsFiniteSet(Taking) /\ IsFiniteSet(Using) /\ IsFiniteSet(Opened) /\ IsFiniteSet(Replacing)
  /\ IsFiniteSet(Retired) /\ IsFiniteSet(Removing) /\ IsFiniteSet(Adding)
  /\ IsFiniteSet(Taking') /\ IsFiniteSet(Using') /\ IsFiniteSet(Opened') /\ IsFiniteSet(Replacing')
  /\ IsFiniteSet(Retired') /\ IsFiniteSet(Removing') /\ IsFiniteSet(Adding')
<1>1. IsFiniteSet(Clients)
  BY ProcAssumption
<1> QED
  BY <1>1, FiniteKinds, FS_Subset DEF Taking, Using, Opened, Replacing, Retired, Removing, Adding

LEMMA ClientTallies ==
  ASSUME NEW p \in Clients, \A q \in Procs \ {p} : pc'[q] = pc[q]
  PROVE  /\ Cardinality(Taking') - In(p, Taking') = Cardinality(Taking) - In(p, Taking)
         /\ Cardinality(Using') - In(p, Using') = Cardinality(Using) - In(p, Using)
         /\ Cardinality(Opened') - In(p, Opened') = Cardinality(Opened) - In(p, Opened)
         /\ Cardinality(Replacing') - In(p, Replacing') = Cardinality(Replacing) - In(p, Replacing)
         /\ Retired' = Retired /\ Removing' = Removing /\ Adding' = Adding
<1>1. /\ Taking' \ {p} = Taking \ {p} /\ Using' \ {p} = Using \ {p} /\ Opened' \ {p} = Opened \ {p}
      /\ Replacing' \ {p} = Replacing \ {p}
  BY DEF Taking, Using, Opened, Replacing, Procs, Borrowers
<1>2. Retired' = Retired /\ Removing' = Removing /\ Adding' = Adding
  BY ProcKinds DEF Retired, Removing, Adding
<1> QED
  BY <1>1, <1>2, FiniteTallies, CountChange

LEMMA KeeperTallies ==
  ASSUME \A q \in Procs \ {Housekeeper} : pc'[q] = pc[q]
  PROVE  /\ Cardinality(Replacing') - In(Housekeeper, Replacing')
              = Cardinality(Replacing) - In(Housekeeper, Replacing)
         /\ UNCHANGED <<Taking, Using, Opened, Retired, Removing, Adding>>
<1>1. Replacing' \ {Housekeeper} = Replacing \ {Housekeeper}
  BY DEF Replacing, Procs, Borrowers
<1>2. UNCHANGED <<Taking, Using, Opened, Retired, Removing, Adding>>
  BY ProcKinds DEF Taking, Using, Opened, Retired, Removing, Adding
<1> QED
  BY <1>1, <1>2, FiniteTallies, CountChange

LEMMA ShrinkerTallies ==
  ASSUME NEW k \in Shrinkers, \A q \in Procs \ {k} : pc'[q] = pc[q]
  PROVE  /\ Cardinality(Retired') - In(k, Retired') = Cardinality(Retired) - In(k, Retired)
         /\ Cardinality(Removing') - In(k, Removing') = Cardinality(Removing) - In(k, Removing)
         /\ Cardinality(Adding') - In(k, Adding') = Cardinality(Adding) - In(k, Adding)
         /\ UNCHANGED <<Taking, Using, Opened, Replacing>>
<1>1. /\ Retired' \ {k} = Retired \ {k} /\ Removing' \ {k} = Removing \ {k}
      /\ Adding' \ {k} = Adding \ {k}
  BY DEF Retired, Removing, Adding, Procs
<1>2. UNCHANGED <<Taking, Using, Opened, Replacing>>
  BY ProcKinds DEF Taking, Using, Opened, Replacing, Borrowers
<1> QED
  BY <1>1, <1>2, FiniteTallies, CountChange

TalliesTyped ==
  /\ Cardinality(Taking) \in Nat /\ Cardinality(Using) \in Nat /\ Cardinality(Opened) \in Nat
  /\ Cardinality(Replacing) \in Nat /\ Cardinality(Retired) \in Nat /\ Cardinality(Removing) \in Nat
  /\ Cardinality(Adding) \in Nat /\ Cardinality(open) \in Nat
  /\ Total(Growing) \in Nat /\ Total(Shrinking) \in Nat
  /\ available \in Int /\ active \in Int /\ inUse \in Int /\ capacity \in Int

LEMMA Tallies == TypeOK => TalliesTyped /\ IsFiniteSet(open)
<1> SUFFICES ASSUME TypeOK PROVE TalliesTyped /\ IsFiniteSet(open)
  OBVIOUS
<1>1. IsFiniteSet(open)
  BY PoolAssumption, FS_Subset DEF TypeOK
<1>2. Total(Growing) \in Nat /\ Total(Shrinking) \in Nat
  BY Accounts DEF AccountsTyped
<1>3. capacity \in Int
  <2>1. capacity \in 0..MaxCap
    BY DEF TypeOK
  <2> QED
    BY <2>1
<1> QED
  BY <1>1, <1>2, <1>3, FiniteTallies, FS_CardinalityType DEF TalliesTyped, TypeOK

LEMMA TalliesAfter == TypeOK' => TalliesTyped'
BY Tallies, PTL

\* What a client's step does to the counters, it does to those that lag behind.
LEMMA ClientCounts ==
  ASSUME Typed, Hands, Parts, Filled, NEW p \in Clients, StartGet(p) \/ ClientSteps(p)
  PROVE  /\ available' + In(p, Taking') = available + In(p, Taking)
         /\ inUse' - In(p, Using') = inUse - In(p, Using)
         /\ active' + In(p, Opened') - (Cardinality(open') + In(p, Replacing'))
              = active + In(p, Opened) - (Cardinality(open) + In(p, Replacing))
<1>1. /\ TypeOK /\ p \in Procs /\ p \in Borrowers /\ p \in Clients
      /\ pc \in [Procs -> ClientLabels \cup KeeperLabels \cup ShrinkerLabels]
      /\ IsFiniteSet(open) /\ Cardinality(open) \in Nat
      /\ available \in Int /\ active \in Int /\ inUse \in Int
  BY Tallies, ProcKinds DEF Typed, TypeOK, Borrowers, TalliesTyped
<1> DEFINE taking(l) == l \in {"claimed", "using", "reopen", "return", "returned", "released"}
           using(l) == l \in {"using", "reopen", "return", "returned"}
           n(b) == IF b THEN 1 ELSE 0
           l == pc[p]
           m == pc'[p]
<1>2. /\ In(p, Taking) = n(taking(l)) /\ In(p, Using) = n(using(l))
      /\ In(p, Opened) = n(l = "opened") /\ In(p, Replacing) = n(l = "reopen")
      /\ In(p, Taking') = n(taking(m)) /\ In(p, Using') = n(using(m))
      /\ In(p, Opened') = n(m = "opened") /\ In(p, Replacing') = n(m = "reopen")
  BY <1>1 DEF In, Taking, Using, Opened, Replacing
<1> USE DEF Goto, counters
<1>3. CASE StartGet(p) \/ Expire(p) \/ Refuse(p) \/ Fetch(p) \/ Scan(p) \/ ScanEnds(p) \/ Restore(p)
             \/ OpenFails(p) \/ Refund(p)
  <2>1. open' = open /\ UNCHANGED <<available, active, inUse>>
    BY <1>3 DEF StartGet, Expire, Refuse, Fetch, Scan, ScanEnds, Restore, OpenFails, Refund
  <2>2. l \notin {"claimed", "using", "reopen", "return", "returned", "released", "opened"}
    BY <1>3 DEF StartGet, Expire, Refuse, Fetch, Scan, ScanEnds, Restore, OpenFails, Refund
  <2>3. m \notin {"claimed", "using", "reopen", "return", "returned", "released", "opened"}
    BY <1>1, <1>3 DEF StartGet, Expire, Refuse, Fetch, Scan, ScanEnds, Restore, OpenFails, Refund,
      AfterScan
  <2> HIDE DEF l, m
  <2> QED
    BY <1>1, <1>2, <2>1, <2>2, <2>3
<1>4. CASE Open(p) \/ Reopen(p)
  <2>1. PICK s \in Sessions \ open : open' = open \cup {s}
    BY <1>4 DEF Open, Reopen
  <2>2. Cardinality(open') = Cardinality(open) + 1
    BY <1>1, <2>1, FS_AddElement
  <2>3. /\ (l = "open" /\ m = "opened") \/ (l = "reopen" /\ m = "return")
        /\ UNCHANGED <<available, active, inUse>>
    BY <1>1, <1>4 DEF Open, Reopen
  <2> HIDE DEF l, m
  <2> QED
    BY <1>1, <1>2, <2>2, <2>3
<1>5. CASE CountOpened(p) \/ CountTaken(p) \/ CountInUse(p) \/ CountReturned(p) \/ CountAvailable(p)
             \/ ReopenFails(p) \/ Put(p)
  <2>1. open' = open
    BY <1>5 DEF CountOpened, CountTaken, CountInUse, CountReturned, CountAvailable, ReopenFails, Put
  <2>2. \/ l = "opened" /\ m = "claim" /\ active' = active + 1 /\ UNCHANGED <<available, inUse>>
        \/ l = "claim" /\ m = "claimed" /\ available' = available - 1 /\ UNCHANGED <<active, inUse>>
        \/ l = "claimed" /\ m = "using" /\ inUse' = inUse + 1 /\ UNCHANGED <<available, active>>
        \/ l = "returned" /\ m = "released" /\ inUse' = inUse - 1 /\ UNCHANGED <<available, active>>
        \/ l = "released" /\ m = "idle" /\ available' = available + 1 /\ UNCHANGED <<active, inUse>>
        \/ l = "reopen" /\ m = "return" /\ active' = active - 1 /\ UNCHANGED <<available, inUse>>
        \/ l \in {"using", "return"} /\ m = "returned" /\ UNCHANGED <<available, active, inUse>>
    BY <1>1, <1>5 DEF CountOpened, CountTaken, CountInUse, CountReturned, CountAvailable, ReopenFails, Put
  <2> HIDE DEF l, m
  <2> QED
    BY <1>1, <1>2, <2>1, <2>2
<1>6. CASE Discard(p)
  <2>1. /\ l = "using" /\ m = "reopen" /\ open' = open \ {wrapper[p]}
        /\ UNCHANGED <<available, active, inUse>>
    BY <1>1, <1>6 DEF Discard
  <2>2. wrapper[p] \in open
    BY <1>1, <2>1 DEF Filled, Parts, Live
  <2>3. Cardinality(open') = Cardinality(open) - 1
    BY <1>1, <2>1, <2>2, FS_RemoveElement
  <2> HIDE DEF l, m
  <2> QED
    BY <1>1, <1>2, <2>1, <2>3
<1> QED
  BY <1>3, <1>4, <1>5, <1>6 DEF ClientSteps, GetSteps, PutSteps, ReopenSteps

LEMMA KeeperCounts ==
  ASSUME Typed, Hands, Parts, Tick \/ KeeperSteps
  PROVE  /\ UNCHANGED <<available, inUse>>
         /\ active' - (Cardinality(open') + In(Housekeeper, Replacing'))
              = active - (Cardinality(open) + In(Housekeeper, Replacing))
<1> DEFINE p == Housekeeper
           n(b) == IF b THEN 1 ELSE 0
<1>1. /\ TypeOK /\ p \in Procs /\ p \in Borrowers
      /\ pc \in [Procs -> ClientLabels \cup KeeperLabels \cup ShrinkerLabels]
      /\ IsFiniteSet(open) /\ Cardinality(open) \in Nat /\ active \in Int
  BY Tallies, ProcKinds DEF Typed, TypeOK, Borrowers, TalliesTyped
<1>2. /\ In(p, Replacing) = n(pc[p] = "reopen") /\ In(p, Replacing') = n(pc'[p] = "reopen")
  BY <1>1 DEF In, Replacing
<1> USE DEF Goto, counters
<1>3. UNCHANGED <<available, inUse>>
  BY DEF Tick, KeeperSteps, Sweep, SweepEnds, CloseIdle, GiveBack, ReopenSteps, Reopen, ReopenFails
<1>4. CASE Tick \/ Sweep \/ SweepEnds \/ GiveBack
  <2>1. open' = open /\ active' = active /\ pc[p] # "reopen" /\ pc'[p] # "reopen"
    BY <1>1, <1>4 DEF Tick, Sweep, SweepEnds, GiveBack, Sweeping
  <2> QED
    BY <1>1, <1>2, <1>3, <2>1
<1>5. CASE CloseIdle
  <2>1. /\ wrapper[p] # Empty /\ open' = open \ {wrapper[p]} /\ active' = active
        /\ pc[p] # "reopen" /\ pc'[p] = "reopen"
    BY <1>1, <1>5 DEF CloseIdle
  <2>2. wrapper[p] \in open
    BY <1>1, <2>1 DEF Parts, Live
  <2>3. Cardinality(open') = Cardinality(open) - 1
    BY <1>1, <2>1, <2>2, FS_RemoveElement
  <2> QED
    BY <1>1, <1>2, <1>3, <2>1, <2>3
<1>6. CASE Reopen(p)
  <2>1. PICK s \in Sessions \ open : open' = open \cup {s}
    BY <1>6 DEF Reopen
  <2>2. Cardinality(open') = Cardinality(open) + 1
    BY <1>1, <2>1, FS_AddElement
  <2>3. pc[p] = "reopen" /\ pc'[p] # "reopen" /\ active' = active
    BY <1>1, <1>6 DEF Reopen
  <2> QED
    BY <1>1, <1>2, <1>3, <2>2, <2>3
<1>7. CASE ReopenFails(p)
  <2>1. open' = open /\ pc[p] = "reopen" /\ pc'[p] # "reopen" /\ active' = active - 1
    BY <1>1, <1>7 DEF ReopenFails
  <2> QED
    BY <1>1, <1>2, <1>3, <2>1
<1> QED
  BY <1>4, <1>5, <1>6, <1>7 DEF KeeperSteps, ReopenSteps

LEMMA ShrinkerCounts ==
  ASSUME Typed, Rested, Hands, Parts, Filled,
         NEW k \in Shrinkers, ResizeSteps(k) \/ CallClose(k) \/ CallSetCapacity(k)
  PROVE  /\ available' + Growing'[k] + In(k, Adding') - (capacity' + Shrinking'[k] + In(k, Removing'))
              = available + Growing[k] + In(k, Adding) - (capacity + Shrinking[k] + In(k, Removing))
         /\ inUse' = inUse
         /\ active' - (Cardinality(open') + In(k, Retired'))
              = active - (Cardinality(open) + In(k, Retired))
<1>1. /\ TypeOK /\ k \in Procs /\ k \in Procs \ Clients /\ k \in Shrinkers
      /\ pc \in [Procs -> ClientLabels \cup KeeperLabels \cup ShrinkerLabels]
      /\ left \in [Procs \ Clients -> Nat]
      /\ IsFiniteSet(open) /\ Cardinality(open) \in Nat /\ available \in Int /\ active \in Int
      /\ capacity \in 0..MaxCap /\ target[k] \in 0..MaxCap /\ MaxCap \in Nat
  BY Tallies, ProcKinds, PoolAssumption DEF Typed, TypeOK, TalliesTyped
<1> DEFINE n(b) == IF b THEN 1 ELSE 0
           l == pc[k]
           m == pc'[k]
           c == left[k]
           d == left'[k]
<1>2. /\ In(k, Adding) = n(l = "grown") /\ In(k, Adding') = n(m = "grown")
      /\ In(k, Removing) = n(l \in {"retire", "retired", "shrunk"})
      /\ In(k, Removing') = n(m \in {"retire", "retired", "shrunk"})
      /\ In(k, Retired) = n(l = "retired") /\ In(k, Retired') = n(m = "retired")
  BY <1>1 DEF In, Adding, Removing, Retired
<1>3. /\ Growing[k] = IF l \in {"grow", "grown"} THEN c ELSE 0
      /\ Growing'[k] = IF m \in {"grow", "grown"} THEN d ELSE 0
      /\ Shrinking[k] = IF l \in {"grow", "grown"} THEN 0 ELSE c
      /\ Shrinking'[k] = IF m \in {"grow", "grown"} THEN 0 ELSE d
  BY DEF Growing, Shrinking
<1>4. c \in Nat /\ l \in ShrinkerLabels
  BY <1>1 DEF TypeOK
<1> USE DEF Goto, counters, loopVars
<1>5. inUse' = inUse
  BY DEF ResizeSteps, CallClose, CallSetCapacity, StopTimer, Unchanged, Swap, Shrink, Retire,
    CountRetired, CountShrunk, CloseChannel, Grow, CountGrown
<1>6. CASE CallClose(k) \/ CallSetCapacity(k) \/ StopTimer(k) \/ Unchanged(k) \/ CloseChannel(k)
  <2>1. /\ l \in {"idle", "stop", "resize", "close"} /\ m \in {"idle", "stop", "resize", "close"}
        /\ d = c /\ UNCHANGED <<capacity, available, active, open>>
    BY <1>1, <1>6 DEF CallClose, CallSetCapacity, StopTimer, Unchanged, CloseChannel
  <2> HIDE DEF l, m, c, d
  <2> QED
    BY <1>1, <1>2, <1>3, <1>4, <1>5, <2>1
<1>7. CASE Swap(k)
  <2>1. /\ l = "resize" /\ UNCHANGED <<available, active, open>> /\ capacity' = target[k] /\ c = 0
        /\ \/ target[k] < capacity /\ m = "shrink" /\ d = capacity - target[k]
           \/ ~(target[k] < capacity) /\ m = "grow" /\ d = target[k] - capacity
    BY <1>1, <1>7 DEF Swap, Rested
  <2> HIDE DEF l, m, c, d
  <2> QED
    BY <1>1, <1>2, <1>3, <1>4, <1>5, <2>1
<1>8. CASE Shrink(k) \/ Grow(k)
  <2>1. /\ \/ l = "shrink" /\ m \in {"shrunk", "retire"}
           \/ l = "grow" /\ m = "grown"
        /\ d = c - 1 /\ UNCHANGED <<capacity, available, active, open>>
    BY <1>1, <1>8 DEF Shrink, Grow
  <2> HIDE DEF l, m, c, d
  <2> QED
    BY <1>1, <1>2, <1>3, <1>4, <1>5, <2>1
<1>9. CASE Retire(k)
  <2>1. /\ l = "retire" /\ m = "retired" /\ open' = open \ {wrapper[k]}
        /\ d = c /\ UNCHANGED <<capacity, available, active>>
    BY <1>1, <1>9 DEF Retire
  <2>2. wrapper[k] \in open
    BY <1>1, <2>1 DEF Filled, Parts, Live
  <2>3. Cardinality(open') = Cardinality(open) - 1
    BY <1>1, <2>1, <2>2, FS_RemoveElement
  <2> HIDE DEF l, m, c, d
  <2> QED
    BY <1>1, <1>2, <1>3, <1>4, <1>5, <2>1, <2>3
<1>10. CASE CountRetired(k)
  <2>1. /\ l = "retired" /\ m = "shrunk" /\ active' = active - 1
        /\ d = c /\ UNCHANGED <<capacity, available, open>>
    BY <1>1, <1>10 DEF CountRetired
  <2> HIDE DEF l, m, c, d
  <2> QED
    BY <1>1, <1>2, <1>3, <1>4, <1>5, <2>1
<1>11. CASE CountShrunk(k)
  <2>1. /\ l = "shrunk" /\ m \in {"shrink", "close", "idle"} /\ available' = available - 1
        /\ d = c /\ UNCHANGED <<capacity, active, open>>
    BY <1>1, <1>11 DEF CountShrunk
  <2> HIDE DEF l, m, c, d
  <2> QED
    BY <1>1, <1>2, <1>3, <1>4, <1>5, <2>1
<1>12. CASE CountGrown(k)
  <2>1. /\ l = "grown" /\ available' = available + 1 /\ d = c /\ UNCHANGED <<capacity, active, open>>
        /\ m = "grow" \/ (m = "idle" /\ ~(c > 0))
    BY <1>1, <1>12 DEF CountGrown
  <2> HIDE DEF l, m, c, d
  <2>2. m = "grow" \/ (m = "idle" /\ c = 0)
    BY <1>4, <2>1, NoneLeft
  <2> QED
    BY <1>1, <1>2, <1>3, <1>4, <1>5, <2>1, <2>2
<1> QED
  BY <1>6, <1>7, <1>8, <1>9, <1>10, <1>11, <1>12 DEF ResizeSteps

Audited == Balanced /\ Placed /\ Filled /\ Counted

LEMMA InitAudited == Init => Audited
<1> SUFFICES ASSUME Init PROVE Audited
  OBVIOUS
<1>1. Balanced /\ Placed /\ TypeOK
  BY InitBalanced, InitPlaced, InitTyped DEF Typed
<1>2. Filled
  BY ProcKinds DEF Init, Filled
<1>3. /\ Taking = {} /\ Using = {} /\ Opened = {} /\ Replacing = {} /\ Retired = {}
      /\ Removing = {} /\ Adding = {} /\ open = {}
  BY ProcKinds DEF Init, Taking, Using, Opened, Replacing, Retired, Removing, Adding, Borrowers
<1>4. Total(Growing) = 0 /\ Total(Shrinking) = 0
  <2>1. \A k \in Shrinkers : Growing[k] = 0 /\ Shrinking[k] = 0
    BY ProcKinds DEF Init, Growing, Shrinking
  <2> QED
    BY <1>1, <2>1, Accounts, FiniteKinds, TotalZero DEF AccountsTyped
<1>5. Counted
  <2>1. available = capacity /\ active = 0 /\ inUse = 0 /\ capacity \in Int
    BY <1>1, Tallies DEF Init, TalliesTyped
  <2> QED
    BY <1>3, <1>4, <2>1, FS_EmptySet DEF Counted, AvailableRight, InUseRight, ActiveRight
<1> QED
  BY <1>1, <1>2, <1>5 DEF Audited

\* What a step adds to a counter and to one tally, or takes from another.
LEMMA Shift ==
  ASSUME NEW a \in Int, NEW b \in Int, NEW n \in Int, NEW m \in Int, NEW i \in Int, NEW j \in Int,
         m - j = n - i
  PROVE  (b + j = a + i => b + m = a + n) /\ (b - j = a - i => b - m = a - n)
OBVIOUS

LEMMA ShiftTwo ==
  ASSUME NEW a \in Int, NEW b \in Int, NEW n \in Int, NEW m \in Int, NEW i \in Int, NEW j \in Int,
         NEW p \in Int, NEW q \in Int, NEW k \in Int, NEW l \in Int, NEW e \in Int, NEW f \in Int,
         m - j = n - i, q - l = p - k, b + j - (f + l) = a + i - (e + k)
  PROVE  b + m - (f + q) = a + n - (e + p)
OBVIOUS

LEMMA ShiftOne ==
  ASSUME NEW a \in Int, NEW b \in Int, NEW p \in Int, NEW q \in Int, NEW k \in Int, NEW l \in Int,
         NEW e \in Int, NEW f \in Int, q - l = p - k, b - (f + l) = a - (e + k)
  PROVE  b - (f + q) = a - (e + p)
OBVIOUS

LEMMA NextCounted == Audited /\ [Next]_vars => Counted'
<1> SUFFICES ASSUME Audited, [Next]_vars PROVE Counted'
  OBVIOUS
<1>1. /\ Typed /\ TypeOK /\ TypeOK' /\ Rested /\ Filled /\ Counted
      /\ TalliesTyped /\ TalliesTyped'
  BY NextTyped, Tallies, TalliesAfter DEF Audited, Balanced, Typed
<1> USE <1>1 DEF TalliesTyped, Counted, AvailableRight, InUseRight, ActiveRight
<1>2. ASSUME fault = "none" PROVE Hands /\ Parts
  BY <1>2 DEF Audited, Placed, NoPanic
<1>3. ASSUME NEW p \in Clients, StartGet(p) \/ ClientSteps(p) PROVE Counted'
  <2>1. Hands /\ Parts
    BY <1>2, <1>3, ClientMoves DEF Goto
  <2>2. /\ available' + In(p, Taking') = available + In(p, Taking)
        /\ inUse' - In(p, Using') = inUse - In(p, Using)
        /\ active' + In(p, Opened') - (Cardinality(open') + In(p, Replacing'))
             = active + In(p, Opened) - (Cardinality(open) + In(p, Replacing))
    BY <1>3, <2>1, ClientCounts
  <2>3. /\ \A q \in Procs \ {p} : pc'[q] = pc[q]
        /\ UNCHANGED <<left, capacity>>
    BY <1>3, ClientFrame
  <2>4. Growing' = Growing /\ Shrinking' = Shrinking
    BY <2>3, ProcKinds DEF Growing, Shrinking
  <2>5. /\ Cardinality(Taking') - In(p, Taking') = Cardinality(Taking) - In(p, Taking)
        /\ Cardinality(Using') - In(p, Using') = Cardinality(Using) - In(p, Using)
        /\ Cardinality(Opened') - In(p, Opened') = Cardinality(Opened) - In(p, Opened)
        /\ Cardinality(Replacing') - In(p, Replacing') = Cardinality(Replacing) - In(p, Replacing)
        /\ Retired' = Retired /\ Removing' = Removing /\ Adding' = Adding
    BY <2>3, ClientTallies
  <2>6. /\ In(p, Taking) \in Nat /\ In(p, Taking') \in Nat /\ In(p, Using) \in Nat /\ In(p, Using') \in Nat
        /\ In(p, Opened) \in Nat /\ In(p, Opened') \in Nat
        /\ In(p, Replacing) \in Nat /\ In(p, Replacing') \in Nat
    BY DEF In
  <2>7. available' + Cardinality(Taking') = available + Cardinality(Taking)
        /\ inUse' - Cardinality(Using') = inUse - Cardinality(Using)
    BY <2>2, <2>5, <2>6, Shift
  <2>8. active' + Cardinality(Opened') - (Cardinality(open') + Cardinality(Replacing'))
          = active + Cardinality(Opened) - (Cardinality(open) + Cardinality(Replacing))
    BY <2>2, <2>5, <2>6, ShiftTwo
  <2>9. AvailableRight'
    BY <2>3, <2>4, <2>5, <2>7
  <2>10. InUseRight' /\ ActiveRight'
    BY <2>5, <2>7, <2>8
  <2> QED
    BY <2>9, <2>10
<1>4. CASE Tick \/ KeeperSteps
  <2>1. Hands /\ Parts
    BY <1>2, <1>4, KeeperMoves DEF Goto
  <2>2. /\ UNCHANGED <<available, inUse>>
        /\ active' - (Cardinality(open') + In(Housekeeper, Replacing'))
             = active - (Cardinality(open) + In(Housekeeper, Replacing))
    BY <1>4, <2>1, KeeperCounts
  <2>3. /\ \A q \in Procs \ {Housekeeper} : pc'[q] = pc[q]
        /\ \A k \in Shrinkers : left'[k] = left[k]
        /\ capacity' = capacity
    BY <1>4, KeeperFrame
  <2>4. Growing' = Growing /\ Shrinking' = Shrinking
    BY <2>3, ProcKinds DEF Growing, Shrinking
  <2>5. UNCHANGED <<Taking, Using, Opened, Retired, Removing, Adding>>
    BY <2>3, KeeperTallies
  <2>6. /\ Cardinality(Replacing') - In(Housekeeper, Replacing')
             = Cardinality(Replacing) - In(Housekeeper, Replacing)
        /\ In(Housekeeper, Replacing) \in Int /\ In(Housekeeper, Replacing') \in Int
    BY <2>3, KeeperTallies DEF In
  <2>7. AvailableRight' /\ InUseRight'
    BY <2>2, <2>3, <2>4, <2>5
  <2>8. active' - (Cardinality(open') + Cardinality(Replacing'))
          = active - (Cardinality(open) + Cardinality(Replacing))
    BY <2>2, <2>6, ShiftOne
  <2>9. ActiveRight'
    BY <2>5, <2>8
  <2> QED
    BY <2>7, <2>9
<1>5. ASSUME NEW k \in Shrinkers, ResizeSteps(k) \/ CallClose(k) \/ CallSetCapacity(k) PROVE Counted'
  <2>1. Hands /\ Parts
    BY <1>2, <1>5, ShrinkerMoves DEF Goto
  <2>2. /\ available' + Growing'[k] + In(k, Adding') - (capacity' + Shrinking'[k] + In(k, Removing'))
             = available + Growing[k] + In(k, Adding) - (capacity + Shrinking[k] + In(k, Removing))
        /\ inUse' = inUse
        /\ active' - (Cardinality(open') + In(k, Retired'))
             = active - (Cardinality(open) + In(k, Retired))
    BY <1>5, <2>1, ShrinkerCounts
  <2>3. /\ \A q \in Procs \ {k} : pc'[q] = pc[q]
        /\ \A j \in Shrinkers \ {k} : left'[j] = left[j]
    BY <1>5, ShrinkerFrame
  <2>4. /\ Total(Growing') - Growing'[k] = Total(Growing) - Growing[k]
        /\ Total(Shrinking') - Shrinking'[k] = Total(Shrinking) - Shrinking[k]
    BY <2>3, LeftChange, ProcKinds
  <2>5. /\ Cardinality(Retired') - In(k, Retired') = Cardinality(Retired) - In(k, Retired)
        /\ Cardinality(Removing') - In(k, Removing') = Cardinality(Removing) - In(k, Removing)
        /\ Cardinality(Adding') - In(k, Adding') = Cardinality(Adding) - In(k, Adding)
        /\ UNCHANGED <<Taking, Using, Opened, Replacing>>
    BY <2>3, ShrinkerTallies
  <2>6. /\ In(k, Retired) \in Nat /\ In(k, Retired') \in Nat /\ In(k, Removing) \in Nat
        /\ In(k, Removing') \in Nat /\ In(k, Adding) \in Nat /\ In(k, Adding') \in Nat
        /\ Growing[k] \in Nat /\ Growing'[k] \in Nat /\ Shrinking[k] \in Nat /\ Shrinking'[k] \in Nat
    BY Accounts, AccountsAfter DEF In, AccountsTyped
  <2>7. available' + Total(Growing') + Cardinality(Adding')
            - (capacity' + Total(Shrinking') + Cardinality(Removing'))
          = available + Total(Growing) + Cardinality(Adding)
            - (capacity + Total(Shrinking) + Cardinality(Removing))
    <3> DEFINE a == available         aa == available'
               c == capacity          cc == capacity'
               g == Total(Growing)    gg == Total(Growing')
               s == Total(Shrinking)  ss == Total(Shrinking')
               n == Cardinality(Adding)    nn == Cardinality(Adding')
               m == Cardinality(Removing)  mm == Cardinality(Removing')
               i == Growing[k]        ii == Growing'[k]
               j == Shrinking[k]      jj == Shrinking'[k]
               l == In(k, Adding)     ll == In(k, Adding')
               r == In(k, Removing)   rr == In(k, Removing')
    <3>1. /\ aa + ii + ll - (cc + jj + rr) = a + i + l - (c + j + r)
          /\ gg - ii = g - i /\ ss - jj = s - j /\ nn - ll = n - l /\ mm - rr = m - r
      BY <2>2, <2>4, <2>5
    <3>2. /\ a \in Int /\ aa \in Int /\ c \in Int /\ cc \in Int /\ g \in Int /\ gg \in Int
          /\ s \in Int /\ ss \in Int /\ n \in Int /\ nn \in Int /\ m \in Int /\ mm \in Int
          /\ i \in Int /\ ii \in Int /\ j \in Int /\ jj \in Int /\ l \in Int /\ ll \in Int
          /\ r \in Int /\ rr \in Int
      BY <2>6
    <3> HIDE DEF a, aa, c, cc, g, gg, s, ss, n, nn, m, mm, i, ii, j, jj, l, ll, r, rr
    <3>3. aa + gg + nn - (cc + ss + mm) = a + g + n - (c + s + m)
      BY <3>1, <3>2
    <3> QED
      BY <3>3 DEF a, aa, c, cc, g, gg, s, ss, n, nn, m, mm
  <2>8. active' - (Cardinality(open') + Cardinality(Retired'))
          = active - (Cardinality(open) + Cardinality(Retired))
    BY <2>2, <2>5, <2>6, ShiftOne
  <2> QED
    BY <2>2, <2>5, <2>7, <2>8
<1>6. CASE UNCHANGED vars
  <2>1. UNCHANGED <<available, active, inUse, capacity, open, pc, left>>
    BY <1>6 DEF vars, counters, loopVars
  <2>2. UNCHANGED <<Taking, Using, Opened, Replacing, Retired, Removing, Adding, Growing, Shrinking>>
    BY <2>1 DEF Taking, Using, Opened, Replacing, Retired, Removing, Adding, Growing, Shrinking
  <2> QED
    BY <2>1, <2>2
<1> QED
  BY <1>3, <1>4, <1>5, <1>6, StepKinds

LEMMA NextAudited == Audited /\ [Next]_vars => Audited'
<1> SUFFICES ASSUME Audited, [Next]_vars PROVE Audited'
  OBVIOUS
<1>1. Balanced'
  BY NextTyped, NextRested, NextConservation DEF Audited, Balanced
<1> QED
  BY <1>1, NextPlaced, NextFilled, NextCounted DEF Audited, Balanced

\* Between two updates nothing lags behind.
LEMMA AuditedAgree == Audited => CountersAgree
<1> SUFFICES ASSUME Audited, \A p \in Procs : pc[p] \in {"idle", "fetch", "using"}
             PROVE  /\ available = capacity - inUse
                    /\ active = Cardinality(open)
                    /\ inUse = Cardinality({p \in Clients : pc[p] = "using"})
  BY DEF CountersAgree
<1>1. TypeOK /\ Rested /\ Counted /\ TalliesTyped /\ AccountsTyped
  BY Tallies, Accounts DEF Audited, Balanced, Typed
<1>2. /\ Taking = {p \in Clients : pc[p] = "using"} /\ Using = {p \in Clients : pc[p] = "using"}
      /\ Opened = {} /\ Replacing = {} /\ Retired = {} /\ Removing = {} /\ Adding = {}
  BY ProcKinds DEF Taking, Using, Opened, Replacing, Retired, Removing, Adding, Borrowers
<1>3. Total(Growing) = 0 /\ Total(Shrinking) = 0
  <2>1. \A k \in Shrinkers : pc[k] = "idle"
    BY <1>1, ProcKinds DEF TypeOK, ShrinkerLabels
  <2>2. \A k \in Shrinkers : Growing[k] = 0 /\ Shrinking[k] = 0
    BY <1>1, <2>1 DEF Rested, Growing, Shrinking
  <2> QED
    BY <1>1, <2>2, FiniteKinds, TotalZero DEF AccountsTyped
<1> QED
  BY <1>1, <1>2, <1>3, FS_EmptySet DEF Counted, AvailableRight, InUseRight, ActiveRight, TalliesTyped

\* The counters behind PoolStats never drift: whenever no goroutine is between two
\* updates of them they agree with the pool, with any number of clients, closers and
\* SetCapacity calls, whatever has failed or panicked before.
THEOREM CountersRight == Spec => []CountersAgree
BY InitAudited, NextAudited, AuditedAgree, PTL DEF Spec

----------------------------------------------------------------------------
(* Close, and SetCapacity when it is safe: when nobody calls it but Close, *)
(* as in crypto11, or when one goroutine does and never asks for a capacity*)
(* of zero while the timer may run.  The goroutine whose compare-and-swap  *)
(* succeeds is then the only one at work, the timer has stopped before the *)
(* channel is closed, and all that Close closes is back in the channel.    *)

Single ==
  \/ Resizers = {}
  \/ (0 \notin Targets \/ ~HasIdleTimer) /\ \A j, k \in Shrinkers : j = k

Working == {"shrink", "retire", "retired", "shrunk", "close", "grow", "grown"}

Orderly ==
  /\ Resizers = {} => \A k \in Shrinkers : target[k] = 0
  /\ ~HasIdleTimer => ~running
  /\ \A k \in Shrinkers : pc[k] \in Working => capacity = target[k] /\ ~closed
  /\ \A k \in Shrinkers : pc[k] = "close" => target[k] = 0
  /\ \A k \in Shrinkers : pc[k] \in {"grow", "grown"} => target[k] # 0
  /\ \A j, k \in Shrinkers : pc[j] \in Working /\ pc[k] \in Working => j = k
  /\ \A k \in Shrinkers : pc[k] \in Working \cup {"resize"} /\ target[k] = 0 => ~running
  /\ ~running => pc[Housekeeper] = "idle"
  /\ closed => ~running /\ capacity = 0

Bounded == capacity + Total(Shrinking) <= MaxCap

\* The entry a shrinker has in hand is no longer counted as left to take.
Spare == \A k \in Shrinkers : pc[k] = "retire" => capacity + Total(Shrinking) < MaxCap

Emptied == closed => /\ resources = <<>> /\ open = {}
                     /\ \A p \in Borrowers : Loans[p] = 0

Sound == Balanced /\ Placed /\ NoPanic /\ Orderly /\ Bounded /\ Spare /\ Emptied

LEMMA InitSound == Init => Sound
<1> SUFFICES ASSUME Init PROVE Sound
  OBVIOUS
<1>1. Balanced /\ Placed /\ NoPanic
  BY InitBalanced, InitPlaced DEF Init, NoPanic
<1>2. Orderly
  BY ProcKinds DEF Init, Orderly, Working
<1>3. Bounded
  <2>1. Shrinking \in [Shrinkers -> Nat] /\ \A k \in Shrinkers : Shrinking[k] = 0
    BY ProcKinds DEF Init, Shrinking
  <2>2. Total(Shrinking) = 0
    BY <2>1, FiniteKinds, TotalZero
  <2>3. capacity \in 1..MaxCap /\ MaxCap \in Nat
    BY PoolAssumption DEF Init
  <2> QED
    BY <2>2, <2>3 DEF Bounded
<1>4. Spare /\ Emptied
  BY ProcKinds DEF Init, Spare, Emptied
<1> QED
  BY <1>1, <1>2, <1>3, <1>4 DEF Sound

\* A borrower owes an entry at every label of Lent, and a client those it holds.
LEMMA Loan ==
  ASSUME TypeOK, NEW p \in Borrowers
  PROVE  /\ Loans[p] \in Nat
         /\ pc[p] \in Lent => Loans[p] >= 1
         /\ p \in Clients /\ Loans[p] = 0 => held[p] = 0
<1>1. CASE p \in Clients
  <2>1. Loans[p] = (IF pc[p] \in Lent THEN 1 ELSE 0) + held[p]
    BY <1>1 DEF Loans
  <2>2. held[p] \in Nat
    BY <1>1 DEF TypeOK
  <2> QED
    BY <2>1, <2>2
<1>2. CASE p = Housekeeper
  <2>1. p \notin Clients
    BY <1>2, ProcKinds
  <2>2. Loans[p] = (IF pc[p] \in Lent THEN 1 ELSE 0) + 0
    BY <1>2, <2>1 DEF Loans
  <2> QED
    BY <2>1, <2>2
<1> QED
  BY <1>1, <1>2 DEF Borrowers

\* While the pool is open and p owes it an entry, the channel has room for it.
LEMMA Room ==
  ASSUME Sound, ~closed, NEW p \in Borrowers, pc[p] \in Lent
  PROVE  Len(resources) < MaxCap
<1>1. TypeOK /\ AccountsTyped
  BY Accounts DEF Sound, Balanced, Typed
<1>2. Len(resources) + Total(Loans) + Total(Growing) = capacity + Total(Shrinking)
  BY DEF Sound, Balanced, Conservation
<1>3. Loans[p] <= Total(Loans)
  BY <1>1, FiniteKinds, TotalBound DEF AccountsTyped
<1>4. Loans[p] \in Nat /\ Loans[p] >= 1
  BY <1>1, Loan
<1>5. capacity \in Nat /\ MaxCap \in Nat
  <2>1. capacity \in 0..MaxCap /\ MaxCap \in Nat
    BY <1>1, PoolAssumption DEF TypeOK
  <2> QED
    BY <2>1
<1> DEFINE r == Len(resources)
           t == Total(Loans)
           g == Total(Growing)
           s == Total(Shrinking)
           l == Loans[p]
<1>6. /\ r \in Nat /\ t \in Nat /\ g \in Nat /\ s \in Nat /\ l \in Nat /\ l >= 1 /\ l <= t
      /\ r + t + g = capacity + s /\ capacity + s <= MaxCap
  BY <1>1, <1>2, <1>3, <1>4 DEF AccountsTyped, Sound, Bounded
<1> HIDE DEF r, t, g, s, l
<1>7. r < MaxCap
  BY <1>5, <1>6
<1> QED
  BY <1>7 DEF r

LEMMA NextNoPanic ==
  ASSUME Single, Sound, [Next]_vars
  PROVE  NoPanic'
<1>1. TypeOK /\ fault = "none" /\ Orderly /\ Emptied
  BY DEF Sound, Balanced, Typed, NoPanic
<1>2. ASSUME NEW p \in Borrowers, pc[p] \in Lent
      PROVE  ~closed /\ Len(resources) < MaxCap
  <2>1. Loans[p] # 0
    BY <1>1, <1>2, Loan
  <2>2. ~closed
    BY <1>1, <2>1 DEF Emptied
  <2> QED
    BY <1>2, <2>2, Room
<1> USE DEF NoPanic, chanVars
<1>3. ASSUME NEW p \in Clients, StartGet(p) \/ ClientSteps(p) PROVE NoPanic'
  <2>1. CASE StartGet(p) \/ Expire(p) \/ Refuse(p) \/ ScanEnds(p) \/ Open(p) \/ OpenFails(p)
             \/ CountOpened(p) \/ CountTaken(p) \/ CountInUse(p)
    BY <1>1, <2>1 DEF StartGet, Expire, Refuse, ScanEnds, Open, OpenFails, CountOpened, CountTaken,
      CountInUse
  <2>2. CASE Fetch(p) \/ Scan(p)
    BY <1>1, <2>2 DEF Fetch, Scan, Receive
  <2>3. CASE Restore(p) \/ Refund(p) \/ Put(p)
    <3>1. p \in Borrowers /\ pc[p] \in Lent
      BY <2>3 DEF Restore, Refund, Put, Lent, Borrowers
    <3>2. ~closed /\ Len(resources) < MaxCap
      BY <1>2, <3>1
    <3>3. Len(resources) \in Nat /\ MaxCap \in Nat
      BY <1>1, LenProperties, PoolAssumption DEF TypeOK
    <3>4. ~(Len(resources) >= MaxCap)
      BY <3>2, <3>3
    <3>5. PICK e : Send(e) \/ SendOrPanic(e)
      BY <2>3 DEF Restore, Refund, Put
    <3> QED
      BY <1>1, <3>2, <3>4, <3>5 DEF Send, SendOrPanic
  <2>4. CASE Discard(p) \/ CountReturned(p) \/ CountAvailable(p) \/ ReopenSteps(p)
    BY <1>1, <2>4 DEF Discard, CountReturned, CountAvailable, ReopenSteps, Reopen, ReopenFails
  <2> QED
    BY <1>3, <2>1, <2>2, <2>3, <2>4 DEF ClientSteps, GetSteps, PutSteps
<1>4. CASE Tick \/ KeeperSteps
  <2>1. CASE GiveBack
    BY <1>1, <1>2, <2>1 DEF GiveBack, Send, Lent, Borrowers
  <2>2. CASE Tick \/ Sweep \/ SweepEnds \/ CloseIdle \/ ReopenSteps(Housekeeper)
    BY <1>1, <2>2 DEF Tick, Sweep, SweepEnds, CloseIdle, ReopenSteps, Reopen, ReopenFails, Receive
  <2> QED
    BY <1>4, <2>1, <2>2 DEF KeeperSteps
<1>5. ASSUME NEW k \in Shrinkers, ResizeSteps(k) \/ CallClose(k) \/ CallSetCapacity(k)
      PROVE  NoPanic'
  <2>1. CASE Grow(k)
    <3>1. ~closed
      BY <1>1, <2>1 DEF Grow, Orderly, Working
    <3> QED
      BY <1>1, <2>1, <3>1 DEF Grow, Send
  <2> QED
    BY <1>1, <1>5, <2>1 DEF ResizeSteps, CallClose, CallSetCapacity, StopTimer, Unchanged, Swap,
      Shrink, Retire, CountRetired, CountShrunk, CloseChannel, CountGrown, Receive
<1>6. CASE UNCHANGED vars
  BY <1>1, <1>6 DEF vars
<1> QED
  BY <1>3, <1>4, <1>5, <1>6, StepKinds

\* The steps there are then: with no resizer there is no SetCapacity.
LEMMA StepsOfSingle ==
  ASSUME Next
  PROVE  \/ \E p \in Clients : StartGet(p) \/ ClientSteps(p)
         \/ Tick \/ KeeperSteps
         \/ \E k \in Shrinkers : ResizeSteps(k) \/ CallClose(k) \/ (Resizers # {} /\ CallSetCapacity(k))
BY DEF Next, Shrinkers

LEMMA NextOrderly ==
  ASSUME Single, Sound, [Next]_vars
  PROVE  Orderly' /\ Bounded'
<1>1. TypeOK /\ TypeOK' /\ Orderly /\ Bounded /\ Rested
  <2>1. Typed /\ Typed'
    BY NextTyped DEF Sound, Balanced
  <2> QED
    BY <2>1 DEF Typed, Sound, Balanced
<1>2. ASSUME \A k \in Shrinkers : pc'[k] = pc[k] /\ left'[k] = left[k], capacity' = capacity
      PROVE  Bounded'
  <2>1. Shrinking' = Shrinking
    BY <1>2 DEF Shrinking
  <2> QED
    BY <1>1, <1>2, <2>1 DEF Bounded
<1>3. ASSUME NEW p \in Clients, StartGet(p) \/ ClientSteps(p) PROVE Orderly' /\ Bounded'
  <2>1. /\ \A q \in Procs \ {p} : pc'[q] = pc[q]
        /\ UNCHANGED <<left, target, capacity, closed, running>>
    BY <1>1, <1>3, ClientFrame
  <2> QED
    BY <1>1, <1>2, <2>1, ProcKinds DEF Orderly
<1>4. CASE Tick \/ KeeperSteps
  <2>1. /\ \A q \in Procs \ {Housekeeper} : pc'[q] = pc[q]
        /\ \A k \in Shrinkers : left'[k] = left[k]
        /\ UNCHANGED <<held, target, capacity, closed, running>>
    BY <1>1, <1>4, KeeperFrame
  <2>2. running
    <3>1. running \/ pc[Housekeeper] # "idle"
      BY <1>4 DEF Tick, KeeperSteps, Sweep, SweepEnds, CloseIdle, GiveBack, ReopenSteps, Reopen,
        ReopenFails
    <3> QED
      BY <1>1, <3>1 DEF Orderly
  <2> QED
    BY <1>1, <1>2, <2>1, <2>2, ProcKinds DEF Orderly
<1>5. ASSUME NEW k \in Shrinkers, ResizeSteps(k) \/ CallClose(k) \/ (Resizers # {} /\ CallSetCapacity(k))
      PROVE  Orderly' /\ Bounded'
  <2>1. /\ \A q \in Procs \ {k} : pc'[q] = pc[q]
        /\ \A j \in Shrinkers \ {k} : left'[j] = left[j] /\ target'[j] = target[j]
    BY <1>1, <1>5, ShrinkerFrame
  <2>2. k \in Procs \ Clients /\ pc'[Housekeeper] = pc[Housekeeper]
    BY <2>1, ProcKinds
  <2>3. target[k] \in 0..MaxCap /\ capacity \in 0..MaxCap /\ MaxCap \in Nat
    BY <1>1, PoolAssumption DEF TypeOK
  <2>4. Orderly'
    <3> USE DEF chanVars, loopVars, Goto, TypeOK
    <3>1. CASE CallClose(k) \/ Unchanged(k)
      <4>1. pc'[k] \in {"idle", "stop"} /\ UNCHANGED <<target, capacity, closed, running>>
        BY <1>1, <2>2, <3>1 DEF CallClose, Unchanged
      <4> QED
        BY <1>1, <2>1, <2>2, <4>1, ProcKinds DEF Orderly, Working
    <3>2. CASE StopTimer(k)
      <4>1. /\ pc'[k] = "resize" /\ target'[k] = 0 /\ ~running' /\ pc'[Housekeeper] = "idle"
            /\ UNCHANGED <<capacity, closed>>
        BY <1>1, <2>2, <3>2 DEF StopTimer, Orderly
      <4> QED
        BY <1>1, <2>1, <2>2, <4>1, ProcKinds DEF Orderly, Working
    <3>3. CASE Resizers # {} /\ CallSetCapacity(k)
      <4>1. pc'[k] = "resize" /\ target'[k] \in Targets /\ UNCHANGED <<capacity, closed, running>>
        BY <1>1, <2>2, <3>3 DEF CallSetCapacity
      <4>2. (0 \notin Targets \/ ~HasIdleTimer) /\ \A j \in Shrinkers : j = k
        BY <3>3 DEF Single
      <4> QED
        BY <1>1, <2>2, <3>3, <4>1, <4>2 DEF Orderly, Working
    <3>4. CASE Swap(k)
      <4>1. /\ pc[k] = "resize" /\ pc'[k] = (IF target[k] < capacity THEN "shrink" ELSE "grow")
            /\ capacity # 0 /\ capacity # target[k] /\ capacity' = target[k]
            /\ UNCHANGED <<target, closed, running>>
        BY <1>1, <2>2, <3>4 DEF Swap
      <4>2. ~closed /\ \A j \in Shrinkers : pc[j] \in Working => j = k
        BY <1>1, <4>1 DEF Orderly, Single
      <4>3. pc'[k] = "grow" => target[k] # 0
        BY <2>3, <4>1
      <4>4. pc'[k] \in {"shrink", "grow"}
        BY <4>1
      <4> QED
        BY <1>1, <2>1, <2>2, <4>1, <4>2, <4>3, <4>4, ProcKinds DEF Orderly, Working
    <3>5. CASE Shrink(k) \/ Retire(k) \/ CountRetired(k) \/ Grow(k)
      <4>1. /\ pc[k] \in Working \ {"close"} /\ pc'[k] \in Working \ {"close"}
            /\ pc'[k] \in {"grow", "grown"} => pc[k] \in {"grow", "grown"}
            /\ UNCHANGED <<target, capacity, closed, running>>
        BY <1>1, <2>2, <3>5 DEF Shrink, Retire, CountRetired, Grow, Receive, Send, Working
      <4> QED
        BY <1>1, <2>1, <2>2, <4>1, ProcKinds DEF Orderly, Working
    <3>6. CASE CountShrunk(k) \/ CountGrown(k)
      <4>1. /\ pc[k] \in Working /\ pc'[k] \in Working \cup {"idle"}
            /\ pc'[k] = "close" => target[k] = 0
            /\ pc'[k] \in {"grow", "grown"} => pc[k] \in {"grow", "grown"}
            /\ UNCHANGED <<target, capacity, closed, running>>
        BY <1>1, <2>2, <3>6 DEF CountShrunk, CountGrown, Working
      <4> QED
        BY <1>1, <2>1, <2>2, <4>1, ProcKinds DEF Orderly, Working
    <3>7. CASE CloseChannel(k)
      <4>1. pc[k] = "close" /\ pc'[k] = "idle" /\ UNCHANGED <<target, capacity, running>>
        BY <1>1, <2>2, <3>7 DEF CloseChannel
      <4>2. capacity = 0 /\ ~running /\ \A j \in Shrinkers : pc[j] \in Working => j = k
        BY <1>1, <4>1 DEF Orderly, Working
      <4> QED
        BY <1>1, <2>1, <2>2, <4>1, <4>2, ProcKinds DEF Orderly, Working
    <3> QED
      BY <1>5, <3>1, <3>2, <3>3, <3>4, <3>5, <3>6, <3>7 DEF ResizeSteps
  <2>5. Bounded'
    <3>1. capacity' + Shrinking'[k] <= capacity + Shrinking[k] \/ (capacity' + Total(Shrinking') <= MaxCap)
      <4> USE DEF Goto, chanVars, loopVars, TypeOK
      <4>1. /\ left[k] \in Nat
            /\ Shrinking[k] = IF pc[k] \in {"grow", "grown"} THEN 0 ELSE left[k]
            /\ Shrinking'[k] = IF pc'[k] \in {"grow", "grown"} THEN 0 ELSE left'[k]
        BY <1>1, <2>2 DEF Shrinking
      <4>2. CASE Swap(k) /\ target[k] < capacity
        <5>1. left[k] = 0 /\ capacity' = target[k] /\ left'[k] = capacity - target[k]
          BY <1>1, <2>2, <2>3, <4>2 DEF Swap, Rested
        <5>2. pc[k] = "resize" /\ pc'[k] = "shrink"
          BY <1>1, <2>2, <4>2 DEF Swap
        <5> QED
          BY <2>3, <4>1, <5>1, <5>2
      <4>3. CASE Swap(k) /\ ~(target[k] < capacity)
        <5>1. capacity' = target[k] /\ pc[k] = "resize" /\ pc'[k] = "grow" /\ capacity \notin {0, target[k]}
          BY <1>1, <2>2, <4>3 DEF Swap
        <5>2. \A j \in Shrinkers : j = k
          <6>1. target[k] # 0
            BY <2>3, <4>3, <5>1
          <6> QED
            BY <1>1, <6>1 DEF Orderly, Single
        <5>3. \A j \in Shrinkers : Shrinking'[j] = 0
          BY <4>1, <5>1, <5>2
        <5>4. Total(Shrinking') = 0
          BY <1>1, <5>3, AccountsAfter, FiniteKinds, TotalZero DEF AccountsTyped
        <5> QED
          BY <2>3, <5>1, <5>4
      <4>4. CASE Shrink(k)
        <5>1. /\ left[k] > 0 /\ capacity' = capacity /\ left'[k] = left[k] - 1
              /\ pc[k] = "shrink" /\ pc'[k] \in {"retire", "shrunk"}
          BY <1>1, <2>2, <4>4 DEF Shrink, Sound, Balanced, Typed, Loops
        <5> QED
          BY <2>3, <4>1, <5>1
      <4>5. CASE Grow(k) \/ CountGrown(k)
        <5>1. /\ capacity' = capacity /\ pc[k] \in {"grow", "grown"}
              /\ pc'[k] \in {"grow", "grown"} \/ left'[k] = 0
          BY <1>1, <2>2, <4>1, <4>5, NoneLeft DEF Grow, CountGrown
        <5> QED
          BY <2>3, <4>1, <5>1
      <4>6. CASE CallClose(k) \/ CallSetCapacity(k) \/ StopTimer(k) \/ Unchanged(k)
                 \/ Retire(k) \/ CountRetired(k) \/ CountShrunk(k) \/ CloseChannel(k)
        <5>1. /\ capacity' = capacity /\ left' = left
              /\ pc[k] \notin {"grow", "grown"} /\ pc'[k] \notin {"grow", "grown"}
          BY <1>1, <2>2, <4>6 DEF CallClose, CallSetCapacity, StopTimer, Unchanged, Retire,
            CountRetired, CountShrunk, CloseChannel
        <5> QED
          BY <2>3, <4>1, <5>1
      <4> QED
        BY <1>5, <4>2, <4>3, <4>4, <4>5, <4>6 DEF ResizeSteps
    <3>2. Total(Shrinking') - Shrinking'[k] = Total(Shrinking) - Shrinking[k]
      BY <1>1, <2>1, LeftChange, ProcKinds
    <3>3. AccountsTyped /\ AccountsTyped'
      BY <1>1, Accounts, AccountsAfter
    <3>4. capacity \in 0..MaxCap /\ capacity' \in 0..MaxCap /\ MaxCap \in Nat
      BY <1>1, PoolAssumption DEF TypeOK
    <3> DEFINE s == Total(Shrinking) ss == Total(Shrinking')
               n == Shrinking[k]     nn == Shrinking'[k]
               cc == capacity'
    <3>5. /\ s \in Nat /\ ss \in Nat /\ n \in Nat /\ nn \in Nat
          /\ cc + nn <= capacity + n \/ cc + ss <= MaxCap
          /\ ss - nn = s - n /\ capacity + s <= MaxCap
      BY <1>1, <3>1, <3>2, <3>3 DEF AccountsTyped, Bounded
    <3>6. cc \in 0..MaxCap
      BY <3>4
    <3> HIDE DEF s, ss, n, nn, cc
    <3>7. cc + ss <= MaxCap
      BY <3>4, <3>5, <3>6
    <3> QED
      BY <3>7 DEF cc, ss, Bounded
  <2> QED
    BY <2>4, <2>5
<1>6. CASE UNCHANGED vars
  <2>1. UNCHANGED <<pc, left, target, capacity, closed, running>>
    BY <1>6 DEF vars, chanVars, loopVars
  <2> QED
    BY <1>1, <1>2, <2>1 DEF Orderly
<1> QED
  BY <1>3, <1>4, <1>5, <1>6, StepsOfSingle

LEMMA NextSpare ==
  ASSUME Single, Sound, [Next]_vars
  PROVE  Spare'
<1>1. Typed /\ Typed' /\ TypeOK /\ TypeOK' /\ Orderly /\ Orderly' /\ Bounded /\ Spare
  <2>1. Typed /\ Typed'
    BY NextTyped DEF Sound, Balanced
  <2> QED
    BY <2>1, NextOrderly DEF Sound, Typed
<1>2. ASSUME \A k \in Shrinkers : pc'[k] = pc[k] /\ left'[k] = left[k], capacity' = capacity
      PROVE  Spare'
  <2>1. Shrinking' = Shrinking
    BY <1>2 DEF Shrinking
  <2> QED
    BY <1>1, <1>2, <2>1 DEF Spare
<1>3. ASSUME NEW p \in Clients, StartGet(p) \/ ClientSteps(p) PROVE Spare'
  BY <1>1, <1>2, <1>3, ClientFrame, ProcKinds
<1>4. CASE Tick \/ KeeperSteps
  BY <1>1, <1>2, <1>4, KeeperFrame, ProcKinds
<1>5. ASSUME NEW k \in Shrinkers, ResizeSteps(k) \/ CallClose(k) \/ (Resizers # {} /\ CallSetCapacity(k))
      PROVE  Spare'
  <2> SUFFICES ASSUME NEW j \in Shrinkers, pc'[j] = "retire"
               PROVE  capacity' + Total(Shrinking') < MaxCap
    BY DEF Spare
  <2> USE DEF TypeOK, Goto, chanVars, loopVars
  <2>1. k \in Procs /\ k \in Procs \ Clients
    BY ProcKinds
  <2>2. CASE Shrink(k)
    <3>1. capacity' = capacity /\ left[k] > 0 /\ left[k] \in Nat /\ left'[k] = left[k] - 1
      BY <1>1, <2>1, <2>2 DEF Shrink, Typed, Loops
    <3>2. Shrinking[k] = left[k] /\ Shrinking'[k] = left'[k]
      BY <1>1, <2>1, <2>2 DEF Shrinking, Shrink
    <3>3. Total(Shrinking') - Shrinking'[k] = Total(Shrinking) - Shrinking[k]
      BY <1>1, <1>5, ShrinkerFrame, LeftChange, ProcKinds
    <3>4. capacity \in 0..MaxCap /\ MaxCap \in Nat /\ AccountsTyped /\ AccountsTyped'
      BY <1>1, PoolAssumption, Accounts, AccountsAfter
    <3> DEFINE s == Total(Shrinking)
               ss == Total(Shrinking')
    <3>5. s \in Nat /\ ss \in Nat /\ ss = s - 1 /\ capacity + s <= MaxCap
      <4>1. s \in Nat /\ ss \in Nat
        BY <3>4 DEF AccountsTyped
      <4>2. ss - (left[k] - 1) = s - left[k]
        BY <3>1, <3>2, <3>3
      <4> HIDE DEF s, ss
      <4>3. ss = s - 1
        BY <3>1, <4>1, <4>2
      <4> QED
        BY <1>1, <4>1, <4>3 DEF s, Bounded
    <3> HIDE DEF s, ss
    <3>6. capacity + ss < MaxCap
      BY <3>4, <3>5
    <3> QED
      BY <3>1, <3>6 DEF ss
  <2>3. CASE ~Shrink(k)
    <3>1. j # k /\ pc[j] = "retire"
      <4>1. pc'[k] # "retire"
        BY <1>1, <1>5, <2>1, <2>3 DEF ResizeSteps, CallClose, CallSetCapacity, StopTimer, Unchanged,
          Swap, Retire, CountRetired, CountShrunk, CloseChannel, Grow, CountGrown
      <4>2. \A q \in Procs \ {k} : pc'[q] = pc[q]
        BY <1>1, <1>5, ShrinkerFrame
      <4> QED
        BY <4>1, <4>2, ProcKinds
    <3>2. Resizers = {}
      BY <3>1 DEF Single
    <3>3. capacity = 0 /\ target[k] = 0 /\ pc[k] \notin Working
      BY <1>1, <3>1, <3>2 DEF Orderly, Working
    <3>4. CallClose(k) \/ StopTimer(k) \/ Unchanged(k)
      BY <1>1, <1>5, <2>3, <3>2, <3>3 DEF ResizeSteps, Swap, Retire, CountRetired, CountShrunk,
        CloseChannel, Grow, CountGrown, Working, Orderly
    <3>5. capacity' = capacity /\ left' = left
      BY <3>4 DEF CallClose, StopTimer, Unchanged
    <3>6. \A i \in Shrinkers : pc[i] \notin {"grow", "grown"} /\ pc'[i] \notin {"grow", "grown"}
      BY <1>1, <3>2 DEF Orderly
    <3>7. Shrinking' = Shrinking
      BY <3>5, <3>6 DEF Shrinking
    <3> QED
      BY <1>1, <3>1, <3>5, <3>7 DEF Spare
  <2> QED
    BY <2>2, <2>3
<1>6. CASE UNCHANGED vars
  BY <1>2, <1>6 DEF vars, loopVars
<1> QED
  BY <1>3, <1>4, <1>5, <1>6, StepsOfSingle

\* When the closer has taken out the capacity there is nothing left anywhere.
LEMMA AllBack ==
  ASSUME Sound, NEW k \in Shrinkers, pc[k] = "close"
  PROVE  resources = <<>> /\ open = {} /\ \A p \in Borrowers : Loans[p] = 0
<1>1. TypeOK /\ AccountsTyped /\ Rested /\ Orderly /\ Hands /\ Parts
  BY Accounts DEF Sound, Balanced, Typed, Placed, NoPanic
<1>2. ~closed /\ capacity = 0 /\ ~running /\ pc[Housekeeper] = "idle"
  BY <1>1 DEF Orderly, Working
<1>3. \A j \in Shrinkers : pc[j] \in {"idle", "stop", "resize", "close"}
  BY <1>1 DEF TypeOK, ShrinkerLabels, Orderly, Working
<1>4. Total(Shrinking) = 0
  <2>1. \A j \in Shrinkers : Shrinking[j] = 0
    BY <1>1, <1>3 DEF Shrinking, Rested
  <2> QED
    BY <1>1, <2>1, FiniteKinds, TotalZero DEF AccountsTyped
<1>5. Len(resources) + Total(Loans) + Total(Growing) = capacity + Total(Shrinking)
  BY <1>2 DEF Sound, Balanced, Conservation
<1>6. Len(resources) = 0 /\ Total(Loans) = 0
  <2> DEFINE r == Len(resources)
             t == Total(Loans)
             g == Total(Growing)
  <2>1. r \in Nat /\ t \in Nat /\ g \in Nat /\ r + t + g = 0
    BY <1>1, <1>2, <1>4, <1>5 DEF AccountsTyped
  <2> HIDE DEF r, t, g
  <2>2. r = 0 /\ t = 0
    BY <2>1
  <2> QED
    BY <2>2 DEF r, t
<1>7. resources = <<>>
  BY <1>1, <1>6, EmptySeq DEF TypeOK
<1>8. \A p \in Borrowers : Loans[p] = 0
  <2> TAKE p \in Borrowers
  <2>1. Loans[p] \in Nat /\ Loans[p] <= Total(Loans)
    BY <1>1, FiniteKinds, TotalBound DEF AccountsTyped
  <2> QED
    BY <1>6, <2>1
<1>9. \A p \in Procs : wrapper[p] = Empty
  <2>1. \A p \in Clients : wrapper[p] = Empty
    <3> TAKE p \in Clients
    <3>1. pc[p] \notin Lent
      BY <1>1, <1>8, Loan DEF Borrowers
    <3> QED
      BY <1>1, <3>1 DEF Hands, TypeOK, ClientLabels, Lent
  <2>2. wrapper[Housekeeper] = Empty
    BY <1>1, <1>2 DEF Hands
  <2>3. \A j \in Shrinkers : wrapper[j] = Empty
    BY <1>1, <1>3 DEF Hands
  <2> QED
    BY <2>1, <2>2, <2>3 DEF Procs
<1>10. open = {}
  <2>1. Empty \notin open
    BY <1>1, PoolAssumption DEF TypeOK
  <2>2. DOMAIN resources = {}
    BY <1>7
  <2> QED
    BY <1>1, <1>9, <2>1, <2>2 DEF Parts, NoLeak
<1> QED
  BY <1>7, <1>8, <1>10

\* After that nothing is taken, opened or put back.
LEMMA NextEmptied ==
  ASSUME Single, Sound, [Next]_vars
  PROVE  Emptied'
<1>1. TypeOK /\ Orderly /\ Emptied
  BY DEF Sound, Balanced, Typed
<1>2. ASSUME ~closed, closed' PROVE Emptied'
  <2>1. PICK k \in Shrinkers : CloseChannel(k)
    <3>1. ASSUME NEW k \in Shrinkers, ResizeSteps(k) \/ CallClose(k) \/ CallSetCapacity(k)
          PROVE  CloseChannel(k) \/ closed' = closed
      BY <3>1 DEF ResizeSteps, CallClose, CallSetCapacity, StopTimer, Unchanged, Swap, Shrink, Retire,
        CountRetired, CountShrunk, Grow, CountGrown, Receive, Send, chanVars
    <3>2. ~(UNCHANGED vars)
      BY <1>2 DEF vars, chanVars
    <3> QED
      BY <1>1, <1>2, <3>1, <3>2, StepKinds, ClientFrame, KeeperFrame
  <2>2. resources = <<>> /\ open = {} /\ \A p \in Borrowers : Loans[p] = 0
    BY <2>1, AllBack DEF CloseChannel
  <2>3. resources' = resources /\ open' = open /\ held' = held
        /\ \A q \in Procs \ {k} : pc'[q] = pc[q]
    BY <1>1, <2>1 DEF CloseChannel, loopVars, Goto, TypeOK
  <2>4. Loans' = Loans
    BY <2>3, ProcKinds DEF Loans
  <2> QED
    BY <2>2, <2>3, <2>4 DEF Emptied
<1>3. ASSUME closed PROVE Emptied'
  <2>1. resources = <<>> /\ open = {} /\ \A p \in Borrowers : Loans[p] = 0
    BY <1>1, <1>3 DEF Emptied
  <2>2. capacity = 0 /\ ~running /\ pc[Housekeeper] = "idle"
        /\ \A k \in Shrinkers : pc[k] \in {"idle", "stop", "resize"}
    BY <1>1, <1>3 DEF Orderly, Working, TypeOK, ShrinkerLabels
  <2>3. ASSUME NEW p \in Clients, StartGet(p) \/ ClientSteps(p) PROVE Emptied'
    <3>1. pc[p] \notin Lent /\ held[p] = 0
      BY <1>1, <2>1, Loan DEF Borrowers
    <3>2. StartGet(p) \/ Expire(p) \/ Refuse(p) \/ CountReturned(p) \/ CountAvailable(p)
      BY <2>1, <2>3, <3>1 DEF ClientSteps, GetSteps, PutSteps, ReopenSteps, Fetch, Scan, ScanEnds,
        Restore, Open, OpenFails, Refund, CountOpened, CountTaken, CountInUse, Discard, Put, Reopen,
        ReopenFails, Lent
    <3>3. pc'[p] \in {"idle", "fetch", "released"} /\ UNCHANGED <<resources, open, held>>
      BY <1>1, <3>2, ProcKinds DEF StartGet, Expire, Refuse, CountReturned, CountAvailable, Goto, TypeOK,
        chanVars, loopVars
    <3>4. \A q \in Procs \ {p} : pc'[q] = pc[q]
      BY <1>1, <2>3, ClientFrame
    <3>5. \A q \in Borrowers : Loans'[q] = 0
      <4> TAKE q \in Borrowers
      <4>1. CASE q = p
        BY <3>1, <3>3, <4>1 DEF Loans, Lent, Borrowers
      <4>2. CASE q # p
        <5>1. pc'[q] = pc[q] /\ held' = held
          BY <3>3, <3>4, <4>2, ProcKinds DEF Borrowers
        <5>2. Loans'[q] = Loans[q]
          BY <5>1 DEF Loans, Borrowers
        <5> QED
          BY <2>1, <5>2
      <4> QED
        BY <4>1, <4>2
    <3> QED
      BY <2>1, <3>3, <3>5 DEF Emptied
  <2>4. ~Tick /\ ~KeeperSteps
    BY <2>2 DEF Tick, KeeperSteps, Sweep, SweepEnds, CloseIdle, GiveBack, ReopenSteps, Reopen, ReopenFails
  <2>5. ASSUME NEW k \in Shrinkers, ResizeSteps(k) \/ CallClose(k) \/ CallSetCapacity(k) PROVE Emptied'
    <3>1. CallClose(k) \/ CallSetCapacity(k) \/ StopTimer(k) \/ Unchanged(k)
      BY <2>2, <2>5 DEF ResizeSteps, Swap, Shrink, Retire, CountRetired, CountShrunk, CloseChannel,
        Grow, CountGrown
    <3>2. UNCHANGED <<resources, open, held>>
      BY <3>1 DEF CallClose, CallSetCapacity, StopTimer, Unchanged, chanVars, loopVars
    <3>3. \A q \in Procs \ {k} : pc'[q] = pc[q]
      BY <1>1, <2>5, ShrinkerFrame
    <3>4. Loans' = Loans
      BY <3>2, <3>3, ProcKinds DEF Loans
    <3> QED
      BY <2>1, <3>2, <3>4 DEF Emptied
  <2>6. CASE UNCHANGED vars
    <3>1. UNCHANGED <<resources, open, closed>> /\ Loans' = Loans
      BY <2>6 DEF vars, chanVars, loopVars, Loans
    <3> QED
      BY <2>1, <3>1 DEF Emptied
  <2> QED
    BY <2>3, <2>4, <2>5, <2>6, StepKinds
<1> QED
  BY <1>2, <1>3 DEF Emptied

LEMMA NextSound == Single /\ Sound /\ [Next]_vars => Sound'
<1> SUFFICES ASSUME Single, Sound, [Next]_vars PROVE Sound'
  OBVIOUS
<1>1. Balanced'
  BY NextTyped, NextRested, NextConservation DEF Sound, Balanced
<1>2. Placed'
  BY NextPlaced DEF Sound
<1> QED
  BY <1>1, <1>2, NextNoPanic, NextOrderly, NextSpare, NextEmptied DEF Sound

----------------------------------------------------------------------------
(* How many sessions are open: no more than there are entries to hold them. *)

InHand == {p \in Borrowers : wrapper[p] # Empty}
Retiring == {k \in Shrinkers : pc[k] = "retire"}

LEMMA ImageSize ==
  ASSUME NEW S, IsFiniteSet(S), NEW f, S \subseteq DOMAIN f
  PROVE  IsFiniteSet({f[x] : x \in S}) /\ Cardinality({f[x] : x \in S}) <= Cardinality(S)
<1> DEFINE T == {f[x] : x \in S}
           g == [x \in S |-> f[x]]
<1>1. g \in Surjection(S, T)
  BY DEF Surjection
<1> HIDE DEF T, g
<1>2. IsFiniteSet(T) /\ Cardinality(T) <= Cardinality(S)
  BY <1>1, FS_Surjection
<1> QED
  BY <1>2 DEF T

LEMMA OpenCount ==
  ASSUME TypeOK, Hands, Parts
  PROVE  /\ IsFiniteSet(InHand) /\ IsFiniteSet(Retiring) /\ IsFiniteSet(open)
         /\ Cardinality(open) <= Len(resources) + Cardinality(InHand) + Cardinality(Retiring)
<1>1. IsFiniteSet(InHand) /\ IsFiniteSet(Retiring)
  BY FiniteKinds, FS_Subset DEF InHand, Retiring
<1>2. /\ Len(resources) \in Nat /\ DOMAIN resources = 1..Len(resources)
      /\ DOMAIN wrapper = Procs
  BY LenProperties DEF TypeOK
<1>3. /\ IsFiniteSet(DOMAIN resources) /\ Cardinality(DOMAIN resources) = Len(resources)
  BY <1>2, FS_Interval
<1> DEFINE A == {resources[i] : i \in DOMAIN resources}
           B == {wrapper[p] : p \in InHand}
           C == {wrapper[k] : k \in Retiring}
<1>4. IsFiniteSet(A) /\ Cardinality(A) <= Len(resources)
  BY <1>3, ImageSize
<1>5. IsFiniteSet(B) /\ Cardinality(B) <= Cardinality(InHand)
  <2>1. InHand \subseteq DOMAIN wrapper
    BY <1>2, ProcKinds DEF InHand, Borrowers
  <2> QED
    BY <1>1, <2>1, ImageSize
<1>6. IsFiniteSet(C) /\ Cardinality(C) <= Cardinality(Retiring)
  <2>1. Retiring \subseteq DOMAIN wrapper
    BY <1>2, ProcKinds DEF Retiring
  <2> QED
    BY <1>1, <2>1, ImageSize
<1>7. open \subseteq (A \cup B) \cup C
  <2>1. Empty \notin open
    BY PoolAssumption DEF TypeOK
  <2>2. \A p \in Procs : wrapper[p] # Empty => p \in InHand \/ p \in Retiring
    BY DEF Hands, InHand, Retiring, Procs, Borrowers
  <2> QED
    BY <2>1, <2>2 DEF Parts, NoLeak
<1>8. /\ Cardinality(InHand) \in Nat /\ Cardinality(Retiring) \in Nat
      /\ Cardinality(A) \in Nat /\ Cardinality(B) \in Nat /\ Cardinality(C) \in Nat
  BY <1>1, <1>4, <1>5, <1>6, FS_CardinalityType
<1> HIDE DEF A, B, C
<1>9. IsFiniteSet(A \cup B) /\ Cardinality(A \cup B) <= Cardinality(A) + Cardinality(B)
  <2>1. /\ IsFiniteSet(A \cup B)
        /\ Cardinality(A \cup B) = Cardinality(A) + Cardinality(B) - Cardinality(A \cap B)
    BY <1>4, <1>5, FS_Union
  <2>2. Cardinality(A \cap B) \in Nat
    BY <1>4, FS_Subset, FS_CardinalityType
  <2> QED
    BY <1>8, <2>1, <2>2
<1>10. /\ IsFiniteSet((A \cup B) \cup C)
       /\ Cardinality((A \cup B) \cup C) <= Cardinality(A \cup B) + Cardinality(C)
  <2>1. /\ IsFiniteSet((A \cup B) \cup C)
        /\ Cardinality((A \cup B) \cup C)
             = Cardinality(A \cup B) + Cardinality(C) - Cardinality((A \cup B) \cap C)
    BY <1>6, <1>9, FS_Union
  <2>2. Cardinality((A \cup B) \cap C) \in Nat /\ Cardinality(A \cup B) \in Nat
    BY <1>6, <1>9, FS_Subset, FS_CardinalityType
  <2> QED
    BY <1>8, <2>1, <2>2
<1>11. IsFiniteSet(open) /\ Cardinality(open) <= Cardinality((A \cup B) \cup C)
  BY <1>7, <1>10, FS_Subset
<1>12. Cardinality(open) \in Nat /\ Cardinality(A \cup B) \in Nat /\ Cardinality((A \cup B) \cup C) \in Nat
  BY <1>9, <1>10, <1>11, FS_CardinalityType
<1>13. Cardinality(open) <= Len(resources) + Cardinality(InHand) + Cardinality(Retiring)
  BY <1>2, <1>4, <1>5, <1>6, <1>8, <1>9, <1>10, <1>11, <1>12
<1> QED
  BY <1>1, <1>11, <1>13

\* Every session in hand is on loan, and so is what p has, if that is nothing.
LEMMA HandCount ==
  ASSUME TypeOK, Hands
  PROVE  /\ Cardinality(InHand) \in Nat /\ Cardinality(InHand) <= Total(Loans)
         /\ \A p \in Borrowers : pc[p] \in {"open", "reopen"} => Cardinality(InHand) + 1 <= Total(Loans)
<1>1. IsFiniteSet(Borrowers) /\ Loans \in [Borrowers -> Nat] /\ Total(Loans) \in Nat
  BY FiniteKinds, Accounts DEF AccountsTyped
<1>2. \A p \in InHand : Loans[p] >= 1
  <2> TAKE p \in InHand
  <2>1. p \in Borrowers /\ wrapper[p] # Empty
    BY DEF InHand
  <2>2. pc[p] \in Lent
    BY <2>1 DEF Hands, TypeOK, Borrowers, ClientLabels, KeeperLabels, Lent
  <2> QED
    BY <2>1, <2>2, Loan
<1>3. IsFiniteSet(InHand) /\ Cardinality(InHand) <= Total(Loans)
  BY <1>1, <1>2, TotalCounts DEF InHand
<1>4. ASSUME NEW p \in Borrowers, pc[p] \in {"open", "reopen"}
      PROVE  Cardinality(InHand) + 1 <= Total(Loans)
  <2>1. p \notin InHand
    BY <1>4 DEF Hands, InHand, Borrowers, TypeOK, KeeperLabels
  <2>2. Cardinality(InHand \cup {p}) = Cardinality(InHand) + 1
    BY <1>3, <2>1, FS_AddElement
  <2>3. Loans[p] >= 1
    BY <1>4, Loan DEF Lent
  <2>4. InHand \cup {p} \in SUBSET Borrowers /\ \A q \in InHand \cup {p} : Loans[q] >= 1
    BY <1>2, <2>3 DEF InHand
  <2>5. Cardinality(InHand \cup {p}) <= Total(Loans)
    BY <1>1, <2>4, TotalCounts
  <2> QED
    BY <2>2, <2>5
<1> QED
  BY <1>3, <1>4, FS_CardinalityType

\* Whoever is about to open a session finds the pool open, and less than
\* MaxCap sessions.
LEMMA OpenRoom ==
  ASSUME Sound, NEW p \in Borrowers, pc[p] \in {"open", "reopen"}
  PROVE  ~closed /\ Cardinality(open) < MaxCap
<1>1. TypeOK /\ Hands /\ Parts /\ Orderly /\ Bounded /\ Spare /\ Emptied /\ AccountsTyped
  BY Accounts DEF Sound, Balanced, Typed, Placed, NoPanic
<1>2. ~closed
  <2>1. Loans[p] \in Nat /\ Loans[p] >= 1
    BY <1>1, Loan DEF Lent
  <2> QED
    BY <1>1, <2>1 DEF Emptied
<1>3. Len(resources) + Total(Loans) + Total(Growing) = capacity + Total(Shrinking)
  BY <1>2 DEF Sound, Balanced, Conservation
<1>4. capacity + Total(Shrinking) + Cardinality(Retiring) <= MaxCap
  <2>1. capacity \in Nat /\ MaxCap \in Nat /\ Total(Shrinking) \in Nat
    <3>1. capacity \in 0..MaxCap /\ MaxCap \in Nat
      BY <1>1, PoolAssumption DEF TypeOK
    <3> QED
      BY <1>1, <3>1 DEF AccountsTyped
  <2>2. CASE Retiring = {}
    <3>1. Cardinality(Retiring) = 0
      BY <2>2, FS_EmptySet
    <3> QED
      BY <1>1, <2>1, <3>1 DEF Bounded
  <2>3. ASSUME NEW k \in Retiring PROVE capacity + Total(Shrinking) + Cardinality(Retiring) <= MaxCap
    <3>1. k \in Shrinkers /\ pc[k] = "retire"
      BY <2>3 DEF Retiring
    <3>2. Retiring = {k}
      BY <1>1, <2>3 DEF Retiring, Orderly, Working
    <3>3. Cardinality(Retiring) = 1
      BY <3>2, FS_Singleton
    <3>4. capacity + Total(Shrinking) < MaxCap
      BY <1>1, <3>1 DEF Spare
    <3> QED
      BY <2>1, <3>3, <3>4
  <2> QED
    BY <2>2, <2>3
<1> DEFINE r == Len(resources)
           t == Total(Loans)
           g == Total(Growing)
           s == Total(Shrinking)
           h == Cardinality(InHand)
           m == Cardinality(Retiring)
           o == Cardinality(open)
<1>5. o <= r + h + m /\ h + 1 <= t /\ h \in Nat /\ m \in Nat /\ o \in Nat
  BY <1>1, OpenCount, HandCount, FS_CardinalityType
<1>6. r \in Nat /\ t \in Nat /\ g \in Nat /\ s \in Nat /\ r + t + g = capacity + s
  BY <1>1, <1>3 DEF AccountsTyped
<1>7. capacity \in Nat /\ MaxCap \in Nat
  <2>1. capacity \in 0..MaxCap /\ MaxCap \in Nat
    BY <1>1, PoolAssumption DEF TypeOK
  <2> QED
    BY <2>1
<1>8. capacity + s + m <= MaxCap
  BY <1>4
<1> HIDE DEF r, t, g, s, h, m, o
<1>9. o < MaxCap
  BY <1>5, <1>6, <1>7, <1>8
<1> QED
  BY <1>2, <1>9 DEF o

LEMMA SoundWithin == Sound => WithinCapacity
<1> SUFFICES ASSUME Sound, \A k \in Shrinkers : pc[k] \notin {"shrink", "retire", "retired", "shrunk"}
             PROVE  Cardinality(open) <= capacity
  BY DEF WithinCapacity
<1>1. TypeOK /\ Hands /\ Parts /\ Orderly /\ Rested /\ Emptied /\ AccountsTyped
  BY Accounts DEF Sound, Balanced, Typed, Placed, NoPanic
<1>2. capacity \in Nat
  <2>1. capacity \in 0..MaxCap
    BY <1>1 DEF TypeOK
  <2> QED
    BY <2>1, PoolAssumption
<1>3. CASE closed
  BY <1>1, <1>2, <1>3, FS_EmptySet DEF Emptied
<1>4. CASE ~closed
  <2>1. Len(resources) + Total(Loans) + Total(Growing) = capacity + Total(Shrinking)
    BY <1>4 DEF Sound, Balanced, Conservation
  <2>2. Total(Shrinking) = 0
    <3>1. \A k \in Shrinkers : Shrinking[k] = 0
      BY <1>1 DEF Shrinking, Rested, TypeOK, ShrinkerLabels, Orderly
    <3> QED
      BY <1>1, <3>1, FiniteKinds, TotalZero DEF AccountsTyped
  <2>3. Cardinality(Retiring) = 0
    <3>1. Retiring = {}
      BY DEF Retiring
    <3> QED
      BY <3>1, FS_EmptySet
  <2> DEFINE r == Len(resources)
             t == Total(Loans)
             g == Total(Growing)
             h == Cardinality(InHand)
             o == Cardinality(open)
  <2>4. o <= r + h /\ h <= t /\ h \in Nat /\ o \in Nat
    <3>1. o <= r + h + Cardinality(Retiring) /\ h <= t /\ h \in Nat /\ o \in Nat
      BY <1>1, OpenCount, HandCount, FS_CardinalityType
    <3>2. r \in Nat
      BY <1>1 DEF AccountsTyped
    <3> QED
      BY <2>3, <3>1, <3>2
  <2>5. r \in Nat /\ t \in Nat /\ g \in Nat /\ r + t + g = capacity
    BY <1>1, <1>2, <2>1, <2>2 DEF AccountsTyped
  <2> HIDE DEF r, t, g, h, o
  <2>6. o <= capacity
    BY <1>2, <2>4, <2>5
  <2> QED
    BY <2>6 DEF o
<1> QED
  BY <1>3, <1>4

LEMMA SoundShows == Sound => NoPanic /\ Exclusive /\ ClosedIsEmpty /\ WithinCapacity
<1> SUFFICES ASSUME Sound PROVE NoPanic /\ Exclusive /\ ClosedIsEmpty
  BY SoundWithin
<1>1. NoPanic /\ Exclusive
  BY ExclusiveParts DEF Sound, Placed, Typed, NoPanic
<1>2. ASSUME closed, NEW p \in Borrowers PROVE pc[p] \notin Lent
  BY <1>2, Loan DEF Sound, Balanced, Typed, Emptied
<1>3. ClosedIsEmpty
  BY <1>2 DEF Sound, Emptied, Orderly, ClosedIsEmpty, Borrowers
<1> QED
  BY <1>1, <1>3

\* When SetCapacity is called by nothing but Close, as in crypto11, or by one
\* goroutine as Single says, no Put finds the channel full or closed, and
\* sessions are exclusive without condition: with any number of clients and of
\* closers, with or without the idle timer.
THEOREM NeverPanics ==
  ASSUME Single
  PROVE  Spec => []NoPanic /\ []Exclusive
BY InitSound, NextSound, SoundShows, PTL DEF Spec

\* ... and Close closes the channel only when every session is back and closed.
THEOREM CloseLeavesNothing ==
  ASSUME Single
  PROVE  Spec => []ClosedIsEmpty
BY InitSound, NextSound, SoundShows, PTL DEF Spec

\* ... and there are never more sessions open than the capacity, unless
\* SetCapacity is still taking them out.
THEOREM OpenWithinCapacity ==
  ASSUME Single
  PROVE  Spec => []WithinCapacity
BY InitSound, NextSound, SoundShows, PTL DEF Spec

----------------------------------------------------------------------------
(* takeIdle.  A client sets out to open a session only once it has found   *)
(* the channel empty, so that every open session is in somebody's hand.    *)

Visible == open \ {wrapper[k] : k \in Shrinkers}
Opening == {p \in Borrowers : wrapper[p] = Empty /\ pc[p] \in {"open", "reopen", "restore"}}
Users == Clients \cup (IF HasIdleTimer THEN {Housekeeper} ELSE {})

\* The sessions that are open, or will be without another look at the channel.
Tracks == Cardinality(Visible) + Cardinality(Opening) <= Cardinality(Users)

Tracked == Sound /\ Filled /\ Tracks

CountsFinite ==
  /\ IsFiniteSet(Visible) /\ Cardinality(Visible) \in Nat
  /\ IsFiniteSet(Opening) /\ Cardinality(Opening) \in Nat
  /\ IsFiniteSet(Users) /\ Cardinality(Users) \in Nat

LEMMA FiniteCounts == TypeOK => CountsFinite
<1> SUFFICES ASSUME TypeOK PROVE CountsFinite
  OBVIOUS
<1>1. IsFiniteSet(Visible)
  <2>1. Visible \subseteq Sessions
    BY DEF TypeOK, Visible
  <2> QED
    BY <2>1, PoolAssumption, FS_Subset
<1>2. IsFiniteSet(Opening) /\ IsFiniteSet(Users)
  <2>1. Opening \subseteq Borrowers /\ Users \subseteq Borrowers
    BY DEF Opening, Users, Borrowers
  <2> QED
    BY <2>1, FiniteKinds, FS_Subset
<1> QED
  BY <1>1, <1>2, FS_CardinalityType DEF CountsFinite

LEMMA FiniteCountsAfter == TypeOK' => CountsFinite'
BY FiniteCounts, PTL

\* One more member is one more at most.
LEMMA OneMore ==
  ASSUME NEW S, IsFiniteSet(S), NEW x, NEW T, T \subseteq S \cup {x}
  PROVE  Cardinality(T) <= Cardinality(S) + 1
<1>1. IsFiniteSet(S \cup {x}) /\ (Cardinality(S \cup {x}) = Cardinality(S) \/ Cardinality(S \cup {x}) = Cardinality(S) + 1)
  <2>1. CASE x \in S
    <3>1. S \cup {x} = S
      BY <2>1
    <3> QED
      BY <3>1
  <2>2. CASE x \notin S
    BY <2>2, FS_AddElement
  <2> QED
    BY <2>1, <2>2
<1>2. IsFiniteSet(T) /\ Cardinality(T) <= Cardinality(S \cup {x})
  BY <1>1, FS_Subset
<1>3. Cardinality(T) \in Nat /\ Cardinality(S) \in Nat
  BY <1>2, FS_CardinalityType
<1> QED
  BY <1>1, <1>2, <1>3

\* A step lets neither grow, or takes p from the one to the other, or back.
LEMMA NoneOpens ==
  ASSUME TypeOK, TypeOK', Tracks, Visible' \subseteq Visible, Opening' \subseteq Opening
  PROVE  Tracks'
<1>1. Cardinality(Visible') <= Cardinality(Visible) /\ Cardinality(Opening') <= Cardinality(Opening)
  BY FiniteCounts, FS_Subset DEF CountsFinite
<1>2. /\ Cardinality(Visible) \in Nat /\ Cardinality(Opening) \in Nat /\ Cardinality(Users) \in Nat
      /\ Cardinality(Visible') \in Nat /\ Cardinality(Opening') \in Nat
  BY FiniteCounts, FiniteCountsAfter DEF CountsFinite
<1>3. Cardinality(Visible) + Cardinality(Opening) <= Cardinality(Users)
  BY DEF Tracks
<1>4. Cardinality(Visible') + Cardinality(Opening') <= Cardinality(Users)
  BY <1>1, <1>2, <1>3
<1> QED
  BY <1>4 DEF Tracks, Users

LEMMA OneOpened ==
  ASSUME TypeOK, TypeOK', Tracks, NEW p \in Opening, NEW s,
         Visible' \subseteq Visible \cup {s}, Opening' \subseteq Opening \ {p}
  PROVE  Tracks'
<1>1. Cardinality(Visible') <= Cardinality(Visible) + 1
  BY FiniteCounts, OneMore DEF CountsFinite
<1>2. Cardinality(Opening') <= Cardinality(Opening) - 1
  <2>1. IsFiniteSet(Opening \ {p}) /\ Cardinality(Opening \ {p}) = Cardinality(Opening) - 1
    BY FiniteCounts, FS_RemoveElement DEF CountsFinite
  <2> QED
    BY <2>1, FS_Subset
<1>3. /\ Cardinality(Visible) \in Nat /\ Cardinality(Opening) \in Nat /\ Cardinality(Users) \in Nat
      /\ Cardinality(Visible') \in Nat /\ Cardinality(Opening') \in Nat
  BY FiniteCounts, FiniteCountsAfter DEF CountsFinite
<1>4. Cardinality(Visible) + Cardinality(Opening) <= Cardinality(Users)
  BY DEF Tracks
<1>5. Cardinality(Visible') + Cardinality(Opening') <= Cardinality(Users)
  BY <1>1, <1>2, <1>3, <1>4
<1> QED
  BY <1>5 DEF Tracks, Users

LEMMA OneReplaced ==
  ASSUME TypeOK, TypeOK', Tracks, NEW p, NEW s \in Visible,
         Visible' \subseteq Visible \ {s}, Opening' \subseteq Opening \cup {p}
  PROVE  Tracks'
<1>1. Cardinality(Opening') <= Cardinality(Opening) + 1
  BY FiniteCounts, OneMore DEF CountsFinite
<1>2. Cardinality(Visible') <= Cardinality(Visible) - 1
  <2>1. IsFiniteSet(Visible \ {s}) /\ Cardinality(Visible \ {s}) = Cardinality(Visible) - 1
    BY FiniteCounts, FS_RemoveElement DEF CountsFinite
  <2> QED
    BY <2>1, FS_Subset
<1>3. /\ Cardinality(Visible) \in Nat /\ Cardinality(Opening) \in Nat /\ Cardinality(Users) \in Nat
      /\ Cardinality(Visible') \in Nat /\ Cardinality(Opening') \in Nat
  BY FiniteCounts, FiniteCountsAfter DEF CountsFinite
<1>4. Cardinality(Visible) + Cardinality(Opening) <= Cardinality(Users)
  BY DEF Tracks
<1>5. Cardinality(Visible') + Cardinality(Opening') <= Cardinality(Users)
  BY <1>1, <1>2, <1>3, <1>4
<1> QED
  BY <1>5 DEF Tracks, Users

\* With the channel empty, a session is in the hand of a user, and who has one is
\* not about to open another.
LEMMA AllInHand ==
  ASSUME Sound, resources = <<>>
  PROVE  \A P \in SUBSET {p \in Users : wrapper[p] = Empty} :
           Cardinality(Visible) + Cardinality(P) <= Cardinality(Users)
<1> SUFFICES ASSUME NEW P \in SUBSET {p \in Users : wrapper[p] = Empty}
             PROVE  Cardinality(Visible) + Cardinality(P) <= Cardinality(Users)
  OBVIOUS
<1>1. TypeOK /\ Hands /\ Parts /\ Orderly
  BY DEF Sound, Balanced, Typed, Placed, NoPanic
<1>2. InHand \subseteq Users
  <2>1. ~HasIdleTimer => wrapper[Housekeeper] = Empty
    BY <1>1 DEF Orderly, Hands
  <2> QED
    BY <2>1, PoolAssumption DEF InHand, Users, Borrowers
<1>3. IsFiniteSet(Users) /\ IsFiniteSet(InHand) /\ IsFiniteSet(P)
  BY <1>1, <1>2, FiniteCounts, FS_Subset DEF CountsFinite
<1>4. Cardinality(Visible) <= Cardinality(InHand)
  <2> DEFINE B == {wrapper[p] : p \in InHand}
  <2>1. InHand \subseteq DOMAIN wrapper
    <3>1. DOMAIN wrapper = Procs /\ Borrowers \subseteq Procs
      BY <1>1 DEF TypeOK, Borrowers, Procs
    <3> QED
      BY <3>1 DEF InHand
  <2>2. IsFiniteSet(B) /\ Cardinality(B) <= Cardinality(InHand)
    BY <1>3, <2>1, ImageSize
  <2>3. Visible \subseteq B
    <3> SUFFICES ASSUME NEW s \in Visible PROVE s \in B
      OBVIOUS
    <3>1. s \in open /\ s # Empty /\ \A k \in Shrinkers : s # wrapper[k]
      BY <1>1, PoolAssumption DEF Visible, TypeOK
    <3>2. DOMAIN resources = {}
      OBVIOUS
    <3>3. PICK p \in Procs : wrapper[p] = s
      BY <1>1, <3>1, <3>2 DEF Parts, NoLeak
    <3>4. p \in InHand
      BY <3>1, <3>3 DEF InHand, Procs, Borrowers
    <3> QED
      BY <3>3, <3>4
  <2>4. Cardinality(Visible) <= Cardinality(B)
    BY <2>2, <2>3, FS_Subset
  <2>5. Cardinality(B) \in Nat /\ Cardinality(InHand) \in Nat /\ Cardinality(Visible) \in Nat
    BY <1>1, <1>3, <2>2, FiniteCounts, FS_CardinalityType DEF CountsFinite
  <2> HIDE DEF B
  <2> QED
    BY <2>2, <2>4, <2>5
<1>5. InHand \cap P = {}
  BY DEF InHand
<1>6. Cardinality(InHand \cup P) = Cardinality(InHand) + Cardinality(P)
  <2>1. Cardinality(InHand \cup P) = Cardinality(InHand) + Cardinality(P) - Cardinality(InHand \cap P)
    BY <1>3, FS_Union
  <2>2. Cardinality(InHand \cap P) = 0
    BY <1>5, FS_EmptySet
  <2>3. Cardinality(InHand) \in Nat /\ Cardinality(P) \in Nat
    BY <1>3, FS_CardinalityType
  <2> QED
    BY <2>1, <2>2, <2>3
<1>7. InHand \cup P \subseteq Users
  BY <1>2
<1>8. Cardinality(InHand \cup P) <= Cardinality(Users)
  BY <1>3, <1>7, FS_Subset
<1>9. /\ Cardinality(Visible) \in Nat /\ Cardinality(InHand) \in Nat /\ Cardinality(P) \in Nat
      /\ Cardinality(Users) \in Nat
  BY <1>1, <1>3, FiniteCounts, FS_CardinalityType DEF CountsFinite
<1> QED
  BY <1>4, <1>6, <1>8, <1>9

\* No borrower owes more entries than there are.
LEMMA LoanBound ==
  ASSUME Sound, NEW p \in Borrowers
  PROVE  Loans[p] <= MaxCap
<1>1. TypeOK /\ AccountsTyped /\ Bounded /\ Emptied
  BY Accounts DEF Sound, Balanced, Typed
<1>2. Loans[p] \in Nat /\ Loans[p] <= Total(Loans)
  BY <1>1, FiniteKinds, TotalBound DEF AccountsTyped
<1>3. capacity \in Nat /\ MaxCap \in Nat
  <2>1. capacity \in 0..MaxCap /\ MaxCap \in Nat
    BY <1>1, PoolAssumption DEF TypeOK
  <2> QED
    BY <2>1
<1>4. CASE closed
  <2>1. Loans[p] = 0
    BY <1>1, <1>4 DEF Emptied
  <2> QED
    BY <1>3, <2>1
<1>5. CASE ~closed
  <2> DEFINE r == Len(resources)
             t == Total(Loans)
             g == Total(Growing)
             s == Total(Shrinking)
             l == Loans[p]
  <2>1. r + t + g = capacity + s
    BY <1>5 DEF Sound, Balanced, Conservation
  <2>2. r \in Nat /\ t \in Nat /\ g \in Nat /\ s \in Nat /\ l \in Nat /\ l <= t /\ capacity + s <= MaxCap
    BY <1>1, <1>2 DEF AccountsTyped, Bounded
  <2> HIDE DEF r, t, g, s, l
  <2>3. l <= MaxCap
    BY <1>3, <2>1, <2>2
  <2> QED
    BY <2>3 DEF l
<1> QED
  BY <1>4, <1>5

LEMMA OneMissing == \A n, m \in Nat : 1 + n <= m => n # m
OBVIOUS

LEMMA ClientTracks ==
  ASSUME Tracked, TypeOK', NEW p \in Clients, StartGet(p) \/ ClientSteps(p)
  PROVE  Tracks'
<1>1. /\ TypeOK /\ Hands /\ Parts /\ Orderly /\ Filled /\ Tracks
      /\ p \in Procs /\ p \in Borrowers /\ p \notin Shrinkers
  BY ProcKinds DEF Tracked, Sound, Balanced, Typed, Placed, NoPanic, Borrowers
<1>2. \A q \in Procs \ {p} : pc'[q] = pc[q] /\ wrapper'[q] = wrapper[q]
  BY <1>1, ClientFrame, ClientHand
<1>3. \A q \in Borrowers \ {p} : q \in Opening' <=> q \in Opening
  BY <1>2 DEF Opening, Borrowers, Procs
<1>4. \A k \in Shrinkers : wrapper'[k] = wrapper[k]
  BY <1>2, ProcKinds
<1>5. Visible' = open' \ {wrapper[k] : k \in Shrinkers}
  BY <1>4 DEF Visible
<1>6. Opening' \subseteq Borrowers /\ Opening \subseteq Borrowers
  BY DEF Opening, Borrowers
<1> USE DEF Goto, TypeOK
<1>7. CASE StartGet(p) \/ Expire(p) \/ Refuse(p) \/ Fetch(p) \/ Scan(p) \/ OpenFails(p) \/ Refund(p)
             \/ CountOpened(p) \/ CountTaken(p) \/ CountInUse(p) \/ Put(p) \/ CountReturned(p)
             \/ CountAvailable(p) \/ ReopenFails(p)
  <2>1. open' = open
    BY <1>7 DEF StartGet, Expire, Refuse, Fetch, Scan, OpenFails, Refund, CountOpened, CountTaken,
      CountInUse, Put, CountReturned, CountAvailable, ReopenFails
  <2>2. p \notin Opening'
    <3>1. CASE Scan(p)
      BY <1>1, <3>1, ReceiveTypes DEF Scan, Opening
    <3>2. CASE ~Scan(p)
      <4>1. pc'[p] \notin {"open", "reopen", "restore"}
        BY <1>1, <1>7, <3>2 DEF StartGet, Expire, Refuse, Fetch, OpenFails, Refund, CountOpened,
          CountTaken, CountInUse, Put, CountReturned, CountAvailable, ReopenFails
      <4> QED
        BY <4>1 DEF Opening
    <3> QED
      BY <3>1, <3>2
  <2>3. Opening' \subseteq Opening
    BY <1>3, <1>6, <2>2
  <2>4. Visible' \subseteq Visible
    BY <1>5, <2>1 DEF Visible
  <2> QED
    BY <1>1, <2>3, <2>4, NoneOpens
<1>8. CASE Restore(p)
  <2>1. open' = open /\ wrapper' = wrapper /\ pc[p] = "restore"
    BY <1>8 DEF Restore
  <2>2. Opening' \subseteq Opening
    BY <1>1, <1>3, <1>6, <2>1 DEF Opening
  <2>3. Visible' \subseteq Visible
    BY <1>5, <2>1 DEF Visible
  <2> QED
    BY <1>1, <2>2, <2>3, NoneOpens
<1>9. CASE Open(p) \/ Reopen(p)
  <2>1. p \in Opening
    BY <1>1, <1>9 DEF Open, Reopen, Opening, Hands
  <2>2. p \notin Opening'
    BY <1>1, <1>9 DEF Open, Reopen, Opening
  <2>3. PICK s : open' = open \cup {s}
    BY <1>9 DEF Open, Reopen
  <2>4. Visible' \subseteq Visible \cup {s} /\ Opening' \subseteq Opening \ {p}
    BY <1>3, <1>5, <1>6, <2>2, <2>3 DEF Visible
  <2> QED
    BY <1>1, <2>1, <2>4, OneOpened
<1>10. CASE Discard(p)
  <2>1. pc[p] = "using" /\ open' = open \ {wrapper[p]}
    BY <1>10 DEF Discard
  <2>2. wrapper[p] \in Visible
    <3>1. wrapper[p] # Empty
      BY <1>1, <2>1 DEF Filled
    <3>2. wrapper[p] \in open
      BY <1>1, <3>1 DEF Parts, Live
    <3>3. \A k \in Shrinkers : wrapper[k] # wrapper[p]
      BY <1>1, <3>1, ProcKinds DEF Parts, Carried
    <3> QED
      BY <3>2, <3>3 DEF Visible
  <2>3. Visible' \subseteq Visible \ {wrapper[p]} /\ Opening' \subseteq Opening \cup {p}
    BY <1>3, <1>5, <1>6, <2>1 DEF Visible
  <2> QED
    BY <1>1, <2>2, <2>3, OneReplaced
<1>11. CASE ScanEnds(p)
  <2>1. open' = open /\ wrapper' = wrapper /\ pc[p] = "scan" /\ (held[p] = MaxCap \/ resources = <<>>)
    BY <1>11 DEF ScanEnds
  <2>2. resources = <<>>
    <3>1. held[p] # MaxCap
      <4>1. Loans[p] = 1 + held[p]
        BY <1>1, <2>1 DEF Loans, Lent, Borrowers
      <4>2. Loans[p] <= MaxCap
        BY <1>1, LoanBound DEF Tracked
      <4>3. held[p] \in Nat /\ MaxCap \in Nat
        BY <1>1, PoolAssumption
      <4> QED
        BY <4>1, <4>2, <4>3, OneMissing
    <3> QED
      BY <2>1, <3>1
  <2>3. Opening' \subseteq {q \in Users : wrapper[q] = Empty}
    <3> SUFFICES ASSUME NEW q \in Opening' PROVE q \in Users /\ wrapper[q] = Empty
      OBVIOUS
    <3>1. q \in Borrowers /\ wrapper[q] = Empty /\ pc'[q] \in {"open", "reopen", "restore"}
      BY <2>1 DEF Opening, Borrowers
    <3>2. CASE q = Housekeeper
      <4>1. pc[q] # "idle"
        BY <1>2, <3>1, <3>2, ProcKinds
      <4>2. HasIdleTimer
        BY <1>1, <3>2, <4>1 DEF Orderly
      <4> QED
        BY <3>1, <3>2, <4>2 DEF Users
    <3> QED
      BY <3>1, <3>2 DEF Borrowers, Users
  <2>4. Visible' = Visible
    BY <1>5, <2>1 DEF Visible
  <2>5. Cardinality(Visible) + Cardinality(Opening') <= Cardinality(Users)
    BY <2>2, <2>3, AllInHand DEF Tracked
  <2>6. Users' = Users
    BY DEF Users
  <2> QED
    BY <2>4, <2>5, <2>6 DEF Tracks
<1> QED
  BY <1>7, <1>8, <1>9, <1>10, <1>11 DEF ClientSteps, GetSteps, PutSteps, ReopenSteps

LEMMA KeeperTracks ==
  ASSUME Tracked, TypeOK', Tick \/ KeeperSteps
  PROVE  Tracks'
<1> DEFINE p == Housekeeper
<1>1. /\ TypeOK /\ Hands /\ Parts /\ Tracks
      /\ p \in Procs /\ p \in Borrowers /\ p \notin Shrinkers
  BY ProcKinds DEF Tracked, Sound, Balanced, Typed, Placed, NoPanic, Borrowers
<1>2. \A q \in Procs \ {p} : pc'[q] = pc[q] /\ wrapper'[q] = wrapper[q]
  BY <1>1, KeeperFrame, KeeperHand
<1>3. \A q \in Borrowers \ {p} : q \in Opening' <=> q \in Opening
  BY <1>2 DEF Opening, Borrowers, Procs
<1>4. \A k \in Shrinkers : wrapper'[k] = wrapper[k]
  BY <1>2, ProcKinds
<1>5. Visible' = open' \ {wrapper[k] : k \in Shrinkers}
  BY <1>4 DEF Visible
<1>6. Opening' \subseteq Borrowers /\ Opening \subseteq Borrowers
  BY DEF Opening, Borrowers
<1> USE DEF Goto, TypeOK
<1>7. CASE Tick \/ Sweep \/ SweepEnds \/ GiveBack \/ ReopenFails(p)
  <2>1. open' = open /\ pc'[p] \notin {"open", "reopen", "restore"}
    BY <1>1, <1>7 DEF Tick, Sweep, SweepEnds, GiveBack, ReopenFails, Sweeping
  <2>2. Opening' \subseteq Opening
    BY <1>3, <1>6, <2>1 DEF Opening
  <2>3. Visible' \subseteq Visible
    BY <1>5, <2>1 DEF Visible
  <2> QED
    BY <1>1, <2>2, <2>3, NoneOpens
<1>8. CASE CloseIdle
  <2>1. wrapper[p] # Empty /\ open' = open \ {wrapper[p]}
    BY <1>8 DEF CloseIdle
  <2>2. wrapper[p] \in Visible
    <3>1. wrapper[p] \in open
      BY <1>1, <2>1 DEF Parts, Live
    <3>2. \A k \in Shrinkers : wrapper[k] # wrapper[p]
      BY <1>1, <2>1, ProcKinds DEF Parts, Carried
    <3> QED
      BY <3>1, <3>2 DEF Visible
  <2>3. Visible' \subseteq Visible \ {wrapper[p]} /\ Opening' \subseteq Opening \cup {p}
    BY <1>3, <1>5, <1>6, <2>1 DEF Visible
  <2> QED
    BY <1>1, <2>2, <2>3, OneReplaced
<1>9. CASE Reopen(p)
  <2>1. p \in Opening
    BY <1>1, <1>9 DEF Reopen, Opening, Hands
  <2>2. p \notin Opening'
    BY <1>1, <1>9 DEF Reopen, Opening
  <2>3. PICK s : open' = open \cup {s}
    BY <1>9 DEF Reopen
  <2>4. Visible' \subseteq Visible \cup {s} /\ Opening' \subseteq Opening \ {p}
    BY <1>3, <1>5, <1>6, <2>2, <2>3 DEF Visible
  <2> QED
    BY <1>1, <2>1, <2>4, OneOpened
<1> QED
  BY <1>7, <1>8, <1>9 DEF KeeperSteps, ReopenSteps

\* A session in a shrinker's hand is about to be closed.
LEMMA ShrinkerTracks ==
  ASSUME Tracked, TypeOK', NEW k \in Shrinkers, ResizeSteps(k) \/ CallClose(k) \/ CallSetCapacity(k)
  PROVE  Tracks'
<1>1. TypeOK /\ Hands /\ Parts /\ Tracks /\ k \in Procs /\ k \notin Borrowers
  BY ProcKinds DEF Tracked, Sound, Balanced, Typed, Placed, NoPanic, Borrowers
<1>2. \A q \in Procs \ {k} : pc'[q] = pc[q] /\ wrapper'[q] = wrapper[q]
  BY <1>1, ShrinkerFrame, ShrinkerHand
<1>3. Opening' \subseteq Opening
  BY <1>1, <1>2 DEF Opening, Borrowers, Procs
<1>4. Visible' \subseteq Visible
  <2> USE DEF Goto, TypeOK
  <2>1. open' \subseteq open /\ (wrapper[k] = Empty \/ wrapper[k] = wrapper'[k] \/ wrapper[k] \notin open')
    <3>1. CASE Shrink(k)
      BY <1>1, <3>1 DEF Shrink, Hands
    <3>2. CASE Retire(k)
      BY <3>2 DEF Retire
    <3>3. CASE ~Shrink(k) /\ ~Retire(k)
      <4>1. open' = open /\ wrapper' = wrapper
        BY <3>3 DEF ResizeSteps, CallClose, CallSetCapacity, StopTimer, Unchanged, Swap, CountRetired,
          CountShrunk, CloseChannel, Grow, CountGrown
      <4> QED
        BY <4>1
    <3> QED
      BY <3>1, <3>2, <3>3
  <2>2. Empty \notin open
    BY <1>1, PoolAssumption
  <2>3. \A j \in Shrinkers : j = k \/ wrapper'[j] = wrapper[j]
    BY <1>2, ProcKinds
  <2> QED
    BY <2>1, <2>2, <2>3 DEF Visible
<1> QED
  BY <1>1, <1>3, <1>4, NoneOpens

LEMMA InitTracked == Init => Tracked
<1> SUFFICES ASSUME Init PROVE Tracked
  OBVIOUS
<1>1. Sound /\ TypeOK
  BY InitSound, InitTyped DEF Typed
<1>2. Filled
  BY ProcKinds DEF Init, Filled
<1>3. Tracks
  <2>1. Visible = {} /\ Opening = {}
    BY DEF Init, Visible, Opening, Borrowers, Procs
  <2>2. Cardinality(Users) \in Nat
    BY <1>1, FiniteCounts DEF CountsFinite
  <2> QED
    BY <2>1, <2>2, FS_EmptySet DEF Tracks
<1> QED
  BY <1>1, <1>2, <1>3 DEF Tracked

LEMMA NextTracked == Single /\ Tracked /\ [Next]_vars => Tracked'
<1> SUFFICES ASSUME Single, Tracked, [Next]_vars PROVE Tracked'
  OBVIOUS
<1>1. Sound' /\ Filled'
  BY NextSound, NextFilled DEF Tracked, Sound, Balanced
<1>2. TypeOK'
  BY <1>1 DEF Sound, Balanced, Typed
<1>3. ASSUME Next PROVE Tracks'
  BY <1>2, <1>3, StepKinds, ClientTracks, KeeperTracks, ShrinkerTracks
<1>4. CASE UNCHANGED vars
  <2>1. UNCHANGED <<open, wrapper, pc>>
    BY <1>4 DEF vars
  <2>2. Visible' = Visible /\ Opening' = Opening
    BY <2>1 DEF Visible, Opening
  <2> QED
    BY <1>1, <2>2 DEF Tracked, Tracks, Users
<1> QED
  BY <1>1, <1>3, <1>4 DEF Tracked

\* takeIdle keeps its promise, under the same condition: the sessions open on the
\* token are never more than the clients, and one more for the idle timer's
\* goroutine, however many Gets have been served.
THEOREM OpensTrackConcurrency ==
  ASSUME Single
  PROVE  Spec => []OpenTracksConcurrency
<1>1. Tracked => OpenTracksConcurrency
  <2> SUFFICES ASSUME Tracked PROVE OpenTracksConcurrency
    OBVIOUS
  <2>1. CountsFinite
    BY FiniteCounts DEF Tracked, Sound, Balanced, Typed
  <2>2. Cardinality(Visible) <= Cardinality(Users)
    BY <2>1 DEF Tracked, Tracks, CountsFinite
  <2>3. Cardinality(Users) = Cardinality(Clients) + (IF HasIdleTimer THEN 1 ELSE 0)
    <3>1. IsFiniteSet(Clients) /\ Cardinality(Clients) \in Nat /\ Housekeeper \notin Clients
      BY ProcAssumption, FS_CardinalityType
    <3>2. CASE HasIdleTimer
      <4>1. Users = Clients \cup {Housekeeper}
        BY <3>2 DEF Users
      <4> QED
        BY <3>1, <3>2, <4>1, FS_AddElement
    <3>3. CASE ~HasIdleTimer
      <4>1. Users = Clients
        BY <3>3 DEF Users
      <4> QED
        BY <3>1, <3>3, <4>1
    <3> QED
      BY <3>2, <3>3
  <2> QED
    BY <2>2, <2>3 DEF OpenTracksConcurrency, Visible
<1> QED
  BY InitTracked, NextTracked, <1>1, PTL DEF Spec

----------------------------------------------------------------------------
(* The pool implements SessionPool.                                         *)

\* SessionPool counts as the pool does.
LEMMA SameCount == Promise!Cardinality(open) = Cardinality(open)
BY DEF Promise!Cardinality, Cardinality

LEMMA Claims ==
  ASSUME Sound, NEW p \in Borrowers
  PROVE  /\ TypeOK /\ Hands /\ Parts /\ p \in Procs
         /\ Promise!Claimed = {wrapper[q] : q \in Clients} \ {Empty}
         /\ \A w : wrapper' = [wrapper EXCEPT ![p] = w] =>
              [q \in Clients |-> wrapper'[q]]
                = IF p \in Clients THEN [[q \in Clients |-> wrapper[q]] EXCEPT ![p] = w]
                  ELSE [q \in Clients |-> wrapper[q]]
<1>1. TypeOK /\ Hands /\ Parts /\ p \in Procs
  BY ProcKinds DEF Sound, Balanced, Typed, Placed, NoPanic, Borrowers
<1>2. Promise!Claimed = {wrapper[q] : q \in Clients} \ {Empty}
  BY DEF Promise!Claimed
<1>3. \A w : wrapper' = [wrapper EXCEPT ![p] = w] =>
              [q \in Clients |-> wrapper'[q]]
                = IF p \in Clients THEN [[q \in Clients |-> wrapper[q]] EXCEPT ![p] = w]
                  ELSE [q \in Clients |-> wrapper[q]]
  BY <1>1, ProcKinds DEF TypeOK
<1> QED
  BY <1>1, <1>2, <1>3

\* A session in the channel, or in the housekeeper's or a shrinker's hand, is idle.
LEMMA IdleSessions ==
  ASSUME Sound, NEW s,
         \/ s = Received /\ s # Empty
         \/ \E q \in Procs \ Clients : s = wrapper[q] /\ s # Empty
  PROVE  s \in open \ Promise!Claimed
<1>1. TypeOK /\ Parts
  BY DEF Sound, Balanced, Typed, Placed, NoPanic
<1>2. Promise!Claimed = {wrapper[q] : q \in Clients} \ {Empty}
  BY DEF Promise!Claimed
<1>3. CASE s = Received /\ s # Empty
  <2>1. resources # <<>> /\ s = resources[1]
    BY <1>3 DEF Received
  <2>2. 1 \in DOMAIN resources
    <3>1. Len(resources) \in Nat /\ Len(resources) # 0 /\ DOMAIN resources = 1..Len(resources)
      BY <1>1, <2>1, EmptySeq, LenProperties DEF TypeOK
    <3> QED
      BY <3>1
  <2> QED
    BY <1>2, <1>3, <2>1, <2>2, <1>1, ProcKinds DEF Parts, Apart, Live
<1>4. CASE \E q \in Procs \ Clients : s = wrapper[q] /\ s # Empty
  BY <1>1, <1>2, <1>4, ProcKinds DEF Parts, Carried, Live
<1> QED
  BY <1>3, <1>4

\* A step that leaves alone what the clients have, what is open and the channel's
\* state, is none of SessionPool's.
LEMMA Stutters ==
  ASSUME UNCHANGED <<open, closed>>, \A q \in Clients : wrapper'[q] = wrapper[q]
  PROVE  UNCHANGED Promise!poolVars
<1>1. [q \in Clients |-> wrapper'[q]] = [q \in Clients |-> wrapper[q]]
  OBVIOUS
<1> QED
  BY <1>1 DEF Promise!poolVars

LEMMA ClientRefines ==
  ASSUME Sound, NEW p \in Clients, StartGet(p) \/ ClientSteps(p)
  PROVE  [Promise!Next]_(Promise!poolVars)
<1>1. p \in Borrowers
  BY DEF Borrowers
<1>2. /\ TypeOK /\ Hands /\ Parts /\ p \in Procs
      /\ \A w : wrapper' = [wrapper EXCEPT ![p] = w] =>
              [q \in Clients |-> wrapper'[q]] = [[q \in Clients |-> wrapper[q]] EXCEPT ![p] = w]
  BY <1>1, Claims
<1>3. closed' = closed
  BY <1>2, ClientFrame
<1>4. pc[p] \in {"fetch", "scan", "open", "reopen"} => wrapper[p] = Empty
  BY <1>2 DEF Hands
<1>5. CASE StartGet(p) \/ Expire(p) \/ Refuse(p) \/ ScanEnds(p) \/ Restore(p) \/ OpenFails(p)
             \/ Refund(p) \/ CountOpened(p) \/ CountTaken(p) \/ CountInUse(p)
  BY <1>3, <1>5, Stutters DEF StartGet, Expire, Refuse, ScanEnds, Restore, OpenFails, Refund,
    CountOpened, CountTaken, CountInUse
<1>6. CASE Fetch(p) \/ Scan(p)
  <2>1. wrapper' = [wrapper EXCEPT ![p] = Received] /\ open' = open /\ wrapper[p] = Empty
    BY <1>4, <1>6 DEF Fetch, Scan, Receive
  <2>2. CASE Received = Empty
    <3>1. \A q \in Clients : wrapper'[q] = wrapper[q]
      BY <1>2, <2>1, <2>2 DEF TypeOK
    <3> QED
      BY <1>3, <2>1, <3>1, Stutters
  <2>3. CASE Received # Empty
    <3>1. Received \in open \ Promise!Claimed
      BY <2>3, IdleSessions
    <3>2. Promise!ClaimIdle(p)
      BY <1>2, <1>3, <2>1, <3>1 DEF Promise!ClaimIdle
    <3> QED
      BY <3>2 DEF Promise!Next
  <2> QED
    BY <2>2, <2>3
<1>7. CASE Open(p) \/ Reopen(p)
  <2>1. PICK s \in Sessions \ open : open' = open \cup {s} /\ wrapper' = [wrapper EXCEPT ![p] = s]
    BY <1>7 DEF Open, Reopen
  <2>2. wrapper[p] = Empty /\ ~closed /\ Cardinality(open) < MaxCap
    BY <1>1, <1>4, <1>7, OpenRoom DEF Open, Reopen
  <2>3. Promise!ClaimNew(p)
    BY <1>2, <1>3, <2>1, <2>2, SameCount DEF Promise!ClaimNew
  <2> QED
    BY <2>3 DEF Promise!Next
<1>8. CASE Discard(p)
  <2>1. open' = open \ {wrapper[p]} /\ wrapper' = [wrapper EXCEPT ![p] = Empty]
    BY <1>8 DEF Discard
  <2>2. CASE wrapper[p] # Empty
    <3>1. Promise!Discard(p)
      BY <1>2, <1>3, <2>1, <2>2 DEF Promise!Discard
    <3> QED
      BY <3>1 DEF Promise!Next
  <2>3. CASE wrapper[p] = Empty
    <3>1. Empty \notin open
      BY <1>2, PoolAssumption DEF TypeOK
    <3>2. open' = open /\ wrapper' = wrapper
      BY <1>2, <2>1, <2>3, <3>1 DEF TypeOK
    <3> QED
      BY <1>3, <3>2, Stutters
  <2> QED
    BY <2>2, <2>3
<1>9. CASE Put(p)
  <2>1. open' = open /\ wrapper' = [wrapper EXCEPT ![p] = Empty]
    BY <1>9 DEF Put
  <2>2. CASE wrapper[p] # Empty
    <3>1. Promise!Release(p)
      BY <1>2, <1>3, <2>1, <2>2 DEF Promise!Release
    <3> QED
      BY <3>1 DEF Promise!Next
  <2>3. CASE wrapper[p] = Empty
    <3>1. wrapper' = wrapper
      BY <1>2, <2>1, <2>3 DEF TypeOK
    <3> QED
      BY <1>3, <2>1, <3>1, Stutters
  <2> QED
    BY <2>2, <2>3
<1>10. CASE CountReturned(p) \/ CountAvailable(p) \/ ReopenFails(p)
  BY <1>3, <1>10, Stutters DEF CountReturned, CountAvailable, ReopenFails
<1> QED
  BY <1>5, <1>6, <1>7, <1>8, <1>9, <1>10 DEF ClientSteps, GetSteps, PutSteps, ReopenSteps

LEMMA KeeperRefines ==
  ASSUME Sound, Tick \/ KeeperSteps
  PROVE  [Promise!Next]_(Promise!poolVars)
<1>1. Housekeeper \in Borrowers /\ Housekeeper \in Procs \ Clients
  BY ProcKinds DEF Borrowers
<1>2. TypeOK
  BY <1>1, Claims
<1>3. closed' = closed
  BY <1>2, KeeperFrame
<1>4. \A q \in Clients : wrapper'[q] = wrapper[q]
  BY <1>2, KeeperHand, ProcKinds
<1>5. [q \in Clients |-> wrapper'[q]] = [q \in Clients |-> wrapper[q]]
  BY <1>4
<1>6. CASE Tick \/ Sweep \/ SweepEnds \/ GiveBack \/ ReopenFails(Housekeeper)
  <2>1. open' = open
    BY <1>6 DEF Tick, Sweep, SweepEnds, GiveBack, ReopenFails
  <2> QED
    BY <1>3, <1>4, <2>1, Stutters
<1>7. CASE CloseIdle
  <2>1. wrapper[Housekeeper] # Empty /\ open' = open \ {wrapper[Housekeeper]}
    BY <1>7 DEF CloseIdle
  <2>2. wrapper[Housekeeper] \in open \ Promise!Claimed
    BY <1>1, <2>1, IdleSessions
  <2>3. Promise!CloseIdle
    BY <1>3, <1>5, <2>1, <2>2 DEF Promise!CloseIdle
  <2> QED
    BY <2>3 DEF Promise!Next
<1>8. CASE Reopen(Housekeeper)
  <2>1. PICK s \in Sessions \ open : open' = open \cup {s}
    BY <1>8 DEF Reopen
  <2>2. ~closed /\ Cardinality(open) < MaxCap
    BY <1>1, <1>8, OpenRoom DEF Reopen
  <2>3. Promise!OpenIdle
    BY <1>3, <1>5, <2>1, <2>2, SameCount DEF Promise!OpenIdle
  <2> QED
    BY <2>3 DEF Promise!Next
<1> QED
  BY <1>6, <1>7, <1>8 DEF KeeperSteps, ReopenSteps

LEMMA ShrinkerRefines ==
  ASSUME Sound, NEW k \in Shrinkers, ResizeSteps(k) \/ CallClose(k) \/ CallSetCapacity(k)
  PROVE  [Promise!Next]_(Promise!poolVars)
<1>1. k \in Procs \ Clients /\ TypeOK /\ Hands /\ Orderly
  BY ProcKinds DEF Sound, Balanced, Typed, Placed, NoPanic
<1>2. \A q \in Clients : wrapper'[q] = wrapper[q]
  BY <1>1, ShrinkerHand, ProcKinds
<1>3. [q \in Clients |-> wrapper'[q]] = [q \in Clients |-> wrapper[q]]
  BY <1>2
<1> USE DEF chanVars
<1>4. CASE CallClose(k) \/ CallSetCapacity(k) \/ StopTimer(k) \/ Unchanged(k) \/ Swap(k)
  BY <1>2, <1>4, Stutters DEF CallClose, CallSetCapacity, StopTimer, Unchanged, Swap
<1>5. CASE Shrink(k) \/ CountRetired(k) \/ CountShrunk(k)
  BY <1>2, <1>5, Stutters DEF Shrink, Receive, CountRetired, CountShrunk
<1>6. CASE Retire(k)
  <2>1. open' = open \ {wrapper[k]} /\ closed' = closed
    BY <1>6 DEF Retire
  <2>2. CASE wrapper[k] = Empty
    <3>1. open' = open
      BY <1>1, <2>1, <2>2, PoolAssumption DEF TypeOK
    <3> QED
      BY <1>2, <2>1, <3>1, Stutters
  <2>3. CASE wrapper[k] # Empty
    <3>1. wrapper[k] \in open \ Promise!Claimed
      BY <1>1, <2>3, IdleSessions
    <3>2. Promise!CloseIdle
      BY <1>3, <2>1, <3>1 DEF Promise!CloseIdle
    <3> QED
      BY <3>2 DEF Promise!Next
  <2> QED
    BY <2>2, <2>3
<1>7. CASE CloseChannel(k)
  <2>1. open = {} /\ open' = open /\ closed' = TRUE
    BY <1>7, AllBack DEF CloseChannel
  <2>2. Promise!Shut
    BY <1>3, <2>1 DEF Promise!Shut
  <2> QED
    BY <2>2 DEF Promise!Next
<1>8. CASE Grow(k) \/ CountGrown(k)
  BY <1>2, <1>8, Stutters DEF Grow, CountGrown, Send
<1> QED
  BY <1>4, <1>5, <1>6, <1>7, <1>8 DEF ResizeSteps

\* As crypto11 uses it, and under Single in general, the pool implements
\* SessionPool, with any number of clients, closers and sessions, any capacity,
\* with or without the idle timer:
\* a client's session is its own until it puts it back, no more than MaxCap are
\* ever open, and none once the pool is shut.
THEOREM PoolImplementsPromise ==
  ASSUME Single
  PROVE  Spec => Refines
<1>1. Init => Promise!Init
  BY DEF Init, Promise!Init, Procs
<1>2. Sound /\ [Next]_vars => [Promise!Next]_(Promise!poolVars)
  <2>1. ASSUME Sound, UNCHANGED vars PROVE UNCHANGED Promise!poolVars
    BY <2>1, Stutters DEF vars, chanVars
  <2> QED
    BY <2>1, StepKinds, ClientRefines, KeeperRefines, ShrinkerRefines
<1> QED
  BY InitSound, NextSound, <1>1, <1>2, PTL DEF Spec, Refines, Promise!Spec
=============================================================================
