----------------------------- MODULE MultiPart -----------------------------
(***************************************************************************)
(* The objects that keep a session for a multi-part operation: the HMACs   *)
(* of hmac.go and the block modes of blockmode.go.                         *)
(*                                                                         *)
(* Every method is one step: an object belongs to one goroutine, and what  *)
(* another one does meanwhile it does with another session.  Only Reset is *)
(* two, as it gives its session back and then asks for one.  A session     *)
(* that is closed and replaced keeps its name here.  The calls that find   *)
(* an object finished or dead change nothing and are not steps.            *)
(***************************************************************************)
EXTENDS Naturals, Sequences

CONSTANTS
  Macs,
  Modes,
  Sessions,
  Data,
  None,
  Finalised,   \* the block modes made without a Closer: they have a finaliser
  Sticky,      \* whether a token may fail to end an operation that fails
  MaxUpdates   \* bound: calls of Write between two Resets

Objects == Macs \cup Modes

ASSUME ObjectAssumption ==
  /\ Macs \cap Modes = {}
  /\ Finalised \subseteq Modes
  /\ None \notin Objects \cup Sessions /\ None \notin Seq(Data)
  /\ Sticky \in BOOLEAN

VARIABLES
  idle,     \* how many times each session is in the pool
  session,  \* hi.session and bmc.session
  result,   \* hi.result
  updates,  \* hi.updates
  active,   \* the object whose operation each session has in progress
  fed,      \* what C_SignUpdate has given the operation, None if not called
  stuck,    \* the sessions with an operation that failed and has not ended
  written,  \* what each HMAC was given since it was made or Reset
  phase     \* "new", "made", "resetting" or "lost", the unreachable objects

tokenVars == <<active, fed, stuck>>
macVars == <<result, updates, written>>
vars == <<idle, session, tokenVars, macVars, phase>>

Init ==
  /\ idle = [s \in Sessions |-> 1]
  /\ session = [o \in Objects |-> None]
  /\ result = [m \in Macs |-> None]
  /\ updates = [m \in Macs |-> 0]
  /\ active = [s \in Sessions |-> None]
  /\ fed = [s \in Sessions |-> None]
  /\ stuck = {}
  /\ written = [m \in Macs |-> <<>>]
  /\ phase = [o \in Objects |-> "new"]

Chunks == {<<>>} \cup {<<d>> : d \in Data}

----------------------------------------------------------------------------
(* The token and the pool.                                                 *)

\* An operation ends when it is finished and when it fails, or with its
\* session, which putSession closes if the error was fatal ...
Ends(s) ==
  /\ active' = [active EXCEPT ![s] = None]
  /\ fed' = [fed EXCEPT ![s] = None]
  /\ stuck' = stuck \ {s}

\* ... unless the token leaves an operation that failed in progress.
Fails(s) ==
  \/ Ends(s)
  \/ Sticky /\ stuck' = stuck \cup {s} /\ UNCHANGED <<active, fed>>

\* cleanup: putSession, and the object forgets its session.
Cleanup(o) ==
  /\ idle' = [idle EXCEPT ![session[o]] = @ + 1]
  /\ session' = [session EXCEPT ![o] = None]

\* getSession, and C_SignInit, C_EncryptInit or C_DecryptInit.
Starts(o) ==
  \E s \in Sessions :
    /\ idle[s] > 0 /\ active[s] = None
    /\ idle' = [idle EXCEPT ![s] = @ - 1]
    /\ session' = [session EXCEPT ![o] = s]
    /\ active' = [active EXCEPT ![s] = o]
    /\ fed' = [fed EXCEPT ![s] = None]
    /\ UNCHANGED stuck

\* One of them fails, and the session is back in the pool.  On a session with
\* an operation in progress C_*Init fails with CKR_OPERATION_ACTIVE, which is
\* fatal, and the session is replaced.
StartFails ==
  /\ \/ UNCHANGED tokenVars
     \/ \E s \in Sessions : idle[s] > 0 /\ active[s] # None /\ Ends(s)
  /\ UNCHANGED <<idle, session>>

----------------------------------------------------------------------------
(* HMAC.                                                                   *)

NewHMAC(m) ==
  /\ phase[m] = "new"
  /\ Starts(m)
  /\ result' = [result EXCEPT ![m] = None]
  /\ updates' = [updates EXCEPT ![m] = 0]
  /\ phase' = [phase EXCEPT ![m] = "made"]
  /\ UNCHANGED written

\* NewHMAC or newBlockModeCloser returns the error.
NewFails(o) ==
  /\ phase[o] = "new"
  /\ StartFails
  /\ UNCHANGED <<macVars, phase>>

Live(o) == phase[o] = "made" /\ session[o] # None

Write(m, chunk) ==
  /\ Live(m) /\ result[m] = None
  /\ updates[m] < MaxUpdates
  /\ LET s == session[m] IN
     fed' = [fed EXCEPT ![s] = IF @ = None THEN chunk ELSE @ \o chunk]
  /\ updates' = [updates EXCEPT ![m] = @ + 1]
  /\ written' = [written EXCEPT ![m] = @ \o chunk]
  /\ UNCHANGED <<idle, session, active, stuck, result, phase>>

WriteFails(m) ==
  /\ Live(m) /\ result[m] = None
  /\ Fails(session[m])
  /\ Cleanup(m)
  /\ UNCHANGED <<macVars, phase>>

\* What C_SignFinal returns: Sum calls C_SignUpdate first if nobody has.
Final(m) == IF updates[m] = 0 THEN <<>> ELSE fed[session[m]]

Sums(m) ==
  /\ Live(m) /\ result[m] = None
  /\ result' = [result EXCEPT ![m] = Final(m)]
  /\ Ends(session[m])
  /\ Cleanup(m)
  /\ UNCHANGED <<updates, written>>

\* C_SignUpdate or C_SignFinal fails, or the MAC has the wrong length: Sum
\* panics, with the session back in the pool.
SumPanics(m) ==
  /\ Live(m) /\ result[m] = None
  /\ Fails(session[m])
  /\ Cleanup(m)
  /\ UNCHANGED <<macVars, phase>>

Sum(m) == Sums(m) /\ UNCHANGED phase

\* Reset finishes the operation in progress, if there is one; should Sum
\* panic, so does Reset (SumPanics).
Reset(m) ==
  /\ phase[m] = "made"
  /\ Sums(m) \/ (session[m] = None /\ UNCHANGED <<idle, session, tokenVars, macVars>>)
  /\ phase' = [phase EXCEPT ![m] = "resetting"]

Restart(m) ==
  /\ phase[m] = "resetting"
  /\ Starts(m)
  /\ result' = [result EXCEPT ![m] = None]
  /\ updates' = [updates EXCEPT ![m] = 0]
  /\ written' = [written EXCEPT ![m] = <<>>]
  /\ phase' = [phase EXCEPT ![m] = "made"]

\* Defect: only initialize forgets the result, when it succeeds.
RestartFailsKeeping(m) ==
  /\ phase[m] = "resetting"
  /\ StartFails
  /\ written' = [written EXCEPT ![m] = <<>>]
  /\ phase' = [phase EXCEPT ![m] = "made"]
  /\ UNCHANGED <<result, updates>>

\* Reset ignores the error of initialize.  The hash is dead.
RestartFails(m) ==
  /\ phase[m] = "resetting"
  /\ StartFails
  /\ result' = [result EXCEPT ![m] = None]
  /\ written' = [written EXCEPT ![m] = <<>>]
  /\ phase' = [phase EXCEPT ![m] = "made"]
  /\ UNCHANGED updates

----------------------------------------------------------------------------
(* Block modes.                                                            *)

NewBlockMode(b) ==
  /\ phase[b] = "new"
  /\ Starts(b)
  /\ phase' = [phase EXCEPT ![b] = "made"]
  /\ UNCHANGED macVars

\* CryptBlocks panics with the token's error.
CryptFails(b) ==
  /\ Live(b)
  /\ Fails(session[b])
  /\ Cleanup(b)
  /\ UNCHANGED <<macVars, phase>>

\* Defects: close puts the session back without C_*Final; or without
\* forgetting it, so that the finaliser puts it back again.
CloseUnfinished(b) ==
  /\ session[b] # None
  /\ Cleanup(b)
  /\ UNCHANGED tokenVars
CloseRemembering(b) ==
  /\ session[b] # None
  /\ Fails(session[b])
  /\ idle' = [idle EXCEPT ![session[b]] = @ + 1]
  /\ UNCHANGED session

\* close: C_EncryptFinal or C_DecryptFinal, and the session goes back even if
\* that fails.
CloseMode(b) ==
  /\ session[b] # None
  /\ Fails(session[b])
  /\ Cleanup(b)

Close(b) ==
  /\ phase[b] = "made"
  /\ CloseMode(b)
  /\ UNCHANGED <<macVars, phase>>

Finalise(b) ==
  /\ phase[b] = "lost" /\ b \in Finalised
  /\ CloseMode(b)
  /\ UNCHANGED <<macVars, phase>>

\* The user drops the object.
Abandon(o) ==
  /\ phase[o] = "made"
  /\ phase' = [phase EXCEPT ![o] = "lost"]
  /\ UNCHANGED <<idle, session, tokenVars, macVars>>

----------------------------------------------------------------------------

MacSteps(m) ==
  \/ NewHMAC(m) \/ (\E chunk \in Chunks : Write(m, chunk)) \/ WriteFails(m)
  \/ Sum(m) \/ SumPanics(m) \/ Reset(m) \/ Restart(m) \/ RestartFails(m)
ModeSteps(b) == NewBlockMode(b) \/ CryptFails(b) \/ Close(b) \/ Finalise(b)

Next ==
  \/ \E m \in Macs : MacSteps(m)
  \/ \E b \in Modes : ModeSteps(b)
  \/ \E o \in Objects : NewFails(o) \/ Abandon(o)

Spec == Init /\ [][Next]_vars

----------------------------------------------------------------------------
(* Type invariant.                                                         *)

TypeOK ==
  /\ idle \in [Sessions -> Nat]
  /\ session \in [Objects -> Sessions \cup {None}]
  /\ result \in [Macs -> Seq(Data) \cup {None}]
  /\ updates \in [Macs -> Nat]
  /\ active \in [Sessions -> Objects \cup {None}]
  /\ fed \in [Sessions -> Seq(Data) \cup {None}]
  /\ stuck \in SUBSET Sessions
  /\ written \in [Macs -> Seq(Data)]
  /\ phase \in [Objects -> {"new", "made", "resetting", "lost"}]

----------------------------------------------------------------------------
(* Safety.                                                                 *)

\* A session is in the pool once, or in the hands of one object: cleanup gives
\* it back on every path that ends an operation, and on none of them twice.
HeldOnce ==
  \A s \in Sessions :
    /\ idle[s] \in {0, 1}
    /\ idle[s] = 1 <=> \A o \in Objects : session[o] # s
    /\ \A o, p \in Objects : session[o] = s /\ session[p] = s => o = p

\* The operation in progress on a session is that of the object which has it.
\* The pool gives out sessions without one, apart from those the token would
\* not unstick, and on these no operation begins.
CleanSessions ==
  \A s \in Sessions :
    /\ \A o \in Objects : session[o] = s => active[s] = o /\ s \notin stuck
    /\ idle[s] > 0 /\ active[s] # None => s \in stuck

\* What Sum returns is the MAC of all that was written since the hash was made
\* or Reset, and of nothing else: whichever calls failed in between.
Authentic == \A m \in Macs : result[m] # None => result[m] = written[m]
=============================================================================
