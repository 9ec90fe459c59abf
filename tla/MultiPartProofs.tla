-------------------------- MODULE MultiPartProofs --------------------------
(* Multi-part objects share the sessions of a pool without mixing them up. *)
EXTENDS MultiPart, TLAPS

\* The part of the type invariant that says where the sessions are.
SessionTypes ==
  /\ idle \in [Sessions -> Nat]
  /\ session \in [Objects -> Sessions \cup {None}]
  /\ active \in [Sessions -> Objects \cup {None}]
  /\ fed \in [Sessions -> Seq(Data) \cup {None}]
  /\ stuck \in SUBSET Sessions

LEMMA InitTyped == Init => TypeOK
<1> SUFFICES ASSUME Init PROVE TypeOK
  OBVIOUS
<1>1. SessionTypes
  BY DEF Init, SessionTypes
<1>2. <<>> \in Seq(Data)
  OBVIOUS
<1>3. written \in [Macs -> Seq(Data)] /\ result \in [Macs -> Seq(Data) \cup {None}]
  BY <1>2 DEF Init
<1>4. updates \in [Macs -> Nat] /\ phase \in [Objects -> {"new", "made", "resetting", "lost"}]
  BY DEF Init
<1> QED
  BY <1>1, <1>3, <1>4 DEF TypeOK, SessionTypes

LEMMA ChunkType == Chunks \subseteq Seq(Data)
<1>1. \A d \in Data : <<d>> \in Seq(Data)
  OBVIOUS
<1>2. <<>> \in Seq(Data)
  OBVIOUS
<1> QED
  BY <1>1, <1>2 DEF Chunks

\* What the operation returns is some data, or nothing if it never had any.
LEMMA FinalType == TypeOK => \A m \in Macs : Live(m) => Final(m) \in Seq(Data) \cup {None}
BY DEF TypeOK, Live, Final, Objects

\* An object with a session gives it back.
Returns(o) == session[o] # None /\ Fails(session[o]) /\ Cleanup(o)

LEMMA StartTyped ==
  ASSUME TypeOK, NEW o \in Objects, Starts(o) \/ StartFails \/ Returns(o)
  PROVE  SessionTypes'
<1> USE DEF TypeOK, SessionTypes
<1>1. CASE Starts(o)
  BY <1>1 DEF Starts
<1>2. CASE StartFails
  BY <1>2 DEF StartFails, Ends, tokenVars
<1>3. CASE Returns(o)
  <2>0. session[o] \in Sessions
    BY <1>3 DEF Returns
  <2>1. idle' \in [Sessions -> Nat] /\ session' \in [Objects -> Sessions \cup {None}]
    BY <1>3, <2>0 DEF Returns, Cleanup
  <2>2. active' \in [Sessions -> Objects \cup {None}]
    BY <1>3 DEF Returns, Fails, Ends
  <2>3. fed' \in [Sessions -> Seq(Data) \cup {None}]
    BY <1>3 DEF Returns, Fails, Ends
  <2>4. stuck' \in SUBSET Sessions
    BY <1>3, <2>0 DEF Returns, Fails, Ends
  <2> QED
    BY <2>1, <2>2, <2>3, <2>4
<1> QED
  BY <1>1, <1>2, <1>3

LEMMA WriteTyped ==
  ASSUME TypeOK, NEW m \in Macs, NEW chunk \in Chunks, Write(m, chunk)
  PROVE  TypeOK'
<1> DEFINE s == session[m]
<1>1. s \in Sessions /\ chunk \in Seq(Data)
  BY ChunkType DEF TypeOK, Write, Live, Objects
<1>2. fed' = [fed EXCEPT ![s] = IF @ = None THEN chunk ELSE @ \o chunk]
  BY DEF Write
<1>3. (IF fed[s] = None THEN chunk ELSE fed[s] \o chunk) \in Seq(Data)
  BY <1>1 DEF TypeOK
<1>4. fed' \in [Sessions -> Seq(Data) \cup {None}]
  BY <1>1, <1>2, <1>3 DEF TypeOK
<1>5. written[m] \o chunk \in Seq(Data)
  BY <1>1 DEF TypeOK
<1>6. written' \in [Macs -> Seq(Data)]
  BY <1>5 DEF TypeOK, Write
<1>7. updates' \in [Macs -> Nat]
  BY DEF TypeOK, Write
<1> QED
  BY <1>4, <1>6, <1>7 DEF TypeOK, Write

LEMMA NextTyped == TypeOK /\ [Next]_vars => TypeOK'
<1> SUFFICES ASSUME TypeOK, [Next]_vars PROVE TypeOK'
  OBVIOUS
<1> DEFINE MacTypes ==
      /\ result \in [Macs -> Seq(Data) \cup {None}]
      /\ updates \in [Macs -> Nat]
      /\ written \in [Macs -> Seq(Data)]
    PhaseType == phase \in [Objects -> {"new", "made", "resetting", "lost"}]
<1>0. /\ SessionTypes' /\ MacTypes' /\ PhaseType' => TypeOK'
      /\ SessionTypes /\ MacTypes /\ PhaseType
      /\ <<>> \in Seq(Data)
  BY DEF TypeOK, SessionTypes
<1>a. Macs \subseteq Objects /\ Modes \subseteq Objects
  BY DEF Objects
<1>1. ASSUME NEW m \in Macs, MacSteps(m) PROVE TypeOK'
  <2>1. CASE NewHMAC(m) \/ Restart(m)
    <3>1. SessionTypes'
      BY <2>1, <1>a, StartTyped DEF NewHMAC, Restart
    <3>2. MacTypes'
      <4>1. result' \in [Macs -> Seq(Data) \cup {None}]
        BY <2>1, <1>0 DEF NewHMAC, Restart
      <4>2. updates' \in [Macs -> Nat]
        BY <2>1, <1>0 DEF NewHMAC, Restart
      <4>3. written' \in [Macs -> Seq(Data)]
        BY <2>1, <1>0 DEF NewHMAC, Restart
      <4> QED
        BY <4>1, <4>2, <4>3
    <3>3. PhaseType'
      BY <2>1, <1>0 DEF NewHMAC, Restart
    <3> QED
      BY <3>1, <3>2, <3>3, <1>0
  <2>2. CASE \E chunk \in Chunks : Write(m, chunk)
    BY <2>2, WriteTyped
  <2>3. CASE WriteFails(m) \/ SumPanics(m)
    <3>1. SessionTypes'
      BY <2>3, <1>a, StartTyped DEF WriteFails, SumPanics, Live, Returns
    <3>2. MacTypes' /\ PhaseType'
      BY <2>3, <1>0 DEF WriteFails, SumPanics, macVars
    <3> QED
      BY <3>1, <3>2, <1>0
  <2>4. CASE Sum(m) \/ Reset(m)
    <3>1. CASE Sums(m)
      <4>1. SessionTypes'
        BY <3>1, <1>a, StartTyped DEF Sums, Live, Returns, Fails
      <4>2. MacTypes'
        BY <3>1, <1>0, FinalType DEF Sums
      <4>3. PhaseType'
        BY <2>4, <1>0 DEF Sum, Reset
      <4> QED
        BY <4>1, <4>2, <4>3, <1>0
    <3>2. CASE ~Sums(m)
      <4>1. SessionTypes' /\ MacTypes'
        BY <2>4, <3>2, <1>0 DEF Sum, Reset, SessionTypes, tokenVars, macVars
      <4>2. PhaseType'
        BY <2>4, <1>0 DEF Sum, Reset
      <4> QED
        BY <4>1, <4>2, <1>0
    <3> QED
      BY <3>1, <3>2
  <2>5. CASE RestartFails(m)
    <3>1. SessionTypes'
      BY <2>5, <1>a, StartTyped DEF RestartFails
    <3>2. MacTypes'
      BY <2>5, <1>0 DEF RestartFails
    <3>3. PhaseType'
      BY <2>5, <1>0 DEF RestartFails
    <3> QED
      BY <3>1, <3>2, <3>3, <1>0
  <2> QED
    BY <1>1, <2>1, <2>2, <2>3, <2>4, <2>5 DEF MacSteps
<1>2. ASSUME NEW b \in Modes, ModeSteps(b) PROVE TypeOK'
  <2>1. SessionTypes'
    BY <1>2, <1>a, StartTyped DEF ModeSteps, NewBlockMode, CryptFails, Close, Finalise, CloseMode, Live, Returns
  <2>2. MacTypes'
    BY <1>2, <1>0 DEF ModeSteps, NewBlockMode, CryptFails, Close, Finalise, macVars
  <2>3. PhaseType'
    BY <1>2, <1>0 DEF ModeSteps, NewBlockMode, CryptFails, Close, Finalise, macVars
  <2> QED
    BY <2>1, <2>2, <2>3, <1>0
<1>3. ASSUME NEW o \in Objects, NewFails(o) \/ Abandon(o) PROVE TypeOK'
  <2>1. SessionTypes'
    BY <1>3, <1>0, StartTyped DEF NewFails, Abandon, SessionTypes, tokenVars
  <2>2. MacTypes' /\ PhaseType'
    BY <1>3, <1>0 DEF NewFails, Abandon, macVars
  <2> QED
    BY <2>1, <2>2, <1>0
<1>4. CASE UNCHANGED vars
  BY <1>4 DEF vars, TypeOK, tokenVars, macVars
<1> QED
  BY <1>1, <1>2, <1>3, <1>4 DEF Next

\* The variables keep their types, for any number of objects and sessions and
\* whatever is written.
THEOREM TypeCorrect == Spec => []TypeOK
BY InitTyped, NextTyped, PTL DEF Spec

----------------------------------------------------------------------------
(* Who has the sessions.                                                   *)

\* An object has no session before it starts an operation, and an operation
\* that is stuck is one in progress.
Rested == \A o \in Objects : phase[o] \in {"new", "resetting"} => session[o] = None
Owned == HeldOnce /\ CleanSessions /\ (\A s \in stuck : active[s] # None)

Ownership == TypeOK /\ Rested /\ Owned

LEMMA InitOwnership == Init => Ownership
<1> SUFFICES ASSUME Init PROVE Ownership
  OBVIOUS
<1>1. \A s \in Sessions, o \in Objects : session[o] # s
  BY ObjectAssumption DEF Init
<1> QED
  BY <1>1, InitTyped DEF Init, Ownership, Rested, Owned, HeldOnce, CleanSessions

LEMMA OwnedStarts ==
  ASSUME Ownership, NEW o \in Objects, session[o] = None, Starts(o)
  PROVE  Owned'
<1>1. PICK s \in Sessions :
        /\ idle[s] > 0 /\ active[s] = None
        /\ idle' = [idle EXCEPT ![s] = @ - 1]
        /\ session' = [session EXCEPT ![o] = s]
        /\ active' = [active EXCEPT ![s] = o]
        /\ UNCHANGED stuck
  BY DEF Starts
<1>2. idle[s] = 1 /\ idle'[s] = 0 /\ \A p \in Objects : session[p] # s
  BY <1>1 DEF Ownership, Owned, HeldOnce, TypeOK
<1>3. session'[o] = s /\ \A p \in Objects \ {o} : session'[p] = session[p]
  BY <1>1 DEF Ownership, TypeOK
<1>4. \A t \in Sessions \ {s} : idle'[t] = idle[t] /\ active'[t] = active[t]
  BY <1>1 DEF Ownership, TypeOK
<1>5. active'[s] = o /\ s \notin stuck /\ o # None
  BY <1>1, ObjectAssumption DEF Ownership, Owned, TypeOK
<1>6. HeldOnce'
  BY <1>2, <1>3, <1>4, ObjectAssumption DEF Ownership, Owned, HeldOnce
<1>7. CleanSessions'
  BY <1>1, <1>2, <1>3, <1>4, <1>5, ObjectAssumption DEF Ownership, Owned, CleanSessions
<1>8. \A t \in stuck' : active'[t] # None
  BY <1>1, <1>4, <1>5 DEF Ownership, Owned, TypeOK
<1> QED
  BY <1>6, <1>7, <1>8 DEF Owned

LEMMA OwnedReturns ==
  ASSUME Ownership, NEW o \in Objects, Returns(o)
  PROVE  Owned'
<1> DEFINE s == session[o]
<1>1. s \in Sessions
  BY DEF Returns, Ownership, TypeOK
<1>2. idle[s] = 0 /\ idle'[s] = 1 /\ \A p \in Objects \ {o} : session[p] # s
  BY <1>1 DEF Returns, Cleanup, Ownership, Owned, HeldOnce, TypeOK
<1>3. session'[o] = None /\ \A p \in Objects \ {o} : session'[p] = session[p]
  BY DEF Returns, Cleanup, Ownership, TypeOK
<1>4. \A t \in Sessions \ {s} :
        idle'[t] = idle[t] /\ active'[t] = active[t] /\ (t \in stuck' <=> t \in stuck)
  BY <1>1 DEF Returns, Cleanup, Fails, Ends, Ownership, TypeOK
<1>5. IF s \in stuck' THEN active'[s] # None ELSE active'[s] = None
  <2>1. active[s] = o /\ o # None
    BY <1>1, ObjectAssumption DEF Ownership, Owned, CleanSessions
  <2> QED
    BY <1>1, <2>1 DEF Returns, Fails, Ends, Ownership, TypeOK
<1>6. HeldOnce'
  BY <1>1, <1>2, <1>3, <1>4, ObjectAssumption DEF Ownership, Owned, HeldOnce
<1>7. CleanSessions'
  BY <1>1, <1>2, <1>3, <1>4, <1>5, ObjectAssumption DEF Ownership, Owned, CleanSessions
<1>8. \A t \in stuck' : active'[t] # None
  <2>1. stuck' \subseteq Sessions
    BY <1>1 DEF Returns, Fails, Ends, Ownership, TypeOK
  <2> QED
    BY <1>4, <1>5, <2>1 DEF Ownership, Owned
<1> QED
  BY <1>6, <1>7, <1>8 DEF Owned

LEMMA OwnedStartFails ==
  ASSUME Ownership, StartFails
  PROVE  Owned'
<1>1. CASE UNCHANGED tokenVars
  BY <1>1 DEF StartFails, tokenVars, Ownership, Owned, HeldOnce, CleanSessions
<1>2. CASE \E s \in Sessions : idle[s] > 0 /\ active[s] # None /\ Ends(s)
  <2>1. PICK s \in Sessions : idle[s] > 0 /\ Ends(s)
    BY <1>2
  <2>2. active'[s] = None /\ s \notin stuck' /\ \A p \in Objects : session[p] # s
    <3>1. active'[s] = None /\ s \notin stuck'
      BY <2>1 DEF Ends, Ownership, TypeOK
    <3>2. idle[s] = 1
      BY <2>1 DEF Ownership, Owned, HeldOnce
    <3>3. \A p \in Objects : session[p] # s
      BY <3>2 DEF Ownership, Owned, HeldOnce
    <3> QED
      BY <3>1, <3>3
  <2>3. \A t \in Sessions \ {s} : active'[t] = active[t] /\ (t \in stuck' <=> t \in stuck)
    BY <2>1 DEF Ends, Ownership, TypeOK
  <2>4. idle' = idle /\ session' = session /\ stuck' \subseteq Sessions
    BY <2>1 DEF StartFails, Ends, Ownership, TypeOK
  <2>5. HeldOnce'
    BY <2>4 DEF Ownership, Owned, HeldOnce
  <2>6. CleanSessions'
    BY <2>2, <2>3, <2>4 DEF Ownership, Owned, CleanSessions
  <2>7. \A t \in stuck' : active'[t] # None
    BY <2>2, <2>3, <2>4 DEF Ownership, Owned
  <2> QED
    BY <2>5, <2>6, <2>7 DEF Owned
<1> QED
  BY <1>1, <1>2 DEF StartFails

LEMMA OwnedKept ==
  ASSUME Ownership, UNCHANGED <<idle, session, active, stuck>>
  PROVE  Owned'
BY DEF Ownership, Owned, HeldOnce, CleanSessions

\* What a step may do to the sessions.
SessionStep ==
  \/ \E o \in Objects : session[o] = None /\ Starts(o)
  \/ \E o \in Objects : Returns(o)
  \/ StartFails
  \/ UNCHANGED <<idle, session, active, stuck>>

LEMMA MacStepCases ==
  ASSUME Ownership, NEW m \in Macs, MacSteps(m)
  PROVE  SessionStep /\ Rested'
<1>0. m \in Objects
  BY DEF Objects
<1> USE <1>0
<1>1. CASE NewHMAC(m) \/ Restart(m)
  <2>1. session[m] = None /\ Starts(m)
    BY <1>1 DEF NewHMAC, Restart, Ownership, Rested
  <2>2. Rested'
    BY <1>1, <2>1 DEF NewHMAC, Restart, Starts, Ownership, Rested, TypeOK
  <2> QED
    BY <2>1, <2>2 DEF SessionStep
<1>2. CASE \E chunk \in Chunks : Write(m, chunk)
  BY <1>2 DEF Write, SessionStep, Ownership, Rested
<1>3. CASE WriteFails(m) \/ SumPanics(m)
  <2>1. Returns(m)
    BY <1>3 DEF WriteFails, SumPanics, Live, Returns
  <2>2. Rested'
    BY <1>3 DEF WriteFails, SumPanics, Cleanup, macVars, Ownership, Rested, TypeOK
  <2> QED
    BY <2>1, <2>2 DEF SessionStep
<1>4. CASE Sum(m)
  <2>1. Returns(m)
    BY <1>4 DEF Sum, Sums, Live, Returns, Fails
  <2>2. Rested'
    BY <1>4 DEF Sum, Sums, Cleanup, Ownership, Rested, TypeOK
  <2> QED
    BY <2>1, <2>2 DEF SessionStep
<1>5. CASE Reset(m)
  <2>1. CASE Sums(m)
    <3>1. Returns(m)
      BY <2>1 DEF Sums, Live, Returns, Fails
    <3>2. Rested'
      BY <1>5, <2>1 DEF Reset, Sums, Cleanup, Ownership, Rested, TypeOK
    <3> QED
      BY <3>1, <3>2 DEF SessionStep
  <2>2. CASE ~Sums(m)
    <3>1. session[m] = None /\ UNCHANGED <<idle, session, active, stuck>>
      BY <1>5, <2>2 DEF Reset, tokenVars
    <3>2. Rested'
      BY <1>5, <3>1 DEF Reset, Ownership, Rested, TypeOK
    <3> QED
      BY <3>1, <3>2 DEF SessionStep
  <2> QED
    BY <2>1, <2>2
<1>6. CASE RestartFails(m)
  <2>1. StartFails /\ session' = session
    BY <1>6 DEF RestartFails, StartFails
  <2>2. Rested'
    BY <1>6, <2>1 DEF RestartFails, Ownership, Rested, TypeOK
  <2> QED
    BY <2>1, <2>2 DEF SessionStep
<1> QED
  BY <1>1, <1>2, <1>3, <1>4, <1>5, <1>6 DEF MacSteps

LEMMA ModeStepCases ==
  ASSUME Ownership, NEW b \in Modes, ModeSteps(b)
  PROVE  SessionStep /\ Rested'
<1>0. b \in Objects
  BY DEF Objects
<1> USE <1>0
<1>1. CASE NewBlockMode(b)
  <2>1. session[b] = None /\ Starts(b)
    BY <1>1 DEF NewBlockMode, Ownership, Rested
  <2>2. Rested'
    BY <1>1, <2>1 DEF NewBlockMode, Starts, Ownership, Rested, TypeOK
  <2> QED
    BY <2>1, <2>2 DEF SessionStep
<1>2. CASE CryptFails(b) \/ Close(b) \/ Finalise(b)
  <2>1. Returns(b) /\ UNCHANGED phase
    BY <1>2 DEF CryptFails, Close, Finalise, CloseMode, Live, Returns
  <2>2. Rested'
    BY <2>1 DEF Returns, Cleanup, Ownership, Rested, TypeOK
  <2> QED
    BY <2>1, <2>2 DEF SessionStep
<1> QED
  BY <1>1, <1>2 DEF ModeSteps

LEMMA NextOwnership == Ownership /\ [Next]_vars => Ownership'
<1> SUFFICES ASSUME Ownership, [Next]_vars PROVE Ownership'
  OBVIOUS
<1>1. TypeOK'
  BY NextTyped DEF Ownership
<1>2. SessionStep /\ Rested'
  <2>1. ASSUME NEW o \in Objects, NewFails(o) \/ Abandon(o) PROVE SessionStep /\ Rested'
    <3>1. CASE NewFails(o)
      BY <3>1 DEF NewFails, StartFails, SessionStep, Ownership, Rested
    <3>2. CASE Abandon(o)
      BY <3>2 DEF Abandon, SessionStep, tokenVars, Ownership, Rested, TypeOK
    <3> QED
      BY <2>1, <3>1, <3>2
  <2>2. CASE UNCHANGED vars
    BY <2>2 DEF vars, tokenVars, SessionStep, Ownership, Rested
  <2> QED
    BY <2>1, <2>2, MacStepCases, ModeStepCases DEF Next
<1>3. Owned'
  BY <1>2, OwnedStarts, OwnedReturns, OwnedStartFails, OwnedKept DEF SessionStep
<1> QED
  BY <1>1, <1>2, <1>3 DEF Ownership

\* A session is never in the pool twice, nor in the pool and in use.
THEOREM OneHolder == Spec => []HeldOnce
<1>1. Ownership => HeldOnce
  BY DEF Ownership, Owned
<1> QED
  BY <1>1, InitOwnership, NextOwnership, PTL DEF Spec

\* No object runs into the operation of another one.
THEOREM NoMixing == Spec => []CleanSessions
<1>1. Ownership => CleanSessions
  BY DEF Ownership, Owned
<1> QED
  BY <1>1, InitOwnership, NextOwnership, PTL DEF Spec

----------------------------------------------------------------------------
(* What the HMACs return.                                                  *)

\* While an HMAC has a session the token has been given what was written; the
\* token has been given nothing, not even an empty piece, until updates counts.
Accounted(m) ==
  session[m] # None =>
    /\ result[m] = None
    /\ updates[m] = 0 => written[m] = <<>> /\ fed[session[m]] = None
    /\ updates[m] > 0 => fed[session[m]] = written[m]

Unwritten == \A m \in Macs : phase[m] = "new" => written[m] = <<>>

Accounts == Unwritten /\ Authentic /\ \A m \in Macs : Accounted(m)

\* A step that leaves an HMAC, and what its operation was given, as they are.
Untouched(m) ==
  /\ UNCHANGED <<session[m], result[m], updates[m], written[m]>>
  /\ session[m] # None => UNCHANGED fed[session[m]]

LEMMA UntouchedAccounted ==
  ASSUME NEW m \in Macs, Accounted(m), Untouched(m)
  PROVE  Accounted(m)'
BY DEF Accounted, Untouched

\* Another object's session is not that of m.
LEMMA OthersUntouched ==
  ASSUME Ownership, NEW m \in Macs, NEW o \in Objects \ {m},
         (session[o] = None /\ Starts(o)) \/ Returns(o) \/ StartFails,
         UNCHANGED <<result[m], updates[m], written[m]>>
  PROVE  Untouched(m)
<1>0. m \in Objects
  BY DEF Objects
<1>1. CASE session[o] = None /\ Starts(o)
  <2>1. PICK s \in Sessions :
          /\ idle[s] > 0
          /\ session' = [session EXCEPT ![o] = s]
          /\ fed' = [fed EXCEPT ![s] = None]
    BY <1>1 DEF Starts
  <2>2. idle[s] = 1
    BY <2>1 DEF Ownership, Owned, HeldOnce
  <2>3. session[m] # s
    BY <2>2, <1>0 DEF Ownership, Owned, HeldOnce
  <2> QED
    BY <2>1, <2>3, <1>0 DEF Untouched, Ownership, TypeOK
<1>2. CASE Returns(o)
  <2>1. session[o] \in Sessions /\ session'[m] = session[m]
    BY <1>0, <1>2 DEF Returns, Cleanup, Ownership, TypeOK
  <2>2. session[o] # session[m]
    BY <2>1, <1>0 DEF Ownership, Owned, HeldOnce
  <2>3. session[m] # None => fed'[session[m]] = fed[session[m]]
    BY <1>0, <1>2, <2>2 DEF Returns, Fails, Ends, Ownership, TypeOK
  <2> QED
    BY <2>1, <2>3 DEF Untouched
<1>3. CASE StartFails
  <2>1. CASE UNCHANGED tokenVars
    BY <1>3, <2>1 DEF StartFails, tokenVars, Untouched
  <2>2. CASE \E s \in Sessions : idle[s] > 0 /\ active[s] # None /\ Ends(s)
    <3>1. PICK s \in Sessions : idle[s] > 0 /\ Ends(s)
      BY <2>2
    <3>2. idle[s] = 1
      BY <3>1 DEF Ownership, Owned, HeldOnce
    <3>3. session[m] # s
      BY <3>2, <1>0 DEF Ownership, Owned, HeldOnce
    <3> QED
      BY <1>0, <1>3, <3>1, <3>3 DEF StartFails, Ends, Untouched, Ownership, TypeOK
  <2> QED
    BY <1>3, <2>1, <2>2 DEF StartFails
<1> QED
  BY <1>1, <1>2, <1>3

\* A write to one HMAC leaves the others alone.
LEMMA WriteUntouched ==
  ASSUME Ownership, NEW m \in Macs, NEW n \in Macs \ {m}, NEW chunk \in Chunks, Write(n, chunk)
  PROVE  Untouched(m)
<1>1. m \in Objects /\ n \in Objects
  BY DEF Objects
<1>2. session[n] \in Sessions /\ session[n] # session[m]
  BY <1>1 DEF Write, Live, Ownership, Owned, HeldOnce, TypeOK
<1>3. session[m] # None => fed'[session[m]] = fed[session[m]]
  BY <1>1, <1>2 DEF Write, Ownership, TypeOK
<1> QED
  BY <1>3 DEF Write, Untouched, Ownership, TypeOK

\* Appending to the account of an HMAC.
LEMMA WriteAccounted ==
  ASSUME Ownership, NEW m \in Macs, Accounted(m), NEW chunk \in Chunks, Write(m, chunk)
  PROVE  Accounted(m)'
<1> DEFINE s == session[m]
<1>1. s \in Sessions /\ s # None /\ chunk \in Seq(Data) /\ updates[m] \in Nat /\ written[m] \in Seq(Data)
  BY ChunkType DEF Write, Live, Objects, Ownership, TypeOK
<1>2. /\ session' = session /\ result' = result
      /\ updates'[m] = updates[m] + 1
      /\ written'[m] = written[m] \o chunk
  BY DEF Write, Ownership, TypeOK
<1>3. fed'[s] = IF fed[s] = None THEN chunk ELSE fed[s] \o chunk
  BY <1>1 DEF Write, Ownership, TypeOK
<1>4. fed'[s] = written'[m]
  <2>1. CASE updates[m] = 0
    <3>1. written[m] = <<>> /\ fed[s] = None
      BY <1>1, <2>1 DEF Accounted
    <3>2. <<>> \o chunk = chunk
      BY <1>1
    <3> QED
      BY <1>2, <1>3, <3>1, <3>2
  <2>2. CASE updates[m] > 0
    <3>1. fed[s] = written[m]
      BY <1>1, <2>2 DEF Accounted
    <3>2. fed[s] # None
      BY <1>1, <3>1, ObjectAssumption
    <3> QED
      BY <1>2, <1>3, <3>1, <3>2
  <2> QED
    BY <1>1, <2>1, <2>2
<1>5. updates'[m] > 0
  BY <1>1, <1>2
<1>6. result[m] = None
  BY DEF Write
<1> HIDE DEF s
<1> QED
  BY <1>1, <1>2, <1>4, <1>5, <1>6 DEF Accounted, s

\* The HMACs other than the one that steps.
LEMMA OthersKept ==
  ASSUME Ownership, Accounts, NEW m \in Macs, MacSteps(m)
  PROVE  \A n \in Macs \ {m} :
           Accounted(n)' /\ UNCHANGED <<result[n], written[n], phase[n]>>
<1> SUFFICES ASSUME NEW n \in Macs \ {m}
             PROVE  Untouched(n) /\ UNCHANGED <<result[n], written[n], phase[n]>>
  BY UntouchedAccounted DEF Accounts, Untouched
<1>0. m \in Objects /\ n \in Objects
  BY DEF Objects
<1>1. UNCHANGED <<result[n], updates[n], written[n], phase[n]>>
  BY <1>0 DEF MacSteps, NewHMAC, Write, WriteFails, Sum, Sums, SumPanics, Reset, Restart,
    RestartFails, macVars, Ownership, TypeOK
<1>2. CASE \E chunk \in Chunks : Write(m, chunk)
  BY <1>1, <1>2, WriteUntouched
<1>3. CASE NewHMAC(m) \/ Restart(m)
  <2>1. session[m] = None /\ Starts(m)
    BY <1>0, <1>3 DEF NewHMAC, Restart, Ownership, Rested
  <2> QED
    BY <1>0, <1>1, <2>1, OthersUntouched
<1>4. CASE WriteFails(m) \/ SumPanics(m) \/ Sums(m)
  <2>1. Returns(m)
    BY <1>4 DEF WriteFails, SumPanics, Sums, Live, Returns, Fails
  <2> QED
    BY <1>0, <1>1, <2>1, OthersUntouched
<1>5. CASE RestartFails(m)
  BY <1>0, <1>1, <1>5, OthersUntouched DEF RestartFails
<1>6. CASE Reset(m) /\ ~Sums(m)
  BY <1>1, <1>6 DEF Reset, tokenVars, Untouched
<1> QED
  BY <1>1, <1>2, <1>3, <1>4, <1>5, <1>6 DEF MacSteps, Sum, Reset

\* The HMAC that steps.
LEMMA OwnAccount ==
  ASSUME Ownership, Accounts, NEW m \in Macs, MacSteps(m)
  PROVE  /\ Accounted(m)'
         /\ result'[m] # None => result'[m] = written'[m]
         /\ phase'[m] # "new" \/ UNCHANGED <<phase[m], written[m]>>
<1>0. m \in Objects
  BY DEF Objects
<1>1. CASE NewHMAC(m) \/ Restart(m)
  <2>1. PICK s \in Sessions :
          /\ session' = [session EXCEPT ![m] = s]
          /\ fed' = [fed EXCEPT ![s] = None]
    BY <1>1 DEF NewHMAC, Restart, Starts
  <2>2. session'[m] = s /\ fed'[s] = None /\ phase'[m] = "made"
    BY <1>0, <1>1, <2>1 DEF NewHMAC, Restart, Ownership, TypeOK
  <2>3. result'[m] = None /\ updates'[m] = 0
    BY <1>1 DEF NewHMAC, Restart, Ownership, TypeOK
  <2>4. written'[m] = <<>>
    BY <1>1 DEF NewHMAC, Restart, Accounts, Unwritten, Ownership, TypeOK
  <2> QED
    BY <2>2, <2>3, <2>4 DEF Accounted
<1>2. CASE \E chunk \in Chunks : Write(m, chunk)
  <2>1. Accounted(m)'
    BY <1>2, WriteAccounted DEF Accounts
  <2>2. result'[m] = None /\ phase'[m] # "new"
    BY <1>2 DEF Write, Live
  <2> QED
    BY <2>1, <2>2
<1>3. CASE WriteFails(m) \/ SumPanics(m)
  <2>1. session'[m] = None
    BY <1>0, <1>3 DEF WriteFails, SumPanics, Cleanup, Ownership, TypeOK
  <2>2. result'[m] = None /\ phase'[m] # "new"
    BY <1>3 DEF WriteFails, SumPanics, Live, macVars
  <2> QED
    BY <2>1, <2>2 DEF Accounted
<1>4. CASE Sums(m)
  <2>1. session'[m] = None
    BY <1>0, <1>4 DEF Sums, Cleanup, Ownership, TypeOK
  <2>2. result'[m] = Final(m) /\ written' = written
    BY <1>4 DEF Sums, Ownership, TypeOK
  <2>3. Final(m) = written[m]
    <3>1. updates[m] \in Nat /\ session[m] # None
      BY <1>4 DEF Sums, Live, Ownership, TypeOK
    <3> QED
      BY <3>1 DEF Final, Accounts, Accounted
  <2>4. phase'[m] # "new"
    BY <1>0, <1>4 DEF MacSteps, NewHMAC, Write, WriteFails, Sum, Sums, SumPanics, Reset, Restart,
      RestartFails, Live, Ownership, TypeOK
  <2> QED
    BY <2>1, <2>2, <2>3, <2>4 DEF Accounted
<1>5. CASE Reset(m) /\ ~Sums(m)
  <2>1. session'[m] = None /\ UNCHANGED <<result, written>> /\ phase'[m] # "new"
    BY <1>0, <1>5 DEF Reset, macVars, Ownership, TypeOK
  <2> QED
    BY <2>1 DEF Accounted, Accounts, Authentic
<1>6. CASE RestartFails(m)
  <2>1. session'[m] = None /\ result'[m] = None /\ phase'[m] # "new"
    BY <1>0, <1>6 DEF RestartFails, StartFails, Ownership, Rested, TypeOK
  <2> QED
    BY <2>1 DEF Accounted
<1> QED
  BY <1>1, <1>2, <1>3, <1>4, <1>5, <1>6 DEF MacSteps, Sum, Reset

\* The steps of other objects.
LEMMA OtherObjects ==
  ASSUME Ownership, Accounts, NEW o \in Objects,
         (o \in Modes /\ ModeSteps(o)) \/ NewFails(o) \/ Abandon(o)
  PROVE  Accounts'
<1>1. /\ UNCHANGED <<result, written, updates>>
      /\ \A m \in Macs : phase'[m] = "new" => phase[m] = "new"
  BY DEF ModeSteps, NewBlockMode, CryptFails, Close, Finalise, NewFails, Abandon, macVars,
    Ownership, TypeOK, Objects
<1>2. ASSUME NEW m \in Macs PROVE Untouched(m)
  <2>1. CASE o \in Modes /\ ModeSteps(o)
    <3>1. o \in Objects \ {m}
      BY <2>1, ObjectAssumption
    <3>2. CASE NewBlockMode(o)
      BY <1>1, <3>1, <3>2, OthersUntouched DEF NewBlockMode, Ownership, Rested
    <3>3. CASE CryptFails(o) \/ Close(o) \/ Finalise(o)
      <4>1. Returns(o)
        BY <3>3 DEF CryptFails, Close, Finalise, CloseMode, Live, Returns
      <4> QED
        BY <1>1, <3>1, <4>1, OthersUntouched
    <3> QED
      BY <2>1, <3>2, <3>3 DEF ModeSteps
  <2>2. CASE NewFails(o)
    <3>1. CASE o # m
      BY <1>1, <2>2, <3>1, OthersUntouched DEF NewFails
    <3>2. CASE o = m
      BY <1>1, <2>2, <3>2 DEF NewFails, StartFails, Ownership, Rested, Untouched
    <3> QED
      BY <3>1, <3>2
  <2>3. CASE Abandon(o)
    BY <1>1, <2>3 DEF Abandon, tokenVars, Untouched
  <2> QED
    BY <2>1, <2>2, <2>3
<1> QED
  BY <1>1, <1>2, UntouchedAccounted DEF Accounts, Authentic, Unwritten

LEMMA NextAccounts == Ownership /\ Accounts /\ [Next]_vars => Accounts'
<1> SUFFICES ASSUME Ownership, Accounts, [Next]_vars PROVE Accounts'
  OBVIOUS
<1>1. ASSUME NEW m \in Macs, MacSteps(m) PROVE Accounts'
  BY <1>1, OthersKept, OwnAccount DEF Accounts, Authentic, Unwritten
<1>2. CASE UNCHANGED vars
  BY <1>2 DEF vars, tokenVars, macVars, Accounts, Authentic, Unwritten, Accounted
<1> QED
  BY <1>1, <1>2, OtherObjects DEF Next, Objects

LEMMA InitAccounts == Init => Accounts
BY DEF Init, Accounts, Authentic, Unwritten, Accounted, Objects

\* Sum returns the MAC of what was written since the HMAC was made or Reset.
THEOREM SumsAreAuthentic == Spec => []Authentic
<1>1. Accounts => Authentic
  BY DEF Accounts
<1> QED
  BY <1>1, InitOwnership, NextOwnership, InitAccounts, NextAccounts, PTL DEF Spec
=============================================================================
