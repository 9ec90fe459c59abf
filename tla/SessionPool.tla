----------------------------- MODULE SessionPool -----------------------------
(***************************************************************************)
(* What a session pool promises: the specification that ResourcePool       *)
(* implements and that the modules of its callers rely on.                 *)
(*                                                                         *)
(* A client claims a session nobody else has, keeps it until it releases   *)
(* or discards it, and never sees it closed in between.  At most MaxCap    *)
(* sessions are open.  When the pool is shut, none is, and none ever is    *)
(* again.                                                                  *)
(***************************************************************************)
EXTENDS Naturals, FiniteSets

CONSTANTS Clients, Sessions, None, MaxCap

VARIABLES
  claimed,  \* the session each client has, or None
  open,     \* the sessions open on the token
  shut      \* whether the pool has been shut

poolVars == <<claimed, open, shut>>

Claimed == {claimed[p] : p \in Clients} \ {None}

Init ==
  /\ claimed = [p \in Clients |-> None]
  /\ open = {}
  /\ shut = FALSE

\* A client without a session is given an idle one ...
ClaimIdle(p) ==
  /\ claimed[p] = None
  /\ \E s \in open \ Claimed : claimed' = [claimed EXCEPT ![p] = s]
  /\ UNCHANGED <<open, shut>>

\* ... or one opened for it, if there is room.
ClaimNew(p) ==
  /\ claimed[p] = None
  /\ ~shut /\ Cardinality(open) < MaxCap
  /\ \E s \in Sessions \ open :
       claimed' = [claimed EXCEPT ![p] = s] /\ open' = open \cup {s}
  /\ UNCHANGED shut

\* It is returned, still open ...
Release(p) ==
  /\ claimed[p] # None
  /\ claimed' = [claimed EXCEPT ![p] = None]
  /\ UNCHANGED <<open, shut>>

\* ... or closed by its owner.
Discard(p) ==
  /\ claimed[p] # None
  /\ claimed' = [claimed EXCEPT ![p] = None]
  /\ open' = open \ {claimed[p]}
  /\ UNCHANGED shut

\* The pool itself opens and closes sessions nobody has.
OpenIdle ==
  /\ ~shut /\ Cardinality(open) < MaxCap
  /\ \E s \in Sessions \ open : open' = open \cup {s}
  /\ UNCHANGED <<claimed, shut>>

CloseIdle ==
  /\ \E s \in open \ Claimed : open' = open \ {s}
  /\ UNCHANGED <<claimed, shut>>

Shut ==
  /\ open = {}
  /\ shut' = TRUE
  /\ UNCHANGED <<claimed, open>>

Next ==
  \/ \E p \in Clients : ClaimIdle(p) \/ ClaimNew(p) \/ Release(p) \/ Discard(p)
  \/ OpenIdle \/ CloseIdle \/ Shut

Spec == Init /\ [][Next]_poolVars
=============================================================================
