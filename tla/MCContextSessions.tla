------------------------- MODULE MCContextSessions -------------------------
(* Small instances of ContextSessions for TLC.                             *)
EXTENDS ContextSessions, TLC

CONSTANTS a1, a2, b1, alice, bob, carol

\* One operation for each goroutine, and for one of them a second that it
\* may start during the first.
Apart == a1 :> alice @@ a2 :> carol @@ b1 :> bob
Nested == a1 :> alice @@ a2 :> alice @@ b1 :> bob
=============================================================================
