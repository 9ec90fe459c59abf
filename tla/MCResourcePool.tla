--------------------------- MODULE MCResourcePool ---------------------------
(* Small instances of ResourcePool for TLC.                                *)
EXTENDS ResourcePool, TLC

\* Session handles are interchangeable.
Symmetry == Permutations(Sessions)
=============================================================================
