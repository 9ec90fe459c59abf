---------------------------- MODULE MCMultiPart ----------------------------
(* A small instance of MultiPart for TLC.                                  *)
EXTENDS MultiPart, TLC

\* Sessions are interchangeable, and so are the HMACs.
Symmetry == Permutations(Sessions) \cup Permutations(Macs)
=============================================================================
