------------------------------ MODULE Counting ------------------------------
(***************************************************************************)
(* The total of a function with natural values, as the cardinality of a    *)
(* set: p stands in it f[p] times.                                         *)
(***************************************************************************)
EXTENDS Naturals, FiniteSets

Tokens(f) == UNION {{p} \X (1..f[p]) : p \in DOMAIN f}
Total(f) == Cardinality(Tokens(f))
=============================================================================
