--------------------------- MODULE CountingProofs ---------------------------
(* How the total of a function changes with one of its values.             *)
EXTENDS Counting, Integers, FiniteSetTheorems, FunctionTheorems, TLAPS

\* p stands n times in its column of tokens.
LEMMA ColumnSize ==
  ASSUME NEW p, NEW n \in Nat
  PROVE  IsFiniteSet({p} \X (1..n)) /\ Cardinality({p} \X (1..n)) = n
<1> DEFINE A == {p}
           B == 1..n
<1>1. IsFiniteSet(A) /\ Cardinality(A) = 1
  BY FS_Singleton
<1>2. IsFiniteSet(B) /\ Cardinality(B) = n
  BY FS_Interval
<1> HIDE DEF A, B
<1>3. IsFiniteSet(A \X B) /\ Cardinality(A \X B) = Cardinality(A) * Cardinality(B)
  BY <1>1, <1>2, FS_Product
<1>4. Cardinality(A \X B) = 1 * n
  BY <1>1, <1>2, <1>3
<1> QED
  BY <1>3, <1>4 DEF A, B

\* The tokens of a function with a finite domain can be counted.
LEMMA TokensFinite ==
  ASSUME NEW S, IsFiniteSet(S), NEW f \in [S -> Nat]
  PROVE  IsFiniteSet(Tokens(f)) /\ Total(f) \in Nat
<1> DEFINE g == [p \in S |-> {p} \X (1..f[p])]
           T == {{p} \X (1..f[p]) : p \in S}
<1>1. g \in Surjection(S, T)
  BY DEF Surjection
<1>2. IsFiniteSet(T)
  BY <1>1, FS_Surjection
<1>3. \A p \in S : IsFiniteSet({p} \X (1..f[p]))
  BY ColumnSize
<1>4. \A U \in T : IsFiniteSet(U)
  BY <1>3
<1>5. IsFiniteSet(UNION T)
  BY <1>2, <1>4, FS_UNION
<1>6. Tokens(f) = UNION T
  BY DEF Tokens
<1> QED
  BY <1>5, <1>6, FS_CardinalityType DEF Total

\* What the tokens are.
LEMMA TokensMember ==
  ASSUME NEW S, NEW f \in [S -> Nat]
  PROVE  Tokens(f) = {t \in S \X Nat : 1 <= t[2] /\ t[2] <= f[t[1]]}
<1>1. ASSUME NEW t \in Tokens(f) PROVE t \in S \X Nat /\ 1 <= t[2] /\ t[2] <= f[t[1]]
  <2>1. PICK p \in S : t \in {p} \X (1..f[p])
    BY DEF Tokens
  <2> QED
    BY <2>1
<1>2. ASSUME NEW p \in S, NEW n \in Nat, 1 <= n, n <= f[p] PROVE <<p, n>> \in Tokens(f)
  <2>1. <<p, n>> \in {p} \X (1..f[p])
    BY <1>2
  <2> QED
    BY <2>1 DEF Tokens
<1> QED
  BY <1>1, <1>2

\* The total without the column of p.
LEMMA TotalColumn ==
  ASSUME NEW S, IsFiniteSet(S), NEW f \in [S -> Nat], NEW p \in S
  PROVE  Total(f) = Total([f EXCEPT ![p] = 0]) + f[p]
<1> DEFINE h == [f EXCEPT ![p] = 0]
           C == {p} \X (1..f[p])
<1>1. h \in [S -> Nat]
  OBVIOUS
<1>2. \A q \in S : h[q] = IF q = p THEN 0 ELSE f[q]
  OBVIOUS
<1> HIDE DEF h
<1>3. Tokens(f) = {u \in S \X Nat : 1 <= u[2] /\ u[2] <= f[u[1]]}
  BY TokensMember
<1>4. Tokens(h) = {u \in S \X Nat : 1 <= u[2] /\ u[2] <= h[u[1]]}
  BY <1>1, TokensMember
<1>5. Tokens(h) \cap C = {}
  BY <1>2, <1>4
<1>6. Tokens(f) = Tokens(h) \cup C
  <2>1. ASSUME NEW u \in Tokens(f) PROVE u \in Tokens(h) \cup C
    <3>1. /\ u \in S \X Nat /\ u = <<u[1], u[2]>>
          /\ 1 <= u[2] /\ u[2] <= f[u[1]]
      BY <1>3
    <3>2. CASE u[1] = p
      BY <3>1, <3>2
    <3>3. CASE u[1] # p
      BY <1>2, <1>4, <3>1, <3>3
    <3> QED
      BY <3>2, <3>3
  <2>2. Tokens(h) \subseteq Tokens(f)
    BY <1>2, <1>3, <1>4
  <2>3. C \subseteq Tokens(f)
    BY DEF Tokens
  <2> QED
    BY <2>1, <2>2, <2>3
<1>7. IsFiniteSet(C) /\ Cardinality(C) = f[p]
  BY ColumnSize
<1>8. IsFiniteSet(Tokens(h)) /\ Total(h) \in Nat
  BY <1>1, TokensFinite
<1> HIDE DEF C
<1>9. Cardinality(Tokens(h) \cup C) = Cardinality(Tokens(h)) + Cardinality(C) - Cardinality(Tokens(h) \cap C)
  BY <1>7, <1>8, FS_Union
<1>10. Cardinality(Tokens(h) \cap C) = 0
  BY <1>5, FS_EmptySet
<1>11. Total(f) = Total(h) + f[p]
  BY <1>6, <1>7, <1>8, <1>9, <1>10 DEF Total
<1> QED
  BY <1>11 DEF h

\* Two functions that differ only at p differ in total by what they do there.
LEMMA TotalChange ==
  ASSUME NEW S, IsFiniteSet(S), NEW f \in [S -> Nat], NEW g \in [S -> Nat], NEW p \in S,
         \A q \in S \ {p} : g[q] = f[q]
  PROVE  Total(g) - g[p] = Total(f) - f[p]
<1> DEFINE h == [f EXCEPT ![p] = 0]
<1>1. h = [g EXCEPT ![p] = 0]
  OBVIOUS
<1>2. h \in [S -> Nat]
  OBVIOUS
<1> HIDE DEF h
<1>3. Total(h) \in Nat
  BY <1>2, TokensFinite
<1>4. Total(f) = Total(h) + f[p]
  BY TotalColumn DEF h
<1>5. Total(g) = Total(h) + g[p]
  BY <1>1, TotalColumn
<1> QED
  BY <1>3, <1>4, <1>5

\* No value is more than the total.
LEMMA TotalBound ==
  ASSUME NEW S, IsFiniteSet(S), NEW f \in [S -> Nat], NEW p \in S
  PROVE  f[p] <= Total(f)
<1>1. IsFiniteSet(Tokens(f)) /\ {p} \X (1..f[p]) \subseteq Tokens(f)
  BY TokensFinite DEF Tokens
<1>2. Cardinality({p} \X (1..f[p])) = f[p]
  BY ColumnSize
<1> QED
  BY <1>1, <1>2, FS_Subset DEF Total

\* The total of zeros is zero.
LEMMA TotalZero ==
  ASSUME NEW S, IsFiniteSet(S), NEW f \in [S -> Nat], \A p \in S : f[p] = 0
  PROVE  Total(f) = 0
<1>1. Tokens(f) = {}
  BY TokensMember
<1> QED
  BY <1>1, FS_EmptySet DEF Total

\* Where f is positive on H, H has at most as many members as f adds up to.
LEMMA TotalCounts ==
  ASSUME NEW S, IsFiniteSet(S), NEW f \in [S -> Nat], NEW H \in SUBSET S,
         \A p \in H : f[p] >= 1
  PROVE  IsFiniteSet(H) /\ Cardinality(H) <= Total(f)
<1> DEFINE g == [p \in H |-> <<p, 1>>]
<1>1. \A p \in H : <<p, 1>> \in Tokens(f)
  <2> TAKE p \in H
  <2>1. f[p] \in Nat /\ f[p] >= 1
    OBVIOUS
  <2>2. 1 \in 1..f[p]
    BY <2>1
  <2> QED
    BY <2>2 DEF Tokens
<1>2. g \in Injection(H, Tokens(f))
  BY <1>1 DEF Injection, IsInjective
<1> QED
  BY <1>2, TokensFinite, FS_Injection DEF Total
=============================================================================
