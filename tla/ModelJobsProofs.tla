---------------------------- MODULE ModelJobsProofs ----------------------------
(* That the ledger of the model jobs adds up and the month stays within what      *)
(* overlapping jobs can add to the cap; that versions of a memo tell apart; that  *)
(* what the digest includes by itself rests on the verdicts it read.              *)
EXTENDS ModelJobs, FiniteSetTheorems, WellFoundedInduction, TLAPS

--------------------------------------------------------------------------------
(* Numbers, by their least counterexample.                                        *)

LEMMA Least == ASSUME NEW S \in SUBSET Nat, S # {} PROVE \E n \in S : \A m \in S : n <= m
<1> DEFINE R == OpToRel(<, Nat)
<1>1. IsWellFoundedOn(R, Nat)
  BY NatLessThanWellFounded
<1>2. R = {pair \in Nat \X Nat : pair[1] < pair[2]}
  BY DEF OpToRel
<1> HIDE DEF R
<1>3. PICK n \in S : \A m \in S : <<m, n>> \notin R
  BY <1>1, WFMin
<1>4. \A m \in S : ~(m < n)
  BY <1>2, <1>3
<1> QED BY <1>4

LEMMA Upward ==
    ASSUME NEW T, 0 \in T, \A n \in Nat : n \in T => n + 1 \in T
    PROVE  \A n \in Nat : n \in T
<1> SUFFICES ASSUME Nat \ T # {} PROVE FALSE
  OBVIOUS
<1>1. PICK n \in Nat \ T : \A m \in Nat \ T : n <= m
  BY Least
<1> QED BY <1>1, n - 1 \in Nat

LEMMA Greatest ==
    ASSUME NEW n \in Nat, NEW S \in SUBSET (1..n), S # {} PROVE \E i \in S : \A j \in S : j <= i
<1>0. \A i \in S : i \in Nat /\ n - i \in Nat
  OBVIOUS
<1>1. {n - i : i \in S} \in SUBSET Nat /\ {n - i : i \in S} # {}
  BY <1>0
<1>2. PICK k \in {n - i : i \in S} : \A m \in {n - i : i \in S} : k <= m
  BY <1>1, Least
<1>3. PICK i \in S : k = n - i
  BY <1>2
<1>4. \A j \in S : n - i <= n - j
  BY <1>2, <1>3
<1> QED BY <1>0, <1>3, <1>4

--------------------------------------------------------------------------------
(* The sum of a function over a finite set, taken off element by element.         *)

Pick(s) == CHOOSE x \in s : TRUE

LEMMA PickIn == ASSUME NEW s, s # {} PROVE Pick(s) \in s
BY DEF Pick

\* What holds of the empty set and, if of a set without its first element, of the set.
LEMMA SetBySet ==
    ASSUME NEW S, IsFiniteSet(S), NEW T, {} \in T,
           \A s \in SUBSET S : s # {} /\ s \ {Pick(s)} \in T => s \in T
    PROVE  S \in T
<1> DEFINE N == {n \in Nat : \A s \in SUBSET S : Cardinality(s) = n => s \in T}
<1>1. \A s \in SUBSET S : IsFiniteSet(s) /\ Cardinality(s) \in Nat
  BY FS_Subset, FS_CardinalityType
<1>2. 0 \in N
  BY <1>1, FS_EmptySet
<1>3. ASSUME NEW n \in Nat, n \in N PROVE n + 1 \in N
  <2> SUFFICES ASSUME NEW s \in SUBSET S, Cardinality(s) = n + 1 PROVE s \in T
    OBVIOUS
  <2>1. s # {}
    BY FS_EmptySet
  <2>2. Pick(s) \in s
    BY <2>1, PickIn
  <2>3. Cardinality(s \ {Pick(s)}) = n
    BY <1>1, <2>2, FS_RemoveElement
  <2>4. s \ {Pick(s)} \in T
    BY <1>3, <2>3
  <2> QED BY <2>1, <2>4
<1> HIDE DEF N
<1>4. Cardinality(S) \in N
  BY <1>1, <1>2, <1>3, Upward
<1> QED BY <1>4 DEF N

Sums(I, f, S) ==
    /\ I \in [SUBSET S -> Nat] /\ I[{}] = 0
    /\ \A s \in SUBSET S : s # {} => I[s] = f[Pick(s)] + I[s \ {Pick(s)}]

LEMMA SumsExist ==
    ASSUME NEW S, IsFiniteSet(S), NEW f \in [S -> Nat] PROVE \E I : Sums(I, f, S)
<1> DEFINE Upto(g, n) == \A s \in SUBSET S : Cardinality(s) <= n =>
                           IF s = {} THEN g[s] = 0 ELSE g[s] = f[Pick(s)] + g[s \ {Pick(s)}]
           N == {n \in Nat : \E g \in [SUBSET S -> Nat] : Upto(g, n)}
<1>1. \A s \in SUBSET S : IsFiniteSet(s) /\ Cardinality(s) \in Nat /\ (Cardinality(s) = 0 <=> s = {})
  BY FS_Subset, FS_CardinalityType, FS_EmptySet
<1>2. \A s \in SUBSET S : s # {} =>
        /\ Pick(s) \in S /\ s \ {Pick(s)} \in SUBSET S
        /\ Cardinality(s \ {Pick(s)}) = Cardinality(s) - 1
  BY <1>1, PickIn, FS_RemoveElement
<1>3. 0 \in N
  <2>1. Upto([s \in SUBSET S |-> 0], 0)
    BY <1>1
  <2> QED BY <2>1
<1>4. ASSUME NEW n \in Nat, n \in N PROVE n + 1 \in N
  <2>1. PICK g \in [SUBSET S -> Nat] : Upto(g, n)
    BY <1>4
  <2> DEFINE h == [s \in SUBSET S |-> IF Cardinality(s) <= n THEN g[s] ELSE f[Pick(s)] + g[s \ {Pick(s)}]]
  <2>2. \A s \in SUBSET S : Cardinality(s) > n => s # {}
    BY <1>1
  <2>3. h \in [SUBSET S -> Nat]
    <3>1. ASSUME NEW s \in SUBSET S
          PROVE (IF Cardinality(s) <= n THEN g[s] ELSE f[Pick(s)] + g[s \ {Pick(s)}]) \in Nat
      <4>1. CASE Cardinality(s) <= n
        BY <4>1
      <4>2. CASE ~(Cardinality(s) <= n)
        <5>1. s # {}
          BY <1>1, <4>2
        <5> QED BY <1>2, <4>2, <5>1
      <4> QED BY <4>1, <4>2
    <3> QED BY <3>1
  <2>4. \A s \in SUBSET S : Cardinality(s) <= n => h[s] = g[s]
    OBVIOUS
  <2>5. \A s \in SUBSET S : Cardinality(s) > n => h[s] = f[Pick(s)] + g[s \ {Pick(s)}]
    BY <1>1
  <2> HIDE DEF h
  <2>6. ASSUME NEW s \in SUBSET S, Cardinality(s) <= n + 1, s # {}
        PROVE  h[s] = f[Pick(s)] + h[s \ {Pick(s)}]
    <3>1. h[s \ {Pick(s)}] = g[s \ {Pick(s)}]
      BY <1>1, <1>2, <2>4, <2>6
    <3> QED BY <1>1, <2>1, <2>4, <2>5, <2>6, <3>1
  <2>7. h[{}] = 0
    BY <1>1, <2>1, <2>4
  <2>8. Upto(h, n + 1)
    BY <2>6, <2>7
  <2>9. \E k \in [SUBSET S -> Nat] : Upto(k, n + 1)
    BY <2>3, <2>8
  <2> HIDE DEF Upto
  <2> QED BY <2>9
<1> HIDE DEF N
<1>5. Cardinality(S) \in N
  BY <1>1, <1>3, <1>4, Upward
<1>6. PICK g \in [SUBSET S -> Nat] : Upto(g, Cardinality(S))
  BY <1>5 DEF N
<1>7. \A s \in SUBSET S : Cardinality(s) <= Cardinality(S)
  BY FS_Subset
<1>8. Sums(g, f, S)
  BY <1>6, <1>7 DEF Sums
<1> QED BY <1>8

Total(f, S) == SumFunctionOnSet(f, S)

LEMMA TotalSums ==
    ASSUME NEW S, IsFiniteSet(S), NEW f \in [S -> Nat]
    PROVE  \E I : Sums(I, f, S) /\ Total(f, S) = I[S]
<1> DEFINE Is(I) == I = [s \in SUBSET S |-> IF s = {} THEN 0 ELSE f[Pick(s)] + I[s \ {Pick(s)}]]
           J == CHOOSE I : Is(I)
<1>1. PICK K : Sums(K, f, S)
  BY SumsExist
<1>2. Is(K)
  BY <1>1 DEF Sums
<1>3. Is(J)
  BY <1>2
<1>4. Total(f, S) = J[S]
  BY DEF Total, SumFunctionOnSet, FoldFunctionOnSet, MapThenFoldSet, Pick
<1> HIDE DEF J
<1>5. J[{}] = 0 /\ \A s \in SUBSET S : s # {} => J[s] = f[Pick(s)] + J[s \ {Pick(s)}]
  BY <1>3
<1> DEFINE T == {s \in SUBSET S : J[s] = K[s]}
<1>6. ASSUME NEW U \in SUBSET S PROVE U \in T
  <2>1. {} \in T
    BY <1>1, <1>5 DEF Sums
  <2>2. \A s \in SUBSET U : s # {} /\ s \ {Pick(s)} \in T => s \in T
    BY <1>1, <1>5 DEF Sums
  <2>3. IsFiniteSet(U)
    BY FS_Subset
  <2> HIDE DEF T
  <2> QED BY <2>1, <2>2, <2>3, SetBySet
<1>7. J = K
  BY <1>1, <1>3, <1>6 DEF Sums
<1> QED BY <1>1, <1>4, <1>7


LEMMA TotalNat ==
    ASSUME NEW S, IsFiniteSet(S), NEW f \in [S -> Nat] PROVE Total(f, S) \in Nat
<1>1. PICK I : Sums(I, f, S) /\ Total(f, S) = I[S]
  BY TotalSums
<1> QED BY <1>1 DEF Sums

LEMMA TotalLeq ==
    ASSUME NEW S, IsFiniteSet(S), NEW f \in [S -> Nat], NEW g \in [S -> Nat],
           \A x \in S : f[x] <= g[x]
    PROVE  Total(f, S) <= Total(g, S)
<1>1. PICK I : Sums(I, f, S) /\ Total(f, S) = I[S]
  BY TotalSums
<1>2. PICK J : Sums(J, g, S) /\ Total(g, S) = J[S]
  BY TotalSums
<1> DEFINE T == {s \in SUBSET S : I[s] <= J[s]}
<1>3. {} \in T
  BY <1>1, <1>2 DEF Sums
<1>4. ASSUME NEW s \in SUBSET S, s # {}, s \ {Pick(s)} \in T PROVE s \in T
  <2>1. Pick(s) \in S /\ s \ {Pick(s)} \in SUBSET S
    BY <1>4, PickIn
  <2>2. /\ I[s] = f[Pick(s)] + I[s \ {Pick(s)}] /\ J[s] = g[Pick(s)] + J[s \ {Pick(s)}]
        /\ I[s \ {Pick(s)}] \in Nat /\ J[s \ {Pick(s)}] \in Nat
    BY <1>1, <1>2, <1>4, <2>1 DEF Sums
  <2>3. f[Pick(s)] \in Nat /\ g[Pick(s)] \in Nat /\ f[Pick(s)] <= g[Pick(s)]
    BY <2>1
  <2> QED BY <1>4, <2>2, <2>3
<1> HIDE DEF T
<1>5. S \in T
  BY <1>3, <1>4, SetBySet
<1> QED BY <1>1, <1>2, <1>5 DEF T

\* A change at one place changes the sum by as much.
LEMMA TotalChange ==
    ASSUME NEW S, IsFiniteSet(S), NEW f \in [S -> Nat], NEW w \in S, NEW g \in [S -> Nat],
           \A x \in S : x # w => g[x] = f[x]
    PROVE  Total(g, S) = Total(f, S) + g[w] - f[w]
<1>1. PICK I : Sums(I, f, S) /\ Total(f, S) = I[S]
  BY TotalSums
<1>2. PICK J : Sums(J, g, S) /\ Total(g, S) = J[S]
  BY TotalSums
<1> DEFINE T == {s \in SUBSET S : J[s] = I[s] + IF w \in s THEN g[w] - f[w] ELSE 0}
<1>3. {} \in T
  BY <1>1, <1>2 DEF Sums
<1>4. ASSUME NEW s \in SUBSET S, s # {}, s \ {Pick(s)} \in T PROVE s \in T
  <2>1. Pick(s) \in s /\ Pick(s) \in S /\ s \ {Pick(s)} \in SUBSET S
    BY <1>4, PickIn
  <2>2. /\ I[s] = f[Pick(s)] + I[s \ {Pick(s)}] /\ J[s] = g[Pick(s)] + J[s \ {Pick(s)}]
        /\ I[s \ {Pick(s)}] \in Nat /\ J[s \ {Pick(s)}] \in Nat
    BY <1>1, <1>2, <1>4, <2>1 DEF Sums
  <2>3. f[Pick(s)] \in Nat /\ g[Pick(s)] \in Nat /\ f[w] \in Nat /\ g[w] \in Nat
    BY <2>1
  <2>4. J[s \ {Pick(s)}] = I[s \ {Pick(s)}] + IF w \in s \ {Pick(s)} THEN g[w] - f[w] ELSE 0
    BY <1>4
  <2>5. CASE w = Pick(s)
    BY <2>1, <2>2, <2>3, <2>4, <2>5
  <2>6. CASE w # Pick(s) /\ w \in s
    <3>1. g[Pick(s)] = f[Pick(s)]
      BY <2>1, <2>6
    <3> QED BY <2>2, <2>3, <2>4, <2>6, <3>1
  <2>7. CASE w # Pick(s) /\ w \notin s
    <3>1. g[Pick(s)] = f[Pick(s)]
      BY <2>1, <2>7
    <3> QED BY <2>2, <2>3, <2>4, <2>7, <3>1
  <2> QED BY <2>5, <2>6, <2>7
<1> HIDE DEF T
<1>5. S \in T
  BY <1>3, <1>4, SetBySet
<1>6. I[S] \in Nat /\ f[w] \in Nat /\ g[w] \in Nat
  BY <1>1 DEF Sums
<1> QED BY <1>1, <1>2, <1>5, <1>6 DEF T

\* Terms of at most b each, but for one that is 0.
LEMMA TotalBound ==
    ASSUME NEW S, IsFiniteSet(S), NEW f \in [S -> Nat], NEW b \in Nat, NEW w \in S, f[w] = 0,
           \A x \in S : f[x] <= b
    PROVE  Total(f, S) <= (Cardinality(S) - 1) * b
<1> DEFINE g == [f EXCEPT ![w] = b]
<1>0. g \in [S -> Nat] /\ g[w] = b /\ \A x \in S : g[x] <= b /\ (x # w => g[x] = f[x])
  OBVIOUS
<1> HIDE DEF g
<1>1. PICK J : Sums(J, g, S) /\ Total(g, S) = J[S]
  BY <1>0, TotalSums
<1>2. \A s \in SUBSET S : IsFiniteSet(s) /\ Cardinality(s) \in Nat
  BY FS_Subset, FS_CardinalityType
<1> DEFINE T == {s \in SUBSET S : J[s] <= Cardinality(s) * b}
<1>3. {} \in T
  BY <1>1, FS_EmptySet DEF Sums
<1>4. ASSUME NEW s \in SUBSET S, s # {}, s \ {Pick(s)} \in T PROVE s \in T
  <2>1. Pick(s) \in s /\ Pick(s) \in S /\ s \ {Pick(s)} \in SUBSET S
    BY <1>4, PickIn
  <2>2. /\ J[s] = g[Pick(s)] + J[s \ {Pick(s)}] /\ J[s \ {Pick(s)}] \in Nat
    BY <1>1, <1>4, <2>1 DEF Sums
  <2>3. g[Pick(s)] \in Nat /\ g[Pick(s)] <= b
    BY <1>0, <2>1
  <2>4. Cardinality(s \ {Pick(s)}) = Cardinality(s) - 1
    BY <1>2, <2>1, FS_RemoveElement
  <2>5. J[s \ {Pick(s)}] <= (Cardinality(s) - 1) * b
    BY <1>4, <2>4
  <2>6. Cardinality(s) \in Nat
    BY <1>2
  <2> DEFINE c == Cardinality(s)
  <2>7. (c - 1) * b = c * b - b
    BY <2>6
  <2>8. J[s] <= c * b
    <3> DEFINE m == c * b
    <3>1. m \in Nat
      BY <2>6
    <3>2. J[s \ {Pick(s)}] <= m - b
      BY <2>5, <2>7
    <3> HIDE DEF m
    <3>3. J[s] <= m
      BY <2>2, <2>3, <3>1, <3>2
    <3> QED BY <3>3 DEF m
  <2> QED BY <2>8
<1> HIDE DEF T
<1>5. S \in T
  BY <1>3, <1>4, SetBySet
<1>6. Total(g, S) = Total(f, S) + b
  BY <1>0, TotalChange, TotalNat
<1>7. Total(f, S) \in Nat /\ Cardinality(S) \in Nat
  BY <1>2, TotalNat
<1> DEFINE c == Cardinality(S)
<1>8. (c - 1) * b = c * b - b
  BY <1>7
<1>9. Total(f, S) + b <= c * b
  BY <1>1, <1>5, <1>6 DEF T
<1> DEFINE m == c * b
<1>10. m \in Nat
  BY <1>7
<1> HIDE DEF m
<1>11. Total(f, S) + b <= m
  BY <1>9 DEF m
<1>12. Total(f, S) <= m - b
  BY <1>7, <1>10, <1>11
<1> QED BY <1>8, <1>12 DEF m

LEMMA TotalZero ==
    ASSUME NEW S, IsFiniteSet(S), NEW f \in [S -> Nat], \A x \in S : f[x] = 0 PROVE Total(f, S) = 0
<1>1. PICK I : Sums(I, f, S) /\ Total(f, S) = I[S]
  BY TotalSums
<1> DEFINE T == {s \in SUBSET S : I[s] = 0}
<1>2. {} \in T
  BY <1>1 DEF Sums
<1>3. ASSUME NEW s \in SUBSET S, s # {}, s \ {Pick(s)} \in T PROVE s \in T
  <2>1. Pick(s) \in S /\ s \ {Pick(s)} \in SUBSET S
    BY <1>3, PickIn
  <2> QED BY <1>1, <1>3, <2>1 DEF Sums
<1> HIDE DEF T
<1>4. S \in T
  BY <1>2, <1>3, SetBySet
<1> QED BY <1>1, <1>4 DEF T

--------------------------------------------------------------------------------
(* The sum of the ledger, row by row.                                             *)

Ledger(rs) == LET sum[i \in 0..Len(rs)] == IF i = 0 THEN 0 ELSE sum[i - 1] + rs[i].cost
              IN  sum[Len(rs)]

Adds(g, rs) ==
    /\ g \in [0..Len(rs) -> Nat] /\ g[0] = 0
    /\ \A i \in 1..Len(rs) : g[i] = g[i - 1] + rs[i].cost

LEMMA RecordedIs == Recorded = Ledger(runs)
BY DEF Recorded, Ledger

LEMMA LedgerIs ==
    ASSUME NEW rs, Len(rs) \in Nat, NEW g, Adds(g, rs) PROVE Ledger(rs) = g[Len(rs)]
<1> DEFINE Is(h) == h = [i \in 0..Len(rs) |-> IF i = 0 THEN 0 ELSE h[i - 1] + rs[i].cost]
           J == CHOOSE h : Is(h)
<1>1. Is(g)
  BY DEF Adds
<1>2. Is(J)
  BY <1>1
<1>3. Ledger(rs) = J[Len(rs)]
  BY DEF Ledger
<1> HIDE DEF J
<1> DEFINE T == {n \in Nat : n <= Len(rs) => J[n] = g[n]}
<1>4. 0 \in T
  BY <1>2 DEF Adds
<1>5. ASSUME NEW n \in Nat, n \in T, n + 1 <= Len(rs) PROVE J[n + 1] = g[n + 1]
  <2>1. n + 1 \in 0..Len(rs) /\ n + 1 \in 1..Len(rs) /\ n + 1 # 0 /\ (n + 1) - 1 = n
    BY <1>5
  <2>2. J[n + 1] = J[(n + 1) - 1] + rs[n + 1].cost
    BY <1>2, <2>1
  <2>3. g[n + 1] = g[(n + 1) - 1] + rs[n + 1].cost
    BY <2>1 DEF Adds
  <2> QED BY <1>5, <2>1, <2>2, <2>3
<1>6. \A n \in Nat : n \in T => n + 1 \in T
  BY <1>5
<1> HIDE DEF T
<1>7. Len(rs) \in T
  BY <1>4, <1>6, Upward
<1> QED BY <1>3, <1>7 DEF T

LEMMA AddsExist ==
    ASSUME NEW R, NEW rs \in Seq(R), \A i \in 1..Len(rs) : rs[i].cost \in Nat
    PROVE  \E g : Adds(g, rs)
<1> DEFINE Upto(g, n) == g[0] = 0 /\ \A i \in 1..Len(rs) : i <= n => g[i] = g[i - 1] + rs[i].cost
           N == {n \in Nat : \E g \in [0..Len(rs) -> Nat] : Upto(g, n)}
<1>1. 0 \in N
  <2>1. [i \in 0..Len(rs) |-> 0] \in [0..Len(rs) -> Nat]
    OBVIOUS
  <2>2. Upto([i \in 0..Len(rs) |-> 0], 0)
    OBVIOUS
  <2> HIDE DEF Upto
  <2> QED BY <2>1, <2>2
<1>2. ASSUME NEW n \in Nat, n \in N PROVE n + 1 \in N
  <2>1. PICK g \in [0..Len(rs) -> Nat] : Upto(g, n)
    BY <1>2
  <2>2. CASE n + 1 \in 1..Len(rs)
    <3> DEFINE h == [g EXCEPT ![n + 1] = g[n] + rs[n + 1].cost]
    <3>1. h \in [0..Len(rs) -> Nat]
      BY <2>2
    <3>2. h[n + 1] = g[n] + rs[n + 1].cost /\ \A i \in 0..Len(rs) : i # n + 1 => h[i] = g[i]
      BY <2>2
    <3> HIDE DEF h
    <3>3. Upto(h, n + 1)
      <4>1. h[0] = 0
        BY <2>1, <3>2
      <4>2. ASSUME NEW i \in 1..Len(rs), i <= n + 1 PROVE h[i] = h[i - 1] + rs[i].cost
        <5>1. i - 1 \in 0..Len(rs) /\ i - 1 # n + 1 /\ i \in 0..Len(rs)
          BY <4>2
        <5>2. CASE i = n + 1
          BY <3>2, <5>1, <5>2
        <5>3. CASE i # n + 1
          BY <2>1, <3>2, <4>2, <5>1, <5>3
        <5> QED BY <5>2, <5>3
      <4> QED BY <4>1, <4>2
    <3> HIDE DEF Upto
    <3> QED BY <3>1, <3>3
  <2>3. CASE n + 1 \notin 1..Len(rs)
    <3>1. Upto(g, n + 1)
      BY <2>1, <2>3
    <3> HIDE DEF Upto
    <3> QED BY <3>1
  <2> QED BY <2>2, <2>3
<1> HIDE DEF N
<1>3. Len(rs) \in N
  BY <1>1, <1>2, Upward
<1>4. PICK g \in [0..Len(rs) -> Nat] : Upto(g, Len(rs))
  BY <1>3 DEF N
<1>5. Adds(g, rs)
  BY <1>4 DEF Adds
<1> QED BY <1>5

LEMMA LedgerNat ==
    ASSUME NEW R, NEW rs \in Seq(R), \A i \in 1..Len(rs) : rs[i].cost \in Nat
    PROVE  Ledger(rs) \in Nat
<1>1. PICK g : Adds(g, rs)
  BY AddsExist
<1> QED BY <1>1, LedgerIs DEF Adds

LEMMA LedgerEmpty == Ledger(<<>>) = 0
<1>1. Adds([i \in 0..0 |-> 0], <<>>)
  BY DEF Adds
<1> QED BY <1>1, LedgerIs

LEMMA LedgerAppend ==
    ASSUME NEW R, NEW rs \in Seq(R), \A i \in 1..Len(rs) : rs[i].cost \in Nat,
           NEW r \in R, r.cost \in Nat
    PROVE  Ledger(Append(rs, r)) = Ledger(rs) + r.cost
<1>1. PICK g : Adds(g, rs)
  BY AddsExist
<1> DEFINE n == Len(rs)
           all == Append(rs, r)
           h == [i \in 0..(n + 1) |-> IF i = n + 1 THEN g[n] + r.cost ELSE g[i]]
<1>2. /\ Len(all) = n + 1 /\ all[n + 1] = r
      /\ \A i \in 1..n : all[i] = rs[i]
  OBVIOUS
<1>3. h \in [0..(n + 1) -> Nat]
  BY <1>1 DEF Adds
<1>4. h[n + 1] = g[n] + r.cost /\ \A i \in 0..n : h[i] = g[i]
  OBVIOUS
<1> HIDE DEF h, all
<1>5. Adds(h, all)
  <2>1. ASSUME NEW i \in 1..(n + 1) PROVE h[i] = h[i - 1] + all[i].cost
    <3>1. CASE i = n + 1
      <4>1. n \in 0..n /\ i - 1 = n
        BY <3>1
      <4> QED BY <1>2, <1>4, <3>1, <4>1
    <3>2. CASE i # n + 1
      <4>1. i \in 1..n /\ i \in 0..n /\ i - 1 \in 0..n
        BY <3>2
      <4> QED BY <1>1, <1>2, <1>4, <4>1 DEF Adds
    <3> QED BY <3>1, <3>2
  <2>2. h[0] = 0
    BY <1>1, <1>4 DEF Adds
  <2> QED BY <1>2, <1>3, <2>1, <2>2 DEF Adds
<1>6. Ledger(all) = h[n + 1]
  BY <1>2, <1>5, LedgerIs
<1>7. Ledger(rs) = g[n]
  BY <1>1, LedgerIs
<1> QED BY <1>4, <1>6, <1>7 DEF all

--------------------------------------------------------------------------------
(* The rows and what each process is doing.                                       *)

Result  == Extraction \cup (SUBSET Verdict) \cup {Void}
Content == Result \X Result \X (SUBSET (PlainCheck \cup {"low_risk"}))
RunRow  == [job : Job, status : RunStatus, cost : Nat, of : Nat, result : Result]
Calling == {"parse", "call", "persist"}
Doing   == [pc : {"idle", "budget", "compare", "insert"} \cup Calling, job : Job \cup {Void}, of : Nat,
            known : SUBSET Evidence, cost : Nat, result : Result \cup Content,
            status : RunStatus \cup {Void}, prior : Nat]

\* Row x of rs is an extraction that succeeded; row v is a verification.
Extracted(x, rs) ==
    /\ x \in 1..Len(rs) /\ rs[x].job = "extraction" /\ rs[x].status = "succeeded"
    /\ rs[x].result \in Extraction
Judged(v, rs) == v \in 1..Len(rs) /\ rs[v].job = "verification"

\* What a row says agrees with its job; a verification that succeeded has a verdict on each
\* fact of the extraction it loaded, and on no other.
Answer(j, status, result, of, rs) ==
    /\ result # Void => status = "succeeded" /\ j \in {"extraction", "verification"}
    /\ j = "extraction" /\ (result # Void \/ status = "succeeded") => result \in Extraction
    /\ j = "verification" /\ result # Void => result \in SUBSET Verdict
    /\ j = "verification" /\ status = "succeeded" =>
         /\ result \in SUBSET Verdict /\ Extracted(of, rs)
         /\ ValidVerdicts(result, rs[of].result.facts)
RowGood(r, rs) == Answer(r.job, r.status, r.result, r.of, rs)

Local(j, rs, ms) ==
    /\ j.pc = "idle" => j = Free
    /\ j.pc \in {"budget"} \cup Calling => j.job \in Job \ {"memo"}
    /\ j.pc = "parse" => j.job = "question"
    /\ j.pc \in {"compare", "insert"} => j.job = "memo" /\ j.result \in Content /\ j.cost = 0
    /\ j.pc \in {"budget"} \cup Calling /\ j.job = "verification" =>
         Extracted(j.of, rs) /\ j.known = rs[j.of].result.facts
    /\ j.pc = "persist" =>
         /\ j.status \in RunStatus /\ j.result \in Result
         /\ Answer(j.job, j.status, j.result, j.of, rs)
    /\ j.pc \in {"budget", "parse"} => j.cost = 0
    /\ j.pc \in {"budget", "parse", "call"} => j.result = Void
    /\ j.pc = "call" => j.cost + Price[j.job] <= Estimate(j.job)
    /\ j.pc = "persist" => j.cost <= Estimate(j.job)
    /\ j.pc \in Calling => Estimate(j.job) <= PerJob
    /\ j.pc = "insert" => j.prior <= Len(ms) /\ (j.prior > 0 => ms[j.prior] # j.result)

BaseInv ==
    /\ runs \in Seq(RunRow) /\ \A i \in 1..Len(runs) : RowGood(runs[i], runs)
    /\ memos \in Seq(Content)
    /\ active \subseteq Evidence /\ failing \subseteq PlainCheck \cup {"low_risk"}
    /\ promoted \in BOOLEAN
    /\ job \in [Worker -> Doing] /\ \A w \in Worker : Local(job[w], runs, memos)

Grown(rs, more) ==
    /\ Len(rs) \in Nat /\ Len(more) \in Nat /\ Len(rs) <= Len(more)
    /\ \A i \in 1..Len(rs) : more[i] = rs[i]

LEMMA AppendGrows == ASSUME NEW R, NEW rs \in Seq(R), NEW r \in R PROVE Grown(rs, Append(rs, r))
BY DEF Grown

LEMMA SameGrows == ASSUME NEW R, NEW rs \in Seq(R) PROVE Grown(rs, rs)
BY DEF Grown

LEMMA ExtractedStays ==
    ASSUME NEW rs, NEW more, Grown(rs, more), NEW x, Extracted(x, rs)
    PROVE  Extracted(x, more) /\ more[x] = rs[x]
<1>1. x \in 1..Len(rs) /\ x \in 1..Len(more) /\ more[x] = rs[x]
  BY DEF Grown, Extracted
<1> QED BY <1>1 DEF Extracted

LEMMA AnswerStays ==
    ASSUME NEW rs, NEW more, Grown(rs, more), NEW j, NEW status, NEW result, NEW of,
           Answer(j, status, result, of, rs)
    PROVE  Answer(j, status, result, of, more)
BY ExtractedStays DEF Answer

LEMMA LocalStays ==
    ASSUME NEW rs, NEW more, Grown(rs, more), NEW ms, NEW later, Grown(ms, later),
           NEW j \in Doing, Local(j, rs, ms)
    PROVE  Local(j, more, later)
<1>1. j.pc = "persist" => Answer(j.job, j.status, j.result, j.of, more)
  BY AnswerStays DEF Local
<1>2. j.pc \in {"budget"} \cup Calling /\ j.job = "verification" =>
         Extracted(j.of, more) /\ j.known = more[j.of].result.facts
  BY ExtractedStays DEF Local
<1>3. j.pc = "insert" => j.prior <= Len(later) /\ (j.prior > 0 => later[j.prior] # j.result)
  <2> SUFFICES ASSUME j.pc = "insert" PROVE j.prior <= Len(later) /\ (j.prior > 0 => later[j.prior] # j.result)
    OBVIOUS
  <2>1. j.prior \in Nat /\ j.prior <= Len(ms) /\ (j.prior > 0 => ms[j.prior] # j.result)
    BY DEF Local, Doing
  <2>2. j.prior > 0 => j.prior \in 1..Len(ms)
    BY <2>1 DEF Grown
  <2> QED BY <2>1, <2>2 DEF Grown
<1> QED BY <1>1, <1>2, <1>3 DEF Local

LEMMA Prices ==
    /\ \A j \in Job \ {"memo"} : Price[j] \in Nat /\ Estimate(j) \in Nat /\ Price[j] <= Estimate(j)
    /\ Estimate("question") = 2 * Price["question"]
    /\ Cap \in Nat /\ PerJob \in Nat /\ IsFiniteSet(Worker)
<1>1. \A j \in Job \ {"memo"} : Price[j] \in Nat
  BY ModelJobsAssumption
<1>2. "question" \in Job \ {"memo"}
  BY DEF Job
<1> QED BY <1>1, <1>2, ModelJobsAssumption DEF Estimate

LEMMA FreeIs ==
    /\ Free \in Doing /\ Free.pc = "idle" /\ Free.cost = 0 /\ Free.of = 0 /\ Free.result = Void
    /\ \A rs, ms : Local(Free, rs, ms)
<1>1. Free \in Doing /\ Free.pc = "idle" /\ Free.cost = 0 /\ Free.of = 0 /\ Free.result = Void
  BY DEF Free, Doing, Result
<1> QED BY <1>1 DEF Local, Calling

LEMMA BaseInit == JobsInit => BaseInv
<1> SUFFICES ASSUME JobsInit PROVE BaseInv
  OBVIOUS
<1>1. job \in [Worker -> Doing] /\ \A w \in Worker : Local(job[w], runs, memos)
  BY FreeIs DEF JobsInit
<1>2. runs \in Seq(RunRow) /\ memos \in Seq(Content) /\ Len(runs) = 0
  BY DEF JobsInit
<1> QED BY <1>1, <1>2 DEF JobsInit, BaseInv

\* The latest extraction is one; so is the latest verification.
LEMMA LatestIs ==
    ASSUME BaseInv
    PROVE  /\ LatestExtraction \in Nat /\ (LatestExtraction # 0 => Extracted(LatestExtraction, runs))
           /\ LatestVerification \in Nat /\ (LatestVerification # 0 => Judged(LatestVerification, runs))
<1> DEFINE X == {i \in 1..Len(runs) : runs[i].job = "extraction" /\ runs[i].status = "succeeded"}
           V == {i \in 1..Len(runs) : runs[i].job = "verification"}
<1>1. /\ LatestExtraction = IF X = {} THEN 0 ELSE CHOOSE i \in X : \A j \in X : j <= i
      /\ LatestVerification = IF V = {} THEN 0 ELSE CHOOSE i \in V : \A j \in V : j <= i
  BY DEF LatestExtraction, LatestVerification, LatestOf
<1>2. Len(runs) \in Nat
  BY DEF BaseInv
<1>3. /\ X # {} => \E i \in X : \A j \in X : j <= i
      /\ V # {} => \E i \in V : \A j \in V : j <= i
  BY <1>2, Greatest
<1>4. LatestExtraction = 0 \/ LatestExtraction \in X
  BY <1>1, <1>3
<1>5. LatestVerification = 0 \/ LatestVerification \in V
  BY <1>1, <1>3
<1>6. ASSUME NEW i \in X PROVE Extracted(i, runs)
  BY <1>6 DEF BaseInv, RowGood, Answer, Extracted
<1> QED BY <1>2, <1>4, <1>5, <1>6 DEF Judged

LEMMA FactsAre ==
    ASSUME NEW x, x = 0 \/ Extracted(x, runs) PROVE FactsOf(x) \in SUBSET Evidence
BY DEF FactsOf, Extracted, Extraction

--------------------------------------------------------------------------------
(* What a process does leaves the rows in order.                                  *)

Rows == runs' = runs \/ \E r \in RunRow : RowGood(r, runs) /\ runs' = Append(runs, r)

LEMMA RowsGrow ==
    ASSUME BaseInv, Rows
    PROVE  /\ Grown(runs, runs') /\ runs' \in Seq(RunRow)
           /\ \A i \in 1..Len(runs') : RowGood(runs'[i], runs')
<1>1. CASE runs' = runs
  BY <1>1, SameGrows DEF BaseInv
<1>2. CASE runs' # runs
  <2>1. PICK r \in RunRow : RowGood(r, runs) /\ runs' = Append(runs, r)
    BY <1>2 DEF Rows
  <2>2. runs \in Seq(RunRow) /\ \A i \in 1..Len(runs) : RowGood(runs[i], runs)
    BY DEF BaseInv
  <2>3. Grown(runs, runs') /\ runs' \in Seq(RunRow) /\ Len(runs') = Len(runs) + 1 /\ runs'[Len(runs) + 1] = r
    BY <2>1, <2>2, AppendGrows
  <2>4. \A i \in 1..Len(runs') : i \in 1..Len(runs) \/ i = Len(runs) + 1
    BY <2>2, <2>3
  <2>5. \A i \in 1..Len(runs') : RowGood(runs'[i], runs)
    BY <2>1, <2>2, <2>3, <2>4 DEF Grown
  <2>6. \A i \in 1..Len(runs') : RowGood(runs'[i], runs')
    BY <2>3, <2>5, AnswerStays DEF RowGood
  <2> QED BY <2>3, <2>6
<1> QED BY <1>1, <1>2

LEMMA BaseMove ==
    ASSUME BaseInv, Rows, NEW w \in Worker, NEW to \in Doing, job' = [job EXCEPT ![w] = to],
           Local(to, runs, memos) \/ Local(to, runs', memos'),
           memos' = memos \/ \E c \in Content : memos' = Append(memos, c),
           UNCHANGED <<active, failing, promoted>>
    PROVE  BaseInv'
<1>1. Grown(runs, runs') /\ runs' \in Seq(RunRow) /\ \A i \in 1..Len(runs') : RowGood(runs'[i], runs')
  BY RowsGrow
<1>2. Grown(memos, memos') /\ memos' \in Seq(Content)
  <2>1. memos \in Seq(Content)
    BY DEF BaseInv
  <2>2. CASE memos' = memos
    BY <2>1, <2>2, SameGrows
  <2>3. CASE memos' # memos
    <3>1. PICK c \in Content : memos' = Append(memos, c)
      BY <2>3
    <3> QED BY <2>1, <3>1, AppendGrows
  <2> QED BY <2>2, <2>3
<1>3. Local(to, runs', memos')
  BY <1>1, <1>2, LocalStays
<1>4. job \in [Worker -> Doing] /\ \A u \in Worker : Local(job[u], runs, memos)
  BY DEF BaseInv
<1>5. job' \in [Worker -> Doing] /\ job'[w] = to /\ \A u \in Worker : u # w => job'[u] = job[u]
  BY <1>4
<1>6. ASSUME NEW u \in Worker PROVE Local(job'[u], runs', memos')
  <2>1. job[u] \in Doing /\ Local(job[u], runs, memos)
    BY <1>4
  <2>2. Local(job[u], runs', memos')
    BY <1>1, <1>2, <2>1, LocalStays
  <2> QED BY <1>3, <1>5, <2>2
<1> QED BY <1>1, <1>2, <1>5, <1>6 DEF BaseInv

\* Nobody's part changes but the world's or the digest's.
LEMMA BaseWorld ==
    ASSUME BaseInv, Rows, UNCHANGED <<job, memos, promoted>>, active' \subseteq Evidence,
           failing' \subseteq PlainCheck \cup {"low_risk"}
    PROVE  BaseInv'
<1>1. Grown(runs, runs') /\ runs' \in Seq(RunRow) /\ \A i \in 1..Len(runs') : RowGood(runs'[i], runs')
  BY RowsGrow
<1>2. Grown(memos, memos) /\ memos \in Seq(Content)
  BY SameGrows DEF BaseInv
<1>3. ASSUME NEW u \in Worker PROVE Local(job[u], runs', memos)
  BY <1>1, <1>2, LocalStays DEF BaseInv
<1> QED BY <1>1, <1>2, <1>3 DEF BaseInv

\* A row of a job that has no answer.
LEMMA NoAnswer ==
    ASSUME NEW j \in Job, NEW status \in RunStatus, status # "succeeded", NEW cost \in Nat, NEW of \in Nat
    PROVE  Row(j, status, cost, of, Void) \in RunRow /\ RowGood(Row(j, status, cost, of, Void), runs)
BY DEF Row, RunRow, RowGood, Answer, Result

LEMMA AtWork ==
    ASSUME BaseInv, NEW w \in Worker
    PROVE  /\ job[w] \in Doing /\ Local(job[w], runs, memos)
           /\ job[w].pc \in {"budget"} \cup Calling => job[w].job \in Job /\ job[w].job # "memo"
           /\ job[w].cost \in Nat /\ job[w].of \in Nat
BY DEF BaseInv, Local, Doing

LEMMA KeylessBase == ASSUME BaseInv, NEW w \in Worker, NEW j \in Job, Keyless(w, j) PROVE BaseInv'
<1>1. Rows
  BY NoAnswer DEF Rows, Keyless, RunStatus
<1> QED BY <1>1, BaseWorld DEF Keyless, BaseInv

\* A call begins where its job, its facts and its extraction are set.
LEMMA BeginsBase ==
    ASSUME BaseInv, NEW w \in Worker, NEW to, Go(w, to), NEW j \in Job \ {"memo"},
           NEW of \in Nat, NEW known \in SUBSET Evidence,
           to \in Doing, to.pc = "budget", to.job = j, to.of = of, to.known = known, to.cost = 0, to.result = Void,
           j = "verification" => Extracted(of, runs) /\ known = runs[of].result.facts,
           UNCHANGED <<runs, memos, active, failing, promoted>>
    PROVE  BaseInv'
<1>1. Local(to, runs, memos)
  BY DEF Local, Calling
<1> QED BY <1>1, BaseMove DEF Go, Rows

LEMMA BeginExtractionBase == ASSUME BaseInv, NEW w \in Worker, BeginExtraction(w) PROVE BaseInv'
<1> DEFINE to == [Free EXCEPT !.pc = "budget", !.job = "extraction", !.known = active]
<1>1. Go(w, to) /\ active \in SUBSET Evidence /\ "extraction" \in Job \ {"memo"}
  BY DEF BeginExtraction, BaseInv, Job
<1>2. to \in Doing /\ to.pc = "budget" /\ to.job = "extraction" /\ to.of = 0 /\ to.known = active /\ to.cost = 0 /\ to.result = Void
  BY FreeIs, <1>1 DEF Doing
<1> HIDE DEF to
<1> QED BY <1>2, <1>1, BeginsBase DEF BeginExtraction

LEMMA BeginPlainBase ==
    ASSUME BaseInv, NEW w \in Worker, BeginDraft(w) \/ BeginQuestion(w) PROVE BaseInv'
<1>1. PICK j \in {"draft", "question"} : Go(w, [Free EXCEPT !.pc = "budget", !.job = j])
  BY DEF BeginDraft, BeginQuestion
<1> DEFINE to == [Free EXCEPT !.pc = "budget", !.job = j]
<1>2. j \in Job \ {"memo"} /\ j # "verification" /\ Free.known = {}
  BY DEF Job, Free
<1>3. to \in Doing /\ to.pc = "budget" /\ to.job = j /\ to.of = 0 /\ to.known = {} /\ to.cost = 0 /\ to.result = Void
  BY FreeIs, <1>2 DEF Doing
<1>4. UNCHANGED <<runs, memos, active, failing, promoted>>
  BY DEF BeginDraft, BeginQuestion
<1> HIDE DEF to
<1>5. Go(w, to)
  BY <1>1 DEF to
<1> QED BY <1>3, <1>2, <1>4, <1>5, BeginsBase

LEMMA BeginVerificationBase == ASSUME BaseInv, NEW w \in Worker, BeginVerification(w) PROVE BaseInv'
<1> DEFINE x == LatestExtraction
<1>1. x # 0 /\ x \in Nat /\ Extracted(x, runs)
  BY LatestIs DEF BeginVerification
<1>2. FactsOf(x) = runs[x].result.facts /\ FactsOf(x) \in SUBSET Evidence
  BY <1>1, FactsAre DEF FactsOf
<1> HIDE DEF x
<1>3. CASE FactsOf(x) = {}
  <2> DEFINE r == Row("verification", "succeeded", 0, x, {})
  <2>1. runs' = Append(runs, r) /\ UNCHANGED <<job, memos, active, failing, promoted>>
    BY <1>3 DEF BeginVerification, x
  <2>2. r \in RunRow
    BY <1>1 DEF Row, RunRow, Job, RunStatus, Result
  <2>3. RowGood(r, runs)
    <3>1. ValidVerdicts({}, runs[x].result.facts)
      BY <1>2, <1>3 DEF ValidVerdicts
    <3> QED BY <1>1, <3>1 DEF RowGood, Row, Answer
  <2> HIDE DEF r
  <2> QED BY <2>1, <2>2, <2>3, BaseWorld DEF Rows, BaseInv
<1>4. CASE FactsOf(x) # {}
  <2> DEFINE to == [Free EXCEPT !.pc = "budget", !.job = "verification", !.of = x, !.known = FactsOf(x)]
  <2>1. Go(w, to) /\ UNCHANGED <<runs, memos, active, failing, promoted>>
    BY <1>4 DEF BeginVerification, x
  <2>2. "verification" \in Job \ {"memo"}
    BY DEF Job
  <2>3. to \in Doing /\ to.pc = "budget" /\ to.job = "verification" /\ to.of = x /\ to.known = FactsOf(x) /\ to.cost = 0 /\ to.result = Void
    BY FreeIs, <1>1, <1>2, <2>2 DEF Doing
  <2> HIDE DEF to
  <2> QED BY <1>1, <1>2, <2>1, <2>2, <2>3, BeginsBase
<1> QED BY <1>3, <1>4

LEMMA CheckBudgetBase == ASSUME BaseInv, NEW w \in Worker, CheckBudget(w) PROVE BaseInv'
<1>1. /\ job[w] \in Doing /\ Local(job[w], runs, memos) /\ job[w].pc = "budget"
      /\ UNCHANGED <<memos, active, failing, promoted>>
  BY AtWork DEF CheckBudget
<1>2. job[w].job \in Job \ {"memo"} /\ job[w].of \in Nat /\ job[w].cost = 0
  BY <1>1, AtWork DEF Local
<1>3. CASE BudgetAllows(job[w].job)
  <2> DEFINE pc == IF job[w].job = "question" THEN "parse" ELSE "call"
             to == [job[w] EXCEPT !.pc = pc]
  <2>1. Go(w, to) /\ UNCHANGED runs
    BY <1>3 DEF CheckBudget
  <2>2. to \in Doing /\ to.pc = pc /\ to.job = job[w].job /\ to.cost = 0 /\ to.of = job[w].of
        /\ to.known = job[w].known /\ to.result = job[w].result
    BY <1>1, <1>2 DEF Doing, Calling
  <2>3. Estimate(job[w].job) <= PerJob
    BY <1>3 DEF BudgetAllows
  <2>4. Price[job[w].job] <= Estimate(job[w].job) /\ Price[job[w].job] \in Nat
    BY <1>2, Prices
  <2>5. pc \in {"parse", "call"} /\ (pc = "parse" => job[w].job = "question")
    OBVIOUS
  <2> HIDE DEF to, pc
  <2>6. Local(to, runs, memos)
    BY <1>1, <1>2, <2>2, <2>3, <2>4, <2>5 DEF Local, Calling
  <2> QED BY <1>1, <2>1, <2>2, <2>6, BaseMove DEF Go, Rows
<1>4. CASE ~BudgetAllows(job[w].job)
  <2>1. runs' = Append(runs, Row(job[w].job, "blocked", 0, job[w].of, Void)) /\ Go(w, Free)
    BY <1>4 DEF CheckBudget
  <2>2. Rows
    BY <1>2, <2>1, NoAnswer DEF Rows, RunStatus
  <2> QED BY <1>1, <2>1, <2>2, FreeIs, BaseMove DEF Go
<1> QED BY <1>3, <1>4

LEMMA ParseQuestionBase == ASSUME BaseInv, NEW w \in Worker, ParseQuestion(w) PROVE BaseInv'
<1>1. /\ job[w] \in Doing /\ Local(job[w], runs, memos) /\ job[w].pc = "parse"
      /\ UNCHANGED <<runs, memos, active, failing, promoted>>
  BY AtWork DEF ParseQuestion
<1>2. /\ job[w].job = "question" /\ job[w].cost = 0 /\ Estimate("question") <= PerJob
      /\ job[w].result = Void
  BY <1>1 DEF Local, Calling, Doing
<1>3. /\ Price["question"] \in Nat /\ Estimate("question") = 2 * Price["question"]
      /\ "question" \in Job \ {"memo"}
  BY Prices DEF Job
<1>4. \E to \in Doing : Go(w, to) /\ Local(to, runs, memos)
  <2>1. ASSUME NEW cost \in {0, Price["question"]}, NEW found \in BOOLEAN,
               Go(w, [job[w] EXCEPT !.cost = cost,
                                    !.pc = IF found THEN "call" ELSE "persist",
                                    !.status = IF found THEN Void ELSE "succeeded"])
        PROVE  \E to \in Doing : Go(w, to) /\ Local(to, runs, memos)
    <3> DEFINE pc == IF found THEN "call" ELSE "persist"
               status == IF found THEN Void ELSE "succeeded"
               to == [job[w] EXCEPT !.cost = cost, !.pc = pc, !.status = status]
    <3>0. cost \in Nat /\ cost + Price["question"] <= Estimate("question")
      BY <1>3
    <3>1. to \in Doing /\ to.pc = pc /\ to.job = "question" /\ to.cost = cost
          /\ to.result = job[w].result /\ to.status = status
      BY <1>1, <1>2, <3>0 DEF Doing, Calling, RunStatus
    <3>2. pc \in {"call", "persist"} /\ (pc = "persist" => status = "succeeded")
      OBVIOUS
    <3>3. Go(w, to)
      BY <2>1
    <3> HIDE DEF to, pc, status
    <3>4. pc = "persist" => to.result \in Result /\ Answer("question", to.status, to.result, to.of, runs)
      BY <1>2, <3>1, <3>2 DEF Answer, Result
    <3>5. Local(to, runs, memos)
      BY <1>2, <1>3, <2>1, <3>0, <3>1, <3>2, <3>4 DEF Local, Calling, RunStatus
    <3> QED BY <3>1, <3>3, <3>5
  <2> QED BY <2>1 DEF ParseQuestion, Retrieve
<1>5. PICK to \in Doing : Go(w, to) /\ Local(to, runs, memos)
  BY <1>4
<1> QED BY <1>1, <1>5, BaseMove DEF Go, Rows

\* A reply is an answer to what was asked.
LEMMA RepliesFit ==
    ASSUME BaseInv, NEW w \in Worker, job[w].pc = "call", NEW a \in Replies(w)
    PROVE  /\ a.status \in {"succeeded", "rejected"}
           /\ (IF a.status = "succeeded" THEN a.result ELSE Void) \in Result
           /\ Answer(job[w].job, a.status, IF a.status = "succeeded" THEN a.result ELSE Void,
                     job[w].of, runs)
<1>1. job[w] \in Doing /\ Local(job[w], runs, memos) /\ job[w].job \in Job \ {"memo"}
  BY AtWork DEF Calling
<1> DEFINE result == IF a.status = "succeeded" THEN a.result ELSE Void
<1>2. CASE job[w].job = "extraction"
  <2>1. PICK b \in Answers : a = [status |-> IF b.facts \subseteq job[w].known THEN "succeeded" ELSE "rejected",
                                  result |-> b]
    BY <1>2 DEF Replies
  <2>2. b \in Extraction /\ a.result = b /\ a.status \in {"succeeded", "rejected"}
    BY <2>1, ModelJobsAssumption
  <2> QED BY <1>2, <2>2 DEF Answer, Result
<1>3. CASE job[w].job = "verification"
  <2>1. PICK v \in SUBSET (Evidence \X BOOLEAN) :
          a = [status |-> IF ValidVerdicts(v, job[w].known) THEN "succeeded" ELSE "rejected", result |-> v]
    BY <1>3 DEF Replies
  <2>2. Extracted(job[w].of, runs) /\ job[w].known = runs[job[w].of].result.facts
    BY <1>1, <1>3 DEF Local, Calling
  <2>3. /\ v \in SUBSET Verdict /\ a.result = v /\ a.status \in {"succeeded", "rejected"}
        /\ a.status = "succeeded" => ValidVerdicts(v, job[w].known)
    BY <2>1 DEF Verdict
  <2> QED BY <1>3, <2>2, <2>3 DEF Answer, Result
<1>4. CASE job[w].job \notin {"extraction", "verification"}
  <2>1. a = [status |-> "succeeded", result |-> Void]
    BY <1>4 DEF Replies
  <2> QED BY <1>4, <2>1 DEF Answer, Result
<1> QED BY <1>2, <1>3, <1>4

LEMMA CallModelBase == ASSUME BaseInv, NEW w \in Worker, CallModel(w) PROVE BaseInv'
<1>1. /\ job[w] \in Doing /\ Local(job[w], runs, memos) /\ job[w].pc = "call"
      /\ UNCHANGED <<runs, memos, active, failing, promoted>>
  BY AtWork DEF CallModel
<1>2. PICK a \in Replies(w) :
         Go(w, [job[w] EXCEPT !.pc = "persist", !.cost = @ + Price[job[w].job],
                              !.status = a.status,
                              !.result = IF a.status = "succeeded" THEN a.result ELSE Void])
  BY DEF CallModel
<1> DEFINE result == IF a.status = "succeeded" THEN a.result ELSE Void
           status == a.status
           cost == job[w].cost + Price[job[w].job]
           to == [job[w] EXCEPT !.pc = "persist", !.cost = cost, !.status = status, !.result = result]
<1>3. status \in {"succeeded", "rejected"} /\ result \in Result
      /\ Answer(job[w].job, status, result, job[w].of, runs)
  BY <1>1, <1>2, RepliesFit
<1>4. Go(w, to)
  BY <1>2
<1>5. job[w].job \in Job \ {"memo"} /\ cost \in Nat /\ cost <= Estimate(job[w].job)
      /\ Estimate(job[w].job) <= PerJob
  BY <1>1, AtWork, Prices DEF Local, Calling
<1> HIDE DEF result, status, cost
<1>6. to \in Doing /\ to.pc = "persist" /\ to.job = job[w].job /\ to.of = job[w].of /\ to.cost = cost
      /\ to.status = status /\ to.result = result /\ to.known = job[w].known
  BY <1>1, <1>3, <1>5 DEF Doing, Calling, RunStatus
<1> HIDE DEF to
<1>7. Local(to, runs, memos)
  BY <1>1, <1>3, <1>5, <1>6 DEF Local, Calling, RunStatus
<1> QED BY <1>1, <1>4, <1>6, <1>7, BaseMove DEF Go, Rows

LEMMA EndsBase ==
    ASSUME BaseInv, NEW w \in Worker, CallFails(w) \/ PersistModelRun(w) \/ Die(w) PROVE BaseInv'
<1>1. /\ job[w] \in Doing /\ Local(job[w], runs, memos) /\ Go(w, Free)
      /\ UNCHANGED <<memos, active, failing, promoted>>
  BY AtWork DEF CallFails, PersistModelRun, Die
<1>2. job[w].cost \in Nat /\ job[w].of \in Nat
  BY AtWork
<1>3. CASE CallFails(w)
  <2>1. job[w].job \in Job
    BY <1>3, AtWork DEF CallFails, Calling
  <2>2. Rows
    BY <1>2, <1>3, <2>1, NoAnswer DEF Rows, CallFails, RunStatus
  <2> QED BY <1>1, <2>2, FreeIs, BaseMove DEF Go
<1>4. CASE PersistModelRun(w)
  <2> DEFINE r == Row(job[w].job, job[w].status, job[w].cost, job[w].of, job[w].result)
  <2>1. job[w].job \in Job /\ job[w].pc = "persist"
    BY <1>4, AtWork DEF PersistModelRun, Calling
  <2>2. job[w].status \in RunStatus /\ job[w].result \in Result
        /\ Answer(job[w].job, job[w].status, job[w].result, job[w].of, runs)
    BY <1>1, <2>1 DEF Local
  <2>3. r \in RunRow /\ RowGood(r, runs)
    BY <1>2, <2>1, <2>2 DEF Row, RunRow, RowGood
  <2>4. runs' = Append(runs, r)
    BY <1>4 DEF PersistModelRun
  <2> HIDE DEF r
  <2>5. Rows
    BY <2>3, <2>4 DEF Rows
  <2> QED BY <1>1, <2>5, FreeIs, BaseMove DEF Go
<1>5. CASE Die(w)
  BY <1>1, <1>5, FreeIs, BaseMove DEF Go, Rows, Die
<1> QED BY <1>3, <1>4, <1>5

LEMMA ContentIs == ASSUME BaseInv PROVE MemoContent \in Content
<1> DEFINE x == LatestExtraction
           v == LatestVerification
           a == IF x = 0 THEN Void ELSE runs[x].result
           b == IF v = 0 THEN Void ELSE runs[v].result
<1>1. MemoContent = <<a, b, failing>>
  BY DEF MemoContent
<1>2. (x = 0 \/ x \in 1..Len(runs)) /\ (v = 0 \/ v \in 1..Len(runs))
  BY LatestIs DEF Extracted, Judged
<1> HIDE DEF x, v
<1>3. \A i \in 1..Len(runs) : runs[i].result \in Result
  <2>1. runs \in Seq(RunRow)
    BY DEF BaseInv
  <2>2. \A i \in 1..Len(runs) : runs[i] \in RunRow
    BY <2>1
  <2> QED BY <2>2 DEF RunRow
<1>4. Void \in Result
  BY DEF Result
<1>5. a \in Result /\ b \in Result
  BY <1>2, <1>3, <1>4
<1> HIDE DEF a, b
<1>6. failing \in SUBSET (PlainCheck \cup {"low_risk"})
  BY DEF BaseInv
<1> QED BY <1>1, <1>5, <1>6 DEF Content

LEMMA BuildMemoBase == ASSUME BaseInv, NEW w \in Worker, BuildMemo(w) PROVE BaseInv'
<1>1. PICK x, c : x = LatestExtraction /\ c = MemoContent
  OBVIOUS
<1>2. x \in Nat /\ c \in Content
  BY <1>1, LatestIs, ContentIs
<1> DEFINE to == [Free EXCEPT !.pc = "compare", !.job = "memo", !.of = x, !.result = c]
<1>3. Go(w, to) /\ UNCHANGED <<runs, memos, active, failing, promoted>>
  BY <1>1 DEF BuildMemo
<1>4. to \in Doing /\ to.pc = "compare" /\ to.job = "memo" /\ to.result = c /\ to.cost = 0
  BY <1>2, FreeIs DEF Doing, Job
<1> HIDE DEF to
<1>5. Local(to, runs, memos)
  BY <1>2, <1>4 DEF Local, Calling
<1> QED BY <1>3, <1>4, <1>5, BaseMove DEF Go, Rows

LEMMA CompareMemoBase == ASSUME BaseInv, NEW w \in Worker, CompareMemo(w) PROVE BaseInv'
<1>1. /\ job[w] \in Doing /\ Local(job[w], runs, memos) /\ job[w].pc = "compare"
      /\ UNCHANGED <<runs, memos, active, failing, promoted>>
  BY AtWork DEF CompareMemo
<1>2. job[w].job = "memo" /\ job[w].result \in Content /\ job[w].cost = 0 /\ Len(memos) \in Nat
  BY <1>1 DEF Local, BaseInv
<1>3. CASE Len(memos) > 0 /\ memos[Len(memos)] = job[w].result
  BY <1>1, <1>3, FreeIs, BaseMove DEF CompareMemo, Go, Rows
<1>4. CASE ~(Len(memos) > 0 /\ memos[Len(memos)] = job[w].result)
  <2> DEFINE to == [job[w] EXCEPT !.pc = "insert", !.prior = Len(memos)]
  <2>1. Go(w, to)
    BY <1>4 DEF CompareMemo
  <2>2. to \in Doing /\ to.pc = "insert" /\ to.job = "memo" /\ to.result = job[w].result /\ to.cost = 0
        /\ to.prior = Len(memos)
    BY <1>1, <1>2 DEF Doing
  <2> HIDE DEF to
  <2>3. Local(to, runs, memos)
    BY <1>2, <1>4, <2>2 DEF Local, Calling
  <2> QED BY <1>1, <2>1, <2>2, <2>3, BaseMove DEF Go, Rows
<1> QED BY <1>3, <1>4

LEMMA InsertMemoBase == ASSUME BaseInv, NEW w \in Worker, InsertMemo(w) PROVE BaseInv'
<1>1. /\ Local(job[w], runs, memos) /\ job[w].pc = "insert" /\ Go(w, Free)
      /\ UNCHANGED <<runs, active, failing, promoted>>
  BY AtWork DEF InsertMemo
<1>2. memos' = memos \/ (job[w].result \in Content /\ memos' = Append(memos, job[w].result))
  BY <1>1 DEF InsertMemo, Local
<1> QED BY <1>1, <1>2, FreeIs, BaseMove DEF Go, Rows

LEMMA WorkBase == ASSUME BaseInv, NEW w \in Worker, Work(w) PROVE BaseInv'
BY KeylessBase, BeginExtractionBase, BeginVerificationBase, BeginPlainBase, CheckBudgetBase,
   ParseQuestionBase, CallModelBase, EndsBase, BuildMemoBase, CompareMemoBase, InsertMemoBase DEF Work

LEMMA GateLooks == ASSUME EvaluateGate PROVE UNCHANGED <<runs, memos, active, failing, promoted, job, spent, unrecorded>>
BY DEF EvaluateGate, BeginCandidate, ReadPlain, ReadExtraction, ReadFacts, ReadVerifierExtraction,
       ReadVerification, GateRefuses, ReadItem, IncludeItem, Looks

LEMMA BaseNext == BaseInv /\ [JobsNext]_jobsVars => BaseInv'
<1> SUFFICES ASSUME BaseInv, [JobsNext]_jobsVars PROVE BaseInv'
  OBVIOUS
<1>1. active \subseteq Evidence /\ failing \subseteq PlainCheck \cup {"low_risk"}
  BY DEF BaseInv
<1>2. CASE UNCHANGED jobsVars
  BY <1>1, <1>2, BaseWorld DEF jobsVars, Rows
<1>3. CASE EvaluateGate
  BY <1>1, <1>3, GateLooks, BaseWorld DEF Rows
<1>4. ASSUME NEW e \in Evidence, Reresolve(e) PROVE BaseInv'
  BY <1>1, <1>4, BaseWorld DEF Rows, Reresolve
<1>5. ASSUME NEW c \in Changing, Change(c) PROVE BaseInv'
  BY <1>1, <1>5, BaseWorld, ModelJobsAssumption DEF Rows, Change
<1> QED BY <1>2, <1>3, <1>4, <1>5, WorkBase DEF JobsNext

\* What every process carries agrees with the rows it rests on: facts and verdicts are those of
\* extractions that succeeded, costs stay within the estimate that was checked.
THEOREM BaseInvariant == JobsSpec => []BaseInv
BY BaseInit, BaseNext, PTL DEF JobsSpec

--------------------------------------------------------------------------------
(* The counters; the memos of a number of requests are at most as many.           *)

Writing == [w \in Worker |-> IF job[w].pc \in {"compare", "insert"} THEN 1 ELSE 0]

CountInv ==
    /\ spent \in Nat /\ unrecorded \in Nat
    /\ begun \in 0..MaxJob /\ changes \in 0..MaxChange
    /\ jobFaults \in 0..MaxJobFault /\ digests \in 0..MaxDigest
    /\ Len(memos) + Total(Writing, Worker) <= begun

LEMMA Bounds ==
    MaxJob \in Nat /\ MaxChange \in Nat /\ MaxJobFault \in Nat /\ MaxDigest \in Nat
BY ModelJobsAssumption

LEMMA WritingIs ==
    ASSUME BaseInv PROVE Writing \in [Worker -> Nat] /\ Total(Writing, Worker) \in Nat
BY Prices, TotalNat DEF Writing

LEMMA CountInit == JobsInit => CountInv
<1> SUFFICES ASSUME JobsInit PROVE CountInv
  OBVIOUS
<1>1. \A w \in Worker : Writing[w] = 0
  BY FreeIs DEF JobsInit, Writing
<1>2. Writing \in [Worker -> Nat]
  BY DEF Writing
<1>3. Total(Writing, Worker) = 0
  BY <1>1, <1>2, Prices, TotalZero
<1>4. Len(memos) = 0
  BY DEF JobsInit
<1> QED BY <1>3, <1>4, Bounds DEF JobsInit, CountInv

\* A step of a process: what it adds to the versions it has made room for.
LEMMA WritingMoves ==
    ASSUME BaseInv, BaseInv', NEW w \in Worker, NEW to, Go(w, to)
    PROVE  Total(Writing', Worker) =
             Total(Writing, Worker) + (IF to.pc \in {"compare", "insert"} THEN 1 ELSE 0)
                                    - (IF job[w].pc \in {"compare", "insert"} THEN 1 ELSE 0)
<1>1. job \in [Worker -> Doing] /\ job' = [job EXCEPT ![w] = to]
  BY DEF BaseInv, Go
<1>2. Writing \in [Worker -> Nat] /\ Writing' \in [Worker -> Nat]
  BY DEF Writing
<1>3. \A u \in Worker : u # w => Writing'[u] = Writing[u]
  BY <1>1 DEF Writing
<1>4. Total(Writing', Worker) = Total(Writing, Worker) + Writing'[w] - Writing[w]
  BY <1>2, <1>3, Prices, TotalChange
<1>5. /\ Writing'[w] = IF to.pc \in {"compare", "insert"} THEN 1 ELSE 0
      /\ Writing[w] = IF job[w].pc \in {"compare", "insert"} THEN 1 ELSE 0
  BY <1>1 DEF Writing
<1> QED BY <1>4, <1>5

LEMMA WritingStays == ASSUME UNCHANGED job PROVE Writing' = Writing
BY DEF Writing

--------------------------------------------------------------------------------
(* What was spent, what the ledger has of it, and what the jobs in flight may     *)
(* still add: the estimates they were let through with.                           *)

Owed       == [w \in Worker |-> job[w].cost]
Reserved(j) == IF j.pc \in Calling THEN Estimate(j.job) ELSE 0
Committed  == [w \in Worker |-> Reserved(job[w])]

SpendInv ==
    /\ spent = Recorded + Total(Owed, Worker) + unrecorded
    /\ Recorded + Total(Committed, Worker) <= Cap + (Cardinality(Worker) - 1) * PerJob

LEMMA LocalTypes ==
    ASSUME NEW j \in Doing, NEW rs, NEW ms, Local(j, rs, ms)
    PROVE  j.cost \in Nat /\ Reserved(j) \in Nat
BY Prices DEF Doing, Local, Reserved

LEMMA SpendTypes ==
    ASSUME BaseInv
    PROVE  /\ Recorded \in Nat
           /\ Owed \in [Worker -> Nat] /\ Total(Owed, Worker) \in Nat
           /\ \A w \in Worker : Reserved(job[w]) \in Nat
           /\ Committed \in [Worker -> Nat] /\ Total(Committed, Worker) \in Nat
<1>1. \A w \in Worker : job[w].cost \in Nat
  BY AtWork
<1>2. \A w \in Worker : Reserved(job[w]) \in Nat
  BY AtWork, LocalTypes
<1>3. Owed \in [Worker -> Nat] /\ Committed \in [Worker -> Nat]
  BY <1>1, <1>2 DEF Owed, Committed
<1>4. runs \in Seq(RunRow)
  BY DEF BaseInv
<1>5. \A i \in 1..Len(runs) : runs[i] \in RunRow
  BY <1>4
<1>6. Recorded \in Nat
  BY <1>4, <1>5, RecordedIs, LedgerNat DEF RunRow
<1> QED BY <1>2, <1>3, <1>6, Prices, TotalNat

LEMMA RecordedGrows ==
    ASSUME BaseInv, NEW r \in RunRow, runs' = Append(runs, r) PROVE Recorded' = Recorded + r.cost
<1>1. runs \in Seq(RunRow) /\ r.cost \in Nat
  BY DEF BaseInv, RunRow
<1>2. \A i \in 1..Len(runs) : runs[i] \in RunRow
  BY <1>1
<1>3. \A i \in 1..Len(runs) : runs[i].cost \in Nat
  BY <1>2 DEF RunRow
<1>4. Recorded' = Ledger(runs')
  BY DEF Recorded, Ledger
<1> QED BY <1>1, <1>3, <1>4, RecordedIs, LedgerAppend

LEMMA RecordedStays == ASSUME UNCHANGED runs PROVE Recorded' = Recorded
BY DEF Recorded

\* The cap and what the others may add.
LEMMA RoomIs ==
    /\ Cardinality(Worker) \in Nat /\ Cardinality(Worker) >= 1
    /\ (Cardinality(Worker) - 1) * PerJob \in Nat
<1>1. Cardinality(Worker) \in Nat /\ Cardinality(Worker) # 0
  BY ModelJobsAssumption, FS_CardinalityType, FS_EmptySet
<1> DEFINE c == Cardinality(Worker) - 1
<1>2. c \in Nat /\ PerJob \in Nat
  BY <1>1, Prices
<1> HIDE DEF c
<1>3. c * PerJob \in Nat
  BY <1>2
<1> QED BY <1>1, <1>3 DEF c

LEMMA SpendInit == JobsInit => SpendInv
<1> SUFFICES ASSUME JobsInit PROVE SpendInv
  OBVIOUS
<1>1. \A w \in Worker : Owed[w] = 0 /\ Committed[w] = 0
  BY FreeIs DEF JobsInit, Owed, Committed, Reserved, Calling
<1>2. Owed \in [Worker -> Nat] /\ Committed \in [Worker -> Nat]
  BY BaseInit, SpendTypes
<1>3. Total(Owed, Worker) = 0 /\ Total(Committed, Worker) = 0
  BY <1>1, <1>2, Prices, TotalZero
<1>4. Recorded = 0
  BY RecordedIs, LedgerEmpty DEF JobsInit
<1>5. spent = 0 /\ unrecorded = 0
  BY DEF JobsInit
<1> QED BY <1>3, <1>4, <1>5, RoomIs, Prices DEF SpendInv

LEMMA SumsMove ==
    ASSUME BaseInv, BaseInv', NEW w \in Worker, NEW to, Go(w, to)
    PROVE  /\ Total(Owed', Worker) = Total(Owed, Worker) + to.cost - job[w].cost
           /\ Total(Committed', Worker) = Total(Committed, Worker) + Reserved(to) - Reserved(job[w])
<1>1. job \in [Worker -> Doing] /\ job' = [job EXCEPT ![w] = to]
  BY DEF BaseInv, Go
<1>2. /\ Owed \in [Worker -> Nat] /\ Committed \in [Worker -> Nat]
      /\ Owed' \in [Worker -> Nat] /\ Committed' \in [Worker -> Nat]
  <2>1. \A u \in Worker : job'[u] \in Doing /\ Local(job'[u], runs', memos')
    BY DEF BaseInv
  <2>2. \A u \in Worker : job'[u].cost \in Nat /\ Reserved(job'[u]) \in Nat
    BY <2>1, LocalTypes
  <2>3. Owed' \in [Worker -> Nat] /\ Committed' \in [Worker -> Nat]
    BY <2>2 DEF Owed, Committed, Reserved
  <2> QED BY <2>3, SpendTypes
<1>3. \A u \in Worker : u # w => Owed'[u] = Owed[u] /\ Committed'[u] = Committed[u]
  BY <1>1 DEF Owed, Committed, Reserved
<1>4. /\ Owed'[w] = to.cost /\ Owed[w] = job[w].cost
      /\ Committed'[w] = Reserved(to) /\ Committed[w] = Reserved(job[w])
  BY <1>1 DEF Owed, Committed, Reserved
<1> QED BY <1>2, <1>3, <1>4, Prices, TotalChange

\* A step that gives back at least as much room as it puts into the ledger.
LEMMA SpendMove ==
    ASSUME BaseInv, BaseInv', SpendInv, spent \in Nat, unrecorded \in Nat,
           NEW w \in Worker, NEW to \in Doing, Go(w, to), Reserved(to) \in Nat,
           NEW c \in Nat, Recorded' = Recorded + c, NEW d \in Nat, NEW u \in Nat,
           spent' = spent + d, unrecorded' = unrecorded + u,
           d + job[w].cost = c + to.cost + u,
           c + Reserved(to) <= Reserved(job[w])
    PROVE  SpendInv'
<1>1. /\ Total(Owed', Worker) = Total(Owed, Worker) + to.cost - job[w].cost
      /\ Total(Committed', Worker) = Total(Committed, Worker) + Reserved(to) - Reserved(job[w])
  BY SumsMove
<1>2. /\ Recorded \in Nat /\ Total(Owed, Worker) \in Nat /\ Total(Committed, Worker) \in Nat
      /\ job[w].cost \in Nat /\ Reserved(job[w]) \in Nat /\ to.cost \in Nat
  BY SpendTypes, AtWork DEF Doing
<1> DEFINE room == Cap + (Cardinality(Worker) - 1) * PerJob
<1>3. room \in Nat
  BY RoomIs, Prices
<1>4. Recorded + Total(Committed, Worker) <= room /\ spent = Recorded + Total(Owed, Worker) + unrecorded
  BY DEF SpendInv
<1> HIDE DEF room
<1>5. Recorded' + Total(Committed', Worker) <= room
  BY <1>1, <1>2, <1>3, <1>4
<1>6. spent' = Recorded' + Total(Owed', Worker) + unrecorded'
  BY <1>1, <1>2, <1>4
<1> QED BY <1>5, <1>6 DEF SpendInv, room

LEMMA SpendStays ==
    ASSUME SpendInv, UNCHANGED <<job, spent, unrecorded>>, Recorded' = Recorded PROVE SpendInv'
<1>1. Owed' = Owed /\ Committed' = Committed
  BY DEF Owed, Committed, Reserved
<1> QED BY <1>1 DEF SpendInv

LEMMA FreeReserves == Reserved(Free) = 0 /\ Free \in Doing /\ Free.cost = 0
BY FreeIs DEF Reserved, Calling

\* Who begins has cost nothing yet.
LEMMA Begun ==
    ASSUME NEW j, NEW of, NEW known, NEW c
    PROVE  /\ [Free EXCEPT !.pc = "budget", !.job = j, !.of = of, !.known = known].cost = 0
           /\ [Free EXCEPT !.pc = "budget", !.job = j, !.of = of, !.known = known].pc = "budget"
           /\ [Free EXCEPT !.pc = "budget", !.job = j, !.known = known].cost = 0
           /\ [Free EXCEPT !.pc = "budget", !.job = j, !.known = known].pc = "budget"
           /\ [Free EXCEPT !.pc = "budget", !.job = j].cost = 0
           /\ [Free EXCEPT !.pc = "budget", !.job = j].pc = "budget"
           /\ [Free EXCEPT !.pc = "compare", !.job = j, !.of = of, !.result = c].cost = 0
           /\ [Free EXCEPT !.pc = "compare", !.job = j, !.of = of, !.result = c].pc = "compare"
BY DEF Free

LEMMA KeylessSpend ==
    ASSUME BaseInv, SpendInv, NEW w \in Worker, NEW j \in Job, Keyless(w, j) PROVE SpendInv'
<1> DEFINE r == Row(j, "blocked", 0, 0, Void)
<1>1. runs' = Append(runs, r) /\ r \in RunRow /\ r.cost = 0
  BY NoAnswer DEF Keyless, RunStatus, Row
<1>2. Recorded' = Recorded
  BY <1>1, RecordedGrows, SpendTypes
<1> QED BY <1>2, SpendStays DEF Keyless

\* What no room is asked for.
LEMMA IdlySpend ==
    ASSUME BaseInv, BaseInv', SpendInv, spent \in Nat, unrecorded \in Nat,
           NEW w \in Worker, NEW to \in Doing, Go(w, to), to.cost = 0, job[w].cost = 0,
           to.pc \notin Calling, Recorded' = Recorded, UNCHANGED <<spent, unrecorded>>
    PROVE  SpendInv'
<1>1. Reserved(to) = 0 /\ Reserved(job[w]) \in Nat /\ Recorded \in Nat
  BY SpendTypes DEF Reserved
<1> QED BY <1>1, SpendMove

LEMMA BeginsSpend ==
    ASSUME BaseInv, BaseInv', SpendInv, spent \in Nat, unrecorded \in Nat, NEW w \in Worker,
           BeginExtraction(w) \/ BeginVerification(w) \/ BeginDraft(w) \/ BeginQuestion(w) \/ BuildMemo(w)
    PROVE  SpendInv'
<1>1. job[w].cost = 0 /\ UNCHANGED <<spent, unrecorded>>
  BY FreeReserves DEF BeginExtraction, BeginVerification, BeginDraft, BeginQuestion, BuildMemo
<1>2. ASSUME UNCHANGED job PROVE SpendInv'
  <2>1. CASE UNCHANGED runs
    BY <1>1, <1>2, <2>1, RecordedStays, SpendStays
  <2>2. CASE ~UNCHANGED runs
    <3> DEFINE x == LatestExtraction
               r == Row("verification", "succeeded", 0, x, {})
    <3>1. runs' = Append(runs, r)
      BY <2>2 DEF BeginExtraction, BeginVerification, BeginDraft, BeginQuestion, BuildMemo
    <3>2. x \in Nat
      BY LatestIs
    <3> HIDE DEF x
    <3>3. r \in RunRow /\ r.cost = 0
      BY <3>2 DEF Row, RunRow, Job, RunStatus, Result
    <3> QED BY <1>1, <1>2, <3>1, <3>3, RecordedGrows, SpendTypes, SpendStays
  <2> QED BY <2>1, <2>2
<1>3. ASSUME NEW to, Go(w, to), to.cost = 0, to.pc \notin Calling, UNCHANGED runs PROVE SpendInv'
  <2>1. job' \in [Worker -> Doing] /\ job'[w] = to
    BY <1>3 DEF BaseInv, Go
  <2> QED BY <1>1, <1>3, <2>1, RecordedStays, IdlySpend
<1>4. CASE BeginExtraction(w) \/ BeginDraft(w) \/ BeginQuestion(w) \/ BuildMemo(w)
  <2>1. \E to : Go(w, to) /\ to.cost = 0 /\ to.pc \in {"budget", "compare"}
    <3>1. CASE BeginExtraction(w)
      <4> DEFINE to == [Free EXCEPT !.pc = "budget", !.job = "extraction", !.known = active]
      <4>1. Go(w, to)
        BY <3>1 DEF BeginExtraction
      <4>2. to.cost = 0 /\ to.pc \in {"budget", "compare"}
        BY Begun
      <4> HIDE DEF to
      <4> QED BY <4>1, <4>2
    <3>2. CASE BeginDraft(w)
      <4> DEFINE to == [Free EXCEPT !.pc = "budget", !.job = "draft"]
      <4>1. Go(w, to)
        BY <3>2 DEF BeginDraft
      <4>2. to.cost = 0 /\ to.pc \in {"budget", "compare"}
        BY Begun
      <4> HIDE DEF to
      <4> QED BY <4>1, <4>2
    <3>3. CASE BeginQuestion(w)
      <4> DEFINE to == [Free EXCEPT !.pc = "budget", !.job = "question"]
      <4>1. Go(w, to)
        BY <3>3 DEF BeginQuestion
      <4>2. to.cost = 0 /\ to.pc \in {"budget", "compare"}
        BY Begun
      <4> HIDE DEF to
      <4> QED BY <4>1, <4>2
    <3>4. CASE BuildMemo(w)
      <4> DEFINE to == [Free EXCEPT !.pc = "compare", !.job = "memo", !.of = LatestExtraction,
                                   !.result = MemoContent]
      <4>1. Go(w, to)
        BY <3>4 DEF BuildMemo
      <4>2. to.cost = 0 /\ to.pc \in {"budget", "compare"}
        BY Begun
      <4> HIDE DEF to
      <4> QED BY <4>1, <4>2
    <3> QED BY <1>4, <3>1, <3>2, <3>3, <3>4
  <2>2. UNCHANGED runs
    BY <1>4 DEF BeginExtraction, BeginDraft, BeginQuestion, BuildMemo
  <2> QED BY <1>3, <2>1, <2>2 DEF Calling
<1>5. CASE BeginVerification(w)
  <2>1. UNCHANGED job \/ (UNCHANGED runs /\ \E to : Go(w, to) /\ to.cost = 0 /\ to.pc = "budget")
    <3> DEFINE x == LatestExtraction
               to == [Free EXCEPT !.pc = "budget", !.job = "verification", !.of = x, !.known = FactsOf(x)]
    <3>1. UNCHANGED job \/ (UNCHANGED runs /\ Go(w, to))
      BY <1>5 DEF BeginVerification
    <3>2. to.cost = 0 /\ to.pc = "budget"
      BY Begun
    <3> HIDE DEF to
    <3> QED BY <3>1, <3>2
  <2> QED BY <1>2, <1>3, <2>1 DEF Calling
<1> QED BY <1>4, <1>5

LEMMA CheckBudgetSpend ==
    ASSUME BaseInv, BaseInv', SpendInv, spent \in Nat, unrecorded \in Nat, NEW w \in Worker, CheckBudget(w)
    PROVE  SpendInv'
<1>1. /\ job[w] \in Doing /\ job[w].pc = "budget" /\ job[w].cost = 0 /\ UNCHANGED <<spent, unrecorded>>
      /\ job[w].job \in Job \ {"memo"} /\ job[w].of \in Nat
  BY AtWork DEF CheckBudget, Local
<1>2. CASE ~BudgetAllows(job[w].job)
  <2> DEFINE r == Row(job[w].job, "blocked", 0, job[w].of, Void)
  <2>1. runs' = Append(runs, r) /\ Go(w, Free) /\ r \in RunRow /\ r.cost = 0
    <3>1. runs' = Append(runs, r) /\ Go(w, Free)
      BY <1>2 DEF CheckBudget
    <3>2. r \in RunRow
      BY <1>1, NoAnswer DEF RunStatus
    <3>3. r.cost = 0
      BY DEF Row
    <3> QED BY <3>1, <3>2, <3>3
  <2>2. Recorded' = Recorded
    BY <2>1, RecordedGrows, SpendTypes
  <2>3. Free.pc \notin Calling
    BY FreeIs DEF Calling
  <2> QED BY <1>1, <2>1, <2>2, <2>3, FreeReserves, IdlySpend
<1>3. CASE BudgetAllows(job[w].job)
  <2> DEFINE pc == IF job[w].job = "question" THEN "parse" ELSE "call"
             to == [job[w] EXCEPT !.pc = pc]
             e == Estimate(job[w].job)
  <2>1. Go(w, to) /\ Recorded' = Recorded
    BY <1>3, RecordedStays DEF CheckBudget
  <2>2. e \in Nat /\ e <= PerJob /\ Recorded + e <= Cap
    BY <1>1, <1>3, Prices DEF BudgetAllows
  <2>3. pc \in Calling
    BY DEF Calling
  <2> HIDE DEF pc
  <2>4. to.pc = pc /\ to.job = job[w].job /\ to.cost = 0
    BY <1>1 DEF Doing
  <2> HIDE DEF to
  <2>5. Reserved(to) = e /\ Reserved(job[w]) = 0
    BY <1>1, <2>3, <2>4 DEF Reserved, Calling
  <2> HIDE DEF e
  <2>6. /\ Total(Owed', Worker) = Total(Owed, Worker) + to.cost - job[w].cost
        /\ Total(Committed', Worker) = Total(Committed, Worker) + Reserved(to) - Reserved(job[w])
    BY <2>1, SumsMove
  <2>7. \A u \in Worker : Reserved(job[u]) <= PerJob
    BY AtWork, Prices DEF Reserved, Local
  <2>8. Total(Committed, Worker) <= (Cardinality(Worker) - 1) * PerJob
    <3>1. Committed \in [Worker -> Nat] /\ Committed[w] = 0 /\ \A u \in Worker : Committed[u] <= PerJob
      BY <2>5, <2>7, SpendTypes DEF Committed
    <3> QED BY <3>1, Prices, TotalBound
  <2>9. Recorded \in Nat /\ Total(Owed, Worker) \in Nat /\ Total(Committed, Worker) \in Nat
    BY SpendTypes
  <2> DEFINE room == (Cardinality(Worker) - 1) * PerJob
  <2>10. room \in Nat /\ Total(Committed, Worker) <= room
    BY <2>8, RoomIs
  <2> HIDE DEF room
  <2>11. Recorded' + Total(Committed', Worker) <= Cap + room
    BY <2>1, <2>2, <2>5, <2>6, <2>9, <2>10, Prices
  <2>12. spent' = Recorded' + Total(Owed', Worker) + unrecorded'
    BY <1>1, <2>1, <2>4, <2>6, <2>9 DEF SpendInv
  <2> QED BY <2>11, <2>12 DEF SpendInv, room
<1> QED BY <1>2, <1>3

LEMMA ParseQuestionSpend ==
    ASSUME BaseInv, BaseInv', SpendInv, spent \in Nat, unrecorded \in Nat, NEW w \in Worker, ParseQuestion(w)
    PROVE  SpendInv'
<1> DEFINE p == Price["question"]
<1>1. /\ job[w] \in Doing /\ job[w].pc = "parse" /\ job[w].job = "question" /\ job[w].cost = 0
      /\ Recorded' = Recorded
  BY AtWork, RecordedStays DEF ParseQuestion, Local
<1>2. p \in Nat /\ Reserved(job[w]) \in Nat /\ Recorded \in Nat
  BY Prices, SpendTypes DEF Job
<1>3. Reserved(job[w]) = Estimate("question")
  BY <1>1 DEF Reserved, Calling
<1>4. ASSUME NEW cost \in {0, p}, NEW lost \in {0, p}, NEW found \in BOOLEAN,
             Go(w, [job[w] EXCEPT !.cost = cost, !.pc = IF found THEN "call" ELSE "persist",
                                  !.status = IF found THEN Void ELSE "succeeded"]),
             spent' = spent + cost + lost, unrecorded' = unrecorded + lost
      PROVE  SpendInv'
  <2> DEFINE pc == IF found THEN "call" ELSE "persist"
             status == IF found THEN Void ELSE "succeeded"
             to == [job[w] EXCEPT !.cost = cost, !.pc = pc, !.status = status]
  <2>1. to \in Doing /\ to.pc = pc /\ to.job = "question" /\ to.cost = cost
    BY <1>1, <1>2 DEF Doing, Calling, RunStatus
  <2>2. pc \in Calling
    BY DEF Calling
  <2>3. Go(w, to)
    BY <1>4
  <2>0. cost \in Nat /\ lost \in Nat
    BY <1>2
  <2> HIDE DEF to, pc, status, p
  <2>4. Reserved(to) = Reserved(job[w])
    BY <1>3, <2>1, <2>2 DEF Reserved
  <2>5. /\ Recorded' = Recorded + 0 /\ spent' = spent + (cost + lost)
        /\ (cost + lost) + job[w].cost = 0 + to.cost + lost
    BY <1>1, <1>2, <1>4, <2>0, <2>1
  <2>6. 0 + Reserved(to) <= Reserved(job[w])
    BY <1>2, <2>4
  <2>7. cost + lost \in Nat
    BY <2>0
  <2> QED BY <1>2, <1>4, <2>0, <2>1, <2>3, <2>4, <2>5, <2>6, <2>7, SpendMove
<1>5. CASE Retrieve(w, p) /\ spent' = spent + p /\ UNCHANGED unrecorded
  <2>1. spent' = spent + p + 0 /\ unrecorded' = unrecorded + 0
    BY <1>2, <1>5
  <2> QED BY <1>4, <1>5, <2>1 DEF Retrieve
<1>6. ASSUME NEW lost \in {0, p}, spent' = spent + lost, unrecorded' = unrecorded + lost,
             Retrieve(w, 0)
      PROVE  SpendInv'
  <2>1. spent' = spent + 0 + lost
    BY <1>2, <1>6
  <2> QED BY <1>4, <1>6, <2>1 DEF Retrieve
<1> QED BY <1>5, <1>6 DEF ParseQuestion

LEMMA CallModelSpend ==
    ASSUME BaseInv, BaseInv', SpendInv, spent \in Nat, unrecorded \in Nat, NEW w \in Worker, CallModel(w)
    PROVE  SpendInv'
<1> DEFINE p == Price[job[w].job]
<1>1. /\ job[w] \in Doing /\ job[w].pc = "call" /\ job[w].job \in Job \ {"memo"} /\ job[w].cost \in Nat
      /\ Recorded' = Recorded /\ spent' = spent + p /\ UNCHANGED unrecorded
  BY AtWork, RecordedStays DEF CallModel, Calling
<1>2. p \in Nat /\ Reserved(job[w]) \in Nat /\ Recorded \in Nat
  BY <1>1, Prices, SpendTypes
<1>3. PICK a \in Replies(w) :
         Go(w, [job[w] EXCEPT !.pc = "persist", !.cost = @ + p, !.status = a.status,
                              !.result = IF a.status = "succeeded" THEN a.result ELSE Void])
  BY DEF CallModel
<1> DEFINE result == IF a.status = "succeeded" THEN a.result ELSE Void
           status == a.status
           cost == job[w].cost + p
           to == [job[w] EXCEPT !.pc = "persist", !.cost = cost, !.status = status, !.result = result]
<1>4. status \in {"succeeded", "rejected"} /\ result \in Result
  BY <1>1, <1>3, RepliesFit
<1>5. Go(w, to)
  BY <1>3
<1>6. cost \in Nat
  BY <1>1, <1>2
<1> HIDE DEF result, status, cost
<1>7. to \in Doing /\ to.pc = "persist" /\ to.job = job[w].job /\ to.cost = cost
  BY <1>1, <1>4, <1>6 DEF Doing, Calling, RunStatus
<1> HIDE DEF to
<1>8. Reserved(to) = Reserved(job[w])
  BY <1>1, <1>7 DEF Reserved, Calling
<1> HIDE DEF p
<1>9. /\ Recorded' = Recorded + 0 /\ unrecorded' = unrecorded + 0 /\ p + job[w].cost = 0 + to.cost + 0
      /\ 0 + Reserved(to) <= Reserved(job[w])
  BY <1>1, <1>2, <1>7, <1>8 DEF cost
<1> QED BY <1>1, <1>2, <1>5, <1>7, <1>8, <1>9, SpendMove

\* A process that comes to its end: c goes to the ledger, u stays unrecorded.
LEMMA EndsSpend ==
    ASSUME BaseInv, BaseInv', SpendInv, spent \in Nat, unrecorded \in Nat, NEW w \in Worker,
           CallFails(w) \/ PersistModelRun(w) \/ Die(w)
    PROVE  SpendInv'
<1>1. /\ job[w] \in Doing /\ Local(job[w], runs, memos) /\ Go(w, Free)
      /\ job[w].cost \in Nat /\ job[w].of \in Nat
  BY AtWork DEF CallFails, PersistModelRun, Die
<1>2. Reserved(job[w]) \in Nat /\ Recorded \in Nat
  BY SpendTypes
<1>3. ASSUME NEW c \in Nat, Recorded' = Recorded + c, NEW d \in Nat, NEW u \in Nat,
             spent' = spent + d, unrecorded' = unrecorded + u, d + job[w].cost = c + u,
             c <= Reserved(job[w])
      PROVE  SpendInv'
  <2>1. c + Reserved(Free) <= Reserved(job[w]) /\ d + job[w].cost = c + Free.cost + u
        /\ Reserved(Free) \in Nat
    BY <1>2, <1>3, FreeReserves
  <2> QED BY <1>1, <1>3, <2>1, FreeReserves, SpendMove
<1>4. CASE CallFails(w)
  <2>1. job[w].job \in Job \ {"memo"} /\ job[w].pc = "call"
    BY <1>4, AtWork DEF CallFails, Calling
  <2>2. Price[job[w].job] \in Nat /\ Reserved(job[w]) = Estimate(job[w].job)
    BY <2>1, Prices DEF Reserved, Calling
  <2>3. job[w].cost + Price[job[w].job] <= Estimate(job[w].job)
    BY <1>1, <2>1 DEF Local
  <2>4. PICK charged \in {0, Price[job[w].job]} : spent' = spent + charged /\ unrecorded' = unrecorded + charged
    BY <1>4 DEF CallFails
  <2> DEFINE r == Row(job[w].job, "error", job[w].cost, job[w].of, Void)
  <2>5. r \in RunRow
    BY <1>1, <2>1, NoAnswer DEF RunStatus
  <2>6. runs' = Append(runs, r) /\ r.cost = job[w].cost
    BY <1>4 DEF CallFails, Row
  <2> HIDE DEF r
  <2>7. Recorded' = Recorded + job[w].cost
    BY <2>5, <2>6, RecordedGrows
  <2>8. charged \in Nat /\ charged + job[w].cost = job[w].cost + charged /\ job[w].cost <= Reserved(job[w])
    BY <1>1, <1>2, <2>2, <2>3, <2>4
  <2> QED BY <1>1, <1>3, <2>4, <2>7, <2>8
<1>5. CASE PersistModelRun(w)
  <2>1. job[w].job \in Job \ {"memo"} /\ job[w].pc = "persist" /\ UNCHANGED <<spent, unrecorded>>
    BY <1>5, AtWork DEF PersistModelRun, Calling
  <2>2. Reserved(job[w]) = Estimate(job[w].job) /\ job[w].cost <= Estimate(job[w].job)
    BY <1>1, <2>1 DEF Reserved, Calling, Local
  <2>3. job[w].status \in RunStatus /\ job[w].result \in Result
    BY <1>1, <2>1 DEF Local
  <2> DEFINE r == Row(job[w].job, job[w].status, job[w].cost, job[w].of, job[w].result)
  <2>4. r \in RunRow /\ r.cost = job[w].cost
    BY <1>1, <2>1, <2>3 DEF Row, RunRow
  <2>5. runs' = Append(runs, r)
    BY <1>5 DEF PersistModelRun
  <2> HIDE DEF r
  <2>6. Recorded' = Recorded + job[w].cost
    BY <2>4, <2>5, RecordedGrows
  <2>7. spent' = spent + 0 /\ unrecorded' = unrecorded + 0 /\ 0 + job[w].cost = job[w].cost + 0
    BY <1>1, <2>1
  <2> QED BY <1>1, <1>3, <2>2, <2>6, <2>7
<1>6. CASE Die(w)
  <2>1. PICK charged \in {0} \cup (IF job[w].pc \in {"parse", "call"} THEN {Price[job[w].job]} ELSE {}) :
          spent' = spent + charged /\ unrecorded' = unrecorded + job[w].cost + charged
    BY <1>6 DEF Die
  <2>2. charged \in Nat
    BY <2>1, AtWork, Prices DEF Calling
  <2>3. Recorded' = Recorded + 0
    BY <1>2, <1>6, RecordedStays DEF Die
  <2> DEFINE u == job[w].cost + charged
  <2>4. u \in Nat /\ unrecorded' = unrecorded + u /\ charged + job[w].cost = 0 + u
    BY <1>1, <2>1, <2>2
  <2> QED BY <1>2, <1>3, <2>1, <2>2, <2>3, <2>4
<1> QED BY <1>4, <1>5, <1>6

LEMMA MemoSpend ==
    ASSUME BaseInv, BaseInv', SpendInv, spent \in Nat, unrecorded \in Nat, NEW w \in Worker,
           CompareMemo(w) \/ InsertMemo(w)
    PROVE  SpendInv'
<1>1. /\ job[w] \in Doing /\ Local(job[w], runs, memos) /\ job[w].pc \in {"compare", "insert"}
      /\ UNCHANGED <<runs, spent, unrecorded>>
  BY AtWork DEF CompareMemo, InsertMemo
<1>2. job[w].cost = 0 /\ Recorded' = Recorded
  BY <1>1, RecordedStays DEF Local
<1> DEFINE to == [job[w] EXCEPT !.pc = "insert", !.prior = Len(memos)]
<1>3. Go(w, Free) \/ Go(w, to)
  BY DEF CompareMemo, InsertMemo
<1>4. to \in Doing /\ to.cost = 0 /\ to.pc = "insert"
  <2>1. Len(memos) \in Nat
    BY DEF BaseInv
  <2> QED BY <1>1, <1>2, <2>1 DEF Doing
<1> HIDE DEF to
<1>5. Free.pc \notin Calling
  BY FreeIs DEF Calling
<1> QED BY <1>1, <1>2, <1>3, <1>4, <1>5, FreeReserves, IdlySpend DEF Calling

LEMMA SpendNext == BaseInv /\ BaseInv' /\ CountInv /\ SpendInv /\ [JobsNext]_jobsVars => SpendInv'
<1> SUFFICES ASSUME BaseInv, BaseInv', CountInv, SpendInv, [JobsNext]_jobsVars PROVE SpendInv'
  OBVIOUS
<1>1. spent \in Nat /\ unrecorded \in Nat
  BY DEF CountInv
<1>2. ASSUME UNCHANGED <<runs, job, spent, unrecorded>> PROVE SpendInv'
  BY <1>2, RecordedStays, SpendStays
<1>3. ASSUME NEW w \in Worker, Work(w) PROVE SpendInv'
  BY <1>1, <1>3, KeylessSpend, BeginsSpend, CheckBudgetSpend, ParseQuestionSpend, CallModelSpend,
     EndsSpend, MemoSpend DEF Work
<1>4. EvaluateGate => UNCHANGED <<runs, job, spent, unrecorded>>
  BY GateLooks
<1>5. \A e \in Evidence : Reresolve(e) => UNCHANGED <<runs, job, spent, unrecorded>>
  BY DEF Reresolve
<1>6. \A c \in Changing : Change(c) => UNCHANGED <<runs, job, spent, unrecorded>>
  BY DEF Change
<1> QED BY <1>2, <1>3, <1>4, <1>5, <1>6 DEF JobsNext, jobsVars

--------------------------------------------------------------------------------
(* The counters.                                                                  *)

LEMMA CallsOn ==
    ASSUME BaseInv, NEW w \in Worker,
           \/ CheckBudget(w) \/ ParseQuestion(w) \/ CallModel(w)
           \/ CallFails(w) \/ PersistModelRun(w) \/ Die(w)
    PROVE  \E to : Go(w, to) /\ to.pc \notin {"compare", "insert"}
<1>1. job[w] \in Doing
  BY AtWork
<1>2. Free.pc \notin {"compare", "insert"}
  BY FreeIs
<1>3. \A x \in Calling : x \notin {"compare", "insert"}
  BY DEF Calling
<1>4. CASE CheckBudget(w)
  <2> DEFINE pc == IF job[w].job = "question" THEN "parse" ELSE "call"
             to == [job[w] EXCEPT !.pc = pc]
  <2>1. Go(w, Free) \/ Go(w, to)
    BY <1>4 DEF CheckBudget
  <2>2. pc \in Calling
    BY DEF Calling
  <2> HIDE DEF pc
  <2>3. to.pc = pc
    BY <1>1 DEF Doing
  <2> HIDE DEF to
  <2> QED BY <1>2, <1>3, <2>1, <2>2, <2>3
<1>5. CASE ParseQuestion(w)
  <2>1. ASSUME NEW cost, NEW found \in BOOLEAN
        PROVE  [job[w] EXCEPT !.cost = cost, !.pc = IF found THEN "call" ELSE "persist",
                              !.status = IF found THEN Void ELSE "succeeded"].pc \in Calling
    BY <1>1 DEF Doing, Calling
  <2> QED BY <1>3, <1>5, <2>1 DEF ParseQuestion, Retrieve
<1>6. CASE CallModel(w)
  <2>1. PICK a \in Replies(w) :
           Go(w, [job[w] EXCEPT !.pc = "persist", !.cost = @ + Price[job[w].job], !.status = a.status,
                                !.result = IF a.status = "succeeded" THEN a.result ELSE Void])
    BY <1>6 DEF CallModel
  <2> DEFINE to == [job[w] EXCEPT !.pc = "persist", !.cost = @ + Price[job[w].job], !.status = a.status,
                                  !.result = IF a.status = "succeeded" THEN a.result ELSE Void]
  <2>2. to.pc = "persist" /\ Go(w, to)
    BY <1>1, <2>1 DEF Doing
  <2> HIDE DEF to
  <2> QED BY <2>2
<1> QED BY <1>2, <1>4, <1>5, <1>6 DEF CallFails, PersistModelRun, Die

LEMMA CountWork == ASSUME BaseInv, BaseInv', CountInv, NEW w \in Worker, Work(w) PROVE CountInv'
<1>1. /\ spent \in Nat /\ unrecorded \in Nat /\ begun \in 0..MaxJob /\ changes \in 0..MaxChange
      /\ jobFaults \in 0..MaxJobFault /\ digests \in 0..MaxDigest
      /\ Len(memos) + Total(Writing, Worker) <= begun
  BY DEF CountInv
<1>2. /\ Total(Writing, Worker) \in Nat /\ memos \in Seq(Content) /\ Len(memos) \in Nat
  BY WritingIs DEF BaseInv
<1>3. job[w] \in Doing /\ Local(job[w], runs, memos) /\ job[w].cost \in Nat
  BY AtWork
<1>4. UNCHANGED <<changes, digests>>
  BY DEF Work, Keyless, BeginExtraction, BeginVerification, BeginDraft, BeginQuestion, CheckBudget,
         ParseQuestion, CallModel, CallFails, PersistModelRun, Die, BuildMemo, CompareMemo, InsertMemo, counts
<1>5. CASE \/ \E j \in Job \ {"memo"} : Keyless(w, j)
           \/ BeginExtraction(w) \/ BeginVerification(w) \/ BeginDraft(w) \/ BeginQuestion(w) \/ BuildMemo(w)
  <2>1. /\ begun < MaxJob /\ begun' = begun + 1 /\ job[w] = Free
        /\ UNCHANGED <<memos, spent, unrecorded, jobFaults>>
    BY <1>5 DEF Keyless, BeginExtraction, BeginVerification, BeginDraft, BeginQuestion, BuildMemo
  <2>2. UNCHANGED job \/ \E to : Go(w, to)
    BY <1>5 DEF Keyless, BeginExtraction, BeginVerification, BeginDraft, BeginQuestion, BuildMemo
  <2>3. Total(Writing', Worker) <= Total(Writing, Worker) + 1
    <3>1. CASE UNCHANGED job
      BY <1>2, <3>1, WritingStays
    <3>2. CASE ~UNCHANGED job
      <4>1. PICK to : Go(w, to)
        BY <2>2, <3>2
      <4>2. job[w].pc \notin {"compare", "insert"}
        BY <2>1, FreeIs
      <4>3. CASE to.pc \in {"compare", "insert"}
        BY <1>2, <4>1, <4>2, <4>3, WritingMoves
      <4>4. CASE to.pc \notin {"compare", "insert"}
        BY <1>2, <4>1, <4>2, <4>4, WritingMoves
      <4> QED BY <4>3, <4>4
    <3> QED BY <3>1, <3>2
  <2>4. BaseInv' => Total(Writing', Worker) \in Nat
    <3>1. Writing' \in [Worker -> Nat]
      BY DEF Writing
    <3> QED BY <3>1, Prices, TotalNat
  <2>5. Len(memos') + Total(Writing', Worker) <= begun'
    BY <1>1, <1>2, <2>1, <2>3, <2>4
  <2> QED BY <1>1, <1>4, <2>1, <2>5, Bounds DEF CountInv
<1>6. CASE CheckBudget(w) \/ ParseQuestion(w) \/ CallModel(w) \/ CallFails(w) \/ PersistModelRun(w) \/ Die(w)
  <2>1. UNCHANGED <<memos, begun>>
    BY <1>6 DEF CheckBudget, ParseQuestion, CallModel, CallFails, PersistModelRun, Die, counts
  <2>2. jobFaults' = jobFaults \/ (jobFaults < MaxJobFault /\ jobFaults' = jobFaults + 1)
    BY <1>6 DEF CheckBudget, ParseQuestion, CallModel, CallFails, PersistModelRun, Die, counts
  <2>3. spent' \in Nat /\ unrecorded' \in Nat
    <3>1. CASE CheckBudget(w) \/ PersistModelRun(w)
      BY <1>1, <3>1 DEF CheckBudget, PersistModelRun
    <3>2. CASE ParseQuestion(w)
      <4>1. Price["question"] \in Nat
        BY Prices DEF Job
      <4>2. \E c \in {0, Price["question"]} : spent' = spent + c /\ unrecorded' \in {unrecorded, unrecorded + c}
        BY <3>2 DEF ParseQuestion
      <4> QED BY <1>1, <4>1, <4>2
    <3>3. CASE CallModel(w) \/ CallFails(w)
      <4>1. Price[job[w].job] \in Nat
        BY <3>3, AtWork, Prices DEF CallModel, CallFails, Calling
      <4>2. \E c \in {0, Price[job[w].job]} : spent' = spent + c /\ unrecorded' \in {unrecorded, unrecorded + c}
        BY <3>3 DEF CallModel, CallFails
      <4> QED BY <1>1, <4>1, <4>2
    <3>4. CASE Die(w)
      <4>1. PICK charged \in {0} \cup (IF job[w].pc \in {"parse", "call"} THEN {Price[job[w].job]} ELSE {}) :
              spent' = spent + charged /\ unrecorded' = unrecorded + job[w].cost + charged
        BY <3>4 DEF Die
      <4>2. charged \in Nat
        BY <4>1, AtWork, Prices DEF Calling
      <4> QED BY <1>1, <1>3, <4>1, <4>2
    <3> QED BY <1>6, <3>1, <3>2, <3>3, <3>4
  <2>5. PICK to : Go(w, to) /\ to.pc \notin {"compare", "insert"}
    BY <1>6, CallsOn
  <2>6. Total(Writing', Worker) <= Total(Writing, Worker) /\ Total(Writing', Worker) \in Nat
    <3>1. Writing' \in [Worker -> Nat]
      BY DEF Writing
    <3>2. CASE job[w].pc \in {"compare", "insert"}
      BY <1>2, <2>5, <3>2, WritingMoves, <3>1, Prices, TotalNat
    <3>3. CASE job[w].pc \notin {"compare", "insert"}
      BY <1>2, <2>5, <3>3, WritingMoves
    <3> QED BY <3>2, <3>3
  <2>7. jobFaults' \in 0..MaxJobFault
    BY <1>1, <2>2, Bounds
  <2>8. Len(memos') + Total(Writing', Worker) <= begun'
    BY <1>1, <1>2, <2>1, <2>6
  <2> QED BY <1>1, <1>4, <2>1, <2>3, <2>7, <2>8 DEF CountInv
<1>7. CASE CompareMemo(w) \/ InsertMemo(w)
  <2>1. UNCHANGED <<spent, unrecorded, begun, changes, jobFaults, digests>>
    BY <1>7 DEF CompareMemo, InsertMemo, counts
  <2>2. Free.pc \notin {"compare", "insert"}
    BY FreeIs
  <2>3. Writing' \in [Worker -> Nat]
    BY DEF Writing
  <2>4. Total(Writing', Worker) \in Nat
    BY <2>3, Prices, TotalNat
  <2>5. CASE CompareMemo(w)
    <3> DEFINE to == [job[w] EXCEPT !.pc = "insert", !.prior = Len(memos)]
    <3>1. (Go(w, Free) \/ Go(w, to)) /\ job[w].pc = "compare" /\ UNCHANGED memos
      BY <2>5 DEF CompareMemo
    <3>2. Total(Writing', Worker) <= Total(Writing, Worker)
      <4>1. CASE Go(w, Free)
        BY <1>2, <2>2, <3>1, <4>1, WritingMoves
      <4>2. CASE Go(w, to)
        <5>1. to.pc = "insert"
          BY <1>3 DEF Doing
        <5> HIDE DEF to
        <5> QED BY <1>2, <3>1, <4>2, <5>1, WritingMoves
      <4> QED BY <3>1, <4>1, <4>2
    <3> QED BY <1>1, <1>2, <2>1, <2>4, <3>1, <3>2 DEF CountInv
  <2>6. CASE InsertMemo(w)
    <3>1. Go(w, Free) /\ job[w].pc = "insert" /\ Len(memos') <= Len(memos) + 1
      BY <1>2, <2>6 DEF InsertMemo
    <3>2. Total(Writing', Worker) = Total(Writing, Worker) - 1
      BY <1>2, <2>2, <3>1, WritingMoves
    <3>3. Len(memos') \in Nat
      BY DEF BaseInv
    <3> QED BY <1>1, <1>2, <2>1, <2>4, <3>1, <3>2, <3>3 DEF CountInv
  <2> QED BY <1>7, <2>5, <2>6
<1> QED BY <1>5, <1>6, <1>7 DEF Work

LEMMA CountNext == BaseInv /\ BaseInv' /\ CountInv /\ [JobsNext]_jobsVars => CountInv'
<1> SUFFICES ASSUME BaseInv, BaseInv', CountInv, [JobsNext]_jobsVars PROVE CountInv'
  OBVIOUS
<1>1. ASSUME UNCHANGED <<memos, job, spent, unrecorded, begun, jobFaults>>,
             changes' \in 0..MaxChange, digests' \in 0..MaxDigest
      PROVE  CountInv'
  BY <1>1, WritingStays DEF CountInv
<1>2. changes \in 0..MaxChange /\ digests \in 0..MaxDigest
  BY DEF CountInv
<1>3. CASE UNCHANGED jobsVars
  BY <1>1, <1>2, <1>3 DEF jobsVars
<1>4. CASE EvaluateGate
  <2>1. UNCHANGED <<memos, job, spent, unrecorded, begun, jobFaults, changes>>
        /\ (digests' = digests \/ (digests < MaxDigest /\ digests' = digests + 1))
    BY <1>4 DEF EvaluateGate, BeginCandidate, ReadPlain, ReadExtraction, ReadFacts, ReadVerifierExtraction,
                ReadVerification, GateRefuses, ReadItem, IncludeItem, Looks, counts
  <2> QED BY <1>1, <1>2, <2>1, Bounds
<1>5. ASSUME NEW e \in Evidence, Reresolve(e) PROVE CountInv'
  BY <1>1, <1>2, <1>5, Bounds DEF Reresolve
<1>6. ASSUME NEW c \in Changing, Change(c) PROVE CountInv'
  BY <1>1, <1>2, <1>6, Bounds DEF Change
<1> QED BY <1>3, <1>4, <1>5, <1>6, CountWork DEF JobsNext

\* The ledger and the jobs in flight account for what was charged, and the month together with
\* the estimates of all who were let through stays within the cap and what the others may add.
THEOREM SpendInvariant == JobsSpec => [](CountInv /\ SpendInv)
<1>1. JobsInit => BaseInv /\ CountInv /\ SpendInv
  BY BaseInit, CountInit, SpendInit
<1>2. BaseInv /\ CountInv /\ SpendInv /\ [JobsNext]_jobsVars => (BaseInv /\ CountInv /\ SpendInv)'
  BY BaseNext, CountNext, SpendNext
<1> QED BY <1>1, <1>2, PTL DEF JobsSpec

--------------------------------------------------------------------------------
(* The versions of the memo.                                                      *)

LEMMA VersionsNext == BaseInv /\ VersionsTellApart /\ [JobsNext]_jobsVars => VersionsTellApart'
<1> SUFFICES ASSUME BaseInv, VersionsTellApart, [JobsNext]_jobsVars PROVE VersionsTellApart'
  OBVIOUS
<1>1. CASE UNCHANGED memos
  BY <1>1 DEF VersionsTellApart
<1>2. CASE ~UNCHANGED memos
  <2>1. PICK w \in Worker : InsertMemo(w)
    <3>1. ~UNCHANGED jobsVars /\ ~EvaluateGate /\ (\A e \in Evidence : ~Reresolve(e)) /\ (\A c \in Changing : ~Change(c))
      BY <1>2, GateLooks DEF jobsVars, Reresolve, Change
    <3>2. PICK w \in Worker : Work(w)
      BY <3>1 DEF JobsNext
    <3>3. InsertMemo(w)
      BY <1>2, <3>2 DEF Work, Keyless, BeginExtraction, BeginVerification, BeginDraft, BeginQuestion, CheckBudget,
         ParseQuestion, CallModel, CallFails, PersistModelRun, Die, BuildMemo, CompareMemo
    <3> QED BY <3>3
  <2>2. /\ Local(job[w], runs, memos) /\ job[w] \in Doing /\ job[w].pc = "insert" /\ memos \in Seq(Content)
    BY <2>1, AtWork DEF InsertMemo, BaseInv
  <2>3. /\ job[w].prior \in Nat /\ job[w].prior <= Len(memos) /\ job[w].result \in Content
        /\ job[w].prior > 0 => memos[job[w].prior] # job[w].result
    BY <2>2 DEF Local, Doing
  <2>4. memos' = Append(memos, job[w].result) /\ ~(job[w].prior + 1 <= Len(memos))
    BY <1>2, <2>1 DEF InsertMemo, VersionTaken
  <2>5. job[w].prior = Len(memos) /\ Len(memos) \in Nat
    BY <2>2, <2>3, <2>4
  <2>6. ASSUME NEW i \in 2..Len(memos') PROVE memos'[i] # memos'[i - 1]
    <3>1. Len(memos') = Len(memos) + 1
      BY <2>2, <2>3, <2>4
    <3>2. CASE i = Len(memos) + 1
      <4>1. memos'[i] = job[w].result /\ memos'[i - 1] = memos[Len(memos)] /\ Len(memos) > 0
        BY <2>2, <2>3, <2>4, <2>5, <2>6, <3>2
      <4> QED BY <2>3, <2>5, <4>1
    <3>3. CASE i # Len(memos) + 1
      <4>1. i \in 2..Len(memos) /\ i - 1 \in 1..Len(memos) /\ i \in 1..Len(memos)
        BY <2>5, <2>6, <3>1, <3>3
      <4>2. memos'[i] = memos[i] /\ memos'[i - 1] = memos[i - 1]
        BY <2>2, <2>3, <2>4, <4>1
      <4> QED BY <4>1, <4>2 DEF VersionsTellApart
    <3> QED BY <3>2, <3>3
  <2> QED BY <2>6 DEF VersionsTellApart
<1> QED BY <1>1, <1>2

--------------------------------------------------------------------------------
(* What the digest has read of its candidate.                                     *)

Found   == Seq(Nat)
Reading == [at : 0..14, fails : BOOLEAN, blocked : BOOLEAN, risky : BOOLEAN, x : Found, v : Found]

\* What was read as the latest extraction, or verification, still is one.
IsX(x, rs) == x = 0 \/ Extracted(x, rs)
IsV(v, rs) == v = 0 \/ Judged(v, rs)

\* The gate's look at the facts of an extraction, and at a verification.
FactsPass(x, rs) ==
    x # 0 => rs[x].result.labeled /\ \A f \in rs[x].result.facts : Grade[f] # "D"
Supports(v, rs) ==
    v # 0 /\ rs[v].status = "succeeded" /\ \A d \in rs[v].result : d[2]

GateInv(d, rs) ==
    /\ d \in Reading
    /\ \A i \in 1..Len(d.x) : IsX(d.x[i], rs)
    /\ \A i \in 1..Len(d.v) : IsV(d.v[i], rs)
    /\ d.at \in 0..2 => Len(d.x) = 0
    /\ d.at \in 3..10 => Len(d.x) = 1
    /\ d.at \in 11..12 => Len(d.x) = 2
    /\ d.at \in 0..11 => Len(d.v) = 0 /\ ~d.blocked
    /\ d.at = 11 => d.x[2] # 0
    /\ d.at \in 8..14 /\ ~d.fails => FactsPass(d.x[1], rs)
    /\ d.at = 12 /\ ~d.blocked => Len(d.v) = 1
    /\ d.at \in 12..14 /\ ~d.blocked /\ ~d.fails =>
         d.x[2] # 0 /\ Len(d.v) \in {1, 2} /\ Supports(d.v[1], rs)
    /\ d.at \in 13..14 => ~d.blocked /\ ~d.fails
    /\ d.at = 13 => (Len(d.x) = 3 /\ Len(d.v) = 1) \/ (Len(d.x) = 2 /\ Len(d.v) = 2)
    /\ d.at = 14 => Len(d.x) = 3 /\ Len(d.v) = 2

\* What is shown passed the gate.
ShownGood(s, rs) ==
    /\ s.x \in Seq(Nat) /\ s.v \in Seq(Nat) /\ Len(s.x) = 3 /\ Len(s.v) = 2
    /\ \A i \in 1..3 : IsX(s.x[i], rs)
    /\ \A i \in 1..2 : IsV(s.v[i], rs)
    /\ s.x[2] # 0 /\ FactsPass(s.x[1], rs) /\ Supports(s.v[1], rs)
    /\ s.by \/ (s.x[3] # 0 /\ rs[s.x[3]].result.clear)

DigestInv ==
    /\ GateInv(digest, runs)
    /\ \A s \in shown : ShownGood(s, runs)

LEMMA ReadsAre ==
    /\ Len(Reads) = 13 /\ DOMAIN Reads = 1..13
    /\ Reads[1] \in PlainCheck /\ Reads[2] = "extraction" /\ Reads[7] = "facts_evidenced"
    /\ \A i \in {1, 3, 4, 5, 6, 8, 9} : Reads[i] \in PlainCheck
    /\ Reads[10] = "verifier_extraction" /\ Reads[11] = "verification"
    /\ Reads[12] = "item" /\ Reads[13] = "item"
BY DEF Reads, PlainCheck

\* Where a read is.
LEMMA AtReads ==
    ASSUME digest \in Reading
    PROVE  /\ \A c \in PlainCheck : AtRead(c) => digest.at \in {1, 3, 4, 5, 6, 8, 9}
           /\ AtRead("extraction") => digest.at = 2
           /\ AtRead("facts_evidenced") => digest.at = 7
           /\ AtRead("verifier_extraction") => digest.at = 10
           /\ AtRead("verification") => digest.at = 11
           /\ AtRead("item") => digest.at \in {12, 13}
<1>1. \A i \in 1..13 : i \in {1, 3, 4, 5, 6, 8, 9} \/ i = 2 \/ i = 7 \/ i = 10 \/ i = 11 \/ i \in {12, 13}
  OBVIOUS
<1>2. \A c \in PlainCheck : c \notin {"extraction", "facts_evidenced", "verifier_extraction", "verification", "item"}
  BY DEF PlainCheck
<1> QED BY <1>1, <1>2, ReadsAre DEF AtRead

LEMMA IsXStays == ASSUME NEW rs, NEW more, Grown(rs, more), NEW x, IsX(x, rs)
                  PROVE  IsX(x, more) /\ (x # 0 => more[x] = rs[x])
BY ExtractedStays DEF IsX

LEMMA IsVStays == ASSUME NEW rs, NEW more, Grown(rs, more), NEW v, IsV(v, rs)
                  PROVE  IsV(v, more) /\ (v # 0 => more[v] = rs[v])
<1>1. Judged(v, rs) => v \in 1..Len(more) /\ more[v] = rs[v]
  BY DEF Judged, Grown
<1> QED BY <1>1 DEF IsV, Judged

LEMMA GateLengths ==
    ASSUME NEW rs, NEW d, GateInv(d, rs)
    PROVE  /\ d.at \in 8..14 => 1 \in 1..Len(d.x)
           /\ d.at \in 11..14 => 2 \in 1..Len(d.x)
           /\ Len(d.x) \in Nat /\ Len(d.v) \in Nat
<1>1. /\ d.at \in 3..10 => Len(d.x) = 1
      /\ d.at \in 11..12 => Len(d.x) = 2
      /\ d.at = 13 => Len(d.x) = 3 \/ Len(d.x) = 2
      /\ d.at = 14 => Len(d.x) = 3
  BY DEF GateInv
<1>2. d.x \in Seq(Nat) /\ d.v \in Seq(Nat) /\ d.at \in 0..14
  BY DEF GateInv, Reading, Found
<1>3. d.at \in 8..14 => d.at \in 3..10 \/ d.at \in 11..12 \/ d.at = 13 \/ d.at = 14
  BY <1>2
<1>4. d.at \in 11..14 => d.at \in 11..12 \/ d.at = 13 \/ d.at = 14
  BY <1>2
<1>5. Len(d.x) \in Nat /\ Len(d.v) \in Nat
  BY <1>2
<1>6. (d.at \in 8..14 => Len(d.x) \in {1, 2, 3}) /\ (d.at \in 11..14 => Len(d.x) \in {2, 3})
  BY <1>1, <1>3, <1>4
<1>7. (\A n \in {1, 2, 3} : 1 \in 1..n) /\ (\A n \in {2, 3} : 2 \in 1..n)
  OBVIOUS
<1> QED BY <1>5, <1>6, <1>7

LEMMA GateStays ==
    ASSUME NEW rs, NEW more, Grown(rs, more), NEW d, GateInv(d, rs) PROVE GateInv(d, more)
<1>1. d.x \in Seq(Nat) /\ d.v \in Seq(Nat) /\ d.at \in 0..14
  BY DEF GateInv, Reading, Found
<1>2. /\ \A i \in 1..Len(d.x) : IsX(d.x[i], more) /\ (d.x[i] # 0 => more[d.x[i]] = rs[d.x[i]])
      /\ \A i \in 1..Len(d.v) : IsV(d.v[i], more) /\ (d.v[i] # 0 => more[d.v[i]] = rs[d.v[i]])
  BY IsXStays, IsVStays DEF GateInv
<1>3. d.at \in 8..14 => 1 \in 1..Len(d.x)
  BY <1>1, GateLengths
<1>4. d.at \in 8..14 /\ ~d.fails => FactsPass(d.x[1], more)
  BY <1>2, <1>3 DEF GateInv, FactsPass
<1>5. d.at \in 12..14 /\ ~d.blocked /\ ~d.fails =>
         d.x[2] # 0 /\ Len(d.v) \in {1, 2} /\ Supports(d.v[1], more)
  <2> SUFFICES ASSUME d.at \in 12..14, ~d.blocked, ~d.fails
               PROVE  d.x[2] # 0 /\ Len(d.v) \in {1, 2} /\ Supports(d.v[1], more)
    OBVIOUS
  <2>1. d.x[2] # 0 /\ Len(d.v) \in {1, 2} /\ Supports(d.v[1], rs)
    BY DEF GateInv
  <2>2. 1 \in 1..Len(d.v)
    BY <2>1
  <2>3. more[d.v[1]] = rs[d.v[1]]
    BY <1>2, <2>1, <2>2 DEF Supports
  <2> QED BY <2>1, <2>3 DEF Supports
<1> QED BY <1>2, <1>4, <1>5 DEF GateInv

LEMMA ShownStays ==
    ASSUME NEW rs, NEW more, Grown(rs, more), NEW s, ShownGood(s, rs) PROVE ShownGood(s, more)
<1>1. /\ \A i \in 1..3 : IsX(s.x[i], more) /\ (s.x[i] # 0 => more[s.x[i]] = rs[s.x[i]])
      /\ \A i \in 1..2 : IsV(s.v[i], more) /\ (s.v[i] # 0 => more[s.v[i]] = rs[s.v[i]])
  BY IsXStays, IsVStays DEF ShownGood
<1>2. FactsPass(s.x[1], more)
  BY <1>1 DEF ShownGood, FactsPass
<1>3. Supports(s.v[1], more)
  BY <1>1 DEF ShownGood, Supports
<1>4. s.by \/ (s.x[3] # 0 /\ more[s.x[3]].result.clear)
  BY <1>1 DEF ShownGood
<1> QED BY <1>1, <1>2, <1>3, <1>4 DEF ShownGood

LEMMA OffIs == \A rs : GateInv(Off, rs)
<1>1. Off \in Reading /\ Off.at = 0 /\ Len(Off.x) = 0 /\ Len(Off.v) = 0 /\ Off.blocked = FALSE
  BY DEF Off, Reading, Found
<1> QED BY <1>1 DEF GateInv

LEMMA DigestInit == JobsInit => DigestInv
BY OffIs DEF JobsInit, DigestInv

LEMMA DigestMove == ASSUME DigestInv, UNCHANGED <<runs, shown>>, GateInv(digest', runs) PROVE DigestInv'
BY DEF DigestInv

\* A read sets some fields and keeps the others.
LEMMA ReadSets ==
    ASSUME NEW At, NEW B, NEW F,
           NEW d \in [at : At, fails : B, blocked : B, risky : B, x : F, v : F],
           NEW at \in At, NEW fails \in B, NEW blocked \in B, NEW risky \in B, NEW x \in F, NEW v \in F
    PROVE  LET R == [at : At, fails : B, blocked : B, risky : B, x : F, v : F]
               b == [d EXCEPT !.at = at, !.risky = risky]
               p == [d EXCEPT !.at = at, !.fails = fails]
               e == [d EXCEPT !.at = at, !.x = x]
               o == [d EXCEPT !.at = at, !.blocked = blocked, !.x = x]
               j == [d EXCEPT !.at = at, !.v = v, !.blocked = blocked, !.fails = fails]
               i == [d EXCEPT !.at = at, !.v = v]
           IN  /\ b \in R /\ b.at = at /\ b.fails = d.fails /\ b.blocked = d.blocked /\ b.x = d.x /\ b.v = d.v
               /\ p \in R /\ p.at = at /\ p.fails = fails /\ p.blocked = d.blocked /\ p.x = d.x /\ p.v = d.v
               /\ e \in R /\ e.at = at /\ e.fails = d.fails /\ e.blocked = d.blocked /\ e.x = x /\ e.v = d.v
               /\ o \in R /\ o.at = at /\ o.fails = d.fails /\ o.blocked = blocked /\ o.x = x /\ o.v = d.v
               /\ j \in R /\ j.at = at /\ j.fails = fails /\ j.blocked = blocked /\ j.x = d.x /\ j.v = v
               /\ i \in R /\ i.at = at /\ i.fails = d.fails /\ i.blocked = d.blocked /\ i.x = d.x /\ i.v = v
OBVIOUS

LEMMA Appends ==
    ASSUME NEW s \in Seq(Nat), NEW x \in Nat
    PROVE  /\ Append(s, x) \in Seq(Nat) /\ Len(Append(s, x)) = Len(s) + 1 /\ Append(s, x)[Len(s) + 1] = x
           /\ \A i \in 1..Len(s) : Append(s, x)[i] = s[i]
OBVIOUS

LEMMA BeginCandidateGate == ASSUME DigestInv, BeginCandidate PROVE DigestInv'
<1> DEFINE risky == "low_risk" \in failing
           d == [Off EXCEPT !.at = 1, !.risky = risky]
<1>1. digest' = d /\ UNCHANGED <<runs, shown>>
  BY DEF BeginCandidate
<1>2. Off \in Reading /\ Off.x = <<>> /\ Off.v = <<>> /\ Off.blocked = FALSE
  BY DEF Off, Reading, Found
<1> HIDE DEF risky
<1>3. risky \in BOOLEAN
  BY DEF risky
<1>4. d \in Reading /\ d.at = 1 /\ d.x = <<>> /\ d.v = <<>> /\ d.blocked = FALSE
  BY <1>2, <1>3, 1 \in 0..14, ReadSets, Zenon DEF Reading
<1> HIDE DEF d
<1>5. GateInv(d, runs)
  BY <1>4 DEF GateInv
<1> QED BY <1>1, <1>5, DigestMove

LEMMA ReadPlainGate == ASSUME DigestInv, ReadPlain PROVE DigestInv'
<1>1. PICK c \in PlainCheck :
         AtRead(c) /\ digest' = [digest EXCEPT !.at = @ + 1, !.fails = @ \/ c \in failing]
  BY DEF ReadPlain
<1>2. UNCHANGED <<runs, shown>> /\ digest \in Reading /\ GateInv(digest, runs)
  BY DEF ReadPlain, Looks, DigestInv, GateInv
<1>3. digest.at \in {1, 3, 4, 5, 6, 8, 9}
  BY <1>1, <1>2, AtReads
<1> DEFINE fails == digest.fails \/ c \in failing
           d == [digest EXCEPT !.at = digest.at + 1, !.fails = fails]
<1>4. digest' = d
  BY <1>1
<1>5. fails \in BOOLEAN /\ (~fails => ~digest.fails)
  BY <1>2 DEF Reading
<1> HIDE DEF fails
<1>6. /\ d \in Reading /\ d.at = digest.at + 1 /\ d.x = digest.x /\ d.v = digest.v
      /\ d.blocked = digest.blocked /\ d.fails = fails
  <2>1. digest.at + 1 \in 0..14
    BY <1>3
  <2> QED BY <1>2, <1>5, <2>1, ReadSets, Zenon DEF Reading
<1> HIDE DEF d
<1>7. GateInv(d, runs)
  BY <1>2, <1>3, <1>5, <1>6 DEF GateInv
<1> QED BY <1>2, <1>4, <1>7, DigestMove

LEMMA ReadExtractionGate == ASSUME BaseInv, DigestInv, ReadExtraction PROVE DigestInv'
<1>1. PICK x : x = LatestExtraction
  OBVIOUS
<1>2. x \in Nat /\ IsX(x, runs)
  BY <1>1, LatestIs DEF IsX
<1>3. UNCHANGED <<runs, shown>> /\ digest \in Reading /\ GateInv(digest, runs) /\ digest.at = 2
  BY AtReads DEF ReadExtraction, Looks, DigestInv, GateInv
<1> DEFINE xs == <<x>>
           d == [digest EXCEPT !.at = digest.at + 1, !.x = xs]
<1>4. digest' = d
  BY <1>1 DEF ReadExtraction
<1>5. xs \in Found
  BY <1>2 DEF Found
<1> HIDE DEF xs
<1>6. /\ d \in Reading /\ d.at = 3 /\ d.x = xs /\ d.v = digest.v
      /\ d.blocked = digest.blocked /\ d.fails = digest.fails
  <2>1. digest.at + 1 \in 0..14 /\ digest.at + 1 = 3
    BY <1>3
  <2> QED BY <1>3, <1>5, <2>1, ReadSets, Zenon DEF Reading
<1> HIDE DEF d
<1> USE DEF xs
<1>7. GateInv(d, runs)
  BY <1>2, <1>3, <1>6 DEF GateInv
<1> QED BY <1>3, <1>4, <1>7, DigestMove

LEMMA ReadFactsGate == ASSUME BaseInv, DigestInv, ReadFacts PROVE DigestInv'
<1>1. PICK x : x = digest.x[1]
  OBVIOUS
<1> DEFINE bad == ~FactsEvidenced(x) \/ (x # 0 /\ ~runs[x].result.labeled)
           fails == digest.fails \/ bad
           d == [digest EXCEPT !.at = digest.at + 1, !.fails = fails]
<1>2. UNCHANGED <<runs, shown>> /\ digest \in Reading /\ GateInv(digest, runs) /\ digest.at = 7
  BY AtReads DEF ReadFacts, Looks, DigestInv, GateInv
<1>3. digest' = d
  BY <1>1 DEF ReadFacts
<1>4. ~bad => FactsPass(x, runs)
  BY DEF FactsPass, FactsEvidenced, FactsOf
<1>5. fails \in BOOLEAN /\ (~fails => ~digest.fails /\ FactsPass(x, runs))
  BY <1>2, <1>4 DEF Reading
<1> HIDE DEF fails, bad
<1>6. /\ d \in Reading /\ d.at = 8 /\ d.x = digest.x /\ d.v = digest.v
      /\ d.blocked = digest.blocked /\ d.fails = fails
  <2>1. digest.at + 1 \in 0..14 /\ digest.at + 1 = 8
    BY <1>2
  <2> QED BY <1>2, <1>5, <2>1, ReadSets, Zenon DEF Reading
<1> HIDE DEF d
<1>7. GateInv(d, runs)
  BY <1>1, <1>2, <1>5, <1>6 DEF GateInv
<1> QED BY <1>2, <1>3, <1>7, DigestMove

LEMMA ReadVerifierExtractionGate == ASSUME BaseInv, DigestInv, ReadVerifierExtraction PROVE DigestInv'
<1>1. PICK x : x = LatestExtraction
  OBVIOUS
<1>2. x \in Nat /\ IsX(x, runs)
  BY <1>1, LatestIs DEF IsX
<1>3. UNCHANGED <<runs, shown>> /\ digest \in Reading /\ GateInv(digest, runs) /\ digest.at = 10
  BY AtReads DEF ReadVerifierExtraction, Looks, DigestInv, GateInv
<1> DEFINE at == IF x = 0 THEN 12 ELSE 11
           none == x = 0
           xs == Append(digest.x, x)
           d == [digest EXCEPT !.at = at, !.blocked = none, !.x = xs]
<1>4. digest' = d
  BY <1>1, <1>3 DEF ReadVerifierExtraction
<1>5. digest.x \in Seq(Nat) /\ Len(digest.x) = 1 /\ IsX(digest.x[1], runs) /\ digest.v \in Seq(Nat) /\ Len(digest.v) = 0
      /\ (~digest.fails => FactsPass(digest.x[1], runs))
  BY <1>3 DEF Reading, Found, GateInv
<1>6. xs \in Found /\ Len(xs) = 2 /\ xs[1] = digest.x[1] /\ xs[2] = x
  <2>1. xs \in Seq(Nat) /\ Len(xs) = Len(digest.x) + 1 /\ xs[Len(digest.x) + 1] = x
        /\ \A i \in 1..Len(digest.x) : xs[i] = digest.x[i]
    BY <1>2, <1>5, Appends
  <2> HIDE DEF xs
  <2>2. 1 \in 1..Len(digest.x) /\ Len(digest.x) + 1 = 2
    BY <1>5
  <2> QED BY <2>1, <2>2 DEF Found
<1>7. none \in BOOLEAN /\ at \in 11..12 /\ (at = 11 <=> x # 0) /\ (none <=> x = 0)
  OBVIOUS
<1> HIDE DEF at, none, xs
<1>8. /\ d \in Reading /\ d.at = at /\ d.x = xs /\ d.v = digest.v
      /\ d.blocked = none /\ d.fails = digest.fails
  <2>1. at \in 0..14
    BY <1>7
  <2> QED BY <1>3, <1>6, <1>7, <2>1, ReadSets, Zenon DEF Reading
<1> HIDE DEF d
<1>9. \A i \in 1..Len(d.x) : IsX(d.x[i], runs)
  <2>1. Len(d.x) = 2 /\ IsX(d.x[1], runs) /\ IsX(d.x[2], runs)
    BY <1>2, <1>5, <1>6, <1>8
  <2>2. \A i \in 1..2 : i = 1 \/ i = 2
    OBVIOUS
  <2> QED BY <2>1, <2>2
<1>10. GateInv(d, runs)
  BY <1>5, <1>6, <1>7, <1>8, <1>9 DEF GateInv
<1> QED BY <1>3, <1>4, <1>10, DigestMove

LEMMA ReadVerificationGate == ASSUME BaseInv, DigestInv, ReadVerification PROVE DigestInv'
<1>1. PICK v : v = LatestVerification
  OBVIOUS
<1>2. v \in Nat /\ IsV(v, runs)
  BY <1>1, LatestIs DEF IsV
<1>3. UNCHANGED <<runs, shown>> /\ digest \in Reading /\ GateInv(digest, runs) /\ digest.at = 11
  BY AtReads DEF ReadVerification, Looks, DigestInv, GateInv
<1> DEFINE none == v = 0 \/ runs[v].status = "blocked"
           bad == ~none /\ (runs[v].status # "succeeded" \/ Unsupported(v))
           fails == digest.fails \/ bad
           vs == <<v>>
           d == [digest EXCEPT !.at = digest.at + 1, !.v = vs, !.blocked = none, !.fails = fails]
<1>4. digest' = d
  BY <1>1 DEF ReadVerification
<1>5. none \in BOOLEAN /\ fails \in BOOLEAN
      /\ (~fails => ~digest.fails) /\ (~fails /\ ~none => Supports(v, runs))
  BY <1>3 DEF Reading, Supports, Unsupported
<1>6. digest.x \in Seq(Nat) /\ Len(digest.x) = 2 /\ digest.x[2] # 0
      /\ (~digest.fails => FactsPass(digest.x[1], runs))
      /\ \A i \in 1..Len(digest.x) : IsX(digest.x[i], runs)
  BY <1>3 DEF Reading, Found, GateInv
<1> HIDE DEF none, bad, fails
<1>7. vs \in Found
  BY <1>2 DEF Found
<1> HIDE DEF vs
<1>8. /\ d \in Reading /\ d.at = 12 /\ d.x = digest.x /\ d.v = vs
      /\ d.blocked = none /\ d.fails = fails
  <2>1. digest.at + 1 \in 0..14 /\ digest.at + 1 = 12
    BY <1>3
  <2> QED BY <1>3, <1>5, <1>7, <2>1, ReadSets, Zenon DEF Reading
<1> HIDE DEF d
<1> USE DEF vs
<1>9. GateInv(d, runs)
  BY <1>2, <1>5, <1>6, <1>8 DEF GateInv
<1> QED BY <1>3, <1>4, <1>9, DigestMove

LEMMA GateRefusesGate == ASSUME DigestInv, GateRefuses PROVE DigestInv'
BY OffIs, DigestMove DEF GateRefuses, Looks

\* A candidate that passed keeps what it passed on.
LEMMA PassedGate ==
    ASSUME NEW rs, NEW d \in Reading, d.at \in {13, 14}, ~d.fails, ~d.blocked,
           \A i \in 1..Len(d.x) : IsX(d.x[i], rs), \A i \in 1..Len(d.v) : IsV(d.v[i], rs),
           FactsPass(d.x[1], rs), Supports(d.v[1], rs), d.x[2] # 0,
           d.at = 13 => (Len(d.x) = 3 /\ Len(d.v) = 1) \/ (Len(d.x) = 2 /\ Len(d.v) = 2),
           d.at = 14 => Len(d.x) = 3 /\ Len(d.v) = 2
    PROVE  GateInv(d, rs)
<1>1. d.at \notin 0..12 /\ Len(d.v) \in {1, 2}
  OBVIOUS
<1>2. d.at \notin 0..2 /\ d.at \notin 3..10 /\ d.at \notin 11..12 /\ d.at \notin 0..11 /\ d.at # 11 /\ d.at # 12
  BY <1>1
<1> QED BY <1>1, <1>2 DEF GateInv

LEMMA ReadItemGate == ASSUME BaseInv, DigestInv, ReadItem PROVE DigestInv'
<1>1. /\ UNCHANGED <<runs, shown>> /\ digest \in Reading /\ GateInv(digest, runs) /\ digest.at \in {12, 13}
      /\ ~digest.fails /\ ~digest.blocked
  BY AtReads DEF ReadItem, Passed, Looks, DigestInv, GateInv
<1>2. /\ digest.x \in Seq(Nat) /\ digest.v \in Seq(Nat) /\ digest.x[2] # 0
      /\ \A i \in 1..Len(digest.x) : IsX(digest.x[i], runs)
      /\ \A i \in 1..Len(digest.v) : IsV(digest.v[i], runs)
      /\ FactsPass(digest.x[1], runs) /\ Supports(digest.v[1], runs)
  BY <1>1 DEF Reading, Found, GateInv
<1>3. /\ digest.at = 12 => Len(digest.x) = 2 /\ Len(digest.v) = 1
      /\ digest.at = 13 => (Len(digest.x) = 3 /\ Len(digest.v) = 1) \/ (Len(digest.x) = 2 /\ Len(digest.v) = 2)
  BY <1>1 DEF GateInv
<1>4. digest.at + 1 \in 0..14 /\ digest.at + 1 \in {13, 14}
  BY <1>1
<1>5. CASE /\ Len(digest.x) = 2
           /\ digest' = [digest EXCEPT !.at = @ + 1, !.x = Append(@, LatestExtraction)]
  <2>1. PICK x : x = LatestExtraction
    OBVIOUS
  <2>2. x \in Nat /\ IsX(x, runs)
    BY <2>1, LatestIs DEF IsX
  <2> DEFINE xs == Append(digest.x, x)
             d == [digest EXCEPT !.at = digest.at + 1, !.x = xs]
  <2>3. digest' = d
    BY <1>5, <2>1
  <2>4. /\ xs \in Seq(Nat) /\ Len(xs) = Len(digest.x) + 1 /\ xs[Len(digest.x) + 1] = x
        /\ \A i \in 1..Len(digest.x) : xs[i] = digest.x[i]
    BY <1>2, <2>2, Appends
  <2> HIDE DEF xs
  <2>5. xs \in Found /\ Len(xs) = 3 /\ xs[1] = digest.x[1] /\ xs[2] = digest.x[2] /\ xs[3] = x
    <3>1. 1 \in 1..Len(digest.x) /\ 2 \in 1..Len(digest.x) /\ Len(digest.x) + 1 = 3
      BY <1>5
    <3> QED BY <2>4, <3>1 DEF Found
  <2>6. /\ d \in Reading /\ d.at = digest.at + 1 /\ d.x = xs /\ d.v = digest.v
        /\ d.blocked = digest.blocked /\ d.fails = digest.fails
    BY <1>1, <1>4, <2>5, ReadSets, Zenon DEF Reading
  <2> HIDE DEF d
  <2>7. \A i \in 1..Len(d.x) : IsX(d.x[i], runs)
    <3>1. \A i \in 1..3 : i = 1 \/ i = 2 \/ i = 3
      OBVIOUS
    <3>2. 1 \in 1..Len(digest.x) /\ 2 \in 1..Len(digest.x)
      BY <1>5
    <3>3. IsX(xs[1], runs) /\ IsX(xs[2], runs) /\ IsX(xs[3], runs)
      BY <1>2, <2>2, <2>5, <3>2
    <3> QED BY <2>5, <2>6, <3>1, <3>3
  <2>8. /\ d.at = 13 => Len(d.x) = 3 /\ Len(d.v) = 1
        /\ d.at = 14 => Len(d.x) = 3 /\ Len(d.v) = 2
    BY <1>1, <1>3, <1>5, <2>5, <2>6
  <2>9. /\ \A i \in 1..Len(d.v) : IsV(d.v[i], runs)
        /\ ~d.fails /\ ~d.blocked /\ d.at \in {13, 14}
        /\ FactsPass(d.x[1], runs) /\ Supports(d.v[1], runs) /\ d.x[2] # 0
    BY <1>1, <1>2, <1>4, <2>5, <2>6
  <2>10. GateInv(d, runs)
    BY <2>6, <2>7, <2>8, <2>9, PassedGate
  <2> QED BY <1>1, <2>3, <2>10, DigestMove
<1>6. CASE /\ Len(digest.v) = 1
           /\ digest' = [digest EXCEPT !.at = @ + 1, !.v = Append(@, LatestVerification)]
  <2>1. PICK v : v = LatestVerification
    OBVIOUS
  <2>2. v \in Nat /\ IsV(v, runs)
    BY <2>1, LatestIs DEF IsV
  <2> DEFINE vs == Append(digest.v, v)
             d == [digest EXCEPT !.at = digest.at + 1, !.v = vs]
  <2>3. digest' = d
    BY <1>6, <2>1
  <2>4. /\ vs \in Seq(Nat) /\ Len(vs) = Len(digest.v) + 1 /\ vs[Len(digest.v) + 1] = v
        /\ \A i \in 1..Len(digest.v) : vs[i] = digest.v[i]
    BY <1>2, <2>2, Appends
  <2> HIDE DEF vs
  <2>5. vs \in Found /\ Len(vs) = 2 /\ vs[1] = digest.v[1] /\ vs[2] = v
    <3>1. 1 \in 1..Len(digest.v) /\ Len(digest.v) + 1 = 2
      BY <1>6
    <3> QED BY <2>4, <3>1 DEF Found
  <2>6. /\ d \in Reading /\ d.at = digest.at + 1 /\ d.x = digest.x /\ d.v = vs
        /\ d.blocked = digest.blocked /\ d.fails = digest.fails
    BY <1>1, <1>4, <2>5, ReadSets, Zenon DEF Reading
  <2> HIDE DEF d
  <2>7. \A i \in 1..Len(d.v) : IsV(d.v[i], runs)
    <3>1. \A i \in 1..2 : i = 1 \/ i = 2
      OBVIOUS
    <3>2. 1 \in 1..Len(digest.v)
      BY <1>6
    <3>3. IsV(vs[1], runs) /\ IsV(vs[2], runs)
      BY <1>2, <2>2, <2>5, <3>2
    <3> QED BY <2>5, <2>6, <3>1, <3>3
  <2>8. /\ d.at = 13 => Len(d.x) = 2 /\ Len(d.v) = 2
        /\ d.at = 14 => Len(d.x) = 3 /\ Len(d.v) = 2
    BY <1>1, <1>3, <1>6, <2>5, <2>6
  <2>9. /\ \A i \in 1..Len(d.x) : IsX(d.x[i], runs)
        /\ ~d.fails /\ ~d.blocked /\ d.at \in {13, 14}
        /\ FactsPass(d.x[1], runs) /\ Supports(d.v[1], runs) /\ d.x[2] # 0
    BY <1>1, <1>2, <1>4, <2>5, <2>6
  <2>10. GateInv(d, runs)
    BY <2>6, <2>7, <2>8, <2>9, PassedGate
  <2> QED BY <1>1, <2>3, <2>10, DigestMove
<1> QED BY <1>5, <1>6 DEF ReadItem

LEMMA IncludeItemGate == ASSUME BaseInv, DigestInv, IncludeItem PROVE DigestInv'
<1>1. digest \in Reading /\ digest.at = 14 /\ GateInv(digest, runs) /\ UNCHANGED runs /\ digest' = Off
  BY ReadsAre DEF IncludeItem, DigestInv, GateInv, Reading
<1> DEFINE s == [x |-> digest.x, v |-> digest.v, by |-> promoted]
<1>2. /\ s.x \in Seq(Nat) /\ s.v \in Seq(Nat) /\ Len(s.x) = 3 /\ Len(s.v) = 2
      /\ \A i \in 1..3 : IsX(s.x[i], runs)
      /\ \A i \in 1..2 : IsV(s.v[i], runs)
      /\ s.x[2] # 0 /\ FactsPass(s.x[1], runs) /\ Supports(s.v[1], runs)
  <2>1. digest.x \in Seq(Nat) /\ digest.v \in Seq(Nat)
    BY <1>1 DEF Reading, Found
  <2>2. ~digest.fails /\ ~digest.blocked /\ Len(digest.x) = 3 /\ Len(digest.v) = 2
    BY <1>1 DEF GateInv
  <2>3. digest.x[2] # 0 /\ FactsPass(digest.x[1], runs) /\ Supports(digest.v[1], runs)
    BY <1>1, <2>2 DEF GateInv
  <2>4. (\A i \in 1..3 : IsX(digest.x[i], runs)) /\ (\A i \in 1..2 : IsV(digest.v[i], runs))
    BY <1>1, <2>2 DEF GateInv
  <2>5. s.x = digest.x /\ s.v = digest.v
    OBVIOUS
  <2> HIDE DEF s
  <2> QED BY <2>1, <2>2, <2>3, <2>4, <2>5
<1>3. s.x = digest.x /\ s.v = digest.v /\ (s.by <=> promoted)
  OBVIOUS
<1> HIDE DEF s
<1>4. promoted \/ SafeToInclude(digest.x[3], digest.v[2]) => ShownGood(s, runs)
  BY <1>2, <1>3 DEF ShownGood, SafeToInclude
<1>5. \A t \in shown' : t \in shown \/ (t = s /\ (promoted \/ SafeToInclude(digest.x[3], digest.v[2])))
  BY DEF IncludeItem, s
<1>6. \A t \in shown' : ShownGood(t, runs)
  BY <1>4, <1>5 DEF DigestInv
<1> QED BY <1>1, <1>6, OffIs DEF DigestInv

LEMMA AnyAppendGrows == ASSUME NEW R, NEW rs \in Seq(R), NEW r PROVE Grown(rs, Append(rs, r))
<1>1. rs \in Seq(R \cup {r}) /\ r \in R \cup {r}
  OBVIOUS
<1> QED BY <1>1, AppendGrows

\* Whatever a process does, the rows that were read are still there.
LEMMA WorkGrows ==
    ASSUME BaseInv, NEW w \in Worker, Work(w) PROVE Grown(runs, runs') /\ UNCHANGED <<digest, shown>>
<1>1. UNCHANGED <<digest, shown>>
  BY DEF Work, Keyless, BeginExtraction, BeginVerification, BeginDraft, BeginQuestion, CheckBudget,
         ParseQuestion, CallModel, CallFails, PersistModelRun, Die, BuildMemo, CompareMemo, InsertMemo
<1>2. runs' = runs \/ \E r : runs' = Append(runs, r)
  BY DEF Work, Keyless, BeginExtraction, BeginVerification, BeginDraft, BeginQuestion, CheckBudget,
         ParseQuestion, CallModel, CallFails, PersistModelRun, Die, BuildMemo, CompareMemo, InsertMemo
<1>3. runs \in Seq(RunRow)
  BY DEF BaseInv
<1> QED BY <1>1, <1>2, <1>3, AnyAppendGrows, SameGrows

LEMMA DigestStays == ASSUME DigestInv, Grown(runs, runs'), UNCHANGED <<digest, shown>> PROVE DigestInv'
BY GateStays, ShownStays DEF DigestInv

LEMMA DigestNext == BaseInv /\ DigestInv /\ [JobsNext]_jobsVars => DigestInv'
<1> SUFFICES ASSUME BaseInv, DigestInv, [JobsNext]_jobsVars PROVE DigestInv'
  OBVIOUS
<1>1. ASSUME NEW w \in Worker, Work(w) PROVE DigestInv'
  BY <1>1, WorkGrows, DigestStays
<1>2. CASE EvaluateGate
  BY <1>2, BeginCandidateGate, ReadPlainGate, ReadExtractionGate, ReadFactsGate, ReadVerifierExtractionGate,
     ReadVerificationGate, GateRefusesGate, ReadItemGate, IncludeItemGate DEF EvaluateGate
<1>3. CASE UNCHANGED <<runs, digest, shown>>
  BY <1>3, SameGrows, DigestStays DEF BaseInv
<1> QED BY <1>1, <1>2, <1>3 DEF JobsNext, Reresolve, Change, jobsVars

\* At every read of the gate the rows read so far carry what the reads after it rely on, and
\* every item that was shown passed on rows that are still there.
THEOREM DigestInvariant == JobsSpec => []DigestInv
<1>1. JobsInit => BaseInv /\ DigestInv
  BY BaseInit, DigestInit
<1>2. BaseInv /\ DigestInv /\ [JobsNext]_jobsVars => (BaseInv /\ DigestInv)'
  BY BaseNext, DigestNext
<1> QED BY <1>1, <1>2, PTL DEF JobsSpec

--------------------------------------------------------------------------------
(* What the runs check.                                                           *)

LEMMA PairIs == ASSUME NEW A, NEW B, NEW d \in A \X B PROVE \E a \in A, b \in B : d = <<a, b>>
OBVIOUS

LEMMA ShownHolds == BaseInv /\ DigestInv => ShownIsVerified
<1> SUFFICES ASSUME BaseInv, DigestInv,
                    NEW s \in shown, OfOneRun(s.x), OfOneRun(s.v), runs[s.v[1]].of = s.x[1]
             PROVE  LET x == runs[s.x[1]].result
                        v == runs[s.v[1]].result
                    IN  /\ \A f \in x.facts : <<f, TRUE>> \in v /\ <<f, FALSE>> \notin v
                        /\ x.labeled /\ (s.by \/ x.clear)
                        /\ \A f \in x.facts : Grade[f] # "D"
  BY DEF ShownIsVerified
<1>1. /\ s.x \in Seq(Nat) /\ s.v \in Seq(Nat) /\ Len(s.x) = 3 /\ Len(s.v) = 2
      /\ s.x[2] # 0 /\ FactsPass(s.x[1], runs) /\ Supports(s.v[1], runs)
      /\ s.by \/ (s.x[3] # 0 /\ runs[s.x[3]].result.clear)
      /\ IsV(s.v[1], runs)
  BY DEF DigestInv, ShownGood
<1>2. s.x[2] = s.x[1] /\ s.x[3] = s.x[1]
  BY <1>1 DEF OfOneRun
<1> DEFINE x == s.x[1]
           v == s.v[1]
<1>3. x # 0 /\ FactsPass(x, runs) /\ Supports(v, runs) /\ (s.by \/ runs[x].result.clear) /\ Judged(v, runs)
  BY <1>1, <1>2 DEF IsV, Supports
<1> HIDE DEF x, v
<1>4. v \in 1..Len(runs) /\ runs[v] \in RunRow /\ RowGood(runs[v], runs) /\ runs[v].job = "verification"
      /\ runs[v].status = "succeeded"
  BY <1>3 DEF Judged, Supports, BaseInv
<1>5. runs[v].of = x
  BY DEF x, v
<1>6. runs[v].result \in SUBSET Verdict /\ ValidVerdicts(runs[v].result, runs[x].result.facts)
  BY <1>4, <1>5 DEF RowGood, Answer
<1>7. \A d \in runs[v].result : d[2]
  BY <1>3 DEF Supports
<1>8. ASSUME NEW f \in runs[x].result.facts PROVE <<f, TRUE>> \in runs[v].result /\ <<f, FALSE>> \notin runs[v].result
  <2>1. PICK d \in runs[v].result : d[1] = f
    BY <1>6 DEF ValidVerdicts
  <2>2. d \in Evidence \X BOOLEAN /\ d[2]
    BY <1>6, <1>7, <2>1 DEF Verdict
  <2>3. d = <<f, TRUE>>
    <3>1. PICK g \in Evidence, b \in BOOLEAN : d = <<g, b>>
      BY <2>2, PairIs
    <3>2. g = f /\ b
      BY <2>1, <2>2, <3>1
    <3>3. b = TRUE
      BY <3>1, <3>2
    <3> QED BY <3>1, <3>2, <3>3
  <2>4. <<f, FALSE>> \notin runs[v].result
    <3>1. <<f, FALSE>>[2] = FALSE
      OBVIOUS
    <3> QED BY <1>7, <3>1
  <2> QED BY <2>1, <2>3, <2>4
<1>9. runs[x].result.labeled /\ \A f \in runs[x].result.facts : Grade[f] # "D"
  BY <1>3 DEF FactsPass
<1> QED BY <1>3, <1>8, <1>9 DEF x, v

\* When one extraction was the latest throughout and the verification judged it, everything an
\* item of the digest shows was supported, labeled and not of grade D, and nothing contested
\* (gate.ts:118-195, automation.ts:73-117).
THEOREM ShownVerified == JobsSpec => []ShownIsVerified
<1>1. BaseInv /\ DigestInv => ShownIsVerified
  BY ShownHolds
<1> QED BY <1>1, BaseInvariant, DigestInvariant, PTL

LEMMA RowsTyped == BaseInv => \A i \in DOMAIN runs : RunOK(runs[i])
<1> SUFFICES ASSUME BaseInv, NEW i \in DOMAIN runs PROVE RunOK(runs[i])
  OBVIOUS
<1>1. i \in 1..Len(runs) /\ runs[i] \in RunRow /\ RowGood(runs[i], runs)
  BY DEF BaseInv
<1>2. /\ runs[i].job \in Job /\ runs[i].status \in RunStatus /\ runs[i].cost \in Nat /\ runs[i].of \in Nat
      /\ runs[i].result # Void => /\ runs[i].status = "succeeded" /\ runs[i].job \in {"extraction", "verification"}
                                  /\ runs[i].job = "extraction" => runs[i].result \in Extraction
                                  /\ runs[i].job = "verification" => runs[i].result \in SUBSET Verdict
  BY <1>1 DEF RunRow, RowGood, Answer
<1> QED BY <1>2 DEF RunOK

LEMMA JobsTyped == BaseInv /\ CountInv /\ DigestInv => JobsTypeOK
<1> SUFFICES ASSUME BaseInv, CountInv, DigestInv PROVE JobsTypeOK
  OBVIOUS
<1>1. Len(memos) <= MaxJob
  <2>1. Total(Writing, Worker) \in Nat /\ Len(memos) \in Nat /\ begun \in 0..MaxJob
    BY WritingIs DEF BaseInv, CountInv
  <2>2. Len(memos) + Total(Writing, Worker) <= begun
    BY DEF CountInv
  <2> QED BY <2>1, <2>2, Bounds
<1>2. ASSUME NEW w \in Worker
      PROVE  /\ job[w].pc \in {"idle", "budget", "parse", "call", "persist", "compare", "insert"}
             /\ job[w].job \in Job \cup {Void} /\ job[w].known \subseteq Evidence
             /\ {job[w].of, job[w].cost, job[w].prior} \subseteq Nat
  <2>1. job[w] \in Doing
    BY AtWork
  <2>2. job[w].pc \in {"idle", "budget", "parse", "call", "persist", "compare", "insert"}
    BY <2>1 DEF Doing, Calling
  <2>3. job[w].job \in Job \cup {Void} /\ job[w].known \subseteq Evidence
        /\ job[w].of \in Nat /\ job[w].cost \in Nat /\ job[w].prior \in Nat
    BY <2>1 DEF Doing
  <2> QED BY <2>2, <2>3
<1>3. digest.at \in 0..Len(Reads) + 1 /\ {digest.fails, digest.blocked, digest.risky} \subseteq BOOLEAN
  <2>1. digest \in Reading
    BY DEF DigestInv, GateInv
  <2>2. digest.at \in 0..14 /\ digest.fails \in BOOLEAN /\ digest.blocked \in BOOLEAN /\ digest.risky \in BOOLEAN
    BY <2>1 DEF Reading
  <2>3. Len(Reads) + 1 = 14
    BY ReadsAre
  <2> QED BY <2>2, <2>3
<1> QED BY <1>1, <1>2, <1>3, RowsTyped DEF JobsTypeOK, BaseInv, CountInv

LEMMA SpendHolds == BaseInv /\ CountInv /\ SpendInv => SpendBounded
<1> SUFFICES ASSUME BaseInv, CountInv, SpendInv PROVE SpendBounded
  OBVIOUS
<1>1. CostInFlight = Total(Owed, Worker)
  BY DEF CostInFlight, Total, Owed
<1>2. \A w \in Worker : job[w].cost <= Reserved(job[w])
  <2> TAKE w \in Worker
  <2>1. /\ job[w] \in Doing /\ Local(job[w], runs, memos) /\ job[w].cost \in Nat
        /\ job[w].pc \in {"budget"} \cup Calling => job[w].job \in Job /\ job[w].job # "memo"
    BY AtWork
  <2>2. CASE job[w].pc \in Calling
    <3>1. Price[job[w].job] \in Nat /\ Estimate(job[w].job) \in Nat
      BY <2>1, <2>2, Prices
    <3>2. job[w].cost <= Estimate(job[w].job)
      BY <2>1, <2>2, <3>1 DEF Local, Calling
    <3> QED BY <2>2, <3>2 DEF Reserved
  <2>3. CASE job[w].pc \notin Calling
    <3>1. job[w].pc \in {"idle", "budget", "compare", "insert"}
      BY <2>1, <2>3 DEF Doing
    <3>2. job[w].cost = 0
      BY <2>1, <3>1, FreeReserves DEF Local
    <3> QED BY <2>3, <3>2 DEF Reserved
  <2> QED BY <2>2, <2>3
<1>3. /\ Recorded \in Nat /\ Total(Owed, Worker) \in Nat /\ Total(Committed, Worker) \in Nat
      /\ Owed \in [Worker -> Nat] /\ Committed \in [Worker -> Nat]
  BY SpendTypes
<1>4. Total(Owed, Worker) <= Total(Committed, Worker)
  <2>1. \A w \in Worker : Owed[w] <= Committed[w]
    BY <1>2 DEF Owed, Committed
  <2> QED BY <1>3, <2>1, Prices, TotalLeq
<1> DEFINE room == Cap + (Cardinality(Worker) - 1) * PerJob
<1>5. room \in Nat
  BY RoomIs, Prices
<1>6. spent = Recorded + Total(Owed, Worker) + unrecorded /\ Recorded + Total(Committed, Worker) <= room
  BY DEF SpendInv
<1>7. spent \in Nat /\ unrecorded \in Nat
  BY DEF CountInv
<1> HIDE DEF room
<1>8. spent - unrecorded <= room
  BY <1>3, <1>4, <1>5, <1>6, <1>7
<1> QED BY <1>1, <1>6, <1>8 DEF SpendBounded, room

\* The ledger accounts for what was charged but for failed calls and dead processes, overlapping
\* jobs exceed the cap by at most what the others may still spend, and neighbouring versions of
\* a memo differ (budget.ts:44-73, runs.ts:32-52, memo.ts:314-337).
THEOREM JobsLedger == JobsSpec => []JobsAddUp
<1>1. JobsInit => VersionsTellApart
  BY DEF JobsInit, VersionsTellApart
<1>2. BaseInv /\ VersionsTellApart /\ [JobsNext]_jobsVars => VersionsTellApart'
  BY VersionsNext
<1>3. BaseInv /\ CountInv /\ SpendInv /\ DigestInv /\ VersionsTellApart => JobsAddUp
  BY JobsTyped, SpendHolds DEF JobsAddUp
<1> QED BY <1>1, <1>2, <1>3, BaseInvariant, SpendInvariant, DigestInvariant, PTL DEF JobsSpec

================================================================================
