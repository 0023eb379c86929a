------------------------- MODULE CellHierarchy_proof -------------------------
(***************************************************************************)
(* What flattening keeps.  A weight w gives every cell a number, and        *)
(* Total(w, s) is the weight of a list of instances.  The number of instances *)
(* of one cell, and the number of primitive devices that a list comes down  *)
(* to, are such sums, so that what splicing and expanding a list does to    *)
(* its sums says what it does to either of them.                            *)
(***************************************************************************)
EXTENDS CellHierarchy, FiniteSetTheorems, WellFoundedInduction, TLAPS

(***************************************************************************)
(* Induction and recursion over numbers, for sets and functions.            *)
(***************************************************************************)
LEMMA Induction ==
  ASSUME NEW P, 0 \in P, \A n \in Nat : n \in P => n + 1 \in P
  PROVE  Nat \subseteq P
<1> DEFINE T == Nat \ P
<1>1. SUFFICES ASSUME T # {} PROVE FALSE
  OBVIOUS
<1>2. PICK x \in T : \A y \in T : ~(<<y, x>> \in OpToRel(<, Nat))
  <2> HIDE DEF T
  <2>1. T \subseteq Nat
    BY DEF T
  <2> QED BY <1>1, <2>1, NatLessThanWellFounded, WFMin
<1>3. x \in Nat /\ x \notin P
  OBVIOUS
<1>4. x # 0 /\ x - 1 \in Nat /\ x - 1 < x /\ x - 1 + 1 = x
  BY <1>3
<1>5. x - 1 \notin T
  <2>1. SUFFICES ASSUME x - 1 \in T PROVE FALSE
    OBVIOUS
  <2>2. <<x - 1, x>> \in OpToRel(<, Nat)
    BY <1>3, <1>4 DEF OpToRel
  <2> QED BY <1>2, <2>1, <2>2
<1>6. x - 1 \in P
  BY <1>4, <1>5
<1> QED BY <1>3, <1>4, <1>6

\* The least of the numbers in a set.
LEMMA Least ==
  ASSUME NEW T \in SUBSET Nat, T # {}
  PROVE  \E n \in T : \A m \in T : n <= m
<1>1. PICK n \in T : \A y \in T : ~(<<y, n>> \in OpToRel(<, Nat))
  BY NatLessThanWellFounded, WFMin
<1>2. ASSUME NEW m \in T PROVE n <= m
  <2>1. n \in Nat /\ m \in Nat
    OBVIOUS
  <2>2. ~(m < n)
    BY <1>1, <2>1 DEF OpToRel
  <2> QED BY <2>1, <2>2
<1> QED BY <1>2

Iterates(f, X, base, N, step) ==
  /\ f \in [0..N -> X] /\ f[0] = base
  /\ \A n \in 1..N : f[n] = step[<<n, f[n - 1]>>]

LEMMA Recursion ==
  ASSUME NEW X, NEW base \in X, NEW N \in Nat, NEW step \in [(1..N) \X X -> X]
  PROVE  \E f : Iterates(f, X, base, N, step)
<1> DEFINE Q(m) == \E f \in [0..m -> X] :
                      f[0] = base /\ \A n \in 1..m : f[n] = step[<<n, f[n - 1]>>]
           P == {m \in Nat : m <= N => Q(m)}
<1>1. 0 \in P
  <2>1. [n \in 0..0 |-> base] \in [0..0 -> X]
    OBVIOUS
  <2>2. Q(0)
    <3> WITNESS [n \in 0..0 |-> base] \in [0..0 -> X]
    <3> QED OBVIOUS
  <2> QED BY <2>2
<1>2. ASSUME NEW m \in Nat, m \in P PROVE m + 1 \in P
  <2>1. SUFFICES ASSUME m + 1 <= N PROVE Q(m + 1)
    OBVIOUS
  <2>2. PICK f \in [0..m -> X] : f[0] = base /\ \A n \in 1..m : f[n] = step[<<n, f[n - 1]>>]
    BY <1>2, <2>1
  <2> DEFINE g == [n \in 0..(m + 1) |-> IF n = m + 1 THEN step[<<n, f[m]>>] ELSE f[n]]
  <2>3. step[<<m + 1, f[m]>>] \in X
    BY <2>1
  <2>4. g \in [0..(m + 1) -> X]
    BY <2>3
  <2>5. g[0] = base
    BY <2>2
  <2>6. ASSUME NEW n \in 1..(m + 1) PROVE g[n] = step[<<n, g[n - 1]>>]
    <3>1. n - 1 \in 0..m /\ g[n - 1] = f[n - 1]
      OBVIOUS
    <3>2. CASE n = m + 1
      <4>1. g[n] = step[<<n, f[m]>>] /\ n - 1 = m
        BY <3>2
      <4> QED BY <3>1, <4>1
    <3>3. CASE n \in 1..m
      <4>1. g[n] = f[n]
        BY <3>3
      <4> QED BY <2>2, <3>1, <3>3, <4>1
    <3> QED BY <3>2, <3>3
  <2> QED BY <2>4, <2>5, <2>6
<1>3. N \in P
  <2> HIDE DEF P
  <2> QED BY <1>1, <1>2, Induction
<1> QED BY <1>3 DEF Iterates

(***************************************************************************)
(* Sums over lists.                                                         *)
(***************************************************************************)
Weights(C) == [C -> Nat]

Total(w, s) ==
  LET sum[i \in 0..Len(s)] == IF i = 0 THEN 0 ELSE sum[i - 1] + w[s[i]]
  IN  sum[Len(s)]

IsSum(f, w, s) ==
  /\ f \in [0..Len(s) -> Nat] /\ f[0] = 0
  /\ \A i \in 1..Len(s) : f[i] = f[i - 1] + w[s[i]]

LEMMA SumExists ==
  ASSUME NEW C, NEW w \in Weights(C), NEW s \in Seq(C)
  PROVE  \E f : IsSum(f, w, s) /\ Total(w, s) = f[Len(s)]
<1> USE DEF Weights
<1> DEFINE N == Len(s)
           step == [p \in (1..N) \X Nat |-> p[2] + w[s[p[1]]]]
           G(g) == [i \in 0..N |-> IF i = 0 THEN 0 ELSE g[i - 1] + w[s[i]]]
<1>1. N \in Nat /\ \A i \in 1..N : w[s[i]] \in Nat
  OBVIOUS
<1>2. step \in [(1..N) \X Nat -> Nat]
  BY <1>1
<1>3. PICK f : Iterates(f, Nat, 0, N, step)
  <2> HIDE DEF step
  <2> QED BY <1>1, <1>2, Recursion
<1>4. ASSUME NEW n \in 1..N PROVE f[n] = f[n - 1] + w[s[n]]
  <2>1. n - 1 \in 0..N
    BY <1>1
  <2>2. <<n, f[n - 1]>> \in (1..N) \X Nat
    BY <1>3, <2>1 DEF Iterates
  <2> QED BY <1>3, <2>2 DEF Iterates
<1>5. f = G(f)
  <2>1. \A i \in 0..N : f[i] = IF i = 0 THEN 0 ELSE f[i - 1] + w[s[i]]
    <3> HIDE DEF step
    <3> QED BY <1>1, <1>3, <1>4 DEF Iterates
  <2> HIDE DEF step
  <2> QED BY <1>3, <2>1 DEF Iterates
<1> DEFINE c == CHOOSE g : g = G(g)
<1>6. c = G(c)
  <2> HIDE DEF G
  <2> QED BY <1>5
<1>7. Total(w, s) = c[N]
  BY DEF Total
<1>8. c[0] = 0 /\ \A i \in 1..N : c[i] = c[i - 1] + w[s[i]]
  <2> HIDE DEF c
  <2> QED BY <1>1, <1>6
<1>9. ASSUME NEW i \in 0..N PROVE c[i] \in Nat
  <2> DEFINE P == {n \in Nat : n <= N => c[n] \in Nat}
  <2>1. 0 \in P
    BY <1>8
  <2>2. ASSUME NEW n \in Nat, n \in P PROVE n + 1 \in P
    <3> HIDE DEF c
    <3>1. SUFFICES ASSUME n + 1 <= N PROVE c[n + 1] \in Nat
      OBVIOUS
    <3>2. n + 1 \in 1..N /\ (n + 1) - 1 = n /\ c[n] \in Nat
      BY <2>2, <3>1, <1>1
    <3>3. c[n + 1] = c[n] + w[s[n + 1]] /\ w[s[n + 1]] \in Nat
      BY <1>1, <1>8, <3>2
    <3> QED BY <3>2, <3>3
  <2>3. i \in P
    <3>1. i \in Nat
      BY <1>1
    <3> HIDE DEF P
    <3> QED BY <2>1, <2>2, <3>1, Induction
  <2> QED BY <1>1, <2>3
<1>10. c \in [0..N -> Nat]
  <2> HIDE DEF c
  <2>1. c = [i \in 0..N |-> c[i]]
    BY <1>6
  <2> QED BY <1>9, <2>1
<1> QED
  <2> HIDE DEF c
  <2> QED BY <1>7, <1>8, <1>10 DEF IsSum

LEMMA SumUnique ==
  ASSUME NEW C, NEW w \in Weights(C), NEW s \in Seq(C), NEW g, IsSum(g, w, s)
  PROVE  Total(w, s) = g[Len(s)]
<1> USE DEF Weights
<1>1. PICK f : IsSum(f, w, s) /\ Total(w, s) = f[Len(s)]
  BY SumExists
<1> DEFINE P == {n \in Nat : n <= Len(s) => f[n] = g[n]}
<1>2. 0 \in P
  BY <1>1 DEF IsSum
<1>3. ASSUME NEW n \in Nat, n \in P PROVE n + 1 \in P
  <2>1. SUFFICES ASSUME n + 1 <= Len(s) PROVE f[n + 1] = g[n + 1]
    OBVIOUS
  <2>2. n + 1 \in 1..Len(s) /\ (n + 1) - 1 = n /\ f[n] = g[n]
    BY <1>3, <2>1
  <2> QED BY <1>1, <2>2 DEF IsSum
<1>4. Len(s) \in P
  <2>1. Len(s) \in Nat
    OBVIOUS
  <2> HIDE DEF P
  <2> QED BY <2>1, <1>2, <1>3, Induction
<1> QED BY <1>1, <1>4

LEMMA SumIsNat ==
  ASSUME NEW C, NEW w \in Weights(C), NEW s \in Seq(C)
  PROVE  Total(w, s) \in Nat
<1> USE DEF Weights
<1>1. PICK f : IsSum(f, w, s) /\ Total(w, s) = f[Len(s)]
  BY SumExists
<1> QED BY <1>1 DEF IsSum

LEMMA SumEmpty ==
  ASSUME NEW C, NEW w \in Weights(C)
  PROVE  Total(w, << >>) = 0
<1> USE DEF Weights
<1>1. << >> \in Seq(C) /\ Len(<< >>) = 0
  OBVIOUS
<1>2. PICK f : IsSum(f, w, << >>) /\ Total(w, << >>) = f[Len(<< >>)]
  BY <1>1, SumExists
<1> QED BY <1>1, <1>2 DEF IsSum

LEMMA SumOne ==
  ASSUME NEW C, NEW w \in Weights(C), NEW x \in C
  PROVE  Total(w, <<x>>) = w[x]
<1> USE DEF Weights
<1>1. <<x>> \in Seq(C) /\ Len(<<x>>) = 1 /\ <<x>>[1] = x
  OBVIOUS
<1>2. PICK f : IsSum(f, w, <<x>>) /\ Total(w, <<x>>) = f[Len(<<x>>)]
  BY <1>1, SumExists
<1>3. f[0] = 0 /\ f[1] = f[1 - 1] + w[x] /\ w[x] \in Nat
  BY <1>1, <1>2 DEF IsSum
<1> QED BY <1>1, <1>2, <1>3

LEMMA SumConcat ==
  ASSUME NEW C, NEW w \in Weights(C), NEW s \in Seq(C), NEW t \in Seq(C)
  PROVE  Total(w, s \o t) = Total(w, s) + Total(w, t)
<1> USE DEF Weights
<1>1. PICK f : IsSum(f, w, s) /\ Total(w, s) = f[Len(s)]
  BY SumExists
<1>2. PICK g : IsSum(g, w, t) /\ Total(w, t) = g[Len(t)]
  BY SumExists
<1> DEFINE h == [i \in 0..(Len(s) + Len(t)) |->
                   IF i <= Len(s) THEN f[i] ELSE f[Len(s)] + g[i - Len(s)]]
<1>3. s \o t \in Seq(C) /\ Len(s \o t) = Len(s) + Len(t) /\ Len(s) \in Nat /\ Len(t) \in Nat
  OBVIOUS
<1>4. f \in [0..Len(s) -> Nat] /\ g \in [0..Len(t) -> Nat] /\ f[0] = 0 /\ g[0] = 0
  BY <1>1, <1>2 DEF IsSum
<1>5. h \in [0..Len(s \o t) -> Nat]
  <2>1. ASSUME NEW i \in 0..(Len(s) + Len(t)) PROVE h[i] \in Nat
    <3>1. CASE i <= Len(s)
      BY <1>3, <1>4, <3>1
    <3>2. CASE i > Len(s)
      <4>1. i - Len(s) \in 0..Len(t) /\ Len(s) \in 0..Len(s)
        BY <1>3, <3>2
      <4>2. f[Len(s)] \in Nat /\ g[i - Len(s)] \in Nat
        BY <1>4, <4>1
      <4> QED BY <1>3, <3>2, <4>2
    <3> QED BY <1>3, <3>1, <3>2
  <2> QED BY <1>3, <2>1
<1>6. h[0] = 0
  BY <1>3, <1>4
<1>7. ASSUME NEW i \in 1..Len(s \o t) PROVE h[i] = h[i - 1] + w[(s \o t)[i]]
  <2>1. CASE i <= Len(s)
    <3>1. (s \o t)[i] = s[i] /\ i \in 1..Len(s)
      BY <1>3, <2>1
    <3>2. h[i] = f[i] /\ h[i - 1] = f[i - 1]
      BY <1>3, <2>1
    <3> QED BY <1>1, <3>1, <3>2 DEF IsSum
  <2>2. CASE i > Len(s)
    <3> DEFINE j == i - Len(s)
    <3>1. (s \o t)[i] = t[j] /\ j \in 1..Len(t)
      BY <1>3, <2>2
    <3>2. h[i] = f[Len(s)] + g[j]
      BY <1>3, <2>2
    <3>3. h[i - 1] = f[Len(s)] + g[j - 1]
      <4>1. CASE i = Len(s) + 1
        BY <1>3, <1>4, <4>1
      <4>2. CASE i > Len(s) + 1
        BY <1>3, <4>2
      <4> QED BY <1>3, <2>2, <4>1, <4>2
    <3>4. g[j] = g[j - 1] + w[t[j]]
      BY <1>2, <3>1 DEF IsSum
    <3>5. w[t[j]] \in Nat
      BY <3>1
    <3>6. j - 1 \in 0..Len(t) /\ Len(s) \in 0..Len(s)
      BY <1>3, <3>1
    <3>7. g[j - 1] \in Nat /\ f[Len(s)] \in Nat
      BY <1>4, <3>6
    <3> HIDE DEF h, j
    <3>8. w[(s \o t)[i]] = w[t[j]]
      BY <3>1
    <3>9. h[i] = f[Len(s)] + (g[j - 1] + w[t[j]])
      BY <3>2, <3>4
    <3>10. f[Len(s)] + (g[j - 1] + w[t[j]]) = (f[Len(s)] + g[j - 1]) + w[t[j]]
      BY <3>5, <3>7
    <3> QED BY <3>3, <3>8, <3>9, <3>10
  <2>3. i <= Len(s) \/ i > Len(s)
    BY <1>3
  <2> QED BY <2>1, <2>2, <2>3
<1>8. Total(w, s \o t) = h[Len(s \o t)]
  <2> HIDE DEF h
  <2>1. IsSum(h, w, s \o t)
    BY <1>5, <1>6, <1>7 DEF IsSum
  <2> QED BY <1>3, <2>1, SumUnique
<1>9. h[Len(s) + Len(t)] = f[Len(s)] + g[Len(t)]
  <2>1. CASE Len(t) = 0
    BY <1>3, <1>4, <2>1
  <2>2. CASE Len(t) > 0
    BY <1>3, <2>2
  <2> QED BY <1>3, <2>1, <2>2
<1> QED BY <1>1, <1>2, <1>3, <1>8, <1>9

\* Weights that agree on what is in the list.
LEMMA SumSame ==
  ASSUME NEW C, NEW w \in Weights(C), NEW v \in Weights(C), NEW s \in Seq(C),
         \A i \in DOMAIN s : v[s[i]] = w[s[i]]
  PROVE  Total(v, s) = Total(w, s)
<1> USE DEF Weights
<1>1. PICK f : IsSum(f, w, s) /\ Total(w, s) = f[Len(s)]
  BY SumExists
<1>2. IsSum(f, v, s)
  BY <1>1 DEF IsSum
<1> QED BY <1>1, <1>2, SumUnique

LEMMA SumMonotone ==
  ASSUME NEW C, NEW w \in Weights(C), NEW v \in Weights(C), NEW s \in Seq(C),
         \A x \in C : v[x] <= w[x]
  PROVE  Total(v, s) <= Total(w, s)
<1> USE DEF Weights
<1>1. PICK f : IsSum(f, w, s) /\ Total(w, s) = f[Len(s)]
  BY SumExists
<1>2. PICK g : IsSum(g, v, s) /\ Total(v, s) = g[Len(s)]
  BY SumExists
<1> DEFINE P == {n \in Nat : n <= Len(s) => g[n] <= f[n]}
<1>3. 0 \in P
  BY <1>1, <1>2 DEF IsSum
<1>4. ASSUME NEW n \in Nat, n \in P PROVE n + 1 \in P
  <2>1. SUFFICES ASSUME n + 1 <= Len(s) PROVE g[n + 1] <= f[n + 1]
    OBVIOUS
  <2>2. n + 1 \in 1..Len(s) /\ (n + 1) - 1 = n /\ g[n] <= f[n] /\ s[n + 1] \in C
    BY <1>4, <2>1
  <2>3. f[n + 1] = f[n] + w[s[n + 1]] /\ g[n + 1] = g[n] + v[s[n + 1]]
    BY <1>1, <1>2, <2>2 DEF IsSum
  <2>4. w[s[n + 1]] \in Nat /\ v[s[n + 1]] \in Nat /\ v[s[n + 1]] <= w[s[n + 1]]
    BY <2>2
  <2>5. f[n] \in Nat /\ g[n] \in Nat
    <3>1. n \in 0..Len(s)
      BY <2>1
    <3> QED BY <1>1, <1>2, <3>1 DEF IsSum
  <2> QED BY <2>2, <2>3, <2>4, <2>5
<1>5. Len(s) \in P
  <2>1. Len(s) \in Nat
    OBVIOUS
  <2> HIDE DEF P
  <2> QED BY <2>1, <1>3, <1>4, Induction
<1> QED BY <1>1, <1>2, <1>5

\* A sum of zeros and ones is a number of places.
Ind(B, C) == [x \in C |-> IF x \in B THEN 1 ELSE 0]

LEMMA SumCounts ==
  ASSUME NEW C, NEW B, NEW s \in Seq(C)
  PROVE  /\ IsFiniteSet({i \in DOMAIN s : s[i] \in B})
         /\ Total(Ind(B, C), s) = Cardinality({i \in DOMAIN s : s[i] \in B})
<1> USE DEF Weights
<1> DEFINE w == Ind(B, C)
           A(n) == {i \in 1..n : s[i] \in B}
           f == [n \in 0..Len(s) |-> Cardinality(A(n))]
<1>1. w \in Weights(C) /\ DOMAIN s = 1..Len(s) /\ Len(s) \in Nat
  BY DEF Ind
<1>2. ASSUME NEW n \in Nat PROVE IsFiniteSet(A(n)) /\ Cardinality(A(n)) \in Nat
  <2>1. A(n) \subseteq 1..n /\ IsFiniteSet(1..n)
    BY FS_Interval
  <2> QED BY <2>1, FS_Subset, FS_CardinalityType
<1>3. ASSUME NEW n \in 1..Len(s)
      PROVE  Cardinality(A(n)) = Cardinality(A(n - 1)) + w[s[n]]
  <2>1. n - 1 \in Nat /\ s[n] \in C /\ n \notin A(n - 1)
    BY <1>1
  <2>2. CASE s[n] \in B
    <3>1. A(n) = A(n - 1) \cup {n}
      BY <2>2
    <3>2. Cardinality(A(n)) = Cardinality(A(n - 1)) + 1
      <4> HIDE DEF A
      <4> QED BY <1>2, <2>1, <3>1, FS_AddElement
    <3>3. w[s[n]] = 1
      BY <2>1, <2>2 DEF Ind
    <3> QED BY <3>2, <3>3
  <2>3. CASE s[n] \notin B
    <3>1. A(n) = A(n - 1)
      BY <2>3
    <3>2. w[s[n]] = 0
      BY <2>1, <2>3 DEF Ind
    <3> HIDE DEF A, w
    <3> QED BY <1>2, <2>1, <3>1, <3>2
  <2> QED BY <2>2, <2>3
<1>4. Cardinality(A(0)) = 0
  <2>1. A(0) = {}
    OBVIOUS
  <2> QED BY <2>1, FS_EmptySet
<1>5. IsSum(f, w, s)
  <2> HIDE DEF w, A
  <2>1. f \in [0..Len(s) -> Nat]
    BY <1>1, <1>2
  <2>2. \A i \in 1..Len(s) : f[i] = Cardinality(A(i)) /\ f[i - 1] = Cardinality(A(i - 1))
    BY <1>1
  <2> QED BY <1>1, <1>3, <1>4, <2>1, <2>2 DEF IsSum
<1>6. Total(w, s) = f[Len(s)]
  <2> HIDE DEF w, f
  <2> QED BY <1>1, <1>5, SumUnique
<1>7. f[Len(s)] = Cardinality(A(Len(s))) /\ A(Len(s)) = {i \in DOMAIN s : s[i] \in B}
  BY <1>1
<1>8. IsFiniteSet(A(Len(s)))
  BY <1>1, <1>2
<1> QED
  <2> HIDE DEF f, A
  <2> QED BY <1>6, <1>7, <1>8

(***************************************************************************)
(* Joined lists.                                                            *)
(***************************************************************************)
IsJoin(f, q, C) ==
  /\ f \in [0..Len(q) -> Seq(C)] /\ f[0] = << >>
  /\ \A i \in 1..Len(q) : f[i] = f[i - 1] \o q[i]

LEMMA JoinExists ==
  ASSUME NEW C, NEW q \in Seq(Seq(C))
  PROVE  \E f : IsJoin(f, q, C) /\ FlattenSeq(q) = f[Len(q)]
<1> DEFINE N == Len(q)
           step == [p \in (1..N) \X Seq(C) |-> p[2] \o q[p[1]]]
           G(g) == [i \in 1..N |-> IF i = 1 THEN q[i] ELSE g[i - 1] \o q[i]]
<1>1. N \in Nat /\ \A i \in 1..N : q[i] \in Seq(C)
  OBVIOUS
<1>2. step \in [(1..N) \X Seq(C) -> Seq(C)]
  <2>1. ASSUME NEW p \in (1..N) \X Seq(C) PROVE p[2] \o q[p[1]] \in Seq(C)
    <3>1. p[2] \in Seq(C) /\ q[p[1]] \in Seq(C)
      BY <1>1
    <3> QED BY <3>1
  <2> QED BY <2>1
<1>3. PICK f : Iterates(f, Seq(C), << >>, N, step)
  <2>1. << >> \in Seq(C)
    OBVIOUS
  <2> HIDE DEF step
  <2> QED BY <1>1, <1>2, <2>1, Recursion
<1>4. ASSUME NEW n \in 1..N PROVE f[n] = f[n - 1] \o q[n]
  <2>1. n - 1 \in 0..N
    BY <1>1
  <2>2. <<n, f[n - 1]>> \in (1..N) \X Seq(C)
    BY <1>3, <2>1 DEF Iterates
  <2> QED BY <1>3, <2>2 DEF Iterates
<1>5. IsJoin(f, q, C)
  <2> HIDE DEF step
  <2> QED BY <1>3, <1>4 DEF IsJoin, Iterates
<1>6. CASE N = 0
  <2>1. q = << >> /\ FlattenSeq(q) = q
    BY <1>6 DEF FlattenSeq
  <2> QED BY <1>5, <1>6, <2>1 DEF IsJoin
<1>7. CASE N # 0
  <2> DEFINE h == [i \in 1..N |-> f[i]]
             c == CHOOSE g : g = G(g)
  <2>1. f[1] = q[1]
    <3>1. 1 \in 1..N /\ 1 - 1 = 0
      BY <1>1, <1>7
    <3>2. f[1] = f[0] \o q[1]
      BY <1>4, <3>1
    <3>3. f[0] = << >> /\ q[1] \in Seq(C)
      BY <1>1, <1>5, <3>1 DEF IsJoin
    <3> QED BY <3>2, <3>3
  <2>2. h = G(h)
    <3>1. ASSUME NEW i \in 1..N PROVE h[i] = IF i = 1 THEN q[i] ELSE h[i - 1] \o q[i]
      <4>1. h[i] = f[i] /\ (i # 1 => h[i - 1] = f[i - 1])
        BY <1>1
      <4> HIDE DEF h
      <4> QED BY <1>4, <2>1, <4>1
    <3> QED BY <3>1
  <2>3. c = G(c)
    <3> HIDE DEF G
    <3> QED BY <2>2
  <2>4. FlattenSeq(q) = c[N]
    BY <1>7 DEF FlattenSeq
  <2> HIDE DEF c
  <2>5. c[1] = q[1] /\ \A i \in 2..N : c[i] = c[i - 1] \o q[i]
    <3>1. \A i \in 1..N : c[i] = IF i = 1 THEN q[i] ELSE c[i - 1] \o q[i]
      BY <2>3
    <3>2. 1 \in 1..N /\ \A i \in 2..N : i \in 1..N /\ i # 1
      BY <1>1, <1>7
    <3> QED BY <3>1, <3>2
  <2> DEFINE P == {n \in Nat : n <= N /\ n # 0 => c[n] = f[n]}
  <2>6. 0 \in P
    OBVIOUS
  <2>7. ASSUME NEW n \in Nat, n \in P PROVE n + 1 \in P
    <3>1. SUFFICES ASSUME n + 1 <= N PROVE c[n + 1] = f[n + 1]
      OBVIOUS
    <3>2. CASE n = 0
      BY <2>1, <2>5, <3>2
    <3>3. CASE n # 0
      <4>1. n + 1 \in 2..N /\ n + 1 \in 1..N /\ (n + 1) - 1 = n /\ c[n] = f[n]
        BY <1>1, <2>7, <3>1, <3>3
      <4> QED BY <1>4, <2>5, <4>1
    <3> QED BY <3>2, <3>3
  <2>8. N \in P
    <3> HIDE DEF P
    <3> QED BY <1>1, <2>6, <2>7, Induction
  <2> QED BY <1>5, <1>7, <2>4, <2>8
<1> QED BY <1>6, <1>7

\* The parts q of a joined list have the weights that v gives the members of s.
PartsSum(q, w, v, s) == Len(q) = Len(s) /\ \A i \in 1..Len(s) : Total(w, q[i]) = v[s[i]]

LEMMA FlattenSum ==
  ASSUME NEW C, NEW w \in Weights(C), NEW v \in Weights(C), NEW s \in Seq(C),
         NEW q \in Seq(Seq(C)), PartsSum(q, w, v, s)
  PROVE  FlattenSeq(q) \in Seq(C) /\ Total(w, FlattenSeq(q)) = Total(v, s)
<1>1. PICK f : IsJoin(f, q, C) /\ FlattenSeq(q) = f[Len(q)]
  BY JoinExists
<1>2. Len(q) \in Nat /\ Len(q) \in 0..Len(q)
  OBVIOUS
<1>3. \A i \in 0..Len(q) : f[i] \in Seq(C)
  BY <1>1 DEF IsJoin
<1> DEFINE g == [i \in 0..Len(s) |-> Total(w, f[i])]
<1>4. g \in [0..Len(s) -> Nat]
  <2>1. \A i \in 0..Len(s) : Total(w, f[i]) \in Nat
    BY <1>3, SumIsNat DEF PartsSum
  <2> QED BY <2>1
<1>5. g[0] = 0
  <2>1. g[0] = Total(w, << >>)
    BY <1>1, <1>2 DEF IsJoin
  <2> QED BY <2>1, SumEmpty
<1>6. ASSUME NEW i \in 1..Len(s) PROVE g[i] = g[i - 1] + v[s[i]]
  <2>1. i \in 0..Len(q) /\ i - 1 \in 0..Len(q) /\ q[i] \in Seq(C)
    BY <1>2 DEF PartsSum
  <2>2. f[i] = f[i - 1] \o q[i]
    BY <1>1, <2>1 DEF IsJoin, PartsSum
  <2>3. Total(w, f[i]) = Total(w, f[i - 1]) + Total(w, q[i])
    BY <1>3, <2>1, <2>2, SumConcat
  <2>4. Total(w, q[i]) = v[s[i]]
    BY DEF PartsSum
  <2>5. g[i] = Total(w, f[i]) /\ g[i - 1] = Total(w, f[i - 1])
    BY <1>2, <2>1 DEF PartsSum
  <2> HIDE DEF g
  <2> QED BY <2>3, <2>4, <2>5
<1>7. Total(v, s) = g[Len(s)]
  <2> HIDE DEF g
  <2>1. IsSum(g, v, s)
    BY <1>4, <1>5, <1>6 DEF IsSum
  <2> QED BY <2>1, SumUnique
<1> QED BY <1>1, <1>2, <1>3, <1>7 DEF PartsSum

(***************************************************************************)
(* Splicing and expanding.                                                  *)
(***************************************************************************)
ListsOf(ct, C) == \A c \in DOMAIN ct : ct[c] \in Seq(C)

\* The weight of a cell once it is spliced.
Through(w, gone, ct, C) ==
  [x \in C |-> IF x \in gone THEN Total(w, Instances(ct, x)) ELSE w[x]]

LEMMA InstancesList ==
  ASSUME NEW C, NEW ct, ListsOf(ct, C), NEW c
  PROVE  Instances(ct, c) \in Seq(C)
<1>1. << >> \in Seq(C)
  OBVIOUS
<1> QED BY <1>1 DEF ListsOf, Instances

LEMMA SpliceSum ==
  ASSUME NEW C, NEW ct, ListsOf(ct, C), NEW w \in Weights(C), NEW s \in Seq(C), NEW gone
  PROVE  /\ Splice(s, gone, ct) \in Seq(C)
         /\ Through(w, gone, ct, C) \in Weights(C)
         /\ Total(w, Splice(s, gone, ct)) = Total(Through(w, gone, ct, C), s)
<1> DEFINE q == [i \in DOMAIN s |-> IF s[i] \in gone THEN Instances(ct, s[i]) ELSE <<s[i]>>]
           v == Through(w, gone, ct, C)
<1>1. DOMAIN s = 1..Len(s) /\ Len(s) \in Nat /\ \A i \in DOMAIN s : s[i] \in C
  OBVIOUS
<1>2. \A x : Instances(ct, x) \in Seq(C)
  BY InstancesList
<1>3. \A x \in C : <<x>> \in Seq(C)
  OBVIOUS
<1>4. q \in Seq(Seq(C)) /\ Len(q) = Len(s)
  <2>1. \A i \in 1..Len(s) : q[i] \in Seq(C)
    BY <1>1, <1>2, <1>3
  <2>2. q \in [1..Len(s) -> Seq(C)]
    BY <1>1, <2>1
  <2> HIDE DEF q
  <2> QED BY <1>1, <2>2
<1>5. v \in Weights(C)
  <2>1. \A x \in C : (IF x \in gone THEN Total(w, Instances(ct, x)) ELSE w[x]) \in Nat
    BY <1>2, SumIsNat DEF Weights
  <2> QED BY <2>1 DEF Through, Weights
<1>6. ASSUME NEW i \in 1..Len(s) PROVE Total(w, q[i]) = v[s[i]]
  <2>1. s[i] \in C
    BY <1>1
  <2>2. CASE s[i] \in gone
    BY <1>1, <2>1, <2>2 DEF Through
  <2>3. CASE s[i] \notin gone
    <3>1. q[i] = <<s[i]>> /\ v[s[i]] = w[s[i]]
      BY <1>1, <2>1, <2>3 DEF Through
    <3> QED BY <2>1, <3>1, SumOne
  <2> QED BY <2>2, <2>3
<1>7. FlattenSeq(q) \in Seq(C) /\ Total(w, FlattenSeq(q)) = Total(v, s)
  <2> HIDE DEF q, v
  <2>1. PartsSum(q, w, v, s)
    BY <1>4, <1>6 DEF PartsSum
  <2> QED BY <1>4, <1>5, <2>1, FlattenSum
<1> QED BY <1>5, <1>7 DEF Splice

Rounds(f, s, gone, ct, C, N) ==
  /\ f \in [0..N -> Seq(C)] /\ f[0] = s
  /\ \A n \in 1..N : f[n] = Splice(f[n - 1], gone, ct)

LEMMA OpenedRounds ==
  ASSUME NEW C, NEW ct, ListsOf(ct, C), NEW s \in Seq(C), NEW gone, NEW N \in Nat
  PROVE  \E f : Rounds(f, s, gone, ct, C, N) /\ Opened(s, gone, ct, N) = f[N]
<1> DEFINE step == [p \in (1..N) \X Seq(C) |-> Splice(p[2], gone, ct)]
           G(g) == [n \in 0..N |-> IF n = 0 THEN s ELSE Splice(g[n - 1], gone, ct)]
           zero == [x \in C |-> 0]
<1>1. N \in Nat
  OBVIOUS
<1>2. \A t \in Seq(C) : Splice(t, gone, ct) \in Seq(C)
  <2>1. zero \in Weights(C)
    BY DEF Weights
  <2> HIDE DEF zero
  <2> QED BY <2>1, SpliceSum
<1>3. step \in [(1..N) \X Seq(C) -> Seq(C)]
  <2>1. \A p \in (1..N) \X Seq(C) : p[2] \in Seq(C)
    OBVIOUS
  <2> QED BY <1>2, <2>1
<1>4. PICK f : Iterates(f, Seq(C), s, N, step)
  <2> HIDE DEF step
  <2> QED BY <1>1, <1>3, Recursion
<1>5. ASSUME NEW n \in 1..N PROVE f[n] = Splice(f[n - 1], gone, ct)
  <2>1. n - 1 \in 0..N
    BY <1>1
  <2>2. <<n, f[n - 1]>> \in (1..N) \X Seq(C)
    BY <1>4, <2>1 DEF Iterates
  <2> QED BY <1>4, <2>2 DEF Iterates
<1>6. f \in [0..N -> Seq(C)] /\ f[0] = s
  BY <1>4 DEF Iterates
<1>7. f = G(f)
  <2>1. \A n \in 0..N : f[n] = IF n = 0 THEN s ELSE Splice(f[n - 1], gone, ct)
    <3> QED BY <1>1, <1>5, <1>6
  <2> QED BY <1>6, <2>1
<1> DEFINE c == CHOOSE g : g = G(g)
<1>8. c = G(c)
  <2> HIDE DEF G
  <2> QED BY <1>7
<1>9. Opened(s, gone, ct, N) = c[N]
  BY DEF Opened
<1> HIDE DEF c
<1>10. c[0] = s /\ \A n \in 1..N : c[n] = Splice(c[n - 1], gone, ct)
  BY <1>1, <1>8
<1> DEFINE P == {n \in Nat : n <= N => c[n] = f[n]}
<1>11. 0 \in P
  BY <1>6, <1>10
<1>12. ASSUME NEW n \in Nat, n \in P PROVE n + 1 \in P
  <2>1. SUFFICES ASSUME n + 1 <= N PROVE c[n + 1] = f[n + 1]
    OBVIOUS
  <2>2. n + 1 \in 1..N /\ (n + 1) - 1 = n /\ c[n] = f[n]
    BY <1>1, <1>12, <2>1
  <2> QED BY <1>5, <1>10, <2>2
<1>13. N \in P
  <2> HIDE DEF P
  <2> QED BY <1>1, <1>11, <1>12, Induction
<1>14. c[N] = f[N]
  BY <1>1, <1>13
<1> QED BY <1>1, <1>5, <1>6, <1>9, <1>14 DEF Rounds

LEMMA RoundsExist ==
  ASSUME NEW C, NEW ct, ListsOf(ct, C), IsFiniteSet(DOMAIN ct), NEW s \in Seq(C), NEW gone
  PROVE  /\ Cardinality(DOMAIN ct) \in Nat
         /\ \E f : /\ Rounds(f, s, gone, ct, C, Cardinality(DOMAIN ct))
                   /\ Expanded(s, gone, ct) = f[Cardinality(DOMAIN ct)]
<1> DEFINE N == Cardinality(DOMAIN ct)
<1>1. N \in Nat
  BY FS_CardinalityType
<1> HIDE DEF N
<1>2. \E f : Rounds(f, s, gone, ct, C, N) /\ Opened(s, gone, ct, N) = f[N]
  BY <1>1, OpenedRounds
<1> QED BY <1>1, <1>2 DEF N, Expanded

\* What splicing keeps, or does not make less, expanding keeps or does not make less.
LEMMA ExpandedSum ==
  ASSUME NEW C, NEW ct, ListsOf(ct, C), IsFiniteSet(DOMAIN ct), NEW s \in Seq(C), NEW gone
  PROVE  /\ Expanded(s, gone, ct) \in Seq(C)
         /\ \A w \in Weights(C) :
              /\ (\A x \in C \cap gone : w[x] = Total(w, Instances(ct, x)))
                   => Total(w, Expanded(s, gone, ct)) = Total(w, s)
              /\ (\A x \in C \cap gone : w[x] = 0)
                   => Total(w, Expanded(s, gone, ct)) >= Total(w, s)
<1> DEFINE N == Cardinality(DOMAIN ct)
<1>1. PICK f : Rounds(f, s, gone, ct, C, N) /\ Expanded(s, gone, ct) = f[N]
  BY RoundsExist
<1>2. /\ N \in Nat /\ f[0] = s
      /\ \A n \in 0..N : f[n] \in Seq(C)
      /\ \A n \in 1..N : f[n] = Splice(f[n - 1], gone, ct)
  BY <1>1, RoundsExist DEF Rounds
<1> HIDE DEF N
<1>3. Expanded(s, gone, ct) \in Seq(C)
  BY <1>1, <1>2
<1>4. ASSUME NEW w \in Weights(C), \A x \in C \cap gone : w[x] = Total(w, Instances(ct, x))
      PROVE  Total(w, f[N]) = Total(w, s)
  <2>1. Through(w, gone, ct, C) = w
    <3>1. \A x \in C : (IF x \in gone THEN Total(w, Instances(ct, x)) ELSE w[x]) = w[x]
      BY <1>4
    <3> QED BY <3>1 DEF Through, Weights
  <2> DEFINE P == {n \in Nat : n <= N => Total(w, f[n]) = Total(w, s)}
  <2>2. 0 \in P
    BY <1>2
  <2>3. ASSUME NEW n \in Nat, n \in P PROVE n + 1 \in P
    <3>1. SUFFICES ASSUME n + 1 <= N PROVE Total(w, f[n + 1]) = Total(w, s)
      OBVIOUS
    <3>2. n + 1 \in 1..N /\ (n + 1) - 1 = n /\ n \in 0..N /\ Total(w, f[n]) = Total(w, s)
      BY <1>2, <2>3, <3>1
    <3>3. f[n + 1] = Splice(f[n], gone, ct) /\ f[n] \in Seq(C)
      BY <1>2, <3>2
    <3>4. Total(w, Splice(f[n], gone, ct)) = Total(Through(w, gone, ct, C), f[n])
      BY <3>3, SpliceSum
    <3> QED BY <2>1, <3>2, <3>3, <3>4
  <2>4. N \in P
    <3> HIDE DEF P
    <3> QED BY <1>2, <2>2, <2>3, Induction
  <2> QED BY <1>2, <2>4
<1>5. ASSUME NEW w \in Weights(C), \A x \in C \cap gone : w[x] = 0
      PROVE  Total(w, f[N]) >= Total(w, s)
  <2> DEFINE v == Through(w, gone, ct, C)
  <2>1. \A t \in Seq(C) : /\ v \in Weights(C) /\ Splice(t, gone, ct) \in Seq(C)
                          /\ Total(w, Splice(t, gone, ct)) = Total(v, t)
    BY SpliceSum
  <2>2. v \in Weights(C)
    <3>1. s \in Seq(C)
      OBVIOUS
    <3> HIDE DEF v
    <3> QED BY <2>1, <3>1
  <2>3. \A x \in C : w[x] <= v[x]
    <3>1. ASSUME NEW x \in C PROVE w[x] <= v[x]
      <4>1. v[x] = IF x \in gone THEN Total(w, Instances(ct, x)) ELSE w[x]
        BY DEF Through
      <4>2. v[x] \in Nat /\ w[x] \in Nat
        BY <2>2 DEF Weights
      <4> QED BY <1>5, <4>1, <4>2
    <3> QED BY <3>1
  <2> HIDE DEF v
  <2>4. ASSUME NEW t \in Seq(C)
        PROVE  Total(w, t) <= Total(w, Splice(t, gone, ct)) /\ Total(w, t) \in Nat
    <3>1. Total(w, t) <= Total(v, t) /\ Total(w, t) \in Nat
      BY <2>2, <2>3, SumMonotone, SumIsNat
    <3> QED BY <2>1, <3>1
  <2> DEFINE P == {n \in Nat : n <= N => Total(w, f[n]) >= Total(w, s)}
  <2>5. 0 \in P
    BY <1>2, <2>4
  <2>6. ASSUME NEW n \in Nat, n \in P PROVE n + 1 \in P
    <3>1. SUFFICES ASSUME n + 1 <= N PROVE Total(w, f[n + 1]) >= Total(w, s)
      OBVIOUS
    <3>2. n + 1 \in 1..N /\ (n + 1) - 1 = n /\ n \in 0..N /\ n + 1 \in 0..N /\ Total(w, f[n]) >= Total(w, s)
      BY <1>2, <2>6, <3>1
    <3>3. f[n + 1] = Splice(f[n], gone, ct) /\ f[n] \in Seq(C) /\ f[n + 1] \in Seq(C)
      BY <1>2, <3>2
    <3>4. /\ Total(w, f[n]) <= Total(w, f[n + 1])
          /\ Total(w, f[n]) \in Nat /\ Total(w, f[n + 1]) \in Nat /\ Total(w, s) \in Nat
      BY <2>4, <3>3
    <3> QED BY <3>2, <3>4
  <2>7. N \in P
    <3> HIDE DEF P
    <3> QED BY <1>2, <2>5, <2>6, Induction
  <2> QED BY <1>2, <2>7
<1> QED BY <1>1, <1>3, <1>4, <1>5

(***************************************************************************)
(* Membership in lists, by counting.                                        *)
(***************************************************************************)
LEMMA IndCounts ==
  ASSUME NEW C, NEW B, NEW s \in Seq(C)
  PROVE  /\ Ind(B, C) \in Weights(C)
         /\ IsFiniteSet({i \in DOMAIN s : s[i] \in B})
         /\ Total(Ind(B, C), s) = Cardinality({i \in DOMAIN s : s[i] \in B})
         /\ Total(Ind(B, C), s) = 0 <=> \A i \in DOMAIN s : s[i] \notin B
<1> DEFINE at == {i \in DOMAIN s : s[i] \in B}
<1>1. Ind(B, C) \in Weights(C)
  BY DEF Ind, Weights
<1>2. IsFiniteSet(at) /\ Total(Ind(B, C), s) = Cardinality(at)
  BY SumCounts
<1>3. Cardinality(at) = 0 <=> at = {}
  <2> HIDE DEF at
  <2> QED BY <1>2, FS_EmptySet
<1> QED BY <1>1, <1>2, <1>3

LEMMA TotalZero ==
  ASSUME NEW C, NEW w \in Weights(C), NEW s \in Seq(C), \A i \in DOMAIN s : w[s[i]] = 0
  PROVE  Total(w, s) = 0
<1>1. Ind({}, C) \in Weights(C) /\ Total(Ind({}, C), s) = 0
  BY IndCounts
<1>2. \A i \in DOMAIN s : w[s[i]] = Ind({}, C)[s[i]]
  BY DEF Ind
<1>3. Total(w, s) = Total(Ind({}, C), s)
  BY <1>1, <1>2, SumSame
<1> QED BY <1>1, <1>3

(***************************************************************************)
(* Ranks: a cell is above its instances.  Valuations: a cell weighs as much *)
(* as its instances together.                                               *)
(***************************************************************************)
Ranking(r, ct, C) ==
  /\ r \in Weights(C)
  /\ \A c \in DOMAIN ct : \A i \in DOMAIN ct[c] : r[ct[c][i]] < r[c]

Valuation(v, ct, C) ==
  /\ v \in Weights(C)
  /\ \A c \in DOMAIN ct : v[c] = Total(v, ct[c])

Below(s, r, k) == \A i \in DOMAIN s : r[s[i]] < k

LEMMA SpliceBelow ==
  ASSUME NEW C, NEW ct, ListsOf(ct, C), DOMAIN ct \subseteq C, NEW r, Ranking(r, ct, C),
         NEW s \in Seq(C), NEW gone, NEW k \in Nat, Below(s, r, k)
  PROVE  Splice(s, gone, ct) \in Seq(C) /\ Below(Splice(s, gone, ct), r, k)
<1> DEFINE B == {x \in C : r[x] >= k}
           w == Ind(B, C)
           v == Through(w, gone, ct, C)
<1>1. w \in Weights(C)
  BY IndCounts
<1>2. v \in Weights(C) /\ Splice(s, gone, ct) \in Seq(C) /\ Total(w, Splice(s, gone, ct)) = Total(v, s)
  <2> HIDE DEF w
  <2> QED BY <1>1, SpliceSum
<1>3. ASSUME NEW i \in DOMAIN s PROVE v[s[i]] = 0
  <2>1. s[i] \in C /\ r[s[i]] < k /\ r[s[i]] \in Nat
    BY DEF Below, Ranking, Weights
  <2>2. CASE s[i] \in gone
    <3>1. v[s[i]] = Total(w, Instances(ct, s[i]))
      BY <2>1, <2>2 DEF Through
    <3>2. Instances(ct, s[i]) \in Seq(C)
      BY InstancesList
    <3>3. ASSUME NEW j \in DOMAIN Instances(ct, s[i]) PROVE Instances(ct, s[i])[j] \notin B
      <4>1. s[i] \in DOMAIN ct /\ Instances(ct, s[i]) = ct[s[i]]
        BY <3>3 DEF Instances
      <4>2. Instances(ct, s[i])[j] \in C
        BY <3>2
      <4>3. r[Instances(ct, s[i])[j]] < r[s[i]] /\ r[Instances(ct, s[i])[j]] \in Nat
        BY <4>1, <4>2 DEF Ranking, Weights
      <4> QED BY <2>1, <4>3
    <3>4. Total(w, Instances(ct, s[i])) = 0
      <4> HIDE DEF B
      <4> QED BY <3>2, <3>3, IndCounts
    <3> QED BY <3>1, <3>4
  <2>3. CASE s[i] \notin gone
    <3>1. v[s[i]] = w[s[i]] /\ s[i] \notin B
      BY <2>1, <2>3 DEF Through
    <3> QED BY <2>1, <3>1 DEF Ind
  <2> QED BY <2>2, <2>3
<1>4. Total(w, Splice(s, gone, ct)) = 0
  <2> HIDE DEF v, w
  <2> QED BY <1>2, <1>3, TotalZero
<1>5. \A i \in DOMAIN Splice(s, gone, ct) : Splice(s, gone, ct)[i] \notin B
  <2> HIDE DEF B
  <2> QED BY <1>2, <1>4, IndCounts
<1>6. \A i \in DOMAIN Splice(s, gone, ct) : Splice(s, gone, ct)[i] \in C
  BY <1>2
<1>7. ASSUME NEW i \in DOMAIN Splice(s, gone, ct) PROVE r[Splice(s, gone, ct)[i]] < k
  <2>1. r[Splice(s, gone, ct)[i]] \in Nat
    BY <1>6 DEF Ranking, Weights
  <2> QED BY <1>5, <1>6, <2>1
<1> QED BY <1>2, <1>7 DEF Below

LEMMA ExpandedBelow ==
  ASSUME NEW C, NEW ct, ListsOf(ct, C), DOMAIN ct \subseteq C, IsFiniteSet(DOMAIN ct),
         NEW r, Ranking(r, ct, C), NEW s \in Seq(C), NEW gone, NEW k \in Nat, Below(s, r, k)
  PROVE  Below(Expanded(s, gone, ct), r, k)
<1> DEFINE N == Cardinality(DOMAIN ct)
<1>1. PICK f : Rounds(f, s, gone, ct, C, N) /\ Expanded(s, gone, ct) = f[N]
  BY RoundsExist
<1>2. /\ N \in Nat /\ f[0] = s
      /\ \A n \in 0..N : f[n] \in Seq(C)
      /\ \A n \in 1..N : f[n] = Splice(f[n - 1], gone, ct)
  BY <1>1, RoundsExist DEF Rounds
<1> HIDE DEF N
<1> DEFINE P == {n \in Nat : n <= N => Below(f[n], r, k)}
<1>3. 0 \in P
  BY <1>2
<1>4. ASSUME NEW n \in Nat, n \in P PROVE n + 1 \in P
  <2>1. SUFFICES ASSUME n + 1 <= N PROVE Below(f[n + 1], r, k)
    OBVIOUS
  <2>2. n + 1 \in 1..N /\ (n + 1) - 1 = n /\ n \in 0..N /\ Below(f[n], r, k)
    BY <1>2, <1>4, <2>1
  <2>3. f[n + 1] = Splice(f[n], gone, ct) /\ f[n] \in Seq(C)
    BY <1>2, <2>2
  <2> QED BY <2>2, <2>3, SpliceBelow
<1>5. N \in P
  <2> HIDE DEF P
  <2> QED BY <1>2, <1>3, <1>4, Induction
<1> QED BY <1>1, <1>2, <1>5

\* Expanding all cells comes to an end within the rounds.
LEMMA ExpandedLeaves ==
  ASSUME NEW C, NEW ct, ListsOf(ct, C), DOMAIN ct \subseteq C, IsFiniteSet(DOMAIN ct),
         NEW r, Ranking(r, ct, C), \A x \in C : r[x] <= Cardinality(DOMAIN ct),
         NEW c \in DOMAIN ct
  PROVE  \A i \in DOMAIN Expanded(ct[c], DOMAIN ct, ct) :
            Expanded(ct[c], DOMAIN ct, ct)[i] \notin DOMAIN ct
<1> DEFINE N == Cardinality(DOMAIN ct)
           gone == DOMAIN ct
           High(n) == {x \in gone : r[x] + n >= N}
<1>1. PICK f : Rounds(f, ct[c], gone, ct, C, N) /\ Expanded(ct[c], gone, ct) = f[N]
  BY RoundsExist DEF ListsOf
<1>2. /\ N \in Nat /\ f[0] = ct[c]
      /\ \A n \in 0..N : f[n] \in Seq(C)
      /\ \A n \in 1..N : f[n] = Splice(f[n - 1], gone, ct)
  BY <1>1, RoundsExist DEF Rounds, ListsOf
<1>3. gone \subseteq C /\ \A x \in C : r[x] \in Nat /\ r[x] <= N
  BY DEF Ranking, Weights
<1>4. \A x \in gone : ct[x] \in Seq(C) /\ \A i \in DOMAIN ct[x] : ct[x][i] \in C /\ r[ct[x][i]] < r[x]
  BY DEF ListsOf, Ranking
<1> HIDE DEF N, gone
<1> DEFINE P == {n \in Nat : n <= N => \A i \in DOMAIN f[n] : f[n][i] \notin High(n)}
<1>5. 0 \in P
  <2>1. c \in gone
    BY DEF gone
  <2>2. ASSUME NEW i \in DOMAIN f[0] PROVE f[0][i] \notin High(0)
    <3>1. f[0][i] \in C /\ r[f[0][i]] < r[c] /\ r[c] <= N /\ r[c] \in Nat /\ r[f[0][i]] \in Nat
      BY <1>2, <1>3, <1>4, <2>1
    <3> QED BY <1>2, <3>1
  <2> QED BY <2>2
<1>6. ASSUME NEW n \in Nat, n \in P PROVE n + 1 \in P
  <2>1. SUFFICES ASSUME n + 1 <= N PROVE \A i \in DOMAIN f[n + 1] : f[n + 1][i] \notin High(n + 1)
    OBVIOUS
  <2>2. n + 1 \in 1..N /\ (n + 1) - 1 = n /\ n \in 0..N /\ n + 1 \in 0..N /\ n <= N
    <3>1. N \in Nat
      BY <1>2
    <3> QED BY <2>1, <3>1
  <2>3. f[n + 1] = Splice(f[n], gone, ct) /\ f[n] \in Seq(C) /\ f[n + 1] \in Seq(C)
    BY <1>2, <2>2
  <2>4. \A i \in DOMAIN f[n] : f[n][i] \notin High(n)
    BY <1>6, <2>2
  <2> DEFINE B == High(n + 1)
             w == Ind(B, C)
             v == Through(w, gone, ct, C)
  <2>5. w \in Weights(C)
    BY <2>3, IndCounts
  <2>6. v \in Weights(C) /\ Total(w, Splice(f[n], gone, ct)) = Total(v, f[n])
    <3> HIDE DEF w
    <3> QED BY <2>3, <2>5, SpliceSum
  <2>7. ASSUME NEW i \in DOMAIN f[n] PROVE v[f[n][i]] = 0
    <3> DEFINE y == f[n][i]
    <3>1. y \in C /\ y \notin High(n) /\ r[y] \in Nat
      BY <1>3, <2>3, <2>4
    <3>2. CASE y \in gone
      <4>1. v[y] = Total(w, ct[y])
        BY <3>1, <3>2 DEF Through, Instances, gone
      <4>2. ct[y] \in Seq(C)
        BY <1>4, <3>2
      <4>3. ASSUME NEW j \in DOMAIN ct[y] PROVE ct[y][j] \notin B
        <5>1. ct[y][j] \in C /\ r[ct[y][j]] < r[y] /\ r[ct[y][j]] \in Nat /\ r[y] + n < N
          BY <1>2, <1>3, <1>4, <3>1, <3>2
        <5> QED BY <1>2, <3>1, <5>1
      <4>4. Total(w, ct[y]) = 0
        <5> HIDE DEF B, y
        <5> QED BY <4>2, <4>3, IndCounts
      <4> QED BY <4>1, <4>4
    <3>3. CASE y \notin gone
      <4>1. v[y] = w[y] /\ y \notin B
        BY <3>1, <3>3 DEF Through
      <4> QED BY <3>1, <4>1 DEF Ind
    <3> QED BY <3>2, <3>3
  <2>8. Total(w, f[n + 1]) = 0
    <3> HIDE DEF v, w
    <3> QED BY <2>3, <2>6, <2>7, TotalZero
  <2> HIDE DEF B
  <2>9. \A i \in DOMAIN f[n + 1] : f[n + 1][i] \notin B
    BY <2>3, <2>8, IndCounts
  <2> QED BY <2>9 DEF B
<1>7. N \in P
  <2> HIDE DEF P
  <2> QED BY <1>2, <1>5, <1>6, Induction
<1>8. \A i \in DOMAIN f[N] : f[N][i] \notin High(N)
  BY <1>2, <1>7
<1>9. High(N) = gone
  BY <1>2, <1>3
<1> QED BY <1>1, <1>8, <1>9 DEF gone

(***************************************************************************)
(* Where the members of a list come from.                                   *)
(***************************************************************************)
LEMMA IndZero ==
  ASSUME NEW C, NEW B, NEW s \in Seq(C)
  PROVE  Total(Ind(B, C), s) = 0 <=> \A i \in DOMAIN s : s[i] \notin B
BY IndCounts

LEMMA IndWeights ==
  ASSUME NEW C, NEW B
  PROVE  Ind(B, C) \in Weights(C)
BY DEF Ind, Weights

Within(s, U) == \A i \in DOMAIN s : s[i] \in U
Closed(U, ct) == \A c \in DOMAIN ct : c \in U => Within(ct[c], U)

\* What splicing puts for a member x of a list.
Replaced(x, gone, ct, U) == IF x \in gone THEN Within(Instances(ct, x), U) ELSE x \in U

LEMMA SpliceWithin ==
  ASSUME NEW C, NEW ct, ListsOf(ct, C), NEW s \in Seq(C), NEW gone, NEW U,
         \A i \in DOMAIN s : Replaced(s[i], gone, ct, U)
  PROVE  Within(Splice(s, gone, ct), U)
<1> DEFINE B == C \ U
           w == Ind(B, C)
           v == Through(w, gone, ct, C)
           t == Splice(s, gone, ct)
<1>1. w \in Weights(C)
  BY IndWeights
<1>2. t \in Seq(C) /\ v \in Weights(C) /\ Total(w, t) = Total(v, s)
  <2> HIDE DEF w
  <2> QED BY <1>1, SpliceSum
<1>3. ASSUME NEW i \in DOMAIN s PROVE v[s[i]] = 0
  <2> DEFINE x == s[i]
  <2>1. x \in C /\ v[x] = IF x \in gone THEN Total(w, Instances(ct, x)) ELSE w[x]
    BY DEF Through
  <2>2. Instances(ct, x) \in Seq(C)
    BY InstancesList
  <2>3. CASE x \in gone
    <3>1. \A j \in DOMAIN Instances(ct, x) : Instances(ct, x)[j] \notin B
      BY <2>3 DEF Replaced, Within
    <3> HIDE DEF B, x
    <3>2. Total(w, Instances(ct, x)) = 0
      BY <2>2, <3>1, IndZero
    <3>3. v[x] = Total(w, Instances(ct, x))
      BY <2>1, <2>3
    <3> HIDE DEF v, w
    <3> QED BY <3>2, <3>3 DEF x
  <2>4. CASE x \notin gone
    <3>1. x \notin B
      BY <2>4 DEF Replaced
    <3> QED BY <2>1, <2>4, <3>1 DEF Ind
  <2> QED BY <2>3, <2>4
<1>4. Total(w, t) = 0
  <2> HIDE DEF v, w, t
  <2> QED BY <1>2, <1>3, TotalZero
<1> HIDE DEF B, t
<1>5. \A i \in DOMAIN t : t[i] \notin B
  BY <1>2, <1>4, IndZero
<1>6. \A i \in DOMAIN t : t[i] \in C
  BY <1>2
<1> QED BY <1>5, <1>6 DEF Within, B, t

LEMMA TotalPositive ==
  ASSUME NEW C, NEW w \in Weights(C), NEW s \in Seq(C), Total(w, s) = 0, NEW i \in DOMAIN s
  PROVE  w[s[i]] = 0
<1> DEFINE x == s[i]
           z == Ind({x}, C)
<1>1. x \in C /\ w[x] \in Nat
  BY DEF Weights
<1>2. SUFFICES ASSUME w[x] # 0 PROVE FALSE
  OBVIOUS
<1>3. z \in Weights(C) /\ (Total(z, s) = 0 => x \notin {x})
  BY IndCounts
<1>4. \A y \in C : z[y] <= w[y]
  BY <1>1, <1>2 DEF Ind, Weights
<1> HIDE DEF z, x
<1>5. Total(z, s) <= Total(w, s) /\ Total(z, s) \in Nat
  BY <1>3, <1>4, SumMonotone, SumIsNat
<1> QED BY <1>3, <1>5

LEMMA SpliceHas ==
  ASSUME NEW C, NEW ct, ListsOf(ct, C), NEW s \in Seq(C), NEW gone,
         NEW i \in DOMAIN s, s[i] \in gone, NEW j \in DOMAIN Instances(ct, s[i])
  PROVE  \E k \in DOMAIN Splice(s, gone, ct) : Splice(s, gone, ct)[k] = Instances(ct, s[i])[j]
<1> DEFINE a == Instances(ct, s[i])[j]
           t == Splice(s, gone, ct)
           w == Ind({a}, C)
           v == Through(w, gone, ct, C)
<1>1. SUFFICES ASSUME \A k \in DOMAIN t : t[k] # a PROVE FALSE
  OBVIOUS
<1>2. w \in Weights(C)
  BY IndWeights
<1>3. t \in Seq(C) /\ v \in Weights(C) /\ Total(w, t) = Total(v, s)
  <2> HIDE DEF w
  <2> QED BY <1>2, SpliceSum
<1>4. Total(w, t) = 0
  <2>1. \A k \in DOMAIN t : t[k] \notin {a}
    BY <1>1
  <2> HIDE DEF t, a
  <2> QED BY <1>3, <2>1, IndZero
<1>5. v[s[i]] = 0
  <2> HIDE DEF v, w, t
  <2> QED BY <1>3, <1>4, TotalPositive
<1>6. v[s[i]] = Total(w, Instances(ct, s[i]))
  BY DEF Through
<1>7. Instances(ct, s[i]) \in Seq(C)
  BY InstancesList
<1>8. a \notin {a}
  <2> HIDE DEF a
  <2>1. \A m \in DOMAIN Instances(ct, s[i]) : Instances(ct, s[i])[m] \notin {a}
    BY <1>5, <1>6, <1>7, IndZero
  <2> QED BY <2>1 DEF a
<1> QED BY <1>8

LEMMA ExpandedWithin ==
  ASSUME NEW C, NEW ct, ListsOf(ct, C), IsFiniteSet(DOMAIN ct), NEW s \in Seq(C), NEW gone,
         NEW U, Closed(U, ct), Within(s, U)
  PROVE  Within(Expanded(s, gone, ct), U)
<1> DEFINE N == Cardinality(DOMAIN ct)
<1>1. PICK f : Rounds(f, s, gone, ct, C, N) /\ Expanded(s, gone, ct) = f[N]
  BY RoundsExist
<1>2. /\ N \in Nat /\ f[0] = s
      /\ \A n \in 0..N : f[n] \in Seq(C)
      /\ \A n \in 1..N : f[n] = Splice(f[n - 1], gone, ct)
  BY <1>1, RoundsExist DEF Rounds
<1> HIDE DEF N
<1> DEFINE P == {n \in Nat : n <= N => Within(f[n], U)}
<1>3. 0 \in P
  BY <1>2
<1>4. ASSUME NEW n \in Nat, n \in P PROVE n + 1 \in P
  <2>1. SUFFICES ASSUME n + 1 <= N PROVE Within(f[n + 1], U)
    OBVIOUS
  <2>2. n + 1 \in 1..N /\ (n + 1) - 1 = n /\ n \in 0..N /\ Within(f[n], U)
    BY <1>2, <1>4, <2>1
  <2>3. f[n + 1] = Splice(f[n], gone, ct) /\ f[n] \in Seq(C)
    BY <1>2, <2>2
  <2>4. ASSUME NEW i \in DOMAIN f[n] PROVE Replaced(f[n][i], gone, ct, U)
    BY <2>2 DEF Replaced, Within, Closed, Instances
  <2> QED BY <2>3, <2>4, SpliceWithin
<1>5. N \in P
  <2> HIDE DEF P
  <2> QED BY <1>2, <1>3, <1>4, Induction
<1> QED BY <1>1, <1>2, <1>5

(***************************************************************************)
(* Where no cell is its own part, there is a ranking, and there is a        *)
(* valuation for any weights of the primitive devices.                      *)
(***************************************************************************)
Acyclic(ct) ==
  \A S \in SUBSET DOMAIN ct : S # {} =>
    \E c \in S : \A i \in DOMAIN ct[c] : ct[c][i] \notin S

\* The cells whose instances are all in H, or primitive.
Above(ct, H) == {c \in DOMAIN ct : \A i \in DOMAIN ct[c] : ct[c][i] \in DOMAIN ct => ct[c][i] \in H}

LEMMA RankingExists ==
  ASSUME NEW C, NEW ct, ListsOf(ct, C), DOMAIN ct \subseteq C, IsFiniteSet(DOMAIN ct), Acyclic(ct)
  PROVE  \E r : Ranking(r, ct, C) /\ \A x \in C : r[x] <= Cardinality(DOMAIN ct)
<1> DEFINE D0 == DOMAIN ct
           N == Cardinality(D0)
           step == [p \in (1..N) \X SUBSET D0 |-> Above(ct, p[2])]
<1>1. N \in Nat /\ IsFiniteSet(D0)
  BY FS_CardinalityType
<1>2. step \in [(1..N) \X SUBSET D0 -> SUBSET D0]
  BY DEF Above
<1>3. PICK H : Iterates(H, SUBSET D0, {}, N, step)
  <2>1. {} \in SUBSET D0
    OBVIOUS
  <2> HIDE DEF N, step, D0
  <2> QED BY <1>1, <1>2, <2>1, Recursion
<1>4. H[0] = {} /\ \A n \in 0..N : H[n] \subseteq D0
  BY <1>3 DEF Iterates
<1>5. ASSUME NEW n \in 1..N PROVE H[n] = Above(ct, H[n - 1])
  <2>1. n - 1 \in 0..N
    BY <1>1
  <2>2. <<n, H[n - 1]>> \in (1..N) \X SUBSET D0
    BY <1>4, <2>1
  <2> QED BY <1>3, <2>2 DEF Iterates
<1> HIDE DEF N, step
<1> DEFINE P == {n \in Nat : n + 1 <= N => H[n] \subseteq H[n + 1]}
           Q == {n \in Nat : n <= N => H[n] = D0 \/ Cardinality(H[n]) >= n}
<1>6. 0 \in P
  BY <1>4
<1>7. ASSUME NEW n \in Nat, n \in P PROVE n + 1 \in P
  <2>1. SUFFICES ASSUME (n + 1) + 1 <= N PROVE H[n + 1] \subseteq H[(n + 1) + 1]
    OBVIOUS
  <2>2. /\ n + 1 \in 1..N /\ (n + 1) - 1 = n
        /\ (n + 1) + 1 \in 1..N /\ ((n + 1) + 1) - 1 = n + 1 /\ n + 1 <= N
    BY <1>1, <2>1
  <2>3. H[n] \subseteq H[n + 1] /\ H[n + 1] = Above(ct, H[n]) /\ H[(n + 1) + 1] = Above(ct, H[n + 1])
    BY <1>5, <1>7, <2>2
  <2> QED BY <2>3 DEF Above
<1>8. \A n \in Nat : n + 1 <= N => H[n] \subseteq H[n + 1]
  <2>1. Nat \subseteq P
    <3> HIDE DEF P
    <3> QED BY <1>6, <1>7, Induction
  <2> QED BY <2>1
<1>9. 0 \in Q
  BY <1>4, FS_EmptySet
<1>10. ASSUME NEW n \in Nat, n \in Q PROVE n + 1 \in Q
  <2>1. SUFFICES ASSUME n + 1 <= N, H[n + 1] # D0 PROVE Cardinality(H[n + 1]) >= n + 1
    OBVIOUS
  <2>2. n + 1 \in 1..N /\ (n + 1) - 1 = n /\ n \in 0..N /\ n + 1 \in 0..N /\ n <= N
    BY <1>1, <2>1
  <2>3. /\ H[n] \subseteq H[n + 1] /\ H[n + 1] = Above(ct, H[n])
        /\ H[n] \subseteq D0 /\ H[n + 1] \subseteq D0
    BY <1>4, <1>5, <1>8, <2>1, <2>2
  <2>4. H[n] # D0
    BY <2>1, <2>3
  <2>5. PICK c \in D0 \ H[n] : \A i \in DOMAIN ct[c] : ct[c][i] \notin D0 \ H[n]
    <3>1. D0 \ H[n] # {}
      BY <2>3, <2>4
    <3> QED BY <3>1 DEF Acyclic
  <2>6. c \in H[n + 1] /\ c \notin H[n]
    BY <2>3, <2>5 DEF Above
  <2>7. /\ IsFiniteSet(H[n]) /\ IsFiniteSet(H[n + 1])
        /\ Cardinality(H[n]) \in Nat /\ Cardinality(H[n + 1]) \in Nat
    BY <1>1, <2>3, FS_Subset, FS_CardinalityType
  <2>8. Cardinality(H[n]) <= Cardinality(H[n + 1]) /\ Cardinality(H[n]) # Cardinality(H[n + 1])
    BY <2>3, <2>6, <2>7, FS_Subset
  <2>9. Cardinality(H[n]) >= n
    BY <1>10, <2>2, <2>4
  <2> QED BY <2>7, <2>8, <2>9
<1>11. H[N] = D0
  <2>1. N \in Q
    <3> HIDE DEF Q
    <3> QED BY <1>1, <1>9, <1>10, Induction
  <2>2. H[N] = D0 \/ Cardinality(H[N]) >= N
    BY <1>1, <2>1
  <2>3. H[N] \subseteq D0
    BY <1>1, <1>4
  <2>4. /\ Cardinality(H[N]) <= Cardinality(D0) /\ Cardinality(H[N]) \in Nat
        /\ Cardinality(D0) = Cardinality(H[N]) => D0 = H[N]
    BY <1>1, <2>3, FS_Subset, FS_CardinalityType
  <2>5. N = Cardinality(D0)
    BY DEF N
  <2> QED BY <1>1, <2>2, <2>4, <2>5
<1> DEFINE T(x) == {n \in 0..N : x \in H[n]}
           least(x) == CHOOSE n \in T(x) : \A m \in T(x) : n <= m
           r == [x \in C |-> IF x \in D0 THEN least(x) ELSE 0]
<1>12. ASSUME NEW x \in D0 PROVE least(x) \in T(x) /\ \A m \in T(x) : least(x) <= m
  <2>1. T(x) \in SUBSET Nat /\ T(x) # {}
    BY <1>1, <1>11
  <2>2. \E n \in T(x) : \A m \in T(x) : n <= m
    <3> HIDE DEF T
    <3> QED BY <2>1, Least
  <2> HIDE DEF T
  <2> QED BY <2>2
<1>13. ASSUME NEW x \in D0 PROVE r[x] \in 1..N /\ x \in H[r[x]] /\ \A m \in 0..N : x \in H[m] => r[x] <= m
  <2>1. r[x] = least(x)
    BY <1>13
  <2>2. least(x) \in 0..N /\ x \in H[least(x)] /\ \A m \in 0..N : x \in H[m] => least(x) <= m
    BY <1>12
  <2>3. least(x) # 0
    BY <1>4, <2>2
  <2> HIDE DEF least
  <2> QED BY <1>1, <2>1, <2>2, <2>3
<1>14. \A x \in C : x \notin D0 => r[x] = 0
  OBVIOUS
<1>15. \A x \in C : r[x] \in Nat /\ r[x] <= N
  <2> HIDE DEF r
  <2> QED BY <1>1, <1>13, <1>14
<1>16. r \in Weights(C)
  <2>1. r = [x \in C |-> r[x]]
    OBVIOUS
  <2> HIDE DEF r
  <2> QED BY <1>15, <2>1 DEF Weights
<1> HIDE DEF r
<1>17. ASSUME NEW c \in D0, NEW i \in DOMAIN ct[c] PROVE r[ct[c][i]] < r[c]
  <2>1. r[c] \in 1..N /\ c \in H[r[c]] /\ r[c] - 1 \in 0..N
    BY <1>1, <1>13
  <2>2. c \in Above(ct, H[r[c] - 1])
    BY <1>5, <2>1
  <2>3. ct[c][i] \in C
    BY DEF ListsOf
  <2>4. CASE ct[c][i] \in D0
    <3>1. ct[c][i] \in H[r[c] - 1]
      BY <2>2, <2>4 DEF Above
    <3>2. r[ct[c][i]] <= r[c] - 1 /\ r[ct[c][i]] \in Nat
      BY <1>13, <1>15, <2>1, <2>3, <2>4, <3>1
    <3> QED BY <1>1, <2>1, <3>2
  <2>5. CASE ct[c][i] \notin D0
    BY <1>1, <1>14, <2>1, <2>3, <2>5
  <2> QED BY <2>4, <2>5
<1> QED BY <1>15, <1>16, <1>17 DEF Ranking, N

LEMMA ValuationExists ==
  ASSUME NEW C, NEW ct, ListsOf(ct, C), DOMAIN ct \subseteq C,
         NEW r, Ranking(r, ct, C), NEW N \in Nat, \A x \in C : r[x] <= N, NEW w \in Weights(C)
  PROVE  \E v : Valuation(v, ct, C) /\ \A x \in C \ DOMAIN ct : v[x] = w[x]
<1> DEFINE D0 == DOMAIN ct
           base == [x \in C |-> IF x \in D0 THEN 0 ELSE w[x]]
           Next0(u) == [x \in C |-> IF x \in D0 THEN Total(u, ct[x]) ELSE w[x]]
           step == [p \in (1..(N + 1)) \X Weights(C) |-> Next0(p[2])]
<1>1. \A x \in D0 : ct[x] \in Seq(C)
  BY DEF ListsOf
<1>2. base \in Weights(C)
  BY DEF Weights
<1>3. ASSUME NEW u \in Weights(C) PROVE Next0(u) \in Weights(C)
  <2>1. \A x \in C : (IF x \in D0 THEN Total(u, ct[x]) ELSE w[x]) \in Nat
    BY <1>1, SumIsNat DEF Weights
  <2> QED BY <2>1 DEF Weights
<1>4. step \in [(1..(N + 1)) \X Weights(C) -> Weights(C)]
  <2>1. \A p \in (1..(N + 1)) \X Weights(C) : p[2] \in Weights(C)
    OBVIOUS
  <2> HIDE DEF Next0
  <2> QED BY <1>3, <2>1
<1>5. PICK f : Iterates(f, Weights(C), base, N + 1, step)
  <2>1. N + 1 \in Nat
    OBVIOUS
  <2> HIDE DEF base, step
  <2> QED BY <1>2, <1>4, <2>1, Recursion
<1>6. f[0] = base /\ \A n \in 0..(N + 1) : f[n] \in Weights(C)
  BY <1>5 DEF Iterates
<1>7. ASSUME NEW n \in 0..N PROVE f[n + 1] = Next0(f[n])
  <2>1. n + 1 \in 1..(N + 1) /\ (n + 1) - 1 = n /\ n \in 0..(N + 1)
    OBVIOUS
  <2>2. <<n + 1, f[n]>> \in (1..(N + 1)) \X Weights(C)
    BY <1>6, <2>1
  <2>3. f[n + 1] = step[<<n + 1, f[(n + 1) - 1]>>]
    BY <1>5, <2>1 DEF Iterates
  <2>4. step[<<n + 1, f[n]>>] = Next0(f[n])
    <3> HIDE DEF Next0
    <3> QED BY <2>2
  <2> HIDE DEF step, Next0
  <2> QED BY <2>1, <2>3, <2>4
<1>8. \A n \in 0..N : \A x \in C :
         f[n + 1][x] = IF x \in D0 THEN Total(f[n], ct[x]) ELSE w[x]
  BY <1>7
<1>9. \A x \in C : f[0][x] = IF x \in D0 THEN 0 ELSE w[x]
  BY <1>6
<1> HIDE DEF step, Next0, base, D0
<1>10. \A x \in C : r[x] \in Nat
  BY DEF Ranking, Weights
<1> DEFINE P == {n \in Nat : n <= N => \A x \in C : r[x] <= n => f[n + 1][x] = f[n][x]}
<1>11. 0 \in P
  <2>1. ASSUME NEW x \in C, r[x] <= 0 PROVE f[0 + 1][x] = f[0][x]
    <3>1. 0 \in 0..N /\ 0 \in 0..(N + 1)
      OBVIOUS
    <3>2. CASE x \in D0
      <4>1. ASSUME NEW i \in DOMAIN ct[x] PROVE FALSE
        <5>1. r[ct[x][i]] < r[x] /\ ct[x][i] \in C
          BY <1>1, <3>2 DEF Ranking, D0
        <5> QED BY <1>10, <2>1, <5>1
      <4>2. Total(f[0], ct[x]) = 0
        BY <1>1, <1>6, <3>1, <3>2, <4>1, TotalZero
      <4> QED BY <1>8, <1>9, <3>1, <3>2, <4>2
    <3>3. CASE x \notin D0
      BY <1>8, <1>9, <3>1, <3>3
    <3> QED BY <3>2, <3>3
  <2> QED BY <2>1
<1>12. ASSUME NEW n \in Nat, n \in P PROVE n + 1 \in P
  <2>1. SUFFICES ASSUME n + 1 <= N, NEW x \in C, r[x] <= n + 1
                 PROVE  f[(n + 1) + 1][x] = f[n + 1][x]
    OBVIOUS
  <2>2. n \in 0..N /\ n + 1 \in 0..N /\ n \in 0..(N + 1) /\ n + 1 \in 0..(N + 1) /\ n <= N
    BY <2>1
  <2>3. CASE x \in D0
    <3>1. ASSUME NEW i \in DOMAIN ct[x] PROVE f[n + 1][ct[x][i]] = f[n][ct[x][i]]
      <4>1. r[ct[x][i]] < r[x] /\ ct[x][i] \in C
        BY <1>1, <2>3 DEF Ranking, D0
      <4>2. r[ct[x][i]] <= n
        BY <1>10, <2>1, <4>1
      <4> QED BY <1>12, <2>2, <4>1, <4>2
    <3>2. Total(f[n + 1], ct[x]) = Total(f[n], ct[x])
      BY <1>1, <1>6, <2>2, <2>3, <3>1, SumSame
    <3> QED BY <1>8, <2>2, <2>3, <3>2
  <2>4. CASE x \notin D0
    BY <1>8, <2>2, <2>4
  <2> QED BY <2>3, <2>4
<1>13. N \in P
  <2> HIDE DEF P
  <2> QED BY <1>11, <1>12, Induction
<1>14. \A x \in C : f[N + 1][x] = f[N][x]
  BY <1>13
<1>15. N \in 0..N /\ N \in 0..(N + 1)
  OBVIOUS
<1>16. Valuation(f[N], ct, C)
  <2>1. \A c \in D0 : c \in C
    BY DEF D0
  <2>2. \A c \in D0 : f[N][c] = Total(f[N], ct[c])
    BY <1>8, <1>14, <1>15, <2>1
  <2> QED BY <1>6, <1>15, <2>2 DEF Valuation, D0
<1>17. \A x \in C \ D0 : f[N][x] = w[x]
  BY <1>8, <1>14, <1>15
<1> QED BY <1>16, <1>17 DEF D0

(***************************************************************************)
(* What a cell comes down to is told by the valuations.                     *)
(***************************************************************************)
Named(n, C) == {x \in C : x[1] = n}

Leaves(ct, c) == Expanded(Instances(ct, c), DOMAIN ct, ct)
LeavesNamed(ct, c, n) == {i \in DOMAIN Leaves(ct, c) : Leaves(ct, c)[i][1] = n}
LeafNames(ct, c) == {x[1] : x \in ToSet(Leaves(ct, c))}

\* As many leaves of cell c have name n as the valuation v says.
CountedBy(v, ct, c, n) ==
  /\ Cardinality(LeavesNamed(ct, c, n)) = v[c]
  /\ n \in LeafNames(ct, c) <=> v[c] # 0

LEMMA LeavesCount ==
  ASSUME NEW C, NEW ct, ListsOf(ct, C), DOMAIN ct \subseteq C, IsFiniteSet(DOMAIN ct),
         NEW r, Ranking(r, ct, C), \A x \in C : r[x] <= Cardinality(DOMAIN ct),
         NEW c \in DOMAIN ct, NEW n, NEW v, Valuation(v, ct, C),
         \A x \in C \ DOMAIN ct : v[x] = Ind(Named(n, C), C)[x]
  PROVE  CountedBy(v, ct, c, n)
<1> DEFINE leaves == Leaves(ct, c)
           at == {i \in DOMAIN leaves : leaves[i][1] = n}
<1>1. Instances(ct, c) = ct[c] /\ ct[c] \in Seq(C)
  BY DEF Instances, ListsOf
<1>2. v \in Weights(C) /\ \A x \in DOMAIN ct : v[x] = Total(v, ct[x])
  BY DEF Valuation
<1>3. \A x \in C \cap DOMAIN ct : v[x] = Total(v, Instances(ct, x))
  BY <1>2 DEF Instances
<1>4. leaves \in Seq(C) /\ Total(v, leaves) = Total(v, ct[c])
  BY <1>1, <1>2, <1>3, ExpandedSum DEF Leaves
<1>5. \A i \in DOMAIN leaves : leaves[i] \notin DOMAIN ct
  BY <1>1, ExpandedLeaves DEF Leaves
<1> HIDE DEF leaves
<1>6. \A i \in DOMAIN leaves : leaves[i] \in C
  BY <1>4
<1>7. /\ Ind(Named(n, C), C) \in Weights(C)
      /\ IsFiniteSet({i \in DOMAIN leaves : leaves[i] \in Named(n, C)})
      /\ Total(Ind(Named(n, C), C), leaves) = Cardinality({i \in DOMAIN leaves : leaves[i] \in Named(n, C)})
  BY <1>4, IndCounts
<1>8. {i \in DOMAIN leaves : leaves[i] \in Named(n, C)} = at
  BY <1>6 DEF Named
<1>9. Total(v, leaves) = Total(Ind(Named(n, C), C), leaves)
  BY <1>2, <1>4, <1>5, <1>6, <1>7, SumSame
<1>10. Cardinality(at) = v[c]
  BY <1>2, <1>4, <1>7, <1>8, <1>9
<1>11. n \in {x[1] : x \in ToSet(leaves)} <=> at # {}
  BY DEF ToSet
<1>12. at = {} <=> Cardinality(at) = 0
  BY <1>7, <1>8, FS_EmptySet
<1>13. at = LeavesNamed(ct, c, n) /\ LeafNames(ct, c) = {x[1] : x \in ToSet(leaves)}
  BY DEF LeavesNamed, LeafNames, leaves
<1> HIDE DEF at
<1> QED BY <1>10, <1>11, <1>12, <1>13 DEF CountedBy

\* Two hierarchies of the same cells, of which the second keeps the rankings and the
\* valuations of the first.
LEMMA SamePrimitives ==
  ASSUME NEW C, NEW ct, NEW nt, ListsOf(ct, C), ListsOf(nt, C), DOMAIN nt = DOMAIN ct,
         DOMAIN ct \subseteq C, IsFiniteSet(DOMAIN ct), Acyclic(ct),
         \A r : Ranking(r, ct, C) => Ranking(r, nt, C),
         \A v : Valuation(v, ct, C) => Valuation(v, nt, C),
         NEW c \in DOMAIN ct
  PROVE  Primitives(nt, c) = Primitives(ct, c)
<1>1. PICK r : Ranking(r, ct, C) /\ \A x \in C : r[x] <= Cardinality(DOMAIN ct)
  BY RankingExists
<1>2. ASSUME NEW n PROVE /\ Cardinality(LeavesNamed(nt, c, n)) = Cardinality(LeavesNamed(ct, c, n))
                         /\ n \in LeafNames(nt, c) <=> n \in LeafNames(ct, c)
  <2> DEFINE w == Ind(Named(n, C), C)
             K == Cardinality(DOMAIN ct)
  <2>1. w \in Weights(C) /\ K \in Nat
    <3>1. w \in Weights(C)
      BY DEF Ind, Weights
    <3> QED BY <3>1, FS_CardinalityType
  <2>2. PICK v : Valuation(v, ct, C) /\ \A x \in C \ DOMAIN ct : v[x] = w[x]
    <3> HIDE DEF w, K
    <3>1. \A x \in C : r[x] <= K
      BY <1>1 DEF K
    <3> QED BY <1>1, <2>1, <3>1, ValuationExists
  <2>3. CountedBy(v, ct, c, n)
    BY <1>1, <2>2, LeavesCount
  <2>4. CountedBy(v, nt, c, n)
    <3>1. Ranking(r, nt, C) /\ Valuation(v, nt, C) /\ c \in DOMAIN nt
      BY <1>1, <2>2
    <3> QED BY <1>1, <2>2, <3>1, LeavesCount
  <2> QED BY <2>3, <2>4 DEF CountedBy
<1>3. LeafNames(nt, c) = LeafNames(ct, c)
  <2>1. LeafNames(nt, c) \subseteq LeafNames(ct, c) /\ LeafNames(ct, c) \subseteq LeafNames(nt, c)
    BY <1>2
  <2> QED BY <2>1
<1>4. ASSUME NEW t PROVE Primitives(t, c) = [n \in LeafNames(t, c) |-> Cardinality(LeavesNamed(t, c, n))]
  BY DEF Primitives, LeafNames, LeavesNamed, Leaves
<1> QED BY <1>2, <1>3, <1>4

(***************************************************************************)
(* Lists with the same number of members of each class have the same sum of *)
(* weights, when weights depend on the class.                               *)
(***************************************************************************)
Plus(w, v, C) == [x \in C |-> w[x] + v[x]]

LEMMA SumAdd ==
  ASSUME NEW C, NEW w \in Weights(C), NEW v \in Weights(C), NEW s \in Seq(C)
  PROVE  /\ Plus(w, v, C) \in Weights(C)
         /\ Total(Plus(w, v, C), s) = Total(w, s) + Total(v, s)
<1> DEFINE z == Plus(w, v, C)
<1>1. z \in Weights(C) /\ \A x \in C : z[x] = w[x] + v[x]
  BY DEF Plus, Weights
<1>2. PICK f : IsSum(f, w, s) /\ Total(w, s) = f[Len(s)]
  BY SumExists
<1>3. PICK g : IsSum(g, v, s) /\ Total(v, s) = g[Len(s)]
  BY SumExists
<1> DEFINE h == [i \in 0..Len(s) |-> f[i] + g[i]]
<1>4. Len(s) \in Nat /\ \A i \in 1..Len(s) : s[i] \in C
  OBVIOUS
<1>5. /\ f \in [0..Len(s) -> Nat] /\ f[0] = 0 /\ \A i \in 1..Len(s) : f[i] = f[i - 1] + w[s[i]]
      /\ g \in [0..Len(s) -> Nat] /\ g[0] = 0 /\ \A i \in 1..Len(s) : g[i] = g[i - 1] + v[s[i]]
  BY <1>2, <1>3 DEF IsSum
<1> HIDE DEF z
<1>6. h \in [0..Len(s) -> Nat] /\ h[0] = 0
  BY <1>4, <1>5
<1>7. ASSUME NEW i \in 1..Len(s) PROVE h[i] = h[i - 1] + z[s[i]]
  <2>1. i - 1 \in 0..Len(s) /\ i \in 0..Len(s) /\ s[i] \in C
    BY <1>4
  <2>2. h[i] = f[i] + g[i] /\ h[i - 1] = f[i - 1] + g[i - 1]
    BY <2>1
  <2>3. z[s[i]] = w[s[i]] + v[s[i]] /\ w[s[i]] \in Nat /\ v[s[i]] \in Nat
    BY <1>1, <2>1 DEF Weights
  <2>4. f[i - 1] \in Nat /\ g[i - 1] \in Nat
    BY <1>5, <2>1
  <2>5. f[i] = f[i - 1] + w[s[i]] /\ g[i] = g[i - 1] + v[s[i]]
    BY <1>5
  <2> HIDE DEF h
  <2> QED BY <2>2, <2>3, <2>4, <2>5
<1>8. IsSum(h, z, s)
  <2> HIDE DEF h
  <2> QED BY <1>6, <1>7 DEF IsSum
<1>9. h[Len(s)] = f[Len(s)] + g[Len(s)]
  BY <1>4
<1> HIDE DEF h
<1> QED BY <1>1, <1>2, <1>3, <1>8, <1>9, SumUnique DEF z

Scaled(u, B, C) == [x \in C |-> IF x \in B THEN u ELSE 0]

LEMMA ScaledSame ==
  ASSUME NEW C, NEW B, NEW s \in Seq(C), NEW t \in Seq(C), NEW u \in Nat,
         Total(Ind(B, C), s) = Total(Ind(B, C), t)
  PROVE  Scaled(u, B, C) \in Weights(C) /\ Total(Scaled(u, B, C), s) = Total(Scaled(u, B, C), t)
<1> DEFINE P == {n \in Nat : Total(Scaled(n, B, C), s) = Total(Scaled(n, B, C), t)}
<1>1. \A n \in Nat : Scaled(n, B, C) \in Weights(C)
  BY DEF Scaled, Weights
<1>2. 0 \in P
  <2>1. \A x \in C : Scaled(0, B, C)[x] = 0
    BY DEF Scaled
  <2>2. \A i \in DOMAIN s : Scaled(0, B, C)[s[i]] = 0
    BY <2>1
  <2>3. \A i \in DOMAIN t : Scaled(0, B, C)[t[i]] = 0
    BY <2>1
  <2>4. Scaled(0, B, C) \in Weights(C)
    BY <1>1
  <2>5. Total(Scaled(0, B, C), s) = 0 /\ Total(Scaled(0, B, C), t) = 0
    BY <2>2, <2>3, <2>4, TotalZero
  <2> QED BY <2>5
<1>3. ASSUME NEW n \in Nat, n \in P PROVE n + 1 \in P
  <2> DEFINE w == Scaled(n, B, C)
             v == Ind(B, C)
  <2>1. w \in Weights(C) /\ v \in Weights(C)
    BY <1>1, IndWeights
  <2>2. Scaled(n + 1, B, C) = Plus(w, v, C)
    <3>1. \A x \in C : Scaled(n + 1, B, C)[x] = w[x] + v[x]
      BY DEF Scaled, Ind
    <3> QED BY <3>1 DEF Plus, Scaled
  <2> HIDE DEF w, v
  <2>3. /\ Total(Plus(w, v, C), s) = Total(w, s) + Total(v, s)
        /\ Total(Plus(w, v, C), t) = Total(w, t) + Total(v, t)
    BY <2>1, SumAdd
  <2>4. Total(w, s) = Total(w, t) /\ Total(v, s) = Total(v, t)
    BY <1>3 DEF w, v
  <2> QED BY <2>2, <2>3, <2>4
<1>4. Nat \subseteq P
  <2> HIDE DEF P
  <2> QED BY <1>2, <1>3, Induction
<1> QED BY <1>1, <1>4

OfClass(class, h, C) == {x \in C : class[x] = h}

\* The lists have the same number of members of each class.
SameClasses(s, t, class, C) ==
  \A h : Total(Ind(OfClass(class, h, C), C), s) = Total(Ind(OfClass(class, h, C), C), t)

\* The weights v, of the classes of the first n members of s.
Part(v, s, n, class, C) == [x \in C |-> IF \E i \in 1..n : class[s[i]] = class[x] THEN v[x] ELSE 0]

\* A class that one list has, the other has.
LEMMA ClassInBoth ==
  ASSUME NEW C, NEW s \in Seq(C), NEW t \in Seq(C), NEW class, SameClasses(s, t, class, C),
         NEW i \in DOMAIN s
  PROVE  \E j \in DOMAIN t : class[t[j]] = class[s[i]]
<1> DEFINE B == OfClass(class, class[s[i]], C)
<1>1. Total(Ind(B, C), s) = Total(Ind(B, C), t)
  BY DEF SameClasses
<1>2. s[i] \in B
  BY DEF OfClass
<1> HIDE DEF B
<1>3. Total(Ind(B, C), t) # 0
  BY <1>1, <1>2, IndZero
<1>4. \E j \in DOMAIN t : t[j] \in B
  BY <1>3, IndZero
<1> QED BY <1>4 DEF B, OfClass

LEMMA SameBag ==
  ASSUME NEW C, NEW v \in Weights(C), NEW s \in Seq(C), NEW t \in Seq(C), NEW class,
         SameClasses(s, t, class, C),
         \A i \in DOMAIN s : \A j \in DOMAIN t : class[s[i]] = class[t[j]] => v[s[i]] = v[t[j]]
  PROVE  Total(v, s) = Total(v, t)
<1> DEFINE w(n) == Part(v, s, n, class, C)
           P == {n \in Nat : n <= Len(s) => Total(w(n), s) = Total(w(n), t)}
<1>1. /\ Len(s) \in Nat /\ DOMAIN s = 1..Len(s)
      /\ \A i \in DOMAIN s : s[i] \in C
      /\ \A j \in DOMAIN t : t[j] \in C
  OBVIOUS
<1>2. \A n \in Nat : w(n) \in Weights(C)
  BY DEF Part, Weights
<1>3. \A n \in Nat : \A x \in C : w(n)[x] = IF \E i \in 1..n : class[s[i]] = class[x] THEN v[x] ELSE 0
  BY DEF Part
<1>4. SameClasses(t, s, class, C)
  BY DEF SameClasses
<1> HIDE DEF w
<1>5. 0 \in P
  <2>1. \A x \in C : w(0)[x] = 0
    BY <1>3
  <2>2. w(0) \in Weights(C)
    BY <1>2
  <2>3. Total(w(0), s) = 0 /\ Total(w(0), t) = 0
    BY <1>1, <2>1, <2>2, TotalZero
  <2> QED BY <2>3
<1>6. ASSUME NEW n \in Nat, n \in P PROVE n + 1 \in P
  <2>1. SUFFICES ASSUME n + 1 <= Len(s) PROVE Total(w(n + 1), s) = Total(w(n + 1), t)
    OBVIOUS
  <2>2. Total(w(n), s) = Total(w(n), t) /\ n + 1 \in 1..Len(s) /\ n + 1 \in Nat
    BY <1>1, <1>6, <2>1
  <2> DEFINE a == s[n + 1]
             B == OfClass(class, class[a], C)
             u == v[a]
             z == Plus(w(n), Scaled(u, B, C), C)
  <2>3. a \in C /\ u \in Nat
    BY <1>1, <2>2 DEF Weights
  <2>4. w(n) \in Weights(C) /\ w(n + 1) \in Weights(C)
    BY <1>2, <2>2
  <2>5. CASE \E i \in 1..n : class[s[i]] = class[a]
    <3>1. ASSUME NEW x \in C PROVE w(n + 1)[x] = w(n)[x]
      <4>1. (\E i \in 1..(n + 1) : class[s[i]] = class[x]) <=> \E i \in 1..n : class[s[i]] = class[x]
        BY <2>5
      <4> QED BY <1>3, <2>2, <4>1
    <3>2. Total(w(n + 1), s) = Total(w(n), s) /\ Total(w(n + 1), t) = Total(w(n), t)
      BY <1>1, <2>4, <3>1, SumSame
    <3> QED BY <2>2, <3>2
  <2>6. CASE ~\E i \in 1..n : class[s[i]] = class[a]
    <3>1. Total(Ind(B, C), s) = Total(Ind(B, C), t)
      BY DEF SameClasses
    <3> HIDE DEF B, u
    <3>2. Scaled(u, B, C) \in Weights(C) /\ Total(Scaled(u, B, C), s) = Total(Scaled(u, B, C), t)
      BY <2>3, <3>1, ScaledSame
    <3>3. /\ z \in Weights(C)
          /\ Total(z, s) = Total(w(n), s) + Total(Scaled(u, B, C), s)
          /\ Total(z, t) = Total(w(n), t) + Total(Scaled(u, B, C), t)
      BY <2>4, <3>2, SumAdd
    <3>4. Total(z, s) = Total(z, t)
      BY <2>2, <3>2, <3>3
    <3>5. ASSUME NEW x \in C, x \in B => v[x] = u PROVE w(n + 1)[x] = z[x]
      <4>1. z[x] = w(n)[x] + (IF x \in B THEN u ELSE 0)
        BY DEF Plus, Scaled
      <4>2. x \in B <=> class[x] = class[a]
        BY DEF B, OfClass
      <4>3. (\E i \in 1..(n + 1) : class[s[i]] = class[x])
              <=> (\E i \in 1..n : class[s[i]] = class[x]) \/ class[x] = class[a]
        BY <2>2
      <4>4. v[x] \in Nat /\ w(n)[x] = IF \E i \in 1..n : class[s[i]] = class[x] THEN v[x] ELSE 0
        BY <1>3 DEF Weights
      <4>5. w(n + 1)[x] = IF \E i \in 1..(n + 1) : class[s[i]] = class[x] THEN v[x] ELSE 0
        BY <1>3, <2>2
      <4>6. CASE x \in B
        <5>1. w(n)[x] = 0 /\ w(n + 1)[x] = u
          BY <2>6, <3>5, <4>2, <4>3, <4>4, <4>5, <4>6
        <5> QED BY <2>3, <4>1, <4>6, <5>1
      <4>7. CASE x \notin B
        <5>1. w(n + 1)[x] = w(n)[x] /\ w(n)[x] \in Nat
          BY <4>2, <4>3, <4>4, <4>5, <4>7
        <5> QED BY <4>1, <4>7, <5>1
      <4> QED BY <4>6, <4>7
    <3>6. PICK j0 \in DOMAIN t : class[t[j0]] = class[a]
      BY <1>1, <2>2, ClassInBoth
    <3>7. \A i \in DOMAIN s : s[i] \in B => v[s[i]] = u
      <4>1. \A i \in DOMAIN s : s[i] \in B => class[s[i]] = class[t[j0]]
        BY <3>6 DEF B, OfClass
      <4>2. \A i \in DOMAIN s : s[i] \in B => v[s[i]] = v[t[j0]]
        BY <4>1
      <4>3. v[a] = v[t[j0]]
        BY <1>1, <2>2, <3>6
      <4> QED BY <4>2, <4>3 DEF u
    <3>8. \A j \in DOMAIN t : t[j] \in B => v[t[j]] = u
      BY <1>1, <2>2 DEF B, OfClass, u
    <3>9. \A i \in DOMAIN s : w(n + 1)[s[i]] = z[s[i]]
      BY <1>1, <3>5, <3>7
    <3>10. \A j \in DOMAIN t : w(n + 1)[t[j]] = z[t[j]]
      BY <1>1, <3>5, <3>8
    <3> HIDE DEF z
    <3>11. Total(w(n + 1), s) = Total(z, s) /\ Total(w(n + 1), t) = Total(z, t)
      BY <2>4, <3>3, <3>9, <3>10, SumSame
    <3> QED BY <3>4, <3>11
  <2> QED BY <2>5, <2>6
<1>7. Len(s) \in P
  <2> HIDE DEF P
  <2> QED BY <1>1, <1>5, <1>6, Induction
<1> DEFINE x == w(Len(s))
<1>8. x \in Weights(C) /\ Total(x, s) = Total(x, t)
  BY <1>1, <1>2, <1>7
<1>9. \A i \in DOMAIN s : x[s[i]] = v[s[i]]
  BY <1>1, <1>3
<1>10. ASSUME NEW j \in DOMAIN t PROVE x[t[j]] = v[t[j]]
  <2>1. \E i \in DOMAIN s : class[s[i]] = class[t[j]]
    BY <1>4, <1>10, ClassInBoth, SMTT(60)
  <2> QED BY <1>1, <1>3, <2>1
<1> HIDE DEF x
<1>11. Total(x, s) = Total(v, s) /\ Total(x, t) = Total(v, t)
  BY <1>8, <1>9, <1>10, SumSame
<1> QED BY <1>8, <1>11

(***************************************************************************)
(* Rounds of splicing.                                                      *)
(***************************************************************************)
LEMMA RoundsUnique ==
  ASSUME NEW C, NEW ct, NEW s, NEW gone, NEW N \in Nat, NEW M \in Nat, N <= M,
         NEW f, NEW g, Rounds(f, s, gone, ct, C, N), Rounds(g, s, gone, ct, C, M)
  PROVE  f[N] = g[N]
<1> DEFINE P == {n \in Nat : n <= N => f[n] = g[n]}
<1>1. 0 \in P
  BY DEF Rounds
<1>2. ASSUME NEW n \in Nat, n \in P PROVE n + 1 \in P
  <2>1. SUFFICES ASSUME n + 1 <= N PROVE f[n + 1] = g[n + 1]
    OBVIOUS
  <2>2. n + 1 \in 1..N /\ n + 1 \in 1..M /\ (n + 1) - 1 = n /\ f[n] = g[n]
    BY <1>2, <2>1
  <2>3. f[n + 1] = Splice(f[n], gone, ct) /\ g[n + 1] = Splice(g[n], gone, ct)
    BY <2>2 DEF Rounds
  <2> QED BY <2>2, <2>3
<1>3. N \in P
  <2> HIDE DEF P
  <2> QED BY <1>1, <1>2, Induction
<1> QED BY <1>3

LEMMA OpenedStep ==
  ASSUME NEW C, NEW ct, ListsOf(ct, C), NEW s \in Seq(C), NEW gone, NEW n \in Nat
  PROVE  /\ Opened(s, gone, ct, 0) = s
         /\ Opened(s, gone, ct, n) \in Seq(C)
         /\ Opened(s, gone, ct, n + 1) = Splice(Opened(s, gone, ct, n), gone, ct)
<1>1. PICK e : Rounds(e, s, gone, ct, C, 0) /\ Opened(s, gone, ct, 0) = e[0]
  BY OpenedRounds
<1>2. PICK f : Rounds(f, s, gone, ct, C, n) /\ Opened(s, gone, ct, n) = f[n]
  BY OpenedRounds
<1>3. n + 1 \in Nat /\ n <= n + 1 /\ n + 1 \in 1..(n + 1) /\ (n + 1) - 1 = n /\ n \in 0..n
  OBVIOUS
<1>4. PICK g : Rounds(g, s, gone, ct, C, n + 1) /\ Opened(s, gone, ct, n + 1) = g[n + 1]
  BY <1>3, OpenedRounds
<1>5. f[n] = g[n]
  BY <1>2, <1>3, <1>4, RoundsUnique
<1>6. g[n + 1] = Splice(g[n], gone, ct)
  BY <1>3, <1>4 DEF Rounds
<1>7. f[n] \in Seq(C)
  BY <1>2, <1>3 DEF Rounds
<1> QED BY <1>1, <1>2, <1>4, <1>5, <1>6, <1>7 DEF Rounds
=============================================================================
