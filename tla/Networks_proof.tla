----------------------------- MODULE Networks_proof -----------------------------
(***************************************************************************)
(* Proofs about merging devices, for cells of any number of devices with    *)
(* any number of pins: whatever the passes merge, each device stands for a   *)
(* part of the netlist of its own, and when they stop nothing is left that   *)
(* another pass would merge.                                                *)
(*                                                                          *)
(* The passes are folds over lists of devices and of nodes: each is brought  *)
(* to a sequence of steps first, then a property of the steps is proved by   *)
(* induction on their number, and last that of the loop over the passes.    *)
(***************************************************************************)
EXTENDS MCNetworks, FiniteSetTheorems, SequenceTheorems, WellFoundedInduction, TLAPS

-----------------------------------------------------------------------------
(* Folds over lists.                                                         *)

LEMMA Induction ==
  ASSUME NEW P, 0 \in P, \A n \in Nat : n \in P => n + 1 \in P
  PROVE  Nat \subseteq P
<1> DEFINE T == Nat \ P
<1>1. SUFFICES ASSUME T # {} PROVE FALSE
  OBVIOUS
<1>2. PICK x \in T : \A y \in T : ~(<<y, x>> \in OpToRel(<, Nat))
  <2> HIDE DEF T
  <2>1. T \subseteq Nat
    BY DEF T
  <2> QED BY <1>1, <2>1, NatLessThanWellFounded, WFMin
<1>3. x \in Nat /\ x \notin P
  OBVIOUS
<1>4. x # 0 /\ x - 1 \in Nat /\ x - 1 < x /\ x - 1 + 1 = x
  BY <1>3
<1>5. x - 1 \notin T
  <2>1. SUFFICES ASSUME x - 1 \in T PROVE FALSE
    OBVIOUS
  <2>2. <<x - 1, x>> \in OpToRel(<, Nat)
    BY <1>3, <1>4 DEF OpToRel
  <2> QED BY <1>2, <2>1, <2>2
<1>6. x - 1 \in P
  BY <1>4, <1>5
<1> QED BY <1>3, <1>4, <1>6

LEMMA GreatestOf ==
  ASSUME NEW N \in Nat, NEW s \in SUBSET (1..N), s # {}
  PROVE  Max(s) \in s /\ \A m \in s : m <= Max(s)
<1> DEFINE D == {N - m : m \in s}
<1>1. D \in SUBSET Nat /\ D # {}
  <2>1. \A m \in s : m \in 1..N /\ N - m \in Nat
    OBVIOUS
  <2> QED BY <2>1
<1>2. PICK d \in D : \A y \in D : ~(<<y, d>> \in OpToRel(<, Nat))
  BY <1>1, NatLessThanWellFounded, WFMin
<1>3. PICK x \in s : d = N - x
  OBVIOUS
<1>4. ASSUME NEW m \in s PROVE m <= x
  <2>1. N - m \in D /\ N - m \in Nat /\ d \in Nat
    BY <1>1
  <2>2. ~(N - m < d)
    BY <1>2, <2>1 DEF OpToRel
  <2> QED BY <1>3, <2>1, <2>2
<1>5. \E n \in s : \A m \in s : n >= m
  BY <1>4
<1>6. Max(s) \in s /\ \A m \in s : Max(s) >= m
  BY <1>5 DEF Max
<1> QED BY <1>6

LEMMA LastOf ==
  ASSUME NEW i \in Nat, i # 0
  PROVE  Max(1..i) = i /\ (1..i) \ {i} = 1..(i - 1) /\ 1..i # {}
<1>1. i \in 1..i
  OBVIOUS
<1>2. Max(1..i) \in 1..i /\ i <= Max(1..i)
  BY <1>1, GreatestOf
<1> QED BY <1>1, <1>2

LEMMA GreatestIn ==
  ASSUME NEW m \in Nat, NEW s \in SUBSET (1..(m + 1)), s # {}
  PROVE  /\ m + 1 \in s => Max(s) = m + 1
         /\ m + 1 \notin s => /\ s \in SUBSET (1..m) /\ s \ {Max(s)} \in SUBSET (1..(m + 1))
                             /\ m + 1 \notin s \ {Max(s)}
<1>1. m + 1 \in Nat
  OBVIOUS
<1>2. Max(s) \in s /\ \A x \in s : x <= Max(s)
  BY <1>1, GreatestOf
<1>3. Max(s) \in 1..(m + 1)
  BY <1>2
<1>4. CASE m + 1 \in s
  <2>1. m + 1 <= Max(s)
    BY <1>2, <1>4
  <2> QED BY <1>3, <1>4, <2>1
<1>5. CASE m + 1 \notin s
  <2>1. \A x \in s : x \in 1..m
    BY <1>5
  <2> QED BY <1>5, <2>1
<1> QED BY <1>4, <1>5

\* JoinedParallel takes the devices one by one.
ParallelSteps(f, open, devs, N) ==
  /\ f[0] = << >>
  /\ \A i \in 1..N : f[i] = JoinInto(open, f[i - 1], devs[i])
  /\ JoinedParallel(open, devs) = f[N]

LEMMA ParallelFold ==
  ASSUME NEW open, NEW devs, NEW N \in Nat, DOMAIN devs = 1..N
  PROVE  \E f : ParallelSteps(f, open, devs, N)
<1> DEFINE Of(h, m) == [s \in SUBSET (1..m) |->
                          IF s = {} THEN << >> ELSE JoinInto(open, h[s \ {Max(s)}], devs[Max(s)])]
           P == {m \in Nat : \E h : h = Of(h, m)}
           c == CHOOSE h : h = Of(h, N)
<1>1. JoinedParallel(open, devs) = c[1..N]
  BY DEF JoinedParallel, FoldLeft, MapThenFoldSet
<1>2. 0 \in P
  <2> DEFINE h == [s \in SUBSET (1..0) |-> << >>]
  <2>1. \A s \in SUBSET (1..0) : s = {}
    OBVIOUS
  <2>2. h = Of(h, 0)
    BY <2>1
  <2> QED BY <2>2
<1>3. ASSUME NEW m \in Nat, m \in P PROVE m + 1 \in P
  <2>1. PICK h : h = Of(h, m)
    BY <1>3
  <2> DEFINE g == [s \in SUBSET (1..(m + 1)) |->
                     IF m + 1 \in s THEN JoinInto(open, h[s \ {m + 1}], devs[m + 1]) ELSE h[s]]
  <2>2. ASSUME NEW s \in SUBSET (1..(m + 1)), s # {}
        PROVE  g[s] = JoinInto(open, g[s \ {Max(s)}], devs[Max(s)])
    <3>1. /\ m + 1 \in s => Max(s) = m + 1
          /\ m + 1 \notin s => /\ s \in SUBSET (1..m) /\ s \ {Max(s)} \in SUBSET (1..(m + 1))
                              /\ m + 1 \notin s \ {Max(s)}
      <4> HIDE DEF g, P
      <4> QED BY <2>2, GreatestIn
    <3>2. CASE m + 1 \in s
      <4>1. Max(s) = m + 1
        <5> HIDE DEF g, P
        <5> QED BY <3>1, <3>2
      <4>2. g[s \ {m + 1}] = h[s \ {m + 1}] /\ g[s] = JoinInto(open, h[s \ {m + 1}], devs[m + 1])
        BY <3>2
      <4> HIDE DEF g
      <4> QED BY <4>1, <4>2
    <3>3. CASE m + 1 \notin s
      <4>1. s \in SUBSET (1..m) /\ s \ {Max(s)} \in SUBSET (1..(m + 1)) /\ m + 1 \notin s \ {Max(s)}
        <5> HIDE DEF g, P
        <5> QED BY <3>1, <3>3
      <4>2. g[s] = h[s] /\ g[s \ {Max(s)}] = h[s \ {Max(s)}]
        BY <3>3, <4>1
      <4>3. h[s] = JoinInto(open, h[s \ {Max(s)}], devs[Max(s)])
        BY <2>1, <2>2, <4>1
      <4> HIDE DEF g
      <4> QED BY <4>2, <4>3
    <3> QED BY <3>2, <3>3
  <2>3. g[{}] = << >>
    <3>1. g[{}] = h[{}] /\ {} \in SUBSET (1..m)
      OBVIOUS
    <3>2. Of(h, m)[{}] = << >>
      BY <3>1
    <3> HIDE DEF g, Of
    <3> QED BY <2>1, <3>1, <3>2
  <2>4. g = Of(g, m + 1)
    <3>1. g = [s \in SUBSET (1..(m + 1)) |-> g[s]]
      OBVIOUS
    <3> HIDE DEF g
    <3> QED BY <2>2, <2>3, <3>1
  <2> HIDE DEF g, Of
  <2> QED BY <2>4
<1>4. c = Of(c, N)
  <2> HIDE DEF Of
  <2>1. Nat \subseteq P
    <3> HIDE DEF P
    <3> QED BY <1>2, <1>3, Induction
  <2> QED BY <2>1
<1> DEFINE f == [i \in 0..N |-> c[1..i]]
<1>5. f[0] = << >>
  <2>1. 1..0 = {} /\ {} \in SUBSET (1..N) /\ 0 \in 0..N
    OBVIOUS
  <2>2. Of(c, N)[{}] = << >>
    BY <2>1
  <2> HIDE DEF c, Of
  <2> QED BY <1>4, <2>1, <2>2
<1>6. ASSUME NEW i \in 1..N PROVE f[i] = JoinInto(open, f[i - 1], devs[i])
  <2>1. i \in Nat /\ i # 0 /\ i \in 0..N /\ i - 1 \in 0..N /\ 1..i \in SUBSET (1..N)
    OBVIOUS
  <2>2. Max(1..i) = i /\ (1..i) \ {i} = 1..(i - 1) /\ 1..i # {}
    BY <2>1, LastOf
  <2>3. Of(c, N)[1..i] = JoinInto(open, c[1..(i - 1)], devs[i])
    <3> HIDE DEF c
    <3> QED BY <2>1, <2>2
  <2>4. c[1..i] = Of(c, N)[1..i]
    <3> HIDE DEF c, Of
    <3> QED BY <1>4
  <2>5. f[i] = c[1..i] /\ f[i - 1] = c[1..(i - 1)]
    <3> HIDE DEF c
    <3> QED BY <2>1
  <2> HIDE DEF f, c, Of
  <2> QED BY <2>3, <2>4, <2>5
<1>7. JoinedParallel(open, devs) = f[N]
  <2> HIDE DEF c
  <2> QED BY <1>1
<1> HIDE DEF f
<1> QED BY <1>5, <1>6, <1>7 DEF ParallelSteps

\* JoinedSeries takes the nodes one by one.
SeriesSteps(f, start, N) ==
  /\ f[0] = start
  /\ \A i \in 1..N : f[i] = JoinPair(f[i - 1], i)
  /\ JoinedSeries(start, N) = f[N]

LEMMA SeriesFold ==
  ASSUME NEW start, NEW N \in Nat
  PROVE  \E f : SeriesSteps(f, start, N)
<1> DEFINE Of(h, m) == [s \in SUBSET (1..m) |->
                          IF s = {} THEN start ELSE JoinPair(h[s \ {Max(s)}], Max(s))]
           P == {m \in Nat : \E h : h = Of(h, m)}
           c == CHOOSE h : h = Of(h, N)
<1>1. JoinedSeries(start, N) = c[1..N]
  <2> DEFINE nodes == [n \in 1..N |-> n]
             For(h) == [s \in SUBSET (1..N) |-> IF s = {} THEN start ELSE JoinPair(h[s \ {Max(s)}], nodes[Max(s)])]
  <2>1. DOMAIN nodes = 1..N
    OBVIOUS
  <2>2. FoldLeft(JoinPair, start, nodes) = (CHOOSE h : h = For(h))[1..N]
    <3> HIDE DEF nodes
    <3> QED BY <2>1 DEF FoldLeft, MapThenFoldSet
  <2>3. \A h : For(h) = Of(h, N)
    BY GreatestOf
  <2>4. JoinedSeries(start, N) = FoldLeft(JoinPair, start, nodes)
    BY DEF JoinedSeries
  <2> HIDE DEF For, Of, nodes
  <2> QED BY <2>2, <2>3, <2>4
<1>2. 0 \in P
  <2> DEFINE h == [s \in SUBSET (1..0) |-> start]
  <2>1. \A s \in SUBSET (1..0) : s = {}
    OBVIOUS
  <2>2. h = Of(h, 0)
    BY <2>1
  <2> QED BY <2>2
<1>3. ASSUME NEW m \in Nat, m \in P PROVE m + 1 \in P
  <2>1. PICK h : h = Of(h, m)
    BY <1>3
  <2> DEFINE g == [s \in SUBSET (1..(m + 1)) |->
                     IF m + 1 \in s THEN JoinPair(h[s \ {m + 1}], m + 1) ELSE h[s]]
  <2>2. ASSUME NEW s \in SUBSET (1..(m + 1)), s # {}
        PROVE  g[s] = JoinPair(g[s \ {Max(s)}], Max(s))
    <3>1. /\ m + 1 \in s => Max(s) = m + 1
          /\ m + 1 \notin s => /\ s \in SUBSET (1..m) /\ s \ {Max(s)} \in SUBSET (1..(m + 1))
                              /\ m + 1 \notin s \ {Max(s)}
      <4> HIDE DEF g, P
      <4> QED BY <2>2, GreatestIn
    <3>2. CASE m + 1 \in s
      <4>1. Max(s) = m + 1
        <5> HIDE DEF g, P
        <5> QED BY <3>1, <3>2
      <4>2. g[s \ {m + 1}] = h[s \ {m + 1}] /\ g[s] = JoinPair(h[s \ {m + 1}], m + 1)
        BY <3>2
      <4> HIDE DEF g
      <4> QED BY <4>1, <4>2
    <3>3. CASE m + 1 \notin s
      <4>1. s \in SUBSET (1..m) /\ s \ {Max(s)} \in SUBSET (1..(m + 1)) /\ m + 1 \notin s \ {Max(s)}
        <5> HIDE DEF g, P
        <5> QED BY <3>1, <3>3
      <4>2. g[s] = h[s] /\ g[s \ {Max(s)}] = h[s \ {Max(s)}]
        BY <3>3, <4>1
      <4>3. h[s] = JoinPair(h[s \ {Max(s)}], Max(s))
        BY <2>1, <2>2, <4>1
      <4> HIDE DEF g
      <4> QED BY <4>2, <4>3
    <3> QED BY <3>2, <3>3
  <2>3. g[{}] = start
    <3>1. g[{}] = h[{}] /\ {} \in SUBSET (1..m)
      OBVIOUS
    <3>2. Of(h, m)[{}] = start
      BY <3>1
    <3> HIDE DEF g, Of
    <3> QED BY <2>1, <3>1, <3>2
  <2>4. g = Of(g, m + 1)
    <3>1. g = [s \in SUBSET (1..(m + 1)) |-> g[s]]
      OBVIOUS
    <3> HIDE DEF g
    <3> QED BY <2>2, <2>3, <3>1
  <2> HIDE DEF g, Of
  <2> QED BY <2>4
<1>4. c = Of(c, N)
  <2> HIDE DEF Of
  <2>1. Nat \subseteq P
    <3> HIDE DEF P
    <3> QED BY <1>2, <1>3, Induction
  <2> QED BY <2>1
<1> DEFINE f == [i \in 0..N |-> c[1..i]]
<1>5. f[0] = start
  <2>1. 1..0 = {} /\ {} \in SUBSET (1..N) /\ 0 \in 0..N
    OBVIOUS
  <2>2. Of(c, N)[{}] = start
    BY <2>1
  <2> HIDE DEF c, Of
  <2> QED BY <1>4, <2>1, <2>2
<1>6. ASSUME NEW i \in 1..N PROVE f[i] = JoinPair(f[i - 1], i)
  <2>1. i \in Nat /\ i # 0 /\ i \in 0..N /\ i - 1 \in 0..N /\ 1..i \in SUBSET (1..N)
    OBVIOUS
  <2>2. Max(1..i) = i /\ (1..i) \ {i} = 1..(i - 1) /\ 1..i # {}
    BY <2>1, LastOf
  <2>3. Of(c, N)[1..i] = JoinPair(c[1..(i - 1)], i)
    <3> HIDE DEF c
    <3> QED BY <2>1, <2>2
  <2>4. c[1..i] = Of(c, N)[1..i]
    <3> HIDE DEF c, Of
    <3> QED BY <1>4
  <2>5. f[i] = c[1..i] /\ f[i - 1] = c[1..(i - 1)]
    <3> HIDE DEF c
    <3> QED BY <2>1
  <2> HIDE DEF f, c, Of
  <2> QED BY <2>3, <2>4, <2>5
<1>7. JoinedSeries(start, N) = f[N]
  <2> HIDE DEF c
  <2> QED BY <1>1
<1> HIDE DEF f
<1> QED BY <1>5, <1>6, <1>7 DEF SeriesSteps

\* Remaining takes the devices one by one.
RemainingSteps(f, acc, N) ==
  /\ f[0] = << >>
  /\ \A i \in 1..N : f[i] = Kept(acc, f[i - 1], i)
  /\ Remaining(acc) = f[N]

LEMMA RemainingFold ==
  ASSUME NEW acc, NEW N \in Nat, DOMAIN acc.devs = 1..N
  PROVE  \E f : RemainingSteps(f, acc, N)
<1> DEFINE Of(h, m) == [s \in SUBSET (1..m) |->
                          IF s = {} THEN << >> ELSE Kept(acc, h[s \ {Max(s)}], Max(s))]
           P == {m \in Nat : \E h : h = Of(h, m)}
           c == CHOOSE h : h = Of(h, N)
<1>1. Remaining(acc) = c[1..N]
  <2> DEFINE ks == [k \in 1..N |-> k]
             For(h) == [s \in SUBSET (1..N) |-> IF s = {} THEN << >> ELSE Kept(acc, h[s \ {Max(s)}], ks[Max(s)])]
  <2>1. DOMAIN ks = 1..N
    OBVIOUS
  <2>2. Remaining(acc) = FoldLeft(LAMBDA s, k : Kept(acc, s, k), << >>, ks)
    BY DEF Remaining, FoldLeftDomain
  <2>3. FoldLeft(LAMBDA s, k : Kept(acc, s, k), << >>, ks) = (CHOOSE h : h = For(h))[1..N]
    <3> HIDE DEF ks
    <3> QED BY <2>1 DEF FoldLeft, MapThenFoldSet
  <2>4. \A h : For(h) = Of(h, N)
    BY GreatestOf
  <2> HIDE DEF For, Of, ks
  <2> QED BY <2>2, <2>3, <2>4
<1>2. 0 \in P
  <2> DEFINE h == [s \in SUBSET (1..0) |-> << >>]
  <2>1. \A s \in SUBSET (1..0) : s = {}
    OBVIOUS
  <2>2. h = Of(h, 0)
    BY <2>1
  <2> QED BY <2>2
<1>3. ASSUME NEW m \in Nat, m \in P PROVE m + 1 \in P
  <2>1. PICK h : h = Of(h, m)
    BY <1>3
  <2> DEFINE g == [s \in SUBSET (1..(m + 1)) |->
                     IF m + 1 \in s THEN Kept(acc, h[s \ {m + 1}], m + 1) ELSE h[s]]
  <2>2. ASSUME NEW s \in SUBSET (1..(m + 1)), s # {}
        PROVE  g[s] = Kept(acc, g[s \ {Max(s)}], Max(s))
    <3>1. /\ m + 1 \in s => Max(s) = m + 1
          /\ m + 1 \notin s => /\ s \in SUBSET (1..m) /\ s \ {Max(s)} \in SUBSET (1..(m + 1))
                              /\ m + 1 \notin s \ {Max(s)}
      <4> HIDE DEF g, P
      <4> QED BY <2>2, GreatestIn
    <3>2. CASE m + 1 \in s
      <4>1. Max(s) = m + 1
        <5> HIDE DEF g, P
        <5> QED BY <3>1, <3>2
      <4>2. g[s \ {m + 1}] = h[s \ {m + 1}] /\ g[s] = Kept(acc, h[s \ {m + 1}], m + 1)
        BY <3>2
      <4> HIDE DEF g
      <4> QED BY <4>1, <4>2
    <3>3. CASE m + 1 \notin s
      <4>1. s \in SUBSET (1..m) /\ s \ {Max(s)} \in SUBSET (1..(m + 1)) /\ m + 1 \notin s \ {Max(s)}
        <5> HIDE DEF g, P
        <5> QED BY <3>1, <3>3
      <4>2. g[s] = h[s] /\ g[s \ {Max(s)}] = h[s \ {Max(s)}]
        BY <3>3, <4>1
      <4>3. h[s] = Kept(acc, h[s \ {Max(s)}], Max(s))
        BY <2>1, <2>2, <4>1
      <4> HIDE DEF g
      <4> QED BY <4>2, <4>3
    <3> QED BY <3>2, <3>3
  <2>3. g[{}] = << >>
    <3>1. g[{}] = h[{}] /\ {} \in SUBSET (1..m)
      OBVIOUS
    <3>2. Of(h, m)[{}] = << >>
      BY <3>1
    <3> HIDE DEF g, Of
    <3> QED BY <2>1, <3>1, <3>2
  <2>4. g = Of(g, m + 1)
    <3>1. g = [s \in SUBSET (1..(m + 1)) |-> g[s]]
      OBVIOUS
    <3> HIDE DEF g
    <3> QED BY <2>2, <2>3, <3>1
  <2> HIDE DEF g, Of
  <2> QED BY <2>4
<1>4. c = Of(c, N)
  <2> HIDE DEF Of
  <2>1. Nat \subseteq P
    <3> HIDE DEF P
    <3> QED BY <1>2, <1>3, Induction
  <2> QED BY <2>1
<1> DEFINE f == [i \in 0..N |-> c[1..i]]
<1>5. f[0] = << >>
  <2>1. 1..0 = {} /\ {} \in SUBSET (1..N) /\ 0 \in 0..N
    OBVIOUS
  <2>2. Of(c, N)[{}] = << >>
    BY <2>1
  <2> HIDE DEF c, Of
  <2> QED BY <1>4, <2>1, <2>2
<1>6. ASSUME NEW i \in 1..N PROVE f[i] = Kept(acc, f[i - 1], i)
  <2>1. i \in Nat /\ i # 0 /\ i \in 0..N /\ i - 1 \in 0..N /\ 1..i \in SUBSET (1..N)
    OBVIOUS
  <2>2. Max(1..i) = i /\ (1..i) \ {i} = 1..(i - 1) /\ 1..i # {}
    BY <2>1, LastOf
  <2>3. Of(c, N)[1..i] = Kept(acc, c[1..(i - 1)], i)
    <3> HIDE DEF c
    <3> QED BY <2>1, <2>2
  <2>4. c[1..i] = Of(c, N)[1..i]
    <3> HIDE DEF c, Of
    <3> QED BY <1>4
  <2>5. f[i] = c[1..i] /\ f[i - 1] = c[1..(i - 1)]
    <3> HIDE DEF c
    <3> QED BY <2>1
  <2> HIDE DEF f, c, Of
  <2> QED BY <2>3, <2>4, <2>5
<1>7. Remaining(acc) = f[N]
  <2> HIDE DEF c
  <2> QED BY <1>1
<1> HIDE DEF f
<1> QED BY <1>5, <1>6, <1>7 DEF RemainingSteps

-----------------------------------------------------------------------------
(* Lists, and devices as the readers and the passes leave them.              *)

IsList(s, L) == L \in Nat /\ s = [k \in 1..L |-> s[k]]

LEMMA ListLen ==
  ASSUME NEW s, NEW L, IsList(s, L)
  PROVE  Len(s) = L /\ DOMAIN s = 1..L
<1> DEFINE S == {s[k] : k \in 1..L}
<1>1. L \in Nat /\ s = [k \in 1..L |-> s[k]]
  BY DEF IsList
<1>2. s \in [1..L -> S]
  BY <1>1
<1>3. s \in Seq(S) /\ DOMAIN s = 1..L
  <2> HIDE DEF S
  <2> QED BY <1>1, <1>2, SeqDef
<1> HIDE DEF S
<1> QED BY <1>1, <1>3, LenProperties

IsAppended(new, s, L, x) ==
  IsList(new, L + 1) /\ (\A k \in 1..L : new[k] = s[k]) /\ new[L + 1] = x

LEMMA ListAppend ==
  ASSUME NEW s, NEW L, IsList(s, L), NEW x
  PROVE  IsAppended(Append(s, x), s, L, x)
<1> DEFINE S == {s[k] : k \in 1..L} \cup {x}
<1>1. L \in Nat /\ s = [k \in 1..L |-> s[k]]
  BY DEF IsList
<1>2. s \in [1..L -> S] /\ x \in S
  BY <1>1
<1>3. s \in Seq(S) /\ Len(s) = L
  <2>1. Len(s) = L
    BY ListLen
  <2> HIDE DEF S
  <2> QED BY <1>1, <1>2, <2>1, SeqDef
<1>4. /\ Append(s, x) \in Seq(S) /\ Len(Append(s, x)) = L + 1
      /\ \A k \in 1..L : Append(s, x)[k] = s[k]
      /\ Append(s, x)[L + 1] = x
  <2> HIDE DEF S
  <2> QED BY <1>2, <1>3, AppendProperties
<1>5. Append(s, x) = [k \in 1..(L + 1) |-> Append(s, x)[k]]
  <2>1. Append(s, x) \in [1..(L + 1) -> S]
    <3> HIDE DEF S
    <3> QED BY <1>4, LenProperties
  <2> HIDE DEF S
  <2> QED BY <2>1
<1> QED BY <1>1, <1>4, <1>5 DEF IsList, IsAppended

LEMMA ListEmpty == IsList(<< >>, 0)
  BY DEF IsList

LEMMA LeastIn ==
  ASSUME NEW s \in SUBSET Nat, s # {}
  PROVE  Min(s) \in s
<1>1. PICK x \in s : \A y \in s : ~(<<y, x>> \in OpToRel(<, Nat))
  BY NatLessThanWellFounded, WFMin
<1>2. ASSUME NEW y \in s PROVE x <= y
  <2>1. x \in Nat /\ y \in Nat
    OBVIOUS
  <2>2. ~(y < x)
    BY <1>1, <2>1 DEF OpToRel
  <2> QED BY <2>1, <2>2
<1>3. \E m \in s : \A y \in s : m =< y
  BY <1>2
<1> QED BY <1>3 DEF Min

IsDevice(d) ==
  /\ d = [class |-> d.class, pins |-> d.pins, of |-> d.of, ohms |-> d.ohms, recs |-> d.recs]
  /\ \E m \in Nat : d.pins \in [1..m -> 1..MaxNode]
  /\ d.class \in Series \cup Permuted => {1, 2} \subseteq DOMAIN d.pins

LEMMA ParallelJoin ==
  ASSUME NEW s, NEW d, IsDevice(s)
  PROVE  /\ IsDevice(JoinParallel(s, d))
         /\ JoinParallel(s, d).class = s.class /\ JoinParallel(s, d).pins = s.pins
         /\ JoinParallel(s, d).of = s.of \cup d.of
<1>1. s = [class |-> s.class, pins |-> s.pins, of |-> s.of, ohms |-> s.ohms, recs |-> s.recs]
  BY DEF IsDevice
<1>2. \E r, o : JoinParallel(s, d) = [s EXCEPT !.recs = r, !.of = s.of \cup d.of, !.ohms = o]
  BY DEF JoinParallel
<1>3. PICK r, o : JoinParallel(s, d) = [class |-> s.class, pins |-> s.pins, of |-> s.of \cup d.of,
                                         ohms |-> o, recs |-> r]
  BY <1>1, <1>2
<1> QED BY <1>3 DEF IsDevice

LEMMA SameNodes ==
  ASSUME NEW open, NEW s, NEW d, IsDevice(s), IsDevice(d), SameKey(open, s, d)
  PROVE  Pins(d) \subseteq Pins(s) \cup open
<1>1. PICK m \in Nat : s.pins \in [1..m -> 1..MaxNode]
  BY DEF IsDevice
<1>2. PICK n \in Nat : d.pins \in [1..n -> 1..MaxNode]
  BY DEF IsDevice
<1>3. /\ DOMAIN Key(open, s) = 1..m
      /\ \A p \in 1..m : Key(open, s)[p] = IF s.pins[p] \in open THEN 0 ELSE s.pins[p]
  BY <1>1 DEF Key, NoConnect
<1>4. /\ DOMAIN Key(open, d) = 1..n
      /\ \A p \in 1..n : Key(open, d)[p] = IF d.pins[p] \in open THEN 0 ELSE d.pins[p]
  BY <1>2 DEF Key, NoConnect
<1>5. \A p \in 1..n : d.pins[p] # 0
  BY <1>2
<1>6. \A q \in 1..m : s.pins[q] \in Pins(s)
  BY <1>1 DEF Pins, ToSet
<1>7. \A p \in 1..n : Key(open, d)[p] \in {Key(open, s)[q] : q \in 1..m}
  <2>1. CASE Key(open, d) = Key(open, s)
    BY <1>3, <1>4, <2>1
  <2>2. CASE s.class \in Permuted /\ Key(open, d) = Swapped(Key(open, s))
    <3>1. {1, 2} \subseteq 1..m
      BY <1>1, <2>2 DEF IsDevice
    <3>2. \A p \in 1..m : Swapped(Key(open, s))[p] =
            IF p = 1 THEN Key(open, s)[2] ELSE IF p = 2 THEN Key(open, s)[1] ELSE Key(open, s)[p]
      BY <1>3, <3>1 DEF Swapped
    <3>3. DOMAIN Swapped(Key(open, s)) = 1..m
      BY <1>3 DEF Swapped
    <3> QED BY <1>4, <2>2, <3>1, <3>2, <3>3
  <2> QED BY <2>1, <2>2 DEF SameKey
<1>8. ASSUME NEW p \in 1..n, d.pins[p] \notin open PROVE d.pins[p] \in Pins(s)
  <2>1. PICK q \in 1..m : Key(open, d)[p] = Key(open, s)[q]
    BY <1>7, <1>8
  <2>2. Key(open, d)[p] = d.pins[p]
    BY <1>4, <1>8
  <2>3. Key(open, s)[q] = s.pins[q]
    BY <1>3, <1>5, <2>1, <2>2
  <2> QED BY <1>6, <2>1, <2>2, <2>3
<1> QED BY <1>2, <1>8 DEF Pins, ToSet

-----------------------------------------------------------------------------
(* Parallel devices: each device that is left stands for a group of devices. *)

IsGrouping(open, devs, kept, i, L, g) ==
  /\ L \in 0..i /\ g \in [1..i -> 1..L]
  /\ IsList(kept, L)
  /\ \A k \in 1..L : IsDevice(kept[k])
  /\ \A k \in 1..L : \E j \in 1..i : g[j] = k /\ kept[k].class = devs[j].class /\ kept[k].pins = devs[j].pins
  /\ \A k \in 1..L : kept[k].of = UNION {devs[j].of : j \in {j \in 1..i : g[j] = k}}
  /\ \A j \in 1..i : Pins(devs[j]) \subseteq Pins(kept[g[j]]) \cup open
  /\ \A k, m \in 1..L : k < m /\ kept[m].class \notin NoParallel => ~SameKey(open, kept[k], kept[m])
  /\ L = i => \A k \in 1..i : kept[k] = devs[k]
Grouping(open, devs, kept, i) == \E L, g : IsGrouping(open, devs, kept, i, L, g)

LEMMA AppendGroups ==
  ASSUME NEW open, NEW devs, NEW kept, NEW i \in Nat, NEW d, d = devs[i + 1], IsDevice(d),
         NEW L, NEW g, IsGrouping(open, devs, kept, i, L, g),
         d.class \notin NoParallel => \A k \in 1..L : ~SameKey(open, kept[k], d)
  PROVE  Grouping(open, devs, Append(kept, d), i + 1)
<1> DEFINE new == Append(kept, d)
           h == [j \in 1..(i + 1) |-> IF j = i + 1 THEN L + 1 ELSE g[j]]
<1>1. /\ L \in 0..i /\ L \in Nat /\ g \in [1..i -> 1..L] /\ IsList(kept, L)
      /\ \A k \in 1..L : IsDevice(kept[k])
  BY DEF IsGrouping
<1>2. IsList(new, L + 1) /\ (\A k \in 1..L : new[k] = kept[k]) /\ new[L + 1] = d
  <2> HIDE DEF h
  <2>1. IsList(kept, L)
    BY <1>1
  <2>2. IsAppended(Append(kept, d), kept, L, d)
    BY <2>1, ListAppend
  <2>3. IsAppended(new, kept, L, d)
    BY <2>2
  <2> HIDE DEF new
  <2> QED BY <2>3 DEF IsAppended
<1> HIDE DEF new
<1>3. h \in [1..(i + 1) -> 1..(L + 1)] /\ h[i + 1] = L + 1 /\ \A j \in 1..i : h[j] = g[j] /\ h[j] \in 1..L
  BY <1>1
<1>4. \A j \in 1..(i + 1) : j \in 1..i \/ j = i + 1
  OBVIOUS
<1>5. \A k \in 1..(L + 1) : k \in 1..L \/ k = L + 1
  BY <1>1
<1>6. i + 1 \in 1..(i + 1) /\ L + 1 \in 1..(L + 1) /\ 1..i \subseteq 1..(i + 1) /\ L + 1 \notin 1..L
  BY <1>1
<1> HIDE DEF h
<1>7. \A k \in 1..(L + 1) : IsDevice(new[k])
  BY <1>1, <1>2, <1>5
<1>8. ASSUME NEW k \in 1..(L + 1)
      PROVE  \E j \in 1..(i + 1) : h[j] = k /\ new[k].class = devs[j].class /\ new[k].pins = devs[j].pins
  <2>1. CASE k = L + 1
    BY <1>2, <1>3, <1>6, <2>1
  <2>2. CASE k \in 1..L
    <3>1. PICK j \in 1..i : g[j] = k /\ kept[k].class = devs[j].class /\ kept[k].pins = devs[j].pins
      BY <2>2 DEF IsGrouping
    <3> QED BY <1>2, <1>3, <1>6, <2>2, <3>1
  <2> QED BY <1>5, <2>1, <2>2
<1>9. ASSUME NEW k \in 1..(L + 1)
      PROVE  new[k].of = UNION {devs[j].of : j \in {j \in 1..(i + 1) : h[j] = k}}
  <2>1. CASE k = L + 1
    <3>1. {j \in 1..(i + 1) : h[j] = k} = {i + 1}
      BY <1>3, <1>4, <1>6, <2>1
    <3>2. {devs[j].of : j \in {i + 1}} = {d.of}
      OBVIOUS
    <3> QED BY <1>2, <2>1, <3>1, <3>2
  <2>2. CASE k \in 1..L
    <3>1. {j \in 1..(i + 1) : h[j] = k} = {j \in 1..i : g[j] = k}
      BY <1>3, <1>4, <1>6, <2>2
    <3>2. kept[k].of = UNION {devs[j].of : j \in {j \in 1..i : g[j] = k}}
      BY <2>2 DEF IsGrouping
    <3> QED BY <1>2, <2>2, <3>1, <3>2
  <2> QED BY <1>5, <2>1, <2>2
<1>10. ASSUME NEW j \in 1..(i + 1) PROVE Pins(devs[j]) \subseteq Pins(new[h[j]]) \cup open
  <2>1. CASE j = i + 1
    BY <1>2, <1>3, <2>1
  <2>2. CASE j \in 1..i
    <3>1. Pins(devs[j]) \subseteq Pins(kept[g[j]]) \cup open /\ g[j] \in 1..L
      BY <1>1, <2>2 DEF IsGrouping
    <3> QED BY <1>2, <1>3, <2>2, <3>1
  <2> QED BY <1>4, <2>1, <2>2
<1>11. ASSUME NEW k \in 1..(L + 1), NEW m \in 1..(L + 1), k < m, new[m].class \notin NoParallel
       PROVE  ~SameKey(open, new[k], new[m])
  <2>1. k \in 1..L
    BY <1>1, <1>11
  <2>2. CASE m = L + 1
    BY <1>2, <1>11, <2>1, <2>2
  <2>3. CASE m \in 1..L
    <3>1. ~SameKey(open, kept[k], kept[m])
      BY <1>2, <1>11, <2>1, <2>3 DEF IsGrouping
    <3> QED BY <1>2, <2>1, <2>3, <3>1
  <2> QED BY <1>5, <2>2, <2>3
<1>12. ASSUME L + 1 = i + 1, NEW k \in 1..(i + 1) PROVE new[k] = devs[k]
  <2>1. L = i
    BY <1>1, <1>12
  <2>2. CASE k = i + 1
    BY <1>2, <2>1, <2>2
  <2>3. CASE k \in 1..i
    BY <1>2, <2>1, <2>3 DEF IsGrouping
  <2> QED BY <1>4, <2>2, <2>3
<1>13. L + 1 \in 0..(i + 1)
  BY <1>1
<1>14. IsGrouping(open, devs, new, i + 1, L + 1, h)
  BY <1>2, <1>3, <1>7, <1>8, <1>9, <1>10, <1>11, <1>12, <1>13 DEF IsGrouping
<1> QED BY <1>14 DEF Grouping, new

LEMMA JoinGroups ==
  ASSUME NEW open, NEW devs, NEW kept, NEW i \in Nat, NEW d, d = devs[i + 1], IsDevice(d),
         NEW L, NEW g, IsGrouping(open, devs, kept, i, L, g),
         NEW q \in 1..L, SameKey(open, kept[q], d)
  PROVE  Grouping(open, devs, [kept EXCEPT ![q] = JoinParallel(kept[q], d)], i + 1)
<1> DEFINE new == [kept EXCEPT ![q] = JoinParallel(kept[q], d)]
           h == [j \in 1..(i + 1) |-> IF j = i + 1 THEN q ELSE g[j]]
<1>1. /\ L \in 0..i /\ L \in Nat /\ g \in [1..i -> 1..L] /\ IsList(kept, L)
      /\ \A k \in 1..L : IsDevice(kept[k])
  BY DEF IsGrouping
<1>2. /\ IsDevice(JoinParallel(kept[q], d))
      /\ JoinParallel(kept[q], d).class = kept[q].class /\ JoinParallel(kept[q], d).pins = kept[q].pins
      /\ JoinParallel(kept[q], d).of = kept[q].of \cup d.of
  BY <1>1, ParallelJoin
<1>3. /\ IsList(new, L)
      /\ \A k \in 1..L : k # q => new[k] = kept[k]
      /\ new[q] = JoinParallel(kept[q], d)
  <2> HIDE DEF h
  <2> QED BY <1>1 DEF IsList
<1>4. \A k \in 1..L : IsDevice(new[k]) /\ new[k].class = kept[k].class /\ new[k].pins = kept[k].pins
  BY <1>1, <1>2, <1>3
<1> HIDE DEF new
<1>5. h \in [1..(i + 1) -> 1..L] /\ h[i + 1] = q /\ \A j \in 1..i : h[j] = g[j] /\ h[j] \in 1..L
  BY <1>1
<1>6. \A j \in 1..(i + 1) : j \in 1..i \/ j = i + 1
  OBVIOUS
<1>7. i + 1 \in 1..(i + 1) /\ 1..i \subseteq 1..(i + 1) /\ i + 1 \notin 1..i
  OBVIOUS
<1> HIDE DEF h
<1>8. ASSUME NEW k \in 1..L
      PROVE  \E j \in 1..(i + 1) : h[j] = k /\ new[k].class = devs[j].class /\ new[k].pins = devs[j].pins
  <2>1. PICK j \in 1..i : g[j] = k /\ kept[k].class = devs[j].class /\ kept[k].pins = devs[j].pins
    BY DEF IsGrouping
  <2> QED BY <1>4, <1>5, <1>7, <2>1
<1>9. ASSUME NEW k \in 1..L
      PROVE  new[k].of = UNION {devs[j].of : j \in {j \in 1..(i + 1) : h[j] = k}}
  <2>1. kept[k].of = UNION {devs[j].of : j \in {j \in 1..i : g[j] = k}}
    BY DEF IsGrouping
  <2>2. CASE k = q
    <3>1. {j \in 1..(i + 1) : h[j] = k} = {j \in 1..i : g[j] = k} \cup {i + 1}
      BY <1>5, <1>6, <1>7, <2>2
    <3>2. UNION {devs[j].of : j \in {j \in 1..i : g[j] = k} \cup {i + 1}} =
            (UNION {devs[j].of : j \in {j \in 1..i : g[j] = k}}) \cup d.of
      OBVIOUS
    <3>3. new[k].of = kept[k].of \cup d.of
      BY <1>2, <1>3, <2>2
    <3> QED BY <2>1, <3>1, <3>2, <3>3
  <2>3. CASE k # q
    <3>1. {j \in 1..(i + 1) : h[j] = k} = {j \in 1..i : g[j] = k}
      BY <1>5, <1>6, <1>7, <2>3
    <3> QED BY <1>3, <2>1, <2>3, <3>1
  <2> QED BY <2>2, <2>3
<1>10. ASSUME NEW j \in 1..(i + 1) PROVE Pins(devs[j]) \subseteq Pins(new[h[j]]) \cup open
  <2>1. CASE j = i + 1
    <3>1. Pins(d) \subseteq Pins(kept[q]) \cup open
      BY <1>1, SameNodes
    <3> QED BY <1>4, <1>5, <2>1, <3>1 DEF Pins
  <2>2. CASE j \in 1..i
    <3>1. Pins(devs[j]) \subseteq Pins(kept[g[j]]) \cup open /\ g[j] \in 1..L
      BY <1>1, <2>2 DEF IsGrouping
    <3> QED BY <1>4, <1>5, <2>2, <3>1 DEF Pins
  <2> QED BY <1>6, <2>1, <2>2
<1>11. ASSUME NEW k \in 1..L, NEW m \in 1..L, k < m, new[m].class \notin NoParallel
       PROVE  ~SameKey(open, new[k], new[m])
  <2>1. ~SameKey(open, kept[k], kept[m])
    BY <1>4, <1>11 DEF IsGrouping
  <2> QED BY <1>4, <2>1 DEF SameKey, Key
<1>12. L # i + 1 /\ L \in 0..(i + 1)
  BY <1>1
<1>13. IsGrouping(open, devs, new, i + 1, L, h)
  BY <1>3, <1>4, <1>5, <1>8, <1>9, <1>10, <1>11, <1>12 DEF IsGrouping
<1> QED BY <1>13 DEF Grouping, new

LEMMA IntoGroups ==
  ASSUME NEW open, NEW devs, NEW kept, NEW i \in Nat, IsDevice(devs[i + 1]),
         Grouping(open, devs, kept, i)
  PROVE  Grouping(open, devs, JoinInto(open, kept, devs[i + 1]), i + 1)
<1> DEFINE d == devs[i + 1]
           same == {k \in DOMAIN kept : d.class \notin NoParallel /\ SameKey(open, kept[k], d)}
<1>1. PICK L, g : IsGrouping(open, devs, kept, i, L, g)
  BY DEF Grouping
<1>2. L \in Nat /\ DOMAIN kept = 1..L
  BY <1>1, ListLen DEF IsGrouping
<1>3. JoinInto(open, kept, d) = IF same = {} THEN Append(kept, d)
                                ELSE [kept EXCEPT ![Min(same)] = JoinParallel(kept[Min(same)], d)]
  BY DEF JoinInto
<1>4. CASE same = {}
  <2>1. d.class \notin NoParallel => \A k \in 1..L : ~SameKey(open, kept[k], d)
    BY <1>2, <1>4
  <2> HIDE DEF d, same
  <2>2. d = devs[i + 1]
    BY DEF d
  <2> QED BY <1>1, <1>3, <1>4, <2>1, <2>2, AppendGroups
<1>5. CASE same # {}
  <2>1. same \in SUBSET Nat
    BY <1>2
  <2>2. Min(same) \in same
    <3> HIDE DEF same
    <3> QED BY <1>5, <2>1, LeastIn
  <2>3. Min(same) \in 1..L /\ SameKey(open, kept[Min(same)], d)
    BY <1>2, <2>2
  <2> HIDE DEF d, same
  <2>4. d = devs[i + 1]
    BY DEF d
  <2> QED BY <1>1, <1>3, <1>5, <2>3, <2>4, JoinGroups
<1> QED BY <1>4, <1>5

\* CombineParallel leaves groups of devices.
LEMMA ParallelGroups ==
  ASSUME NEW open, NEW devs, NEW N, IsList(devs, N), \A k \in 1..N : IsDevice(devs[k])
  PROVE  Grouping(open, devs, JoinedParallel(open, devs), N)
<1>1. N \in Nat /\ DOMAIN devs = 1..N
  BY ListLen DEF IsList
<1>2. PICK f : ParallelSteps(f, open, devs, N)
  BY <1>1, ParallelFold
<1> DEFINE P == {n \in Nat : n <= N => Grouping(open, devs, f[n], n)}
<1>3. 0 \in P
  <2>1. IsGrouping(open, devs, << >>, 0, 0, [j \in 1..0 |-> 0])
    BY ListEmpty DEF IsGrouping
  <2> QED BY <1>2, <2>1 DEF Grouping, ParallelSteps
<1>4. ASSUME NEW n \in Nat, n \in P PROVE n + 1 \in P
  <2>1. SUFFICES ASSUME n + 1 <= N PROVE Grouping(open, devs, f[n + 1], n + 1)
    OBVIOUS
  <2>2. n + 1 \in 1..N /\ (n + 1) - 1 = n /\ Grouping(open, devs, f[n], n)
    BY <1>1, <1>4, <2>1
  <2>3. f[n + 1] = JoinInto(open, f[n], devs[n + 1])
    BY <1>2, <2>2 DEF ParallelSteps
  <2> HIDE DEF P
  <2> QED BY <2>2, <2>3, IntoGroups
<1>5. N \in P
  <2> HIDE DEF P
  <2> QED BY <1>1, <1>3, <1>4, Induction
<1> QED BY <1>1, <1>2, <1>5 DEF ParallelSteps

Distinct(open, devs) ==
  \A k, m \in DOMAIN devs :
    k < m /\ devs[m].class \notin NoParallel => ~SameKey(open, devs[k], devs[m])

\* A pass over devices that are not parallel leaves them.
LEMMA DistinctStays ==
  ASSUME NEW open, NEW devs, NEW N, IsList(devs, N), Distinct(open, devs)
  PROVE  JoinedParallel(open, devs) = devs
<1>1. N \in Nat /\ DOMAIN devs = 1..N
  BY ListLen DEF IsList
<1>2. PICK f : ParallelSteps(f, open, devs, N)
  BY <1>1, ParallelFold
<1> DEFINE P == {n \in Nat : n <= N => IsList(f[n], n) /\ \A k \in 1..n : f[n][k] = devs[k]}
<1>3. 0 \in P
  BY <1>2, ListEmpty DEF ParallelSteps
<1>4. ASSUME NEW n \in Nat, n \in P PROVE n + 1 \in P
  <2>1. SUFFICES ASSUME n + 1 <= N
                 PROVE  IsList(f[n + 1], n + 1) /\ \A k \in 1..(n + 1) : f[n + 1][k] = devs[k]
    OBVIOUS
  <2>2. n + 1 \in 1..N /\ (n + 1) - 1 = n /\ IsList(f[n], n) /\ \A k \in 1..n : f[n][k] = devs[k]
    BY <1>1, <1>4, <2>1
  <2>3. f[n + 1] = JoinInto(open, f[n], devs[n + 1])
    BY <1>2, <2>2 DEF ParallelSteps
  <2>4. DOMAIN f[n] = 1..n
    BY <2>2, ListLen
  <2> DEFINE same == {k \in DOMAIN f[n] : devs[n + 1].class \notin NoParallel /\ SameKey(open, f[n][k], devs[n + 1])}
  <2>5. same = {}
    <3>1. ASSUME NEW k \in 1..n, devs[n + 1].class \notin NoParallel PROVE ~SameKey(open, f[n][k], devs[n + 1])
      <4>1. k < n + 1 /\ k \in 1..N /\ f[n][k] = devs[k]
        BY <1>1, <2>2
      <4> QED BY <1>1, <2>2, <3>1, <4>1 DEF Distinct
    <3> QED BY <2>4, <3>1
  <2>6. f[n + 1] = Append(f[n], devs[n + 1])
    BY <2>3, <2>5 DEF JoinInto
  <2>7. IsAppended(Append(f[n], devs[n + 1]), f[n], n, devs[n + 1])
    <3> HIDE DEF P, same
    <3> QED BY <2>2, ListAppend
  <2>8. IsAppended(f[n + 1], f[n], n, devs[n + 1])
    BY <2>6, <2>7
  <2> HIDE DEF P, same
  <2>9. \A k \in 1..(n + 1) : k \in 1..n \/ k = n + 1
    OBVIOUS
  <2> QED BY <2>2, <2>8, <2>9 DEF IsAppended
<1>5. N \in P
  <2> HIDE DEF P
  <2> QED BY <1>1, <1>3, <1>4, Induction
<1>6. JoinedParallel(open, devs) = f[N] /\ IsList(f[N], N) /\ \A k \in 1..N : f[N][k] = devs[k]
  BY <1>1, <1>2, <1>5 DEF ParallelSteps
<1> QED BY <1>6 DEF IsList

\* Devices stand for parts of the netlist, each within its pins.
Within(d, ports) == (Nodes(d) \ Pins(d)) \cap ToSet(ports) = {}
Apart(d, e) == (Nodes(d) \ Pins(d)) \cap Pins(e) = {} /\ d.of \cap e.of = {}
Parts(devs, ports) ==
  /\ \A k \in DOMAIN devs : Pins(devs[k]) \subseteq Nodes(devs[k]) /\ Within(devs[k], ports)
  /\ \A k, j \in DOMAIN devs : k # j => Apart(devs[k], devs[j])
OfAll(devs) == UNION {devs[k].of : k \in DOMAIN devs}

\* A node in a set of open nodes is on one port or pin only.
Alone(open, devs, ports) ==
  \A n \in open : \A k \in DOMAIN devs : n \in Pins(devs[k]) =>
    n \notin ToSet(ports) /\ \A j \in DOMAIN devs : j # k => n \notin Pins(devs[j])

LEMMA GroupNodes ==
  ASSUME NEW open, NEW devs, NEW kept, NEW i, NEW L, NEW g, IsGrouping(open, devs, kept, i, L, g),
         NEW k \in 1..L
  PROVE  /\ \A n \in Nodes(kept[k]) : \E j \in 1..i : g[j] = k /\ n \in Nodes(devs[j])
         /\ \A j \in 1..i : g[j] = k => Nodes(devs[j]) \subseteq Nodes(kept[k])
         /\ \A x \in kept[k].of : \E j \in 1..i : g[j] = k /\ x \in devs[j].of
<1>1. kept[k].of = UNION {devs[j].of : j \in {j \in 1..i : g[j] = k}}
  BY DEF IsGrouping
<1>2. \A x \in kept[k].of : \E j \in 1..i : g[j] = k /\ x \in devs[j].of
  BY <1>1
<1>3. \A j \in 1..i : g[j] = k => devs[j].of \subseteq kept[k].of
  BY <1>1
<1> QED BY <1>2, <1>3 DEF Nodes

LEMMA ParallelParts ==
  ASSUME NEW open, NEW devs, NEW N, IsList(devs, N), \A k \in 1..N : IsDevice(devs[k]),
         NEW ports, Parts(devs, ports), Alone(open, devs, ports)
  PROVE  /\ Parts(JoinedParallel(open, devs), ports)
         /\ OfAll(JoinedParallel(open, devs)) = OfAll(devs)
<1> DEFINE new == JoinedParallel(open, devs)
<1>1. N \in Nat /\ DOMAIN devs = 1..N
  BY ListLen DEF IsList
<1>2. PICK L, g : IsGrouping(open, devs, new, N, L, g)
  BY ParallelGroups DEF Grouping
<1> HIDE DEF new
<1>3. L \in Nat /\ DOMAIN new = 1..L /\ g \in [1..N -> 1..L]
  BY <1>2, ListLen DEF IsGrouping, IsList
<1>4. ASSUME NEW k \in 1..L
      PROVE  \E j \in 1..N : g[j] = k /\ Pins(new[k]) = Pins(devs[j])
  BY <1>2 DEF IsGrouping, Pins
<1>5. \A j \in 1..N : Pins(devs[j]) \subseteq Pins(new[g[j]]) \cup open
  BY <1>2 DEF IsGrouping
<1>6. ASSUME NEW k \in 1..L PROVE Pins(new[k]) \subseteq Nodes(new[k])
  <2>1. PICK j \in 1..N : g[j] = k /\ Pins(new[k]) = Pins(devs[j])
    BY <1>4
  <2>2. Pins(devs[j]) \subseteq Nodes(devs[j])
    BY <1>1 DEF Parts
  <2>3. Nodes(devs[j]) \subseteq Nodes(new[k])
    BY <1>2, <2>1, GroupNodes
  <2> QED BY <2>1, <2>2, <2>3
<1>7. ASSUME NEW k \in 1..L, NEW n \in Nodes(new[k]), n \notin Pins(new[k])
      PROVE  n \notin ToSet(ports) /\ \A m \in 1..L : m # k => n \notin Pins(new[m])
  <2>1. PICK j \in 1..N : g[j] = k /\ n \in Nodes(devs[j])
    BY <1>2, GroupNodes
  <2>2. n \notin ToSet(ports) /\ \A q \in 1..N : q # j => n \notin Pins(devs[q])
    <3>1. CASE n \in Pins(devs[j])
      <4>1. n \in open
        BY <1>5, <1>7, <2>1, <3>1
      <4> QED BY <1>1, <3>1, <4>1 DEF Alone
    <3>2. CASE n \notin Pins(devs[j])
      <4>1. \A q \in 1..N : q # j => Apart(devs[j], devs[q])
        BY <1>1 DEF Parts
      <4>2. Within(devs[j], ports)
        BY <1>1 DEF Parts
      <4> QED BY <2>1, <3>2, <4>1, <4>2 DEF Apart, Within
    <3> QED BY <3>1, <3>2
  <2>3. ASSUME NEW m \in 1..L, m # k PROVE n \notin Pins(new[m])
    <3>1. PICK q \in 1..N : g[q] = m /\ Pins(new[m]) = Pins(devs[q])
      BY <1>4
    <3> QED BY <2>1, <2>2, <2>3, <3>1
  <2> QED BY <2>2, <2>3
<1>8. ASSUME NEW k \in 1..L, NEW m \in 1..L, k # m PROVE new[k].of \cap new[m].of = {}
  <2> SUFFICES ASSUME NEW x, x \in new[k].of, x \in new[m].of PROVE FALSE
    OBVIOUS
  <2>1. PICK j \in 1..N : g[j] = k /\ x \in devs[j].of
    BY <1>2, GroupNodes
  <2>2. PICK q \in 1..N : g[q] = m /\ x \in devs[q].of
    BY <1>2, GroupNodes
  <2>3. Apart(devs[j], devs[q])
    BY <1>1, <1>8, <2>1, <2>2 DEF Parts
  <2> QED BY <2>1, <2>2, <2>3 DEF Apart
<1>9. Parts(new, ports)
  <2>1. \A k \in 1..L : Within(new[k], ports)
    BY <1>7 DEF Within
  <2>2. \A k, m \in 1..L : k # m => Apart(new[k], new[m])
    BY <1>7, <1>8 DEF Apart
  <2> QED BY <1>3, <1>6, <2>1, <2>2 DEF Parts
<1>10. OfAll(new) = OfAll(devs)
  <2>1. ASSUME NEW x \in OfAll(new) PROVE x \in OfAll(devs)
    <3>1. PICK k \in 1..L : x \in new[k].of
      BY <1>3, <2>1 DEF OfAll
    <3>2. \E j \in 1..N : g[j] = k /\ x \in devs[j].of
      BY <1>2, <3>1, GroupNodes
    <3> QED BY <1>1, <3>2 DEF OfAll
  <2>2. ASSUME NEW x \in OfAll(devs) PROVE x \in OfAll(new)
    <3>1. PICK j \in 1..N : x \in devs[j].of
      BY <1>1, <2>2 DEF OfAll
    <3>2. g[j] \in 1..L /\ new[g[j]].of = UNION {devs[q].of : q \in {q \in 1..N : g[q] = g[j]}}
      BY <1>2, <1>3 DEF IsGrouping
    <3>3. x \in new[g[j]].of
      BY <3>1, <3>2
    <3> QED BY <1>3, <3>2, <3>3 DEF OfAll
  <2> QED BY <2>1, <2>2
<1> QED BY <1>9, <1>10 DEF new

IsCell(c) ==
  /\ c = [top |-> c.top, ports |-> c.ports, devs |-> c.devs, open |-> c.open]
  /\ \E n \in Nat : DOMAIN c.ports = 1..n
  /\ \E N : IsList(c.devs, N) /\ \A k \in 1..N : IsDevice(c.devs[k])

LEMMA OpenAlone ==
  ASSUME NEW c, IsCell(c)
  PROVE  Alone(OpenNodes(c), c.devs, c.ports)
<1> DEFINE ports == {0} \X DOMAIN c.ports
           pins == PinsOf(c.devs)
           On(x) == IF x[1] = 0 THEN c.ports[x[2]] ELSE c.devs[x[1]].pins[x[2]]
<1>1. PICK N : IsList(c.devs, N)
  BY DEF IsCell
<1>2. DOMAIN c.devs = 1..N /\ N \in Nat
  BY <1>1, ListLen DEF IsList
<1>3. \A n \in OpenNodes(c) : \E x \in ports \cup pins : On(x) = n /\ \A y \in ports \cup pins : On(y) = n => y = x
  <2>1. OpenNodes(c) \subseteq {On(x) : x \in {x \in ports \cup pins : \A y \in ports \cup pins : On(y) = On(x) => y = x}}
    BY DEF OpenNodes
  <2> HIDE DEF ports, pins, On
  <2> QED BY <2>1
<1>4. ASSUME NEW k \in 1..N, NEW n \in Pins(c.devs[k])
      PROVE  \E p : <<k, p>> \in pins /\ On(<<k, p>>) = n
  BY <1>2 DEF PinsOf, Pins, ToSet
<1>5. ASSUME NEW n \in ToSet(c.ports)
      PROVE  \E p : <<0, p>> \in ports /\ On(<<0, p>>) = n
  BY DEF ToSet
<1>6. 0 \notin 1..N
  BY <1>2
<1> HIDE DEF ports, pins, On
<1>7. ASSUME NEW n \in OpenNodes(c), NEW k \in 1..N, n \in Pins(c.devs[k])
      PROVE  n \notin ToSet(c.ports) /\ \A j \in 1..N : j # k => n \notin Pins(c.devs[j])
  <2>1. PICK x \in ports \cup pins : On(x) = n /\ \A y \in ports \cup pins : On(y) = n => y = x
    BY <1>3
  <2>2. PICK p : <<k, p>> \in pins /\ On(<<k, p>>) = n
    BY <1>4, <1>7
  <2>3. x = <<k, p>>
    BY <2>1, <2>2
  <2>4. n \notin ToSet(c.ports)
    <3>1. SUFFICES ASSUME n \in ToSet(c.ports) PROVE FALSE
      OBVIOUS
    <3>2. PICK q : <<0, q>> \in ports /\ On(<<0, q>>) = n
      BY <1>5, <3>1
    <3>3. <<0, q>> = <<k, p>>
      BY <2>1, <2>3, <3>2
    <3> QED BY <1>6, <3>3
  <2>5. ASSUME NEW j \in 1..N, j # k PROVE n \notin Pins(c.devs[j])
    <3>1. SUFFICES ASSUME n \in Pins(c.devs[j]) PROVE FALSE
      OBVIOUS
    <3>2. PICK q : <<j, q>> \in pins /\ On(<<j, q>>) = n
      BY <1>4, <3>1
    <3>3. <<j, q>> = <<k, p>>
      BY <2>1, <2>3, <3>2
    <3> QED BY <2>5, <3>3
  <2> QED BY <2>4, <2>5
<1> QED BY <1>2, <1>7 DEF Alone

-----------------------------------------------------------------------------
(* The two pins on a series node.                                            *)

LEMMA FirstIn ==
  ASSUME NEW on \in SUBSET (Nat \X Nat), on # {}
  PROVE  FirstOf(on) \in on
<1> DEFINE devs == {x[1] : x \in on}
           a == Min(devs)
           pins == {x[2] : x \in {x \in on : x[1] = a}}
<1>1. \A x \in on : x[1] \in Nat /\ x[2] \in Nat /\ x = <<x[1], x[2]>>
  OBVIOUS
<1>2. devs \in SUBSET Nat /\ devs # {}
  BY <1>1
<1>3. PICK k \in devs : \A m \in devs : ~(<<m, k>> \in OpToRel(<, Nat))
  <2> HIDE DEF devs
  <2> QED BY <1>2, NatLessThanWellFounded, WFMin
<1> DEFINE of == {x[2] : x \in {x \in on : x[1] = k}}
<1>4. of \in SUBSET Nat /\ of # {}
  BY <1>1
<1>5. PICK p \in of : \A q \in of : ~(<<q, p>> \in OpToRel(<, Nat))
  <2> HIDE DEF of
  <2> QED BY <1>4, NatLessThanWellFounded, WFMin
<1>6. <<k, p>> \in on
  BY <1>1
<1>7. ASSUME NEW y \in on
      PROVE  k < y[1] \/ (k = y[1] /\ p <= y[2])
  <2>1. y[1] \in devs /\ y[1] \in Nat /\ k \in Nat /\ p \in Nat /\ y[2] \in Nat
    BY <1>1, <1>2, <1>4
  <2>2. ~(y[1] < k)
    <3> HIDE DEF devs
    <3> QED BY <1>3, <2>1 DEF OpToRel
  <2>3. CASE y[1] = k
    <3>1. y[2] \in of
      BY <2>3
    <3>2. ~(y[2] < p)
      <4> HIDE DEF of
      <4> QED BY <1>5, <2>1, <3>1 DEF OpToRel
    <3> QED BY <2>1, <2>3, <3>2
  <2>4. CASE y[1] # k
    BY <2>1, <2>2, <2>4
  <2> QED BY <2>3, <2>4
<1>8. \E x \in on : \A y \in on : x[1] < y[1] \/ (x[1] = y[1] /\ x[2] <= y[2])
  <2> HIDE DEF devs, of
  <2> QED BY <1>6, <1>7
<1> QED BY <1>8 DEF FirstOf

LEMMA PinsFinite ==
  ASSUME NEW devs, NEW N, IsList(devs, N), \A k \in 1..N : IsDevice(devs[k])
  PROVE  IsFiniteSet(PinsOf(devs)) /\ PinsOf(devs) \subseteq Nat \X Nat
<1> DEFINE f == [k \in 1..N |-> {k} \X DOMAIN devs[k].pins]
           T == {{k} \X DOMAIN devs[k].pins : k \in 1..N}
<1>1. N \in Nat /\ DOMAIN devs = 1..N
  BY ListLen DEF IsList
<1>2. ASSUME NEW k \in 1..N
      PROVE  \E m \in Nat : DOMAIN devs[k].pins = 1..m
  BY DEF IsDevice
<1>3. f \in Surjection(1..N, T)
  BY DEF Surjection
<1>4. IsFiniteSet(1..N)
  BY <1>1, FS_Interval
<1>5. IsFiniteSet(T)
  <2> HIDE DEF f, T
  <2> QED BY <1>3, <1>4, FS_Surjection
<1>6. ASSUME NEW s \in T PROVE IsFiniteSet(s)
  <2>1. PICK k \in 1..N : s = {k} \X DOMAIN devs[k].pins
    BY <1>6
  <2>2. PICK m \in Nat : DOMAIN devs[k].pins = 1..m
    BY <1>2
  <2>3. IsFiniteSet({k})
    BY FS_Singleton
  <2>4. IsFiniteSet(1..m)
    <3> HIDE DEF f, T
    <3>1. 1 \in Int /\ m \in Int
      BY <2>2
    <3> QED BY <3>1, FS_Interval
  <2>5. IsFiniteSet({k} \X (1..m))
    BY <2>3, <2>4, FS_Product
  <2> QED BY <2>1, <2>2, <2>5
<1>7. IsFiniteSet(UNION T)
  <2> HIDE DEF T
  <2> QED BY <1>5, <1>6, FS_UNION
<1>8. PinsOf(devs) = UNION T
  BY <1>1 DEF PinsOf
<1>9. PinsOf(devs) \subseteq Nat \X Nat
  BY <1>1, <1>2 DEF PinsOf
<1> QED BY <1>7, <1>8, <1>9

\* A set of two is known by its elements.
LEMMA TwoElements ==
  ASSUME NEW on, IsFiniteSet(on), Cardinality(on) = 2,
         NEW x \in on, NEW y, on \ {x} # {} => y \in on \ {x}
  PROVE  on = {x, y} /\ x # y
<1>1. IsFiniteSet(on \ {x}) /\ Cardinality(on \ {x}) = 1
  BY FS_RemoveElement
<1>2. PICK z : on \ {x} = {z}
  BY <1>1, FS_Singleton
<1> QED BY <1>2

ClassPins(devs) ==
  \A j, k \in DOMAIN devs :
    devs[j].class = devs[k].class => DOMAIN devs[j].pins = DOMAIN devs[k].pins

\* A node between the devices a and b.
IsPair(devs, ports, gone, n, a, b) ==
  /\ {a, b} \subseteq DOMAIN devs \ gone /\ n \notin ToSet(ports)
  /\ devs[a].class \in Series /\ devs[b].class = devs[a].class
  /\ \A r \in DOMAIN devs[a].pins : r > 2 => devs[a].pins[r] = devs[b].pins[r]
  /\ \E p, q \in {1, 2} :
       /\ <<a, p>> # <<b, q>> /\ devs[a].pins[p] = n /\ devs[b].pins[q] = n
       /\ \A k \in DOMAIN devs \ gone : \A r \in DOMAIN devs[k].pins :
            devs[k].pins[r] = n => <<k, r>> \in {<<a, p>>, <<b, q>>}

LEMMA PairFound ==
  ASSUME NEW c, IsCell(c), ClassPins(c.devs), NEW n, IsSeriesNode(c, n)
  PROVE  /\ IsPair(c.devs, c.ports, {}, n, FirstPin(c.devs, n)[1], SecondPin(c.devs, n)[1])
         /\ FirstPin(c.devs, n)[1] # SecondPin(c.devs, n)[1]
<1> DEFINE on == PinsOn(c.devs, n)
           x == FirstPin(c.devs, n)
           y == SecondPin(c.devs, n)
<1>1. PICK N : IsList(c.devs, N) /\ \A k \in 1..N : IsDevice(c.devs[k])
  BY DEF IsCell
<1>2. DOMAIN c.devs = 1..N
  BY <1>1, ListLen
<1>3. IsFiniteSet(on) /\ on \in SUBSET (Nat \X Nat)
  <2>1. IsFiniteSet(PinsOf(c.devs)) /\ PinsOf(c.devs) \subseteq Nat \X Nat
    BY <1>1, PinsFinite
  <2>2. on \in SUBSET PinsOf(c.devs)
    BY DEF PinsOn
  <2> HIDE DEF on
  <2> QED BY <2>1, <2>2, FS_Subset
<1>4. Cardinality(on) = 2 /\ n \notin ToSet(c.ports)
  BY DEF IsSeriesNode
<1>5. x = FirstOf(on) /\ y = FirstOf(on \ {x})
  BY DEF FirstPin, SecondPin
<1>6. \A z : z \in on <=> /\ z[1] \in DOMAIN c.devs /\ z[2] \in DOMAIN c.devs[z[1]].pins /\ z = <<z[1], z[2]>>
                          /\ c.devs[z[1]].pins[z[2]] = n
  BY DEF PinsOn, PinsOf
<1>7. /\ c.devs[x[1]].class \in Series /\ x[2] <= 2
      /\ c.devs[y[1]].class = c.devs[x[1]].class
      /\ x[1] # y[1]
      /\ \A p \in DOMAIN c.devs[x[1]].pins : p > 2 => c.devs[x[1]].pins[p] = c.devs[y[1]].pins[p]
  BY DEF IsSeriesNode, CheckPinNodes
<1> HIDE DEF on, x, y
<1>8. on # {}
  BY <1>4, FS_EmptySet
<1>9. x \in on
  BY <1>3, <1>5, <1>8, FirstIn
<1>10. on \ {x} # {} => y \in on \ {x}
  <2>1. on \ {x} \in SUBSET (Nat \X Nat)
    BY <1>3
  <2> QED BY <1>5, <2>1, FirstIn
<1>11. on = {x, y}
  BY <1>3, <1>4, <1>9, <1>10, TwoElements
<1>12. /\ {x[1], y[1]} \subseteq 1..N /\ x = <<x[1], x[2]>> /\ y = <<y[1], y[2]>>
       /\ x[2] \in DOMAIN c.devs[x[1]].pins /\ y[2] \in DOMAIN c.devs[y[1]].pins
       /\ c.devs[x[1]].pins[x[2]] = n /\ c.devs[y[1]].pins[y[2]] = n
  BY <1>2, <1>6, <1>11
<1>13. DOMAIN c.devs[x[1]].pins = DOMAIN c.devs[y[1]].pins
  BY <1>2, <1>7, <1>12 DEF ClassPins
<1>14. DOMAIN c.devs[x[1]].pins \subseteq Nat \ {0}
  <2>1. IsDevice(c.devs[x[1]])
    BY <1>1, <1>12
  <2>2. PICK m \in Nat : c.devs[x[1]].pins \in [1..m -> 1..MaxNode]
    BY <2>1 DEF IsDevice
  <2>3. DOMAIN c.devs[x[1]].pins = 1..m
    BY <2>2
  <2>4. 1..m \subseteq Nat \ {0}
    BY <2>2
  <2> QED BY <2>3, <2>4
<1>15. y[2] <= 2
  <2>1. SUFFICES ASSUME y[2] > 2 PROVE FALSE
    BY <1>12, <1>13, <1>14
  <2>2. <<x[1], y[2]>> \in on
    BY <1>2, <1>6, <1>7, <1>12, <1>13, <2>1
  <2>3. <<x[1], y[2]>> = x \/ <<x[1], y[2]>> = y
    BY <1>11, <2>2
  <2>4. y[2] = x[2]
    BY <1>7, <1>12, <2>3
  <2>5. x[2] \in Nat /\ y[2] \in Nat
    BY <1>12, <1>13, <1>14
  <2> QED BY <1>7, <2>1, <2>4, <2>5
<1>16. x[2] \in {1, 2} /\ y[2] \in {1, 2}
  BY <1>7, <1>12, <1>13, <1>14, <1>15
<1>17. \A k \in DOMAIN c.devs : \A r \in DOMAIN c.devs[k].pins :
         c.devs[k].pins[r] = n => <<k, r>> \in {<<x[1], x[2]>>, <<y[1], y[2]>>}
  <2>1. ASSUME NEW k \in DOMAIN c.devs, NEW r \in DOMAIN c.devs[k].pins, c.devs[k].pins[r] = n
        PROVE  <<k, r>> \in on
    <3>1. <<k, r>>[1] = k /\ <<k, r>>[2] = r
      OBVIOUS
    <3> QED BY <1>6, <2>1, <3>1
  <2> QED BY <1>11, <1>12, <2>1
<1>18. <<x[1], x[2]>> # <<y[1], y[2]>>
  BY <1>7
<1>19. {x[1], y[1]} \subseteq DOMAIN c.devs \ {}
  BY <1>2, <1>12
<1>20. IsPair(c.devs, c.ports, {}, n, x[1], y[1])
  <2>1. \A k \in DOMAIN c.devs \ {} : k \in DOMAIN c.devs
    OBVIOUS
  <2> QED BY <1>4, <1>7, <1>12, <1>16, <1>17, <1>18, <1>19, <2>1 DEF IsPair
<1> QED BY <1>7, <1>20 DEF x, y

-----------------------------------------------------------------------------
(* Two devices in series become one.                                         *)

InSeriesAt(A, B, n, p, q) ==
  /\ IsDevice(A) /\ IsDevice(B) /\ A.class \in Series /\ B.class = A.class
  /\ DOMAIN A.pins = DOMAIN B.pins
  /\ p \in {1, 2} /\ q \in {1, 2} /\ A.pins[p] = n /\ B.pins[q] = n
  /\ \A r \in DOMAIN A.pins : A.pins[r] = n => r = p
  /\ \A r \in DOMAIN B.pins : B.pins[r] = n => r = q
  /\ \A r \in DOMAIN A.pins : r > 2 => A.pins[r] = B.pins[r]

\* D is A and B in series at these pins.
SeriesJoined(D, A, B, p, q) ==
  /\ IsDevice(D) /\ D.class = A.class
  /\ D.pins = [A.pins EXCEPT ![p] = B.pins[3 - q]]
  /\ D.of = A.of \cup B.of

LEMMA SeriesJoin ==
  ASSUME NEW A, NEW B, NEW n, NEW p, NEW q, InSeriesAt(A, B, n, p, q)
  PROVE  SeriesJoined(JoinSeries(A, B, n), A, B, p, q)
<1> DEFINE IsFirst(x) == x \in DOMAIN A.pins /\ A.pins[x] = n /\ \A r \in 1..(x - 1) : A.pins[r] # n
           NotOn(x) == x \in DOMAIN B.pins /\ B.pins[x] # n /\ \A r \in 1..(x - 1) : B.pins[r] = n
           pa == CHOOSE x \in DOMAIN A.pins : A.pins[x] = n /\ \A r \in 1..(x - 1) : A.pins[r] # n
           pb == CHOOSE x \in DOMAIN B.pins : B.pins[x] # n /\ \A r \in 1..(x - 1) : B.pins[r] = n
<1>1. PICK m \in Nat : A.pins \in [1..m -> 1..MaxNode] /\ B.pins \in [1..m -> 1..MaxNode] /\ {1, 2} \subseteq 1..m
  BY DEF InSeriesAt, IsDevice
<1>2. p \in {1, 2} /\ q \in {1, 2} /\ 3 - q \in {1, 2} /\ 3 - q # q
  BY DEF InSeriesAt
<1>3. A.pins[p] = n /\ B.pins[q] = n /\ (\A r \in 1..m : A.pins[r] = n => r = p)
      /\ (\A r \in 1..m : B.pins[r] = n => r = q)
  BY <1>1 DEF InSeriesAt
<1>4. pa = p
  <2>1. IsFirst(p)
    <3>1. \A r \in 1..(p - 1) : r \in 1..m /\ r # p
      BY <1>1, <1>2
    <3> QED BY <1>1, <1>2, <1>3, <3>1
  <2>2. \A x : IsFirst(x) => x = p
    BY <1>1, <1>3
  <2> QED BY <2>1, <2>2
<1>5. pb = 3 - q
  <2>1. NotOn(3 - q)
    <3>1. B.pins[3 - q] # n
      BY <1>1, <1>2, <1>3
    <3>2. \A r \in 1..((3 - q) - 1) : r = q
      BY <1>2
    <3> QED BY <1>1, <1>2, <1>3, <3>1, <3>2
  <2>2. ASSUME NEW x, NotOn(x) PROVE x = 3 - q
    <3>1. x \in 1..m /\ x # q
      BY <1>1, <1>3, <2>2
    <3>2. x < 3
      <4>1. SUFFICES ASSUME ~(x < 3) PROVE FALSE
        OBVIOUS
      <4>2. 3 - q \in 1..(x - 1)
        BY <1>2, <3>1, <4>1
      <4>3. B.pins[3 - q] = n
        <5>1. \A r \in 1..(x - 1) : B.pins[r] = n
          BY <2>2
        <5> HIDE DEF NotOn, pa, pb, IsFirst
        <5> QED BY <4>2, <5>1
      <4>4. 3 - q \in 1..m
        <5>1. {1, 2} \subseteq 1..m
          BY <1>1
        <5>2. 3 - q \in {1, 2}
          BY <1>2
        <5> HIDE DEF NotOn, pa, pb, IsFirst
        <5> QED BY <5>1, <5>2
      <4> QED BY <1>2, <1>3, <4>3, <4>4
    <3> QED BY <1>2, <3>1, <3>2
  <2> HIDE DEF IsFirst
  <2> QED BY <2>1, <2>2
<1>6. \E r, o : JoinSeries(A, B, n) =
                 [A EXCEPT !.pins[pa] = B.pins[pb], !.recs = r, !.of = A.of \cup B.of, !.ohms = o]
  BY DEF JoinSeries
<1> HIDE DEF pa, pb
<1>7. A = [class |-> A.class, pins |-> A.pins, of |-> A.of, ohms |-> A.ohms, recs |-> A.recs]
  BY DEF InSeriesAt, IsDevice
<1>8. PICK r, o : JoinSeries(A, B, n) =
                    [class |-> A.class, pins |-> [A.pins EXCEPT ![p] = B.pins[3 - q]],
                     of |-> A.of \cup B.of, ohms |-> o, recs |-> r]
  BY <1>4, <1>5, <1>6, <1>7
<1>9. [A.pins EXCEPT ![p] = B.pins[3 - q]] \in [1..m -> 1..MaxNode]
  BY <1>1, <1>2
<1>10. DOMAIN [A.pins EXCEPT ![p] = B.pins[3 - q]] = 1..m
  BY <1>1
<1>11. IsDevice(JoinSeries(A, B, n))
  BY <1>1, <1>8, <1>9, <1>10 DEF IsDevice
<1> QED BY <1>8, <1>11 DEF SeriesJoined

LEMMA SeriesPins ==
  ASSUME NEW A, NEW B, NEW n, NEW p, NEW q, InSeriesAt(A, B, n, p, q),
         NEW d, d.pins = [A.pins EXCEPT ![p] = B.pins[3 - q]]
  PROVE  /\ \A x \in Pins(A) \cup Pins(B) : x = n \/ x \in Pins(d)
         /\ \A x \in Pins(d) : x # n /\ x \in Pins(A) \cup Pins(B)
<1>1. PICK m \in Nat : A.pins \in [1..m -> 1..MaxNode] /\ B.pins \in [1..m -> 1..MaxNode] /\ {1, 2} \subseteq 1..m
  BY DEF InSeriesAt, IsDevice
<1>2. p \in {1, 2} /\ q \in {1, 2} /\ 3 - q \in {1, 2} /\ 3 - q # q
  BY DEF InSeriesAt
<1>3. A.pins[p] = n /\ B.pins[q] = n /\ (\A r \in 1..m : A.pins[r] = n => r = p)
      /\ (\A r \in 1..m : B.pins[r] = n => r = q)
      /\ \A r \in 1..m : r > 2 => A.pins[r] = B.pins[r]
  BY <1>1 DEF InSeriesAt
<1>4. DOMAIN d.pins = 1..m /\ d.pins[p] = B.pins[3 - q] /\ \A r \in 1..m : r # p => d.pins[r] = A.pins[r]
  BY <1>1, <1>2
<1>5. /\ \A r \in 1..m : d.pins[r] \in Pins(d) /\ A.pins[r] \in Pins(A) /\ B.pins[r] \in Pins(B)
      /\ \A x \in Pins(d) : \E r \in 1..m : x = d.pins[r]
      /\ \A x \in Pins(A) : \E r \in 1..m : x = A.pins[r]
      /\ \A x \in Pins(B) : \E r \in 1..m : x = B.pins[r]
  BY <1>1, <1>4 DEF Pins, ToSet
<1>6. ASSUME NEW x \in Pins(A) PROVE x = n \/ x \in Pins(d)
  BY <1>3, <1>4, <1>5
<1>7. ASSUME NEW x \in Pins(B) PROVE x = n \/ x \in Pins(d)
  <2>1. PICK r \in 1..m : x = B.pins[r]
    BY <1>5
  <2>2. r = q \/ r = 3 - q \/ (r > 2 /\ r # p)
    BY <1>2
  <2>3. CASE r = 3 - q
    <3>1. p \in 1..m
      BY <1>1, <1>2
    <3> QED BY <1>4, <1>5, <2>1, <2>3, <3>1
  <2> QED BY <1>3, <1>4, <1>5, <2>1, <2>2, <2>3
<1>8. ASSUME NEW x \in Pins(d) PROVE x # n /\ x \in Pins(A) \cup Pins(B)
  <2>1. PICK r \in 1..m : x = d.pins[r]
    BY <1>5
  <2>2. CASE r = p
    <3>1. 3 - q \in 1..m
      BY <1>1, <1>2
    <3> QED BY <1>2, <1>3, <1>4, <1>5, <2>1, <2>2, <3>1
  <2>3. CASE r # p
    BY <1>3, <1>4, <1>5, <2>1, <2>3
  <2> QED BY <2>2, <2>3
<1> QED BY <1>6, <1>7, <1>8

LEMMA PairAt ==
  ASSUME NEW devs, NEW ports, NEW gone, NEW n, NEW a, NEW b, a # b,
         IsPair(devs, ports, gone, n, a, b), ClassPins(devs), \A k \in DOMAIN devs : IsDevice(devs[k])
  PROVE  \E p, q \in {1, 2} :
           /\ InSeriesAt(devs[a], devs[b], n, p, q)
           /\ \A k \in DOMAIN devs \ gone : \A r \in DOMAIN devs[k].pins :
                devs[k].pins[r] = n => <<k, r>> \in {<<a, p>>, <<b, q>>}
<1>1. PICK p, q \in {1, 2} :
        /\ devs[a].pins[p] = n /\ devs[b].pins[q] = n
        /\ \A k \in DOMAIN devs \ gone : \A r \in DOMAIN devs[k].pins :
             devs[k].pins[r] = n => <<k, r>> \in {<<a, p>>, <<b, q>>}
  BY DEF IsPair
<1>2. /\ a \in DOMAIN devs \ gone /\ b \in DOMAIN devs \ gone
      /\ devs[a].class \in Series /\ devs[b].class = devs[a].class
      /\ \A r \in DOMAIN devs[a].pins : r > 2 => devs[a].pins[r] = devs[b].pins[r]
  BY DEF IsPair
<1>3. DOMAIN devs[a].pins = DOMAIN devs[b].pins
  BY <1>2 DEF ClassPins
<1>4. \A r \in DOMAIN devs[a].pins : devs[a].pins[r] = n => r = p
  BY <1>1, <1>2
<1>5. \A r \in DOMAIN devs[b].pins : devs[b].pins[r] = n => r = q
  BY <1>1, <1>2
<1>6. InSeriesAt(devs[a], devs[b], n, p, q)
  BY <1>1, <1>2, <1>3, <1>4, <1>5 DEF InSeriesAt
<1> QED BY <1>1, <1>6

\* The parts of the devices K of a list.
PartsIn(devs, K, ports) ==
  /\ \A k \in K : Pins(devs[k]) \subseteq Nodes(devs[k]) /\ Within(devs[k], ports)
  /\ \A k, j \in K : k # j => Apart(devs[k], devs[j])
OfIn(devs, K) == UNION {devs[k].of : k \in K}

\* What the merger of b into a at node n does to a list of devices.
IsJoin(devs, new, ports, gone, n, a, b, p, q) ==
  /\ {a, b} \subseteq DOMAIN devs \ gone /\ a # b /\ n \notin ToSet(ports)
  /\ \A k \in DOMAIN devs : IsDevice(devs[k])
  /\ ClassPins(devs)
  /\ InSeriesAt(devs[a], devs[b], n, p, q)
  /\ \A k \in DOMAIN devs \ gone : \A r \in DOMAIN devs[k].pins :
       devs[k].pins[r] = n => <<k, r>> \in {<<a, p>>, <<b, q>>}
  /\ DOMAIN new = DOMAIN devs /\ \A k \in DOMAIN devs : k # a => new[k] = devs[k]
  /\ new[a] = JoinSeries(devs[a], devs[b], n)

PartsJoined(devs, new, ports, gone, b) ==
  /\ PartsIn(new, DOMAIN devs \ (gone \cup {b}), ports)
  /\ OfIn(new, DOMAIN devs \ (gone \cup {b})) = OfIn(devs, DOMAIN devs \ gone)

LEMMA JoinParts ==
  ASSUME NEW devs, NEW new, NEW ports, NEW gone, NEW n, NEW a, NEW b, NEW p, NEW q,
         IsJoin(devs, new, ports, gone, n, a, b, p, q),
         PartsIn(devs, DOMAIN devs \ gone, ports)
  PROVE  PartsJoined(devs, new, ports, gone, b)
<1> DEFINE A == devs[a]
           B == devs[b]
           D == JoinSeries(A, B, n)
           K == DOMAIN devs \ gone
           M == DOMAIN devs \ (gone \cup {b})
<1>1. /\ InSeriesAt(A, B, n, p, q) /\ a \in K /\ b \in K /\ a # b /\ n \notin ToSet(ports)
      /\ new[a] = D /\ \A k \in M : k # a => new[k] = devs[k]
  BY DEF IsJoin
<1>2. /\ D.pins = [A.pins EXCEPT ![p] = B.pins[3 - q]]
      /\ D.of = A.of \cup B.of
  <2>1. SeriesJoined(D, A, B, p, q)
    <3>1. InSeriesAt(A, B, n, p, q)
      BY <1>1
    <3> HIDE DEF A, B
    <3> QED BY <3>1, SeriesJoin
  <2> HIDE DEF A, B, D
  <2> QED BY <2>1 DEF SeriesJoined
<1> HIDE DEF D
<1>3. /\ \A x \in Pins(A) \cup Pins(B) : x = n \/ x \in Pins(D)
      /\ \A x \in Pins(D) : x # n /\ x \in Pins(A) \cup Pins(B)
  BY <1>1, <1>2, SeriesPins
<1>4. Nodes(D) = Nodes(A) \cup Nodes(B)
  BY <1>2 DEF Nodes
<1>5. \A k \in M : k # a => n \notin Pins(devs[k])
  BY <1>1 DEF IsJoin, Pins, ToSet
<1>6. M \subseteq K /\ a \in M /\ b \notin M
  BY <1>1
<1>7. /\ \A k \in K : Pins(devs[k]) \subseteq Nodes(devs[k]) /\ Within(devs[k], ports)
      /\ \A k, j \in K : k # j => Apart(devs[k], devs[j])
  BY DEF PartsIn
<1>8. Pins(D) \subseteq Nodes(D)
  BY <1>1, <1>3, <1>4, <1>7
<1>9. Within(D, ports)
  <2>1. ASSUME NEW x \in Nodes(D), x \notin Pins(D) PROVE x \notin ToSet(ports)
    <3>1. CASE x = n
      BY <1>1, <3>1
    <3>2. CASE x # n
      <4>1. x \notin Pins(A) /\ x \notin Pins(B)
        BY <1>3, <2>1, <3>2
      <4>2. Within(A, ports) /\ Within(B, ports)
        BY <1>1, <1>7
      <4> QED BY <1>4, <2>1, <4>1, <4>2 DEF Within
    <3> QED BY <3>1, <3>2
  <2> QED BY <2>1 DEF Within
<1>10. ASSUME NEW k \in M, k # a PROVE Apart(D, devs[k]) /\ Apart(devs[k], D)
  <2>1. Apart(A, devs[k]) /\ Apart(B, devs[k]) /\ Apart(devs[k], A) /\ Apart(devs[k], B)
    BY <1>1, <1>6, <1>7, <1>10
  <2>2. D.of \cap devs[k].of = {}
    BY <1>2, <2>1 DEF Apart
  <2>3. ASSUME NEW x \in Nodes(D), x \notin Pins(D) PROVE x \notin Pins(devs[k])
    <3>1. CASE x = n
      BY <1>5, <1>10, <3>1
    <3>2. CASE x # n
      <4>1. x \notin Pins(A) /\ x \notin Pins(B)
        BY <1>3, <2>3, <3>2
      <4> QED BY <1>4, <2>1, <2>3, <4>1 DEF Apart
    <3> QED BY <3>1, <3>2
  <2>4. ASSUME NEW x \in Nodes(devs[k]), x \notin Pins(devs[k]) PROVE x \notin Pins(D)
    BY <1>3, <2>1, <2>4 DEF Apart
  <2> QED BY <2>2, <2>3, <2>4 DEF Apart
<1>11. PartsIn(new, M, ports)
  <2>1. \A k \in M : Pins(new[k]) \subseteq Nodes(new[k]) /\ Within(new[k], ports)
    BY <1>1, <1>6, <1>7, <1>8, <1>9
  <2>2. ASSUME NEW k \in M, NEW j \in M, k # j PROVE Apart(new[k], new[j])
    <3>1. CASE k = a
      BY <1>1, <1>10, <2>2, <3>1
    <3>2. CASE j = a
      BY <1>1, <1>10, <2>2, <3>2
    <3>3. CASE k # a /\ j # a
      BY <1>1, <1>6, <1>7, <2>2, <3>3
    <3> QED BY <3>1, <3>2, <3>3
  <2> QED BY <2>1, <2>2 DEF PartsIn
<1>12. OfIn(new, M) = OfIn(devs, K)
  <2>1. ASSUME NEW x, NEW k \in M, x \in new[k].of PROVE \E j \in K : x \in devs[j].of
    BY <1>1, <1>2, <1>6, <2>1
  <2>2. ASSUME NEW x, NEW j \in K, x \in devs[j].of PROVE \E k \in M : x \in new[k].of
    <3>1. CASE j \in {a, b}
      BY <1>1, <1>2, <1>6, <2>2, <3>1
    <3>2. CASE j \notin {a, b}
      <4>1. j \in M
        BY <3>2
      <4> QED BY <1>1, <2>2, <3>2, <4>1
    <3> QED BY <3>1, <3>2
  <2>3. \A x : x \in OfIn(new, M) <=> \E k \in M : x \in new[k].of
    BY DEF OfIn
  <2>4. \A x : x \in OfIn(devs, K) <=> \E j \in K : x \in devs[j].of
    BY DEF OfIn
  <2> HIDE DEF K, M
  <2> QED BY <2>1, <2>2, <2>3, <2>4
<1> QED BY <1>11, <1>12 DEF PartsJoined

LEMMA JoinTypes ==
  ASSUME NEW devs, NEW new, NEW ports, NEW gone, NEW n, NEW a, NEW b, NEW p, NEW q,
         IsJoin(devs, new, ports, gone, n, a, b, p, q)
  PROVE  (\A k \in DOMAIN devs : IsDevice(new[k])) /\ ClassPins(new)
<1> DEFINE A == devs[a]
           B == devs[b]
           D == JoinSeries(A, B, n)
<1>1. /\ InSeriesAt(A, B, n, p, q) /\ new[a] = D /\ a \in DOMAIN devs
      /\ \A k \in DOMAIN devs : k # a => new[k] = devs[k]
  BY DEF IsJoin
<1>2. /\ IsDevice(D) /\ D.class = A.class
      /\ D.pins = [A.pins EXCEPT ![p] = B.pins[3 - q]]
  <2>1. SeriesJoined(D, A, B, p, q)
    <3>1. InSeriesAt(A, B, n, p, q)
      BY <1>1
    <3> HIDE DEF A, B
    <3> QED BY <3>1, SeriesJoin
  <2> HIDE DEF A, B, D
  <2> QED BY <2>1 DEF SeriesJoined
<1>3. DOMAIN D.pins = DOMAIN A.pins
  BY <1>2
<1> HIDE DEF D
<1>4. \A k \in DOMAIN devs : new[k].class = devs[k].class /\ DOMAIN new[k].pins = DOMAIN devs[k].pins
  BY <1>1, <1>2, <1>3
<1>5. DOMAIN new = DOMAIN devs /\ ClassPins(devs) /\ \A k \in DOMAIN devs : IsDevice(devs[k])
  BY DEF IsJoin
<1>6. ClassPins(new)
  BY <1>4, <1>5 DEF ClassPins
<1> QED BY <1>1, <1>2, <1>5, <1>6

PairMoved(new, ports, gone, m, a, b, c, d) ==
  IsPair(new, ports, gone \cup {b}, m, IF c = b THEN a ELSE c, IF d = b THEN a ELSE d)

\* The other pairs of the list stay pairs.
LEMMA PairStays ==
  ASSUME NEW devs, NEW new, NEW ports, NEW gone, NEW n, NEW a, NEW b, NEW p, NEW q,
         IsJoin(devs, new, ports, gone, n, a, b, p, q),
         NEW m, m # n, NEW c, NEW d, IsPair(devs, ports, gone, m, c, d)
  PROVE  PairMoved(new, ports, gone, m, a, b, c, d)
<1> DEFINE A == devs[a]
           B == devs[b]
           D == JoinSeries(A, B, n)
           R(x) == IF x = b THEN a ELSE x
           K == DOMAIN devs \ gone
           M == DOMAIN devs \ (gone \cup {b})
<1>1. /\ InSeriesAt(A, B, n, p, q) /\ a \in K /\ b \in K /\ a # b
      /\ new[a] = D /\ DOMAIN new = DOMAIN devs /\ \A k \in DOMAIN devs : k # a => new[k] = devs[k]
      /\ \A k \in K : IsDevice(devs[k])
  BY DEF IsJoin
<1>2. /\ D.class = A.class /\ D.pins = [A.pins EXCEPT ![p] = B.pins[3 - q]]
  <2>1. SeriesJoined(D, A, B, p, q)
    <3>1. InSeriesAt(A, B, n, p, q)
      BY <1>1
    <3> HIDE DEF A, B
    <3> QED BY <3>1, SeriesJoin
  <2> HIDE DEF A, B, D
  <2> QED BY <2>1 DEF SeriesJoined
<1> HIDE DEF D
<1>3. PICK l \in Nat : A.pins \in [1..l -> 1..MaxNode] /\ B.pins \in [1..l -> 1..MaxNode] /\ {1, 2} \subseteq 1..l
  <2>1. InSeriesAt(A, B, n, p, q)
    BY <1>1
  <2> HIDE DEF A, B
  <2>2. IsDevice(A) /\ IsDevice(B) /\ A.class \in Series /\ DOMAIN A.pins = DOMAIN B.pins
    BY <2>1 DEF InSeriesAt
  <2>3. PICK l \in Nat : A.pins \in [1..l -> 1..MaxNode]
    BY <2>2 DEF IsDevice
  <2>4. PICK i \in Nat : B.pins \in [1..i -> 1..MaxNode]
    BY <2>2 DEF IsDevice
  <2>5. DOMAIN A.pins = 1..l /\ B.pins \in [1..l -> 1..MaxNode]
    BY <2>2, <2>3, <2>4
  <2>6. {1, 2} \subseteq DOMAIN A.pins
    BY <2>2 DEF IsDevice
  <2> QED BY <2>3, <2>5, <2>6
<1>4. /\ p \in {1, 2} /\ q \in {1, 2} /\ 3 - q \in {1, 2} /\ 3 - q # q
      /\ A.pins[p] = n /\ B.pins[q] = n /\ B.class = A.class
      /\ \A r \in 1..l : r > 2 => A.pins[r] = B.pins[r]
  <2>1. DOMAIN A.pins = 1..l
    BY <1>3
  <2>2. InSeriesAt(A, B, n, p, q)
    BY <1>1
  <2> HIDE DEF A, B
  <2>3. p \in {1, 2} /\ q \in {1, 2} /\ A.pins[p] = n /\ B.pins[q] = n /\ B.class = A.class
    BY <2>2 DEF InSeriesAt
  <2>4. \A r \in 1..l : r > 2 => A.pins[r] = B.pins[r]
    BY <2>1, <2>2 DEF InSeriesAt
  <2>5. 3 - q \in {1, 2} /\ 3 - q # q
    BY <2>3
  <2> QED BY <2>3, <2>4, <2>5
<1>5. DOMAIN D.pins = 1..l /\ D.pins[p] = B.pins[3 - q] /\ \A r \in 1..l : r # p => D.pins[r] = A.pins[r]
  BY <1>2, <1>3, <1>4
<1>6. PICK s, t \in {1, 2} :
        /\ <<c, s>> # <<d, t>> /\ devs[c].pins[s] = m /\ devs[d].pins[t] = m
        /\ \A k \in K : \A r \in DOMAIN devs[k].pins :
             devs[k].pins[r] = m => <<k, r>> \in {<<c, s>>, <<d, t>>}
  BY DEF IsPair
<1>7. /\ c \in K /\ d \in K /\ m \notin ToSet(ports)
      /\ devs[c].class \in Series /\ devs[d].class = devs[c].class
      /\ \A r \in DOMAIN devs[c].pins : r > 2 => devs[c].pins[r] = devs[d].pins[r]
  BY DEF IsPair
<1>8. DOMAIN devs[c].pins = DOMAIN devs[d].pins
  BY <1>7 DEF IsJoin, ClassPins
<1>9. ASSUME NEW x \in K
      PROVE  /\ R(x) \in M
             /\ new[R(x)].class = devs[x].class
             /\ DOMAIN new[R(x)].pins = DOMAIN devs[x].pins
             /\ \A r \in DOMAIN devs[x].pins : r > 2 => new[R(x)].pins[r] = devs[x].pins[r]
  <2>1. CASE x = b \/ x = a
    <3>1. R(x) = a
      BY <2>1
    <3>2. DOMAIN devs[x].pins = 1..l /\ devs[x].class = A.class
      BY <1>3, <1>4, <2>1
    <3>3. \A r \in 1..l : r > 2 => D.pins[r] = devs[x].pins[r]
      BY <1>4, <1>5, <2>1
    <3>4. new[a] = D /\ a \in M
      BY <1>1
    <3> HIDE DEF R, A, B
    <3> QED BY <1>2, <1>5, <3>1, <3>2, <3>3, <3>4
  <2>3. CASE x # b /\ x # a
    BY <1>1, <2>3
  <2> QED BY <2>1, <2>3
\* Where an occurrence of the node goes.
<1> DEFINE Where(x, u) == IF x = b THEN p ELSE u
<1>10. ASSUME NEW x \in K, NEW u \in {1, 2}, u \in DOMAIN devs[x].pins, devs[x].pins[u] = m
       PROVE  /\ Where(x, u) \in {1, 2} /\ new[R(x)].pins[Where(x, u)] = m
              /\ x = b => u = 3 - q
              /\ x = a => u # p
  <2>1. CASE x = b
    <3>1. u # q
      BY <1>4, <1>10, <2>1
    <3>2. u = 3 - q
      BY <1>4, <3>1
    <3> QED BY <1>1, <1>4, <1>5, <1>10, <2>1, <3>2
  <2>2. CASE x # b /\ x = a
    <3>1. u # p
      BY <1>4, <1>10, <2>2
    <3> QED BY <1>1, <1>3, <1>5, <1>10, <2>2, <3>1
  <2>3. CASE x # b /\ x # a
    BY <1>1, <1>10, <2>3
  <2> QED BY <2>1, <2>2, <2>3
<1>11. IsDevice(devs[c]) /\ IsDevice(devs[d]) /\ devs[c].class \in Series /\ devs[d].class \in Series
  BY <1>1, <1>7
<1>12. {1, 2} \subseteq DOMAIN devs[c].pins /\ {1, 2} \subseteq DOMAIN devs[d].pins
  BY <1>11 DEF IsDevice
<1> HIDE DEF A, B, K, M
<1>13. /\ Where(c, s) \in {1, 2} /\ new[R(c)].pins[Where(c, s)] = m /\ (c = b => s = 3 - q) /\ (c = a => s # p)
  <2>1. s \in DOMAIN devs[c].pins
    BY <1>6, <1>12
  <2> HIDE DEF R, Where
  <2> QED BY <1>6, <1>7, <1>10, <2>1
<1>14. /\ Where(d, t) \in {1, 2} /\ new[R(d)].pins[Where(d, t)] = m /\ (d = b => t = 3 - q) /\ (d = a => t # p)
  <2>1. t \in DOMAIN devs[d].pins
    BY <1>6, <1>12
  <2> HIDE DEF R, Where
  <2> QED BY <1>6, <1>7, <1>10, <2>1
<1>15. <<R(c), Where(c, s)>> # <<R(d), Where(d, t)>>
  BY <1>1, <1>6, <1>13, <1>14
<1>16. ASSUME NEW k \in M, NEW r \in DOMAIN new[k].pins, new[k].pins[r] = m
       PROVE  <<k, r>> \in {<<R(c), Where(c, s)>>, <<R(d), Where(d, t)>>}
  <2>1. k \in K /\ k # b
    BY DEF K, M
  <2>2. CASE k = a /\ r = p
    <3>1. devs[b].pins[3 - q] = m /\ 3 - q \in DOMAIN devs[b].pins
      BY <1>1, <1>3, <1>4, <1>5, <1>16, <2>2 DEF A, B
    <3>2. <<b, 3 - q>> = <<c, s>> \/ <<b, 3 - q>> = <<d, t>>
      BY <1>1, <1>6, <3>1
    <3> QED BY <2>2, <3>2
  <2>3. CASE ~(k = a /\ r = p)
    <3>1. r \in DOMAIN devs[k].pins /\ devs[k].pins[r] = m
      <4>1. CASE k = a
        BY <1>1, <1>3, <1>5, <1>16, <2>3, <4>1 DEF A, B
      <4>2. CASE k # a
        BY <1>1, <1>16, <2>1, <4>2 DEF K
      <4> QED BY <4>1, <4>2
    <3>2. <<k, r>> = <<c, s>> \/ <<k, r>> = <<d, t>>
      BY <1>6, <2>1, <3>1
    <3> QED BY <2>1, <3>2
  <2> QED BY <2>2, <2>3
<1>17. R(c) \in M /\ R(d) \in M
  <2> HIDE DEF R
  <2> QED BY <1>7, <1>9
<1>18. new[R(c)].class \in Series /\ new[R(d)].class = new[R(c)].class
  <2> HIDE DEF R
  <2> QED BY <1>7, <1>9
<1>19. \A r \in DOMAIN new[R(c)].pins : r > 2 => new[R(c)].pins[r] = new[R(d)].pins[r]
  <2> HIDE DEF R
  <2> QED BY <1>7, <1>8, <1>9
<1>20. M = DOMAIN new \ (gone \cup {b})
  BY <1>1 DEF M
<1>21. \E u, v \in {1, 2} :
         /\ <<R(c), u>> # <<R(d), v>> /\ new[R(c)].pins[u] = m /\ new[R(d)].pins[v] = m
         /\ \A k \in M : \A r \in DOMAIN new[k].pins :
              new[k].pins[r] = m => <<k, r>> \in {<<R(c), u>>, <<R(d), v>>}
  <2> HIDE DEF R, Where
  <2> QED BY <1>13, <1>14, <1>15, <1>16
<1>22. IsPair(new, ports, gone \cup {b}, m, R(c), R(d))
  <2> HIDE DEF R
  <2> QED BY <1>7, <1>17, <1>18, <1>19, <1>20, <1>21 DEF IsPair
<1> QED BY <1>22 DEF PairMoved

-----------------------------------------------------------------------------
(* A pass over the pairs of series devices.                                  *)

NoSeries(c) == ~\E n \in 1..MaxNode : IsSeriesNode(c, n)

\* The devices of acc are those of c, without those that are gone, up to node i.
SeriesDevices(c, N, acc) ==
  /\ IsList(acc.devs, N)
  /\ \A k \in 1..N : IsDevice(acc.devs[k])
  /\ ClassPins(acc.devs)
  /\ PartsIn(acc.devs, (1..N) \ acc.gone, c.ports)
  /\ OfIn(acc.devs, (1..N) \ acc.gone) = OfAll(c.devs)
SeriesPairs(c, acc, i) ==
  /\ acc.gone \subseteq DOMAIN acc.devs
  /\ DOMAIN acc.pairs = {n \in 1..MaxNode : IsSeriesNode(c, n)}
  /\ \A m \in DOMAIN acc.pairs : m > i =>
       IsPair(acc.devs, c.ports, acc.gone, m, acc.pairs[m][1], acc.pairs[m][2])
  /\ DOMAIN acc.pairs = {} => acc.gone = {}
  /\ acc.gone = {} =>
       /\ acc.devs = c.devs
       /\ \A m \in DOMAIN acc.pairs : m > i /\ acc.pairs[m][1] # acc.pairs[m][2]
SeriesState(c, N, acc, i) == SeriesDevices(c, N, acc) /\ SeriesPairs(c, acc, i)

LEMMA SeriesStart ==
  ASSUME NEW c, IsCell(c), ClassPins(c.devs), Parts(c.devs, c.ports), NEW N, IsList(c.devs, N)
  PROVE  SeriesState(c, N, PairList(c, MaxNode), 0)
<1> DEFINE S == {n \in 1..MaxNode : IsSeriesNode(c, n)}
           acc == PairList(c, MaxNode)
<1>1. DOMAIN c.devs = 1..N /\ \A k \in 1..N : IsDevice(c.devs[k])
  <2>1. PICK L : IsList(c.devs, L) /\ \A k \in 1..L : IsDevice(c.devs[k])
    BY DEF IsCell
  <2>2. DOMAIN c.devs = 1..L
    BY <2>1, ListLen
  <2>3. DOMAIN c.devs = 1..N
    BY ListLen
  <2> QED BY <2>1, <2>2, <2>3
<1>2. /\ acc.devs = c.devs /\ acc.gone = {} /\ DOMAIN acc.pairs = S
      /\ \A m \in S : /\ acc.pairs[m][1] = FirstPin(c.devs, m)[1]
                      /\ acc.pairs[m][2] = SecondPin(c.devs, m)[1]
  BY DEF PairList
<1> HIDE DEF acc
<1>3. (1..N) \ acc.gone = DOMAIN c.devs
  BY <1>1, <1>2
<1>4. SeriesDevices(c, N, acc)
  BY <1>1, <1>2, <1>3 DEF SeriesDevices, PartsIn, Parts, OfIn, OfAll
<1>5. ASSUME NEW m \in S
      PROVE  /\ IsPair(c.devs, c.ports, {}, m, acc.pairs[m][1], acc.pairs[m][2])
             /\ acc.pairs[m][1] # acc.pairs[m][2] /\ m > 0
  <2>1. IsSeriesNode(c, m) /\ m \in 1..MaxNode
    OBVIOUS
  <2>2. m > 0
    BY <2>1
  <2> HIDE DEF S
  <2>3. /\ IsPair(c.devs, c.ports, {}, m, FirstPin(c.devs, m)[1], SecondPin(c.devs, m)[1])
        /\ FirstPin(c.devs, m)[1] # SecondPin(c.devs, m)[1]
    BY <2>1, PairFound
  <2> QED BY <1>2, <2>2, <2>3
<1>6. SeriesPairs(c, acc, 0)
  <2>1. acc.gone = {} /\ acc.devs = c.devs /\ DOMAIN acc.pairs = S
    BY <1>2
  <2> QED BY <1>5, <2>1 DEF SeriesPairs
<1> QED BY <1>4, <1>6 DEF SeriesState, acc

\* The step that merges b into a at node n.
LEMMA SeriesMerge ==
  ASSUME NEW c, NEW N, NEW acc, NEW n \in DOMAIN acc.pairs, NEW a, NEW b,
         a = acc.pairs[n][1], b = acc.pairs[n][2], a # b, n \in Nat,
         SeriesState(c, N, acc, n - 1)
  PROVE  SeriesState(c, N, JoinPair(acc, n), n)
<1> DEFINE devs == acc.devs
           new == JoinPair(acc, n)
<1>1. /\ new.devs = [devs EXCEPT ![a] = JoinSeries(devs[a], devs[b], n)]
      /\ new.gone = acc.gone \cup {b} /\ new.pairs = Replaced(acc.pairs, b, a)
  BY DEF JoinPair
<1> HIDE DEF new
<1>2. /\ IsList(devs, N) /\ (\A k \in 1..N : IsDevice(devs[k])) /\ ClassPins(devs)
      /\ PartsIn(devs, (1..N) \ acc.gone, c.ports)
      /\ OfIn(devs, (1..N) \ acc.gone) = OfAll(c.devs)
  BY DEF SeriesState, SeriesDevices
<1>3. N \in Nat /\ DOMAIN devs = 1..N
  BY <1>2, ListLen DEF IsList
<1>4. /\ acc.gone \subseteq 1..N
      /\ DOMAIN acc.pairs = {m \in 1..MaxNode : IsSeriesNode(c, m)}
      /\ IsPair(devs, c.ports, acc.gone, n, a, b)
  <2>1. n > n - 1
    OBVIOUS
  <2> QED BY <1>3, <2>1 DEF SeriesState, SeriesPairs
<1>5. PICK p, q \in {1, 2} :
        /\ InSeriesAt(devs[a], devs[b], n, p, q)
        /\ \A k \in DOMAIN devs \ acc.gone : \A r \in DOMAIN devs[k].pins :
             devs[k].pins[r] = n => <<k, r>> \in {<<a, p>>, <<b, q>>}
  <2>1. \A k \in DOMAIN devs : IsDevice(devs[k])
    BY <1>2, <1>3
  <2> HIDE DEF devs
  <2> QED BY <1>2, <1>4, <2>1, PairAt
<1>6. {a, b} \subseteq DOMAIN devs \ acc.gone /\ n \notin ToSet(c.ports)
  BY <1>4 DEF IsPair
<1>7. /\ DOMAIN new.devs = DOMAIN devs /\ (\A k \in DOMAIN devs : k # a => new.devs[k] = devs[k])
      /\ new.devs[a] = JoinSeries(devs[a], devs[b], n) /\ IsList(new.devs, N)
  BY <1>1, <1>2, <1>3, <1>6 DEF IsList
<1>8. IsJoin(devs, new.devs, c.ports, acc.gone, n, a, b, p, q)
  <2>1. \A k \in DOMAIN devs : IsDevice(devs[k])
    BY <1>2, <1>3
  <2> HIDE DEF devs
  <2> QED BY <1>2, <1>5, <1>6, <1>7, <2>1 DEF IsJoin
<1> HIDE DEF devs
<1>9. (\A k \in DOMAIN devs : IsDevice(new.devs[k])) /\ ClassPins(new.devs)
  BY <1>8, JoinTypes
<1>10. /\ PartsIn(new.devs, (1..N) \ new.gone, c.ports)
       /\ OfIn(new.devs, (1..N) \ new.gone) = OfAll(c.devs)
  <2>1. PartsIn(devs, DOMAIN devs \ acc.gone, c.ports)
    BY <1>2, <1>3
  <2>2. PartsJoined(devs, new.devs, c.ports, acc.gone, b)
    BY <1>8, <2>1, JoinParts
  <2> QED BY <1>1, <1>2, <1>3, <2>2 DEF PartsJoined
<1>11. SeriesDevices(c, N, new)
  BY <1>3, <1>7, <1>9, <1>10 DEF SeriesDevices
<1>12. /\ DOMAIN new.pairs = DOMAIN acc.pairs
       /\ \A m \in DOMAIN acc.pairs :
            /\ new.pairs[m][1] = IF acc.pairs[m][1] = b THEN a ELSE acc.pairs[m][1]
            /\ new.pairs[m][2] = IF acc.pairs[m][2] = b THEN a ELSE acc.pairs[m][2]
  BY <1>1 DEF Replaced
<1>13. ASSUME NEW m \in DOMAIN acc.pairs, m > n
       PROVE  IsPair(new.devs, c.ports, new.gone, m, new.pairs[m][1], new.pairs[m][2])
  <2>1. m \in Nat /\ m > n - 1 /\ m # n
    BY <1>4, <1>13
  <2>2. IsPair(devs, c.ports, acc.gone, m, acc.pairs[m][1], acc.pairs[m][2])
    BY <2>1 DEF SeriesState, SeriesPairs, devs
  <2>3. PairMoved(new.devs, c.ports, acc.gone, m, a, b, acc.pairs[m][1], acc.pairs[m][2])
    BY <1>8, <2>1, <2>2, PairStays
  <2> QED BY <1>1, <1>12, <2>3 DEF PairMoved
<1>14. SeriesPairs(c, new, n)
  <2>1. new.gone \subseteq DOMAIN new.devs /\ new.gone # {}
    BY <1>1, <1>3, <1>4, <1>6, <1>7
  <2>2. DOMAIN new.pairs # {}
    BY <1>12
  <2> QED BY <1>4, <1>12, <1>13, <2>1, <2>2 DEF SeriesPairs
<1> QED BY <1>11, <1>14 DEF SeriesState, new

LEMMA SeriesStep ==
  ASSUME NEW c, NEW N, NEW acc, NEW n \in Nat, SeriesState(c, N, acc, n - 1)
  PROVE  SeriesState(c, N, JoinPair(acc, n), n)
<1>1. CASE n \notin DOMAIN acc.pairs \/ acc.pairs[n][1] = acc.pairs[n][2]
  <2>1. JoinPair(acc, n) = acc
    BY <1>1 DEF JoinPair
  <2>2. DOMAIN acc.pairs \subseteq Nat
    BY DEF SeriesState, SeriesPairs
  <2>3. \A m \in DOMAIN acc.pairs : m > n => m > n - 1
    BY <2>2
  <2>4. \A m \in DOMAIN acc.pairs : m > n - 1 => m > n \/ m = n
    BY <2>2
  <2>5. SeriesPairs(c, acc, n)
    BY <1>1, <2>3, <2>4 DEF SeriesState, SeriesPairs
  <2> QED BY <2>1, <2>5 DEF SeriesState
<1>2. CASE ~(n \notin DOMAIN acc.pairs \/ acc.pairs[n][1] = acc.pairs[n][2])
  BY <1>2, SeriesMerge
<1> QED BY <1>1, <1>2

LEMMA SeriesEnd ==
  ASSUME NEW c, IsCell(c), ClassPins(c.devs), Parts(c.devs, c.ports), NEW N, IsList(c.devs, N),
         MaxNode \in Nat
  PROVE  SeriesState(c, N, JoinedSeries(PairList(c, MaxNode), MaxNode), MaxNode)
<1> DEFINE start == PairList(c, MaxNode)
<1>1. PICK f : SeriesSteps(f, start, MaxNode)
  BY SeriesFold
<1>2. SeriesState(c, N, start, 0)
  BY SeriesStart
<1> HIDE DEF start
<1> DEFINE P == {n \in Nat : n <= MaxNode => SeriesState(c, N, f[n], n)}
<1>3. 0 \in P
  BY <1>1, <1>2 DEF SeriesSteps
<1>4. ASSUME NEW n \in Nat, n \in P PROVE n + 1 \in P
  <2>1. SUFFICES ASSUME n + 1 <= MaxNode PROVE SeriesState(c, N, f[n + 1], n + 1)
    OBVIOUS
  <2>2. n + 1 \in 1..MaxNode /\ (n + 1) - 1 = n /\ n + 1 \in Nat /\ SeriesState(c, N, f[n], n)
    BY <1>4, <2>1
  <2>3. f[n + 1] = JoinPair(f[n], n + 1)
    BY <1>1, <2>2 DEF SeriesSteps
  <2>4. SeriesState(c, N, f[n], (n + 1) - 1)
    BY <2>2
  <2>5. SeriesState(c, N, JoinPair(f[n], n + 1), n + 1)
    <3> HIDE DEF P
    <3> QED BY <2>2, <2>4, SeriesStep
  <2> QED BY <2>3, <2>5
<1>5. MaxNode \in P
  <2> HIDE DEF P
  <2> QED BY <1>3, <1>4, Induction
<1>6. JoinedSeries(start, MaxNode) = f[MaxNode]
  BY <1>1 DEF SeriesSteps
<1> QED BY <1>5, <1>6 DEF start

\* The first i devices of acc that are not gone.
IsRemaining(acc, kept, i, L, e) ==
  /\ L \in 0..i /\ IsList(kept, L) /\ e \in [1..L -> 1..i]
  /\ \A k \in 1..L : kept[k] = acc.devs[e[k]] /\ e[k] \notin acc.gone
  /\ \A j \in 1..i : j \notin acc.gone => \E k \in 1..L : e[k] = j
  /\ \A k, m \in 1..L : k # m => e[k] # e[m]
  /\ L = i => \A j \in 1..i : j \notin acc.gone /\ kept[j] = acc.devs[j]
  /\ acc.gone = {} => L = i
RemainingList(acc, kept, i) == \E L, e : IsRemaining(acc, kept, i, L, e)

LEMMA RemainingStep ==
  ASSUME NEW acc, NEW kept, NEW i \in Nat, RemainingList(acc, kept, i)
  PROVE  RemainingList(acc, Kept(acc, kept, i + 1), i + 1)
<1>1. PICK L, e : IsRemaining(acc, kept, i, L, e)
  BY DEF RemainingList
<1>2. /\ L \in 0..i /\ L \in Nat /\ IsList(kept, L) /\ e \in [1..L -> 1..i]
      /\ \A k \in 1..L : kept[k] = acc.devs[e[k]] /\ e[k] \notin acc.gone
      /\ \A j \in 1..i : j \notin acc.gone => \E k \in 1..L : e[k] = j
      /\ \A k, m \in 1..L : k # m => e[k] # e[m]
      /\ L = i => \A j \in 1..i : j \notin acc.gone /\ kept[j] = acc.devs[j]
      /\ acc.gone = {} => L = i
  BY <1>1 DEF IsRemaining
<1>3. \A j \in 1..(i + 1) : j \in 1..i \/ j = i + 1
  OBVIOUS
<1>4. 1..i \subseteq 1..(i + 1) /\ i + 1 \in 1..(i + 1) /\ i + 1 \notin 1..i
  OBVIOUS
<1>5. CASE i + 1 \in acc.gone
  <2>1. Kept(acc, kept, i + 1) = kept
    BY <1>5 DEF Kept
  <2>2. L \in 0..(i + 1) /\ L # i + 1 /\ acc.gone # {}
    BY <1>2, <1>5
  <2>3. e \in [1..L -> 1..(i + 1)]
    BY <1>2, <1>4
  <2>4. \A j \in 1..(i + 1) : j \notin acc.gone => \E k \in 1..L : e[k] = j
    BY <1>2, <1>3, <1>5
  <2>5. IsRemaining(acc, kept, i + 1, L, e)
    BY <1>2, <2>2, <2>3, <2>4 DEF IsRemaining
  <2> QED BY <2>1, <2>5 DEF RemainingList
<1>6. CASE i + 1 \notin acc.gone
  <2> DEFINE new == Append(kept, acc.devs[i + 1])
             h == [k \in 1..(L + 1) |-> IF k = L + 1 THEN i + 1 ELSE e[k]]
  <2>1. Kept(acc, kept, i + 1) = new
    BY <1>6 DEF Kept
  <2>2. IsAppended(Append(kept, acc.devs[i + 1]), kept, L, acc.devs[i + 1])
    <3> HIDE DEF h, new
    <3> QED BY <1>2, ListAppend
  <2> HIDE DEF new
  <2>3. IsList(new, L + 1) /\ (\A k \in 1..L : new[k] = kept[k]) /\ new[L + 1] = acc.devs[i + 1]
    <3> HIDE DEF h
    <3> QED BY <2>2 DEF IsAppended, new
  <2>4. \A k \in 1..(L + 1) : k \in 1..L \/ k = L + 1
    BY <1>2
  <2>5. L + 1 \in 1..(L + 1) /\ 1..L \subseteq 1..(L + 1) /\ L + 1 \notin 1..L
    BY <1>2
  <2>6. h[L + 1] = i + 1 /\ \A k \in 1..L : h[k] = e[k] /\ e[k] \in 1..i
    BY <1>2, <2>5
  <2>7. h \in [1..(L + 1) -> 1..(i + 1)]
    BY <1>2, <1>4
  <2> HIDE DEF h
  <2>8. \A k \in 1..(L + 1) : new[k] = acc.devs[h[k]] /\ h[k] \notin acc.gone
    BY <1>2, <1>6, <2>3, <2>4, <2>6
  <2>9. \A j \in 1..(i + 1) : j \notin acc.gone => \E k \in 1..(L + 1) : h[k] = j
    BY <1>2, <1>3, <2>5, <2>6
  <2>10. \A k, m \in 1..(L + 1) : k # m => h[k] # h[m]
    BY <1>2, <1>4, <2>4, <2>6
  <2>11. ASSUME L + 1 = i + 1, NEW j \in 1..(i + 1) PROVE j \notin acc.gone /\ new[j] = acc.devs[j]
    <3>1. L = i
      BY <1>2, <2>11
    <3> QED BY <1>2, <1>3, <1>6, <2>3, <3>1
  <2>12. L + 1 \in 0..(i + 1) /\ (acc.gone = {} => L + 1 = i + 1)
    BY <1>2
  <2>13. IsRemaining(acc, new, i + 1, L + 1, h)
    BY <2>3, <2>7, <2>8, <2>9, <2>10, <2>11, <2>12 DEF IsRemaining
  <2> QED BY <2>1, <2>13 DEF RemainingList
<1> QED BY <1>5, <1>6

LEMMA RemainingDevices ==
  ASSUME NEW acc, NEW N \in Nat, DOMAIN acc.devs = 1..N
  PROVE  RemainingList(acc, Remaining(acc), N)
<1>1. PICK f : RemainingSteps(f, acc, N)
  BY RemainingFold
<1> DEFINE P == {n \in Nat : n <= N => RemainingList(acc, f[n], n)}
<1>2. 0 \in P
  <2>1. IsRemaining(acc, << >>, 0, 0, [k \in 1..0 |-> 0])
    BY ListEmpty DEF IsRemaining
  <2> QED BY <1>1, <2>1 DEF RemainingList, RemainingSteps
<1>3. ASSUME NEW n \in Nat, n \in P PROVE n + 1 \in P
  <2>1. SUFFICES ASSUME n + 1 <= N PROVE RemainingList(acc, f[n + 1], n + 1)
    OBVIOUS
  <2>2. n + 1 \in 1..N /\ (n + 1) - 1 = n /\ RemainingList(acc, f[n], n)
    BY <1>3, <2>1
  <2>3. f[n + 1] = Kept(acc, f[n], n + 1)
    BY <1>1, <2>2 DEF RemainingSteps
  <2>4. RemainingList(acc, Kept(acc, f[n], n + 1), n + 1)
    <3> HIDE DEF P
    <3> QED BY <2>2, RemainingStep
  <2> QED BY <2>3, <2>4
<1>4. N \in P
  <2> HIDE DEF P
  <2> QED BY <1>2, <1>3, Induction
<1> QED BY <1>1, <1>4 DEF RemainingSteps

\* A cell with its devices merged.
IsSound(c) == IsCell(c) /\ ClassPins(c.devs) /\ Parts(c.devs, c.ports)

\* A pass has made d of c.
IsPass(c, d) ==
  /\ IsSound(d)
  /\ d.top = c.top /\ d.ports = c.ports
  /\ OfAll(d.devs) = OfAll(c.devs)
  /\ Len(c.devs) \in Nat /\ Len(d.devs) \in Nat /\ Len(d.devs) <= Len(c.devs)
  /\ Len(d.devs) = Len(c.devs) => d.devs = c.devs

LEMMA SeriesResult ==
  ASSUME NEW c, IsSound(c), MaxNode \in Nat
  PROVE  /\ IsPass(c, CombineSeries(c, MaxNode))
         /\ CombineSeries(c, MaxNode).devs = c.devs <=> NoSeries(c)
<1> DEFINE acc == JoinedSeries(PairList(c, MaxNode), MaxNode)
           new == Remaining(acc)
           d == CombineSeries(c, MaxNode)
<1>1. c = [top |-> c.top, ports |-> c.ports, devs |-> c.devs, open |-> c.open]
  BY DEF IsSound, IsCell
<1>2. d = [top |-> c.top, ports |-> c.ports, devs |-> new, open |-> c.open]
  <2>1. d = [c EXCEPT !.devs = new]
    BY DEF CombineSeries
  <2> HIDE DEF d, new
  <2> QED BY <1>1, <2>1
<1> HIDE DEF d
<1>3. PICK N : IsList(c.devs, N)
  BY DEF IsSound, IsCell
<1>4. SeriesState(c, N, acc, MaxNode)
  <2> HIDE DEF acc
  <2> QED BY <1>3, SeriesEnd DEF IsSound, acc
<1> HIDE DEF acc
<1>5. /\ IsList(acc.devs, N) /\ (\A k \in 1..N : IsDevice(acc.devs[k])) /\ ClassPins(acc.devs)
      /\ PartsIn(acc.devs, (1..N) \ acc.gone, c.ports)
      /\ OfIn(acc.devs, (1..N) \ acc.gone) = OfAll(c.devs)
  BY <1>4 DEF SeriesState, SeriesDevices
<1>6. N \in Nat /\ DOMAIN acc.devs = 1..N /\ Len(c.devs) = N
  BY <1>3, <1>5, ListLen DEF IsList
<1>7. PICK L, e : IsRemaining(acc, new, N, L, e)
  <2>1. RemainingList(acc, Remaining(acc), N)
    BY <1>6, RemainingDevices
  <2> QED BY <2>1 DEF RemainingList
<1> HIDE DEF new
<1>8. /\ L \in 0..N /\ L \in Nat /\ IsList(new, L) /\ e \in [1..L -> 1..N]
      /\ \A k \in 1..L : new[k] = acc.devs[e[k]] /\ e[k] \notin acc.gone
      /\ \A j \in 1..N : j \notin acc.gone => \E k \in 1..L : e[k] = j
      /\ \A k, m \in 1..L : k # m => e[k] # e[m]
      /\ L = N => \A j \in 1..N : j \notin acc.gone /\ new[j] = acc.devs[j]
      /\ acc.gone = {} => L = N
  <2>1. L \in 0..N
    BY <1>7 DEF IsRemaining
  <2>2. L \in Nat
    BY <1>6, <2>1
  <2> QED BY <1>7, <2>2 DEF IsRemaining
<1>9. Len(new) = L /\ DOMAIN new = 1..L
  BY <1>8, ListLen
<1>10. \A k \in 1..L : e[k] \in (1..N) \ acc.gone
  BY <1>8
<1>11. \A k \in 1..L : IsDevice(new[k])
  BY <1>5, <1>8
<1>12. ClassPins(new)
  <2>1. SUFFICES ASSUME NEW k \in 1..L, NEW m \in 1..L, new[k].class = new[m].class
                 PROVE  DOMAIN new[k].pins = DOMAIN new[m].pins
    BY <1>9 DEF ClassPins
  <2>2. new[k] = acc.devs[e[k]] /\ new[m] = acc.devs[e[m]] /\ e[k] \in DOMAIN acc.devs /\ e[m] \in DOMAIN acc.devs
    BY <1>6, <1>8
  <2> QED BY <1>5, <2>1, <2>2 DEF ClassPins
<1>13. Parts(new, c.ports)
  <2>1. \A k \in 1..L : Pins(new[k]) \subseteq Nodes(new[k]) /\ Within(new[k], c.ports)
    BY <1>5, <1>8, <1>10 DEF PartsIn
  <2>2. ASSUME NEW k \in 1..L, NEW m \in 1..L, k # m PROVE Apart(new[k], new[m])
    <3>1. e[k] \in (1..N) \ acc.gone /\ e[m] \in (1..N) \ acc.gone /\ e[k] # e[m]
      BY <1>8, <1>10, <2>2
    <3>2. Apart(acc.devs[e[k]], acc.devs[e[m]])
      BY <1>5, <3>1 DEF PartsIn
    <3> QED BY <1>8, <3>2
  <2> QED BY <1>9, <2>1, <2>2 DEF Parts
<1>14. OfAll(new) = OfAll(c.devs)
  <2>1. \A x : x \in OfAll(new) <=> \E k \in 1..L : x \in new[k].of
    BY <1>9 DEF OfAll
  <2>2. \A x : x \in OfIn(acc.devs, (1..N) \ acc.gone) <=> \E j \in (1..N) \ acc.gone : x \in acc.devs[j].of
    BY DEF OfIn
  <2>3. \A x : x \in OfAll(new) <=> x \in OfIn(acc.devs, (1..N) \ acc.gone)
    <3>1. ASSUME NEW x, NEW k \in 1..L, x \in new[k].of PROVE \E j \in (1..N) \ acc.gone : x \in acc.devs[j].of
      <4>1. e[k] \in (1..N) \ acc.gone /\ new[k] = acc.devs[e[k]]
        BY <1>8, <1>10
      <4> QED BY <3>1, <4>1
    <3>2. ASSUME NEW x, NEW j \in (1..N) \ acc.gone, x \in acc.devs[j].of PROVE \E k \in 1..L : x \in new[k].of
      <4>1. PICK k \in 1..L : e[k] = j
        BY <1>8
      <4> QED BY <1>8, <3>2, <4>1
    <3> QED BY <2>1, <2>2, <3>1, <3>2
  <2> QED BY <1>5, <2>3
<1>15. /\ acc.gone \subseteq 1..N
       /\ DOMAIN acc.pairs = {n \in 1..MaxNode : IsSeriesNode(c, n)}
       /\ DOMAIN acc.pairs = {} => acc.gone = {}
       /\ acc.gone = {} => acc.devs = c.devs /\ \A m \in DOMAIN acc.pairs : m > MaxNode
  BY <1>4, <1>6 DEF SeriesState, SeriesPairs
<1>16. acc.gone = {} <=> NoSeries(c)
  <2>1. ASSUME acc.gone = {} PROVE NoSeries(c)
    BY <1>15, <2>1 DEF NoSeries
  <2>2. ASSUME NoSeries(c) PROVE acc.gone = {}
    BY <1>15, <2>2 DEF NoSeries
  <2> QED BY <2>1, <2>2
<1>17. L = N => acc.gone = {}
  BY <1>8, <1>15
<1>18. acc.gone = {} => new = c.devs
  <2>1. SUFFICES ASSUME acc.gone = {} PROVE new = c.devs
    OBVIOUS
  <2>2. L = N /\ acc.devs = c.devs /\ \A j \in 1..N : new[j] = c.devs[j]
    BY <1>8, <1>15, <2>1
  <2> QED BY <1>3, <1>8, <2>2 DEF IsList
<1>19. new = c.devs <=> NoSeries(c)
  <2>1. new = c.devs => L = N
    BY <1>6, <1>9
  <2> QED BY <1>16, <1>17, <1>18, <2>1
<1>20. IsCell(d)
  <2>1. \E n \in Nat : DOMAIN c.ports = 1..n
    BY DEF IsSound, IsCell
  <2>2. \E M : IsList(new, M) /\ \A k \in 1..M : IsDevice(new[k])
    BY <1>8, <1>11
  <2> QED BY <1>2, <2>1, <2>2 DEF IsCell
<1>21. L <= N
  BY <1>6, <1>8
<1>22. IsPass(c, d)
  BY <1>2, <1>6, <1>8, <1>9, <1>12, <1>13, <1>14, <1>17, <1>18, <1>20, <1>21 DEF IsPass, IsSound
<1>23. d.devs = new
  BY <1>2
<1> QED BY <1>19, <1>22, <1>23 DEF d

LEMMA ParallelResult ==
  ASSUME NEW c, IsSound(c)
  PROVE  /\ IsPass(c, CombineParallel(c))
         /\ Distinct(OpenNodes(c), CombineParallel(c).devs)
         /\ Distinct(OpenNodes(c), c.devs) => CombineParallel(c).devs = c.devs
<1> DEFINE open == OpenNodes(c)
           new == JoinedParallel(open, c.devs)
           d == CombineParallel(c)
<1>1. c = [top |-> c.top, ports |-> c.ports, devs |-> c.devs, open |-> c.open]
  BY DEF IsSound, IsCell
<1>2. \E o : d = [top |-> c.top, ports |-> c.ports, devs |-> new, open |-> o]
  <2>1. \E o : d = [c EXCEPT !.devs = new, !.open = o]
    BY DEF CombineParallel
  <2> HIDE DEF d, new
  <2> QED BY <1>1, <2>1
<1> HIDE DEF d
<1>3. PICK N : IsList(c.devs, N) /\ \A k \in 1..N : IsDevice(c.devs[k])
  BY DEF IsSound, IsCell
<1>4. N \in Nat /\ DOMAIN c.devs = 1..N /\ Len(c.devs) = N
  BY <1>3, ListLen DEF IsList
<1>5. Alone(open, c.devs, c.ports)
  BY OpenAlone DEF IsSound
<1> HIDE DEF open
<1>6. /\ Parts(new, c.ports) /\ OfAll(new) = OfAll(c.devs)
  BY <1>3, <1>5, ParallelParts DEF IsSound
<1>7. PICK L, g : IsGrouping(open, c.devs, new, N, L, g)
  BY <1>3, ParallelGroups DEF Grouping
<1>8. Distinct(open, c.devs) => new = c.devs
  BY <1>3, DistinctStays
<1> HIDE DEF new
<1>9. /\ L \in 0..N /\ L \in Nat /\ IsList(new, L)
      /\ \A k \in 1..L : IsDevice(new[k])
      /\ \A k \in 1..L : \E j \in 1..N : new[k].class = c.devs[j].class /\ new[k].pins = c.devs[j].pins
      /\ \A k, m \in 1..L : k < m /\ new[m].class \notin NoParallel => ~SameKey(open, new[k], new[m])
      /\ L = N => \A k \in 1..N : new[k] = c.devs[k]
  <2>1. L \in 0..N
    BY <1>7 DEF IsGrouping
  <2>2. L \in Nat
    BY <1>4, <2>1
  <2>3. \A k \in 1..L : \E j \in 1..N : g[j] = k /\ new[k].class = c.devs[j].class /\ new[k].pins = c.devs[j].pins
    BY <1>7 DEF IsGrouping
  <2>4. IsList(new, L) /\ \A k \in 1..L : IsDevice(new[k])
    BY <1>7 DEF IsGrouping
  <2>5. \A k, m \in 1..L : k < m /\ new[m].class \notin NoParallel => ~SameKey(open, new[k], new[m])
    BY <1>7 DEF IsGrouping
  <2>6. L = N => \A k \in 1..N : new[k] = c.devs[k]
    BY <1>7 DEF IsGrouping
  <2> QED BY <2>1, <2>2, <2>3, <2>4, <2>5, <2>6
<1>10. Len(new) = L /\ DOMAIN new = 1..L
  BY <1>9, ListLen
<1>11. Distinct(open, new)
  BY <1>9, <1>10 DEF Distinct
<1>12. ClassPins(new)
  <2>1. SUFFICES ASSUME NEW k \in 1..L, NEW m \in 1..L, new[k].class = new[m].class
                 PROVE  DOMAIN new[k].pins = DOMAIN new[m].pins
    BY <1>10 DEF ClassPins
  <2>2. PICK i \in 1..N : new[k].class = c.devs[i].class /\ new[k].pins = c.devs[i].pins
    BY <1>9
  <2>3. PICK j \in 1..N : new[m].class = c.devs[j].class /\ new[m].pins = c.devs[j].pins
    BY <1>9
  <2>4. DOMAIN c.devs[i].pins = DOMAIN c.devs[j].pins
    BY <1>4, <2>1, <2>2, <2>3 DEF IsSound, ClassPins
  <2> QED BY <2>2, <2>3, <2>4
<1>13. L = N => new = c.devs
  BY <1>3, <1>9 DEF IsList
<1>14. IsCell(d)
  <2>1. \E n \in Nat : DOMAIN c.ports = 1..n
    BY DEF IsSound, IsCell
  <2>2. \E M : IsList(new, M) /\ \A k \in 1..M : IsDevice(new[k])
    BY <1>9
  <2>3. d.devs = new /\ d.ports = c.ports /\ d = [top |-> d.top, ports |-> d.ports, devs |-> d.devs, open |-> d.open]
    BY <1>2
  <2> QED BY <2>1, <2>2, <2>3 DEF IsCell
<1>15. d.devs = new /\ d.top = c.top /\ d.ports = c.ports
  BY <1>2
<1>16. IsPass(c, d)
  BY <1>4, <1>6, <1>9, <1>10, <1>12, <1>13, <1>14, <1>15 DEF IsPass, IsSound
<1> QED BY <1>8, <1>11, <1>15, <1>16 DEF d, open

-----------------------------------------------------------------------------
(* The loop over the passes.                                                 *)

LEMMA ListOf ==
  ASSUME NEW S, NEW s \in Seq(S)
  PROVE  IsList(s, Len(s)) /\ s \in [1..Len(s) -> S] /\ DOMAIN s = 1..Len(s)
<1>1. Len(s) \in Nat /\ s \in [1..Len(s) -> S] /\ DOMAIN s = 1..Len(s)
  BY LenProperties
<1> QED BY <1>1 DEF IsList

LEMMA ReadSound ==
  ASSUME NEW c, IsRead(c)
  PROVE  IsSound(c)
<1> DEFINE N == Len(c.devs)
<1>1. c = [top |-> c.top, ports |-> c.ports, devs |-> c.devs, open |-> c.open]
  BY DEF IsRead
<1>2. IsList(c.devs, N) /\ DOMAIN c.devs = 1..N /\ N \in Nat
  <2>1. c.devs \in Seq(ToSet(c.devs))
    BY DEF IsRead
  <2> HIDE DEF N
  <2> QED BY <2>1, ListOf DEF N, IsList
<1> HIDE DEF N
<1>3. \E n \in Nat : DOMAIN c.ports = 1..n
  <2>1. c.ports \in Seq(1..MaxNode)
    BY DEF IsRead
  <2> QED BY <2>1, LenProperties
<1>4. ASSUME NEW k \in 1..N
      PROVE  /\ IsDevice(c.devs[k])
             /\ {x[2] : x \in c.devs[k].of} = {c.devs[k].pins}
  <2> DEFINE d == c.devs[k]
  <2>1. d \in ToSet(c.devs)
    BY <1>2 DEF ToSet
  <2>2. /\ d = [class |-> d.class, pins |-> d.pins, of |-> d.of, ohms |-> d.ohms, recs |-> d.recs]
        /\ d.pins \in Seq(1..MaxNode) /\ {x[2] : x \in d.of} = {d.pins}
        /\ d.class \in Series \cup Permuted => {1, 2} \subseteq DOMAIN d.pins
    <3> HIDE DEF d
    <3> QED BY <2>1 DEF IsRead
  <2> HIDE DEF d
  <2>3. Len(d.pins) \in Nat /\ d.pins \in [1..Len(d.pins) -> 1..MaxNode]
    BY <2>2, LenProperties
  <2>4. IsDevice(d)
    BY <2>2, <2>3 DEF IsDevice
  <2> QED BY <2>2, <2>4 DEF d
<1>5. ClassPins(c.devs)
  BY DEF IsRead, ClassPins
<1>6. ASSUME NEW k \in 1..N PROVE Nodes(c.devs[k]) = Pins(c.devs[k])
  <2>1. {x[2] : x \in c.devs[k].of} = {c.devs[k].pins}
    BY <1>4
  <2>2. {ToSet(x[2]) : x \in c.devs[k].of} = {ToSet(c.devs[k].pins)}
    <3>1. \A x \in c.devs[k].of : x[2] = c.devs[k].pins
      BY <2>1
    <3>2. \E x \in c.devs[k].of : x[2] = c.devs[k].pins
      BY <2>1
    <3> QED BY <3>1, <3>2
  <2> QED BY <2>2 DEF Nodes, Pins
<1>7. Parts(c.devs, c.ports)
  <2>1. \A k, j \in 1..N : k # j => c.devs[k].of \cap c.devs[j].of = {}
    BY <1>2 DEF IsRead
  <2> QED BY <1>2, <1>6, <2>1 DEF Parts, Within, Apart
<1>8. IsCell(c)
  BY <1>1, <1>2, <1>3, <1>4 DEF IsCell
<1> QED BY <1>5, <1>7, <1>8 DEF IsSound

\* d is c with other property records.
IsRecorded(c, d) ==
  /\ IsSound(d) /\ d.top = c.top /\ OfAll(d.devs) = OfAll(c.devs)
  /\ Distinct({}, c.devs) => Distinct({}, d.devs)
  /\ NoSeries(c) => NoSeries(d)

LEMMA RecsOnly ==
  ASSUME NEW c, IsSound(c), NEW j, NEW r
  PROVE  IsRecorded(c, [c EXCEPT !.devs[j].recs = r])
<1> DEFINE new == [c.devs EXCEPT ![j].recs = r]
           d == [c EXCEPT !.devs[j].recs = r]
<1>1. c = [top |-> c.top, ports |-> c.ports, devs |-> c.devs, open |-> c.open]
  BY DEF IsSound, IsCell
<1>2. d = [top |-> c.top, ports |-> c.ports, devs |-> new, open |-> c.open]
  <2>1. d = [c EXCEPT !.devs = new]
    BY <1>1
  <2> HIDE DEF d, new
  <2> QED BY <1>1, <2>1
<1> HIDE DEF d
<1>3. PICK N : IsList(c.devs, N) /\ \A k \in 1..N : IsDevice(c.devs[k])
  BY DEF IsSound, IsCell
<1>4. N \in Nat /\ DOMAIN c.devs = 1..N
  BY <1>3, ListLen DEF IsList
<1>5. IsList(new, N) /\ DOMAIN new = 1..N
  BY <1>3, <1>4 DEF IsList
<1>6. ASSUME NEW k \in 1..N
      PROVE  /\ new[k].class = c.devs[k].class /\ new[k].pins = c.devs[k].pins /\ new[k].of = c.devs[k].of
             /\ IsDevice(new[k])
  <2> DEFINE e == c.devs[k]
  <2>1. e = [class |-> e.class, pins |-> e.pins, of |-> e.of, ohms |-> e.ohms, recs |-> e.recs]
    BY <1>3 DEF IsDevice
  <2>2. new[k] = IF k = j THEN [e EXCEPT !.recs = r] ELSE e
    BY <1>4
  <2> HIDE DEF e, new
  <2>3. new[k] = [class |-> e.class, pins |-> e.pins, of |-> e.of, ohms |-> e.ohms, recs |-> IF k = j THEN r ELSE e.recs]
    BY <2>1, <2>2
  <2>4. IsDevice(e)
    BY <1>3 DEF e
  <2>5. IsDevice(new[k])
    BY <2>3, <2>4 DEF IsDevice
  <2> QED BY <2>3, <2>5 DEF e
<1> HIDE DEF new
<1>7. d.devs = new /\ d.ports = c.ports /\ d.top = c.top
  BY <1>2
<1>8. IsCell(d)
  <2>1. \E n \in Nat : DOMAIN c.ports = 1..n
    BY DEF IsSound, IsCell
  <2>2. \E M : IsList(new, M) /\ \A k \in 1..M : IsDevice(new[k])
    BY <1>5, <1>6
  <2> QED BY <1>2, <2>1, <2>2 DEF IsCell
<1>9. ClassPins(new)
  BY <1>4, <1>5, <1>6 DEF IsSound, ClassPins
<1>10. \A k \in 1..N : Nodes(new[k]) = Nodes(c.devs[k]) /\ Pins(new[k]) = Pins(c.devs[k])
  BY <1>6 DEF Nodes, Pins
<1>11. Parts(new, c.ports)
  BY <1>4, <1>5, <1>6, <1>10 DEF IsSound, Parts, Within, Apart
<1>12. OfAll(new) = OfAll(c.devs)
  BY <1>4, <1>5, <1>6 DEF OfAll
<1>13. Distinct({}, c.devs) => Distinct({}, new)
  BY <1>4, <1>5, <1>6 DEF Distinct, SameKey, Key
<1>14. IsSound(d)
  BY <1>7, <1>8, <1>9, <1>11 DEF IsSound
<1>15. ASSUME NEW n \in 1..MaxNode, IsSeriesNode(d, n) PROVE IsSeriesNode(c, n)
  <2>1. PinsOf(new) = PinsOf(c.devs)
    BY <1>4, <1>5, <1>6 DEF PinsOf
  <2>2. \A x \in PinsOf(c.devs) : x[1] \in 1..N
    BY <1>4 DEF PinsOf
  <2>3. PinsOn(new, n) = PinsOn(c.devs, n)
    BY <1>6, <2>1, <2>2 DEF PinsOn
  <2>4. FirstPin(new, n) = FirstPin(c.devs, n) /\ SecondPin(new, n) = SecondPin(c.devs, n)
    BY <2>3 DEF FirstPin, SecondPin
  <2> DEFINE a == FirstPin(c.devs, n)
             b == SecondPin(c.devs, n)
  <2>5. IsPair(d.devs, d.ports, {}, n, FirstPin(d.devs, n)[1], SecondPin(d.devs, n)[1])
    BY <1>8, <1>9, <1>15, <1>7, PairFound
  <2>6. a[1] \in 1..N /\ b[1] \in 1..N
    BY <1>5, <1>7, <2>4, <2>5 DEF IsPair
  <2>7. /\ Cardinality(PinsOn(new, n)) = 2 /\ n \notin ToSet(c.ports)
        /\ new[a[1]].class \in Series /\ a[2] <= 2 /\ new[b[1]].class = new[a[1]].class
        /\ CheckPinNodes(new, a[1], b[1])
    BY <1>7, <1>15, <2>4 DEF IsSeriesNode
  <2>8. CheckPinNodes(c.devs, a[1], b[1])
    <3> HIDE DEF a, b
    <3> QED BY <1>6, <2>6, <2>7 DEF CheckPinNodes
  <2>9. c.devs[a[1]].class \in Series /\ c.devs[b[1]].class = c.devs[a[1]].class
    <3> HIDE DEF a, b
    <3> QED BY <1>6, <2>6, <2>7
  <2> QED BY <2>3, <2>7, <2>8, <2>9 DEF IsSeriesNode
<1>16. NoSeries(c) => NoSeries(d)
  BY <1>15 DEF NoSeries
<1> QED BY <1>7, <1>12, <1>13, <1>14, <1>16 DEF IsRecorded, d

\* What the passes so far have done.
Passed(g) ==
  /\ (g < graph \/ (g = graph /\ pass = "series" /\ first)) => Distinct({}, cells[g].devs)
  /\ (g < graph \/ (g = graph /\ pass = "parallel" /\ ~first)) => NoSeries(cells[g])
MergeState ==
  /\ graph \in 1..3 /\ first \in BOOLEAN
  /\ DOMAIN cells = 1..2
  /\ \A g \in 1..2 : IsSound(cells[g])
  /\ \A g \in 1..2 : cells[g].top => Passed(g)

LEMMA MergeInit == Init => MergeState
<1> SUFFICES ASSUME Init PROVE MergeState
  OBVIOUS
<1>1. PICK x \in Inputs : cells = Netlists(x)
  BY DEF Init
<1>2. graph = 1 /\ pass = "parallel" /\ first = TRUE
  BY DEF Init
<1>3. DOMAIN cells = 1..2 /\ IsRead(cells[1]) /\ IsRead(cells[2])
  BY <1>1, NetlistsRead
<1>4. \A g \in 1..2 : IsSound(cells[g])
  <2>1. IsSound(cells[1]) /\ IsSound(cells[2])
    BY <1>3, ReadSound
  <2>2. \A g \in 1..2 : g = 1 \/ g = 2
    OBVIOUS
  <2> QED BY <2>1, <2>2
<1>5. \A g \in 1..2 : Passed(g)
  BY <1>2 DEF Passed
<1> QED BY <1>2, <1>3, <1>4, <1>5 DEF MergeState

\* One cell goes through one pass, the other stays.
CellsStep(g, d) ==
  /\ g \in 1..2 /\ DOMAIN cells' = 1..2 /\ cells'[g] = d
  /\ IsPass(cells[g], d)
  /\ \A h \in 1..2 : h # g => cells'[h] = cells[h]
OnePass == \E d : CellsStep(graph, d)

LEMMA TopOpen ==
  ASSUME NEW c, c.top PROVE OpenNodes(c) = {}
  BY DEF OpenNodes

LEMMA SameSeries ==
  ASSUME NEW c, NEW d, NoSeries(c), d.devs = c.devs, d.ports = c.ports PROVE NoSeries(d)
  BY DEF NoSeries, IsSeriesNode

LEMMA ParallelStep ==
  ASSUME MergeState, ParallelPass
  PROVE  MergeState' /\ OnePass
<1> DEFINE c == cells[graph]
           d == CombineParallel(c)
<1>1. /\ graph \in 1..2 /\ pass = "parallel" /\ first \in BOOLEAN /\ DOMAIN cells = 1..2
      /\ (\A g \in 1..2 : IsSound(cells[g])) /\ \A g \in 1..2 : cells[g].top => Passed(g)
  BY DEF MergeState, ParallelPass
<1>2. DOMAIN cells' = 1..2 /\ cells'[graph] = d /\ \A h \in 1..2 : h # graph => cells'[h] = cells[h]
  BY <1>1 DEF ParallelPass
<1>3. /\ IsPass(c, d) /\ Distinct(OpenNodes(c), d.devs)
  <2>1. IsSound(c)
    BY <1>1
  <2> HIDE DEF c
  <2> QED BY <2>1, ParallelResult
<1>4. CellsStep(graph, d)
  <2> HIDE DEF c, d
  <2> QED BY <1>1, <1>2, <1>3 DEF CellsStep, c
<1>5. IsSound(d) /\ d.top = c.top /\ d.ports = c.ports /\ (Len(d.devs) = Len(c.devs) => d.devs = c.devs)
  <2> HIDE DEF c, d
  <2> QED BY <1>3 DEF IsPass
<1>6. d.top => Distinct({}, d.devs)
  <2> HIDE DEF d
  <2>1. d.top => OpenNodes(c) = {}
    <3> HIDE DEF c
    <3> QED BY <1>5, TopOpen
  <2> HIDE DEF c
  <2> QED BY <1>3, <2>1
<1>7. \/ /\ ~first /\ Len(d.devs) = Len(c.devs)
         /\ graph' = graph + 1 /\ pass' = "parallel" /\ first' = TRUE
      \/ graph' = graph /\ pass' = "series" /\ first' = TRUE
  BY <1>2 DEF ParallelPass, Finished
<1>8. \A g \in 1..2 : IsSound(cells[g]')
  <2> HIDE DEF c, d
  <2> QED BY <1>1, <1>2, <1>5
<1>9. graph' \in 1..3 /\ first' \in BOOLEAN /\ first'
  <2>1. graph' = graph + 1 \/ graph' = graph
    BY <1>7
  <2>2. graph' \in 1..3
    BY <1>1, <2>1
  <2>3. first' = TRUE
    BY <1>7
  <2> QED BY <2>2, <2>3
<1>10. ASSUME NEW h \in 1..2, h # graph, (cells[h].top)' PROVE Passed(h)'
  <2>1. cells[h]' = cells[h] /\ Passed(h)
    BY <1>1, <1>2, <1>10
  <2>2. h < graph' => h < graph
    BY <1>1, <1>7, <1>10
  <2>3. h = graph' => pass' = "parallel" /\ first'
    BY <1>7, <1>10
  <2>4. Distinct({}, cells[h].devs)' <=> Distinct({}, cells[h].devs)
    BY <2>1 DEF Distinct
  <2>5. NoSeries(cells[h])' <=> NoSeries(cells[h])
    BY <2>1
  <2> QED BY <2>1, <2>2, <2>3, <2>4, <2>5 DEF Passed
<1>12. ASSUME d.top PROVE \A g \in {graph} : Passed(g)'
  <2>1. Distinct({}, d.devs)
    BY <1>6, <1>12
  <2>2. CASE /\ ~first /\ Len(d.devs) = Len(c.devs)
             /\ graph' = graph + 1 /\ pass' = "parallel" /\ first' = TRUE
    <3>1. NoSeries(c)
      BY <1>1, <1>5, <1>12, <2>2 DEF Passed
    <3>2. NoSeries(d)
      <4> HIDE DEF c, d
      <4> QED BY <1>5, <2>2, <3>1, SameSeries
    <3> HIDE DEF c, d
    <3> QED BY <1>2, <2>1, <3>2 DEF Passed
  <2>3. CASE graph' = graph /\ pass' = "series" /\ first' = TRUE
    <3> HIDE DEF c, d
    <3>1. ~(graph < graph)
      BY <1>1
    <3> QED BY <1>2, <2>1, <2>3, <3>1 DEF Passed
  <2> QED BY <1>7, <2>2, <2>3
<1>13. \A g \in 1..2 : (cells[g].top)' => Passed(g)'
  <2> HIDE DEF c, d
  <2> QED BY <1>2, <1>10, <1>12
<1> QED BY <1>2, <1>4, <1>8, <1>9, <1>13 DEF MergeState, OnePass

LEMMA SeriesPassStep ==
  ASSUME MergeState, SeriesPass
  PROVE  MergeState' /\ OnePass
<1> DEFINE c == cells[graph]
           d == CombineSeries(c, MaxNode)
<1>1. /\ graph \in 1..2 /\ pass = "series" /\ first \in BOOLEAN /\ DOMAIN cells = 1..2
      /\ (\A g \in 1..2 : IsSound(cells[g])) /\ \A g \in 1..2 : cells[g].top => Passed(g)
  BY DEF MergeState, SeriesPass
<1>2. DOMAIN cells' = 1..2 /\ cells'[graph] = d /\ \A h \in 1..2 : h # graph => cells'[h] = cells[h]
  BY <1>1 DEF SeriesPass
<1>3. IsPass(c, d) /\ (d.devs = c.devs <=> NoSeries(c))
  <2>1. IsSound(c)
    BY <1>1
  <2> HIDE DEF c
  <2> QED BY <2>1, SeriesResult, NetlistsRead
<1>4. CellsStep(graph, d)
  <2> HIDE DEF c, d
  <2> QED BY <1>1, <1>2, <1>3 DEF CellsStep, c
<1>5. /\ IsSound(d) /\ d.top = c.top /\ d.ports = c.ports /\ (Len(d.devs) = Len(c.devs) => d.devs = c.devs)
      /\ Len(c.devs) \in Nat /\ Len(d.devs) \in Nat /\ Len(d.devs) <= Len(c.devs)
  <2> HIDE DEF c, d
  <2> QED BY <1>3 DEF IsPass
<1>6. \/ graph' = graph /\ pass' = "series" /\ first' = FALSE
      \/ /\ Len(d.devs) = Len(c.devs) /\ first = TRUE
         /\ graph' = graph + 1 /\ pass' = "parallel" /\ first' = TRUE
      \/ /\ Len(d.devs) = Len(c.devs) /\ graph' = graph /\ pass' = "parallel" /\ first' = FALSE
  <2> HIDE DEF c, d
  <2>1. CASE Len(d.devs) < Len(c.devs)
    BY <1>2, <2>1 DEF SeriesPass, c
  <2>2. CASE ~(Len(d.devs) < Len(c.devs))
    <3>1. Len(d.devs) = Len(c.devs)
      BY <1>5, <2>2
    <3>2. IF first THEN Finished(graph) ELSE graph' = graph /\ pass' = "parallel" /\ first' = FALSE
      BY <1>2, <2>2 DEF SeriesPass, c
    <3> QED BY <1>1, <3>1, <3>2 DEF Finished
  <2> QED BY <2>1, <2>2
<1>7. \A g \in 1..2 : IsSound(cells[g]')
  <2> HIDE DEF c, d
  <2> QED BY <1>1, <1>2, <1>5
<1>8. graph' \in 1..3 /\ first' \in BOOLEAN
  <2>1. graph' = graph + 1 \/ graph' = graph
    BY <1>6
  <2>2. graph' \in 1..3
    BY <1>1, <2>1
  <2>3. first' = TRUE \/ first' = FALSE
    BY <1>6
  <2> QED BY <2>2, <2>3
<1>9. ASSUME NEW h \in 1..2, h # graph, (cells[h].top)' PROVE Passed(h)'
  <2>1. cells[h]' = cells[h] /\ Passed(h)
    BY <1>1, <1>2, <1>9
  <2>2. h < graph' => h < graph
    BY <1>1, <1>6, <1>9
  <2>3. h = graph' => pass' = "parallel" /\ first'
    BY <1>6, <1>9
  <2>4. Distinct({}, cells[h].devs)' <=> Distinct({}, cells[h].devs)
    BY <2>1 DEF Distinct
  <2>5. NoSeries(cells[h])' <=> NoSeries(cells[h])
    BY <2>1
  <2> QED BY <2>1, <2>2, <2>3, <2>4, <2>5 DEF Passed
<1>10. Len(d.devs) = Len(c.devs) => NoSeries(d)
  <2> HIDE DEF c, d
  <2> QED BY <1>3, <1>5, SameSeries
<1>11. ASSUME d.top PROVE \A g \in {graph} : Passed(g)'
  <2>1. ~(graph < graph)
    BY <1>1
  <2>2. CASE graph' = graph /\ pass' = "series" /\ first' = FALSE
    BY <1>2, <2>1, <2>2 DEF Passed
  <2>3. CASE /\ Len(d.devs) = Len(c.devs) /\ first = TRUE
             /\ graph' = graph + 1 /\ pass' = "parallel" /\ first' = TRUE
    <3>1. Distinct({}, c.devs)
      BY <1>1, <1>5, <1>11, <2>3 DEF Passed
    <3>2. Distinct({}, d.devs) /\ NoSeries(d)
      <4> HIDE DEF c, d
      <4> QED BY <1>5, <1>10, <2>3, <3>1
    <3> HIDE DEF c, d
    <3> QED BY <1>2, <3>2 DEF Passed
  <2>4. CASE Len(d.devs) = Len(c.devs) /\ graph' = graph /\ pass' = "parallel" /\ first' = FALSE
    <3> HIDE DEF c, d
    <3> QED BY <1>2, <1>10, <2>1, <2>4 DEF Passed
  <2> QED BY <1>6, <2>2, <2>3, <2>4
<1>12. \A g \in 1..2 : (cells[g].top)' => Passed(g)'
  <2> HIDE DEF c, d
  <2> QED BY <1>2, <1>9, <1>11
<1> QED BY <1>2, <1>4, <1>7, <1>8, <1>12 DEF MergeState, OnePass

\* The comparison changes records only.
LEMMA EndStep ==
  ASSUME MergeState, EndMatch
  PROVE  MergeState' /\ \A g \in 1..2 : IsRecorded(cells[g], cells'[g])
<1>1. /\ graph \in 1..3 /\ first \in BOOLEAN /\ DOMAIN cells = 1..2
      /\ (\A g \in 1..2 : IsSound(cells[g])) /\ \A g \in 1..2 : cells[g].top => Passed(g)
  BY DEF MergeState
<1>2. /\ UNCHANGED <<graph, pass, first>> /\ DOMAIN cells' = 1..2
      /\ \A g \in 1..2 : cells'[g] = [cells[g] EXCEPT !.devs[match.devs[g]].recs = match.done[g]]
  BY DEF EndMatch
<1>3. ASSUME NEW g \in 1..2 PROVE IsRecorded(cells[g], cells'[g])
  <2> DEFINE c == cells[g]
             j == match.devs[g]
             r == match.done[g]
  <2>1. cells'[g] = [c EXCEPT !.devs[j].recs = r] /\ IsSound(c)
    BY <1>1, <1>2
  <2> HIDE DEF c, j, r
  <2>2. IsRecorded(c, [c EXCEPT !.devs[j].recs = r])
    BY <2>1, RecsOnly
  <2> QED BY <2>1, <2>2 DEF c
<1>4. \A g \in 1..2 : IsSound(cells[g]')
  BY <1>3 DEF IsRecorded
<1>5. ASSUME NEW g \in 1..2, (cells[g].top)' PROVE Passed(g)'
  <2>1. /\ cells[g].top
        /\ Distinct({}, cells[g].devs) => Distinct({}, cells'[g].devs)
        /\ NoSeries(cells[g]) => NoSeries(cells'[g])
    BY <1>3, <1>5 DEF IsRecorded
  <2>2. Passed(g)
    BY <1>1, <2>1
  <2> QED BY <1>2, <2>1, <2>2 DEF Passed
<1> QED BY <1>1, <1>2, <1>3, <1>4, <1>5 DEF MergeState

LEMMA OtherSteps ==
  ASSUME MergeState, UNCHANGED <<cells, graph, pass, first>>
  PROVE  MergeState'
  BY DEF MergeState, Passed, Distinct, NoSeries

LEMMA MergeNext == MergeState /\ [Next]_vars => MergeState'
<1> SUFFICES ASSUME MergeState, [Next]_vars PROVE MergeState'
  OBVIOUS
<1>1. CASE ParallelPass
  BY <1>1, ParallelStep
<1>2. CASE SeriesPass
  BY <1>2, SeriesPassStep
<1>3. CASE EndMatch
  BY <1>3, EndStep
<1>4. ASSUME NEW k1, NEW k2, StartMatch(k1, k2) PROVE MergeState'
  <2>1. UNCHANGED <<cells, graph, pass, first>>
    BY <1>4 DEF StartMatch
  <2> QED BY <2>1, OtherSteps
<1>5. CASE Combine \/ Crash \/ ComparePair \/ CompareRest
  <2>1. UNCHANGED <<cells, graph, pass, first>>
    BY <1>5 DEF Combine, Crash, ComparePair, CompareRest
  <2> QED BY <2>1, OtherSteps
<1>6. CASE UNCHANGED vars
  <2>1. UNCHANGED <<cells, graph, pass, first>>
    BY <1>6 DEF vars
  <2> QED BY <2>1, OtherSteps
<1> QED BY <1>1, <1>2, <1>3, <1>4, <1>5, <1>6 DEF Next, MergeStep, MatchStep

LEMMA MergeInvariant == Spec => []MergeState
<1> QED BY MergeInit, MergeNext, PTL DEF Spec

-----------------------------------------------------------------------------
LEMMA SoundParts ==
  ASSUME MergeState PROVE PartsKept
<1> SUFFICES ASSUME NEW g \in 1..2, NEW k \in Devices(g)
             PROVE  /\ Pins(Device(g, k)) \subseteq Nodes(Device(g, k))
                    /\ (Nodes(Device(g, k)) \ Pins(Device(g, k))) \cap Shared(g, k) = {}
                    /\ \A j \in Devices(g) \ {k} : Device(g, j).of \cap Device(g, k).of = {}
  BY DEF PartsKept
<1> DEFINE devs == cells[g].devs
<1>1. Parts(devs, cells[g].ports)
  BY DEF MergeState, IsSound
<1>2. /\ Pins(devs[k]) \subseteq Nodes(devs[k]) /\ Within(devs[k], cells[g].ports)
      /\ \A j \in DOMAIN devs : k # j => Apart(devs[k], devs[j])
  BY <1>1 DEF Parts, Devices
<1>3. Devices(g) = DOMAIN devs /\ \A j : Device(g, j) = devs[j]
  BY DEF Devices, Device
<1>4. Shared(g, k) = (UNION {Pins(devs[j]) : j \in DOMAIN devs \ {k}}) \cup ToSet(cells[g].ports)
  BY DEF Shared, Used, Devices, Device
<1> HIDE DEF devs
<1>5. (Nodes(devs[k]) \ Pins(devs[k])) \cap Shared(g, k) = {}
  BY <1>2, <1>4 DEF Within, Apart
<1>6. \A j \in DOMAIN devs \ {k} : devs[j].of \cap devs[k].of = {}
  BY <1>2 DEF Apart
<1> QED BY <1>2, <1>3, <1>5, <1>6

LEMMA DrawnOf == \A g \in 1..2 : Drawn(g) = OfAll(cells[g].devs) /\ Drawn(g)' = OfAll(cells'[g].devs)
  BY DEF Drawn, OfAll, Devices, Device

LEMMA StepKeeps ==
  ASSUME MergeState, [Next]_vars
  PROVE  PartsKept' /\ \A g \in 1..2 : Drawn(g)' = Drawn(g)
<1>1. MergeState'
  BY MergeNext
<1>2. PartsKept'
  BY <1>1, SoundParts, PTL
<1>3. ASSUME OnePass PROVE \A g \in 1..2 : Drawn(g)' = Drawn(g)
  <2>1. PICK d : CellsStep(graph, d)
    BY <1>3 DEF OnePass
  <2>2. /\ cells'[graph] = d /\ OfAll(d.devs) = OfAll(cells[graph].devs)
        /\ \A h \in 1..2 : h # graph => cells'[h] = cells[h]
    BY <2>1 DEF CellsStep, IsPass
  <2> QED BY <2>2, DrawnOf
<1>4. ASSUME EndMatch PROVE \A g \in 1..2 : Drawn(g)' = Drawn(g)
  <2>1. \A g \in 1..2 : IsRecorded(cells[g], cells'[g])
    BY <1>4, EndStep
  <2> QED BY <2>1, DrawnOf DEF IsRecorded
<1>5. UNCHANGED cells => \A g \in 1..2 : Drawn(g)' = Drawn(g)
  BY DrawnOf
<1>6. ParallelPass \/ SeriesPass => OnePass
  BY ParallelStep, SeriesPassStep
<1>7. ParallelPass \/ SeriesPass \/ EndMatch \/ UNCHANGED cells
  <2>1. ASSUME NEW k1, NEW k2, StartMatch(k1, k2) PROVE UNCHANGED cells
    BY <2>1 DEF StartMatch
  <2>2. Combine \/ Crash \/ ComparePair \/ CompareRest => UNCHANGED cells
    BY DEF Combine, Crash, ComparePair, CompareRest
  <2> QED BY <2>1, <2>2 DEF Next, MergeStep, MatchStep, vars
<1>8. \A g \in 1..2 : Drawn(g)' = Drawn(g)
  BY <1>3, <1>4, <1>5, <1>6, <1>7
<1> QED BY <1>2, <1>8

\* CombineSeries, CombineParallel: no pass over a cell, and no comparison of its
\* properties, loses a device or joins two that are not in one network.
THEOREM MergingKeepsNetwork == Spec => NetworkKept
<1>1. MergeState /\ [Next]_vars => (PartsKept' /\ \A g \in 1..2 : Drawn(g)' = Drawn(g))
  BY StepKeeps
<1> QED BY <1>1, MergeInvariant, PTL DEF Spec, NetworkKept

LEMMA DoneMerged ==
  ASSUME MergeState PROVE FullyMerged
<1> SUFFICES ASSUME NEW g \in 1..2, g < graph, cells[g].top
             PROVE  /\ Len(CombineParallel(cells[g]).devs) = Len(cells[g].devs)
                    /\ CombineSeries(cells[g], MaxNode).devs = cells[g].devs
  BY DEF FullyMerged, Merged
<1> DEFINE c == cells[g]
<1>1. IsSound(c) /\ c.top /\ Distinct({}, c.devs) /\ NoSeries(c)
  BY DEF MergeState, Passed
<1> HIDE DEF c
<1>2. OpenNodes(c) = {}
  BY <1>1, TopOpen
<1>3. CombineParallel(c).devs = c.devs
  BY <1>1, <1>2, ParallelResult
<1>4. CombineSeries(c, MaxNode).devs = c.devs
  BY <1>1, SeriesResult, NetlistsRead
<1> QED BY <1>3, <1>4 DEF c

\* CreateTwoLists: whatever the devices of a top cell and their order, the passes stop
\* only when neither kind would merge anything more.
THEOREM PassesSuffice == Spec => []FullyMerged
<1>1. MergeState => FullyMerged
  BY DoneMerged
<1> QED BY <1>1, MergeInvariant, PTL
===============================================================================
