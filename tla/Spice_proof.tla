------------------------------ MODULE Spice_proof ------------------------------
(***************************************************************************)
(* Proofs about reading SPICE files of any number of lines: the cells are   *)
(* well formed at every line, whatever is defined, used, defined again and  *)
(* included in whatever order.                                              *)
(*                                                                          *)
(* The functions of the builder are loops over ports, nets and objects.     *)
(* For each the cells it may produce are a set that no round leaves.        *)
(***************************************************************************)
EXTENDS MCSpice, WellFoundedInduction, SequenceTheorems, TLAPS

-----------------------------------------------------------------------------
(* Loops.                                                                    *)

LEMMA Induction ==
  ASSUME NEW P, 0 \in P, \A n \in Nat : n \in P => n + 1 \in P
  PROVE  Nat \subseteq P
<1> DEFINE T == Nat \ P
<1>1. SUFFICES ASSUME T # {} PROVE FALSE
  OBVIOUS
<1>2. PICK x \in T : \A y \in T : ~(<<y, x>> \in OpToRel(<, Nat))
  <2> HIDE DEF T
  <2>1. T \subseteq Nat
    BY DEF T
  <2> QED BY <1>1, <2>1, NatLessThanWellFounded, WFMin
<1>3. x \in Nat /\ x \notin P
  OBVIOUS
<1>4. x # 0 /\ x - 1 \in Nat /\ x - 1 < x /\ x - 1 + 1 = x
  BY <1>3
<1>5. x - 1 \notin T
  <2>1. SUFFICES ASSUME x - 1 \in T PROVE FALSE
    OBVIOUS
  <2>2. <<x - 1, x>> \in OpToRel(<, Nat)
    BY <1>3, <1>4 DEF OpToRel
  <2> QED BY <1>2, <2>1, <2>2
<1>6. x - 1 \in P
  BY <1>4, <1>5
<1> QED BY <1>3, <1>4, <1>6

LEMMA GreatestOf ==
  ASSUME NEW N \in Nat, NEW s \in SUBSET (1..N), s # {}
  PROVE  Max(s) \in s /\ \A m \in s : m <= Max(s)
<1> DEFINE V == {N - m : m \in s}
<1>1. V \in SUBSET Nat /\ V # {}
  <2>1. \A m \in s : m \in 1..N /\ N - m \in Nat
    OBVIOUS
  <2> QED BY <2>1
<1>2. PICK d \in V : \A y \in V : ~(<<y, d>> \in OpToRel(<, Nat))
  BY <1>1, NatLessThanWellFounded, WFMin
<1>3. PICK x \in s : d = N - x
  OBVIOUS
<1>4. ASSUME NEW m \in s PROVE m <= x
  <2>1. N - m \in V /\ N - m \in Nat /\ d \in Nat
    BY <1>1
  <2>2. ~(N - m < d)
    BY <1>2, <2>1 DEF OpToRel
  <2> QED BY <1>3, <2>1, <2>2
<1>5. \E n \in s : \A m \in s : n >= m
  BY <1>4
<1>6. Max(s) \in s /\ \A m \in s : Max(s) >= m
  BY <1>5 DEF Max
<1> QED BY <1>6

LEMMA LastOf ==
  ASSUME NEW i \in Nat, i # 0
  PROVE  Max(1..i) = i /\ (1..i) \ {i} = 1..(i - 1) /\ 1..i # {}
<1>1. i \in 1..i
  OBVIOUS
<1>2. Max(1..i) \in 1..i /\ i <= Max(1..i)
  BY <1>1, GreatestOf
<1> QED BY <1>1, <1>2

LEMMA GreatestIn ==
  ASSUME NEW m \in Nat, NEW s \in SUBSET (1..(m + 1)), s # {}
  PROVE  /\ m + 1 \in s => Max(s) = m + 1
         /\ m + 1 \notin s => /\ s \in SUBSET (1..m) /\ s \ {Max(s)} \in SUBSET (1..(m + 1))
                             /\ m + 1 \notin s \ {Max(s)}
<1>1. m + 1 \in Nat
  OBVIOUS
<1>2. Max(s) \in s /\ \A x \in s : x <= Max(s)
  BY <1>1, GreatestOf
<1>3. Max(s) \in 1..(m + 1)
  BY <1>2
<1>4. CASE m + 1 \in s
  <2>1. m + 1 <= Max(s)
    BY <1>2, <1>4
  <2> QED BY <1>3, <1>4, <2>1
<1>5. CASE m + 1 \notin s
  <2>1. \A x \in s : x \in 1..m
    BY <1>5
  <2> QED BY <1>5, <2>1
<1> QED BY <1>4, <1>5

\* A loop whose rounds do not leave U has a result at each of its rounds.
IsLoop(U, N, base, T) == N \in Nat /\ base \in U /\ T \in [U \X (1..N) -> U]
Runs(U, N, base, T) ==
  \E h \in [SUBSET (1..N) -> U] : \A s \in SUBSET (1..N) :
    h[s] = IF s = {} THEN base ELSE T[<<h[s \ {Max(s)}], Max(s)>>]

LEMMA LoopRuns ==
  ASSUME NEW U, NEW N, NEW base, NEW T, IsLoop(U, N, base, T)
  PROVE  Runs(U, N, base, T)
<1> N \in Nat /\ base \in U /\ T \in [U \X (1..N) -> U]
  BY DEF IsLoop
<1> DEFINE Loop(h, m) == \A s \in SUBSET (1..m) :
                         h[s] = IF s = {} THEN base ELSE T[<<h[s \ {Max(s)}], Max(s)>>]
           Loops == [m \in Nat |-> {h \in [SUBSET (1..m) -> U] : Loop(h, m)}]
           P == {m \in Nat : m <= N => Loops[m] # {}}
<1>1. 0 \in P
  <2> DEFINE h == [s \in SUBSET (1..0) |-> base]
  <2>1. \A s \in SUBSET (1..0) : s = {}
    OBVIOUS
  <2>2. h \in [SUBSET (1..0) -> U] /\ Loop(h, 0)
    BY <2>1
  <2>3. 0 \in Nat
    OBVIOUS
  <2> HIDE DEF h, Loop
  <2> QED BY <2>2, <2>3
<1>2. ASSUME NEW m \in Nat, m \in P PROVE m + 1 \in P
  <2>1. SUFFICES ASSUME m + 1 <= N PROVE Loops[m + 1] # {}
    <3> HIDE DEF Loops
    <3> QED OBVIOUS
  <2>2. m + 1 \in 1..N /\ m <= N
    BY <2>1
  <2>3. PICK h \in [SUBSET (1..m) -> U] : Loop(h, m)
    <3>1. Loops[m] # {}
      <4> HIDE DEF Loops
      <4> QED BY <1>2, <2>2
    <3> HIDE DEF Loop
    <3> QED BY <3>1
  <2> DEFINE g == [s \in SUBSET (1..(m + 1)) |->
                     IF m + 1 \in s THEN T[<<h[s \ {m + 1}], m + 1>>] ELSE h[s]]
  <2>4. \A s \in SUBSET (1..(m + 1)) : /\ m + 1 \in s => s \ {m + 1} \in SUBSET (1..m)
                                       /\ m + 1 \notin s => s \in SUBSET (1..m)
    <3>1. \A x \in 1..(m + 1) : x # m + 1 => x \in 1..m
      OBVIOUS
    <3> QED BY <3>1
  <2>5. g \in [SUBSET (1..(m + 1)) -> U]
    <3>1. ASSUME NEW s \in SUBSET (1..(m + 1)) PROVE g[s] \in U
      <4>1. CASE m + 1 \in s
        <5>1. h[s \ {m + 1}] \in U
          BY <2>4, <4>1
        <5>2. <<h[s \ {m + 1}], m + 1>> \in U \X (1..N)
          BY <2>2, <5>1
        <5> QED BY <4>1, <5>2
      <4>2. CASE m + 1 \notin s
        BY <2>4, <4>2
      <4> QED BY <4>1, <4>2
    <3> QED BY <3>1
  <2>6. ASSUME NEW s \in SUBSET (1..(m + 1)), s # {}
        PROVE  g[s] = T[<<g[s \ {Max(s)}], Max(s)>>]
    <3>1. /\ m + 1 \in s => Max(s) = m + 1
          /\ m + 1 \notin s => /\ s \in SUBSET (1..m) /\ s \ {Max(s)} \in SUBSET (1..(m + 1))
                              /\ m + 1 \notin s \ {Max(s)}
      <4> HIDE DEF g, P, Loop, Loops
      <4> QED BY <2>6, GreatestIn
    <3>2. CASE m + 1 \in s
      <4>1. Max(s) = m + 1
        <5> HIDE DEF g, P, Loop, Loops
        <5> QED BY <3>1, <3>2
      <4>2. s \ {m + 1} \in SUBSET (1..(m + 1)) /\ m + 1 \notin s \ {m + 1}
        OBVIOUS
      <4>3. g[s \ {m + 1}] = h[s \ {m + 1}] /\ g[s] = T[<<h[s \ {m + 1}], m + 1>>]
        BY <3>2, <4>2
      <4> HIDE DEF g
      <4> QED BY <4>1, <4>3
    <3>3. CASE m + 1 \notin s
      <4>1. s \in SUBSET (1..m) /\ s \ {Max(s)} \in SUBSET (1..(m + 1)) /\ m + 1 \notin s \ {Max(s)}
        <5> HIDE DEF g, P, Loop, Loops
        <5> QED BY <3>1, <3>3
      <4>2. g[s] = h[s] /\ g[s \ {Max(s)}] = h[s \ {Max(s)}]
        BY <3>3, <4>1
      <4>3. h[s] = T[<<h[s \ {Max(s)}], Max(s)>>]
        BY <2>3, <2>6, <4>1
      <4> HIDE DEF g
      <4> QED BY <4>2, <4>3
    <3> QED BY <3>2, <3>3
  <2>7. g[{}] = base
    <3>1. g[{}] = h[{}] /\ {} \in SUBSET (1..m)
      OBVIOUS
    <3> HIDE DEF g
    <3> QED BY <2>3, <3>1
  <2>8. Loop(g, m + 1)
    <3> HIDE DEF g
    <3> QED BY <2>6, <2>7
  <2>9. m + 1 \in Nat
    OBVIOUS
  <2> HIDE DEF g, Loop
  <2> QED BY <2>5, <2>8, <2>9
<1>3. Loops[N] # {}
  <2> HIDE DEF Loops
  <2>1. Nat \subseteq P
    <3> HIDE DEF P
    <3> QED BY <1>1, <1>2, Induction
  <2> QED BY <2>1
<1>4. PICK h \in [SUBSET (1..N) -> U] : Loop(h, N)
  <2> HIDE DEF Loop
  <2> QED BY <1>3
<1> QED BY <1>4 DEF Runs

\* What the rounds keep is there at the end.
LEMMA FoldEnds ==
  ASSUME NEW N \in Nat, NEW c, NEW V, <<0, c[{}]>> \in V,
         \A i \in 1..N : <<i - 1, c[1..(i - 1)]>> \in V => <<i, c[1..i]>> \in V
  PROVE  <<N, c[1..N]>> \in V
<1> DEFINE P == {n \in Nat : n <= N => <<n, c[1..n]>> \in V}
<1>1. 0 \in P
  <2>1. 1..0 = {}
    OBVIOUS
  <2> QED BY <2>1
<1>2. ASSUME NEW n \in Nat, n \in P PROVE n + 1 \in P
  <2>1. SUFFICES ASSUME n + 1 <= N PROVE <<n + 1, c[1..(n + 1)]>> \in V
    OBVIOUS
  <2>2. n + 1 \in 1..N /\ (n + 1) - 1 = n /\ n <= N
    BY <2>1
  <2>3. <<n, c[1..n]>> \in V
    BY <1>2, <2>2
  <2>4. <<n + 1 - 1, c[1..(n + 1 - 1)]>> \in V => <<n + 1, c[1..(n + 1)]>> \in V
    BY <2>2
  <2> QED BY <2>2, <2>3, <2>4
<1>3. N \in P
  <2> HIDE DEF P
  <2> QED BY <1>1, <1>2, Induction
<1> QED BY <1>3

LEMMA FoldStays ==
  ASSUME NEW N \in Nat, NEW c, NEW U, c[{}] \in U,
         \A i \in 1..N : c[1..(i - 1)] \in U => c[1..i] \in U
  PROVE  c[1..N] \in U
<1> DEFINE V == Nat \X U
<1>1. <<0, c[{}]>> \in V
  OBVIOUS
<1>2. \A i \in 1..N : <<i - 1, c[1..(i - 1)]>> \in V => <<i, c[1..i]>> \in V
  OBVIOUS
<1>3. <<N, c[1..N]>> \in V
  <2> HIDE DEF V
  <2> QED BY <1>1, <1>2, FoldEnds
<1> QED BY <1>3

\* The greatest and the least of some numbers.
LEMMA MaxIn ==
  ASSUME NEW N \in Nat, NEW s \in SUBSET (0..N), s # {}
  PROVE  Max(s) \in s /\ \A x \in s : x <= Max(s)
<1> DEFINE K == {N - x : x \in s}
<1>1. K \in SUBSET Nat /\ K # {}
  <2>1. \A x \in s : N - x \in Nat
    OBVIOUS
  <2> QED BY <2>1
<1>2. PICK d \in K : \A y \in K : ~(<<y, d>> \in OpToRel(<, Nat))
  BY <1>1, NatLessThanWellFounded, WFMin
<1>3. PICK m \in s : d = N - m
  OBVIOUS
<1>4. ASSUME NEW x \in s PROVE x <= m
  <2>1. N - x \in K /\ N - x \in Nat /\ d \in Nat
    BY <1>1
  <2>2. ~(N - x < d)
    BY <1>2, <2>1 DEF OpToRel
  <2>3. x \in Int /\ m \in Int
    OBVIOUS
  <2> HIDE DEF K
  <2> QED BY <1>3, <2>1, <2>2, <2>3
<1>5. \E m2 \in s : \A x \in s : m2 >= x
  BY <1>4
<1> QED BY <1>5 DEF Max

LEMMA MinIn ==
  ASSUME NEW s \in SUBSET Nat, s # {}
  PROVE  Min(s) \in s /\ \A x \in s : Min(s) <= x
<1>1. PICK m \in s : \A y \in s : ~(<<y, m>> \in OpToRel(<, Nat))
  BY NatLessThanWellFounded, WFMin
<1>2. ASSUME NEW x \in s PROVE m <= x
  <2>1. ~(x < m)
    BY <1>1 DEF OpToRel
  <2>2. x \in Int /\ m \in Int
    OBVIOUS
  <2> QED BY <2>1, <2>2
<1> QED BY <1>2 DEF Min

LEMMA OfTwo ==
  ASSUME NEW m \in Int, NEW n \in Int
  PROVE  Max({m, n}) \in {m, n} /\ Min({m, n}) \in {m, n} /\ Min({m, n}) <= Max({m, n})
<1>1. \E x \in {m, n} : \A y \in {m, n} : x >= y
  OBVIOUS
<1>2. Max({m, n}) \in {m, n} /\ \A y \in {m, n} : Max({m, n}) >= y
  BY <1>1 DEF Max
<1>3. \E x \in {m, n} : \A y \in {m, n} : x <= y
  OBVIOUS
<1>4. Min({m, n}) \in {m, n} /\ \A y \in {m, n} : Min({m, n}) <= y
  BY <1>3 DEF Min
<1> QED BY <1>2, <1>4

-----------------------------------------------------------------------------
(* Cells that are well formed.                                               *)

\* The provers do not know that these are strings.
Words == STRING \cup {"", "?", "properties", "(no pins)", "subckt", "device", "module"}
Names == Words \X Words
CellNames == Words \X Int
Objects == [type : Int, name : Names, model : CellNames, node : Int, props : Seq(Words)]
CellRecords == [objs : Seq(Objects), class : Words]
Builds == [cells : UNION {[K -> CellRecords] : K \in SUBSET CellNames}, cur : CellNames, next : Nat]

\* The pins of an instance stand together.
InRows(objs) ==
  \A k \in DOMAIN objs : objs[k].type > FIRSTPIN =>
    /\ k > 1
    /\ objs[k - 1].type = objs[k].type - 1
    /\ objs[k - 1].name[1] = objs[k].name[1]

\* Instances are of known cells.
KnownModels(objs, K) ==
  \A k \in DOMAIN objs : objs[k].type >= FIRSTPIN => objs[k].model \in K

Below(objs, n) == \A k \in DOMAIN objs : objs[k].node < n

CellsFine(cells, K) ==
  \A c \in DOMAIN cells : InRows(cells[c].objs) /\ KnownModels(cells[c].objs, K)

\* Builds with cells K that work on cell c, whatever is in that cell.
Typed(K, c) == {r \in Builds : DOMAIN r.cells = K /\ r.cur = c}

\* The same where the cells are well formed.
Sound(K, c) ==
  {r \in Typed(K, c) : CellsFine(r.cells, K) /\ r.next # 0 /\ Below(Objs(r), r.next)}

LEMMA BuildFields ==
  ASSUME NEW r \in Builds
  PROVE  /\ r = [cells |-> r.cells, cur |-> r.cur, next |-> r.next]
         /\ r.cells = [x \in DOMAIN r.cells |-> r.cells[x]]
         /\ DOMAIN r.cells \subseteq CellNames /\ r.cur \in CellNames /\ r.next \in Nat
         /\ \A x \in DOMAIN r.cells : r.cells[x] \in CellRecords
<1>1. PICK K \in SUBSET CellNames : r.cells \in [K -> CellRecords]
  BY DEF Builds
<1> QED BY <1>1 DEF Builds

LEMMA BuildOf ==
  ASSUME NEW K \in SUBSET CellNames, NEW cells \in [K -> CellRecords], NEW c \in CellNames,
         NEW n \in Nat
  PROVE  [cells |-> cells, cur |-> c, next |-> n] \in Builds
BY DEF Builds

LEMMA RecordFields ==
  ASSUME NEW x \in CellRecords
  PROVE  /\ x = [objs |-> x.objs, class |-> x.class]
         /\ x.objs \in Seq(Objects) /\ x.class \in Words
BY DEF CellRecords

LEMMA ObjectFields ==
  ASSUME NEW o \in Objects
  PROVE  /\ o = [type |-> o.type, name |-> o.name, model |-> o.model, node |-> o.node,
                 props |-> o.props]
         /\ o.type \in Int /\ o.node \in Int /\ o.model \in CellNames /\ o.props \in Seq(Words)
         /\ o.name \in Names /\ o.name = <<o.name[1], o.name[2]>>
         /\ o.name[1] \in Words /\ o.name[2] \in Words
BY DEF Objects, Names

\* The build with another list of the current cell.
WithList(r, objs, n) ==
  [cells |-> [x \in DOMAIN r.cells |->
                IF x = r.cur THEN [objs |-> objs, class |-> r.cells[x].class] ELSE r.cells[x]],
   cur |-> r.cur, next |-> n]

LEMMA Excepted ==
  ASSUME NEW K, NEW c \in K, NEW r \in Typed(K, c), NEW objs
  PROVE  [r EXCEPT !.cells[r.cur].objs = objs] = WithList(r, objs, r.next)
<1>1. r \in Builds /\ DOMAIN r.cells = K /\ r.cur = c
  BY DEF Typed
<1> DEFINE old == r.cells
           new == [x \in K |-> IF x = c THEN [objs |-> objs, class |-> old[x].class] ELSE old[x]]
<1>2. old = [x \in K |-> old[x]] /\ r = [cells |-> old, cur |-> c, next |-> r.next]
  BY <1>1, BuildFields
<1>3. old[c] = [objs |-> old[c].objs, class |-> old[c].class]
  BY <1>1, BuildFields, RecordFields
<1>4. [r EXCEPT !.cells[r.cur].objs = objs] = [r EXCEPT !.cells[c].objs = objs]
  BY <1>1
<1>5. WithList(r, objs, r.next) = [cells |-> new, cur |-> c, next |-> r.next]
  BY <1>1 DEF WithList
<1> HIDE DEF old
<1>6. [old EXCEPT ![c].objs = objs] = new
  <2>1. [old[c] EXCEPT !.objs = objs] = [objs |-> objs, class |-> old[c].class]
    BY <1>3
  <2>2. [old EXCEPT ![c] = [old[c] EXCEPT !.objs = objs]] = new
    BY <1>2, <2>1
  <2> HIDE DEF new
  <2> QED BY <2>2
<1>7. [r EXCEPT !.cells = [old EXCEPT ![c].objs = objs]] = [cells |-> new, cur |-> c, next |-> r.next]
  <2> HIDE DEF new
  <2> QED BY <1>2, <1>6
<1>8. [r EXCEPT !.cells[c].objs = objs] = [r EXCEPT !.cells = [old EXCEPT ![c].objs = objs]]
  BY DEF old
<1> HIDE DEF new
<1> QED BY <1>4, <1>5, <1>7, <1>8

LEMMA ListOfNew ==
  ASSUME NEW K, NEW c \in K, NEW r \in Typed(K, c), NEW objs \in Seq(Objects), NEW n \in Nat
  PROVE  /\ WithList(r, objs, n) \in Typed(K, c) /\ Objs(WithList(r, objs, n)) = objs
         /\ WithList(r, objs, n).next = n
         /\ \A x \in K : x # c => WithList(r, objs, n).cells[x] = r.cells[x]
<1>1. r \in Builds /\ DOMAIN r.cells = K /\ r.cur = c
  BY DEF Typed
<1>2. K \in SUBSET CellNames /\ c \in CellNames /\ \A x \in K : r.cells[x] \in CellRecords
  BY <1>1, BuildFields
<1> DEFINE new == [x \in K |-> IF x = c THEN [objs |-> objs, class |-> r.cells[x].class] ELSE r.cells[x]]
           d == WithList(r, objs, n)
<1>3. d = [cells |-> new, cur |-> c, next |-> n]
  BY <1>1 DEF WithList
<1>4. new \in [K -> CellRecords] /\ new[c].objs = objs
  <2>1. \A x \in K : r.cells[x].class \in Words
    BY <1>2, RecordFields
  <2>2. \A x \in K : [objs |-> objs, class |-> r.cells[x].class] \in CellRecords
    BY <2>1 DEF CellRecords
  <2> QED BY <1>2, <2>2
<1>5. DOMAIN new = K /\ \A x \in K : x # c => new[x] = r.cells[x]
  OBVIOUS
<1> HIDE DEF new, d
<1>6. d \in Builds
  BY <1>2, <1>3, <1>4, BuildOf
<1>7. d.cells = new /\ d.cur = c /\ d.next = n
  BY <1>3
<1>8. d \in Typed(K, c) /\ Objs(d) = objs /\ d.next = n /\ \A x \in K : x # c => d.cells[x] = r.cells[x]
  BY <1>4, <1>5, <1>6, <1>7 DEF Typed, Objs
<1> QED BY <1>8 DEF d

LEMMA SoundNew ==
  ASSUME NEW K, NEW c \in K, NEW r \in Typed(K, c), CellsFine(r.cells, K) \/ r \in Sound(K, c),
         NEW objs \in Seq(Objects), NEW n \in Nat,
         InRows(objs), KnownModels(objs, K), n # 0, Below(objs, n)
  PROVE  WithList(r, objs, n) \in Sound(K, c)
<1> DEFINE d == WithList(r, objs, n)
<1>1. CellsFine(r.cells, K) /\ DOMAIN r.cells = K
  BY DEF Sound, Typed
<1>2. /\ d \in Typed(K, c) /\ Objs(d) = objs /\ d.next = n
      /\ \A x \in K : x # c => d.cells[x] = r.cells[x]
  BY ListOfNew
<1> HIDE DEF d
<1>3. DOMAIN d.cells = K /\ d.cells[c].objs = objs
  BY <1>2 DEF Typed, Objs
<1>4. CellsFine(d.cells, K)
  BY <1>1, <1>2, <1>3 DEF CellsFine
<1>5. d \in Sound(K, c)
  BY <1>2, <1>4 DEF Sound
<1> QED BY <1>5 DEF d

LEMMA ListOf ==
  ASSUME NEW K, NEW c \in K, NEW r \in Typed(K, c)
  PROVE  /\ Objs(r) \in Seq(Objects) /\ Objs(r) = r.cells[c].objs
         /\ DOMAIN Objs(r) = 1..Len(Objs(r)) /\ Len(Objs(r)) \in Nat
         /\ r.next \in Nat /\ r.cur = c
<1>1. r \in Builds /\ DOMAIN r.cells = K /\ r.cur = c
  BY DEF Typed
<1>2. r.cells[c].objs \in Seq(Objects) /\ r.next \in Nat
  BY <1>1, BuildFields, RecordFields
<1> QED BY <1>1, <1>2 DEF Objs

-----------------------------------------------------------------------------
(* Objects and nets of the current cell.                                     *)

LEMMA ListExcepted ==
  ASSUME NEW K, NEW c \in K, NEW r \in Typed(K, c), NEW o
  PROVE  AddToCurrentCell(r, o) = WithList(r, Append(Objs(r), o), r.next)
<1>1. AddToCurrentCell(r, o) = [r EXCEPT !.cells[r.cur].objs = Append(Objs(r), o)]
  BY DEF AddToCurrentCell, Objs
<1>2. [r EXCEPT !.cells[r.cur].objs = Append(Objs(r), o)] = WithList(r, Append(Objs(r), o), r.next)
  BY ONLY c \in K, r \in Typed(K, c), Excepted
<1> QED BY <1>1, <1>2

LEMMA AddTyped ==
  ASSUME NEW K, NEW c \in K, NEW r \in Typed(K, c), NEW o \in Objects
  PROVE  /\ AddToCurrentCell(r, o) \in Typed(K, c)
         /\ Objs(AddToCurrentCell(r, o)) = Append(Objs(r), o)
         /\ AddToCurrentCell(r, o).next = r.next
         /\ \A x \in K : x # c => AddToCurrentCell(r, o).cells[x] = r.cells[x]
<1>1. Append(Objs(r), o) \in Seq(Objects) /\ r.next \in Nat
  BY ListOf, AppendProperties
<1>2. AddToCurrentCell(r, o) = WithList(r, Append(Objs(r), o), r.next)
  BY ListExcepted
<1> DEFINE new == Append(Objs(r), o)
<1>0. new \in Seq(Objects)
  BY <1>1
<1> HIDE DEF new
<1>3. /\ WithList(r, new, r.next) \in Typed(K, c) /\ Objs(WithList(r, new, r.next)) = new
      /\ WithList(r, new, r.next).next = r.next
      /\ \A x \in K : x # c => WithList(r, new, r.next).cells[x] = r.cells[x]
  <2> DEFINE n == r.next
  <2>1. n \in Nat
    BY <1>1
  <2> HIDE DEF n
  <2>2. /\ WithList(r, new, n) \in Typed(K, c) /\ Objs(WithList(r, new, n)) = new
        /\ WithList(r, new, n).next = n
        /\ \A x \in K : x # c => WithList(r, new, n).cells[x] = r.cells[x]
    BY <1>0, <2>1, ListOfNew
  <2> QED BY <2>2 DEF n
<1> QED BY <1>2, <1>3 DEF new

LEMMA AddSound ==
  ASSUME NEW K, NEW c \in K, NEW r \in Sound(K, c), NEW o \in Objects,
         o.type < FIRSTPIN, o.node = None
  PROVE  AddToCurrentCell(r, o) \in Sound(K, c)
<1> DEFINE old == Objs(r)
           new == Append(old, o)
<1>1. r \in Typed(K, c) /\ CellsFine(r.cells, K) /\ r.next # 0 /\ Below(old, r.next)
  BY DEF Sound
<1>2. /\ old \in Seq(Objects) /\ old = r.cells[c].objs /\ r.next \in Nat
      /\ DOMAIN old = 1..Len(old) /\ Len(old) \in Nat
  BY <1>1, ListOf
<1>3. InRows(old) /\ KnownModels(old, K)
  BY <1>1, <1>2 DEF CellsFine, Typed
<1> HIDE DEF old
<1>4. /\ new \in Seq(Objects) /\ DOMAIN new = 1..(Len(old) + 1)
      /\ \A k \in DOMAIN new : \/ (k \in DOMAIN old /\ new[k] = old[k])
                             \/ (k = Len(old) + 1 /\ new[k] = o)
      /\ \A k \in DOMAIN old : k \in DOMAIN new /\ new[k] = old[k]
  BY <1>2, AppendProperties
<1> HIDE DEF new
<1>5. o.type \in Int /\ o.node = -1
  BY ObjectFields DEF None
<1>6. InRows(new)
  <2>1. SUFFICES ASSUME NEW k \in DOMAIN new, new[k].type > FIRSTPIN
                 PROVE  /\ k > 1 /\ new[k - 1].type = new[k].type - 1
                        /\ new[k - 1].name[1] = new[k].name[1]
    BY DEF InRows
  <2>2. k \in DOMAIN old /\ new[k] = old[k]
    BY <1>4, <1>5, <2>1 DEF FIRSTPIN
  <2>3. k > 1 /\ old[k - 1].type = old[k].type - 1 /\ old[k - 1].name[1] = old[k].name[1]
    BY <1>3, <2>1, <2>2 DEF InRows
  <2>4. k - 1 \in DOMAIN old
    BY <1>2, <2>2, <2>3
  <2> QED BY <1>4, <2>2, <2>3, <2>4
<1>7. KnownModels(new, K)
  BY <1>3, <1>4, <1>5 DEF KnownModels, FIRSTPIN
<1>8. Below(new, r.next)
  BY <1>1, <1>2, <1>4, <1>5 DEF Below
<1>9. WithList(r, new, r.next) \in Sound(K, c)
  BY <1>1, <1>2, <1>4, <1>6, <1>7, <1>8, SoundNew
<1> QED BY <1>1, <1>9, ListExcepted DEF new, old

LEMMA ObjectIn ==
  ASSUME NEW type \in Int, NEW name \in Names, NEW m \in CellNames
  PROVE  /\ Object(type, name, m) \in Objects
         /\ Object(type, name, m).type = type /\ Object(type, name, m).node = None
         /\ Object(type, name, m).name = name /\ Object(type, name, m).model = m
         /\ Object(type, name, m).props = << >>
BY EmptySeq DEF Object, Objects, None

LEMMA NamesIn ==
  /\ NoCell \in CellNames /\ \A n \in Words : Named(n) \in CellNames /\ Net(n) \in Names
  /\ PORT \in Int /\ GLOBAL \in Int /\ PROPERTY \in Int /\ NODE \in Int
  /\ PORT < FIRSTPIN /\ GLOBAL < FIRSTPIN /\ PROPERTY < FIRSTPIN /\ NODE < FIRSTPIN
  /\ NoPins \in Words /\ FIRSTPIN = 1
<1>1. "" \in Words /\ -1 \in Int
  BY DEF Words
<1>2. NoCell \in CellNames
  BY <1>1 DEF NoCell, CellNames, Original
<1>3. ASSUME NEW n \in Words PROVE Named(n) \in CellNames /\ Net(n) \in Names
  BY <1>1 DEF Named, Net, CellNames, Names, Original
<1>4. NoPins \in Words
  BY DEF NoPins, Words
<1>5. /\ PORT \in Int /\ GLOBAL \in Int /\ PROPERTY \in Int /\ NODE \in Int
      /\ PORT < FIRSTPIN /\ GLOBAL < FIRSTPIN /\ PROPERTY < FIRSTPIN /\ NODE < FIRSTPIN
      /\ FIRSTPIN = 1
  BY DEF PORT, GLOBAL, PROPERTY, NODE, FIRSTPIN
<1> QED BY <1>2, <1>3, <1>4, <1>5

LEMMA AddsSound ==
  ASSUME NEW K, NEW c \in K, NEW r \in Sound(K, c), NEW n \in Words
  PROVE  /\ AddPort(r, n) \in Sound(K, c) /\ AddNode(r, n) \in Sound(K, c)
         /\ AddGlobal(r, n) \in Sound(K, c) /\ NodeFor(r, n) \in Sound(K, c)
<1>1. \A t \in {PORT, GLOBAL, NODE} :
        AddToCurrentCell(r, Object(t, Net(n), NoCell)) \in Sound(K, c)
  <2>1. SUFFICES ASSUME NEW t \in {PORT, GLOBAL, NODE}
                 PROVE  AddToCurrentCell(r, Object(t, Net(n), NoCell)) \in Sound(K, c)
    OBVIOUS
  <2>2. t \in Int /\ t < FIRSTPIN /\ Net(n) \in Names /\ NoCell \in CellNames
    BY NamesIn
  <2>3. /\ Object(t, Net(n), NoCell) \in Objects /\ Object(t, Net(n), NoCell).type = t
        /\ Object(t, Net(n), NoCell).node = None
    BY <2>2, ObjectIn
  <2> QED BY <2>2, <2>3, AddSound
<1> QED BY <1>1 DEF AddPort, AddNode, AddGlobal, NodeFor

LEMMA FoundIn ==
  ASSUME NEW K, NEW c \in K, NEW r \in Typed(K, c), NEW name
  PROVE  LookupObject(r, name) \in {0} \cup DOMAIN Objs(r)
<1> DEFINE s == {0} \cup {k \in DOMAIN Objs(r) : Objs(r)[k].type # PROPERTY /\ Objs(r)[k].name = name}
<1>1. DOMAIN Objs(r) = 1..Len(Objs(r)) /\ Len(Objs(r)) \in Nat
  BY ListOf
<1>2. s \in SUBSET (0..Len(Objs(r))) /\ s # {}
  BY <1>1
<1>3. Max(s) \in s
  <2> HIDE DEF s
  <2> QED BY <1>1, <1>2, MaxIn
<1> QED BY <1>3 DEF LookupObject

\* The objects but for their nodes.
SameObjects(old, new) ==
  /\ new \in Seq(Objects) /\ DOMAIN new = DOMAIN old
  /\ \A k \in DOMAIN old : /\ new[k].type = old[k].type /\ new[k].name = old[k].name
                           /\ new[k].model = old[k].model /\ new[k].props = old[k].props

LEMMA SameRows ==
  ASSUME NEW K, NEW old \in Seq(Objects), NEW new, SameObjects(old, new)
  PROVE  (InRows(old) => InRows(new)) /\ (KnownModels(old, K) => KnownModels(new, K))
<1>1. DOMAIN old = 1..Len(old) /\ Len(old) \in Nat
  BY LenProperties
<1>2. ASSUME InRows(old), NEW k \in DOMAIN new, new[k].type > FIRSTPIN
      PROVE  /\ k > 1 /\ new[k - 1].type = new[k].type - 1
             /\ new[k - 1].name[1] = new[k].name[1]
  <2>1. k \in DOMAIN old /\ new[k].type = old[k].type /\ new[k].name = old[k].name
    BY <1>2 DEF SameObjects
  <2>2. k > 1 /\ old[k - 1].type = old[k].type - 1 /\ old[k - 1].name[1] = old[k].name[1]
    BY <1>2, <2>1 DEF InRows
  <2>3. k - 1 \in DOMAIN old
    BY <1>1, <2>1, <2>2
  <2>4. new[k - 1].type = old[k - 1].type /\ new[k - 1].name = old[k - 1].name
    BY <2>3 DEF SameObjects
  <2> QED BY <2>1, <2>2, <2>4
<1>3. InRows(old) => InRows(new)
  BY <1>2 DEF InRows
<1>4. KnownModels(old, K) => KnownModels(new, K)
  BY DEF KnownModels, SameObjects
<1> QED BY <1>3, <1>4

LEMMA NodesOnly ==
  ASSUME NEW K, NEW c \in K, NEW r \in Sound(K, c), NEW new, SameObjects(Objs(r), new),
         NEW n \in Nat, n # 0, Below(new, n)
  PROVE  WithList(r, new, n) \in Sound(K, c)
<1>1. r \in Typed(K, c) /\ CellsFine(r.cells, K) /\ DOMAIN r.cells = K
  BY DEF Sound, Typed
<1>2. Objs(r) \in Seq(Objects) /\ InRows(Objs(r)) /\ KnownModels(Objs(r), K)
  BY <1>1, ListOf DEF CellsFine
<1>3. new \in Seq(Objects) /\ InRows(new) /\ KnownModels(new, K)
  BY <1>2, SameRows DEF SameObjects
<1> QED BY <1>1, <1>3, SoundNew

\* The build with other nodes in the current cell.
Renodes(K, c, r, d) ==
  /\ d \in Typed(K, c)
  /\ SameObjects(Objs(r), Objs(d))
  /\ \A x \in K : x # c => d.cells[x] = r.cells[x]

LEMMA RenodesSound ==
  ASSUME NEW K, NEW c \in K, NEW r \in Sound(K, c), NEW d, Renodes(K, c, r, d),
         d.next # 0, Below(Objs(d), d.next)
  PROVE  d \in Sound(K, c)
<1>1. r \in Typed(K, c) /\ CellsFine(r.cells, K) /\ DOMAIN r.cells = K
  BY DEF Sound, Typed
<1>2. d \in Typed(K, c) /\ DOMAIN d.cells = K /\ Objs(d) = d.cells[c].objs
  BY ListOf DEF Renodes, Typed
<1>3. Objs(r) \in Seq(Objects) /\ InRows(Objs(r)) /\ KnownModels(Objs(r), K)
  BY <1>1, ListOf DEF CellsFine
<1>4. InRows(Objs(d)) /\ KnownModels(Objs(d), K)
  BY <1>3, SameRows DEF Renodes
<1>5. CellsFine(d.cells, K)
  BY <1>1, <1>2, <1>4 DEF CellsFine, Renodes
<1> QED BY <1>2, <1>5 DEF Sound

LEMMA NextTyped ==
  ASSUME NEW K, NEW c \in K, NEW d \in Typed(K, c), NEW n \in Nat
  PROVE  /\ [d EXCEPT !.next = n] \in Typed(K, c) /\ [d EXCEPT !.next = n].next = n
         /\ [d EXCEPT !.next = n].cells = d.cells /\ Objs([d EXCEPT !.next = n]) = Objs(d)
<1>1. d \in Builds /\ DOMAIN d.cells = K /\ d.cur = c
  BY DEF Typed
<1>2. d = [cells |-> d.cells, cur |-> c, next |-> d.next]
  BY <1>1, BuildFields
<1> DEFINE e == [d EXCEPT !.next = n]
<1>3. e.cells = d.cells /\ e.cur = c /\ e.next = n /\ e = [cells |-> d.cells, cur |-> c, next |-> n]
  BY <1>2
<1>4. /\ d.cells = [x \in K |-> d.cells[x]] /\ K \in SUBSET CellNames /\ c \in CellNames
      /\ \A x \in K : d.cells[x] \in CellRecords
  BY <1>1, BuildFields
<1>5. d.cells \in [K -> CellRecords]
  BY <1>4
<1> HIDE DEF e
<1>6. e \in Builds
  BY <1>3, <1>4, <1>5, BuildOf
<1>7. e \in Typed(K, c) /\ Objs(e) = Objs(d)
  BY <1>1, <1>3, <1>6 DEF Typed, Objs
<1> QED BY <1>3, <1>7 DEF e

LEMMA SetTyped ==
  ASSUME NEW K, NEW c \in K, NEW r \in Typed(K, c), NEW k \in DOMAIN Objs(r), NEW n \in Int
  PROVE  /\ Renodes(K, c, r, SetNode(r, k, n)) /\ SetNode(r, k, n).next = r.next
         /\ \A j \in DOMAIN Objs(r) :
              Objs(SetNode(r, k, n))[j].node = IF j = k THEN n ELSE Objs(r)[j].node
<1> DEFINE old == Objs(r)
           m == r.next
           new == [old EXCEPT ![k].node = n]
<1>1. SetNode(r, k, n) = WithList(r, new, m)
  <2>1. SetNode(r, k, n) = [r EXCEPT !.cells[r.cur].objs = [old EXCEPT ![k].node = n]]
    BY DEF SetNode, Objs
  <2> HIDE DEF old
  <2>2. [r EXCEPT !.cells[r.cur].objs = new] = WithList(r, new, m)
    BY ONLY c \in K, r \in Typed(K, c), Excepted
  <2> QED BY <2>1, <2>2
<1>2. old \in Seq(Objects) /\ m \in Nat /\ DOMAIN old = 1..Len(old) /\ Len(old) \in Nat
  BY ListOf
<1> HIDE DEF old, m
<1>3. \A j \in DOMAIN old : old[j] \in Objects
  BY <1>2
<1>4. k \in DOMAIN old
  BY DEF old
<1>5. \A j \in DOMAIN old : new[j] = [type |-> old[j].type, name |-> old[j].name, model |-> old[j].model,
                                     node |-> IF j = k THEN n ELSE old[j].node, props |-> old[j].props]
  <2>1. \A j \in DOMAIN old : old[j] = [type |-> old[j].type, name |-> old[j].name,
           model |-> old[j].model, node |-> old[j].node, props |-> old[j].props]
    BY <1>3, ObjectFields
  <2> QED BY <1>2, <1>4, <2>1
<1>6. DOMAIN new = DOMAIN old /\ Len(new) = Len(old)
  BY <1>2
<1>7. \A j \in DOMAIN old : new[j] \in Objects
  BY <1>3, <1>5, ObjectFields DEF Objects
<1>8. new \in Seq(Objects)
  <2>1. new = [j \in 1..Len(old) |-> new[j]]
    BY <1>2
  <2> HIDE DEF new
  <2> QED BY <1>2, <1>7, <2>1
<1> HIDE DEF new
<1>9. SameObjects(old, new)
  BY <1>5, <1>6, <1>8 DEF SameObjects
<1> DEFINE d == WithList(r, new, m)
<1>10. d \in Typed(K, c) /\ Objs(d) = new /\ d.next = m /\ \A x \in K : x # c => d.cells[x] = r.cells[x]
  BY <1>2, <1>8, ListOfNew
<1>11. ASSUME NEW j \in DOMAIN old PROVE new[j].node = IF j = k THEN n ELSE old[j].node
  <2> DEFINE v == IF j = k THEN n ELSE old[j].node
  <2>1. new[j] = [type |-> old[j].type, name |-> old[j].name, model |-> old[j].model,
                  node |-> v, props |-> old[j].props]
    BY <1>5
  <2> HIDE DEF v
  <2>2. new[j].node = v
    BY <2>1
  <2> QED BY <2>2 DEF v
<1> HIDE DEF d
<1>12. Renodes(K, c, r, d)
  BY <1>9, <1>10 DEF Renodes, old
<1> QED BY <1>1, <1>10, <1>11, <1>12 DEF d, old, m

LEMMA SameTwice ==
  ASSUME NEW K, NEW c, NEW r, NEW d, NEW e, Renodes(K, c, r, d), Renodes(K, c, d, e)
  PROVE  Renodes(K, c, r, e)
BY DEF Renodes, SameObjects

\* join gives numbers below the next one and takes none back.
LEMMA JoinSound ==
  ASSUME NEW K, NEW c \in K, NEW r \in Sound(K, c), NEW name1, NEW name2
  PROVE  join(r, name1, name2) \in Sound(K, c)
<1> DEFINE i == LookupObject(r, name1)
           j == LookupObject(r, name2)
           m == Objs(r)[i].node
           n == Objs(r)[j].node
<1>1. r \in Typed(K, c) /\ r.next # 0 /\ Below(Objs(r), r.next)
  BY DEF Sound
<1>2. /\ Objs(r) \in Seq(Objects) /\ DOMAIN Objs(r) = 1..Len(Objs(r)) /\ Len(Objs(r)) \in Nat
      /\ r.next \in Nat
  BY <1>1, ListOf
<1>3. i \in {0} \cup DOMAIN Objs(r) /\ j \in {0} \cup DOMAIN Objs(r)
  BY <1>1, FoundIn
<1>4. \A k \in DOMAIN Objs(r) : Objs(r)[k].node \in Int /\ Objs(r)[k].node < r.next
  BY <1>1, <1>2, ObjectFields DEF Below
<1> SUFFICES ASSUME i # 0, j # 0 PROVE join(r, name1, name2) \in Sound(K, c)
  BY DEF join
<1> HIDE DEF i, j
<1>5. i \in DOMAIN Objs(r) /\ j \in DOMAIN Objs(r) /\ m \in Int /\ n \in Int /\ m < r.next /\ n < r.next
  BY <1>3, <1>4
<1> HIDE DEF m, n
<1>6. ASSUME NEW k \in DOMAIN Objs(r), NEW x \in Int, x < r.next
      PROVE  SetNode(r, k, x) \in Sound(K, c)
  <2>1. /\ Renodes(K, c, r, SetNode(r, k, x)) /\ SetNode(r, k, x).next = r.next
        /\ \A l \in DOMAIN Objs(r) :
             Objs(SetNode(r, k, x))[l].node = IF l = k THEN x ELSE Objs(r)[l].node
    BY <1>1, <1>6, SetTyped
  <2>2. DOMAIN Objs(SetNode(r, k, x)) = DOMAIN Objs(r)
    BY <2>1 DEF Renodes, SameObjects
  <2>3. Below(Objs(SetNode(r, k, x)), r.next)
    BY <1>4, <1>6, <2>1, <2>2 DEF Below
  <2> QED BY <1>1, <2>1, <2>3, RenodesSound
<1>7. CASE m = None /\ n = None
  <2> DEFINE p == r.next
             d == SetNode(r, i, p)
             e == SetNode(d, j, p)
             f == [e EXCEPT !.next = p + 1]
  <2>0. p \in Nat /\ p \in Int /\ p = r.next
    BY <1>2
  <2> HIDE DEF p
  <2>1. /\ Renodes(K, c, r, d) /\ d.next = p
        /\ \A l \in DOMAIN Objs(r) : Objs(d)[l].node = IF l = i THEN p ELSE Objs(r)[l].node
    BY <1>1, <2>0, <1>5, SetTyped
  <2>2. d \in Typed(K, c) /\ DOMAIN Objs(d) = DOMAIN Objs(r)
    BY <2>1 DEF Renodes, SameObjects
  <2> HIDE DEF d
  <2>3. /\ Renodes(K, c, d, e) /\ e.next = p
        /\ \A l \in DOMAIN Objs(r) : Objs(e)[l].node = IF l = j THEN p ELSE Objs(d)[l].node
    BY <2>0, <1>5, <2>1, <2>2, SetTyped
  <2>4. Renodes(K, c, r, e) /\ e \in Typed(K, c) /\ DOMAIN Objs(e) = DOMAIN Objs(r)
    BY <2>1, <2>2, <2>3, SameTwice DEF Renodes, SameObjects
  <2>5. join(r, name1, name2) = f
    <3>1. f = [e EXCEPT !.next = @ + 1]
      BY <2>3
    <3>2. join(r, name1, name2) = [e EXCEPT !.next = @ + 1]
      BY <1>7 DEF join, i, j, m, n, d, p
    <3> QED BY <3>1, <3>2
  <2> HIDE DEF e
  <2>6. p + 1 \in Nat /\ p + 1 # 0
    BY <2>0
  <2>7. f \in Typed(K, c) /\ f.next = p + 1 /\ f.cells = e.cells /\ Objs(f) = Objs(e)
    BY <2>4, <2>6, NextTyped
  <2> HIDE DEF f
  <2>8. Renodes(K, c, r, f)
    BY <2>4, <2>7 DEF Renodes
  <2>9. Below(Objs(f), f.next)
    BY <2>0, <1>4, <2>1, <2>3, <2>4, <2>7 DEF Below
  <2> QED BY <2>5, <2>6, <2>7, <2>8, <2>9, RenodesSound
<1>8. CASE m = None /\ n # None
  <2>1. join(r, name1, name2) = SetNode(r, i, n)
    BY <1>8 DEF join, i, j, m, n
  <2> QED BY <1>5, <1>6, <2>1
<1>9. CASE m # None /\ n = None
  <2>1. join(r, name1, name2) = SetNode(r, j, m)
    BY <1>9 DEF join, i, j, m, n
  <2> QED BY <1>5, <1>6, <2>1
<1>10. CASE m # None /\ n # None
  <2> DEFINE high == Max({m, n})
             low == Min({m, n})
             old == Objs(r)
             map == [k \in DOMAIN old |-> IF old[k].node = high THEN [old[k] EXCEPT !.node = low] ELSE old[k]]
             new == << >> \o map
             p == r.next
  <2>1. low \in Int /\ low < r.next
    BY <1>5, OfTwo
  <2>2. join(r, name1, name2) = [r EXCEPT !.cells[r.cur].objs = new]
    BY <1>10 DEF join, i, j, m, n, Objs
  <2> HIDE DEF high, low, old
  <2>3. \A k \in DOMAIN old : old[k] \in Objects
    BY <1>2 DEF old
  <2>4. \A k \in DOMAIN old : /\ map[k] \in Objects /\ map[k].type = old[k].type /\ map[k].name = old[k].name
                              /\ map[k].model = old[k].model /\ map[k].props = old[k].props
                              /\ map[k].node \in {low, old[k].node}
    <3>1. ASSUME NEW k \in DOMAIN old
          PROVE  [old[k] EXCEPT !.node = low] =
                   [type |-> old[k].type, name |-> old[k].name, model |-> old[k].model,
                    node |-> low, props |-> old[k].props]
      BY <2>3, ObjectFields
    <3>2. ASSUME NEW k \in DOMAIN old PROVE [old[k] EXCEPT !.node = low] \in Objects
      BY <2>1, <2>3, <3>1, ObjectFields DEF Objects
    <3> QED BY <2>3, <3>1, <3>2
  <2>5. map \in Seq(Objects)
    <3>1. DOMAIN old = 1..Len(old) /\ Len(old) \in Nat
      BY <1>2 DEF old
    <3> QED BY <2>4, <3>1
  <2>6. new = map
    <3> HIDE DEF map
    <3> QED BY <2>5, ConcatEmptySeq
  <2>7. DOMAIN map = DOMAIN old
    OBVIOUS
  <2> HIDE DEF map, new
  <2>8. SameObjects(old, new)
    BY <2>4, <2>5, <2>6, <2>7 DEF SameObjects
  <2>9. Below(new, p)
    BY <1>4, <2>1, <2>4, <2>6, <2>7 DEF Below, old
  <2>10. [r EXCEPT !.cells[r.cur].objs = new] = WithList(r, new, p)
    BY ONLY c \in K, <1>1, Excepted
  <2>11. p \in Nat /\ p # 0
    BY <1>1, <1>2
  <2> HIDE DEF p
  <2>12. WithList(r, new, p) \in Sound(K, c)
    BY <2>8, <2>9, <2>11, NodesOnly DEF old
  <2> QED BY <2>2, <2>10, <2>12
<1> QED BY <1>7, <1>8, <1>9, <1>10

-----------------------------------------------------------------------------
(* Choosing from a list.                                                     *)

\* c goes through the list s and takes what is in T.
Chooses(c, s, T) ==
  c = [k \in 0..Len(s) |->
         IF k = 0 THEN << >> ELSE IF s[k] \in T THEN Append(c[k - 1], s[k]) ELSE c[k - 1]]

LEMMA ChoosesSome ==
  ASSUME NEW S, NEW s \in Seq(S), NEW T
  PROVE  \E c : Chooses(c, s, T)
<1> DEFINE N == Len(s)
           Of(h, m) == [k \in 0..m |->
                         IF k = 0 THEN << >>
                         ELSE IF s[k] \in T THEN Append(h[k - 1], s[k]) ELSE h[k - 1]]
           P == {m \in Nat : \E h : h = Of(h, m)}
<1>1. 0 \in P
  <2> DEFINE h == [k \in 0..0 |-> << >>]
  <2>1. h = Of(h, 0)
    OBVIOUS
  <2> QED BY <2>1
<1>2. ASSUME NEW m \in Nat, m \in P PROVE m + 1 \in P
  <2>1. PICK h : h = Of(h, m)
    BY <1>2
  <2> DEFINE g == [k \in 0..(m + 1) |->
                     IF k = m + 1 THEN IF s[k] \in T THEN Append(h[k - 1], s[k]) ELSE h[k - 1]
                     ELSE h[k]]
  <2>2. \A k \in 0..(m + 1) : k # m + 1 => k \in 0..m
    OBVIOUS
  <2>3. \A k \in 0..m : g[k] = h[k]
    OBVIOUS
  <2>4. ASSUME NEW k \in 0..(m + 1), k # 0
        PROVE  g[k] = IF s[k] \in T THEN Append(g[k - 1], s[k]) ELSE g[k - 1]
    <3>1. k - 1 \in 0..m
      BY <2>4
    <3>2. g[k - 1] = h[k - 1]
      BY <2>3, <3>1
    <3>3. g[k] = IF s[k] \in T THEN Append(h[k - 1], s[k]) ELSE h[k - 1]
      <4>1. CASE k = m + 1
        BY <4>1
      <4>2. CASE k # m + 1
        <5>1. k \in 0..m
          BY <2>2, <4>2
        <5>2. h[k] = Of(h, m)[k]
          <6> HIDE DEF g, Of
          <6> QED BY <2>1
        <5>3. Of(h, m)[k] = IF s[k] \in T THEN Append(h[k - 1], s[k]) ELSE h[k - 1]
          <6> HIDE DEF g
          <6> QED BY <2>4, <5>1
        <5> HIDE DEF g, Of
        <5> QED BY <2>3, <5>1, <5>2, <5>3
      <4> QED BY <4>1, <4>2
    <3> HIDE DEF g
    <3> QED BY <3>2, <3>3
  <2>5. g[0] = << >>
    <3>1. g[0] = h[0] /\ 0 \in 0..m
      BY <2>3
    <3>2. Of(h, m)[0] = << >>
      BY <3>1
    <3> HIDE DEF g, Of
    <3> QED BY <2>1, <3>1, <3>2
  <2>6. g = Of(g, m + 1)
    <3>1. g = [k \in 0..(m + 1) |-> g[k]]
      OBVIOUS
    <3> HIDE DEF g
    <3> QED BY <2>4, <2>5, <3>1
  <2> HIDE DEF g, Of
  <2> QED BY <2>6
<1>3. \E h : h = Of(h, N)
  <2> HIDE DEF Of
  <2>1. Nat \subseteq P
    <3> HIDE DEF P
    <3> QED BY <1>1, <1>2, Induction
  <2>2. N \in Nat
    BY LenProperties
  <2> QED BY <2>1, <2>2
<1> QED BY <1>3 DEF Chooses

LEMMA ChoosesIn ==
  ASSUME NEW S, NEW s \in Seq(S), NEW T, NEW c, Chooses(c, s, T), NEW V, << >> \in V,
         \A k \in 1..Len(s) : c[k - 1] \in V =>
           (s[k] \in T => Append(c[k - 1], s[k]) \in V)
  PROVE  c[Len(s)] \in V
<1> DEFINE P == {n \in Nat : n <= Len(s) => c[n] \in V}
<1>1. Len(s) \in Nat
  BY LenProperties
<1>2. \A k \in 0..Len(s) :
        c[k] = IF k = 0 THEN << >> ELSE IF s[k] \in T THEN Append(c[k - 1], s[k]) ELSE c[k - 1]
  BY DEF Chooses
<1>3. 0 \in P
  <2>1. c[0] = << >>
    BY <1>1, <1>2
  <2> QED BY <2>1
<1>4. ASSUME NEW n \in Nat, n \in P PROVE n + 1 \in P
  <2>1. SUFFICES ASSUME n + 1 <= Len(s) PROVE c[n + 1] \in V
    OBVIOUS
  <2>2. n + 1 \in 1..Len(s) /\ n + 1 \in 0..Len(s) /\ n + 1 # 0 /\ (n + 1) - 1 = n /\ n <= Len(s)
    BY <1>1, <2>1
  <2>3. c[n] \in V
    BY <1>4, <2>2
  <2>4. c[n + 1] = IF s[n + 1] \in T THEN Append(c[n], s[n + 1]) ELSE c[n]
    BY <1>2, <2>2
  <2> QED BY <2>2, <2>3, <2>4
<1>5. Len(s) \in P
  <2> HIDE DEF P
  <2> QED BY <1>1, <1>3, <1>4, Induction
<1> QED BY <1>5

LEMMA ChoosesSeq ==
  ASSUME NEW S, NEW s \in Seq(S), NEW T, NEW c, Chooses(c, s, T)
  PROVE  c[Len(s)] \in Seq(S \cap T)
<1> DEFINE V == Seq(S \cap T)
<1>1. << >> \in V
  BY EmptySeq
<1>2. ASSUME NEW k \in 1..Len(s), c[k - 1] \in V, s[k] \in T PROVE Append(c[k - 1], s[k]) \in V
  <2>1. s[k] \in S
    BY ElementOfSeq
  <2> QED BY <1>2, <2>1, AppendProperties
<1> HIDE DEF V
<1>3. c[Len(s)] \in V
  BY <1>1, <1>2, ChoosesIn
<1> QED BY <1>3 DEF V

LEMMA PortsChosen ==
  ASSUME NEW objs \in Seq(Objects)
  PROVE  \E c : /\ Chooses(c, objs, {o \in Objects : o.type = PORT})
               /\ Chosen(objs, LAMBDA o : o.type = PORT) = c[Len(objs)]
<1> DEFINE T == {o \in Objects : o.type = PORT}
           Of(h) == [k \in 0..Len(objs) |->
                      IF k = 0 THEN << >>
                      ELSE IF objs[k].type = PORT THEN Append(h[k - 1], objs[k]) ELSE h[k - 1]]
           c == CHOOSE h : h = Of(h)
<1>1. Chosen(objs, LAMBDA o : o.type = PORT) = c[Len(objs)]
  BY DEF Chosen
<1>2. \A h : Chooses(h, objs, T) <=> h = Of(h)
  <2>1. \A k \in 0..Len(objs) : k # 0 => (objs[k] \in T <=> objs[k].type = PORT)
    BY ElementOfSeq, LenProperties
  <2>2. \A h : Of(h) = [k \in 0..Len(objs) |->
          IF k = 0 THEN << >> ELSE IF objs[k] \in T THEN Append(h[k - 1], objs[k]) ELSE h[k - 1]]
    <3> HIDE DEF T
    <3> QED BY <2>1
  <2> HIDE DEF Of, T
  <2> QED BY <2>2 DEF Chooses
<1>3. c = Of(c)
  <2> HIDE DEF Of, T
  <2> QED BY <1>2, ChoosesSome
<1> HIDE DEF c, Of
<1>4. Chooses(c, objs, T)
  <2> HIDE DEF T
  <2> QED BY <1>2, <1>3
<1> QED BY <1>1, <1>4

LEMMA GlobalsChosen ==
  ASSUME NEW objs \in Seq(Objects)
  PROVE  \E c : /\ Chooses(c, objs, {o \in Objects : o.type = GLOBAL})
               /\ Chosen(objs, LAMBDA o : o.type = GLOBAL) = c[Len(objs)]
<1> DEFINE T == {o \in Objects : o.type = GLOBAL}
           Of(h) == [k \in 0..Len(objs) |->
                      IF k = 0 THEN << >>
                      ELSE IF objs[k].type = GLOBAL THEN Append(h[k - 1], objs[k]) ELSE h[k - 1]]
           c == CHOOSE h : h = Of(h)
<1>1. Chosen(objs, LAMBDA o : o.type = GLOBAL) = c[Len(objs)]
  BY DEF Chosen
<1>2. \A h : Chooses(h, objs, T) <=> h = Of(h)
  <2>1. \A k \in 0..Len(objs) : k # 0 => (objs[k] \in T <=> objs[k].type = GLOBAL)
    BY ElementOfSeq, LenProperties
  <2>2. \A h : Of(h) = [k \in 0..Len(objs) |->
          IF k = 0 THEN << >> ELSE IF objs[k] \in T THEN Append(h[k - 1], objs[k]) ELSE h[k - 1]]
    <3> HIDE DEF T
    <3> QED BY <2>1
  <2> HIDE DEF Of, T
  <2> QED BY <2>2 DEF Chooses
<1>3. c = Of(c)
  <2> HIDE DEF Of, T
  <2> QED BY <1>2, ChoosesSome
<1> HIDE DEF c, Of
<1>4. Chooses(c, objs, T)
  <2> HIDE DEF T
  <2> QED BY <1>2, <1>3
<1> QED BY <1>1, <1>4

LEMMA KeptChosen ==
  ASSUME NEW objs \in Seq(Objects)
  PROVE  \E c : /\ Chooses(c, objs, {o \in Objects : ~(o.type = GLOBAL /\ o.node = None)})
               /\ Chosen(objs, LAMBDA o : ~(o.type = GLOBAL /\ o.node = None)) = c[Len(objs)]
<1> DEFINE T == {o \in Objects : ~(o.type = GLOBAL /\ o.node = None)}
           Of(h) == [k \in 0..Len(objs) |->
                      IF k = 0 THEN << >>
                      ELSE IF ~(objs[k].type = GLOBAL /\ objs[k].node = None) THEN Append(h[k - 1], objs[k]) ELSE h[k - 1]]
           c == CHOOSE h : h = Of(h)
<1>1. Chosen(objs, LAMBDA o : ~(o.type = GLOBAL /\ o.node = None)) = c[Len(objs)]
  BY DEF Chosen
<1>2. \A h : Chooses(h, objs, T) <=> h = Of(h)
  <2>1. \A k \in 0..Len(objs) : k # 0 => (objs[k] \in T <=> ~(objs[k].type = GLOBAL /\ objs[k].node = None))
    BY ElementOfSeq, LenProperties
  <2>2. \A h : Of(h) = [k \in 0..Len(objs) |->
          IF k = 0 THEN << >> ELSE IF objs[k] \in T THEN Append(h[k - 1], objs[k]) ELSE h[k - 1]]
    <3> HIDE DEF T
    <3> QED BY <2>1
  <2> HIDE DEF Of, T
  <2> QED BY <2>2 DEF Chooses
<1>3. c = Of(c)
  <2> HIDE DEF Of, T
  <2> QED BY <1>2, ChoosesSome
<1> HIDE DEF c, Of
<1>4. Chooses(c, objs, T)
  <2> HIDE DEF T
  <2> QED BY <1>2, <1>3
<1> QED BY <1>1, <1>4

\* What is chosen are objects.
LEMMA PortsOfList ==
  ASSUME NEW objs \in Seq(Objects)
  PROVE  /\ Chosen(objs, LAMBDA o : o.type = PORT) \in Seq(Objects)
         /\ Chosen(objs, LAMBDA o : o.type = GLOBAL) \in Seq(Objects)
<1>1. \A T : Objects \cap T \subseteq Objects
  OBVIOUS
<1> QED BY <1>1, PortsChosen, GlobalsChosen, ChoosesSeq, SeqMonotonic

\* Rows stay together where all pins are chosen.
LEMMA ChoosesRows ==
  ASSUME NEW K, NEW objs \in Seq(Objects), NEW T, NEW c, Chooses(c, objs, T),
         \A o \in Objects : o.type >= FIRSTPIN => o \in T,
         InRows(objs), KnownModels(objs, K)
  PROVE  c[Len(objs)] \in Seq(Objects) /\ InRows(c[Len(objs)]) /\ KnownModels(c[Len(objs)], K)
<1> DEFINE Good(n, x) == /\ x \in Seq(Objects) /\ InRows(x) /\ KnownModels(x, K)
                         /\ n # 0 /\ objs[n].type >= FIRSTPIN => Len(x) > 0 /\ x[Len(x)] = objs[n]
           P == {n \in Nat : n <= Len(objs) => Good(n, c[n])}
<1>1. Len(objs) \in Nat /\ DOMAIN objs = 1..Len(objs) /\ \A k \in 1..Len(objs) : objs[k] \in Objects
  BY LenProperties, ElementOfSeq
<1>2. \A k \in 0..Len(objs) :
        c[k] = IF k = 0 THEN << >> ELSE IF objs[k] \in T THEN Append(c[k - 1], objs[k]) ELSE c[k - 1]
  BY DEF Chooses
<1>3. 0 \in P
  <2>1. c[0] = << >>
    BY <1>1, <1>2
  <2>2. << >> \in Seq(Objects) /\ DOMAIN << >> = {}
    BY EmptySeq
  <2>3. Good(0, << >>)
    BY <2>2 DEF InRows, KnownModels
  <2> HIDE DEF Good
  <2> QED BY <2>1, <2>3
<1>4. ASSUME NEW n \in Nat, n \in P PROVE n + 1 \in P
  <2>1. SUFFICES ASSUME n + 1 <= Len(objs) PROVE Good(n + 1, c[n + 1])
    <3> HIDE DEF Good
    <3> QED OBVIOUS
  <2> DEFINE m == n + 1
             x == c[n]
             o == objs[m]
  <2>2. /\ m \in 1..Len(objs) /\ m \in 0..Len(objs) /\ m # 0 /\ m - 1 = n /\ n <= Len(objs)
        /\ o \in Objects /\ o.type \in Int
    <3>1. m \in 1..Len(objs) /\ m \in 0..Len(objs) /\ m # 0 /\ m - 1 = n /\ n <= Len(objs)
      BY <1>1, <2>1
    <3>2. o \in Objects
      BY <1>1, <3>1
    <3> HIDE DEF o
    <3>3. o.type \in Int
      BY <3>2, ObjectFields
    <3> QED BY <3>1, <3>2, <3>3
  <2>3. Good(n, x)
    <3> HIDE DEF Good
    <3> QED BY <1>4, <2>2
  <2>4. c[m] = IF o \in T THEN Append(x, o) ELSE x
    BY <1>2, <2>2
  <2>5. /\ x \in Seq(Objects) /\ InRows(x) /\ KnownModels(x, K)
        /\ n # 0 /\ objs[n].type >= FIRSTPIN => Len(x) > 0 /\ x[Len(x)] = objs[n]
    BY <2>3
  <2>6. o.type > FIRSTPIN => /\ n # 0 /\ objs[n].type = o.type - 1
                            /\ objs[n].name[1] = o.name[1]
    BY <1>1, <2>2 DEF InRows
  <2>7. o.type >= FIRSTPIN => o.model \in K /\ o \in T
    BY <1>1, <2>2 DEF KnownModels
  <2> HIDE DEF x, o, Good, m
  <2>8. CASE o \notin T
    <3>1. c[m] = x /\ ~(o.type >= FIRSTPIN)
      BY <2>4, <2>7, <2>8
    <3> QED BY <2>5, <3>1 DEF Good, m, o
  <2>9. CASE o \in T
    <3> DEFINE y == Append(x, o)
    <3>1. /\ y \in Seq(Objects) /\ DOMAIN y = 1..(Len(x) + 1) /\ Len(y) = Len(x) + 1
          /\ Len(x) \in Nat /\ DOMAIN x = 1..Len(x) /\ y[Len(x) + 1] = o
          /\ \A k \in 1..Len(x) : y[k] = x[k]
      BY <2>2, <2>5, AppendProperties, LenProperties
    <3> HIDE DEF y
    <3>2. InRows(y)
      <4>1. SUFFICES ASSUME NEW k \in DOMAIN y, y[k].type > FIRSTPIN
                     PROVE  /\ k > 1 /\ y[k - 1].type = y[k].type - 1
                            /\ y[k - 1].name[1] = y[k].name[1]
        BY DEF InRows
      <4>2. CASE k = Len(x) + 1
        <5>1. /\ n # 0 /\ objs[n].type = o.type - 1 /\ objs[n].name[1] = o.name[1] /\ o.type > 1
          BY <2>6, <3>1, <4>1, <4>2 DEF FIRSTPIN
        <5>2. Len(x) > 0 /\ x[Len(x)] = objs[n]
          BY <2>2, <2>5, <5>1 DEF FIRSTPIN
        <5>3. y[k - 1] = objs[n] /\ k > 1 /\ y[k] = o
          BY <3>1, <4>2, <5>2
        <5> QED BY <5>1, <5>3
      <4>3. CASE k # Len(x) + 1
        <5>1. k \in DOMAIN x /\ y[k] = x[k]
          BY <3>1, <4>3
        <5>2. k > 1 /\ x[k - 1].type = x[k].type - 1 /\ x[k - 1].name[1] = x[k].name[1]
          BY <2>5, <4>1, <5>1 DEF InRows
        <5>3. y[k - 1] = x[k - 1]
          BY <3>1, <5>1, <5>2
        <5> QED BY <5>1, <5>2, <5>3
      <4> QED BY <4>2, <4>3
    <3>3. KnownModels(y, K)
      <4>1. ASSUME NEW k \in DOMAIN y, y[k].type >= FIRSTPIN PROVE y[k].model \in K
        <5>1. CASE k = Len(x) + 1
          BY <2>7, <3>1, <4>1, <5>1
        <5>2. CASE k # Len(x) + 1
          <6>1. k \in DOMAIN x /\ y[k] = x[k]
            BY <3>1, <5>2
          <6> QED BY <2>5, <4>1, <6>1 DEF KnownModels
        <5> QED BY <5>1, <5>2
      <4> QED BY <4>1 DEF KnownModels
    <3>4. c[m] = y
      BY <2>4, <2>9 DEF y
    <3>5. Len(y) > 0 /\ y[Len(y)] = objs[m]
      BY <3>1 DEF o
    <3> QED BY <3>1, <3>2, <3>3, <3>4, <3>5 DEF Good, m
  <2> QED BY <2>8, <2>9 DEF m
<1>5. Len(objs) \in P
  <2> HIDE DEF P
  <2> QED BY <1>1, <1>3, <1>4, Induction
<1>6. Good(Len(objs), c[Len(objs)])
  <2> HIDE DEF Good
  <2> QED BY <1>5
<1> QED BY <1>6

-----------------------------------------------------------------------------
(* Cells that are opened, closed and left.                                   *)

\* Builds with well formed cells K, whichever is the current one.
Fine(K) == {r \in Builds : DOMAIN r.cells = K /\ CellsFine(r.cells, K)}

LEMMA SoundFine ==
  ASSUME NEW K, NEW c, NEW r \in Sound(K, c)
  PROVE  r \in Fine(K)
BY DEF Sound, Typed, Fine

LEMMA MoreKnown ==
  ASSUME NEW cells, NEW K, NEW L, K \subseteq L, CellsFine(cells, K)
  PROVE  CellsFine(cells, L)
BY DEF CellsFine, KnownModels

\* Above the numbers of some objects is the greatest of them, or there is none.
LEMMA HighestIs ==
  ASSUME NEW objs \in Seq(Objects)
  PROVE  /\ Highest(objs) \in {None} \cup {objs[k].node : k \in DOMAIN objs}
         /\ Highest(objs) \in Int /\ Highest(objs) >= -1
         /\ \A k \in DOMAIN objs : objs[k].node <= Highest(objs)
<1> DEFINE S(n) == {None} \cup {objs[k].node : k \in 1..n}
           P == {n \in Nat : n <= Len(objs) => \E x \in S(n) : \A y \in S(n) : x >= y}
<1>1. DOMAIN objs = 1..Len(objs) /\ Len(objs) \in Nat /\ None = -1
  BY LenProperties DEF None
<1>2. \A k \in 1..Len(objs) : objs[k].node \in Int
  BY <1>1, ElementOfSeq, ObjectFields
<1>3. 0 \in P
  <2>1. S(0) = {-1}
    BY <1>1
  <2> HIDE DEF S
  <2> QED BY <2>1
<1>4. ASSUME NEW n \in Nat, n \in P PROVE n + 1 \in P
  <2>1. SUFFICES ASSUME n + 1 <= Len(objs)
                 PROVE  \E x \in S(n + 1) : \A y \in S(n + 1) : x >= y
    OBVIOUS
  <2>2. n + 1 \in 1..Len(objs) /\ n <= Len(objs)
    BY <1>1, <2>1
  <2>3. PICK x \in S(n) : \A y \in S(n) : x >= y
    BY <1>4, <2>2
  <2> DEFINE z == objs[n + 1].node
  <2>4. S(n + 1) = S(n) \cup {z}
    <3>1. 1..(n + 1) = (1..n) \cup {n + 1}
      OBVIOUS
    <3> QED BY <3>1
  <2>5. z \in Int /\ S(n) \subseteq Int
    <3>1. 1..n \subseteq 1..Len(objs)
      BY <1>1, <2>2
    <3> QED BY <1>1, <1>2, <2>2, <3>1
  <2> HIDE DEF S, z
  <2>6. CASE x >= z
    BY <2>3, <2>4, <2>5, <2>6
  <2>7. CASE ~(x >= z)
    <3>1. \A y \in S(n) : z >= y
      BY <2>3, <2>5, <2>7
    <3>2. z \in S(n + 1) /\ z >= z
      BY <2>4, <2>5
    <3> QED BY <2>4, <3>1, <3>2
  <2> QED BY <2>6, <2>7
<1>5. Len(objs) \in P
  <2> HIDE DEF P
  <2> QED BY <1>1, <1>3, <1>4, Induction
<1>6. \E x \in S(Len(objs)) : \A y \in S(Len(objs)) : x >= y
  <2> HIDE DEF S
  <2> QED BY <1>5
<1>7. Highest(objs) = Max(S(Len(objs)))
  BY <1>1 DEF Highest
<1>8. Max(S(Len(objs))) \in S(Len(objs)) /\ \A y \in S(Len(objs)) : Max(S(Len(objs))) >= y
  <2> HIDE DEF S
  <2> QED BY <1>6 DEF Max
<1> DEFINE m == Highest(objs)
           T == S(Len(objs))
<1>9. m \in T /\ \A y \in T : m >= y
  BY <1>7, <1>8
<1>10. T = {-1} \cup {objs[k].node : k \in DOMAIN objs}
  BY <1>1
<1>11. T \subseteq Int /\ -1 \in T /\ \A k \in DOMAIN objs : objs[k].node \in T
  BY <1>1, <1>2, <1>10
<1> HIDE DEF T, m
<1>12. m \in Int /\ m >= -1 /\ \A k \in DOMAIN objs : objs[k].node <= m
  BY <1>9, <1>11
<1> QED BY <1>1, <1>9, <1>10, <1>12 DEF m

LEMMA CellDefSound ==
  ASSUME NEW r \in Builds, NEW n \in CellNames, NEW K, K = {n} \cup DOMAIN r.cells,
         CellsFine(r.cells, K)
  PROVE  CellDef(r, n) \in Sound(K, n)
<1> DEFINE new == [x \in K |-> IF x = n THEN [objs |-> << >>, class |-> "subckt"] ELSE r.cells[x]]
           d == CellDef(r, n)
<1>1. DOMAIN r.cells \subseteq CellNames /\ \A x \in DOMAIN r.cells : r.cells[x] \in CellRecords
  BY BuildFields
<1>2. d = [cells |-> new, cur |-> n, next |-> 1]
  BY DEF CellDef, WithCell
<1>3. [objs |-> << >>, class |-> "subckt"] \in CellRecords
  <2>1. << >> \in Seq(Objects)
    BY EmptySeq
  <2>2. "subckt" \in Words
    BY DEF Words
  <2> QED BY <2>1, <2>2 DEF CellRecords
<1>4. new \in [K -> CellRecords] /\ K \in SUBSET CellNames
  BY <1>1, <1>3
<1>5. /\ DOMAIN new = K /\ new[n].objs = << >>
      /\ \A x \in K : x = n \/ (x \in DOMAIN r.cells /\ new[x] = r.cells[x])
  OBVIOUS
<1> HIDE DEF new, d
<1>6. d \in Builds
  BY <1>2, <1>4, BuildOf
<1>7. d.cells = new /\ d.cur = n /\ d.next = 1 /\ n \in K
  BY <1>2
<1>8. CellsFine(d.cells, K)
  <2>1. ASSUME NEW x \in K PROVE InRows(new[x].objs) /\ KnownModels(new[x].objs, K)
    <3>1. CASE x = n
      <4>1. DOMAIN new[x].objs = {}
        BY <1>5, <3>1, EmptySeq
      <4> QED BY <4>1 DEF InRows, KnownModels
    <3>2. CASE x # n
      BY <1>5, <3>2 DEF CellsFine
    <3> QED BY <3>1, <3>2
  <2> QED BY <1>5, <1>7, <2>1 DEF CellsFine
<1>9. Objs(d) = << >>
  BY <1>5, <1>7 DEF Objs
<1>10. Below(Objs(d), d.next)
  BY <1>9 DEF Below
<1> QED BY <1>5, <1>6, <1>7, <1>8, <1>10 DEF Sound, Typed, d

LEMMA OpenSound ==
  ASSUME NEW K, NEW r \in Fine(K), NEW n \in CellNames
  PROVE  CellDef(r, n) \in Sound({n} \cup K, n)
<1>1. r \in Builds /\ DOMAIN r.cells = K /\ CellsFine(r.cells, K)
  BY DEF Fine
<1>2. CellsFine(r.cells, {n} \cup K)
  BY <1>1, MoreKnown
<1> QED BY <1>1, <1>2, CellDefSound

LEMMA SetClassFine ==
  ASSUME NEW K, NEW c \in K, NEW r \in Sound(K, c), NEW x \in Words
  PROVE  SetClass(r, x) \in Fine(K)
<1> DEFINE old == r.cells
           d == SetClass(r, x)
           new == [y \in K |-> IF y = c THEN [objs |-> old[c].objs, class |-> x] ELSE old[y]]
<1>1. r \in Builds /\ DOMAIN r.cells = K /\ r.cur = c /\ CellsFine(old, K)
  BY DEF Sound, Typed
<1>2. /\ r = [cells |-> old, cur |-> c, next |-> r.next] /\ old = [y \in K |-> old[y]]
      /\ K \in SUBSET CellNames /\ c \in CellNames /\ r.next \in Nat
      /\ \A y \in K : old[y] \in CellRecords
  BY <1>1, BuildFields
<1>3. old[c] = [objs |-> old[c].objs, class |-> old[c].class] /\ old[c].objs \in Seq(Objects)
  BY <1>2, RecordFields
<1>4. d = [r EXCEPT !.cells = [old EXCEPT ![c].class = x]]
  BY <1>1 DEF SetClass
<1> HIDE DEF old, d
<1>5. [old EXCEPT ![c].class = x] = new
  <2>1. [old[c] EXCEPT !.class = x] = [objs |-> old[c].objs, class |-> x]
    BY <1>3
  <2>2. [old EXCEPT ![c] = [old[c] EXCEPT !.class = x]] = new
    BY <1>2, <2>1
  <2> HIDE DEF new
  <2> QED BY <2>2
<1>6. new \in [K -> CellRecords]
  <2>1. [objs |-> old[c].objs, class |-> x] \in CellRecords
    BY <1>3 DEF CellRecords
  <2> QED BY <1>2, <2>1
<1>7. DOMAIN new = K /\ \A y \in K : new[y].objs = old[y].objs
  OBVIOUS
<1> HIDE DEF new
<1>8. d = [cells |-> new, cur |-> c, next |-> r.next]
  BY <1>2, <1>4, <1>5
<1>9. d \in Builds
  BY <1>2, <1>6, <1>8, BuildOf
<1>10. d.cells = new
  BY <1>8
<1>11. CellsFine(new, K)
  BY <1>1, <1>2, <1>7 DEF CellsFine
<1> QED BY <1>7, <1>9, <1>10, <1>11 DEF Fine, d

LEMMA EndCellFine ==
  ASSUME NEW K, NEW r \in Fine(K)
  PROVE  EndCell(r) \in Fine(K) /\ EndCell(r).cur = NoCell
<1> DEFINE d == EndCell(r)
<1>1. r \in Builds /\ DOMAIN r.cells = K /\ CellsFine(r.cells, K)
  BY DEF Fine
<1>2. /\ r = [cells |-> r.cells, cur |-> r.cur, next |-> r.next] /\ r.cells = [x \in K |-> r.cells[x]]
      /\ K \in SUBSET CellNames /\ r.next \in Nat /\ \A x \in K : r.cells[x] \in CellRecords
  BY <1>1, BuildFields
<1>3. d = [cells |-> r.cells, cur |-> NoCell, next |-> r.next]
  BY <1>2 DEF EndCell
<1>4. r.cells \in [K -> CellRecords]
  BY <1>2
<1> HIDE DEF d
<1>5. d \in Builds
  BY <1>2, <1>3, <1>4, NamesIn, BuildOf
<1>6. d.cells = r.cells /\ d.cur = NoCell
  BY <1>3
<1>7. d \in Fine(K)
  BY <1>1, <1>5, <1>6 DEF Fine
<1> QED BY <1>6, <1>7 DEF d

\* No number that the cell uses is given out again.
LEMMA ReopenSound ==
  ASSUME NEW K, NEW r \in Fine(K), NEW c \in K
  PROVE  ReopenCellDef(r, c) \in Sound(K, c)
<1> DEFINE d == ReopenCellDef(r, c)
           h == Highest(r.cells[c].objs)
           n == Max({1, h + 1})
<1>1. r \in Builds /\ DOMAIN r.cells = K /\ CellsFine(r.cells, K)
  BY DEF Fine
<1>2. /\ r = [cells |-> r.cells, cur |-> r.cur, next |-> r.next] /\ r.cells = [x \in K |-> r.cells[x]]
      /\ K \in SUBSET CellNames /\ \A x \in K : r.cells[x] \in CellRecords
  BY <1>1, BuildFields
<1>3. r.cells[c].objs \in Seq(Objects)
  BY <1>2, RecordFields
<1>4. h \in Int /\ h >= -1 /\ \A k \in DOMAIN r.cells[c].objs : r.cells[c].objs[k].node <= h
  BY <1>3, HighestIs
<1>5. d = [cells |-> r.cells, cur |-> c, next |-> n]
  <2> HIDE DEF h
  <2>1. ReopenCellDef(r, c) = [r EXCEPT !.cur = c, !.next = Max({1, h + 1})]
    BY DEF ReopenCellDef, h
  <2> HIDE DEF n
  <2> QED BY <1>2, <2>1 DEF n
<1>6. r.cells \in [K -> CellRecords] /\ c \in CellNames
  BY <1>2
<1> HIDE DEF d, h
<1>7. n \in Nat /\ n # 0 /\ h < n
  <2>1. \E x \in {1, h + 1} : \A y \in {1, h + 1} : x >= y
    BY <1>4
  <2>2. n \in {1, h + 1} /\ \A y \in {1, h + 1} : n >= y
    BY <2>1 DEF Max
  <2> HIDE DEF n
  <2> QED BY <1>4, <2>2
<1> HIDE DEF n
<1>8. d \in Builds
  BY <1>2, <1>5, <1>6, <1>7, BuildOf
<1>9. d.cells = r.cells /\ d.cur = c /\ d.next = n
  BY <1>5
<1>10. Below(Objs(d), d.next)
  <2>1. Objs(d) = r.cells[c].objs
    BY <1>9 DEF Objs
  <2>2. \A k \in DOMAIN r.cells[c].objs : r.cells[c].objs[k].node \in Int
    BY <1>3, ElementOfSeq, LenProperties, ObjectFields
  <2> QED BY <1>4, <1>7, <1>9, <2>1, <2>2 DEF Below
<1> QED BY <1>1, <1>7, <1>8, <1>9, <1>10 DEF Sound, Typed, d

-----------------------------------------------------------------------------
(* The loops that keep the cells well formed.                                *)

LEMMA PortsSound ==
  ASSUME NEW K, NEW c \in K, NEW r \in Sound(K, c), NEW names \in Seq(Words)
  PROVE  FoldLeft(AddPort, r, names) \in Sound(K, c)
<1> DEFINE U == Sound(K, c)
           N == Len(names)
           Of(h) == [s \in SUBSET (1..N) |->
                      IF s = {} THEN r ELSE AddPort(h[s \ {Max(s)}], names[Max(s)])]
           e == CHOOSE h : h = Of(h)
           T == [x \in U \X (1..N) |-> AddPort(x[1], names[x[2]])]
<1>1. N \in Nat /\ DOMAIN names = 1..N /\ \A i \in 1..N : names[i] \in Words
  BY LenProperties, ElementOfSeq
<1>2. FoldLeft(AddPort, r, names) = e[1..N]
  <2> HIDE DEF N
  <2> QED BY <1>1 DEF FoldLeft, MapThenFoldSet
<1>3. r \in U
  OBVIOUS
<1> HIDE DEF N, U, e
<1>4. \A x \in U : \A i \in 1..N : AddPort(x, names[i]) \in U
  BY <1>1, AddsSound DEF U
<1>5. T \in [U \X (1..N) -> U]
  BY <1>4
<1>6. PICK g \in [SUBSET (1..N) -> U] : \A s \in SUBSET (1..N) :
        g[s] = IF s = {} THEN r ELSE T[<<g[s \ {Max(s)}], Max(s)>>]
  <2> HIDE DEF T
  <2>1. IsLoop(U, N, r, T)
    BY <1>1, <1>3, <1>5 DEF IsLoop
  <2>2. Runs(U, N, r, T)
    BY <2>1, LoopRuns
  <2> QED BY <2>2 DEF Runs
<1>7. g = Of(g)
  <2>1. ASSUME NEW s \in SUBSET (1..N), s # {}
        PROVE  T[<<g[s \ {Max(s)}], Max(s)>>] = AddPort(g[s \ {Max(s)}], names[Max(s)])
    <3>1. Max(s) \in 1..N /\ s \ {Max(s)} \in SUBSET (1..N)
      BY <1>1, <2>1, GreatestOf
    <3>2. <<g[s \ {Max(s)}], Max(s)>> \in U \X (1..N)
      BY <3>1
    <3> QED BY <3>2
  <2>2. g = [s \in SUBSET (1..N) |-> g[s]]
    OBVIOUS
  <2> HIDE DEF T
  <2> QED BY <1>6, <2>1, <2>2
<1>8. e = Of(e)
  <2> HIDE DEF Of
  <2> QED BY <1>7 DEF e
<1>9. e[{}] = r /\ \A i \in 1..N : e[1..i] = AddPort(e[1..(i - 1)], names[i])
  <2>1. ASSUME NEW i \in 1..N PROVE e[1..i] = AddPort(e[1..(i - 1)], names[i])
    <3>1. 1..i \in SUBSET (1..N) /\ i \in Nat /\ i # 0
      BY <1>1
    <3>2. Max(1..i) = i /\ (1..i) \ {i} = 1..(i - 1) /\ 1..i # {}
      BY <3>1, LastOf
    <3>3. e[1..i] = Of(e)[1..i]
      <4> HIDE DEF Of
      <4> QED BY <1>8
    <3> QED BY <3>1, <3>2, <3>3
  <2>2. e[{}] = r
    BY <1>8
  <2> QED BY <2>1, <2>2
<1>10. e[1..N] \in U
  <2>1. e[{}] \in U
    BY <1>3, <1>9
  <2>2. \A i \in 1..N : e[1..(i - 1)] \in U => e[1..i] \in U
    BY <1>4, <1>9
  <2> QED BY <1>1, <2>1, <2>2, FoldStays
<1> QED BY <1>2, <1>10 DEF U

LEMMA GlobalsSound ==
  ASSUME NEW K, NEW c \in K, NEW r \in Sound(K, c), NEW objs \in Seq(Objects)
  PROVE  Globals(r, objs) \in Sound(K, c)
<1> DEFINE U == Sound(K, c)
           N == Len(objs)
           Of(h) == [s \in SUBSET (1..N) |->
                      IF s = {} THEN r ELSE (IF objs[Max(s)].type = GLOBAL THEN AddGlobal(h[s \ {Max(s)}], objs[Max(s)].name[2]) ELSE h[s \ {Max(s)}])]
           e == CHOOSE h : h = Of(h)
           T == [x \in U \X (1..N) |-> (IF objs[x[2]].type = GLOBAL THEN AddGlobal(x[1], objs[x[2]].name[2]) ELSE x[1])]
<1>1. N \in Nat /\ DOMAIN objs = 1..N /\ \A i \in 1..N : objs[i].name[2] \in Words
  BY LenProperties, ElementOfSeq, ObjectFields
<1>2. Globals(r, objs) = e[1..N]
  <2> HIDE DEF N
  <2> QED BY <1>1 DEF Globals, FoldLeft, MapThenFoldSet
<1>3. r \in U
  OBVIOUS
<1> HIDE DEF N, U, e
<1>4. \A x \in U : \A i \in 1..N : (IF objs[i].type = GLOBAL THEN AddGlobal(x, objs[i].name[2]) ELSE x) \in U
  BY <1>1, AddsSound DEF U
<1>5. T \in [U \X (1..N) -> U]
  BY <1>4
<1>6. PICK g \in [SUBSET (1..N) -> U] : \A s \in SUBSET (1..N) :
        g[s] = IF s = {} THEN r ELSE T[<<g[s \ {Max(s)}], Max(s)>>]
  <2> HIDE DEF T
  <2>1. IsLoop(U, N, r, T)
    BY <1>1, <1>3, <1>5 DEF IsLoop
  <2>2. Runs(U, N, r, T)
    BY <2>1, LoopRuns
  <2> QED BY <2>2 DEF Runs
<1>7. g = Of(g)
  <2>1. ASSUME NEW s \in SUBSET (1..N), s # {}
        PROVE  T[<<g[s \ {Max(s)}], Max(s)>>] = (IF objs[Max(s)].type = GLOBAL THEN AddGlobal(g[s \ {Max(s)}], objs[Max(s)].name[2]) ELSE g[s \ {Max(s)}])
    <3>1. Max(s) \in 1..N /\ s \ {Max(s)} \in SUBSET (1..N)
      BY <1>1, <2>1, GreatestOf
    <3>2. <<g[s \ {Max(s)}], Max(s)>> \in U \X (1..N)
      BY <3>1
    <3> QED BY <3>2
  <2>2. g = [s \in SUBSET (1..N) |-> g[s]]
    OBVIOUS
  <2> HIDE DEF T
  <2> QED BY <1>6, <2>1, <2>2
<1>8. e = Of(e)
  <2> HIDE DEF Of
  <2> QED BY <1>7 DEF e
<1>9. e[{}] = r /\ \A i \in 1..N : e[1..i] = (IF objs[i].type = GLOBAL THEN AddGlobal(e[1..(i - 1)], objs[i].name[2]) ELSE e[1..(i - 1)])
  <2>1. ASSUME NEW i \in 1..N PROVE e[1..i] = (IF objs[i].type = GLOBAL THEN AddGlobal(e[1..(i - 1)], objs[i].name[2]) ELSE e[1..(i - 1)])
    <3>1. 1..i \in SUBSET (1..N) /\ i \in Nat /\ i # 0
      BY <1>1
    <3>2. Max(1..i) = i /\ (1..i) \ {i} = 1..(i - 1) /\ 1..i # {}
      BY <3>1, LastOf
    <3>3. e[1..i] = Of(e)[1..i]
      <4> HIDE DEF Of
      <4> QED BY <1>8
    <3> QED BY <3>1, <3>2, <3>3
  <2>2. e[{}] = r
    BY <1>8
  <2> QED BY <2>1, <2>2
<1>10. e[1..N] \in U
  <2>1. e[{}] \in U
    BY <1>3, <1>9
  <2>2. \A i \in 1..N : e[1..(i - 1)] \in U => e[1..i] \in U
    BY <1>4, <1>9
  <2> QED BY <1>1, <2>1, <2>2, FoldStays
<1> QED BY <1>2, <1>10 DEF U

LEMMA MakeNodesSound ==
  ASSUME NEW K, NEW c \in K, NEW r \in Sound(K, c),
         NEW l, l.nets \in Seq(Words)
  PROVE  MakeNodes(r, l) \in Sound(K, c)
<1> DEFINE U == Sound(K, c)
           N == Len(l.nets)
           Of(h) == [s \in SUBSET (1..N) |->
                      IF s = {} THEN r ELSE (IF l.letter # "E" \/ Max(s) <= 2 THEN NodeFor(h[s \ {Max(s)}], l.nets[Max(s)])
                       ELSE IF LookupObject(h[s \ {Max(s)}], Net(l.nets[Max(s)])) = 0 THEN AddNode(h[s \ {Max(s)}], l.nets[2]) ELSE h[s \ {Max(s)}])]
           e == CHOOSE h : h = Of(h)
           T == [x \in U \X (1..N) |-> (IF l.letter # "E" \/ x[2] <= 2 THEN NodeFor(x[1], l.nets[x[2]])
                       ELSE IF LookupObject(x[1], Net(l.nets[x[2]])) = 0 THEN AddNode(x[1], l.nets[2]) ELSE x[1])]
<1>1. /\ N \in Nat /\ DOMAIN l.nets = 1..N
      /\ \A i \in 1..N : l.nets[i] \in Words /\ (~(i <= 2) => l.nets[2] \in Words)
  <2>1. N \in Nat /\ DOMAIN l.nets = 1..N /\ \A i \in 1..N : l.nets[i] \in Words
    BY LenProperties, ElementOfSeq
  <2>2. \A i \in 1..N : ~(i <= 2) => 2 \in 1..N
    BY <2>1
  <2> QED BY <2>1, <2>2
<1>2. MakeNodes(r, l) = e[1..N]
  <2> DEFINE make(x, k) == IF l.letter # "E" \/ k <= 2 THEN NodeFor(x, l.nets[k])
                           ELSE IF LookupObject(x, Net(l.nets[k])) = 0 THEN AddNode(x, l.nets[2])
                           ELSE x
             ks == [k \in DOMAIN l.nets |-> k]
             For(h) == [s \in SUBSET (1..N) |-> IF s = {} THEN r ELSE make(h[s \ {Max(s)}], ks[Max(s)])]
  <2>1. MakeNodes(r, l) = FoldLeft(LAMBDA x, k : make(x, k), r, ks)
    BY DEF MakeNodes
  <2>2. DOMAIN ks = 1..N
    BY <1>1
  <2>3. FoldLeft(LAMBDA x, k : make(x, k), r, ks) = (CHOOSE h : h = For(h))[1..N]
    <3> HIDE DEF ks, N, make
    <3> QED BY <2>2 DEF FoldLeft, MapThenFoldSet
  <2>4. \A s \in SUBSET (1..N) : s # {} => ks[Max(s)] = Max(s)
    <3> HIDE DEF N
    <3> QED BY <1>1, GreatestOf
  <2>5. \A h : For(h) = Of(h)
    <3> HIDE DEF ks, N
    <3> QED BY <2>4
  <2> HIDE DEF For, Of, ks
  <2> QED BY <2>1, <2>3, <2>5
<1>3. r \in U
  OBVIOUS
<1> HIDE DEF N, U, e
<1>4. \A x \in U : \A i \in 1..N : (IF l.letter # "E" \/ i <= 2 THEN NodeFor(x, l.nets[i])
                       ELSE IF LookupObject(x, Net(l.nets[i])) = 0 THEN AddNode(x, l.nets[2]) ELSE x) \in U
  BY <1>1, AddsSound DEF U
<1>5. T \in [U \X (1..N) -> U]
  BY <1>4
<1>6. PICK g \in [SUBSET (1..N) -> U] : \A s \in SUBSET (1..N) :
        g[s] = IF s = {} THEN r ELSE T[<<g[s \ {Max(s)}], Max(s)>>]
  <2> HIDE DEF T
  <2>1. IsLoop(U, N, r, T)
    BY <1>1, <1>3, <1>5 DEF IsLoop
  <2>2. Runs(U, N, r, T)
    BY <2>1, LoopRuns
  <2> QED BY <2>2 DEF Runs
<1>7. g = Of(g)
  <2>1. ASSUME NEW s \in SUBSET (1..N), s # {}
        PROVE  T[<<g[s \ {Max(s)}], Max(s)>>] = (IF l.letter # "E" \/ Max(s) <= 2 THEN NodeFor(g[s \ {Max(s)}], l.nets[Max(s)])
                       ELSE IF LookupObject(g[s \ {Max(s)}], Net(l.nets[Max(s)])) = 0 THEN AddNode(g[s \ {Max(s)}], l.nets[2]) ELSE g[s \ {Max(s)}])
    <3>1. Max(s) \in 1..N /\ s \ {Max(s)} \in SUBSET (1..N)
      BY <1>1, <2>1, GreatestOf
    <3>2. <<g[s \ {Max(s)}], Max(s)>> \in U \X (1..N)
      BY <3>1
    <3> QED BY <3>2
  <2>2. g = [s \in SUBSET (1..N) |-> g[s]]
    OBVIOUS
  <2> HIDE DEF T
  <2> QED BY <1>6, <2>1, <2>2
<1>8. e = Of(e)
  <2> HIDE DEF Of
  <2> QED BY <1>7 DEF e
<1>9. e[{}] = r /\ \A i \in 1..N : e[1..i] = (IF l.letter # "E" \/ i <= 2 THEN NodeFor(e[1..(i - 1)], l.nets[i])
                       ELSE IF LookupObject(e[1..(i - 1)], Net(l.nets[i])) = 0 THEN AddNode(e[1..(i - 1)], l.nets[2]) ELSE e[1..(i - 1)])
  <2>1. ASSUME NEW i \in 1..N PROVE e[1..i] = (IF l.letter # "E" \/ i <= 2 THEN NodeFor(e[1..(i - 1)], l.nets[i])
                       ELSE IF LookupObject(e[1..(i - 1)], Net(l.nets[i])) = 0 THEN AddNode(e[1..(i - 1)], l.nets[2]) ELSE e[1..(i - 1)])
    <3>1. 1..i \in SUBSET (1..N) /\ i \in Nat /\ i # 0
      BY <1>1
    <3>2. Max(1..i) = i /\ (1..i) \ {i} = 1..(i - 1) /\ 1..i # {}
      BY <3>1, LastOf
    <3>3. e[1..i] = Of(e)[1..i]
      <4> HIDE DEF Of
      <4> QED BY <1>8
    <3> QED BY <3>1, <3>2, <3>3
  <2>2. e[{}] = r
    BY <1>8
  <2> QED BY <2>1, <2>2
<1>10. e[1..N] \in U
  <2>1. e[{}] \in U
    BY <1>3, <1>9
  <2>2. \A i \in 1..N : e[1..(i - 1)] \in U => e[1..i] \in U
    BY <1>4, <1>9
  <2> QED BY <1>1, <2>1, <2>2, FoldStays
<1> QED BY <1>2, <1>10 DEF U

-----------------------------------------------------------------------------
(* Instances.                                                                *)

LEMMA AddPin ==
  ASSUME NEW K, NEW c \in K, NEW r \in Sound(K, c), NEW o \in Objects,
         o.node = None, o.model \in K,
         o.type > FIRSTPIN => /\ Len(Objs(r)) > 0
                             /\ Objs(r)[Len(Objs(r))].type = o.type - 1
                             /\ Objs(r)[Len(Objs(r))].name[1] = o.name[1]
  PROVE  /\ AddToCurrentCell(r, o) \in Sound(K, c)
         /\ Len(Objs(AddToCurrentCell(r, o))) > 0
         /\ Objs(AddToCurrentCell(r, o))[Len(Objs(AddToCurrentCell(r, o)))] = o
<1> DEFINE old == Objs(r)
           new == Append(old, o)
<1>1. r \in Typed(K, c) /\ CellsFine(r.cells, K) /\ r.next # 0 /\ Below(old, r.next)
  BY DEF Sound
<1>2. /\ old \in Seq(Objects) /\ old = r.cells[c].objs /\ r.next \in Nat
      /\ DOMAIN old = 1..Len(old) /\ Len(old) \in Nat
  BY <1>1, ListOf
<1>3. InRows(old) /\ KnownModels(old, K)
  BY <1>1, <1>2 DEF CellsFine, Typed
<1>0. o.type > FIRSTPIN => /\ Len(old) > 0 /\ old[Len(old)].type = o.type - 1
                          /\ old[Len(old)].name[1] = o.name[1]
  OBVIOUS
<1>13. Objs(AddToCurrentCell(r, o)) = new /\ AddToCurrentCell(r, o) = WithList(r, new, r.next)
  BY <1>1, AddTyped, ListExcepted
<1> HIDE DEF old
<1>4. /\ new \in Seq(Objects) /\ DOMAIN new = 1..(Len(old) + 1) /\ Len(new) = Len(old) + 1
      /\ new[Len(old) + 1] = o /\ \A k \in DOMAIN old : new[k] = old[k]
  BY <1>2, AppendProperties
<1> HIDE DEF new
<1>5. o.type \in Int /\ o.node = -1
  BY ObjectFields DEF None
<1>6. InRows(new)
  <2>1. SUFFICES ASSUME NEW k \in DOMAIN new, new[k].type > FIRSTPIN
                 PROVE  /\ k > 1 /\ new[k - 1].type = new[k].type - 1
                        /\ new[k - 1].name[1] = new[k].name[1]
    BY DEF InRows
  <2>2. CASE k = Len(old) + 1
    <3>1. new[k] = o /\ k > 1 /\ k - 1 \in DOMAIN old /\ k - 1 = Len(old)
      BY <1>0, <1>2, <1>4, <2>1, <2>2
    <3>2. new[k - 1] = old[Len(old)]
      BY <1>4, <3>1
    <3> QED BY <1>0, <2>1, <3>1, <3>2
  <2>3. CASE k # Len(old) + 1
    <3>1. k \in DOMAIN old /\ new[k] = old[k]
      BY <1>2, <1>4, <2>3
    <3>2. k > 1 /\ old[k - 1].type = old[k].type - 1 /\ old[k - 1].name[1] = old[k].name[1]
      BY <1>3, <2>1, <3>1 DEF InRows
    <3>3. k - 1 \in DOMAIN old
      BY <1>2, <3>1, <3>2
    <3> QED BY <1>4, <3>1, <3>2, <3>3
  <2> QED BY <2>2, <2>3
<1>7. \A k \in DOMAIN new : k = Len(old) + 1 \/ k \in DOMAIN old
  BY <1>2, <1>4
<1>8. KnownModels(new, K)
  BY <1>3, <1>4, <1>7 DEF KnownModels
<1>9. Below(new, r.next)
  <2> DEFINE n == r.next
  <2>1. n \in Nat /\ \A k \in DOMAIN old : old[k].node < n
    BY <1>1, <1>2 DEF Below
  <2> HIDE DEF n
  <2>2. o.node < n
    BY <1>5, <2>1
  <2>3. Below(new, n)
    BY <1>4, <1>7, <2>1, <2>2 DEF Below
  <2> QED BY <2>3 DEF n
<1>10. WithList(r, new, r.next) \in Sound(K, c)
  BY <1>1, <1>2, <1>4, <1>6, <1>8, <1>9, SoundNew
<1> QED BY <1>2, <1>4, <1>10, <1>13

\* The pins of one instance, the first one first.
LEMMA PinsSound ==
  ASSUME NEW K, NEW c \in K, NEW r \in Sound(K, c), NEW pins \in Seq(Objects), NEW inst,
         \A k \in DOMAIN pins : /\ pins[k].type = k /\ pins[k].node = None /\ pins[k].model \in K
                               /\ pins[k].name[1] = inst
  PROVE  FoldLeft(AddToCurrentCell, r, pins) \in Sound(K, c)
<1> DEFINE U == Typed(K, c)
           N == Len(pins)
           Of(h) == [s \in SUBSET (1..N) |->
                      IF s = {} THEN r ELSE AddToCurrentCell(h[s \ {Max(s)}], pins[Max(s)])]
           e == CHOOSE h : h = Of(h)
           T == [x \in U \X (1..N) |-> AddToCurrentCell(x[1], pins[x[2]])]
<1>1. /\ N \in Nat /\ DOMAIN pins = 1..N
      /\ \A i \in 1..N : /\ pins[i] \in Objects /\ pins[i].type = i /\ pins[i].node = None
                         /\ pins[i].model \in K /\ pins[i].name[1] = inst
  BY LenProperties, ElementOfSeq
<1>2. FoldLeft(AddToCurrentCell, r, pins) = e[1..N]
  <2> HIDE DEF N
  <2> QED BY <1>1 DEF FoldLeft, MapThenFoldSet
<1>3. r \in U
  BY DEF Sound
<1> HIDE DEF N, U, e
<1>4. \A x \in U : \A i \in 1..N : AddToCurrentCell(x, pins[i]) \in U
  BY <1>1, AddTyped DEF U
<1>5. T \in [U \X (1..N) -> U]
  BY <1>4
<1>6. PICK g \in [SUBSET (1..N) -> U] : \A s \in SUBSET (1..N) :
        g[s] = IF s = {} THEN r ELSE T[<<g[s \ {Max(s)}], Max(s)>>]
  <2> HIDE DEF T
  <2>1. IsLoop(U, N, r, T)
    BY <1>1, <1>3, <1>5 DEF IsLoop
  <2>2. Runs(U, N, r, T)
    BY <2>1, LoopRuns
  <2> QED BY <2>2 DEF Runs
<1>7. g = Of(g)
  <2>1. ASSUME NEW s \in SUBSET (1..N), s # {}
        PROVE  T[<<g[s \ {Max(s)}], Max(s)>>] = AddToCurrentCell(g[s \ {Max(s)}], pins[Max(s)])
    <3>1. Max(s) \in 1..N /\ s \ {Max(s)} \in SUBSET (1..N)
      BY <1>1, <2>1, GreatestOf
    <3>2. <<g[s \ {Max(s)}], Max(s)>> \in U \X (1..N)
      BY <3>1
    <3> QED BY <3>2
  <2>2. g = [s \in SUBSET (1..N) |-> g[s]]
    OBVIOUS
  <2> HIDE DEF T
  <2> QED BY <1>6, <2>1, <2>2
<1>8. e = Of(e)
  <2> HIDE DEF Of
  <2> QED BY <1>7 DEF e
<1>9. e[{}] = r /\ \A i \in 1..N : e[1..i] = AddToCurrentCell(e[1..(i - 1)], pins[i])
  <2>1. ASSUME NEW i \in 1..N PROVE e[1..i] = AddToCurrentCell(e[1..(i - 1)], pins[i])
    <3>1. 1..i \in SUBSET (1..N) /\ i \in Nat /\ i # 0
      BY <1>1
    <3>2. Max(1..i) = i /\ (1..i) \ {i} = 1..(i - 1) /\ 1..i # {}
      BY <3>1, LastOf
    <3>3. e[1..i] = Of(e)[1..i]
      <4> HIDE DEF Of
      <4> QED BY <1>8
    <3> QED BY <3>1, <3>2, <3>3
  <2>2. e[{}] = r
    BY <1>8
  <2> QED BY <2>1, <2>2
<1>10. e[1..N] \in U
  <2>1. e[{}] \in U
    BY <1>3, <1>9
  <2>2. \A i \in 1..N : e[1..(i - 1)] \in U => e[1..i] \in U
    BY <1>4, <1>9
  <2> QED BY <1>1, <2>1, <2>2, FoldStays
<1> DEFINE L(x) == Len(Objs(x))
           V == {y \in Nat \X Sound(K, c) : y[1] # 0 => L(y[2]) > 0 /\ Objs(y[2])[L(y[2])] = pins[y[1]]}
<1>11. <<0, e[{}]>> \in V
  BY <1>9
<1>12. ASSUME NEW i \in 1..N, <<i - 1, e[1..(i - 1)]>> \in V PROVE <<i, e[1..i]>> \in V
  <2> DEFINE x == e[1..(i - 1)]
             y == e[1..i]
  <2>1. i \in Nat /\ i # 0 /\ (i > 1 => i - 1 # 0 /\ i - 1 \in 1..N)
    BY <1>1
  <2>2. x \in Sound(K, c) /\ (i - 1 # 0 => L(x) > 0 /\ Objs(x)[L(x)] = pins[i - 1])
    BY <1>12
  <2>3. y = AddToCurrentCell(x, pins[i])
    BY <1>9
  <2> HIDE DEF x, y
  <2>4. pins[i].type > FIRSTPIN => /\ Len(Objs(x)) > 0 /\ Objs(x)[Len(Objs(x))].type = pins[i].type - 1
                                  /\ Objs(x)[Len(Objs(x))].name[1] = pins[i].name[1]
    BY <1>1, <2>1, <2>2 DEF FIRSTPIN
  <2>5. y \in Sound(K, c) /\ L(y) > 0 /\ Objs(y)[L(y)] = pins[i]
    BY <1>1, <2>2, <2>3, <2>4, AddPin
  <2>6. <<i, y>> \in V
    BY <2>1, <2>5
  <2> QED BY <2>6 DEF y
<1>13. <<N, e[1..N]>> \in V
  <2> HIDE DEF V
  <2> QED BY <1>1, <1>11, <1>12, FoldEnds
<1> QED BY <1>2, <1>13

LEMMA GlobalPinsSound ==
  ASSUME NEW K, NEW c \in K, NEW r \in Sound(K, c), NEW globals \in Seq(Objects)
  PROVE  FoldLeft(LAMBDA x, o : IF LookupObject(x, o.name) = 0 THEN AddGlobal(x, o.name[2]) ELSE x,
                  r, globals) \in Sound(K, c)
<1> DEFINE U == Sound(K, c)
           N == Len(globals)
           Of(h) == [s \in SUBSET (1..N) |->
                      IF s = {} THEN r ELSE (IF LookupObject(h[s \ {Max(s)}], globals[Max(s)].name) = 0 THEN AddGlobal(h[s \ {Max(s)}], globals[Max(s)].name[2]) ELSE h[s \ {Max(s)}])]
           e == CHOOSE h : h = Of(h)
           T == [x \in U \X (1..N) |-> (IF LookupObject(x[1], globals[x[2]].name) = 0 THEN AddGlobal(x[1], globals[x[2]].name[2]) ELSE x[1])]
<1>1. N \in Nat /\ DOMAIN globals = 1..N /\ \A i \in 1..N : globals[i].name[2] \in Words
  BY LenProperties, ElementOfSeq, ObjectFields
<1>2. FoldLeft(LAMBDA x, o : IF LookupObject(x, o.name) = 0 THEN AddGlobal(x, o.name[2]) ELSE x,
                  r, globals) = e[1..N]
  <2> HIDE DEF N
  <2> QED BY <1>1 DEF FoldLeft, MapThenFoldSet
<1>3. r \in U
  OBVIOUS
<1> HIDE DEF N, U, e
<1>4. \A x \in U : \A i \in 1..N : (IF LookupObject(x, globals[i].name) = 0 THEN AddGlobal(x, globals[i].name[2]) ELSE x) \in U
  BY <1>1, AddsSound DEF U
<1>5. T \in [U \X (1..N) -> U]
  BY <1>4
<1>6. PICK g \in [SUBSET (1..N) -> U] : \A s \in SUBSET (1..N) :
        g[s] = IF s = {} THEN r ELSE T[<<g[s \ {Max(s)}], Max(s)>>]
  <2> HIDE DEF T
  <2>1. IsLoop(U, N, r, T)
    BY <1>1, <1>3, <1>5 DEF IsLoop
  <2>2. Runs(U, N, r, T)
    BY <2>1, LoopRuns
  <2> QED BY <2>2 DEF Runs
<1>7. g = Of(g)
  <2>1. ASSUME NEW s \in SUBSET (1..N), s # {}
        PROVE  T[<<g[s \ {Max(s)}], Max(s)>>] = (IF LookupObject(g[s \ {Max(s)}], globals[Max(s)].name) = 0 THEN AddGlobal(g[s \ {Max(s)}], globals[Max(s)].name[2]) ELSE g[s \ {Max(s)}])
    <3>1. Max(s) \in 1..N /\ s \ {Max(s)} \in SUBSET (1..N)
      BY <1>1, <2>1, GreatestOf
    <3>2. <<g[s \ {Max(s)}], Max(s)>> \in U \X (1..N)
      BY <3>1
    <3> QED BY <3>2
  <2>2. g = [s \in SUBSET (1..N) |-> g[s]]
    OBVIOUS
  <2> HIDE DEF T
  <2> QED BY <1>6, <2>1, <2>2
<1>8. e = Of(e)
  <2> HIDE DEF Of
  <2> QED BY <1>7 DEF e
<1>9. e[{}] = r /\ \A i \in 1..N : e[1..i] = (IF LookupObject(e[1..(i - 1)], globals[i].name) = 0 THEN AddGlobal(e[1..(i - 1)], globals[i].name[2]) ELSE e[1..(i - 1)])
  <2>1. ASSUME NEW i \in 1..N PROVE e[1..i] = (IF LookupObject(e[1..(i - 1)], globals[i].name) = 0 THEN AddGlobal(e[1..(i - 1)], globals[i].name[2]) ELSE e[1..(i - 1)])
    <3>1. 1..i \in SUBSET (1..N) /\ i \in Nat /\ i # 0
      BY <1>1
    <3>2. Max(1..i) = i /\ (1..i) \ {i} = 1..(i - 1) /\ 1..i # {}
      BY <3>1, LastOf
    <3>3. e[1..i] = Of(e)[1..i]
      <4> HIDE DEF Of
      <4> QED BY <1>8
    <3> QED BY <3>1, <3>2, <3>3
  <2>2. e[{}] = r
    BY <1>8
  <2> QED BY <2>1, <2>2
<1>10. e[1..N] \in U
  <2>1. e[{}] \in U
    BY <1>3, <1>9
  <2>2. \A i \in 1..N : e[1..(i - 1)] \in U => e[1..i] \in U
    BY <1>4, <1>9
  <2> QED BY <1>1, <2>1, <2>2, FoldStays
<1> QED BY <1>2, <1>10 DEF U

\* The net of port p of a cell of start that is shorted to another one.
Shorted1(start, m, inst, x, p) ==
  IF NodeAlias(start, m, LookupPort(start, m, p.name)) = p.name THEN x
  ELSE join(x, Pin(inst, p), <<inst, NodeAlias(start, m, LookupPort(start, m, p.name))[2]>>)
Shorts(r, ports, start, m, inst) ==
  FoldLeft(LAMBDA x, p : Shorted1(start, m, inst, x, p), r, ports)

LEMMA ShortsSound ==
  ASSUME NEW K, NEW c \in K, NEW r \in Sound(K, c),
         NEW ports, DOMAIN ports = 1..Len(ports), Len(ports) \in Nat, NEW start, NEW m, NEW inst
  PROVE  Shorts(r, ports, start, m, inst) \in Sound(K, c)
<1> DEFINE U == Sound(K, c)
           N == Len(ports)
           Of(h) == [s \in SUBSET (1..N) |->
                      IF s = {} THEN r ELSE Shorted1(start, m, inst, h[s \ {Max(s)}], ports[Max(s)])]
           e == CHOOSE h : h = Of(h)
           T == [x \in U \X (1..N) |-> Shorted1(start, m, inst, x[1], ports[x[2]])]
<1>1. N \in Nat /\ DOMAIN ports = 1..N
  OBVIOUS
<1>2. Shorts(r, ports, start, m, inst) = e[1..N]
  <2> HIDE DEF N
  <2> QED BY <1>1 DEF Shorts, FoldLeft, MapThenFoldSet
<1>3. r \in U
  OBVIOUS
<1> HIDE DEF N, U, e
<1>4. \A x \in U : \A i \in 1..N : Shorted1(start, m, inst, x, ports[i]) \in U
  BY <1>1, JoinSound DEF U, Shorted1
<1>5. T \in [U \X (1..N) -> U]
  BY <1>4
<1>6. PICK g \in [SUBSET (1..N) -> U] : \A s \in SUBSET (1..N) :
        g[s] = IF s = {} THEN r ELSE T[<<g[s \ {Max(s)}], Max(s)>>]
  <2> HIDE DEF T
  <2>1. IsLoop(U, N, r, T)
    BY <1>1, <1>3, <1>5 DEF IsLoop
  <2>2. Runs(U, N, r, T)
    BY <2>1, LoopRuns
  <2> QED BY <2>2 DEF Runs
<1>7. g = Of(g)
  <2>1. ASSUME NEW s \in SUBSET (1..N), s # {}
        PROVE  T[<<g[s \ {Max(s)}], Max(s)>>] = Shorted1(start, m, inst, g[s \ {Max(s)}], ports[Max(s)])
    <3>1. Max(s) \in 1..N /\ s \ {Max(s)} \in SUBSET (1..N)
      BY <1>1, <2>1, GreatestOf
    <3>2. <<g[s \ {Max(s)}], Max(s)>> \in U \X (1..N)
      BY <3>1
    <3> QED BY <3>2
  <2>2. g = [s \in SUBSET (1..N) |-> g[s]]
    OBVIOUS
  <2> HIDE DEF T
  <2> QED BY <1>6, <2>1, <2>2
<1>8. e = Of(e)
  <2> HIDE DEF Of
  <2> QED BY <1>7 DEF e
<1>9. e[{}] = r /\ \A i \in 1..N : e[1..i] = Shorted1(start, m, inst, e[1..(i - 1)], ports[i])
  <2>1. ASSUME NEW i \in 1..N PROVE e[1..i] = Shorted1(start, m, inst, e[1..(i - 1)], ports[i])
    <3>1. 1..i \in SUBSET (1..N) /\ i \in Nat /\ i # 0
      BY <1>1
    <3>2. Max(1..i) = i /\ (1..i) \ {i} = 1..(i - 1) /\ 1..i # {}
      BY <3>1, LastOf
    <3>3. e[1..i] = Of(e)[1..i]
      <4> HIDE DEF Of
      <4> QED BY <1>8
    <3> QED BY <3>1, <3>2, <3>3
  <2>2. e[{}] = r
    BY <1>8
  <2> QED BY <2>1, <2>2
<1>10. e[1..N] \in U
  <2>1. e[{}] \in U
    BY <1>3, <1>9
  <2>2. \A i \in 1..N : e[1..(i - 1)] \in U => e[1..i] \in U
    BY <1>4, <1>9
  <2> QED BY <1>1, <2>1, <2>2, FoldStays
<1> QED BY <1>2, <1>10 DEF U

LEMMA InstanceSound ==
  ASSUME NEW K, NEW c \in K, NEW r \in Sound(K, c), NEW m \in K, NEW inst \in Words
  PROVE  Instance(r, m, inst) \in Sound(K, c)
<1> DEFINE ports == Ports(r, m)
           pins == [k \in DOMAIN ports |-> Object(k, Pin(inst, ports[k]), m)]
           globals == Chosen(r.cells[m].objs, LAMBDA o : o.type = GLOBAL)
           first == FoldLeft(AddToCurrentCell, r, pins)
           second == FoldLeft(LAMBDA x, o : IF LookupObject(x, o.name) = 0 THEN AddGlobal(x, o.name[2]) ELSE x,
                              first, globals)
<1>1. r.cells[m].objs \in Seq(Objects) /\ m \in CellNames
  <2>1. r \in Builds /\ DOMAIN r.cells = K
    BY DEF Sound, Typed
  <2> QED BY <2>1, BuildFields, RecordFields
<1>2. ports \in Seq(Objects) /\ globals \in Seq(Objects)
  BY <1>1, PortsOfList DEF Ports
<1>3. DOMAIN ports = 1..Len(ports) /\ Len(ports) \in Nat /\ \A k \in 1..Len(ports) : ports[k] \in Objects
  BY <1>2, LenProperties, ElementOfSeq
<1>4. Instance(r, m, inst) = Shorts(second, ports, r, m, inst)
  BY DEF Instance, Shorts, Shorted1
<1> HIDE DEF ports, globals
<1>5. \A k \in DOMAIN pins : /\ pins[k] \in Objects /\ pins[k].type = k /\ pins[k].node = None
                              /\ pins[k].model \in K /\ pins[k].name[1] = inst
  <2>1. SUFFICES ASSUME NEW k \in 1..Len(ports)
                 PROVE  /\ Object(k, Pin(inst, ports[k]), m) \in Objects
                        /\ Object(k, Pin(inst, ports[k]), m).type = k
                        /\ Object(k, Pin(inst, ports[k]), m).node = None
                        /\ Object(k, Pin(inst, ports[k]), m).model = m
                        /\ Object(k, Pin(inst, ports[k]), m).name[1] = inst
    BY <1>3
  <2>2. ports[k].name[2] \in Words
    BY <1>3, ObjectFields
  <2>3. Pin(inst, ports[k]) \in Names /\ Pin(inst, ports[k])[1] = inst
    BY <2>2 DEF Pin, Names
  <2> DEFINE name == Pin(inst, ports[k])
             o == Object(k, name, m)
  <2>4. m \in CellNames /\ k \in Int
    BY <1>1, <2>1
  <2>5. name \in Names /\ name[1] = inst
    BY <2>3
  <2> HIDE DEF name
  <2>6. o \in Objects /\ o.type = k /\ o.node = None /\ o.model = m /\ o.name = name
    BY ONLY <2>4, <2>5, ObjectIn
  <2> HIDE DEF o
  <2>7. o \in Objects /\ o.type = k /\ o.node = None /\ o.model = m /\ o.name[1] = inst
    BY ONLY <2>5, <2>6
  <2> QED BY <2>7 DEF o, name
<1>6. pins \in Seq(Objects)
  <2>1. DOMAIN pins = 1..Len(ports) /\ pins = [k \in 1..Len(ports) |-> pins[k]]
    BY <1>3
  <2> HIDE DEF pins
  <2> QED BY <1>3, <1>5, <2>1
<1> HIDE DEF pins
<1>7. first \in Sound(K, c)
  BY <1>5, <1>6, PinsSound
<1> HIDE DEF first
<1>8. second \in Sound(K, c)
  BY <1>2, <1>7, GlobalPinsSound
<1> HIDE DEF second
<1> QED BY <1>3, <1>4, <1>8, ShortsSound

\* Joining nets to pins one after the other.
Joins(r, nets, ports, inst) ==
  FoldLeft(LAMBDA x, k : join(x, Net(nets[k]), Pin(inst, ports[k])), r, [k \in DOMAIN nets |-> k])

LEMMA JoinsSound ==
  ASSUME NEW K, NEW c \in K, NEW r \in Sound(K, c),
         NEW nets, DOMAIN nets = 1..Len(nets), Len(nets) \in Nat, NEW ports, NEW inst
  PROVE  Joins(r, nets, ports, inst) \in Sound(K, c)
<1> DEFINE U == Sound(K, c)
           N == Len(nets)
           Of(h) == [s \in SUBSET (1..N) |->
                      IF s = {} THEN r ELSE join(h[s \ {Max(s)}], Net(nets[Max(s)]), Pin(inst, ports[Max(s)]))]
           e == CHOOSE h : h = Of(h)
           T == [x \in U \X (1..N) |-> join(x[1], Net(nets[x[2]]), Pin(inst, ports[x[2]]))]
<1>1. N \in Nat /\ DOMAIN nets = 1..N
  OBVIOUS
<1>2. Joins(r, nets, ports, inst) = e[1..N]
  <2> DEFINE make(x, k) == join(x, Net(nets[k]), Pin(inst, ports[k]))
             ks == [k \in DOMAIN nets |-> k]
             For(h) == [s \in SUBSET (1..N) |-> IF s = {} THEN r ELSE make(h[s \ {Max(s)}], ks[Max(s)])]
  <2>1. Joins(r, nets, ports, inst) = FoldLeft(LAMBDA x, k : make(x, k), r, ks)
    BY DEF Joins
  <2>2. DOMAIN ks = 1..N
    BY <1>1
  <2>3. FoldLeft(LAMBDA x, k : make(x, k), r, ks) = (CHOOSE h : h = For(h))[1..N]
    <3> HIDE DEF ks, N, make
    <3> QED BY <2>2 DEF FoldLeft, MapThenFoldSet
  <2>4. \A s \in SUBSET (1..N) : s # {} => ks[Max(s)] = Max(s)
    <3> HIDE DEF N
    <3> QED BY <1>1, GreatestOf
  <2>5. \A h : For(h) = Of(h)
    <3> HIDE DEF ks, N
    <3> QED BY <2>4
  <2> HIDE DEF For, Of, ks
  <2> QED BY <2>1, <2>3, <2>5
<1>3. r \in U
  OBVIOUS
<1> HIDE DEF N, U, e
<1>4. \A x \in U : \A i \in 1..N : join(x, Net(nets[i]), Pin(inst, ports[i])) \in U
  BY <1>1, JoinSound DEF U
<1>5. T \in [U \X (1..N) -> U]
  BY <1>4
<1>6. PICK g \in [SUBSET (1..N) -> U] : \A s \in SUBSET (1..N) :
        g[s] = IF s = {} THEN r ELSE T[<<g[s \ {Max(s)}], Max(s)>>]
  <2> HIDE DEF T
  <2>1. IsLoop(U, N, r, T)
    BY <1>1, <1>3, <1>5 DEF IsLoop
  <2>2. Runs(U, N, r, T)
    BY <2>1, LoopRuns
  <2> QED BY <2>2 DEF Runs
<1>7. g = Of(g)
  <2>1. ASSUME NEW s \in SUBSET (1..N), s # {}
        PROVE  T[<<g[s \ {Max(s)}], Max(s)>>] = join(g[s \ {Max(s)}], Net(nets[Max(s)]), Pin(inst, ports[Max(s)]))
    <3>1. Max(s) \in 1..N /\ s \ {Max(s)} \in SUBSET (1..N)
      BY <1>1, <2>1, GreatestOf
    <3>2. <<g[s \ {Max(s)}], Max(s)>> \in U \X (1..N)
      BY <3>1
    <3> QED BY <3>2
  <2>2. g = [s \in SUBSET (1..N) |-> g[s]]
    OBVIOUS
  <2> HIDE DEF T
  <2> QED BY <1>6, <2>1, <2>2
<1>8. e = Of(e)
  <2> HIDE DEF Of
  <2> QED BY <1>7 DEF e
<1>9. e[{}] = r /\ \A i \in 1..N : e[1..i] = join(e[1..(i - 1)], Net(nets[i]), Pin(inst, ports[i]))
  <2>1. ASSUME NEW i \in 1..N PROVE e[1..i] = join(e[1..(i - 1)], Net(nets[i]), Pin(inst, ports[i]))
    <3>1. 1..i \in SUBSET (1..N) /\ i \in Nat /\ i # 0
      BY <1>1
    <3>2. Max(1..i) = i /\ (1..i) \ {i} = 1..(i - 1) /\ 1..i # {}
      BY <3>1, LastOf
    <3>3. e[1..i] = Of(e)[1..i]
      <4> HIDE DEF Of
      <4> QED BY <1>8
    <3> QED BY <3>1, <3>2, <3>3
  <2>2. e[{}] = r
    BY <1>8
  <2> QED BY <2>1, <2>2
<1>10. e[1..N] \in U
  <2>1. e[{}] \in U
    BY <1>3, <1>9
  <2>2. \A i \in 1..N : e[1..(i - 1)] \in U => e[1..i] \in U
    BY <1>4, <1>9
  <2> QED BY <1>1, <2>1, <2>2, FoldStays
<1> QED BY <1>2, <1>10 DEF U

LEMMA ConnectPinsSound ==
  ASSUME NEW K, NEW c \in K, NEW r \in Sound(K, c),
         NEW m \in K, NEW inst, NEW nets \in Seq(Words)
  PROVE  ConnectPins(r, m, inst, nets) \in Sound(K, c)
<1> DEFINE U == Sound(K, c)
           N == Min({Len(nets), Len(Ports(r, m))})
           Of(h) == [s \in SUBSET (1..N) |->
                      IF s = {} THEN r ELSE join(NodeFor(h[s \ {Max(s)}], nets[Max(s)]), Net(nets[Max(s)]), Pin(inst, Ports(r, m)[Max(s)]))]
           e == CHOOSE h : h = Of(h)
           T == [x \in U \X (1..N) |-> join(NodeFor(x[1], nets[x[2]]), Net(nets[x[2]]), Pin(inst, Ports(r, m)[x[2]]))]
<1>1. N \in Nat /\ \A i \in 1..N : nets[i] \in Words
  <2>1. r.cells[m].objs \in Seq(Objects)
    <3>1. r \in Builds /\ DOMAIN r.cells = K
      BY DEF Sound, Typed
    <3> QED BY <3>1, BuildFields, RecordFields
  <2>2. Ports(r, m) \in Seq(Objects)
    BY <2>1, PortsOfList DEF Ports
  <2> DEFINE S == {Len(nets), Len(Ports(r, m))}
  <2>3. S \in SUBSET Nat /\ S # {} /\ Len(nets) \in S
    BY <2>2, LenProperties
  <2> HIDE DEF S
  <2>4. Min(S) \in S /\ Min(S) <= Len(nets)
    BY <2>3, MinIn
  <2>5. N \in Nat /\ N <= Len(nets)
    BY <2>3, <2>4 DEF S
  <2> HIDE DEF N
  <2>6. Len(nets) \in Nat /\ \A i \in 1..Len(nets) : nets[i] \in Words
    BY LenProperties, ElementOfSeq
  <2> QED BY <2>5, <2>6
<1>2. ConnectPins(r, m, inst, nets) = e[1..N]
  <2> DEFINE make(x, k) == join(NodeFor(x, nets[k]), Net(nets[k]), Pin(inst, Ports(r, m)[k]))
             ks == [k \in 1..N |-> k]
             For(h) == [s \in SUBSET (1..N) |-> IF s = {} THEN r ELSE make(h[s \ {Max(s)}], ks[Max(s)])]
  <2>1. ConnectPins(r, m, inst, nets) = FoldLeft(LAMBDA x, k : make(x, k), r, ks)
    BY DEF ConnectPins
  <2>2. DOMAIN ks = 1..N
    BY <1>1
  <2>3. FoldLeft(LAMBDA x, k : make(x, k), r, ks) = (CHOOSE h : h = For(h))[1..N]
    <3> HIDE DEF ks, N, make
    <3> QED BY <2>2 DEF FoldLeft, MapThenFoldSet
  <2>4. \A s \in SUBSET (1..N) : s # {} => ks[Max(s)] = Max(s)
    <3> HIDE DEF N
    <3> QED BY <1>1, GreatestOf
  <2>5. \A h : For(h) = Of(h)
    <3> HIDE DEF ks, N
    <3> QED BY <2>4
  <2> HIDE DEF For, Of, ks
  <2> QED BY <2>1, <2>3, <2>5
<1>3. r \in U
  OBVIOUS
<1> HIDE DEF N, U, e
<1>4. \A x \in U : \A i \in 1..N : join(NodeFor(x, nets[i]), Net(nets[i]), Pin(inst, Ports(r, m)[i])) \in U
  BY <1>1, AddsSound, JoinSound DEF U
<1>5. T \in [U \X (1..N) -> U]
  BY <1>4
<1>6. PICK g \in [SUBSET (1..N) -> U] : \A s \in SUBSET (1..N) :
        g[s] = IF s = {} THEN r ELSE T[<<g[s \ {Max(s)}], Max(s)>>]
  <2> HIDE DEF T
  <2>1. IsLoop(U, N, r, T)
    BY <1>1, <1>3, <1>5 DEF IsLoop
  <2>2. Runs(U, N, r, T)
    BY <2>1, LoopRuns
  <2> QED BY <2>2 DEF Runs
<1>7. g = Of(g)
  <2>1. ASSUME NEW s \in SUBSET (1..N), s # {}
        PROVE  T[<<g[s \ {Max(s)}], Max(s)>>] = join(NodeFor(g[s \ {Max(s)}], nets[Max(s)]), Net(nets[Max(s)]), Pin(inst, Ports(r, m)[Max(s)]))
    <3>1. Max(s) \in 1..N /\ s \ {Max(s)} \in SUBSET (1..N)
      BY <1>1, <2>1, GreatestOf
    <3>2. <<g[s \ {Max(s)}], Max(s)>> \in U \X (1..N)
      BY <3>1
    <3> QED BY <3>2
  <2>2. g = [s \in SUBSET (1..N) |-> g[s]]
    OBVIOUS
  <2> HIDE DEF T
  <2> QED BY <1>6, <2>1, <2>2
<1>8. e = Of(e)
  <2> HIDE DEF Of
  <2> QED BY <1>7 DEF e
<1>9. e[{}] = r /\ \A i \in 1..N : e[1..i] = join(NodeFor(e[1..(i - 1)], nets[i]), Net(nets[i]), Pin(inst, Ports(r, m)[i]))
  <2>1. ASSUME NEW i \in 1..N PROVE e[1..i] = join(NodeFor(e[1..(i - 1)], nets[i]), Net(nets[i]), Pin(inst, Ports(r, m)[i]))
    <3>1. 1..i \in SUBSET (1..N) /\ i \in Nat /\ i # 0
      BY <1>1
    <3>2. Max(1..i) = i /\ (1..i) \ {i} = 1..(i - 1) /\ 1..i # {}
      BY <3>1, LastOf
    <3>3. e[1..i] = Of(e)[1..i]
      <4> HIDE DEF Of
      <4> QED BY <1>8
    <3> QED BY <3>1, <3>2, <3>3
  <2>2. e[{}] = r
    BY <1>8
  <2> QED BY <2>1, <2>2
<1>10. e[1..N] \in U
  <2>1. e[{}] \in U
    BY <1>3, <1>9
  <2>2. \A i \in 1..N : e[1..(i - 1)] \in U => e[1..i] \in U
    BY <1>4, <1>9
  <2> QED BY <1>1, <2>1, <2>2, FoldStays
<1> QED BY <1>2, <1>10 DEF U

LEMMA CellSound ==
  ASSUME NEW K, NEW c \in K, NEW r \in Sound(K, c), NEW m \in K, NEW inst \in Words,
         NEW nets \in Seq(Words), NEW ignored
  PROVE  Cell(r, inst, m, nets, ignored) \in Sound(K, c)
<1> DEFINE ports == Ports(r, m)
           known == Known(r, nets)
           made == Instance(r, m, inst)
<1>1. known \in Seq(Words)
  <2> DEFINE S == {k \in DOMAIN nets : LookupObject(r, Net(nets[k])) = 0} \cup {Len(nets) + 1}
  <2>1. Len(nets) \in Nat /\ DOMAIN nets = 1..Len(nets)
    BY LenProperties
  <2>2. S \in SUBSET Nat /\ S # {} /\ S \subseteq 1..(Len(nets) + 1)
    BY <2>1
  <2>3. Min(S) \in S
    <3> HIDE DEF S
    <3> QED BY <2>2, MinIn
  <2>4. Min(S) - 1 \in 0..Len(nets)
    <3>1. Min(S) \in 1..(Len(nets) + 1)
      <4> HIDE DEF S
      <4> QED BY <2>2, <2>3
    <3> HIDE DEF S
    <3> QED BY <2>1, <3>1
  <2>5. Known(r, nets) = SubSeq(nets, 1, Min(S) - 1)
    BY DEF Known
  <2> HIDE DEF S
  <2> DEFINE n == Min(S) - 1
  <2>6. n \in 0..Len(nets)
    BY <2>4
  <2> HIDE DEF n
  <2>7. \A i \in 1..n : nets[i] \in Words
    BY <2>1, <2>6, ElementOfSeq
  <2>8. SubSeq(nets, 1, n) \in Seq(Words)
    BY <2>1, <2>6, <2>7, SubSeqProperties
  <2> QED BY <2>5, <2>8 DEF n
<1>2. made \in Sound(K, c)
  BY InstanceSound
<1>3. DOMAIN known = 1..Len(known) /\ Len(known) \in Nat
  BY <1>1, LenProperties
<1>4. Cell(r, inst, m, nets, ignored) \in {r, Joins(made, known, ports, inst)}
  BY DEF Cell, Joins
<1> HIDE DEF made, known, ports
<1>5. Joins(made, known, ports, inst) \in Sound(K, c)
  BY <1>2, <1>3, JoinsSound
<1> QED BY <1>4, <1>5

LEMMA PropertiesSound ==
  ASSUME NEW K, NEW c \in K, NEW r \in Sound(K, c), NEW m \in CellNames, NEW kv \in Seq(Words),
         NEW ignored
  PROVE  LinkProperties(r, m, kv, ignored) \in Sound(K, c)
<1> DEFINE n == <<"properties", "">>
           o == Object(PROPERTY, n, m)
           p == [o EXCEPT !.props = kv]
<1>1. n \in Names /\ PROPERTY \in Int /\ PROPERTY < FIRSTPIN
  BY NamesIn DEF Names, Words
<1>3. LinkProperties(r, m, kv, ignored) \in {r, AddToCurrentCell(r, p)}
  BY DEF LinkProperties
<1> HIDE DEF n
<1>2. o \in Objects /\ o.type = PROPERTY /\ o.node = None
  <2> DEFINE t == PROPERTY
  <2>1. t \in Int
    BY <1>1
  <2> HIDE DEF t
  <2>2. Object(t, n, m) \in Objects /\ Object(t, n, m).type = t /\ Object(t, n, m).node = None
    BY ONLY <1>1, <2>1, m \in CellNames, ObjectIn
  <2> QED BY <2>2 DEF t
<1> HIDE DEF o
<1>4. p = [type |-> o.type, name |-> o.name, model |-> o.model, node |-> o.node, props |-> kv]
  BY <1>2, ObjectFields
<1>5. p \in Objects /\ p.type = o.type /\ p.node = o.node
  BY <1>2, <1>4, ObjectFields DEF Objects
<1> HIDE DEF p
<1>6. AddToCurrentCell(r, p) \in Sound(K, c)
  BY <1>1, <1>2, <1>5, AddSound
<1> QED BY <1>3, <1>6

\* A cell that is made between two lines of another one.
LEMMA MadeSound ==
  ASSUME NEW K, NEW c \in K, NEW m \in CellNames, NEW r \in Sound({m} \cup K, m), NEW class \in Words
  PROVE  ReopenCellDef(EndCell(SetClass(r, class)), c) \in Sound({m} \cup K, c)
<1> DEFINE L == {m} \cup K
           s == SetClass(r, class)
           t == EndCell(s)
<1>1. m \in L /\ c \in L /\ r \in Sound(L, m)
  OBVIOUS
<1> HIDE DEF L
<1>2. s \in Fine(L)
  BY <1>1, SetClassFine
<1> HIDE DEF s
<1>3. t \in Fine(L)
  BY <1>2, EndCellFine
<1> HIDE DEF t
<1>4. ReopenCellDef(t, c) \in Sound(L, c)
  BY <1>1, <1>3, ReopenSound
<1> QED BY <1>4 DEF s, t, L

LEMMA ModelSound ==
  ASSUME NEW K, NEW c \in K, NEW r \in Sound(K, c), NEW m \in CellNames, NEW ports \in Seq(Words),
         Opened[1] = c
  PROVE  DefineModel(r, m, ports) \in Sound({m} \cup K, c)
<1>1. CASE m \in K
  <2>1. DOMAIN r.cells = K /\ {m} \cup K = K
    BY <1>1 DEF Sound, Typed
  <2>2. DefineModel(r, m, ports) = r
    BY <1>1, <2>1 DEF DefineModel, LookupCell
  <2> QED BY <2>1, <2>2
<1>2. CASE m \notin K
  <2> DEFINE d == CellDef(r, m)
             p == FoldLeft(AddPort, d, ports)
             L == {m} \cup K
  <2>1. DOMAIN r.cells = K
    BY DEF Sound, Typed
  <2>2. DefineModel(r, m, ports) = ReopenCellDef(EndCell(SetClass(p, "device")), c)
    BY <1>2, <2>1 DEF DefineModel, LookupCell
  <2>3. d \in Sound(L, m) /\ m \in L
    BY SoundFine, OpenSound
  <2> HIDE DEF d, L
  <2>4. p \in Sound(L, m)
    BY <2>3, PortsSound
  <2> HIDE DEF p
  <2>5. "device" \in Words
    BY DEF Words
  <2> QED BY <2>2, <2>4, <2>5, MadeSound DEF L
<1> QED BY <1>1, <1>2

LEMMA PlaceholderSound ==
  ASSUME NEW K, NEW c \in K, NEW r \in Sound(K, c), NEW m \in CellNames, NEW nets,
         SubSeq(Numbers, 1, Len(nets)) \in Seq(Words) \/ nets = << >>,
         Opened[1] = c
  PROVE  Placeholder(r, m, nets) \in Sound({m} \cup K, c)
<1> DEFINE d == CellDef(r, m)
           p == IF nets = << >> THEN AddPort(d, NoPins)
                ELSE FoldLeft(AddPort, d, SubSeq(Numbers, 1, Len(nets)))
           L == {m} \cup K
<1>1. Placeholder(r, m, nets) = ReopenCellDef(EndCell(SetClass(p, "module")), c)
  BY DEF Placeholder
<1>2. d \in Sound(L, m) /\ m \in L
  BY SoundFine, OpenSound
<1> HIDE DEF d, L
<1>3. p \in Sound(L, m)
  <2>1. AddPort(d, NoPins) \in Sound(L, m)
    BY <1>2, NamesIn, AddsSound
  <2>2. nets # << >> => FoldLeft(AddPort, d, SubSeq(Numbers, 1, Len(nets))) \in Sound(L, m)
    BY <1>2, PortsSound
  <2> QED BY <2>1, <2>2
<1> HIDE DEF p
<1>4. "module" \in Words
  BY DEF Words
<1> QED BY <1>1, <1>3, <1>4, MadeSound DEF L

-----------------------------------------------------------------------------
(* The end of a subcircuit.                                                  *)

LEMMA MaxNodeIn ==
  ASSUME NEW objs \in Seq(Objects)
  PROVE  MaxNode(objs) \in Int
<1> DEFINE U == Int
           N == Len(objs)
           Of(h) == [s \in SUBSET (1..N) |->
                      IF s = {} THEN 0 ELSE (IF objs[Max(s)].node > h[s \ {Max(s)}] THEN objs[Max(s)].node + 1 ELSE h[s \ {Max(s)}])]
           e == CHOOSE h : h = Of(h)
           T == [x \in U \X (1..N) |-> (IF objs[x[2]].node > x[1] THEN objs[x[2]].node + 1 ELSE x[1])]
<1>1. N \in Nat /\ DOMAIN objs = 1..N /\ \A i \in 1..N : objs[i].node \in Int
  BY LenProperties, ElementOfSeq, ObjectFields
<1>2. MaxNode(objs) = e[1..N]
  <2> HIDE DEF N
  <2> QED BY <1>1 DEF MaxNode, FoldLeft, MapThenFoldSet
<1>3. 0 \in U
  OBVIOUS
<1> HIDE DEF N, U, e
<1>4. \A x \in U : \A i \in 1..N : (IF objs[i].node > x THEN objs[i].node + 1 ELSE x) \in U
  BY <1>1 DEF U
<1>5. T \in [U \X (1..N) -> U]
  BY <1>4
<1>6. PICK g \in [SUBSET (1..N) -> U] : \A s \in SUBSET (1..N) :
        g[s] = IF s = {} THEN 0 ELSE T[<<g[s \ {Max(s)}], Max(s)>>]
  <2> HIDE DEF T
  <2>1. IsLoop(U, N, 0, T)
    BY <1>1, <1>3, <1>5 DEF IsLoop
  <2>2. Runs(U, N, 0, T)
    BY <2>1, LoopRuns
  <2> QED BY <2>2 DEF Runs
<1>7. g = Of(g)
  <2>1. ASSUME NEW s \in SUBSET (1..N), s # {}
        PROVE  T[<<g[s \ {Max(s)}], Max(s)>>] = (IF objs[Max(s)].node > g[s \ {Max(s)}] THEN objs[Max(s)].node + 1 ELSE g[s \ {Max(s)}])
    <3>1. Max(s) \in 1..N /\ s \ {Max(s)} \in SUBSET (1..N)
      BY <1>1, <2>1, GreatestOf
    <3>2. <<g[s \ {Max(s)}], Max(s)>> \in U \X (1..N)
      BY <3>1
    <3> QED BY <3>2
  <2>2. g = [s \in SUBSET (1..N) |-> g[s]]
    OBVIOUS
  <2> HIDE DEF T
  <2> QED BY <1>6, <2>1, <2>2
<1>8. e = Of(e)
  <2> HIDE DEF Of
  <2> QED BY <1>7 DEF e
<1>9. e[{}] = 0 /\ \A i \in 1..N : e[1..i] = (IF objs[i].node > e[1..(i - 1)] THEN objs[i].node + 1 ELSE e[1..(i - 1)])
  <2>1. ASSUME NEW i \in 1..N PROVE e[1..i] = (IF objs[i].node > e[1..(i - 1)] THEN objs[i].node + 1 ELSE e[1..(i - 1)])
    <3>1. 1..i \in SUBSET (1..N) /\ i \in Nat /\ i # 0
      BY <1>1
    <3>2. Max(1..i) = i /\ (1..i) \ {i} = 1..(i - 1) /\ 1..i # {}
      BY <3>1, LastOf
    <3>3. e[1..i] = Of(e)[1..i]
      <4> HIDE DEF Of
      <4> QED BY <1>8
    <3> QED BY <3>1, <3>2, <3>3
  <2>2. e[{}] = 0
    BY <1>8
  <2> QED BY <2>1, <2>2
<1>10. e[1..N] \in U
  <2>1. e[{}] \in U
    BY <1>3, <1>9
  <2>2. \A i \in 1..N : e[1..(i - 1)] \in U => e[1..i] \in U
    BY <1>4, <1>9
  <2> QED BY <1>1, <2>1, <2>2, FoldStays
<1> QED BY <1>2, <1>10 DEF U

LEMMA NodeExcepted ==
  ASSUME NEW old, NEW new, SameObjects(old, new), NEW k \in DOMAIN new, NEW n \in Int
  PROVE  SameObjects(old, [new EXCEPT ![k].node = n])
<1> DEFINE d == [new EXCEPT ![k].node = n]
<1>1. /\ new \in Seq(Objects) /\ DOMAIN new = 1..Len(new) /\ Len(new) \in Nat
      /\ \A j \in DOMAIN new : new[j] \in Objects
  BY LenProperties, ElementOfSeq DEF SameObjects
<1>2. [new[k] EXCEPT !.node = n] =
        [type |-> new[k].type, name |-> new[k].name, model |-> new[k].model, node |-> n,
         props |-> new[k].props]
  <2> DEFINE o == new[k]
  <2>1. o \in Objects
    BY <1>1
  <2> HIDE DEF o
  <2>2. [o EXCEPT !.node = n] =
          [type |-> o.type, name |-> o.name, model |-> o.model, node |-> n, props |-> o.props]
    BY <2>1, ObjectFields
  <2> QED BY <2>2 DEF o
<1>3. [new[k] EXCEPT !.node = n] \in Objects
  BY <1>1, <1>2, ObjectFields DEF Objects
<1>4. /\ DOMAIN d = DOMAIN new /\ d = [j \in 1..Len(new) |-> d[j]]
      /\ \A j \in DOMAIN new : d[j] = IF j = k THEN [new[k] EXCEPT !.node = n] ELSE new[j]
  BY <1>1
<1> HIDE DEF d
<1>5. d \in Seq(Objects)
  BY <1>1, <1>3, <1>4
<1>6. \A j \in DOMAIN new : /\ d[j].type = new[j].type /\ d[j].name = new[j].name
                            /\ d[j].model = new[j].model /\ d[j].props = new[j].props
  BY <1>2, <1>4
<1>7. SameObjects(old, d)
  BY <1>4, <1>5, <1>6 DEF SameObjects
<1> QED BY <1>7 DEF d

LEMMA PortConnected ==
  ASSUME NEW old, NEW new, SameObjects(old, new), NEW k \in DOMAIN new, NEW proxy \in Int
  PROVE  SameObjects(old, ConnectPort(new, k, proxy))
<1> DEFINE S == {j \in DOMAIN new : /\ new[j].type = PORT /\ new[j].name = new[k].name
                                    /\ new[j].node # None}
<1>1. new \in Seq(Objects) /\ DOMAIN new = 1..Len(new) /\ \A j \in DOMAIN new : new[j] \in Objects
  BY LenProperties, ElementOfSeq DEF SameObjects
<1>2. S # {} => new[Min(S)].node \in Int
  <2>1. S \in SUBSET Nat
    BY <1>1
  <2>2. S # {} => Min(S) \in S
    <3> HIDE DEF S
    <3> QED BY <2>1, MinIn
  <2>3. \A j \in S : j \in DOMAIN new
    OBVIOUS
  <2> HIDE DEF S
  <2> QED BY <1>1, <2>2, <2>3, ObjectFields
<1>3. \/ ConnectPort(new, k, proxy) = new
      \/ ConnectPort(new, k, proxy) = [new EXCEPT ![k].node = proxy]
      \/ S # {} /\ ConnectPort(new, k, proxy) = [new EXCEPT ![k].node = new[Min(S)].node]
  BY DEF ConnectPort
<1> HIDE DEF S
<1>4. SameObjects(old, [new EXCEPT ![k].node = proxy])
  BY NodeExcepted
<1>5. S # {} => SameObjects(old, [new EXCEPT ![k].node = new[Min(S)].node])
  <2> DEFINE n == new[Min(S)].node
  <2>1. S # {} => n \in Int
    BY <1>2
  <2> HIDE DEF n
  <2>2. S # {} => SameObjects(old, [new EXCEPT ![k].node = n])
    BY <2>1, NodeExcepted
  <2> QED BY <2>2 DEF n
<1> QED BY <1>3, <1>4, <1>5

Connected(r, old, proxy) ==
  FoldLeft(LAMBDA x, k : ConnectPort(x, k, proxy), r, [k \in DOMAIN old |-> k])

LEMMA ConnectedSame ==
  ASSUME NEW r \in Seq(Objects), NEW proxy \in Int
  PROVE  SameObjects(r, Connected(r, r, proxy))
<1> DEFINE U == {x \in Seq(Objects) : SameObjects(r, x)}
           N == Len(r)
           Of(h) == [s \in SUBSET (1..N) |->
                      IF s = {} THEN r ELSE ConnectPort(h[s \ {Max(s)}], Max(s), proxy)]
           e == CHOOSE h : h = Of(h)
           T == [x \in U \X (1..N) |-> ConnectPort(x[1], x[2], proxy)]
<1>1. N \in Nat /\ DOMAIN r = 1..N
  BY LenProperties
<1>2. Connected(r, r, proxy) = e[1..N]
  <2> DEFINE make(x, k) == ConnectPort(x, k, proxy)
             ks == [k \in DOMAIN r |-> k]
             For(h) == [s \in SUBSET (1..N) |-> IF s = {} THEN r ELSE make(h[s \ {Max(s)}], ks[Max(s)])]
  <2>1. Connected(r, r, proxy) = FoldLeft(LAMBDA x, k : make(x, k), r, ks)
    BY DEF Connected
  <2>2. DOMAIN ks = 1..N
    BY <1>1
  <2>3. FoldLeft(LAMBDA x, k : make(x, k), r, ks) = (CHOOSE h : h = For(h))[1..N]
    <3> HIDE DEF ks, N, make
    <3> QED BY <2>2 DEF FoldLeft, MapThenFoldSet
  <2>4. \A s \in SUBSET (1..N) : s # {} => ks[Max(s)] = Max(s)
    <3> HIDE DEF N
    <3> QED BY <1>1, GreatestOf
  <2>5. \A h : For(h) = Of(h)
    <3> HIDE DEF ks, N
    <3> QED BY <2>4
  <2> HIDE DEF For, Of, ks
  <2> QED BY <2>1, <2>3, <2>5
<1>3. r \in U
  BY DEF SameObjects
<1> HIDE DEF N, U, e
<1>4. \A x \in U : \A i \in 1..N : ConnectPort(x, i, proxy) \in U
  <2>1. ASSUME NEW x \in U, NEW i \in 1..N PROVE ConnectPort(x, i, proxy) \in U
    <3>1. SameObjects(r, x) /\ i \in DOMAIN x
      BY <1>1 DEF U, SameObjects
    <3>2. SameObjects(r, ConnectPort(x, i, proxy))
      BY <3>1, PortConnected
    <3> QED BY <3>2 DEF U, SameObjects
  <2> QED BY <2>1
<1>5. T \in [U \X (1..N) -> U]
  BY <1>4
<1>6. PICK g \in [SUBSET (1..N) -> U] : \A s \in SUBSET (1..N) :
        g[s] = IF s = {} THEN r ELSE T[<<g[s \ {Max(s)}], Max(s)>>]
  <2> HIDE DEF T
  <2>1. IsLoop(U, N, r, T)
    BY <1>1, <1>3, <1>5 DEF IsLoop
  <2>2. Runs(U, N, r, T)
    BY <2>1, LoopRuns
  <2> QED BY <2>2 DEF Runs
<1>7. g = Of(g)
  <2>1. ASSUME NEW s \in SUBSET (1..N), s # {}
        PROVE  T[<<g[s \ {Max(s)}], Max(s)>>] = ConnectPort(g[s \ {Max(s)}], Max(s), proxy)
    <3>1. Max(s) \in 1..N /\ s \ {Max(s)} \in SUBSET (1..N)
      BY <1>1, <2>1, GreatestOf
    <3>2. <<g[s \ {Max(s)}], Max(s)>> \in U \X (1..N)
      BY <3>1
    <3> QED BY <3>2
  <2>2. g = [s \in SUBSET (1..N) |-> g[s]]
    OBVIOUS
  <2> HIDE DEF T
  <2> QED BY <1>6, <2>1, <2>2
<1>8. e = Of(e)
  <2> HIDE DEF Of
  <2> QED BY <1>7 DEF e
<1>9. e[{}] = r /\ \A i \in 1..N : e[1..i] = ConnectPort(e[1..(i - 1)], i, proxy)
  <2>1. ASSUME NEW i \in 1..N PROVE e[1..i] = ConnectPort(e[1..(i - 1)], i, proxy)
    <3>1. 1..i \in SUBSET (1..N) /\ i \in Nat /\ i # 0
      BY <1>1
    <3>2. Max(1..i) = i /\ (1..i) \ {i} = 1..(i - 1) /\ 1..i # {}
      BY <3>1, LastOf
    <3>3. e[1..i] = Of(e)[1..i]
      <4> HIDE DEF Of
      <4> QED BY <1>8
    <3> QED BY <3>1, <3>2, <3>3
  <2>2. e[{}] = r
    BY <1>8
  <2> QED BY <2>1, <2>2
<1>10. e[1..N] \in U
  <2>1. e[{}] \in U
    BY <1>3, <1>9
  <2>2. \A i \in 1..N : e[1..(i - 1)] \in U => e[1..i] \in U
    BY <1>4, <1>9
  <2> QED BY <1>1, <2>1, <2>2, FoldStays
<1> QED BY <1>2, <1>10 DEF U

LEMMA CleanupFine ==
  ASSUME NEW K, NEW c \in K, NEW r \in Sound(K, c)
  PROVE  CleanupSubcell(r) \in Fine(K)
<1> DEFINE old == Objs(r)
           mid == Connected(old, old, MaxNode(old))
           new == Chosen(mid, LAMBDA o : ~(o.type = GLOBAL /\ o.node = None))
           T == {o \in Objects : ~(o.type = GLOBAL /\ o.node = None)}
           d == WithList(r, new, r.next)
<1>1. r \in Typed(K, c) /\ CellsFine(r.cells, K)
  BY DEF Sound
<1>2. old \in Seq(Objects) /\ old = r.cells[c].objs /\ r.next \in Nat
  BY <1>1, ListOf
<1>3. InRows(old) /\ KnownModels(old, K)
  BY <1>1, <1>2 DEF CellsFine, Typed
<1>4. CleanupSubcell(r) = [r EXCEPT !.cells[r.cur].objs = new]
  BY DEF CleanupSubcell, Connected, Objs
<1> HIDE DEF old
<1>5. SameObjects(old, mid)
  BY <1>2, MaxNodeIn, ConnectedSame
<1> HIDE DEF mid
<1>6. mid \in Seq(Objects) /\ InRows(mid) /\ KnownModels(mid, K)
  BY <1>2, <1>3, <1>5, SameRows DEF SameObjects
<1>7. new \in Seq(Objects) /\ InRows(new) /\ KnownModels(new, K)
  <2>1. PICK x : Chooses(x, mid, T) /\ new = x[Len(mid)]
    BY <1>6, KeptChosen
  <2>2. \A o \in Objects : o.type >= FIRSTPIN => o \in T
    BY ObjectFields DEF FIRSTPIN, GLOBAL
  <2> HIDE DEF T, new
  <2> QED BY <1>6, <2>1, <2>2, ChoosesRows
<1> HIDE DEF new
<1>8. CleanupSubcell(r) = d
  BY <1>1, <1>4, Excepted
<1>9. d \in Typed(K, c) /\ Objs(d) = new /\ \A x \in K : x # c => d.cells[x] = r.cells[x]
  BY <1>1, <1>2, <1>7, ListOfNew
<1> HIDE DEF d
<1>10. d.cells[c].objs = new /\ d \in Builds /\ DOMAIN d.cells = K /\ DOMAIN r.cells = K
  BY <1>1, <1>9, ListOf DEF Typed
<1>11. CellsFine(d.cells, K)
  BY <1>1, <1>7, <1>9, <1>10 DEF CellsFine
<1> QED BY <1>8, <1>10, <1>11 DEF Fine

-----------------------------------------------------------------------------
(* Changes of all cells.                                                     *)

\* The cells with other lists of objects.
Relisted(cells, lists) == [x \in DOMAIN cells |-> [objs |-> lists[x], class |-> cells[x].class]]

\* The pins are those of the old list, and of cells L.
SamePins(old, new, L) ==
  /\ DOMAIN new = DOMAIN old
  /\ \A k \in DOMAIN old :
       /\ \/ new[k].type = old[k].type
          \/ new[k].type < FIRSTPIN /\ old[k].type < FIRSTPIN
       /\ new[k].name[1] = old[k].name[1]
       /\ new[k].type >= FIRSTPIN => new[k].model \in L

LEMMA SamePinsRows ==
  ASSUME NEW old \in Seq(Objects), NEW new \in Seq(Objects), NEW L, SamePins(old, new, L), InRows(old)
  PROVE  InRows(new) /\ KnownModels(new, L)
<1>1. DOMAIN old = 1..Len(old) /\ Len(old) \in Nat /\ \A k \in DOMAIN old : old[k] \in Objects
  BY LenProperties, ElementOfSeq
<1>2. \A k \in DOMAIN old : k \in DOMAIN new /\ old[k].type \in Int /\ new[k].type \in Int
  <2>1. DOMAIN new = DOMAIN old /\ \A k \in DOMAIN new : new[k] \in Objects
    BY LenProperties, ElementOfSeq DEF SamePins
  <2> QED BY <1>1, <2>1, ObjectFields
<1>3. ASSUME NEW k \in DOMAIN new, new[k].type > FIRSTPIN
      PROVE  /\ k > 1 /\ new[k - 1].type = new[k].type - 1
             /\ new[k - 1].name[1] = new[k].name[1]
  <2>1. k \in DOMAIN old /\ new[k].type = old[k].type /\ new[k].name[1] = old[k].name[1]
    BY <1>2, <1>3 DEF SamePins, FIRSTPIN
  <2>2. k > 1 /\ old[k - 1].type = old[k].type - 1 /\ old[k - 1].name[1] = old[k].name[1]
    BY <1>3, <2>1 DEF InRows
  <2>3. k - 1 \in DOMAIN old /\ ~(old[k - 1].type < FIRSTPIN)
    BY <1>1, <1>2, <1>3, <2>1, <2>2 DEF FIRSTPIN
  <2>4. new[k - 1].type = old[k - 1].type /\ new[k - 1].name[1] = old[k - 1].name[1]
    BY <2>3 DEF SamePins
  <2> QED BY <2>1, <2>2, <2>4
<1> QED BY <1>3 DEF InRows, KnownModels, SamePins

LEMMA RelistedFine ==
  ASSUME NEW K, NEW r \in Fine(K), NEW L, NEW lists,
         \A x \in K : lists[x] \in Seq(Objects) /\ SamePins(r.cells[x].objs, lists[x], L)
  PROVE  /\ Relisted(r.cells, lists) \in [K -> CellRecords]
         /\ \A x \in K : Relisted(r.cells, lists)[x].objs = lists[x]
         /\ CellsFine(Relisted(r.cells, lists), L)
<1> DEFINE new == Relisted(r.cells, lists)
<1>1. DOMAIN r.cells = K /\ CellsFine(r.cells, K) /\ \A x \in K : r.cells[x] \in CellRecords
  BY BuildFields DEF Fine
<1>2. new = [x \in K |-> [objs |-> lists[x], class |-> r.cells[x].class]]
  BY <1>1 DEF Relisted
<1>3. \A x \in K : new[x] = [objs |-> lists[x], class |-> r.cells[x].class] /\ new[x].objs = lists[x]
  BY <1>2
<1>4. \A x \in K : r.cells[x].objs \in Seq(Objects) /\ r.cells[x].class \in Words
  BY <1>1, RecordFields
<1>5. \A x \in K : [objs |-> lists[x], class |-> r.cells[x].class] \in CellRecords
  BY <1>4 DEF CellRecords
<1>6. DOMAIN new = K /\ new \in [K -> CellRecords]
  BY <1>2, <1>5
<1> HIDE DEF new
<1>7. ASSUME NEW x \in K PROVE InRows(lists[x]) /\ KnownModels(lists[x], L)
  <2>1. InRows(r.cells[x].objs)
    BY <1>1 DEF CellsFine
  <2> QED BY <1>4, <2>1, SamePinsRows
<1>8. CellsFine(new, L)
  BY <1>3, <1>6, <1>7 DEF CellsFine
<1> QED BY <1>3, <1>6, <1>8 DEF new

LEMMA RecordExcepted ==
  ASSUME NEW x \in CellRecords, NEW objs
  PROVE  [x EXCEPT !.objs = objs] = [objs |-> objs, class |-> x.class]
<1>1. x = [objs |-> x.objs, class |-> x.class]
  BY RecordFields
<1> DEFINE o == x.objs
           k == x.class
<1>2. x = [objs |-> o, class |-> k]
  BY <1>1
<1> HIDE DEF o, k
<1>3. [x EXCEPT !.objs = objs] = [objs |-> objs, class |-> k]
  BY <1>2
<1> QED BY <1>3 DEF k

\* Lists of cells that are changed object by object.
LEMMA ListMapped ==
  ASSUME NEW old \in Seq(Objects), NEW new, DOMAIN new = DOMAIN old, new = [k \in DOMAIN old |-> new[k]],
         \A k \in DOMAIN old : new[k] \in Objects
  PROVE  new \in Seq(Objects)
<1>1. DOMAIN old = 1..Len(old) /\ Len(old) \in Nat
  BY LenProperties
<1> QED BY <1>1

\* The build with other cells.
LEMMA CellsExcepted ==
  ASSUME NEW K, NEW r \in Fine(K), NEW cells
  PROVE  [r EXCEPT !.cells = cells] = [cells |-> cells, cur |-> r.cur, next |-> r.next]
<1> DEFINE u == r.cells
           c == r.cur
           n == r.next
<1>1. r = [cells |-> u, cur |-> c, next |-> n]
  BY BuildFields DEF Fine
<1> HIDE DEF u, c, n
<1>2. [r EXCEPT !.cells = cells] = [cells |-> cells, cur |-> c, next |-> n]
  BY <1>1
<1> QED BY <1>2 DEF c, n

\* If the nodes stay too, so does the build.
LEMMA RelistedSame ==
  ASSUME NEW K, NEW r \in Fine(K), NEW lists,
         \A x \in K : /\ lists[x] \in Seq(Objects) /\ SamePins(r.cells[x].objs, lists[x], K)
                      /\ \A k \in DOMAIN lists[x] : lists[x][k].node = r.cells[x].objs[k].node
  PROVE  /\ [r EXCEPT !.cells = Relisted(r.cells, lists)] \in Fine(K)
         /\ [r EXCEPT !.cells = Relisted(r.cells, lists)].cur = r.cur
         /\ \A c \in K : r \in Sound(K, c) => [r EXCEPT !.cells = Relisted(r.cells, lists)] \in Sound(K, c)
<1> DEFINE new == Relisted(r.cells, lists)
           d == [r EXCEPT !.cells = new]
<1>1. /\ new \in [K -> CellRecords] /\ CellsFine(new, K)
      /\ \A x \in K : new[x].objs = lists[x]
  <2>1. \A x \in K : lists[x] \in Seq(Objects) /\ SamePins(r.cells[x].objs, lists[x], K)
    OBVIOUS
  <2>2. /\ Relisted(r.cells, lists) \in [K -> CellRecords]
        /\ \A x \in K : Relisted(r.cells, lists)[x].objs = lists[x]
        /\ CellsFine(Relisted(r.cells, lists), K)
    BY ONLY r \in Fine(K), <2>1, RelistedFine
  <2> QED BY <2>2
<1>2. DOMAIN new = K
  BY <1>1
<1> HIDE DEF new
<1>3. d = [cells |-> new, cur |-> r.cur, next |-> r.next]
  BY CellsExcepted
<1>4. K \in SUBSET CellNames /\ r.cur \in CellNames /\ r.next \in Nat
  BY BuildFields DEF Fine
<1> HIDE DEF d
<1>5. d \in Builds
  BY <1>1, <1>3, <1>4, BuildOf
<1>6. d.cells = new /\ d.cur = r.cur /\ d.next = r.next
  BY <1>3
<1>7. d \in Fine(K)
  BY <1>1, <1>2, <1>5, <1>6 DEF Fine
<1>8. ASSUME NEW c \in K, r \in Sound(K, c) PROVE d \in Sound(K, c)
  <2>1. r.cur = c /\ r.next # 0 /\ Below(Objs(r), r.next) /\ Objs(r) = r.cells[c].objs
    BY <1>8 DEF Sound, Typed, Objs
  <2>2. d \in Typed(K, c) /\ Objs(d) = lists[c]
    BY <1>1, <1>2, <1>5, <1>6, <2>1 DEF Typed, Objs
  <2>3. DOMAIN lists[c] = DOMAIN Objs(r) /\ \A k \in DOMAIN lists[c] : lists[c][k].node = Objs(r)[k].node
    BY <2>1 DEF SamePins
  <2>4. Below(Objs(d), d.next)
    BY <1>6, <2>1, <2>2, <2>3 DEF Below
  <2> QED BY <1>1, <1>6, <2>1, <2>2, <2>4 DEF Sound
<1> QED BY <1>6, <1>7, <1>8 DEF d, new

\* The names of pins.
LEMMA RenamepinsFine ==
  ASSUME NEW K, NEW r \in Fine(K)
  PROVE  /\ [r EXCEPT !.cells = renamepins(@)] \in Fine(K)
         /\ [r EXCEPT !.cells = renamepins(@)].cur = r.cur
         /\ \A c \in K : r \in Sound(K, c) => [r EXCEPT !.cells = renamepins(@)] \in Sound(K, c)
<1> DEFINE cells == r.cells
           ports(m) == Chosen(cells[m].objs, LAMBDA p : p.type = PORT)
           new(o) == [o EXCEPT !.name = Pin(@[1], ports(o.model)[o.type])]
           renamed(o) == IF o.type >= FIRSTPIN /\ o.type <= Len(ports(o.model)) THEN new(o) ELSE o
           lists == [x \in DOMAIN cells |-> [k \in DOMAIN cells[x].objs |-> renamed(cells[x].objs[k])]]
<1>1. DOMAIN cells = K /\ CellsFine(cells, K) /\ \A x \in K : cells[x] \in CellRecords
  BY BuildFields DEF Fine
<1>2. \A x \in K : cells[x].objs \in Seq(Objects)
  BY <1>1, RecordFields
<1>3. \A m \in K : ports(m) \in Seq(Objects)
  BY <1>2, PortsOfList
<1>4. renamepins(cells) = [x \in DOMAIN cells |->
         [cells[x] EXCEPT !.objs = [k \in DOMAIN cells[x].objs |-> renamed(cells[x].objs[k])]]]
  BY DEF renamepins
<1> HIDE DEF ports
<1>5. ASSUME NEW o \in Objects, o.type >= FIRSTPIN => o.model \in K
      PROVE  /\ renamed(o) \in Objects /\ renamed(o).type = o.type /\ renamed(o).model = o.model
             /\ renamed(o).node = o.node /\ renamed(o).name[1] = o.name[1]
  <2>1. CASE o.type >= FIRSTPIN /\ o.type <= Len(ports(o.model))
    <3> DEFINE p == ports(o.model)[o.type]
               n == Pin(o.name[1], p)
    <3>1. o.type \in 1..Len(ports(o.model)) /\ ports(o.model) \in Seq(Objects)
      BY <1>3, <1>5, <2>1, ObjectFields, LenProperties DEF FIRSTPIN
    <3>2. p \in Objects
      BY <3>1, ElementOfSeq
    <3>3. new(o) = [o EXCEPT !.name = n]
      OBVIOUS
    <3> HIDE DEF p
    <3>4. p.name[2] \in Words /\ o.name[1] \in Words
      BY <3>2, ObjectFields
    <3>5. n \in Names /\ n[1] = o.name[1]
      BY <3>4 DEF Pin, Names
    <3> HIDE DEF n
    <3>6. [o EXCEPT !.name = n] = [type |-> o.type, name |-> n, model |-> o.model, node |-> o.node,
                                   props |-> o.props]
      BY ObjectFields
    <3> HIDE DEF new
    <3>7. renamed(o) = [type |-> o.type, name |-> n, model |-> o.model, node |-> o.node, props |-> o.props]
      BY <2>1, <3>3, <3>6
    <3> HIDE DEF renamed
    <3>8. renamed(o) \in Objects
      BY <3>5, <3>7, ObjectFields DEF Objects
    <3> QED BY <3>5, <3>7, <3>8
  <2>2. CASE ~(o.type >= FIRSTPIN /\ o.type <= Len(ports(o.model)))
    <3> HIDE DEF new
    <3> QED BY <2>2
  <2> QED BY <2>1, <2>2
<1> HIDE DEF renamed
<1>6. ASSUME NEW x \in K
      PROVE  /\ lists[x] \in Seq(Objects) /\ SamePins(cells[x].objs, lists[x], K)
             /\ \A k \in DOMAIN lists[x] : lists[x][k].node = cells[x].objs[k].node
  <2> DEFINE old == cells[x].objs
             s == lists[x]
  <2>1. DOMAIN s = DOMAIN old /\ s = [k \in DOMAIN old |-> s[k]] /\ \A k \in DOMAIN old : s[k] = renamed(old[k])
    BY <1>1
  <2>2. old \in Seq(Objects) /\ InRows(old) /\ KnownModels(old, K) /\ \A k \in DOMAIN old : old[k] \in Objects
    BY <1>1, <1>2, LenProperties, ElementOfSeq DEF CellsFine
  <2> HIDE DEF lists
  <2>3. ASSUME NEW k \in DOMAIN old
        PROVE  /\ s[k] \in Objects /\ s[k].type = old[k].type /\ s[k].model = old[k].model
               /\ s[k].node = old[k].node /\ s[k].name[1] = old[k].name[1]
               /\ old[k].type >= FIRSTPIN => old[k].model \in K
    <3> DEFINE o == old[k]
    <3>1. o \in Objects /\ (o.type >= FIRSTPIN => o.model \in K) /\ s[k] = renamed(o)
      BY <2>1, <2>2 DEF KnownModels
    <3> HIDE DEF o, s
    <3>2. /\ s[k] \in Objects /\ s[k].type = o.type /\ s[k].model = o.model /\ s[k].node = o.node
          /\ s[k].name[1] = o.name[1]
      BY <1>5, <3>1
    <3> QED BY <3>1, <3>2 DEF o
  <2> HIDE DEF old, s
  <2>4. s \in Seq(Objects)
    BY <2>1, <2>2, <2>3, ListMapped
  <2>5. SamePins(old, s, K)
    BY <2>1, <2>3 DEF SamePins
  <2> QED BY <2>1, <2>3, <2>4, <2>5 DEF old, s
<1>7. renamepins(cells) = Relisted(cells, lists)
  <2>1. ASSUME NEW x \in K
        PROVE  [cells[x] EXCEPT !.objs = [k \in DOMAIN cells[x].objs |-> renamed(cells[x].objs[k])]]
                 = [objs |-> lists[x], class |-> cells[x].class]
    <3> DEFINE s == lists[x]
    <3>1. s = [k \in DOMAIN cells[x].objs |-> renamed(cells[x].objs[k])]
      BY <1>1
    <3> HIDE DEF lists, s
    <3>2. [cells[x] EXCEPT !.objs = s] = [objs |-> s, class |-> cells[x].class]
      BY <1>1, RecordExcepted
    <3> QED BY <3>1, <3>2 DEF s
  <2> HIDE DEF lists
  <2> QED BY <1>1, <1>4, <2>1 DEF Relisted
<1> HIDE DEF lists
<1>8. [r EXCEPT !.cells = renamepins(@)] = [r EXCEPT !.cells = Relisted(r.cells, lists)]
  BY <1>7
<1> QED BY <1>6, <1>8, RelistedSame

\* The scope of nets.
LEMMA ScopeSound ==
  ASSUME NEW K, NEW c \in K, NEW r \in Sound(K, c), NEW g
  PROVE  ChangeScopeCurrent(r, g) \in Sound(K, c)
<1> DEFINE cells == r.cells
           under == Under(r, r.cur)
           new(o) == [o EXCEPT !.type = GLOBAL]
           scoped(o) == IF IsLocal(o, g) THEN new(o) ELSE o
           list(x) == [k \in DOMAIN cells[x].objs |-> scoped(cells[x].objs[k])]
           lists == [x \in DOMAIN cells |-> IF x \notin under THEN cells[x].objs ELSE list(x)]
<1>1. DOMAIN cells = K /\ CellsFine(cells, K) /\ \A x \in K : cells[x] \in CellRecords
  BY BuildFields DEF Sound, Typed
<1>2. \A x \in K : cells[x].objs \in Seq(Objects)
  BY <1>1, RecordFields
<1>3. ChangeScopeCurrent(r, g) = [r EXCEPT !.cells = [x \in DOMAIN cells |->
         IF x \notin under THEN cells[x] ELSE [cells[x] EXCEPT !.objs = list(x)]]]
  BY DEF ChangeScopeCurrent
<1> HIDE DEF under
<1>4. ASSUME NEW o \in Objects
      PROVE  /\ scoped(o) \in Objects /\ scoped(o).model = o.model /\ scoped(o).node = o.node
             /\ scoped(o).name[1] = o.name[1]
             /\ scoped(o).type = o.type \/ (scoped(o).type < FIRSTPIN /\ o.type < FIRSTPIN)
  <2>1. CASE IsLocal(o, g)
    <3>1. new(o) = [type |-> GLOBAL, name |-> o.name, model |-> o.model, node |-> o.node,
                    props |-> o.props]
      BY ObjectFields
    <3> HIDE DEF new
    <3>2. scoped(o) = [type |-> GLOBAL, name |-> o.name, model |-> o.model, node |-> o.node,
                       props |-> o.props]
      BY <2>1, <3>1
    <3> HIDE DEF scoped
    <3>3. scoped(o) \in Objects
      BY <3>2, NamesIn, ObjectFields DEF Objects
    <3>4. o.type < FIRSTPIN
      BY <2>1, NamesIn DEF IsLocal
    <3> QED BY <3>2, <3>3, <3>4, NamesIn
  <2>2. CASE ~IsLocal(o, g)
    <3> HIDE DEF new
    <3> QED BY <2>2
  <2> QED BY <2>1, <2>2
<1> HIDE DEF scoped
<1>5. ASSUME NEW x \in K
      PROVE  /\ list(x) \in Seq(Objects) /\ SamePins(cells[x].objs, list(x), K)
             /\ \A k \in DOMAIN list(x) : list(x)[k].node = cells[x].objs[k].node
  <2> DEFINE old == cells[x].objs
             s == list(x)
  <2>1. DOMAIN s = DOMAIN old /\ s = [k \in DOMAIN old |-> s[k]] /\ \A k \in DOMAIN old : s[k] = scoped(old[k])
    OBVIOUS
  <2>2. old \in Seq(Objects) /\ InRows(old) /\ KnownModels(old, K) /\ \A k \in DOMAIN old : old[k] \in Objects
    BY <1>1, <1>2, LenProperties, ElementOfSeq DEF CellsFine
  <2> HIDE DEF old, s
  <2>3. ASSUME NEW k \in DOMAIN old
        PROVE  /\ s[k] \in Objects /\ s[k].model = old[k].model
               /\ s[k].type = old[k].type \/ (s[k].type < FIRSTPIN /\ old[k].type < FIRSTPIN)
               /\ s[k].node = old[k].node /\ s[k].name[1] = old[k].name[1]
               /\ old[k].type >= FIRSTPIN => old[k].model \in K
    <3> DEFINE o == old[k]
    <3>1. o \in Objects /\ (o.type >= FIRSTPIN => o.model \in K) /\ s[k] = scoped(o)
      BY <2>1, <2>2 DEF KnownModels
    <3> HIDE DEF o
    <3>2. /\ s[k] \in Objects /\ s[k].model = o.model /\ s[k].node = o.node
          /\ s[k].name[1] = o.name[1]
          /\ s[k].type = o.type \/ (s[k].type < FIRSTPIN /\ o.type < FIRSTPIN)
      BY <1>4, <3>1
    <3> QED BY <3>1, <3>2 DEF o
  <2>4. s \in Seq(Objects)
    BY <2>1, <2>2, <2>3, ListMapped
  <2>5. SamePins(old, s, K)
    <3>1. \A k \in DOMAIN old : s[k].type \in Int /\ (s[k].type >= FIRSTPIN => old[k].type >= FIRSTPIN)
      <4>1. ASSUME NEW k \in DOMAIN old
            PROVE  s[k].type \in Int /\ (s[k].type >= FIRSTPIN => old[k].type >= FIRSTPIN)
        <5>1. s[k].type \in Int
          BY <2>3, ObjectFields
        <5> QED BY <2>3, <5>1 DEF FIRSTPIN
      <4> QED BY <4>1
    <3> QED BY <2>1, <2>3, <3>1 DEF SamePins
  <2> QED BY <2>1, <2>3, <2>4, <2>5 DEF old, s
<1>6. ASSUME NEW x \in K PROVE SamePins(cells[x].objs, cells[x].objs, K)
  BY <1>1 DEF SamePins, CellsFine, KnownModels
<1> HIDE DEF list
<1>7. \A x \in K : lists[x] = IF x \notin under THEN cells[x].objs ELSE list(x)
  BY <1>1
<1>8. [x \in DOMAIN cells |-> IF x \notin under THEN cells[x] ELSE [cells[x] EXCEPT !.objs = list(x)]]
        = Relisted(cells, lists)
  <2>1. ASSUME NEW x \in K
        PROVE  (IF x \notin under THEN cells[x] ELSE [cells[x] EXCEPT !.objs = list(x)])
                 = [objs |-> lists[x], class |-> cells[x].class]
    <3>1. [cells[x] EXCEPT !.objs = list(x)] = [objs |-> list(x), class |-> cells[x].class]
      BY <1>1, RecordExcepted
    <3>2. cells[x] = [objs |-> cells[x].objs, class |-> cells[x].class]
      BY <1>1, RecordFields
    <3> HIDE DEF lists
    <3> QED BY <1>7, <3>1, <3>2
  <2> HIDE DEF lists
  <2> QED BY <1>1, <2>1 DEF Relisted
<1> HIDE DEF lists
<1>9. \A x \in K : /\ lists[x] \in Seq(Objects) /\ SamePins(cells[x].objs, lists[x], K)
                   /\ \A k \in DOMAIN lists[x] : lists[x][k].node = cells[x].objs[k].node
  BY <1>2, <1>5, <1>6, <1>7
<1>10. r \in Fine(K)
  BY SoundFine
<1>11. [r EXCEPT !.cells = Relisted(r.cells, lists)] \in Sound(K, c)
  BY <1>9, <1>10, RelistedSame
<1> QED BY <1>3, <1>8, <1>11

\* The class of a cell.
LEMMA ClassFine ==
  ASSUME NEW K, NEW r \in Fine(K), NEW m \in K, NEW class \in Words,
         NEW d, d = [r EXCEPT !.cells[m].class = class]
  PROVE  /\ d \in Fine(K) /\ d.cur = r.cur
         /\ \A c \in K : r \in Sound(K, c) => d \in Sound(K, c)
<1> DEFINE old == r.cells
           new == [y \in K |-> IF y = m THEN [objs |-> old[m].objs, class |-> class] ELSE old[y]]
<1>1. /\ DOMAIN old = K /\ CellsFine(old, K) /\ K \in SUBSET CellNames /\ r.cur \in CellNames
      /\ r.next \in Nat /\ old = [y \in K |-> old[y]] /\ \A y \in K : old[y] \in CellRecords
  BY BuildFields DEF Fine
<1>2. d = [r EXCEPT !.cells = [old EXCEPT ![m].class = class]]
  OBVIOUS
<1>3. old[m] = [objs |-> old[m].objs, class |-> old[m].class] /\ old[m].objs \in Seq(Objects)
  BY <1>1, RecordFields
<1> HIDE DEF old
<1>4. [old EXCEPT ![m].class = class] = new
  <2>1. [old[m] EXCEPT !.class = class] = [objs |-> old[m].objs, class |-> class]
    BY <1>3
  <2>2. [old EXCEPT ![m] = [old[m] EXCEPT !.class = class]] = new
    BY <1>1, <2>1
  <2> HIDE DEF new
  <2> QED BY <2>2
<1>5. new \in [K -> CellRecords]
  <2>1. [objs |-> old[m].objs, class |-> class] \in CellRecords
    BY <1>3 DEF CellRecords
  <2> QED BY <1>1, <2>1
<1>6. DOMAIN new = K /\ \A y \in K : new[y].objs = old[y].objs
  OBVIOUS
<1> HIDE DEF new
<1>7. d = [cells |-> new, cur |-> r.cur, next |-> r.next]
  BY <1>2, <1>4, CellsExcepted
<1>8. d \in Builds
  BY ONLY <1>1, <1>5, <1>7, BuildOf
<1>9. d.cells = new /\ d.cur = r.cur /\ d.next = r.next
  BY ONLY <1>7
<1>10. CellsFine(new, K)
  BY <1>1, <1>6 DEF CellsFine
<1>11. d \in Fine(K)
  BY <1>6, <1>8, <1>9, <1>10 DEF Fine
<1>12. ASSUME NEW c \in K, r \in Sound(K, c) PROVE d \in Sound(K, c)
  <2>1. r.cur = c /\ r.next # 0 /\ Below(Objs(r), r.next) /\ Objs(r) = old[c].objs
    BY <1>12 DEF Sound, Typed, Objs, old
  <2>2. d \in Typed(K, c) /\ Objs(d) = old[c].objs
    BY <1>6, <1>8, <1>9, <2>1 DEF Typed, Objs
  <2> QED BY <1>9, <1>10, <2>1, <2>2 DEF Sound
<1> QED BY <1>9, <1>11, <1>12

\* Another name for a cell and in all its instances.
LEMMA RenamedFine ==
  ASSUME NEW K, NEW r \in Fine(K), NEW from \in K, NEW to \in CellNames, to \notin K, NEW L,
         L = {to} \cup (K \ {from})
  PROVE  CellRehash(InstanceRename(r, from, to), from, to) \in Fine(L)
<1> DEFINE cells == r.cells
           new(o) == [o EXCEPT !.model = to]
           renamed(o) == IF o.model = from THEN new(o) ELSE o
           list(x) == [k \in DOMAIN cells[x].objs |-> renamed(cells[x].objs[k])]
           lists == [x \in DOMAIN cells |-> list(x)]
           mid == Relisted(cells, lists)
           s == InstanceRename(r, from, to)
<1>1. DOMAIN cells = K /\ CellsFine(cells, K) /\ \A x \in K : cells[x] \in CellRecords
  BY BuildFields DEF Fine
<1>2. \A x \in K : cells[x].objs \in Seq(Objects)
  BY <1>1, RecordFields
<1>3. s = [r EXCEPT !.cells = [x \in DOMAIN cells |-> [cells[x] EXCEPT !.objs = list(x)]]]
  BY DEF InstanceRename
<1> HIDE DEF s
<1>4. ASSUME NEW o \in Objects, o.type >= FIRSTPIN => o.model \in K
      PROVE  /\ renamed(o) \in Objects /\ renamed(o).type = o.type
             /\ renamed(o).name[1] = o.name[1]
             /\ o.type >= FIRSTPIN => renamed(o).model \in L
  <2>1. CASE o.model = from
    <3>1. new(o) = [type |-> o.type, name |-> o.name, model |-> to, node |-> o.node,
                    props |-> o.props]
      BY ObjectFields
    <3> HIDE DEF new
    <3>2. renamed(o) = [type |-> o.type, name |-> o.name, model |-> to, node |-> o.node,
                        props |-> o.props]
      BY <2>1, <3>1
    <3> HIDE DEF renamed
    <3>3. renamed(o) \in Objects
      BY <3>2, ObjectFields DEF Objects
    <3> QED BY <3>2, <3>3
  <2>2. CASE o.model # from
    <3> HIDE DEF new
    <3> QED BY <1>4, <2>2
  <2> QED BY <2>1, <2>2
<1> HIDE DEF renamed
<1>5. ASSUME NEW x \in K
      PROVE  list(x) \in Seq(Objects) /\ SamePins(cells[x].objs, list(x), L)
  <2> DEFINE old == cells[x].objs
             t == list(x)
  <2>1. DOMAIN t = DOMAIN old /\ t = [k \in DOMAIN old |-> t[k]] /\ \A k \in DOMAIN old : t[k] = renamed(old[k])
    OBVIOUS
  <2>2. old \in Seq(Objects) /\ InRows(old) /\ KnownModels(old, K) /\ \A k \in DOMAIN old : old[k] \in Objects
    BY <1>1, <1>2, LenProperties, ElementOfSeq DEF CellsFine
  <2> HIDE DEF old, t
  <2>3. ASSUME NEW k \in DOMAIN old
        PROVE  /\ t[k] \in Objects /\ t[k].type = old[k].type /\ t[k].name[1] = old[k].name[1]
               /\ old[k].type >= FIRSTPIN => t[k].model \in L
    <3> DEFINE o == old[k]
    <3>1. o \in Objects /\ (o.type >= FIRSTPIN => o.model \in K) /\ t[k] = renamed(o)
      BY <2>1, <2>2 DEF KnownModels
    <3> HIDE DEF o
    <3>2. /\ t[k] \in Objects /\ t[k].type = o.type /\ t[k].name[1] = o.name[1]
          /\ o.type >= FIRSTPIN => t[k].model \in L
      BY <1>4, <3>1
    <3> QED BY <3>1, <3>2 DEF o
  <2>4. t \in Seq(Objects)
    BY <2>1, <2>2, <2>3, ListMapped
  <2>5. SamePins(old, t, L)
    BY <2>1, <2>3 DEF SamePins
  <2> QED BY <2>4, <2>5 DEF old, t
<1> HIDE DEF list
<1>6. \A x \in K : lists[x] = list(x)
  BY <1>1
<1>7. [x \in DOMAIN cells |-> [cells[x] EXCEPT !.objs = list(x)]] = mid
  <2>1. \A x \in K : [cells[x] EXCEPT !.objs = list(x)] = [objs |-> lists[x], class |-> cells[x].class]
    BY <1>1, <1>6, RecordExcepted
  <2> HIDE DEF lists
  <2> QED BY <1>1, <2>1 DEF Relisted
<1> HIDE DEF lists
<1>8. mid \in [K -> CellRecords] /\ CellsFine(mid, L)
  <2>1. \A x \in K : lists[x] \in Seq(Objects) /\ SamePins(r.cells[x].objs, lists[x], L)
    BY <1>5, <1>6
  <2> QED BY <2>1, RelistedFine
<1> HIDE DEF mid
<1>9. s = [cells |-> mid, cur |-> r.cur, next |-> r.next]
  BY <1>3, <1>7, CellsExcepted
<1> DEFINE c == r.cur
           n == r.next
           less == [x \in K \ {from} |-> mid[x]]
           all == WithCell(less, to, mid[from])
           d == CellRehash(s, from, to)
<1>10. K \in SUBSET CellNames /\ c \in CellNames /\ n \in Nat
  BY BuildFields DEF Fine
<1>11. s = [cells |-> mid, cur |-> c, next |-> n]
  BY <1>9
<1> HIDE DEF c, n
<1>12. CellDelete(s, from) = [cells |-> less, cur |-> c, next |-> n]
  BY <1>8, <1>11 DEF CellDelete
<1>13. all = [x \in L |-> IF x = to THEN mid[from] ELSE mid[x]]
  BY DEF WithCell
<1>14. all \in [L -> CellRecords] /\ L \in SUBSET CellNames
  BY <1>8, <1>10, <1>13
<1> HIDE DEF less
<1> DEFINE e == IF c = from THEN to ELSE c
<1>15. d = [cells |-> all, cur |-> e, next |-> n]
  <2> DEFINE t == CellDelete(s, from)
  <2>1. t = [cells |-> less, cur |-> c, next |-> n]
    BY <1>12
  <2>2. s.cells = mid
    BY <1>11
  <2>3. d = [t EXCEPT !.cells = WithCell(t.cells, to, s.cells[from]),
                      !.cur = IF t.cur = from THEN to ELSE t.cur]
    BY DEF CellRehash
  <2> HIDE DEF t, d
  <2>4. WithCell(t.cells, to, s.cells[from]) = all /\ (IF t.cur = from THEN to ELSE t.cur) = e
    BY <2>1, <2>2
  <2>5. d = [t EXCEPT !.cells = all, !.cur = e]
    BY <2>3, <2>4
  <2> HIDE DEF all, e
  <2> QED BY <2>1, <2>5
<1>16. CellsFine(all, L)
  <2>1. \A x \in L : all[x] = mid[from] \/ (x \in K /\ all[x] = mid[x])
    BY <1>13
  <2>2. DOMAIN mid = K /\ DOMAIN all = L
    BY <1>8, <1>14
  <2> HIDE DEF all
  <2> QED BY <1>8, <2>1, <2>2 DEF CellsFine
<1> HIDE DEF all, d
<1>17. d \in Builds /\ d.cells = all
  <2>1. e \in CellNames /\ d = [cells |-> all, cur |-> e, next |-> n]
    BY <1>10, <1>15
  <2> HIDE DEF e
  <2>2. d \in Builds
    BY <1>10, <1>14, <2>1, BuildOf
  <2> QED BY <2>1, <2>2
<1>18. d \in Fine(L)
  BY <1>14, <1>16, <1>17 DEF Fine
<1> QED BY <1>18 DEF d, s

-----------------------------------------------------------------------------
(* Between the lines.                                                        *)

\* No cell is without a name, and numbers of cells are below that of the line.
Numbered(K, n) == NoCell \notin K /\ \A x \in K : x[2] < n

\* Cells r and open cells s when n lines have been read.
Kept(r, s, n) ==
  LET K == DOMAIN r.cells
  IN  /\ r \in Fine(K) /\ Numbered(K, n) /\ s \in Seq(K)
      /\ r.cur # NoCell => r.cur \in K /\ r \in Sound(K, r.cur)

\* The innermost of the open cells is the current one.
Here(r, s, n) == Kept(r, s, n) /\ r.cur = Head(s \o <<NoCell>>)

\* Some cell is open.
Working(r, s, n, K) == r \in Sound(K, s[1]) /\ s \in Seq(K) /\ s # << >> /\ Numbered(K, n)

LEMMA NotEmpty ==
  ASSUME NEW K, NEW s \in Seq(K), Len(s) >= 1
  PROVE  s # << >>
<1>1. Len(<< >>) = 0
  BY EmptySeq
<1>2. SUFFICES ASSUME s = << >> PROVE FALSE
  OBVIOUS
<1>3. Len(s) = 0
  BY <1>1, <1>2
<1> QED BY <1>3

LEMMA RestOf ==
  ASSUME NEW K, NEW s \in Seq(K), s # << >>
  PROVE  /\ s[1] \in K /\ Tail(s) \in Seq(K) /\ Len(s) \in Nat /\ Len(s) >= 1
         /\ Len(s) > 1 => Tail(s) # << >> /\ Tail(s)[1] = s[2] /\ s[2] \in K
         /\ ~(Len(s) > 1) => Tail(s) = << >>
<1>1. Len(s) \in Nat /\ Len(s) >= 1 /\ s[1] \in K
  BY EmptySeq, LenProperties, ElementOfSeq
<1>2. /\ Tail(s) \in Seq(K) /\ Len(Tail(s)) = Len(s) - 1
      /\ \A i \in 1..Len(Tail(s)) : Tail(s)[i] = s[i + 1]
  BY <1>1, HeadTailProperties
<1> DEFINE t == Tail(s)
<1>3. /\ t \in Seq(K) /\ Len(t) = Len(s) - 1 /\ \A i \in 1..Len(t) : t[i] = s[i + 1]
  BY <1>2
<1> HIDE DEF t
<1>4. ASSUME Len(s) > 1 PROVE t # << >> /\ t[1] = s[2] /\ s[2] \in K
  <2>1. 1 \in 1..Len(t) /\ 2 \in 1..Len(s) /\ Len(t) >= 1
    BY <1>1, <1>3, <1>4
  <2>2. t[1] = s[2] /\ s[2] \in K
    BY <1>3, <2>1, ElementOfSeq
  <2>3. t # << >>
    BY <1>3, <2>1, NotEmpty
  <2> QED BY <2>2, <2>3
<1>5. ASSUME ~(Len(s) > 1) PROVE t = << >>
  <2>1. Len(t) = 0
    BY <1>1, <1>3, <1>5
  <2> QED BY <1>3, <2>1, EmptySeq
<1> QED BY <1>1, <1>3, <1>4, <1>5 DEF t

LEMMA FirstOf ==
  ASSUME NEW K, NEW s \in Seq(K)
  PROVE  /\ s = << >> => Head(s \o <<NoCell>>) = NoCell
         /\ s # << >> => Head(s \o <<NoCell>>) = s[1] /\ s[1] \in K
<1>1. CASE s = << >>
  <2>1. s \o <<NoCell>> = <<NoCell>>
    BY <1>1, ConcatEmptySeq
  <2> QED BY <1>1, <2>1
<1>2. CASE s # << >>
  <2>1. Len(s) \in Nat /\ Len(s) >= 1 /\ s[1] \in K
    BY <1>2, RestOf
  <2>2. Head(s \o <<NoCell>>) = s[1]
    <3> DEFINE M == K \cup {NoCell}
    <3>1. s \in Seq(M) /\ <<NoCell>> \in Seq(M)
      BY SeqMonotonic
    <3> HIDE DEF M
    <3>2. (s \o <<NoCell>>)[1] = s[1]
      BY <2>1, <3>1
    <3>3. s \o <<NoCell>> \in Seq(M) /\ Len(s \o <<NoCell>>) = Len(s) + 1
      BY <3>1
    <3> QED BY <2>1, <3>2, <3>3
  <2> QED BY <1>2, <2>1, <2>2
<1> QED BY <1>1, <1>2

LEMMA WorkingHere ==
  ASSUME NEW r, NEW s, NEW n, NEW K, Working(r, s, n, K)
  PROVE  Here(r, s, n)
<1>1. r \in Sound(K, s[1]) /\ s \in Seq(K) /\ s # << >> /\ Numbered(K, n)
  BY DEF Working
<1>2. s[1] \in K /\ Head(s \o <<NoCell>>) = s[1]
  BY <1>1, FirstOf
<1>3. DOMAIN r.cells = K /\ r.cur = s[1]
  BY <1>1 DEF Sound, Typed
<1>4. r \in Fine(K)
  BY <1>1, SoundFine
<1> QED BY <1>1, <1>2, <1>3, <1>4 DEF Here, Kept

LEMMA HereWorking ==
  ASSUME NEW r, NEW s, NEW n, Here(r, s, n), s # << >>
  PROVE  Working(r, s, n, DOMAIN r.cells)
<1> DEFINE K == DOMAIN r.cells
<1>1. /\ r \in Fine(K) /\ Numbered(K, n) /\ s \in Seq(K) /\ r.cur = Head(s \o <<NoCell>>)
      /\ r.cur # NoCell => r.cur \in K /\ r \in Sound(K, r.cur)
  BY DEF Here, Kept
<1> HIDE DEF K
<1>2. r.cur = s[1] /\ s[1] \in K
  BY <1>1, FirstOf
<1>3. Working(r, s, n, K)
  BY <1>1, <1>2 DEF Working, Numbered
<1> QED BY <1>3 DEF K

LEMMA MoreNumbered ==
  ASSUME NEW K, NEW n \in Nat, Numbered(K, n), NEW m \in CellNames, m # NoCell, m[2] < n
  PROVE  Numbered({m} \cup K, n)
BY DEF Numbered

LEMMA LaterNumbered ==
  ASSUME NEW K \in SUBSET CellNames, NEW n \in Nat, Numbered(K, n)
  PROVE  Numbered(K, n + 1)
<1>1. \A x \in K : x[2] \in Int
  BY DEF CellNames
<1> QED BY <1>1 DEF Numbered

LEMMA LaterHere ==
  ASSUME NEW r, NEW s, NEW n \in Nat
  PROVE  (Here(r, s, n) => Here(r, s, n + 1)) /\ (Kept(r, s, n) => Kept(r, s, n + 1))
<1>1. ASSUME Kept(r, s, n) PROVE Kept(r, s, n + 1)
  <2>1. DOMAIN r.cells \in SUBSET CellNames
    BY <1>1, BuildFields DEF Kept, Fine
  <2>2. Numbered(DOMAIN r.cells, n + 1)
    BY <1>1, <2>1, LaterNumbered DEF Kept
  <2> QED BY <1>1, <2>2 DEF Kept
<1> QED BY <1>1 DEF Here

\* Names of cells.
LEMMA NamedIs ==
  ASSUME NEW m, IsName(m), NEW n \in Nat
  PROVE  Named(m) \in CellNames /\ Named(m) # NoCell /\ Named(m)[2] < n /\ m \in Words
<1> DEFINE e == ""
           k == -1
<1>1. m \in Words /\ m # e /\ k \in Int /\ k < n
  <2>1. m \in STRING /\ m # ""
    BY DEF IsName
  <2>2. STRING \subseteq Words
    BY DEF Words
  <2>3. k \in Int /\ k < n
    OBVIOUS
  <2> HIDE DEF k
  <2>4. m # e
    BY <2>1
  <2> HIDE DEF e
  <2> QED BY <2>1, <2>2, <2>3, <2>4
<1>2. Named(m) = <<m, k>> /\ NoCell = <<e, k>>
  BY DEF Named, NoCell, Original
<1> HIDE DEF e, k
<1>3. <<m, k>> # <<e, k>> /\ <<m, k>>[2] = k /\ <<m, k>> \in CellNames
  BY <1>1 DEF CellNames
<1> QED BY <1>1, <1>2, <1>3

LEMMA TopIs ==
  ASSUME NEW n \in Nat
  PROVE  Top \in CellNames /\ Top # NoCell /\ Top[2] < n
BY FilesAreText, NamedIs DEF Top

LEMMA StackKnown ==
  ASSUME NEW K, NEW L, K \subseteq L, NEW s \in Seq(K)
  PROVE  s \in Seq(L)
BY SeqMonotonic

LEMMA OpenWorking ==
  ASSUME NEW n \in Nat, Here(b, stack, n)
  PROVE  \E K : Working(Open, Opened, n, K)
<1> DEFINE K == DOMAIN b.cells
<1>1. CASE stack = << >>
  <2>1. b \in Fine(K) /\ Numbered(K, n)
    BY DEF Here, Kept
  <2>2. Top \in CellNames /\ Top # NoCell /\ Top[2] < n
    BY TopIs
  <2>3. CellDef(b, Top) \in Sound({Top} \cup K, Top)
    BY <2>1, <2>2, OpenSound
  <2>4. Numbered({Top} \cup K, n)
    BY <2>1, <2>2, MoreNumbered
  <2>5. Opened = <<Top>> /\ Open = CellDef(b, Top)
    BY <1>1 DEF Open, Opened
  <2>6. <<Top>> \in Seq({Top} \cup K) /\ <<Top>>[1] = Top /\ <<Top>> # << >>
    OBVIOUS
  <2> HIDE DEF K
  <2> QED BY <2>3, <2>4, <2>5, <2>6 DEF Working
<1>2. CASE stack # << >>
  <2>1. Open = b /\ Opened = stack
    BY <1>2 DEF Open, Opened
  <2> QED BY <1>2, <2>1, HereWorking
<1> QED BY <1>1, <1>2

\* The innermost cell is closed.
LEMMA ClosedHere ==
  ASSUME NEW n, Here(b, stack, n), stack # << >>
  PROVE  Here(Closed, Tail(stack), n)
<1> DEFINE K == DOMAIN b.cells
           c == stack[1]
           ended == EndCell(CleanupSubcell(b))
<1>1. b \in Sound(K, c) /\ stack \in Seq(K) /\ Numbered(K, n)
  BY HereWorking DEF Working
<1> HIDE DEF K
<1>2. /\ c \in K /\ Tail(stack) \in Seq(K)
      /\ Len(stack) > 1 => Tail(stack) # << >> /\ Tail(stack)[1] = stack[2] /\ stack[2] \in K
      /\ ~(Len(stack) > 1) => Tail(stack) = << >>
  <2> DEFINE s == stack
  <2>1. s \in Seq(K) /\ s # << >>
    BY <1>1
  <2> HIDE DEF s
  <2>2. /\ s[1] \in K /\ Tail(s) \in Seq(K)
        /\ Len(s) > 1 => Tail(s) # << >> /\ Tail(s)[1] = s[2] /\ s[2] \in K
        /\ ~(Len(s) > 1) => Tail(s) = << >>
    BY <2>1, RestOf
  <2> QED BY <2>2 DEF s
<1> HIDE DEF c
<1>3. CleanupSubcell(b) \in Fine(K)
  BY <1>1, <1>2, CleanupFine
<1>4. ended \in Fine(K) /\ ended.cur = NoCell
  BY <1>3, EndCellFine
<1>5. Closed = IF Len(stack) > 1 THEN ReopenCellDef(ended, stack[2]) ELSE ended
  BY DEF Closed
<1> HIDE DEF ended
<1>6. CASE Len(stack) > 1
  <2>1. Closed \in Sound(K, stack[2])
    BY <1>2, <1>4, <1>5, <1>6, ReopenSound
  <2>2. Working(Closed, Tail(stack), n, K)
    BY <1>1, <1>2, <1>6, <2>1 DEF Working
  <2> QED BY <2>2, WorkingHere
<1>7. CASE ~(Len(stack) > 1)
  <2>1. Closed = ended /\ Tail(stack) = << >>
    BY <1>2, <1>5, <1>7
  <2>2. Head(Tail(stack) \o <<NoCell>>) = NoCell
    BY <1>2, <2>1, FirstOf
  <2>3. DOMAIN ended.cells = K
    BY <1>4 DEF Fine
  <2> QED BY <1>1, <1>2, <1>4, <2>1, <2>2, <2>3 DEF Here, Kept
<1> QED BY <1>6, <1>7

LEMMA RenamedHere ==
  ASSUME NEW r, NEW s, NEW n, Here(r, s, n)
  PROVE  Here([r EXCEPT !.cells = renamepins(@)], s, n)
<1> DEFINE K == DOMAIN r.cells
           d == [r EXCEPT !.cells = renamepins(@)]
<1>1. /\ r \in Fine(K) /\ Numbered(K, n) /\ s \in Seq(K) /\ r.cur = Head(s \o <<NoCell>>)
      /\ r.cur # NoCell => r.cur \in K /\ r \in Sound(K, r.cur)
  BY DEF Here, Kept
<1> HIDE DEF K
<1>2. /\ d \in Fine(K) /\ d.cur = r.cur
      /\ \A c \in K : r \in Sound(K, c) => d \in Sound(K, c)
  BY <1>1, RenamepinsFine
<1> HIDE DEF d
<1>3. DOMAIN d.cells = K
  BY <1>2 DEF Fine
<1>4. Here(d, s, n)
  BY <1>1, <1>2, <1>3 DEF Here, Kept
<1> QED BY <1>4 DEF d

LEMMA AtEndHere ==
  ASSUME NEW n, Here(b, stack, n)
  PROVE  Here(AtEnd, IF stack = << >> THEN stack ELSE Tail(stack), n)
<1> DEFINE closed == IF stack = << >> THEN b ELSE Closed
           s == IF stack = << >> THEN stack ELSE Tail(stack)
<1>1. Here(closed, s, n)
  BY ClosedHere
<1>2. AtEnd = IF update THEN [closed EXCEPT !.cells = renamepins(@)] ELSE closed
  BY DEF AtEnd
<1> HIDE DEF closed, s
<1>3. Here(AtEnd, s, n)
  BY <1>1, <1>2, RenamedHere
<1> QED BY <1>3 DEF s

-----------------------------------------------------------------------------
(* Each line.                                                                *)

Saved == [model : CellNames, instname : Words, kvlist : Seq(Words), update : BOOLEAN]

LocalsIn ==
  /\ model \in CellNames /\ instname \in Words /\ kvlist \in Seq(Words) /\ update \in BOOLEAN
  /\ calls \in Seq(Saved)

LEMMA Strings ==
  ASSUME NEW s \in Seq(STRING)
  PROVE  s \in Seq(Words)
<1>1. STRING \subseteq Words
  BY DEF Words
<1> QED BY <1>1, SeqMonotonic

LEMMA NumbersIn ==
  ASSUME NEW nets \in Seq(Words), Len(nets) <= Len(Numbers)
  PROVE  SubSeq(Numbers, 1, Len(nets)) \in Seq(Words)
<1> DEFINE n == Len(nets)
<1>1. Numbers \in Seq(Words) /\ n \in 0..Len(Numbers)
  BY FilesAreText, Strings, LenProperties
<1> HIDE DEF n
<1>2. \A i \in 1..n : Numbers[i] \in Words
  BY <1>1, LenProperties, ElementOfSeq
<1> QED BY <1>1, <1>2, SubSeqProperties DEF n

\* The name that a cell gets is free, and has no higher number than the line.
LEMMA FreeNameIs ==
  ASSUME NEW n \in Nat, n <= MaxLines, NEW K, K = DOMAIN b.cells, Numbered(K, n), NEW name \in Words
  PROVE  /\ FreeName(name) \in CellNames /\ FreeName(name) \notin K /\ FreeName(name) # NoCell
         /\ FreeName(name)[2] < n + 1
<1> DEFINE S == {k \in 0..MaxLines : ~LookupCell(b, <<name, k>>)}
           m == Min(S)
<1>1. FreeName(name) = <<name, m>>
  BY DEF FreeName
<1>2. n \in S
  <2>1. n \in 0..MaxLines
    BY FilesAreText
  <2>2. <<name, n>> \notin K
    BY DEF Numbered
  <2> QED BY <2>1, <2>2 DEF LookupCell
<1>3. S \in SUBSET Nat
  BY FilesAreText
<1>4. \A k \in S : <<name, k>> \notin K
  BY DEF LookupCell
<1> HIDE DEF S
<1>5. m \in S /\ m <= n
  BY <1>2, <1>3, MinIn
<1>6. m \in Nat
  BY <1>3, <1>5
<1> HIDE DEF m
<1>7. <<name, m>> # NoCell
  <2>1. NoCell[2] = -1
    BY DEF NoCell, Original
  <2>2. <<name, m>>[2] # -1
    BY <1>6
  <2> QED BY <2>1, <2>2
<1>8. <<name, m>> \in CellNames /\ <<name, m>>[2] < n + 1
  BY <1>5, <1>6 DEF CellNames
<1> QED BY <1>1, <1>4, <1>5, <1>7, <1>8

LEMMA FreedSound ==
  ASSUME NEW n \in Nat, n <= MaxLines, Here(b, stack, n), NEW name, IsName(name)
  PROVE  \E L : /\ CellDef(Freed(name), Named(name)) \in Sound(L, Named(name))
                /\ DOMAIN b.cells \subseteq L /\ Named(name) \in L /\ Numbered(L, n + 1)
<1> DEFINE K == DOMAIN b.cells
           m == Named(name)
           f == Freed(name)
<1>1. b \in Fine(K) /\ Numbered(K, n) /\ K \subseteq CellNames
  BY BuildFields DEF Here, Kept, Fine
<1>2. m \in CellNames /\ m # NoCell /\ m[2] < n /\ name \in Words
  BY NamedIs
<1>3. Numbered({m} \cup K, n + 1)
  <2>1. {m} \cup K \in SUBSET CellNames
    BY <1>1, <1>2
  <2>2. Numbered({m} \cup K, n)
    BY <1>1, <1>2, MoreNumbered
  <2> QED BY <2>1, <2>2, LaterNumbered
<1>4. CASE m \notin K
  <2>1. f = b
    BY <1>4 DEF Freed, LookupCell
  <2>2. CellDef(b, m) \in Sound({m} \cup K, m)
    BY <1>1, <1>2, OpenSound
  <2> HIDE DEF K, m, f
  <2>3. CellDef(f, m) \in Sound({m} \cup K, m) /\ K \subseteq {m} \cup K /\ m \in {m} \cup K
    BY <2>1, <2>2
  <2> QED BY <1>3, <2>3 DEF K, m, f
<1>5. CASE m \in K /\ IsPlaceholder(m)
  <2> DEFINE less == [x \in K \ {m} |-> b.cells[x]]
             c == b.cur
             k == b.next
  <2>1. f = CellDelete(b, m)
    BY <1>5 DEF Freed, LookupCell
  <2>2. f = [cells |-> less, cur |-> c, next |-> k]
    <3>1. CellDelete(b, m) = [b EXCEPT !.cells = less]
      BY DEF CellDelete
    <3> HIDE DEF K, m, f, less
    <3> QED BY <1>1, <2>1, <3>1, CellsExcepted
  <2>3. /\ DOMAIN b.cells = K /\ CellsFine(b.cells, K) /\ \A x \in K : b.cells[x] \in CellRecords
        /\ c \in CellNames /\ k \in Nat
    BY <1>1, BuildFields DEF Fine
  <2>4. /\ less \in [K \ {m} -> CellRecords] /\ K \ {m} \in SUBSET CellNames
        /\ \A x \in K \ {m} : less[x] = b.cells[x]
    BY <1>1, <2>3
  <2> HIDE DEF K, m, f, less, c, k
  <2>5. f \in Builds /\ f.cells = less /\ DOMAIN less = K \ {m}
    BY <2>2, <2>3, <2>4, BuildOf
  <2>6. CellsFine(f.cells, K)
    BY <2>3, <2>4, <2>5 DEF CellsFine
  <2>7. K = {m} \cup DOMAIN f.cells
    BY <1>5, <2>5
  <2>8. CellDef(f, m) \in Sound(K, m)
    BY <1>2, <2>5, <2>6, <2>7, CellDefSound
  <2>9. Numbered(K, n + 1)
    BY <1>1, LaterNumbered
  <2> QED BY <1>5, <2>8, <2>9 DEF K, m, f
<1>6. CASE m \in K /\ ~IsPlaceholder(m)
  <2> DEFINE to == FreeName(name)
             M == {to} \cup (K \ {m})
             L == {m} \cup M
  <2>1. f = CellRehash(InstanceRename(b, m, to), m, to)
    BY <1>6 DEF Freed, Renamed, LookupCell
  <2>2. to \in CellNames /\ to \notin K /\ to # NoCell /\ to[2] < n + 1
    BY <1>1, <1>2, FreeNameIs
  <2> HIDE DEF K, m, f, to
  <2>3. f \in Fine(M)
    BY <1>1, <1>6, <2>1, <2>2, RenamedFine
  <2>4. CellDef(f, m) \in Sound(L, m)
    BY <1>2, <2>3, OpenSound
  <2>5. L = {to} \cup ({m} \cup K) /\ K \subseteq L /\ m \in L
    BY <1>6
  <2>6. Numbered(L, n + 1)
    BY <1>3, <2>2, <2>5, MoreNumbered
  <2> QED BY <2>4, <2>5, <2>6 DEF K, m, f
<1> QED BY <1>4, <1>5, <1>6

LEMMA SubcktStep ==
  ASSUME NEW n \in Nat, n <= MaxLines, Here(b, stack, n), LocalsIn,
         NEW name, IsName(name), NEW ports \in Seq(STRING), ReadSubckt(name, ports)
  PROVE  Here(b', stack', n + 1) /\ LocalsIn'
<1> DEFINE m == Named(name)
           parent == IF b.cur = NoCell THEN << >> ELSE Objs(b)
           defined == CellDef(Freed(name), m)
           ported == IF ports = << >> THEN AddPort(defined, NoPins) ELSE FoldLeft(AddPort, defined, ports)
           K == DOMAIN b.cells
<1>1. /\ b' = Globals(ported, parent) /\ stack' = <<m>> \o stack
      /\ model' \in {FreeName(name), m} /\ update' \in BOOLEAN
      /\ UNCHANGED <<instname, kvlist, calls>>
  BY DEF ReadSubckt, LocalsIn
<1>2. PICK L : defined \in Sound(L, m) /\ K \subseteq L /\ m \in L /\ Numbered(L, n + 1)
  BY FreedSound
<1>3. parent \in Seq(Objects)
  <2>1. << >> \in Seq(Objects)
    BY EmptySeq
  <2>2. b.cur # NoCell => Objs(b) \in Seq(Objects)
    <3>1. b.cur # NoCell => b.cur \in K /\ b \in Typed(K, b.cur)
      BY DEF Here, Kept, Sound
    <3> HIDE DEF K
    <3> QED BY <3>1, ListOf
  <2> QED BY <2>1, <2>2
<1>4. stack \in Seq(K) /\ Numbered(K, n)
  BY DEF Here, Kept
<1>5. m \in CellNames /\ FreeName(name) \in CellNames
  BY <1>4, NamedIs, FreeNameIs
<1> HIDE DEF parent, defined, m, K
<1>6. ported \in Sound(L, m)
  <2>1. AddPort(defined, NoPins) \in Sound(L, m)
    BY <1>2, NamesIn, AddsSound
  <2>2. FoldLeft(AddPort, defined, ports) \in Sound(L, m)
    BY <1>2, Strings, PortsSound
  <2> QED BY <2>1, <2>2
<1> HIDE DEF ported
<1>7. b' \in Sound(L, m)
  BY <1>1, <1>2, <1>3, <1>6, GlobalsSound
<1>8. stack' \in Seq(L) /\ stack' # << >> /\ stack'[1] = m
  <2>1. stack \in Seq(L) /\ <<m>> \in Seq(L)
    BY <1>2, <1>4, StackKnown
  <2>2. stack' \in Seq(L) /\ Len(stack') = 1 + Len(stack) /\ Len(stack) \in Nat
    BY <1>1, <2>1, LenProperties
  <2>3. stack'[1] = m
    BY <1>1, <2>1
  <2>4. Len(stack') >= 1
    BY <2>2
  <2>5. stack' # << >>
    BY <2>2, <2>4, NotEmpty
  <2> QED BY <2>2, <2>3, <2>5
<1>9. Working(b', stack', n + 1, L)
  BY <1>2, <1>7, <1>8 DEF Working
<1>10. LocalsIn'
  BY <1>1, <1>5 DEF LocalsIn
<1> QED BY <1>9, <1>10, WorkingHere

LEMMA EndsStep ==
  ASSUME NEW n \in Nat, Here(b, stack, n), LocalsIn, stack # << >>, ReadEnds
  PROVE  Here(b', stack', n + 1) /\ LocalsIn'
<1>1. b' = Closed /\ stack' = Tail(stack) /\ UNCHANGED <<locals, calls>>
  BY DEF ReadEnds
<1>2. Here(b', stack', n)
  BY <1>1, ClosedHere
<1>3. LocalsIn'
  BY <1>1 DEF LocalsIn, locals
<1> QED BY <1>2, <1>3, LaterHere

LEMMA ReturnLocals ==
  ASSUME LocalsIn, calls # << >>, Return
  PROVE  LocalsIn'
<1>1. Head(calls) \in Saved /\ Tail(calls) \in Seq(Saved)
  BY HeadTailProperties DEF LocalsIn
<1>2. /\ model' = Head(calls).model /\ instname' = Head(calls).instname
      /\ kvlist' = Head(calls).kvlist /\ update' = Head(calls).update /\ calls' = Tail(calls)
  BY DEF Return
<1>3. /\ Head(calls).model \in CellNames /\ Head(calls).instname \in Words
      /\ Head(calls).kvlist \in Seq(Words) /\ Head(calls).update \in BOOLEAN
  <2> DEFINE x == Head(calls)
  <2>1. x \in Saved
    BY <1>1
  <2> HIDE DEF x
  <2>2. x.model \in CellNames /\ x.instname \in Words /\ x.kvlist \in Seq(Words) /\ x.update \in BOOLEAN
    BY <2>1 DEF Saved
  <2> QED BY <2>2 DEF x
<1> QED BY <1>1, <1>2, <1>3 DEF LocalsIn

LEMMA EofStep ==
  ASSUME NEW n \in Nat, Here(b, stack, n), LocalsIn, calls # << >>, EndOfIncluded
  PROVE  Here(b', stack', n + 1) /\ LocalsIn'
<1>1. /\ b' = AtEnd /\ stack' = (IF stack = << >> THEN stack ELSE Tail(stack)) /\ Return
  BY DEF EndOfIncluded
<1>2. Here(b', stack', n)
  BY <1>1, AtEndHere
<1>3. LocalsIn'
  BY <1>1, ReturnLocals
<1> QED BY <1>2, <1>3, LaterHere

LEMMA IncludeStep ==
  ASSUME NEW n \in Nat, Here(b, stack, n), LocalsIn, file \in DOMAIN Files, Include
  PROVE  Here(b', stack', n + 1) /\ LocalsIn'
<1> DEFINE x == [model |-> model, instname |-> instname, kvlist |-> kvlist, update |-> update]
<1>1. /\ calls' = <<x>> \o calls /\ model' \in Files[file].garbage /\ instname' = "?"
      /\ kvlist' = << >> /\ update' = FALSE /\ UNCHANGED <<b, stack>>
  BY DEF Include
<1>2. x \in Saved
  BY DEF Saved, LocalsIn
<1>3. calls' \in Seq(Saved)
  <2>1. <<x>> \in Seq(Saved) /\ calls \in Seq(Saved)
    BY <1>2 DEF LocalsIn
  <2> HIDE DEF x
  <2> QED BY <1>1, <2>1, ConcatProperties
<1>4. model' \in CellNames
  BY <1>1, FilesAreText DEF CellNames, Words
<1>5. instname' \in Words /\ kvlist' \in Seq(Words)
  <2>1. "?" \in Words
    BY DEF Words
  <2> QED BY <1>1, <2>1, EmptySeq
<1>6. LocalsIn'
  BY <1>1, <1>3, <1>4, <1>5 DEF LocalsIn
<1> QED BY <1>1, <1>6, LaterHere

LEMMA ClassHere ==
  ASSUME NEW r, NEW s, NEW n, Here(r, s, n), NEW m \in DOMAIN r.cells, NEW class \in Words,
         NEW d, d = [r EXCEPT !.cells[m].class = class]
  PROVE  Here(d, s, n)
<1> DEFINE K == DOMAIN r.cells
<1>1. /\ r \in Fine(K) /\ Numbered(K, n) /\ s \in Seq(K) /\ r.cur = Head(s \o <<NoCell>>)
      /\ r.cur # NoCell => r.cur \in K /\ r \in Sound(K, r.cur)
  BY DEF Here, Kept
<1>0. m \in K
  OBVIOUS
<1> HIDE DEF K
<1>2. /\ d \in Fine(K) /\ d.cur = r.cur
      /\ \A c \in K : r \in Sound(K, c) => d \in Sound(K, c)
  BY ONLY <1>0, <1>1, class \in Words, d = [r EXCEPT !.cells[m].class = class], ClassFine
<1>3. DOMAIN d.cells = K
  BY <1>2 DEF Fine
<1>4. Here(d, s, n)
  BY <1>1, <1>2, <1>3 DEF Here, Kept
<1> QED BY <1>4

LEMMA ModelStep ==
  ASSUME NEW n \in Nat, Here(b, stack, n), LocalsIn, NEW name, IsName(name), ReadModel(name)
  PROVE  Here(b', stack', n + 1) /\ LocalsIn'
<1> DEFINE K == DOMAIN b.cells
           m == Named(name)
           d == [b EXCEPT !.cells[m].class = "device"]
<1>1. /\ b' = (IF m \in K THEN d ELSE b) /\ model' = m
      /\ UNCHANGED <<stack, instname, kvlist, update, calls>>
  BY DEF ReadModel, LookupCell
<1>2. m \in CellNames
  BY NamedIs
<1>3. /\ b \in Fine(K) /\ Numbered(K, n) /\ stack \in Seq(K) /\ b.cur = Head(stack \o <<NoCell>>)
      /\ b.cur # NoCell => b.cur \in K /\ b \in Sound(K, b.cur)
  BY DEF Here, Kept
<1>4. "device" \in Words
  BY DEF Words
<1> HIDE DEF K, m
<1>5. CASE m \in K
  <2>1. Here(d, stack, n)
    <3> DEFINE k == "device"
    <3>1. k \in Words /\ d = [b EXCEPT !.cells[m].class = k]
      BY <1>4
    <3> HIDE DEF d, k
    <3> QED BY ONLY <1>5, <3>1, Here(b, stack, n), ClassHere DEF K
  <2>2. Here(d, stack, n + 1)
    BY <2>1, LaterHere
  <2>5. Here(b', stack', n + 1)
    BY <1>1, <1>5, <2>2
  <2> QED BY <1>1, <1>2, <2>5 DEF LocalsIn
<1>6. CASE m \notin K
  <2>1. Here(b', stack', n + 1)
    BY <1>1, <1>6, LaterHere
  <2> QED BY <1>1, <1>2, <2>1 DEF LocalsIn
<1> QED BY <1>5, <1>6

\* What a line that makes an object in a cell leaves.
LEMMA MadeHere ==
  ASSUME NEW r, NEW s, NEW n \in Nat, NEW K, NEW c, NEW L,
         r \in Sound(L, c), K \subseteq L, s \in Seq(K), s # << >>, s[1] = c, Numbered(L, n)
  PROVE  Here(r, s, n + 1)
<1>1. Working(r, s, n, L)
  BY StackKnown DEF Working
<1> QED BY <1>1, WorkingHere, LaterHere

LEMMA DeviceStep ==
  ASSUME NEW n \in Nat, Here(b, stack, n), LocalsIn, NEW l, IsLine(l), l.kind = "device",
         NEW inst \in Words, ReadDevice(l, inst)
  PROVE  Here(b', stack', n + 1) /\ LocalsIn'
<1> DEFINE m == Named(l.model)
           c == Opened[1]
           named == MakeNodes(Open, l)
           modelled == DefineModel(named, m, SubSeq(Numbers, 1, Len(l.nets)))
           made == Cell(modelled, instname', m, l.nets, IsIgnored(l.model))
           properties == l.kv \o kvlist
           linked == LinkProperties(made, m, properties, IsIgnored(l.model))
<1>1. /\ stack' = Opened /\ model' = m /\ instname' \in {inst, instname}
      /\ \/ b' = named /\ kvlist' = properties
         \/ b' = linked /\ kvlist' = << >>
      /\ UNCHANGED <<update, calls>>
  BY DEF ReadDevice
<1>2. /\ IsName(l.model) /\ l.nets \in Seq(Words) /\ l.kv \in Seq(Words)
      /\ Len(l.nets) <= Len(Numbers)
  BY Strings DEF IsLine
<1>3. m \in CellNames /\ m # NoCell /\ m[2] < n
  BY <1>2, NamedIs
<1>4. PICK K : Working(Open, Opened, n, K)
  BY OpenWorking
<1> DEFINE L == {m} \cup K
           s == Opened
<1>5. Open \in Sound(K, c) /\ c \in K /\ s \in Seq(K) /\ s # << >> /\ Numbered(K, n) /\ s[1] = c
  <2> HIDE DEF s
  <2>1. Open \in Sound(K, s[1]) /\ s \in Seq(K) /\ s # << >> /\ Numbered(K, n)
    BY <1>4 DEF Working, s
  <2>2. s[1] \in K
    BY <2>1, RestOf
  <2> QED BY <2>1, <2>2 DEF s
<1> HIDE DEF m
<1>6. Numbered(L, n) /\ K \subseteq L /\ m \in L /\ c \in L
  BY <1>3, <1>5, MoreNumbered
<1>7. named \in Sound(K, c)
  <2> HIDE DEF c
  <2> QED BY <1>2, <1>5, MakeNodesSound
<1> HIDE DEF named
<1>8. modelled \in Sound(L, c)
  <2> DEFINE ports == SubSeq(Numbers, 1, Len(l.nets))
  <2>1. ports \in Seq(Words)
    BY <1>2, NumbersIn
  <2>2. Opened[1] = c
    OBVIOUS
  <2> HIDE DEF ports, c
  <2>3. DefineModel(named, m, ports) \in Sound({m} \cup K, c)
    BY <1>3, <1>5, <1>7, <2>1, <2>2, ModelSound
  <2> QED BY <2>3 DEF ports
<1> HIDE DEF modelled
<1>9. instname' \in Words /\ properties \in Seq(Words)
  <2>1. instname \in Words /\ kvlist \in Seq(Words)
    BY DEF LocalsIn
  <2> QED BY <1>1, <1>2, <2>1, ConcatProperties
<1>10. linked \in Sound(L, c)
  <2> HIDE DEF c, L, properties
  <2>1. made \in Sound(L, c)
    BY <1>2, <1>6, <1>8, <1>9, CellSound
  <2> HIDE DEF made
  <2> QED BY <1>3, <1>6, <1>9, <2>1, PropertiesSound
<1> HIDE DEF linked, properties
<1>11. Here(named, s, n + 1) /\ Here(linked, s, n + 1)
  <2> HIDE DEF c, L, s
  <2>1. Here(linked, s, n + 1)
    BY <1>5, <1>6, <1>10, MadeHere
  <2>2. Here(named, s, n + 1)
    BY <1>5, <1>7, MadeHere
  <2> QED BY <2>1, <2>2
<1>12. Here(b', stack', n + 1)
  BY <1>1, <1>11
<1>13. LocalsIn'
  <2>1. << >> \in Seq(Words)
    BY EmptySeq
  <2> QED BY <1>1, <1>3, <1>9, <2>1 DEF LocalsIn
<1> QED BY <1>12, <1>13

LEMMA InstanceStep ==
  ASSUME NEW n \in Nat, Here(b, stack, n), LocalsIn, NEW m, IsName(m),
         NEW nets \in Seq(STRING), Len(nets) <= Len(Numbers),
         NEW inst \in Words, ReadInstance(m, nets, inst)
  PROVE  Here(b', stack', n + 1) /\ LocalsIn'
<1> DEFINE name == Named(m)
           c == Opened[1]
           known == LookupCell(Open, name)
           opened == IF known THEN Open ELSE Placeholder(Open, name, nets)
           linked == LinkProperties(Instance(opened, name, inst), name, kvlist, IsIgnored(m))
           s == Opened
           stopped == /\ b' = Open /\ stack' = Opened
                      /\ \/ UNCHANGED <<locals, calls>>
                         \/ calls # << >> /\ Return
<1>1. \/ stopped
      \/ /\ b' = ConnectPins(linked, name, inst, nets) /\ stack' = Opened
         /\ update' \in BOOLEAN /\ kvlist' = << >>
         /\ UNCHANGED <<model, instname, calls>>
  BY DEF ReadInstance, LocalsIn
<1>2. name \in CellNames /\ name # NoCell /\ name[2] < n
  BY NamedIs
<1>3. PICK K : Working(Open, Opened, n, K)
  BY OpenWorking
<1> DEFINE L == {name} \cup K
<1>4. Open \in Sound(K, c) /\ c \in K /\ s \in Seq(K) /\ s # << >> /\ Numbered(K, n) /\ s[1] = c
  <2> HIDE DEF s
  <2>1. Open \in Sound(K, s[1]) /\ s \in Seq(K) /\ s # << >> /\ Numbered(K, n)
    BY <1>3 DEF Working, s
  <2>2. s[1] \in K
    BY <2>1, RestOf
  <2> QED BY <2>1, <2>2 DEF s
<1>5. nets \in Seq(Words)
  BY Strings
<1> HIDE DEF name
<1>6. CASE stopped
  <2>1. Here(b', stack', n + 1)
    <3>1. b' = Open /\ stack' = s
      BY <1>6
    <3> HIDE DEF c, s
    <3> QED BY <1>4, <3>1, MadeHere
  <2>2. LocalsIn'
    <3>1. CASE UNCHANGED <<locals, calls>>
      BY <3>1 DEF LocalsIn, locals
    <3>2. CASE calls # << >> /\ Return
      BY <3>2, ReturnLocals
    <3> QED BY <1>6, <3>1, <3>2
  <2> QED BY <2>1, <2>2
<1>7. CASE /\ b' = ConnectPins(linked, name, inst, nets) /\ stack' = Opened
           /\ update' \in BOOLEAN /\ kvlist' = << >>
           /\ UNCHANGED <<model, instname, calls>>
  <2>1. Numbered(L, n) /\ K \subseteq L /\ name \in L /\ c \in L
    BY <1>2, <1>4, MoreNumbered
  <2>2. opened \in Sound(L, c)
    <3>1. CASE known
      <4>1. name \in K
        BY <1>4, <3>1 DEF LookupCell, Sound, Typed
      <4>2. L = K
        BY <4>1
      <4> QED BY <1>4, <3>1, <4>2
    <3>2. CASE ~known
      <4> DEFINE ports == SubSeq(Numbers, 1, Len(nets))
      <4>1. ports \in Seq(Words)
        BY <1>5, NumbersIn
      <4>2. Opened[1] = c
        OBVIOUS
      <4> HIDE DEF c
      <4>3. Placeholder(Open, name, nets) \in Sound({name} \cup K, c)
        BY <1>2, <1>4, <4>1, <4>2, PlaceholderSound
      <4> QED BY <3>2, <4>3
    <3> QED BY <3>1, <3>2
  <2> HIDE DEF c, L, opened
  <2>3. Instance(opened, name, inst) \in Sound(L, c)
    BY <2>1, <2>2, InstanceSound
  <2>4. linked \in Sound(L, c)
    <3> DEFINE r == Instance(opened, name, inst)
    <3>1. r \in Sound(L, c) /\ kvlist \in Seq(Words)
      BY <2>3 DEF LocalsIn
    <3> HIDE DEF r
    <3>2. LinkProperties(r, name, kvlist, IsIgnored(m)) \in Sound(L, c)
      BY <1>2, <2>1, <3>1, PropertiesSound
    <3> QED BY <3>2 DEF r
  <2> HIDE DEF linked
  <2>5. ConnectPins(linked, name, inst, nets) \in Sound(L, c)
    BY <1>5, <2>1, <2>4, ConnectPinsSound
  <2>6. Here(b', stack', n + 1)
    <3> DEFINE r == ConnectPins(linked, name, inst, nets)
    <3>1. b' = r /\ stack' = s /\ r \in Sound(L, c)
      BY <1>7, <2>5
    <3> HIDE DEF r, s
    <3>2. Here(r, s, n + 1)
      BY <1>4, <2>1, <3>1, MadeHere
    <3> QED BY <3>1, <3>2
  <2>7. LocalsIn'
    <3>1. << >> \in Seq(Words)
      BY EmptySeq
    <3> QED BY <1>7, <3>1 DEF LocalsIn
  <2> QED BY <2>6, <2>7
<1> HIDE DEF stopped
<1> QED BY <1>1, <1>6, <1>7

LEMMA GlobalStep ==
  ASSUME NEW n \in Nat, Here(b, stack, n), LocalsIn, NEW g, IsName(g), ReadGlobal(g)
  PROVE  Here(b', stack', n + 1) /\ LocalsIn'
<1>1. /\ \/ b.cur # NoCell /\ b' = ChangeScopeCurrent(b, g) /\ stack' = stack
         \/ b' = AddGlobal(Open, g) /\ stack' = Opened
      /\ UNCHANGED <<locals, calls>>
  BY DEF ReadGlobal
<1>2. LocalsIn'
  BY <1>1 DEF LocalsIn, locals
<1>3. CASE b.cur # NoCell /\ b' = ChangeScopeCurrent(b, g) /\ stack' = stack
  <2> DEFINE K == DOMAIN b.cells
             c == b.cur
  <2>1. /\ Numbered(K, n) /\ stack \in Seq(K) /\ b.cur = Head(stack \o <<NoCell>>)
        /\ b.cur \in K /\ b \in Sound(K, c)
    BY <1>3 DEF Here, Kept
  <2> HIDE DEF K
  <2>2. stack # << >> /\ stack[1] = c
    BY <1>3, <2>1, FirstOf
  <2> HIDE DEF c
  <2>3. ChangeScopeCurrent(b, g) \in Sound(K, c)
    <3>1. c \in K
      BY <2>1 DEF c
    <3> QED BY <2>1, <3>1, ScopeSound
  <2> DEFINE r == ChangeScopeCurrent(b, g)
  <2>4. r \in Sound(K, c) /\ b' = r
    BY <1>3, <2>3
  <2> HIDE DEF r
  <2>5. Here(r, stack, n + 1)
    BY <2>1, <2>2, <2>4, MadeHere
  <2>6. Here(b', stack', n + 1)
    BY ONLY <1>3, <2>4, <2>5
  <2> QED BY <1>2, <2>6
<1>4. CASE b' = AddGlobal(Open, g) /\ stack' = Opened
  <2>1. PICK K : Working(Open, Opened, n, K)
    BY OpenWorking
  <2> DEFINE s == Opened
             c == Opened[1]
             r == AddGlobal(Open, g)
  <2>2. Open \in Sound(K, c) /\ s \in Seq(K) /\ s # << >> /\ Numbered(K, n) /\ s[1] = c
    BY <2>1 DEF Working
  <2>3. b' = r /\ stack' = s
    BY <1>4
  <2> HIDE DEF s, c
  <2>4. c \in K
    BY <2>2, RestOf
  <2>5. r \in Sound(K, c)
    BY <2>2, <2>4, NamedIs, AddsSound
  <2> HIDE DEF r
  <2>6. Here(r, s, n + 1)
    BY <2>2, <2>5, MadeHere
  <2>7. Here(b', stack', n + 1)
    BY ONLY <2>3, <2>6
  <2> QED BY <1>2, <2>7
<1> QED BY <1>1, <1>3, <1>4

-----------------------------------------------------------------------------
(* Every line.                                                               *)

TextIn == file \in DOMAIN Files /\ text \in Seq(Files[file].lines) /\ Len(text) <= MaxLines

\* The inductive invariant: the cells are kept, and while the file is read the
\* innermost of the open cells is the current one.
BuildKept ==
  /\ TextIn /\ LocalsIn
  /\ reading \in {"yes", "done", "fatal", "ignored"}
  /\ Kept(b, stack, Len(text))
  /\ reading = "yes" => Here(b, stack, Len(text))

LEMMA FirstLine == Init => BuildKept
<1> SUFFICES ASSUME Init PROVE BuildKept
  OBVIOUS
<1>1. /\ file \in DOMAIN Files /\ text = << >> /\ b = EmptyBuild /\ stack = << >>
      /\ kvlist = << >> /\ update = FALSE /\ calls = << >> /\ reading = "yes"
      /\ model \in Files[file].garbage /\ instname = "?"
  BY DEF Init
<1>2. TextIn /\ Len(text) = 0
  BY <1>1, EmptySeq, FilesAreText DEF TextIn
<1>3. LocalsIn
  <2>1. << >> \in Seq(Words) /\ << >> \in Seq(Saved)
    BY EmptySeq
  <2>2. "?" \in Words
    BY DEF Words
  <2>3. model \in CellNames
    BY <1>1, FilesAreText DEF CellNames, Words
  <2> QED BY <1>1, <2>1, <2>2, <2>3 DEF LocalsIn
<1>4. Here(b, stack, 0)
  <2> DEFINE none == {}
             no == [x \in none |-> x]
             e == NoCell
  <2>1. b = [cells |-> << >>, cur |-> e, next |-> 1]
    BY <1>1 DEF EmptyBuild
  <2>2. << >> = no
    BY EmptySeq
  <2>3. e \in CellNames
    <3> DEFINE x == ""
               k == -1
    <3>1. x \in Words /\ k \in Int
      BY DEF Words
    <3>2. e = <<x, k>>
      BY DEF NoCell, Original
    <3> HIDE DEF x, k, e
    <3> QED BY <3>1, <3>2 DEF CellNames
  <2>4. no \in [none -> CellRecords] /\ none \in SUBSET CellNames /\ DOMAIN no = none
    OBVIOUS
  <2> HIDE DEF no, e
  <2>5. b \in Builds /\ b.cells = no /\ b.cur = e
    <3>1. [cells |-> no, cur |-> e, next |-> 1] \in Builds
      BY <2>3, <2>4, BuildOf
    <3> QED BY <2>1, <2>2, <3>1
  <2>6. DOMAIN b.cells = none
    BY <2>4, <2>5
  <2> HIDE DEF none
  <2>7. b \in Fine(none) /\ Numbered(none, 0)
    <3>1. \A x : x \notin none
      BY DEF none
    <3> QED BY <2>5, <2>6, <3>1 DEF Fine, CellsFine, Numbered
  <2>8. stack \in Seq(none) /\ Head(stack \o <<NoCell>>) = NoCell
    BY <1>1, EmptySeq, FirstOf
  <2> QED BY <2>5, <2>6, <2>7, <2>8 DEF Here, Kept, e
<1> QED BY <1>1, <1>2, <1>3, <1>4 DEF BuildKept, Here

\* The kinds of lines.
LEMMA LineHere ==
  ASSUME BuildKept, reading = "yes", NEW l \in Files[file].lines, ReadLine(l)
  PROVE  Here(b', stack', Len(text) + 1) /\ LocalsIn' /\ reading' \in {"yes", "fatal", "ignored"}
<1> DEFINE n == Len(text)
           inst == Numbers[n + 1]
<1>1. /\ n < MaxLines /\ WellFormed(l)
      /\ \/ l.kind = "subckt" /\ ReadSubckt(l.name, l.ports)
         \/ l.kind = "ends" /\ ReadEnds
         \/ l.kind = "model" /\ ReadModel(l.name)
         \/ l.kind = "device" /\ ReadDevice(l, inst)
         \/ l.kind = "x" /\ ReadInstance(l.model, l.nets, inst)
         \/ l.kind = "global" /\ ReadGlobal(l.name)
         \/ l.kind = "include" /\ Include
         \/ l.kind = "eof" /\ EndOfIncluded
  BY DEF ReadLine
<1>2. n \in Nat /\ n <= MaxLines /\ Here(b, stack, n) /\ LocalsIn /\ file \in DOMAIN Files
  BY LenProperties DEF BuildKept, TextIn
<1>3. IsLine(l)
  BY <1>2, FilesAreText
<1>4. inst \in Words
  <2>1. n + 1 \in 1..Len(Numbers) /\ Numbers \in Seq(Words)
    BY <1>1, <1>2, FilesAreText, Strings, LenProperties
  <2> QED BY <2>1, ElementOfSeq
<1> HIDE DEF n, inst
<1>5. CASE l.kind = "subckt" /\ ReadSubckt(l.name, l.ports)
  <2>1. IsName(l.name) /\ l.ports \in Seq(STRING)
    BY <1>3, <1>5 DEF IsLine
  <2>2. reading' = reading
    BY <1>5 DEF ReadSubckt
  <2>3. Here(b', stack', n + 1) /\ LocalsIn'
    BY <1>2, <1>5, <2>1, SubcktStep
  <2> QED BY <2>2, <2>3 DEF n
<1>6. CASE l.kind = "ends" /\ ReadEnds
  <2>1. stack # << >>
    BY <1>1, <1>6 DEF WellFormed
  <2>2. reading' = reading
    BY <1>6 DEF ReadEnds
  <2>3. Here(b', stack', n + 1) /\ LocalsIn'
    BY <1>2, <1>6, <2>1, EndsStep
  <2> QED BY <2>2, <2>3 DEF n
<1>7. CASE l.kind = "model" /\ ReadModel(l.name)
  <2>1. IsName(l.name)
    BY <1>3, <1>7 DEF IsLine
  <2>2. reading' = reading
    BY <1>7 DEF ReadModel
  <2>3. Here(b', stack', n + 1) /\ LocalsIn'
    BY <1>2, <1>7, <2>1, ModelStep
  <2> QED BY <2>2, <2>3 DEF n
<1>8. CASE l.kind = "device" /\ ReadDevice(l, inst)
  <2>2. reading' = reading
    BY <1>8 DEF ReadDevice
  <2>3. Here(b', stack', n + 1) /\ LocalsIn'
    BY <1>2, <1>3, <1>4, <1>8, DeviceStep
  <2> QED BY <2>2, <2>3 DEF n
<1>9. CASE l.kind = "x" /\ ReadInstance(l.model, l.nets, inst)
  <2>1. IsName(l.model) /\ l.nets \in Seq(STRING) /\ Len(l.nets) <= Len(Numbers)
    BY <1>3, <1>9 DEF IsLine
  <2>2. reading' \in {reading, "fatal", "ignored"}
    BY <1>9 DEF ReadInstance
  <2>3. Here(b', stack', n + 1) /\ LocalsIn'
    BY <1>2, <1>4, <1>9, <2>1, InstanceStep
  <2> QED BY <2>2, <2>3 DEF n
<1>10. CASE l.kind = "global" /\ ReadGlobal(l.name)
  <2>1. IsName(l.name)
    BY <1>3, <1>10 DEF IsLine
  <2>2. reading' = reading
    BY <1>10 DEF ReadGlobal
  <2>3. Here(b', stack', n + 1) /\ LocalsIn'
    BY <1>2, <1>10, <2>1, GlobalStep
  <2> QED BY <2>2, <2>3 DEF n
<1>11. CASE l.kind = "include" /\ Include
  <2>2. reading' = reading
    BY <1>11 DEF Include
  <2>3. Here(b', stack', n + 1) /\ LocalsIn'
    BY <1>2, <1>11, IncludeStep
  <2> QED BY <2>2, <2>3 DEF n
<1>12. CASE l.kind = "eof" /\ EndOfIncluded
  <2>1. calls # << >>
    BY <1>1, <1>12 DEF WellFormed
  <2>2. reading' = reading
    BY <1>12 DEF EndOfIncluded
  <2>3. Here(b', stack', n + 1) /\ LocalsIn'
    BY <1>2, <1>12, <2>1, EofStep
  <2> QED BY <2>2, <2>3 DEF n
<1> QED BY <1>1, <1>5, <1>6, <1>7, <1>8, <1>9, <1>10, <1>11, <1>12

\* The end of the file makes its cell if no line did.
LEMMA FileEnds ==
  ASSUME BuildKept, reading = "yes", EndOfFile
  PROVE  BuildKept'
<1> DEFINE n == Len(text)
           K == DOMAIN AtEnd.cells
<1>1. /\ b' = (IF LookupCell(AtEnd, Top) THEN AtEnd ELSE CellDef(AtEnd, Top))
      /\ stack' = << >> /\ reading' = "done" /\ UNCHANGED <<file, text, locals, calls>>
  BY DEF EndOfFile
<1>2. n \in Nat /\ Here(b, stack, n) /\ TextIn /\ LocalsIn
  BY LenProperties DEF BuildKept, TextIn
<1>3. TextIn' /\ LocalsIn' /\ Len(text') = n
  BY <1>1, <1>2 DEF TextIn, LocalsIn, locals
<1> HIDE DEF n
<1>4. /\ AtEnd \in Fine(K) /\ Numbered(K, n)
      /\ AtEnd.cur # NoCell => AtEnd.cur \in K /\ AtEnd \in Sound(K, AtEnd.cur)
  BY <1>2, AtEndHere DEF Here, Kept
<1>5. Kept(AtEnd, << >>, n)
  BY <1>4, EmptySeq DEF Kept
<1>6. Kept(CellDef(AtEnd, Top), << >>, n)
  <2> DEFINE L == {Top} \cup K
             t == Top
             s == <<t>>
  <2>1. t \in CellNames /\ t # NoCell /\ t[2] < n
    BY <1>2, TopIs
  <2> HIDE DEF t, K
  <2>2. CellDef(AtEnd, t) \in Sound({t} \cup K, t)
    BY <1>4, <2>1, OpenSound
  <2>3. Numbered({t} \cup K, n)
    BY <1>2, <1>4, <2>1, MoreNumbered
  <2>4. s \in Seq({t} \cup K) /\ s # << >> /\ s[1] = t
    OBVIOUS
  <2> HIDE DEF s
  <2>5. Working(CellDef(AtEnd, t), s, n, {t} \cup K)
    BY <2>2, <2>3, <2>4 DEF Working
  <2>6. Kept(CellDef(AtEnd, t), s, n)
    BY <2>5, WorkingHere DEF Here
  <2>7. Kept(CellDef(AtEnd, t), << >>, n)
    BY <2>6, EmptySeq DEF Kept
  <2> QED BY <2>7 DEF t
<1>7. Kept(b', stack', n)
  BY <1>1, <1>5, <1>6
<1> QED BY <1>1, <1>3, <1>7 DEF BuildKept

LEMMA EveryLine == BuildKept /\ [Next]_vars => BuildKept'
<1> SUFFICES ASSUME BuildKept, [Next]_vars PROVE BuildKept'
  OBVIOUS
<1>1. ASSUME reading = "yes", NEW l \in Files[file].lines, ReadLine(l)
      PROVE  BuildKept'
  <2> DEFINE n == Len(text)
             L == Files[file].lines
  <2>1. n < MaxLines /\ text' = Append(text, l) /\ file' = file
    BY <1>1 DEF ReadLine
  <2>2. file \in DOMAIN Files /\ text \in Seq(L) /\ n \in Nat /\ MaxLines \in Nat
    BY FilesAreText, LenProperties DEF BuildKept, TextIn
  <2>3. text' \in Seq(L) /\ Len(text') = n + 1
    <3> HIDE DEF L
    <3>1. l \in L
      BY <1>1 DEF L
    <3> QED BY <2>1, <2>2, <3>1, AppendProperties
  <2>4. TextIn'
    BY <2>1, <2>2, <2>3 DEF TextIn
  <2>5. Here(b', stack', n + 1) /\ LocalsIn' /\ reading' \in {"yes", "fatal", "ignored"}
    BY <1>1, LineHere
  <2>6. Here(b', stack', Len(text'))
    BY <2>3, <2>5
  <2> QED BY <2>4, <2>5, <2>6 DEF BuildKept, Here
<1>2. CASE reading = "yes" /\ EndOfFile
  BY <1>2, FileEnds
<1>3. CASE UNCHANGED vars
  BY <1>3 DEF vars, locals, BuildKept, TextIn, LocalsIn
<1> QED BY <1>1, <1>2, <1>3 DEF Next

LEMMA KeptSound == BuildKept => TypeOK
<1> SUFFICES ASSUME BuildKept PROVE TypeOK
  OBVIOUS
<1> DEFINE K == DOMAIN b.cells
<1>1. /\ file \in DOMAIN Files /\ update \in BOOLEAN
      /\ reading \in {"yes", "done", "fatal", "ignored"}
      /\ reading = "yes" => b.cur = Head(stack \o <<NoCell>>)
  BY DEF BuildKept, TextIn, LocalsIn, Here
<1>2. b \in Fine(K) /\ (b.cur # NoCell => b.cur \in K /\ b \in Sound(K, b.cur))
  BY DEF BuildKept, Kept
<1>3. ASSUME b.cur # NoCell PROVE b.next > Highest(Objs(b))
  <2> DEFINE c == b.cur
  <2>1. c \in K /\ b \in Sound(K, c)
    BY <1>2, <1>3
  <2>2. b \in Typed(K, c) /\ b.next # 0 /\ Below(Objs(b), b.next)
    BY <2>1 DEF Sound
  <2> HIDE DEF c, K
  <2>3. Objs(b) \in Seq(Objects) /\ b.next \in Nat
    BY <2>1, <2>2, ListOf
  <2>4. Highest(Objs(b)) \in {None} \cup {Objs(b)[k].node : k \in DOMAIN Objs(b)}
    BY <2>3, HighestIs
  <2>5. CASE Highest(Objs(b)) = None
    BY <2>3, <2>5 DEF None
  <2>6. CASE \E k \in DOMAIN Objs(b) : Highest(Objs(b)) = Objs(b)[k].node
    <3>1. Highest(Objs(b)) < b.next
      BY <2>2, <2>6 DEF Below
    <3>2. Highest(Objs(b)) \in Int
      BY <2>3, HighestIs
    <3> QED BY <2>3, <3>1, <3>2
  <2> QED BY <2>4, <2>5, <2>6
<1>4. ASSUME NEW c \in K, NEW k \in DOMAIN b.cells[c].objs
      PROVE  /\ b.cells[c].objs[k].node \in Int
             /\ b.cells[c].objs[k].type > FIRSTPIN =>
                  /\ b.cells[c].objs[k - 1].type = b.cells[c].objs[k].type - 1
                  /\ b.cells[c].objs[k - 1].name[1] = b.cells[c].objs[k].name[1]
             /\ b.cells[c].objs[k].type >= FIRSTPIN => b.cells[c].objs[k].model \in K
  <2> DEFINE objs == b.cells[c].objs
  <2>1. /\ b \in Builds /\ DOMAIN b.cells = K
        /\ InRows(objs) /\ KnownModels(objs, K)
    BY <1>2 DEF Fine, CellsFine
  <2>2. objs \in Seq(Objects)
    <3>1. b.cells[c] \in CellRecords
      BY <2>1, BuildFields
    <3> QED BY <3>1, RecordFields
  <2>3. k \in DOMAIN objs
    BY <1>4
  <2> HIDE DEF objs, K
  <2>4. objs[k] \in Objects
    BY <2>2, <2>3, LenProperties, ElementOfSeq
  <2>5. objs[k].node \in Int
    BY <2>4, ObjectFields
  <2>6. objs[k].type > FIRSTPIN =>
          objs[k - 1].type = objs[k].type - 1 /\ objs[k - 1].name[1] = objs[k].name[1]
    BY <2>1, <2>3 DEF InRows
  <2>7. objs[k].type >= FIRSTPIN => objs[k].model \in K
    BY <2>1, <2>3 DEF KnownModels
  <2> QED BY <2>5, <2>6, <2>7 DEF objs
<1> QED BY <1>1, <1>3, <1>4 DEF TypeOK

\* The cells that ReadSpiceFile makes are well formed at every line, of files of
\* any number of lines: pins stand together and are of known cells, and no
\* number is given to two nets when a cell is left for another.
THEOREM CellsWellFormed == Spec => []TypeOK
<1>1. Init => BuildKept
  BY FirstLine
<1>2. BuildKept /\ [Next]_vars => BuildKept'
  BY EveryLine
<1>3. BuildKept => TypeOK
  BY KeptSound
<1> QED BY <1>1, <1>2, <1>3, PTL DEF Spec
=============================================================================
