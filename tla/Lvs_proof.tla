------------------------------- MODULE Lvs_proof -------------------------------
(***************************************************************************)
(* Proofs about the lvs procedure for any designs: whatever it flattens, a  *)
(* cell keeps its devices, and cells that must not be flattened stay.       *)
(***************************************************************************)
EXTENDS MCLvs, CellHierarchy_proof

(***************************************************************************)
(* What flattening may make of a hierarchy ct of the cells C.  A ranking    *)
(* gives the parts of a cell lower ranks than the cell; a valuation gives a  *)
(* cell the sum of what its parts have.  Flattening keeps all of them, takes *)
(* no cell out of a set that holds the parts of its members, and never       *)
(* takes an instance of a cell of boxes away.                               *)
(***************************************************************************)
Flattens(nt, ct, C, boxes) ==
  /\ DOMAIN nt = DOMAIN ct
  /\ ListsOf(nt, C)
  /\ \A r : Ranking(r, ct, C) => Ranking(r, nt, C)
  /\ \A v : Valuation(v, ct, C) => Valuation(v, nt, C)
  /\ \A U : Closed(U, ct) => \A p \in DOMAIN ct : Within(ct[p], U) => Within(nt[p], U)
  /\ \A c \in boxes : \A p \in DOMAIN ct :
       Total(Ind({c}, C), nt[p]) >= Total(Ind({c}, C), ct[p])

LEMMA FlattensSelf ==
  ASSUME NEW C, NEW ct, ListsOf(ct, C), NEW boxes
  PROVE  Flattens(ct, ct, C, boxes)
<1>1. ASSUME NEW c, NEW p \in DOMAIN ct
      PROVE  Total(Ind({c}, C), ct[p]) >= Total(Ind({c}, C), ct[p])
  <2>1. ct[p] \in Seq(C)
    BY DEF ListsOf
  <2>2. Ind({c}, C) \in Weights(C)
    BY <2>1, IndCounts
  <2>3. Total(Ind({c}, C), ct[p]) \in Nat
    BY <2>1, <2>2, SumIsNat
  <2> QED BY <2>3
<1> QED BY <1>1 DEF Flattens

LEMMA FlattensAgain ==
  ASSUME NEW C, NEW ct, NEW mt, NEW nt, NEW boxes, ListsOf(ct, C),
         Flattens(mt, ct, C, boxes), Flattens(nt, mt, C, boxes)
  PROVE  Flattens(nt, ct, C, boxes)
<1>1. ASSUME NEW c \in boxes, NEW p \in DOMAIN ct
      PROVE  Total(Ind({c}, C), nt[p]) >= Total(Ind({c}, C), ct[p])
  <2>1. ct[p] \in Seq(C) /\ mt[p] \in Seq(C) /\ nt[p] \in Seq(C)
    BY DEF ListsOf, Flattens
  <2>2. Ind({c}, C) \in Weights(C)
    BY <2>1, IndCounts
  <2>3. /\ Total(Ind({c}, C), ct[p]) \in Nat
        /\ Total(Ind({c}, C), mt[p]) \in Nat
        /\ Total(Ind({c}, C), nt[p]) \in Nat
    BY <2>1, <2>2, SumIsNat
  <2>4. /\ Total(Ind({c}, C), mt[p]) >= Total(Ind({c}, C), ct[p])
        /\ Total(Ind({c}, C), nt[p]) >= Total(Ind({c}, C), mt[p])
    BY DEF Flattens
  <2> QED BY <2>3, <2>4
<1>2. ASSUME NEW U, Closed(U, ct), NEW p \in DOMAIN ct, Within(ct[p], U) PROVE Within(nt[p], U)
  <2>1. \A q \in DOMAIN ct : Within(ct[q], U) => Within(mt[q], U)
    BY <1>2 DEF Flattens
  <2>2. Closed(U, mt)
    BY <1>2, <2>1 DEF Closed, Flattens
  <2> QED BY <1>2, <2>1, <2>2 DEF Flattens
<1>3. \A r : Ranking(r, ct, C) => Ranking(r, nt, C)
  BY DEF Flattens
<1>4. \A v : Valuation(v, ct, C) => Valuation(v, nt, C)
  BY DEF Flattens
<1> QED BY <1>1, <1>2, <1>3, <1>4 DEF Flattens

\* A cell's list is exchanged for one of the same value.
LEMMA Exchange ==
  ASSUME NEW C, NEW ct, NEW nt, NEW boxes, ListsOf(ct, C), DOMAIN nt = DOMAIN ct,
         ListsOf(nt, C),
         \A r : Ranking(r, ct, C) => \A p \in DOMAIN ct : Below(nt[p], r, r[p]),
         \A v : Valuation(v, ct, C) => \A p \in DOMAIN ct : Total(v, nt[p]) = Total(v, ct[p]),
         \A U : Closed(U, ct) => \A p \in DOMAIN ct : Within(ct[p], U) => Within(nt[p], U),
         \A c \in boxes : \A p \in DOMAIN ct :
            Total(Ind({c}, C), nt[p]) >= Total(Ind({c}, C), ct[p])
  PROVE  Flattens(nt, ct, C, boxes)
<1>1. ASSUME NEW r, Ranking(r, ct, C) PROVE Ranking(r, nt, C)
  BY <1>1 DEF Ranking, Below
<1>2. ASSUME NEW v, Valuation(v, ct, C) PROVE Valuation(v, nt, C)
  <2>1. \A p \in DOMAIN ct : Total(v, nt[p]) = Total(v, ct[p])
    BY <1>2
  <2> QED BY <1>2, <2>1 DEF Valuation
<1> QED BY <1>1, <1>2 DEF Flattens

\* The list s of cell p is what p is made of, or is exchanged for one of the same value.
SameValue(t, s, p, ct, C, boxes) ==
  /\ t \in Seq(C)
  /\ \A r : Ranking(r, ct, C) => Below(t, r, r[p])
  /\ \A v : Valuation(v, ct, C) => Total(v, t) = Total(v, s)
  /\ \A U : Closed(U, ct) /\ Within(s, U) => Within(t, U)
  /\ \A c \in boxes : Total(Ind({c}, C), t) >= Total(Ind({c}, C), s)

LEMMA SameValueSelf ==
  ASSUME NEW C, NEW ct, ListsOf(ct, C), NEW p \in DOMAIN ct, NEW boxes
  PROVE  SameValue(ct[p], ct[p], p, ct, C, boxes)
<1>1. ct[p] \in Seq(C)
  BY DEF ListsOf
<1>2. \A r : Ranking(r, ct, C) => Below(ct[p], r, r[p])
  BY DEF Ranking, Below
<1>3. ASSUME NEW c PROVE Total(Ind({c}, C), ct[p]) >= Total(Ind({c}, C), ct[p])
  <2>1. Ind({c}, C) \in Weights(C)
    BY <1>1, IndCounts
  <2>2. Total(Ind({c}, C), ct[p]) \in Nat
    BY <1>1, <2>1, SumIsNat
  <2> QED BY <2>2
<1> QED BY <1>1, <1>2, <1>3 DEF SameValue

LEMMA SpliceValue ==
  ASSUME NEW C, NEW ct, ListsOf(ct, C), DOMAIN ct \subseteq C, NEW p \in DOMAIN ct,
         NEW gone \in SUBSET DOMAIN ct, NEW boxes, gone \cap boxes = {}
  PROVE  SameValue(Splice(ct[p], gone, ct), ct[p], p, ct, C, boxes)
<1> DEFINE t == Splice(ct[p], gone, ct)
<1>1. ct[p] \in Seq(C)
  BY DEF ListsOf
<1>2. t \in Seq(C)
  <2>1. Ind({}, C) \in Weights(C)
    BY <1>1, IndCounts
  <2> QED BY <1>1, <2>1, SpliceSum
<1>3. ASSUME NEW r, Ranking(r, ct, C) PROVE Below(t, r, r[p])
  <2>1. r[p] \in Nat /\ Below(ct[p], r, r[p])
    BY <1>3 DEF Ranking, Below, Weights
  <2> QED BY <1>1, <1>3, <2>1, SpliceBelow
<1>4. ASSUME NEW v, Valuation(v, ct, C) PROVE Total(v, t) = Total(v, ct[p])
  <2>1. v \in Weights(C) /\ \A x \in gone : v[x] = Total(v, Instances(ct, x))
    BY <1>4 DEF Valuation, Instances
  <2>2. Through(v, gone, ct, C) \in Weights(C) /\ Total(v, t) = Total(Through(v, gone, ct, C), ct[p])
    BY <1>1, <2>1, SpliceSum
  <2>3. \A x \in C : Through(v, gone, ct, C)[x] = v[x]
    BY <2>1 DEF Through
  <2>4. \A i \in DOMAIN ct[p] : Through(v, gone, ct, C)[ct[p][i]] = v[ct[p][i]]
    BY <1>1, <2>3
  <2> QED BY <1>1, <2>1, <2>2, <2>4, SumSame
<1>5. ASSUME NEW c \in boxes PROVE Total(Ind({c}, C), t) >= Total(Ind({c}, C), ct[p])
  <2> DEFINE w == Ind({c}, C)
  <2>1. w \in Weights(C)
    BY <1>1, IndCounts
  <2>2. Through(w, gone, ct, C) \in Weights(C) /\ Total(w, t) = Total(Through(w, gone, ct, C), ct[p])
    BY <1>1, <2>1, SpliceSum
  <2>3. \A x \in C : w[x] <= Through(w, gone, ct, C)[x]
    <3>1. SUFFICES ASSUME NEW x \in C PROVE w[x] <= Through(w, gone, ct, C)[x]
      OBVIOUS
    <3>2. CASE x \in gone
      <4>1. x # c
        BY <3>2
      <4>2. w[x] = 0
        BY <3>1, <4>1 DEF Ind
      <4>3. Through(w, gone, ct, C)[x] \in Nat
        BY <2>2, <3>1 DEF Weights
      <4> QED BY <4>2, <4>3
    <3>3. CASE x \notin gone
      <4>1. w[x] \in Nat
        BY <2>1, <3>1 DEF Weights
      <4> QED BY <3>1, <3>3, <4>1 DEF Through
    <3> QED BY <3>2, <3>3
  <2> HIDE DEF w
  <2>4. Total(w, ct[p]) <= Total(Through(w, gone, ct, C), ct[p])
    BY <1>1, <2>1, <2>2, <2>3, SumMonotone
  <2>5. Total(w, ct[p]) \in Nat /\ Total(w, t) \in Nat
    BY <1>1, <1>2, <2>1, SumIsNat
  <2> QED BY <2>2, <2>4, <2>5 DEF w
<1>6. ASSUME NEW U, Closed(U, ct), Within(ct[p], U) PROVE Within(t, U)
  <2>1. ASSUME NEW i \in DOMAIN ct[p] PROVE Replaced(ct[p][i], gone, ct, U)
    BY <1>6 DEF Replaced, Within, Closed, Instances
  <2> QED BY <1>1, <2>1, SpliceWithin
<1> QED BY <1>2, <1>3, <1>4, <1>5, <1>6 DEF SameValue

LEMMA ExpandValue ==
  ASSUME NEW C, NEW ct, ListsOf(ct, C), DOMAIN ct \subseteq C, IsFiniteSet(DOMAIN ct),
         NEW p \in DOMAIN ct, NEW gone \in SUBSET DOMAIN ct, NEW boxes, gone \cap boxes = {}
  PROVE  SameValue(Expanded(ct[p], gone, ct), ct[p], p, ct, C, boxes)
<1> DEFINE t == Expanded(ct[p], gone, ct)
<1>1. ct[p] \in Seq(C)
  BY DEF ListsOf
<1>2. t \in Seq(C)
  BY <1>1, ExpandedSum
<1>3. ASSUME NEW r, Ranking(r, ct, C) PROVE Below(t, r, r[p])
  <2>1. r[p] \in Nat /\ Below(ct[p], r, r[p])
    BY <1>3 DEF Ranking, Below, Weights
  <2> QED BY <1>1, <1>3, <2>1, ExpandedBelow
<1>4. ASSUME NEW v, Valuation(v, ct, C) PROVE Total(v, t) = Total(v, ct[p])
  <2>1. v \in Weights(C) /\ \A x \in C \cap gone : v[x] = Total(v, Instances(ct, x))
    BY <1>4 DEF Valuation, Instances
  <2> QED BY <1>1, <2>1, ExpandedSum
<1>5. ASSUME NEW c \in boxes PROVE Total(Ind({c}, C), t) >= Total(Ind({c}, C), ct[p])
  <2>1. Ind({c}, C) \in Weights(C)
    BY <1>1, IndCounts
  <2>2. \A x \in C \cap gone : Ind({c}, C)[x] = 0
    BY DEF Ind
  <2> QED BY <1>1, <2>1, <2>2, ExpandedSum
<1>6. ASSUME NEW U, Closed(U, ct), Within(ct[p], U) PROVE Within(t, U)
  BY <1>1, <1>6, ExpandedWithin
<1> QED BY <1>2, <1>3, <1>4, <1>5, <1>6 DEF SameValue

(***************************************************************************)
(* The hierarchy that is read.                                              *)
(***************************************************************************)
LEMMA CellIsPair ==
  ASSUME NEW d, NEW c \in Cells(d)
  PROVE  \E n : \E f \in File : c = <<n, f>> /\ c[1] = n /\ c[2] = f
<1>1. PICK f \in File : c \in {<<n, f>> : n \in DOMAIN d.contents[f]} \cup
                 UNION {{<<n, f>> : n \in ToSet(d.contents[f][m])} :
                        m \in DOMAIN d.contents[f]}
  BY DEF Cells
<1>2. CASE c \in {<<n, f>> : n \in DOMAIN d.contents[f]}
  BY <1>2
<1>3. CASE c \in UNION {{<<n, f>> : n \in ToSet(d.contents[f][m])} : m \in DOMAIN d.contents[f]}
  BY <1>3
<1> QED BY <1>1, <1>2, <1>3

LEMMA SubcktsRead ==
  ASSUME NEW d
  PROVE  /\ DOMAIN AsRead(d) \subseteq Cells(d)
         /\ \A c \in Cells(d) : c \in DOMAIN AsRead(d) <=> c[1] \in DOMAIN d.contents[c[2]]
         /\ \A f \in File : \A n \in DOMAIN d.contents[f] : <<n, f>> \in DOMAIN AsRead(d)
<1>1. DOMAIN AsRead(d) = {x \in Cells(d) : KindIn(d, x) = "subckt"}
  BY DEF AsRead
<1>2. \A c : KindIn(d, c) = "subckt" <=> c[1] \in DOMAIN d.contents[c[2]]
  BY DEF KindIn
<1>3. ASSUME NEW f \in File, NEW n \in DOMAIN d.contents[f] PROVE <<n, f>> \in Cells(d)
  BY DEF Cells
<1> QED BY <1>1, <1>2, <1>3

LEMMA InstancesRead ==
  ASSUME NEW d, NEW c \in DOMAIN AsRead(d)
  PROVE  /\ c[2] \in File /\ c = <<c[1], c[2]>>
         /\ c[1] \in DOMAIN d.contents[c[2]]
         /\ DOMAIN AsRead(d)[c] = DOMAIN d.contents[c[2]][c[1]]
         /\ \A i \in DOMAIN AsRead(d)[c] :
               AsRead(d)[c][i] = <<d.contents[c[2]][c[1]][i], c[2]>>
<1>1. c \in Cells(d) /\ c[1] \in DOMAIN d.contents[c[2]]
  BY SubcktsRead
<1>2. c[2] \in File /\ c = <<c[1], c[2]>>
  BY <1>1, CellIsPair
<1>3. AsRead(d)[c] = [i \in DOMAIN d.contents[c[2]][c[1]] |-> <<d.contents[c[2]][c[1]][i], c[2]>>]
  BY DEF AsRead
<1> QED BY <1>1, <1>2, <1>3

LEMMA ListsRead ==
  ASSUME NEW d \in DOMAIN Designs
  PROVE  ListsOf(AsRead(Designs[d]), Cells(Designs[d]))
<1> DEFINE x == Designs[d]
<1>1. SUFFICES ASSUME NEW c \in DOMAIN AsRead(x) PROVE AsRead(x)[c] \in Seq(Cells(x))
  BY DEF ListsOf
<1> DEFINE L == x.contents[c[2]][c[1]]
<1>2. /\ c[2] \in File /\ c[1] \in DOMAIN x.contents[c[2]]
      /\ DOMAIN AsRead(x)[c] = DOMAIN L
      /\ \A i \in DOMAIN AsRead(x)[c] : AsRead(x)[c][i] = <<L[i], c[2]>>
  BY <1>1, InstancesRead
<1>3. L \in Seq(ToSet(L))
  BY <1>2, DesignsAssumption DEF IsList
<1>4. Len(L) \in Nat /\ DOMAIN L = 1..Len(L)
  BY <1>3
<1>5. AsRead(x)[c] = [i \in 1..Len(L) |-> <<L[i], c[2]>>]
  BY <1>1, <1>4 DEF AsRead
<1>6. ASSUME NEW i \in 1..Len(L) PROVE <<L[i], c[2]>> \in Cells(x)
  <2>1. L[i] \in ToSet(L)
    BY <1>4 DEF ToSet
  <2> QED BY <1>2, <2>1 DEF Cells
<1> HIDE DEF L, x
<1> QED BY <1>4, <1>5, <1>6

LEMMA AcyclicRead ==
  ASSUME NEW d \in DOMAIN Designs
  PROVE  Acyclic(AsRead(Designs[d]))
<1> DEFINE x == Designs[d]
           ct == AsRead(x)
<1>1. SUFFICES ASSUME NEW S \in SUBSET DOMAIN ct, S # {}
               PROVE  \E c \in S : \A i \in DOMAIN ct[c] : ct[c][i] \notin S
  BY DEF Acyclic
<1>2. PICK c0 \in S : c0[2] \in File /\ c0 = <<c0[1], c0[2]>> /\ c0[1] \in DOMAIN x.contents[c0[2]]
  BY <1>1, InstancesRead
<1> DEFINE f == c0[2]
           subckt == x.contents[f]
           T == {n \in DOMAIN subckt : <<n, f>> \in S}
<1>3. T \in SUBSET DOMAIN subckt /\ T # {}
  BY <1>2
<1>4. PICK n \in T : ToSet(subckt[n]) \cap T = {}
  <2>1. \A U \in SUBSET DOMAIN subckt : U # {} => \E n \in U : ToSet(subckt[n]) \cap U = {}
    BY <1>2, DesignsAssumption
  <2> HIDE DEF T, subckt
  <2> QED BY <1>3, <2>1
<1>5. <<n, f>> \in S
  BY <1>4
<1>6. ASSUME NEW i \in DOMAIN ct[<<n, f>>], ct[<<n, f>>][i] \in S PROVE FALSE
  <2>1. DOMAIN ct[<<n, f>>] = DOMAIN subckt[n] /\ ct[<<n, f>>][i] = <<subckt[n][i], f>>
    BY <1>1, <1>5, <1>6, InstancesRead
  <2>2. subckt[n][i] \in DOMAIN subckt
    <3>1. <<subckt[n][i], f>> \in DOMAIN ct
      BY <1>1, <1>6, <2>1
    <3> QED BY <3>1, InstancesRead
  <2>3. subckt[n][i] \in T
    BY <1>6, <2>1, <2>2
  <2>4. subckt[n][i] \in ToSet(subckt[n])
    BY <1>6, <2>1 DEF ToSet
  <2> QED BY <1>4, <2>3, <2>4
<1> QED BY <1>5, <1>6

LEMMA FiniteRead ==
  ASSUME NEW d \in DOMAIN Designs
  PROVE  IsFiniteSet(DOMAIN AsRead(Designs[d]))
<1> DEFINE x == Designs[d]
           of(f) == {<<n, f>> : n \in DOMAIN x.contents[f]}
<1>1. \A f \in File : IsFiniteSet(DOMAIN x.contents[f])
  BY DesignsAssumption
<1>2. ASSUME NEW f \in File PROVE IsFiniteSet(of(f))
  <2>1. IsFiniteSet(DOMAIN x.contents[f])
    BY <1>1
  <2> DEFINE g == [n \in DOMAIN x.contents[f] |-> <<n, f>>]
  <2>2. g \in Surjection(DOMAIN x.contents[f], of(f))
    BY DEF Surjection
  <2> HIDE DEF g, of
  <2> QED BY <2>1, <2>2, FS_Surjection
<1>3. IsFiniteSet(of(1) \cup of(2))
  <2>1. IsFiniteSet(of(1)) /\ IsFiniteSet(of(2))
    BY <1>2 DEF File
  <2> HIDE DEF of
  <2> QED BY <2>1, FS_Union
<1>4. DOMAIN AsRead(x) \subseteq of(1) \cup of(2)
  <2>1. SUFFICES ASSUME NEW c \in DOMAIN AsRead(x) PROVE c \in of(1) \cup of(2)
    OBVIOUS
  <2>2. c[2] \in File /\ c = <<c[1], c[2]>> /\ c[1] \in DOMAIN x.contents[c[2]]
    BY <2>1, InstancesRead
  <2> QED BY <2>2 DEF File
<1> HIDE DEF of, x
<1>5. QED BY <1>3, <1>4, FS_Subset DEF x

(***************************************************************************)
(* The flattening commands.                                                 *)
(***************************************************************************)
\* What every command may rely on.
Readable ==
  /\ design \in DOMAIN Designs
  /\ Flattens(contents, AsRead(D), Cell, {})

\* A hierarchy of the same cells as the one that was read.
Hierarchy(ct) ==
  /\ ListsOf(ct, Cell) /\ DOMAIN ct \subseteq Cell /\ IsFiniteSet(DOMAIN ct)
  /\ \A c \in Cell : IsSubckt(c) => c \in DOMAIN ct

LEMMA ContentsHierarchy ==
  ASSUME Readable
  PROVE  Hierarchy(contents) /\ DOMAIN contents = DOMAIN AsRead(D)
<1>1. DOMAIN contents = DOMAIN AsRead(D) /\ ListsOf(contents, Cell)
  BY DEF Readable, Flattens
<1>2. design \in DOMAIN Designs
  BY DEF Readable
<1>3. IsFiniteSet(DOMAIN contents)
  BY <1>1, <1>2, FiniteRead DEF D
<1>4. DOMAIN contents \subseteq Cell
  BY <1>1, SubcktsRead DEF Cell
<1>5. ASSUME NEW c \in Cell, IsSubckt(c) PROVE c \in DOMAIN contents
  <2>1. c[1] \in DOMAIN D.contents[c[2]]
    BY <1>5 DEF IsSubckt, Kind, KindIn
  <2> QED BY <1>1, <2>1, SubcktsRead DEF Cell
<1> QED BY <1>1, <1>3, <1>4, <1>5 DEF Hierarchy

LEMMA FlattensHierarchy ==
  ASSUME NEW ct, NEW nt, NEW boxes, Hierarchy(ct), Flattens(nt, ct, Cell, boxes)
  PROVE  Hierarchy(nt)
BY DEF Hierarchy, Flattens

\* One cell's list is changed to a list of the same value.
LEMMA ChangeOne ==
  ASSUME NEW ct, Hierarchy(ct), NEW p \in DOMAIN ct, NEW boxes, NEW t,
         SameValue(t, ct[p], p, ct, Cell, boxes)
  PROVE  Flattens([ct EXCEPT ![p] = t], ct, Cell, boxes)
<1> DEFINE nt == [ct EXCEPT ![p] = t]
<1>1. ListsOf(ct, Cell)
  BY DEF Hierarchy
<1>2. DOMAIN nt = DOMAIN ct
  OBVIOUS
<1>3. ASSUME NEW q \in DOMAIN ct PROVE SameValue(nt[q], ct[q], q, ct, Cell, boxes)
  <2>1. CASE q = p
    BY <2>1
  <2>2. CASE q # p
    <3>1. nt[q] = ct[q]
      BY <2>2
    <3> QED BY <1>1, <3>1, SameValueSelf
  <2> QED BY <2>1, <2>2
<1> HIDE DEF nt
<1>4. ListsOf(nt, Cell)
  BY <1>2, <1>3 DEF ListsOf, SameValue
<1> QED BY <1>1, <1>2, <1>3, <1>4, Exchange DEF SameValue, nt

LEMMA flattenInstancesOfValue ==
  ASSUME NEW ct, Hierarchy(ct), NEW p \in DOMAIN ct, NEW c,
         c \in Cell => c \in DOMAIN ct
  PROVE  /\ SameValue(flattenInstancesOf(ct, p, c)[p], ct[p], p, ct, Cell, placeholder)
         /\ \/ flattenInstancesOf(ct, p, c) = ct
            \/ flattenInstancesOf(ct, p, c) = [ct EXCEPT ![p] = flattenInstancesOf(ct, p, c)[p]]
<1>1. ListsOf(ct, Cell) /\ DOMAIN ct \subseteq Cell /\ ct[p] \in Seq(Cell)
  BY DEF Hierarchy, ListsOf
<1>2. CASE NumFlat(ct, p, c) = 0
  <2>1. flattenInstancesOf(ct, p, c) = ct
    BY <1>2 DEF flattenInstancesOf
  <2> QED BY <1>1, <2>1, SameValueSelf
<1>3. CASE NumFlat(ct, p, c) # 0
  <2>1. MayFlatten(p, c) /\ {i \in DOMAIN Instances(ct, p) : ct[p][i] = c} # {}
    BY <1>3, FS_EmptySet DEF NumFlat
  <2>2. c \in DOMAIN ct
    <3>1. PICK i \in DOMAIN ct[p] : ct[p][i] = c
      BY <2>1 DEF Instances
    <3> QED BY <1>1, <3>1
  <2>3. {c} \cap placeholder = {}
    BY <2>1 DEF MayFlatten
  <2>4. flattenInstancesOf(ct, p, c) = [ct EXCEPT ![p] = Splice(ct[p], {c}, ct)]
    BY <1>3 DEF flattenInstancesOf
  <2>5. SameValue(Splice(ct[p], {c}, ct), ct[p], p, ct, Cell, placeholder)
    <3>1. {c} \in SUBSET DOMAIN ct
      BY <2>2
    <3> QED BY <1>1, <2>3, <3>1, SpliceValue
  <2> QED BY <2>4, <2>5
<1> QED BY <1>2, <1>3

LEMMA flattenInstancesOfFlattens ==
  ASSUME NEW ct, Hierarchy(ct), NEW p, NEW c, c \in Cell => c \in DOMAIN ct
  PROVE  Flattens(flattenInstancesOf(ct, p, c), ct, Cell, placeholder)
<1>1. ListsOf(ct, Cell)
  BY DEF Hierarchy
<1>2. CASE p \in DOMAIN ct
  BY <1>1, <1>2, flattenInstancesOfValue, ChangeOne, FlattensSelf
<1>3. CASE p \notin DOMAIN ct
  <2>1. {i \in DOMAIN Instances(ct, p) : ct[p][i] = c} = {}
    BY <1>3 DEF Instances
  <2>2. NumFlat(ct, p, c) = 0
    BY <2>1, FS_EmptySet DEF NumFlat
  <2> QED BY <1>1, <2>2, FlattensSelf DEF flattenInstancesOf
<1> QED BY <1>2, <1>3

LEMMA FlattenInstancesOfFlattens ==
  ASSUME NEW ct, Hierarchy(ct), NEW c, c \in Cell => c \in DOMAIN ct
  PROVE  Flattens(FlattenInstancesOf(ct, c), ct, Cell, placeholder)
<1> DEFINE nt == FlattenInstancesOf(ct, c)
<1>1. ListsOf(ct, Cell)
  BY DEF Hierarchy
<1>2. DOMAIN nt = DOMAIN ct
  BY DEF FlattenInstancesOf
<1>3. ASSUME NEW q \in DOMAIN ct PROVE SameValue(nt[q], ct[q], q, ct, Cell, placeholder)
  <2>1. nt[q] = flattenInstancesOf(ct, q, c)[q] \/ nt[q] = ct[q]
    BY DEF FlattenInstancesOf
  <2> QED BY <1>1, <2>1, SameValueSelf, flattenInstancesOfValue
<1> HIDE DEF nt
<1>4. ListsOf(nt, Cell)
  BY <1>2, <1>3 DEF ListsOf, SameValue
<1> QED BY <1>1, <1>2, <1>3, <1>4, Exchange DEF SameValue, nt

LEMMA FlattenUnmatchedFlattens ==
  ASSUME NEW ct, Hierarchy(ct), NEW p
  PROVE  Flattens(FlattenUnmatched(ct, p), ct, Cell, placeholder)
<1>1. ListsOf(ct, Cell) /\ DOMAIN ct \subseteq Cell /\ IsFiniteSet(DOMAIN ct)
  BY DEF Hierarchy
<1>2. CASE p \in DOMAIN ct
  <2> DEFINE gone == {c \in DOMAIN ct \ matched : MayFlatten(p, c)}
  <2>1. FlattenUnmatched(ct, p) = [ct EXCEPT ![p] = Expanded(ct[p], gone, ct)]
    BY <1>2 DEF FlattenUnmatched
  <2>2. gone \in SUBSET DOMAIN ct /\ gone \cap placeholder = {}
    BY DEF MayFlatten
  <2> HIDE DEF gone
  <2>3. SameValue(Expanded(ct[p], gone, ct), ct[p], p, ct, Cell, placeholder)
    BY <1>1, <1>2, <2>2, ExpandValue
  <2> DEFINE t == Expanded(ct[p], gone, ct)
  <2> HIDE DEF t
  <2>4. Flattens([ct EXCEPT ![p] = t], ct, Cell, placeholder)
    BY <1>2, <2>3, ChangeOne DEF t
  <2> QED BY <2>1, <2>4 DEF t
<1>3. CASE p \notin DOMAIN ct
  BY <1>1, <1>3, FlattensSelf DEF FlattenUnmatched
<1> QED BY <1>2, <1>3

(***************************************************************************)
(* The cross check of PrematchLists, a run through a list of pairs.         *)
(***************************************************************************)
Checked(r) == "contents" \in DOMAIN r /\ Flattens(r.contents, contents, Cell, placeholder)

LEMMA FlattenEntryChecked ==
  ASSUME Readable, NEW r, Checked(r), NEW e, NEW s, NEW t, NEW f, NEW q, PartOf(e, s, f, q)
  PROVE  Checked(FlattenEntry(r, e, s))
<1> DEFINE c == CellOf(e, s)
           ct == flattenInstancesOf(r.contents, pair[s], c)
<1>1. Hierarchy(contents)
  BY ContentsHierarchy
<1>2. Hierarchy(r.contents) /\ DOMAIN r.contents = DOMAIN contents
  BY <1>1, FlattensHierarchy DEF Checked, Flattens
<1>3. c \in DOMAIN contents
  BY DEF PartOf, Instances, ToSet
<1>4. Flattens(ct, r.contents, Cell, placeholder)
  BY <1>2, <1>3, flattenInstancesOfFlattens
<1> HIDE DEF ct
<1>5. Flattens(ct, contents, Cell, placeholder)
  BY <1>1, <1>4, FlattensAgain DEF Checked, Hierarchy
<1>6. FlattenEntry(r, e, s) = IF ct = r.contents THEN r
                              ELSE [r EXCEPT !.contents = ct, !.num[e][s] = 0]
  BY DEF FlattenEntry, ct
<1>7. ASSUME NEW m PROVE LET n == [[r EXCEPT !["contents"] = ct] EXCEPT !["num"] = m]
                         IN  "contents" \in DOMAIN n /\ n.contents = ct
  BY DEF Checked
<1> QED BY <1>5, <1>6, <1>7 DEF Checked

LEMMA CrossCheckChecked ==
  ASSUME Readable, NEW r, Checked(r), NEW ef
  PROVE  Checked(CrossCheck(r, ef))
<1> DEFINE first == IF PartOf(ef[1], 1, ef[2], r) THEN FlattenEntry(r, ef[1], 1) ELSE r
<1>1. Checked(first)
  BY FlattenEntryChecked
<1> HIDE DEF first
<1>2. PartOf(ef[2], 2, ef[1], first) => Checked(FlattenEntry(first, ef[2], 2))
  BY <1>1, FlattenEntryChecked
<1>3. CrossCheck(r, ef) =
        IF r.num[ef[1]][1] = 0 \/ r.num[ef[2]][2] = 0 THEN r
        ELSE IF PartOf(ef[2], 2, ef[1], first) THEN FlattenEntry(first, ef[2], 2) ELSE first
  BY DEF CrossCheck, first
<1> QED BY <1>1, <1>2, <1>3

\* The results of the cross check after each of the first N pairs.
CrossRun(g, pairs, base, N) ==
  [n \in 0..N |-> IF n = 0 THEN base ELSE CrossCheck(g[n - 1], pairs[n])]

LEMMA CrossRunExists ==
  ASSUME NEW pairs, NEW base, NEW N \in Nat
  PROVE  \E f : f = CrossRun(f, pairs, base, N)
<1> DEFINE P == {n \in Nat : \E f : f = CrossRun(f, pairs, base, n)}
<1>1. 0 \in P
  <2> DEFINE f == [n \in 0..0 |-> base]
  <2>1. f = CrossRun(f, pairs, base, 0)
    BY DEF CrossRun
  <2> HIDE DEF f
  <2> QED BY <2>1
<1>2. ASSUME NEW n \in Nat, n \in P PROVE n + 1 \in P
  <2>1. PICK f : f = CrossRun(f, pairs, base, n)
    BY <1>2
  <2> DEFINE g == [i \in 0..(n + 1) |-> IF i <= n THEN f[i] ELSE CrossCheck(f[n], pairs[n + 1])]
  <2>2. \A i \in 0..n : f[i] = IF i = 0 THEN base ELSE CrossCheck(f[i - 1], pairs[i])
    BY <2>1 DEF CrossRun
  <2>3. \A i \in 0..n : g[i] = f[i]
    OBVIOUS
  <2>4. g[n + 1] = CrossCheck(f[n], pairs[n + 1])
    OBVIOUS
  <2>5. DOMAIN g = 0..(n + 1) /\ g = [i \in 0..(n + 1) |-> g[i]]
    OBVIOUS
  <2> HIDE DEF g
  <2>6. ASSUME NEW i \in 0..(n + 1)
        PROVE  g[i] = IF i = 0 THEN base ELSE CrossCheck(g[i - 1], pairs[i])
    <3>1. CASE i = 0
      BY <2>2, <2>3, <3>1
    <3>2. CASE i # 0 /\ i <= n
      <4>1. i - 1 \in 0..n /\ i \in 0..n
        BY <3>2
      <4>2. g[i] = f[i] /\ g[i - 1] = f[i - 1] /\ f[i] = CrossCheck(f[i - 1], pairs[i])
        BY <2>2, <2>3, <3>2, <4>1
      <4> QED BY <3>2, <4>2
    <3>3. CASE i = n + 1
      <4>1. i # 0 /\ i - 1 = n /\ n \in 0..n
        BY <3>3
      <4>2. g[i - 1] = f[n]
        BY <2>3, <4>1
      <4> QED BY <2>4, <3>3, <4>1, <4>2
    <3> QED BY <3>1, <3>2, <3>3
  <2>7. g = CrossRun(g, pairs, base, n + 1)
    BY <2>5, <2>6 DEF CrossRun
  <2> QED BY <2>7
<1>3. Nat \subseteq P
  <2> HIDE DEF P
  <2> QED BY <1>1, <1>2, Induction
<1> QED BY <1>3

\* What holds of two lists that the code builds: they are lists.
Lists == (\E S : listX0 \in Seq(S)) /\ (\E S : list0X \in Seq(S))

CrossPairs ==
  FlattenSeq([i \in DOMAIN listX0 |-> [j \in DOMAIN list0X |-> <<listX0[i], list0X[j]>>]])

LEMMA CrossPairsList ==
  ASSUME Lists
  PROVE  Len(CrossPairs) \in Nat
<1>1. PICK S : listX0 \in Seq(S)
  BY DEF Lists
<1>2. PICK T : list0X \in Seq(T)
  BY DEF Lists
<1> DEFINE row(i) == [j \in DOMAIN list0X |-> <<listX0[i], list0X[j]>>]
           q == [i \in DOMAIN listX0 |-> row(i)]
<1>3. Len(listX0) \in Nat /\ DOMAIN listX0 = 1..Len(listX0)
  BY <1>1
<1>4. Len(list0X) \in Nat /\ DOMAIN list0X = 1..Len(list0X)
  BY <1>2
<1>5. ASSUME NEW i \in DOMAIN listX0 PROVE row(i) \in Seq(S \X T)
  <2>1. \A j \in 1..Len(list0X) : <<listX0[i], list0X[j]>> \in S \X T
    BY <1>1, <1>2, <1>3, <1>4
  <2>2. row(i) = [j \in 1..Len(list0X) |-> <<listX0[i], list0X[j]>>]
    BY <1>4
  <2> QED BY <1>4, <2>1, <2>2
<1>6. q \in Seq(Seq(S \X T))
  <2> HIDE DEF row
  <2>1. q = [i \in 1..Len(listX0) |-> row(i)]
    BY <1>3
  <2> QED BY <1>3, <1>5, <2>1
<1>7. CrossPairs = FlattenSeq(q)
  BY DEF CrossPairs
<1> HIDE DEF q
<1>8. PICK f : IsJoin(f, q, S \X T) /\ FlattenSeq(q) = f[Len(q)]
  BY <1>6, JoinExists
<1>9. Len(q) \in 0..Len(q)
  BY <1>6
<1>10. FlattenSeq(q) \in Seq(S \X T)
  BY <1>8, <1>9 DEF IsJoin
<1> QED BY <1>7, <1>10

LEMMA CrossCheckedFlattens ==
  ASSUME Readable, Lists
  PROVE  Flattens(CrossChecked.contents, contents, Cell, placeholder)
<1> DEFINE base == [contents |-> contents, num |-> num]
           N == Len(CrossPairs)
           after == CHOOSE g : g = CrossRun(g, CrossPairs, base, N)
<1>1. N \in Nat
  BY CrossPairsList
<1>2. after = CrossRun(after, CrossPairs, base, N)
  <2> HIDE DEF base
  <2> QED BY <1>1, CrossRunExists
<1>3. CrossChecked = after[N]
  BY DEF CrossChecked, CrossPairs, CrossRun
<1>4. Checked(base)
  <2>1. ListsOf(contents, Cell)
    BY ContentsHierarchy DEF Hierarchy
  <2>2. base.contents = contents /\ "contents" \in DOMAIN base
    OBVIOUS
  <2> HIDE DEF base
  <2> QED BY <2>1, <2>2, FlattensSelf DEF Checked
<1> HIDE DEF base, after, N
<1>5. after[0] = base /\ \A n \in 1..N : after[n] = CrossCheck(after[n - 1], CrossPairs[n])
  BY <1>1, <1>2 DEF CrossRun
<1> DEFINE P == {n \in Nat : n <= N => Checked(after[n])}
<1>6. 0 \in P
  BY <1>4, <1>5
<1>7. ASSUME NEW n \in Nat, n \in P PROVE n + 1 \in P
  <2>1. SUFFICES ASSUME n + 1 <= N PROVE Checked(after[n + 1])
    OBVIOUS
  <2>2. n + 1 \in 1..N /\ (n + 1) - 1 = n /\ Checked(after[n])
    BY <1>1, <1>7, <2>1
  <2>3. after[n + 1] = CrossCheck(after[n], CrossPairs[n + 1])
    BY <1>5, <2>2
  <2> QED BY <2>2, <2>3, CrossCheckChecked
<1>8. N \in P
  <2> HIDE DEF P
  <2> QED BY <1>1, <1>6, <1>7, Induction
<1> QED BY <1>3, <1>8 DEF Checked

(***************************************************************************)
(* The steps that flatten.                                                  *)
(***************************************************************************)
\* A pair that has been compared, or will be flattened, has no black box.
PairRead ==
  pc = "flatten class" \/ (pc = "decide" /\ verdict # "blackbox")
    => pair[1] \in DOMAIN contents /\ pair[2] \in DOMAIN contents

LvsInv == Readable /\ Lists /\ PairRead

\* What a step may do to the hierarchy.
Step == Flattens(contents', contents, Cell, placeholder)

LEMMA Unchanged ==
  ASSUME Readable, contents' = contents
  PROVE  Step
<1>1. ListsOf(contents, Cell)
  BY ContentsHierarchy DEF Hierarchy
<1> QED BY <1>1, FlattensSelf DEF Step

LEMMA FlattenInFlattens ==
  ASSUME NEW ct, Hierarchy(ct), NEW s, NEW e, IsSubckt(CellOf(e, s))
  PROVE  Flattens(FlattenIn(ct, s, e), ct, Cell, placeholder)
<1>1. CellOf(e, s) \in Cell => CellOf(e, s) \in DOMAIN ct
  BY DEF Hierarchy
<1>2. ListsOf(ct, Cell)
  BY DEF Hierarchy
<1> QED BY <1>1, <1>2, flattenInstancesOfFlattens, FlattensSelf DEF FlattenIn

LEMMA Case1Flattens ==
  ASSUME Readable, NEW e, Case1(e)
  PROVE  Step
<1> DEFINE mt == FlattenIn(contents, 1, e)
           nt == FlattenIn(mt, 2, e)
<1>1. IsSubckt(CellOf(e, 1)) /\ IsSubckt(CellOf(e, 2))
  BY DEF Case1
<1>2. contents' = contents \/ contents' = nt
  BY DEF Case1
<1>3. Hierarchy(contents)
  BY ContentsHierarchy
<1>4. Flattens(mt, contents, Cell, placeholder)
  BY <1>1, <1>3, FlattenInFlattens
<1>5. Hierarchy(mt)
  BY <1>3, <1>4, FlattensHierarchy
<1>6. Flattens(nt, mt, Cell, placeholder)
  BY <1>1, <1>5, FlattenInFlattens
<1> HIDE DEF mt, nt
<1>7. Flattens(nt, contents, Cell, placeholder)
  BY <1>3, <1>4, <1>6, FlattensAgain DEF Hierarchy
<1> QED BY <1>2, <1>7, Unchanged DEF Step

LEMMA CaseOneFlattens ==
  ASSUME Readable, NEW e, NEW s \in File, CaseOne(e, s)
  PROVE  Step
<1>1. IsSubckt(CellOf(e, s))
  BY DEF CaseOne
<1>2. contents' = contents \/ contents' = FlattenIn(contents, s, e)
  BY DEF CaseOne
<1>3. Hierarchy(contents)
  BY ContentsHierarchy
<1>4. Flattens(FlattenIn(contents, s, e), contents, Cell, placeholder)
  BY <1>1, <1>3, FlattenInFlattens
<1> QED BY <1>2, <1>4, Unchanged DEF Step

LEMMA PrematchFlattens ==
  ASSUME Readable, NEW k \in todo, PrematchEntry(k)
  PROVE  Step
<1>1. CASE Case1(entryOf[k])
  BY <1>1, Case1Flattens
<1>2. ASSUME NEW s \in File, CaseOne(entryOf[k], s) PROVE Step
  BY <1>2, CaseOneFlattens
<1>3. CASE NoCase(entryOf[k])
  BY <1>3, Unchanged DEF NoCase
<1> QED BY <1>1, <1>2, <1>3 DEF PrematchEntry

LEMMA FlattenBothFlattens ==
  ASSUME Readable, FlattenBoth
  PROVE  Step
<1> DEFINE mt == FlattenUnmatched(contents, pair[1])
           nt == FlattenUnmatched(mt, pair[2])
<1>1. contents' = nt
  BY DEF FlattenBoth, Flattened
<1>2. Hierarchy(contents)
  BY ContentsHierarchy
<1>3. Flattens(mt, contents, Cell, placeholder)
  BY <1>2, FlattenUnmatchedFlattens
<1>4. Hierarchy(mt)
  BY <1>2, <1>3, FlattensHierarchy
<1>5. Flattens(nt, mt, Cell, placeholder)
  BY <1>4, FlattenUnmatchedFlattens
<1> HIDE DEF mt, nt
<1> QED BY <1>1, <1>2, <1>3, <1>5, FlattensAgain DEF Hierarchy, Step

LEMMA FlattenPairFlattens ==
  ASSUME Readable, PairRead, FlattenPair
  PROVE  Step
<1> DEFINE mt == FlattenInstancesOf(contents, pair[1])
           nt == FlattenInstancesOf(mt, pair[2])
<1>1. contents' = nt /\ pair[1] \in DOMAIN contents /\ pair[2] \in DOMAIN contents
  BY DEF FlattenPair, PairRead
<1>2. Hierarchy(contents)
  BY ContentsHierarchy
<1>3. Flattens(mt, contents, Cell, placeholder)
  BY <1>1, <1>2, FlattenInstancesOfFlattens
<1>4. Hierarchy(mt) /\ pair[2] \in DOMAIN mt
  BY <1>1, <1>2, <1>3, FlattensHierarchy DEF Flattens
<1>5. Flattens(nt, mt, Cell, placeholder)
  BY <1>4, FlattenInstancesOfFlattens
<1> HIDE DEF mt, nt
<1> QED BY <1>1, <1>2, <1>3, <1>5, FlattensAgain DEF Hierarchy, Step

LEMMA PrematchEndFlattens ==
  ASSUME Readable, Lists, PrematchEnd
  PROVE  Step
<1>1. contents' = contents \/ contents' = CrossChecked.contents
  BY DEF PrematchEnd
<1>2. Flattens(CrossChecked.contents, contents, Cell, placeholder)
  BY CrossCheckedFlattens
<1> QED BY <1>1, <1>2, Unchanged DEF Step

\* Every step of the procedure flattens, or leaves the hierarchy alone.
LEMMA NextFlattens ==
  ASSUME LvsInv, [Next]_vars
  PROVE  Step /\ UNCHANGED design
<1> USE DEF LvsInv
<1>1. CASE FlattenBoth
  BY <1>1, FlattenBothFlattens DEF FlattenBoth
<1>2. ASSUME NEW k \in todo, PrematchEntry(k), UNCHANGED design PROVE Step /\ UNCHANGED design
  BY <1>2, PrematchFlattens
<1>3. CASE PrematchEnd
  BY <1>3, PrematchEndFlattens DEF PrematchEnd
<1>4. CASE FlattenPair
  BY <1>4, FlattenPairFlattens DEF FlattenPair
<1>5. CASE StartLvs \/ GetCompareQueueTop \/ Compare \/ EndLvs \/ Again \/ UNCHANGED vars
           \/ \E r : Decide(r)
  <2>1. UNCHANGED <<design, contents>>
    BY <1>5 DEF StartLvs, GetCompareQueueTop, Compare, EndLvs, Again, Decide, vars, hierarchyVars
  <2> QED BY <2>1, Unchanged
<1> QED BY <1>1, <1>2, <1>3, <1>4, <1>5 DEF Next, PrematchStep

LEMMA LvsInit ==
  ASSUME Init
  PROVE  LvsInv
<1>1. design \in DOMAIN Designs /\ contents = AsRead(D)
  BY DEF Init, InitHierarchy
<1>2. ListsOf(AsRead(D), Cell)
  BY <1>1, ListsRead DEF D, Cell
<1>3. Flattens(contents, AsRead(D), Cell, {})
  BY <1>1, <1>2, FlattensSelf
<1>4. Lists
  <2>1. << >> \in Seq({})
    OBVIOUS
  <2> QED BY <2>1 DEF Lists, Init
<1>5. PairRead
  BY DEF PairRead, Init
<1> QED BY <1>1, <1>3, <1>4, <1>5 DEF LvsInv, Readable

LEMMA ReadableNext ==
  ASSUME Readable, Step, UNCHANGED design
  PROVE  Readable'
<1>1. D' = D /\ Cell' = Cell
  BY DEF D, Cell
<1>2. Flattens(contents', contents, Cell, {})
  BY DEF Step, Flattens
<1>3. ListsOf(AsRead(D), Cell)
  BY ListsRead DEF Readable, D, Cell
<1>4. Flattens(contents', AsRead(D), Cell, {})
  BY <1>2, <1>3, FlattensAgain DEF Readable
<1> QED BY <1>1, <1>4 DEF Readable

LEMMA ListsNext ==
  ASSUME Lists, [Next]_vars
  PROVE  Lists'
<1>1. CASE UNCHANGED <<listX0, list0X>>
  BY <1>1 DEF Lists
<1>2. CASE listX0' = << >> /\ list0X' = << >>
  <2>1. << >> \in Seq({})
    OBVIOUS
  <2> QED BY <1>2, <2>1 DEF Lists
<1>3. ASSUME NEW e, Case1(e) PROVE Lists'
  <2>1. \A s, S : s \in Seq(S) => <<e>> \o s \in Seq(S \cup {e})
    OBVIOUS
  <2>2. (listX0' = listX0 \/ listX0' = <<e>> \o listX0) /\ (list0X' = list0X \/ list0X' = <<e>> \o list0X)
    BY <1>3 DEF Case1
  <2> QED BY <2>1, <2>2 DEF Lists
<1>4. CASE \E k \in todo : PrematchEntry(k)
  BY <1>1, <1>3, <1>4 DEF PrematchEntry, CaseOne, NoCase
<1>5. CASE FlattenBoth \/ PrematchEnd
  BY <1>2, <1>5 DEF FlattenBoth, PrematchEnd
<1>6. CASE StartLvs \/ GetCompareQueueTop \/ Compare \/ EndLvs \/ Again \/ FlattenPair
           \/ UNCHANGED vars \/ \E r : Decide(r)
  BY <1>1, <1>6 DEF StartLvs, GetCompareQueueTop, Compare, EndLvs, Again, FlattenPair, Decide,
     vars, prematchVars
<1> QED BY <1>4, <1>5, <1>6 DEF Next, PrematchStep

LEMMA PairReadNext ==
  ASSUME PairRead, [Next]_vars
  PROVE  PairRead'
<1>1. CASE Compare
  <2>1. UNCHANGED <<pair, contents>> /\ pc' = "decide" /\ verdict' \in Verdicts(pair)
    BY <1>1 DEF Compare, hierarchyVars
  <2>2. ASSUME verdict' # "blackbox" PROVE \A s \in File : pair[s] \in DOMAIN contents
    <3>1. \A s \in File : HasContents(contents, pair[s])
      BY <2>1, <2>2 DEF Verdicts
    <3> QED BY <3>1 DEF HasContents, Instances
  <2> QED BY <2>1, <2>2 DEF PairRead, File
<1>2. ASSUME NEW r, Decide(r) PROVE PairRead'
  <2>1. UNCHANGED <<pair, contents>> /\ pc = "decide" /\ pc' \in {"flatten class", "next"}
    BY <1>2 DEF Decide
  <2>2. DoFlatten(r) => verdict # "blackbox"
    BY DEF DoFlatten, DoCheckFlatten, ForceMatch
  <2>3. pc' = "flatten class" => DoFlatten(r)
    BY <1>2 DEF Decide
  <2> QED BY <2>1, <2>2, <2>3 DEF PairRead
<1>3. CASE pc' \notin {"decide", "flatten class"}
  BY <1>3 DEF PairRead
<1>4. CASE UNCHANGED vars
  BY <1>4 DEF PairRead, vars, hierarchyVars, lvsVars
<1>5. CASE PrematchStep
  BY <1>3, <1>5 DEF PrematchStep
<1>6. CASE StartLvs \/ GetCompareQueueTop \/ FlattenBoth \/ PrematchEnd \/ FlattenPair
           \/ EndLvs \/ Again
  BY <1>3, <1>6 DEF StartLvs, GetCompareQueueTop, FlattenBoth, PrematchEnd, FlattenPair, EndLvs, Again
<1> QED BY <1>1, <1>2, <1>4, <1>5, <1>6 DEF Next

LEMMA LvsInvariant == Spec => []LvsInv
<1>1. Init => LvsInv
  BY LvsInit
<1>2. LvsInv /\ [Next]_vars => LvsInv'
  <2>1. SUFFICES ASSUME LvsInv, [Next]_vars PROVE LvsInv'
    OBVIOUS
  <2>2. Readable'
    BY <2>1, NextFlattens, ReadableNext DEF LvsInv
  <2>3. Lists' /\ PairRead'
    BY <2>1, ListsNext, PairReadNext DEF LvsInv
  <2> QED BY <2>2, <2>3 DEF LvsInv
<1> QED BY <1>1, <1>2, PTL DEF Spec

(***************************************************************************)
(* Flattening, whoever asks for it and however often, changes no circuit:   *)
(* for any designs, every cell comes down to the devices it had when it was *)
(* read (flattenInstancesOf, FlattenUnmatched, PrematchLists).              *)
(***************************************************************************)
THEOREM FlatteningKeepsDevices == Spec => []PrimitivesKept
<1>1. ASSUME LvsInv PROVE PrimitivesKept
  <2>1. SUFFICES ASSUME NEW c \in DOMAIN contents
                 PROVE  Primitives(contents, c) = Primitives(AsRead(D), c)
    BY DEF PrimitivesKept
  <2>2. Flattens(contents, AsRead(D), Cell, {}) /\ design \in DOMAIN Designs
    BY <1>1 DEF LvsInv, Readable
  <2>3. /\ ListsOf(AsRead(D), Cell) /\ DOMAIN AsRead(D) \subseteq Cell
        /\ IsFiniteSet(DOMAIN AsRead(D)) /\ Acyclic(AsRead(D))
    BY <2>2, ListsRead, SubcktsRead, FiniteRead, AcyclicRead DEF D, Cell
  <2> QED BY <2>1, <2>2, <2>3, SamePrimitives DEF Flattens
<1> QED BY <1>1, LvsInvariant, PTL

(***************************************************************************)
(* A cell that must not be flattened stays where it is: no step takes an    *)
(* instance of it away (the CELL_PLACEHOLDER flag in flattenInstancesOf).   *)
(***************************************************************************)
THEOREM BlackBoxesStay == Spec => BoxesStay
<1>1. ASSUME LvsInv, [Next]_vars
      PROVE  \A c \in placeholder, p \in DOMAIN contents :
               NumInstances(contents', p, c) >= NumInstances(contents, p, c)
  <2>1. SUFFICES ASSUME NEW c \in placeholder, NEW p \in DOMAIN contents
                 PROVE  NumInstances(contents', p, c) >= NumInstances(contents, p, c)
    OBVIOUS
  <2>2. Flattens(contents', contents, Cell, placeholder)
    BY <1>1, NextFlattens DEF Step
  <2>3. contents[p] \in Seq(Cell) /\ contents'[p] \in Seq(Cell)
    BY <1>1, <2>2, ContentsHierarchy DEF LvsInv, Hierarchy, ListsOf, Flattens
  <2>4. ASSUME NEW s \in Seq(Cell)
        PROVE  Total(Ind({c}, Cell), s) = Cardinality({i \in DOMAIN s : s[i] = c})
    <3>1. Total(Ind({c}, Cell), s) = Cardinality({i \in DOMAIN s : s[i] \in {c}})
      BY IndCounts
    <3>2. {i \in DOMAIN s : s[i] \in {c}} = {i \in DOMAIN s : s[i] = c}
      OBVIOUS
    <3> QED BY <3>1, <3>2
  <2>5. Total(Ind({c}, Cell), contents'[p]) >= Total(Ind({c}, Cell), contents[p])
    BY <2>1, <2>2 DEF Flattens
  <2> QED BY <2>3, <2>4, <2>5 DEF NumInstances
<1> QED BY <1>1, LvsInvariant, PTL DEF Spec, BoxesStay

-----------------------------------------------------------------------------
(***************************************************************************)
(* The lvs procedure never finds two cells to match that come down to       *)
(* different devices, unless it takes cells for black boxes.                *)
(*                                                                          *)
(* Two cells that are compared have the same number of instances of each    *)
(* class.  For them to be the same, cells of one class must be: they are    *)
(* devices of the same name, or a pair that was compared before.  So the    *)
(* queue has to be bottom up, which is proved first, with the levels that   *)
(* CreateCompareQueue descends to; then that everything that is flagged and *)
(* no longer queued was found alike, or has been flattened everywhere.      *)
(***************************************************************************)
(***************************************************************************)
(* The levels of a hierarchy, and the order in which they are visited.      *)
(***************************************************************************)
Tops == {Top(1), Top(2)}

LEMMA TopsRead ==
  ASSUME Readable
  PROVE  \A f \in File : Top(f) \in DOMAIN contents /\ Top(f) \in Cell /\ Top(f)[2] = f
<1>1. SUFFICES ASSUME NEW f \in File PROVE Top(f) \in DOMAIN contents /\ Top(f) \in Cell /\ Top(f)[2] = f
  OBVIOUS
<1>2. D.top[f] \in DOMAIN D.contents[f]
  BY DesignsAssumption DEF Readable, D
<1>3. Top(f) \in DOMAIN AsRead(D)
  BY <1>2, SubcktsRead DEF Top
<1>4. Top(f) \in DOMAIN contents
  BY <1>3, ContentsHierarchy
<1> QED BY <1>4, ContentsHierarchy DEF Hierarchy, Top

\* A ranking of the cells that does not go beyond the number of subcircuits.
LEMMA ContentsRanking ==
  ASSUME Readable
  PROVE  /\ Cardinality(DOMAIN contents) \in Nat \ {0}
         /\ \E r : Ranking(r, contents, Cell) /\ \A x \in Cell : r[x] <= Cardinality(DOMAIN contents)
<1>1. /\ Hierarchy(contents) /\ DOMAIN contents = DOMAIN AsRead(D)
      /\ design \in DOMAIN Designs /\ \A r : Ranking(r, AsRead(D), Cell) => Ranking(r, contents, Cell)
  BY ContentsHierarchy DEF Readable, Flattens
<1>2. /\ ListsOf(AsRead(D), Cell) /\ DOMAIN AsRead(D) \subseteq Cell
      /\ IsFiniteSet(DOMAIN AsRead(D)) /\ Acyclic(AsRead(D))
  BY <1>1, ListsRead, SubcktsRead, FiniteRead, AcyclicRead DEF D, Cell
<1>3. PICK r : Ranking(r, AsRead(D), Cell) /\ \A x \in Cell : r[x] <= Cardinality(DOMAIN AsRead(D))
  BY <1>2, RankingExists
<1>4. Top(1) \in DOMAIN contents
  BY TopsRead DEF File
<1>5. Cardinality(DOMAIN contents) \in Nat \ {0}
  BY <1>1, <1>4, FS_CardinalityType, FS_EmptySet DEF Hierarchy
<1> QED BY <1>1, <1>3, <1>5

\* All instances of a cell are in its file.
LEMMA SameFile ==
  ASSUME Readable, NEW f
  PROVE  Closed({x \in Cell : x[2] = f}, contents)
<1> DEFINE U == {x \in Cell : x[2] = f}
<1>1. /\ DOMAIN contents = DOMAIN AsRead(D)
      /\ Closed(U, AsRead(D)) => \A p \in DOMAIN AsRead(D) : Within(AsRead(D)[p], U) => Within(contents[p], U)
  BY DEF Readable, Flattens
<1>2. ASSUME NEW c \in DOMAIN AsRead(D), c \in U PROVE Within(AsRead(D)[c], U)
  <2>1. \A i \in DOMAIN AsRead(D)[c] : AsRead(D)[c][i][2] = c[2]
    BY InstancesRead
  <2>2. AsRead(D)[c] \in Seq(Cell)
    BY ListsRead DEF Readable, ListsOf, D, Cell
  <2> QED BY <1>2, <2>1, <2>2 DEF Within
<1> QED BY <1>1, <1>2 DEF Closed

LEMMA LevelFacts ==
  ASSUME Readable, NEW f \in File, NEW r, Ranking(r, contents, Cell), NEW n \in Nat
  PROVE  /\ Level(f, n) \in Seq(Cell)
         /\ \A i \in DOMAIN Level(f, n) : Level(f, n)[i][2] = f /\ r[Level(f, n)[i]] + n <= r[Top(f)]
<1> DEFINE s == <<Top(f)>>
           L(m) == Opened(s, Cell, contents, m)
           U(m) == {x \in Cell : x[2] = f /\ r[x] + m <= r[Top(f)]}
           P == {m \in Nat : Within(L(m), U(m))}
<1>1. Hierarchy(contents) /\ Top(f) \in Cell /\ Top(f)[2] = f
  BY ContentsHierarchy, TopsRead
<1>2. ListsOf(contents, Cell) /\ DOMAIN contents \subseteq Cell /\ s \in Seq(Cell)
  BY <1>1 DEF Hierarchy
<1>3. \A x \in Cell : r[x] \in Nat
  BY DEF Ranking, Weights
<1>4. ASSUME NEW m \in Nat
      PROVE  L(0) = s /\ L(m) \in Seq(Cell) /\ L(m + 1) = Splice(L(m), Cell, contents)
  <2> HIDE DEF s
  <2>1. /\ Opened(s, Cell, contents, 0) = s
        /\ Opened(s, Cell, contents, m) \in Seq(Cell)
        /\ Opened(s, Cell, contents, m + 1) = Splice(Opened(s, Cell, contents, m), Cell, contents)
    BY <1>2, OpenedStep
  <2> QED BY <2>1
<1> HIDE DEF L
<1>5. 0 \in P
  <2>1. Top(f) \in U(0)
    BY <1>1, <1>3
  <2>2. L(0) = s /\ DOMAIN s = {1} /\ s[1] = Top(f) /\ s \in Seq(Cell)
    BY <1>2, <1>4
  <2> HIDE DEF U, s
  <2>3. Within(s, U(0))
    BY <2>1, <2>2 DEF Within
  <2> QED BY <2>2, <2>3
<1>6. ASSUME NEW m \in Nat, m \in P PROVE m + 1 \in P
  <2>1. ASSUME NEW i \in DOMAIN L(m) PROVE Replaced(L(m)[i], Cell, contents, U(m + 1))
    <3> DEFINE x == L(m)[i]
    <3>1. x \in U(m) /\ x \in Cell
      BY <1>6 DEF Within
    <3>2. CASE x \in DOMAIN contents
      <4>1. ASSUME NEW j \in DOMAIN contents[x] PROVE contents[x][j] \in U(m + 1)
        <5>1. r[contents[x][j]] < r[x] /\ contents[x][j] \in Cell
          BY <1>2, <3>2 DEF Ranking, ListsOf
        <5>2. contents[x][j][2] = f
          <6>1. x \in {y \in Cell : y[2] = f}
            BY <3>1
          <6>2. Within(contents[x], {y \in Cell : y[2] = f})
            BY <3>2, <6>1, SameFile DEF Closed
          <6> QED BY <6>2 DEF Within
        <5>3. r[contents[x][j]] \in Nat /\ r[x] \in Nat /\ r[Top(f)] \in Nat /\ r[x] + m <= r[Top(f)]
          BY <1>1, <1>3, <3>1, <5>1
        <5> QED BY <5>1, <5>2, <5>3
      <4> HIDE DEF U, x
      <4> QED BY <3>1, <3>2, <4>1 DEF Replaced, Within, Instances, x
    <3>3. CASE x \notin DOMAIN contents
      BY <3>1, <3>3 DEF Replaced, Within, Instances
    <3> QED BY <3>2, <3>3
  <2>2. L(m) \in Seq(Cell) /\ L(m + 1) = Splice(L(m), Cell, contents)
    BY <1>4
  <2> HIDE DEF U
  <2>3. Within(Splice(L(m), Cell, contents), U(m + 1))
    BY <1>2, <2>1, <2>2, SpliceWithin
  <2> QED BY <2>2, <2>3
<1>7. n \in P
  <2> HIDE DEF P
  <2> QED BY <1>5, <1>6, Induction
<1>8. Level(f, n) = L(n)
  BY DEF Level, L
<1> QED BY <1>4, <1>7, <1>8 DEF Within

LEMMA LevelHas ==
  ASSUME Readable, NEW f \in File, NEW n \in Nat, NEW i \in DOMAIN Level(f, n),
         NEW j \in DOMAIN Instances(contents, Level(f, n)[i])
  PROVE  \E k \in DOMAIN Level(f, n + 1) :
            Level(f, n + 1)[k] = Instances(contents, Level(f, n)[i])[j]
<1>1. Hierarchy(contents) /\ Top(f) \in Cell
  BY ContentsHierarchy, TopsRead
<1>2. ListsOf(contents, Cell) /\ <<Top(f)>> \in Seq(Cell)
  BY <1>1 DEF Hierarchy
<1>3. Level(f, n) \in Seq(Cell) /\ Level(f, n + 1) = Splice(Level(f, n), Cell, contents)
  <2> DEFINE s == <<Top(f)>>
  <2> HIDE DEF s
  <2>1. s \in Seq(Cell)
    BY <1>2 DEF s
  <2>2. /\ Opened(s, Cell, contents, n) \in Seq(Cell)
        /\ Opened(s, Cell, contents, n + 1) = Splice(Opened(s, Cell, contents, n), Cell, contents)
    BY <1>2, <2>1, OpenedStep
  <2> QED BY <2>2 DEF Level, s
<1>4. Level(f, n)[i] \in Cell
  BY <1>3
<1> QED BY <1>2, <1>3, <1>4, SpliceHas

Has(s) == {s[i] : i \in DOMAIN s}

LEMMA LevelMembers ==
  ASSUME Readable, NEW f \in File, NEW n \in Nat, NEW i \in DOMAIN Level(f, n)
  PROVE  /\ n # 0 => Level(f, n)[i] \in Cell \ Tops
         /\ Within(Instances(contents, Level(f, n)[i]), Has(Level(f, n + 1)))
         /\ n = Cardinality(DOMAIN contents) =>
              \A U : Within(Instances(contents, Level(f, n)[i]), U)
<1> DEFINE x == Level(f, n)[i]
           N == Cardinality(DOMAIN contents)
<1>1. PICK r : Ranking(r, contents, Cell) /\ \A y \in Cell : r[y] <= N
  BY ContentsRanking
<1>2. /\ x \in Cell /\ x[2] = f /\ r[x] + n <= r[Top(f)]
  BY <1>1, LevelFacts
<1>3. /\ \A g \in File : Top(g) \in Cell /\ Top(g)[2] = g
      /\ \A y \in Cell : r[y] \in Nat
      /\ N \in Nat
  BY <1>1, TopsRead, ContentsRanking DEF Ranking, Weights
<1>4. ASSUME n # 0 PROVE x \notin Tops
  <2>1. r[x] # r[Top(f)]
    BY <1>2, <1>3, <1>4
  <2> HIDE DEF x
  <2> QED BY <1>2, <1>3, <2>1 DEF Tops, File
<1>5. ASSUME NEW j \in DOMAIN Instances(contents, x)
      PROVE  Instances(contents, x)[j] \in Has(Level(f, n + 1))
  BY LevelHas DEF Has
<1>6. ASSUME n = N, NEW j \in DOMAIN Instances(contents, x) PROVE FALSE
  <2>1. r[x] = 0
    BY <1>1, <1>2, <1>3, <1>6
  <2>2. x \in DOMAIN contents /\ j \in DOMAIN contents[x]
    BY <1>6 DEF Instances
  <2>3. contents[x][j] \in Cell
    BY <2>2, ContentsHierarchy DEF Hierarchy, ListsOf
  <2>4. r[contents[x][j]] < r[x]
    BY <1>1, <2>2 DEF Ranking
  <2> QED BY <1>3, <2>1, <2>3, <2>4
<1> QED BY <1>2, <1>4, <1>5, <1>6 DEF Within

\* What a visited cell has in it was visited before.
Before(s, k) ==
  \E U \in SUBSET {s[i] : i \in 1..(k - 1)} :
    Within(Instances(contents, s[k]), U) /\ Closed(U, contents)

VisitsOK(s) ==
  /\ Closed(Has(s), contents)
  /\ \A k \in DOMAIN s : s[k] \in Cell \ Tops /\ Before(s, k)

LEMMA VisitMore ==
  ASSUME Readable, NEW s \in Seq(Cell), NEW t \in Seq(Cell), VisitsOK(s),
         \A i \in DOMAIN t : t[i] \in Cell \ Tops /\ Within(Instances(contents, t[i]), Has(s))
  PROVE  /\ VisitsOK(s \o t)
         /\ Has(t) \subseteq Has(s \o t)
<1> DEFINE u == s \o t
<1>1. /\ Len(s) \in Nat /\ Len(t) \in Nat /\ DOMAIN s = 1..Len(s) /\ DOMAIN t = 1..Len(t)
      /\ DOMAIN u = 1..(Len(s) + Len(t)) /\ u \in Seq(Cell)
      /\ \A i \in 1..Len(s) : u[i] = s[i]
      /\ \A i \in 1..Len(t) : u[Len(s) + i] = t[i]
  OBVIOUS
<1>2. ASSUME NEW k \in DOMAIN u
      PROVE  \/ k \in DOMAIN s /\ u[k] = s[k]
             \/ \E i \in DOMAIN t : k = Len(s) + i /\ u[k] = t[i]
  <2>1. CASE k <= Len(s)
    BY <1>1, <2>1
  <2>2. CASE k > Len(s)
    <3>1. k - Len(s) \in 1..Len(t) /\ k = Len(s) + (k - Len(s))
      BY <1>1, <1>2, <2>2
    <3> QED BY <1>1, <3>1
  <2> QED BY <1>1, <1>2, <2>1, <2>2
<1> HIDE DEF u
<1>3. Has(s) \subseteq Has(u) /\ Has(t) \subseteq Has(u)
  <2>1. \A i \in DOMAIN s : i \in DOMAIN u /\ u[i] = s[i]
    BY <1>1
  <2>2. \A i \in DOMAIN t : Len(s) + i \in DOMAIN u /\ u[Len(s) + i] = t[i]
    BY <1>1
  <2> QED BY <2>1, <2>2 DEF Has
<1>4. Closed(Has(u), contents)
  <2>1. SUFFICES ASSUME NEW c \in DOMAIN contents, NEW k \in DOMAIN u, c = u[k]
                 PROVE  Within(contents[c], Has(s))
    BY <1>3 DEF Closed, Has, Within
  <2>2. CASE k \in DOMAIN s /\ u[k] = s[k]
    BY <2>1, <2>2 DEF VisitsOK, Closed, Has
  <2>3. CASE \E i \in DOMAIN t : k = Len(s) + i /\ u[k] = t[i]
    BY <2>1, <2>3 DEF Instances
  <2> QED BY <1>2, <2>2, <2>3
<1>5. ASSUME NEW k \in DOMAIN u PROVE u[k] \in Cell \ Tops /\ Before(u, k)
  <2>1. CASE k \in DOMAIN s /\ u[k] = s[k]
    <3>1. s[k] \in Cell \ Tops /\ Before(s, k)
      BY <2>1 DEF VisitsOK
    <3>2. \A i \in 1..(k - 1) : u[i] = s[i]
      BY <1>1, <2>1
    <3>3. {u[i] : i \in 1..(k - 1)} = {s[i] : i \in 1..(k - 1)}
      BY <3>2
    <3> QED BY <2>1, <3>1, <3>3 DEF Before
  <2>2. CASE \E i \in DOMAIN t : k = Len(s) + i /\ u[k] = t[i]
    <3>1. PICK i \in DOMAIN t : k = Len(s) + i /\ u[k] = t[i]
      BY <2>2
    <3>2. \A h \in DOMAIN s : h \in 1..(k - 1) /\ u[h] = s[h]
      BY <1>1, <3>1
    <3>3. Has(s) \in SUBSET {u[h] : h \in 1..(k - 1)}
      BY <3>2 DEF Has
    <3>4. Within(Instances(contents, u[k]), Has(s)) /\ Closed(Has(s), contents)
      BY <3>1 DEF VisitsOK
    <3> QED BY <3>1, <3>3, <3>4 DEF Before
  <2> QED BY <1>2, <2>1, <2>2
<1> QED BY <1>3, <1>4, <1>5 DEF VisitsOK, u

\* The cells of all levels are visited before those of the level above.
LEMMA VisitsBottomUp ==
  ASSUME Readable
  PROVE  /\ Visits \in Seq(Cell)
         /\ VisitsOK(Visits)
         /\ \A f \in File : Within(Instances(contents, Top(f)), Has(Visits))
<1> DEFINE N == Cardinality(DOMAIN contents)
           b(i) == Level(1, N + 1 - i) \o Level(2, N + 1 - i)
           q == [i \in 1..N |-> b(i)]
<1>1. N \in Nat \ {0}
  BY ContentsRanking
<1>2. PICK r : Ranking(r, contents, Cell)
  BY ContentsRanking
<1>3. ASSUME NEW f \in File, NEW n \in Nat PROVE Level(f, n) \in Seq(Cell)
  BY <1>2, LevelFacts
<1>4. 1 \in File /\ 2 \in File
  BY DEF File
<1>5. ASSUME NEW i \in 1..N PROVE b(i) \in Seq(Cell)
  <2>1. N + 1 - i \in Nat
    BY <1>1
  <2>2. Level(1, N + 1 - i) \in Seq(Cell) /\ Level(2, N + 1 - i) \in Seq(Cell)
    BY <1>3, <1>4, <2>1
  <2> QED BY <2>2
<1>6. q \in Seq(Seq(Cell)) /\ Len(q) = N
  <2> HIDE DEF b, N
  <2> QED BY <1>1, <1>5
<1>7. Visits = FlattenSeq(q)
  BY DEF Visits
<1>8. \A i \in 1..N : q[i] = Level(1, N + 1 - i) \o Level(2, N + 1 - i)
  OBVIOUS
<1> HIDE DEF q, N
<1>9. PICK f : IsJoin(f, q, Cell) /\ FlattenSeq(q) = f[Len(q)]
  BY <1>6, JoinExists
<1>10. /\ f \in [0..N -> Seq(Cell)] /\ f[0] = << >>
       /\ \A i \in 1..N : f[i] = f[i - 1] \o q[i]
  BY <1>6, <1>9 DEF IsJoin
<1>11. ASSUME NEW i \in 1..N, NEW k \in DOMAIN q[i]
       PROVE  \E g \in File : \E j \in DOMAIN Level(g, N + 1 - i) : q[i][k] = Level(g, N + 1 - i)[j]
  <2> DEFINE s == Level(1, N + 1 - i)
             t == Level(2, N + 1 - i)
  <2>1. N + 1 - i \in Nat
    BY <1>1
  <2>2. s \in Seq(Cell) /\ t \in Seq(Cell) /\ q[i] = s \o t
    BY <1>3, <1>4, <1>8, <2>1
  <2>3. \/ \E j \in DOMAIN s : q[i][k] = s[j]
        \/ \E j \in DOMAIN t : q[i][k] = t[j]
    <3> HIDE DEF s, t
    <3> QED BY <1>11, <2>2
  <2> QED BY <1>4, <2>3
<1>12. ASSUME NEW i \in 1..N, NEW g \in File PROVE Has(Level(g, N + 1 - i)) \subseteq Has(q[i])
  <2> DEFINE s == Level(1, N + 1 - i)
             t == Level(2, N + 1 - i)
  <2>1. N + 1 - i \in Nat
    BY <1>1
  <2>2. s \in Seq(Cell) /\ t \in Seq(Cell) /\ q[i] = s \o t
    BY <1>3, <1>4, <1>8, <2>1
  <2>3. Has(s) \subseteq Has(q[i]) /\ Has(t) \subseteq Has(q[i])
    <3> HIDE DEF s, t
    <3>1. /\ Len(s) \in Nat /\ DOMAIN s = 1..Len(s) /\ DOMAIN t = 1..Len(t)
          /\ \A j \in DOMAIN s : j \in DOMAIN q[i] /\ q[i][j] = s[j]
          /\ \A j \in DOMAIN t : Len(s) + j \in DOMAIN q[i] /\ q[i][Len(s) + j] = t[j]
      BY <2>2
    <3> QED BY <3>1 DEF Has
  <2> QED BY <2>3 DEF File
<1> DEFINE P == {n \in Nat : n <= N => /\ VisitsOK(f[n])
                                       /\ n # 0 => Has(q[n]) \subseteq Has(f[n])}
<1>13. 0 \in P
  <2>1. DOMAIN f[0] = {} /\ Has(f[0]) = {}
    BY <1>10 DEF Has
  <2> QED BY <2>1 DEF VisitsOK, Closed
<1>14. ASSUME NEW n \in Nat, n \in P PROVE n + 1 \in P
  <2>1. SUFFICES ASSUME n + 1 <= N
                 PROVE  VisitsOK(f[n + 1]) /\ Has(q[n + 1]) \subseteq Has(f[n + 1])
    OBVIOUS
  <2>2. n + 1 \in 1..N /\ (n + 1) - 1 = n /\ n \in 0..N /\ n <= N
    BY <1>1, <2>1
  <2>3. f[n + 1] = f[n] \o q[n + 1] /\ f[n] \in Seq(Cell) /\ q[n + 1] \in Seq(Cell)
    <3>1. q[n + 1] \in Seq(Cell)
      BY <1>6, <2>2
    <3> QED BY <1>10, <2>2, <3>1
  <2>4. VisitsOK(f[n]) /\ (n # 0 => Has(q[n]) \subseteq Has(f[n]))
    BY <1>14, <2>2
  <2>5. ASSUME NEW k \in DOMAIN q[n + 1]
        PROVE  q[n + 1][k] \in Cell \ Tops /\ Within(Instances(contents, q[n + 1][k]), Has(f[n]))
    <3> DEFINE l == N + 1 - (n + 1)
    <3>1. PICK g \in File : \E j \in DOMAIN Level(g, l) : q[n + 1][k] = Level(g, l)[j]
      BY <1>11, <2>2
    <3>2. PICK j \in DOMAIN Level(g, l) : q[n + 1][k] = Level(g, l)[j]
      BY <3>1
    <3>3. l \in Nat /\ l # 0 /\ (n = 0 => l = N) /\ (n # 0 => l + 1 = N + 1 - n /\ n \in 1..N)
      BY <1>1, <2>2
    <3> HIDE DEF l
    <3>4. /\ Level(g, l)[j] \in Cell \ Tops
          /\ Within(Instances(contents, Level(g, l)[j]), Has(Level(g, l + 1)))
          /\ l = N => \A U : Within(Instances(contents, Level(g, l)[j]), U)
      BY <3>3, LevelMembers DEF N
    <3>5. CASE n = 0
      BY <3>2, <3>3, <3>4, <3>5
    <3>6. CASE n # 0
      <4>1. Has(Level(g, N + 1 - n)) \subseteq Has(q[n])
        BY <1>12, <3>3, <3>6
      <4> QED BY <2>4, <3>2, <3>3, <3>4, <3>6, <4>1 DEF Within
    <3> QED BY <3>5, <3>6
  <2> QED BY <2>3, <2>4, <2>5, VisitMore
<1>15. N \in P
  <2> HIDE DEF P
  <2> QED BY <1>1, <1>13, <1>14, Induction
<1>16. VisitsOK(f[N]) /\ Has(q[N]) \subseteq Has(f[N]) /\ f[N] \in Seq(Cell)
  BY <1>1, <1>10, <1>15
<1>17. ASSUME NEW g \in File PROVE Within(Instances(contents, Top(g)), Has(f[N]))
  <2>1. Level(g, 0) = <<Top(g)>>
    <3>1. Top(g) \in Cell /\ ListsOf(contents, Cell)
      BY TopsRead, ContentsHierarchy DEF Hierarchy
    <3> DEFINE s == <<Top(g)>>
    <3>2. s \in Seq(Cell)
      BY <3>1
    <3> HIDE DEF s
    <3>3. Opened(s, Cell, contents, 0) = s
      BY <3>1, <3>2, OpenedStep
    <3> QED BY <3>3 DEF Level, s
  <2>2. 1 \in DOMAIN Level(g, 0) /\ Level(g, 0)[1] = Top(g)
    BY <2>1
  <2>3. Within(Instances(contents, Level(g, 0)[1]), Has(Level(g, 0 + 1)))
    BY <2>2, LevelMembers
  <2>4. Has(Level(g, 1)) \subseteq Has(q[N])
    <3>1. N \in 1..N /\ N + 1 - N = 1
      BY <1>1
    <3> QED BY <1>12, <3>1
  <2> QED BY <1>16, <2>2, <2>3, <2>4 DEF Within
<1> QED BY <1>6, <1>7, <1>9, <1>16, <1>17

(***************************************************************************)
(* Cells of one class.                                                      *)
(***************************************************************************)
\* Classes tell the cells of a file apart, devices from what is looked into, devices by
\* their names, and the cells to compare from others.
Apart ==
  \A c, e \in Cell : classhash[c] = classhash[e] =>
    /\ c[2] = e[2] => c = e
    /\ Hierarchical(c) <=> Hierarchical(e)
    /\ ~Hierarchical(c) => c[1] = e[1]
    /\ c \in Tops => e \in Tops

\* Cells below the top that correspond to each other.
Twin(a, b) ==
  /\ a \in Cell \ Tops /\ b \in Cell \ Tops
  /\ a[2] = 1 /\ b[2] = 2
  /\ classhash[a] = classhash[b]
  /\ Hierarchical(a) /\ Hierarchical(b)

LEMMA LookupIsTwin ==
  ASSUME Apart, NEW c \in Cell \ Tops, Hierarchical(c), LookupClassEquivalent(c) # NoCell
  PROVE  \E a, b : /\ Twin(a, b) /\ PairOf(c) = <<a, b>> /\ PairOf(c)[c[2]] = c
                   /\ {c, LookupClassEquivalent(c)} = {a, b} /\ c[2] \in File
<1> DEFINE x == LookupClassEquivalent(c)
           found == {y \in Cell : y[2] # c[2] /\ classhash[y] = classhash[c]}
<1>1. x \in found
  BY DEF LookupClassEquivalent
<1>2. c[2] \in File /\ x[2] \in File /\ x \in Cell
  BY <1>1, CellIsPair DEF Cell
<1>3. x[2] # c[2] /\ classhash[x] = classhash[c] /\ x \notin Tops /\ Hierarchical(x)
  BY <1>1 DEF Apart
<1> HIDE DEF x, found
<1>4. CASE c[2] = 1
  <2>1. x[2] = 2
    BY <1>2, <1>3, <1>4 DEF File
  <2>2. Twin(c, x) /\ PairOf(c) = <<c, x>>
    BY <1>2, <1>3, <1>4, <2>1 DEF Twin, PairOf, x
  <2> QED BY <1>2, <1>4, <2>2 DEF x
<1>5. CASE c[2] # 1
  <2>1. x[2] = 1 /\ c[2] = 2
    BY <1>2, <1>3, <1>5 DEF File
  <2>2. Twin(x, c) /\ PairOf(c) = <<x, c>>
    BY <1>2, <1>3, <1>5, <2>1 DEF Twin, PairOf, x
  <2> QED BY <1>2, <2>1, <2>2 DEF x
<1> QED BY <1>4, <1>5

LEMMA TwinIsFound ==
  ASSUME Readable, NEW a, NEW b, Twin(a, b)
  PROVE  LookupClassEquivalent(a) # NoCell /\ LookupClassEquivalent(b) # NoCell
<1>1. NoCell \notin Cell
  BY DesignsAssumption DEF Readable, D, Cell
<1>2. b \in {y \in Cell : y[2] # a[2] /\ classhash[y] = classhash[a]}
  BY DEF Twin
<1>3. a \in {y \in Cell : y[2] # b[2] /\ classhash[y] = classhash[b]}
  BY DEF Twin
<1>4. LookupClassEquivalent(a) \in Cell
  BY <1>2 DEF LookupClassEquivalent
<1>5. LookupClassEquivalent(b) \in Cell
  BY <1>3 DEF LookupClassEquivalent
<1> QED BY <1>1, <1>4, <1>5

(***************************************************************************)
(* The queue.  A pair is ready when all that corresponds to something in    *)
(* one of its cells is flagged, and not among the pairs that are to come.   *)
(***************************************************************************)
Ready(ct, p, m, rest) ==
  \E s \in File : \E U \in SUBSET (Cell \ Tops) :
    /\ Within(Instances(ct, p[s]), U) /\ Closed(U, ct)
    /\ \A x, y : Twin(x, y) /\ (x \in U \/ y \in U) => x \in m /\ y \in m /\ <<x, y>> \notin rest

\* The pairs that are to come after the first j - 1.
Rest(q, j) == {q[k] : k \in j..Len(q)}

QueueOK(q, m, seen, m0) ==
  /\ q \in Seq(Cell \X Cell)
  /\ \A j \in DOMAIN q : Twin(q[j][1], q[j][2]) /\ q[j][1] \in m /\ q[j][2] \in m
  /\ \A a, b : Twin(a, b) => (a \in m <=> b \in m)
  /\ \A j \in DOMAIN q : Ready(contents, q[j], m, Rest(q, j))
  /\ \A i, j \in DOMAIN q : q[i] = q[j] => i = j
  /\ \A a, b : Twin(a, b) /\ a \in m => a \in m0 \/ \E j \in DOMAIN q : q[j] = <<a, b>>
  /\ \A a, b : Twin(a, b) /\ (a \in seen \/ b \in seen) => a \in m

\* A pair stays ready when another pair comes after it that is not in it.
LEMMA ReadyLater ==
  ASSUME NEW p, NEW m, NEW rest, Ready(contents, p, m, rest), NEW m1, m \subseteq m1,
         NEW rest1, NEW a, NEW b, rest1 \subseteq rest \cup {<<a, b>>},
         a \notin m \/ ~Twin(a, b)
  PROVE  Ready(contents, p, m1, rest1)
<1>1. PICK s \in File, U \in SUBSET (Cell \ Tops) :
         /\ Within(Instances(contents, p[s]), U) /\ Closed(U, contents)
         /\ \A x, y : Twin(x, y) /\ (x \in U \/ y \in U) => x \in m /\ y \in m /\ <<x, y>> \notin rest
  BY DEF Ready
<1>2. ASSUME NEW x, NEW y, Twin(x, y), x \in U \/ y \in U
      PROVE  x \in m1 /\ y \in m1 /\ <<x, y>> \notin rest1
  <2>1. x \in m /\ y \in m /\ <<x, y>> \notin rest
    BY <1>1, <1>2
  <2>2. <<x, y>> # <<a, b>>
    BY <1>2, <2>1
  <2> QED BY <2>1, <2>2
<1> QED BY <1>1, <1>2 DEF Ready

LEMMA RestAppend ==
  ASSUME NEW S, NEW q \in Seq(S), NEW p
  PROVE  /\ \A j \in DOMAIN q : Rest(Append(q, p), j) \subseteq Rest(q, j) \cup {p}
         /\ Rest(Append(q, p), Len(q) + 1) = {p}
<1> DEFINE z == Append(q, p)
<1>1. /\ Len(q) \in Nat /\ Len(z) = Len(q) + 1 /\ z[Len(q) + 1] = p
      /\ \A k \in 1..Len(q) : z[k] = q[k]
  OBVIOUS
<1> HIDE DEF z
<1>2. ASSUME NEW j \in DOMAIN q, NEW k \in j..Len(z) PROVE z[k] \in Rest(q, j) \cup {p}
  <2>1. CASE k = Len(q) + 1
    BY <1>1, <2>1
  <2>2. CASE k # Len(q) + 1
    <3>1. k \in j..Len(q) /\ k \in 1..Len(q)
      BY <1>1, <1>2, <2>2
    <3>2. q[k] \in Rest(q, j)
      BY <3>1 DEF Rest
    <3> QED BY <1>1, <3>1, <3>2
  <2> QED BY <2>1, <2>2
<1>3. \A k : k \in (Len(q) + 1)..Len(z) <=> k = Len(q) + 1
  BY <1>1
<1>4. Rest(z, Len(q) + 1) = {p}
  BY <1>1, <1>3 DEF Rest
<1>5. \A j \in DOMAIN q : Rest(z, j) \subseteq Rest(q, j) \cup {p}
  BY <1>2 DEF Rest
<1> QED BY <1>4, <1>5 DEF z

\* A pair that is put at the end of the queue, with both cells flagged.
LEMMA QueueAppend ==
  ASSUME NEW q, NEW m, NEW seen, NEW m0, QueueOK(q, m, seen, m0),
         NEW a, NEW b, Twin(a, b), a \notin m, a[2] \in File,
         NEW seen1, \A x, y : Twin(x, y) /\ (x \in seen1 \/ y \in seen1) => x \in m \cup {a, b},
         Ready(contents, <<a, b>>, m, {<<a, b>>}),
         Apart
  PROVE  QueueOK(Append(q, <<a, b>>), m \cup {a, b}, seen1, m0)
<1> DEFINE p == <<a, b>>
           z == Append(q, p)
           m1 == m \cup {a, b}
<1>1. /\ Len(q) \in Nat /\ Len(z) = Len(q) + 1 /\ DOMAIN z = 1..(Len(q) + 1) /\ z[Len(q) + 1] = p
      /\ DOMAIN q = 1..Len(q) /\ \A k \in 1..Len(q) : z[k] = q[k]
      /\ q \in Seq(Cell \X Cell)
  BY DEF QueueOK
<1>2. p[1] = a /\ p[2] = b /\ p \in Cell \X Cell
  BY DEF Twin
<1>3. z \in Seq(Cell \X Cell)
  BY <1>1, <1>2
<1>4. \A k \in DOMAIN z : k = Len(q) + 1 \/ (k \in DOMAIN q /\ z[k] = q[k])
  BY <1>1
<1>5. b \notin m
  BY DEF QueueOK
<1>6. \A x, y : Twin(x, y) => (x = a <=> y = b)
  BY DEF Twin, Apart
<1>7. /\ \A j \in DOMAIN q : Rest(z, j) \subseteq Rest(q, j) \cup {p}
      /\ Rest(z, Len(q) + 1) = {p}
  BY <1>1, RestAppend
<1> HIDE DEF z
<1>8. ASSUME NEW k \in DOMAIN z
      PROVE  /\ Twin(z[k][1], z[k][2]) /\ z[k][1] \in m1 /\ z[k][2] \in m1
             /\ Ready(contents, z[k], m1, Rest(z, k))
  <2>1. CASE k = Len(q) + 1
    <3>1. m \subseteq m1 /\ {p} \subseteq {p} \cup {<<a, b>>}
      OBVIOUS
    <3>2. Ready(contents, p, m1, {p})
      BY <3>1, ReadyLater
    <3> QED BY <1>1, <1>2, <1>7, <2>1, <3>2
  <2>2. CASE k # Len(q) + 1
    <3>1. k \in DOMAIN q /\ z[k] = q[k]
      BY <1>4, <2>2
    <3>2. /\ Twin(q[k][1], q[k][2]) /\ q[k][1] \in m /\ q[k][2] \in m
          /\ Ready(contents, q[k], m, Rest(q, k))
      BY <3>1 DEF QueueOK
    <3>3. Rest(z, k) \subseteq Rest(q, k) \cup {<<a, b>>} /\ m \subseteq m1
      BY <1>7, <3>1
    <3>4. Ready(contents, q[k], m1, Rest(z, k))
      BY <3>2, <3>3, ReadyLater
    <3> QED BY <3>1, <3>2, <3>4
  <2> QED BY <2>1, <2>2
<1>9. \A x, y : Twin(x, y) => (x \in m1 <=> y \in m1)
  <2>1. SUFFICES ASSUME NEW x, NEW y, Twin(x, y) PROVE x \in m1 <=> y \in m1
    OBVIOUS
  <2>2. x \in m <=> y \in m
    BY <2>1 DEF QueueOK
  <2>3. x = a <=> y = b
    BY <1>6, <2>1
  <2>4. x # b /\ y # a
    BY <2>1 DEF Twin
  <2> QED BY <2>2, <2>3, <2>4
<1>10. ASSUME NEW k \in DOMAIN q PROVE q[k] # p
  BY <1>2, <1>10 DEF QueueOK
<1>11. \A i, j \in DOMAIN z : z[i] = z[j] => i = j
  <2>1. SUFFICES ASSUME NEW i \in DOMAIN z, NEW j \in DOMAIN z, z[i] = z[j] PROVE i = j
    OBVIOUS
  <2>2. CASE i = Len(q) + 1 \/ j = Len(q) + 1
    BY <1>1, <1>4, <1>10, <2>1, <2>2
  <2>3. CASE ~(i = Len(q) + 1 \/ j = Len(q) + 1)
    BY <1>4, <2>1, <2>3 DEF QueueOK
  <2> QED BY <2>2, <2>3
<1>12. ASSUME NEW x, NEW y, Twin(x, y), x \in m1
       PROVE  x \in m0 \/ \E j \in DOMAIN z : z[j] = <<x, y>>
  <2>1. CASE x \in m
    <3>1. x \in m0 \/ \E j \in DOMAIN q : q[j] = <<x, y>>
      BY <1>12, <2>1 DEF QueueOK
    <3>2. \A j \in DOMAIN q : j \in DOMAIN z /\ z[j] = q[j]
      BY <1>1
    <3> QED BY <3>1, <3>2
  <2>2. CASE x \notin m
    <3>1. x # b
      BY <1>12 DEF Twin
    <3>2. x = a /\ y = b
      BY <1>6, <1>12, <2>2, <3>1
    <3>3. Len(q) + 1 \in DOMAIN z
      BY <1>1
    <3> QED BY <1>1, <3>2, <3>3
  <2> QED BY <2>1, <2>2
<1> QED BY <1>3, <1>8, <1>9, <1>11, <1>12 DEF QueueOK, z

LEMMA QueueStep ==
  ASSUME Readable, Apart, NEW q, NEW seen, NEW m0, QueueOK(q.queue, q.matched, seen, m0),
         NEW c \in Cell \ Tops, NEW U \in SUBSET seen, seen \subseteq Cell \ Tops,
         Within(Instances(contents, c), U), Closed(U, contents)
  PROVE  QueueOK(DescendCompareQueue(q, c).queue, DescendCompareQueue(q, c).matched,
                 seen \cup {c}, m0)
<1> DEFINE m == q.matched
<1>1. CASE ~Hierarchical(c) \/ c \in m \/ LookupClassEquivalent(c) = NoCell
  <2>1. DescendCompareQueue(q, c) = q
    BY <1>1 DEF DescendCompareQueue
  <2>2. ASSUME NEW x, NEW y, Twin(x, y), x = c \/ y = c PROVE x \in m
    <3>1. Hierarchical(c) /\ LookupClassEquivalent(c) # NoCell
      BY <2>2, TwinIsFound DEF Twin
    <3>2. c \in m
      BY <1>1, <3>1
    <3> QED BY <2>2, <3>2 DEF QueueOK
  <2>3. \A x, y : Twin(x, y) /\ (x \in seen \cup {c} \/ y \in seen \cup {c}) => x \in m
    BY <2>2 DEF QueueOK
  <2>4. QueueOK(q.queue, q.matched, seen \cup {c}, m0)
    BY <2>3 DEF QueueOK
  <2> QED BY <2>1, <2>4
<1>2. CASE Hierarchical(c) /\ c \notin m /\ LookupClassEquivalent(c) # NoCell
  <2>1. PICK a, b : /\ Twin(a, b) /\ PairOf(c) = <<a, b>> /\ PairOf(c)[c[2]] = c
                    /\ {c, LookupClassEquivalent(c)} = {a, b} /\ c[2] \in File
    BY <1>2, LookupIsTwin
  <2>2. /\ DescendCompareQueue(q, c).queue = Append(q.queue, <<a, b>>)
        /\ DescendCompareQueue(q, c).matched = m \cup {a, b}
    BY <1>2, <2>1 DEF DescendCompareQueue
  <2>3. a \notin m /\ b \notin m
    <3>1. c = a \/ c = b
      BY <2>1
    <3>2. a \in m <=> b \in m
      BY <2>1 DEF QueueOK
    <3> QED BY <1>2, <3>1, <3>2
  <2>4. Ready(contents, <<a, b>>, m, {<<a, b>>})
    <3>1. U \in SUBSET (Cell \ Tops) /\ Within(Instances(contents, <<a, b>>[c[2]]), U)
      BY <2>1
    <3>2. ASSUME NEW x, NEW y, Twin(x, y), x \in U \/ y \in U
          PROVE  x \in m /\ y \in m /\ <<x, y>> \notin {<<a, b>>}
      <4>1. x \in m
        BY <3>2 DEF QueueOK
      <4>2. y \in m
        BY <3>2, <4>1 DEF QueueOK
      <4> QED BY <2>3, <4>1, <4>2
    <3> QED BY <2>1, <3>1, <3>2 DEF Ready
  <2>5. ASSUME NEW x, NEW y, Twin(x, y), x \in seen \cup {c} \/ y \in seen \cup {c}
        PROVE  x \in m \cup {a, b}
    <3>1. CASE x \in seen \/ y \in seen
      BY <2>5, <3>1 DEF QueueOK
    <3>2. CASE x = c \/ y = c
      <4>1. c = a \/ c = b
        BY <2>1
      <4>2. x = a
        BY <2>1, <2>5, <3>2, <4>1 DEF Twin, Apart
      <4> QED BY <4>2
    <3> QED BY <2>5, <3>1, <3>2
  <2>6. a[2] \in File
    BY <2>1 DEF Twin, File
  <2> HIDE DEF m
  <2>7. QueueOK(q.queue, m, seen, m0)
    BY DEF m
  <2> QED BY <2>1, <2>2, <2>3, <2>4, <2>5, <2>6, <2>7, QueueAppend
<1> QED BY <1>1, <1>2

\* The queue and the flags after each visit.
Descent(g, visits, base, N) ==
  [n \in 0..N |-> IF n = 0 THEN base ELSE DescendCompareQueue(g[n - 1], visits[n])]

LEMMA DescentExists ==
  ASSUME NEW visits, NEW base, NEW N \in Nat
  PROVE  \E f : f = Descent(f, visits, base, N)
<1> DEFINE P == {n \in Nat : \E f : f = Descent(f, visits, base, n)}
<1>1. 0 \in P
  <2> DEFINE f == [n \in 0..0 |-> base]
  <2>1. f = Descent(f, visits, base, 0)
    BY DEF Descent
  <2> HIDE DEF f
  <2> QED BY <2>1
<1>2. ASSUME NEW n \in Nat, n \in P PROVE n + 1 \in P
  <2>1. PICK f : f = Descent(f, visits, base, n)
    BY <1>2
  <2> DEFINE g == [i \in 0..(n + 1) |->
                     IF i <= n THEN f[i] ELSE DescendCompareQueue(f[n], visits[n + 1])]
  <2>2. \A i \in 0..n : f[i] = IF i = 0 THEN base ELSE DescendCompareQueue(f[i - 1], visits[i])
    BY <2>1 DEF Descent
  <2>3. \A i \in 0..n : g[i] = f[i]
    OBVIOUS
  <2>4. g[n + 1] = DescendCompareQueue(f[n], visits[n + 1])
    OBVIOUS
  <2>5. DOMAIN g = 0..(n + 1) /\ g = [i \in 0..(n + 1) |-> g[i]]
    OBVIOUS
  <2> HIDE DEF g
  <2>6. ASSUME NEW i \in 0..(n + 1)
        PROVE  g[i] = IF i = 0 THEN base ELSE DescendCompareQueue(g[i - 1], visits[i])
    <3>1. CASE i = 0
      BY <2>2, <2>3, <3>1
    <3>2. CASE i # 0 /\ i <= n
      <4>1. i - 1 \in 0..n /\ i \in 0..n
        BY <3>2
      <4>2. /\ g[i] = f[i] /\ g[i - 1] = f[i - 1]
            /\ f[i] = DescendCompareQueue(f[i - 1], visits[i])
        BY <2>2, <2>3, <3>2, <4>1
      <4> QED BY <3>2, <4>2
    <3>3. CASE i = n + 1
      <4>1. i # 0 /\ i - 1 = n /\ n \in 0..n
        BY <3>3
      <4>2. g[i - 1] = f[n]
        BY <2>3, <4>1
      <4> QED BY <2>4, <3>3, <4>1, <4>2
    <3> QED BY <3>1, <3>2, <3>3
  <2>7. g = Descent(g, visits, base, n + 1)
    BY <2>5, <2>6 DEF Descent
  <2> QED BY <2>7
<1>3. Nat \subseteq P
  <2> HIDE DEF P
  <2> QED BY <1>1, <1>2, Induction
<1> QED BY <1>3

TwinsAgree == \A a, b : Twin(a, b) => (a \in matched <=> b \in matched)

TopPair == <<Top(1), Top(2)>>

LEMMA Descended ==
  ASSUME Readable, Apart, TwinsAgree
  PROVE  \E q : /\ QueueOK(q.queue, q.matched, Has(Visits), matched)
                /\ CreateCompareQueue = AppendTop(q)
<1> DEFINE base == [queue |-> << >>, matched |-> matched]
           N == Len(Visits)
           after == CHOOSE g : g = Descent(g, Visits, base, N)
           seen(n) == {Visits[i] : i \in 1..n}
<1>1. /\ N \in Nat /\ DOMAIN Visits = 1..N
      /\ \A k \in 1..N : Visits[k] \in Cell \ Tops /\ Before(Visits, k)
  BY VisitsBottomUp DEF VisitsOK
<1>2. after = Descent(after, Visits, base, N)
  <2> HIDE DEF base
  <2> QED BY <1>1, DescentExists
<1>3. CreateCompareQueue = AppendTop(after[N])
  BY DEF CreateCompareQueue, Descent
<1>4. QueueOK(base.queue, base.matched, seen(0), matched)
  <2>1. base.queue = << >> /\ base.matched = matched /\ seen(0) = {}
    OBVIOUS
  <2> HIDE DEF base, seen
  <2> QED BY <2>1 DEF QueueOK, TwinsAgree
<1>5. seen(N) = Has(Visits)
  BY <1>1 DEF Has
<1>6. ASSUME NEW n \in 0..N PROVE seen(n) \subseteq Cell \ Tops
  BY <1>1
<1> HIDE DEF base, after, N
<1>7. after[0] = base /\ \A n \in 1..N : after[n] = DescendCompareQueue(after[n - 1], Visits[n])
  BY <1>1, <1>2 DEF Descent
<1> DEFINE P == {n \in Nat : n <= N => QueueOK(after[n].queue, after[n].matched, seen(n), matched)}
<1>8. 0 \in P
  BY <1>4, <1>7
<1>9. ASSUME NEW n \in Nat, n \in P PROVE n + 1 \in P
  <2>1. SUFFICES ASSUME n + 1 <= N
                 PROVE  QueueOK(after[n + 1].queue, after[n + 1].matched, seen(n + 1), matched)
    OBVIOUS
  <2>2. n + 1 \in 1..N /\ (n + 1) - 1 = n /\ n \in 0..N
    BY <1>1, <2>1
  <2>3. QueueOK(after[n].queue, after[n].matched, seen(n), matched)
    BY <1>9, <2>2
  <2>4. after[n + 1] = DescendCompareQueue(after[n], Visits[n + 1])
    BY <1>7, <2>2
  <2>5. PICK U \in SUBSET seen(n) :
           Within(Instances(contents, Visits[n + 1]), U) /\ Closed(U, contents)
    BY <1>1, <2>2 DEF Before
  <2>6. seen(n + 1) = seen(n) \cup {Visits[n + 1]}
    <3>1. \A i : i \in 1..(n + 1) <=> i \in 1..n \/ i = n + 1
      OBVIOUS
    <3> QED BY <3>1
  <2>7. Visits[n + 1] \in Cell \ Tops /\ seen(n) \subseteq Cell \ Tops
    BY <1>1, <1>6, <2>2
  <2> DEFINE q == after[n]
             c == Visits[n + 1]
             sn == seen(n)
  <2> HIDE DEF seen, q, c, sn
  <2>8. QueueOK(q.queue, q.matched, sn, matched)
    BY <2>3 DEF q, sn
  <2>9. /\ c \in Cell \ Tops /\ U \in SUBSET sn /\ sn \subseteq Cell \ Tops
        /\ Within(Instances(contents, c), U) /\ Closed(U, contents)
    BY <2>5, <2>7 DEF c, sn
  <2>10. QueueOK(DescendCompareQueue(q, c).queue, DescendCompareQueue(q, c).matched,
                 sn \cup {c}, matched)
    BY <2>8, <2>9, QueueStep
  <2> QED BY <2>4, <2>6, <2>10 DEF q, c, sn
<1>10. N \in P
  <2> HIDE DEF P
  <2> QED BY <1>1, <1>8, <1>9, Induction
<1>11. QueueOK(after[N].queue, after[N].matched, Has(Visits), matched)
  <2> HIDE DEF seen
  <2>1. N <= N
    BY <1>1
  <2>2. QueueOK(after[N].queue, after[N].matched, seen(N), matched)
    BY <1>10, <2>1
  <2> QED BY <1>5, <2>2
<1> QED BY <1>3, <1>11

\* The queue is made bottom up, with the top pair last, of pairs that correspond, and
\* whatever is newly flagged is in it.
Created(q, m) ==
  /\ q \in Seq(Cell \X Cell)
  /\ q # << >> /\ q[Len(q)] = TopPair
  /\ \A j \in DOMAIN q : q[j] = TopPair \/ Twin(q[j][1], q[j][2])
  /\ \A a, b : Twin(a, b) => (a \in m <=> b \in m)
  /\ \A j \in DOMAIN q : Ready(contents, q[j], m, Rest(q, j))
  /\ \A i, j \in DOMAIN q : q[i] = q[j] => i = j
  /\ \A a, b : Twin(a, b) /\ a \in m => a \in matched \/ \E j \in DOMAIN q : q[j] = <<a, b>>

LEMMA QueueCreated ==
  ASSUME Readable, Apart, TwinsAgree
  PROVE  Created(CreateCompareQueue.queue, CreateCompareQueue.matched)
<1>1. PICK r : /\ QueueOK(r.queue, r.matched, Has(Visits), matched)
               /\ CreateCompareQueue = AppendTop(r)
  BY Descended
<1> DEFINE q == r.queue
           m == r.matched
           p == TopPair
           z == Append(q, p)
           m1 == m \cup Tops
<1>2. CreateCompareQueue.queue = z /\ CreateCompareQueue.matched = m1
  BY <1>1 DEF AppendTop, TopPair, Tops
<1>3. QueueOK(q, m, Has(Visits), matched)
  BY <1>1
<1>4. \A f \in File : Top(f) \in Cell /\ Top(f)[2] = f
  BY TopsRead
<1>5. p \in Cell \X Cell /\ p[1] = Top(1) /\ p[2] = Top(2) /\ \A a, b : p = <<a, b>> => ~Twin(a, b)
  BY <1>4 DEF TopPair, Twin, Tops, File
<1>6. Has(Visits) \subseteq Cell \ Tops
  BY VisitsBottomUp DEF VisitsOK, Has
<1>7. Ready(contents, p, m, {p})
  <2>1. Within(Instances(contents, p[1]), Has(Visits)) /\ Closed(Has(Visits), contents)
    BY <1>5, VisitsBottomUp DEF VisitsOK, File
  <2>2. ASSUME NEW x, NEW y, Twin(x, y), x \in Has(Visits) \/ y \in Has(Visits)
        PROVE  x \in m /\ y \in m /\ <<x, y>> \notin {p}
    <3> HIDE DEF q, m
    <3>1. x \in m
      BY <1>3, <2>2 DEF QueueOK
    <3>2. y \in m
      BY <1>3, <2>2, <3>1 DEF QueueOK
    <3> QED BY <1>5, <2>2, <3>1, <3>2
  <2>3. 1 \in File /\ Has(Visits) \in SUBSET (Cell \ Tops)
    BY <1>6 DEF File
  <2> QED BY <2>1, <2>2, <2>3 DEF Ready
<1> HIDE DEF q, m, p
<1>8. /\ Len(q) \in Nat /\ Len(z) = Len(q) + 1 /\ DOMAIN z = 1..(Len(q) + 1) /\ z[Len(q) + 1] = p
      /\ DOMAIN q = 1..Len(q) /\ \A k \in 1..Len(q) : z[k] = q[k]
      /\ q \in Seq(Cell \X Cell)
  BY <1>3 DEF QueueOK
<1>9. z \in Seq(Cell \X Cell) /\ z # << >>
  BY <1>5, <1>8
<1>10. \A k \in DOMAIN z : k = Len(q) + 1 \/ (k \in DOMAIN q /\ z[k] = q[k])
  BY <1>8
<1>11. /\ \A j \in DOMAIN q : Rest(z, j) \subseteq Rest(q, j) \cup {p}
       /\ Rest(z, Len(q) + 1) = {p}
  BY <1>8, RestAppend
<1> HIDE DEF z
<1>12. p = <<Top(1), Top(2)>> /\ m \subseteq m1 /\ ~Twin(Top(1), Top(2))
  BY <1>5 DEF p, TopPair
<1>13. ASSUME NEW k \in DOMAIN z
       PROVE  /\ z[k] = p \/ Twin(z[k][1], z[k][2])
              /\ Ready(contents, z[k], m1, Rest(z, k))
  <2>1. CASE k = Len(q) + 1
    <3>1. {p} \subseteq {p} \cup {<<Top(1), Top(2)>>}
      OBVIOUS
    <3>2. Ready(contents, p, m1, {p})
      BY <1>7, <1>12, <3>1, ReadyLater
    <3> QED BY <1>8, <1>11, <2>1, <3>2
  <2>2. CASE k # Len(q) + 1
    <3>1. k \in DOMAIN q /\ z[k] = q[k]
      BY <1>10, <2>2
    <3>2. Twin(q[k][1], q[k][2]) /\ Ready(contents, q[k], m, Rest(q, k))
      BY <1>3, <3>1 DEF QueueOK
    <3>3. Rest(z, k) \subseteq Rest(q, k) \cup {<<Top(1), Top(2)>>}
      BY <1>11, <1>12, <3>1
    <3>4. Ready(contents, q[k], m1, Rest(z, k))
      BY <1>12, <3>2, <3>3, ReadyLater
    <3> QED BY <3>1, <3>2, <3>4
  <2> QED BY <2>1, <2>2
<1>14. ASSUME NEW a, NEW b, Twin(a, b) PROVE (a \in m1 <=> a \in m) /\ (b \in m1 <=> b \in m)
  BY <1>14 DEF Twin
<1>15. \A a, b : Twin(a, b) => (a \in m1 <=> b \in m1)
  BY <1>3, <1>14 DEF QueueOK
<1>16. ASSUME NEW k \in DOMAIN q PROVE q[k] # p
  <2>1. Twin(q[k][1], q[k][2])
    BY <1>3 DEF QueueOK
  <2>2. p[1] = Top(1) /\ p[2] = Top(2)
    BY <1>12
  <2> QED BY <1>12, <2>1, <2>2
<1>17. \A i, j \in DOMAIN z : z[i] = z[j] => i = j
  <2>1. SUFFICES ASSUME NEW i \in DOMAIN z, NEW j \in DOMAIN z, z[i] = z[j] PROVE i = j
    OBVIOUS
  <2>2. CASE i = Len(q) + 1 \/ j = Len(q) + 1
    BY <1>8, <1>10, <1>16, <2>1, <2>2
  <2>3. CASE ~(i = Len(q) + 1 \/ j = Len(q) + 1)
    BY <1>3, <1>10, <2>1, <2>3 DEF QueueOK
  <2> QED BY <2>2, <2>3
<1>18. ASSUME NEW a, NEW b, Twin(a, b), a \in m1
       PROVE  a \in matched \/ \E j \in DOMAIN z : z[j] = <<a, b>>
  <2>1. a \in m
    BY <1>14, <1>18
  <2>2. a \in matched \/ \E j \in DOMAIN q : q[j] = <<a, b>>
    BY <1>3, <1>18, <2>1 DEF QueueOK
  <2>3. \A j \in DOMAIN q : j \in DOMAIN z /\ z[j] = q[j]
    BY <1>8
  <2> QED BY <2>2, <2>3
<1>19. Len(z) = Len(q) + 1 /\ z[Len(z)] = p
  BY <1>8
<1> HIDE DEF m1
<1>20. Created(z, m1)
  BY <1>9, <1>13, <1>15, <1>17, <1>18, <1>19 DEF Created, p
<1> QED BY <1>2, <1>20

InProgress == pc \in {"flatten", "prematch", "compare", "decide", "flatten class"}

Waiting(p) == (\E j \in DOMAIN queue : queue[j] = p) \/ (InProgress /\ p = pair)

AllReady ==
  /\ \A j \in DOMAIN queue : Ready(contents, queue[j], matched, Rest(queue, j))
  /\ InProgress => Ready(contents, pair, matched, Rest(queue, 1) \cup {pair})

\* What a step keeps of the classes of the cells below the top.
TwinsKept == UNCHANGED design /\ \A x \in Cell \ Tops : classhash'[x] = classhash[x]

LEMMA TwinSame ==
  ASSUME TwinsKept, NEW a, NEW b
  PROVE  Twin(a, b)' <=> Twin(a, b)
<1>1. Cell' = Cell /\ Tops' = Tops /\ (Hierarchical(a)' <=> Hierarchical(a))
      /\ (Hierarchical(b)' <=> Hierarchical(b))
  BY DEF TwinsKept, Cell, D, Tops, Top, Hierarchical, Kind
<1>2. a \in Cell \ Tops => classhash'[a] = classhash[a]
  BY DEF TwinsKept
<1>3. b \in Cell \ Tops => classhash'[b] = classhash[b]
  BY DEF TwinsKept
<1> QED BY <1>1, <1>2, <1>3 DEF Twin

\* The pair p is ready after the step.
ReadyNext(p, m, rest) ==
  \E s \in File : \E U \in SUBSET (Cell \ Tops)' :
    /\ Within(Instances(contents', p[s]), U) /\ Closed(U, contents')
    /\ \A x, y : Twin(x, y)' /\ (x \in U \/ y \in U) => x \in m /\ y \in m /\ <<x, y>> \notin rest

LEMMA ReadyKept ==
  ASSUME Readable, Step, TwinsKept, NEW p, NEW m, NEW rest, Ready(contents, p, m, rest)
  PROVE  ReadyNext(p, m, rest)
<1>1. PICK s \in File, U \in SUBSET (Cell \ Tops) :
        /\ Within(Instances(contents, p[s]), U) /\ Closed(U, contents)
        /\ \A x, y : Twin(x, y) /\ (x \in U \/ y \in U) => x \in m /\ y \in m /\ <<x, y>> \notin rest
  BY DEF Ready
<1>2. (Cell \ Tops)' = Cell \ Tops
  BY DEF TwinsKept, Cell, D, Tops, Top
<1>3. DOMAIN contents' = DOMAIN contents
      /\ \A V : Closed(V, contents) => \A q \in DOMAIN contents : Within(contents[q], V) => Within(contents'[q], V)
  BY DEF Step, Flattens
<1>4. Within(Instances(contents', p[s]), U)
  <2>1. CASE p[s] \in DOMAIN contents
    <3>1. Within(contents[p[s]], U)
      BY <1>1, <2>1 DEF Instances
    <3>2. Within(contents'[p[s]], U)
      BY <1>1, <1>3, <2>1, <3>1
    <3> QED BY <1>3, <2>1, <3>2 DEF Instances
  <2>2. CASE p[s] \notin DOMAIN contents
    BY <1>3, <2>2 DEF Instances, Within
  <2> QED BY <2>1, <2>2
<1>5. Closed(U, contents')
  BY <1>1, <1>3 DEF Closed
<1>6. ASSUME NEW x, NEW y, Twin(x, y)', x \in U \/ y \in U
      PROVE  x \in m /\ y \in m /\ <<x, y>> \notin rest
  <2>1. Twin(x, y)
    BY <1>6, TwinSame
  <2> QED BY <1>1, <1>6, <2>1
<1> QED BY <1>1, <1>2, <1>4, <1>5, <1>6 DEF ReadyNext

LEMMA AllReadyKept ==
  ASSUME Readable, Step, TwinsKept, AllReady, UNCHANGED <<queue, matched>>, 
         InProgress' => InProgress, InProgress => UNCHANGED pair
  PROVE  AllReady'
<1>1. ASSUME NEW j \in DOMAIN queue'
      PROVE  Ready(contents, queue[j], matched, Rest(queue, j))'
  <2>1. Ready(contents, queue[j], matched, Rest(queue, j))
    BY <1>1 DEF AllReady
  <2>2. ReadyNext(queue[j], matched, Rest(queue, j))
    BY <2>1, ReadyKept
  <2> QED BY <2>2 DEF Ready, ReadyNext, Rest
<1>2. ASSUME InProgress' PROVE Ready(contents, pair, matched, Rest(queue, 1) \cup {pair})'
  <2>1. Ready(contents, pair, matched, Rest(queue, 1) \cup {pair}) /\ pair' = pair
    BY <1>2 DEF AllReady
  <2>2. ReadyNext(pair, matched, Rest(queue, 1) \cup {pair})
    BY <2>1, ReadyKept
  <2>3. (Rest(queue, 1) \cup {pair})' = Rest(queue, 1) \cup {pair}
    BY <2>1 DEF Rest
  <2>4. PICK s \in File, U \in SUBSET (Cell \ Tops)' :
          /\ Within(Instances(contents', pair[s]), U) /\ Closed(U, contents')
          /\ \A x, y : Twin(x, y)' /\ (x \in U \/ y \in U)
               => x \in matched /\ y \in matched /\ <<x, y>> \notin Rest(queue, 1) \cup {pair}
    BY <2>2 DEF ReadyNext
  <2>5. \A x, y : Twin(x, y)' /\ (x \in U \/ y \in U)
          => x \in matched' /\ y \in matched' /\ <<x, y>> \notin (Rest(queue, 1) \cup {pair})'
    BY <2>3, <2>4
  <2> QED BY <2>1, <2>4, <2>5 DEF Ready
<1> QED BY <1>1, <1>2 DEF AllReady

(***************************************************************************)
(* The inductive invariant.                                                 *)
(***************************************************************************)
HashOK == classhash = [c \in Cell |-> classhash[c]] /\ Apart

QueueType ==
  /\ queue \in Seq(Cell \X Cell)
  /\ InProgress => pair \in Cell \X Cell

\* The pair of the cells to compare comes last.
QueueEnds ==
  /\ queue # << >> => queue[Len(queue)] = TopPair
  /\ InProgress /\ queue = << >> => pair = TopPair
  /\ pc \in {"start", "done"} => queue = << >>

PairsCorrespond == \A p : Waiting(p) => p = TopPair \/ Twin(p[1], p[2])

\* Subcircuits that have the same devices, by what was read.
Alike(a, b) ==
  /\ a \in DOMAIN contents /\ b \in DOMAIN contents
  /\ Primitives(AsRead(D), a) = Primitives(AsRead(D), b)

\* A cell of which there is no instance left.
Gone(c) == \A p \in DOMAIN contents : Within(contents[p], Cell \ {c})

Settled(a, b) == Alike(a, b) \/ (Gone(a) /\ Gone(b))

\* What is flagged and no longer waits was found alike, or flattened everywhere.
MatchedSettled ==
  forced = {} =>
    \A a, b : Twin(a, b) /\ a \in matched /\ ~Waiting(<<a, b>>) => Settled(a, b)

OnlyNoflat ==
  forced = {} => \A c \in placeholder : Noflat(c) \/ Kind(c) = "module"

FlattenOK ==
  pc = "flatten class" /\ forced = {} =>
    \/ pair[1] \notin placeholder /\ pair[2] \notin placeholder
    \/ Alike(pair[1], pair[2])

MatchOK ==
  pc = "decide" /\ verdict \notin {"mismatch", "blackbox"} /\ forced = {} =>
    Alike(pair[1], pair[2])

MatchInv ==
  /\ HashOK /\ TwinsAgree
  /\ QueueType /\ QueueEnds /\ PairsCorrespond /\ EachPairOnce
  /\ AllReady
  /\ MatchedSettled /\ OnlyNoflat /\ FlattenOK /\ MatchOK

LEMMA SettledKept ==
  ASSUME Readable, Step, UNCHANGED design, NEW a, NEW b
  PROVE  /\ Alike(a, b) => Alike(a, b)'
         /\ Settled(a, b) => Settled(a, b)'
<1>1. DOMAIN contents' = DOMAIN contents /\ D' = D /\ Cell' = Cell
  BY DEF Step, Flattens, D, Cell
<1>2. AsRead(D)' = AsRead(D)
  BY <1>1 DEF AsRead
<1>3. Alike(a, b) => Alike(a, b)'
  BY <1>1, <1>2 DEF Alike
<1>4. ASSUME NEW c, Gone(c) PROVE Gone(c)'
  <2>1. Closed(Cell \ {c}, contents)
    BY <1>4 DEF Gone, Closed
  <2>2. \A p \in DOMAIN contents : Within(contents'[p], Cell \ {c})
    BY <1>4, <2>1 DEF Gone, Step, Flattens
  <2> QED BY <1>1, <2>2 DEF Gone
<1> QED BY <1>3, <1>4 DEF Settled

LEMMA TopPairNotTwin ==
  ASSUME NEW a, NEW b, Twin(a, b)
  PROVE  <<a, b>> # TopPair
  BY DEF Twin, TopPair, Tops

\* Steps that leave the queue alone.
LEMMA Frame ==
  ASSUME Readable, MatchInv, Step, TwinsKept, HashOK', UNCHANGED <<queue, matched, pair>>,
         InProgress' => InProgress,
         pc' \in {"start", "done"} => queue = << >>,
         forced' = {} => forced = {} /\ placeholder' = placeholder,
         \A a, b : forced' = {} /\ InProgress /\ ~InProgress' /\ pair = <<a, b>> /\ Twin(a, b)
            => Settled(a, b)',
         FlattenOK', MatchOK'
  PROVE  MatchInv'
<1>1. Cell' = Cell /\ Tops' = Tops /\ TopPair' = TopPair /\ D' = D
  BY DEF TwinsKept, Cell, D, Tops, Top, TopPair
<1>2. TwinsAgree'
  <2>1. ASSUME NEW a, NEW b, Twin(a, b)' PROVE a \in matched' <=> b \in matched'
    <3>1. Twin(a, b)
      BY <2>1, TwinSame
    <3> QED BY <3>1 DEF MatchInv, TwinsAgree
  <2> QED BY <2>1 DEF TwinsAgree
<1>3. QueueType' /\ QueueEnds'
  BY <1>1 DEF MatchInv, QueueType, QueueEnds
<1>4. \A p : Waiting(p)' => Waiting(p)
  BY DEF Waiting
<1>5. PairsCorrespond'
  <2>1. ASSUME NEW p, Waiting(p)' PROVE (p = TopPair)' \/ Twin(p[1], p[2])'
    <3>1. p = TopPair \/ Twin(p[1], p[2])
      BY <1>4, <2>1 DEF MatchInv, PairsCorrespond
    <3> QED BY <1>1, <3>1, TwinSame
  <2> QED BY <2>1 DEF PairsCorrespond
<1>6. EachPairOnce'
  BY DEF MatchInv, EachPairOnce
<1>7. AllReady'
  BY AllReadyKept DEF MatchInv
<1>8. MatchedSettled'
  <2>1. SUFFICES ASSUME NEW a, NEW b, forced' = {}, Twin(a, b)', a \in matched', ~Waiting(<<a, b>>)'
                 PROVE  Settled(a, b)'
    BY DEF MatchedSettled
  <2>2. Twin(a, b) /\ forced = {} /\ a \in matched
    BY <2>1, TwinSame
  <2>3. CASE Waiting(<<a, b>>)
    <3>1. InProgress /\ ~InProgress' /\ pair = <<a, b>>
      BY <2>1, <2>3 DEF Waiting
    <3> QED BY <2>1, <2>2, <3>1
  <2>4. CASE ~Waiting(<<a, b>>)
    <3>1. Settled(a, b)
      BY <2>2, <2>4 DEF MatchInv, MatchedSettled
    <3> QED BY <3>1, SettledKept DEF TwinsKept
  <2> QED BY <2>3, <2>4
<1>9. OnlyNoflat'
  BY <1>1 DEF MatchInv, OnlyNoflat, Noflat, Kind
<1> QED BY <1>2, <1>3, <1>5, <1>6, <1>7, <1>8, <1>9 DEF MatchInv

LEMMA HashKept ==
  ASSUME HashOK, UNCHANGED <<design, classhash>>
  PROVE  TwinsKept /\ HashOK'
<1>1. TwinsKept
  BY DEF TwinsKept
<1>2. Cell' = Cell /\ Tops' = Tops
  BY DEF Cell, D, Tops, Top
<1>3. \A c : Hierarchical(c)' <=> Hierarchical(c)
  BY DEF Hierarchical, Kind, D
<1> QED BY <1>1, <1>2, <1>3 DEF HashOK, Apart

\* Flattening before a comparison.
LEMMA FlattenKeepsMatch ==
  ASSUME Readable, MatchInv, Step, FlattenBoth \/ PrematchStep \/ PrematchEnd
  PROVE  MatchInv'
<1>1. /\ UNCHANGED <<design, placeholder, queueVars, pair, lvsVars>>
      /\ pc \in {"flatten", "prematch"} /\ pc' \in {"flatten", "prematch", "compare"}
  BY DEF FlattenBoth, PrematchStep, PrematchEnd
<1>2. UNCHANGED <<design, placeholder, queue, matched, classhash, pair, forced>>
  BY <1>1 DEF queueVars, lvsVars
<1>3. TwinsKept /\ HashOK'
  BY <1>2, HashKept DEF MatchInv
<1>4. InProgress /\ InProgress' /\ FlattenOK' /\ MatchOK'
  BY <1>1 DEF InProgress, FlattenOK, MatchOK
<1> QED BY <1>1, <1>2, <1>3, <1>4, Frame

LEMMA EndKeepsMatch ==
  ASSUME Readable, MatchInv, Step, EndLvs \/ Again
  PROVE  MatchInv'
<1>1. /\ UNCHANGED <<design, placeholder, queue, matched, classhash, pair, forced>>
      /\ pc \in {"next", "done"} /\ pc' \in {"start", "done"}
  BY DEF EndLvs, Again, hierarchyVars, queueVars, lvsVars
<1>2. TwinsKept /\ HashOK'
  BY <1>1, HashKept DEF MatchInv
<1>3. ~InProgress /\ ~InProgress' /\ FlattenOK' /\ MatchOK'
  BY <1>1 DEF InProgress, FlattenOK, MatchOK
<1>4. queue = << >>
  BY DEF EndLvs, Again, NotTop, MatchInv, QueueEnds
<1> QED BY <1>1, <1>2, <1>3, <1>4, Frame

LEMMA StutterKeepsMatch ==
  ASSUME Readable, MatchInv, Step, UNCHANGED vars
  PROVE  MatchInv'
<1>1. UNCHANGED <<design, placeholder, contents, queue, matched, classhash, pair, forced, pc, verdict>>
  BY DEF vars, hierarchyVars, queueVars, lvsVars
<1>2. TwinsKept /\ HashOK'
  BY <1>1, HashKept DEF MatchInv
<1>3. InProgress' <=> InProgress
  BY <1>1 DEF InProgress
<1>4. \A a, b : Alike(a, b) => Alike(a, b)'
  BY <1>1, SettledKept
<1>5. FlattenOK' /\ MatchOK'
  BY <1>1, <1>4 DEF MatchInv, FlattenOK, MatchOK
<1>6. pc' \in {"start", "done"} => queue = << >>
  BY <1>1 DEF MatchInv, QueueEnds
<1> QED BY <1>1, <1>2, <1>3, <1>5, <1>6, Frame

(***************************************************************************)
(* The decision.                                                            *)
(***************************************************************************)
LEMMA DecideHash ==
  ASSUME Readable, MatchInv, NEW r, Decide(r)
  PROVE  TwinsKept /\ HashOK'
<1>1. UNCHANGED design /\ InProgress /\ classhash = [c \in Cell |-> classhash[c]] /\ Apart
  BY DEF Decide, MatchInv, HashOK, InProgress
<1>2. CASE classhash' = classhash
  BY <1>1, <1>2, HashKept DEF MatchInv
<1>3. CASE classhash' # classhash
  <2>1. classhash' = [classhash EXCEPT ![pair[2]] = classhash[pair[1]]]
    BY <1>3 DEF Decide, EquivalenceClasses
  <2>2. pair = TopPair \/ Twin(pair[1], pair[2])
    BY <1>1 DEF MatchInv, PairsCorrespond, Waiting
  <2>3. pair = TopPair
    <3>1. SUFFICES ASSUME Twin(pair[1], pair[2]) PROVE classhash' = classhash
      BY <1>3, <2>2
    <3>2. classhash[pair[1]] = classhash[pair[2]] /\ pair[2] \in Cell
      BY <3>1 DEF Twin
    <3> QED BY <1>1, <2>1, <3>2
  <2>4. Top(1) \in Cell /\ Top(2) \in Cell /\ Top(1)[2] = 1 /\ Top(2)[2] = 2 /\ Tops = {Top(1), Top(2)}
    BY TopsRead DEF File, Tops
  <2>5. classhash' = [c \in Cell |-> IF c = Top(2) THEN classhash[Top(1)] ELSE classhash[c]]
    <3>1. pair[1] = Top(1) /\ pair[2] = Top(2)
      BY <2>3 DEF TopPair
    <3> QED BY <1>1, <2>1, <2>4, <3>1
  <2>6. Cell' = Cell /\ Tops' = Tops /\ \A c : Hierarchical(c)' <=> Hierarchical(c)
    BY <1>1 DEF Cell, D, Tops, Top, Hierarchical, Kind
  <2>7. Hierarchical(Top(1)) /\ Hierarchical(Top(2))
    <3>1. \A c \in DOMAIN AsRead(D) : Hierarchical(c)
      BY DEF AsRead, Hierarchical, Kind
    <3>2. DOMAIN contents = DOMAIN AsRead(D)
      BY ContentsHierarchy
    <3> QED BY <3>1, <3>2, TopsRead DEF File
  <2>8. TwinsKept
    BY <1>1, <2>4, <2>5 DEF TwinsKept
  <2>9. ASSUME NEW c \in Cell, NEW e \in Cell, classhash'[c] = classhash'[e]
        PROVE  /\ c[2] = e[2] => c = e
               /\ Hierarchical(c) <=> Hierarchical(e)
               /\ ~Hierarchical(c) => c[1] = e[1]
               /\ c \in Tops => e \in Tops
    <3>1. CASE c # Top(2) /\ e # Top(2)
      <4>1. classhash[c] = classhash[e]
        BY <2>5, <2>9, <3>1
      <4> QED BY <1>1, <4>1 DEF Apart
    <3>2. CASE c = Top(2) /\ e = Top(2)
      BY <2>7, <3>2
    <3>3. CASE c = Top(2) /\ e # Top(2)
      <4>1. classhash[Top(1)] = classhash[e]
        BY <2>5, <2>9, <3>3
      <4>2. e \in Tops
        BY <1>1, <2>4, <4>1 DEF Apart
      <4>3. e = Top(1)
        BY <2>4, <3>3, <4>2
      <4> QED BY <2>4, <2>7, <3>3, <4>3
    <3>4. CASE c # Top(2) /\ e = Top(2)
      <4>1. classhash[c] = classhash[Top(1)]
        BY <2>5, <2>9, <3>4
      <4>2. c \in Tops
        BY <1>1, <2>4, <4>1 DEF Apart
      <4>3. c = Top(1)
        BY <2>4, <3>4, <4>2
      <4> QED BY <2>4, <2>7, <3>4, <4>3
    <3> QED BY <3>1, <3>2, <3>3, <3>4
  <2>10. Apart'
    BY <2>6, <2>9 DEF Apart
  <2>11. classhash' = [c \in Cell' |-> classhash'[c]]
    BY <2>5, <2>6
  <2> QED BY <2>8, <2>10, <2>11 DEF HashOK
<1> QED BY <1>2, <1>3

LEMMA DecideKeepsMatch ==
  ASSUME Readable, PairRead, MatchInv, Step, NEW r, Decide(r)
  PROVE  MatchInv'
<1>1. /\ UNCHANGED <<design, contents, queue, matched, pair, verdict>>
      /\ pc = "decide" /\ InProgress
      /\ pc' = IF DoFlatten(r) THEN "flatten class" ELSE "next"
      /\ forced' = IF ForceMatch THEN forced \cup {pair} ELSE forced
      /\ placeholder' = SetPlaceholders(pair)
  BY DEF Decide, InProgress
<1>2. TwinsKept /\ HashOK'
  BY DecideHash
<1>3. forced' = {} => /\ forced = {} /\ ~ForceMatch
  BY <1>1
<1>4. ~ForceMatch => ~Prohibited /\ verdict # "blackbox"
  BY DEF ForceMatch
<1>5. forced' = {} => placeholder' = placeholder
  BY <1>1, <1>3, <1>4 DEF SetPlaceholders
<1>6. forced' = {} /\ verdict # "mismatch" => Alike(pair[1], pair[2])
  BY <1>1, <1>3, <1>4 DEF MatchInv, MatchOK
<1>7. \A a, b : Alike(a, b) => Alike(a, b)'
  BY <1>1, SettledKept
<1>8. pc' # "decide" /\ MatchOK'
  BY <1>1 DEF MatchOK
<1>9. FlattenOK'
  <2>1. SUFFICES ASSUME pc' = "flatten class", forced' = {}
                 PROVE  \/ pair[1] \notin placeholder /\ pair[2] \notin placeholder
                        \/ Alike(pair[1], pair[2])
    BY <1>1, <1>3, <1>5, <1>7 DEF FlattenOK
  <2>2. CASE verdict = "mismatch"
    <3>1. DoFlatten(r) /\ ~Prohibited
      BY <1>1, <1>3, <1>4, <2>1
    <3>2. NotTop
      BY <3>1 DEF DoFlatten
    <3>3. ~Noflat(pair[1]) /\ ~Noflat(pair[2])
      BY <2>2, <3>1, <3>2 DEF Prohibited, DoCheckFlatten
    <3>4. pair[1] \in DOMAIN contents /\ pair[2] \in DOMAIN contents
      BY <1>1, <2>2 DEF PairRead
    <3>5. DOMAIN contents = DOMAIN AsRead(D)
      BY DEF Readable, Flattens
    <3>6. \A c \in DOMAIN AsRead(D) : Kind(c) # "module"
      BY DEF AsRead, Kind
    <3> QED BY <1>3, <2>1, <3>3, <3>4, <3>5, <3>6 DEF MatchInv, OnlyNoflat
  <2>3. CASE verdict # "mismatch"
    BY <1>6, <2>1, <2>3
  <2> QED BY <2>2, <2>3
<1>10. ASSUME NEW a, NEW b, forced' = {}, ~InProgress', pair = <<a, b>>, Twin(a, b)
       PROVE  Settled(a, b)'
  <2>1. ~DoFlatten(r)
    BY <1>1, <1>10 DEF InProgress
  <2>2. verdict # "mismatch"
    <3>1. SUFFICES ASSUME verdict = "mismatch" PROVE FALSE
      OBVIOUS
    <3>2. NotTop
      <4>1. pair # TopPair
        BY <1>10, TopPairNotTwin
      <4> QED BY <1>1, <4>1 DEF MatchInv, QueueEnds, NotTop
    <3>3. ~Prohibited
      BY <1>3, <1>4, <1>10
    <3>4. DoFlatten(r)
      BY <3>1, <3>2, <3>3 DEF DoFlatten, DoEquatePins, DoCheckFlatten
    <3> QED BY <2>1, <3>4
  <2>3. Alike(a, b)
    BY <1>6, <1>10, <2>2
  <2> QED BY <1>7, <2>3 DEF Settled
<1>11. InProgress' => InProgress
  BY <1>1
<1>12. pc' \notin {"start", "done"}
  BY <1>1
<1> QED BY <1>2, <1>1, <1>3, <1>5, <1>8, <1>9, <1>10, <1>11, <1>12, Frame

(***************************************************************************)
(* The comparison.                                                          *)
(***************************************************************************)
\* v gives the number of devices named n.
Devices(v, n) ==
  /\ Valuation(v, AsRead(D), Cell)
  /\ \A x \in Cell \ DOMAIN AsRead(D) : v[x] = Ind(Named(n, Cell), Cell)[x]

LEMMA ReadFacts ==
  ASSUME Readable
  PROVE  /\ ListsOf(AsRead(D), Cell) /\ DOMAIN AsRead(D) \subseteq Cell
         /\ IsFiniteSet(DOMAIN AsRead(D)) /\ DOMAIN contents = DOMAIN AsRead(D)
         /\ Cardinality(DOMAIN AsRead(D)) \in Nat
         /\ \E r : Ranking(r, AsRead(D), Cell) /\ \A x \in Cell : r[x] <= Cardinality(DOMAIN AsRead(D))
<1>1. design \in DOMAIN Designs /\ DOMAIN contents = DOMAIN AsRead(D)
  BY ContentsHierarchy DEF Readable
<1>2. /\ ListsOf(AsRead(D), Cell) /\ DOMAIN AsRead(D) \subseteq Cell
      /\ IsFiniteSet(DOMAIN AsRead(D)) /\ Acyclic(AsRead(D))
  BY <1>1, ListsRead, SubcktsRead, FiniteRead, AcyclicRead DEF D, Cell
<1> QED BY <1>1, <1>2, RankingExists, FS_CardinalityType

LEMMA DevicesExist ==
  ASSUME Readable, NEW n
  PROVE  \E v : Devices(v, n)
<1>1. PICK r : Ranking(r, AsRead(D), Cell) /\ \A x \in Cell : r[x] <= Cardinality(DOMAIN AsRead(D))
  BY ReadFacts
<1>2. Ind(Named(n, Cell), Cell) \in Weights(Cell)
  BY IndWeights
<1> DEFINE w == Ind(Named(n, Cell), Cell)
           N == Cardinality(DOMAIN AsRead(D))
<1> HIDE DEF w, N
<1>3. N \in Nat /\ \A x \in Cell : r[x] <= N
  BY <1>1, ReadFacts DEF N
<1>4. \E v : Valuation(v, AsRead(D), Cell) /\ \A x \in Cell \ DOMAIN AsRead(D) : v[x] = w[x]
  BY <1>1, <1>2, <1>3, ReadFacts, ValuationExists DEF w
<1> QED BY <1>4 DEF Devices, w

LEMMA DevicesCounted ==
  ASSUME Readable, NEW n, NEW v, Devices(v, n), NEW c \in DOMAIN contents
  PROVE  CountedBy(v, AsRead(D), c, n)
<1>1. PICK r : Ranking(r, AsRead(D), Cell) /\ \A x \in Cell : r[x] <= Cardinality(DOMAIN AsRead(D))
  BY ReadFacts
<1>2. /\ ListsOf(AsRead(D), Cell) /\ DOMAIN AsRead(D) \subseteq Cell
      /\ IsFiniteSet(DOMAIN AsRead(D)) /\ c \in DOMAIN AsRead(D)
  BY ReadFacts
<1>3. /\ Valuation(v, AsRead(D), Cell)
      /\ \A x \in Cell \ DOMAIN AsRead(D) : v[x] = Ind(Named(n, Cell), Cell)[x]
  BY DEF Devices
<1> QED BY <1>1, <1>2, <1>3, LeavesCount

LEMMA AlikeByDevices ==
  ASSUME Readable, NEW a \in DOMAIN contents, NEW b \in DOMAIN contents
  PROVE  /\ Alike(a, b) => \A n, v : Devices(v, n) => v[a] = v[b]
         /\ (\A n : \E v : Devices(v, n) /\ v[a] = v[b]) => Alike(a, b)
<1>1. ASSUME NEW c
      PROVE  Primitives(AsRead(D), c) =
               [n \in LeafNames(AsRead(D), c) |-> Cardinality(LeavesNamed(AsRead(D), c, n))]
  BY DEF Primitives, LeafNames, LeavesNamed, Leaves
<1>2. ASSUME Alike(a, b), NEW n, NEW v, Devices(v, n) PROVE v[a] = v[b]
  <2>1. CountedBy(v, AsRead(D), a, n) /\ CountedBy(v, AsRead(D), b, n)
    BY <1>2, DevicesCounted
  <2>2. LeafNames(AsRead(D), a) = LeafNames(AsRead(D), b)
    BY <1>1, <1>2 DEF Alike
  <2>3. CASE n \in LeafNames(AsRead(D), a)
    <3>1. Primitives(AsRead(D), a)[n] = Cardinality(LeavesNamed(AsRead(D), a, n))
          /\ Primitives(AsRead(D), b)[n] = Cardinality(LeavesNamed(AsRead(D), b, n))
      BY <1>1, <2>2, <2>3
    <3> QED BY <1>2, <2>1, <3>1 DEF Alike, CountedBy
  <2>4. CASE n \notin LeafNames(AsRead(D), a)
    BY <2>1, <2>2, <2>4 DEF CountedBy
  <2> QED BY <2>3, <2>4
<1>3. ASSUME \A n : \E v : Devices(v, n) /\ v[a] = v[b] PROVE Alike(a, b)
  <2>1. ASSUME NEW n
        PROVE  /\ n \in LeafNames(AsRead(D), a) <=> n \in LeafNames(AsRead(D), b)
               /\ Cardinality(LeavesNamed(AsRead(D), a, n)) = Cardinality(LeavesNamed(AsRead(D), b, n))
    <3>1. PICK v : Devices(v, n) /\ v[a] = v[b]
      BY <1>3
    <3>2. CountedBy(v, AsRead(D), a, n) /\ CountedBy(v, AsRead(D), b, n)
      BY <3>1, DevicesCounted
    <3> QED BY <3>1, <3>2 DEF CountedBy
  <2>2. LeafNames(AsRead(D), a) = LeafNames(AsRead(D), b)
    BY <2>1
  <2>3. Primitives(AsRead(D), a) = Primitives(AsRead(D), b)
    BY <1>1, <2>1, <2>2
  <2> QED BY <2>3 DEF Alike
<1> QED BY <1>2, <1>3

\* The bags of classes that Compare compares.
LEMMA ClassesSame ==
  ASSUME Readable, NEW a \in DOMAIN contents, NEW b \in DOMAIN contents, Classes(a) = Classes(b)
  PROVE  SameClasses(contents[a], contents[b], classhash, Cell)
<1> DEFINE places(s, h) == {i \in DOMAIN s : classhash[s[i]] = h}
           hashes(s) == {classhash[x] : x \in ToSet(s)}
           s == contents[a]
           t == contents[b]
<1>1. s \in Seq(Cell) /\ t \in Seq(Cell)
  BY ContentsHierarchy DEF Hierarchy, ListsOf
<1>2. /\ Classes(a) = [h \in hashes(s) |-> Cardinality(places(s, h))]
      /\ Classes(b) = [h \in hashes(t) |-> Cardinality(places(t, h))]
  BY DEF Classes, Instances
<1>3. ASSUME NEW u \in Seq(Cell), NEW h
      PROVE  /\ Total(Ind(OfClass(classhash, h, Cell), Cell), u) = Cardinality(places(u, h))
             /\ h \notin hashes(u) => Total(Ind(OfClass(classhash, h, Cell), Cell), u) = 0
  <2> DEFINE B == OfClass(classhash, h, Cell)
  <2>1. {i \in DOMAIN u : u[i] \in B} = places(u, h)
    BY DEF OfClass
  <2>2. h \notin hashes(u) => \A i \in DOMAIN u : u[i] \notin B
    BY DEF OfClass, ToSet
  <2> HIDE DEF B, hashes, places
  <2>3. Total(Ind(B, Cell), u) = Cardinality({i \in DOMAIN u : u[i] \in B})
    BY IndCounts
  <2>4. (\A i \in DOMAIN u : u[i] \notin B) => Total(Ind(B, Cell), u) = 0
    BY IndZero
  <2> QED BY <2>1, <2>2, <2>3, <2>4 DEF B
<1> HIDE DEF places, hashes, s, t
<1>4. hashes(s) = hashes(t)
  BY <1>2
<1>5. ASSUME NEW h PROVE Total(Ind(OfClass(classhash, h, Cell), Cell), s)
                          = Total(Ind(OfClass(classhash, h, Cell), Cell), t)
  <2>1. CASE h \in hashes(s)
    <3>1. Classes(a)[h] = Cardinality(places(s, h)) /\ Classes(b)[h] = Cardinality(places(t, h))
      BY <1>2, <1>4, <2>1
    <3>2. Total(Ind(OfClass(classhash, h, Cell), Cell), s) = Cardinality(places(s, h))
      BY <1>1, <1>3
    <3>3. Total(Ind(OfClass(classhash, h, Cell), Cell), t) = Cardinality(places(t, h))
      BY <1>1, <1>3
    <3> QED BY <3>1, <3>2, <3>3
  <2>2. CASE h \notin hashes(s)
    BY <1>1, <1>3, <1>4, <2>2
  <2> QED BY <2>1, <2>2
<1> QED BY <1>5 DEF SameClasses, s, t

\* Instances of one class, one in either cell of the pair that is compared.
LEMMA SameClassAlike ==
  ASSUME Readable, MatchInv, InProgress, forced = {},
         pair[1] \in DOMAIN contents, pair[2] \in DOMAIN contents,
         NEW i \in DOMAIN contents[pair[1]], NEW j \in DOMAIN contents[pair[2]],
         NEW x, x = contents[pair[1]][i], NEW y, y = contents[pair[2]][j],
         classhash[x] = classhash[y], NEW n, NEW v, Devices(v, n)
  PROVE  v[x] = v[y]
<1>1. x \in Cell /\ y \in Cell
  BY ContentsHierarchy DEF Hierarchy, ListsOf
<1>2. Apart
  BY DEF MatchInv, HashOK
<1>3. CASE ~Hierarchical(x)
  <2>1. ~Hierarchical(y) /\ x[1] = y[1]
    BY <1>1, <1>2, <1>3 DEF Apart
  <2>2. \A c \in DOMAIN AsRead(D) : Hierarchical(c)
    BY DEF AsRead, Hierarchical, Kind
  <2>3. v[x] = Ind(Named(n, Cell), Cell)[x] /\ v[y] = Ind(Named(n, Cell), Cell)[y]
    BY <1>1, <1>3, <2>1, <2>2 DEF Devices
  <2> QED BY <1>1, <2>1, <2>3 DEF Ind, Named
<1>4. CASE Hierarchical(x)
  <2>1. pair = TopPair \/ Twin(pair[1], pair[2])
    BY DEF MatchInv, PairsCorrespond, Waiting
  <2>2. pair[1][2] = 1 /\ pair[2][2] = 2
    BY <2>1, TopsRead DEF TopPair, Twin, File
  <2>3. x[2] = 1 /\ y[2] = 2
    <3>1. \A f : Closed({c \in Cell : c[2] = f}, contents)
      BY SameFile
    <3>2. pair[1] \in Cell /\ pair[2] \in Cell
      BY ContentsHierarchy DEF Hierarchy
    <3>3. Within(contents[pair[1]], {c \in Cell : c[2] = 1})
      BY <2>2, <3>1, <3>2 DEF Closed
    <3>4. Within(contents[pair[2]], {c \in Cell : c[2] = 2})
      BY <2>2, <3>1, <3>2 DEF Closed
    <3> QED BY <3>3, <3>4 DEF Within
  <2>4. Ready(contents, pair, matched, Rest(queue, 1) \cup {pair})
    BY DEF MatchInv, AllReady
  <2>5. PICK f \in File, U \in SUBSET (Cell \ Tops) :
          /\ Within(Instances(contents, pair[f]), U)
          /\ \A a, b : Twin(a, b) /\ (a \in U \/ b \in U)
               => a \in matched /\ b \in matched /\ <<a, b>> \notin Rest(queue, 1) \cup {pair}
    BY <2>4 DEF Ready
  <2>6. x \in U \/ y \in U
    <3>1. CASE f = 1
      BY <2>5, <3>1 DEF Within, Instances
    <3>2. CASE f = 2
      BY <2>5, <3>2 DEF Within, Instances
    <3> QED BY <3>1, <3>2 DEF File
  <2>7. Twin(x, y)
    <3>1. x \notin Tops /\ y \notin Tops /\ Hierarchical(y)
      BY <1>1, <1>2, <1>4, <2>6 DEF Apart
    <3> QED BY <1>1, <1>4, <2>3, <3>1 DEF Twin
  <2>8. x \in matched /\ ~Waiting(<<x, y>>)
    <3>1. x \in matched /\ <<x, y>> \notin Rest(queue, 1) \cup {pair}
      BY <2>5, <2>6, <2>7
    <3>2. \A k \in DOMAIN queue : queue[k] \in Rest(queue, 1)
      BY DEF MatchInv, QueueType, Rest
    <3> QED BY <3>1, <3>2 DEF Waiting
  <2>9. Settled(x, y)
    BY <2>7, <2>8 DEF MatchInv, MatchedSettled
  <2>10. ~Gone(x)
    <3>1. ~Within(contents[pair[1]], Cell \ {x})
      BY DEF Within
    <3> QED BY <3>1 DEF Gone
  <2>11. Alike(x, y)
    BY <2>9, <2>10 DEF Settled
  <2> QED BY <2>11, AlikeByDevices DEF Alike
<1> QED BY <1>3, <1>4

LEMMA ComparedAlike ==
  ASSUME Readable, MatchInv, InProgress, forced = {},
         pair[1] \in DOMAIN contents, pair[2] \in DOMAIN contents,
         Classes(pair[1]) = Classes(pair[2])
  PROVE  Alike(pair[1], pair[2])
<1> DEFINE s == contents[pair[1]]
           t == contents[pair[2]]
<1>1. s \in Seq(Cell) /\ t \in Seq(Cell)
  BY ContentsHierarchy DEF Hierarchy, ListsOf
<1>2. SameClasses(s, t, classhash, Cell)
  BY ClassesSame
<1>3. ASSUME NEW n PROVE \E v : Devices(v, n) /\ v[pair[1]] = v[pair[2]]
  <2>1. PICK v : Devices(v, n)
    BY DevicesExist
  <2>2. v \in Weights(Cell) /\ Valuation(v, contents, Cell)
    BY <2>1 DEF Devices, Valuation, Readable, Flattens
  <2>3. v[pair[1]] = Total(v, s) /\ v[pair[2]] = Total(v, t)
    BY <2>2 DEF Valuation
  <2>4. \A i \in DOMAIN s : \A j \in DOMAIN t : classhash[s[i]] = classhash[t[j]] => v[s[i]] = v[t[j]]
    BY <2>1, SameClassAlike
  <2> HIDE DEF s, t
  <2>5. Total(v, s) = Total(v, t)
    BY <1>1, <1>2, <2>2, <2>4, SameBag
  <2> QED BY <2>1, <2>3, <2>5
<1> QED BY <1>3, AlikeByDevices

LEMMA CompareKeepsMatch ==
  ASSUME Readable, MatchInv, Step, Compare
  PROVE  MatchInv'
<1>1. /\ UNCHANGED <<design, placeholder, contents, queue, matched, classhash, pair>>
      /\ pc = "compare" /\ pc' = "decide" /\ verdict' \in Verdicts(pair)
      /\ forced' = IF verdict' = "blackbox" THEN forced \cup {pair} ELSE forced
  BY DEF Compare, hierarchyVars, queueVars
<1>2. TwinsKept /\ HashOK'
  BY <1>1, HashKept DEF MatchInv
<1>3. InProgress /\ InProgress' /\ FlattenOK'
  BY <1>1 DEF InProgress, FlattenOK
<1>4. forced' = {} => forced = {}
  BY <1>1
<1>5. MatchOK'
  <2>1. SUFFICES ASSUME verdict' \notin {"mismatch", "blackbox"}, forced' = {}
                 PROVE  Alike(pair[1], pair[2])'
    BY <1>1 DEF MatchOK
  <2>2. /\ \A s \in File : HasContents(contents, pair[s])
        /\ Classes(pair[1]) = Classes(pair[2])
    BY <1>1, <2>1 DEF Verdicts
  <2>3. pair[1] \in DOMAIN contents /\ pair[2] \in DOMAIN contents
    BY <2>2 DEF HasContents, Instances, File
  <2>4. Alike(pair[1], pair[2])
    BY <1>3, <1>4, <2>1, <2>2, <2>3, ComparedAlike
  <2>5. \A a, b : Alike(a, b) => Alike(a, b)'
    BY <1>1, SettledKept
  <2> QED BY <1>1, <2>4, <2>5
<1> QED BY <1>1, <1>2, <1>3, <1>4, <1>5, Frame

(***************************************************************************)
(* A cell that is flattened everywhere.                                     *)
(***************************************************************************)
LEMMA FlattenedGone ==
  ASSUME NEW ct, Hierarchy(ct), NEW r, Ranking(r, ct, Cell), NEW c \in Cell, Hierarchical(c),
         c \notin placeholder, Closed({x \in Cell : x[2] # c[2]}, ct)
  PROVE  \A p \in DOMAIN ct : Within(FlattenInstancesOf(ct, c)[p], Cell \ {c})
<1>1. SUFFICES ASSUME NEW p \in DOMAIN ct
               PROVE  Within(FlattenInstancesOf(ct, c)[p], Cell \ {c})
  OBVIOUS
<1>2. ListsOf(ct, Cell) /\ ct[p] \in Seq(Cell) /\ p \in Cell
  BY DEF Hierarchy, ListsOf
<1>3. ASSUME c \in DOMAIN ct PROVE Within(ct[c], Cell \ {c})
  <2>1. ct[c] \in Seq(Cell) /\ r \in Weights(Cell) /\ \A i \in DOMAIN ct[c] : r[ct[c][i]] < r[c]
    BY <1>2, <1>3 DEF ListsOf, Ranking
  <2>2. r[c] \in Nat
    BY <2>1 DEF Weights
  <2> QED BY <2>1, <2>2 DEF Within
<1>4. CASE p = c
  BY <1>3, <1>4 DEF FlattenInstancesOf
<1>5. CASE p # c /\ p[2] # c[2]
  <2>1. Within(ct[p], {x \in Cell : x[2] # c[2]})
    BY <1>2, <1>5 DEF Closed
  <2>2. FlattenInstancesOf(ct, c)[p] = ct[p]
    BY <1>5 DEF FlattenInstancesOf
  <2> QED BY <2>1, <2>2 DEF Within
<1>6. CASE p # c /\ p[2] = c[2]
  <2>1. FlattenInstancesOf(ct, c)[p] = flattenInstancesOf(ct, p, c)[p]
    BY <1>6 DEF FlattenInstancesOf
  <2>2. MayFlatten(p, c)
    BY <1>6 DEF MayFlatten
  <2>3. CASE NumFlat(ct, p, c) = 0
    <3>1. Cardinality({i \in DOMAIN ct[p] : ct[p][i] = c}) = 0
      BY <2>2, <2>3 DEF NumFlat, Instances
    <3> DEFINE s == ct[p]
    <3>2. {i \in DOMAIN s : s[i] \in {c}} = {i \in DOMAIN s : s[i] = c}
      OBVIOUS
    <3>3. Total(Ind({c}, Cell), s) = 0
      BY <1>2, <3>1, <3>2, IndCounts
    <3>4. \A i \in DOMAIN s : s[i] \notin {c}
      BY <1>2, <3>3, IndZero
    <3>5. Within(s, Cell \ {c})
      BY <1>2, <3>4 DEF Within
    <3> QED BY <2>1, <2>3, <3>5 DEF flattenInstancesOf
  <2>4. CASE NumFlat(ct, p, c) # 0
    <3>1. flattenInstancesOf(ct, p, c)[p] = Splice(ct[p], {c}, ct)
      BY <2>4 DEF flattenInstancesOf
    <3> DEFINE U == Cell \ {c}
    <3>2. ASSUME NEW i \in DOMAIN ct[p] PROVE Replaced(ct[p][i], {c}, ct, U)
      <4>1. CASE ct[p][i] = c
        <5>1. Within(Instances(ct, c), U)
          BY <1>3 DEF Instances, Within
        <5> QED BY <4>1, <5>1 DEF Replaced
      <4>2. CASE ct[p][i] # c
        BY <1>2, <4>2 DEF Replaced
      <4> QED BY <4>1, <4>2
    <3> HIDE DEF U
    <3>3. Within(Splice(ct[p], {c}, ct), U)
      BY <1>2, <3>2, SpliceWithin
    <3> QED BY <2>1, <3>1, <3>3 DEF U
  <2> QED BY <2>3, <2>4
<1> QED BY <1>4, <1>5, <1>6

LEMMA FlattenPairGone ==
  ASSUME Readable, PairRead, MatchInv, FlattenPair, UNCHANGED design,
         pair[1] \notin placeholder, pair[2] \notin placeholder
  PROVE  Gone(pair[1])' /\ Gone(pair[2])'
<1> DEFINE a == pair[1]
           b == pair[2]
           mt == FlattenInstancesOf(contents, a)
           nt == FlattenInstancesOf(mt, b)
<1>1. contents' = nt /\ UNCHANGED pair /\ a \in DOMAIN contents /\ b \in DOMAIN contents
  BY DEF FlattenPair, PairRead
<1>2. Hierarchy(contents) /\ Readable
  BY ContentsHierarchy
<1>3. a \in Cell /\ b \in Cell /\ Hierarchical(a) /\ Hierarchical(b)
  <2>1. \A c \in DOMAIN AsRead(D) : Hierarchical(c)
    BY DEF AsRead, Hierarchical, Kind
  <2> QED BY <1>1, <1>2, <2>1, ContentsHierarchy DEF Hierarchy
<1>4. a[2] = 1 /\ b[2] = 2
  <2>1. pair = TopPair \/ Twin(pair[1], pair[2])
    BY DEF MatchInv, PairsCorrespond, Waiting, InProgress, FlattenPair
  <2> QED BY <2>1, TopsRead DEF TopPair, Twin, File
<1>5. PICK r : Ranking(r, contents, Cell)
  BY ContentsRanking
<1>6. \A x \in Cell : x[2] \in File
  BY DEF Cell, Cells
<1>7. {x \in Cell : x[2] # a[2]} = {x \in Cell : x[2] = 2} /\ {x \in Cell : x[2] # b[2]} = {x \in Cell : x[2] = 1}
  BY <1>4, <1>6 DEF File
<1>8. Closed({x \in Cell : x[2] # a[2]}, contents) /\ Closed({x \in Cell : x[2] # b[2]}, contents)
  BY <1>7, SameFile
<1> HIDE DEF a, b
<1>9. Flattens(mt, contents, Cell, placeholder)
  BY <1>1, <1>2, FlattenInstancesOfFlattens
<1>10. \A p \in DOMAIN contents : Within(mt[p], Cell \ {a})
  BY <1>2, <1>3, <1>5, <1>8, FlattenedGone DEF a
<1> HIDE DEF mt
<1>11. Hierarchy(mt) /\ b \in DOMAIN mt /\ DOMAIN mt = DOMAIN contents /\ Ranking(r, mt, Cell)
  BY <1>1, <1>2, <1>5, <1>9, FlattensHierarchy DEF Flattens
<1>12. ASSUME NEW U, Closed(U, contents) PROVE Closed(U, mt)
  BY <1>9, <1>12 DEF Flattens, Closed
<1>13. Closed({x \in Cell : x[2] # b[2]}, mt)
  BY <1>8, <1>12
<1>14. Flattens(nt, mt, Cell, placeholder)
  BY <1>11, FlattenInstancesOfFlattens
<1>15. \A p \in DOMAIN mt : Within(nt[p], Cell \ {b})
  BY <1>3, <1>11, <1>13, FlattenedGone DEF b
<1> HIDE DEF nt
<1>16. \A p \in DOMAIN mt : Within(nt[p], Cell \ {a})
  <2>1. Closed(Cell \ {a}, mt)
    BY <1>10, <1>11 DEF Closed
  <2> QED BY <1>10, <1>11, <1>14, <2>1 DEF Flattens
<1>17. Cell' = Cell /\ DOMAIN contents' = DOMAIN mt
  BY <1>1, <1>14 DEF Cell, D, Flattens
<1> QED BY <1>1, <1>15, <1>16, <1>17 DEF Gone, a, b

LEMMA FlattenPairKeepsMatch ==
  ASSUME LvsInv, MatchInv, Step, FlattenPair
  PROVE  MatchInv'
<1>1. /\ UNCHANGED <<design, placeholder, queue, matched, classhash, pair, forced>>
      /\ pc = "flatten class" /\ pc' = "next"
  BY DEF FlattenPair, queueVars, lvsVars
<1>2. Readable /\ PairRead
  BY DEF LvsInv
<1>3. TwinsKept /\ HashOK'
  BY <1>1, HashKept DEF MatchInv
<1>4. InProgress /\ ~InProgress' /\ FlattenOK' /\ MatchOK'
  BY <1>1 DEF InProgress, FlattenOK, MatchOK
<1>5. ASSUME NEW a, NEW b, forced' = {}, pair = <<a, b>> PROVE Settled(a, b)'
  <2>1. \/ pair[1] \notin placeholder /\ pair[2] \notin placeholder
        \/ Alike(pair[1], pair[2])
    BY <1>1, <1>5 DEF MatchInv, FlattenOK
  <2>2. CASE pair[1] \notin placeholder /\ pair[2] \notin placeholder
    <3>1. Gone(pair[1])' /\ Gone(pair[2])'
      BY <1>1, <1>2, <2>2, FlattenPairGone
    <3>2. pair'[1] = a /\ pair'[2] = b
      BY <1>1, <1>5
    <3>3. Gone(a)' /\ Gone(b)'
      BY <3>1, <3>2 DEF Gone
    <3> QED BY <3>3 DEF Settled
  <2>3. CASE Alike(pair[1], pair[2])
    <3>1. Alike(a, b)
      BY <1>5, <2>3
    <3> QED BY <1>1, <1>2, <3>1, SettledKept DEF Settled
  <2> QED BY <2>1, <2>2, <2>3
<1> QED BY <1>1, <1>2, <1>3, <1>4, <1>5, Frame

(***************************************************************************)
(* The queue is made, and a pair is taken from it.                          *)
(***************************************************************************)
LEMMA StartKeepsMatch ==
  ASSUME Readable, MatchInv, Step, StartLvs
  PROVE  MatchInv'
<1> DEFINE q == CreateCompareQueue.queue
           m == CreateCompareQueue.matched
<1>1. /\ queue' = q /\ matched' = m /\ UNCHANGED <<design, contents, classhash, pair, forced>>
      /\ pc = "start" /\ pc' = "next" /\ placeholder' = placeholder \cup {c \in Cell : Noflat(c)}
  BY DEF StartLvs
<1>2. Created(q, m)
  BY QueueCreated DEF MatchInv, HashOK
<1> HIDE DEF q, m
<1>3. TwinsKept /\ HashOK'
  BY <1>1, HashKept DEF MatchInv
<1>4. Cell' = Cell /\ TopPair' = TopPair /\ D' = D
  BY <1>1 DEF Cell, D, Top, TopPair
<1>5. queue = << >> /\ ~InProgress /\ ~InProgress' /\ FlattenOK' /\ MatchOK'
  BY <1>1 DEF MatchInv, QueueEnds, InProgress, FlattenOK, MatchOK
<1>6. TwinsAgree'
  <2>1. ASSUME NEW a, NEW b, Twin(a, b)' PROVE a \in matched' <=> b \in matched'
    <3>1. Twin(a, b)
      BY <1>3, <2>1, TwinSame
    <3> QED BY <1>1, <1>2, <3>1 DEF Created
  <2> QED BY <2>1 DEF TwinsAgree
<1>7. QueueType' /\ QueueEnds' /\ EachPairOnce'
  BY <1>1, <1>2, <1>4, <1>5 DEF Created, QueueType, QueueEnds, EachPairOnce
<1>8. PairsCorrespond'
  <2>1. ASSUME NEW p, Waiting(p)' PROVE (p = TopPair)' \/ Twin(p[1], p[2])'
    <3>1. \E j \in DOMAIN q : q[j] = p
      BY <1>1, <1>5, <2>1 DEF Waiting
    <3>2. p = TopPair \/ Twin(p[1], p[2])
      BY <1>2, <3>1 DEF Created
    <3> QED BY <1>3, <1>4, <3>2, TwinSame
  <2> QED BY <2>1 DEF PairsCorrespond
<1>9. AllReady'
  <2>1. ASSUME NEW j \in DOMAIN queue' PROVE Ready(contents, queue[j], matched, Rest(queue, j))'
    <3>1. Ready(contents, q[j], m, Rest(q, j))
      BY <1>1, <1>2, <2>1 DEF Created
    <3>2. ReadyNext(q[j], m, Rest(q, j))
      BY <1>3, <3>1, ReadyKept
    <3>3. Rest(queue, j)' = Rest(q, j)
      BY <1>1 DEF Rest
    <3>4. PICK s \in File, U \in SUBSET (Cell \ Tops)' :
            /\ Within(Instances(contents', q[j][s]), U) /\ Closed(U, contents')
            /\ \A x, y : Twin(x, y)' /\ (x \in U \/ y \in U)
                 => x \in m /\ y \in m /\ <<x, y>> \notin Rest(q, j)
      BY <3>2 DEF ReadyNext
    <3>5. \A x, y : Twin(x, y)' /\ (x \in U \/ y \in U)
                 => x \in matched' /\ y \in matched' /\ <<x, y>> \notin Rest(queue, j)'
      BY <1>1, <3>3, <3>4
    <3> QED BY <1>1, <3>4, <3>5 DEF Ready
  <2> QED BY <1>5, <2>1 DEF AllReady
<1>10. MatchedSettled'
  <2>1. SUFFICES ASSUME NEW a, NEW b, forced' = {}, Twin(a, b)', a \in matched', ~Waiting(<<a, b>>)'
                 PROVE  Settled(a, b)'
    BY DEF MatchedSettled
  <2>2. Twin(a, b) /\ forced = {}
    BY <1>1, <1>3, <2>1, TwinSame
  <2>3. a \in matched
    BY <1>1, <1>2, <2>1, <2>2 DEF Created, Waiting
  <2>4. ~Waiting(<<a, b>>)
    BY <1>5 DEF Waiting
  <2>5. Settled(a, b)
    BY <2>2, <2>3, <2>4 DEF MatchInv, MatchedSettled
  <2> QED BY <1>1, <2>5, SettledKept
<1>11. OnlyNoflat'
  BY <1>1, <1>4 DEF MatchInv, OnlyNoflat, Noflat, Kind
<1> QED BY <1>3, <1>5, <1>6, <1>7, <1>8, <1>9, <1>10, <1>11 DEF MatchInv

\* What is left of the queue when its head is taken.
LEMMA TailFacts ==
  ASSUME NEW S, NEW q \in Seq(S), q # << >>
  PROVE  /\ Tail(q) \in Seq(S) /\ Len(Tail(q)) = Len(q) - 1 /\ Head(q) = q[1]
         /\ Head(q) \in S
         /\ DOMAIN Tail(q) = 1..(Len(q) - 1)
         /\ \A k \in DOMAIN Tail(q) : k + 1 \in DOMAIN q /\ Tail(q)[k] = q[k + 1]
         /\ \A j \in DOMAIN Tail(q) : Rest(Tail(q), j) = Rest(q, j + 1)
         /\ Rest(Tail(q), 1) \cup {Head(q)} = Rest(q, 1)
<1>1. /\ Tail(q) \in Seq(S) /\ Len(Tail(q)) = Len(q) - 1 /\ Head(q) = q[1] /\ Head(q) \in S
      /\ Len(q) \in Nat /\ Len(q) >= 1 /\ DOMAIN q = 1..Len(q)
  OBVIOUS
<1>2. DOMAIN Tail(q) = 1..(Len(q) - 1)
  BY <1>1
<1>3. ASSUME NEW k \in DOMAIN Tail(q) PROVE k + 1 \in DOMAIN q /\ Tail(q)[k] = q[k + 1]
  BY <1>1, <1>2
<1> DEFINE t == Tail(q)
           L == Len(q)
<1>4. Len(t) = L - 1 /\ L \in Nat /\ L >= 1 /\ DOMAIN t = 1..(L - 1)
      /\ \A k \in 1..(L - 1) : t[k] = q[k + 1]
  BY <1>1, <1>2, <1>3
<1> HIDE DEF t, L
<1>5. ASSUME NEW j \in 1..(L - 1) PROVE Rest(t, j) = {q[k] : k \in (j + 1)..L}
  <2>1. ASSUME NEW k \in j..Len(t) PROVE t[k] \in {q[i] : i \in (j + 1)..L}
    <3>1. k \in 1..(L - 1) /\ k + 1 \in (j + 1)..L
      BY <1>4, <1>5, <2>1
    <3> QED BY <1>4, <3>1
  <2>2. ASSUME NEW k \in (j + 1)..L PROVE q[k] \in {t[i] : i \in j..Len(t)}
    <3>1. k - 1 \in j..Len(t) /\ k - 1 \in 1..(L - 1) /\ (k - 1) + 1 = k
      BY <1>4, <1>5, <2>2
    <3>2. t[k - 1] = q[k]
      BY <1>4, <3>1
    <3> QED BY <3>1, <3>2
  <2> QED BY <2>1, <2>2 DEF Rest
<1>6. Rest(t, 1) \cup {q[1]} = {q[k] : k \in 1..L}
  <2>1. ASSUME NEW k \in 1..Len(t) PROVE t[k] \in {q[i] : i \in 1..L}
    <3>1. k \in 1..(L - 1) /\ k + 1 \in 1..L
      BY <1>4, <2>1
    <3> QED BY <1>4, <3>1
  <2>2. ASSUME NEW k \in 1..L, k # 1 PROVE q[k] \in {t[i] : i \in 1..Len(t)}
    <3>1. k - 1 \in 1..Len(t) /\ k - 1 \in 1..(L - 1) /\ (k - 1) + 1 = k
      BY <1>4, <2>2
    <3>2. t[k - 1] = q[k]
      BY <1>4, <3>1
    <3> QED BY <3>1, <3>2
  <2>3. 1 \in 1..L
    BY <1>4
  <2> QED BY <2>1, <2>2, <2>3 DEF Rest
<1> QED BY <1>1, <1>2, <1>3, <1>5, <1>6 DEF t, L, Rest

LEMMA GetKeepsMatch ==
  ASSUME Readable, MatchInv, Step, GetCompareQueueTop
  PROVE  MatchInv'
<1>1. /\ pair' = Head(queue) /\ queue' = Tail(queue) /\ queue # << >>
      /\ UNCHANGED <<design, contents, placeholder, matched, classhash, forced>>
      /\ pc = "next" /\ pc' \in {"flatten", "compare"}
  BY DEF GetCompareQueueTop, NotTop, hierarchyVars, lvsVars
<1>2. TwinsKept /\ HashOK'
  BY <1>1, HashKept DEF MatchInv
<1>3. Cell' = Cell /\ TopPair' = TopPair /\ D' = D
  BY <1>1 DEF Cell, D, Top, TopPair
<1>4. ~InProgress /\ InProgress' /\ FlattenOK' /\ MatchOK'
  BY <1>1 DEF InProgress, FlattenOK, MatchOK
<1>5. queue \in Seq(Cell \X Cell)
  BY DEF MatchInv, QueueType
<1> DEFINE t == Tail(queue)
           h == Head(queue)
<1>6. /\ t \in Seq(Cell \X Cell) /\ Len(t) = Len(queue) - 1 /\ h = queue[1] /\ h \in Cell \X Cell
      /\ DOMAIN t = 1..(Len(queue) - 1)
      /\ \A k \in DOMAIN t : k + 1 \in DOMAIN queue /\ t[k] = queue[k + 1]
      /\ \A j \in DOMAIN t : Rest(t, j) = Rest(queue, j + 1)
      /\ Rest(t, 1) \cup {h} = Rest(queue, 1)
  BY <1>1, <1>5, TailFacts
<1>7. Len(queue) \in Nat /\ Len(queue) >= 1 /\ DOMAIN queue = 1..Len(queue) /\ 1 \in DOMAIN queue
  BY <1>1, <1>5
<1>8. queue' = t /\ pair' = h
  BY <1>1
<1> HIDE DEF t, h
<1>9. TwinsAgree'
  <2>1. ASSUME NEW a, NEW b, Twin(a, b)' PROVE a \in matched' <=> b \in matched'
    <3>1. Twin(a, b)
      BY <1>2, <2>1, TwinSame
    <3> QED BY <1>1, <3>1 DEF MatchInv, TwinsAgree
  <2> QED BY <2>1 DEF TwinsAgree
<1>10. QueueType'
  BY <1>3, <1>6, <1>8 DEF QueueType
<1>11. QueueEnds'
  <2>1. queue[Len(queue)] = TopPair
    BY <1>1 DEF MatchInv, QueueEnds
  <2>2. CASE Len(queue) = 1
    <3>1. t = << >> /\ h = TopPair
      BY <1>6, <2>1, <2>2
    <3> QED BY <1>1, <1>3, <1>8, <3>1 DEF QueueEnds
  <2>3. CASE Len(queue) # 1
    <3>1. Len(t) \in DOMAIN t /\ Len(t) + 1 = Len(queue) /\ t # << >>
      BY <1>6, <1>7, <2>3
    <3>2. t[Len(t)] = TopPair
      BY <1>6, <2>1, <3>1
    <3> QED BY <1>1, <1>3, <1>8, <3>1, <3>2 DEF QueueEnds
  <2> QED BY <2>2, <2>3
<1>12. EachPairOnce'
  <2>1. ASSUME NEW i \in DOMAIN t, NEW j \in DOMAIN t, t[i] = t[j] PROVE i = j
    <3>1. i + 1 \in DOMAIN queue /\ j + 1 \in DOMAIN queue /\ queue[i + 1] = queue[j + 1]
      BY <1>6, <2>1
    <3>2. i + 1 = j + 1
      BY <3>1 DEF MatchInv, EachPairOnce
    <3> QED BY <1>6, <1>7, <3>2
  <2> QED BY <1>8, <2>1 DEF EachPairOnce
<1>13. ASSUME NEW p PROVE Waiting(p)' <=> Waiting(p)
  <2>1. Waiting(p) <=> \E k \in DOMAIN queue : queue[k] = p
    BY <1>4 DEF Waiting
  <2>2. Waiting(p)' <=> (\E k \in DOMAIN t : t[k] = p) \/ p = h
    BY <1>4, <1>8 DEF Waiting
  <2>3. ASSUME NEW k \in DOMAIN queue, queue[k] = p PROVE (\E i \in DOMAIN t : t[i] = p) \/ p = h
    <3>1. CASE k = 1
      BY <1>6, <2>3, <3>1
    <3>2. CASE k # 1
      <4>1. k - 1 \in DOMAIN t /\ (k - 1) + 1 = k
        BY <1>6, <1>7, <3>2
      <4>2. t[k - 1] = p
        BY <1>6, <2>3, <4>1
      <4> QED BY <4>1, <4>2
    <3> QED BY <3>1, <3>2
  <2>4. (\E k \in DOMAIN t : t[k] = p) \/ p = h => \E k \in DOMAIN queue : queue[k] = p
    BY <1>6, <1>7
  <2> QED BY <2>1, <2>2, <2>3, <2>4
<1>14. PairsCorrespond'
  <2>1. ASSUME NEW p, Waiting(p)' PROVE (p = TopPair)' \/ Twin(p[1], p[2])'
    <3>1. p = TopPair \/ Twin(p[1], p[2])
      BY <1>13, <2>1 DEF MatchInv, PairsCorrespond
    <3> QED BY <1>2, <1>3, <3>1, TwinSame
  <2> QED BY <2>1 DEF PairsCorrespond
<1>15. ASSUME NEW k \in DOMAIN queue PROVE ReadyNext(queue[k], matched, Rest(queue, k))
  <2>1. Ready(contents, queue[k], matched, Rest(queue, k))
    BY DEF MatchInv, AllReady
  <2> QED BY <1>2, <2>1, ReadyKept
<1>16. AllReady'
  <2>1. ASSUME NEW j \in DOMAIN queue' PROVE Ready(contents, queue[j], matched, Rest(queue, j))'
    <3>1. j \in DOMAIN t /\ j + 1 \in DOMAIN queue /\ t[j] = queue[j + 1] /\ Rest(t, j) = Rest(queue, j + 1)
      BY <1>6, <1>8, <2>1
    <3>2. ReadyNext(t[j], matched, Rest(t, j))
      BY <1>15, <3>1
    <3>3. Rest(queue, j)' = Rest(t, j)
      BY <1>8 DEF Rest
    <3>4. PICK s \in File, U \in SUBSET (Cell \ Tops)' :
            /\ Within(Instances(contents', t[j][s]), U) /\ Closed(U, contents')
            /\ \A x, y : Twin(x, y)' /\ (x \in U \/ y \in U)
                 => x \in matched /\ y \in matched /\ <<x, y>> \notin Rest(t, j)
      BY <3>2 DEF ReadyNext
    <3>5. \A x, y : Twin(x, y)' /\ (x \in U \/ y \in U)
                 => x \in matched' /\ y \in matched' /\ <<x, y>> \notin Rest(queue, j)'
      BY <1>1, <3>3, <3>4
    <3> QED BY <1>8, <3>4, <3>5 DEF Ready
  <2>2. Ready(contents, pair, matched, Rest(queue, 1) \cup {pair})'
    <3>1. ReadyNext(h, matched, Rest(t, 1) \cup {h})
      BY <1>6, <1>7, <1>15
    <3>2. (Rest(queue, 1) \cup {pair})' = Rest(t, 1) \cup {h}
      BY <1>8 DEF Rest
    <3>3. PICK s \in File, U \in SUBSET (Cell \ Tops)' :
            /\ Within(Instances(contents', h[s]), U) /\ Closed(U, contents')
            /\ \A x, y : Twin(x, y)' /\ (x \in U \/ y \in U)
                 => x \in matched /\ y \in matched /\ <<x, y>> \notin Rest(t, 1) \cup {h}
      BY <3>1 DEF ReadyNext
    <3>4. \A x, y : Twin(x, y)' /\ (x \in U \/ y \in U)
                 => x \in matched' /\ y \in matched' /\ <<x, y>> \notin (Rest(queue, 1) \cup {pair})'
      BY <1>1, <3>2, <3>3
    <3> QED BY <1>8, <3>3, <3>4 DEF Ready
  <2> QED BY <2>1, <2>2 DEF AllReady
<1>17. MatchedSettled'
  <2>1. SUFFICES ASSUME NEW a, NEW b, forced' = {}, Twin(a, b)', a \in matched', ~Waiting(<<a, b>>)'
                 PROVE  Settled(a, b)'
    BY DEF MatchedSettled
  <2>2. Twin(a, b) /\ forced = {} /\ a \in matched /\ ~Waiting(<<a, b>>)
    BY <1>1, <1>2, <1>13, <2>1, TwinSame
  <2>3. Settled(a, b)
    BY <2>2 DEF MatchInv, MatchedSettled
  <2> QED BY <1>1, <2>3, SettledKept
<1>18. OnlyNoflat'
  BY <1>1, <1>3 DEF MatchInv, OnlyNoflat, Noflat, Kind
<1> QED BY <1>2, <1>4, <1>9, <1>10, <1>11, <1>12, <1>14, <1>16, <1>17, <1>18 DEF MatchInv

LEMMA MatchInit ==
  ASSUME \A d \in DOMAIN Designs : ClassesApart(Designs[d]), Init
  PROVE  MatchInv
<1>1. /\ design \in DOMAIN Designs /\ placeholder \subseteq {c \in Cell : Kind(c) = "module"}
      /\ queue = << >> /\ matched = {}
      /\ classhash = InitialHash(D) /\ pc = "start" /\ forced = {}
  BY DEF Init, InitHierarchy, InitQueue
<1>2. ClassesApart(D)
  BY <1>1 DEF D
<1>3. classhash = [c \in Cell |-> classhash[c]]
  BY <1>1 DEF InitialHash, Cell
<1>4. Apart
  <2>1. SUFFICES ASSUME NEW c \in Cell, NEW e \in Cell, classhash[c] = classhash[e]
                 PROVE  /\ c[2] = e[2] => c = e
                        /\ Hierarchical(c) <=> Hierarchical(e)
                        /\ ~Hierarchical(c) => c[1] = e[1]
                        /\ c \in Tops => e \in Tops
    BY DEF Apart
  <2>2. c \in Cells(D) /\ e \in Cells(D) /\ InitialHash(D)[c] = InitialHash(D)[e]
    BY <1>1, <2>1 DEF Cell
  <2>3. \A x : KindIn(D, x) = "device" <=> ~Hierarchical(x)
    BY DEF KindIn, Hierarchical, Kind
  <2>4. {<<D.top[f], f>> : f \in File} = Tops
    BY DEF File, Tops, Top
  <2>5. /\ c[2] = e[2] => c = e
        /\ KindIn(D, c) = "device" <=> KindIn(D, e) = "device"
        /\ KindIn(D, c) = "device" => c[1] = e[1]
        /\ c \in {<<D.top[f], f>> : f \in File} => e \in {<<D.top[f], f>> : f \in File}
    BY <1>2, <2>2 DEF ClassesApart
  <2> QED BY <2>3, <2>4, <2>5
<1>5. ~InProgress
  BY <1>1 DEF InProgress
<1>6. TwinsAgree /\ MatchedSettled
  BY <1>1 DEF TwinsAgree, MatchedSettled
<1>7. QueueType /\ QueueEnds /\ PairsCorrespond /\ EachPairOnce /\ AllReady
  BY <1>1, <1>5 DEF QueueType, QueueEnds, PairsCorrespond, EachPairOnce, AllReady, Waiting
<1>8. OnlyNoflat /\ FlattenOK /\ MatchOK
  BY <1>1 DEF OnlyNoflat, FlattenOK, MatchOK
<1> QED BY <1>3, <1>4, <1>6, <1>7, <1>8 DEF MatchInv, HashOK

LEMMA MatchNext ==
  ASSUME LvsInv, MatchInv, [Next]_vars
  PROVE  MatchInv'
<1>1. Readable /\ Step
  BY NextFlattens DEF LvsInv
<1>2. CASE FlattenBoth \/ PrematchStep \/ PrematchEnd
  BY <1>1, <1>2, FlattenKeepsMatch
<1>3. CASE EndLvs \/ Again
  BY <1>1, <1>3, EndKeepsMatch
<1>4. CASE UNCHANGED vars
  BY <1>1, <1>4, StutterKeepsMatch
<1>5. CASE \E r \in IF D.agree THEN {1} ELSE PinResults : Decide(r)
  BY <1>1, <1>5, DecideKeepsMatch DEF LvsInv
<1>6. CASE FlattenPair
  BY <1>1, <1>6, FlattenPairKeepsMatch
<1>7. CASE Compare
  BY <1>1, <1>7, CompareKeepsMatch
<1>8. CASE StartLvs
  BY <1>1, <1>8, StartKeepsMatch
<1>9. CASE GetCompareQueueTop
  BY <1>1, <1>9, GetKeepsMatch
<1> QED BY <1>2, <1>3, <1>4, <1>5, <1>6, <1>7, <1>8, <1>9 DEF Next

LEMMA MatchInvariant ==
  ASSUME \A d \in DOMAIN Designs : ClassesApart(Designs[d])
  PROVE  Spec => [](LvsInv /\ MatchInv)
<1>1. Init => MatchInv
  BY MatchInit
<1>2. LvsInv /\ MatchInv /\ [Next]_vars => MatchInv'
  BY MatchNext
<1> QED BY <1>1, <1>2, LvsInvariant, PTL DEF Spec

(***************************************************************************)
(* No false match, at any level: for any designs whose class hashes tell    *)
(* cells apart, whatever the comparisons of nets and pins come to, in       *)
(* however many calls, two cells that match come down to the same devices,  *)
(* unless black boxes were declared on the way.                             *)
(***************************************************************************)
THEOREM MatchesAreTheSame ==
  ASSUME \A d \in DOMAIN Designs : ClassesApart(Designs[d])
  PROVE  Spec => []MatchIsSame
<1>1. ASSUME MatchInv, PrimitivesKept PROVE MatchIsSame
  <2>1. SUFFICES ASSUME pc = "decide", verdict \notin {"mismatch", "blackbox"}, forced = {}
                 PROVE  Primitives(contents, pair[1]) = Primitives(contents, pair[2])
    BY DEF MatchIsSame
  <2>2. Alike(pair[1], pair[2])
    BY <1>1, <2>1 DEF MatchInv, MatchOK
  <2> QED BY <1>1, <2>2 DEF Alike, PrimitivesKept
<1> QED BY <1>1, MatchInvariant, FlatteningKeepsDevices, PTL

(***************************************************************************)
(* Bottom up: under the same assumption, no pair is queued twice, and when  *)
(* a pair is taken from the queue, no pair that is still queued is a part   *)
(* of both of its cells (CreateCompareQueue, DescendCompareQueue).          *)
(***************************************************************************)
THEOREM QueueIsBottomUp ==
  ASSUME \A d \in DOMAIN Designs : ClassesApart(Designs[d])
  PROVE  Spec => QueueSound
<1>1. ASSUME LvsInv, MatchInv, [Next]_vars
      PROVE  /\ EachPairOnce'
             /\ \A p \in ToSet(queue') : pair' # pair =>
                  ~(/\ p[1] \in ToSet(Instances(contents, pair'[1]))
                    /\ p[2] \in ToSet(Instances(contents, pair'[2])))
  <2>1. EachPairOnce'
    BY <1>1, MatchNext DEF MatchInv
  <2>2. SUFFICES ASSUME pair' # pair, NEW p \in ToSet(queue'),
                        p[1] \in ToSet(Instances(contents, pair'[1])),
                        p[2] \in ToSet(Instances(contents, pair'[2]))
                 PROVE  FALSE
    BY <2>1
  <2>3. GetCompareQueueTop
    BY <1>1, <2>2 DEF Next, vars, hierarchyVars, queueVars, StartLvs, FlattenBoth, PrematchStep,
       PrematchEnd, Compare, Decide, FlattenPair, EndLvs, Again
  <2>4. queue # << >> /\ pair' = Head(queue) /\ queue' = Tail(queue) /\ queue \in Seq(Cell \X Cell)
    BY <1>1, <2>3 DEF GetCompareQueueTop, NotTop, MatchInv, QueueType
  <2>5. /\ Head(queue) = queue[1] /\ 1 \in DOMAIN queue
        /\ \A k \in DOMAIN Tail(queue) : k + 1 \in DOMAIN queue /\ Tail(queue)[k] = queue[k + 1]
        /\ \A k \in DOMAIN queue : queue[k] \in Rest(queue, 1) /\ queue[k] \in Cell \X Cell
    <3>1. \A k \in DOMAIN Tail(queue) : k + 1 \in DOMAIN queue /\ Tail(queue)[k] = queue[k + 1]
      BY <2>4, TailFacts
    <3>2. \A k \in DOMAIN queue : queue[k] \in Rest(queue, 1)
      BY <2>4 DEF Rest
    <3> QED BY <2>4, <3>1, <3>2
  <2>6. PICK k \in DOMAIN queue : queue[k] = p
    BY <2>2, <2>4, <2>5 DEF ToSet
  <2>7. p = TopPair \/ Twin(p[1], p[2])
    BY <1>1, <2>6 DEF MatchInv, PairsCorrespond, Waiting
  <2>8. p = <<p[1], p[2]>> /\ p \in Rest(queue, 1)
    BY <2>5, <2>6
  <2>9. Ready(contents, queue[1], matched, Rest(queue, 1))
    BY <1>1, <2>5 DEF MatchInv, AllReady
  <2>10. PICK s \in File, U \in SUBSET (Cell \ Tops) :
           /\ Within(Instances(contents, queue[1][s]), U)
           /\ \A x, y : Twin(x, y) /\ (x \in U \/ y \in U) => <<x, y>> \notin Rest(queue, 1)
    BY <2>9 DEF Ready
  <2>11. p[1] \in U \/ p[2] \in U
    <3>1. CASE s = 1
      BY <2>2, <2>4, <2>5, <2>10, <3>1 DEF Within, ToSet
    <3>2. CASE s = 2
      BY <2>2, <2>4, <2>5, <2>10, <3>2 DEF Within, ToSet
    <3> QED BY <3>1, <3>2 DEF File
  <2>12. CASE p = TopPair
    BY <2>10, <2>11, <2>12 DEF TopPair, Tops
  <2>13. CASE Twin(p[1], p[2])
    BY <2>8, <2>10, <2>11, <2>13
  <2> QED BY <2>7, <2>12, <2>13
<1> QED BY <1>1, MatchInvariant, PTL DEF Spec, QueueSound

(***************************************************************************)
(* The answer.                                                              *)
(***************************************************************************)
\* Every cell that is not a device has devices in it, however deep: none is a black box.
HasDevices(d) ==
  \A c \in Cells(d) : KindIn(d, c) # "device" =>
    c \in DOMAIN AsRead(d) /\ DOMAIN Primitives(AsRead(d), c) # {}

\* One call of lvs; only a prohibited cell is compared as a black box; the answer comes
\* last; and when the pair at the end of the queue matched, its cells are alike.
AnswerInv ==
  /\ pc \in Places /\ runs \in {0, 1}
  /\ pc = "start" <=> runs = 0
  /\ answer # "none" => pc = "done"
  /\ pc # "start" /\ forced # {} => childMismatch
  /\ pc = "start" => forced = {}
  /\ pc = "decide" => verdict # "blackbox"
  /\ pc = "flatten class" => queue # << >>
  /\ pc = "next" /\ queue = << >> /\ ~childMismatch /\ verdict # "mismatch" =>
       Alike(Top(1), Top(2))

LEMMA PairHasContents ==
  ASSUME Readable, MatchInv, InProgress, HasDevices(D), NEW s \in File
  PROVE  HasContents(contents, pair[s])
<1>1. pair = TopPair \/ Twin(pair[1], pair[2])
  BY DEF MatchInv, PairsCorrespond, Waiting
<1>2. DOMAIN contents = DOMAIN AsRead(D) /\ ListsOf(contents, Cell)
  BY ContentsHierarchy DEF Hierarchy
<1>3. pair[s] \in DOMAIN contents /\ pair[s] \in Cell /\ DOMAIN Primitives(AsRead(D), pair[s]) # {}
  <2>1. pair[s] \in Cell /\ Hierarchical(pair[s])
    <3>1. \A c \in DOMAIN AsRead(D) : Hierarchical(c)
      BY DEF AsRead, Hierarchical, Kind
    <3>2. \A f \in File : Top(f) \in Cell /\ Hierarchical(Top(f))
      BY <1>2, <3>1, TopsRead
    <3> QED BY <1>1, <3>2 DEF TopPair, Twin, File
  <2>2. KindIn(D, pair[s]) # "device"
    BY <2>1 DEF Hierarchical, Kind
  <2> QED BY <1>2, <2>1, <2>2 DEF HasDevices, Cell
<1> DEFINE c == pair[s]
<1> HIDE DEF c
<1>4. PICK n : n \in DOMAIN Primitives(AsRead(D), c)
  BY <1>3 DEF c
<1>5. n \in LeafNames(AsRead(D), c)
  BY <1>4 DEF Primitives, LeafNames, Leaves
<1>6. PICK v : Devices(v, n)
  BY DevicesExist
<1>7. v[c] # 0
  <2>1. CountedBy(v, AsRead(D), c, n)
    BY <1>3, <1>6, DevicesCounted DEF c
  <2> QED BY <1>5, <2>1 DEF CountedBy
<1>8. v \in Weights(Cell) /\ v[c] = Total(v, contents[c])
  <2>1. Valuation(v, contents, Cell)
    BY <1>6 DEF Devices, Readable, Flattens
  <2> QED BY <1>3, <2>1 DEF Valuation, c
<1>9. contents[c] # << >>
  BY <1>7, <1>8, SumEmpty
<1> QED BY <1>3, <1>9 DEF HasContents, Instances, c

LEMMA AnswerInit ==
  ASSUME Init
  PROVE  AnswerInv
  BY DEF Init, InitQueue, AnswerInv, Places

LEMMA AnswerNext ==
  ASSUME LvsInv, MatchInv, AnswerInv, [Next]_vars, HasDevices(D), D.calls <= 1, D.calls \in Nat
  PROVE  AnswerInv'
<1>1. Readable /\ Step /\ UNCHANGED design
  BY NextFlattens DEF LvsInv
<1>2. \A a, b : Alike(a, b) => Alike(a, b)'
  BY <1>1, SettledKept
<1>3. Top(1)' = Top(1) /\ Top(2)' = Top(2)
  BY <1>1 DEF Top, D
<1>4. ASSUME Alike(Top(1), Top(2)) PROVE Alike(Top(1), Top(2))'
  <2>1. \A a, b : a = Top(1) /\ b = Top(2) => Alike(a, b)'
    BY <1>2, <1>4
  <2>2. \A a, b : a = Top(1) /\ b = Top(2) /\ Alike(a, b)' => Alike(Top(1), Top(2))'
    BY <1>3 DEF Alike
  <2> QED BY <2>1, <2>2
<1>5. CASE UNCHANGED vars
  BY <1>4, <1>5 DEF vars, hierarchyVars, queueVars, lvsVars, AnswerInv, Places
<1>6. CASE FlattenBoth \/ PrematchStep \/ PrematchEnd
  BY <1>6 DEF FlattenBoth, PrematchStep, PrematchEnd, queueVars, lvsVars, AnswerInv, Places
<1>7. CASE FlattenPair
  BY <1>7 DEF FlattenPair, queueVars, lvsVars, AnswerInv, Places
<1>8. CASE StartLvs
  <2>1. Created(CreateCompareQueue.queue, CreateCompareQueue.matched)
    BY <1>1, QueueCreated DEF MatchInv, HashOK
  <2>2. queue' # << >>
    BY <1>8, <2>1 DEF StartLvs, Created
  <2> QED BY <1>8, <2>2 DEF StartLvs, AnswerInv, Places
<1>9. CASE GetCompareQueueTop
  BY <1>9 DEF GetCompareQueueTop, hierarchyVars, lvsVars, AnswerInv, Places
<1>10. CASE Compare
  <2>1. \A s \in File : HasContents(contents, pair[s])
    BY <1>1, <1>10, PairHasContents DEF Compare, InProgress
  <2>2. verdict' # "blackbox"
    <3>1. verdict' \in Verdicts(pair) /\ ~\E s \in File : ~HasContents(contents, pair[s])
      BY <1>10, <2>1 DEF Compare
    <3>2. "blackbox" \notin Outcomes
      BY LvsAssumption DEF AllOutcomes
    <3> QED BY <3>1, <3>2 DEF Verdicts
  <2> QED BY <1>10, <2>2 DEF Compare, hierarchyVars, queueVars, AnswerInv, Places
<1>11. CASE \E r \in IF D.agree THEN {1} ELSE PinResults : Decide(r)
  <2>1. PICK r : Decide(r)
    BY <1>11
  <2>2. /\ UNCHANGED <<queue, verdict, answer, runs, contents, pair>> /\ pc = "decide"
        /\ pc' = IF DoFlatten(r) THEN "flatten class" ELSE "next"
        /\ forced' = IF ForceMatch THEN forced \cup {pair} ELSE forced
        /\ childMismatch' = (childMismatch \/ Prohibited)
    BY <2>1 DEF Decide
  <2>3. forced' # {} => childMismatch'
    <3>1. verdict # "blackbox"
      BY <2>2 DEF AnswerInv
    <3> QED BY <2>2, <3>1 DEF AnswerInv, ForceMatch
  <2>4. pc' = "flatten class" => queue' # << >>
    BY <2>2 DEF DoFlatten, NotTop
  <2>5. ASSUME queue' = << >>, ~childMismatch', verdict' # "mismatch"
        PROVE  Alike(Top(1), Top(2))'
    <3>1. forced = {}
      BY <2>2, <2>5 DEF AnswerInv
    <3>2. verdict # "blackbox" /\ verdict # "mismatch"
      BY <2>2, <2>5 DEF AnswerInv
    <3>3. Alike(pair[1], pair[2])
      BY <2>2, <3>1, <3>2 DEF MatchInv, MatchOK
    <3>4. pair = TopPair
      BY <2>2, <2>5 DEF MatchInv, QueueEnds, InProgress
    <3>5. pair[1] = Top(1) /\ pair[2] = Top(2)
      BY <3>4 DEF TopPair
    <3> QED BY <1>4, <3>3, <3>5
  <2> QED BY <2>2, <2>3, <2>4, <2>5 DEF AnswerInv, Places
<1>12. CASE EndLvs
  BY <1>12 DEF EndLvs, hierarchyVars, queueVars, AnswerInv, Places
<1>13. CASE Again
  BY <1>13 DEF Again, AnswerInv, Places
<1> QED BY <1>5, <1>6, <1>7, <1>8, <1>9, <1>10, <1>11, <1>12, <1>13 DEF Next

(***************************************************************************)
(* One call of the procedure answers at most once, and answers "match" only *)
(* of circuits that come down to the same devices: the safety of LvsPromise, *)
(* for designs whose class hashes tell cells apart and where no cell is a   *)
(* black box or comes down to nothing.                                      *)
(***************************************************************************)
THEOREM AnswerIsTrue ==
  ASSUME \A d \in DOMAIN Designs :
           /\ ClassesApart(Designs[d]) /\ HasDevices(Designs[d])
           /\ Designs[d].calls = 1
  PROVE  Spec => Promise!Init /\ [][Promise!Next]_(Promise!vars)
<1>1. Init => AnswerInv /\ Promise!Init
  BY AnswerInit DEF Init, InitHierarchy, Promise!Init
<1>2. ASSUME LvsInv PROVE HasDevices(D) /\ D.calls <= 1 /\ D.calls \in Nat
  <2>1. design \in DOMAIN Designs
    BY <1>2 DEF LvsInv, Readable
  <2> QED BY <2>1 DEF D
<1>3. LvsInv /\ MatchInv /\ AnswerInv /\ [Next]_vars => AnswerInv'
  BY <1>2, AnswerNext
<1>4. ASSUME LvsInv, MatchInv, AnswerInv, [Next]_vars
      PROVE  [Promise!Next]_(Promise!vars)
  <2>1. UNCHANGED design
    BY <1>4, NextFlattens
  <2>2. CASE EndLvs
    <3>1. pc = "next" /\ queue = << >> /\ answer' = FinalResult /\ answer = "none"
      BY <1>4, <2>2 DEF EndLvs, NotTop, AnswerInv
    <3>2. ASSUME answer' = "match" PROVE design \in SameDesigns
      <4>1. ~childMismatch /\ verdict # "mismatch"
        BY <3>1, <3>2 DEF FinalResult
      <4>2. Alike(Top(1), Top(2))
        BY <1>4, <3>1, <4>1 DEF AnswerInv
      <4>3. Primitives(AsRead(D), Top(1)) = Primitives(AsRead(D), Top(2))
        BY <4>2 DEF Alike
      <4>4. SameDevices(D) /\ design \in DOMAIN Designs
        BY <1>4, <4>3 DEF SameDevices, Top, LvsInv, Readable
      <4> QED BY <4>4 DEF SameDesigns, D
    <3>3. answer' \in {"match", "fail", "unchecked"}
      BY <3>1 DEF FinalResult
    <3>4. Promise!Answer(answer')
      BY <2>1, <3>1, <3>2 DEF Promise!Answer
    <3> QED BY <3>3, <3>4 DEF Promise!Next
  <2>3. CASE ~EndLvs
    <3>1. UNCHANGED answer
      BY <1>4, <2>3 DEF Next, vars, lvsVars, StartLvs, GetCompareQueueTop, FlattenBoth,
         PrematchStep, PrematchEnd, Compare, Decide, FlattenPair, Again
    <3> QED BY <2>1, <3>1 DEF Promise!vars
  <2> QED BY <2>2, <2>3
<1>5. \A d \in DOMAIN Designs : ClassesApart(Designs[d])
  OBVIOUS
<1>6. Spec => [](LvsInv /\ MatchInv)
  BY <1>5, MatchInvariant
<1> QED BY <1>1, <1>3, <1>4, <1>6, PTL DEF Spec
=============================================================================
