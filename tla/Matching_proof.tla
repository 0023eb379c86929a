--------------------------- MODULE Matching_proof ---------------------------
(***************************************************************************)
(* The verdict of the comparison is right.  When the exhaustive iterations  *)
(* of `run' end by themselves, the classes are stable (ConvergedIsStable).  *)
(* A match that is reported as unique is a matching of the circuits         *)
(* (UniqueIsMatching).                                                      *)
(*                                                                          *)
(* Iterate hashes the elements by the old classes of the nets and the nets  *)
(* by the new classes of the elements, so that only the nets follow the     *)
(* elements after each iteration.  That the elements follow the nets as     *)
(* well takes the test of Iterate, which compares numbers of classes: a     *)
(* partition that was only split and has as many classes is the same.       *)
(*                                                                          *)
(* The iterations end with nets of one class that have the same pins, on    *)
(* devices of the same classes.  When every class is a pair, the classes    *)
(* are a bijection of the devices and one of the nets, and the same pins on *)
(* the same classes are the same terminals of corresponding devices.        *)
(***************************************************************************)
EXTENDS Refinement_proof, FunctionTheorems

(***************************************************************************)
(* Counting classes.                                                        *)
(***************************************************************************)
\* Classes that were split into as many as before were not split.
LEMMA SameCount ==
  ASSUME NEW X, IsFiniteSet(X), NEW L, NEW M, ListOK(L, X), ListOK(M, X), Splits(L, M),
         Cardinality(M.classes) = Cardinality(L.classes)
  PROVE  Partition(M) = Partition(L)
<1>1. /\ L.classes \subseteq [members : SUBSET X, legal : BOOLEAN]
      /\ M.classes \subseteq [members : SUBSET X, legal : BOOLEAN]
      /\ UNION {D.members : D \in L.classes} = X
      /\ UNION {C.members : C \in M.classes} = X
      /\ \A D \in L.classes : D.members # {}
      /\ \A C \in M.classes : C.members # {}
      /\ \A C, D \in L.classes : C.members \cap D.members # {} => C = D
  BY DEF ListOK, ClassesOK
<1>2. \A C \in M.classes : \E D \in L.classes : C.members \subseteq D.members
  BY DEF Splits, Partition
<1> DEFINE whole == [C \in M.classes |-> CHOOSE D \in L.classes : C.members \subseteq D.members]
<1>3. \A C \in M.classes : whole[C] \in L.classes /\ C.members \subseteq whole[C].members
  BY <1>2
<1>4. ASSUME NEW D \in L.classes, NEW x \in D.members, NEW C \in M.classes, x \in C.members
      PROVE  whole[C] = D
  BY <1>1, <1>3, <1>4
<1>5. ASSUME NEW D \in L.classes, NEW x \in D.members
      PROVE  \E C \in M.classes : x \in C.members /\ whole[C] = D
  <2>1. x \in X
    BY <1>1
  <2>2. PICK C \in M.classes : x \in C.members
    BY <1>1, <2>1
  <2> QED BY <1>4, <2>2
<1>6. \A D \in L.classes : \E C \in M.classes : whole[C] = D
  <2> HIDE DEF whole
  <2> QED BY <1>1, <1>5
<1>7. whole \in Surjection(M.classes, L.classes)
  <2>1. whole \in [M.classes -> L.classes]
    BY <1>3
  <2> HIDE DEF whole
  <2> QED BY <1>6, <2>1 DEF Surjection
<1>8. IsFiniteSet(L.classes) /\ IsFiniteSet(M.classes)
  BY <1>1, ClassesFinite
<1>9. \A B, C \in M.classes : whole[B] = whole[C] => B = C
  <2>1. whole \in Injection(M.classes, L.classes)
    <3> HIDE DEF whole
    <3> QED BY <1>7, <1>8, FS_SurjSameCardinalityImpliesInj
  <2> HIDE DEF whole
  <2> QED BY <2>1 DEF Injection, IsInjective
<1> HIDE DEF whole
<1>10. \A C \in M.classes : C.members = whole[C].members
  <2> SUFFICES ASSUME NEW C \in M.classes, NEW x \in whole[C].members PROVE x \in C.members
    BY <1>3
  <2>1. PICK B \in M.classes : x \in B.members /\ whole[B] = whole[C]
    BY <1>3, <1>5
  <2> QED BY <1>9, <2>1
<1> QED BY <1>3, <1>6, <1>10 DEF Partition

(***************************************************************************)
(* Classes and the data they were made by.                                  *)
(***************************************************************************)
\* After every class was fractured, the data of all members of a legal class are equal.
LEMMA FracturedAlike ==
  ASSUME NEW L, NEW key, NEW C \in Fracture(Rehash(L, key), TRUE).classes, C.legal,
         NEW x \in C.members, NEW y \in C.members
  PROVE  key[x] = key[y]
<1> DEFINE K == Rehash(L, key)
<1>1. K.hash = Hashed(key)
  BY DEF Rehash
<1>2. PICK D \in K.classes : C \in MakeList(D.members, Hashed(key))
  <2>1. Fractured(K, TRUE) = K.classes
    BY DEF Fractured
  <2>2. C \in FracturedClasses(K, TRUE)
    BY DEF Fracture
  <2> HIDE DEF K
  <2> QED BY <1>1, <2>1, <2>2 DEF FracturedClasses
<1>3. PICK g \in Groups(D.members, Hashed(key)) : C = Class(g, TRUE)
  BY <1>2 DEF MakeList, Class
<1>4. PICK h \in Hashed(key) : g = D.members \cap h
  BY <1>3 DEF Groups
<1>5. PICK z \in DOMAIN key : h = {w \in DOMAIN key : key[w] = key[z]}
  BY <1>4 DEF Hashed
<1> QED BY <1>3, <1>4, <1>5 DEF Class

\* The pins of an element with the classes of their nets.
LEMMA SameClassesSamePins ==
  ASSUME UNCHANGED <<pair, pin_magic>>, Partition(nodes') = Partition(nodes), NEW e
  PROVE  ElementHash(elements, nodes, e)[2]' = ElementHash(elements, nodes, e)[2]
<1> DEFINE net == NodeList[pair][e]
           on == {i \in Pin : net[i] # NoNet}
           pins(N) == [i \in on |-> <<pin_magic[e][i], ClassOf(N, net[i])>>]
<1>1. \A x : ClassOf(nodes', x) = ClassOf(nodes, x)
  BY DEF ClassOf
<1>2. pins(nodes') = pins(nodes)
  BY <1>1
<1>3. /\ ElementHash(elements, nodes, e)[2] = Tally(pins(nodes))
      /\ ElementHash(elements, nodes, e)[2]' = Tally(pins(nodes'))
  BY DEF ElementHash
<1> QED BY <1>2, <1>3

(***************************************************************************)
(* Iterations under exhaustive subdivision.                                 *)
(***************************************************************************)
NodesFollow ==
  \A C \in nodes.classes : C.legal =>
    \A n, m \in C.members : NodeHash(elements, n) = NodeHash(elements, m)

ElementsFollow ==
  \A C \in elements.classes : C.legal =>
    \A e, f \in C.members :
      ElementHash(elements, nodes, e)[2] = ElementHash(elements, nodes, f)[2]

LEMMA IterationNodesFollow ==
  ASSUME Compared, Iterate, ExhaustiveSubdivision = TRUE
  PROVE  NodesFollow'
<1> SUFFICES ASSUME NEW C \in nodes'.classes, C.legal, NEW n \in C.members, NEW m \in C.members
             PROVE  NodeHash(elements, n)' = NodeHash(elements, m)'
  BY DEF NodesFollow
<1> DEFINE key == [x \in Members(nodes) |-> NodeHash(elements', x)]
<1>1. nodes' = Fracture(Rehash(nodes, key), TRUE) /\ UNCHANGED <<pair, pin_magic>>
  BY DEF Iterate, FractureLists, RehashedNodes
<1>2. key[n] = key[m]
  <2> HIDE DEF key
  <2> QED BY <1>1, FracturedAlike
<1>3. Compared'
  BY IterateOK
<1>4. n \in Members(nodes) /\ m \in Members(nodes)
  <2>1. Members(nodes') = Nodes(pair') /\ Members(nodes) = Nodes(pair) /\ pair' = pair
    BY <1>1, <1>3, ListMembers DEF Compared
  <2>2. n \in Members(nodes') /\ m \in Members(nodes')
    BY DEF Members
  <2> QED BY <2>1, <2>2
<1>5. \A x : NodeHash(elements', x) = NodeHash(elements, x)'
  BY <1>1 DEF NodeHash, PinsOn
<1> QED BY <1>2, <1>4, <1>5

LEMMA IterationElementsFollow ==
  ASSUME Compared, Iterate, ExhaustiveSubdivision = TRUE, Partition(nodes') = Partition(nodes)
  PROVE  ElementsFollow'
<1> SUFFICES ASSUME NEW C \in elements'.classes, C.legal, NEW e \in C.members, NEW f \in C.members
             PROVE  ElementHash(elements, nodes, e)[2]' = ElementHash(elements, nodes, f)[2]'
  BY DEF ElementsFollow
<1> DEFINE key == [x \in Members(elements) |-> ElementHash(elements, nodes, x)]
<1>1. elements' = Fracture(Rehash(elements, key), TRUE) /\ UNCHANGED <<pair, pin_magic>>
  BY DEF Iterate, FractureLists, RehashedElements
<1>2. key[e] = key[f]
  <2> HIDE DEF key
  <2> QED BY <1>1, FracturedAlike
<1>3. Compared'
  BY IterateOK
<1>4. e \in Members(elements) /\ f \in Members(elements)
  <2>1. Members(elements') = Elements(pair)' /\ Members(elements) = Elements(pair)
    BY <1>3, ListMembers DEF Compared
  <2>2. e \in Members(elements') /\ f \in Members(elements')
    BY DEF Members
  <2> QED BY <1>1, <2>1, <2>2 DEF Elements
<1>5. ElementHash(elements, nodes, e) = ElementHash(elements, nodes, f)
  BY <1>2, <1>4
<1> QED BY <1>1, <1>5, SameClassesSamePins

(***************************************************************************)
(* The invariant.  While the exhaustive iterations go on, the number that   *)
(* Iterate has counted is that of the classes.                              *)
(***************************************************************************)
ExhaustingCounted ==
  pc = "exhaust" => ExhaustiveSubdivision = TRUE /\ nodes.old = Cardinality(nodes.classes)

Stable == ElementsFollow /\ NodesFollow
StableInv == TypeOK /\ ExhaustingCounted /\ (pc = "verify" /\ ~InterruptPending => Stable)

LEMMA IterationCounted ==
  ASSUME Iterate
  PROVE  nodes'.old = Cardinality(nodes'.classes)
BY DEF Iterate, FractureLists, Fracture

LEMMA LastIteration ==
  ASSUME Compared, Iterate, ExhaustiveSubdivision = TRUE, nodes.old = Cardinality(nodes.classes),
         Done
  PROVE  Stable'
<1>1. Splits(nodes, nodes')
  BY IterateSplits DEF SessionSplits
<1>2. Compared' /\ pair' = pair
  BY IterateOK DEF Iterate, FractureLists
<1>3. /\ ListOK(nodes, Nodes(pair)) /\ ListOK(nodes', Nodes(pair))
      /\ IsFiniteSet(Nodes(pair))
  <2>1. ListOK(nodes', Nodes(pair'))
    BY <1>2 DEF Compared
  <2> QED BY <1>2, <2>1, NetlistsFinite DEF Compared
<1>4. Cardinality(nodes'.classes) = Cardinality(nodes.classes)
  BY IterationCounted DEF Done
<1>5. Partition(nodes') = Partition(nodes)
  BY <1>1, <1>3, <1>4, SameCount
<1> QED BY <1>5, IterationNodesFollow, IterationElementsFollow DEF Stable

LEMMA NextStable == StableInv /\ [Next]_vars => StableInv'
<1> SUFFICES ASSUME StableInv, [Next]_vars PROVE StableInv'
  OBVIOUS
<1>1. TypeOK'
  BY NextTypeOK DEF StableInv
<1>2. ~Idle => Compared
  BY PairCompared DEF StableInv, TypeOK, ControlOK, Idle
<1>3. CASE pc' \notin {"exhaust", "verify"}
  BY <1>1, <1>3 DEF StableInv, ExhaustingCounted
<1>4. CASE Converge
  <2>1. pc' # "verify" /\ (pc' = "exhaust" => ExhaustiveSubdivision' = TRUE)
    BY <1>4 DEF Converge
  <2> QED BY <1>1, <1>4, <2>1, IterationCounted DEF Converge, StableInv, ExhaustingCounted
<1>5. CASE Exhaust
  <2>1. /\ Compared /\ Iterate /\ ExhaustiveSubdivision = TRUE /\ ExhaustiveSubdivision' = TRUE
        /\ nodes.old = Cardinality(nodes.classes)
    BY <1>2, <1>5 DEF Exhaust, Idle, StableInv, ExhaustingCounted
  <2>2. ExhaustingCounted'
    BY <2>1, IterationCounted DEF ExhaustingCounted
  <2>3. ASSUME pc' = "verify", ~InterruptPending' PROVE Stable'
    <3>1. Done
      BY <1>5, <2>3 DEF Exhaust
    <3> QED BY <2>1, <3>1, LastIteration
  <2> QED BY <1>1, <2>2, <2>3 DEF StableInv
<1>6. CASE Interrupt
  BY <1>1, <1>6 DEF Interrupt, netcmp, lists, flags, StableInv, ExhaustingCounted
<1>7. CASE UNCHANGED vars
  <2>1. UNCHANGED <<pair, elements, nodes, pin_magic, ExhaustiveSubdivision, pc, InterruptPending>>
    BY <1>7 DEF vars, netcmp, lists, flags, control
  <2>2. ExhaustingCounted'
    BY <2>1 DEF StableInv, ExhaustingCounted
  <2>3. Stable => Stable'
    <3>1. /\ \A e : ElementHash(elements, nodes, e)[2]' = ElementHash(elements, nodes, e)[2]
          /\ \A n : NodeHash(elements, n)' = NodeHash(elements, n)
      BY <2>1 DEF ElementHash, NodeHash
    <3> QED BY <2>1, <3>1 DEF Stable, ElementsFollow, NodesFollow
  <2> QED BY <1>1, <2>1, <2>2, <2>3 DEF StableInv
<1>8. ASSUME \/ \E p \in Pairs : Compare(p)
             \/ IterateOnce \/ \E on \in BOOLEAN : Exhaustive(on)
             \/ Restart \/ Verify
             \/ \E C \in elements.classes : \E a \in In(C.members, 1), b \in In(C.members, 2) :
                  EquateElements(C, a, b)
             \/ \E C \in nodes.classes : \E a \in In(C.members, 1), b \in In(C.members, 2) :
                  EquateNodes(C, a, b)
      PROVE  pc' \notin {"exhaust", "verify"}
  BY <1>8 DEF Compare, IterateOnce, Exhaustive, Restart, Verify, EquateElements, EquateNodes,
              Given, Idle, control
<1>9. ASSUME \/ \E c \in {"converge", "resolve"} : Run(c)
             \/ VerifyConverged \/ VerifyResolving \/ Resolve \/ Settle \/ Settling \/ Return
             \/ Report
      PROVE  pc' \notin {"exhaust", "verify"}
  BY <1>9 DEF Run, VerifyConverged, VerifyResolving, Resolve, Settle, Settling, Return, Report,
              NextResolver
<1> QED BY <1>3, <1>4, <1>5, <1>6, <1>7, <1>8, <1>9 DEF Next, Executing

\* When the exhaustive iterations were not interrupted, all devices of a legal
\* class have the same pins on nets of the same classes, and all nets of a legal
\* class have the same pins on them (the loops of _netcmp_run over Iterate).
THEOREM Converges == Spec => []ConvergedIsStable
<1>1. Init => StableInv
  <2>1. Init => ExhaustingCounted /\ ~(pc = "verify")
    BY DEF Init, ExhaustingCounted
  <2> QED BY <2>1, InitTypeOK DEF StableInv
<1>2. StableInv /\ [Next]_vars => StableInv'
  BY NextStable
<1>3. StableInv => ConvergedIsStable
  BY DEF StableInv, Stable, ElementsFollow, NodesFollow, ConvergedIsStable
<1> QED BY <1>1, <1>2, <1>3, PTL DEF Spec

(***************************************************************************)
(* Tallies.                                                                 *)
(***************************************************************************)
LEMMA BijectionCounts ==
  ASSUME NEW S, NEW T, IsFiniteSet(S), NEW b \in [S -> T],
         \A x, y \in S : b[x] = b[y] => x = y, \A z \in T : \E x \in S : b[x] = z
  PROVE  IsFiniteSet(T) /\ Cardinality(T) = Cardinality(S)
<1>1. b \in Bijection(S, T)
  BY Fun_IsBij
<1>2. ExistsBijection(S, T)
  BY <1>1 DEF ExistsBijection
<1> QED BY <1>2, FS_Bijection

\* The arguments of value v.
Where(f, v) == {x \in DOMAIN f : f[x] = v}

\* Functions that a bijection of their arguments takes to each other take every value as often.
LEMMA TallyBijection ==
  ASSUME NEW f, NEW g, IsFiniteSet(DOMAIN f), NEW b \in Bijection(DOMAIN f, DOMAIN g),
         \A x \in DOMAIN f : f[x] = g[b[x]]
  PROVE  Tally(f) = Tally(g)
<1>1. /\ b \in [DOMAIN f -> DOMAIN g]
      /\ \A x, y \in DOMAIN f : b[x] = b[y] => x = y
      /\ \A z \in DOMAIN g : \E x \in DOMAIN f : b[x] = z
  BY Fun_BijectionProperties
<1>2. {f[x] : x \in DOMAIN f} = {g[x] : x \in DOMAIN g}
  BY <1>1
<1>3. ASSUME NEW v PROVE Cardinality(Where(f, v)) = Cardinality(Where(g, v))
  <2> DEFINE c == [x \in Where(f, v) |-> b[x]]
  <2>1. c \in [Where(f, v) -> Where(g, v)]
    BY <1>1 DEF Where
  <2>2. \A x, y \in Where(f, v) : c[x] = c[y] => x = y
    BY <1>1 DEF Where
  <2>3. \A z \in Where(g, v) : \E x \in Where(f, v) : c[x] = z
    BY <1>1 DEF Where
  <2>4. IsFiniteSet(Where(f, v))
    BY FS_Subset DEF Where
  <2> QED BY <2>1, <2>2, <2>3, <2>4, BijectionCounts
<1> QED BY <1>2, <1>3 DEF Tally, Where

\* And functions that take every value as often are taken to each other by one.
LEMMA TallySame ==
  ASSUME NEW f, NEW g, IsFiniteSet(DOMAIN f), IsFiniteSet(DOMAIN g), Tally(f) = Tally(g)
  PROVE  \E b \in Bijection(DOMAIN f, DOMAIN g) : \A x \in DOMAIN f : f[x] = g[b[x]]
<1> DEFINE V == {f[x] : x \in DOMAIN f}
           b == [v \in V |-> CHOOSE c : c \in Bijection(Where(f, v), Where(g, v))]
           all == [x \in DOMAIN f |-> b[f[x]][x]]
<1>1. V = {g[x] : x \in DOMAIN g}
  <2>1. DOMAIN Tally(f) = V /\ DOMAIN Tally(g) = {g[x] : x \in DOMAIN g}
    BY DEF Tally
  <2> QED BY <2>1
<1>2. ASSUME NEW v \in V PROVE b[v] \in Bijection(Where(f, v), Where(g, v))
  <2>1. Tally(f)[v] = Cardinality(Where(f, v)) /\ Tally(g)[v] = Cardinality(Where(g, v))
    BY <1>1 DEF Tally, Where
  <2>2. IsFiniteSet(Where(f, v)) /\ IsFiniteSet(Where(g, v))
    BY FS_Subset DEF Where
  <2>3. ExistsBijection(Where(f, v), Where(g, v))
    BY <2>1, <2>2, FS_SameCardinalityBij
  <2>4. \E c : c \in Bijection(Where(f, v), Where(g, v))
    BY <2>3 DEF ExistsBijection
  <2> QED BY <2>4
<1> HIDE DEF b, V
<1>3. ASSUME NEW v \in V
      PROVE  /\ b[v] \in [Where(f, v) -> Where(g, v)]
             /\ \A x, y \in Where(f, v) : b[v][x] = b[v][y] => x = y
             /\ \A z \in Where(g, v) : \E x \in Where(f, v) : b[v][x] = z
  BY <1>2, Fun_BijectionProperties
<1>4. \A x \in DOMAIN f : f[x] \in V /\ x \in Where(f, f[x])
  BY DEF V, Where
<1>5. ASSUME NEW x \in DOMAIN f PROVE all[x] \in DOMAIN g /\ g[all[x]] = f[x]
  <2>1. all[x] \in Where(g, f[x])
    BY <1>3, <1>4
  <2> QED BY <2>1 DEF Where
<1>6. all \in [DOMAIN f -> DOMAIN g]
  BY <1>5
<1>7. ASSUME NEW x \in DOMAIN f, NEW y \in DOMAIN f, all[x] = all[y] PROVE x = y
  <2>1. f[x] = f[y]
    BY <1>5, <1>7
  <2>2. b[f[x]][x] = b[f[x]][y]
    BY <1>7, <2>1
  <2> QED BY <1>3, <1>4, <2>1, <2>2
<1>8. ASSUME NEW z \in DOMAIN g PROVE \E x \in DOMAIN f : all[x] = z
  <2>1. g[z] \in V /\ z \in Where(g, g[z])
    BY <1>1 DEF Where
  <2>2. PICK x \in Where(f, g[z]) : b[g[z]][x] = z
    BY <1>3, <2>1
  <2>3. x \in DOMAIN f /\ f[x] = g[z]
    BY DEF Where
  <2> QED BY <2>2, <2>3
<1>9. all \in Bijection(DOMAIN f, DOMAIN g)
  BY <1>6, <1>7, <1>8, Fun_IsBij
<1> QED BY <1>5, <1>9

\* Values that tell less apart are taken as often if those that tell more apart are.
LEMMA TallyCoarser ==
  ASSUME NEW f, NEW g, IsFiniteSet(DOMAIN f), IsFiniteSet(DOMAIN g), Tally(f) = Tally(g),
         NEW h, NEW k, DOMAIN h = DOMAIN f, DOMAIN k = DOMAIN g,
         \A x \in DOMAIN f, y \in DOMAIN g : f[x] = g[y] => h[x] = k[y]
  PROVE  Tally(h) = Tally(k)
<1>1. PICK b \in Bijection(DOMAIN f, DOMAIN g) : \A x \in DOMAIN f : f[x] = g[b[x]]
  BY TallySame
<1>2. b \in [DOMAIN f -> DOMAIN g]
  BY Fun_BijectionProperties
<1>3. \A x \in DOMAIN h : h[x] = k[b[x]]
  BY <1>1, <1>2
<1> QED BY <1>3, TallyBijection

(***************************************************************************)
(* Circuits for which the comparison is exact: the permutes lists of a      *)
(* device class are the same in both circuits, and the pins of a device     *)
(* that are not connected come after those that are.  (CreateLists gives    *)
(* the position of an unconnected pin to the next connected one.)           *)
(***************************************************************************)
PinsInFront(p) ==
  \A e \in Elements(p) : \A i \in Connected(p, e) : \A j \in Pin : j < i => j \in Connected(p, e)

SamePermutes(p) ==
  \A e \in Elements(p) :
    Netlist[p].permutes[1][Netlist[p].model[e]] = Netlist[p].permutes[2][Netlist[p].model[e]]

EvenPair(p) == PinsInFront(p) /\ SamePermutes(p)

LEMMA PinsInPlace ==
  ASSUME NEW p \in Pairs, PinsInFront(p), NEW e \in Elements(p), NEW k \in Pin
  PROVE  NodeList[p][e][k] = Netlist[p].conn[e][k]
<1> DEFINE C == Connected(p, e)
           Upto(S, i) == {j \in S : j <= i}
<1>1. IsFiniteSet(Pin) /\ Pin \subseteq Nat
  BY NetlistsAssumption
<1>2. C \subseteq Pin /\ IsFiniteSet(C) /\ \A i \in C : \A j \in Pin : j < i => j \in C
  BY <1>1, FS_Subset DEF Connected, PinsInFront
<1>3. NodeList[p][e][k] =
        IF Position(Pin, k) > Cardinality(C) THEN NoNet
        ELSE Netlist[p].conn[e][CHOOSE i \in C : Position(C, i) = Position(Pin, k)]
  BY DEF NodeList
<1>4. k \notin C => Netlist[p].conn[e][k] = NoNet
  BY DEF Connected
<1>5. \A S, i : Position(S, i) = Cardinality(Upto(S, i))
  BY DEF Position
<1> HIDE DEF C
<1>6. CASE k \in C
  <2>1. Upto(Pin, k) = Upto(C, k)
    <3>1. ASSUME NEW j \in Pin, j <= k PROVE j \in C
      <4>1. j < k \/ j = k
        BY <1>1, <3>1
      <4> QED BY <1>2, <1>6, <4>1
    <3> QED BY <1>2, <3>1
  <2>2. Upto(C, k) \subseteq C
    OBVIOUS
  <2>3. /\ Cardinality(Upto(C, k)) <= Cardinality(C)
        /\ Cardinality(Upto(C, k)) \in Nat /\ Cardinality(C) \in Nat
    BY <1>2, <2>2, FS_Subset, FS_CardinalityType
  <2>4. ASSUME NEW i \in C, Position(C, i) = Position(Pin, k) PROVE i = k
    <3>1. Cardinality(Upto(C, i)) = Cardinality(Upto(C, k))
      BY <1>5, <2>1, <2>4
    <3>2. IsFiniteSet(Upto(C, i)) /\ IsFiniteSet(Upto(C, k))
      BY <1>2, FS_Subset
    <3>3. i \in Nat /\ k \in Nat
      BY <1>1, <1>2
    <3>4. CASE i <= k
      <4>1. Upto(C, i) \subseteq Upto(C, k)
        <5>1. ASSUME NEW j \in C, j <= i PROVE j <= k
          <6>1. j \in Nat
            BY <1>1, <1>2
          <6> QED BY <3>3, <3>4, <5>1, <6>1
        <5> QED BY <5>1
      <4>2. Upto(C, i) = Upto(C, k)
        BY <3>1, <3>2, <4>1, FS_Subset
      <4>3. k \in Upto(C, k)
        BY <1>6, <3>3
      <4> QED BY <3>3, <3>4, <4>2, <4>3
    <3>5. CASE k <= i
      <4>1. Upto(C, k) \subseteq Upto(C, i)
        <5>1. ASSUME NEW j \in C, j <= k PROVE j <= i
          <6>1. j \in Nat
            BY <1>1, <1>2
          <6> QED BY <3>3, <3>5, <5>1, <6>1
        <5> QED BY <5>1
      <4>2. Upto(C, i) = Upto(C, k)
        BY <3>1, <3>2, <4>1, FS_Subset
      <4>3. i \in Upto(C, i)
        BY <3>3
      <4> QED BY <3>3, <3>5, <4>2, <4>3
    <3> QED BY <3>3, <3>4, <3>5
  <2>5. Position(C, k) = Position(Pin, k)
    BY <1>5, <2>1
  <2>6. (CHOOSE i \in C : Position(C, i) = Position(Pin, k)) = k
    BY <1>6, <2>4, <2>5
  <2>7. ~(Position(Pin, k) > Cardinality(C))
    BY <1>5, <2>1, <2>3
  <2> QED BY <1>3, <2>6, <2>7
<1>7. CASE k \notin C
  <2>1. C \cup {k} \subseteq Upto(Pin, k)
    BY <1>1, <1>2, <1>7
  <2>2. IsFiniteSet(Upto(Pin, k))
    BY <1>1, FS_Subset
  <2>3. Cardinality(C \cup {k}) = Cardinality(C) + 1
    BY <1>2, <1>7, FS_AddElement
  <2>4. Cardinality(C \cup {k}) <= Cardinality(Upto(Pin, k))
    BY <2>1, <2>2, FS_Subset
  <2>5. Cardinality(C) \in Nat /\ Cardinality(Upto(Pin, k)) \in Nat
    BY <1>2, <2>2, FS_CardinalityType
  <2>6. Position(Pin, k) > Cardinality(C)
    BY <1>5, <2>3, <2>4, <2>5
  <2> QED BY <1>3, <1>4, <1>7, <2>6
<1> QED BY <1>6, <1>7

\* The pins that NodeHash looks at are the pins on the net.
LEMMA PinsOnNet ==
  ASSUME NEW p \in Pairs, PinsInFront(p), NEW n
  PROVE  /\ PinsOn(p, n) = {t \in Elements(p) \X Pin : Netlist[p].conn[t[1]][t[2]] = n}
         /\ IsFiniteSet(PinsOn(p, n))
<1>1. \A t \in Elements(p) \X Pin : NodeList[p][t[1]][t[2]] = Netlist[p].conn[t[1]][t[2]]
  BY PinsInPlace
<1>2. IsFiniteSet(Elements(p) \X Pin)
  BY NetlistsFinite, NetlistsAssumption, FS_Product
<1>3. PinsOn(p, n) \subseteq Elements(p) \X Pin
  BY DEF PinsOn
<1> QED BY <1>1, <1>2, <1>3, FS_Subset DEF PinsOn

\* The magic number that Permute leaves is that of the terminal.
LEMMA PermuteGivesTerminal ==
  ASSUME NEW p \in Pairs, SamePermutes(p), NEW e \in Elements(p), NEW i \in Pin
  PROVE  Permute[p][e][i] = <<Netlist[p].model[e], Terminal(p, e, i)>>
<1> DEFINE m == Netlist[p].model[e]
           R == Netlist[p].permutes[1][m] \cup Netlist[p].permutes[2][m]
<1>1. Netlist[p].permutes[Graph[e]][m] = R
  <2>1. e \in Element \cup Net
    BY NetlistsAssumption
  <2>2. Graph[e] \in {1, 2}
    BY <2>1, NetlistsAssumption DEF Graph
  <2> QED BY <2>2 DEF SamePermutes
<1>2. Permute[p][e][i] = <<m, Largest(Permutable(Netlist[p].permutes[Graph[e]][m], i))>>
  BY DEF Permute, PermutedMagic
<1> QED BY <1>1, <1>2 DEF Terminal

\* Pins with the same magic number, permuted or not, are the same terminal.
LEMMA MagicTellsTerminals ==
  ASSUME NEW p \in Pairs, SamePermutes(p), NEW magic \in {FirstMagic[p], Permute[p]},
         NEW e \in Elements(p), NEW f \in Elements(p), NEW i \in Pin, NEW j \in Pin,
         magic[e][i] = magic[f][j]
  PROVE  Terminal(p, e, i) = Terminal(p, f, j)
<1> DEFINE m(x) == Netlist[p].model[x]
<1>1. CASE magic = FirstMagic[p]
  <2>1. magic[e][i] = <<m(e), i>> /\ magic[f][j] = <<m(f), j>>
    BY <1>1 DEF FirstMagic, SeededMagic
  <2>2. <<m(e), i>> = <<m(f), j>>
    BY <2>1
  <2>3. m(e) = m(f) /\ i = j
    BY <2>2
  <2> QED BY <2>3 DEF Terminal
<1>2. CASE magic = Permute[p]
  <2>1. magic[e][i] = <<m(e), Terminal(p, e, i)>> /\ magic[f][j] = <<m(f), Terminal(p, f, j)>>
    BY <1>2, PermuteGivesTerminal
  <2>2. <<m(e), Terminal(p, e, i)>> = <<m(f), Terminal(p, f, j)>>
    BY <2>1
  <2> QED BY <2>2
<1> QED BY <1>1, <1>2

(***************************************************************************)
(* Classes that are all pairs.                                              *)
(***************************************************************************)
\* The member of circuit 2 in the class of every member of circuit 1.
Mate(L) == [x \in In(Members(L), 1) |-> CHOOSE y \in ClassOf(L, x) : Graph[y] = 2]

LEMMA Mates ==
  ASSUME NEW X, IsFiniteSet(X), \A x \in X : Graph[x] \in {1, 2}, NEW L, ListOK(L, X),
         \A S \in Partition(L) : OneToOne(S)
  PROVE  /\ Mate(L) \in Bijection(In(X, 1), In(X, 2))
         /\ \A x \in In(X, 1) : ClassOf(L, x) = {x, Mate(L)[x]}
         /\ \A x \in In(X, 1) : ClassOf(L, Mate(L)[x]) = {x, Mate(L)[x]}
<1>1. /\ \A S \in Partition(L) : S \subseteq X
      /\ \A S, T \in Partition(L) : S \cap T # {} => S = T
  BY DEF ListOK, ClassesOK, Partition
<1>2. Members(L) = X
  BY ListMembers
<1>3. ASSUME NEW S \in Partition(L)
      PROVE  \E a \in In(X, 1), b \in In(X, 2) : S = {a, b}
  <2>1. IsFiniteSet(S)
    BY <1>1, FS_Subset
  <2>2. /\ \E x \in S : In(S, 1) = {x}
        /\ \E x \in S : In(S, 2) = {x}
    BY <2>1, CountOne DEF OneToOne
  <2>3. S = In(S, 1) \cup In(S, 2)
    BY <1>1 DEF In
  <2>4. PICK a, b : In(S, 1) = {a} /\ In(S, 2) = {b}
    BY <2>2
  <2> QED BY <1>1, <2>3, <2>4 DEF In
<1>4. ASSUME NEW x \in In(X, 1)
      PROVE  Mate(L)[x] \in In(X, 2) /\ ClassOf(L, x) = {x, Mate(L)[x]}
  <2>1. x \in X /\ ClassOf(L, x) \in Partition(L) /\ x \in ClassOf(L, x)
    BY MemberOf DEF In
  <2>2. PICK a \in In(X, 1), b \in In(X, 2) : ClassOf(L, x) = {a, b}
    BY <1>3, <2>1
  <2>3. Graph[x] = 1 /\ Graph[a] = 1 /\ Graph[b] = 2
    BY DEF In
  <2>4. x = a
    BY <2>1, <2>2, <2>3
  <2>5. Mate(L)[x] = CHOOSE y \in ClassOf(L, x) : Graph[y] = 2
    BY <1>2 DEF Mate
  <2>6. Mate(L)[x] = b
    BY <2>2, <2>3, <2>5
  <2> QED BY <2>2, <2>4, <2>6
<1>5. ASSUME NEW x \in In(X, 1)
      PROVE  ClassOf(L, Mate(L)[x]) = {x, Mate(L)[x]}
  <2>1. ClassOf(L, x) \in Partition(L) /\ Mate(L)[x] \in ClassOf(L, x) /\ Mate(L)[x] \in X
    BY <1>4, MemberOf DEF In
  <2>2. /\ ClassOf(L, Mate(L)[x]) \in Partition(L)
        /\ Mate(L)[x] \in ClassOf(L, Mate(L)[x])
    BY <2>1, MemberOf
  <2>3. ClassOf(L, Mate(L)[x]) = ClassOf(L, x)
    BY <1>1, <2>1, <2>2
  <2> QED BY <1>4, <2>3
<1>6. Mate(L) \in [In(X, 1) -> In(X, 2)]
  BY <1>2, <1>4 DEF Mate
<1>7. ASSUME NEW x \in In(X, 1), NEW y \in In(X, 1), Mate(L)[x] = Mate(L)[y] PROVE x = y
  <2>1. {x, Mate(L)[x]} = {y, Mate(L)[x]}
    BY <1>5, <1>7
  <2>2. Graph[x] = 1 /\ Graph[y] = 1 /\ Graph[Mate(L)[x]] = 2
    BY <1>4 DEF In
  <2> QED BY <2>1, <2>2
<1>8. ASSUME NEW z \in In(X, 2) PROVE \E x \in In(X, 1) : Mate(L)[x] = z
  <2>1. z \in X /\ ClassOf(L, z) \in Partition(L) /\ z \in ClassOf(L, z)
    BY MemberOf DEF In
  <2>2. PICK a \in In(X, 1), b \in In(X, 2) : ClassOf(L, z) = {a, b}
    BY <1>3, <2>1
  <2>3. ClassOf(L, a) \in Partition(L) /\ a \in ClassOf(L, a)
    BY MemberOf DEF In
  <2>4. ClassOf(L, a) = {a, b}
    BY <1>1, <2>1, <2>2, <2>3
  <2>5. Graph[z] = 2 /\ Graph[a] = 1
    BY DEF In
  <2>6. z \in {a, Mate(L)[a]}
    BY <1>4, <2>1, <2>2, <2>4
  <2> QED BY <2>5, <2>6
<1>9. Mate(L) \in Bijection(In(X, 1), In(X, 2))
  BY <1>6, <1>7, <1>8, Fun_IsBij
<1> QED BY <1>4, <1>5, <1>9

(***************************************************************************)
(* Stable classes that are all pairs are a matching.                        *)
(***************************************************************************)
\* The devices of a class are of one cell, unless there was a mismatch.
ClassesOneCell ==
  ~BadMatchDetected => \A S \in Partition(elements) : OneCell(S, Cells)

AllPaired == \A S \in Partition(elements) \cup Partition(nodes) : OneToOne(S)

LEMMA GraphsOf ==
  ASSUME NEW p \in Pairs
  PROVE  /\ \A e \in Elements(p) : Graph[e] \in {1, 2}
         /\ \A n \in Nodes(p) : Graph[n] \in {1, 2}
<1>1. Elements(p) \subseteq Element
  BY NetlistsAssumption
<1>2. Netlist[p].conn \in [Elements(p) -> [Pin -> Net \cup {NoNet}]]
  BY NetlistsAssumption
<1>3. Nodes(p) \subseteq Net
  BY <1>2 DEF Nodes
<1>4. \A x \in Element \cup Net : Graph[x] \in {1, 2}
  BY NetlistsAssumption DEF Graph
<1> QED BY <1>1, <1>3, <1>4

\* Every device of circuit 1 renamed to its mate.
Into2(p, f) == [e \in Elements(p) |-> IF e \in In(Elements(p), 1) THEN f[e] ELSE e]

\* Nets with equal NodeHash have the same terminals.
LEMMA SameTerminals ==
  ASSUME Compared, EvenPair(pair), pin_magic \in {FirstMagic[pair], Permute[pair]},
         \A S \in Partition(elements) : OneToOne(S),
         NEW n, NEW m, NodeHash(elements, n) = NodeHash(elements, m)
  PROVE  Terminals(pair, Into2(pair, Mate(elements)), n)
           = Terminals(pair, Into2(pair, Mate(elements)), m)
<1> DEFINE into2 == Into2(pair, Mate(elements))
           key(x) == [t \in PinsOn(pair, x) |->
                        <<pin_magic[t[1]][t[2]], HashOf(elements, t[1]), ClassOf(elements, t[1])>>]
           term(x) == [t \in PinsOn(pair, x) |-> <<into2[t[1]], Terminal(pair, t[1], t[2])>>]
<1>1. pair \in Pairs /\ PinsInFront(pair) /\ SamePermutes(pair)
  BY DEF Compared, EvenPair
<1>2. /\ IsFiniteSet(Elements(pair)) /\ \A e \in Elements(pair) : Graph[e] \in {1, 2}
      /\ ListOK(elements, Elements(pair))
  BY <1>1, NetlistsFinite, GraphsOf DEF Compared
<1>3. /\ \A e \in In(Elements(pair), 1) : ClassOf(elements, e) = {e, Mate(elements)[e]}
      /\ \A e \in In(Elements(pair), 1) : Mate(elements)[e] \in In(Elements(pair), 2)
  BY <1>2, Mates, Fun_BijectionProperties
<1>4. ASSUME NEW e \in Elements(pair)
      PROVE  into2[e] \in ClassOf(elements, e) /\ Graph[into2[e]] = 2
  <2>1. e \in ClassOf(elements, e)
    BY <1>2, MemberOf
  <2>2. CASE e \in In(Elements(pair), 1)
    BY <1>3, <2>2 DEF Into2, In
  <2>3. CASE e \notin In(Elements(pair), 1)
    BY <1>2, <2>1, <2>3 DEF Into2, In
  <2> QED BY <2>2, <2>3
<1>5. ASSUME NEW e \in Elements(pair), NEW f \in Elements(pair),
             ClassOf(elements, e) = ClassOf(elements, f)
      PROVE  into2[e] = into2[f]
  <2>1. ClassOf(elements, e) \in Partition(elements)
    BY <1>2, MemberOf
  <2>2. OneToOne(ClassOf(elements, e)) /\ IsFiniteSet(ClassOf(elements, e))
    BY <1>2, <2>1, FS_Subset DEF ListOK, ClassesOK, Partition
  <2>3. PICK y : In(ClassOf(elements, e), 2) = {y}
    BY <2>2, CountOne DEF OneToOne
  <2>4. into2[e] \in In(ClassOf(elements, e), 2) /\ into2[f] \in In(ClassOf(elements, e), 2)
    BY <1>4, <1>5 DEF In
  <2> QED BY <2>3, <2>4
<1>6. \A x : /\ Tally(key(x)) = NodeHash(elements, x)
             /\ Tally(term(x)) = Terminals(pair, into2, x)
             /\ IsFiniteSet(PinsOn(pair, x))
             /\ PinsOn(pair, x) \subseteq Elements(pair) \X Pin
  <2>1. \A x : PinsOn(pair, x) = {t \in Elements(pair) \X Pin : Netlist[pair].conn[t[1]][t[2]] = x}
    BY <1>1, PinsOnNet
  <2>2. \A x : Terminals(pair, into2, x) = Tally(term(x))
    BY <2>1 DEF Terminals
  <2>3. \A x : NodeHash(elements, x) = Tally(key(x))
    BY DEF NodeHash
  <2>4. \A x : IsFiniteSet(PinsOn(pair, x))
    BY <1>1, PinsOnNet
  <2> QED BY <2>1, <2>2, <2>3, <2>4
<1> HIDE DEF into2
<1>7. ASSUME NEW t \in PinsOn(pair, n), NEW u \in PinsOn(pair, m), key(n)[t] = key(m)[u]
      PROVE  term(n)[t] = term(m)[u]
  <2>1. /\ t[1] \in Elements(pair) /\ t[2] \in Pin
        /\ u[1] \in Elements(pair) /\ u[2] \in Pin
    BY <1>6
  <2>2. <<pin_magic[t[1]][t[2]], HashOf(elements, t[1]), ClassOf(elements, t[1])>>
          = <<pin_magic[u[1]][u[2]], HashOf(elements, u[1]), ClassOf(elements, u[1])>>
    BY <1>7
  <2>3. /\ pin_magic[t[1]][t[2]] = pin_magic[u[1]][u[2]]
        /\ ClassOf(elements, t[1]) = ClassOf(elements, u[1])
    BY <2>2
  <2>4. Terminal(pair, t[1], t[2]) = Terminal(pair, u[1], u[2])
    BY <1>1, <2>1, <2>3, MagicTellsTerminals
  <2> QED BY <1>5, <2>1, <2>3, <2>4
<1>8. DOMAIN key(n) = PinsOn(pair, n) /\ DOMAIN key(m) = PinsOn(pair, m)
  OBVIOUS
<1>9. DOMAIN term(n) = PinsOn(pair, n) /\ DOMAIN term(m) = PinsOn(pair, m)
  OBVIOUS
<1>10. Tally(key(n)) = Tally(key(m))
  BY <1>6
<1>11. Tally(term(n)) = Tally(term(m))
  <2> HIDE DEF key, term
  <2> QED BY <1>6, <1>7, <1>8, <1>9, <1>10, TallyCoarser
<1> QED BY <1>6, <1>11 DEF into2

LEMMA PairedIsMatching ==
  ASSUME Compared, EvenPair(pair), pin_magic \in {FirstMagic[pair], Permute[pair]},
         NodesFollow, IllegalOnlyIfBad, ~BadMatchDetected, ClassesOneCell, AllPaired
  PROVE  IsMatching(pair, Correspondence)
<1> DEFINE E1 == In(Elements(pair), 1)
           E2 == In(Elements(pair), 2)
           N1 == In(Nodes(pair), 1)
           N2 == In(Nodes(pair), 2)
           f == Mate(elements)
           g == Mate(nodes)
           net(n) == Terminals(pair, Into2(pair, f), n)
           nets == [n \in Nodes(pair) |-> net(n)]
           a == [n \in N1 |-> nets[n]]
           b == [n \in N2 |-> nets[n]]
<1>1. /\ pair \in Pairs /\ IsFiniteSet(Elements(pair)) /\ IsFiniteSet(Nodes(pair))
      /\ \A x \in Elements(pair) : Graph[x] \in {1, 2}
      /\ \A x \in Nodes(pair) : Graph[x] \in {1, 2}
      /\ ListOK(elements, Elements(pair)) /\ ListOK(nodes, Nodes(pair))
  BY NetlistsFinite, GraphsOf DEF Compared
<1>2. Correspondence = f
  BY DEF Correspondence, Mate
<1>3. f \in Bijection(E1, E2) /\ \A e \in E1 : ClassOf(elements, e) = {e, f[e]}
  BY <1>1, Mates DEF AllPaired
<1>4. g \in Bijection(N1, N2) /\ \A n \in N1 : ClassOf(nodes, n) = {n, g[n]}
  BY <1>1, Mates DEF AllPaired
<1>5. /\ f \in [E1 -> E2] /\ \A y \in E2 : \E x \in E1 : f[x] = y
      /\ g \in [N1 -> N2]
  BY <1>3, <1>4, Fun_BijectionProperties
<1>6. IsFiniteSet(E1) /\ IsFiniteSet(N1)
  BY <1>1, FS_Subset DEF In
<1>7. Cardinality(E1) = Cardinality(E2)
  <2>1. ExistsBijection(E1, E2)
    BY <1>3 DEF ExistsBijection
  <2> QED BY <1>6, <2>1, FS_Bijection
<1>8. {f[e] : e \in E1} = E2
  BY <1>5
<1>9. ASSUME NEW e \in E1 PROVE Netlist[pair].model[f[e]] = Netlist[pair].model[e]
  <2>1. ClassOf(elements, e) \in Partition(elements)
    BY <1>1, MemberOf DEF In
  <2>2. OneCell({e, f[e]}, Netlist[pair].model)
    BY <1>3, <2>1 DEF ClassesOneCell, Cells
  <2> QED BY <2>2 DEF OneCell
<1>10. ASSUME NEW n \in N1 PROVE net(n) = net(g[n])
  <2>1. ClassOf(nodes, n) \in Partition(nodes)
    BY <1>1, MemberOf DEF In
  <2>2. PICK C \in nodes.classes : C.members = ClassOf(nodes, n)
    BY <2>1 DEF Partition
  <2>3. C.legal
    BY DEF IllegalOnlyIfBad
  <2>4. n \in C.members /\ g[n] \in C.members
    BY <1>4, <2>2
  <2>5. NodeHash(elements, n) = NodeHash(elements, g[n])
    BY <2>3, <2>4 DEF NodesFollow
  <2>6. \A S \in Partition(elements) : OneToOne(S)
    BY DEF AllPaired
  <2> QED BY <2>5, <2>6, SameTerminals
<1> HIDE DEF net
<1>11. Tally(a) = Tally(b)
  <2>1. DOMAIN a = N1 /\ DOMAIN b = N2
    OBVIOUS
  <2>2. N1 \subseteq Nodes(pair) /\ N2 \subseteq Nodes(pair)
    BY DEF In
  <2>3. \A n \in N1 : a[n] = b[g[n]]
    BY <1>5, <1>10, <2>2
  <2> HIDE DEF a, b, g
  <2> QED BY <1>4, <1>6, <2>1, <2>3, TallyBijection
<1> HIDE DEF f
<1>12. IsMatching(pair, f)
  <2> DEFINE into2 == [e \in Elements(pair) |-> IF e \in E1 THEN f[e] ELSE e]
             nets2 == [n \in Nodes(pair) |-> Terminals(pair, into2, n)]
  <2>1. nets2 = nets
    BY DEF net, Into2
  <2>2. Tally([n \in N1 |-> nets2[n]]) = Tally([n \in N2 |-> nets2[n]])
    <3> HIDE DEF nets, nets2
    <3>1. [n \in N1 |-> nets2[n]] = a /\ [n \in N2 |-> nets2[n]] = b
      BY <2>1
    <3> HIDE DEF a, b
    <3> QED BY <1>11, <3>1
  <2> QED BY <1>7, <1>8, <1>9, <2>2 DEF IsMatching
<1> QED BY <1>2, <1>12

(***************************************************************************)
(* The session.  Only `compare' and `restart' make classes anew, and every  *)
(* iteration after the first loop of `run' is exhaustive.                   *)
(***************************************************************************)
LEMMA StepsSplit ==
  ASSUME TypeOK, [Next]_vars, \A p \in Pairs : ~Compare(p), ~Restart
  PROVE  /\ SessionSplits /\ UNCHANGED <<pair, pin_magic>>
         /\ BadMatchDetected => BadMatchDetected'
<1>1. \A L, M : Partition(M) = Partition(L) => Splits(L, M)
  BY DEF Splits
<1>2. pair # NoPair => Compared
  BY PairCompared
<1>3. ~Idle => Compared
  BY <1>2 DEF TypeOK, ControlOK, Idle
<1>4. CASE UNCHANGED <<lists, BadMatchDetected>>
  BY <1>1, <1>4 DEF lists, SessionSplits
<1>5. CASE IterateOnce \/ Converge \/ Exhaust \/ Settle
  <2>1. Compared /\ Iterate
    BY <1>2, <1>3, <1>5 DEF IterateOnce, Converge, Exhaust, Settle, Iterate, Idle
  <2> QED BY <2>1, IterateSplits DEF Iterate, FractureLists
<1>6. CASE Resolve
  <2>1. Compared /\ (BreakByProperty \/ BreakByPin \/ BreakArbitrarily)
    BY <1>3, <1>6 DEF Resolve, Resolvers, Idle
  <2>2. SessionSplits
    BY <2>1, ResolversSplit
  <2> QED BY <2>1, <2>2 DEF BreakByProperty, BreakByPin, BreakArbitrarily, Break, FractureLists
<1>7. ASSUME NEW C \in elements.classes, NEW a \in C.members, NEW b \in C.members,
             EquateElements(C, a, b)
      PROVE  /\ SessionSplits /\ UNCHANGED <<pair, pin_magic>>
             /\ BadMatchDetected => BadMatchDetected'
  <2>1. Compared /\ EquivalenceElements(C, a, b)
    BY <1>2, <1>7 DEF EquateElements
  <2>2. Splits(elements, elements')
    BY <2>1, EquateSplits DEF EquivalenceElements, Compared
  <2> QED BY <1>1, <2>1, <2>2 DEF EquivalenceElements, SessionSplits
<1>8. ASSUME NEW C \in nodes.classes, NEW a \in C.members, NEW b \in C.members,
             EquateNodes(C, a, b)
      PROVE  /\ SessionSplits /\ UNCHANGED <<pair, pin_magic>>
             /\ BadMatchDetected => BadMatchDetected'
  <2>1. Compared /\ EquivalenceNodes(C, a, b)
    BY <1>2, <1>8 DEF EquateNodes
  <2>2. Splits(nodes, nodes')
    BY <2>1, EquateSplits DEF EquivalenceNodes, Compared
  <2> QED BY <1>1, <2>1, <2>2 DEF EquivalenceNodes, SessionSplits
<1>9. CASE Verify \/ VerifyConverged \/ VerifyResolving \/ Settling \/ Return
  BY <1>4, <1>9 DEF Verify, VerifyConverged, VerifyResolving, Settling, Return
<1>10. CASE \/ \E on \in BOOLEAN : Exhaustive(on)
            \/ \E c \in {"converge", "resolve"} : Run(c)
            \/ Interrupt \/ Report \/ UNCHANGED vars
  BY <1>4, <1>10 DEF Exhaustive, Run, Interrupt, Report, netcmp, flags, vars
<1>11. \A S, c, x : x \in In(S, c) => x \in S
  BY DEF In
<1> QED BY <1>5, <1>6, <1>7, <1>8, <1>9, <1>10, <1>11 DEF Next, Executing

LEMMA LegalOnesOneCell ==
  ASSUME IllegalOnlyIfBad, LegalOneCell(elements, Cells)
  PROVE  ClassesOneCell
BY DEF IllegalOnlyIfBad, LegalOneCell, ClassesOneCell, Partition

LEMMA NextOneCellOrBad ==
  TypeOK /\ IllegalOnlyIfBad' /\ ClassesOneCell /\ [Next]_vars => ClassesOneCell'
<1> SUFFICES ASSUME TypeOK, IllegalOnlyIfBad', ClassesOneCell, [Next]_vars
             PROVE  ClassesOneCell'
  OBVIOUS
<1>1. ASSUME NEW p \in Pairs, elements' = FirstLists[p].elements, pair' = p
      PROVE  ClassesOneCell'
  <2>1. LegalOneCell(elements, Cells)'
    BY <1>1, FirstListsOneCell DEF Cells
  <2> QED BY <2>1, LegalOnesOneCell, PTL
<1>2. ASSUME NEW p \in Pairs, Compare(p) PROVE ClassesOneCell'
  <2>1. CASE HasContents(p)
    BY <1>1, <1>2, <2>1 DEF Compare, CreateTwoLists
  <2>2. CASE ~HasContents(p)
    <3>1. elements' = EmptyList
      BY <1>2, <2>2 DEF Compare, CreateTwoLists, ResetState
    <3> QED BY <3>1 DEF ClassesOneCell, EmptyList, Partition
  <2> QED BY <2>1, <2>2
<1>3. CASE Restart
  <2>1. pair \in Pairs
    BY <1>3 DEF Restart, RegroupDataStructures, TypeOK, PairOK
  <2> QED BY <1>1, <1>3, <2>1 DEF Restart, RegroupDataStructures
<1>4. ASSUME SessionSplits, pair' = pair, BadMatchDetected => BadMatchDetected'
      PROVE  ClassesOneCell'
  BY <1>4 DEF SessionSplits, Splits, ClassesOneCell, OneCell, Cells
<1> QED BY <1>2, <1>3, <1>4, StepsSplit

\* The pins have the magic numbers that were drawn last, permuted or not.
MagicDrawn == pair # NoPair => pin_magic \in {FirstMagic[pair], Permute[pair]}

LEMMA NextMagic == TypeOK /\ MagicDrawn /\ [Next]_vars => MagicDrawn'
<1> SUFFICES ASSUME TypeOK, MagicDrawn, [Next]_vars PROVE MagicDrawn'
  OBVIOUS
<1>1. ASSUME NEW p \in Pairs, Compare(p) PROVE MagicDrawn'
  BY <1>1 DEF Compare, CreateTwoLists, ResetState, MagicDrawn
<1>2. CASE Restart
  BY <1>2 DEF Restart, RegroupDataStructures, MagicDrawn
<1>3. ASSUME UNCHANGED <<pair, pin_magic>> PROVE MagicDrawn'
  BY <1>3 DEF MagicDrawn
<1> QED BY <1>1, <1>2, <1>3, StepsSplit

\* The nets have been iterated under exhaustive subdivision where they are verified.
Exhausted ==
  /\ pc \notin {"idle", "converge"} => ExhaustiveSubdivision = TRUE
  /\ pc \in {"verify", "settling", "return", "report"} => NodesFollow

LEMMA SameNodesFollow ==
  ASSUME UNCHANGED <<pair, pin_magic, elements, nodes>>, NodesFollow
  PROVE  NodesFollow'
<1>1. \A n : NodeHash(elements, n)' = NodeHash(elements, n)
  BY DEF NodeHash
<1> QED BY <1>1 DEF NodesFollow

LEMMA NextExhausted == TypeOK /\ Exhausted /\ [Next]_vars => Exhausted'
<1> SUFFICES ASSUME TypeOK, Exhausted, [Next]_vars PROVE Exhausted'
  OBVIOUS
<1> USE DEF Resolvers
<1>1. ~Idle => Compared
  BY PairCompared DEF TypeOK, ControlOK, Idle
<1>2. CASE pc' \in {"idle", "converge"}
  BY <1>2 DEF Exhausted
<1>3. CASE Converge
  BY <1>3 DEF Converge, Exhausted
<1>4. CASE Exhaust \/ Settle
  <2>1. /\ Compared /\ Iterate /\ ExhaustiveSubdivision = TRUE
        /\ UNCHANGED ExhaustiveSubdivision
    BY <1>1, <1>4 DEF Exhaust, Settle, Exhausted, Idle
  <2>2. NodesFollow'
    BY <2>1, IterationNodesFollow
  <2> QED BY <2>1, <2>2 DEF Exhausted
<1>5. CASE Resolve
  <2>1. ExhaustiveSubdivision' = TRUE /\ pc' = "settle"
    BY <1>5 DEF Resolve, BreakByProperty, BreakByPin, BreakArbitrarily, Break
  <2> QED BY <2>1 DEF Exhausted
<1>6. CASE VerifyResolving \/ Settling \/ Return
  <2>1. /\ UNCHANGED <<pair, pin_magic, elements, nodes, ExhaustiveSubdivision>>
        /\ pc \in {"verify", "settling", "return"}
    BY <1>6 DEF VerifyResolving, Settling, Return, lists
  <2> QED BY <2>1, SameNodesFollow DEF Exhausted
<1>7. CASE Interrupt \/ UNCHANGED vars
  <2>1. UNCHANGED <<pair, pin_magic, elements, nodes, ExhaustiveSubdivision, pc>>
    BY <1>7 DEF Interrupt, vars, control, netcmp, lists, flags
  <2> QED BY <2>1, SameNodesFollow DEF Exhausted
<1>8. ASSUME \/ \E p \in Pairs : Compare(p)
             \/ IterateOnce \/ \E on \in BOOLEAN : Exhaustive(on)
             \/ Restart \/ Verify
             \/ \E C \in elements.classes : \E a \in In(C.members, 1), b \in In(C.members, 2) :
                  EquateElements(C, a, b)
             \/ \E C \in nodes.classes : \E a \in In(C.members, 1), b \in In(C.members, 2) :
                  EquateNodes(C, a, b)
             \/ \E c \in {"converge", "resolve"} : Run(c)
             \/ VerifyConverged \/ Report
      PROVE  pc' \in {"idle", "converge"}
  BY <1>8 DEF Compare, IterateOnce, Exhaustive, Restart, Verify, EquateElements, EquateNodes,
              Run, VerifyConverged, Report, Given, Idle, control
<1> QED BY <1>2, <1>3, <1>4, <1>5, <1>6, <1>7, <1>8 DEF Next, Executing

MatchingInv == Inv /\ ClassesOneCell /\ MagicDrawn /\ Exhausted

LEMMA ReportedIsMatching ==
  ASSUME MatchingInv, \A p \in Pairs : EvenPair(p)
  PROVE  UniqueIsMatching
<1> SUFFICES ASSUME pc = "report", automorphisms \in {0, -2}
             PROVE  IsMatching(pair, Correspondence)
  BY DEF UniqueIsMatching
<1>1. TypeOK /\ IllegalOnlyIfBad /\ ReportIsCurrent
  BY DEF MatchingInv, Inv
<1>2. pair # NoPair /\ Compared
  BY <1>1, PairCompared DEF TypeOK, ControlOK
<1>3. VerifyMatching \in {0, -2}
  BY <1>1 DEF ReportIsCurrent
<1>4. ~BadMatchDetected /\ AllPaired
  BY <1>1, <1>2, <1>3, VerifyMatchingSound DEF AllPaired, partition
<1>5. /\ pin_magic \in {FirstMagic[pair], Permute[pair]}
      /\ NodesFollow /\ EvenPair(pair)
  BY <1>2 DEF MatchingInv, MagicDrawn, Exhausted, Compared
<1> QED BY <1>1, <1>2, <1>4, <1>5, PairedIsMatching DEF MatchingInv

\* A match that `run resolve' reports as unique, with port errors or without, is one:
\* corresponding devices are of the same cell and have the same terminals on
\* corresponding nets, whatever commands were given before, wherever they were
\* interrupted, and although symmetries were broken at will on the way.
THEOREM UniqueMatchesAreMatchings ==
  ASSUME \A p \in Pairs : EvenPair(p)
  PROVE  Spec => []UniqueIsMatching
<1>1. Init => MatchingInv
  <2>1. Init => ClassesOneCell /\ MagicDrawn /\ Exhausted
    BY DEF Init, ClassesOneCell, MagicDrawn, Exhausted, EmptyList, Partition
  <2> QED BY <2>1, InitInv DEF MatchingInv
<1>2. MatchingInv /\ [Next]_vars => MatchingInv'
  BY NextInv, NextOneCellOrBad, NextMagic, NextExhausted DEF MatchingInv, Inv
<1>3. MatchingInv => UniqueIsMatching
  BY ReportedIsMatching
<1> QED BY <1>1, <1>2, <1>3, PTL DEF Spec

-----------------------------------------------------------------------------
(***************************************************************************)
(* What the classes may tell apart.  A matching of the circuits is never    *)
(* taken apart while the user equates nothing (MatchingsRespected), and     *)
(* breaking symmetries never makes a mismatch (BreaksKeepBalance).          *)
(*                                                                          *)
(* A matching of the devices goes with a bijection of the nets, and the     *)
(* classes and the hash values of both are the same for corresponding       *)
(* members: at first because the cells and the numbers of pins are, and     *)
(* after each iteration because the tallies that are hashed are carried     *)
(* over by the bijections.                                                  *)
(***************************************************************************)

(***************************************************************************)
(* Sets of members that a bijection phi of the members of circuit 1 onto    *)
(* those of circuit 2 takes to themselves.                                  *)
(***************************************************************************)
Follows(S, phi, X) == \A x \in In(X, 1) : x \in S <=> phi[x] \in S

ListFollows(L, phi, X) ==
  /\ \A S \in Partition(L) : Follows(S, phi, X)
  /\ \A h \in L.hash : Follows(h, phi, X)

LEMMA FollowsIsBalanced ==
  ASSUME NEW X, IsFiniteSet(X), NEW phi \in Bijection(In(X, 1), In(X, 2)),
         NEW S \in SUBSET X, Follows(S, phi, X)
  PROVE  Balanced(S) /\ {phi[x] : x \in In(S, 1)} = In(S, 2)
<1> DEFINE psi == [x \in In(S, 1) |-> phi[x]]
<1>1. /\ phi \in [In(X, 1) -> In(X, 2)]
      /\ \A x, y \in In(X, 1) : phi[x] = phi[y] => x = y
      /\ \A z \in In(X, 2) : \E x \in In(X, 1) : phi[x] = z
  BY Fun_BijectionProperties
<1>2. /\ \A x : x \in In(S, 1) <=> x \in S /\ x \in In(X, 1)
      /\ \A x : x \in In(S, 2) <=> x \in S /\ x \in In(X, 2)
  BY DEF In
<1>3. psi \in [In(S, 1) -> In(S, 2)]
  BY <1>1, <1>2 DEF Follows
<1>4. \A x, y \in In(S, 1) : psi[x] = psi[y] => x = y
  BY <1>1, <1>2
<1>5. \A z \in In(S, 2) : \E x \in In(S, 1) : psi[x] = z
  BY <1>1, <1>2 DEF Follows
<1>6. IsFiniteSet(In(S, 1))
  BY FS_Subset DEF In
<1>7. Cardinality(In(S, 2)) = Cardinality(In(S, 1))
  <2> HIDE DEF psi
  <2> QED BY <1>3, <1>4, <1>5, <1>6, BijectionCounts
<1>8. {phi[x] : x \in In(S, 1)} = In(S, 2)
  <2>1. \A x \in In(S, 1) : phi[x] = psi[x]
    OBVIOUS
  <2> HIDE DEF psi
  <2> QED BY <1>3, <1>5, <2>1
<1> QED BY <1>7, <1>8 DEF Balanced, Count

LEMMA MakeListFollows ==
  ASSUME NEW X, IsFiniteSet(X), NEW phi \in Bijection(In(X, 1), In(X, 2)),
         NEW S \in SUBSET X, Follows(S, phi, X), NEW hash, \A h \in hash : Follows(h, phi, X)
  PROVE  /\ IllegalGroups(S, hash) = {}
         /\ \A C \in MakeList(S, hash) : Follows(C.members, phi, X)
<1>1. ASSUME NEW g \in Groups(S, hash) PROVE g \in SUBSET X /\ Follows(g, phi, X)
  BY DEF Groups, Follows
<1>2. IllegalGroups(S, hash) = {}
  BY <1>1, FollowsIsBalanced DEF IllegalGroups
<1> QED BY <1>1, <1>2 DEF MakeList, Class

LEMMA FractureFollows ==
  ASSUME NEW X, IsFiniteSet(X), NEW phi \in Bijection(In(X, 1), In(X, 2)),
         NEW L, ListOK(L, X), ListFollows(L, phi, X), NEW exhaustive
  PROVE  ~Mismatch(L, exhaustive) /\ ListFollows(Fracture(L, exhaustive), phi, X)
<1>1. \A C \in L.classes : C.members \in SUBSET X /\ Follows(C.members, phi, X)
  BY DEF ListOK, ClassesOK, ListFollows, Partition
<1>2. \A C \in L.classes : /\ IllegalGroups(C.members, L.hash) = {}
                           /\ \A D \in MakeList(C.members, L.hash) : Follows(D.members, phi, X)
  BY <1>1, MakeListFollows DEF ListFollows
<1>3. Fractured(L, exhaustive) \subseteq L.classes
  BY DEF Fractured
<1>4. ~Mismatch(L, exhaustive)
  BY <1>2, <1>3 DEF Mismatch
<1>5. \A D \in FracturedClasses(L, exhaustive) : Follows(D.members, phi, X)
  BY <1>1, <1>2, <1>3 DEF FracturedClasses
<1> QED BY <1>4, <1>5 DEF Fracture, ListFollows, Partition

LEMMA HashedFollows ==
  ASSUME NEW key, NEW phi \in [In(DOMAIN key, 1) -> In(DOMAIN key, 2)],
         \A x \in In(DOMAIN key, 1) : key[x] = key[phi[x]]
  PROVE  \A h \in Hashed(key) : Follows(h, phi, DOMAIN key)
<1> SUFFICES ASSUME NEW h \in Hashed(key), NEW x \in In(DOMAIN key, 1)
             PROVE  x \in h <=> phi[x] \in h
  BY DEF Follows
<1>1. PICK z \in DOMAIN key : h = {y \in DOMAIN key : key[y] = key[z]}
  BY DEF Hashed
<1>2. x \in DOMAIN key /\ phi[x] \in DOMAIN key
  BY DEF In
<1> QED BY <1>1, <1>2

LEMMA RehashFollows ==
  ASSUME NEW X, NEW phi \in [In(X, 1) -> In(X, 2)],
         NEW L, ListFollows(L, phi, X), NEW key, DOMAIN key = X,
         \A x \in In(X, 1) : key[x] = key[phi[x]]
  PROVE  ListFollows(Rehash(L, key), phi, X)
<1>1. \A h \in Hashed(key) : Follows(h, phi, X)
  BY HashedFollows
<1>2. Partition(Rehash(L, key)) = Partition(L)
  BY RehashPartition
<1>3. Rehash(L, key).hash = Hashed(key)
  BY DEF Rehash
<1> QED BY <1>1, <1>2, <1>3 DEF ListFollows

LEMMA InitialListFollows ==
  ASSUME NEW X, NEW phi \in [In(X, 1) -> In(X, 2)], NEW key, DOMAIN key = X,
         \A x \in In(X, 1) : key[x] = key[phi[x]]
  PROVE  ListFollows(InitialList(key), phi, X)
<1>1. \A h \in Hashed(key) : Follows(h, phi, X)
  BY HashedFollows
<1>2. Follows(X, phi, X)
  BY DEF Follows, In
<1>3. Partition(InitialList(key)) = {X} /\ InitialList(key).hash = Hashed(key)
  BY DEF InitialList, Partition, Class
<1> QED BY <1>1, <1>2, <1>3 DEF ListFollows

\* A member and the one it is taken to are in the same class and have the same hash value.
LEMMA SameClassAndHash ==
  ASSUME NEW X, NEW L, ListOK(L, X), NEW phi \in [In(X, 1) -> In(X, 2)],
         ListFollows(L, phi, X), NEW x \in In(X, 1)
  PROVE  HashOf(L, phi[x]) = HashOf(L, x) /\ ClassOf(L, phi[x]) = ClassOf(L, x)
<1>1. x \in X /\ phi[x] \in X
  BY DEF In
<1>2. /\ HashOf(L, x) \in L.hash /\ x \in HashOf(L, x)
      /\ ClassOf(L, x) \in Partition(L) /\ x \in ClassOf(L, x)
      /\ HashOf(L, phi[x]) \in L.hash /\ phi[x] \in HashOf(L, phi[x])
      /\ ClassOf(L, phi[x]) \in Partition(L) /\ phi[x] \in ClassOf(L, phi[x])
  BY <1>1, MemberOf
<1>3. phi[x] \in HashOf(L, x) /\ phi[x] \in ClassOf(L, x)
  BY <1>2 DEF ListFollows, Follows
<1>4. /\ \A S, T \in L.hash : S \cap T # {} => S = T
      /\ \A S, T \in Partition(L) : S \cap T # {} => S = T
  BY DEF ListOK, IsPartition, ClassesOK, Partition
<1> QED BY <1>2, <1>3, <1>4

(***************************************************************************)
(* A matching of the devices, the nets it takes to each other and the pins. *)
(***************************************************************************)
\* The bijections of the nets that go with matching f.
NetMaps(p, f) ==
  {g \in Bijection(In(Nodes(p), 1), In(Nodes(p), 2)) :
     \A n \in In(Nodes(p), 1) : Terminals(p, Into2(p, f), n) = Terminals(p, Into2(p, f), g[n])}

\* The connected pins of circuit c.
Pins(p, c) ==
  {t \in Elements(p) \X Pin : Graph[t[1]] = c /\ Netlist[p].conn[t[1]][t[2]] # NoNet}

NetAt(p, t) == Netlist[p].conn[t[1]][t[2]]

\* The bijections of the connected pins that go with f and g.
PinMaps(p, f, g) ==
  {b \in Bijection(Pins(p, 1), Pins(p, 2)) :
     \A t \in Pins(p, 1) :
       /\ b[t][1] = f[t[1]]
       /\ NetAt(p, b[t]) = g[NetAt(p, t)]
       /\ Terminal(p, b[t][1], b[t][2]) = Terminal(p, t[1], t[2])}

LEMMA MatchingIsBijection ==
  ASSUME NEW p \in Pairs, NEW f \in Matchings(p)
  PROVE  /\ f \in Bijection(In(Elements(p), 1), In(Elements(p), 2))
         /\ \A e \in In(Elements(p), 1) : Netlist[p].model[f[e]] = Netlist[p].model[e]
<1> DEFINE E1 == In(Elements(p), 1)
           E2 == In(Elements(p), 2)
<1>1. /\ f \in [E1 -> E2] /\ {f[e] : e \in E1} = E2
      /\ Cardinality(E1) = Cardinality(E2)
      /\ \A e \in E1 : Netlist[p].model[f[e]] = Netlist[p].model[e]
  BY DEF Matchings, IsMatching
<1>2. IsFiniteSet(E1)
  BY NetlistsFinite, FS_Subset DEF In
<1>3. \A y \in E2 : \E x \in E1 : f[x] = y
  BY <1>1
<1>4. f \in Surjection(E1, E2)
  BY <1>1, <1>3, Fun_IsSurj
<1>5. f \in Injection(E1, E2)
  BY <1>1, <1>2, <1>4, FS_SurjSameCardinalityImpliesInj
<1>6. f \in Bijection(E1, E2)
  BY <1>4, <1>5, Fun_IsBij
<1> QED BY <1>1, <1>6

LEMMA NetMapExists ==
  ASSUME NEW p \in Pairs, NEW f \in Matchings(p)
  PROVE  NetMaps(p, f) # {}
<1> DEFINE E1 == In(Elements(p), 1)
           into2 == [e \in Elements(p) |-> IF e \in E1 THEN f[e] ELSE e]
           nets == [n \in Nodes(p) |-> Terminals(p, into2, n)]
           a == [n \in In(Nodes(p), 1) |-> nets[n]]
           b == [n \in In(Nodes(p), 2) |-> nets[n]]
<1>1. Tally(a) = Tally(b)
  BY DEF Matchings, IsMatching
<1>2. DOMAIN a = In(Nodes(p), 1) /\ DOMAIN b = In(Nodes(p), 2)
  OBVIOUS
<1>3. IsFiniteSet(In(Nodes(p), 1)) /\ IsFiniteSet(In(Nodes(p), 2))
  BY NetlistsFinite, FS_Subset DEF In
<1>4. PICK g \in Bijection(In(Nodes(p), 1), In(Nodes(p), 2)) :
        \A n \in In(Nodes(p), 1) : a[n] = b[g[n]]
  <2> HIDE DEF a, b
  <2> QED BY <1>1, <1>2, <1>3, TallySame
<1>5. g \in [In(Nodes(p), 1) -> In(Nodes(p), 2)]
  BY Fun_BijectionProperties
<1>6. \A c : In(Nodes(p), c) \subseteq Nodes(p)
  BY DEF In
<1>7. into2 = Into2(p, f)
  BY DEF Into2
<1>8. ASSUME NEW n \in In(Nodes(p), 1)
      PROVE  Terminals(p, Into2(p, f), n) = Terminals(p, Into2(p, f), g[n])
  <2>1. g[n] \in In(Nodes(p), 2) /\ n \in Nodes(p) /\ g[n] \in Nodes(p)
    BY <1>5, <1>6
  <2>2. a[n] = Terminals(p, into2, n) /\ b[g[n]] = Terminals(p, into2, g[n])
    BY <2>1
  <2> QED BY <1>4, <1>7, <2>2
<1> QED BY <1>8 DEF NetMaps

\* A connected pin is on a net of its own circuit.
LEMMA PinsOwnNet ==
  ASSUME NEW p \in Pairs, NEW t \in Elements(p) \X Pin, NetAt(p, t) # NoNet
  PROVE  NetAt(p, t) \in In(Nodes(p), Graph[t[1]])
<1>1. t[1] \in Elements(p) /\ t[2] \in Connected(p, t[1])
  BY DEF Connected, NetAt
<1>2. Graph[NetAt(p, t)] = Graph[t[1]]
  BY <1>1, OwnNetsAssumption DEF NetAt
<1>3. NetAt(p, t) \in Nodes(p)
  BY <1>1 DEF Nodes, NetAt
<1> QED BY <1>2, <1>3 DEF In

\* The connected pins on net n, and the bijections of them with those on m that keep
\* the device, taken to circuit 2, and the terminal.
On(p, n) == {t \in Elements(p) \X Pin : NetAt(p, t) = n}

Named(p, into2, t) == <<into2[t[1]], Terminal(p, t[1], t[2])>>

Taking(p, into2, n, m) ==
  {c \in Bijection(On(p, n), On(p, m)) :
     \A t \in On(p, n) : Named(p, into2, t) = Named(p, into2, c[t])}

LEMMA TakingExists ==
  ASSUME NEW p \in Pairs, NEW into2, NEW n, NEW m, Terminals(p, into2, n) = Terminals(p, into2, m)
  PROVE  \E c : c \in Taking(p, into2, n, m)
<1> DEFINE a == [t \in On(p, n) |-> Named(p, into2, t)]
           b == [t \in On(p, m) |-> Named(p, into2, t)]
<1>1. IsFiniteSet(On(p, n)) /\ IsFiniteSet(On(p, m))
  <2>1. IsFiniteSet(Elements(p) \X Pin)
    BY NetlistsFinite, NetlistsAssumption, FS_Product
  <2> QED BY <2>1, FS_Subset DEF On
<1>2. Tally(a) = Tally(b)
  BY DEF Terminals, NetAt, On, Named
<1>3. DOMAIN a = On(p, n) /\ DOMAIN b = On(p, m)
  OBVIOUS
<1>4. PICK c \in Bijection(On(p, n), On(p, m)) : \A t \in On(p, n) : a[t] = b[c[t]]
  <2> HIDE DEF a, b
  <2> QED BY <1>1, <1>2, <1>3, TallySame
<1>5. \A t \in On(p, n) : c[t] \in On(p, m)
  BY Fun_BijectionProperties
<1>6. \A t \in On(p, n) : Named(p, into2, t) = Named(p, into2, c[t])
  BY <1>4, <1>5
<1>7. c \in Taking(p, into2, n, m)
  BY <1>6 DEF Taking
<1> QED BY <1>7

LEMMA TakingDoes ==
  ASSUME NEW p, NEW into2, NEW n, NEW m, NEW c \in Taking(p, into2, n, m)
  PROVE  /\ c \in [On(p, n) -> On(p, m)]
         /\ \A t, u \in On(p, n) : c[t] = c[u] => t = u
         /\ \A u \in On(p, m) : \E t \in On(p, n) : c[t] = u
         /\ \A t \in On(p, n) : Named(p, into2, t) = Named(p, into2, c[t])
BY Fun_BijectionProperties DEF Taking

LEMMA PinMapExists ==
  ASSUME NEW p \in Pairs, NEW f \in Matchings(p), NEW g \in NetMaps(p, f)
  PROVE  PinMaps(p, f, g) # {}
<1> DEFINE E1 == In(Elements(p), 1)
           N1 == In(Nodes(p), 1)
           N2 == In(Nodes(p), 2)
           into2 == Into2(p, f)
           pick == [n \in N1 |-> CHOOSE c : c \in Taking(p, into2, n, g[n])]
           all == [t \in Pins(p, 1) |-> pick[NetAt(p, t)][t]]
<1>1. /\ f \in [E1 -> In(Elements(p), 2)]
      /\ \A x, y \in E1 : f[x] = f[y] => x = y
  BY MatchingIsBijection, Fun_BijectionProperties
<1>2. /\ g \in Bijection(N1, N2) /\ g \in [N1 -> N2]
      /\ \A x, y \in N1 : g[x] = g[y] => x = y
      /\ \A y \in N2 : \E x \in N1 : g[x] = y
      /\ \A n \in N1 : Terminals(p, into2, n) = Terminals(p, into2, g[n])
  BY Fun_BijectionProperties DEF NetMaps
<1>5. ASSUME NEW n \in N1 PROVE pick[n] \in Taking(p, into2, n, g[n])
  BY <1>2, TakingExists
<1>6. ASSUME NEW n \in N1
      PROVE  /\ pick[n] \in [On(p, n) -> On(p, g[n])]
             /\ \A t, u \in On(p, n) : pick[n][t] = pick[n][u] => t = u
             /\ \A u \in On(p, g[n]) : \E t \in On(p, n) : pick[n][t] = u
             /\ \A t \in On(p, n) : Named(p, into2, t) = Named(p, into2, pick[n][t])
  <2> HIDE DEF pick
  <2> QED BY <1>5, TakingDoes
<1> HIDE DEF pick
<1>7. NoNet \notin N1 /\ NoNet \notin N2
  BY DEF In, Nodes
<1>8. \A t : t \in Pins(p, 1) <=> t \in Elements(p) \X Pin /\ Graph[t[1]] = 1 /\ NetAt(p, t) # NoNet
  BY DEF Pins, NetAt
<1>9. ASSUME NEW t \in Pins(p, 1)
      PROVE  NetAt(p, t) \in N1 /\ t \in On(p, NetAt(p, t)) /\ t[1] \in E1
  BY <1>8, PinsOwnNet DEF In, On
<1>10. ASSUME NEW t \in Pins(p, 1)
       PROVE  /\ all[t] \in Pins(p, 2) /\ all[t][1] = f[t[1]]
              /\ NetAt(p, all[t]) = g[NetAt(p, t)]
              /\ Terminal(p, all[t][1], all[t][2]) = Terminal(p, t[1], t[2])
  <2> DEFINE n == NetAt(p, t)
             u == pick[n][t]
  <2>1. all[t] = u
    OBVIOUS
  <2>2. n \in N1 /\ t \in On(p, n) /\ t[1] \in E1
    BY <1>9
  <2>3. u \in On(p, g[n]) /\ Named(p, into2, t) = Named(p, into2, u)
    BY <1>6, <2>2
  <2>4. u \in Elements(p) \X Pin /\ NetAt(p, u) = g[n] /\ g[n] \in N2
    BY <1>2, <2>2, <2>3 DEF On
  <2>5. NetAt(p, u) # NoNet
    BY <1>7, <2>4
  <2>6. Graph[u[1]] = 2
    <3>1. NetAt(p, u) \in In(Nodes(p), Graph[u[1]])
      BY <2>4, <2>5, PinsOwnNet
    <3> QED BY <2>4, <3>1 DEF In
  <2>7. <<into2[t[1]], Terminal(p, t[1], t[2])>> = <<into2[u[1]], Terminal(p, u[1], u[2])>>
    BY <2>3 DEF Named
  <2>8. into2[t[1]] = f[t[1]] /\ into2[u[1]] = u[1]
    <3>1. t[1] \in Elements(p) /\ u[1] \in Elements(p) /\ u[1] \notin E1
      BY <2>2, <2>4, <2>6 DEF In
    <3> QED BY <2>2, <3>1 DEF Into2
  <2>9. u[1] = f[t[1]] /\ Terminal(p, u[1], u[2]) = Terminal(p, t[1], t[2])
    BY <2>7, <2>8
  <2>10. u \in Pins(p, 2)
    BY <2>4, <2>5, <2>6 DEF Pins, NetAt
  <2> HIDE DEF u, n
  <2>11. n = NetAt(p, t)
    BY DEF n
  <2> QED BY <2>1, <2>4, <2>9, <2>10, <2>11
<1>11. all \in [Pins(p, 1) -> Pins(p, 2)]
  BY <1>10
<1>12. ASSUME NEW t \in Pins(p, 1), NEW u \in Pins(p, 1), all[t] = all[u] PROVE t = u
  <2>1. g[NetAt(p, t)] = g[NetAt(p, u)]
    BY <1>10, <1>12
  <2>2. NetAt(p, t) = NetAt(p, u)
    BY <1>2, <1>9, <2>1
  <2>3. pick[NetAt(p, t)][t] = pick[NetAt(p, t)][u]
    BY <1>12, <2>2
  <2> QED BY <1>6, <1>9, <2>2, <2>3
<1>13. ASSUME NEW u \in Pins(p, 2) PROVE \E t \in Pins(p, 1) : all[t] = u
  <2>1. u \in Elements(p) \X Pin /\ Graph[u[1]] = 2 /\ NetAt(p, u) # NoNet
    BY DEF Pins, NetAt
  <2>2. NetAt(p, u) \in N2
    BY <2>1, PinsOwnNet
  <2>3. PICK n \in N1 : g[n] = NetAt(p, u)
    BY <1>2, <2>2
  <2>8. u \in On(p, g[n])
    BY <2>1, <2>3 DEF On
  <2>4. PICK t \in On(p, n) : pick[n][t] = u
    BY <1>6, <2>8
  <2>5. t \in Elements(p) \X Pin /\ NetAt(p, t) = n /\ n # NoNet
    BY <1>7 DEF On
  <2>6. Graph[t[1]] = 1
    <3>1. n \in In(Nodes(p), Graph[t[1]])
      BY <2>5, PinsOwnNet
    <3> QED BY <3>1 DEF In
  <2>7. t \in Pins(p, 1)
    BY <1>8, <2>5, <2>6
  <2> QED BY <2>4, <2>5, <2>7
<1>14. all \in Bijection(Pins(p, 1), Pins(p, 2))
  BY <1>11, <1>12, <1>13, Fun_IsBij
<1> HIDE DEF all
<1>15. all \in PinMaps(p, f, g)
  BY <1>10, <1>14 DEF PinMaps
<1> QED BY <1>15

(***************************************************************************)
(* The hash values follow a matching f and a bijection g of the nets that   *)
(* goes with it.                                                            *)
(***************************************************************************)
\* The connected pins of an element correspond to those of the one it is taken to.
LEMMA ElementPins ==
  ASSUME NEW p \in Pairs, NEW f \in Matchings(p), NEW g \in NetMaps(p, f), NEW e \in In(Elements(p), 1)
  PROVE  \E c \in Bijection(Connected(p, e), Connected(p, f[e])) :
           \A i \in Connected(p, e) :
             /\ Netlist[p].conn[f[e]][c[i]] = g[Netlist[p].conn[e][i]]
             /\ Terminal(p, f[e], c[i]) = Terminal(p, e, i)
<1>1. PICK b \in PinMaps(p, f, g) : TRUE
  BY PinMapExists
<1>2. /\ b \in [Pins(p, 1) -> Pins(p, 2)]
      /\ \A t, u \in Pins(p, 1) : b[t] = b[u] => t = u
      /\ \A u \in Pins(p, 2) : \E t \in Pins(p, 1) : b[t] = u
      /\ \A t \in Pins(p, 1) : /\ b[t][1] = f[t[1]]
                               /\ NetAt(p, b[t]) = g[NetAt(p, t)]
                               /\ Terminal(p, b[t][1], b[t][2]) = Terminal(p, t[1], t[2])
  BY Fun_BijectionProperties DEF PinMaps
<1>3. /\ f[e] \in In(Elements(p), 2) /\ e \in In(Elements(p), 1)
      /\ \A x \in In(Elements(p), 1) : f[x] = f[e] => x = e
  BY MatchingIsBijection, Fun_BijectionProperties
<1>4. e \in Elements(p) /\ f[e] \in Elements(p) /\ Graph[e] = 1 /\ Graph[f[e]] = 2
  BY <1>3 DEF In
<1>5. \A x, i : i \in Connected(p, x) <=> i \in Pin /\ NetAt(p, <<x, i>>) # NoNet
  BY DEF Connected, NetAt
<1>6. \A t, c : t \in Pins(p, c) <=> t \in Elements(p) \X Pin /\ Graph[t[1]] = c /\ NetAt(p, t) # NoNet
  BY DEF Pins, NetAt
<1> DEFINE c == [i \in Connected(p, e) |-> b[<<e, i>>][2]]
<1>7. ASSUME NEW i \in Connected(p, e)
      PROVE  /\ <<e, i>> \in Pins(p, 1) /\ b[<<e, i>>] = <<f[e], c[i]>>
             /\ c[i] \in Connected(p, f[e])
             /\ NetAt(p, <<f[e], c[i]>>) = g[NetAt(p, <<e, i>>)]
             /\ Terminal(p, f[e], c[i]) = Terminal(p, e, i)
  <2>1. <<e, i>> \in Pins(p, 1)
    BY <1>4, <1>5, <1>6
  <2>2. b[<<e, i>>] \in Pins(p, 2)
    BY <1>2, <2>1
  <2>3. b[<<e, i>>] \in Elements(p) \X Pin /\ NetAt(p, b[<<e, i>>]) # NoNet
    BY <1>6, <2>2
  <2>4. b[<<e, i>>][1] = f[e] /\ b[<<e, i>>][2] = c[i]
    BY <1>2, <2>1
  <2>5. b[<<e, i>>] = <<f[e], c[i]>>
    BY <2>3, <2>4
  <2>6. c[i] \in Connected(p, f[e])
    BY <1>5, <2>3, <2>5
  <2>7. /\ NetAt(p, b[<<e, i>>]) = g[NetAt(p, <<e, i>>)]
        /\ Terminal(p, b[<<e, i>>][1], b[<<e, i>>][2]) = Terminal(p, e, i)
    BY <1>2, <2>1
  <2> QED BY <2>1, <2>4, <2>5, <2>6, <2>7
<1>8. c \in [Connected(p, e) -> Connected(p, f[e])]
  BY <1>7
<1> HIDE DEF c
<1>9. ASSUME NEW i \in Connected(p, e), NEW j \in Connected(p, e), c[i] = c[j] PROVE i = j
  <2>1. b[<<e, i>>] = b[<<e, j>>] /\ <<e, i>> \in Pins(p, 1) /\ <<e, j>> \in Pins(p, 1)
    BY <1>7, <1>9
  <2>2. <<e, i>> = <<e, j>>
    BY <1>2, <2>1
  <2> QED BY <2>2
<1>10. ASSUME NEW j \in Connected(p, f[e]) PROVE \E i \in Connected(p, e) : c[i] = j
  <2>1. <<f[e], j>> \in Pins(p, 2)
    BY <1>4, <1>5, <1>6
  <2>2. PICK t \in Pins(p, 1) : b[t] = <<f[e], j>>
    BY <1>2, <2>1
  <2>3. t \in Elements(p) \X Pin /\ Graph[t[1]] = 1 /\ NetAt(p, t) # NoNet
    BY <1>6
  <2>4. f[t[1]] = f[e] /\ t[1] \in In(Elements(p), 1)
    BY <1>2, <2>2, <2>3 DEF In
  <2>5. t[1] = e
    BY <1>3, <2>4
  <2>6. t = <<e, t[2]>> /\ t[2] \in Pin
    BY <2>3, <2>5
  <2>7. t[2] \in Connected(p, e)
    BY <1>5, <2>3, <2>6
  <2>8. <<f[e], c[t[2]]>> = <<f[e], j>>
    BY <1>7, <2>2, <2>6, <2>7
  <2>9. c[t[2]] = j
    BY <2>8
  <2> QED BY <2>7, <2>9
<1>11. c \in Bijection(Connected(p, e), Connected(p, f[e]))
  BY <1>8, <1>9, <1>10, Fun_IsBij
<1>12. ASSUME NEW i \in Connected(p, e)
       PROVE  /\ Netlist[p].conn[f[e]][c[i]] = g[Netlist[p].conn[e][i]]
              /\ Terminal(p, f[e], c[i]) = Terminal(p, e, i)
  BY <1>7 DEF NetAt
<1> QED BY <1>11, <1>12

\* So do the pins on a net, with those on the net it is taken to.
LEMMA NetPins ==
  ASSUME NEW p \in Pairs, NEW f \in Matchings(p), NEW g \in NetMaps(p, f), NEW n \in In(Nodes(p), 1)
  PROVE  \E c \in Bijection(On(p, n), On(p, g[n])) :
           \A t \in On(p, n) : /\ t[1] \in In(Elements(p), 1) /\ c[t][1] = f[t[1]]
                               /\ Terminal(p, c[t][1], c[t][2]) = Terminal(p, t[1], t[2])
<1> DEFINE into2 == Into2(p, f)
<1>1. g[n] \in In(Nodes(p), 2) /\ Terminals(p, into2, n) = Terminals(p, into2, g[n])
  BY Fun_BijectionProperties DEF NetMaps
<1>2. n # NoNet /\ g[n] # NoNet /\ Graph[n] = 1 /\ Graph[g[n]] = 2
  BY <1>1 DEF In, Nodes
<1>3. PICK c : c \in Taking(p, into2, n, g[n])
  BY <1>1, TakingExists
<1>4. /\ c \in [On(p, n) -> On(p, g[n])]
      /\ \A t \in On(p, n) : Named(p, into2, t) = Named(p, into2, c[t])
  BY <1>3, TakingDoes
<1>5. c \in Bijection(On(p, n), On(p, g[n]))
  BY <1>3 DEF Taking
<1>6. ASSUME NEW t \in On(p, n)
      PROVE  /\ t[1] \in In(Elements(p), 1) /\ c[t][1] = f[t[1]]
             /\ Terminal(p, c[t][1], c[t][2]) = Terminal(p, t[1], t[2])
  <2> DEFINE u == c[t]
  <2>1. t \in Elements(p) \X Pin /\ NetAt(p, t) = n
    BY DEF On
  <2>2. u \in On(p, g[n])
    BY <1>4
  <2>3. u \in Elements(p) \X Pin /\ NetAt(p, u) = g[n]
    BY <2>2 DEF On
  <2>4. n \in In(Nodes(p), Graph[t[1]]) /\ g[n] \in In(Nodes(p), Graph[u[1]])
    BY <1>2, <2>1, <2>3, PinsOwnNet
  <2>5. Graph[t[1]] = 1 /\ Graph[u[1]] = 2
    BY <1>2, <2>4 DEF In
  <2>6. /\ t[1] \in Elements(p) /\ t[1] \in In(Elements(p), 1)
        /\ u[1] \in Elements(p) /\ u[1] \notin In(Elements(p), 1)
    BY <2>1, <2>3, <2>5 DEF In
  <2>7. into2[t[1]] = f[t[1]] /\ into2[u[1]] = u[1]
    BY <2>6 DEF Into2
  <2>8. Named(p, into2, t) = Named(p, into2, u)
    BY <1>4
  <2> HIDE DEF into2, u
  <2>9. <<into2[t[1]], Terminal(p, t[1], t[2])>> = <<into2[u[1]], Terminal(p, u[1], u[2])>>
    BY <2>8 DEF Named
  <2>10. into2[t[1]] = into2[u[1]] /\ Terminal(p, t[1], t[2]) = Terminal(p, u[1], u[2])
    BY <2>9
  <2> QED BY <2>6, <2>7, <2>10 DEF u
<1> QED BY <1>5, <1>6

\* The lists follow the matching f and the bijection g.
Follow(p, f, g, E, N) == ListFollows(E, f, Elements(p)) /\ ListFollows(N, g, Nodes(p))

LEMMA ElementHashFollows ==
  ASSUME pair \in Pairs, EvenPair(pair), pin_magic = Permute[pair],
         NEW f \in Matchings(pair), NEW g \in NetMaps(pair, f),
         NEW E, ListOK(E, Elements(pair)), NEW N, ListOK(N, Nodes(pair)),
         Follow(pair, f, g, E, N), NEW e \in In(Elements(pair), 1)
  PROVE  ElementHash(E, N, e) = ElementHash(E, N, f[e])
<1> DEFINE conn == Netlist[pair].conn
           key(x) == [i \in Connected(pair, x) |-> <<pin_magic[x][i], ClassOf(N, conn[x][i])>>]
<1>1. /\ f \in [In(Elements(pair), 1) -> In(Elements(pair), 2)]
      /\ Netlist[pair].model[f[e]] = Netlist[pair].model[e]
  BY MatchingIsBijection, Fun_BijectionProperties
<1>2. g \in [In(Nodes(pair), 1) -> In(Nodes(pair), 2)]
  BY Fun_BijectionProperties DEF NetMaps
<1>3. e \in Elements(pair) /\ f[e] \in Elements(pair) /\ Graph[e] = 1
  BY <1>1 DEF In
<1>4. ASSUME NEW x \in Elements(pair)
      PROVE  ElementHash(E, N, x) = <<HashOf(E, x), Tally(key(x))>>
  <2>1. \A i \in Pin : NodeList[pair][x][i] = conn[x][i]
    BY PinsInPlace DEF EvenPair
  <2>2. {i \in Pin : NodeList[pair][x][i] # NoNet} = Connected(pair, x)
    BY <2>1 DEF Connected
  <2>3. \A i \in Connected(pair, x) : NodeList[pair][x][i] = conn[x][i]
    BY <2>1 DEF Connected
  <2>4. [i \in {i \in Pin : NodeList[pair][x][i] # NoNet} |->
          <<pin_magic[x][i], ClassOf(N, NodeList[pair][x][i])>>] = key(x)
    BY <2>2, <2>3
  <2> HIDE DEF key
  <2> QED BY <2>4 DEF ElementHash
<1>5. HashOf(E, f[e]) = HashOf(E, e)
  BY <1>1, SameClassAndHash DEF Follow
<1>6. PICK c \in Bijection(Connected(pair, e), Connected(pair, f[e])) :
        \A i \in Connected(pair, e) :
          /\ conn[f[e]][c[i]] = g[conn[e][i]]
          /\ Terminal(pair, f[e], c[i]) = Terminal(pair, e, i)
  BY ElementPins
<1>7. \A i \in Connected(pair, e) : c[i] \in Connected(pair, f[e])
  BY Fun_BijectionProperties
<1>8. \A x : Connected(pair, x) \subseteq Pin /\ IsFiniteSet(Connected(pair, x))
  BY NetlistsAssumption, FS_Subset DEF Connected
<1>9. ASSUME NEW i \in Connected(pair, e) PROVE key(e)[i] = key(f[e])[c[i]]
  <2>1. i \in Pin /\ c[i] \in Pin /\ c[i] \in Connected(pair, f[e])
    BY <1>7, <1>8
  <2>2. pin_magic[e][i] = pin_magic[f[e]][c[i]]
    BY <1>1, <1>3, <1>6, <2>1, PermuteGivesTerminal DEF EvenPair
  <2>3. conn[e][i] \in In(Nodes(pair), 1)
    BY <1>3, OwnNetsAssumption DEF In, Nodes, Connected
  <2>4. ClassOf(N, g[conn[e][i]]) = ClassOf(N, conn[e][i])
    BY <1>2, <2>3, SameClassAndHash DEF Follow
  <2> QED BY <1>6, <2>1, <2>2, <2>4
<1>10. DOMAIN key(e) = Connected(pair, e) /\ DOMAIN key(f[e]) = Connected(pair, f[e])
  OBVIOUS
<1>11. Tally(key(e)) = Tally(key(f[e]))
  <2> HIDE DEF key
  <2> QED BY <1>6, <1>8, <1>9, <1>10, TallyBijection
<1> QED BY <1>3, <1>4, <1>5, <1>11

LEMMA NodeHashFollows ==
  ASSUME pair \in Pairs, EvenPair(pair), pin_magic = Permute[pair],
         NEW f \in Matchings(pair), NEW g \in NetMaps(pair, f),
         NEW E, ListOK(E, Elements(pair)), ListFollows(E, f, Elements(pair)),
         NEW n \in In(Nodes(pair), 1)
  PROVE  NodeHash(E, n) = NodeHash(E, g[n])
<1> DEFINE key(x) == [t \in On(pair, x) |->
                        <<pin_magic[t[1]][t[2]], HashOf(E, t[1]), ClassOf(E, t[1])>>]
<1>1. /\ f \in [In(Elements(pair), 1) -> In(Elements(pair), 2)]
      /\ \A e \in In(Elements(pair), 1) : Netlist[pair].model[f[e]] = Netlist[pair].model[e]
  BY MatchingIsBijection, Fun_BijectionProperties
<1>2. \A x : PinsOn(pair, x) = On(pair, x) /\ IsFiniteSet(On(pair, x))
  BY PinsOnNet DEF EvenPair, On, NetAt
<1>3. \A x : NodeHash(E, x) = Tally(key(x))
  BY <1>2 DEF NodeHash
<1>4. PICK c \in Bijection(On(pair, n), On(pair, g[n])) :
        \A t \in On(pair, n) : /\ t[1] \in In(Elements(pair), 1) /\ c[t][1] = f[t[1]]
                               /\ Terminal(pair, c[t][1], c[t][2]) = Terminal(pair, t[1], t[2])
  BY NetPins
<1>5. \A t \in On(pair, n) : c[t] \in On(pair, g[n])
  BY Fun_BijectionProperties
<1>6. ASSUME NEW t \in On(pair, n) PROVE key(n)[t] = key(g[n])[c[t]]
  <2>1. /\ t[1] \in Elements(pair) /\ t[2] \in Pin
        /\ c[t][1] \in Elements(pair) /\ c[t][2] \in Pin
        /\ c[t] \in On(pair, g[n])
    BY <1>5 DEF On
  <2>2. Netlist[pair].model[c[t][1]] = Netlist[pair].model[t[1]]
    BY <1>1, <1>4
  <2>3. pin_magic[t[1]][t[2]] = pin_magic[c[t][1]][c[t][2]]
    BY <1>4, <2>1, <2>2, PermuteGivesTerminal DEF EvenPair
  <2>4. HashOf(E, c[t][1]) = HashOf(E, t[1]) /\ ClassOf(E, c[t][1]) = ClassOf(E, t[1])
    BY <1>1, <1>4, SameClassAndHash
  <2> QED BY <2>1, <2>3, <2>4
<1>7. DOMAIN key(n) = On(pair, n) /\ DOMAIN key(g[n]) = On(pair, g[n])
  OBVIOUS
<1>8. Tally(key(n)) = Tally(key(g[n]))
  <2> HIDE DEF key
  <2> QED BY <1>2, <1>4, <1>6, <1>7, TallyBijection
<1> QED BY <1>3, <1>8

(***************************************************************************)
(* The first lists follow every matching, and iterations keep them so.      *)
(***************************************************************************)
LEMMA FirstListsFollow ==
  ASSUME NEW p \in Pairs, HasContents(p), EvenPair(p),
         NEW f \in Matchings(p), NEW g \in NetMaps(p, f)
  PROVE  /\ ~FirstLists[p].mismatch
         /\ Follow(p, f, g, FirstLists[p].elements, FirstLists[p].nodes)
<1> DEFINE model == Netlist[p].model
           fanout == [n \in Nodes(p) |-> Fanout(p, n)]
<1>1. /\ IsFiniteSet(Elements(p)) /\ IsFiniteSet(Nodes(p))
      /\ Elements(p) # {} /\ Nodes(p) # {}
  BY NetlistsFinite DEF HasContents, In
<1>2. /\ f \in Bijection(In(Elements(p), 1), In(Elements(p), 2))
      /\ f \in [In(Elements(p), 1) -> In(Elements(p), 2)]
      /\ \A e \in In(Elements(p), 1) : model[e] = model[f[e]]
  BY MatchingIsBijection, Fun_BijectionProperties
<1>3. /\ g \in Bijection(In(Nodes(p), 1), In(Nodes(p), 2))
      /\ g \in [In(Nodes(p), 1) -> In(Nodes(p), 2)]
  BY Fun_BijectionProperties DEF NetMaps
<1>4. ASSUME NEW n \in In(Nodes(p), 1) PROVE fanout[n] = fanout[g[n]]
  <2>1. \A x : PinsOn(p, x) = On(p, x) /\ IsFiniteSet(On(p, x))
    BY PinsOnNet DEF EvenPair, On, NetAt
  <2>2. PICK c : c \in Bijection(On(p, n), On(p, g[n]))
    BY NetPins
  <2>3. Cardinality(On(p, g[n])) = Cardinality(On(p, n))
    BY <2>1, <2>2, FS_Bijection DEF ExistsBijection
  <2>4. n \in Nodes(p) /\ g[n] \in Nodes(p)
    BY <1>3 DEF In
  <2> QED BY <2>1, <2>3, <2>4 DEF Fanout
<1>5. DOMAIN model = Elements(p) /\ DOMAIN fanout = Nodes(p)
  BY DEF Elements
<1> HIDE DEF fanout, model
<1>6. ListOK(InitialList(model), Elements(p)) /\ ListOK(InitialList(fanout), Nodes(p))
  BY <1>1, <1>5, InitialListOK
<1>7. /\ ListFollows(InitialList(model), f, Elements(p))
      /\ ListFollows(InitialList(fanout), g, Nodes(p))
  BY <1>2, <1>3, <1>4, <1>5, InitialListFollows
<1>8. /\ ~Mismatch(InitialList(model), TRUE) /\ ~Mismatch(InitialList(fanout), TRUE)
      /\ ListFollows(Fracture(InitialList(model), TRUE), f, Elements(p))
      /\ ListFollows(Fracture(InitialList(fanout), TRUE), g, Nodes(p))
  BY <1>1, <1>2, <1>3, <1>6, <1>7, FractureFollows
<1>9. FirstElements(p) = InitialList(model) /\ FirstNodes(p) = InitialList(fanout)
  BY DEF FirstElements, FirstNodes, model, fanout
<1>10. /\ FirstLists[p].elements = Fracture(FirstElements(p), TRUE)
       /\ FirstLists[p].nodes = Fracture(FirstNodes(p), TRUE)
       /\ FirstLists[p].mismatch = (\/ Mismatch(FirstElements(p), TRUE)
                                    \/ Mismatch(FirstNodes(p), TRUE))
  BY DEF FirstLists
<1> QED BY <1>8, <1>9, <1>10 DEF Follow

LEMMA IterateFollows ==
  ASSUME Compared, EvenPair(pair), pin_magic = Permute[pair], Iterate, ~BadMatchDetected,
         NEW f \in Matchings(pair), NEW g \in NetMaps(pair, f),
         Follow(pair, f, g, elements, nodes)
  PROVE  ~BadMatchDetected' /\ Follow(pair, f, g, elements', nodes')
<1> DEFINE ex == ExhaustiveSubdivision
           elementKey == [e \in Members(elements) |-> ElementHash(elements, nodes, e)]
           nodeKey == [n \in Members(nodes) |-> NodeHash(elements', n)]
<1>1. /\ Members(elements) = Elements(pair) /\ Members(nodes) = Nodes(pair)
      /\ ListOK(elements, Elements(pair)) /\ ListOK(nodes, Nodes(pair))
      /\ pair \in Pairs /\ IsFiniteSet(Elements(pair)) /\ IsFiniteSet(Nodes(pair))
  BY ListMembers, NetlistsFinite DEF Compared
<1>2. /\ f \in Bijection(In(Elements(pair), 1), In(Elements(pair), 2))
      /\ f \in [In(Elements(pair), 1) -> In(Elements(pair), 2)]
      /\ g \in Bijection(In(Nodes(pair), 1), In(Nodes(pair), 2))
      /\ g \in [In(Nodes(pair), 1) -> In(Nodes(pair), 2)]
  BY <1>1, MatchingIsBijection, Fun_BijectionProperties DEF NetMaps
<1>3. /\ \A e \in In(Elements(pair), 1) : e \in Elements(pair) /\ f[e] \in Elements(pair)
      /\ \A n \in In(Nodes(pair), 1) : n \in Nodes(pair) /\ g[n] \in Nodes(pair)
  BY <1>2 DEF In
<1>4. /\ elements' = Fracture(Rehash(elements, elementKey), ex)
      /\ nodes' = Fracture(Rehash(nodes, nodeKey), ex)
      /\ BadMatchDetected' = (\/ BadMatchDetected
                              \/ Mismatch(Rehash(elements, elementKey), ex)
                              \/ Mismatch(Rehash(nodes, nodeKey), ex))
  BY DEF Iterate, FractureLists, RehashedElements, RehashedNodes
<1>5. \A e \in In(Elements(pair), 1) : elementKey[e] = elementKey[f[e]]
  BY <1>1, <1>3, ElementHashFollows
<1>6. DOMAIN elementKey = Elements(pair) /\ DOMAIN nodeKey = Nodes(pair)
  BY <1>1
<1>7. /\ ListOK(Rehash(elements, elementKey), Elements(pair))
      /\ ListFollows(Rehash(elements, elementKey), f, Elements(pair))
  <2> HIDE DEF elementKey
  <2> QED BY <1>1, <1>2, <1>5, <1>6, RehashOK, RehashFollows DEF Follow
<1>8. /\ ~Mismatch(Rehash(elements, elementKey), ex)
      /\ ListFollows(elements', f, Elements(pair))
      /\ ListOK(elements', Elements(pair))
  <2> HIDE DEF elementKey
  <2> QED BY <1>1, <1>2, <1>4, <1>7, FractureFollows, FractureOK
<1>9. \A n \in In(Nodes(pair), 1) : nodeKey[n] = nodeKey[g[n]]
  BY <1>1, <1>3, <1>8, NodeHashFollows
<1>10. /\ ListOK(Rehash(nodes, nodeKey), Nodes(pair))
       /\ ListFollows(Rehash(nodes, nodeKey), g, Nodes(pair))
  <2> HIDE DEF nodeKey
  <2> QED BY <1>1, <1>2, <1>6, <1>9, RehashOK, RehashFollows DEF Follow
<1>11. /\ ~Mismatch(Rehash(nodes, nodeKey), ex)
       /\ ListFollows(nodes', g, Nodes(pair))
  <2> HIDE DEF nodeKey
  <2> QED BY <1>1, <1>2, <1>4, <1>10, FractureFollows
<1> QED BY <1>4, <1>8, <1>11 DEF Follow

(***************************************************************************)
(* The session.                                                             *)
(***************************************************************************)
Permuted == pair # NoPair => pin_magic = Permute[pair]

Respecting ==
  (pair # NoPair /\ resolver = "none") =>
    \A f \in Matchings(pair) : \A g \in NetMaps(pair, f) :
      ~BadMatchDetected /\ Follow(pair, f, g, elements, nodes)

RespectInv == TypeOK /\ Permuted /\ Respecting

LEMMA NextRespecting ==
  ASSUME "equate" \notin Commands, "restart" \notin Commands, \A p \in Pairs : EvenPair(p),
         RespectInv, [Next]_vars
  PROVE  Permuted' /\ Respecting'
<1> USE DEF RespectInv
<1>1. pair # NoPair => Compared
  BY PairCompared
<1>2. ~Idle => Compared
  BY <1>1 DEF TypeOK, ControlOK, Idle
<1>3. ASSUME NEW p \in Pairs, Compare(p) PROVE Permuted' /\ Respecting'
  <2>1. CASE HasContents(p)
    <3>1. /\ pair' = p /\ pin_magic' = Permute[p]
          /\ elements' = FirstLists[p].elements /\ nodes' = FirstLists[p].nodes
          /\ BadMatchDetected' = FirstLists[p].mismatch
      BY <1>3, <2>1 DEF Compare, CreateTwoLists
    <3>2. \A f \in Matchings(p) : \A g \in NetMaps(p, f) :
            ~BadMatchDetected' /\ Follow(p, f, g, elements', nodes')
      BY <2>1, <3>1, FirstListsFollow
    <3> QED BY <3>1, <3>2 DEF Permuted, Respecting
  <2>2. CASE ~HasContents(p)
    <3>1. pair' = NoPair
      BY <1>3, <2>2 DEF Compare, CreateTwoLists, ResetState
    <3> QED BY <3>1 DEF Permuted, Respecting
  <2> QED BY <2>1, <2>2
<1>4. CASE IterateOnce \/ Converge \/ Exhaust \/ Settle
  <2>1. Compared /\ Iterate /\ pair # NoPair /\ UNCHANGED <<pair, pin_magic, resolver>>
    BY <1>1, <1>2, <1>4 DEF IterateOnce, Converge, Exhaust, Settle, Iterate, FractureLists, Idle
  <2>2. EvenPair(pair) /\ pin_magic = Permute[pair]
    BY <2>1 DEF Compared, Permuted
  <2>3. ASSUME resolver = "none", NEW f \in Matchings(pair), NEW g \in NetMaps(pair, f)
        PROVE  ~BadMatchDetected' /\ Follow(pair, f, g, elements', nodes')
    <3>1. ~BadMatchDetected /\ Follow(pair, f, g, elements, nodes)
      BY <2>1, <2>3 DEF Respecting
    <3> QED BY <2>1, <2>2, <3>1, IterateFollows
  <2> QED BY <2>1, <2>2, <2>3 DEF Permuted, Respecting
<1>5. CASE Resolve
  <2>1. resolver' # "none" /\ UNCHANGED <<pair, pin_magic>>
    BY <1>5 DEF Resolve, Resolvers, BreakByProperty, BreakByPin, BreakArbitrarily, Break,
                FractureLists
  <2> QED BY <2>1 DEF Permuted, Respecting
<1>6. ASSUME UNCHANGED <<lists, BadMatchDetected, resolver>> PROVE Permuted' /\ Respecting'
  <2>1. UNCHANGED <<pair, elements, nodes, pin_magic, BadMatchDetected, resolver>>
    BY <1>6 DEF lists
  <2> QED BY <2>1 DEF Permuted, Respecting
<1>7. CASE Verify \/ VerifyConverged \/ VerifyResolving \/ Settling \/ Return
  BY <1>6, <1>7 DEF Verify, VerifyConverged, VerifyResolving, Settling, Return
<1>8. CASE \/ \E on \in BOOLEAN : Exhaustive(on)
           \/ \E c \in {"converge", "resolve"} : Run(c)
           \/ Interrupt \/ Report \/ UNCHANGED vars
  BY <1>6, <1>8 DEF Exhaustive, Run, Interrupt, Report, netcmp, flags, vars, control
<1> QED BY <1>3, <1>4, <1>5, <1>7, <1>8
        DEF Next, Executing, Restart, EquateElements, EquateNodes, Given

LEMMA FollowingRespects ==
  ASSUME RespectInv
  PROVE  MatchingsRespected
<1> SUFFICES ASSUME pair # NoPair, resolver = "none", NEW f \in Matchings(pair)
             PROVE  /\ ~BadMatchDetected
                    /\ \A S \in Partition(elements) : {f[e] : e \in In(S, 1)} = In(S, 2)
  <2>1. pair # NoPair => MatchingsOf[pair] = Matchings(pair)
    BY PairCompared DEF RespectInv, MatchingsOf, Compared
  <2> QED BY <2>1 DEF MatchingsRespected
<1>1. Compared
  BY PairCompared DEF RespectInv
<1>2. PICK g : g \in NetMaps(pair, f)
  BY <1>1, NetMapExists DEF Compared
<1>3. ~BadMatchDetected /\ ListFollows(elements, f, Elements(pair))
  BY <1>2 DEF RespectInv, Respecting, Follow
<1>4. /\ IsFiniteSet(Elements(pair))
      /\ f \in Bijection(In(Elements(pair), 1), In(Elements(pair), 2))
  BY <1>1, NetlistsFinite, MatchingIsBijection DEF Compared
<1>5. \A S \in Partition(elements) : S \in SUBSET Elements(pair)
  BY <1>1 DEF Compared, ListOK, ClassesOK, Partition
<1> QED BY <1>3, <1>4, <1>5, FollowsIsBalanced DEF ListFollows

\* Circuits that are the same circuit are never declared a mismatch before symmetries are
\* broken, and corresponding devices of any matching stay in one class.
THEOREM MatchingsAreRespected ==
  ASSUME "equate" \notin Commands, "restart" \notin Commands, \A p \in Pairs : EvenPair(p)
  PROVE  Spec => []MatchingsRespected
<1>1. Init => RespectInv
  <2>1. Init => Permuted /\ Respecting
    BY DEF Init, Permuted, Respecting
  <2> QED BY <2>1, InitTypeOK DEF RespectInv
<1>2. RespectInv /\ [Next]_vars => RespectInv'
  BY NextTypeOK, NextRespecting DEF RespectInv
<1>3. RespectInv => MatchingsRespected
  BY FollowingRespects
<1> QED BY <1>1, <1>2, <1>3, PTL DEF Spec

(***************************************************************************)
(* Breaking symmetries.  The members of a class have one hash value before  *)
(* it, so that the new ones alone decide how the class is divided.          *)
(***************************************************************************)
OneValue(L) == \A C \in L.classes : \E h \in L.hash : C.members \subseteq h

AllBalanced(L) == \A C \in L.classes : Balanced(C.members)

LEMMA FractureOneValue ==
  ASSUME NEW L, ~Mismatch(L, TRUE)
  PROVE  OneValue(Fracture(L, TRUE))
<1> SUFFICES ASSUME NEW D \in Fracture(L, TRUE).classes
             PROVE  \E h \in L.hash : D.members \subseteq h
  BY DEF OneValue, Fracture
<1>1. D \in FracturedClasses(L, TRUE) /\ Fractured(L, TRUE) = L.classes
  BY DEF Fracture, Fractured
<1>2. PICK C \in L.classes : D \in MakeList(C.members, L.hash)
  BY <1>1 DEF FracturedClasses
<1>3. IllegalGroups(C.members, L.hash) = {}
  BY <1>1 DEF Mismatch
<1>4. PICK g \in Groups(C.members, L.hash) : D = Class(g, TRUE)
  BY <1>2, <1>3 DEF MakeList
<1>5. PICK h \in L.hash : g = C.members \cap h
  BY DEF Groups
<1> QED BY <1>4, <1>5 DEF Class

\* A set is balanced if it is composed of balanced parts.
LEMMA BalancedParts ==
  ASSUME NEW M, IsFiniteSet(M), NEW key,
         \A x \in M : Balanced({y \in M : key[y] = key[x]})
  PROVE  Balanced(M)
<1> DEFINE f(c) == [x \in In(M, c) |-> key[x]]
           part(v) == {y \in M : key[y] = v}
<1>1. \A c : IsFiniteSet(In(M, c)) /\ In(M, c) \subseteq M
  BY FS_Subset DEF In
<1>2. \A c, v : Where(f(c), v) = In(part(v), c)
  BY DEF Where, In
<1>3. \A v, c : IsFiniteSet(In(part(v), c))
  <2>1. \A v, c : In(part(v), c) \subseteq M
    BY DEF In
  <2> QED BY <2>1, FS_Subset
<1>4. ASSUME NEW x \in M PROVE Cardinality(Where(f(1), key[x])) = Cardinality(Where(f(2), key[x]))
  <2>1. Balanced(part(key[x]))
    OBVIOUS
  <2> HIDE DEF f, part
  <2> QED BY <1>2, <2>1 DEF Balanced, Count
<1>5. ASSUME NEW x \in M PROVE Where(f(1), key[x]) # {} <=> Where(f(2), key[x]) # {}
  <2> HIDE DEF f, part
  <2>1. IsFiniteSet(Where(f(1), key[x])) /\ IsFiniteSet(Where(f(2), key[x]))
    BY <1>2, <1>3
  <2> QED BY <1>4, <2>1, FS_EmptySet
<1>6. {key[x] : x \in In(M, 1)} = {key[x] : x \in In(M, 2)}
  <2>1. ASSUME NEW c \in {1, 2}, NEW d \in {1, 2}, NEW x \in In(M, c)
        PROVE  \E y \in In(M, d) : key[y] = key[x]
    <3>1. x \in Where(f(c), key[x]) /\ x \in M
      BY <1>1 DEF Where
    <3>2. Where(f(d), key[x]) # {}
      <4> HIDE DEF f
      <4> QED BY <1>5, <3>1
    <3>3. PICK y : y \in Where(f(d), key[x])
      BY <3>2
    <3> QED BY <3>3 DEF Where
  <2> QED BY <2>1
<1>7. Tally(f(1)) = Tally(f(2))
  <2>1. \A c : Tally(f(c)) = [v \in {key[x] : x \in In(M, c)} |-> Cardinality(Where(f(c), v))]
    BY DEF Tally, Where
  <2>2. \A v \in {key[x] : x \in In(M, 1)} : Cardinality(Where(f(1), v)) = Cardinality(Where(f(2), v))
    <3> HIDE DEF f
    <3> QED BY <1>1, <1>4
  <2> HIDE DEF f
  <2> QED BY <1>6, <2>1, <2>2
<1>8. DOMAIN f(1) = In(M, 1) /\ DOMAIN f(2) = In(M, 2)
  OBVIOUS
<1>9. PICK b : b \in Bijection(In(M, 1), In(M, 2))
  <2> HIDE DEF f
  <2> QED BY <1>1, <1>7, <1>8, TallySame
<1>10. ExistsBijection(In(M, 1), In(M, 2))
  BY <1>9 DEF ExistsBijection
<1> QED BY <1>1, <1>10, FS_Bijection DEF Balanced, Count

\* What is left of a balanced set without a balanced part is balanced.
LEMMA BalancedRest ==
  ASSUME NEW M, IsFiniteSet(M), Balanced(M), NEW T \in SUBSET M, Balanced(T)
  PROVE  Balanced(M \ T)
<1>1. ASSUME NEW c PROVE Count(M \ T, c) = Count(M, c) - Count(T, c)
  <2>1. In(M \ T, c) = In(M, c) \ In(T, c) /\ In(M, c) \cap In(T, c) = In(T, c)
    BY DEF In
  <2>2. IsFiniteSet(In(M, c))
    BY FS_Subset DEF In
  <2>3. /\ IsFiniteSet(In(M, c) \ In(T, c))
        /\ Cardinality(In(M, c) \ In(T, c))
             = Cardinality(In(M, c)) - Cardinality(In(M, c) \cap In(T, c))
    BY <2>2, FS_Difference
  <2> QED BY <2>1, <2>3 DEF Count
<1> QED BY <1>1 DEF Balanced

LEMMA SameValue ==
  ASSUME NEW X, NEW L, ListOK(L, X), OneValue(L), NEW C \in L.classes,
         NEW x \in C.members, NEW y \in C.members
  PROVE  HashOf(L, x) = HashOf(L, y) /\ ClassOf(L, x) = C.members /\ x \in X
<1>1. x \in X /\ y \in X
  BY DEF ListOK, ClassesOK
<1>2. PICK h \in L.hash : C.members \subseteq h
  BY DEF OneValue
<1>3. /\ \A S, T \in L.hash : S \cap T # {} => S = T
      /\ \A S, T \in Partition(L) : S \cap T # {} => S = T
      /\ C.members \in Partition(L)
  BY DEF ListOK, IsPartition, ClassesOK, Partition
<1>4. /\ HashOf(L, x) \in L.hash /\ x \in HashOf(L, x)
      /\ HashOf(L, y) \in L.hash /\ y \in HashOf(L, y)
      /\ ClassOf(L, x) \in Partition(L) /\ x \in ClassOf(L, x)
  BY <1>1, MemberOf
<1>5. HashOf(L, x) = h /\ HashOf(L, y) = h /\ ClassOf(L, x) = C.members
  BY <1>2, <1>3, <1>4
<1> QED BY <1>1, <1>5

\* Fracturing without new hash values changes nothing.
LEMMA KeptBalance ==
  ASSUME NEW X, NEW L, ListOK(L, X), OneValue(L), AllBalanced(L), NEW exhaustive
  PROVE  ~Mismatch(L, exhaustive)
<1> SUFFICES ASSUME NEW C \in L.classes, NEW g \in Groups(C.members, L.hash)
             PROVE  Balanced(g)
  BY DEF Mismatch, Fractured, IllegalGroups
<1>1. PICK h \in L.hash : g = C.members \cap h /\ g # {}
  BY DEF Groups
<1>2. PICK x : x \in g
  BY <1>1
<1>3. ASSUME NEW y \in C.members PROVE y \in h
  <2>1. HashOf(L, x) = HashOf(L, y) /\ x \in X /\ y \in X
    BY <1>1, <1>2, SameValue
  <2>2. HashOf(L, x) \in L.hash /\ x \in HashOf(L, x) /\ y \in HashOf(L, y)
    BY <2>1, MemberOf
  <2>3. HashOf(L, x) = h
    BY <1>1, <1>2, <2>2 DEF ListOK, IsPartition
  <2> QED BY <2>1, <2>2, <2>3
<1>4. g = C.members
  BY <1>1, <1>3
<1> QED BY <1>4 DEF AllBalanced

\* The members of S that have a new value in common, in one class.
NewGroup(S, key, C, x) == {y \in C.members \cap S : key[y] = key[x]}

EvenlyNew(L, S, key) ==
  \A C \in L.classes : \A x \in C.members \cap S : Balanced(NewGroup(S, key, C, x))

LEMMA RenewedBalance ==
  ASSUME NEW X, IsFiniteSet(X), NEW L, ListOK(L, X), OneValue(L), AllBalanced(L),
         NEW S, NEW key, EvenlyNew(L, S, key), NEW exhaustive
  PROVE  ~Mismatch(Renewed(L, S, key), exhaustive)
<1> DEFINE new == [x \in Members(L) |->
                     IF x \in S THEN <<"new", ClassOf(L, x), key[x]>>
                     ELSE <<"old", HashOf(L, x)>>]
<1>1. Members(L) = X /\ \A C \in L.classes : C.members \subseteq X
  BY ListMembers DEF ListOK, ClassesOK
<1>2. Renewed(L, S, key).hash = Hashed(new) /\ Renewed(L, S, key).classes = L.classes
  BY DEF Renewed, ListOK
<1>3. DOMAIN new = X
  BY <1>1
<1>4. \A x \in X : new[x] = IF x \in S THEN <<"new", ClassOf(L, x), key[x]>>
                           ELSE <<"old", HashOf(L, x)>>
  BY <1>1
<1> HIDE DEF new
<1> SUFFICES ASSUME NEW C \in L.classes, NEW g \in Groups(C.members, Hashed(new))
             PROVE  Balanced(g)
  BY <1>2 DEF Mismatch, Fractured, IllegalGroups
<1>5. PICK z \in X : g = C.members \cap {y \in X : new[y] = new[z]} /\ g # {}
  BY <1>3 DEF Groups, Hashed
<1>6. PICK x : x \in g
  BY <1>5
<1>7. x \in C.members /\ g = {y \in C.members : new[y] = new[x]}
  BY <1>1, <1>5, <1>6
<1>8. \A y \in C.members : HashOf(L, x) = HashOf(L, y) /\ ClassOf(L, x) = ClassOf(L, y) /\ y \in X
  BY <1>7, SameValue
<1>9. \A a, b, c : <<"new", a, b>> # <<"old", c>>
  OBVIOUS
<1>10. CASE x \in S
  <2>1. ASSUME NEW y \in C.members PROVE new[y] = new[x] <=> y \in S /\ key[y] = key[x]
    <3>1. new[x] = <<"new", ClassOf(L, x), key[x]>>
      BY <1>4, <1>7, <1>8, <1>10
    <3>2. CASE y \in S
      <4>1. new[y] = <<"new", ClassOf(L, x), key[y]>>
        BY <1>4, <1>8, <3>2
      <4> QED BY <3>1, <3>2, <4>1
    <3>3. CASE y \notin S
      <4>1. new[y] = <<"old", HashOf(L, y)>>
        BY <1>4, <1>8, <3>3
      <4> QED BY <1>9, <3>1, <3>3, <4>1
    <3> QED BY <3>2, <3>3
  <2>2. g = NewGroup(S, key, C, x)
    BY <1>7, <2>1 DEF NewGroup
  <2> QED BY <1>7, <1>10, <2>2 DEF EvenlyNew
<1>11. CASE x \notin S
  <2>1. ASSUME NEW y \in C.members PROVE new[y] = new[x] <=> y \notin S
    <3>1. new[x] = <<"old", HashOf(L, x)>>
      BY <1>4, <1>7, <1>8, <1>11
    <3>2. CASE y \in S
      <4>1. new[y] = <<"new", ClassOf(L, y), key[y]>>
        BY <1>4, <1>8, <3>2
      <4> QED BY <1>9, <3>1, <3>2, <4>1
    <3>3. CASE y \notin S
      <4>1. new[y] = <<"old", HashOf(L, x)>>
        BY <1>4, <1>8, <3>3
      <4> QED BY <3>1, <3>3, <4>1
    <3> QED BY <3>2, <3>3
  <2> DEFINE T == C.members \cap S
  <2>2. g = C.members \ T
    BY <1>7, <2>1
  <2>3. IsFiniteSet(C.members) /\ IsFiniteSet(T)
    BY <1>1, FS_Subset
  <2>4. \A y \in T : {w \in T : key[w] = key[y]} = NewGroup(S, key, C, y)
    BY DEF NewGroup
  <2>5. \A y \in T : Balanced({w \in T : key[w] = key[y]})
    BY <2>4 DEF EvenlyNew
  <2>6. Balanced(T)
    <3> HIDE DEF T
    <3> QED BY <2>3, <2>5, BalancedParts
  <2>7. Balanced(C.members)
    BY DEF AllBalanced
  <2> QED BY <2>2, <2>3, <2>6, <2>7, BalancedRest
<1> QED BY <1>10, <1>11

(***************************************************************************)
(* The four resolvers give their new hash values evenly.                    *)
(***************************************************************************)
LEMMA OnePairEven ==
  ASSUME NEW X, NEW L, ListOK(L, X), NEW M \in OnePair(L)
  PROVE  \E S, key : M = Renewed(L, S, key) /\ EvenlyNew(L, S, key)
<1> DEFINE one == [x \in Members(L) |-> "pair"]
<1>1. PICK t \in UNION {In(S, 1) \X In(S, 2) : S \in Automorphic(L)} :
        M = Renewed(L, {t[1], t[2]}, one)
  BY DEF OnePair
<1>2. PICK A \in Automorphic(L) : t \in In(A, 1) \X In(A, 2)
  OBVIOUS
<1> DEFINE a == t[1]
           b == t[2]
<1>3. A \in Partition(L) /\ a \in A /\ b \in A /\ Graph[a] = 1 /\ Graph[b] = 2
  <2>1. a \in In(A, 1) /\ b \in In(A, 2)
    BY <1>2
  <2> QED BY <1>2, <2>1 DEF Automorphic, In
<1>4. /\ Members(L) = X /\ \A S \in Partition(L) : S \subseteq X
      /\ \A S, T \in Partition(L) : S \cap T # {} => S = T
  BY ListMembers DEF ListOK, ClassesOK, Partition
<1>5. ASSUME NEW C \in L.classes, NEW x \in C.members \cap {a, b}
      PROVE  Balanced(NewGroup({a, b}, one, C, x))
  <2>1. C.members = A
    BY <1>3, <1>4 DEF Partition
  <2>2. one[x] = "pair" /\ one[a] = "pair" /\ one[b] = "pair"
    BY <1>3, <1>4, <2>1
  <2>3. NewGroup({a, b}, one, C, x) = {a, b}
    BY <1>3, <2>1, <2>2 DEF NewGroup
  <2>4. In({a, b}, 1) = {a} /\ In({a, b}, 2) = {b}
    BY <1>3 DEF In
  <2> QED BY <2>3, <2>4, FS_Singleton DEF Balanced, Count
<1> QED BY <1>1, <1>5 DEF EvenlyNew

\* Nets of one circuit have names of their own.
NamesTellApart(p) ==
  \A n, m \in Nodes(p) : Graph[n] = Graph[m] /\ Netlist[p].netname[n] = Netlist[p].netname[m] => n = m

LEMMA ByPinEven ==
  ASSUME Compared, NamesTellApart(pair), NEW M \in ByPin
  PROVE  \E S, key : M = Renewed(nodes, S, key) /\ EvenlyNew(nodes, S, key)
<1> DEFINE S == {n \in UNION Automorphic(nodes) : Namesakes(n) # {}}
           name == Netlist[pair].netname
<1>1. M = Renewed(nodes, S, name)
  BY DEF ByPin
<1>2. /\ ListOK(nodes, Nodes(pair)) /\ \A n \in Nodes(pair) : Graph[n] \in {1, 2}
      /\ \A A \in Partition(nodes) : A \subseteq Nodes(pair)
      /\ \A A, B \in Partition(nodes) : A \cap B # {} => A = B
  BY GraphsOf DEF Compared, ListOK, ClassesOK, Partition
<1>3. ASSUME NEW C \in nodes.classes, NEW x \in C.members \cap S
      PROVE  Balanced(NewGroup(S, name, C, x))
  <2>1. x \in C.members /\ C.members \in Partition(nodes) /\ C.members \subseteq Nodes(pair)
    BY <1>2 DEF Partition
  <2>2. PICK A \in Automorphic(nodes) : x \in A /\ Namesakes(x) # {}
    OBVIOUS
  <2>3. A \in Partition(nodes) /\ C.members \in Automorphic(nodes)
    BY <1>2, <2>1, <2>2 DEF Automorphic
  <2>4. \A n \in C.members : ClassOf(nodes, n) = C.members
    <3>1. ASSUME NEW n \in C.members PROVE ClassOf(nodes, n) = C.members
      <4>1. ClassOf(nodes, n) \in Partition(nodes) /\ n \in ClassOf(nodes, n)
        BY <1>2, <2>1, MemberOf
      <4> QED BY <1>2, <2>1, <4>1
    <3> QED BY <3>1
  <2>5. PICK y : y \in Namesakes(x)
    BY <2>2
  <2>6. /\ y \in C.members /\ Graph[y] # Graph[x] /\ name[y] = name[x]
        /\ IsPort(pair, y) \/ IsPort(pair, x)
    BY <2>1, <2>4, <2>5 DEF Namesakes
  <2>7. x \in Namesakes(y)
    BY <2>1, <2>4, <2>6 DEF Namesakes
  <2>8. x \in S /\ y \in S
    BY <2>3, <2>6, <2>7
  <2>9. ASSUME NEW n \in C.members, name[n] = name[x] PROVE n = x \/ n = y
    BY <1>2, <2>1, <2>6, <2>9 DEF NamesTellApart
  <2>10. NewGroup(S, name, C, x) = {x, y}
    <3> HIDE DEF S
    <3> QED BY <2>1, <2>6, <2>8, <2>9 DEF NewGroup
  <2>11. Graph[x] \in {1, 2} /\ Graph[y] \in {1, 2} /\ Graph[y] # Graph[x]
    BY <1>2, <2>1, <2>6
  <2>12. \/ In({x, y}, 1) = {x} /\ In({x, y}, 2) = {y}
         \/ In({x, y}, 1) = {y} /\ In({x, y}, 2) = {x}
    BY <2>11 DEF In
  <2> QED BY <2>10, <2>12, FS_Singleton DEF Balanced, Count
<1> QED BY <1>1, <1>3 DEF EvenlyNew

LEMMA ByPropertyEven ==
  ASSUME Compared, ClassesOneCell, ~BadMatchDetected, NEW M \in ByProperty
  PROVE  \E S, key : M = Renewed(elements, S, key) /\ EvenlyNew(elements, S, key)
<1> DEFINE U == UNION Automorphic(elements)
           value == Netlist[pair].value
<1>1. PICK S \in SUBSET U : /\ \A e \in U : \A c \in {1, 2} : Count(S \cap Alike(e), c) = Lesser(Alike(e))
                           /\ M = Renewed(elements, S, value)
  BY DEF ByProperty
<1>2. /\ ListOK(elements, Elements(pair))
      /\ \A A \in Partition(elements) : A \subseteq Elements(pair)
      /\ \A A, B \in Partition(elements) : A \cap B # {} => A = B
  BY DEF Compared, ListOK, ClassesOK, Partition
<1>3. ASSUME NEW C \in elements.classes, NEW x \in C.members \cap S
      PROVE  Balanced(NewGroup(S, value, C, x))
  <2>1. x \in C.members /\ C.members \in Partition(elements) /\ x \in Elements(pair) /\ x \in U
    BY <1>2 DEF Partition
  <2>2. ClassOf(elements, x) = C.members
    <3>1. ClassOf(elements, x) \in Partition(elements) /\ x \in ClassOf(elements, x)
      BY <1>2, <2>1, MemberOf
    <3> QED BY <1>2, <2>1, <3>1
  <2>3. \A y \in C.members : Netlist[pair].model[y] = Netlist[pair].model[x]
    BY <2>1 DEF ClassesOneCell, OneCell, Cells
  <2>4. \A y \in C.members : PropertyMatch(pair, x, y) = 0 <=> value[y] = value[x]
    BY <2>3 DEF PropertyMatch
  <2>5. Alike(x) = {y \in C.members : value[y] = value[x]}
    BY <2>2, <2>4 DEF Alike
  <2>6. NewGroup(S, value, C, x) = S \cap Alike(x)
    BY <2>5 DEF NewGroup
  <2>7. Count(S \cap Alike(x), 1) = Lesser(Alike(x)) /\ Count(S \cap Alike(x), 2) = Lesser(Alike(x))
    BY <1>1, <2>1
  <2> QED BY <2>6, <2>7 DEF Balanced
<1> QED BY <1>1, <1>3 DEF EvenlyNew

LEMMA BreaksEvenly ==
  ASSUME Compared, NamesTellApart(pair), ClassesOneCell, BadMatchDetected = FALSE,
         OneValue(elements), OneValue(nodes), AllBalanced(elements), AllBalanced(nodes),
         BreakByProperty \/ BreakByPin \/ BreakArbitrarily
  PROVE  BadMatchDetected' = BadMatchDetected
<1> DEFINE ex == ExhaustiveSubdivision
<1>1. /\ ListOK(elements, Elements(pair)) /\ ListOK(nodes, Nodes(pair))
      /\ IsFiniteSet(Elements(pair)) /\ IsFiniteSet(Nodes(pair))
  BY NetlistsFinite DEF Compared
<1>2. ~Mismatch(elements, ex) /\ ~Mismatch(nodes, ex)
  BY <1>1, KeptBalance
<1>3. ASSUME NEW S, NEW key
      PROVE  /\ EvenlyNew(elements, S, key) => ~Mismatch(Renewed(elements, S, key), ex)
             /\ EvenlyNew(nodes, S, key) => ~Mismatch(Renewed(nodes, S, key), ex)
  BY <1>1, RenewedBalance
<1>4. ASSUME NEW E, NEW N, Break(E, N), ~Mismatch(E, ex), ~Mismatch(N, ex)
      PROVE  BadMatchDetected' = BadMatchDetected
  BY <1>4 DEF Break, FractureLists
<1>5. CASE BreakByProperty
  <2>1. PICK E \in ByProperty : Break(E, nodes)
    BY <1>5 DEF BreakByProperty
  <2>2. ~Mismatch(E, ex)
    BY <1>3, ByPropertyEven
  <2> QED BY <1>2, <1>4, <2>1, <2>2
<1>6. CASE BreakByPin
  <2>1. PICK N \in ByPin : Break(elements, N)
    BY <1>6 DEF BreakByPin
  <2>2. ~Mismatch(N, ex)
    BY <1>3, ByPinEven
  <2> QED BY <1>2, <1>4, <2>1, <2>2
<1>7. CASE BreakArbitrarily
  <2>1. CASE \E E \in OnePair(elements) : Break(E, nodes)
    <3>1. PICK E \in OnePair(elements) : Break(E, nodes)
      BY <2>1
    <3>2. ~Mismatch(E, ex)
      BY <1>1, <1>3, OnePairEven
    <3> QED BY <1>2, <1>4, <3>1, <3>2
  <2>2. CASE \E N \in OnePair(nodes) : Break(elements, N)
    <3>1. PICK N \in OnePair(nodes) : Break(elements, N)
      BY <2>2
    <3>2. ~Mismatch(N, ex)
      BY <1>1, <1>3, OnePairEven
    <3> QED BY <1>2, <1>4, <3>1, <3>2
  <2> QED BY <1>7, <2>1, <2>2 DEF BreakArbitrarily
<1> QED BY <1>5, <1>6, <1>7

(***************************************************************************)
(* The session.  A resolver is called after an exhaustive iteration without *)
(* a mismatch.                                                              *)
(***************************************************************************)
Fresh == OneValue(elements) /\ OneValue(nodes)

Refreshed ==
  /\ pc \notin {"idle", "converge"} => ExhaustiveSubdivision = TRUE
  /\ pc \in {"verify", "settling", "return"} \cup Resolvers => BadMatchDetected \/ Fresh

LEMMA IterateFresh ==
  ASSUME Iterate, ExhaustiveSubdivision = TRUE
  PROVE  BadMatchDetected' \/ Fresh'
<1> DEFINE E == RehashedElements(elements, nodes)
           N == RehashedNodes(elements', nodes)
<1>1. /\ elements' = Fracture(E, TRUE) /\ nodes' = Fracture(N, TRUE)
      /\ BadMatchDetected' = (BadMatchDetected \/ Mismatch(E, TRUE) \/ Mismatch(N, TRUE))
  BY DEF Iterate, FractureLists
<1> HIDE DEF E, N
<1>2. ASSUME ~BadMatchDetected' PROVE OneValue(elements') /\ OneValue(nodes')
  BY <1>1, <1>2, FractureOneValue
<1> QED BY <1>2 DEF Fresh, OneValue

LEMMA NextRefreshed == TypeOK /\ Refreshed /\ [Next]_vars => Refreshed'
<1> SUFFICES ASSUME TypeOK, Refreshed, [Next]_vars PROVE Refreshed'
  OBVIOUS
<1> USE DEF Resolvers
<1>1. CASE pc' \in {"idle", "converge"}
  BY <1>1 DEF Refreshed
<1>2. CASE Converge
  BY <1>2 DEF Converge, Refreshed
<1>3. CASE Exhaust \/ Settle
  <2>1. Iterate /\ ExhaustiveSubdivision = TRUE /\ UNCHANGED ExhaustiveSubdivision
    BY <1>3 DEF Exhaust, Settle, Refreshed
  <2> QED BY <2>1, IterateFresh DEF Refreshed
<1>4. CASE Resolve
  <2>1. ExhaustiveSubdivision' = TRUE /\ pc' = "settle"
    BY <1>4 DEF Resolve, BreakByProperty, BreakByPin, BreakArbitrarily, Break
  <2> QED BY <2>1 DEF Refreshed
<1>5. CASE VerifyResolving \/ Settling \/ Return
  <2>1. /\ UNCHANGED <<elements, nodes, ExhaustiveSubdivision, BadMatchDetected>>
        /\ pc \in {"verify", "settling", "return"}
    BY <1>5 DEF VerifyResolving, Settling, Return, lists
  <2> QED BY <2>1 DEF Refreshed, Fresh, OneValue
<1>6. CASE Interrupt \/ UNCHANGED vars
  <2>1. UNCHANGED <<elements, nodes, ExhaustiveSubdivision, BadMatchDetected, pc>>
    BY <1>6 DEF Interrupt, vars, control, netcmp, lists, flags
  <2> QED BY <2>1 DEF Refreshed, Fresh, OneValue
<1>7. ASSUME \/ \E p \in Pairs : Compare(p)
             \/ IterateOnce \/ \E on \in BOOLEAN : Exhaustive(on)
             \/ Restart \/ Verify
             \/ \E C \in elements.classes : \E a \in In(C.members, 1), b \in In(C.members, 2) :
                  EquateElements(C, a, b)
             \/ \E C \in nodes.classes : \E a \in In(C.members, 1), b \in In(C.members, 2) :
                  EquateNodes(C, a, b)
             \/ \E c \in {"converge", "resolve"} : Run(c)
             \/ VerifyConverged \/ Report
      PROVE  pc' \in {"idle", "converge"}
  BY <1>7 DEF Compare, IterateOnce, Exhaustive, Restart, Verify, EquateElements, EquateNodes,
              Run, VerifyConverged, Report, Given, Idle, control
<1> QED BY <1>1, <1>2, <1>3, <1>4, <1>5, <1>6, <1>7 DEF Next, Executing

BreakInv == TypeOK /\ IllegalOnlyIfBad /\ ClassesOneCell /\ ResolvingIsSound /\ Refreshed

\* Breaking symmetries, by properties, by the names of ports or by choosing any two members,
\* never makes a mismatch: every new hash value is given to as many of either circuit.
THEOREM BreaksKeepBalance ==
  ASSUME \A p \in Pairs : NamesTellApart(p)
  PROVE  Spec => BreakKeepsBalance
<1>1. Init => BreakInv
  <2>1. Init => ClassesOneCell /\ ResolvingIsSound /\ Refreshed /\ IllegalOnlyIfBad
    BY DEF Init, ClassesOneCell, ResolvingIsSound, Refreshed, Resolvers, EmptyList, Partition,
           IllegalOnlyIfBad
  <2> QED BY <2>1, InitTypeOK DEF BreakInv
<1>2. BreakInv /\ [Next]_vars => BreakInv'
  BY NextTypeOK, NextSound, NextOneCellOrBad, NextResolving, NextRefreshed DEF BreakInv
<1>3. BreakInv /\ [Next]_vars => [Resolve => BadMatchDetected' = BadMatchDetected]_vars
  <2> SUFFICES ASSUME BreakInv, Resolve PROVE BadMatchDetected' = BadMatchDetected
    OBVIOUS
  <2>1. /\ BreakByProperty \/ BreakByPin \/ BreakArbitrarily
        /\ pc \in Resolvers
    BY DEF Resolve, Resolvers
  <2>2. Compared /\ NamesTellApart(pair)
    <3>1. pair # NoPair
      BY <2>1 DEF BreakInv, TypeOK, ControlOK, Resolvers
    <3>2. Compared
      BY <3>1, PairCompared DEF BreakInv
    <3> QED BY <3>2 DEF Compared
  <2>3. BadMatchDetected = FALSE /\ OneValue(elements) /\ OneValue(nodes)
    BY <2>1 DEF BreakInv, ResolvingIsSound, Refreshed, Fresh, TypeOK, FlagsOK
  <2>4. AllBalanced(elements) /\ AllBalanced(nodes)
    BY <2>3 DEF BreakInv, IllegalOnlyIfBad, AllBalanced
  <2> QED BY <2>1, <2>2, <2>3, <2>4, BreaksEvenly DEF BreakInv
<1> QED BY <1>1, <1>2, <1>3, PTL DEF Spec, BreakKeepsBalance
==============================================================================
