------------------------ MODULE CompareSession_proof ------------------------
(***************************************************************************)
(* Invariants of a session, for circuits of any size: the classes are       *)
(* partitions of the elements and of the nets (TypeOK), a class that does   *)
(* not match is never there without BadMatchDetected (IllegalOnlyIfBad),    *)
(* and a legal class is of one cell (LegalClassesAreOneCell).               *)
(*                                                                          *)
(* First the lemmas about the operations of ClassLists: each of them keeps  *)
(* a list a list of classes that partition its members (ListOK), and leaves *)
(* an illegal class or one without as many members of either circuit        *)
(* (Sound does not hold) only where it reports a mismatch.                  *)
(***************************************************************************)
EXTENDS CompareSession, FiniteSetTheorems, TLAPS

\* Every class is legal and balanced, unless a mismatch was detected.
Sound(L, bad) == \A C \in L.classes : ~C.legal \/ ~Balanced(C.members) => bad

(***************************************************************************)
(* Finite sets.                                                             *)
(***************************************************************************)
\* A finite set of numbers that is not empty has a largest element, which is
\* what Largest returns.
LEMMA LargestExists ==
  ASSUME NEW S, IsFiniteSet(S), S \subseteq Nat, S # {}
  PROVE  Largest(S) \in S
<1> DEFINE Above(i) == {j \in S : j > i}
           T == {Above(i) : i \in S}
<1>1. FiniteSubsetsOf(S) = SUBSET S
  BY FS_FiniteSubsetsOfFinite
<1>2. T \subseteq SUBSET S /\ T # {}
  <2>1. \A i \in S : Above(i) \in SUBSET S
    OBVIOUS
  <2>2. PICK i \in S : TRUE
    OBVIOUS
  <2>3. Above(i) \in T
    BY <2>2
  <2> HIDE DEF Above
  <2> QED BY <2>1, <2>3
<1>3. IsWellFoundedOn(StrictSubsetOrdering(S), SUBSET S)
  BY <1>1, FS_StrictSubsetOrderingWellFounded
<1>4. PICK U \in T : \A V \in T : ~ (<<V, U>> \in StrictSubsetOrdering(S))
  <2> HIDE DEF T
  <2> DEFINE Order == StrictSubsetOrdering(S)
             All == SUBSET S
  <2>1. IsWellFoundedOn(Order, All) /\ T \subseteq All /\ T # {}
    BY <1>2, <1>3
  <2> HIDE DEF Order, All
  <2>2. \E x \in T : \A y \in T : ~ (<<y, x>> \in Order)
    BY <2>1, WFMin
  <2> QED BY <2>2 DEF Order
<1>5. PICK i \in S : U = Above(i)
  BY <1>4
<1>6. Above(i) = {}
  <2> SUFFICES ASSUME NEW j \in S, j > i PROVE FALSE
    OBVIOUS
  <2>1. /\ i \in Nat /\ j \in Nat
        /\ \A k \in S : k \in Nat
    OBVIOUS
  <2>2. j \in Above(i) /\ j \notin Above(j)
    BY <2>1
  <2>3. Above(j) \subseteq Above(i)
    <3> SUFFICES ASSUME NEW k \in S, k > j PROVE k > i
      OBVIOUS
    <3> QED BY <2>1
  <2>4. <<Above(j), U>> \in StrictSubsetOrdering(S)
    BY <2>2, <2>3, <1>5 DEF StrictSubsetOrdering
  <2> QED BY <2>4, <1>4
<1>7. \A j \in S : j <= i
  BY <1>6
<1> QED BY <1>7 DEF Largest

\* A finite set has finitely many classes of members.
LEMMA ClassesFinite ==
  ASSUME NEW X, IsFiniteSet(X),
         NEW classes, classes \subseteq [members : SUBSET X, legal : BOOLEAN]
  PROVE  IsFiniteSet(classes)
<1> DEFINE Parts == (SUBSET X) \X BOOLEAN
           class == [t \in Parts |-> [members |-> t[1], legal |-> t[2]]]
           All == {class[t] : t \in Parts}
<1>1. IsFiniteSet(SUBSET X)
  BY FS_SUBSET
<1>2. IsFiniteSet({TRUE}) /\ IsFiniteSet({TRUE} \cup {FALSE})
  BY FS_Singleton, FS_AddElement
<1>3. BOOLEAN = {TRUE} \cup {FALSE}
  OBVIOUS
<1>4. IsFiniteSet(BOOLEAN)
  BY <1>2, <1>3
<1>5. IsFiniteSet(Parts)
  BY <1>1, <1>4, FS_Product
<1>6. IsFiniteSet(All)
  <2>1. class \in Surjection(Parts, All)
    BY DEF Surjection
  <2> QED BY <1>5, <2>1, FS_Surjection
<1>7. classes \subseteq All
  <2> SUFFICES ASSUME NEW C \in classes PROVE C \in All
    OBVIOUS
  <2>1. C.members \in SUBSET X /\ C.legal \in BOOLEAN /\ C = [members |-> C.members, legal |-> C.legal]
    OBVIOUS
  <2>2. <<C.members, C.legal>> \in Parts /\ C = class[<<C.members, C.legal>>]
    BY <2>1
  <2> QED BY <2>2
<1> QED BY <1>6, <1>7, FS_Subset

(***************************************************************************)
(* Hash values and groups.                                                  *)
(***************************************************************************)
\* Hash values partition the members that are hashed.
LEMMA HashedPartition ==
  ASSUME NEW key
  PROVE  IsPartition(Hashed(key), DOMAIN key)
BY DEF IsPartition, Hashed

\* A set of hash values that tells all members of S apart.
Covers(hash, S) ==
  /\ S \subseteq UNION hash
  /\ \A g, h \in hash : g \cap h # {} => g = h

\* The groups of equal hash values of a class partition the class.
LEMMA GroupsPartition ==
  ASSUME NEW S, NEW hash, Covers(hash, S)
  PROVE  IsPartition(Groups(S, hash), S)
<1>1. UNION Groups(S, hash) = S
  <2>1. ASSUME NEW x \in S PROVE \E g \in Groups(S, hash) : x \in g
    <3>1. PICK h \in hash : x \in h
      BY DEF Covers
    <3>2. S \cap h \in Groups(S, hash) /\ x \in S \cap h
      BY <3>1 DEF Groups
    <3> QED BY <3>2
  <2>2. \A g \in Groups(S, hash) : g \subseteq S
    BY DEF Groups
  <2> QED BY <2>1, <2>2
<1>2. {} \notin Groups(S, hash)
  BY DEF Groups
<1>3. ASSUME NEW g \in Groups(S, hash), NEW h \in Groups(S, hash), g \cap h # {}
      PROVE  g = h
  <2>1. PICK a \in hash, b \in hash : g = S \cap a /\ h = S \cap b
    BY DEF Groups
  <2>2. a \cap b # {}
    BY <1>3, <2>1
  <2> QED BY <2>1, <2>2 DEF Covers
<1> QED BY <1>1, <1>2, <1>3 DEF IsPartition

\* MakeElist and MakeNlist make classes that partition the class they are
\* given: the groups that are regrouped as illegal are disjoint from the rest.
LEMMA MakeListClasses ==
  ASSUME NEW S, S # {}, NEW hash, Covers(hash, S)
  PROVE  ClassesOK(MakeList(S, hash), S)
<1> DEFINE G == Groups(S, hash)
           B == IllegalGroups(S, hash)
           M == MakeList(S, hash)
<1>1. /\ UNION G = S
      /\ {} \notin G
      /\ \A g, h \in G : g \cap h # {} => g = h
  BY GroupsPartition DEF IsPartition
<1>2. B \subseteq G
  BY DEF IllegalGroups
<1>3. M = {Class(g, TRUE) : g \in G \ B}
            \cup (IF B = {} THEN {} ELSE {Class(UNION B, FALSE)})
  BY DEF MakeList
<1> HIDE DEF G, B, M
<1>4. \A C \in M : \/ \E g \in G \ B : C = Class(g, TRUE)
                   \/ B # {} /\ C = Class(UNION B, FALSE)
  BY <1>3
<1>5. M \subseteq [members : SUBSET S, legal : BOOLEAN]
  <2> SUFFICES ASSUME NEW C \in M PROVE C \in [members : SUBSET S, legal : BOOLEAN]
    OBVIOUS
  <2>1. CASE \E g \in G \ B : C = Class(g, TRUE)
    BY <1>1, <2>1 DEF Class
  <2>2. CASE C = Class(UNION B, FALSE)
    <3>1. UNION B \subseteq S
      BY <1>1, <1>2
    <3> QED BY <3>1, <2>2 DEF Class
  <2> QED BY <1>4, <2>1, <2>2
<1>6. UNION {C.members : C \in M} = S
  <2>1. \A C \in M : C.members \subseteq S
    BY <1>5
  <2>2. ASSUME NEW x \in S PROVE \E C \in M : x \in C.members
    <3>1. PICK g \in G : x \in g
      BY <1>1
    <3>2. CASE g \in B
      <4>1. Class(UNION B, FALSE) \in M
        BY <1>3, <3>2
      <4>2. x \in Class(UNION B, FALSE).members
        BY <3>1, <3>2 DEF Class
      <4> QED BY <4>1, <4>2
    <3>3. CASE g \notin B
      <4>1. Class(g, TRUE) \in M
        BY <1>3, <3>3
      <4>2. x \in Class(g, TRUE).members
        BY <3>1 DEF Class
      <4> QED BY <4>1, <4>2
    <3> QED BY <3>2, <3>3
  <2> QED BY <2>1, <2>2
<1>7. ASSUME NEW C \in M PROVE C.members # {}
  <2>1. CASE \E g \in G \ B : C = Class(g, TRUE)
    <3>1. PICK g \in G : C = Class(g, TRUE)
      BY <2>1
    <3>2. C.members = g
      BY <3>1 DEF Class
    <3> QED BY <1>1, <3>2
  <2>2. CASE B # {} /\ C = Class(UNION B, FALSE)
    <3>1. UNION B # {}
      BY <1>1, <1>2, <2>2
    <3> QED BY <3>1, <2>2 DEF Class
  <2> QED BY <1>4, <2>1, <2>2
<1>8. ASSUME NEW C \in M, NEW D \in M, C.members \cap D.members # {}
      PROVE  C = D
  <2>1. PICK x : x \in C.members /\ x \in D.members
    BY <1>8
  <2>2. ASSUME NEW g \in G \ B PROVE g \cap UNION B = {}
    BY <1>1, <1>2
  <2>3. CASE (\E g \in G \ B : C = Class(g, TRUE)) /\ (\E h \in G \ B : D = Class(h, TRUE))
    <3>1. PICK g \in G \ B, h \in G \ B : C = Class(g, TRUE) /\ D = Class(h, TRUE)
      BY <2>3
    <3>2. x \in g /\ x \in h
      BY <2>1, <3>1 DEF Class
    <3>3. g = h
      BY <1>1, <3>2
    <3> QED BY <3>1, <3>3
  <2>4. CASE (\E g \in G \ B : C = Class(g, TRUE)) /\ D = Class(UNION B, FALSE)
    BY <2>1, <2>2, <2>4 DEF Class
  <2>5. CASE (\E h \in G \ B : D = Class(h, TRUE)) /\ C = Class(UNION B, FALSE)
    BY <2>1, <2>2, <2>5 DEF Class
  <2>6. CASE C = Class(UNION B, FALSE) /\ D = Class(UNION B, FALSE)
    BY <2>6
  <2> QED BY <1>4, <2>3, <2>4, <2>5, <2>6
<1>9. M = MakeList(S, hash)
  BY DEF M
<1> QED BY <1>5, <1>6, <1>7, <1>8, <1>9 DEF ClassesOK

(***************************************************************************)
(* The operations on lists.                                                 *)
(***************************************************************************)
\* Each class may be replaced by classes that partition it.
LEMMA SplitClasses ==
  ASSUME NEW X, NEW classes, ClassesOK(classes, X),
         NEW F \in SUBSET classes,
         NEW parts, \A C \in F : ClassesOK(parts[C], C.members),
         NEW All,
         \A D : D \in All <=> D \in classes \ F \/ \E C \in F : D \in parts[C]
  PROVE  ClassesOK(All, X)
<1>1. /\ classes \subseteq [members : SUBSET X, legal : BOOLEAN]
      /\ UNION {C.members : C \in classes} = X
      /\ \A C \in classes : C.members # {}
      /\ \A C, D \in classes : C.members \cap D.members # {} => C = D
  BY DEF ClassesOK
<1>2. \A C \in F :
        /\ parts[C] \subseteq [members : SUBSET C.members, legal : BOOLEAN]
        /\ UNION {D.members : D \in parts[C]} = C.members
        /\ \A D \in parts[C] : D.members # {}
        /\ \A D, E \in parts[C] : D.members \cap E.members # {} => D = E
  BY DEF ClassesOK
<1>3. ASSUME NEW C \in F, NEW D \in parts[C]
      PROVE  /\ D.members \subseteq C.members
             /\ D \in [members : SUBSET X, legal : BOOLEAN]
  <2>1. C.members \subseteq X
    BY <1>1
  <2>2. D \in [members : SUBSET C.members, legal : BOOLEAN]
    BY <1>2
  <2> QED BY <2>1, <2>2
<1>4. All \subseteq [members : SUBSET X, legal : BOOLEAN]
  BY <1>1, <1>3
<1>5. UNION {D.members : D \in All} = X
  <2>1. \A D \in All : D.members \subseteq X
    BY <1>4
  <2>2. ASSUME NEW x \in X PROVE \E D \in All : x \in D.members
    <3>1. PICK C \in classes : x \in C.members
      BY <1>1
    <3>2. CASE C \in F
      <4>1. PICK D \in parts[C] : x \in D.members
        BY <1>2, <3>1, <3>2
      <4> QED BY <3>2, <4>1
    <3>3. CASE C \notin F
      BY <3>1, <3>3
    <3> QED BY <3>2, <3>3
  <2> QED BY <2>1, <2>2
<1>6. \A D \in All : D.members # {}
  BY <1>1, <1>2
<1>7. ASSUME NEW D \in All, NEW E \in All, D.members \cap E.members # {}
       PROVE  D = E
  <2>1. PICK x : x \in D.members /\ x \in E.members
    BY <1>7
  <2>2. ASSUME NEW C1 \in F, NEW C2 \in F, D \in parts[C1], E \in parts[C2]
        PROVE  D = E
    <3>1. x \in C1.members /\ x \in C2.members
      BY <1>3, <2>1, <2>2
    <3>2. C1 = C2
      BY <1>1, <3>1
    <3> QED BY <1>2, <1>7, <2>2, <3>2
  <2>3. ASSUME NEW C \in F, NEW K \in classes \ F, NEW P \in parts[C],
               x \in P.members, x \in K.members
        PROVE  FALSE
    <3>1. x \in C.members
      BY <1>3, <2>3
    <3> QED BY <1>1, <2>3, <3>1
  <2> QED BY <1>1, <1>7, <2>1, <2>2, <2>3
<1> QED BY <1>4, <1>5, <1>6, <1>7 DEF ClassesOK

\* The hash values of a list tell the members of each of its classes apart.
LEMMA ListCovers ==
  ASSUME NEW X, NEW L, ListOK(L, X), NEW C \in L.classes
  PROVE  C.members # {} /\ Covers(L.hash, C.members)
BY DEF ListOK, ClassesOK, IsPartition, Covers

\* FractureElementClass and FractureNodeClass keep the classes a partition.
LEMMA FractureOK ==
  ASSUME NEW X, IsFiniteSet(X), NEW L, ListOK(L, X), NEW exhaustive
  PROVE  ListOK(Fracture(L, exhaustive), X)
<1> DEFINE F == Fractured(L, exhaustive)
           parts == [C \in F |-> MakeList(C.members, L.hash)]
           All == FracturedClasses(L, exhaustive)
<1>1. F \in SUBSET L.classes
  BY DEF Fractured
<1>2. ASSUME NEW C \in F PROVE ClassesOK(parts[C], C.members)
  <2>1. C.members # {} /\ Covers(L.hash, C.members)
    BY <1>1, ListCovers
  <2>2. ClassesOK(MakeList(C.members, L.hash), C.members)
    BY <2>1, MakeListClasses
  <2> QED BY <2>2
<1>3. All = (L.classes \ F) \cup UNION {parts[C] : C \in F}
  BY DEF FracturedClasses
<1>4. ClassesOK(L.classes, X)
  BY DEF ListOK
<1>5. ClassesOK(All, X)
  <2>1. \A D : D \in All <=> D \in L.classes \ F \/ \E C \in F : D \in parts[C]
    BY <1>3
  <2> HIDE DEF F, parts, All
  <2> QED BY <1>1, <1>2, <1>4, <2>1, SplitClasses
<1>6. IsFiniteSet(All)
  BY <1>5, ClassesFinite DEF ClassesOK
<1>7. Cardinality(All) \in Nat
  BY <1>6, FS_CardinalityType
<1>8. Fracture(L, exhaustive) = [classes |-> All, hash |-> L.hash, old |-> Cardinality(All)]
  BY DEF Fracture
<1> HIDE DEF All
<1> QED BY <1>5, <1>7, <1>8 DEF ListOK

\* The list of all members in one class, as it is first fractured.
LEMMA InitialListOK ==
  ASSUME NEW key, DOMAIN key # {}
  PROVE  ListOK(InitialList(key), DOMAIN key)
<1>1. IsPartition(Hashed(key), DOMAIN key)
  BY HashedPartition
<1>2. ClassesOK({Class(DOMAIN key, TRUE)}, DOMAIN key)
  BY DEF ClassesOK, Class
<1> QED BY <1>1, <1>2 DEF ListOK, InitialList

LEMMA EmptyListOK == ListOK(EmptyList, {})
BY DEF ListOK, EmptyList, ClassesOK, IsPartition

\* The members of the classes of a list.
LEMMA ListMembers ==
  ASSUME NEW X, NEW L, ListOK(L, X)
  PROVE  Members(L) = X
BY DEF ListOK, ClassesOK, Members

\* Every member has the hash value and the class it is in.
LEMMA MemberOf ==
  ASSUME NEW X, NEW L, ListOK(L, X), NEW x \in X
  PROVE  /\ HashOf(L, x) \in L.hash /\ x \in HashOf(L, x)
         /\ ClassOf(L, x) \in Partition(L) /\ x \in ClassOf(L, x)
<1>1. \E h \in L.hash : x \in h
  BY DEF ListOK, IsPartition
<1>2. \E S \in Partition(L) : x \in S
  BY DEF ListOK, ClassesOK, Partition
<1> QED BY <1>1, <1>2 DEF HashOf, ClassOf

\* The only member of a circuit.
LEMMA CountOne ==
  ASSUME NEW S, IsFiniteSet(S), NEW c, Count(S, c) = 1
  PROVE  \E x \in S : In(S, c) = {x}
<1>1. IsFiniteSet(In(S, c))
  BY FS_Subset DEF In
<1>2. PICK x : In(S, c) = {x}
  BY <1>1, FS_Singleton DEF Count
<1> QED BY <1>2 DEF In

\* New hash values leave the classes alone.
LEMMA NewHashOK ==
  ASSUME NEW X, NEW L, ListOK(L, X), NEW key, DOMAIN key = X
  PROVE  ListOK([L EXCEPT !.hash = Hashed(key)], X)
<1>1. IsPartition(Hashed(key), X)
  BY HashedPartition
<1> QED BY <1>1 DEF ListOK

\* Iterate marks classes as illegal, and changes no members.
LEMMA RehashOK ==
  ASSUME NEW X, NEW L, ListOK(L, X), NEW key, DOMAIN key = X
  PROVE  ListOK(Rehash(L, key), X)
<1> DEFINE M == {Marked(C) : C \in L.classes}
<1>1. ClassesOK(L.classes, X)
  BY DEF ListOK
<1>2. \A C \in L.classes : /\ Marked(C).members = C.members
                           /\ Marked(C) \in [members : SUBSET X, legal : BOOLEAN]
  BY <1>1 DEF ClassesOK, Marked, Class
<1>3. M \subseteq [members : SUBSET X, legal : BOOLEAN]
  BY <1>2
<1>4. UNION {D.members : D \in M} = X
  <2>1. \A D \in M : D.members \subseteq X
    BY <1>3
  <2>2. ASSUME NEW x \in X PROVE \E D \in M : x \in D.members
    BY <1>1, <1>2 DEF ClassesOK
  <2> QED BY <2>1, <2>2
<1>5. \A D \in M : D.members # {}
  BY <1>1, <1>2 DEF ClassesOK
<1>6. \A D, E \in M : D.members \cap E.members # {} => D = E
  BY <1>1, <1>2 DEF ClassesOK
<1>7. ClassesOK(M, X)
  BY <1>3, <1>4, <1>5, <1>6 DEF ClassesOK
<1>8. IsPartition(Hashed(key), X)
  BY HashedPartition
<1>9. Rehash(L, key) = [classes |-> M, hash |-> Hashed(key), old |-> L.old]
  BY DEF Rehash
<1> HIDE DEF M
<1> QED BY <1>7, <1>8, <1>9 DEF ListOK

\* EquivalenceElements and EquivalenceNodes split one class.
LEMMA EquateOK ==
  ASSUME NEW X, NEW L, ListOK(L, X), NEW C \in L.classes,
         NEW a \in C.members, NEW b \in C.members
  PROVE  ListOK(Equate(L, C, a, b), X)
<1> DEFINE hash == EquatedHash(C, a, b)
           parts == [D \in {C} |-> MakeList(D.members, hash)]
           All == (L.classes \ {C}) \cup MakeList(C.members, hash)
           rest == {h \ C.members : h \in L.hash}
           Hash == (rest \cup hash) \ {{}}
<1>1. ClassesOK(L.classes, X) /\ IsPartition(L.hash, X) /\ L.old \in Nat
  BY DEF ListOK
<1>2. C.members # {} /\ C.members \subseteq X
  BY <1>1 DEF ClassesOK
<1>3. Covers(hash, C.members) /\ UNION hash = C.members
  BY DEF Covers, EquatedHash
<1>4. ClassesOK(All, X)
  <2>1. ClassesOK(MakeList(C.members, hash), C.members)
    BY <1>2, <1>3, MakeListClasses
  <2>2. \A D \in {C} : ClassesOK(parts[D], D.members)
    BY <2>1
  <2>3. \A D : D \in All <=> D \in L.classes \ {C} \/ \E E \in {C} : D \in parts[E]
    OBVIOUS
  <2>4. {C} \in SUBSET L.classes
    OBVIOUS
  <2> HIDE DEF hash, parts, All
  <2> QED BY <1>1, <2>2, <2>3, <2>4, SplitClasses
<1>5. IsPartition(Hash, X)
  <2>1. \A g \in Hash : g # {} /\ ((\E h \in L.hash : g = h \ C.members) \/ g \in hash)
    OBVIOUS
  <2>2. \A g \in Hash : g \subseteq X
    BY <1>1, <1>2, <1>3, <2>1 DEF IsPartition
  <2>3. ASSUME NEW x \in X PROVE \E g \in Hash : x \in g
    <3>1. CASE x \in C.members
      <4>1. PICK g \in hash : x \in g
        BY <1>3, <3>1
      <4> HIDE DEF hash
      <4> QED BY <4>1
    <3>2. CASE x \notin C.members
      <4>1. PICK h \in L.hash : x \in h
        BY <1>1 DEF IsPartition
      <4>2. h \ C.members \in Hash
        BY <3>2, <4>1
      <4> QED BY <3>2, <4>1, <4>2
    <3> QED BY <3>1, <3>2
  <2>4. UNION Hash = X
    <3> HIDE DEF Hash
    <3> QED BY <2>2, <2>3
  <2>5. ASSUME NEW g \in Hash, NEW h \in Hash, g \cap h # {}
        PROVE  g = h
    <3>1. \A k \in hash : k \subseteq C.members
      BY <1>3
    <3>2. \A k, l \in hash : k \cap l # {} => k = l
      BY <1>3 DEF Covers
    <3>3. \A k, l \in L.hash : k \cap l # {} => k = l
      BY <1>1 DEF IsPartition
    <3>4. PICK x : x \in g /\ x \in h
      BY <2>5
    <3>5. /\ (\E k \in L.hash : g = k \ C.members) \/ g \in hash
          /\ (\E l \in L.hash : h = l \ C.members) \/ h \in hash
      BY <2>1
    <3> HIDE DEF Hash, hash
    <3>6. CASE x \in C.members
      BY <3>2, <3>4, <3>5, <3>6
    <3>7. CASE x \notin C.members
      <4>1. PICK k \in L.hash, l \in L.hash : g = k \ C.members /\ h = l \ C.members
        BY <3>1, <3>4, <3>5, <3>7
      <4>2. k = l
        BY <3>3, <3>4, <4>1
      <4> QED BY <4>1, <4>2
    <3> QED BY <3>6, <3>7
  <2> HIDE DEF Hash
  <2> QED BY <2>1, <2>4, <2>5 DEF IsPartition
<1>6. Equate(L, C, a, b) = [classes |-> All, hash |-> Hash, old |-> L.old]
  BY DEF Equate
<1> HIDE DEF All, Hash
<1> QED BY <1>1, <1>4, <1>5, <1>6 DEF ListOK

(***************************************************************************)
(* Illegal classes.                                                         *)
(***************************************************************************)
\* MakeElist and MakeNlist make an illegal or unbalanced class only when there
\* are illegal groups, for which they set BadMatchDetected.
LEMMA MakeListSound ==
  ASSUME NEW S, NEW hash, NEW C \in MakeList(S, hash),
         ~C.legal \/ ~Balanced(C.members)
  PROVE  IllegalGroups(S, hash) # {}
<1> SUFFICES ASSUME IllegalGroups(S, hash) = {} PROVE FALSE
  OBVIOUS
<1>1. PICK g \in Groups(S, hash) : C = Class(g, TRUE)
  BY DEF MakeList
<1>2. Balanced(g)
  BY DEF IllegalGroups
<1> QED BY <1>1, <1>2 DEF Class

\* So do FractureElementClass and FractureNodeClass.
LEMMA FractureSound ==
  ASSUME NEW L, NEW bad, Sound(L, bad), NEW exhaustive
  PROVE  Sound(Fracture(L, exhaustive), bad \/ Mismatch(L, exhaustive))
<1> SUFFICES ASSUME NEW C \in Fracture(L, exhaustive).classes,
                    ~C.legal \/ ~Balanced(C.members)
             PROVE  bad \/ Mismatch(L, exhaustive)
  BY DEF Sound
<1>1. C \in FracturedClasses(L, exhaustive)
  BY DEF Fracture
<1>2. CASE C \in L.classes \ Fractured(L, exhaustive)
  BY <1>2 DEF Sound
<1>3. CASE \E D \in Fractured(L, exhaustive) : C \in MakeList(D.members, L.hash)
  BY <1>3, MakeListSound DEF Mismatch
<1> QED BY <1>1, <1>2, <1>3 DEF FracturedClasses

\* After every class has been fractured, mismatches found then are all there
\* are.
LEMMA FractureAllSound ==
  ASSUME NEW L
  PROVE  Sound(Fracture(L, TRUE), Mismatch(L, TRUE))
<1> SUFFICES ASSUME NEW C \in Fracture(L, TRUE).classes,
                    ~C.legal \/ ~Balanced(C.members)
             PROVE  Mismatch(L, TRUE)
  BY DEF Sound
<1>1. Fractured(L, TRUE) = L.classes
  BY DEF Fractured
<1>2. C \in FracturedClasses(L, TRUE)
  BY DEF Fracture
<1>3. PICK D \in L.classes : C \in MakeList(D.members, L.hash)
  BY <1>1, <1>2 DEF FracturedClasses
<1> QED BY <1>1, <1>3, MakeListSound DEF Mismatch

\* Iterate marks only classes that are unbalanced.
LEMMA RehashSound ==
  ASSUME NEW L, NEW bad, Sound(L, bad), NEW key
  PROVE  Sound(Rehash(L, key), bad)
BY DEF Sound, Rehash, Marked, Class

\* Equating two members makes an illegal class only where it reports it.
LEMMA EquateSound ==
  ASSUME NEW L, NEW bad, Sound(L, bad), NEW C, NEW a, NEW b
  PROVE  Sound(Equate(L, C, a, b),
               bad \/ IllegalGroups(C.members, EquatedHash(C, a, b)) # {})
<1> SUFFICES ASSUME NEW D \in Equate(L, C, a, b).classes,
                    ~D.legal \/ ~Balanced(D.members)
             PROVE  bad \/ IllegalGroups(C.members, EquatedHash(C, a, b)) # {}
  BY DEF Sound
<1>1. CASE D \in L.classes
  BY <1>1 DEF Sound
<1>2. CASE D \in MakeList(C.members, EquatedHash(C, a, b))
  BY <1>2, MakeListSound
<1> QED BY <1>1, <1>2 DEF Equate


(***************************************************************************)
(* The netlists.                                                            *)
(***************************************************************************)
LEMMA NetlistsFinite ==
  ASSUME NEW p \in Pairs
  PROVE  IsFiniteSet(Elements(p)) /\ IsFiniteSet(Nodes(p))
<1>1. Elements(p) \subseteq Element /\ IsFiniteSet(Element) /\ IsFiniteSet(Net)
  BY NetlistsAssumption
<1>2. Netlist[p].conn \in [Elements(p) -> [Pin -> Net \cup {NoNet}]]
  BY NetlistsAssumption
<1>3. Nodes(p) \subseteq Net
  BY <1>2 DEF Nodes
<1> QED BY <1>1, <1>3, FS_Subset

\* The magic numbers of pins are of their type, before Permute and after it.
LEMMA MagicType ==
  ASSUME NEW p \in Pairs
  PROVE  /\ FirstMagic[p] \in [Elements(p) -> [Pin -> Model \X Pin]]
         /\ Permute[p] \in [Elements(p) -> [Pin -> Model \X Pin]]
<1>1. \A e \in Elements(p) : Netlist[p].model[e] \in Model
  BY NetlistsAssumption
<1>2. \A e \in Elements(p) : SeededMagic(p, e) \in [Pin -> Model \X Pin]
  BY <1>1 DEF SeededMagic
<1>3. ASSUME NEW R, NEW i \in Pin PROVE Largest(Permutable(R, i)) \in Pin
  <2>1. Permutable(R, i) \subseteq Pin /\ i \in Permutable(R, i)
    BY DEF Permutable
  <2>2. IsFiniteSet(Pin) /\ Pin \subseteq Nat
    BY NetlistsAssumption
  <2>3. IsFiniteSet(Permutable(R, i)) /\ Permutable(R, i) \subseteq Nat
    BY <2>1, <2>2, FS_Subset
  <2>4. Largest(Permutable(R, i)) \in Permutable(R, i)
    BY <2>1, <2>3, LargestExists
  <2> QED BY <2>1, <2>4
<1>4. \A e \in Elements(p) : PermutedMagic(p, e) \in [Pin -> Model \X Pin]
  BY <1>1, <1>3 DEF PermutedMagic
<1>5. FirstMagic[p] = [e \in Elements(p) |-> SeededMagic(p, e)]
  BY DEF FirstMagic
<1>6. Permute[p] = [e \in Elements(p) |-> PermutedMagic(p, e)]
  BY DEF Permute
<1> QED BY <1>2, <1>4, <1>5, <1>6

\* The lists that CreateTwoLists and RegroupDataStructures make.
LEMMA FirstListsOK ==
  ASSUME NEW p \in Pairs, HasContents(p)
  PROVE  /\ ListOK(FirstLists[p].elements, Elements(p))
         /\ ListOK(FirstLists[p].nodes, Nodes(p))
         /\ FirstLists[p].mismatch \in BOOLEAN
<1> DEFINE E == FirstElements(p)
           N == FirstNodes(p)
<1>1. /\ FirstLists[p].elements = Fracture(E, TRUE)
      /\ FirstLists[p].nodes = Fracture(N, TRUE)
      /\ FirstLists[p].mismatch \in BOOLEAN
  BY DEF FirstLists
<1>2. Elements(p) # {} /\ Nodes(p) # {}
  BY DEF HasContents, In
<1>3. ListOK(E, Elements(p))
  BY <1>2, InitialListOK DEF FirstElements, Elements
<1>4. ListOK(N, Nodes(p))
  <2> DEFINE key == [n \in Nodes(p) |-> Fanout(p, n)]
  <2>1. DOMAIN key = Nodes(p)
    OBVIOUS
  <2> HIDE DEF key
  <2>2. ListOK(InitialList(key), Nodes(p))
    BY <1>2, <2>1, InitialListOK
  <2> QED BY <2>2 DEF FirstNodes, key
<1> HIDE DEF E, N
<1> QED BY <1>1, <1>3, <1>4, NetlistsFinite, FractureOK

(***************************************************************************)
(* The lists stay partitions, whichever function changes them.              *)
(***************************************************************************)
\* The lists are those of a pair of circuits.
Compared ==
  /\ pair \in Pairs /\ HasContents(pair)
  /\ ListOK(elements, Elements(pair)) /\ ListOK(nodes, Nodes(pair))
  /\ pin_magic \in [Elements(pair) -> [Pin -> Model \X Pin]]

LEMMA ComparedIsPairOK == Compared => PairOK
BY DEF Compared, PairOK

LEMMA IterateOK ==
  ASSUME Compared, Iterate
  PROVE  Compared'
<1> DEFINE E == RehashedElements(elements, nodes)
           E2 == Fracture(E, ExhaustiveSubdivision)
           N == RehashedNodes(elements', nodes)
<1>1. Members(elements) = Elements(pair) /\ Members(nodes) = Nodes(pair)
  BY ListMembers DEF Compared
<1>2. ListOK(E, Elements(pair))
  <2> DEFINE key == [e \in Members(elements) |-> ElementHash(elements, nodes, e)]
  <2>1. DOMAIN key = Elements(pair)
    BY <1>1
  <2> HIDE DEF key
  <2>2. ListOK(Rehash(elements, key), Elements(pair))
    BY <2>1, RehashOK DEF Compared
  <2> QED BY <2>2 DEF key, RehashedElements
<1>3. IsFiniteSet(Elements(pair)) /\ IsFiniteSet(Nodes(pair))
  BY NetlistsFinite DEF Compared
<1>4. ListOK(E2, Elements(pair))
  <2> HIDE DEF E
  <2> QED BY <1>2, <1>3, FractureOK
<1>5. ListOK(N, Nodes(pair))
  <2> DEFINE key == [n \in Members(nodes) |-> NodeHash(elements', n)]
  <2>1. DOMAIN key = Nodes(pair)
    BY <1>1
  <2> HIDE DEF key
  <2>2. ListOK(Rehash(nodes, key), Nodes(pair))
    BY <2>1, RehashOK DEF Compared
  <2> QED BY <2>2 DEF key, RehashedNodes
<1>6. ListOK(Fracture(N, ExhaustiveSubdivision), Nodes(pair))
  <2> HIDE DEF N
  <2> QED BY <1>3, <1>5, FractureOK
<1>7. /\ elements' = E2
      /\ nodes' = Fracture(N, ExhaustiveSubdivision)
      /\ UNCHANGED <<pair, pin_magic>>
  BY DEF Iterate, FractureLists
<1> HIDE DEF E2, N
<1> QED BY <1>4, <1>6, <1>7 DEF Compared

LEMMA BreakOK ==
  ASSUME Compared, NEW E, NEW N, Break(E, N),
         ListOK(E, Elements(pair)), ListOK(N, Nodes(pair))
  PROVE  Compared'
<1>1. IsFiniteSet(Elements(pair)) /\ IsFiniteSet(Nodes(pair))
  BY NetlistsFinite DEF Compared
<1>2. /\ ListOK(Fracture(E, ExhaustiveSubdivision), Elements(pair))
      /\ ListOK(Fracture(N, ExhaustiveSubdivision), Nodes(pair))
  BY <1>1, FractureOK
<1>3. /\ elements' = Fracture(E, ExhaustiveSubdivision)
      /\ nodes' = Fracture(N, ExhaustiveSubdivision)
      /\ UNCHANGED <<pair, pin_magic>>
  BY DEF Break, FractureLists
<1> QED BY <1>2, <1>3 DEF Compared

LEMMA RenewedOK ==
  ASSUME NEW X, NEW L, ListOK(L, X), NEW S, NEW key
  PROVE  ListOK(Renewed(L, S, key), X)
<1> DEFINE new == [x \in Members(L) |->
                     IF x \in S THEN <<"new", ClassOf(L, x), key[x]>>
                     ELSE <<"old", HashOf(L, x)>>]
<1>1. DOMAIN new = X
  BY ListMembers
<1>2. Renewed(L, S, key) = [L EXCEPT !.hash = Hashed(new)]
  BY DEF Renewed
<1> HIDE DEF new
<1> QED BY <1>1, <1>2, NewHashOK

LEMMA ResolversOK ==
  ASSUME Compared, BreakByProperty \/ BreakByPin \/ BreakArbitrarily
  PROVE  Compared'
<1>1. ListOK(elements, Elements(pair)) /\ ListOK(nodes, Nodes(pair))
  BY DEF Compared
<1>2. ASSUME NEW S, NEW key
      PROVE  /\ ListOK(Renewed(elements, S, key), Elements(pair))
             /\ ListOK(Renewed(nodes, S, key), Nodes(pair))
  BY <1>1, RenewedOK
<1>3. CASE BreakByProperty
  <2>1. PICK S : Break(Renewed(elements, S, Netlist[pair].value), nodes)
    BY <1>3 DEF BreakByProperty, ByProperty
  <2> QED BY <2>1, <1>1, <1>2, BreakOK
<1>4. CASE BreakByPin
  <2>1. PICK S : Break(elements, Renewed(nodes, S, Netlist[pair].netname))
    BY <1>4 DEF BreakByPin, ByPin
  <2> QED BY <2>1, <1>1, <1>2, BreakOK
<1>5. CASE BreakArbitrarily
  <2>1. \A L : \A M \in OnePair(L) : \E S, key : M = Renewed(L, S, key)
    BY DEF OnePair
  <2>2. CASE \E E \in OnePair(elements) : Break(E, nodes)
    <3>1. PICK S, key : Break(Renewed(elements, S, key), nodes)
      BY <2>1, <2>2
    <3> QED BY <3>1, <1>1, <1>2, BreakOK
  <2>3. CASE \E N \in OnePair(nodes) : Break(elements, N)
    <3>1. PICK S, key : Break(elements, Renewed(nodes, S, key))
      BY <2>1, <2>3
    <3> QED BY <3>1, <1>1, <1>2, BreakOK
  <2> QED BY <1>5, <2>2, <2>3 DEF BreakArbitrarily
<1> QED BY <1>3, <1>4, <1>5

\* VerifyMatching returns a number.
LEMMA VerifyMatchingType ==
  ASSUME Compared
  PROVE  VerifyMatching \in Int
<1>1. ASSUME NEW X, IsFiniteSet(X), NEW L, ListOK(L, X)
      PROVE  Symmetries(L) \in Nat
  <2>1. Partition(L) \subseteq SUBSET X
    BY <1>1 DEF ListOK, ClassesOK, Partition
  <2>2. IsFiniteSet(SUBSET X)
    BY <1>1, FS_SUBSET
  <2>3. {S \in Partition(L) : ~OneToOne(S)} \in SUBSET SUBSET X
    BY <2>1
  <2>4. IsFiniteSet({S \in Partition(L) : ~OneToOne(S)})
    BY <2>2, <2>3, FS_Subset
  <2> QED BY <2>4, FS_CardinalityType DEF Symmetries
<1>2. Symmetries(elements) \in Nat /\ Symmetries(nodes) \in Nat
  BY <1>1, NetlistsFinite DEF Compared
<1> QED BY <1>2 DEF VerifyMatching

LEMMA VerifyPropertiesType ==
  ASSUME PropertyErrorDetected \in {-1, 0, 1}, VerifyProperties
  PROVE  PropertyErrorDetected' \in {-1, 0, 1}
BY DEF VerifyProperties

LEMMA VerdictType ==
  ASSUME NEW n \in Int
  PROVE  Verdict(n) \in {"mismatch", "port errors", "unique", "symmetries"}
BY DEF Verdict

\* While a pair is compared its lists are in place.
LEMMA PairCompared ==
  ASSUME TypeOK, pair # NoPair
  PROVE  Compared
BY DEF TypeOK, PairOK, Compared

LEMMA ResetStateOK ==
  ASSUME ResetState
  PROVE  PairOK' /\ FlagsOK'
BY EmptyListOK DEF ResetState, PairOK, FlagsOK

LEMMA CreateTwoListsOK ==
  ASSUME NEW p \in Pairs, CreateTwoLists(p)
  PROVE  PairOK' /\ FlagsOK'
<1>1. CASE ~HasContents(p)
  BY <1>1, ResetStateOK DEF CreateTwoLists
<1>2. CASE HasContents(p)
  BY <1>2, FirstListsOK, MagicType DEF CreateTwoLists, PairOK, FlagsOK
<1> QED BY <1>1, <1>2

LEMMA RegroupOK ==
  ASSUME TypeOK, RegroupDataStructures
  PROVE  Compared' /\ FlagsOK'
<1>1. Compared
  BY PairCompared DEF RegroupDataStructures
<1> QED BY <1>1, FirstListsOK, MagicType
        DEF TypeOK, FlagsOK, RegroupDataStructures, Compared

LEMMA EquivalenceElementsOK ==
  ASSUME Compared, NEW C \in elements.classes, NEW a \in C.members, NEW b \in C.members,
         EquivalenceElements(C, a, b)
  PROVE  Compared'
BY EquateOK DEF EquivalenceElements, Compared

LEMMA EquivalenceNodesOK ==
  ASSUME Compared, NEW C \in nodes.classes, NEW a \in C.members, NEW b \in C.members,
         EquivalenceNodes(C, a, b)
  PROVE  Compared'
BY EquateOK DEF EquivalenceNodes, Compared

(***************************************************************************)
(* The type invariant.                                                      *)
(***************************************************************************)
LEMMA InitTypeOK == Init => TypeOK
<1> SUFFICES ASSUME Init PROVE TypeOK
  OBVIOUS
<1>1. PairOK
  BY EmptyListOK DEF Init, PairOK
<1>2. FlagsOK
  BY DEF Init, FlagsOK
<1>3. ControlOK
  <2>1. /\ pc = "idle" /\ command = "none" /\ resolver = "none" /\ report = "none"
        /\ InterruptPending = FALSE /\ automorphisms = 0
    BY DEF Init
  <2>2. automorphisms \in Int
    BY <2>1
  <2>3. InterruptPending \in BOOLEAN
    BY <2>1
  <2> QED BY <2>1, <2>2, <2>3 DEF ControlOK
<1> QED BY <1>1, <1>2, <1>3 DEF TypeOK

LEMMA NextTypeOK == TypeOK /\ [Next]_vars => TypeOK'
<1> SUFFICES ASSUME TypeOK, [Next]_vars PROVE TypeOK'
  OBVIOUS
<1>1. PairOK /\ FlagsOK /\ ControlOK
  BY DEF TypeOK
<1>2. Compared' => PairOK'
  BY DEF Compared, PairOK
<1>3. pair # NoPair => Compared
  BY PairCompared
<1>4. ~Idle => Compared
  BY <1>1, <1>3 DEF ControlOK, Idle
<1>5. ASSUME Compared' PROVE pair' # NoPair
  BY <1>5, NoPairAssumption DEF Compared
<1>6. ASSUME NEW p \in Pairs, Compare(p) PROVE TypeOK'
  <2>1. PairOK' /\ FlagsOK'
    BY <1>6, CreateTwoListsOK DEF Compare
  <2>2. ControlOK'
    BY <1>1, <1>6 DEF Compare, Given, Idle, ControlOK
  <2> QED BY <2>1, <2>2 DEF TypeOK
<1>7. CASE IterateOnce
  <2>1. Compared'
    BY <1>3, <1>7, IterateOK DEF IterateOnce, Iterate, FractureLists
  <2>2. FlagsOK'
    BY <1>1, <1>7 DEF IterateOnce, Iterate, FractureLists, FlagsOK, Mismatch
  <2>3. ControlOK'
    BY <1>1, <1>7 DEF IterateOnce, Given, Idle, ControlOK
  <2> QED BY <1>2, <2>1, <2>2, <2>3 DEF TypeOK
<1>8. ASSUME NEW on \in BOOLEAN, Exhaustive(on) PROVE TypeOK'
  <2>1. PairOK'
    BY <1>1, <1>8 DEF Exhaustive, lists, PairOK
  <2>2. FlagsOK'
    BY <1>1, <1>8 DEF Exhaustive, FlagsOK
  <2>3. ControlOK'
    BY <1>1, <1>8 DEF Exhaustive, lists, control, ControlOK
  <2> QED BY <2>1, <2>2, <2>3 DEF TypeOK
<1>9. CASE Restart
  <2>1. Compared' /\ FlagsOK'
    BY <1>9, RegroupOK DEF Restart
  <2>2. ControlOK'
    BY <1>1, <1>9 DEF Restart, Given, Idle, ControlOK
  <2> QED BY <1>2, <2>1, <2>2 DEF TypeOK
<1>10. ASSUME NEW C \in elements.classes, NEW a \in C.members, NEW b \in C.members,
              EquateElements(C, a, b)
       PROVE  TypeOK'
  <2>1. Compared'
    BY <1>3, <1>10, EquivalenceElementsOK DEF EquateElements
  <2>2. FlagsOK'
    BY <1>1, <1>10 DEF EquateElements, EquivalenceElements, FlagsOK
  <2>3. ControlOK'
    BY <1>1, <1>10 DEF EquateElements, Given, Idle, ControlOK
  <2> QED BY <1>2, <2>1, <2>2, <2>3 DEF TypeOK
<1>11. ASSUME NEW C \in nodes.classes, NEW a \in C.members, NEW b \in C.members,
              EquateNodes(C, a, b)
       PROVE  TypeOK'
  <2>1. Compared'
    BY <1>3, <1>11, EquivalenceNodesOK DEF EquateNodes
  <2>2. FlagsOK'
    BY <1>1, <1>11 DEF EquateNodes, EquivalenceNodes, FlagsOK
  <2>3. ControlOK'
    BY <1>1, <1>11 DEF EquateNodes, Given, Idle, ControlOK
  <2> QED BY <1>2, <2>1, <2>2, <2>3 DEF TypeOK
<1>12. CASE Verify
  <2>1. VerifyMatching \in Int
    BY <1>3, <1>12, VerifyMatchingType DEF Verify
  <2>2. PairOK'
    BY <1>1, <1>12 DEF Verify, lists, PairOK
  <2>3. FlagsOK'
    BY <1>1, <1>12, VerifyPropertiesType DEF Verify, FlagsOK
  <2>4. ControlOK'
    BY <1>1, <1>12, <2>1, VerdictType DEF Verify, Given, Idle, ControlOK
  <2> QED BY <2>2, <2>3, <2>4 DEF TypeOK
<1>13. ASSUME NEW c \in {"converge", "resolve"}, Run(c) PROVE TypeOK'
  BY <1>1, <1>13 DEF Run, netcmp, lists, flags, TypeOK, PairOK, FlagsOK, ControlOK
<1>14. CASE Interrupt
  BY <1>1, <1>14 DEF Interrupt, netcmp, lists, flags, TypeOK, PairOK, FlagsOK, ControlOK
<1>15. CASE Converge
  <2>1. Compared'
    BY <1>4, <1>15, IterateOK DEF Converge, Idle
  <2>2. FlagsOK'
    BY <1>1, <1>15 DEF Converge, Iterate, FractureLists, FlagsOK, Mismatch
  <2>3. ControlOK'
    BY <1>1, <1>5, <1>15, <2>1 DEF Converge, ControlOK
  <2> QED BY <1>2, <2>1, <2>2, <2>3 DEF TypeOK
<1>16. CASE Exhaust
  <2>1. Compared'
    BY <1>4, <1>16, IterateOK DEF Exhaust, Idle
  <2>2. FlagsOK'
    BY <1>1, <1>16 DEF Exhaust, Iterate, FractureLists, FlagsOK, Mismatch
  <2>3. ControlOK'
    BY <1>1, <1>5, <1>16, <2>1 DEF Exhaust, ControlOK
  <2> QED BY <1>2, <2>1, <2>2, <2>3 DEF TypeOK
<1>17. CASE VerifyConverged
  <2>1. PairOK'
    BY <1>1, <1>17 DEF VerifyConverged, lists, PairOK
  <2>2. FlagsOK'
    BY <1>1, <1>17, VerifyPropertiesType DEF VerifyConverged, FlagsOK
  <2>3. ControlOK'
    BY <1>1, <1>17 DEF VerifyConverged, lists, ControlOK
  <2> QED BY <2>1, <2>2, <2>3 DEF TypeOK
<1>18. CASE VerifyResolving
  <2>1. VerifyMatching \in Int
    BY <1>4, <1>18, VerifyMatchingType DEF VerifyResolving, Idle
  <2>2. PairOK'
    BY <1>1, <1>18 DEF VerifyResolving, lists, PairOK
  <2>3. FlagsOK'
    BY <1>1, <1>18, VerifyPropertiesType DEF VerifyResolving, FlagsOK
  <2>4. ControlOK'
    BY <1>1, <1>18, <2>1 DEF VerifyResolving, lists, ControlOK, Resolvers
  <2> QED BY <2>2, <2>3, <2>4 DEF TypeOK
<1>19. CASE Resolve
  <2>1. BreakByProperty \/ BreakByPin \/ BreakArbitrarily
    BY <1>19 DEF Resolve, Resolvers
  <2>2. Compared'
    BY <1>4, <1>19, <2>1, ResolversOK DEF Resolve, Idle, Resolvers
  <2>3. FlagsOK'
    BY <1>1, <2>1 DEF BreakByProperty, BreakByPin, BreakArbitrarily, Break, FractureLists, FlagsOK, Mismatch
  <2>4. ControlOK'
    BY <1>1, <1>5, <1>19, <2>2 DEF Resolve, ControlOK
  <2> QED BY <1>2, <2>2, <2>3, <2>4 DEF TypeOK
<1>20. CASE Settle
  <2>1. Compared'
    BY <1>4, <1>20, IterateOK DEF Settle, Idle
  <2>2. FlagsOK'
    BY <1>1, <1>20 DEF Settle, Iterate, FractureLists, FlagsOK, Mismatch
  <2>3. ControlOK'
    BY <1>1, <1>5, <1>20, <2>1 DEF Settle, ControlOK
  <2> QED BY <1>2, <2>1, <2>2, <2>3 DEF TypeOK
<1>21. CASE Settling
  <2>1. PairOK'
    BY <1>1, <1>21 DEF Settling, lists, PairOK
  <2>2. FlagsOK'
    BY <1>1, <1>21, VerifyPropertiesType DEF Settling, FlagsOK
  <2>3. ControlOK'
    BY <1>1, <1>21 DEF Settling, lists, ControlOK
  <2> QED BY <2>1, <2>2, <2>3 DEF TypeOK
<1>22. CASE Return
  <2>1. VerifyMatching \in Int
    BY <1>4, <1>22, VerifyMatchingType DEF Return, Idle
  <2>2. PairOK'
    BY <1>1, <1>22 DEF Return, lists, PairOK
  <2>3. FlagsOK'
    BY <1>1, <1>22, VerifyPropertiesType DEF Return, FlagsOK
  <2>4. ControlOK'
    <3>1. NextResolver \in Resolvers
      BY DEF NextResolver, Resolvers
    <3> QED BY <1>1, <1>22, <2>1, <3>1 DEF Return, lists, ControlOK
  <2> QED BY <2>2, <2>3, <2>4 DEF TypeOK
<1>23. CASE Report
  <2>1. automorphisms \in Int
    BY <1>1 DEF ControlOK
  <2>2. ControlOK'
    BY <1>1, <1>23, <2>1, VerdictType DEF Report, netcmp, lists, ControlOK
  <2>3. PairOK' /\ FlagsOK'
    BY <1>1, <1>23 DEF Report, netcmp, lists, flags, PairOK, FlagsOK
  <2> QED BY <2>2, <2>3 DEF TypeOK
<1>24. CASE UNCHANGED vars
  <2>1. PairOK' /\ FlagsOK'
    BY <1>1, <1>24 DEF vars, netcmp, lists, flags, PairOK, FlagsOK
  <2>2. ControlOK'
    BY <1>1, <1>24 DEF vars, netcmp, lists, control, ControlOK
  <2> QED BY <2>1, <2>2 DEF TypeOK
<1>25. \A S, c, x : x \in In(S, c) => x \in S
  BY DEF In
<1> QED
  BY <1>6, <1>7, <1>8, <1>9, <1>10, <1>11, <1>12, <1>13, <1>14, <1>15, <1>16, <1>17, <1>18,
     <1>19, <1>20, <1>21, <1>22, <1>23, <1>24, <1>25 DEF Next, Executing

\* Whatever commands are given, and wherever they are interrupted, the classes
\* of elements and of nets partition the circuits being compared, the lists
\* being empty when there are none (CreateTwoLists, Iterate and all that split
\* classes).
THEOREM TypeCorrect == Spec => []TypeOK
<1>1. Init => TypeOK
  BY InitTypeOK
<1>2. TypeOK /\ [Next]_vars => TypeOK'
  BY NextTypeOK
<1> QED BY <1>1, <1>2, PTL DEF Spec

(***************************************************************************)
(* Illegal classes.                                                         *)
(***************************************************************************)
LEMMA IllegalIsUnsound ==
  IllegalOnlyIfBad <=> Sound(elements, BadMatchDetected) /\ Sound(nodes, BadMatchDetected)
BY DEF IllegalOnlyIfBad, Sound

\* A mismatch that is detected in addition keeps a list sound.
LEMMA SoundMonotone ==
  ASSUME NEW L, NEW bad, NEW more, Sound(L, bad), bad => more
  PROVE  Sound(L, more)
BY DEF Sound

LEMMA FirstListsSound ==
  ASSUME NEW p \in Pairs
  PROVE  /\ Sound(FirstLists[p].elements, FirstLists[p].mismatch)
         /\ Sound(FirstLists[p].nodes, FirstLists[p].mismatch)
<1> DEFINE E == FirstElements(p)
           N == FirstNodes(p)
<1>1. /\ FirstLists[p].elements = Fracture(E, TRUE)
      /\ FirstLists[p].nodes = Fracture(N, TRUE)
      /\ FirstLists[p].mismatch = (Mismatch(E, TRUE) \/ Mismatch(N, TRUE))
  BY DEF FirstLists
<1>2. Sound(Fracture(E, TRUE), Mismatch(E, TRUE)) /\ Sound(Fracture(N, TRUE), Mismatch(N, TRUE))
  BY FractureAllSound
<1> HIDE DEF E, N
<1>3. /\ Mismatch(E, TRUE) => FirstLists[p].mismatch
      /\ Mismatch(N, TRUE) => FirstLists[p].mismatch
  BY <1>1
<1>4. Sound(Fracture(E, TRUE), FirstLists[p].mismatch)
  BY <1>2, <1>3 DEF Sound
<1>5. Sound(Fracture(N, TRUE), FirstLists[p].mismatch)
  BY <1>2, <1>3 DEF Sound
<1> QED BY <1>1, <1>4, <1>5

LEMMA IterateSound ==
  ASSUME IllegalOnlyIfBad, Iterate
  PROVE  IllegalOnlyIfBad'
<1> DEFINE ex == ExhaustiveSubdivision
           E == RehashedElements(elements, nodes)
           N == RehashedNodes(elements', nodes)
<1>1. Sound(elements, BadMatchDetected) /\ Sound(nodes, BadMatchDetected)
  BY IllegalIsUnsound
<1>2. Sound(E, BadMatchDetected) /\ Sound(N, BadMatchDetected)
  BY <1>1, RehashSound DEF RehashedElements, RehashedNodes
<1>3. /\ elements' = Fracture(E, ex)
      /\ nodes' = Fracture(N, ex)
      /\ BadMatchDetected' = (BadMatchDetected \/ Mismatch(E, ex) \/ Mismatch(N, ex))
  BY DEF Iterate, FractureLists
<1> HIDE DEF ex, E, N
<1>4. /\ Sound(Fracture(E, ex), BadMatchDetected \/ Mismatch(E, ex))
      /\ Sound(Fracture(N, ex), BadMatchDetected \/ Mismatch(N, ex))
  BY <1>2, FractureSound
<1>5. Sound(elements', BadMatchDetected') /\ Sound(nodes', BadMatchDetected')
  BY <1>3, <1>4 DEF Sound
<1> QED BY <1>5 DEF IllegalOnlyIfBad, Sound

LEMMA BreakSound ==
  ASSUME IllegalOnlyIfBad, NEW E, NEW N, Break(E, N),
         E.classes = elements.classes, N.classes = nodes.classes
  PROVE  IllegalOnlyIfBad'
<1> DEFINE ex == ExhaustiveSubdivision
<1>1. Sound(E, BadMatchDetected) /\ Sound(N, BadMatchDetected)
  BY IllegalIsUnsound DEF Sound
<1>2. /\ elements' = Fracture(E, ex)
      /\ nodes' = Fracture(N, ex)
      /\ BadMatchDetected' = (BadMatchDetected \/ Mismatch(E, ex) \/ Mismatch(N, ex))
  BY DEF Break, FractureLists
<1> HIDE DEF ex
<1>3. /\ Sound(Fracture(E, ex), BadMatchDetected \/ Mismatch(E, ex))
      /\ Sound(Fracture(N, ex), BadMatchDetected \/ Mismatch(N, ex))
  BY <1>1, FractureSound
<1>4. Sound(elements', BadMatchDetected') /\ Sound(nodes', BadMatchDetected')
  BY <1>2, <1>3 DEF Sound
<1> QED BY <1>4 DEF IllegalOnlyIfBad, Sound

LEMMA ResolversSound ==
  ASSUME IllegalOnlyIfBad, Compared, BreakByProperty \/ BreakByPin \/ BreakArbitrarily
  PROVE  IllegalOnlyIfBad'
<1>1. ASSUME NEW X, NEW L, ListOK(L, X), NEW S, NEW key
      PROVE  Renewed(L, S, key).classes = L.classes
  BY <1>1 DEF ListOK, Renewed
<1>2. \A S, key : /\ Renewed(elements, S, key).classes = elements.classes
                  /\ Renewed(nodes, S, key).classes = nodes.classes
  BY <1>1 DEF Compared
<1>3. CASE BreakByProperty
  <2>1. PICK S : Break(Renewed(elements, S, Netlist[pair].value), nodes)
    BY <1>3 DEF BreakByProperty, ByProperty
  <2> QED BY <2>1, <1>2, BreakSound
<1>4. CASE BreakByPin
  <2>1. PICK S : Break(elements, Renewed(nodes, S, Netlist[pair].netname))
    BY <1>4 DEF BreakByPin, ByPin
  <2> QED BY <2>1, <1>2, BreakSound
<1>5. CASE BreakArbitrarily
  <2>1. \A L : \A M \in OnePair(L) : \E S, key : M = Renewed(L, S, key)
    BY DEF OnePair
  <2>2. CASE \E E \in OnePair(elements) : Break(E, nodes)
    <3>1. PICK S, key : Break(Renewed(elements, S, key), nodes)
      BY <2>1, <2>2
    <3> QED BY <3>1, <1>2, BreakSound
  <2>3. CASE \E N \in OnePair(nodes) : Break(elements, N)
    <3>1. PICK S, key : Break(elements, Renewed(nodes, S, key))
      BY <2>1, <2>3
    <3> QED BY <3>1, <1>2, BreakSound
  <2> QED BY <1>5, <2>2, <2>3 DEF BreakArbitrarily
<1> QED BY <1>3, <1>4, <1>5

LEMMA NextSound == TypeOK /\ IllegalOnlyIfBad /\ [Next]_vars => IllegalOnlyIfBad'
<1> SUFFICES ASSUME TypeOK, IllegalOnlyIfBad, [Next]_vars PROVE IllegalOnlyIfBad'
  OBVIOUS
<1>1. Sound(elements, BadMatchDetected) /\ Sound(nodes, BadMatchDetected)
  BY IllegalIsUnsound
<1>2. pair \in Pairs \/ pair = NoPair
  BY DEF TypeOK, PairOK
<1>3. ~Idle => Compared
  BY PairCompared DEF TypeOK, ControlOK, Idle
<1>4. ASSUME Sound(elements', BadMatchDetected'), Sound(nodes', BadMatchDetected')
      PROVE  IllegalOnlyIfBad'
  BY <1>4 DEF IllegalOnlyIfBad, Sound
<1>5. CASE UNCHANGED <<elements, nodes, BadMatchDetected>>
  BY <1>5 DEF IllegalOnlyIfBad, Balanced, Count, In
<1>6. ASSUME NEW p \in Pairs, Compare(p) PROVE IllegalOnlyIfBad'
  <2>1. CASE ~HasContents(p)
    <3>1. elements'.classes = {} /\ nodes'.classes = {}
      BY <1>6, <2>1 DEF Compare, CreateTwoLists, ResetState, EmptyList
    <3> QED BY <3>1 DEF IllegalOnlyIfBad
  <2>2. CASE HasContents(p)
    BY <1>4, <1>6, <2>2, FirstListsSound DEF Compare, CreateTwoLists
  <2> QED BY <2>1, <2>2
<1>7. CASE IterateOnce
  BY <1>7, IterateSound DEF IterateOnce
<1>8. CASE Restart
  <2>1. /\ elements' = FirstLists[pair].elements
        /\ nodes' = FirstLists[pair].nodes
        /\ FirstLists[pair].mismatch => BadMatchDetected'
        /\ pair \in Pairs
    BY <1>2, <1>8 DEF Restart, RegroupDataStructures
  <2> QED BY <1>4, <2>1, FirstListsSound, SoundMonotone
<1>9. ASSUME NEW C, NEW a, NEW b, EquateElements(C, a, b) PROVE IllegalOnlyIfBad'
  <2>1. /\ elements' = Equate(elements, C, a, b) /\ nodes' = nodes
        /\ BadMatchDetected' = (BadMatchDetected \/ IllegalGroups(C.members, EquatedHash(C, a, b)) # {})
    BY <1>9 DEF EquateElements, EquivalenceElements
  <2>2. Sound(Equate(elements, C, a, b), BadMatchDetected')
    BY <1>1, <2>1, EquateSound
  <2>3. Sound(nodes, BadMatchDetected')
    BY <1>1, <2>1 DEF Sound
  <2> QED BY <1>4, <2>1, <2>2, <2>3
<1>10. ASSUME NEW C, NEW a, NEW b, EquateNodes(C, a, b) PROVE IllegalOnlyIfBad'
  <2>1. /\ nodes' = Equate(nodes, C, a, b) /\ elements' = elements
        /\ BadMatchDetected' = (BadMatchDetected \/ IllegalGroups(C.members, EquatedHash(C, a, b)) # {})
    BY <1>10 DEF EquateNodes, EquivalenceNodes
  <2>2. Sound(Equate(nodes, C, a, b), BadMatchDetected')
    BY <1>1, <2>1, EquateSound
  <2>3. Sound(elements, BadMatchDetected')
    BY <1>1, <2>1 DEF Sound
  <2> QED BY <1>4, <2>1, <2>2, <2>3
<1>11. CASE Converge \/ Exhaust \/ Settle
  BY <1>11, IterateSound DEF Converge, Exhaust, Settle
<1>12. CASE Resolve
  <2>1. BreakByProperty \/ BreakByPin \/ BreakArbitrarily
    BY <1>12 DEF Resolve, Resolvers
  <2>2. Compared
    BY <1>3, <1>12 DEF Resolve, Idle, Resolvers
  <2> QED BY <2>1, <2>2, ResolversSound
<1>13. ASSUME \/ \E on \in BOOLEAN : Exhaustive(on)
              \/ Verify
              \/ \E c \in {"converge", "resolve"} : Run(c)
              \/ Interrupt \/ VerifyConverged \/ VerifyResolving \/ Settling \/ Return \/ Report
       PROVE  UNCHANGED <<elements, nodes, BadMatchDetected>>
  BY <1>13 DEF Exhaustive, Verify, Run, Interrupt, VerifyConverged, VerifyResolving, Settling,
               Return, Report, netcmp, lists, flags
<1>14. CASE UNCHANGED vars
  BY <1>5, <1>14 DEF vars, netcmp, lists, flags
<1> QED BY <1>5, <1>6, <1>7, <1>8, <1>9, <1>10, <1>11, <1>12, <1>13, <1>14 DEF Next, Executing

\* Illegal or unbalanced classes are never there without BadMatchDetected,
\* whatever commands are given: the flag that VerifyMatching looks at first
\* stands for the groups that MakeElist and MakeNlist merged.
THEOREM IllegalMarked == Spec => []IllegalOnlyIfBad
<1>1. Init => IllegalOnlyIfBad
  BY DEF Init, IllegalOnlyIfBad, EmptyList
<1>2. TypeOK /\ IllegalOnlyIfBad /\ [Next]_vars => IllegalOnlyIfBad'
  BY NextSound
<1> QED BY <1>1, <1>2, TypeCorrect, PTL DEF Spec

(***************************************************************************)
(* Without `equate', no legal class has devices of different cells.         *)
(*                                                                          *)
(* Legal classes alone are not inductive: a class is made of the members    *)
(* that share a hash value, so the hash values have to be of one cell too;  *)
(* and breaking a symmetry gives new hash values by class, which is only    *)
(* right because every class is legal then.                                 *)
(***************************************************************************)
\* All members of S are of the same cell, cell[x] being that of x.
OneCell(S, cell) == \A x, y \in S : cell[x] = cell[y]

HashOneCell(L, cell) == \A h \in L.hash : OneCell(h, cell)

LegalOneCell(L, cell) == \A C \in L.classes : C.legal => OneCell(C.members, cell)

(***************************************************************************)
(* Lists of classes.                                                        *)
(***************************************************************************)
\* Data that differ for different cells are hashed to values of one cell.
LEMMA HashedOneCell ==
  ASSUME NEW key, NEW cell,
         \A x, y \in DOMAIN key : key[x] = key[y] => cell[x] = cell[y]
  PROVE  \A h \in Hashed(key) : OneCell(h, cell)
<1> SUFFICES ASSUME NEW h \in Hashed(key), NEW x \in h, NEW y \in h
             PROVE  cell[x] = cell[y]
  BY DEF OneCell
<1>1. PICK z \in DOMAIN key : h = {w \in DOMAIN key : key[w] = key[z]}
  BY DEF Hashed
<1> QED BY <1>1

\* The legal classes that MakeElist makes have one hash value each.
LEMMA MakeListOneCell ==
  ASSUME NEW S, NEW hash, NEW cell, \A h \in hash : OneCell(h, cell),
         NEW C \in MakeList(S, hash), C.legal
  PROVE  OneCell(C.members, cell)
<1>1. PICK g \in Groups(S, hash) : C = Class(g, TRUE)
  BY DEF MakeList, Class
<1>2. PICK h \in hash : g = S \cap h
  BY DEF Groups
<1> QED BY <1>1, <1>2 DEF OneCell, Class

\* Classes that are not fractured stay as they are.
LEMMA FractureOneCell ==
  ASSUME NEW L, NEW cell, HashOneCell(L, cell), NEW exhaustive,
         exhaustive \/ LegalOneCell(L, cell)
  PROVE  /\ HashOneCell(Fracture(L, exhaustive), cell)
         /\ LegalOneCell(Fracture(L, exhaustive), cell)
<1>1. /\ Fracture(L, exhaustive).hash = L.hash
      /\ Fracture(L, exhaustive).classes = FracturedClasses(L, exhaustive)
  BY DEF Fracture
<1>2. ASSUME NEW C \in FracturedClasses(L, exhaustive), C.legal
      PROVE  OneCell(C.members, cell)
  <2>1. CASE C \in L.classes \ Fractured(L, exhaustive)
    BY <1>2, <2>1 DEF Fractured, LegalOneCell
  <2>2. CASE \E D \in Fractured(L, exhaustive) : C \in MakeList(D.members, L.hash)
    BY <1>2, <2>2, MakeListOneCell DEF HashOneCell
  <2> QED BY <2>1, <2>2 DEF FracturedClasses
<1> QED BY <1>1, <1>2 DEF HashOneCell, LegalOneCell

\* Iterate only ever makes a legal class illegal before it is fractured.
LEMMA RehashOneCell ==
  ASSUME NEW L, NEW cell, LegalOneCell(L, cell), NEW key,
         \A x, y \in DOMAIN key : key[x] = key[y] => cell[x] = cell[y]
  PROVE  HashOneCell(Rehash(L, key), cell) /\ LegalOneCell(Rehash(L, key), cell)
<1>1. \A h \in Hashed(key) : OneCell(h, cell)
  BY HashedOneCell
<1>2. HashOneCell(Rehash(L, key), cell)
  BY <1>1 DEF Rehash, HashOneCell
<1>3. LegalOneCell(Rehash(L, key), cell)
  BY DEF Rehash, LegalOneCell, Marked, Class
<1> QED BY <1>2, <1>3

\* New hash values for some members of every class, when all classes are legal.
LEMMA RenewedOneCell ==
  ASSUME NEW X, NEW L, ListOK(L, X), NEW cell,
         HashOneCell(L, cell), LegalOneCell(L, cell), \A C \in L.classes : C.legal,
         NEW S, NEW key
  PROVE  HashOneCell(Renewed(L, S, key), cell) /\ LegalOneCell(Renewed(L, S, key), cell)
<1> DEFINE new == [x \in Members(L) |->
                     IF x \in S THEN <<"new", ClassOf(L, x), key[x]>>
                     ELSE <<"old", HashOf(L, x)>>]
<1>1. Members(L) = X
  BY ListMembers
<1>2. ASSUME NEW x \in X, NEW y \in X, new[x] = new[y]
      PROVE  cell[x] = cell[y]
  <2>1. CASE x \in S /\ y \in S
    <3>1. ClassOf(L, x) = ClassOf(L, y)
      BY <1>1, <1>2, <2>1
    <3>2. x \in ClassOf(L, x) /\ y \in ClassOf(L, x) /\ ClassOf(L, x) \in Partition(L)
      BY <3>1, MemberOf
    <3> QED BY <3>2 DEF Partition, LegalOneCell, OneCell
  <2>2. CASE x \notin S /\ y \notin S
    <3>1. HashOf(L, x) = HashOf(L, y)
      BY <1>1, <1>2, <2>2
    <3>2. x \in HashOf(L, x) /\ y \in HashOf(L, x) /\ HashOf(L, x) \in L.hash
      BY <3>1, MemberOf
    <3> QED BY <3>2 DEF HashOneCell, OneCell
  <2>3. ASSUME NEW a, NEW b, NEW c, <<"new", a, b>> = <<"old", c>> PROVE FALSE
    BY <2>3
  <2>4. CASE x \in S /\ y \notin S
    BY <1>1, <1>2, <2>3, <2>4
  <2>5. CASE x \notin S /\ y \in S
    BY <1>1, <1>2, <2>3, <2>5
  <2> QED BY <2>1, <2>2, <2>4, <2>5
<1>3. Renewed(L, S, key) = [L EXCEPT !.hash = Hashed(new)]
  BY DEF Renewed
<1>4. DOMAIN new = X
  BY <1>1
<1> HIDE DEF new
<1>5. \A h \in Hashed(new) : OneCell(h, cell)
  BY <1>2, <1>4, HashedOneCell
<1>6. Renewed(L, S, key).hash = Hashed(new) /\ Renewed(L, S, key).classes = L.classes
  BY <1>3 DEF ListOK
<1> QED BY <1>5, <1>6 DEF HashOneCell, LegalOneCell

(***************************************************************************)
(* The session.                                                             *)
(***************************************************************************)
Cells == Netlist[pair].model

ElementsOneCell == HashOneCell(elements, Cells) /\ LegalOneCell(elements, Cells)

\* Symmetries are broken only while no mismatch was found.
ResolvingIsSound == pc \in Resolvers => ~BadMatchDetected

\* The strengthening that is inductive.
OneCellInv == TypeOK /\ IllegalOnlyIfBad /\ ElementsOneCell /\ ResolvingIsSound

LEMMA OneCellInvImplies == OneCellInv => LegalClassesAreOneCell
BY DEF OneCellInv, ElementsOneCell, LegalOneCell, OneCell, Cells, LegalClassesAreOneCell

LEMMA FirstListsOneCell ==
  ASSUME NEW p \in Pairs
  PROVE  /\ HashOneCell(FirstLists[p].elements, Netlist[p].model)
         /\ LegalOneCell(FirstLists[p].elements, Netlist[p].model)
<1> DEFINE cell == Netlist[p].model
           L == FirstElements(p)
<1>1. L.hash = Hashed(cell)
  BY DEF FirstElements, InitialList
<1>2. \A h \in Hashed(cell) : OneCell(h, cell)
  <2> HIDE DEF cell
  <2> QED BY HashedOneCell
<1>3. HashOneCell(L, cell)
  BY <1>1, <1>2 DEF HashOneCell
<1>4. FirstLists[p].elements = Fracture(L, TRUE)
  BY DEF FirstLists
<1> HIDE DEF L, cell
<1>5. HashOneCell(Fracture(L, TRUE), cell) /\ LegalOneCell(Fracture(L, TRUE), cell)
  BY <1>3, FractureOneCell
<1> QED BY <1>4, <1>5 DEF cell

\* ElementHash keeps the element's own hash value.
LEMMA IterateOneCell ==
  ASSUME Compared, ElementsOneCell, Iterate
  PROVE  ElementsOneCell'
<1> DEFINE key == [e \in Members(elements) |-> ElementHash(elements, nodes, e)]
           L == Rehash(elements, key)
           cell == Cells
<1>1. Members(elements) = Elements(pair) /\ ListOK(elements, Elements(pair))
  BY ListMembers DEF Compared
<1>2. ASSUME NEW x \in DOMAIN key, NEW y \in DOMAIN key, key[x] = key[y]
      PROVE  cell[x] = cell[y]
  <2>1. HashOf(elements, x) = HashOf(elements, y)
    BY <1>2 DEF ElementHash
  <2>2. /\ x \in HashOf(elements, x) /\ y \in HashOf(elements, x)
        /\ HashOf(elements, x) \in elements.hash
    BY <1>1, <1>2, <2>1, MemberOf
  <2> QED BY <2>2 DEF ElementsOneCell, HashOneCell, OneCell
<1>3. elements' = Fracture(L, ExhaustiveSubdivision) /\ Cells' = cell
  BY DEF Iterate, FractureLists, RehashedElements, Cells
<1> HIDE DEF key, cell
<1>4. HashOneCell(L, cell) /\ LegalOneCell(L, cell)
  BY <1>2, RehashOneCell DEF ElementsOneCell, cell
<1> HIDE DEF L
<1>5. /\ HashOneCell(Fracture(L, ExhaustiveSubdivision), cell)
      /\ LegalOneCell(Fracture(L, ExhaustiveSubdivision), cell)
  BY <1>4, FractureOneCell
<1> QED BY <1>3, <1>5 DEF ElementsOneCell

LEMMA BreakOneCell ==
  ASSUME NEW E, NEW N, Break(E, N), HashOneCell(E, Cells), LegalOneCell(E, Cells)
  PROVE  ElementsOneCell'
<1>1. elements' = Fracture(E, ExhaustiveSubdivision) /\ Cells' = Cells
  BY DEF Break, FractureLists, Cells
<1>2. /\ HashOneCell(Fracture(E, ExhaustiveSubdivision), Cells)
      /\ LegalOneCell(Fracture(E, ExhaustiveSubdivision), Cells)
  BY FractureOneCell
<1> QED BY <1>1, <1>2 DEF ElementsOneCell

LEMMA ResolversOneCell ==
  ASSUME Compared, ElementsOneCell, IllegalOnlyIfBad, ~BadMatchDetected,
         BreakByProperty \/ BreakByPin \/ BreakArbitrarily
  PROVE  ElementsOneCell'
<1>1. ListOK(elements, Elements(pair)) /\ \A C \in elements.classes : C.legal
  BY DEF Compared, IllegalOnlyIfBad
<1>2. ASSUME NEW S, NEW key
      PROVE  /\ HashOneCell(Renewed(elements, S, key), Cells)
             /\ LegalOneCell(Renewed(elements, S, key), Cells)
  BY <1>1, RenewedOneCell DEF ElementsOneCell
<1>3. HashOneCell(elements, Cells) /\ LegalOneCell(elements, Cells)
  BY DEF ElementsOneCell
<1>4. CASE BreakByProperty
  <2>1. PICK S : Break(Renewed(elements, S, Netlist[pair].value), nodes)
    BY <1>4 DEF BreakByProperty, ByProperty
  <2> QED BY <2>1, <1>2, BreakOneCell
<1>5. CASE BreakByPin
  <2>1. PICK N : Break(elements, N)
    BY <1>5 DEF BreakByPin
  <2> QED BY <2>1, <1>3, BreakOneCell
<1>6. CASE BreakArbitrarily
  <2>1. \A M \in OnePair(elements) : \E S, key : M = Renewed(elements, S, key)
    BY DEF OnePair
  <2>2. CASE \E E \in OnePair(elements) : Break(E, nodes)
    <3>1. PICK S, key : Break(Renewed(elements, S, key), nodes)
      BY <2>1, <2>2
    <3> QED BY <3>1, <1>2, BreakOneCell
  <2>3. CASE \E N \in OnePair(nodes) : Break(elements, N)
    BY <2>3, <1>3, BreakOneCell
  <2> QED BY <1>6, <2>2, <2>3 DEF BreakArbitrarily
<1> QED BY <1>4, <1>5, <1>6

\* A resolver is only called after VerifyMatching has returned a positive number.
LEMMA NextResolving == TypeOK /\ ResolvingIsSound /\ [Next]_vars => ResolvingIsSound'
<1> SUFFICES ASSUME TypeOK, ResolvingIsSound, [Next]_vars, pc' \in Resolvers
             PROVE  ~BadMatchDetected'
  BY DEF ResolvingIsSound
<1>1. BadMatchDetected => VerifyMatching = -1
  BY DEF VerifyMatching
<1>2. CASE Idle /\ pc' = pc
  BY <1>2 DEF Idle, Resolvers
<1>3. ASSUME \/ \E p \in Pairs : Compare(p)
             \/ IterateOnce \/ \E on \in BOOLEAN : Exhaustive(on)
             \/ Restart \/ Verify
             \/ \E C \in elements.classes : \E a \in In(C.members, 1), b \in In(C.members, 2) :
                  EquateElements(C, a, b)
             \/ \E C \in nodes.classes : \E a \in In(C.members, 1), b \in In(C.members, 2) :
                  EquateNodes(C, a, b)
      PROVE  Idle /\ pc' = pc
  BY <1>3 DEF Compare, IterateOnce, Exhaustive, Restart, Verify, EquateElements, EquateNodes,
              Given, control
<1>4. CASE Interrupt
  BY <1>4 DEF Interrupt, netcmp, flags, ResolvingIsSound
<1>5. CASE VerifyResolving
  BY <1>1, <1>5 DEF VerifyResolving, Resolvers
<1>6. CASE Return
  BY <1>1, <1>6 DEF Return, Resolvers
<1>7. ASSUME \/ \E c \in {"converge", "resolve"} : Run(c)
             \/ Converge \/ Exhaust \/ VerifyConverged \/ Resolve \/ Settle \/ Settling
             \/ Report
      PROVE  pc' \notin Resolvers
  BY <1>7 DEF Run, Converge, Exhaust, VerifyConverged, Resolve, Settle, Settling, Report, Resolvers
<1>8. CASE UNCHANGED vars
  BY <1>8 DEF vars, netcmp, flags, control, ResolvingIsSound
<1> QED BY <1>2, <1>3, <1>4, <1>5, <1>6, <1>7, <1>8 DEF Next, Executing

LEMMA NextOneCell ==
  ASSUME "equate" \notin Commands, OneCellInv, [Next]_vars
  PROVE  ElementsOneCell'
<1> USE DEF OneCellInv
<1>1. ~Idle => Compared
  BY PairCompared DEF TypeOK, ControlOK, Idle
<1>2. pair \in Pairs \/ pair = NoPair
  BY DEF TypeOK, PairOK
<1>3. CASE UNCHANGED <<pair, elements>>
  BY <1>3 DEF ElementsOneCell, HashOneCell, LegalOneCell, OneCell, Cells
<1>4. ASSUME NEW p \in Pairs, Compare(p) PROVE ElementsOneCell'
  <2>1. CASE ~HasContents(p)
    <3>1. elements'.classes = {} /\ elements'.hash = {}
      BY <1>4, <2>1 DEF Compare, CreateTwoLists, ResetState, EmptyList
    <3> QED BY <3>1 DEF ElementsOneCell, HashOneCell, LegalOneCell
  <2>2. CASE HasContents(p)
    <3>1. elements' = FirstLists[p].elements /\ pair' = p
      BY <1>4, <2>2 DEF Compare, CreateTwoLists
    <3> QED BY <3>1, FirstListsOneCell DEF ElementsOneCell, Cells
  <2> QED BY <2>1, <2>2
<1>5. CASE IterateOnce
  <2>1. Compared
    BY <1>5, PairCompared DEF IterateOnce, Iterate
  <2> QED BY <1>5, <2>1, IterateOneCell DEF IterateOnce
<1>6. CASE Restart
  <2>1. elements' = FirstLists[pair].elements /\ pair' = pair /\ pair \in Pairs
    BY <1>2, <1>6 DEF Restart, RegroupDataStructures
  <2> QED BY <2>1, FirstListsOneCell DEF ElementsOneCell, Cells
<1>7. ASSUME NEW C, NEW a, NEW b, EquateElements(C, a, b) \/ EquateNodes(C, a, b)
      PROVE  FALSE
  BY <1>7 DEF EquateElements, EquateNodes, Given
<1>8. CASE Converge \/ Exhaust \/ Settle
  <2>1. Compared /\ Iterate
    BY <1>1, <1>8 DEF Converge, Exhaust, Settle, Idle
  <2> QED BY <2>1, IterateOneCell
<1>9. CASE Resolve
  <2>1. BreakByProperty \/ BreakByPin \/ BreakArbitrarily
    BY <1>9 DEF Resolve, Resolvers
  <2>2. Compared /\ ~BadMatchDetected
    BY <1>1, <1>9 DEF Resolve, Idle, Resolvers, ResolvingIsSound
  <2> QED BY <2>1, <2>2, ResolversOneCell
<1>10. ASSUME \/ \E on \in BOOLEAN : Exhaustive(on)
              \/ Verify
              \/ \E c \in {"converge", "resolve"} : Run(c)
              \/ Interrupt \/ VerifyConverged \/ VerifyResolving \/ Settling \/ Return \/ Report
       PROVE  UNCHANGED <<pair, elements>>
  BY <1>10 DEF Exhaustive, Verify, Run, Interrupt, VerifyConverged, VerifyResolving, Settling,
               Return, Report, netcmp, lists
<1>11. CASE UNCHANGED vars
  BY <1>3, <1>11 DEF vars, netcmp, lists
<1> QED BY <1>3, <1>4, <1>5, <1>6, <1>7, <1>8, <1>9, <1>10, <1>11 DEF Next, Executing

\* Devices of different cells never correspond: unless the user equates
\* elements, all devices of a legal class are of one cell, since ElementHash
\* keeps the hash value that an element had, and a resolver gives new hash
\* values class by class.
THEOREM OneCellPerClass ==
  ASSUME "equate" \notin Commands
  PROVE  Spec => []LegalClassesAreOneCell
<1>1. Init => OneCellInv
  <2>1. Init => ElementsOneCell
    BY DEF Init, ElementsOneCell, HashOneCell, LegalOneCell, EmptyList
  <2>2. Init => IllegalOnlyIfBad /\ ResolvingIsSound
    BY DEF Init, IllegalOnlyIfBad, EmptyList, ResolvingIsSound, Resolvers
  <2> QED BY <2>1, <2>2, InitTypeOK DEF OneCellInv
<1>2. OneCellInv /\ [Next]_vars => OneCellInv'
  BY NextOneCell, NextTypeOK, NextSound, NextResolving DEF OneCellInv
<1>3. OneCellInv => LegalClassesAreOneCell
  BY OneCellInvImplies
<1> QED BY <1>1, <1>2, <1>3, PTL DEF Spec
=============================================================================
