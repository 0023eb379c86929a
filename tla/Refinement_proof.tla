---------------------------- MODULE Refinement_proof ----------------------------
(***************************************************************************)
(* The session implements Refinement, for circuits of any size and any      *)
(* commands: every step splits classes, loads others, begins or ends a      *)
(* command, or changes nothing that Refinement speaks of.                   *)
(*                                                                          *)
(* Two invariants carry it, that the classes are partitions (TypeOK) and    *)
(* that an unbalanced class is marked (IllegalOnlyIfBad); a third says that *)
(* what `run' reports is the value of VerifyMatching for the present        *)
(* classes, or that symmetries were left (ReportIsCurrent).                 *)
(***************************************************************************)
EXTENDS CompareSession_proof

(***************************************************************************)
(* What is reported.                                                        *)
(***************************************************************************)
\* While symmetries are broken there were some.  The number reported at the end is that
\* of the present classes, or is left from before the last break, and not zero.
ReportIsCurrent ==
  /\ pc \in Resolvers \cup {"settle", "settling", "return"} => automorphisms > 0
  /\ pc = "report" => automorphisms > 0 \/ automorphisms = VerifyMatching

\* VerifyMatching reads only the classes, the flag and the pair.
LEMMA SameVerdict ==
  ASSUME UNCHANGED <<pair, elements, nodes, BadMatchDetected>>
  PROVE  VerifyMatching' = VerifyMatching
BY DEF VerifyMatching, BadClasses, Symmetries, PortMismatch, Ports, Partition, In, Balanced,
       Count, OneToOne, IsPort, Disconnected

LEMMA NextReportIsCurrent ==
  TypeOK /\ ReportIsCurrent /\ [Next]_vars => ReportIsCurrent'
<1> SUFFICES ASSUME TypeOK, ReportIsCurrent, [Next]_vars PROVE ReportIsCurrent'
  OBVIOUS
<1> USE DEF Resolvers
<1>1. CASE pc' = "idle"
  BY <1>1 DEF ReportIsCurrent
<1>2. CASE Converge \/ Exhaust \/ \E c \in {"converge", "resolve"} : Run(c)
  BY <1>2 DEF Converge, Exhaust, Run, ReportIsCurrent
<1>3. CASE VerifyResolving
  <2>1. /\ automorphisms' = VerifyMatching
        /\ pc' = IF VerifyMatching > 0 THEN "ByProperty" ELSE "report"
        /\ UNCHANGED <<pair, elements, nodes, BadMatchDetected>>
    BY <1>3 DEF VerifyResolving, lists
  <2>2. VerifyMatching' = VerifyMatching
    BY <2>1, SameVerdict
  <2> QED BY <2>1, <2>2 DEF ReportIsCurrent
<1>4. CASE Resolve
  BY <1>4 DEF Resolve, ReportIsCurrent
<1>5. CASE Settle
  BY <1>5 DEF Settle, ReportIsCurrent
<1>6. CASE Settling
  BY <1>6 DEF Settling, ReportIsCurrent
<1>7. CASE Return
  <2>1. /\ pc = "return"
        /\ automorphisms' = IF resolver = "Arbitrarily" THEN automorphisms ELSE VerifyMatching
        /\ pc' = IF VerifyMatching > 0 THEN NextResolver ELSE "report"
        /\ UNCHANGED <<pair, elements, nodes, BadMatchDetected>>
    BY <1>7 DEF Return, lists
  <2>2. VerifyMatching' = VerifyMatching
    BY <2>1, SameVerdict
  <2>3. automorphisms > 0
    BY <2>1 DEF ReportIsCurrent
  <2>4. NextResolver \in Resolvers
    BY DEF NextResolver
  <2>5. CASE VerifyMatching > 0
    BY <2>1, <2>3, <2>4, <2>5 DEF ReportIsCurrent
  <2>6. CASE ~(VerifyMatching > 0)
    BY <2>1, <2>2, <2>3, <2>6 DEF ReportIsCurrent
  <2> QED BY <2>5, <2>6
<1>8. CASE Interrupt \/ (\E on \in BOOLEAN : Exhaustive(on)) \/ UNCHANGED vars
  <2>1. UNCHANGED <<pc, automorphisms, pair, elements, nodes, BadMatchDetected>>
    BY <1>8 DEF Interrupt, Exhaustive, vars, control, netcmp, lists, flags
  <2>2. VerifyMatching' = VerifyMatching
    BY <2>1, SameVerdict
  <2> QED BY <2>1, <2>2 DEF ReportIsCurrent
<1>9. ASSUME \/ \E p \in Pairs : Compare(p)
             \/ IterateOnce \/ Restart \/ Verify \/ VerifyConverged \/ Report
             \/ \E C \in elements.classes : \E a \in In(C.members, 1), b \in In(C.members, 2) :
                  EquateElements(C, a, b)
             \/ \E C \in nodes.classes : \E a \in In(C.members, 1), b \in In(C.members, 2) :
                  EquateNodes(C, a, b)
      PROVE  pc' = "idle"
  BY <1>9 DEF Compare, IterateOnce, Restart, Verify, VerifyConverged, Report, EquateElements,
              EquateNodes, Given, Idle
<1> QED BY <1>1, <1>2, <1>3, <1>4, <1>5, <1>6, <1>7, <1>8, <1>9 DEF Next, Executing

(***************************************************************************)
(* Classes only split.                                                      *)
(***************************************************************************)
\* M has the members of L, in classes that are each a part of one of L.
Splits(L, M) ==
  /\ UNION Partition(M) = UNION Partition(L)
  /\ \A S \in Partition(M) : \E T \in Partition(L) : S \subseteq T

LEMMA PartitionCovers ==
  ASSUME NEW X, NEW L, ListOK(L, X)
  PROVE  UNION Partition(L) = X
BY DEF ListOK, ClassesOK, Partition

LEMMA FractureSplits ==
  ASSUME NEW X, IsFiniteSet(X), NEW L, ListOK(L, X), NEW exhaustive
  PROVE  Splits(L, Fracture(L, exhaustive))
<1>1. ListOK(Fracture(L, exhaustive), X)
  BY FractureOK
<1>2. UNION Partition(Fracture(L, exhaustive)) = UNION Partition(L)
  BY <1>1, PartitionCovers
<1>3. ASSUME NEW S, NEW hash, NEW C \in MakeList(S, hash)
      PROVE  C.members \subseteq S
  <2>1. \A g \in Groups(S, hash) : g \subseteq S
    BY DEF Groups
  <2>2. IllegalGroups(S, hash) \subseteq Groups(S, hash)
    BY DEF IllegalGroups
  <2>3. CASE C \in {Class(g, TRUE) : g \in Groups(S, hash) \ IllegalGroups(S, hash)}
    BY <2>1, <2>3 DEF Class
  <2>4. CASE C = Class(UNION IllegalGroups(S, hash), FALSE)
    BY <2>1, <2>2, <2>4 DEF Class
  <2> QED BY <2>3, <2>4 DEF MakeList
<1>4. ASSUME NEW C \in FracturedClasses(L, exhaustive)
      PROVE  \E D \in L.classes : C.members \subseteq D.members
  <2>1. CASE C \in L.classes
    BY <2>1
  <2>2. CASE C \in UNION {MakeList(D.members, L.hash) : D \in Fractured(L, exhaustive)}
    <3>1. PICK D \in Fractured(L, exhaustive) : C \in MakeList(D.members, L.hash)
      BY <2>2
    <3> QED BY <1>3, <3>1 DEF Fractured
  <2> QED BY <2>1, <2>2 DEF FracturedClasses
<1>5. Partition(Fracture(L, exhaustive)) = {C.members : C \in FracturedClasses(L, exhaustive)}
  BY DEF Partition, Fracture
<1>6. ASSUME NEW S \in Partition(Fracture(L, exhaustive))
      PROVE  \E T \in Partition(L) : S \subseteq T
  <2>1. PICK C \in FracturedClasses(L, exhaustive) : S = C.members
    BY <1>5
  <2>2. PICK D \in L.classes : C.members \subseteq D.members
    BY <1>4
  <2> QED BY <2>1, <2>2 DEF Partition
<1> QED BY <1>2, <1>6 DEF Splits

\* New hash values and the marks of Iterate change no class.
LEMMA RehashPartition ==
  ASSUME NEW L, NEW key
  PROVE  Partition(Rehash(L, key)) = Partition(L)
<1>1. \A C : Marked(C).members = C.members
  BY DEF Marked, Class
<1>2. Rehash(L, key).classes = {Marked(C) : C \in L.classes}
  BY DEF Rehash
<1> QED BY <1>1, <1>2 DEF Partition

LEMMA RenewedPartition ==
  ASSUME NEW X, NEW L, ListOK(L, X), NEW S, NEW key
  PROVE  Partition(Renewed(L, S, key)) = Partition(L)
<1>1. Renewed(L, S, key).classes = L.classes
  BY DEF ListOK, Renewed
<1> QED BY <1>1 DEF Partition

LEMMA SamePartitionSplits ==
  ASSUME NEW L, NEW K, NEW M, Partition(K) = Partition(L), Splits(K, M)
  PROVE  Splits(L, M)
BY DEF Splits

\* Equating elements splits one class.
LEMMA EquateSplits ==
  ASSUME NEW X, NEW L, ListOK(L, X), NEW C \in L.classes,
         NEW a \in C.members, NEW b \in C.members
  PROVE  Splits(L, Equate(L, C, a, b))
<1> DEFINE M == Equate(L, C, a, b)
           new == MakeList(C.members, EquatedHash(C, a, b))
<1>1. M.classes = (L.classes \ {C}) \cup new
  BY DEF Equate
<1>2. ListOK(M, X)
  BY EquateOK
<1>3. UNION Partition(M) = UNION Partition(L)
  BY <1>2, PartitionCovers
<1>4. \A D \in new : D.members \subseteq C.members
  <2>1. \A g \in Groups(C.members, EquatedHash(C, a, b)) : g \subseteq C.members
    BY DEF Groups
  <2>2. IllegalGroups(C.members, EquatedHash(C, a, b)) \subseteq Groups(C.members, EquatedHash(C, a, b))
    BY DEF IllegalGroups
  <2> QED BY <2>1, <2>2 DEF MakeList, Class
<1> HIDE DEF M, new
<1>5. \A S \in Partition(M) : \E T \in Partition(L) : S \subseteq T
  BY <1>1, <1>4 DEF Partition
<1>6. Splits(L, M)
  BY <1>3, <1>5 DEF Splits
<1> QED BY <1>6 DEF M

SessionSplits == Splits(elements, elements') /\ Splits(nodes, nodes')

LEMMA IterateSplits ==
  ASSUME Compared, Iterate
  PROVE  SessionSplits
<1> DEFINE ex == ExhaustiveSubdivision
           E == RehashedElements(elements, nodes)
           N == RehashedNodes(elements', nodes)
<1>1. /\ Partition(E) = Partition(elements) /\ Partition(N) = Partition(nodes)
  BY RehashPartition DEF RehashedElements, RehashedNodes
<1>2. Members(elements) = Elements(pair) /\ Members(nodes) = Nodes(pair)
  BY ListMembers DEF Compared
<1>3. ListOK(E, Elements(pair))
  <2> DEFINE key == [e \in Members(elements) |-> ElementHash(elements, nodes, e)]
  <2>1. DOMAIN key = Elements(pair)
    BY <1>2
  <2> HIDE DEF key
  <2>2. ListOK(Rehash(elements, key), Elements(pair))
    BY <2>1, RehashOK DEF Compared
  <2> QED BY <2>2 DEF key, RehashedElements
<1>4. ListOK(N, Nodes(pair))
  <2> DEFINE key == [n \in Members(nodes) |-> NodeHash(elements', n)]
  <2>1. DOMAIN key = Nodes(pair)
    BY <1>2
  <2> HIDE DEF key
  <2>2. ListOK(Rehash(nodes, key), Nodes(pair))
    BY <2>1, RehashOK DEF Compared
  <2> QED BY <2>2 DEF key, RehashedNodes
<1>5. IsFiniteSet(Elements(pair)) /\ IsFiniteSet(Nodes(pair))
  BY NetlistsFinite DEF Compared
<1>6. elements' = Fracture(E, ex) /\ nodes' = Fracture(N, ex)
  BY DEF Iterate, FractureLists
<1> HIDE DEF ex, E, N
<1>7. Splits(E, Fracture(E, ex)) /\ Splits(N, Fracture(N, ex))
  BY <1>3, <1>4, <1>5, FractureSplits
<1> QED BY <1>1, <1>6, <1>7, SamePartitionSplits DEF SessionSplits

LEMMA BreakSplits ==
  ASSUME Compared, NEW E, NEW N, Break(E, N),
         ListOK(E, Elements(pair)), ListOK(N, Nodes(pair)),
         Partition(E) = Partition(elements), Partition(N) = Partition(nodes)
  PROVE  SessionSplits
<1> DEFINE ex == ExhaustiveSubdivision
<1>1. IsFiniteSet(Elements(pair)) /\ IsFiniteSet(Nodes(pair))
  BY NetlistsFinite DEF Compared
<1>2. elements' = Fracture(E, ex) /\ nodes' = Fracture(N, ex)
  BY DEF Break, FractureLists
<1> HIDE DEF ex
<1>3. Splits(E, Fracture(E, ex)) /\ Splits(N, Fracture(N, ex))
  BY <1>1, FractureSplits
<1> QED BY <1>2, <1>3, SamePartitionSplits DEF SessionSplits

LEMMA ResolversSplit ==
  ASSUME Compared, BreakByProperty \/ BreakByPin \/ BreakArbitrarily
  PROVE  SessionSplits
<1>1. ListOK(elements, Elements(pair)) /\ ListOK(nodes, Nodes(pair))
  BY DEF Compared
<1>2. ASSUME NEW S, NEW key
      PROVE  /\ ListOK(Renewed(elements, S, key), Elements(pair))
             /\ Partition(Renewed(elements, S, key)) = Partition(elements)
             /\ ListOK(Renewed(nodes, S, key), Nodes(pair))
             /\ Partition(Renewed(nodes, S, key)) = Partition(nodes)
  BY <1>1, RenewedOK, RenewedPartition
<1>3. CASE BreakByProperty
  <2>1. PICK S : Break(Renewed(elements, S, Netlist[pair].value), nodes)
    BY <1>3 DEF BreakByProperty, ByProperty
  <2> QED BY <2>1, <1>1, <1>2, BreakSplits
<1>4. CASE BreakByPin
  <2>1. PICK S : Break(elements, Renewed(nodes, S, Netlist[pair].netname))
    BY <1>4 DEF BreakByPin, ByPin
  <2> QED BY <2>1, <1>1, <1>2, BreakSplits
<1>5. CASE BreakArbitrarily
  <2>1. \A L : \A M \in OnePair(L) : \E S, key : M = Renewed(L, S, key)
    BY DEF OnePair
  <2>2. CASE \E E \in OnePair(elements) : Break(E, nodes)
    <3>1. PICK S, key : Break(Renewed(elements, S, key), nodes)
      BY <2>1, <2>2
    <3> QED BY <3>1, <1>1, <1>2, BreakSplits
  <2>3. CASE \E N \in OnePair(nodes) : Break(elements, N)
    <3>1. PICK S, key : Break(elements, Renewed(nodes, S, key))
      BY <2>1, <2>3
    <3> QED BY <3>1, <1>1, <1>2, BreakSplits
  <2> QED BY <1>5, <2>2, <2>3 DEF BreakArbitrarily
<1> QED BY <1>3, <1>4, <1>5

(***************************************************************************)
(* The steps of Refinement.                                                 *)
(***************************************************************************)
partition == Partition(elements) \cup Partition(nodes)
verdict == IF report \in {"unique", "mismatch"} /\ command # "verify" THEN report ELSE "none"

LEMMA EvenIsBalanced ==
  ASSUME NEW S
  PROVE  Promise!Even(S) <=> Balanced(S)
BY DEF Promise!Even, Promise!Of, Balanced, Count, In, Cardinality, Promise!Cardinality

LEMMA SingleIsOneToOne ==
  ASSUME NEW S
  PROVE  Promise!Single(S) <=> OneToOne(S)
BY DEF Promise!Single, Promise!Of, OneToOne, Count, In, Cardinality, Promise!Cardinality

\* Elements and nets are never in one class.
Disjoint == \A S, T \in partition : S = T \/ S \cap T = {}

LEMMA ClassesDisjoint == TypeOK => Disjoint
<1> SUFFICES ASSUME TypeOK PROVE Disjoint
  OBVIOUS
<1>1. PICK X, Y : ListOK(elements, X) /\ ListOK(nodes, Y) /\ X \cap Y = {}
  <2>1. CASE pair = NoPair
    BY <2>1, NoPairAssumption DEF TypeOK, PairOK
  <2>2. CASE pair # NoPair
    <3>1. Compared
      BY <2>2, PairCompared
    <3>2. Elements(pair) \subseteq Element /\ Nodes(pair) \subseteq Net
      <4>1. Netlist[pair].conn \in [Elements(pair) -> [Pin -> Net \cup {NoNet}]]
        BY <3>1, NetlistsAssumption DEF Compared
      <4> QED BY <3>1, <4>1, NetlistsAssumption DEF Compared, Nodes
    <3>3. Elements(pair) \cap Nodes(pair) = {}
      BY <3>2, NetlistsAssumption
    <3> QED BY <3>1, <3>3 DEF Compared
  <2> QED BY <2>1, <2>2
<1>2. ASSUME NEW L, NEW Z, ListOK(L, Z), NEW S \in Partition(L), NEW T \in Partition(L)
      PROVE  S \subseteq Z /\ (S = T \/ S \cap T = {})
  BY <1>2 DEF ListOK, ClassesOK, Partition
<1>3. ASSUME NEW S \in Partition(elements), NEW T \in Partition(nodes)
      PROVE  S \cap T = {}
  BY <1>1, <1>2
<1> QED BY <1>1, <1>2, <1>3 DEF Disjoint, partition

UnevenMarked == (\E S \in partition : ~Balanced(S)) => BadMatchDetected

LEMMA UnevenIsMarked == IllegalOnlyIfBad => UnevenMarked
BY DEF IllegalOnlyIfBad, UnevenMarked, partition, Partition

LEMMA LoadStep ==
  ASSUME TypeOK', IllegalOnlyIfBad', Idle, Idle', report' = "none" \/ command' = "verify"
  PROVE  Promise!Load
<1>1. Disjoint'
  BY ClassesDisjoint, PTL
<1>2. UnevenMarked'
  BY UnevenIsMarked, PTL
<1>3. \A S : Promise!Even(S) <=> Balanced(S)
  BY EvenIsBalanced
<1> QED BY <1>1, <1>2, <1>3 DEF Promise!Load, Disjoint, UnevenMarked, partition
LEMMA SplitStep ==
  ASSUME IllegalOnlyIfBad', SessionSplits, BadMatchDetected => BadMatchDetected',
         ~Idle, ~Idle', UNCHANGED <<command, report>>
  PROVE  Promise!Split
<1>1. UnevenMarked'
  BY UnevenIsMarked, PTL
<1>2. \A S : Promise!Even(S) <=> Balanced(S)
  BY EvenIsBalanced
<1>3. /\ UNION partition' = UNION partition
      /\ \A S \in partition' : \E T \in partition : S \subseteq T
  BY DEF SessionSplits, Splits, partition
<1>4. verdict' = verdict
  BY DEF verdict
<1> QED BY <1>1, <1>2, <1>3, <1>4 DEF Promise!Split, UnevenMarked, partition, verdict

\* A step that changes nothing that Refinement has.
Quiet == UNCHANGED <<partition, BadMatchDetected, Idle, verdict>>

LEMMA QuietStep ==
  ASSUME UNCHANGED <<elements, nodes, BadMatchDetected, command, report>>, Idle' = Idle
  PROVE  Quiet
BY DEF Quiet, partition, verdict, Partition

\* A unique match (with the same ports or not), or a mismatch, that VerifyMatching
\* returns is one of the present classes.
LEMMA VerifyMatchingSound ==
  ASSUME Compared, IllegalOnlyIfBad
  PROVE  /\ VerifyMatching = -1 => BadMatchDetected
         /\ VerifyMatching \in {0, -2} => ~BadMatchDetected /\ \A S \in partition : OneToOne(S)
<1>1. ASSUME NEW X, IsFiniteSet(X), NEW L, ListOK(L, X)
      PROVE  /\ Symmetries(L) \in Nat
             /\ Symmetries(L) = 0 => \A S \in Partition(L) : OneToOne(S)
  <2> DEFINE Several == {S \in Partition(L) : ~OneToOne(S)}
  <2>1. Partition(L) \subseteq SUBSET X
    BY <1>1 DEF ListOK, ClassesOK, Partition
  <2>2. IsFiniteSet(SUBSET X)
    BY <1>1, FS_SUBSET
  <2>3. Several \in SUBSET SUBSET X
    BY <2>1
  <2>4. IsFiniteSet(Several)
    BY <2>2, <2>3, FS_Subset
  <2>5. Cardinality(Several) \in Nat /\ (Cardinality(Several) = 0 => Several = {})
    BY <2>4, FS_CardinalityType, FS_EmptySet
  <2>6. Symmetries(L) = Cardinality(Several)
    BY DEF Symmetries
  <2> QED BY <2>5, <2>6
<1>2. IsFiniteSet(Elements(pair)) /\ IsFiniteSet(Nodes(pair))
  BY NetlistsFinite DEF Compared
<1>3. /\ Symmetries(elements) \in Nat /\ Symmetries(nodes) \in Nat
      /\ Symmetries(elements) = 0 => \A S \in Partition(elements) : OneToOne(S)
      /\ Symmetries(nodes) = 0 => \A S \in Partition(nodes) : OneToOne(S)
  BY <1>1, <1>2 DEF Compared
<1>4. BadClasses => BadMatchDetected
  BY DEF BadClasses, IllegalOnlyIfBad, Partition
<1>5. VerifyMatching = -1 => BadMatchDetected
  BY <1>3, <1>4 DEF VerifyMatching
<1>6. ASSUME VerifyMatching \in {0, -2}
      PROVE  ~BadMatchDetected /\ \A S \in partition : OneToOne(S)
  <2>1. ~BadMatchDetected /\ Symmetries(elements) + Symmetries(nodes) = 0
    BY <1>3, <1>6 DEF VerifyMatching
  <2>2. Symmetries(elements) = 0 /\ Symmetries(nodes) = 0
    BY <1>3, <2>1
  <2> QED BY <1>3, <2>1, <2>2 DEF partition
<1> QED BY <1>5, <1>6

\* A command ends: what it reports holds of the classes that are there.
LEMMA EndStep ==
  ASSUME Compared, IllegalOnlyIfBad, Idle', UNCHANGED <<elements, nodes, BadMatchDetected>>,
         report' = "mismatch" => VerifyMatching = -1,
         report' = "unique" => VerifyMatching = 0
  PROVE  Promise!End
<1>1. partition' = partition
  BY DEF partition, Partition
<1>2. /\ verdict' = "unique" => ~BadMatchDetected /\ \A S \in partition : Promise!Single(S)
      /\ verdict' = "mismatch" => BadMatchDetected
  BY VerifyMatchingSound, SingleIsOneToOne DEF verdict
<1> QED BY <1>1, <1>2 DEF Promise!End, partition, verdict
(***************************************************************************)
(* Every step.                                                              *)
(***************************************************************************)
Inv == TypeOK /\ IllegalOnlyIfBad /\ ReportIsCurrent

LEMMA InitInv == Init => Inv
<1> SUFFICES ASSUME Init PROVE Inv
  OBVIOUS
<1>1. TypeOK
  BY InitTypeOK
<1>2. IllegalOnlyIfBad
  BY DEF Init, IllegalOnlyIfBad, EmptyList
<1>3. ReportIsCurrent
  BY DEF Init, ReportIsCurrent, Resolvers
<1> QED BY <1>1, <1>2, <1>3 DEF Inv

LEMMA NextInv == Inv /\ [Next]_vars => Inv'
BY NextTypeOK, NextSound, NextReportIsCurrent DEF Inv

LEMMA InitRefines == Init => Promise!Init
BY DEF Init, Promise!Init, EmptyList, Partition, Idle

LEMMA VerdictInverse ==
  ASSUME NEW n \in Int
  PROVE  /\ Verdict(n) = "mismatch" => n = -1
         /\ Verdict(n) = "unique" => n = 0
BY DEF Verdict

LEMMA NextRefines ==
  Inv /\ Inv' /\ [Next]_vars => Promise!Next \/ Quiet
<1> SUFFICES ASSUME Inv, Inv', [Next]_vars PROVE Promise!Next \/ Quiet
  OBVIOUS
<1>1. /\ TypeOK /\ IllegalOnlyIfBad /\ ReportIsCurrent
      /\ TypeOK' /\ IllegalOnlyIfBad'
  BY DEF Inv
<1>2. ~Idle => Compared
  BY <1>1, PairCompared DEF TypeOK, ControlOK, Idle
\* Commands that call one function load other classes.
<1>3. ASSUME \/ \E p \in Pairs : Compare(p)
             \/ IterateOnce \/ Restart
             \/ \E C \in elements.classes : \E a \in In(C.members, 1), b \in In(C.members, 2) :
                  EquateElements(C, a, b)
             \/ \E C \in nodes.classes : \E a \in In(C.members, 1), b \in In(C.members, 2) :
                  EquateNodes(C, a, b)
             \/ Verify
      PROVE  Promise!Load
  <2>1. Idle /\ Idle' /\ (report' = "none" \/ command' = "verify")
    BY <1>3 DEF Compare, IterateOnce, Restart, EquateElements, EquateNodes, Verify, Given, Idle
  <2> QED BY <1>1, <2>1, LoadStep
<1>4. CASE \E c \in {"converge", "resolve"} : Run(c)
  <2>1. /\ Idle /\ ~Idle' /\ report' = "none"
        /\ UNCHANGED <<elements, nodes, BadMatchDetected>>
    BY <1>4 DEF Run, Given, Idle, netcmp, lists, flags
  <2>2. partition' = partition /\ verdict' = "none"
    BY <2>1 DEF partition, verdict, Partition
  <2> QED BY <2>1, <2>2 DEF Promise!Next, Promise!Begin, partition, verdict
\* Steps that fracture classes.
<1>5. CASE Converge \/ Exhaust \/ Settle
  <2>1. /\ Iterate /\ ~Idle /\ ~Idle' /\ UNCHANGED <<command, report>>
        /\ BadMatchDetected => BadMatchDetected'
    BY <1>5 DEF Converge, Exhaust, Settle, Idle, Iterate, FractureLists
  <2>2. SessionSplits
    BY <1>2, <2>1, IterateSplits
  <2> QED BY <1>1, <2>1, <2>2, SplitStep DEF Promise!Next
<1>6. CASE Resolve
  <2>1. /\ BreakByProperty \/ BreakByPin \/ BreakArbitrarily
        /\ ~Idle /\ ~Idle' /\ UNCHANGED <<command, report>>
    BY <1>6 DEF Resolve, Resolvers, Idle
  <2>2. BadMatchDetected => BadMatchDetected'
    BY <2>1 DEF BreakByProperty, BreakByPin, BreakArbitrarily, Break, FractureLists
  <2>3. SessionSplits
    BY <1>2, <2>1, ResolversSplit
  <2> QED BY <1>1, <2>1, <2>2, <2>3, SplitStep DEF Promise!Next
\* The ends of `run'.
<1>7. CASE VerifyConverged
  <2>1. /\ ~Idle /\ Idle' /\ UNCHANGED <<elements, nodes, BadMatchDetected>>
        /\ report' = IF VerifyMatching = -1 THEN "mismatch" ELSE "none"
    BY <1>7 DEF VerifyConverged, Idle, lists
  <2> QED BY <1>1, <1>2, <2>1, EndStep DEF Promise!Next
<1>8. CASE Report
  <2>1. /\ ~Idle /\ Idle' /\ UNCHANGED <<elements, nodes, BadMatchDetected>>
        /\ report' = Verdict(automorphisms) /\ pc = "report"
    BY <1>8 DEF Report, Idle, netcmp, lists, flags
  <2>2. automorphisms \in Int /\ (automorphisms > 0 \/ automorphisms = VerifyMatching)
    BY <1>1, <2>1 DEF TypeOK, ControlOK, ReportIsCurrent
  <2>3. /\ report' = "mismatch" => VerifyMatching = -1
        /\ report' = "unique" => VerifyMatching = 0
    BY <2>1, <2>2, VerdictInverse
  <2> QED BY <1>1, <1>2, <2>1, <2>3, EndStep DEF Promise!Next
\* Steps that only go on.
<1>9. CASE \/ \E on \in BOOLEAN : Exhaustive(on)
           \/ Interrupt \/ VerifyResolving \/ Settling \/ Return
           \/ UNCHANGED vars
  <2>1. UNCHANGED <<elements, nodes, BadMatchDetected, command, report>>
    BY <1>9 DEF Exhaustive, Interrupt, VerifyResolving, Settling, Return, vars, control,
                netcmp, lists, flags
  <2>2. Idle' = Idle
    <3>1. NextResolver # "idle"
      BY DEF NextResolver
    <3> QED BY <1>9, <3>1 DEF Exhaustive, Interrupt, VerifyResolving, Settling, Return, vars,
                              control, Idle
  <2> QED BY <2>1, <2>2, QuietStep
<1> QED BY <1>3, <1>4, <1>5, <1>6, <1>7, <1>8, <1>9 DEF Next, Executing, Promise!Next

\* Whatever the circuits, the commands and the interrupts: classes only split
\* while a command is executed, a mismatch is not forgotten, and netlists are
\* called a unique match only when all classes are pairs (_netcmp_run with all
\* that it calls).
THEOREM SessionRefines == Spec => RefinesPromise
<1>1. Init => Inv
  BY InitInv
<1>2. Inv /\ [Next]_vars => Inv'
  BY NextInv
<1>3. Init => Promise!Init
  BY InitRefines
<1>4. Inv /\ Inv' /\ [Next]_vars
        => [Promise!Next]_<<partition, BadMatchDetected, ~Idle, verdict>>
  BY NextRefines DEF Quiet
<1> QED BY <1>1, <1>2, <1>3, <1>4, PTL DEF Spec, RefinesPromise, Promise!Spec, partition, verdict

(***************************************************************************)
(* The verdict on properties that goes with a unique match is that of the   *)
(* corresponding devices (PropertyVerdict), unless the user restarts the    *)
(* comparison.                                                              *)
(*                                                                          *)
(* PropertyErrorDetected is only ever added to, each time VerifyMatching    *)
(* meets a class of two corresponding devices.  That it is not out of date  *)
(* at the report rests on such a class being there for good: it could only  *)
(* be split by a mismatch, after which nothing is reported to match.        *)
(***************************************************************************)
(***************************************************************************)
(* Classes of two corresponding members.                                    *)
(***************************************************************************)
\* A set of which the circuit of every member is 1 or 2.
TwoSided(S) == IsFiniteSet(S) /\ S = In(S, 1) \cup In(S, 2)

LEMMA PairStays ==
  ASSUME NEW S, TwoSided(S), OneToOne(S),
         NEW T \in SUBSET S, T # {}, Balanced(T)
  PROVE  T = S
<1>0. /\ \E x \in S : In(S, 1) = {x}
      /\ \E y \in S : In(S, 2) = {y}
  BY CountOne DEF TwoSided, OneToOne
<1>1. PICK x, y : In(S, 1) = {x} /\ In(S, 2) = {y}
  BY <1>0
<1>2. S = {x, y}
  BY <1>1 DEF TwoSided
<1>3. /\ In(T, 1) = IF x \in T THEN {x} ELSE {}
      /\ In(T, 2) = IF y \in T THEN {y} ELSE {}
  BY <1>1 DEF In
<1>4. Cardinality({x}) = 1 /\ Cardinality({y}) = 1 /\ Cardinality({}) = 0
  BY FS_Singleton, FS_EmptySet
<1>5. x \in T <=> y \in T
  BY <1>3, <1>4 DEF Balanced, Count
<1> QED BY <1>2, <1>5

\* Where classes are split into balanced ones, pairs stay.
LEMMA PairsStay ==
  ASSUME NEW X, \A S \in SUBSET X : TwoSided(S), NEW L, NEW M, ListOK(L, X), ListOK(M, X),
         Splits(L, M), \A T \in Partition(M) : Balanced(T),
         NEW S \in Partition(L), OneToOne(S)
  PROVE  S \in Partition(M)
<1>1. /\ S # {} /\ S \subseteq X
      /\ \A R \in Partition(L) : S \cap R # {} => R = S
  BY DEF ListOK, ClassesOK, Partition
<1>2. PICK x \in S : TRUE
  BY <1>1
<1>3. PICK T \in Partition(M) : x \in T
  BY <1>2 DEF Splits
<1>4. PICK R \in Partition(L) : T \subseteq R
  BY DEF Splits
<1>5. T \subseteq S
  BY <1>1, <1>2, <1>3, <1>4
<1>6. T = S
  BY <1>1, <1>3, <1>5, PairStays
<1> QED BY <1>6

LEMMA ElementsTwoSided ==
  ASSUME NEW p \in Pairs
  PROVE  \A S \in SUBSET Elements(p) : TwoSided(S)
<1> SUFFICES ASSUME NEW S \in SUBSET Elements(p) PROVE TwoSided(S)
  OBVIOUS
<1>1. IsFiniteSet(S)
  BY NetlistsFinite, FS_Subset
<1>2. ASSUME NEW x \in S PROVE Graph[x] \in {1, 2}
  <2>1. x \in Element \cup Net
    BY NetlistsAssumption
  <2> QED BY <2>1, NetlistsAssumption DEF Graph
<1> QED BY <1>1, <1>2 DEF TwoSided, In

\* Splitting the classes of elements takes no result of PropertyCheck away.
LEMMA ChecksStay ==
  ASSUME Compared, Compared', pair' = pair, Splits(elements, elements'),
         IllegalOnlyIfBad', ~BadMatchDetected'
  PROVE  PropertyChecks \subseteq PropertyChecks'
<1>1. /\ ListOK(elements, Elements(pair)) /\ ListOK(elements', Elements(pair))
      /\ \A S \in SUBSET Elements(pair) : TwoSided(S)
  <2>1. ListOK(elements', Elements(pair'))
    BY DEF Compared
  <2> QED BY <2>1, ElementsTwoSided DEF Compared
<1>2. \A T \in Partition(elements') : Balanced(T)
  BY DEF IllegalOnlyIfBad, Partition
<1>3. \A S \in Partition(elements) : OneToOne(S) => S \in Partition(elements')
  BY <1>1, <1>2, PairsStay
<1> QED BY <1>3 DEF PropertyChecks

(***************************************************************************)
(* The invariant: an error that was detected is one of the present classes, *)
(* as long as there is no mismatch.                                         *)
(***************************************************************************)
ErrorsArePresent ==
  ~BadMatchDetected =>
    /\ PropertyErrorDetected = 1 => 1 \in PropertyChecks
    /\ PropertyErrorDetected = -1 => -1 \in PropertyChecks

PropertyInv == Inv /\ ErrorsArePresent /\ PropertyVerdict

LEMMA SplitKeepsErrors ==
  ASSUME ErrorsArePresent, Compared, Compared', pair' = pair, Splits(elements, elements'),
         IllegalOnlyIfBad', BadMatchDetected => BadMatchDetected',
         UNCHANGED PropertyErrorDetected
  PROVE  ErrorsArePresent'
BY ChecksStay DEF ErrorsArePresent

\* The pairs of devices and their results depend on the classes alone.
LEMMA SameChecks ==
  ASSUME UNCHANGED <<pair, elements>>
  PROVE  PropertyChecks' = PropertyChecks
BY DEF PropertyChecks, Partition

\* VerifyMatching adds what it finds to PropertyErrorDetected.
LEMMA VerifyKeepsErrors ==
  ASSUME ErrorsArePresent, VerifyProperties, UNCHANGED <<pair, elements, BadMatchDetected>>
  PROVE  ErrorsArePresent'
BY SameChecks DEF ErrorsArePresent, VerifyProperties

\* After VerifyMatching without a mismatch, the flag says all.
LEMMA VerifySaysAll ==
  ASSUME Inv, ErrorsArePresent, VerifyProperties, UNCHANGED <<pair, elements>>,
         ~BadMatchDetected, Compared
  PROVE  PropertyErrorDetected' = (IF 1 \in PropertyChecks THEN 1
                                   ELSE IF -1 \in PropertyChecks THEN -1 ELSE 0)'
<1>1. \A S \in Partition(elements) : Balanced(S)
  BY DEF Inv, IllegalOnlyIfBad, Partition
<1>2. PropertyErrorDetected \in {-1, 0, 1}
  BY DEF Inv, TypeOK, FlagsOK
<1> QED BY <1>1, <1>2, SameChecks DEF ErrorsArePresent, VerifyProperties

LEMMA NextErrors ==
  ASSUME "restart" \notin Commands, Inv, Inv', ErrorsArePresent, [Next]_vars
  PROVE  ErrorsArePresent'
<1>1. TypeOK /\ IllegalOnlyIfBad /\ TypeOK' /\ IllegalOnlyIfBad'
  BY DEF Inv
<1>2. pair # NoPair => Compared
  BY <1>1, PairCompared
<1>3. ~Idle => Compared
  BY <1>1, <1>2 DEF TypeOK, ControlOK, Idle
<1>4. CASE UNCHANGED <<pair, elements, BadMatchDetected, PropertyErrorDetected>>
  BY <1>4, SameChecks DEF ErrorsArePresent
<1>5. CASE VerifyProperties /\ UNCHANGED <<pair, elements, BadMatchDetected>>
  BY <1>5, VerifyKeepsErrors
<1>6. ASSUME NEW p \in Pairs, Compare(p) PROVE ErrorsArePresent'
  <2>1. PropertyErrorDetected' = 0
    BY <1>6 DEF Compare, CreateTwoLists, ResetState
  <2> QED BY <2>1 DEF ErrorsArePresent
<1>7. CASE IterateOnce \/ Converge \/ Exhaust \/ Settle
  <2>1. Compared /\ Iterate
    BY <1>2, <1>3, <1>7 DEF IterateOnce, Converge, Exhaust, Settle, Iterate, Idle
  <2>2. Compared' /\ Splits(elements, elements')
    BY <2>1, IterateOK, IterateSplits DEF SessionSplits
  <2>3. /\ pair' = pair /\ UNCHANGED PropertyErrorDetected
        /\ BadMatchDetected => BadMatchDetected'
    BY <2>1 DEF Iterate, FractureLists
  <2> QED BY <1>1, <2>1, <2>2, <2>3, SplitKeepsErrors
<1>8. CASE Resolve
  <2>1. Compared /\ (BreakByProperty \/ BreakByPin \/ BreakArbitrarily)
    BY <1>3, <1>8 DEF Resolve, Resolvers, Idle
  <2>2. Compared' /\ Splits(elements, elements')
    BY <2>1, ResolversOK, ResolversSplit DEF SessionSplits
  <2>3. /\ pair' = pair /\ UNCHANGED PropertyErrorDetected
        /\ BadMatchDetected => BadMatchDetected'
    BY <2>1 DEF BreakByProperty, BreakByPin, BreakArbitrarily, Break, FractureLists
  <2> QED BY <1>1, <2>1, <2>2, <2>3, SplitKeepsErrors
<1>9. ASSUME NEW C \in elements.classes, NEW a \in C.members, NEW b \in C.members,
             EquateElements(C, a, b)
      PROVE  ErrorsArePresent'
  <2>1. Compared /\ EquivalenceElements(C, a, b)
    BY <1>2, <1>9 DEF EquateElements
  <2>2. Compared'
    BY <2>1, EquivalenceElementsOK
  <2>3. Splits(elements, elements')
    BY <2>1, EquateSplits DEF EquivalenceElements, Compared
  <2>4. /\ pair' = pair /\ UNCHANGED PropertyErrorDetected
        /\ BadMatchDetected => BadMatchDetected'
    BY <2>1 DEF EquivalenceElements
  <2> QED BY <1>1, <2>1, <2>2, <2>3, <2>4, SplitKeepsErrors
<1>10. ASSUME NEW C, NEW a, NEW b, EquateNodes(C, a, b)
       PROVE  ErrorsArePresent'
  <2>1. /\ UNCHANGED <<pair, elements, PropertyErrorDetected>>
        /\ BadMatchDetected => BadMatchDetected'
    BY <1>10 DEF EquateNodes, EquivalenceNodes
  <2> QED BY <2>1, SameChecks DEF ErrorsArePresent
<1>11. CASE Verify \/ VerifyConverged \/ VerifyResolving \/ Settling \/ Return
  BY <1>5, <1>11 DEF Verify, VerifyConverged, VerifyResolving, Settling, Return, lists
<1>12. ASSUME \/ \E on \in BOOLEAN : Exhaustive(on)
              \/ \E c \in {"converge", "resolve"} : Run(c)
              \/ Interrupt \/ Report \/ UNCHANGED vars
       PROVE  ErrorsArePresent'
  BY <1>4, <1>12 DEF Exhaustive, Run, Interrupt, Report, netcmp, lists, flags, vars
<1>13. ~Restart
  BY DEF Restart, Given
<1>14. \A S, c, x : x \in In(S, c) => x \in S
  BY DEF In
<1> QED BY <1>6, <1>7, <1>8, <1>9, <1>10, <1>11, <1>12, <1>13, <1>14 DEF Next, Executing

LEMMA NextVerdict ==
  ASSUME Inv, Inv', ErrorsArePresent, PropertyVerdict, [Next]_vars
  PROVE  PropertyVerdict'
<1>1. ~Idle => Compared
  BY PairCompared DEF Inv, TypeOK, ControlOK, Idle
<1>2. CASE pc' # "report"
  BY <1>2 DEF PropertyVerdict
<1>3. VerifyMatching \in {0, -2} => ~BadMatchDetected
  BY DEF VerifyMatching
<1>4. CASE VerifyResolving
  <2>1. /\ Compared /\ VerifyProperties /\ UNCHANGED <<pair, elements>>
        /\ automorphisms' = VerifyMatching
    BY <1>1, <1>4 DEF VerifyResolving, Idle, lists
  <2> QED BY <1>3, <2>1, VerifySaysAll DEF PropertyVerdict
<1>5. CASE Return
  <2>1. /\ Compared /\ VerifyProperties /\ UNCHANGED <<pair, elements>>
        /\ automorphisms' = IF resolver = "Arbitrarily" THEN automorphisms ELSE VerifyMatching
    BY <1>1, <1>5 DEF Return, Idle, lists
  <2>2. automorphisms > 0
    BY <1>5 DEF Return, Inv, ReportIsCurrent
  <2>3. automorphisms' \in {0, -2} => VerifyMatching \in {0, -2}
    BY <2>1, <2>2
  <2> QED BY <1>3, <2>1, <2>3, VerifySaysAll DEF PropertyVerdict
<1>6. CASE Interrupt \/ UNCHANGED vars
  <2>1. UNCHANGED <<pair, elements, PropertyErrorDetected, pc, automorphisms>>
    BY <1>6 DEF Interrupt, vars, control, netcmp, lists, flags
  <2> QED BY <2>1, SameChecks DEF PropertyVerdict
<1>7. ASSUME \/ \E p \in Pairs : Compare(p)
             \/ IterateOnce \/ \E on \in BOOLEAN : Exhaustive(on)
             \/ Restart \/ Verify
             \/ \E C \in elements.classes : \E a \in In(C.members, 1), b \in In(C.members, 2) :
                  EquateElements(C, a, b)
             \/ \E C \in nodes.classes : \E a \in In(C.members, 1), b \in In(C.members, 2) :
                  EquateNodes(C, a, b)
      PROVE  pc' # "report"
  BY <1>7 DEF Compare, IterateOnce, Exhaustive, Restart, Verify, EquateElements, EquateNodes,
              Given, Idle, control
<1>8. ASSUME \/ \E c \in {"converge", "resolve"} : Run(c)
             \/ Converge \/ Exhaust \/ VerifyConverged \/ Resolve \/ Settle \/ Settling \/ Report
      PROVE  pc' # "report"
  BY <1>8 DEF Run, Converge, Exhaust, VerifyConverged, Resolve, Settle, Settling, Report
<1> QED BY <1>2, <1>4, <1>5, <1>6, <1>7, <1>8 DEF Next, Executing

\* A unique match is reported with property errors exactly when corresponding
\* devices have some (PropertyErrorDetected, set by VerifyMatching through
\* PropertyCheck).  restart keeps the flag while it makes all classes anew, so that
\* the theorem assumes it is not used.
THEOREM PropertiesReported ==
  ASSUME "restart" \notin Commands
  PROVE  Spec => []PropertyVerdict
<1>1. Init => PropertyInv
  <2>1. Init => ErrorsArePresent /\ PropertyVerdict
    BY DEF Init, ErrorsArePresent, PropertyVerdict
  <2> QED BY <2>1, InitInv DEF PropertyInv
<1>2. PropertyInv /\ [Next]_vars => PropertyInv'
  BY NextInv, NextErrors, NextVerdict DEF PropertyInv
<1>3. PropertyInv => PropertyVerdict
  BY DEF PropertyInv
<1> QED BY <1>1, <1>2, <1>3, PTL DEF Spec
================================================================================
