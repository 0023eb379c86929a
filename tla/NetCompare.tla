----------------------------- MODULE NetCompare -----------------------------
(***************************************************************************)
(* The netlist comparison of base/netcmp.c: the two lists of equivalence    *)
(* classes and the functions that create, iterate, verify and break them.   *)
(* Each operator below is one C function; CompareSession issues them as     *)
(* the commands of the Tcl interface do.                                    *)
(***************************************************************************)
EXTENDS ClassLists

CONSTANT NoPair  \* ElementClasses or NodeClasses is NULL

ASSUME NoPairAssumption == NoPair \notin Pairs

VARIABLES
  pair,                   \* the circuits being compared, or NoPair
  elements,               \* ElementClasses, with the hash values of the elements
  nodes,                  \* NodeClasses, with the hash values of the nets
  pin_magic,              \* NodeList.pin_magic of every pin of every element
  ExhaustiveSubdivision,  \* fracture the classes of two members as well
  BadMatchDetected,       \* an illegal partition was found
  PropertyErrorDetected   \* 1 property errors, -1 missing properties, 0 none

lists == <<pair, elements, nodes, pin_magic>>
flags == <<ExhaustiveSubdivision, BadMatchDetected, PropertyErrorDetected>>
netcmp == <<lists, flags>>

(***************************************************************************)
(* CreateTwoLists.                                                          *)
(***************************************************************************)
ResetState ==
  /\ pair' = NoPair
  /\ elements' = EmptyList
  /\ nodes' = EmptyList
  /\ pin_magic' = <<>>
  /\ ExhaustiveSubdivision' = FALSE
  /\ BadMatchDetected' = FALSE
  /\ PropertyErrorDetected' = 0

HasContents(p) == \A c \in {1, 2} : In(Elements(p), c) # {} /\ In(Nodes(p), c) # {}

\* FirstElementPass hashes an element by its class, FirstNodePass a net by
\* the number of pins on it.
FirstElements(p) == InitialList(Netlist[p].model)

Fanout(p, n) == Cardinality(PinsOn(p, n))

FirstNodes(p) == InitialList([n \in Nodes(p) |-> Fanout(p, n)])

\* The lists after the first set of fractures.
FirstLists ==
  [p \in Pairs |->
     [elements |-> Fracture(FirstElements(p), TRUE),
      nodes    |-> Fracture(FirstNodes(p), TRUE),
      mismatch |-> \/ Mismatch(FirstElements(p), TRUE)
                   \/ Mismatch(FirstNodes(p), TRUE)]]

FirstMagic == [p \in Pairs |-> [e \in Elements(p) |-> SeededMagic(p, e)]]

Permute == [p \in Pairs |-> [e \in Elements(p) |-> PermutedMagic(p, e)]]

\* CreateTwoLists followed by Permute, as the `compare' command calls them.
\* A circuit without devices or nets leaves the lists empty.
CreateTwoLists(p) ==
  IF ~HasContents(p) THEN ResetState
  ELSE /\ pair' = p
       /\ elements' = FirstLists[p].elements
       /\ nodes' = FirstLists[p].nodes
       /\ pin_magic' = Permute[p]
       /\ ExhaustiveSubdivision' = FALSE
       /\ BadMatchDetected' = FirstLists[p].mismatch
       /\ PropertyErrorDetected' = 0

\* RegroupDataStructures puts everything into one class again.  It draws the
\* pin magic numbers anew and does not call Permute.
RegroupDataStructures ==
  /\ pair # NoPair
  /\ elements' = FirstLists[pair].elements
  /\ nodes' = FirstLists[pair].nodes
  /\ pin_magic' = FirstMagic[pair]
  /\ BadMatchDetected' = (BadMatchDetected \/ FirstLists[pair].mismatch)
  /\ UNCHANGED <<pair, ExhaustiveSubdivision, PropertyErrorDetected>>

(***************************************************************************)
(* Iterate.                                                                 *)
(***************************************************************************)
\* Mutant of ElementHash: an element's own previous hash value is left out.
ElementHashOfPins(E, N, e) ==
  LET net == NodeList[pair][e]
  IN  Tally([i \in {i \in Pin : net[i] # NoNet} |-> <<pin_magic[e][i], ClassOf(N, net[i])>>])

\* ElementHash: the class of the net on every connected pin, with the magic
\* number of the pin, and the element's own previous hash value.
ElementHash(E, N, e) ==
  LET net == NodeList[pair][e]
  IN  <<HashOf(E, e),
        Tally([i \in {i \in Pin : net[i] # NoNet} |->
                 <<pin_magic[e][i], ClassOf(N, net[i])>>])>>

\* NodeHash: for every pin on the net, the magic number of the pin, the hash
\* value of its element and the class of its element.
NodeHash(E, n) ==
  Tally([t \in PinsOn(pair, n) |->
           <<pin_magic[t[1]][t[2]], HashOf(E, t[1]), ClassOf(E, t[1])>>])

RehashedElements(E, N) ==
  Rehash(E, [e \in Members(E) |-> ElementHash(E, N, e)])

RehashedNodes(E, N) == Rehash(N, [n \in Members(N) |-> NodeHash(E, n)])

\* The element classes are fractured first, then the net classes.
FractureLists(E, N) ==
  /\ elements' = Fracture(E, ExhaustiveSubdivision)
  /\ nodes' = Fracture(N, ExhaustiveSubdivision)
  /\ BadMatchDetected' = (\/ BadMatchDetected
                          \/ Mismatch(E, ExhaustiveSubdivision)
                          \/ Mismatch(N, ExhaustiveSubdivision))
  /\ UNCHANGED <<pair, pin_magic, PropertyErrorDetected>>

\* The nets are hashed with the new classes of the elements.
Iterate ==
  /\ pair # NoPair
  /\ FractureLists(RehashedElements(elements, nodes), RehashedNodes(elements', nodes))

\* Iterate returns TRUE when the number of classes did not change.
Done == elements'.old = elements.old /\ nodes'.old = nodes.old

(***************************************************************************)
(* VerifyMatching.                                                          *)
(***************************************************************************)
Symmetries(L) == Cardinality({S \in Partition(L) : ~OneToOne(S)})

Ports(S, c) == {n \in In(S, c) : IsPort(pair, n)}

PortMismatch ==
  \/ \E S \in Partition(nodes) : Cardinality(Ports(S, 1)) # Cardinality(Ports(S, 2))
  \/ Cardinality(DOMAIN Netlist[pair].ports[1]) # Cardinality(DOMAIN Netlist[pair].ports[2])
  \/ ~(Disconnected(pair, 1) \subseteq Disconnected(pair, 2))

BadClasses == \E L \in {elements, nodes} : \E S \in Partition(L) : ~Balanced(S)

\* Mutant of VerifyMatching: the flag is not looked at.
VerifyCounts ==
  IF BadClasses THEN -1
  ELSE LET symmetries == Symmetries(elements) + Symmetries(nodes)
       IN  IF symmetries = 0 /\ PortMismatch THEN -2 ELSE symmetries

\* -1 for no match, -2 for a unique match with different ports, otherwise the
\* number of classes that are not a pair of corresponding members.
VerifyMatching ==
  IF BadMatchDetected \/ BadClasses THEN -1
  ELSE LET symmetries == Symmetries(elements) + Symmetries(nodes)
       IN  IF symmetries = 0 /\ PortMismatch THEN -2 ELSE symmetries

\* The results of PropertyCheck on the classes of two corresponding devices.
PropertyChecks ==
  UNION {{PropertyMatch(pair, e, f) : e \in In(S, 1), f \in In(S, 2)} :
           S \in {S \in Partition(elements) : OneToOne(S)}}

\* Mutant of VerifyProperties: properties that are missing are no error.
VerifyValues ==
  PropertyErrorDetected' =
    IF BadMatchDetected \/ \E S \in Partition(elements) : ~Balanced(S)
      THEN PropertyErrorDetected
    ELSE IF 1 \in PropertyChecks THEN 1
    ELSE PropertyErrorDetected

VerifyProperties ==
  PropertyErrorDetected' =
    IF BadMatchDetected \/ \E S \in Partition(elements) : ~Balanced(S)
      THEN PropertyErrorDetected
    ELSE IF PropertyErrorDetected = 1 \/ 1 \in PropertyChecks THEN 1
    ELSE IF -1 \in PropertyChecks THEN -1
    ELSE PropertyErrorDetected

(***************************************************************************)
(* Symmetry breaking.  The classes with several members of either circuit   *)
(* are given new hash values, and all classes are fractured by them.        *)
(***************************************************************************)
Automorphic(L) == {S \in Partition(L) : Balanced(S) /\ ~OneToOne(S)}

\* Mutant of Renewed: the members keep their hash values.
NotRenewed(L, S, key) == L

\* New hash values: key[x] for the members x in S, the present one for others.
Renewed(L, S, key) ==
  [L EXCEPT !.hash =
     Hashed([x \in Members(L) |->
               IF x \in S THEN <<"new", ClassOf(L, x), key[x]>>
               ELSE <<"old", HashOf(L, x)>>])]

Break(E, N) ==
  /\ FractureLists(E, N)
  /\ ExhaustiveSubdivision' = TRUE

\* Devices of a class with matching properties get the same new hash value,
\* as many of them in either circuit; the code takes those that come last in
\* its list, which may be any.
Alike(e) == {f \in ClassOf(elements, e) : PropertyMatch(pair, e, f) = 0}

Lesser(S) == IF Count(S, 1) < Count(S, 2) THEN Count(S, 1) ELSE Count(S, 2)

\* Mutant of ByProperty: the devices without a counterpart are not reverted.
ByEveryProperty ==
  {Renewed(elements, UNION Automorphic(elements), Netlist[pair].value)}

\* The lists of elements that may result.
ByProperty ==
  LET U == UNION Automorphic(elements)
      paired == {S \in SUBSET U : \A e \in U : \A c \in {1, 2} :
                   Count(S \cap Alike(e), c) = Lesser(Alike(e))}
  IN  {Renewed(elements, S, Netlist[pair].value) : S \in paired}

BreakByProperty == \E E \in ByProperty : Break(E, nodes)

\* Two nets of a class with the same name, one of them a port, get a new hash
\* value.  ResolveAutomorphsByPin does the same whatever its argument
\* match_nets is.
Namesakes(n) ==
  {m \in ClassOf(nodes, n) :
     /\ Graph[m] # Graph[n]
     /\ Netlist[pair].netname[m] = Netlist[pair].netname[n]
     /\ IsPort(pair, m) \/ IsPort(pair, n)}

ByPin ==
  LET S == {n \in UNION Automorphic(nodes) : Namesakes(n) # {}}
  IN  {Renewed(nodes, S, Netlist[pair].netname)}

BreakByPin == \E N \in ByPin : Break(elements, N)

\* One device of either circuit, or else one net, is taken to correspond.  The
\* code takes the last ones in the lists of the first class, which may be any.
\* (ResolveAutomorphisms is not called without such a class.)
OnePair(L) ==
  LET candidates == UNION {In(S, 1) \X In(S, 2) : S \in Automorphic(L)}
  IN  {Renewed(L, {t[1], t[2]}, [x \in Members(L) |-> "pair"]) : t \in candidates}

BreakArbitrarily ==
  \/ \E E \in OnePair(elements) : Break(E, nodes)
  \/ /\ Automorphic(elements) = {}
     /\ \E N \in OnePair(nodes) : Break(elements, N)

(***************************************************************************)
(* EquivalenceElements and EquivalenceNodes: two members of one class can   *)
(* be equated.  The class alone is made into new classes, whatever its      *)
(* size, and the number of classes is not counted again.                    *)
(***************************************************************************)
EquivalenceElements(C, a, b) ==
  /\ elements' = Equate(elements, C, a, b)
  /\ BadMatchDetected' = (\/ BadMatchDetected
                          \/ IllegalGroups(C.members, EquatedHash(C, a, b)) # {})
  /\ UNCHANGED <<pair, nodes, pin_magic, ExhaustiveSubdivision, PropertyErrorDetected>>

EquivalenceNodes(C, a, b) ==
  /\ nodes' = Equate(nodes, C, a, b)
  /\ BadMatchDetected' = (\/ BadMatchDetected
                          \/ IllegalGroups(C.members, EquatedHash(C, a, b)) # {})
  /\ UNCHANGED <<pair, elements, pin_magic, ExhaustiveSubdivision, PropertyErrorDetected>>
=============================================================================
