------------------------------ MODULE Netlists ------------------------------
(***************************************************************************)
(* The netlists that netgen compares, two circuits at a time, as            *)
(* CreateTwoLists (base/netcmp.c) hands them to the comparison.             *)
(*                                                                          *)
(* A pair p of circuits to compare has a record Circuits[p] of              *)
(*   model    the device class of every element (tp->classhash, the only    *)
(*            thing the comparison reads of a class name)                   *)
(*   conn     the net on every pin of every element (objlist.node), NoNet   *)
(*            where the pin is not connected                                *)
(*   permutes the pin pairs on the `permutes' list of each cell of each     *)
(*            circuit                                                       *)
(*   value    the property values of every element, NoValue without any     *)
(*   netname  the name of every net (N->object->name)                       *)
(*   ports    for each circuit, the net of each of its ports, NoNet for a   *)
(*            disconnected one                                              *)
(* The side of the comparison an element or a net comes from (E->graph,     *)
(* N->graph) is Graph[x], 1 or 2.                                           *)
(***************************************************************************)
EXTENDS Integers, FiniteSets

CONSTANTS
  Element,   \* device instances, of either circuit
  Net,       \* nets, of either circuit
  GraphOf,   \* the circuit, 1 or 2, of every element and net
  Model,     \* device classes
  Pin,       \* pin positions of a device, numbers in the order of pin_magic
  NoNet,     \* the NULL node of a pin that is not connected
  NoValue,   \* the property value of an element without properties
  Pairs,     \* the pairs of circuits that may be compared, by name
  Circuits   \* the circuits of every pair

Netlist == [p \in Pairs |-> Circuits[p]]

Graph == [x \in Element \cup Net |-> GraphOf[x]]

Elements(p) == DOMAIN Netlist[p].model

\* CreateNodeList lists a net only when a device pin is on it.
Nodes(p) == {Netlist[p].conn[e][i] : e \in Elements(p), i \in Pin} \ {NoNet}

(***************************************************************************)
(* NodeList.node at every position of every element.  CreateLists steps to  *)
(* the next position only after a pin that is connected: the nets of the    *)
(* connected pins are on the first positions, whatever pins they are on.    *)
(***************************************************************************)
Connected(p, e) == {i \in Pin : Netlist[p].conn[e][i] # NoNet}

Position(S, i) == Cardinality({j \in S : j <= i})

NodeList ==
  [p \in Pairs |-> [e \in Elements(p) |->
     LET connected == Connected(p, e)
     IN  [k \in Pin |->
            IF Position(Pin, k) > Cardinality(connected) THEN NoNet
            ELSE Netlist[p].conn[e][CHOOSE i \in connected :
                   Position(connected, i) = Position(Pin, k)]]]]

\* The positions <<element, position>> that net n is on (its elementlist).
PinsOn(p, n) == {t \in Elements(p) \X Pin : NodeList[p][t[1]][t[2]] = n}

In(S, c) == {x \in S : Graph[x] = c}

ASSUME NetlistsAssumption ==
  /\ IsFiniteSet(Element) /\ IsFiniteSet(Net) /\ IsFiniteSet(Pin)
  /\ Pin \subseteq Nat
  /\ NoNet \notin Net
  /\ Element \cap Net = {}
  /\ GraphOf \in [Element \cup Net -> {1, 2}]
  /\ \A p \in Pairs :
       /\ Elements(p) \subseteq Element
       /\ Netlist[p].model \in [Elements(p) -> Model]
       /\ Netlist[p].conn \in [Elements(p) -> [Pin -> Net \cup {NoNet}]]
       /\ Netlist[p].permutes \in [{1, 2} -> [Model -> SUBSET (Pin \X Pin)]]

\* The pins of a device are on nets of its own circuit.
ASSUME OwnNetsAssumption ==
  \A p \in Pairs : \A e \in Elements(p) : \A i \in Connected(p, e) :
    Graph[Netlist[p].conn[e][i]] = Graph[e]

(***************************************************************************)
(* Multisets: how often each value is taken by f.                           *)
(***************************************************************************)
Tally(f) == [v \in {f[x] : x \in DOMAIN f} |->
               Cardinality({x \in DOMAIN f : f[x] = v})]

(***************************************************************************)
(* Pin permutation.  Permute() gives both pins of an entry of the permutes  *)
(* list the larger of their two magic numbers, on every pin that has the    *)
(* smaller one: after the whole list, the pins of a connected component     *)
(* share the largest magic number of the component.                         *)
(***************************************************************************)
Permutable(R, i) ==
  {j \in Pin : \A S \in SUBSET Pin :
     (i \in S /\ \A r \in R : r[1] \in S <=> r[2] \in S) => j \in S}

Largest(S) == CHOOSE i \in S : \A j \in S : j <= i

\* The magic numbers that MagicSeed(classhash) draws for the pins of a class,
\* and those that Permute() leaves.
SeededMagic(p, e) == [i \in Pin |-> <<Netlist[p].model[e], i>>]

PermutedMagic(p, e) ==
  [i \in Pin |->
     <<Netlist[p].model[e], Largest(Permutable(Netlist[p].permutes[Graph[e]][Netlist[p].model[e]], i))>>]

(***************************************************************************)
(* PropertyMatch: 0 when the properties of two devices agree (or neither    *)
(* has any), a positive count when values differ, -1 when the classes       *)
(* differ or one device lacks the properties.                               *)
(***************************************************************************)
PropertyMatch(p, e, f) ==
  IF Netlist[p].model[e] # Netlist[p].model[f] THEN -1
  ELSE IF Netlist[p].value[e] = Netlist[p].value[f] THEN 0
  ELSE IF NoValue \in {Netlist[p].value[e], Netlist[p].value[f]} THEN -1
  ELSE 1

\* IsPort(N->object): the object of a net is a port when the net has one.
IsPort(p, n) ==
  \E name \in DOMAIN Netlist[p].ports[Graph[n]] : Netlist[p].ports[Graph[n]][name] = n

Disconnected(p, c) == {name \in DOMAIN Netlist[p].ports[c] : Netlist[p].ports[c][name] = NoNet}

(***************************************************************************)
(* What it means for two circuits to be the same circuit, stated without    *)
(* the algorithm: a bijection f of the devices that preserves their classes *)
(* and that the nets can follow.  Pins that the permutes lists of either    *)
(* circuit allow to be exchanged count as the same terminal.                *)
(***************************************************************************)
Terminal(p, e, i) ==
  Largest(Permutable(Netlist[p].permutes[1][Netlist[p].model[e]] \cup Netlist[p].permutes[2][Netlist[p].model[e]], i))

\* The terminals of net n, with every device e renamed to f[e].
Terminals(p, f, n) ==
  Tally([t \in {t \in Elements(p) \X Pin : Netlist[p].conn[t[1]][t[2]] = n} |->
           <<f[t[1]], Terminal(p, t[1], t[2])>>])

IsMatching(p, f) ==
  LET E1 == In(Elements(p), 1)
      E2 == In(Elements(p), 2)
      into2 == [e \in Elements(p) |-> IF e \in E1 THEN f[e] ELSE e]
      nets == [n \in Nodes(p) |-> Terminals(p, into2, n)]
  IN  /\ {f[e] : e \in E1} = E2
      /\ Cardinality(E1) = Cardinality(E2)
      /\ \A e \in E1 : Netlist[p].model[f[e]] = Netlist[p].model[e]
      /\ Tally([n \in In(Nodes(p), 1) |-> nets[n]])
           = Tally([n \in In(Nodes(p), 2) |-> nets[n]])

Matchings(p) ==
  {f \in [In(Elements(p), 1) -> In(Elements(p), 2)] : IsMatching(p, f)}

\* All matchings of all pairs, as a table.
MatchingsOf == [p \in Pairs |-> Matchings(p)]

Isomorphic(p) == MatchingsOf[p] # {}
=============================================================================
