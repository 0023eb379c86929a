------------------------------ MODULE MCNetworks ------------------------------
(***************************************************************************)
(* Small cells for TLC: resistors, whose pins can be exchanged and which are *)
(* merged in series and in parallel, resistors with a third pin, and devices *)
(* that cannot be turned round and are only merged in parallel.  Nodes 1 and *)
(* 2 are ports.                                                              *)
(***************************************************************************)
EXTENDS Networks

CONSTANTS Sizes,   \* how many devices a cell of any structure has
          Runs,    \* the greatest number of devices of a cell of one network
          Ohms     \* the values of the devices of one network

Zero == <<0, 1>>

\* Device k of a netlist, as the readers leave it: a resistor with its value, or
\* another device without properties.
Resistor(k, pins, v) ==
  [class |-> "r", pins |-> pins, of |-> {<<k, pins, v>>}, ohms |-> <<v, 1>>,
   recs |-> <<[tags |-> << >>, props |-> [value |-> <<v, 1>>]]>>]
Other(k, class, pins) ==
  [class |-> class, pins |-> pins, of |-> {<<k, pins, 1>>}, ohms |-> <<1, 1>>, recs |-> << >>]

Cell(top, devs) == [top |-> top, ports |-> <<1, 2>>, devs |-> devs, open |-> {}]

\* A netlist of any structure, as it is and in another order.
Ends == {e \in (1..4) \X (1..4) : e[1] < e[2]}
Orders(n) == {p \in [1..n -> 1..n] : \A i, j \in 1..n : p[i] = p[j] => i = j}
Resistors == {<<"r", e>> : e \in Ends}
Mixed == Resistors \cup {<<"c", <<1, 2, 1>>>>, <<"c", <<2, 3, 1>>>>, <<"c", <<3, 1, 1>>>>, <<"c", <<1, 3, 2>>>>}
           \cup {<<"d", <<1, 3>>>>, <<"d", <<3, 1>>>>}
MixedSizes == {n - 1 : n \in Sizes}

\* Each bag of n devices in one order: the other order is any.
Rank(d) == 4 * d[2][1] + d[2][2] + IF d[1] = "r" THEN 0 ELSE 20
Nets(n, kinds) == {net \in [1..n -> kinds] : \A k \in 2..n : Rank(net[k - 1]) <= Rank(net[k])}

Shuffled(net, order) == [k \in DOMAIN net |-> net[order[k]]]
Built(net, k) == IF net[k][1] = "r" THEN Resistor(k, net[k][2], 1)
                 ELSE Other(k, net[k][1], net[k][2])
TwoOrders(top, net, order) ==
  LET devs == [k \in DOMAIN net |-> Built(net, k)]
  IN  <<Cell(top, devs), Cell(top, Shuffled(devs, order))>>

\* One network between the ports: all its resistors in parallel or all in series.
OneNetwork(kind, values) ==
  LET n == Len(values)
      Point(k) == CASE k = 0 -> 1 [] k = n -> 2 [] OTHER -> k + 2
      At(k) == IF kind = "parallel" THEN <<1, 2>> ELSE <<Point(k - 1), Point(k)>>
  IN  Cell(TRUE, [k \in 1..n |-> Resistor(k, At(k), values[k])])

Kinds == {"parallel", "series"}
Values == UNION {[1..n -> Ohms] : n \in 1..Runs}

\* Resistors that merge to one, both of whose pins are port 1.
\* The nodes within may have any numbers.
Loop == <<<<1, 3>>, <<4, 3>>, <<1, 4>>, <<4, 5>>, <<3, 5>>>>
LoopCell(p) ==
  LET Number(n) == IF n = 1 THEN 1 ELSE 2 + p[n - 2]
  IN  Cell(TRUE, [k \in 1..5 |-> Resistor(k, <<Number(Loop[k][1]), Number(Loop[k][2])>>, 1)])

\* Top cells and others, of resistors and of all devices, in any structure.
MCInputs ==
  UNION {[kind : {"any"}, top : BOOLEAN, net : Nets(n, Resistors), order : Orders(n)] : n \in Sizes}
  \cup UNION {[kind : {"any"}, top : BOOLEAN, net : Nets(n, Mixed), order : Orders(n)] : n \in MixedSizes}
  \cup [kind : Kinds, one : Values, two : Values]
  \cup {[kind |-> "loop", order |-> p] : p \in Orders(3)}

MCNetlists(x) ==
  IF x.kind = "any" THEN TwoOrders(x.top, x.net, x.order)
  ELSE IF x.kind = "loop" THEN <<LoopCell(x.order), LoopCell(x.order)>>
  ELSE <<OneNetwork(x.kind, x.one), OneNetwork(x.kind, x.two)>>

-----------------------------------------------------------------------------
Merged(g) == g < graph
Devices(g) == DOMAIN cells[g].devs
Drawn(g) == UNION {Device(g, k).of : k \in Devices(g)}
Used(g, devs) == UNION {Pins(Device(g, k)) : k \in devs}
Shared(g, k) == Used(g, Devices(g) \ {k}) \cup ToSet(cells[g].ports)
Nodes(d) == UNION {ToSet(x[2]) : x \in d.of}

\* CombineSeries, CombineParallel: each device of a cell stands for a part of the netlist
\* between its pins.  A node within the part is no port and no other device is on it.
PartsKept ==
  \A g \in 1..2 : \A k \in Devices(g) :
    LET d == Device(g, k)
    IN  /\ Pins(d) \subseteq Nodes(d)
        /\ (Nodes(d) \ Pins(d)) \cap Shared(g, k) = {}
        /\ \A j \in Devices(g) \ {k} : Device(g, j).of \cap d.of = {}

\* Merging keeps the netlist: what stands for what, whatever the series pairs of one pass
\* have to do with each other, and no device is lost.
NetworkKept == [][PartsKept' /\ \A g \in 1..2 : Drawn(g)' = Drawn(g)]_vars

\* CreateTwoLists: the order in which the devices of a netlist are listed has no effect
\* on what is merged with what, and on where the result is connected.
OrderIrrelevant ==
  LET Shape(g) == {<<Pins(Device(g, k)) \cap Shared(g, k), Device(g, k).of>> : k \in Devices(g)}
  IN  Merged(2) /\ Drawn(1) = Drawn(2) => Shape(1) = Shape(2)

\* CreateTwoLists: when it is done with a top cell, another parallel or series pass
\* would find nothing to merge.
FullyMerged ==
  \A g \in 1..2 : Merged(g) /\ cells[g].top =>
    /\ Len(CombineParallel(cells[g]).devs) = Len(cells[g].devs)
    /\ CombineSeries(cells[g], MaxNode).devs = cells[g].devs

Compared(g) == Device(g, match.devs[g])
Ended == match.step = "idle" /\ match.times > 0
InOneRow(d) ==
  \A n \in Nodes(d) : Cardinality({x \in d.of : n \in ToSet(x[2])}) = IF n \in Pins(d) THEN 1 ELSE 2
SideBySide(d) == \A x \in d.of : ToSet(x[2]) = Pins(d)
SameKind == \/ InOneRow(Compared(1)) /\ InOneRow(Compared(2))
            \/ SideBySide(Compared(1)) /\ SideBySide(Compared(2))
SameValues ==
  \A v \in Ohms : Cardinality({x \in Compared(1).of : x[3] = v})
                 = Cardinality({x \in Compared(2).of : x[3] = v})
Resistance(g) == Compared(g).ohms
SameResistance == Resistance(1)[1] * Resistance(2)[2] = Resistance(2)[1] * Resistance(1)[2]

\* PropertyMatch: devices that stand for the same resistors, all in series or all in
\* parallel, match, in whatever order they were merged.
SameMatches == Ended /\ SameKind /\ SameValues => ~Mismatch

\* PropertyMatch: two networks that are both in series or both in parallel do not match
\* if their resistance is different.
DifferenceFound == Ended /\ SameKind /\ ~SameResistance => Mismatch

\* Alike networks match and unlike ones do not.
VerdictRight == SameMatches /\ DifferenceFound

\* PropertyMatch reduces the records it compares.  When the comparison that decides
\* whether there is an error is made again for the report, the outcome is the same.
ReportAgrees ==
  Ended /\ SameKind /\ match.before # "none" => (match.before = "error") = Mismatch

\* The loop of CreateTwoLists ends, and so does that of PropertySortAndCombine.
CallsEnd == Working ~> ~Working
===============================================================================
