----------------------------- MODULE Flattening ------------------------------
(***************************************************************************)
(* Flattening with nets (base/flatten.c).  There are two implementations:   *)
(* flattenCell (the command flatten) expands everything in a cell, its      *)
(* children first; flattenInstancesOf (flatten class, and all that lvs      *)
(* does) expands the instances of one model, once for each property record  *)
(* and as often as its M says.  They differ in how they number the nodes of *)
(* the copies and in how they look for global nets.  Removing devices of    *)
(* value zero before a comparison is at the end.                            *)
(***************************************************************************)
EXTENDS NetDatabase

\* Prefix the instances of a copy with the name of the instance replaced.
Prefixed(cell, name, copy) ==
  [cell EXCEPT !.insts =
     [i \in DOMAIN @ |-> [@[i] EXCEPT !.name = Path(name, copy) \o @]]]

\* Mutants: a global is not searched among the ports of the parent; a port
\* without a pin is not noticed.
GlobalsOnly(copy, parent) ==
  FoldLeft(LAMBDA c, g :
             LET found == FirstConnected(
                            NamedNodes(parent.globals, c.globals[g][1]))
             IN  IF found = << >> THEN c
                 ELSE UpdateNodeNumbers(c, c.globals[g][2], found[1]),
           copy, [g \in DOMAIN copy.globals |-> g])

LeaveConnected(cell, node) == cell

(***************************************************************************)
(* flattenInstancesOf                                                       *)
(***************************************************************************)
\* Update node numbers in the child to unique numbers.
Shifted(child, nextnode) ==
  Renumbered(child, LAMBDA n : IF n > 0 THEN n + nextnode - 1 ELSE n)

\* The node of pin k of x, or of another pin of the same name if it has none.
PinNode(x, child, k) ==
  LET same == {j \in DOMAIN x.pins : /\ child.ports[j][1] = child.ports[k][1]
                                     /\ x.pins[j] # None}
  IN  IF x.pins[k] = None /\ same # {} THEN x.pins[Min(same)] ELSE x.pins[k]

\* Copy node numbers of ports from the parent, one port after the other.
SealPort(copy, x, child, k) ==
  IF copy.ports[k][2] > 0
  THEN UpdateNodeNumbers(copy, copy.ports[k][2], PinNode(x, child, k)) ELSE copy

\* The copy when its first k ports are sealed, and when all are.
SealedTo(copy, x, child, k) ==
  FoldLeft(LAMBDA c, j : SealPort(c, x, child, j), copy, [j \in 1..k |-> j])

Sealed(copy, x, child) == SealedTo(copy, x, child, Len(copy.ports))

\* A global keeps its name and takes the node of a global or port of that
\* name in the parent; all objects of the copy with its node follow.
GlobalsLinked(copy, parent) ==
  FoldLeft(LAMBDA c, g :
             LET found == FirstConnected(
                            NamedNodes(parent.ports \o parent.globals,
                                       c.globals[g][1]))
             IN  IF found = << >> THEN c
                 ELSE UpdateNodeNumbers(c, c.globals[g][2], found[1]),
           copy, [g \in DOMAIN copy.globals |-> g])

\* How often an instance is expanded: for every property record M times.
Copies(x) ==
  IF x.props = << >> THEN 1
  ELSE FoldLeft(LAMBDA n, m : n + IF m > 1 THEN m ELSE 1, 0, x.props)

\* The parent pins whose net a port of the child leaves unconnected: it has no
\* node, or a port of its node has been sealed to a pin without one.
Unsealed(x, child, copy) ==
  LET open == SelectSeq([k \in DOMAIN copy.ports |-> k],
                LAMBDA k : SealedTo(copy, x, child, k - 1).ports[k][2] = None)
  IN  [j \in DOMAIN open |-> x.pins[open[j]]]

\* Replace instance x of the parent by copies of the child.  The globals of a
\* copy are searched in the parent without the copies made before it.
Expand(child, x, r) ==
  LET highest == Max(Nodes(child) \cup {0})
      shifted(i) == Shifted(child, r.nextnode + (i - 1) * highest)
      copy(i) ==
        Prefixed(GlobalsLinked(Sealed(shifted(i), x, child), r.parent), x.name, i)
      copies == [i \in 1..Copies(x) |-> copy(i)]
  IN  [parent |-> [r.parent EXCEPT
                     !.globals = @ \o FlattenSeq(Reverse(
                        [i \in DOMAIN copies |-> copies[i].globals]))],
       insts |-> r.insts \o FlattenSeq(Reverse(
                        [i \in DOMAIN copies |-> copies[i].insts])),
       nextnode |-> r.nextnode + Copies(x) * highest,
       checknodes |-> r.checknodes \o FlattenSeq(
                        [i \in DOMAIN copies |-> Unsealed(x, child, shifted(i))])]

\* Check nodes that may have become disconnected after child flattening: if no
\* pin has the node, the last port with it is disconnected.
CheckNode(cell, node) ==
  LET on == {k \in DOMAIN cell.ports : cell.ports[k][2] = node}
  IN  IF on = {} \/ node \in PinNodes(cell.insts) THEN cell
      ELSE [cell EXCEPT !.ports[Max(on)][2] = None]

flattenInstancesOf(cs, p, model) ==
  LET start == [parent |-> cs[p], insts |-> << >>,
                nextnode |-> FreeNode(cs[p]), checknodes |-> << >>]
      r == FoldLeft(LAMBDA a, x :
                      IF x.model = model THEN Expand(cs[model], x, a)
                      ELSE [a EXCEPT !.insts = Append(@, x)],
                    start, cs[p].insts)
  IN  [cs EXCEPT ![p] = FoldLeft(CheckNode, [r.parent EXCEPT !.insts = r.insts],
                                 r.checknodes)]

\* Flatten the instances of a model in all cells of the file.
FlattenInstancesOf(model) ==
  /\ IsSubckt(cells, model)
  /\ cells' = [p \in DOMAIN cells |->
                 IF p = model THEN cells[p]
                 ELSE flattenInstancesOf(cells, p, model)[p]]
  /\ UNCHANGED design

(***************************************************************************)
(* flattenCell                                                              *)
(***************************************************************************)
\* Distinct numbers from first on for all nodes of the child.
Distinct(child, first) ==
  Renumbered(child, LAMBDA n : IF n # None THEN first + n ELSE n)

\* A global takes the node of a global of that name in the parent.
GlobalsMatched(copy, parent) ==
  GlobalsLinked(copy, [parent EXCEPT !.ports = << >>])

\* As long as a port has a node in the copy, it is given that of the pin.
SealedCell(copy, x) ==
  FoldLeft(LAMBDA c, k :
             IF c.ports[k][2] # None
             THEN UpdateNodeNumbers(c, c.ports[k][2], x.pins[k]) ELSE c,
           copy, [k \in DOMAIN copy.ports |-> k])

\* Only the pins of the instance are taken out of the list; its property
\* records stay, behind the last device that is then before them.
WithRecords(insts, props) ==
  IF insts = << >> THEN insts ELSE [insts EXCEPT ![Len(insts)].props = @ \o props]

ExpandCell(cs, r, x) ==
  IF ~IsSubckt(cs, x.model) THEN [r EXCEPT !.insts = Append(@, x)]
  ELSE LET child == cs[x.model]
           highest == Max(Nodes(child) \cup {0})
           first == Max({r.nextnode, highest + 1})
           copy == Prefixed(GlobalsMatched(SealedCell(Distinct(child, first), x),
                                           r.parent), x.name, 1)
       IN  [parent |-> [r.parent EXCEPT !.globals = @ \o copy.globals],
            insts |-> WithRecords(r.insts \o copy.insts, x.props),
            nextnode |-> first + highest + 1]

Parts(cs, p) == {x.model : x \in ToSet(cs[p].insts)} \cap DOMAIN cs

\* Every cell with the cells under it, and these in an order in which each
\* comes after the cells it instantiates.
Below(cs, p) ==
  LET more(S, round) == S \cup UNION {Parts(cs, c) : c \in S}
  IN  FoldLeft(more, {p}, SetToSeq(DOMAIN cs))

ChildrenFirst(cs, p) ==
  SetToSortSeq(Below(cs, p),
    LAMBDA a, b : Cardinality(Below(cs, a)) < Cardinality(Below(cs, b)))

FlattenLevel(cs, p) ==
  LET r == FoldLeft(LAMBDA a, x : ExpandCell(cs, a, x),
                    [parent |-> cs[p], insts |-> << >>,
                     nextnode |-> FreeNode(cs[p])], cs[p].insts)
  IN  [cs EXCEPT ![p] = [r.parent EXCEPT !.insts = r.insts]]

\* Flatten a cell, and every cell under it that is not yet flat.
flattenCell(cs, p) == FoldLeft(FlattenLevel, cs, ChildrenFirst(cs, p))

Flatten(p) ==
  /\ p \in DOMAIN cells
  /\ cells' = flattenCell(cells, p)
  /\ UNCHANGED design

(***************************************************************************)
(* Devices of value zero                                                    *)
(*                                                                          *)
(* The part of PrematchLists that removes them from a cell when the two     *)
(* circuits have a different number of the class: a resistor or voltage     *)
(* source is a short, a current source an open.                             *)
(*                                                                          *)
(* The scan keeps a pointer to the last object before the device at hand,   *)
(* but moves it only over objects of other classes: with a device all       *)
(* devices of its class directly before it are removed as well.             *)
(***************************************************************************)
\* Of the classes resistor, voltage source and current source.
IsZeroClass(d, m) == m \in d.shorts \cup d.opens

\* Both ends have a node, and some property record has the value zero.
IsZero(x) ==
  /\ x.pins[1] # None /\ x.pins[2] # None
  /\ 0 \in ToSet(x.props)

\* Beware removing shorting devices that connect two ports: circuit 2 does not
\* remove them except from the top cell; in circuit 1 the test has no effect.
ConnectsPorts(cell, x) ==
  /\ x.pins[1] # x.pins[2]
  /\ {x.pins[1], x.pins[2]} \subseteq NodesOf(cell.ports)

Removable(d, c, cell, x) ==
  /\ IsZero(x)
  /\ d.circuit = 2 /\ c # "T" /\ x.model \in d.shorts => ~ConnectsPorts(cell, x)

\* Mutant of MergeEnds: the nets of the ends stay apart.
KeepEnds(cell, x) == cell

\* Merge the nodes of the endpoints, and prefer a port node.
MergeEnds(cell, x) ==
  LET ports == NodesOf(cell.ports)
  IN  IF x.pins[2] \in ports /\ x.pins[1] \notin ports
      THEN UpdateNodeNumbers(cell, x.pins[1], x.pins[2])
      ELSE UpdateNodeNumbers(cell, x.pins[2], x.pins[1])

\* The scan goes on behind the last object of another class.  When this is a
\* property record with the value zero itself, it never gets past it.
Repeats(r) ==
  r.first > 1 /\ 0 \in ToSet(r.cell.insts[r.first - 1].props)

\* One turn of the scan: r.first is the first instance that is not known to be
\* before the last object of another class.
ScanDevice(d, c, m, r, i) ==
  LET x == r.cell.insts[i]
  IN  IF x.model # m THEN [r EXCEPT !.first = i + 1]
      ELSE IF ~Removable(d, c, r.cell, x) THEN r
      ELSE [cell |-> IF m \in d.opens THEN r.cell ELSE MergeEnds(r.cell, x),
            first |-> r.first,
            gone |-> r.gone \cup (r.first..i),
            ends |-> r.ends /\ ~Repeats(r)]

Scanned(d, c, m) ==
  FoldLeft(LAMBDA r, i : ScanDevice(d, c, m, r, i),
           [cell |-> cells[c], first |-> 1, gone |-> {}, ends |-> TRUE],
           [i \in DOMAIN cells[c].insts |-> i])

RemoveZeroDevices(c, m) ==
  LET d == Designs[design]
      r == Scanned(d, c, m)
      kept == SelectSeq([i \in DOMAIN r.cell.insts |-> i], LAMBDA i : i \notin r.gone)
  IN  /\ IsZeroClass(d, m) /\ r.gone # {} /\ r.ends
      /\ cells' = [cells EXCEPT ![c] =
                     [r.cell EXCEPT !.insts = [k \in DOMAIN kept |-> @[kept[k]]]]]
      /\ UNCHANGED design
=============================================================================
