----------------------------- MODULE NetDatabase -----------------------------
(***************************************************************************)
(* The cells of one netlist file with their nets (base/objlist.h).  A cell  *)
(* is a list of objects that each carry a node number: its ports come       *)
(* first, then names of nets, and the pins and properties of its instances. *)
(* Here a cell is a record of the objects that the editing of a netlist     *)
(* depends on:                                                              *)
(*   ports    its pins <<name, node>> in order                              *)
(*   globals  its global nets <<name, node>>                                *)
(*   insts    its instances in order, each with a name, the model, the      *)
(*            nodes of its pins, and its property records, of which one     *)
(*            number counts: the multiplicity M of a subcircuit, or the     *)
(*            value of a device                                             *)
(* Instance names are sequences of names with a number: flattening puts the *)
(* name of the instance in front, and (to tell them apart) which copy it is *)
(***************************************************************************)
EXTENDS Integers, FiniteSets, Sequences, SequencesExt

CONSTANT Designs   \* the files that may be read, by name

VARIABLES
  design,  \* which file it was
  cells    \* the cells of the file by name; all other models are devices

databaseVars == <<design, cells>>

None == -1       \* the node of an object that is not connected
Orphaned == -2   \* the node of a port that pin matching wants to be removed

IsSubckt(cs, m) == m \in DOMAIN cs

Inst(name, model, pins, props) ==
  [name |-> name, model |-> model, pins |-> pins, props |-> props]

\* The name of a copy of an instance, in front of what the copy holds.
Path(name, copy) == name \o <<<<"copy", copy>>>>

NodesOf(objects) == {o[2] : o \in ToSet(objects)}
PinNodes(insts) == UNION {ToSet(x.pins) : x \in ToSet(insts)}
Nodes(cell) == NodesOf(cell.ports) \cup NodesOf(cell.globals)
                 \cup PinNodes(cell.insts)

\* The first number above all nodes of a cell, as several functions search it.
FreeNode(cell) == Max(Nodes(cell) \cup {None}) + 1

\* Change node numbers throughout a list of objects.
Renumbered(cell, New(_)) ==
  [ports |-> [k \in DOMAIN cell.ports |->
                <<cell.ports[k][1], New(cell.ports[k][2])>>],
   globals |-> [g \in DOMAIN cell.globals |->
                  <<cell.globals[g][1], New(cell.globals[g][2])>>],
   insts |-> [i \in DOMAIN cell.insts |->
                [cell.insts[i] EXCEPT !.pins =
                   [p \in DOMAIN @ |-> New(@[p])]]]]

\* Rename node from to node to in every object of the list.
UpdateNodeNumbers(cell, from, to) ==
  Renumbered(cell, LAMBDA n : IF n = from THEN to ELSE n)

\* The nodes of the objects named g, ports first as in the list.
NamedNodes(objects, g) ==
  LET named == SelectSeq(objects, LAMBDA o : o[1] = g)
  IN  [k \in DOMAIN named |-> named[k][2]]

\* The first of the nodes that is connected, and whether there is one.
FirstConnected(nodes) == SelectSeq(nodes, LAMBDA n : n >= 0)

InitDatabase ==
  /\ design \in DOMAIN Designs
  /\ cells = Designs[design].cells
=============================================================================
