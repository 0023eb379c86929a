------------------------------ MODULE NetBuilder ------------------------------
(***************************************************************************)
(* The calls with which the readers build the cells of a netlist file       *)
(* (base/netgen.c, base/objlist.c): CellDef, Port, Node, Global, Instance,  *)
(* Cell, join and EndCell.  They work on the current cell, and append to    *)
(* its list of objects.                                                     *)
(*                                                                          *)
(* A build is a record of the cells of the file by name, the current cell,  *)
(* and the next free node number.  The name of an object is a pair: for a   *)
(* pin its instance and the name of its port, for a net "" and its name.    *)
(* The name of a cell is a pair of a name and a number, which is            *)
(* Original except for cells renamed because the name was used again.       *)
(***************************************************************************)
EXTENDS Integers, FiniteSets, Sequences, SequencesExt

\* Object types, as in objlist.h; a pin has its number as type.
PORT == -1
GLOBAL == -2
PROPERTY == -4
NODE == 0
FIRSTPIN == 1

None == -1       \* the node of an object that is not connected
Original == -1
NoCell == <<"", Original>>
Named(name) == <<name, Original>>
Net(name) == <<"", name>>
NoPins == "(no pins)"   \* the name of a proxy port

Object(type, name, model) ==
  [type |-> type, name |-> name, model |-> model, node |-> None, props |-> << >>]

EmptyBuild == [cells |-> << >>, cur |-> NoCell, next |-> 1]

LookupCell(b, name) == name \in DOMAIN b.cells

Objs(b) == b.cells[b.cur].objs

\* SelectSeq, as a recursive function.
Chosen(objs, Is(_)) ==
  LET of[k \in 0..Len(objs)] ==
        IF k = 0 THEN << >>
        ELSE IF Is(objs[k]) THEN Append(of[k - 1], objs[k]) ELSE of[k - 1]
  IN  of[Len(objs)]

Ports(b, name) == Chosen(b.cells[name].objs, LAMBDA o : o.type = PORT)

CountPorts(b, name) == Len(Ports(b, name))

\* The object hash table of the cell: an object replaces an earlier one of its
\* name.  0 if there is none.
LookupObject(b, name) ==
  Max({0} \cup {k \in DOMAIN Objs(b) :
                  Objs(b)[k].type # PROPERTY /\ Objs(b)[k].name = name})

AddToCurrentCell(b, o) == [b EXCEPT !.cells[b.cur].objs = Append(@, o)]

AddPort(b, name) == AddToCurrentCell(b, Object(PORT, Net(name), NoCell))

AddNode(b, name) == AddToCurrentCell(b, Object(NODE, Net(name), NoCell))

\* Make sure the node exists.
NodeFor(b, name) == IF LookupObject(b, Net(name)) = 0 THEN AddNode(b, name) ELSE b

\* Not if the name is a global net or a port of the current cell.
AddGlobal(b, name) ==
  IF \E k \in DOMAIN Objs(b) :
       Objs(b)[k].type \in {GLOBAL, PORT} /\ Objs(b)[k].name = Net(name)
  THEN b ELSE AddToCurrentCell(b, Object(GLOBAL, Net(name), NoCell))

(***************************************************************************)
(* Cells                                                                    *)
(***************************************************************************)
Highest(objs) == Max({None} \cup {objs[k].node : k \in DOMAIN objs})

\* Mutant: node numbers start again.
ReopenAtOne(b, name) == [b EXCEPT !.cur = name, !.next = 1]

ReopenCellDef(b, name) ==
  [b EXCEPT !.cur = name, !.next = Max({1, Highest(b.cells[name].objs) + 1})]

\* A cell that exists is overwritten.
WithCell(cells, name, cell) ==
  [c \in DOMAIN cells \cup {name} |-> IF c = name THEN cell ELSE cells[c]]

CellDef(b, name) ==
  [cells |-> WithCell(b.cells, name, [objs |-> << >>, class |-> "subckt"]),
   cur |-> name, next |-> 1]

SetClass(b, class) == [b EXCEPT !.cells[b.cur].class = class]

EndCell(b) == [b EXCEPT !.cur = NoCell]

CellDelete(b, name) ==
  [b EXCEPT !.cells = [c \in DOMAIN @ \ {name} |-> @[c]]]

\* Give a cell and all its instances another name.
InstanceRename(b, from, to) ==
  LET renamed(o) == IF o.model = from THEN [o EXCEPT !.model = to] ELSE o
  IN  [b EXCEPT !.cells = [c \in DOMAIN b.cells |->
         [b.cells[c] EXCEPT !.objs = [k \in DOMAIN @ |-> renamed(@[k])]]]]

CellRehash(b, from, to) ==
  [CellDelete(b, from) EXCEPT !.cells = WithCell(@, to, b.cells[from]),
                              !.cur = IF @ = from THEN to ELSE @]

(***************************************************************************)
(* Nets                                                                     *)
(***************************************************************************)
SetNode(b, k, node) == [b EXCEPT !.cells[b.cur].objs[k].node = node]

\* Mutant: two nodes that have numbers stay two nodes.
JoinOpenOnly(b, name1, name2) ==
  LET i == LookupObject(b, name1)
      j == LookupObject(b, name2)
  IN  IF i = 0 \/ j = 0 \/ (Objs(b)[i].node # None /\ Objs(b)[j].node # None) THEN b
      ELSE IF Objs(b)[i].node = None /\ Objs(b)[j].node = None
      THEN [SetNode(SetNode(b, i, b.next), j, b.next) EXCEPT !.next = @ + 1]
      ELSE LET n == Max({Objs(b)[i].node, Objs(b)[j].node})
           IN  SetNode(SetNode(b, i, n), j, n)

join(b, name1, name2) ==
  LET i == LookupObject(b, name1)
      j == LookupObject(b, name2)
      m == Objs(b)[i].node
      n == Objs(b)[j].node
  IN  IF i = 0 \/ j = 0 THEN b
      ELSE IF m = None /\ n = None
      THEN [SetNode(SetNode(b, i, b.next), j, b.next) EXCEPT !.next = @ + 1]
      ELSE IF m = None THEN SetNode(b, i, n)
      ELSE IF n = None THEN SetNode(b, j, m)
      ELSE [b EXCEPT !.cells[b.cur].objs = << >> \o [k \in DOMAIN @ |->
              IF @[k].node = Max({m, n}) THEN [@[k] EXCEPT !.node = Min({m, n})]
              ELSE @[k]]]

\* The name of the net that port o of a cell is on: its first port.
NodeAlias(b, cell, o) ==
  LET on == SelectSeq(Ports(b, cell), LAMBDA p : p.node = o.node)
  IN  IF o.node = None THEN o.name ELSE on[1].name

(***************************************************************************)
(* Instances                                                                *)
(***************************************************************************)
\* The last port of that name.
LookupPort(b, cell, name) ==
  Last(SelectSeq(Ports(b, cell), LAMBDA p : p.name = name))

Pin(inst, o) == <<inst, o.name[2]>>

\* A pin for each port, the globals of the cell, and its shorted ports joined.
Instance(b, model, inst) ==
  LET ports == Ports(b, model)
      pins == [k \in DOMAIN ports |-> Object(k, Pin(inst, ports[k]), model)]
      globals == Chosen(b.cells[model].objs, LAMBDA o : o.type = GLOBAL)
      global(r, o) == IF LookupObject(r, o.name) = 0 THEN AddGlobal(r, o.name[2]) ELSE r
      short(r, p) ==
        LET alias == NodeAlias(b, model, LookupPort(b, model, p.name))
        IN  IF alias = p.name THEN r
            ELSE join(r, Pin(inst, p), <<inst, alias[2]>>)
  IN  FoldLeft(short, FoldLeft(global, FoldLeft(AddToCurrentCell, b, pins), globals),
               ports)

\* Nothing is made of an instance of an ignored class.  Of the pins of a
\* device only the first two are compared to find it shorted.
Shorted(nets) == Len(nets) = 1 \/ nets[1] = nets[2]

\* The arguments after the first that is not the name of an object are dropped.
Known(b, nets) ==
  LET missing == {k \in DOMAIN nets : LookupObject(b, Net(nets[k])) = 0}
  IN  SubSeq(nets, 1, Min(missing \cup {Len(nets) + 1}) - 1)

Cell(b, inst, model, nets, ignored) ==
  LET ports == Ports(b, model)
      known == Known(b, nets)
      connect(r, k) == join(r, Net(known[k]), Pin(inst, ports[k]))
  IN  IF \/ ignored = "class"
         \/ ports = << >>
         \/ ignored = "shorted" /\ known # << >> /\ Shorted(known)
      THEN b
      ELSE FoldLeft(connect, Instance(b, model, inst), [k \in DOMAIN known |-> k])

\* The record is appended to the current cell, whatever is last there.
LinkProperties(b, model, kvlist, ignored) ==
  IF kvlist = << >> \/ ignored = "class" THEN b
  ELSE AddToCurrentCell(b, [Object(PROPERTY, <<"properties", "">>, model)
                              EXCEPT !.props = kvlist])
=============================================================================
