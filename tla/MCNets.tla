-------------------------------- MODULE MCNets --------------------------------
(***************************************************************************)
(* The editing operations in any order on small netlist files.              *)
(***************************************************************************)
EXTENDS Flattening, PortEdits, Circuits

\* Files as the readers leave them.  Instance names, models, pins; M or value.
X(n, model, pins) == Inst(<<<<n, 0>>>>, model, pins, << >>)
XM(n, model, pins, props) == Inst(<<<<n, 0>>>>, model, pins, props)
CellOf(ports, globals, insts) ==
  [ports |-> ports, globals |-> globals, insts |-> insts]
File(steps, cs) ==
  [steps |-> steps, cells |-> cs, circuit |-> 1, shorts |-> {"r"}, opens |-> {"i"}]

AllSteps == {"flatten", "class", "globals", "unique"}

\* Three levels, a port that nothing uses, and one that its parts do not use.
Levels ==
  File({"class", "unique"},
    [T |-> CellOf(<< >>, << >>,
             <<X("x1", "mid", <<1, 2, 4>>), X("r1", "r", <<1, 3>>),
               X("x2", "leaf", <<2, 3, 1>>), X("x3", "mid", <<3, 3, 2>>)>>),
     mid |-> CellOf(<<<<"a", 1>>, <<"b", 2>>, <<"c", 4>>>>, << >>,
             <<X("y1", "leaf", <<1, 3, 4>>), X("r2", "r", <<3, 2>>),
               X("y2", "leaf", <<3, 2, 4>>)>>),
     leaf |-> CellOf(<<<<"p", 1>>, <<"q", 3>>, <<"u", None>>>>, << >>,
             <<X("m1", "n", <<1, 2, 3>>), X("r3", "r", <<2, 3>>)>>)])

\* Several property records, some with an M, on two levels.
Multiple ==
  File({"class", "unique", "globals"},
    [T |-> CellOf(<< >>, << >>,
             <<X("r1", "r", <<1, 2>>), XM("x1", "mid", <<1, 2>>, <<2>>),
               XM("x2", "leaf", <<2, 3>>, <<1, 3>>)>>),
     mid |-> CellOf(<<<<"a", 1>>, <<"b", 2>>>>, << >>,
             <<XM("y1", "leaf", <<1, 3>>, <<2, 1>>), X("y2", "leaf", <<3, 2>>)>>),
     leaf |-> CellOf(<<<<"p", 1>>, <<"q", 2>>>>, << >>,
             <<X("r3", "r", <<1, 3>>), X("r4", "r", <<3, 2>>)>>)])

\* Global nets without a port of that name, flattened in either way.
Unported ==
  File({"class", "flatten"},
    [T |-> CellOf(<< >>, <<<<"vdd", 3>>>>,
             <<X("x1", "mid", <<1, 2>>), X("r1", "r", <<3, 1>>),
               X("x2", "leaf", <<2>>)>>),
     mid |-> CellOf(<<<<"a", 1>>, <<"b", 2>>>>, << >>,
             <<X("y1", "low", <<1>>), X("y2", "leaf", <<2>>)>>),
     low |-> CellOf(<<<<"c", 1>>>>, <<<<"vdd", 2>>>>,
             <<X("z1", "leaf", <<1>>), X("r2", "r", <<1, 2>>)>>),
     leaf |-> CellOf(<<<<"p", 1>>>>, <<<<"vdd", 2>>>>, <<X("m1", "n", <<1, 2, 3>>)>>)])

\* A global net that only some cells mention, and one that is a port on the way.
Globals ==
  File({"class", "globals", "unique"},
    [T |-> CellOf(<< >>, <<<<"vdd", 3>>, <<"gnd", 4>>>>,
             <<X("x1", "mid", <<1, 2>>), X("r1", "r", <<3, 1>>),
               X("x2", "low", <<2, 3>>), X("x3", "mid", <<2, 4>>)>>),
     mid |-> CellOf(<<<<"a", 1>>, <<"b", 2>>>>, << >>,
             <<X("y1", "leaf", <<1>>), X("y2", "leaf", <<2>>)>>),
     low |-> CellOf(<<<<"c", 1>>, <<"vdd", 2>>>>, <<<<"gnd", 3>>>>,
             <<X("z1", "leaf", <<1>>), X("r2", "r", <<2, 3>>)>>),
     leaf |-> CellOf(<<<<"p", 1>>>>, <<<<"vdd", 2>>, <<"gnd", 3>>>>,
             <<X("m1", "n", <<1, 2, 3>>)>>)])

\* The pins of a port name used twice, where the cell came before its use: only
\* the last pin of the name is connected.
Duplicates ==
  File({"class", "globals", "unique"},
    [T |-> CellOf(<< >>, << >>,
             <<X("x1", "dup", <<1, None, 2, 3>>), X("r1", "r", <<2, 1>>),
               X("x2", "mid", <<2, None, 3>>)>>),
     mid |-> CellOf(<<<<"a", 1>>, <<"a", 1>>, <<"b", 2>>>>, <<<<"vdd", 3>>>>,
             <<X("y1", "dup", <<1, None, 2, 2>>), X("r2", "r", <<3, 1>>)>>),
     dup |-> CellOf(<<<<"a", 1>>, <<"b", 2>>, <<"b", 2>>, <<"c", 3>>>>, << >>,
             <<X("r3", "r", <<1, 2>>), X("r4", "r", <<2, 3>>)>>)])

\* Two ports that a statement assign has shorted, on the way to a duplicate.
Shorted ==
  File({"class", "flatten", "globals", "unique"},
    [T |-> CellOf(<< >>, << >>,
             <<X("x1", "mid", <<1, 2>>), X("r1", "r", <<2, 1>>)>>),
     mid |-> CellOf(<<<<"a", 1>>, <<"b", 2>>>>, << >>,
             <<X("y1", "wire", <<1, 1, 2>>), X("y2", "wire", <<2, 2, 1>>)>>),
     wire |-> CellOf(<<<<"a", 1>>, <<"c", 1>>, <<"b", 2>>>>, << >>,
             <<X("r3", "r", <<1, 2>>)>>)])

\* Devices of value zero; none follows another resistor in its cell or
\* connects two ports.
Zeros ==
  File({"class", "zero"},
    [T |-> CellOf(<< >>, << >>,
             <<X("x1", "mid", <<1, 2>>), XM("r1", "r", <<2, 3>>, <<0>>),
               X("n1", "n", <<3, 1>>), XM("i1", "i", <<3, 1>>, <<0>>),
               X("x2", "mid", <<3, 4>>), XM("r2", "r", <<4, 2>>, <<1>>)>>),
     mid |-> CellOf(<<<<"a", 1>>, <<"b", 2>>>>, << >>,
             <<XM("r3", "r", <<3, 1>>, <<0>>), X("n2", "n", <<3, 2>>),
               XM("r4", "r", <<2, 4>>, <<0>>), XM("r5", "r", <<4, 5>>, <<0>>),
               XM("r6", "r", <<1, 5>>, <<1>>), XM("n3", "n", <<5, 3>>, <<1>>)>>)])

\* In circuit 2 the same may connect two ports, except in the top cell.
ZeroPorts ==
  [File({"class", "zero"},
    [T |-> CellOf(<< >>, << >>,
             <<X("x1", "mid", <<1, 2>>), X("n1", "n", <<2, 1>>)>>),
     mid |-> CellOf(<<<<"a", 1>>, <<"b", 2>>>>, << >>,
             <<XM("r1", "r", <<1, 2>>, <<0>>), X("n1", "n", <<2, 1>>),
               XM("r2", "r", <<3, 1>>, <<0>>), XM("i1", "i", <<1, 2>>, <<0>>),
               X("n2", "n", <<3, 2>>)>>)]) EXCEPT !.circuit = 2]

Files ==
  [levels |-> Levels, either |-> [Levels EXCEPT !.steps = AllSteps],
   multiple |-> Multiple, globals |-> Globals,
   unported |-> Unported,   duplicates |-> Duplicates, shorted |-> Shorted,
   zeros |-> Zeros, zeroPorts |-> ZeroPorts]

\* A global that the cell with several copies does not mention itself: each of
\* its copies keeps a node of its own for it, and CircuitsKept does not hold.
CopiedGlobal ==
  [copied |-> File({"class"},
    [T |-> CellOf(<< >>, <<<<"vdd", 1>>>>,
             <<X("x1", "mid", <<2>>), X("r1", "r", <<1, 2>>)>>),
     mid |-> CellOf(<<<<"a", 1>>>>, << >>, <<XM("y1", "leaf", <<1>>, <<2>>)>>),
     leaf |-> CellOf(<<<<"p", 1>>>>, <<<<"vdd", 2>>>>, <<X("r2", "r", <<1, 2>>)>>)])]

Allowed(step) == step \in Designs[design].steps

Init == InitDatabase

Next ==
  \E c \in DOMAIN cells :
    \/ Allowed("flatten") /\ Flatten(c)
    \/ Allowed("class") /\ FlattenInstancesOf(c)
    \/ Allowed("globals") /\ ConvertGlobals(c)
    \/ Allowed("unique") /\ UniquePins(c)
    \/ Allowed("zero") /\ \E m \in {"r", "i"} : RemoveZeroDevices(c, m)

Spec == Init /\ [][Next]_databaseVars

\* The circuits of the cells, where a device of value zero counts as removed.
Reference(cs) ==
  LET circuits == Circuits(cs)
  IN  [c \in DOMAIN cs |-> WithoutZeros(circuits[c], Designs[design].shorts,
                                        Designs[design].opens)]

\* Whatever is flattened, made a port, or removed as a duplicate or as a device
\* of value zero, and in whatever order: no cell loses or gains another device,
\* and pins that were on one net are on one net, and no others.
CircuitsKept == Reference(cells) = Reference(Designs[design].cells)

\* A port of which flattening the instances of a cell has removed the last pin
\* is marked as disconnected, so that pin matching sees that nothing uses it.
\* (The command flatten does not do this.)
Dangling(cell, k) ==
  cell.ports[k][2] >= 0 /\ cell.ports[k][2] \notin PinNodes(cell.insts)

DanglingPortsSeen ==
  ~Allowed("flatten") =>
    \A c \in DOMAIN cells : \A k \in DOMAIN cells[c].ports : ~Dangling(cells[c], k)
=============================================================================
