------------------------------ MODULE MCSettings ------------------------------
(***************************************************************************)
(* Two small files and a set of commands for Settings.                      *)
(***************************************************************************)
EXTENDS Settings

Cell(class, pins, keys) ==
  [class |-> class, top |-> FALSE,
   ports |-> [i \in DOMAIN pins |-> <<pins[i], i>>],
   defs |-> [k \in keys |-> Definition("double", "default")],
   series |-> FALSE, noparallel |-> FALSE,
   permutes |-> << >>, freed |-> FALSE, insts |-> << >>]

Instance(model, nodes, props) == [model |-> model, nodes |-> nodes, props |-> props]
Circuit(ports, insts) ==
  [Cell("other", << >>, {}) EXCEPT !.top = TRUE, !.ports = ports, !.insts = insts]

Fet == Cell("fet", <<"drain", "gate", "source">>, {"w", "l", "as"})
Res == Cell("res", <<"end_a", "end_b">>, {"w", "value"})
Cap == Cell("cap", <<"top", "bottom">>, {"value"})
Ind == Cell("ind", <<"end_a", "end_b">>, {"value"})

MCNetlists ==
  << << <<"m", Fet>>, <<"r", Res>>, <<"l", Ind>>,
        <<"top1", Circuit(<<<<"a", 1>>, <<"b", 2>>>>,
           <<Instance("m", <<1, 2, 3>>, <<<<"w", 2>>, <<"l", 3>>>>),
             Instance("r", <<3, 3>>, << >>), Instance("m", <<3, 2, 3>>, <<<<"l", 3>>>>)>>)>> >>,
     << <<"m", Fet>>, <<"r", Res>>, <<"c", Cap>>,
        <<"top2", Circuit(<<<<"a", 1>>, <<"b", 2>>>>,
           <<Instance("r", <<1, 2>>, << >>),
             Instance("m", <<2, 2, 2>>, <<<<"w", 2>>, <<"l", 3>>, <<"as", 1>>>>)>>)>> >> >>

Name(n) == <<"name", n>>
File(f) == <<"file", f>>
Option(o) == <<"option", o>>

MCCommands ==
  { [op |-> "default"],
    [op |-> "parallel", what |-> "none"], [op |-> "parallel", what |-> "all"],
    [op |-> "parallel", what |-> "connected"],
    [op |-> "series", what |-> "none"], [op |-> "topology", what |-> "strict"],
    [op |-> "combine", cell |-> <<File(1), Name("m")>>, how |-> "parallel", what |-> "enable"],
    [op |-> "combine", cell |-> <<Option("-circuit2"), Name("r")>>, how |-> "series",
     what |-> "add", key |-> "value"],
    [op |-> "combine", cell |-> <<Name("top2"), Name("r")>>, how |-> "parallel",
     what |-> "none", key |-> "value"],
    [op |-> "combine", cell |-> <<File(1), Name("r")>>, how |-> "parallel",
     what |-> "par", key |-> "value"],
    [op |-> "merge", cell |-> <<Name("r")>>, key |-> "value", what |-> "add_critical"],
    [op |-> "merge", cell |-> <<Option("*"), Name("m")>>, key |-> "w", what |-> "ser"],
    [op |-> "add", cell |-> <<Name("m"), Option("*")>>, key |-> "as", type |-> "integer", slop |-> "0"],
    [op |-> "add", cell |-> <<Name("r"), Name("top1")>>, key |-> "l", type |-> "string", slop |-> "0"],
    [op |-> "remove", cell |-> <<Name("m")>>, keys |-> {"as", "l"}],
    [op |-> "remove", cell |-> <<Name("m"), Name("top2")>>, keys |-> {}],
    [op |-> "associate", cell |-> <<Name("m")>>, key |-> "as", pin |-> "source"],
    [op |-> "tolerance", cell |-> <<Name("m")>>, key |-> "as", kind |-> "double", slop |-> "0.1"],
    [op |-> "tolerance", cell |-> <<File(2), Name("m")>>, key |-> "w", kind |-> "integer", slop |-> "0"],
    [op |-> "derive", cell |-> <<Option("-circuit1"), Name("m")>>, what |-> "area",
     width |-> "w", length |-> "l"],
    [op |-> "permute_class", what |-> "default"],
    [op |-> "permute_class", what |-> "capacitors"],
    [op |-> "permute", cell |-> <<Name("m")>>, pins |-> <<"drain", "source">>],
    [op |-> "permute", cell |-> <<Option("-circuit1")>>, pins |-> <<"a", "b">>],
    [op |-> "forget", cell |-> <<Name("m")>>, pins |-> <<"drain", "source">>],
    [op |-> "forget", cell |-> <<File(1), Name("m")>>, pins |-> << >>],
    [op |-> "forget", cell |-> << >>, pins |-> << >>],
    [op |-> "ignore", cell |-> <<Name("r")>>, what |-> "class"],
    [op |-> "ignore", cell |-> <<Option("-circuit2"), Name("m")>>, what |-> "shorted"] }

-----------------------------------------------------------------------------
New == Last(history')
IsCommand == history' # history /\ New.op \notin {"read", "assign"}

\* The files that an argument speaks of, as it reads.
FilesMeant(arg) ==
  LET f == UNION {CASE arg[i][1] = "file" -> {arg[i][2]}
                    [] arg[i] = Option("-circuit1") \/ arg[i] = Name("top1") -> {1}
                    [] arg[i] = Option("-circuit2") \/ arg[i] = Name("top2") -> {2}
                    [] OTHER -> {} : i \in DOMAIN arg}
  IN  IF f = {} THEN {1, 2} ELSE f

PinNames(cell) == [i \in DOMAIN cell.ports |-> cell.ports[i][1]]
SharedPins(n) ==
  /\ {<<n, 1>>, <<n, 2>>} \subseteq DOMAIN cells
  /\ PinNames(cells[<<n, 1>>]) = PinNames(cells[<<n, 2>>])
DefsOf(cell, k) == {cell.defs[x] : x \in DOMAIN cell.defs \cap {k}}
SameDefs(cs, n, k) == DefsOf(cs[<<n, 1>>], k) = DefsOf(cs[<<n, 2>>], k)
SamePins(cs, n) == cs[<<n, 1>>].permutes = cs[<<n, 2>>].permutes

\* Once the circuits are assigned (CommonParseCell: "the routines should be
\* applied to all cells of the given name in all netlists"): a command with a
\* file, an option or a top cell leaves the cells of the other file alone, and a
\* command with only a name leaves definitions and permutations that were the
\* same in both files the same, for cells that have the same pins.
AppliesAsNamed ==
  [][IsCommand /\ circuits # << >> /\ "cell" \in DOMAIN New /\ New.cell # << >> =>
       LET files == FilesMeant(New.cell)
       IN  /\ \A c \in DOMAIN cells : c[2] \notin files => cells'[c] = cells[c]
           /\ files = {1, 2} => \A n \in {c[1] : c \in DOMAIN cells} : SharedPins(n) =>
                /\ \A k \in DOMAIN cells[<<n, 1>>].defs \cup {"l"} :
                     SameDefs(cells, n, k) => SameDefs(cells', n, k)
                /\ SamePins(cells, n) => SamePins(cells', n)]_vars

\* Combining one cell's devices in parallel is decided by the last command that
\* speaks of the cell or of all cells, wherever it stands before the cell is read
\* (netgen.c, SetParallelCombine and CellDef; tclnetgen.c, property parallel).
\* A command for one cell needs the cell, and its argument names one file here:
\* the flag of a cell named without a file is set in one file only.
ParallelAsSaid ==
  \A c \in DOMAIN cells :
    LET readAt == CHOOSE i \in DOMAIN history : history[i] = [op |-> "read", file |-> c[2]]
        Speaks(i) ==
          LET h == history[i]
          IN  CASE h.op = "parallel" -> h.what \in {"none", "all"}
                [] h.op = "combine" ->
                     /\ h.how = "parallel" /\ i > readAt
                     /\ Name(c[1]) \in ToSet(h.cell) /\ ~IsTop(c) /\ FilesMeant(h.cell) = {c[2]}
                     /\ \A o \in ToSet(h.cell) : o[1] = "option" =>
                          \E j \in 1..i : history[j].op = "assign"
                [] OTHER -> FALSE
        said == {i \in DOMAIN history : Speaks(i)}
    IN  cells[c].noparallel <=> (said # {} /\ history[Max(said)].what \in {"none", "disable"})

\* The treatment of a property when devices merge in series and in parallel is
\* set apart, and adding and adding reciprocals exclude each other (objlist.h:
\* "\"ADD\" and \"PAR\" are mutually exclusive").
MergesApart ==
  [][\A c \in DOMAIN cells : \A k \in DOMAIN cells[c].defs \cap DOMAIN cells'[c].defs :
       LET old == cells[c].defs[k].merge
           new == cells'[c].defs[k].merge
       IN  /\ ~({"p_add", "p_par"} \subseteq new) /\ ~({"s_add", "s_par"} \subseteq new)
           /\ IsCommand /\ New.op = "combine" =>
                IF New.how = "series" THEN new \cap PMask = old \cap PMask
                ELSE new \cap SMask = old \cap SMask]_vars
=============================================================================
