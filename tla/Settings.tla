------------------------------- MODULE Settings -------------------------------
(***************************************************************************)
(* The commands of a setup file (tcltk/tclnetgen.c: property, permute and   *)
(* ignore), given in any order before, between and after the reading of two *)
(* files and their assignment as the circuits to compare.  A command is a   *)
(* record with an op; `cell' is its argument for a cell, a list of one or   *)
(* two tokens <<kind, value>>:                                              *)
(*   <<"name", n>>   a name      <<"file", f>>   the number of a file       *)
(*   <<"option", o>> -circuit1, -circuit2 or *                              *)
(***************************************************************************)
EXTENDS DeviceSettings, FiniteSets

CONSTANTS
  Netlists,     \* the cells of each file, as sequences of <<name, record>>
  Commands,     \* the commands that may be given
  MaxCommands   \* bound: commands in a session

\* The readers define properties without saying how devices merge.
ASSUME NetlistsAreRead ==
  \A f \in DOMAIN Netlists : \A i \in DOMAIN Netlists[f] :
    LET cell == Netlists[f][i][2]
    IN  /\ "defs" \in DOMAIN cell
        /\ \A k \in DOMAIN cell.defs :
             cell.defs[k] = Definition(cell.defs[k].type, cell.defs[k].slop)

\* The words that Tcl_GetIndexFromObj accepts for the ways of merging.
ASSUME WordsAreKnown ==
  \A cmd \in Commands :
    /\ cmd.op = "combine" =>
         cmd.what \in {"enable", "disable", "none", "add", "par", "critical"}
    /\ cmd.op = "merge" =>
         cmd.what \in {"none", "add", "add_critical", "par", "par_critical",
                       "ser", "ser_critical"}

VARIABLES
  cells,     \* the cells read so far
  order,     \* in which order they were defined
  circuits,  \* the files of Circuit1 and Circuit2
  options,   \* GlobalParallelNone, GlobalParallelOpen and ExactTopology
  ignored,   \* ClassIgnore
  history    \* what has been done

vars == <<cells, order, circuits, options, ignored, history>>

Given == Len(SelectSeq(history, LAMBDA h : h.op \notin {"read", "assign"}))
Done(what) == history' = Append(history, what)

-----------------------------------------------------------------------------
(* Cells named by arguments.  The result has the cell and the file number   *)
(* that is handed on; no cell is an error.                                  *)

Parsed(found, file) == [found |-> found, file |-> file]
Failed == Parsed({}, AnyFile)

FileOf(token) ==
  CASE token[1] = "file" -> {token[2]}
    [] token[1] = "option" /\ token[2] = "-circuit1" /\ circuits # << >> -> {circuits[1]}
    [] token[1] = "option" /\ token[2] = "-circuit2" /\ circuits # << >> -> {circuits[2]}
    [] OTHER -> {}

IsWildcard(token) == token = <<"option", "*">>
IsTop(c) == cells[c].top

\* A cell of every file: some cell must have the name.  (If it is the top cell
\* of a file the code goes on with a name that is not there, and crashes.)
OfAnyFile(name) ==
  LET tp == LookupCell(order, name)
  IN  IF \E c \in tp : IsTop(c) THEN Failed ELSE Parsed(tp, AnyFile)

\* A cell and the top cell of its file, in either order.
WithFileName(first, second) ==
  LET tp == LookupCell(order, first)
      tp2 == LookupCell(order, second)
  IN  IF tp = {} \/ tp2 = {} THEN Failed
      ELSE LET c == CHOOSE x \in tp : TRUE
               c2 == CHOOSE x \in tp2 : TRUE
           IN  CASE IsTop(c) -> Parsed(LookupCellFile(cells, second, c[2]), c[2])
                 [] ~IsTop(c) /\ IsTop(c2) -> Parsed(LookupCellFile(cells, first, c2[2]), c2[2])
                 [] OTHER -> Failed

ParsePair(a, b) ==
  LET In(name, files) ==
        LET f == CHOOSE x \in files : TRUE
        IN  IF files = {} THEN Failed ELSE Parsed(LookupCellFile(cells, name, f), f)
  IN  CASE IsWildcard(a) -> OfAnyFile(b[2])
        [] ~IsWildcard(a) /\ a[1] # "name" -> In(b[2], FileOf(a))
        [] a[1] = "name" /\ IsWildcard(b) -> OfAnyFile(a[2])
        [] a[1] = "name" /\ ~IsWildcard(b) /\ b[1] # "name" -> In(a[2], FileOf(b))
        [] a[1] = "name" /\ b[1] = "name" -> WithFileName(a[2], b[2])

ParseOne(a) ==
  LET tops == {c \in DOMAIN cells : IsTop(c) /\ c[2] \in FileOf(a)}
      tp == LookupCell(order, a[2])
  IN  CASE IsWildcard(a) -> Failed
        [] ~IsWildcard(a) /\ a[1] # "name" ->
             IF tops = {} THEN Failed ELSE Parsed(tops, (CHOOSE c \in tops : TRUE)[2])
        [] a[1] = "name" ->
             IF \E c \in tp : IsTop(c) THEN Parsed(tp, (CHOOSE c \in tp : TRUE)[2])
             ELSE Parsed(tp, AnyFile)

\* Mutant: with both names given, the file of the wrong one is taken.
ParseReversed(arg) ==
  IF Len(arg) = 2 /\ arg[2][1] = "name" THEN ParseOne(arg[2])
  ELSE IF Len(arg) = 2 THEN ParsePair(arg[1], arg[2]) ELSE ParseOne(arg[1])

CommonParseCell(arg) ==
  IF Len(arg) = 2 THEN ParsePair(arg[1], arg[2]) ELSE ParseOne(arg[1])

-----------------------------------------------------------------------------
Init ==
  /\ cells = << >> /\ order = << >> /\ circuits = << >>
  /\ options = [parallelNone |-> FALSE, parallelOpen |-> TRUE, exact |-> FALSE]
  /\ ignored = << >> /\ history = << >>

\* Mutant: the command is for the cells that are there.
CellDefPlain(cell) == cell

\* CellDef gives a new cell the flag of the last `property parallel none' or `all'.
CellDef(cell) == [cell EXCEPT !.noparallel = options.parallelNone]

\* A file is read.
Read(f) ==
  LET new == [i \in DOMAIN Netlists[f] |-> <<Netlists[f][i][1], f>>]
      At(c) == CHOOSE i \in DOMAIN new : new[i] = c
  IN  /\ \A h \in ToSet(history) : h # [op |-> "read", file |-> f]
      /\ order' = order \o new
      /\ cells' = [c \in DOMAIN cells \cup ToSet(new) |->
                     IF c \in ToSet(new) THEN CellDef(Netlists[f][At(c)][2]) ELSE cells[c]]
      /\ Done([op |-> "read", file |-> f])
      /\ UNCHANGED <<circuits, options, ignored>>

\* compare assign: the two circuits become known.
Assign ==
  /\ circuits = << >>
  /\ \A f \in {1, 2} : \E c \in DOMAIN cells : c[2] = f
  /\ circuits' = <<1, 2>>
  /\ Done([op |-> "assign"])
  /\ UNCHANGED <<cells, order, options, ignored>>

Command(op, cmd) ==
  /\ Given < MaxCommands
  /\ cmd.op = op
  /\ Done(cmd)

\* The cell that an argument finds, and the cells that are changed for it.
Found(cmd) == CommonParseCell(cmd.cell).found
Targets(cmd) ==
  UNION {Reached(cells, order, circuits, c[1], CommonParseCell(cmd.cell).file) : c \in Found(cmd)}
PermuteTargets(cmd) ==
  UNION {ReachedPermute(cells, circuits, c[1], CommonParseCell(cmd.cell).file) : c \in Found(cmd)}

-----------------------------------------------------------------------------
(* property                                                                 *)

PropertyDefaults(cmd) ==
  /\ Command("default", cmd)
  /\ cells' = [c \in DOMAIN cells |-> PropertyDefault(cells[c])]
  /\ UNCHANGED <<order, circuits, options, ignored>>

PropertyParallel(cmd) ==
  /\ Command("parallel", cmd)
  /\ IF cmd.what \in {"none", "all"}
     THEN /\ options' = [options EXCEPT !.parallelNone = (cmd.what = "none")]
          /\ cells' = [c \in DOMAIN cells |-> SetParallelCombine(cells[c], cmd.what = "all")]
     ELSE /\ options' = [options EXCEPT !.parallelOpen = (cmd.what = "open")]
          /\ UNCHANGED cells
  /\ UNCHANGED <<order, circuits, ignored>>

PropertySeries(cmd) ==
  /\ Command("series", cmd)
  /\ cells' = [c \in DOMAIN cells |-> SetSeriesCombine(cells[c], cmd.what = "all")]
  /\ UNCHANGED <<order, circuits, options, ignored>>

PropertyTopology(cmd) ==
  /\ Command("topology", cmd)
  /\ options' = [options EXCEPT !.exact = (cmd.what = "strict")]
  /\ UNCHANGED <<cells, order, circuits, ignored>>

\* enable or disable is for the cell that is found alone; a type of merging for
\* a key is too, as far as it allows the merging of the cell.
PropertyCombine(cmd) ==
  /\ Command("combine", cmd)
  /\ LET mask == IF cmd.how = "series" THEN SMask ELSE PMask
         allow == cmd.what \notin {"disable", "none"}
         Allowed(c) == IF c \in Found(cmd) THEN Combine(cells[c], cmd.how, allow) ELSE cells[c]
         Merged(c) == IF c \in Targets(cmd) /\ cmd.what \notin {"enable", "disable"}
                      THEN PropertyMerge(Allowed(c), cmd.key, CombineBits(cmd.how, cmd.what), mask)
                      ELSE Allowed(c)
     IN  cells' = [c \in DOMAIN cells |-> Merged(c)]
  /\ UNCHANGED <<order, circuits, options, ignored>>

PropertyMerges(cmd) ==
  /\ Command("merge", cmd)
  /\ cells' = [c \in DOMAIN cells |->
                 IF c \in Targets(cmd)
                 THEN PropertyMerge(cells[c], cmd.key, MergeBits(cmd.what), AllMask)
                 ELSE cells[c]]
  /\ UNCHANGED <<order, circuits, options, ignored>>

\* A key alone is a string, a key with a tolerance a double.
PropertyAdds(cmd) ==
  /\ Command("add", cmd)
  /\ cells' = [c \in DOMAIN cells |->
                 IF c \in Targets(cmd)
                 THEN PropertyAdd(cells[c], cmd.key, cmd.type, cmd.slop) ELSE cells[c]]
  /\ UNCHANGED <<order, circuits, options, ignored>>

\* With no key, only the cell that is found loses its definitions.
PropertyRemoves(cmd) ==
  /\ Command("remove", cmd)
  /\ cells' = [c \in DOMAIN cells |->
                 IF cmd.keys = {} /\ c \in Found(cmd)
                 THEN PropertyDelete(cells[c], DOMAIN cells[c].defs)
                 ELSE IF cmd.keys # {} /\ c \in Targets(cmd)
                 THEN PropertyDelete(cells[c], cmd.keys)
                 ELSE cells[c]]
  /\ UNCHANGED <<order, circuits, options, ignored>>

PropertyAssociates(cmd) ==
  /\ Command("associate", cmd)
  /\ cells' = [c \in DOMAIN cells |->
                 IF c \in Targets(cmd) THEN PropertyAssociatePin(cells[c], cmd.key, cmd.pin)
                 ELSE cells[c]]
  /\ UNCHANGED <<order, circuits, options, ignored>>

\* A tolerance written as an integer leaves the double unwritten, one with a
\* decimal point the integer; "inf" sets both.
PropertyTolerances(cmd) ==
  /\ Command("tolerance", cmd)
  /\ cells' = [c \in DOMAIN cells |->
                 IF c \in Targets(cmd)
                 THEN PropertyTolerance(cells[c], cmd.key,
                        IF cmd.kind = "double" THEN Unset ELSE cmd.slop,
                        IF cmd.kind = "integer" THEN Unset ELSE cmd.slop)
                 ELSE cells[c]]
  /\ UNCHANGED <<order, circuits, options, ignored>>

\* The function called for each cell of the file lacks its return: the search
\* may end after any cell.
PropertyDerives(cmd) ==
  /\ Command("derive", cmd)
  /\ LET added == [c \in DOMAIN cells |->
                     IF c \in Targets(cmd) THEN PropertyAdd(cells[c], cmd.what, "double", "default")
                     ELSE cells[c]]
     IN  \/ /\ Found(cmd) = {} /\ UNCHANGED cells
         \/ \E tc \in Found(cmd), reached \in (SUBSET DOMAIN cells) \ {{}} :
              /\ \A c \in reached : c[2] = tc[2]
              /\ cells' = [c \in DOMAIN cells |->
                   IF c \in reached
                   THEN Derived(added[c], tc[1], added[tc].defs, cmd.what, cmd.width, cmd.length)
                   ELSE added[c]]
  /\ UNCHANGED <<order, circuits, options, ignored>>

-----------------------------------------------------------------------------
(* permute and ignore                                                       *)

PermuteClasses(cmd) ==
  /\ Command("permute_class", cmd)
  /\ cells' = [c \in DOMAIN cells |-> PermuteDefault(cells[c], cmd.what)]
  /\ UNCHANGED <<order, circuits, options, ignored>>

PermutePins(cmd) ==
  /\ Command("permute", cmd)
  /\ cells' = [c \in DOMAIN cells |->
                 IF c \in PermuteTargets(cmd)
                 THEN PermuteSetup(cells[c], cmd.pins[1], cmd.pins[2]) ELSE cells[c]]
  /\ UNCHANGED <<order, circuits, options, ignored>>

PermuteForgets(cmd) ==
  /\ Command("forget", cmd)
  /\ cells' = [c \in DOMAIN cells |->
                 IF cmd.cell # << >> /\ c \notin PermuteTargets(cmd) THEN cells[c]
                 ELSE IF cmd.pins = << >> THEN PermuteForgetAll(cells[c])
                 ELSE PermuteForget(cells[c], cmd.pins[1], cmd.pins[2])]
  /\ UNCHANGED <<order, circuits, options, ignored>>

\* The record is for later reading; instances that are there are removed from
\* all cells of the file.  With no file and no circuits, from all cells.
IgnoreClass(cmd) ==
  /\ Command("ignore", cmd)
  /\ LET files == IF CommonParseCell(cmd.cell).file # AnyFile THEN {CommonParseCell(cmd.cell).file}
                  ELSE IF circuits # << >> THEN ToSet(circuits) ELSE {c[2] : c \in DOMAIN cells}
         Without(c, n) == IF cmd.what = "class" THEN ClassDelete(cells[c], n)
                          ELSE RemoveShorted(cells[c], n)
     IN  /\ ignored' = ignored \o SetToSeq({[class |-> c[1], files |-> files, type |-> cmd.what] :
                                              c \in Found(cmd)})
         /\ cells' = [c \in DOMAIN cells |->
              IF c[2] \in files /\ \E n \in Found(cmd) : <<n[1], c[2]>> \in DOMAIN cells
              THEN Without(c, (CHOOSE n \in Found(cmd) : TRUE)[1])
              ELSE cells[c]]
  /\ UNCHANGED <<order, circuits, options>>

Next ==
  \/ \E f \in DOMAIN Netlists : Read(f)
  \/ Assign
  \/ \E cmd \in Commands :
       \/ PropertyDefaults(cmd) \/ PropertyParallel(cmd) \/ PropertySeries(cmd)
       \/ PropertyTopology(cmd) \/ PropertyCombine(cmd) \/ PropertyMerges(cmd)
       \/ PropertyAdds(cmd) \/ PropertyRemoves(cmd) \/ PropertyAssociates(cmd)
       \/ PropertyTolerances(cmd) \/ PropertyDerives(cmd)
       \/ PermuteClasses(cmd) \/ PermutePins(cmd) \/ PermuteForgets(cmd)
       \/ IgnoreClass(cmd)

Spec == Init /\ [][Next]_vars
=============================================================================
