------------------------------ MODULE SpiceReader -----------------------------
(***************************************************************************)
(* Reading a SPICE netlist (base/spice.c, ReadSpiceFile): each line makes   *)
(* calls of the builder.  Subcircuits may nest, may be used before they are *)
(* defined (a placeholder with numbers for pins is made, and replaced when  *)
(* the definition comes), and may be defined again (the older definition,   *)
(* with its instances, is renamed).  A file may include files, which are    *)
(* read by a call of the same function: text has all lines in the order     *)
(* they are read.                                                           *)
(*                                                                          *)
(* Lines are records with a kind:                                           *)
(*   subckt (name, ports), ends, global (name), model (name),               *)
(*   include, and eof, the end of an included file,                         *)
(*   device (letter, model, nets, kv)  with the letter M for lines M, Q, R, *)
(*          C, D, T and L; V for V and I; E for E                           *)
(*   x (model, nets)           an instance of a subcircuit                  *)
(***************************************************************************)
EXTENDS NetBuilder

CONSTANTS
  Files,      \* files by name: the lines that may occur, the ignored classes,
              \* what the name buffer of the function may hold at first, and
              \* whether included files hold only subcircuits (library)
  FileName,   \* the name of the cell of the file itself
  Included,   \* the name of the included files
  Numbers,    \* the names of the pins of a placeholder: "1", "2", ...
  MaxLines    \* bound: lines of a file

\* Names are strings, and those of cells are not empty.
IsName(n) == n \in STRING /\ n # ""
IsLine(l) ==
  /\ l.kind \in {"subckt", "model", "global"} => IsName(l.name)
  /\ l.kind = "subckt" => l.ports \in Seq(STRING)
  /\ l.kind \in {"device", "x"} => /\ IsName(l.model) /\ l.nets \in Seq(STRING)
                                   /\ Len(l.nets) <= Len(Numbers)
  /\ l.kind = "device" => l.kv \in Seq(STRING)

ASSUME FilesAreText ==
  /\ MaxLines \in Nat /\ Numbers \in Seq(STRING) /\ MaxLines < Len(Numbers)
  /\ IsName(FileName) /\ IsName(Included)
  /\ \A f \in DOMAIN Files : /\ Files[f].garbage \subseteq STRING \X Int
                              /\ \A l \in Files[f].lines : IsLine(l)

VARIABLES
  file,      \* which of the files it is
  text,      \* the lines read
  b,         \* the cells built so far
  stack,     \* the cells that are open, the innermost first
  model,     \* the name last put into the buffer for model names
  instname,  \* the name last put into the buffer for instance names
  kvlist,    \* properties read and not yet given to a device
  update,    \* some placeholder has been made or replaced
  calls,     \* the variables model, kvlist and update of the calls that are
             \* waiting for the end of an included file
  reading    \* "yes", "done", or why the function returned: "fatal", "ignored"

locals == <<model, instname, kvlist, update>>
vars == <<file, text, b, stack, locals, calls, reading>>

Top == Named(IF calls = << >> THEN FileName ELSE Included)
IsIgnored(m) ==
  IF m \in DOMAIN Files[file].ignored THEN Files[file].ignored[m] ELSE "no"

Init ==
  /\ file \in DOMAIN Files
  /\ model \in Files[file].garbage
  /\ instname = "?"
  /\ text = << >> /\ b = EmptyBuild /\ stack = << >> /\ kvlist = << >>
  /\ update = FALSE /\ calls = << >> /\ reading = "yes"

\* Lines outside of subcircuits are in the cell of the file, which the first of
\* them opens.
Open == IF stack = << >> THEN CellDef(b, Top) ELSE b
Opened == IF stack = << >> THEN <<Top>> ELSE stack

(***************************************************************************)
(* .SUBCKT                                                                  *)
(***************************************************************************)
IsPlaceholder(name) == b.cells[name].class = "module"

\* A name that is taken goes to the new definition; the cell and its instances
\* are renamed to the first free number.
FreeName(name) == <<name, Min({n \in 0..MaxLines : ~LookupCell(b, <<name, n>>)})>>

Renamed(name) ==
  CellRehash(InstanceRename(b, Named(name), FreeName(name)), Named(name), FreeName(name))

\* The build before the new definition is made.
Freed(name) ==
  IF ~LookupCell(b, Named(name)) THEN b
  ELSE IF IsPlaceholder(Named(name)) THEN CellDelete(b, Named(name))
  ELSE Renamed(name)

\* Mutant: globals are seen only where they are declared.
NoGlobals(r, parent) == r

\* Copy all global nodes from the parent into the child.
Globals(r, parent) ==
  FoldLeft(LAMBDA c, o : IF o.type = GLOBAL THEN AddGlobal(c, o.name[2]) ELSE c,
           r, parent)

ReadSubckt(name, ports) ==
  LET parent == IF b.cur = NoCell THEN << >> ELSE Objs(b)
      defined == CellDef(Freed(name), Named(name))
      ported == IF ports = << >> THEN AddPort(defined, NoPins)
                ELSE FoldLeft(AddPort, defined, ports)
      replaced == LookupCell(b, Named(name)) /\ IsPlaceholder(Named(name))
  IN  /\ b' = Globals(ported, parent)
      /\ stack' = <<Named(name)>> \o stack
      /\ model' = IF LookupCell(b, Named(name)) /\ ~replaced THEN FreeName(name)
                  ELSE Named(name)
      /\ update' = (update \/ replaced)
      /\ UNCHANGED <<instname, kvlist, calls, reading>>

(***************************************************************************)
(* .ENDS and the end of the file                                            *)
(***************************************************************************)
IsProxy(o) == o.type = PORT /\ o.name = Net(NoPins)

\* The next number for a proxy, which is not always above all the others.
MaxNode(objs) == FoldLeft(LAMBDA m, o : IF o.node > m THEN o.node + 1 ELSE m, 0, objs)

\* An unconnected port takes the node of another port of its name.
ConnectPort(objs, k, proxy) ==
  LET o == objs[k]
      same == {j \in DOMAIN objs : /\ objs[j].type = PORT /\ objs[j].name = o.name
                                   /\ objs[j].node # None}
  IN  IF o.type # PORT \/ o.node # None THEN objs
      ELSE IF IsProxy(o) THEN [objs EXCEPT ![k].node = proxy]
      ELSE IF same = {} THEN objs
      ELSE [objs EXCEPT ![k].node = objs[Min(same)].node]

\* Unconnected globals are removed.
CleanupSubcell(r) ==
  [r EXCEPT !.cells[r.cur].objs =
     LET proxy == MaxNode(@)
         connect(objs, k) == ConnectPort(objs, k, proxy)
         connected == FoldLeft(connect, @, [k \in DOMAIN @ |-> k])
     IN  Chosen(connected, LAMBDA o : ~(o.type = GLOBAL /\ o.node = None))]

Closed ==
  LET ended == EndCell(CleanupSubcell(b))
  IN  IF Len(stack) > 1 THEN ReopenCellDef(ended, stack[2]) ELSE ended

ReadEnds ==
  /\ b' = Closed
  /\ stack' = Tail(stack)
  /\ UNCHANGED <<locals, calls, reading>>

\* Mutant: the pins keep the numbers of the placeholder.
KeepNumbers(cells) == cells

\* The pins of every instance are named after the ports of its cell, where
\* these are different.
renamepins(cells) ==
  LET ports(m) == Chosen(cells[m].objs, LAMBDA p : p.type = PORT)
      renamed(o) == IF o.type >= FIRSTPIN /\ o.type <= Len(ports(o.model))
                    THEN [o EXCEPT !.name = Pin(@[1], ports(o.model)[o.type])] ELSE o
  IN  [c \in DOMAIN cells |->
         [cells[c] EXCEPT !.objs = [k \in DOMAIN @ |-> renamed(@[k])]]]

\* The end of a file, included or not: the innermost cell is closed.
AtEnd ==
  LET closed == IF stack = << >> THEN b ELSE Closed
  IN  IF update THEN [closed EXCEPT !.cells = renamepins(@)] ELSE closed

EndOfFile ==
  /\ calls = << >>
  /\ b' = IF LookupCell(AtEnd, Top) THEN AtEnd ELSE CellDef(AtEnd, Top)
  /\ stack' = << >>
  /\ reading' = "done"
  /\ UNCHANGED <<file, text, locals, calls>>

\* To the call that reads the including file.
Return ==
  /\ model' = Head(calls).model
  /\ instname' = Head(calls).instname
  /\ kvlist' = Head(calls).kvlist
  /\ update' = Head(calls).update
  /\ calls' = Tail(calls)

EndOfIncluded ==
  /\ b' = AtEnd
  /\ stack' = IF stack = << >> THEN stack ELSE Tail(stack)
  /\ Return
  /\ UNCHANGED reading

\* The call has variables of its own.
Include ==
  /\ calls' = <<[model |-> model, instname |-> instname, kvlist |-> kvlist,
                 update |-> update]>> \o calls
  /\ model' \in Files[file].garbage
  /\ instname' = "?"
  /\ kvlist' = << >>
  /\ update' = FALSE
  /\ UNCHANGED <<b, stack, reading>>

(***************************************************************************)
(* Devices                                                                  *)
(***************************************************************************)
\* The first line that uses a model defines it.
DefineModel(r, m, ports) ==
  IF LookupCell(r, m) THEN r
  ELSE ReopenCellDef(EndCell(SetClass(FoldLeft(AddPort, CellDef(r, m), ports), "device")),
                     Opened[1])

\* Make sure that all the nodes exist.  A line E adds another object of the name
\* of its second net for each of its control nets that does not exist.
MakeNodes(r, l) ==
  LET make(c, k) == IF l.letter # "E" \/ k <= 2 THEN NodeFor(c, l.nets[k])
                    ELSE IF LookupObject(c, Net(l.nets[k])) = 0 THEN AddNode(c, l.nets[2])
                    ELSE c
  IN  FoldLeft(make, r, [k \in DOMAIN l.nets |-> k])

\* Lines V, I and E use the instance name of the last other device.
ReadDevice(l, inst) ==
  LET m == Named(l.model)
      named == MakeNodes(Open, l)
      modelled == DefineModel(named, m, SubSeq(Numbers, 1, Len(l.nets)))
      made == Cell(modelled, instname', m, l.nets, IsIgnored(l.model))
      malformed == LookupCell(named, m) /\ CountPorts(named, m) # Len(l.nets)
  IN  /\ stack' = Opened
      /\ model' = m
      /\ instname' = IF l.letter = "M" /\ ~malformed THEN inst ELSE instname
      /\ IF malformed
         THEN b' = named /\ kvlist' = l.kv \o kvlist
         ELSE /\ b' = LinkProperties(made, m, l.kv \o kvlist, IsIgnored(l.model))
              /\ kvlist' = << >>
      /\ UNCHANGED <<update, calls, reading>>

\* .MODEL: a cell of that name is a device of the given type.
ReadModel(m) ==
  /\ b' = IF LookupCell(b, Named(m)) THEN [b EXCEPT !.cells[Named(m)].class = "device"]
          ELSE b
  /\ model' = Named(m)
  /\ UNCHANGED <<stack, instname, kvlist, update, calls, reading>>

(***************************************************************************)
(* Subcircuit instances                                                     *)
(***************************************************************************)
\* A cell for a subcircuit that is not defined yet, with numbers for ports.
Placeholder(r, m, nets) ==
  ReopenCellDef(EndCell(SetClass(
    IF nets = << >> THEN AddPort(CellDef(r, m), NoPins)
    ELSE FoldLeft(AddPort, CellDef(r, m), SubSeq(Numbers, 1, Len(nets))), "module")),
    Opened[1])

\* The nets are joined to the pins of the instance one after the other, as
\* far as there are both.
ConnectPins(r, m, inst, nets) ==
  LET ports == Ports(r, m)
      connect(c, k) == join(NodeFor(c, nets[k]), Net(nets[k]), Pin(inst, ports[k]))
  IN  FoldLeft(connect, r, [k \in 1..Min({Len(nets), Len(ports)}) |-> k])

ReadInstance(m, nets, inst) ==
  LET name == Named(m)
      known == LookupCell(Open, name)
      stop(why) == /\ b' = Open /\ stack' = Opened
                   /\ IF calls = << >>
                      THEN reading' = why /\ UNCHANGED <<locals, calls>>
                      ELSE Return /\ UNCHANGED reading
      opened == IF known THEN Open ELSE Placeholder(Open, name, nets)
      made == LinkProperties(Instance(opened, name, inst), name, kvlist, IsIgnored(m))
  IN  IF model = name THEN stop("fatal")
      ELSE IF IsIgnored(m) = "class" \/ (IsIgnored(m) = "shorted" /\ Shorted(nets))
      THEN stop("ignored")
      ELSE /\ b' = ConnectPins(made, name, inst, nets)
           /\ stack' = Opened
           /\ update' = (update \/ ~known)
           /\ kvlist' = << >>
           /\ UNCHANGED <<model, instname, calls, reading>>

(***************************************************************************)
(* .GLOBAL                                                                  *)
(***************************************************************************)
\* The cells under a cell, and itself.
Under(r, top) ==
  LET parts(S, k) == S \cup {c \in DOMAIN r.cells :
                               \E p \in S : \E i \in DOMAIN r.cells[p].objs :
                                 r.cells[p].objs[i].model = c}
  IN  FoldLeft(parts, {top}, SetToSeq(DOMAIN r.cells))

IsLocal(o, g) == o.type = NODE /\ o.name = Net(g)

\* Nets of that name in the current cell and all cells under it become global;
\* only if there is none, the current cell is given one.
ChangeScopeCurrent(r, g) ==
  LET scoped(o) == IF IsLocal(o, g) THEN [o EXCEPT !.type = GLOBAL] ELSE o
  IN  [r EXCEPT !.cells = [c \in DOMAIN r.cells |->
         IF c \notin Under(r, r.cur) THEN r.cells[c]
         ELSE [r.cells[c] EXCEPT !.objs = [k \in DOMAIN @ |-> scoped(@[k])]]]]

ReadGlobal(g) ==
  LET isKnown == /\ b.cur # NoCell
                 /\ \E c \in Under(b, b.cur) : \E k \in DOMAIN b.cells[c].objs :
                      IsLocal(b.cells[c].objs[k], g)
  IN  /\ IF isKnown THEN b' = ChangeScopeCurrent(b, g) /\ stack' = stack
         ELSE b' = AddGlobal(Open, g) /\ stack' = Opened
      /\ UNCHANGED <<locals, calls, reading>>

-----------------------------------------------------------------------------
\* The files read are well formed: a subcircuit is not defined or instantiated
\* within itself, and .ends closes one.
WellFormed(l) ==
  CASE l.kind = "subckt" -> Named(l.name) \notin ToSet(stack)
    [] l.kind = "ends" -> stack # << >> /\ stack[1] # Top
    [] l.kind = "x" -> \A c \in ToSet(stack) : c[1] # l.model
    [] l.kind = "eof" -> calls # << >>
    [] OTHER -> TRUE

\* A library is included outside of cells and holds only whole subcircuits.
Library(l) ==
  CASE l.kind \in {"include", "eof"} -> stack = << >>
    [] l.kind \in {"device", "x", "global"} -> calls # << >> => stack # << >>
    [] OTHER -> TRUE

ReadLine(l) ==
  /\ Len(text) < MaxLines
  /\ WellFormed(l)
  /\ Files[file].library => Library(l)
  /\ text' = Append(text, l)
  /\ UNCHANGED file
  /\ \/ l.kind = "subckt" /\ ReadSubckt(l.name, l.ports)
     \/ l.kind = "ends" /\ ReadEnds
     \/ l.kind = "model" /\ ReadModel(l.name)
     \/ l.kind = "device" /\ ReadDevice(l, Numbers[Len(text) + 1])
     \/ l.kind = "x" /\ ReadInstance(l.model, l.nets, Numbers[Len(text) + 1])
     \/ l.kind = "global" /\ ReadGlobal(l.name)
     \/ l.kind = "include" /\ Include
     \/ l.kind = "eof" /\ EndOfIncluded

Next ==
  /\ reading = "yes"
  /\ \/ \E l \in Files[file].lines : ReadLine(l)
     \/ EndOfFile

Spec == Init /\ [][Next]_vars
=============================================================================
