----------------------------- MODULE VerilogReader ----------------------------
(***************************************************************************)
(* Reading a structural Verilog netlist (base/verilog.c, ReadVerilogFile;   *)
(* the conditionals are in base/netfile.c): each statement makes calls of   *)
(* the builder.  Ports and wires are vectors of bits, each a net of its     *)
(* own; the pins of an instance are given by name, and the nets on them     *)
(* are expanded into bits.  A module that is used first gets a placeholder; *)
(* what is not structural makes a module a black box.                       *)
(*                                                                          *)
(* A statement is a record with a kind.  A range is << >>, <<i>> for [i] or *)
(* <<i, j>> for [i:j], where i and j are sequences of tokens.  A part is a  *)
(* name (root) with a range; a net is << >> for (), <<part>>, or the parts  *)
(* of a bundle {..., ...}.                                                  *)
(*   module (name, inlined, decls), endmodule, ports (decls): decls have    *)
(*          the form of parts, and are inlined if they stand in the header  *)
(*   wire (decl, more, value), assign (part, value): the value is a net     *)
(*   instance (model, range, pins, kv): pins have a port and a net          *)
(*   positional: an instance whose pins have no names                       *)
(*   behavioural: reg, always, initial, specify, a gate, or a pin with ~    *)
(*   for (var, from, oper, limit), end                                      *)
(*   parameter (name, value), define (name, value), undef (name)            *)
(*   ifdef, ifndef, elsif (name), else, endif                               *)
(*   include, and eof, the end of an included file                          *)
(***************************************************************************)
EXTENDS NetBuilder, VerilogExpressions

CONSTANTS
  Files,      \* files by name: the statements that may occur, how the text starts,
              \* the ignored classes, whether it is read with -blackbox, and, as
              \* a bound, the number of statements (size)
  FileName,   \* the name of the cell of the file itself
  Numbers     \* "1", "2", ...

VARIABLES
  file,         \* which of the files it is
  text,         \* the statements read
  pc,           \* the place of the next one
  b,            \* the cells built so far
  stack,        \* the cells that are open, the innermost first
  inModule,     \* in_module
  tpsave,       \* the placeholder that the current module will replace
  placeholders, \* the cells made for an instance (CELL_PLACEHOLDER)
  buses,        \* the ranges of the vectors of the current module
  params,       \* verilogparams: <<value>>, or << >> if it is not an integer
  defs,         \* verilogdefs: tokens
  loop,         \* the for loop: its variable, end and place in the text
  conds,        \* condstack, the innermost first: was the name defined, and is
                \* the sense inverted
  nested,       \* conditionals inside of a section that is skipped
  skipping,     \* to the next endmodule
  localcount,   \* of the nets made for unconnected pins
  kvlist,       \* parameters of an instance that are not yet given to one
  calls,        \* the calls that wait for the end of an included file
  reading       \* "yes", "done", or "ignored"

cells == <<b, stack, inModule, tpsave, placeholders, localcount, kvlist>>
tables == <<params, defs, loop>>
conditionals == <<conds, nested>>
vars == <<file, text, pc, cells, buses, tables, conditionals, skipping, calls, reading>>

NoLoop == [var |-> "", end |-> 0, pos |-> 0]
Place == Named("_PLACEHOLDER_")
IsIgnored(m) ==
  IF m \in DOMAIN Files[file].ignored THEN Files[file].ignored[m] ELSE "no"

Init ==
  /\ file \in DOMAIN Files
  /\ text = Files[file].start /\ pc = 1
  /\ b = EmptyBuild /\ stack = << >> /\ inModule = FALSE
  /\ tpsave = NoCell /\ placeholders = {} /\ localcount = 1 /\ kvlist = << >>
  /\ buses = << >> /\ params = << >> /\ defs = "LVS" :> "1" /\ loop = NoLoop
  /\ conds = << >> /\ nested = 0 /\ skipping = FALSE /\ calls = << >> /\ reading = "yes"

(***************************************************************************)
(* Ranges                                                                   *)
(***************************************************************************)
MaxNumber == 30    \* bound: numbers in the text
Numeral == [t \in {ToString(n) : n \in 0..MaxNumber} |->
              CHOOSE n \in 0..MaxNumber : ToString(n) = t]
Operators == {"+", "-", "*", "/", "(", ")"}
TokenOperators == Operators \cup {"<<", ">>"}    \* of a declaration
TextOperators == Operators \cup {"?", ":"}       \* of a net, or of a loop

\* Uses of definitions ("@name" stands for a backquote and the name) are replaced
\* when a line is read.
Substituted(t) ==
  LET used == {d \in DOMAIN defs : t = "@" \o d}
  IN  IF used = {} THEN t ELSE defs[CHOOSE d \in used : TRUE]

Parameter(t) == IF t \in DOMAIN params THEN params[t] ELSE << >>

\* A token that is neither a number nor a parameter ends the reading of a range.
Readable(tokens, operators) ==
  \A k \in DOMAIN tokens : LET t == Substituted(tokens[k])
                           IN  t \in operators \cup DOMAIN Numeral \/ Parameter(t) # << >>

Items(tokens) ==
  [k \in DOMAIN tokens |->
     LET t == Substituted(tokens[k])
     IN  IF t \in TokenOperators \cup TextOperators THEN Operator(t)
         ELSE IF t \in DOMAIN Numeral THEN Number(Numeral[t])
         ELSE Number(Parameter(t)[1])]

Unreadable == <<-1, -1>>

\* <<value>>, or << >> if it cannot be evaluated.
Bound(tokens, operators) ==
  IF Readable(tokens, operators) THEN EvalExpr(Items(tokens)) ELSE Unreadable

Bus(start, end) == [start |-> start, end |-> end]

\* Of a declaration; << >> if a bound cannot be evaluated.  What cannot be read is -1,
\* which is also no range.
RangeOf(first, last) ==
  IF first = Unreadable THEN <<Bus(-1, -1)>>
  ELSE IF << >> \in {first, last} THEN << >>
  ELSE <<Bus(IF first[1] = -1 THEN last[1] ELSE first[1], last[1])>>

GetBusTok(range) ==
  RangeOf(Bound(range[1], TokenOperators), Bound(Last(range), TokenOperators))

Text(tokens) == FoldLeft(LAMBDA s, t : s \o Substituted(t), "", tokens)

\* The tokens that such a declaration leaves, from the one where reading stopped.
LeftBehind(range, bus, first) ==
  IF bus # << >> THEN << >>
  ELSE IF Len(range) = 2 /\ first = << >> THEN <<":", Text(range[2]), "]">>
  ELSE <<"]">>

Unread(range) ==
  IF range = << >> THEN << >>
  ELSE LeftBehind(range, GetBusTok(range), Bound(range[1], TokenOperators))

FromBounds(bounds) ==
  IF bounds # << >> /\ \A k \in DOMAIN bounds : Len(bounds[k]) = 1
  THEN <<Bus(bounds[1][1], Last(bounds)[1])>> ELSE << >>

\* Of a net; << >> if it is one wire, or the range cannot be read.
PartBus(part) ==
  IF part.range = << >> /\ part.root \in DOMAIN buses THEN <<buses[part.root]>>
  ELSE FromBounds([k \in DOMAIN part.range |-> Bound(part.range[k], TextOperators)])

Span(bus) == IF bus.start > bus.end THEN bus.start - bus.end ELSE bus.end - bus.start
Step(bus) == IF bus.start > bus.end THEN -1 ELSE 1

Width(bus) == IF bus = << >> THEN 1 ELSE Span(bus[1]) + 1

GetBus(net) ==
  IF Len(net) = 1 THEN PartBus(net[1])
  ELSE <<Bus(FoldLeft(+, 0, [k \in DOMAIN net |-> Width(PartBus(net[k]))]) - 1, 0)>>

Bit(root, i) == root \o "[" \o ToString(i) \o "]"

\* The numbers of the bits, in the order they are written.
Indices(bus) == [k \in 1..(Span(bus) + 1) |-> bus.start + (k - 1) * Step(bus)]

\* The text of a net, which is its name if it is not taken as a range.  A token that
\* cannot be read is the last of its bound: the reader cuts off what follows it.
Raw(part) ==
  IF part.range = << >> THEN part.root
  ELSE part.root \o "[" \o Text(part.range[1])
         \o (IF Len(part.range) = 1 THEN "" ELSE ":" \o Text(part.range[2])) \o "]"

\* The text of a bundle, behind {.
BundleText(net) ==
  FoldLeft(LAMBDA s, part : s \o "," \o Raw(part), Raw(Head(net)), Tail(net)) \o "}"

NetText(net) == IF Len(net) = 1 THEN Raw(net[1]) ELSE "{" \o BundleText(net)

(***************************************************************************)
(* Modules                                                                  *)
(***************************************************************************)
IsPlaceholder(name) == b.cells[name].class = "module"

FreeName(name) == <<name, Min({n \in 0..Len(text) : ~LookupCell(b, <<name, n>>)})>>

\* A name that is taken goes to the new definition; the cell and its instances
\* are renamed.
Renamed(name) ==
  CellRehash(InstanceRename(b, Named(name), FreeName(name)), Named(name), FreeName(name))

\* The range of a declared vector, and the names of its bits.
Vector(range) ==
  IF range = << >> THEN << >> ELSE SelectSeq(GetBusTok(range), LAMBDA bus : bus.start # -1)

IsVector(d) == Vector(d.range) # << >>

Bits(root, bus) == LET on == Indices(bus) IN [k \in DOMAIN on |-> Bit(root, on[k])]

Declared(root, vector) == IF vector = << >> THEN <<root>> ELSE Bits(root, vector[1])

\* Tokens left by a bad range are taken as names of ports.
CheckPort(r, d) ==
  FoldLeft(AddPort, r, Unread(d.range) \o Declared(d.root, Vector(d.range)))

\* Vectors are registered.
Registered(known, decls) ==
  LET vectors == {decls[k] : k \in {n \in DOMAIN decls : IsVector(decls[n])}}
  IN  [root \in {d.root : d \in vectors} |->
         Vector((CHOOSE d \in vectors : d.root = root).range)[1]] @@ known

ReadModule(s) ==
  LET name == Named(s.name)
      known == LookupCell(b, name)
      replaces == known /\ IsPlaceholder(name)
      cell == IF replaces THEN Place ELSE name
      defined == CellDef(IF known /\ ~replaces THEN Renamed(s.name) ELSE b, cell)
      ported == IF ~s.inlined THEN defined
                ELSE IF s.decls = << >> THEN AddPort(defined, NoPins)
                ELSE FoldLeft(CheckPort, defined, s.decls)
  IN  /\ b' = IF Files[file].blackbox THEN SetClass(ported, "module") ELSE ported
      /\ stack' = <<cell>> \o stack
      /\ tpsave' = IF replaces THEN name ELSE NoCell
      /\ buses' = IF s.inlined THEN Registered(<< >>, s.decls) ELSE << >>
      /\ skipping' = (s.inlined /\ Files[file].blackbox)
      /\ inModule' = TRUE
      /\ UNCHANGED <<placeholders, localcount, kvlist, tables, calls, reading>>

ReadPorts(s) ==
  /\ b' = FoldLeft(CheckPort, b, s.decls)
  /\ buses' = Registered(buses, s.decls)
  /\ UNCHANGED <<stack, inModule, tpsave, placeholders, localcount, kvlist, tables,
                 skipping, calls, reading>>

(***************************************************************************)
(* endmodule and the end of the file                                        *)
(***************************************************************************)
IsPort(o) == o.type = PORT

\* The ports before the first pin come first.
PortsFirst(objs) ==
  LET first == SelectInSeq(objs, LAMBDA o : o.type >= FIRSTPIN)
      n == IF first = 0 THEN Len(objs) ELSE first - 1
      declared == SubSeq(objs, 1, n)
  IN  SelectSeq(declared, IsPort) \o SelectSeq(declared, LAMBDA o : ~IsPort(o))
        \o SubSeq(objs, n + 1, Len(objs))

MaxNode(objs) == FoldLeft(LAMBDA m, o : IF o.node > m THEN o.node + 1 ELSE m, 0, objs)

\* An unconnected port takes the node of another port of its name.
ConnectPort(objs, k, proxy) ==
  LET o == objs[k]
      same == {j \in DOMAIN objs : IsPort(objs[j]) /\ objs[j].name = o.name
                                    /\ objs[j].node # None}
  IN  IF ~IsPort(o) \/ o.node # None THEN objs
      ELSE IF o.name = Net(NoPins) THEN [objs EXCEPT ![k].node = proxy]
      ELSE IF same = {} THEN objs
      ELSE [objs EXCEPT ![k].node = objs[Min(same)].node]

\* A module without instances is a black box.
CleanupModule(r) ==
  LET objs == PortsFirst(Objs(r))
      proxy == MaxNode(objs)
      connected == FoldLeft(LAMBDA os, k : ConnectPort(os, k, proxy), objs,
                            [k \in DOMAIN objs |-> k])
      class == IF \E k \in DOMAIN objs : objs[k].type = FIRSTPIN THEN r.cells[r.cur].class
               ELSE "module"
  IN  [r EXCEPT !.cells[r.cur] = [objs |-> connected, class |-> class]]

\* To the cell below, unless that has been renamed.
Closed ==
  LET ended == EndCell(CleanupModule(b))
  IN  IF Len(stack) > 1 /\ LookupCell(b, stack[2]) THEN ReopenCellDef(ended, stack[2])
      ELSE ended

(* A definition replaces a placeholder: MatchPins by names alone *)

PortNames(r, cell) ==
  LET objs == r.cells[cell].objs
      other == SelectInSeq(objs, LAMBDA o : ~IsPort(o))
      ports == SubSeq(objs, 1, IF other = 0 THEN Len(objs) ELSE other - 1)
  IN  [k \in DOMAIN ports |-> ports[k].name[2]]

\* Ports with numbers for names, from a SPICE netlist, are in order.
PlaceNames(r) ==
  LET names == PortNames(r, tpsave)
  IN  IF /\ Len(names) = Len(PortNames(r, Place))
         /\ names = SubSeq(Numbers, 1, Len(names))
      THEN PortNames(r, Place) ELSE names

\* A port that nothing else in the cell is connected to.
IsLoose(objs, k) ==
  objs[k].node = None \/ \A j \in DOMAIN objs : j > k => objs[j].node # objs[k].node

\* The pins of both cells in one order: the place among those of the placeholder
\* (0 for a proxy) and the name.  Loose ports of the definition are dropped,
\* except those of a black box, and those of the placeholder alone come last.
\* A vector of one bit, which may also match a port without an index, is left out.
Matched(r, names, old) ==
  LET isKept(k) == \/ names[k] \in ToSet(old)
                   \/ r.cells[Place].class = "module"
                   \/ ~IsLoose(r.cells[Place].objs, k)
      kept == SelectSeq([k \in DOMAIN names |-> k], isKept)
      extra == SelectSeq([q \in DOMAIN old |-> q], LAMBDA q : old[q] \notin ToSet(names))
  IN  [k \in DOMAIN kept |-> [from |-> SelectInSeq(old, LAMBDA n : n = names[kept[k]]),
                              name |-> names[kept[k]], port |-> kept[k]]]
        \o [k \in DOMAIN extra |-> [from |-> extra[k], name |-> old[extra[k]], port |-> 0]]

\* Mutant: the pins of the instances keep their order.
OldOrder(objs, k, pins) ==
  SubSeq(objs, k, Min({Len(objs)} \cup {j - 1 : j \in {i \in DOMAIN objs :
                                          i > k /\ objs[i].type <= FIRSTPIN}}))

\* The pins of the instance whose first is object k; a proxy has a node of its
\* own.
Reordered(objs, k, pins) ==
  LET pin(n) == IF pins[n].from # 0 THEN objs[k + pins[n].from - 1]
                ELSE [Object(n, <<objs[k].name[1], "proxy" \o pins[n].name>>, tpsave)
                        EXCEPT !.node = Highest(objs) + k * Len(pins) + n]
  IN  [n \in DOMAIN pins |-> [pin(n) EXCEPT !.type = n]]

reorderpins(objs, pins) ==
  FlattenSeq([k \in DOMAIN objs |->
    IF objs[k].type < FIRSTPIN \/ objs[k].model # tpsave THEN <<objs[k]>>
    ELSE IF objs[k].type = FIRSTPIN THEN Reordered(objs, k, pins) ELSE << >>])

WithPins(r, pins) ==
  LET objs == r.cells[Place].objs
      ports == [n \in DOMAIN pins |->
                  IF pins[n].port # 0 THEN objs[pins[n].port]
                  ELSE Object(PORT, Net("proxy" \o pins[n].name), NoCell)]
  IN  [r EXCEPT !.cells =
         [c \in DOMAIN @ |->
            IF c = Place
            THEN [@[c] EXCEPT !.objs = ports \o SelectSeq(objs, LAMBDA o : ~IsPort(o))]
            ELSE [@[c] EXCEPT !.objs = reorderpins(@, pins)]]]

MatchPins(r) == WithPins(r, Matched(r, PortNames(r, Place), PlaceNames(r)))

\* The placeholder is deleted, and the definition gets its name.
Replaced(r) == CellRehash(CellDelete(MatchPins(r), tpsave), Place, tpsave)

ReadEndmodule ==
  /\ b' = IF tpsave = NoCell THEN Closed ELSE Replaced(Closed)
  /\ stack' = Tail(stack)
  /\ placeholders' = placeholders \ {tpsave}
  /\ tpsave' = NoCell
  /\ buses' = << >>
  /\ inModule' = FALSE
  /\ UNCHANGED <<localcount, kvlist, tables, skipping, calls, reading>>

\* Nothing is done to the cell; the next statements would still go there.
SkipEndmodule ==
  /\ skipping' = FALSE
  /\ inModule' = FALSE
  /\ UNCHANGED <<b, stack, tpsave, placeholders, localcount, kvlist, buses, tables, calls,
                 reading>>

EndOfFile ==
  LET ended == IF stack = << >> THEN b ELSE Closed
  IN  /\ calls = << >> /\ pc \notin DOMAIN text
      /\ b' = IF LookupCell(ended, Named(FileName)) THEN ended
              ELSE CellDef(ended, Named(FileName))
      /\ stack' = << >>
      /\ reading' = "done"
      /\ UNCHANGED <<file, text, pc, inModule, tpsave, placeholders, localcount, kvlist,
                     buses, tables, conditionals, skipping, calls>>

\* The variables of the function go with the call; the tables are global.
Include ==
  /\ calls' = <<[inModule |-> inModule, tpsave |-> tpsave, kvlist |-> kvlist,
                 localcount |-> localcount]>> \o calls
  /\ inModule' = FALSE /\ tpsave' = NoCell /\ kvlist' = << >> /\ localcount' = 1
  /\ loop' = NoLoop
  /\ UNCHANGED <<b, stack, placeholders, buses, params, defs, skipping, reading>>

Return ==
  /\ inModule' = Head(calls).inModule
  /\ tpsave' = Head(calls).tpsave
  /\ kvlist' = Head(calls).kvlist
  /\ localcount' = Head(calls).localcount
  /\ calls' = Tail(calls)

\* The end of an included file closes the innermost cell as well.
EndOfIncluded ==
  /\ b' = IF stack = << >> THEN b ELSE Closed
  /\ stack' = IF stack = << >> THEN stack ELSE Tail(stack)
  /\ buses' = IF stack = << >> THEN buses ELSE << >>
  /\ skipping' = FALSE
  /\ Return
  /\ UNCHANGED <<placeholders, tables, reading>>

(***************************************************************************)
(* Wires and assignments                                                    *)
(***************************************************************************)
MakeBits(r, root, bus) ==
  FoldLeft(NodeFor, r, IF bus.start > bus.end THEN Reverse(Bits(root, bus)) ELSE Bits(root, bus))

\* An assignment goes through the bits of the left side and of each part of the
\* right side in turn; in a part that is repeated only the last bit is.  Of a
\* whole vector the first bit is not looked up: what the variable rhs holds,
\* at first anything, says whether the part is known.
AssignBits(a, left, part, from) ==
  LET bus == left.bus
      toGo == IF bus = << >> THEN 1 ELSE Span(Bus(a.i, bus[1].end)) + 1
      width == Width(from)
      n == Min({toGo, width + Max({0, a.times - 1})})
      leftBit(k) == IF bus = << >> THEN left.root
                    ELSE Bit(left.root, a.i + (k - 1) * Step(bus[1]))
      rightBit(k) == IF from = << >> THEN Raw(part)
                     ELSE Bit(part.root, Indices(from[1])[Min({k, width})])
  IN  [a EXCEPT !.b = FoldLeft(LAMBDA r, k : join(r, Net(leftBit(k)), Net(rightBit(k))), @,
                               [k \in 1..n |-> k]),
                !.i = IF bus = << >> THEN @ ELSE @ + (Min({n, toGo - 1})) * Step(bus[1]),
                !.times = IF n = toGo THEN @ - Max({0, toGo - width}) ELSE Min({@, 1})]

AssignPart(a, left, part, from) ==
  LET name == IF from = << >> THEN Raw(part) ELSE Bit(part.root, from[1].start)
      found == LookupObject(a.b, Net(name)) # 0
      isKnown == IF from # << >> /\ part.range = << >> THEN a.rhs ELSE found
      next == [a EXCEPT !.rhs = isKnown]
  IN  CASE a.state # "on" -> a
        [] from = << >> /\ ~found /\ part.root \in DOMAIN Numeral ->
             [next EXCEPT !.times = Numeral[part.root]]
        [] isKnown /\ ~left.known -> [next EXCEPT !.state = "stop"]
        [] ~isKnown /\ left.known -> [next EXCEPT !.state = "black box"]
        [] ~isKnown /\ ~left.known /\ << >> \in {from, left.bus} -> [next EXCEPT !.state = "skip"]
        [] OTHER -> AssignBits(next, left, part, from)

\* garbage: the variable rhs happens not to be NULL.
Assigned(r, left, value, garbage) ==
  FoldLeft(LAMBDA a, part : AssignPart(a, left, part, PartBus(part)),
           [b |-> r, i |-> IF left.bus = << >> THEN -1 ELSE left.bus[1].start,
            times |-> 1, rhs |-> garbage, state |-> "on"], value)

\* What cannot be an assignment of nets makes the module a black box.
EndAssignment(a) ==
  /\ b' = IF a.state = "black box" THEN SetClass(a.b, "module") ELSE a.b
  /\ skipping' = (a.state \in {"black box", "skip"})
  /\ UNCHANGED <<stack, inModule, tpsave, placeholders, localcount, kvlist, tables, calls,
                 reading>>

Assign(r, left, value) ==
  \E garbage \in BOOLEAN : EndAssignment(Assigned(r, left, value, garbage))

IsRepeated(d) == d.range = << >> /\ d.root \in DOMAIN buses

\* When a vector is declared again without its range, the token behind its name is
\* taken for the name; behind a bad bound, the token where reading stopped is.
\* Whatever follows is skipped.
MisreadWire(s) ==
  LET token == IF s.more # << >> THEN "," ELSE "="
  IN  IF IsRepeated(s.decl)
      THEN /\ buses' = token :> buses[s.decl.root] @@ buses
           /\ EndAssignment([b |-> MakeBits(b, token, buses[s.decl.root]), state |-> "on"])
      ELSE /\ EndAssignment([b |-> NodeFor(b, Head(Unread(s.decl.range))), state |-> "on"])
           /\ UNCHANGED buses

\* The left side is the vector, or the last net that is made.  If all of them have
\* been there, ports for one, the variable lhs holds anything: the left side of an
\* earlier statement, or NULL.
LeftSides(r, names, d, bus) ==
  LET made == {k \in DOMAIN names : /\ LookupObject(r, Net(names[k])) = 0
                                    /\ \A j \in 1..(k - 1) : names[j] # names[k]}
      net(name) == [root |-> name, bus |-> << >>, known |-> TRUE]
      nets == {o.name[2] : o \in {p \in UNION {ToSet(r.cells[c].objs) : c \in DOMAIN r.cells} :
                                    p.type \in {NODE, PORT}}}
  IN  IF IsVector(d) THEN {[root |-> d.root, bus |-> bus, known |-> TRUE]}
      ELSE IF made # {} THEN {net(names[Max(made)])}
      ELSE IF bus # << >> THEN {net(Bit(d.root, bus[1].start))}
      ELSE {[net(d.root) EXCEPT !.known = FALSE]} \cup {net(n) : n \in nets}

MakeWires(s, bus) ==
  LET d == s.decl
      r == IF bus = << >> THEN b ELSE MakeBits(b, d.root, bus[1])
      names == IF bus = << >> THEN <<d.root>> \o s.more ELSE s.more
  IN  /\ buses' = IF bus = << >> THEN buses ELSE d.root :> bus[1] @@ buses
      /\ \E left \in LeftSides(r, names, d, bus) :
           Assign(FoldLeft(NodeFor, r, names), left, s.value)

ReadWire(s) ==
  IF IsRepeated(s.decl) \/ Unread(s.decl.range) # << >> THEN MisreadWire(s)
  ELSE MakeWires(s, IF s.decl.range = << >> THEN << >> ELSE GetBusTok(s.decl.range))

ReadAssign(s, bus) ==
  LET made == IF bus = << >> THEN NodeFor(b, Raw(s.part)) ELSE b
      first == IF bus = << >> THEN Raw(s.part) ELSE Bit(s.part.root, bus[1].start)
  IN  /\ Assign(made, [root |-> IF bus = << >> THEN Raw(s.part) ELSE s.part.root,
                       bus |-> bus, known |-> LookupObject(made, Net(first)) # 0], s.value)
      /\ UNCHANGED buses

(***************************************************************************)
(* Instances                                                                *)
(***************************************************************************)
\* The range of an instance array, unless it is bad; inside of a for loop, its
\* variable.
ArrayBus(s) ==
  IF s.range # << >> THEN Head(GetBusTok(s.range) \o <<Bus(-1, -1)>>)
  ELSE IF loop.var # "" THEN Bus(params[loop.var][1], params[loop.var][1])
  ELSE Bus(-1, -1)

InstanceName(s, inst) ==
  IF s.range # << >> \/ loop.var = "" THEN inst ELSE Bit(inst, params[loop.var][1])

Token(i) == <<ToString(i)>>
Wire(root) == [root |-> root, range |-> << >>]
NoConnect(n) == "_noconnect_" \o ToString(n) \o "_"

\* The pins as they are read: an unconnected pin gets a net of its own.
PinList(s, array) ==
  LET empty(k) == Cardinality({j \in 1..(k - 1) : s.pins[j].net = << >>})
      made(k) == [root |-> NoConnect(localcount + empty(k)),
                  range |-> IF array.start = -1 THEN << >>
                            ELSE <<Token(array.start), Token(array.end)>>]
  IN  [k \in DOMAIN s.pins |->
         [name |-> s.pins[k].name, width |-> 1, slice |-> 0, isAuto |-> s.pins[k].net = << >>,
          net |-> IF s.pins[k].net = << >> THEN <<made(k)>> ELSE s.pins[k].net]]

\* The ports that a pin is given in a placeholder: its share of the bits.
Share(m, n) == IF m > n THEN (m + 1) \div (n + 1) - 1 ELSE (n + 1) \div (m + 1) - 1

DefaultPorts(port, bus, array) ==
  IF bus = << >> THEN <<port>>
  ELSE IF array.end - array.start = bus[1].end - bus[1].start THEN <<port>>
  ELSE IF bus[1].start > bus[1].end
  THEN LET range == Share(array.start - array.end, bus[1].start - bus[1].end)
       IN  [k \in 1..(range + 1) |-> Bit(port, range + 1 - k)]
  ELSE LET range == Share(array.end - array.start, bus[1].end - bus[1].start)
       IN  [k \in 1..(range + 1) |-> Bit(port, k - 1)]

Placeholder(r, m, pins, array) ==
  LET names == FlattenSeq([k \in DOMAIN pins |->
                             DefaultPorts(pins[k].name, GetBus(pins[k].net), array)])
      ported == FoldLeft(AddPort, CellDef(r, m), IF pins = << >> THEN <<NoPins>> ELSE names)
  IN  ReopenCellDef(EndCell(SetClass(ported, "module")), stack[1])

\* The numbers of the bits of a vector port, as they are listed.
PortBits(r, m, name) ==
  LET bits == [i \in {-1} \cup 0..MaxNumber |-> Bit(name, i)]
      listed == SelectSeq(PortNames(r, m), LAMBDA p : \E i \in DOMAIN bits : bits[i] = p)
  IN  [k \in DOMAIN listed |-> CHOOSE i \in DOMAIN bits : bits[i] = listed[k]]

\* The bits of the parts of a net.  Past the end of one vector the numbers go
\* on, past the end of a bundle there is no name.
Element(root, i) == [root |-> root, range |-> <<Token(i)>>]

PartElements(part, bus) ==
  IF bus = << >> THEN <<Wire(Raw(part))>>
  ELSE LET on == Indices(bus[1]) IN [k \in DOMAIN on |-> Element(part.root, on[k])]

Elements(net, n) ==
  LET all == FlattenSeq([k \in DOMAIN net |-> PartElements(net[k], PartBus(net[k]))])
      past(k, bus) == Element(net[1].root, bus.start + (k - 1) * Step(bus))
  IN  [k \in 1..n |->
         IF k \in DOMAIN all THEN all[k]
         ELSE IF Len(net) > 1 THEN Wire("") ELSE past(k, PartBus(net[1])[1])]

\* Mutant: the bits are taken from the other end.
ExpandedBackwards(p, bits) ==
  [k \in DOMAIN bits |-> [p EXCEPT !.name = Bit(p.name, bits[k]),
                            !.net = <<Reverse(Elements(p.net, Len(bits)))[k]>>]]

\* The pins of the bits of a vector port.
Expanded(p, bits) ==
  [k \in DOMAIN bits |-> [p EXCEPT !.name = Bit(p.name, bits[k]),
                            !.net = <<Elements(p.net, Len(bits))[k]>>]]

\* Only descending nets are expanded.  The net made for an unconnected pin
\* becomes a vector when it turns out that the port is one.  The first bit of the
\* port sets portstart, any other portend.
ExpandPin(pin, bus, listed, portend) ==
  LET bits == Indices(Bus(listed[1], IF Len(listed) = 1 THEN portend ELSE Last(listed)))
      p == [pin EXCEPT !.width = Len(bits)]
      vector == [root |-> Raw(p.net[1]), range |-> <<Token(Len(bits) - 1), Token(0)>>]
      isVector == bus = << >> /\ p.isAuto /\ p.net[1].range = << >> /\ Len(bits) > 1
  IN  IF listed = << >> THEN <<pin>>
      ELSE IF isVector \/ (bus # << >> /\ bus[1].start > bus[1].end)
      THEN Expanded(IF isVector THEN [p EXCEPT !.net = <<vector>>] ELSE p, bits)
      ELSE <<p>>

\* The net on a pin of element i of an array: the bits of a vector are dealt out
\* to the elements, each as many as the port has, and again from the start
\* when they are used up.
RECURSIVE Wrapped(_, _, _, _)
Wrapped(n, end, length, step) ==
  IF step = -1 /\ n < end THEN Wrapped(n + length, end, length, step)
  ELSE IF step = 1 /\ n > end THEN Wrapped(n - length, end, length, step)
  ELSE n

Slice(p, array, i, bus) ==
  LET root == p.net[1].root
      whole == IF root \in DOMAIN buses THEN buses[root] ELSE Bus(-1, -1)
      length == Span(whole) + 1
  IN  CASE whole.start >= whole.end /\ array.start >= array.end ->
             Wrapped(bus.start - (array.start - i) * p.width, whole.end, length, -1)
        [] whole.start < whole.end /\ array.start > array.end ->
             Wrapped(bus.start + (array.start - i) * p.width, whole.end, length, 1)
        [] whole.start > whole.end /\ array.start < array.end ->
             Wrapped(bus.start - (array.start + i) * p.width, whole.end, length, -1)
        [] OTHER ->
             Wrapped(bus.start + (array.start + i) * p.width, whole.end, length, 1)

\* Past its end, the name on a bundle is the text behind {, with an index that has
\* not been set.
PinNet(p, array, i, bus) ==
  LET place == (IF array.start > array.end THEN array.start - i ELSE i) * p.width
  IN  IF bus = << >> THEN Raw(p.net[1])
      ELSE IF array.start = -1 THEN Bit(p.net[1].root, bus[1].start)
      ELSE IF Len(p.net) = 1 THEN Bit(p.net[1].root, Slice(p, array, i, bus[1]))
      ELSE IF place >= Len(p.net) THEN Bit(BundleText(p.net), p.slice)
      ELSE LET part == p.net[place + 1] IN Bit(part.root, PartBus(part)[1].start)

\* A port without a pin gets a net of its own.
ConnectPin(a, inst, port, pins, array, i) ==
  LET k == SelectInSeq(pins, LAMBDA p : p.name = port)
      net == IF k = 0 THEN NoConnect(a.count)
             ELSE PinNet(pins[k], array, i, GetBus(pins[k].net))
  IN  IF k = 0 /\ port = NoPins THEN a
      ELSE [a EXCEPT !.b = join(NodeFor(@, net), Net(net), <<inst, port>>),
                     !.count = IF k = 0 THEN @ + 1 ELSE @]

(* Pins that the placeholder does not have yet *)

InsertPin(r, k, inst, port, m) ==
  [r EXCEPT !.cells[r.cur].objs =
     InsertAt(@, k + 1, Object(@[k].type + 1, <<inst, port>>, m))]

LastPinOf(objs, k) ==
  Min({j \in DOMAIN objs : j >= k /\ (j = Len(objs) \/ objs[j + 1].type <= FIRSTPIN)})

\* Into the cell and the new instance.
NewInstanceOnly(a, m, inst, p) ==
  LET own == SelectInSeq(Objs(a.b), LAMBDA o : o.type = FIRSTPIN /\ o.name[1] = inst)
      r == InsertPin(ReopenCellDef(AddPort(ReopenCellDef(a.b, m), p.name), stack[1]),
                     LastPinOf(Objs(a.b), own), inst, p.name, m)
  IN  [a EXCEPT !.b = join(NodeFor(r, NetText(p.net)), Net(NetText(p.net)), <<inst, p.name>>)]

\* The pin is added to the cell, to this instance, and to the earlier instances in
\* the current cell, where it is not connected.
AddPin(a, m, inst, p) ==
  LET own == NewInstanceOnly(a, m, inst, p)
      earlier == {Objs(a.b)[k].name[1] : k \in {j \in DOMAIN Objs(a.b) :
                    Objs(a.b)[j].type = FIRSTPIN /\ Objs(a.b)[j].model = m}} \ {inst}
      add(c, i) ==
        LET first == SelectInSeq(Objs(c.b), LAMBDA o : o.type = FIRSTPIN /\ o.name[1] = i)
            r == InsertPin(c.b, LastPinOf(Objs(c.b), first), i, p.name, m)
        IN  [c EXCEPT !.b = join(NodeFor(r, NoConnect(c.count)), Net(NoConnect(c.count)),
                                 <<i, p.name>>),
                      !.count = @ + 1]
  IN  FoldLeft(add, own, SetToSeq(earlier))

AddMissing(a, m, inst, pins) ==
  IF m \in placeholders \/ a.isNew
  THEN FoldLeft(LAMBDA c, p : AddPin(c, m, inst, p), a,
                SelectSeq(pins, LAMBDA p : p.name \notin ToSet(PortNames(a.b, m))))
  ELSE a

Connect(a, ports, m, inst, pins, array, i) ==
  AddMissing(FoldLeft(LAMBDA c, port : ConnectPin(c, inst, port, pins, array, i), a, ports),
             m, inst, pins)

MakeInstance(a, m, inst, pins, array, i) ==
  Connect([a EXCEPT !.b = LinkProperties(Instance(@, m, inst), m, kvlist, "no")],
          PortNames(a.b, m), m, inst, pins, array, i)

Low(bus) == Min({bus.start, bus.end})

\* One instance, or those of an array; the number -1 ends it.
MakeInstances(a, m, name, pins, array) ==
  LET n == Min({Span(array) + 1} \cup (IF Low(array) < 0 THEN {-Low(array)} ELSE {}))
  IN  FoldLeft(LAMBDA c, i :
                 MakeInstance(c, m, IF i = -1 THEN name ELSE Bit(name, i), pins, array, i),
               a, [k \in 1..n |-> Low(array) + k - 1])

ExpandPins(r, m, list, portend, slice) ==
  FlattenSeq([k \in DOMAIN list |->
    ExpandPin([list[k] EXCEPT !.slice = slice], GetBus(list[k].net),
              PortBits(r, m, list[k].name), portend)])

\* What an index is that was never set: portend, for the pin of a vector port of one
\* bit, and slice, for a bundle on an array.
Garbage == 0..2    \* bound: its values, one for all pins of a statement

Unset(isUsed) == IF isUsed THEN Garbage ELSE {0}

HasOneBit(r, m, list) == \E p \in ToSet(list) : Len(PortBits(r, m, p.name)) = 1
HasBundle(list, array) == array.start # -1 /\ \E p \in ToSet(list) : Len(p.net) > 1

Placed(m, list, array) ==
  IF LookupCell(b, m) THEN b ELSE Placeholder(b, m, list, array)

EndInstance(a, m) ==
  /\ b' = a.b
  /\ localcount' = a.count
  /\ placeholders' = IF a.isNew THEN placeholders \cup {m} ELSE placeholders
  /\ kvlist' = << >>
  /\ UNCHANGED <<stack, inModule, tpsave, buses, tables, skipping, calls, reading>>

ReadPins(m, name, list, array) ==
  \E portend \in Unset(HasOneBit(Placed(m, list, array), m, list)) :
  \E slice \in Unset(HasBundle(list, array)) :
    LET r == Placed(m, list, array)
        count == localcount + Cardinality({k \in DOMAIN list : list[k].isAuto})
    IN  EndInstance(MakeInstances([b |-> r, isNew |-> ~LookupCell(b, m), count |-> count],
                                  m, name, ExpandPins(r, m, list, portend, slice), array), m)

\* An ignored class ends the reading of the file, as does an ignored device
\* with one pin.
IsIgnoredInstance(s) ==
  IsIgnored(s.model) = "class" \/ (IsIgnored(s.model) = "shorted" /\ Len(s.pins) = 1)

IgnoreInstance ==
  IF calls = << >>
  THEN reading' = "ignored" /\ UNCHANGED <<cells, buses, tables, skipping, calls>>
  ELSE Return /\ UNCHANGED <<b, stack, placeholders, buses, tables, skipping, reading>>

ReadInstance(s, inst) ==
  LET m == Named(s.model)
      array == ArrayBus(s)
      list == PinList(s, array)
  IN  IF IsIgnoredInstance(s) THEN IgnoreInstance
      ELSE ReadPins(m, InstanceName(s, inst), list, array)

\* Parameters are put into the list before the instance is made.
ReadParameters(s) ==
  /\ kvlist' = s.kv \o kvlist
  /\ UNCHANGED <<b, stack, inModule, tpsave, placeholders, localcount, buses, tables,
                 skipping, calls, reading>>

ReadBehavioural ==
  /\ b' = SetClass(b, "module")
  /\ skipping' = TRUE
  /\ UNCHANGED <<stack, inModule, tpsave, placeholders, localcount, kvlist, buses, tables,
                 calls, reading>>

(***************************************************************************)
(* Parameters, definitions, loops and conditionals                          *)
(***************************************************************************)
\* The last value of a loop; a limit with <= or >= is that value.
EndOf(s) ==
  LET limit == Bound(s.limit, TextOperators)[1]
  IN  CASE s.oper = "<" -> limit - 1
        [] s.oper = ">" -> limit + 1
        [] OTHER -> limit

For(s) ==
  /\ loop' = [var |-> s.var, end |-> EndOf(s), pos |-> pc + 1]
  /\ params' = s.var :> Bound(s.from, TextOperators) @@ params
  /\ UNCHANGED defs

\* The block is read again; before the last time the loop is forgotten.
End ==
  LET value == params[loop.var][1]
      next == value + (IF value < loop.end THEN 1 ELSE IF value > loop.end THEN -1 ELSE 0)
  IN  IF loop.var = "" THEN UNCHANGED tables
      ELSE /\ IF next = loop.end
              THEN /\ params' = [p \in DOMAIN params \ {loop.var} |-> params[p]]
                   /\ loop' = NoLoop
              ELSE params' = [params EXCEPT ![loop.var] = <<next>>] /\ loop' = loop
           /\ UNCHANGED defs

ReadParameter(s) ==
  /\ params' = s.name :> (IF s.value \in DOMAIN Numeral THEN <<Numeral[s.value]>> ELSE << >>)
                 @@ params
  /\ UNCHANGED <<defs, loop>>

ReadDefine(s) == defs' = s.name :> s.value @@ defs /\ UNCHANGED <<params, loop>>

ReadUndef(s) ==
  defs' = [d \in DOMAIN defs \ {s.name} |-> defs[d]] /\ UNCHANGED <<params, loop>>

IsSkipped == conds # << >> /\ Head(conds).isDefined = Head(conds).isInverted

ConditionalKinds == {"ifdef", "ifndef", "elsif", "else", "endif"}

\* Conditionals within a section that is skipped are only counted.  An elsif
\* starts afresh, whatever the sections before it were.
ReadConditional(s) ==
  LET isIf == s.kind \in {"ifdef", "ifndef"}
      top(isInverted) == [isDefined |-> s.name \in DOMAIN defs, isInverted |-> isInverted]
  IN  IF IsSkipped /\ (isIf \/ nested > 0)
      THEN /\ nested' = IF isIf THEN nested + 1
                        ELSE IF s.kind = "endif" THEN nested - 1 ELSE nested
           /\ UNCHANGED conds
      ELSE /\ conds' = CASE isIf -> <<top(s.kind = "ifndef")>> \o conds
                        [] s.kind = "elsif" -> <<top(FALSE)>> \o Tail(conds)
                        [] s.kind = "else" -> [conds EXCEPT ![1].isInverted = ~@]
                        [] s.kind = "endif" -> Tail(conds)
           /\ UNCHANGED nested

-----------------------------------------------------------------------------
\* The texts read are well formed as far as the reader cannot do without:
\* objects are in modules, which are not nested or used within themselves,
\* includes outside of modules, and conditionals are balanced.  Ports are declared
\* once, in front of what they are used for.  A loop is not left open, or opened
\* within another, and its bounds can be evaluated.  A bad range does not hide the
\* names of ports or the pins of an instance.  A vector is not declared again as
\* a wire with nothing behind its name, as the reader would look for it behind
\* the end of the line.
InsideKinds == {"endmodule", "ports", "wire", "assign", "instance", "parameters",
                "positional", "behavioural", "for"}

IsNamed(d) ==
  ":" \in ToSet(Unread(d.range)) => ToSet(d.range[2]) \cap {"(", ")"} = {}

WellFormed(s) ==
  /\ s.kind \in InsideKinds => inModule
  /\ s.kind \in {"module", "include"} => ~inModule
  /\ s.kind \in {"elsif", "else", "endif"} => conds # << >>
  /\ s.kind = "ports" => text[pc - 1].kind = "module" /\ ~text[pc - 1].inlined
  /\ s.kind = "eof" => calls # << >> /\ conds = << >>
  /\ s.kind = "instance" => Named(s.model) \notin {Head(stack), tpsave}
  /\ s.kind \in {"for", "endmodule"} => loop.var = ""
  /\ s.kind = "for" => \A e \in {s.from, s.limit} : Len(Bound(e, TextOperators)) = 1
  /\ s.kind \in {"module", "ports"} => \A d \in ToSet(s.decls) : IsNamed(d)
  /\ s.kind = "instance" => ":" \notin ToSet(Unread(s.range))
  /\ s.kind = "wire" /\ IsRepeated(s.decl) => s.more # << >> \/ s.value # << >>

\* A statement that is read again, or a new one.
Upcoming == IF pc \in DOMAIN text THEN {text[pc]}
            ELSE IF Len(text) < Files[file].size THEN Files[file].statements ELSE {}

NextPlace(s) == IF s.kind = "end" /\ ~IsSkipped /\ ~skipping /\ loop.var # ""
                THEN loop.pos ELSE pc + 1

ReadTable(s) ==
  /\ \/ s.kind = "for" /\ For(s)
     \/ s.kind = "end" /\ End
     \/ s.kind = "parameter" /\ ReadParameter(s)
     \/ s.kind = "define" /\ ReadDefine(s)
     \/ s.kind = "undef" /\ ReadUndef(s)
  /\ UNCHANGED <<cells, buses, skipping, calls, reading>>

ReadObjects(s) ==
  \/ s.kind = "module" /\ ReadModule(s)
  \/ s.kind = "endmodule" /\ ReadEndmodule
  \/ s.kind = "ports" /\ ReadPorts(s)
  \/ s.kind = "wire" /\ ReadWire(s)
  \/ s.kind = "assign" /\ ReadAssign(s, PartBus(s.part))
  \/ s.kind = "instance" /\ ReadInstance(s, "u" \o Numbers[pc])
  \/ s.kind = "parameters" /\ ReadParameters(s)
  \/ s.kind = "behavioural" /\ ReadBehavioural
  \/ s.kind = "include" /\ Include
  \/ s.kind = "eof" /\ EndOfIncluded

\* Pins without names, and whatever is skipped, make nothing.
Ignore == UNCHANGED <<cells, buses, tables, skipping, calls, reading>>

ReadStatement(s) ==
  /\ WellFormed(s)
  /\ text' = IF pc \in DOMAIN text THEN text ELSE Append(text, s)
  /\ pc' = NextPlace(s)
  /\ UNCHANGED file
  /\ IF s.kind \in ConditionalKinds
     THEN ReadConditional(s) /\ Ignore
     ELSE /\ UNCHANGED conditionals
          /\ IF IsSkipped \/ s.kind = "positional" THEN Ignore
             ELSE IF skipping
             THEN IF s.kind = "endmodule" THEN SkipEndmodule
                  ELSE IF s.kind = "eof" THEN EndOfIncluded ELSE Ignore
             ELSE ReadTable(s) \/ ReadObjects(s)

Next ==
  /\ reading = "yes"
  /\ \/ \E s \in Upcoming : ReadStatement(s)
     \/ EndOfFile

Spec == Init /\ [][Next]_vars
=============================================================================
