------------------------------- MODULE MCVerilog ------------------------------
(***************************************************************************)
(* Small Verilog files, read statement by statement, and what their text    *)
(* says.  Bounds: at most nine statements from an alphabet of at most ten   *)
(* after those with which each file starts; vectors of at most              *)
(* four bits (but for the bounds of wires, which are all expressions of up  *)
(* to three operands with at most one group).                               *)
(***************************************************************************)
EXTENDS VerilogReader

(* Statements *)

Part(root) == [root |-> root, range |-> << >>]
OneBit(root, i) == [root |-> root, range |-> <<<<i>>>>]
Slices(root, i, j) == [root |-> root, range |-> <<<<i>>, <<j>>>>]
Module(name, decls) == [kind |-> "module", name |-> name, inlined |-> TRUE, decls |-> decls]
OldModule(name) == [kind |-> "module", name |-> name, inlined |-> FALSE, decls |-> << >>]
PortLine(decls) == [kind |-> "ports", decls |-> decls]
Endmodule == [kind |-> "endmodule"]
WireLine(d, value) == [kind |-> "wire", decl |-> d, more |-> << >>, value |-> value]
AssignLine(part, value) == [kind |-> "assign", part |-> part, value |-> value]
P(port, net) == [name |-> port, net |-> net]
Array(m, range, pins) == [kind |-> "instance", model |-> m, range |-> range, pins |-> pins]
Inst(m, pins) == Array(m, << >>, pins)
Behaviour == [kind |-> "behavioural"]
Conditional0(kind) == [kind |-> kind, name |-> ""]
Conditional1(kind, name) == [kind |-> kind, name |-> name]

File(start, more, statements) ==
  [start |-> start, size |-> Len(start) + more, statements |-> statements,
   ignored |-> << >>, blackbox |-> FALSE]

X(a, b1) == Inst("X", <<P("p", <<a>>), P("q", <<b1>>)>>)

\* A module with a vector port, and another that uses it.
A(decls) == <<Module("A", decls), X(OneBit("a", "1"), Part("y")), Endmodule>>
Vectors == File(A(<<Slices("a", "1", "0"), Part("y")>>)
                  \o <<Module("T", <<Slices("n", "3", "0"), Part("m")>>)>>, 4,
  {WireLine(Slices("w", "1", "0"), << >>),
   AssignLine(Part("w"), <<Slices("n", "1", "0")>>),
   AssignLine(Part("w"), <<Part("2"), Part("m")>>),
   AssignLine(Slices("n", "2", "1"), <<Part("m"), OneBit("n", "3")>>),
   Inst("A", <<P("a", <<Slices("n", "3", "2")>>), P("y", <<Part("m")>>)>>),
   Inst("A", <<P("y", <<OneBit("w", "1")>>), P("a", <<OneBit("n", "0"), Part("m")>>)>>),
   Inst("A", <<P("a", << >>), P("y", << >>)>>),
   Inst("A", <<P("a", <<Part("w")>>)>>),
   Endmodule})
\* Cells that are used before they are defined, with some or all of their pins.
Before == File(<<Module("T", <<Slices("n", "1", "0"), Part("m")>>)>>, 6,
  {Inst("B", <<P("p", <<Part("n")>>), P("q", <<Part("m")>>)>>),
   Inst("B", <<P("q", <<OneBit("n", "1")>>)>>),
   Inst("B", << >>), [kind |-> "parameters", kv |-> <<"K">>],
   Endmodule, Module("B", <<Part("q"), Slices("p", "1", "0"), Part("r")>>), OldModule("B"),
   PortLine(<<Part("r"), Part("q")>>),
   X(Part("q"), Part("r"))})
\* Cells that are defined again.
Again == File(<<Module("A", <<Part("a"), Part("y")>>), X(Part("a"), Part("y"))>>, 9,
  {Endmodule, Module("A", <<Part("y"), Part("a")>>), Module("T", <<Part("m")>>),
   X(Part("y"), Part("a")),
   Inst("A", <<P("a", <<Part("m")>>)>>)})
\* Arrays of instances.
Arrays == File(<<Module("C", <<Slices("c", "1", "0"), Part("d")>>),
                 X(OneBit("c", "0"), Part("d")), Endmodule,
                 Module("T", <<Slices("n", "3", "0"), Slices("m", "1", "0"), Part("s")>>)>>, 4,
  {Array("C", <<<<"1">>, <<"0">>>>, <<P("c", <<Part("n")>>), P("d", <<Part("m")>>)>>),
   Array("C", <<<<"0">>, <<"1">>>>, <<P("c", <<Part("n")>>), P("d", <<Part("m")>>)>>),
   Array("C", <<<<"1">>, <<"0">>>>, <<P("c", <<Part("m")>>), P("d", <<Part("s")>>)>>),
   Array("C", <<<<"3">>, <<"2">>>>, <<P("c", << >>), P("d", <<Slices("n", "2", "1")>>)>>),
   Array("D", <<<<"1">>, <<"0">>>>, <<P("e", <<Part("n")>>), P("f", <<Part("s")>>)>>),
   Array("D", <<<<"1">>, <<"0">>>>, <<P("f", <<OneBit("n", "3"), OneBit("m", "0")>>)>>),
   Endmodule})
\* Lines that are read only if a name is defined.
Conditions == File(<<Module("T", <<Part("m"), Part("n"), Part("s")>>), X(Part("m"), Part("s"))>>, 5,
  {[kind |-> "define", name |-> "D", value |-> "1"], [kind |-> "undef", name |-> "D"],
   Conditional1("ifdef", "D"), Conditional1("ifndef", "D"), Conditional1("elsif", "LVS"),
   Conditional0("else"), Conditional0("endif"),
   AssignLine(Part("m"), <<Part("n")>>)})
\* What is not structural, classes to be ignored, and included files.
Black == [File(<<Module("A", <<Slices("a", "1", "0"), Part("y")>>)>>, 6,
  {X(OneBit("a", "1"), Part("y")), Behaviour, Endmodule, Module("T", <<Slices("n", "1", "0")>>),
   AssignLine(OneBit("n", "1"), <<Part("1'b0")>>),
   Inst("A", <<P("a", <<Part("n")>>)>>), Inst("I", <<P("p", <<OneBit("n", "0")>>)>>),
   [kind |-> "positional"], [kind |-> "include"], [kind |-> "eof"]})
    EXCEPT !.ignored = [I |-> "shorted"]]
Blackboxes == [Before EXCEPT !.blackbox = TRUE]
\* Bounds: expressions of numbers, a parameter and a definition.
Operands == {"2", "3", "W"}
Opers == {"+", "-", "*", "/"}
Expressions ==
  LET plain == {<<x, o, y, p, z>> : x \in Operands, o \in Opers, y \in Operands, p \in Opers,
                                    z \in Operands}
  IN  {<<x>> : x \in Operands} \cup {<<"@M">>} \cup plain
        \cup {<<"(", e[1], e[2], e[3], ")", e[4], e[5]>> : e \in plain}
        \cup {<<e[1], e[2], "(", e[3], e[4], e[5], ")">> : e \in plain}
        \cup {<<e[1], e[2], "(", e[3], ")", e[4], e[5]>> : e \in plain}
        \cup {<<e[1], e[2], "-", e[3], e[4], e[5]>> : e \in plain}

(* The value of an expression: the last sum, or else the last product, is split *)

RECURSIVE Written(_, _)
Written(e, values) ==
  LET depth(k) == Cardinality({j \in 1..k : e[j] = "("}) - Cardinality({j \in 1..k : e[j] = ")"})
      binary(opers) == {k \in 2..Len(e) : depth(k) = 0 /\ e[k] \in opers
                                          /\ e[k - 1] \notin {"+", "-", "*", "/"}}
      k == Max({0} \cup (IF binary({"+", "-"}) # {} THEN binary({"+", "-"})
                         ELSE binary({"*", "/"})))
      left == Written(SubSeq(e, 1, k - 1), values)
      right == Written(SubSeq(e, k + 1, Len(e)), values)
  IN  IF k # 0
      THEN IF left = << >> \/ right = << >> \/ (e[k] = "/" /\ right = <<0>>) THEN << >>
           ELSE <<Apply(e[k], left[1], right[1])>>
      ELSE IF e[1] = "(" THEN Written(SubSeq(e, 2, Len(e) - 1), values)
      ELSE IF e[1] = "-"
      THEN LET rest == Written(Tail(e), values) IN IF rest = << >> THEN rest ELSE <<-rest[1]>>
      ELSE <<values[e[1]]>>

\* Bounds that are not negative.
IsBound(e) == LET w == Written(e, ("W" :> 4 @@ "@M" :> 3 @@ Numeral))
              IN  w # << >> /\ w[1] >= 0

Bounds == File(<<[kind |-> "parameter", name |-> "W", value |-> "4"],
                 [kind |-> "define", name |-> "M", value |-> "3"], OldModule("T"),
                 X(Part("a"), Part("b"))>>, 1,
  {WireLine([root |-> "w", range |-> <<e, <<"0">>>>], << >>) : e \in {x \in Expressions : IsBound(x)}})

\* Bounds that cannot be evaluated, wires that are ports, and values never set:
\* a vector port of one bit, and a bundle that is shorter than an array.
Careless == File(<<Module("C", <<Slices("c", "1", "1"), Part("d")>>),
                   X(OneBit("c", "1"), Part("d")), Endmodule,
                   Module("T", <<Slices("n", "1", "0"), Part("m")>>)>>, 3,
  {WireLine([root |-> "w", range |-> <<<<"-", "1">>, <<"0">>>>], << >>),
   WireLine([root |-> "w", range |-> <<<<"1", "<<", "2">>, <<"3", ">>", "1">>>>], << >>),
   WireLine(Part("n"), <<Part("m")>>), WireLine(Part("m"), <<OneBit("n", "1")>>),
   Inst("C", <<P("c", <<Part("n")>>), P("d", << >>)>>),
   Inst("E", <<P("c", <<Slices("n", "1", "+")>>)>>),
   Array("C", <<<<"2">>, <<"0">>>>, <<P("d", <<OneBit("n", "1"), OneBit("n", "0")>>)>>),
   Array("E", <<<<"1">>, <<"-", "0">>>>, << >>),
   Endmodule, Module("E", <<Part("d"), [root |-> "c", range |-> <<<<"-", "1">>, <<"0">>>>]>>)})

\* A loop over three values.
Loops == File(
  <<Module("T", <<Slices("n", "3", "0"), Part("s")>>),
    [kind |-> "for", var |-> "i", from |-> <<"0">>, oper |-> "<", limit |-> <<"3">>]>>, 3,
  {Inst("X", <<P("p", <<OneBit("n", "i")>>), P("q", <<Part("s")>>)>>),
   [kind |-> "end"], Endmodule})

MCFiles == [vectors |-> Vectors, before |-> Before, again |-> Again, arrays |-> Arrays,
            conditions |-> Conditions, black |-> Black, blackboxes |-> Blackboxes,
            bounds |-> Bounds, careless |-> Careless, loops |-> Loops]
MCNumbers == <<"1", "2", "3", "4", "5", "6", "7", "8", "9", "10", "11", "12">>

LoopFiles == [loops |-> Loops]

-----------------------------------------------------------------------------
(* What the text says *)

Lines == DOMAIN text
Is(i, kind) == text[i].kind = kind

\* Before line i: the names that are defined, and for each open conditional
\* whether one of its sections has been read and whether this one is.  A text
\* is irregular after a section behind else, and after an elsif behind a section
\* that was read, which the reader may read as well.
Scope(i) ==
  LET step(s, k) ==
        LET l == text[k]
            isRead == \A c \in ToSet(s.open) : c.isOn
            top == Head(s.open)
            new(isOn) == <<[isDone |-> isOn, isOn |-> isOn, isLast |-> FALSE]>> \o s.open
        IN  CASE l.kind = "ifdef" -> [s EXCEPT !.open = new(l.name \in s.names)]
              [] l.kind = "ifndef" -> [s EXCEPT !.open = new(l.name \notin s.names)]
              [] l.kind = "elsif" ->
                   [s EXCEPT !.open[1] = [isDone |-> TRUE, isOn |-> l.name \in s.names,
                                          isLast |-> FALSE],
                             !.isRegular = @ /\ ~top.isLast /\ ~top.isDone]
              [] l.kind = "else" ->
                   [s EXCEPT !.open[1] = [isDone |-> TRUE, isOn |-> ~top.isDone, isLast |-> TRUE],
                             !.isRegular = @ /\ ~top.isLast]
              [] l.kind = "endif" -> [s EXCEPT !.open = Tail(@)]
              [] l.kind = "define" /\ isRead -> [s EXCEPT !.names = @ \cup {l.name}]
              [] l.kind = "undef" /\ isRead -> [s EXCEPT !.names = @ \ {l.name}]
              [] OTHER -> s
  IN  FoldLeft(step, [names |-> {"LVS"}, open |-> << >>, isRegular |-> TRUE],
               [k \in 1..(i - 1) |-> k])

IsRead(i) == \A c \in ToSet(Scope(i).open) : c.isOn

\* What is not structural, up to the end of its module, is not read.
IsBlackLine(i) ==
  Is(i, "behavioural") \/ (Is(i, "assign") /\ text[i].value = <<Part("1'b0")>>)
Live ==
  LET on == {i \in Lines : IsRead(i)}
  IN  {i \in on : \A j \in on : j < i /\ IsBlackLine(j) =>
                    \E k \in on : k \in j..i /\ text[k].kind \in {"endmodule", "eof"}}

(* Modules; live is the set of lines that are read *)

ModuleLines(live) == {i \in live : Is(i, "module")}
Body(d, live) ==
  {i \in live : i > d /\ \A k \in live : k \in (d + 1)..i => text[k].kind \notin {"module", "endmodule"}}
InstanceLines(d, live) == {i \in Body(d, live) : Is(i, "instance")}
IsBlackBox(d, live) ==
  InstanceLines(d, live) = {} \/ \E i \in Body(d, live) : IsBlackLine(i)

\* The last definition of a name before it is used, or else the first behind.
InForce(i, live) ==
  LET defined == {d \in ModuleLines(live) : text[d].name = text[i].model}
      before == {d \in defined : d < i}
  IN  IF before # {} THEN Max(before) ELSE Min(defined \cup {Len(text) + 1})
IsDefined(i, live) == InForce(i, live) \in Lines
IsEnded(d, live) ==
  \E k \in live : k > d /\ Is(k, "endmodule")
                    /\ \A j \in live : j \in (d + 1)..k => text[j].kind \notin {"module", "eof"}

(* Bits *)

Values == "W" :> 4 @@ "@M" :> 3 @@ Numeral
RangeIndices(range) ==
  Indices(Bus(Written(range[1], Values)[1], Written(range[Len(range)], Values)[1]))

Declarations(i) ==
  CASE Is(i, "module") \/ Is(i, "ports") -> text[i].decls
    [] Is(i, "wire") -> <<text[i].decl>>
    [] OTHER -> << >>

\* The declarations of a module up to line i, the last first.
DeclaredBefore(d, i, live) ==
  FlattenSeq([k \in 1..Len(text) |->
    LET l == Len(text) + 1 - k
    IN  IF l <= i /\ l \in {d} \cup Body(d, live) THEN Declarations(l) ELSE << >>])

NamesOf(part, declared) ==
  LET k == SelectInSeq(declared, LAMBDA p : p.root = part.root)
      range == IF part.range = << >> /\ k # 0 THEN declared[k].range ELSE part.range
      indices == RangeIndices(range)
  IN  IF range = << >> THEN <<part.root>>
      ELSE [n \in DOMAIN indices |-> Bit(part.root, indices[n])]

\* A number repeats the part behind it.
NetNames(net, declared) ==
  FlattenSeq([k \in DOMAIN net |->
    IF net[k].root \in DOMAIN Numeral THEN << >>
    ELSE IF k > 1 /\ net[k - 1].root \in DOMAIN Numeral
    THEN FlattenSeq([n \in 1..Numeral[net[k - 1].root] |-> NamesOf(net[k], declared)])
    ELSE NamesOf(net[k], declared)])

(* Pins *)

InstanceNames(i) ==
  LET indices == RangeIndices(text[i].range)
      name == "u" \o Numbers[i]
  IN  IF text[i].range = << >> THEN <<name>>
      ELSE [n \in DOMAIN indices |-> Bit(name, indices[n])]

\* The width of a port of a cell that is not defined is that of the net on it, or its
\* share for each element of an array.
WidthOn(width, n) == IF width % n = 0 THEN width \div n ELSE width

FirstUse(i, live) ==
  Min({j \in live : Is(j, "instance") /\ text[j].model = text[i].model})

PortNamesOf(port, n, i, live) ==
  IF IsDefined(i, live)
  THEN NamesOf(Part(port), DeclaredBefore(InForce(i, live), Len(text), live))
  ELSE IF n = 1 THEN <<port>> ELSE [k \in 1..n |-> Bit(port, n - k)]

(* What the lines of a module connect: names with nets, either as many or, for the *)
(* pins of an array, the same nets for each element                               *)

PinsOf(instances, ports) ==
  FlattenSeq([e \in DOMAIN instances |->
                [k \in DOMAIN ports |-> <<instances[e], ports[k]>>]])

Assignment(part, value, declared) ==
  LET names == NamesOf(part, declared)
  IN  [names |-> [k \in DOMAIN names |-> Net(names[k])],
       nets |-> NetNames(value, declared), times |-> 1]

Connected(p, nets, instances, i, live) ==
  LET ports == PortNamesOf(p.name, WidthOn(Len(nets), Len(instances)), i, live)
  IN  [names |-> PinsOf(instances, ports), nets |-> nets, times |-> Len(instances)]

Joins(i, declared, live) ==
  CASE text[i].kind \in {"wire", "assign"} /\ text[i].value # << >> ->
         {Assignment(IF Is(i, "wire") THEN text[i].decl ELSE text[i].part, text[i].value, declared)}
    [] Is(i, "instance") ->
         {Connected(p, NetNames(p.net, declared), InstanceNames(i), i, live) :
            p \in {q \in ToSet(text[i].pins) : q.net # << >>}}
    [] OTHER -> {}

Pairs(j) ==
  {<<j.names[k], Net(j.nets[1 + ((k - 1) % Len(j.nets))])>> : k \in DOMAIN j.names}

\* Both sides have as many bits, pins are those of ports, and where a cell is used
\* before it is defined, its first instance has all of its vectors.
IsRegularPin(p, i, live) ==
  /\ IsDefined(i, live) =>
       \E q \in ToSet(DeclaredBefore(InForce(i, live), Len(text), live)) : q.root = p.name
  /\ InForce(i, live) > i =>
       \E q \in ToSet(text[FirstUse(i, live)].pins) : q.name = p.name /\ q.net # << >>

IsRegular(live, joins) ==
  /\ Scope(Len(text) + 1).isRegular
  /\ ~Files[file].blackbox /\ file # "careless" /\ \A i \in live : ~Is(i, "for")
  /\ \A i \in live : Is(i, "instance") =>
       /\ IsIgnored(text[i].model) = "no"
       /\ \A p \in ToSet(text[i].pins) : p.net # << >> => IsRegularPin(p, i, live)
  /\ \A j \in joins : Len(j.names) \in {Len(j.nets), j.times * Len(j.nets)}

(* Cells *)

\* The cell with the instances of line i.
CellsWith(i) ==
  {c \in DOMAIN b.cells :
     ToSet(InstanceNames(i)) \subseteq {o.name[1] : o \in ToSet(b.cells[c].objs)}}

\* The nets of a cell: sets of names, without those of nets for unconnected pins.
Unconnected ==
  {Net(NoConnect(n)) : n \in 1..20} \cup {Net(Bit(NoConnect(n), i)) : n \in 1..20, i \in 0..3}

NetsOf(cell) ==
  LET objs == {o \in ToSet(b.cells[cell].objs) : o.type # PROPERTY /\ o.name \notin Unconnected}
      on(n) == {o.name : o \in {p \in objs : p.node = n}}
  IN  {on(o.node) : o \in {p \in objs : p.node # None}}
        \cup {{o.name} : o \in {p \in objs : p.node = None}}

NetsWritten(pairs, names) ==
  FoldSet(LAMBDA pair, nets :
             LET met == {n \in nets : pair[1] \in n \/ pair[2] \in n}
             IN  (nets \ met) \cup {UNION met},
          {{n} : n \in names}, pairs)

\* The instances of a line are in this cell alone, and of the definition in force.
IsMade(i, cell, live) ==
  LET f == InForce(i, live)
      objs == {o \in ToSet(b.cells[cell].objs) : o.name[1] \in ToSet(InstanceNames(i))}
  IN  /\ CellsWith(i) = {cell}
      /\ f \in Lines /\ ~IsBlackBox(f, live) /\ IsEnded(f, live) =>
           \A j \in InstanceLines(f, live) : {o.model : o \in objs} = CellsWith(j)

\* declared, wired: the nets of all declarations, and of those of wires.
HasNets(nets, pairs, declared, wired, made) ==
  LET used == UNION {ToSet(p) : p \in pairs}
  IN  /\ wired \cup used \subseteq UNION nets
      /\ made \subseteq declared \cup used \cup Unconnected
      /\ nets = NetsWritten(pairs, UNION nets)

NetNamesOf(decls) == {Net(n) : n \in UNION {ToSet(NamesOf(p, << >>)) : p \in decls}}

AsWritten(d, pairs, live) ==
  LET lines == InstanceLines(d, live)
      cell == CHOOSE c \in DOMAIN b.cells : \E i \in lines : c \in CellsWith(i)
  IN  /\ \A i \in lines : IsMade(i, cell, live)
      /\ HasNets(NetsOf(cell), pairs,
                 NetNamesOf(ToSet(DeclaredBefore(d, Len(text), live))),
                 NetNamesOf({text[i].decl : i \in {l \in Body(d, live) : Is(l, "wire")}}),
                 {o.name : o \in {p \in ToSet(b.cells[cell].objs) : p.type = NODE}})

JoinsIn(d, live) == UNION {Joins(i, DeclaredBefore(d, i, live), live) : i \in Body(d, live)}

ReadAsWritten(live, joins) ==
  IsRegular(live, UNION {joins[d] : d \in DOMAIN joins}) =>
    \A d \in DOMAIN joins :
      IsBlackBox(d, live) \/ AsWritten(d, UNION {Pairs(j) : j \in joins[d]}, live)

\* When a file has been read, the nets of every module, as sets of the names of its
\* wires, ports and pins, are those that its text connects, and no others: vectors
\* and bundles bit by bit, pins by the names of the ports, repeated parts, arrays
\* with their share of the bits, lines in sections that are read, and wires of
\* exactly the bits between their bounds; and each instance is one of the
\* definition in force at its line, whatever was defined again or used before it
\* was defined in the meantime.
NetsAsWritten ==
  reading = "done" => \A live \in {Live} :
    ReadAsWritten(live, [d \in ModuleLines(live) |-> JoinsIn(d, live)])

\* A proxy has the name of its pin behind "proxy", which may be one already.
SameName(x, y) ==
  LET prefixes == {"", "proxy", "proxyproxy", "proxyproxyproxy"}
  IN  \E p \in prefixes : x = p \o y \/ y = p \o x

\* At every step each instance has the pins of its cell, in the order of the ports
\* and with their names (or those of proxies): while a placeholder gets ports with
\* later uses, when its definition replaces it with ports of another order, number
\* or width, when a name is defined again, and for what is not structural.
PinsFollowPorts ==
  \A c \in DOMAIN b.cells :
    LET objs == b.cells[c].objs
        pin(k, n, name) ==
          /\ objs[k + n - 1].type = n /\ objs[k + n - 1].model = objs[k].model
          /\ objs[k + n - 1].name[1] = objs[k].name[1]
          /\ SameName(objs[k + n - 1].name[2], name)
    IN  \A k \in DOMAIN objs :
          objs[k].type = FIRSTPIN =>
            LET ports == PortNames(b, objs[k].model)
                next == k + Len(ports)
            IN  /\ next - 1 <= Len(objs)
                /\ \A n \in DOMAIN ports : pin(k, n, ports[n])
                /\ next \in DOMAIN objs => objs[next].type <= FIRSTPIN

\* A loop is read once for each of its values: every bit of n with the number of
\* a value is on a pin of the instance made for it.
LoopsUnrolled ==
  reading = "done" =>
    \A i, e \in Lines :
      Is(i, "instance") /\ Is(e, "end") /\ i < e /\ (\A j \in 1..i : ~Is(j, "end")) =>
        \A v \in 0..2 : \E c \in DOMAIN b.cells : \E o, p \in ToSet(b.cells[c].objs) :
          o.name = Net(Bit("n", v)) /\ p.type >= FIRSTPIN /\ o.node # None /\ p.node = o.node
=============================================================================
