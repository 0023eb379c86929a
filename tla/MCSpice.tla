-------------------------------- MODULE MCSpice -------------------------------
(***************************************************************************)
(* Small SPICE files, read line by line, and what their text says.          *)
(*                                                                          *)
(* The reference works on the text alone: which subcircuit a line is in,    *)
(* which definition an instance refers to, and which of the names in a      *)
(* subcircuit are the same net.  Bounds: MaxLines lines from an alphabet of *)
(* at most six lines for each file; subcircuits of at most two ports.       *)
(***************************************************************************)
EXTENDS SpiceReader

Subckt(name, ports) == [kind |-> "subckt", name |-> name, ports |-> ports]
Ends == [kind |-> "ends"]
X(m, nets) == [kind |-> "x", model |-> m, nets |-> nets]
Line(letter, m, nets, kv) ==
  [kind |-> "device", letter |-> letter, model |-> m, nets |-> nets, kv |-> kv]
D(m, nets, kv) == Line("M", m, nets, kv)
GlobalLine(g) == [kind |-> "global", name |-> g]

ModelLine(m) == [kind |-> "model", name |-> m]
IncludeLine == [kind |-> "include"]
Eof == [kind |-> "eof"]

File(lines) ==
  [lines |-> lines, ignored |-> << >>, garbage |-> {NoCell}, library |-> TRUE]

\* A subcircuit that is defined again, and used before, between and after.
Again == File({Subckt("A", <<"p", "q">>), Ends, D("r", <<"p", "q">>, <<"w">>),
               X("A", <<"p", "n">>)})
\* Subcircuits whose ports are shorted by a name or in a subcircuit below.
ShortedPorts == File({Subckt("A", <<"p", "p">>), Subckt("B", <<"p", "q">>), Ends,
                      D("r", <<"p", "q">>, << >>), X("A", <<"p", "q">>),
                      X("B", <<"q", "p">>)})
\* Global nets.
Supplies == File({GlobalLine("g"), Subckt("A", <<"p">>), Subckt("B", <<"g">>), Ends,
                  D("r", <<"g", "p">>, << >>), X("A", <<"p">>)})
\* Subcircuits without ports; instances with too few or too many nets.
OddCalls == File({Subckt("A", << >>), Subckt("A", <<"p", "q">>), Ends,
                  Line("V", "v", <<"p", "q">>, << >>), X("A", <<"q">>), X("A", <<"p", "q", "n">>)})
\* Ignored classes, and a buffer that happens to hold a name.
Ignoring == [lines |-> {Subckt("A", <<"p", "q">>), Ends, D("r", <<"p", "q">>, <<"w">>),
                        D("r", <<"p", "p">>, << >>), X("A", <<"p", "q">>),
                        X("B", <<"p", "q">>)},
             ignored |-> [A |-> "class", r |-> "shorted"],
             garbage |-> {NoCell, Named("B")}, library |-> TRUE]
\* A library is included.
WithLibrary == File({IncludeLine, Eof, Subckt("A", <<"p", "q">>), Ends, ModelLine("r"),
                     X("A", <<"p", "p">>)})
MCFiles == [again |-> Again, shorted |-> ShortedPorts, supplies |-> Supplies,
            odd |-> OddCalls, ignoring |-> Ignoring, library |-> WithLibrary]
MCNumbers == <<"1", "2", "3", "4", "5", "6", "7">>

-----------------------------------------------------------------------------
(* What the text says *)

Lines == DOMAIN text
Is(i, kind) == text[i].kind = kind

\* The subcircuits, by the lines that open them, that are open before line i.
OpenBefore(i) ==
  LET step(s, k) == IF Is(k, "subckt") THEN <<k>> \o s
                    ELSE IF Is(k, "ends") THEN Tail(s) ELSE s
  IN  FoldLeft(step, << >>, [k \in 1..(i - 1) |-> k])
Owner(i) == Head(OpenBefore(i) \o <<0>>)

SubcktLines == {i \in Lines : Is(i, "subckt")}
SameName(d, e) == text[d].name = text[e].name

\* The cell made of the subcircuit at line d; 0 stands for the file.
CellOf(d) ==
  IF d = 0 THEN Top
  ELSE IF \E e \in SubcktLines : e > d /\ SameName(d, e)
  THEN <<text[d].name, Cardinality({e \in SubcktLines : e < d /\ SameName(d, e)})>>
  ELSE Named(text[d].name)

PortsOf(d) == IF text[d].ports = << >> THEN <<NoPins>> ELSE text[d].ports

\* The line that stopped the reader made nothing.
Read(i) == reading \in {"fatal", "ignored"} => i < Len(text)

Ignored(i) ==
  /\ Is(i, "device")
  /\ \/ IsIgnored(text[i].model) = "class"
     \/ IsIgnored(text[i].model) = "shorted" /\ text[i].nets[1] = text[i].nets[2]

\* The lines that make instances in the cell of d.
InstancesIn(d) ==
  {i \in Lines : text[i].kind \in {"x", "device"} /\ Owner(i) = d /\ Read(i)
                 /\ ~Ignored(i)}

\* An instance is of the last definition before it, or else of the next one.
Before(i) == {d \in SubcktLines : d < i /\ text[d].name = text[i].model}
After(i) == {d \in SubcktLines : d > i /\ text[d].name = text[i].model}
Definition(i) == IF Before(i) # {} THEN Max(Before(i))
                 ELSE IF After(i) # {} THEN Min(After(i)) ELSE 0

\* The number of pins of an instance: as many as the definition before it has
\* ports, or, if there is none, as the first line that used the name has nets.
Pins(i) ==
  IF Before(i) # {} THEN Len(PortsOf(Definition(i)))
  ELSE LET uses == {j \in Lines : text[j].kind = text[i].kind /\ text[j].model = text[i].model}
       IN  Len(text[Min(uses)].nets)

\* The nets of the cell of d that are connected to something.
Nets(d) == UNION {ToSet(SubSeq(text[i].nets, 1, Min({Pins(i), Len(text[i].nets)}))) :
                    i \in InstancesIn(d)}

\* Names that are one net in the cell of d: those at ports of an instance that
\* are one net in its cell, as far as this is defined before.
Connections[d \in 0..MaxLines] ==
  LET pairs(i) ==
        IF ~Is(i, "x") \/ Before(i) = {} THEN {}
        ELSE {<<text[i].nets[x[1]], text[i].nets[x[2]]>> :
                x \in {jk \in (DOMAIN text[i].nets) \X (DOMAIN text[i].nets) :
                  LET ports == PortsOf(Definition(i))
                  IN  /\ {jk[1], jk[2]} \subseteq DOMAIN ports
                      /\ <<ports[jk[1]], ports[jk[2]]>> \in Connections[Definition(i)]}}
      nets == Nets(d) \cup (IF d = 0 THEN {} ELSE ToSet(PortsOf(d)))
      given == {<<n, n>> : n \in nets} \cup UNION {pairs(i) : i \in InstancesIn(d)}
      closed(R, n) ==
        R \cup {<<x[1][1], x[2][2]>> : x \in {ef \in R \X R : ef[1][2] = n /\ ef[2][1] = n}}
  IN  FoldLeft(closed, given \cup {<<e[2], e[1]>> : e \in given}, SetToSeq(nets))

MadeCells == {d \in SubcktLines \cup {0} : LookupCell(b, CellOf(d))}
ObjectsOf(d) == b.cells[CellOf(d)].objs
NodesOfNet(d, n) ==
  {ObjectsOf(d)[k].node : k \in {j \in DOMAIN ObjectsOf(d) :
     ObjectsOf(d)[j].type # PROPERTY /\ ObjectsOf(d)[j].name = Net(n)}} \ {None}
\* The pins of line i: those from the first pin of as many instances.
PinsOf(d, i) ==
  LET objs == ObjectsOf(d)
      firsts == {k \in DOMAIN objs : objs[k].type = FIRSTPIN}
      earlier(k) == Cardinality({j \in firsts : j < k})
      number == Cardinality({j \in InstancesIn(d) : j < i})
      first == CHOOSE k \in firsts : earlier(k) = number
      next == {k \in DOMAIN objs : k > first /\ objs[k].type <= FIRSTPIN}
  IN  SubSeq(objs, first, Min(next \cup {Len(objs) + 1}) - 1)
Ended(d) == d # 0 /\ d \notin ToSet(OpenBefore(Len(text) + 1))

-----------------------------------------------------------------------------
(* Properties *)

\* The cells are well formed at every line: the pins of an instance stand
\* together, with the numbers of the ports of its cell, and no number is given
\* to two nets because the cell was left for another (ReopenCellDef).
TypeOK ==
  /\ file \in DOMAIN Files /\ update \in BOOLEAN
  /\ reading \in {"yes", "done", "fatal", "ignored"}
  /\ reading = "yes" => b.cur = Head(stack \o <<NoCell>>)
  /\ b.cur # NoCell => b.next > Highest(Objs(b))
  /\ \A c \in DOMAIN b.cells :
       LET objs == b.cells[c].objs
       IN  \A k \in DOMAIN objs :
             /\ objs[k].node \in Int
             /\ objs[k].type > FIRSTPIN =>
                  /\ objs[k - 1].type = objs[k].type - 1
                  /\ objs[k - 1].name[1] = objs[k].name[1]
             /\ objs[k].type >= FIRSTPIN => objs[k].model \in DOMAIN b.cells

\* The reader keeps the nets of the text (MembersKept): in every cell, two names have the
\* same node exactly if the text connects them, through the shorted ports of an
\* instance if need be, whatever was read in between (join, Instance).
MembersKept ==
  \A d \in MadeCells : \A m, n \in Nets(d) :
    /\ NodesOfNet(d, m) # {}
    /\ NodesOfNet(d, m) = NodesOfNet(d, n) <=> <<m, n>> \in Connections[d]

\* Ports of one name are on one net when the subcircuit has ended
\* (CleanupSubcell).
PortsConnected ==
  \A d \in MadeCells : Ended(d) =>
    \A j, k \in DOMAIN PortsOf(d) :
      PortsOf(d)[j] = PortsOf(d)[k] => ObjectsOf(d)[j].node = ObjectsOf(d)[k].node

\* The nets of the text, and those of ports of one name.
NetsKept == MembersKept /\ PortsConnected

\* When the file has been read, each instance is of the definition that holds
\* at its line, its pins have the names of the ports of that definition, and
\* are connected in their order; also when the definition came later, or when
\* the name was defined again (.SUBCKT, InstanceRename, renamepins).
InstancesResolved ==
  reading = "done" =>
    \A d \in MadeCells : \A i \in InstancesIn(d) :
      LET pins == PinsOf(d, i)
          ports == PortsOf(Definition(i))
      IN  /\ Len(pins) = Pins(i)
          /\ \A k \in DOMAIN pins :
               /\ pins[k].type = k
               /\ pins[k].model = IF Definition(i) = 0 THEN Named(text[i].model)
                                  ELSE CellOf(Definition(i))
               /\ pins[k].name[2] = IF Definition(i) = 0 \/ k \notin DOMAIN ports
                                    THEN Numbers[k] ELSE ports[k]
          /\ \A k \in DOMAIN pins \cap DOMAIN text[i].nets :
               (\A j \in DOMAIN pins : j > k => pins[j].name # pins[k].name) =>
                  {pins[k].node} = NodesOfNet(d, text[i].nets[k])

\* A net declared global before it is used is global in every subcircuit that
\* is opened inside of that cell afterwards, unless it is a port there
\* (.SUBCKT, Global, Instance).
GlobalsInherited ==
  \A i \in Lines : \A d \in MadeCells \ {0} :
    /\ Is(i, "global") /\ d > i
    /\ Owner(i) \in ToSet(OpenBefore(d)) \cup {0}
    /\ \A j \in 1..(i - 1) :
         ~(text[j].kind \in {"device", "x"} /\ text[i].name \in ToSet(text[j].nets))
    /\ \A e \in (ToSet(OpenBefore(d)) \cup {d}) \ {0} :
         text[i].name \notin ToSet(PortsOf(e))
    => \A k \in DOMAIN ObjectsOf(d) :
         ObjectsOf(d)[k].name = Net(text[i].name) => ObjectsOf(d)[k].type = GLOBAL
=============================================================================
