------------------------------- MODULE PinMatch -------------------------------
(***************************************************************************)
(* MatchPins (base/netcmp.c), as "equate pins" calls it: the ports of two   *)
(* cells that were found to match are brought into one order, pins without  *)
(* a counterpart get a proxy in the other cell or are removed, and all      *)
(* instances of the two cells follow.  The cells of both files are in one   *)
(* database, each named <<name, file>>.                                     *)
(*                                                                          *)
(* While a pair is matched, a port is <<name, node, number, type>>: the     *)
(* number is its place among the ports of cell 1 (model.port), and the type *)
(* is UNKNOWN for a proxy that the instances do not have yet.               *)
(***************************************************************************)
EXTENDS PortEdits

CONSTANT NodeClasses(_, _, _)  \* what comparing two cells has found: for a file, its
                               \* cells and a name, <<nodes, nodes>> of each class

VARIABLES todo,   \* the pairs of cells that are still to be compared
          result  \* of the last one

vars == <<databaseVars, todo, result>>

Unset == 0
Name(o) == o[1]
Node(o) == o[2]
Number(o) == o[3]
Port(o) == <<Name(o), Node(o), Unset, "PORT">>
IsPort(o) == o[4] = "PORT"
Proxy(o, number) == <<<<"proxy">> \o Name(o), None, number, "UNKNOWN">>

(***************************************************************************)
(* Pins on matching nets                                                    *)
(***************************************************************************)
\* Nodes of both cells in one class, paired as they are listed.
NetPairs(classes) ==
  FlattenSeq([x \in DOMAIN classes |->
                [a \in DOMAIN classes[x][1] |->
                   <<classes[x][1][a], IF a \in DOMAIN classes[x][2]
                                       THEN classes[x][2][a] ELSE 0>>]])

On(ports, node) == {k \in DOMAIN ports : Node(ports[k]) = node}

\* Left on a net that flattening has emptied.
Disconnected(cell, o) ==
  cell.insts # << >> /\ Node(o) \notin PinNodes(cell.insts)

\* Mutant: another name on the same net is taken without a word.
MatchNetOnly(m, pair) ==
  LET i == Min(On(m.p1, pair[1]))
      same == {k \in On(m.p2, pair[2]) : Name(m.p2[k]) = Name(m.p1[i])}
      k == Min(IF same = {} THEN On(m.p2, pair[2]) ELSE same)
  IN  IF m.ended \/ On(m.p1, pair[1]) = {} \/ On(m.p2, pair[2]) = {} THEN m
      ELSE [m EXCEPT !.p2[k][3] = i, !.cover = @ \cup {i}]

\* The first port on the net of cell 1 takes a port on that of cell 2, by
\* preference the one of its name.  Without any there it may be orphaned: not so
\* in a comparison, whose nets all have pins (the search by name would then look
\* for a counterpart of the node Orphaned in front of its array).
MatchNet(m, pair) ==
  LET i == Min(On(m.p1, pair[1]))
      same == {k \in On(m.p2, pair[2]) : Name(m.p2[k]) = Name(m.p1[i])}
      k == IF same = {} THEN Min(On(m.p2, pair[2])) ELSE Min(same)
  IN  IF m.ended \/ On(m.p1, pair[1]) = {} THEN m
      ELSE IF pair[2] = 0 THEN [m EXCEPT !.ended = TRUE]
      ELSE IF On(m.p2, pair[2]) = {}
      THEN [m EXCEPT !.result = 0,
                     !.p1[i][2] = IF Disconnected(m.cell1, m.p1[i]) THEN Orphaned ELSE @]
      ELSE [m EXCEPT !.p2[k][3] = i, !.cover = @ \cup {i},
                     !.result = IF same = {} THEN 0 ELSE @]

(***************************************************************************)
(* Pins of one name                                                         *)
(***************************************************************************)
\* A proxy has the name of an unconnected pin.
Bare(o, other) ==
  IF Head(Name(o)) = "proxy" /\ Node(other) = None THEN Tail(Name(o)) ELSE Name(o)
SameName(o1, o2) == Bare(o1, o2) = Bare(o2, o1)

OnlyPorts(cell, node) == node \notin PinNodes(cell.insts) \cup NodesOf(cell.globals)

\* Both pins are on the net of the pin they may be exchanged with.
Exchangeable(m, o1, o2) ==
  \E p \in m.permutes :
    LET shorted(ports, node) == \A x \in p : \E o \in ToSet(ports) : o[1] = x /\ o[2] = node
    IN  /\ {Name(o1), Name(o2)} \subseteq p
        /\ shorted(m.p1, Node(o1)) /\ shorted(m.p2, Node(o2))

\* Mutant: pins of one name are taken on whatever nets they are.
ByNameAlone(m, i, k) == IF SameName(m.p1[i], m.p2[k]) THEN "take" ELSE "next"

\* What happens when pin i of cell 1 finds pin k of cell 2: it is taken, or the
\* search goes on, or it stops as the net of pin i has become that of another.
Outcome(m, i, k) ==
  LET o1 == m.p1[i]
      o2 == m.p2[k]
      bare == OnlyPorts(m.cell1, Node(o1)) /\ OnlyPorts(m.cell2, Node(o2))
      taken == {n[2] : n \in {x \in m.correspond : x[1] = Node(o1)}}
  IN  CASE ~SameName(o1, o2) -> "next"
        [] m.byname \/ (Node(o1) = None /\ Node(o2) = None) -> "take"
        [] None \in {Node(o1), Node(o2)} -> "next"
        [] ~bare /\ ~Exchangeable(m, o1, o2) -> "next"
        [] ~(taken \subseteq {Node(o2)}) -> "stop"
        [] OTHER -> IF bare THEN "join" ELSE "take"

MatchName(m, i) ==
  LET found == {k \in DOMAIN m.p2 : Outcome(m, i, k) # "next"}
      k == Min(found)
      joined == IF Outcome(m, i, k) = "join"
                THEN {<<Node(m.p1[i]), Node(m.p2[k])>>} ELSE {}
  IN  IF i \in m.cover \/ found = {} THEN m
      ELSE IF Outcome(m, i, k) = "stop" THEN m
      ELSE [m EXCEPT !.p2[k][3] = i, !.cover = @ \cup {i}, !.correspond = @ \cup joined]

(***************************************************************************)
(* Pins without a counterpart                                               *)
(***************************************************************************)
\* A proxy goes behind the last port, unless this is the first object.
AddProxy(ports, last, o) ==
  IF last <= 1 THEN <<o>> \o ports ELSE Append(ports, o)

\* A pin of cell 2 is removed, or gets a number behind those of cell 1 and a
\* proxy there.
Unmatched2(m, k) ==
  LET o == m.p2[k]
  IN  IF Number(o) # Unset THEN m
      ELSE IF Disconnected(m.cell2, o)
      THEN [m EXCEPT !.p2[k][2] = Orphaned, !.result = IF m.top THEN 0 ELSE @]
      ELSE [m EXCEPT !.p2[k][3] = m.next, !.next = @ + 1,
                     !.p1 = AddProxy(@, m.n1, Proxy(o, Unset)),
                     !.result = IF m.cell2.insts # << >> THEN 0 ELSE @]

\* The numbers above a removed pin move down, up to the first that is no port.
Lowered(ports, number) ==
  LET end == Min({k \in DOMAIN ports : ~IsPort(ports[k])} \cup {Len(ports) + 1})
  IN  [k \in DOMAIN ports |->
         IF k < end /\ Number(ports[k]) > number
         THEN [ports[k] EXCEPT ![3] = @ - 1] ELSE ports[k]]

\* A pin of cell 1 gets a proxy in cell 2, or is removed if nothing is on its net.
\* It is looked up by its place, where a proxy may be by now.
Unmatched1(m, i) ==
  LET o == m.p1[i]
      behind == {Node(m.p1[k]) : k \in (i + 1)..Len(m.p1)}
                  \cup PinNodes(m.cell1.insts) \cup NodesOf(m.cell1.globals)
      node == IF Node(o) < 0 \/ Node(o) \in behind THEN Node(o) ELSE None
  IN  IF i \in m.cover THEN m
      ELSE IF ~IsPort(o) \/ node >= 0 \/ m.module
      THEN [m EXCEPT !.p1[i][2] = node,
                     !.p2 = AddProxy(@, m.n2, Proxy(o, i - m.gone))]
      ELSE [m EXCEPT !.p1[i][2] = Orphaned, !.p2 = Lowered(@, i - m.gone),
                     !.gone = @ + 1]

Indices(n) == [k \in 1..n |-> k]

Matched(cs, n, classes, top, kind) ==
  LET fresh(ports) == FoldLeft(LAMBDA s, o : Append(s, Port(o)), << >>, ports)
      p1 == fresh(cs[<<n, 1>>].ports)
      p2 == fresh(cs[<<n, 2>>].ports)
      start == [cell1 |-> cs[<<n, 1>>], cell2 |-> cs[<<n, 2>>], p1 |-> p1, p2 |-> p2,
                n1 |-> Len(p1), n2 |-> Len(p2), cover |-> {}, correspond |-> {},
                byname |-> classes = << >>, top |-> top, module |-> kind.module,
                permutes |-> kind.permutes, next |-> Len(p1) + 1, gone |-> 0,
                result |-> 1, ended |-> FALSE]
      nets == FoldLeft(MatchNet, start, NetPairs(classes))
      names == FoldLeft(MatchName, nets, Indices(Len(p1)))
      proxies1 == FoldLeft(Unmatched2, names, Indices(Len(p2)))
  IN  IF nets.ended THEN nets ELSE FoldLeft(Unmatched1, proxies1, Indices(Len(p1)))

(***************************************************************************)
(* The instances follow                                                     *)
(***************************************************************************)
\* Mutant: the pins are taken from where they should go.
MovedBack(cell, model, ports) ==
  [cell EXCEPT !.insts = [i \in DOMAIN @ |->
     IF @[i].model = model
     THEN [@[i] EXCEPT !.pins = [q \in DOMAIN @ |-> IF q \in DOMAIN ports THEN @[Number(ports[q])] ELSE @[q]]]
     ELSE @[i]]]

\* A pin on a new net for each proxy, at its place among the ports.
addproxies(cell, model, ports) ==
  LET freenode(c) == Max(NodesOf(c.ports) \cup PinNodes(c.insts)) + 1
      widen(c, i) ==
        FoldLeft(LAMBDA d, k :
                   IF IsPort(ports[k]) THEN d
                   ELSE [d EXCEPT !.insts[i].pins = InsertAt(@, k, freenode(d))],
                 c, Indices(Len(ports)))
  IN  FoldLeft(LAMBDA c, i : IF c.insts[i].model = model THEN widen(c, i) ELSE c,
               cell, Indices(Len(cell.insts)))

\* A port without a number is given that of its place.
Ordered(ports) ==
  [k \in DOMAIN ports |->
     IF Number(ports[k]) = Unset THEN <<ports[k][1], ports[k][2], k, "PORT">> ELSE ports[k]]

\* The pin of the last port with this number, and no net where there is none.
reorderpins(cell, model, ports) ==
  LET moved(pins) ==
        [q \in DOMAIN pins |->
           LET from == {k \in DOMAIN ports : Number(ports[k]) = q}
           IN  IF q > Len(ports) THEN pins[q]
               ELSE IF from = {} THEN None ELSE pins[Max(from)]]
  IN  [cell EXCEPT !.insts = [i \in DOMAIN @ |->
         IF @[i].model = model THEN [@[i] EXCEPT !.pins = moved(@)] ELSE @[i]]]

\* Remove what is orphaned, add the proxies to the instances, and make them ports.
Settle(cs, c, ports) ==
  LET cleaned == CleanedUp([cs EXCEPT ![c].ports = ports], c)
      kept == cleaned[c].ports
  IN  [p \in DOMAIN cs |->
         IF p = c THEN [cleaned[p] EXCEPT !.ports = [k \in DOMAIN kept |-> [kept[k] EXCEPT ![4] = "PORT"]]]
         ELSE IF p[2] = c[2] THEN addproxies(cleaned[p], c, kept) ELSE cleaned[p]]

\* In the order of the numbers; equal ones stay as they are.
InOrder(ports) ==
  LET before(k, l) == Number(ports[k]) < Number(ports[l])
                        \/ (Number(ports[k]) = Number(ports[l]) /\ k < l)
      order == SetToSortSeq(DOMAIN ports, before)
  IN  [k \in DOMAIN ports |-> ports[order[k]]]

Reorder(cs, c) ==
  LET ports == Ordered(cs[c].ports)
  IN  [p \in DOMAIN cs |->
         IF p = c THEN [cs[p] EXCEPT !.ports = InOrder(ports)]
         ELSE IF p[2] = c[2] THEN reorderpins(cs[p], c, ports) ELSE cs[p]]

\* Both cells and all that use them, after the pins were matched as in m.
Altered(cs, n, m) ==
  LET plain(ports) == [k \in DOMAIN ports |-> <<ports[k][1], ports[k][2]>>]
      settled == Settle(Settle(cs, <<n, 1>>, m.p1), <<n, 2>>, m.p2)
      final == Reorder(settled, <<n, 2>>)
  IN  [c \in DOMAIN cs |-> IF c[1] = n THEN [final[c] EXCEPT !.ports = plain(@)] ELSE final[c]]

NoPins(cs, n) == cs[<<n, 1>>].ports = << >> /\ cs[<<n, 2>>].ports = << >>

\* "equate pins" for two cells that were compared.  No more is changed when one
\* of them has no net for a pin of the other.
EquatePins(n) ==
  /\ todo # << >> /\ Head(todo) = n
  /\ \E unique \in {UniquePorts(UniquePorts(cells, <<n, 1>>), <<n, 2>>)} :
     \E m \in {Matched(unique, n, NodeClasses(Designs[design], cells, n),
                       Tail(todo) = << >>, Designs[design])} :
        /\ result' = IF NoPins(unique, n) THEN 2 ELSE m.result
        /\ cells' = IF NoPins(unique, n) \/ m.ended THEN unique ELSE Altered(unique, n, m)
  /\ todo' = Tail(todo)
  /\ UNCHANGED design

Init ==
  /\ InitDatabase
  /\ todo = Designs[design].pairs
  /\ result = 2

Next == \E n \in {c[1] : c \in DOMAIN cells} : EquatePins(n)

Spec == Init /\ [][Next]_vars
=============================================================================
