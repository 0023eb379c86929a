------------------------------ MODULE MCPinMatch ------------------------------
(***************************************************************************)
(* Pin matching of a cell A and of a cell P that uses it, in two files that *)
(* differ in their pins: all lists of up to MaxPins1 and MaxPins2 pins of   *)
(* the names in PinNames, on nets of a device, on a net of their own, or on *)
(* no net.                                                                  *)
(***************************************************************************)
EXTENDS PinMatch

CONSTANTS PinNames, MinPins, MaxPins1, MaxPins2,
          Nets   \* the nets that a pin of A may be on: 1 to 3 have a device

Dev == <<"d", 0>>
A(file) == <<"A", file>>
P(file) == <<"P", file>>

\* Pins are named in this order in circuit 1, and in any order in circuit 2.
Order == <<"p", "q", "s">>

MCNets == {1, 2, 4, None}

Lists(max) ==
  UNION {{[k \in 1..n |-> <<<<names[k]>>, nodes[k]>>] :
             names \in {f \in [1..n -> PinNames] : IsInjective(f)},
             nodes \in {f \in [1..n -> Nets] : \E k \in 1..n : f[k] \in 1..3}} : n \in MinPins..max}

InOrderOf(ports) ==
  \A k, l \in DOMAIN ports : k < l =>
    \E i, j \in DOMAIN Order : i < j /\ Order[i] = ports[k][1][1] /\ Order[j] = ports[l][1][1]

CellOf(ports, insts) == [ports |-> ports, globals |-> << >>, insts |-> insts]
X(model, pins) == Inst(<<>>, model, pins, <<>>)

\* The cell P: a net, with a pin, for each pin of A by its name.
User(file, ports) ==
  LET node(name) == CHOOSE k \in DOMAIN Order : <<Order[k]>> = name
  IN  CellOf([k \in DOMAIN ports |-> <<ports[k][1], node(ports[k][1])>>],
             <<X(A(file), [k \in DOMAIN ports |-> node(ports[k][1])])>>)

Contents == <<X(Dev, <<1, 2, 3>>)>>

\* Nets 1 and 2 are alike or not, and may have been listed in another order.
Unique == << <<<<1>>, <<1>>>>, <<<<2>>, <<2>>>>, <<<<3>>, <<3>>>> >>
Alike12 == << <<<<1, 2>>, <<2, 1>>>>, <<<<3>>, <<3>>>> >>
BlackBox == << >>

Kinds ==
  [unique |-> <<Contents, Unique, {}>>, alike |-> <<Contents, Alike12, {}>>,
   permuted |-> <<Contents, Unique, {{<<"p">>, <<"q">>}}>>,
   forced |-> <<Contents, BlackBox, {}>>, box |-> <<<< >>, BlackBox, {}>>]

Inputs == {l \in Lists(MaxPins1) : InOrderOf(l)} \X Lists(MaxPins2) \X DOMAIN Kinds

DesignOf(p1, p2, kind) ==
  [cells |-> A(1) :> CellOf(p1, kind[1]) @@ A(2) :> CellOf(p2, kind[1])
               @@ P(1) :> User(1, p1) @@ P(2) :> User(2, p2),
   pairs |-> <<"A", "P">>, classes |-> kind[2], permutes |-> kind[3], module |-> FALSE]

MCDesigns == [x \in Inputs |-> DesignOf(x[1], x[2], Kinds[x[3]])]

\* The nets of P: those that pins of A at one place are on.
MCNodeClasses(d, cs, n) ==
  IF n = "A" THEN d.classes
  ELSE LET pins(file) == cs[P(file)].insts[1].pins
           both == SelectSeq(Indices(Min({Len(pins(1)), Len(pins(2))})),
                             LAMBDA k : pins(1)[k] > 0 /\ pins(2)[k] > 0)
       IN  [k \in DOMAIN both |-> <<<<pins(1)[both[k]]>>, <<pins(2)[both[k]]>>>>]

Ports(c) == cells[c].ports
Done(n) == n \notin ToSet(todo)
Permuted == design[3] = "permuted"
IsProxy(o) == Head(o[1]) = "proxy"
HasProxies(n) == \E f \in {1, 2} : \E o \in ToSet(Ports(<<n, f>>)) : IsProxy(o)

\* Every instance has a pin for each port of its model.
InstancesFit ==
  \A c \in DOMAIN cells : \A x \in ToSet(cells[c].insts) :
    x.model \in DOMAIN cells => Len(x.pins) = Len(Ports(x.model))

-----------------------------------------------------------------------------
(***************************************************************************)
(* Pins of A that may be exchanged are left out where they are shorted: the *)
(* search by name then takes a port that another pin had already been given.*)
(***************************************************************************)
\* The two cells have equally many pins once they are matched: for each pin
\* that is kept there is one in the other file, be it a proxy.
SameLength ==
  \A n \in {"A", "P"} :
    Done(n) /\ ~Permuted => Len(Ports(<<n, 1>>)) = Len(Ports(<<n, 2>>))

\* Pins that are at one place after the match are on nets that the comparison
\* found alike, or have one name (when their nets have no devices, or nothing
\* was compared), or one is the proxy of the other.
Corresponding ==
  Done("A") /\ ~Permuted =>
    \A k \in DOMAIN Ports(A(1)) :
      LET o1 == Ports(A(1))[k]
          o2 == Ports(A(2))[k]
          class == Designs[design].classes
      IN  IF o1[1] = o2[1] /\ ({o1[2], o2[2]} \cap {1, 2, 3} = {} \/ class = << >>)
          THEN TRUE
          ELSE \/ \E x \in ToSet(class) : o1[2] \in ToSet(x[1]) /\ o2[2] \in ToSet(x[2])
               \/ IsProxy(o1) /\ Tail(o1[1]) = o2[1]
               \/ IsProxy(o2) /\ Tail(o2[1]) = o1[1]

\* Whatever is done with the pins of A, a pin that stays is on the same net of
\* P as before: instances follow the order of the cell, with the proxies, and
\* without the pins removed.
ConnectionsKept ==
  [][~Permuted => \A f \in {1, 2} :
       LET new == Ports(A(f))'
       IN  \A k \in DOMAIN Ports(A(f)), l \in DOMAIN new :
             Ports(A(f))[k][1] = new[l][1] =>
               cells[P(f)].insts[1].pins[k] = cells'[P(f)].insts[1].pins[l]]_vars

\* When the two cells differ only in the order of their pins, and no two pins
\* are shorted, the result is an exact match without proxies, and the orders
\* are the same after it.
SameOrder ==
  LET plain(ports) == {<<o[1], o[2]>> : o \in ToSet(ports)}
      shorted == \E f \in {1, 2} : \E k, l \in DOMAIN design[f] :
                   k # l /\ design[f][k][2] = design[f][l][2] /\ design[f][k][2] > 0
  IN  (Done("A") /\ plain(design[1]) = plain(design[2]) /\ ~shorted
       /\ design[3] \notin {"alike"}) =>
        /\ todo # << >> => result = 1
        /\ ~HasProxies("A")
        /\ [k \in DOMAIN Ports(A(1)) |-> Ports(A(1))[k][1]] =
             [k \in DOMAIN Ports(A(2)) |-> Ports(A(2))[k][1]]

\* After the match the pins of the two cells and of their instances agree.
PinsAgree == InstancesFit /\ SameLength /\ Corresponding /\ SameOrder

\* An exact match: pins at one place have one name, but for proxies.
ExactNames ==
  Done("A") /\ result = 1 /\ todo # << >> =>
    \A k \in DOMAIN Ports(A(1)) : k \in DOMAIN Ports(A(2)) =>
      LET bare(o) == IF IsProxy(o) THEN Tail(o[1]) ELSE o[1]
      IN  bare(Ports(A(1))[k]) = bare(Ports(A(2))[k])
=============================================================================
