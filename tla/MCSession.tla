----------------------------- MODULE MCSession ------------------------------
(***************************************************************************)
(* Small pairs of circuits for TLC.  A circuit is written as a sequence of  *)
(* two-pin devices <<class, net of pin 1, net of pin 2, value>>; nets are   *)
(* numbers, 0 for a pin that is not connected.                              *)
(***************************************************************************)
EXTENDS CompareSession, Sequences

\* Device k of circuit c is 10 c + k, net n of circuit c is 100 c + n.
Dev(c, k) == 10 * c + k
Wire(c, n) == 100 * c + n

MCElement == {Dev(c, k) : c \in {1, 2}, k \in 1..4}
MCNet == {Wire(c, n) : c \in {1, 2}, n \in 1..4}
MCGraphOf == [x \in MCElement \cup MCNet |-> IF x > 100 THEN x \div 100 ELSE x \div 10]
MCModel == {"R", "X", "Y", "Z"}
MCPin == {1, 2}
MCNoNet == 0

\* Resistors may be turned round.
Turned == [m \in MCModel |-> IF m = "R" THEN {<<1, 2>>} ELSE {}]
Fixed == [m \in MCModel |-> {}]

R(a, b) == <<"R", a, b, 1>>
V(v, a, b) == <<"R", a, b, v>>
X(a, b) == <<"X", a, b, 0>>
Y(a, b) == <<"Y", a, b, 0>>
Z(a, b) == <<"Z", a, b, 0>>
XV(v, a, b) == <<"X", a, b, v>>
YV(v, a, b) == <<"Y", a, b, v>>

\* The devices of both circuits of every pair.
LoopAndRing == <<R(1, 1), R(2, 3), R(3, 2)>>
RingOf3 == <<R(1, 2), R(2, 3), R(3, 1)>>
Parallel == <<R(1, 2), R(1, 2)>>

Devices ==
  [\* Resistors on rings: hash values cannot tell a loop and a ring of two
   \* from a ring of three, two loops from a ring of two, nor a device of the loop from one of the ring.
   loop_ring3   |-> <<LoopAndRing, RingOf3>>,
   loops_ring2  |-> <<<<R(1, 1), R(2, 2)>>, <<R(1, 2), R(2, 1)>>>>,
   loop_loop    |-> <<LoopAndRing, <<R(2, 1), R(3, 3), R(2, 1)>>>>,
   ring3_ring3  |-> <<RingOf3, <<R(2, 1), R(2, 3), R(3, 1)>>>>,
   \* Every class has one device and one net of either circuit from the
   \* start; two pins exchanged in the first pair, none in the second.
   crossed      |-> <<<<X(3, 2), Y(3, 2), Z(3, 1)>>, <<X(3, 2), Y(3, 1), Z(3, 2)>>>>,
   uncrossed    |-> <<<<X(3, 2), Y(3, 2), Z(3, 1)>>, <<Z(2, 1), Y(2, 3), X(2, 3)>>>>,
   \* Circuits that do not match: a device of another class, devices of two
   \* classes swapped, a device too many, an open pin, devices without any
   \* net, different open pins, no devices, no nets.
   recast       |-> <<<<X(1, 2), X(2, 3), Y(3, 1)>>, <<X(1, 2), Y(2, 3), Y(3, 1)>>>>,
   swapped      |-> <<<<X(1, 2), Y(2, 3), Y(3, 4)>>, <<Y(1, 2), X(2, 3), Y(3, 4)>>>>,
   extra        |-> <<Parallel, <<R(1, 2)>>>>,
   open         |-> <<<<X(1, 2), Y(2, 1)>>, <<X(1, 2), Y(2, 0)>>>>,
   dummies      |-> <<<<R(1, 2), X(0, 0)>>, <<R(1, 2), Y(0, 0)>>>>,
   open_pins    |-> <<<<X(1, 2), Y(2, 0)>>, <<X(1, 2), Y(0, 2)>>>>,
   no_devices   |-> <<<<>>, <<R(1, 2)>>>>,
   no_nets      |-> <<<<R(1, 2)>>, <<R(0, 0)>>>>,
   \* Parallel devices that only their properties tell apart: properties that
   \* agree, that differ, that one circuit lacks; and two branches of an X and
   \* a Y each, where the property values pair the X of a branch with the Y of
   \* the other one.
   values       |-> <<<<V(1, 1, 2), V(2, 1, 2), V(2, 1, 2)>>,
                      <<V(2, 2, 1), V(1, 1, 2), V(2, 1, 2)>>>>,
   value_error  |-> <<<<V(1, 1, 2), V(2, 1, 2)>>, <<V(2, 1, 2), V(2, 1, 2)>>>>,
   no_value     |-> <<<<V(1, 1, 2)>>, <<V(NoValue, 1, 2)>>>>,
   branches     |-> <<<<XV(1, 1, 3), YV(1, 1, 3), XV(2, 2, 3), YV(2, 2, 3)>>,
                      <<XV(1, 1, 3), YV(2, 1, 3), XV(2, 2, 3), YV(1, 2, 3)>>>>,
   \* Two nets that only their names tell apart, as ports and as internal nets.
   same_ports   |-> <<Parallel, <<R(2, 1), R(2, 1)>>>>,
   more_ports   |-> <<Parallel, <<R(2, 1), R(2, 1)>>>>,
   loose_ports  |-> <<Parallel, <<R(2, 1), R(2, 1)>>>>,
   no_ports     |-> <<Parallel, <<R(2, 1), R(2, 1)>>>>,
   \* Permutable pins in the first circuit only.
   one_sided    |-> <<<<R(1, 2), X(1, 2)>>, <<R(1, 2), X(1, 2)>>>>]

AllPairs == DOMAIN Devices

\* The ports of both circuits.
NoPorts == [name \in {} |-> 0]

PortsOf(p) ==
  CASE p = "same_ports"  -> <<[a |-> 1, b |-> 2], [a |-> 1, b |-> 2]>>
    [] p = "more_ports"  -> <<[a |-> 1], [a |-> 1, b |-> 2]>>
    [] p = "loose_ports" -> <<[a |-> 1, x |-> 0], [a |-> 1, y |-> 0]>>
    [] OTHER             -> <<NoPorts, NoPorts>>

\* The names of the nets, which are the same in circuits with parallel nets.
Names(p, c) ==
  IF c = 1 \/ p \in {"same_ports", "more_ports", "loose_ports", "no_ports"}
    THEN <<"a", "b", "c", "d">> ELSE <<"e", "f", "g", "h">>

NetOf(c, n) == IF n = 0 THEN MCNoNet ELSE Wire(c, n)

\* Circuits 1 and 2 of pair p, with devices[c][k] for device k of circuit c.
TwoCircuits(p, devices, ports) ==
  LET instances == {Dev(t[1], t[2]) : t \in {t \in {1, 2} \X (1..4) : t[2] <= Len(devices[t[1]])}}
      table == [e \in instances |-> devices[e \div 10][e % 10]]
  IN  [model    |-> [e \in instances |-> table[e][1]],
       conn     |-> [e \in instances |->
                       [i \in MCPin |-> NetOf(e \div 10, table[e][i + 1])]],
       value    |-> [e \in instances |-> table[e][4]],
       permutes |-> [c \in {1, 2} |-> IF c = 2 /\ p = "one_sided" THEN Fixed ELSE Turned],
       ports    |-> [c \in {1, 2} |->
                       [name \in DOMAIN ports[c] |-> NetOf(c, ports[c][name])]],
       netname  |-> [w \in MCNet |-> Names(p, w \div 100)[w % 100]]]

MCCircuits == [p \in Pairs |-> TwoCircuits(p, Devices[p], PortsOf(p))]

\* The permutes lists of both circuits are the same, and a device of a class
\* with an open pin has the same open pin in either circuit.
EvenPairs == AllPairs \ {"one_sided", "open_pins"}

\* Enough pairs for the commands that move between the states of a comparison
\* in any order, for which all pairs have too many states.
ReorderedPairs ==
  {"loops_ring2", "crossed", "swapped", "extra", "no_nets", "same_ports"}
=============================================================================
