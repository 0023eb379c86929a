----------------------------- MODULE DeviceMerge ------------------------------
(***************************************************************************)
(* CombineParallel and CombineSeries (base/netgen.c): devices of one class  *)
(* that are in parallel or in series become one device with a property      *)
(* record for each of them.  The records are in the order of the list of    *)
(* the device, and their tags describe the network: "+" series, "(" open,   *)
(* ")" close.                                                              *)
(*                                                                          *)
(* A device is [class, pins, recs]; pins is the sequence of its nodes, and  *)
(* a record [tags, props] holds the values of its "_tag" properties, first  *)
(* to last, each a sequence of characters, and its other properties by key. *)
(* Two fields are not in the code: `of`, the devices of the netlist that    *)
(* this device stands for, <<number, pins, value>>, and `ohms`, the         *)
(* resistance of their network as <<numerator, denominator>>.               *)
(***************************************************************************)
EXTENDS Naturals, FiniteSets, SequencesExt

CONSTANTS Series,       \* classes with the flag COMB_SERIES
          NoParallel,   \* classes with the flag COMB_NO_PARALLEL
          Permuted,     \* classes whose first two pins are permutable
          ParallelOpen  \* GlobalParallelOpen

NoConnect == 0          \* the "_nc" of a hash key

Tagged(recs) == \E k \in DOMAIN recs : recs[k].tags # << >>

\* add_prop_tag: if some record has a tag, a new one comes first in the first.
AddPropTag(recs, t) ==
  IF Tagged(recs) THEN [recs EXCEPT ![1].tags = <<<<t>>>> \o @] ELSE recs

OpenTags(tag) ==
  Len(SelectSeq(tag, LAMBDA c : c = "(")) - Len(SelectSeq(tag, LAMBDA c : c = ")"))

\* The unbalanced opens of a list, by the first tag of all records but the last.
Unbalanced(recs) ==
  FoldLeftDomain(LAMBDA n, k : IF k < Len(recs) /\ recs[k].tags # << >>
                               THEN n + OpenTags(recs[k].tags[1]) ELSE n,
                 0, recs)

\* add_balancing_close: one close for each of them at the head of the next list.
AddBalancingClose(recs1, recs2) ==
  FoldLeft(LAMBDA r, k : AddPropTag(r, ")"), recs2, [k \in 1..Unbalanced(recs1) |-> k])

-----------------------------------------------------------------------------
(* Parallel devices.                                                        *)

OneM == [tags |-> << >>, props |-> [M |-> 1]]
Records(d) == IF d.recs = << >> THEN <<OneM>> ELSE d.recs

InParallel(r, s) == <<r[1] * s[1], r[1] * s[2] + r[2] * s[1]>>
InSeries(r, s) == <<r[1] * s[2] + s[1] * r[2], r[2] * s[2]>>

\* The records of a device parallel to s come before those of s, each list
\* with an open tag if it has tags, and the first closed before the second.
JoinParallel(s, d) ==
  LET opened == AddPropTag(Records(s), "(")
      closed == IF Tagged(d.recs) THEN AddPropTag(opened, ")") ELSE opened
      recs == IF d.recs = << >> THEN <<OneM>> \o Records(s)
              ELSE AddPropTag(d.recs, "(") \o closed
  IN  [s EXCEPT !.recs = recs, !.of = @ \cup d.of, !.ohms = InParallel(@, d.ohms)]

\* The pins of a cell, <<device, pin>>, and those on a node.
PinsOf(devs) == UNION {{k} \X DOMAIN devs[k].pins : k \in DOMAIN devs}
PinsOn(devs, n) == {x \in PinsOf(devs) : devs[x[1]].pins[x[2]] = n}

\* The nodes of a cell that one port or pin only is on; none in a top cell.
OpenNodes(cell) ==
  LET ports == {0} \X DOMAIN cell.ports
      pins == PinsOf(cell.devs)
      On(x) == IF x[1] = 0 THEN cell.ports[x[2]] ELSE cell.devs[x[1]].pins[x[2]]
  IN  IF ~ParallelOpen \/ cell.top THEN {}
      ELSE {On(x) : x \in {x \in ports \cup pins : \A y \in ports \cup pins : On(y) = On(x) => y = x}}

\* The hash keys of a device: its class and nodes, and the permuted nodes.
Key(open, d) == [p \in DOMAIN d.pins |-> IF d.pins[p] \in open THEN NoConnect ELSE d.pins[p]]
Swapped(key) == [key EXCEPT ![1] = key[2], ![2] = key[1]]

\* Mutant of SameKey: permutable pins are not tried the other way round.
StraightKey(open, s, d) == s.class = d.class /\ Key(open, d) = Key(open, s)

SameKey(open, s, d) ==
  /\ s.class = d.class
  /\ \/ Key(open, d) = Key(open, s)
     \/ s.class \in Permuted /\ Key(open, d) = Swapped(Key(open, s))

\* A device is merged into the first device of its key.
JoinInto(open, kept, d) ==
  LET same == {k \in DOMAIN kept : d.class \notin NoParallel /\ SameKey(open, kept[k], d)}
  IN  IF same = {} THEN Append(kept, d) ELSE [kept EXCEPT ![Min(same)] = JoinParallel(@, d)]

JoinedParallel(open, devs) ==
  FoldLeft(LAMBDA kept, d : JoinInto(open, kept, d), << >>, devs)

\* Nodes on which a key has no connect are flagged, whether or not a merge follows.
CombineParallel(cell) ==
  LET open == OpenNodes(cell)
      keyed == {k \in DOMAIN cell.devs : cell.devs[k].class \notin NoParallel}
  IN  [cell EXCEPT !.devs = JoinedParallel(open, @),
                   !.open = @ \cup (open \cap UNION {ToSet(cell.devs[k].pins) : k \in keyed})]

-----------------------------------------------------------------------------
(* Series devices.                                                          *)

\* check_pin_nodes: pins after the first two are on the same nodes.
CheckPinNodes(devs, a, b) ==
  /\ a # b
  /\ \A p \in DOMAIN devs[a].pins : p > 2 => devs[a].pins[p] = devs[b].pins[p]

\* The first two of the pins on a node, in the order of the netlist.
FirstOf(on) == CHOOSE x \in on : \A y \in on : x[1] < y[1] \/ (x[1] = y[1] /\ x[2] <= y[2])
FirstPin(devs, n) == FirstOf(PinsOn(devs, n))
SecondPin(devs, n) == FirstOf(PinsOn(devs, n) \ {FirstPin(devs, n)})

\* Mutant of IsSeriesNode: a node with a port is not excluded.
AnyNode(cell, n) ==
  /\ Cardinality(PinsOn(cell.devs, n)) = 2
  /\ LET a == FirstPin(cell.devs, n)
         b == SecondPin(cell.devs, n)
     IN  /\ cell.devs[a[1]].class \in Series /\ a[2] <= 2
         /\ cell.devs[b[1]].class = cell.devs[a[1]].class
         /\ CheckPinNodes(cell.devs, a[1], b[1])

\* Exactly two devices of one series class meet here; only the first of them is
\* required to do so with one of its first two pins.
IsSeriesNode(cell, n) ==
  /\ Cardinality(PinsOn(cell.devs, n)) = 2
  /\ n \notin ToSet(cell.ports)
  /\ LET a == FirstPin(cell.devs, n)
         b == SecondPin(cell.devs, n)
     IN  /\ cell.devs[a[1]].class \in Series /\ a[2] <= 2
         /\ cell.devs[b[1]].class = cell.devs[a[1]].class
         /\ CheckPinNodes(cell.devs, a[1], b[1])

\* The second device gets "+"; a tag it has already is extended with the letter S.
TagSeries(recs) ==
  IF recs = << >> THEN <<[tags |-> <<<<"+">>>>, props |-> << >>]>>
  ELSE IF recs[1].tags = << >> THEN [recs EXCEPT ![1].tags = <<<<"+">>>>]
       ELSE [recs EXCEPT ![1].tags[1] = <<"S">> \o @]

\* The pin of a on n moves to the first node of b that is not n, and the records
\* of b go behind those of a, one by one, each in front of those moved before.
JoinSeries(a, b, n) ==
  LET p == CHOOSE p \in DOMAIN a.pins : a.pins[p] = n /\ \A q \in 1..(p - 1) : a.pins[q] # n
      q == CHOOSE q \in DOMAIN b.pins : b.pins[q] # n /\ \A r \in 1..(q - 1) : b.pins[r] = n
  IN  [a EXCEPT !.pins[p] = b.pins[q],
                !.recs = @ \o Reverse(AddBalancingClose(a.recs, TagSeries(b.recs))),
                !.of = @ \cup b.of, !.ohms = InSeries(@, b.ohms)]

Replaced(pairs, b, a) ==
  [m \in DOMAIN pairs |-> [s \in 1..2 |-> IF pairs[m][s] = b THEN a ELSE pairs[m][s]]]

\* Node n goes if its pair is still one of two devices: the second is replaced by
\* the first in the pairs that follow.
JoinPair(acc, n) ==
  IF n \notin DOMAIN acc.pairs \/ acc.pairs[n][1] = acc.pairs[n][2] THEN acc
  ELSE LET a == acc.pairs[n][1]
           b == acc.pairs[n][2]
       IN  [devs |-> [acc.devs EXCEPT ![a] = JoinSeries(@, acc.devs[b], n)],
            gone |-> acc.gone \cup {b},
            pairs |-> Replaced(acc.pairs, b, a)]

\* The list of pairs is made before the first merge.
PairList(cell, maxnode) ==
  [devs |-> cell.devs, gone |-> {},
   pairs |-> [n \in {n \in 1..maxnode : IsSeriesNode(cell, n)} |->
                <<FirstPin(cell.devs, n)[1], SecondPin(cell.devs, n)[1]>>]]

JoinedSeries(start, maxnode) == FoldLeft(JoinPair, start, [n \in 1..maxnode |-> n])

Kept(acc, kept, k) == IF k \in acc.gone THEN kept ELSE Append(kept, acc.devs[k])
Remaining(acc) == FoldLeftDomain(LAMBDA kept, k : Kept(acc, kept, k), << >>, acc.devs)

CombineSeries(cell, maxnode) ==
  [cell EXCEPT !.devs = Remaining(JoinedSeries(PairList(cell, maxnode), maxnode))]
===============================================================================
