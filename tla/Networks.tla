------------------------------- MODULE Networks -------------------------------
(***************************************************************************)
(* CreateTwoLists and PropertyMatch on two cells: the devices of each cell  *)
(* are merged in passes until nothing is left to merge, and then the        *)
(* property records of devices that correspond are compared.                *)
(*                                                                          *)
(* Each pass over a cell is a step, and each round of reducing two lists of *)
(* records, and each comparison of two records.                             *)
(***************************************************************************)
EXTENDS DeviceMerge, PropertyNetworks

CONSTANTS Inputs,     \* what the two netlists may be
          Netlists(_),\* the cells of such an input, <<cell, cell>>
          MaxMatches, \* bound: how often the pair of devices is compared
          MaxNode     \* bound: the greatest node number of the cells

\* A cell as a reader leaves it: each device stands for itself, devices of a class have
\* the same pins, and those with a pin to exchange or to join in series have two.
IsRead(c) ==
  /\ c = [top |-> c.top, ports |-> c.ports, devs |-> c.devs, open |-> {}]
  /\ c.ports \in Seq(1..MaxNode) /\ c.devs \in Seq(ToSet(c.devs))
  /\ \A d \in ToSet(c.devs) :
       /\ d = [class |-> d.class, pins |-> d.pins, of |-> d.of, ohms |-> d.ohms, recs |-> d.recs]
       /\ d.pins \in Seq(1..MaxNode) /\ {x[2] : x \in d.of} = {d.pins}
       /\ d.class \in Series \cup Permuted => {1, 2} \subseteq DOMAIN d.pins
  /\ \A j, k \in DOMAIN c.devs :
       /\ c.devs[j].class = c.devs[k].class => DOMAIN c.devs[j].pins = DOMAIN c.devs[k].pins
       /\ j # k => c.devs[j].of \cap c.devs[k].of = {}

ASSUME NetlistsRead ==
  /\ MaxNode \in Nat
  /\ \A x \in Inputs : DOMAIN Netlists(x) = 1..2 /\ IsRead(Netlists(x)[1]) /\ IsRead(Netlists(x)[2])

VARIABLES cells,      \* the two cells
          graph,      \* the cell being merged, 1 or 2, and 3 when both are done
          pass,       \* "parallel" or "series": the next pass over it
          first,      \* no pass of this kind was made before, in this round for "series"
          match       \* the comparison under way

vars == <<cells, graph, pass, first, match>>

Idle == [step |-> "idle", devs |-> <<0, 0>>, lists |-> << << >>, << >> >>,
         done |-> << << >>, << >> >>, count |-> 0, wrong |-> FALSE, times |-> 0, before |-> "none"]

\* PropertyMatch reports this comparison, when it has ended, as an error.
Mismatch == match.count # 0 \/ match.wrong
Verdict(k1, k2) ==
  IF match.devs # <<k1, k2>> THEN "none" ELSE IF Mismatch THEN "error" ELSE "match"

Init ==
  /\ \E x \in Inputs : cells = Netlists(x)
  /\ graph = 1
  /\ pass = "parallel"
  /\ first = TRUE
  /\ match = Idle

Finished(g) == graph' = g + 1 /\ pass' = "parallel" /\ first' = TRUE

\* The loop over passes ends with a parallel pass, but the first, that merges
\* nothing, or with a series pass that merges nothing after it.
ParallelPass ==
  /\ graph \in 1..2 /\ pass = "parallel"
  /\ cells' = [cells EXCEPT ![graph] = CombineParallel(@)]
  /\ IF ~first /\ Len(cells'[graph].devs) = Len(cells[graph].devs)
     THEN Finished(graph)
     ELSE graph' = graph /\ pass' = "series" /\ first' = TRUE
  /\ UNCHANGED match

\* Mutant of SeriesPass: one pass for every parallel pass.
SeriesOnce ==
  /\ graph \in 1..2 /\ pass = "series"
  /\ cells' = [cells EXCEPT ![graph] = CombineSeries(@, MaxNode)]
  /\ Finished(graph)
  /\ UNCHANGED match

\* Mutant of SeriesPass: it is repeated also when it has merged nothing.
SeriesAgain ==
  /\ graph \in 1..2 /\ pass = "series"
  /\ cells' = [cells EXCEPT ![graph] = CombineSeries(@, MaxNode)]
  /\ graph' = graph /\ pass' = "series" /\ first' = ~first
  /\ UNCHANGED match

SeriesPass ==
  /\ graph \in 1..2 /\ pass = "series"
  /\ cells' = [cells EXCEPT ![graph] = CombineSeries(@, MaxNode)]
  /\ IF Len(cells'[graph].devs) < Len(cells[graph].devs)
     THEN graph' = graph /\ pass' = "series" /\ first' = FALSE
     ELSE IF first THEN Finished(graph)
     ELSE graph' = graph /\ pass' = "parallel" /\ first' = FALSE
  /\ UNCHANGED match

Pins(d) == ToSet(d.pins)
Device(g, k) == cells[g].devs[k]

\* Pins on no-connects in one device only, with no pin permutable with it in the
\* second device that agrees.
OpenDiffers(d1, d2) ==
  {p \in DOMAIN d1.pins :
     LET Open(g, n) == n \in cells[g].open
         same == {q \in DOMAIN d2.pins : Open(2, d2.pins[q]) = Open(1, d1.pins[p])}
     IN  ~\E q \in same : q = p \/ (d1.class \in Permuted /\ {p, q} = {1, 2})}

\* PropertyMatch is called for two devices of one class.
StartMatch(k1, k2) ==
  /\ graph = 3 /\ match.step = "idle" /\ match.times < MaxMatches
  /\ Device(1, k1).class = Device(2, k2).class
  /\ Pins(Device(1, k1)) = Pins(Device(2, k2))
  /\ LET lists == <<Device(1, k1).recs, Device(2, k2).recs>>
     IN  match' = [Idle EXCEPT !.devs = <<k1, k2>>, !.lists = lists, !.times = match.times + 1,
                     !.before = Verdict(k1, k2),
                     !.count = IF lists = << << >>, << >> >> THEN 0
                               ELSE Cardinality(OpenDiffers(Device(1, k1), Device(2, k2))),
                     !.step = IF << >> \in ToSet(lists) THEN "compare" ELSE "combine"]
  /\ UNCHANGED <<cells, graph, pass, first>>

\* One round of PropertySortAndCombine.
Combine ==
  /\ match.step = "combine"
  /\ ~\E k \in 1..2 : LostGroup(match.lists[k])
  /\ \E round \in {Round(match.lists)} :
         match' = [match EXCEPT !.lists = round.lists,
                                !.step = IF round.more THEN "combine" ELSE "compare"]
  /\ UNCHANGED <<cells, graph, pass, first>>

\* It ends the program.
Crash ==
  /\ match.step = "combine"
  /\ \E k \in 1..2 : LostGroup(match.lists[k])
  /\ match' = [match EXCEPT !.step = "crash"]
  /\ UNCHANGED <<cells, graph, pass, first>>

ComparePair ==
  /\ match.step = "compare" /\ << >> \notin ToSet(match.lists)
  /\ \E new \in {Compare(match.lists)} :
         match' = [match EXCEPT !.lists = <<Tail(new.lists[1]), Tail(new.lists[2])>>,
                                !.done = [k \in 1..2 |-> Append(@[k], Head(new.lists[k]))],
                                !.count = @ + new.count]
  /\ UNCHANGED <<cells, graph, pass, first>>

\* One list has ended before the other, or had no record at all.
CompareRest ==
  /\ match.step = "compare" /\ \E k \in 1..2 : match.lists[k] = << >> /\ match.lists[3 - k] # << >>
  /\ LET k == CHOOSE k \in 1..2 : match.lists[k] # << >>
         wrong == match.done[k] = << >> /\ Required(Head(match.lists[k]))
     IN  match' = [match EXCEPT !.lists[k] = Tail(@),
                                !.done[k] = Append(@, Head(match.lists[k])),
                                !.wrong = @ \/ wrong,
                                !.count = @ + IF match.done[k] # << >> \/ wrong THEN 1 ELSE 0]
  /\ UNCHANGED <<cells, graph, pass, first>>

\* The records of both devices stay as the comparison has left them.
EndMatch ==
  /\ match.step = "compare" /\ match.lists = << << >>, << >> >>
  /\ cells' = [g \in 1..2 |->
       [cells[g] EXCEPT !.devs[match.devs[g]].recs = match.done[g]]]
  /\ match' = [match EXCEPT !.step = "idle"]
  /\ UNCHANGED <<graph, pass, first>>

Working == graph \in 1..2 \/ match.step \in {"combine", "compare"}

MergeStep == ParallelPass \/ SeriesPass
MatchStep == Combine \/ Crash \/ ComparePair \/ CompareRest \/ EndMatch
Next ==
  \/ MergeStep
  \/ \E k1 \in DOMAIN cells[1].devs, k2 \in DOMAIN cells[2].devs : StartMatch(k1, k2)
  \/ MatchStep

Spec == Init /\ [][Next]_vars

\* A function that was called runs on.  This is WF_vars(MergeStep \/ MatchStep), as one of
\* these steps is enabled exactly when Working.
Fairness == []<>~Working \/ []<><<MergeStep \/ MatchStep>>_vars
FairSpec == Spec /\ Fairness
===============================================================================
