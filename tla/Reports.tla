------------------------------- MODULE Reports -------------------------------
(***************************************************************************)
(* What the commands verify, print and summary show of the classes of a     *)
(* comparison (base/netcmp.c, tcltk/tclnetgen.c).  The classes stay as they *)
(* are meanwhile; the user may interrupt.  A command is a sequence of jobs, *)
(* each of which walks along the list of elements or of nodes:              *)
(*   side       the mismatches in two columns                               *)
(*   list       the mismatches as lists of Tcl                              *)
(*   old        the mismatches, one member after the other (debug)          *)
(*   print      the members of the classes, of one sort or of all           *)
(*   partition  the same as lists of Tcl                                    *)
(*   summary    the size of every class                                     *)
(* A comparison has the classes elements and nodes: records of legal and    *)
(* members.  A member has a name, graph (the circuit, 1 or 2), and          *)
(*   an element  pins: name, magic (permutable pins have the same) and      *)
(*               fanout, the size of the node it is on, or NoNode           *)
(*   a node      pins: the model of the element it contacts, magic, and the *)
(*               names of all pins of that element with this magic          *)
(***************************************************************************)
EXTENDS Integers, Sequences, FiniteSets, SequencesExt, TLC

CONSTANT Comparisons   \* the comparisons, by name

VARIABLES
  comparison,   \* which one it is
  jobs,         \* what the command has left to do
  at,           \* the class and the number of its members that were formatted
  interrupted,  \* InterruptPending
  log           \* what was shown

vars == <<comparison, jobs, at, interrupted, log>>

NoNode == -1
All == -1
Legal == 0
Illegal == 1

-----------------------------------------------------------------------------
(* Lines for one member: model, name, count, permute (0 where the pins that *)
(* may be exchanged go on, and their number for a node).                    *)

Firsts(pins, Same(_, _)) == {i \in DOMAIN pins : ~\E j \in 1..(i - 1) : Same(pins[i], pins[j])}

Line(model, name, count, permute) ==
  [model |-> model, name |-> name, count |-> count, permute |-> permute]

\* Pins in the order of their groups.  The counts of a group are sorted and
\* no longer belong to the names; a pin without a node counts 1 there.
FormatBadElementFragment(e) ==
  LET Group(i) == SelectSeq(e.pins, LAMBDA p : p.magic = e.pins[i].magic)
      Counts(g) == SortSeq([k \in DOMAIN g |-> IF g[k].fanout = NoNode THEN 1 ELSE g[k].fanout], >)
      Lines(g) == IF Len(g) = 1
                  THEN <<Line("", g[1].name, IF g[1].fanout = NoNode THEN 0 ELSE g[1].fanout, 1)>>
                  ELSE [k \in DOMAIN g |->
                          Line("", g[k].name, Counts(g)[k], IF k = Len(g) THEN 1 ELSE 0)]
      first == SetToSortSeq(Firsts(e.pins, LAMBDA p, q : p.magic = q.magic), <)
  IN  [name |-> e.name, lines |-> FlattenSeq([i \in DOMAIN first |-> Lines(Group(first[i]))])]

FormatBadNodeFragment(n) ==
  LET Same(p, q) == p.model = q.model /\ p.magic = q.magic
      first == SetToSortSeq(Firsts(n.pins, Same), <)
  IN  [name |-> n.name,
       lines |-> [i \in DOMAIN first |->
         LET p == n.pins[first[i]]
         IN  Line(p.model, p.names, Len(SelectSeq(n.pins, LAMBDA q : Same(p, q))), Len(p.names))]]

\* The forms for debugging: of pins that may be exchanged a node shows the
\* first, and an element must have nodes on all of them.
PrintBadElementFragment(e) == FormatBadElementFragment(e)
Crashes(e) == \E i, j \in DOMAIN e.pins :
                i # j /\ e.pins[i].magic = e.pins[j].magic /\ e.pins[j].fanout = NoNode

PrintBadNodeFragment(n) ==
  LET lines == FormatBadNodeFragment(n).lines
  IN  [name |-> n.name, lines |-> [i \in DOMAIN lines |-> [lines[i] EXCEPT !.name = <<@[1]>>]]]

-----------------------------------------------------------------------------
(* Sorting of two columns.                                                  *)

\* Mutant: only the name that was found is installed again after a swap.
AlignedOnce(wanted, names, fixed) ==
  LET Step(st, i) ==
        LET k == st.index[wanted[i]]
            swapped == [st.at EXCEPT ![i] = st.at[k], ![k] = st.at[i]]
        IN  IF wanted[i] \notin DOMAIN st.index THEN st
            ELSE IF k = i \/ {st.at[i], st.at[k]} \cap fixed # {} THEN st
            ELSE [at |-> swapped, index |-> (names[swapped[i]] :> i) @@ st.index]
      last == [x \in ToSet(names) |-> CHOOSE i \in DOMAIN names :
                 names[i] = x /\ \A j \in DOMAIN names : names[j] = x => j <= i]
  IN  FoldLeft(Step, [at |-> [i \in DOMAIN names |-> i], index |-> last],
               [i \in DOMAIN wanted |-> i]).at

\* The order in which a list of names agrees with a list that is not longer,
\* where it can: each wanted name is looked up in a hash table of places and
\* swapped to its place, unless one of the two entries is fixed.
Aligned(wanted, names, fixed) ==
  LET Step(st, i) ==
        LET k == st.index[wanted[i]]
            swapped == [st.at EXCEPT ![i] = st.at[k], ![k] = st.at[i]]
        IN  IF wanted[i] \notin DOMAIN st.index THEN st
            ELSE IF k = i \/ {st.at[i], st.at[k]} \cap fixed # {} THEN st
            ELSE [at |-> swapped,
                  index |-> (names[swapped[k]] :> k) @@ (names[swapped[i]] :> i) @@ st.index]
      last == [x \in ToSet(names) |-> CHOOSE i \in DOMAIN names :
                 names[i] = x /\ \A j \in DOMAIN names : names[j] = x => j <= i]
  IN  FoldLeft(Step, [at |-> [i \in DOMAIN names |-> i], index |-> last],
               [i \in DOMAIN wanted |-> i]).at

NamesOf(list) == [i \in DOMAIN list |-> list[i].name]
PinsOf(lines) == [i \in DOMAIN lines |-> <<lines[i].model, lines[i].name>>]

\* The lines of b in the order of those of a.
InOrderOf(a, b) ==
  LET order == Aligned(PinsOf(a), PinsOf(b), {i \in DOMAIN b : b[i].permute = 0})
  IN  [i \in DOMAIN b |-> b[order[i]]]

\* Two members side by side: the one with more lines changes, else the first.
SortFanoutLists(m1, m2) ==
  IF Len(m1.lines) < Len(m2.lines)
  THEN <<m1, [m2 EXCEPT !.lines = InOrderOf(m1.lines, @)]>>
  ELSE <<[m1 EXCEPT !.lines = InOrderOf(m2.lines, @)], m2>>

\* The longer column follows the shorter, the first if they are as long.
\* Members of the same name, or alone on both sides, have their lines sorted.
SortUnmatchedLists(left, right) ==
  LET short == IF Len(left) < Len(right) THEN left ELSE right
      long == IF Len(left) < Len(right) THEN right ELSE left
      order == Aligned(NamesOf(short), NamesOf(long), {})
      sorted == [i \in DOMAIN long |-> long[order[i]]]
      Paired(i) == i \in DOMAIN short
                   /\ (short[i].name = sorted[i].name \/ (Len(short) = 1 /\ Len(long) = 1))
      Pair(i) == SortFanoutLists(short[i], sorted[i])
      newShort == [i \in DOMAIN short |-> IF Paired(i) THEN Pair(i)[1] ELSE short[i]]
      newLong == [i \in DOMAIN long |-> IF Paired(i) THEN Pair(i)[2] ELSE sorted[i]]
  IN  IF Len(left) < Len(right) THEN <<newShort, newLong>> ELSE <<newLong, newShort>>

-----------------------------------------------------------------------------
(* What is shown of a class, as two columns.                                *)

Columns(Format(_), members) ==
  LET Column(graph) == LET mine == SelectSeq(members, LAMBDA m : m.graph = graph)
                       IN  [i \in DOMAIN mine |-> Format(mine[i])]
  IN  <<Column(1), Column(2)>>

ListElementClasses(members) == Columns(FormatBadElementFragment, members)
ListNodeClasses(members) == Columns(FormatBadNodeFragment, members)

FormatIllegalElementClasses(members) ==
  LET columns == Columns(FormatBadElementFragment, members)
  IN  SortUnmatchedLists(columns[1], columns[2])
FormatIllegalNodeClasses(members) ==
  LET columns == Columns(FormatBadNodeFragment, members)
  IN  SortUnmatchedLists(columns[1], columns[2])

\* print shows names alone.
PrintElementClasses(members) == Columns(LAMBDA m : m.name, members)
PrintNodeClasses(members) == Columns(LAMBDA m : m.name, members)

-----------------------------------------------------------------------------
(* The commands.                                                            *)

Init ==
  /\ comparison \in DOMAIN Comparisons
  /\ jobs = << >>
  /\ at = <<1, 0>>
  /\ interrupted = FALSE
  /\ log = << >>

Job(style, kind, type) == [style |-> style, kind |-> kind, type |-> type]

Wanted(what) == SelectSeq(<<"nodes", "elements">>, LAMBDA k : what \in {"all", k})

Start(new) ==
  /\ jobs = << >> /\ log = << >>
  /\ jobs' = new
  /\ UNCHANGED <<comparison, at, interrupted, log>>

\* The part of verify for netlists that do not match.
Verify(what, debug, dolist) ==
  Start(FlattenSeq([i \in DOMAIN Wanted(what) |->
    IF debug THEN <<Job("old", Wanted(what)[i], Illegal)>>
    ELSE <<Job("side", Wanted(what)[i], Illegal)>>
         \o IF dolist THEN <<Job("list", Wanted(what)[i], Illegal)>> ELSE << >>]))

\* print without elements or nodes shows all classes of both; a sort alone
\* shows nothing.
PrintClasses(what, type, dolist) ==
  Start(IF what = "all" /\ type # All THEN << >> ELSE [i \in DOMAIN Wanted(what) |->
           Job(IF dolist THEN "partition" ELSE "print", Wanted(what)[i], type)])

\* summary shows the elements first.
Summary(what) == Start([i \in DOMAIN Wanted(what) |-> Job("summary", Reverse(Wanted(what))[i], All)])

job == Head(jobs)
Of(kind) == IF kind = "elements" THEN Comparisons[comparison].elements
            ELSE Comparisons[comparison].nodes
classes == Of(job.kind)
class == classes[at[1]]
Shown(c, type) == type = All \/ (type = Legal <=> c.legal)

At(styles) == /\ jobs # << >>
              /\ job.style \in styles
              /\ at[1] \in DOMAIN classes

\* The next member; the user may interrupt before each.
FormatMember ==
  /\ At({"side"})
  /\ ~class.legal /\ at[2] < Len(class.members) /\ ~interrupted
  /\ at' = <<at[1], at[2] + 1>>
  /\ UNCHANGED <<comparison, jobs, interrupted, log>>

Show(columns) ==
  log' = Append(log, [job |-> job, class |-> at[1], left |-> columns[1], right |-> columns[2]])

\* All members are formatted: the class is sorted and printed.
PrintSideBySide ==
  /\ At({"side"})
  /\ ~class.legal /\ at[2] = Len(class.members)
  /\ Show(IF job.kind = "elements" THEN FormatIllegalElementClasses(class.members)
          ELSE FormatIllegalNodeClasses(class.members))
  /\ at' = <<at[1] + 1, 0>>
  /\ UNCHANGED <<comparison, jobs, interrupted>>

\* Lists are not sorted and cannot be interrupted.
ListClass ==
  /\ At({"list"})
  /\ ~class.legal
  /\ Show(IF job.kind = "elements" THEN ListElementClasses(class.members)
          ELSE ListNodeClasses(class.members))
  /\ at' = <<at[1] + 1, 0>>
  /\ UNCHANGED <<comparison, jobs, interrupted>>

\* For debugging each member is shown at once.
PrintMember ==
  /\ At({"old"})
  /\ ~class.legal /\ ~interrupted
  /\ LET m == class.members[at[2] + 1]
     IN  /\ job.kind = "elements" => ~Crashes(m)
         /\ log' = Append(log, [job |-> job, class |-> at[1], graph |-> m.graph, member |->
              IF job.kind = "elements" THEN PrintBadElementFragment(m) ELSE PrintBadNodeFragment(m)])
         /\ at' = IF at[2] + 1 = Len(class.members) THEN <<at[1] + 1, 0>> ELSE <<at[1], at[2] + 1>>
  /\ UNCHANGED <<comparison, jobs, interrupted>>

\* The null pointer of a pin without a node is followed: the program ends.
Crash ==
  /\ At({"old"})
  /\ ~class.legal /\ ~interrupted
  /\ job.kind = "elements" /\ Crashes(class.members[at[2] + 1])
  /\ jobs' = << >>
  /\ log' = Append(log, [job |-> job, class |-> at[1], crashed |-> TRUE])
  /\ UNCHANGED <<comparison, at, interrupted>>

\* The two kinds of print; the user may interrupt between classes.
PrintClass ==
  /\ At({"print", "partition"})
  /\ ~interrupted /\ Shown(class, job.type)
  /\ Show(IF job.kind = "elements" THEN PrintElementClasses(class.members)
          ELSE PrintNodeClasses(class.members))
  /\ at' = <<at[1] + 1, 0>>
  /\ UNCHANGED <<comparison, jobs, interrupted>>

SummarizeClass ==
  /\ At({"summary"})
  /\ ~interrupted
  /\ log' = Append(log, [job |-> job, class |-> at[1], legal |-> class.legal,
                         count |-> Len(class.members)])
  /\ at' = <<at[1] + 1, 0>>
  /\ UNCHANGED <<comparison, jobs, interrupted>>

SkipClass ==
  /\ At({"side", "list", "old", "print", "partition", "summary"})
  /\ ~Shown(class, job.type)
  /\ ~(interrupted /\ job.style \in {"print", "partition", "summary"})
  /\ at' = <<at[1] + 1, 0>>
  /\ UNCHANGED <<comparison, jobs, interrupted, log>>

\* The list of a walk becomes the result of the command, in place of the list
\* of the walk before.
Result == SelectSeq(log, LAMBDA e : e.job.style = "partition" => e.job.kind = job.kind)

\* check_interrupt: the report ends, the next one of the command begins.
Stop ==
  /\ interrupted
  /\ \/ At({"side"}) /\ ~class.legal /\ at[2] < Len(class.members)
     \/ At({"old"}) /\ ~class.legal
     \/ At({"print", "partition", "summary"})
  /\ jobs' = Tail(jobs)
  /\ at' = <<1, 0>>
  /\ log' = Result
  /\ UNCHANGED <<comparison, interrupted>>

EndOfList ==
  /\ jobs # << >>
  /\ at[1] > Len(classes)
  /\ jobs' = Tail(jobs)
  /\ at' = <<1, 0>>
  /\ log' = Result
  /\ UNCHANGED <<comparison, interrupted>>

\* The command looks for an interrupt only where check_interrupt is called;
\* the flag stays up until the command ends.
Interrupt ==
  /\ jobs # << >> /\ ~interrupted
  /\ interrupted' = TRUE
  /\ UNCHANGED <<comparison, jobs, at, log>>

Next ==
  \/ \E what \in {"nodes", "elements", "all"} :
       \/ \E debug, dolist \in BOOLEAN : Verify(what, debug, dolist)
       \/ \E type \in {All, Legal, Illegal}, dolist \in BOOLEAN : PrintClasses(what, type, dolist)
       \/ Summary(what)
  \/ FormatMember \/ PrintSideBySide \/ ListClass \/ PrintMember \/ Crash
  \/ PrintClass \/ SummarizeClass
  \/ SkipClass \/ Stop \/ EndOfList \/ Interrupt

Spec == Init /\ [][Next]_vars
=============================================================================
