------------------------------ MODULE MCReports ------------------------------
(* Three comparisons for Reports, of elements and of nodes, whose classes   *)
(* have members of the same names in other orders, more on either side, or  *)
(* none on one.                                                             *)
EXTENDS Reports

Pin(name, magic, fanout) == [name |-> name, magic |-> magic, fanout |-> fanout]
Contact(model, magic, names) == [model |-> model, magic |-> magic, names |-> names]
Member(name, graph, pins) == [name |-> name, graph |-> graph, pins |-> pins]
Class(legal, members) == [legal |-> legal, members |-> members]

Mos(name, graph, d, g, s) ==
  Member(name, graph, <<Pin("d", "ds", d), Pin("g", "g", g), Pin("s", "ds", s)>>)
Gate(name, graph, pins) == Member(name, graph, pins)

Source == Contact("n", "ds", <<"d", "s">>)
GateOf == Contact("n", "g", <<"g">>)
InOf == Contact("inv", "in", <<"a">>)
OutOf == Contact("inv", "out", <<"y">>)

MCComparisons ==
  [swapped |->
     [elements |-> <<Class(FALSE, <<Mos("a", 1, 1, 2, 3), Mos("b", 2, 3, 2, 3), Mos("b", 1, 2, 2, 3),
                                    Mos("a", 2, 3, NoNode, 1), Mos("c", 2, 1, 1, NoNode)>>),
                     Class(TRUE, <<Mos("e", 1, 1, 1, 1), Mos("e", 2, 1, 1, 1)>>)>>,
      nodes |-> <<Class(FALSE, <<Member("y", 1, <<Source, GateOf, Source>>),
                                 Member("x", 2, <<GateOf, Source, OutOf>>),
                                 Member("x", 1, <<Source, GateOf>>),
                                 Member("y", 2, <<GateOf, InOf, Source>>),
                                 Member("w", 1, <<InOf>>)>>),
                  Class(FALSE, <<Member("z", 2, <<InOf, InOf>>)>>)>>],
   longer |->
     [elements |-> <<Class(TRUE, <<Mos("e", 1, 1, 1, 1), Mos("e", 2, 1, 1, 1)>>),
                     Class(FALSE, <<Gate("p", 2, <<Pin("a", "a", 1), Pin("y", "y", 2), Pin("b", "b", 3)>>),
                                    Gate("p", 1, <<Pin("y", "y", 1), Pin("b", "b", 2)>>),
                                    Gate("q", 1, <<Pin("b", "b", 1)>>),
                                    Gate("r", 1, <<Pin("y", "y", 1), Pin("a", "a", 3)>>),
                                    Gate("r", 2, <<Pin("a", "a", 1)>>),
                                    Gate("q", 2, << >>)>>)>>,
      nodes |-> <<Class(FALSE, <<Member("u", 1, <<InOf, OutOf, GateOf>>),
                                 Member("v", 2, <<GateOf, InOf, OutOf, Source>>)>>)>>],
   none |-> [elements |-> <<Class(TRUE, <<Mos("e", 1, 1, 1, 1), Mos("f", 2, 1, 1, 1)>>)>>,
             nodes |-> << >>]]

-----------------------------------------------------------------------------

Same(a, b) == \A x \in ToSet(a) \cup ToSet(b) :
                Len(SelectSeq(a, LAMBDA y : y = x)) = Len(SelectSeq(b, LAMBDA y : y = x))

\* The pins of a member in its lines: names and numbers of an element, for a
\* node each sort of pin with how often it contacts one.
PinsShown(kind, m, lines) ==
  IF kind = "elements"
  THEN /\ Same([i \in DOMAIN lines |-> lines[i].name], [i \in DOMAIN m.pins |-> m.pins[i].name])
       /\ Same([i \in DOMAIN lines |-> lines[i].count],
               [i \in DOMAIN m.pins |->
                  IF m.pins[i].fanout # NoNode THEN m.pins[i].fanout
                  ELSE IF \E j \in DOMAIN m.pins \ {i} : m.pins[j].magic = m.pins[i].magic THEN 1 ELSE 0])
  ELSE Same(FlattenSeq([i \in DOMAIN lines |-> [k \in 1..lines[i].count |-> <<lines[i].model, lines[i].name>>]]),
            [i \in DOMAIN m.pins |-> <<m.pins[i].model, m.pins[i].names>>])

\* A column holds the members of one circuit, each once.
ColumnTrue(kind, column, members, graph) ==
  LET mine == SelectSeq(members, LAMBDA m : m.graph = graph)
  IN  /\ Same(NamesOf(column), NamesOf(mine))
      /\ \A i \in DOMAIN column, j \in DOMAIN mine :
           column[i].name = mine[j].name => PinsShown(kind, mine[j], column[i].lines)

\* The two columns agree where a name is on both sides.
SideBySide(e) == \A i \in DOMAIN e.left, j \in DOMAIN e.right :
                   e.left[i].name = e.right[j].name => i = j

Illegals(kind) == {i \in DOMAIN Of(kind) : ~Of(kind)[i].legal}

ClassesIn(style, kind) == {e.class : e \in {x \in ToSet(log) : x.job.style = style /\ x.job.kind = kind}}

\* A report of mismatches never shows half a class: each class in it has all
\* members of the two circuits once, in the column of their circuit, with all
\* their pins and numbers whatever was sorted, and members of one name stand
\* side by side.  The lists for Tcl are complete although the user stopped
\* the report printed before them (FormatIllegalNodeClasses,
\* SortUnmatchedLists, ListNodeClasses).
ReportTrue ==
  /\ \A n \in DOMAIN log :
       LET e == log[n]
           members == Of(e.job.kind)[e.class].members
       IN  e.job.style \in {"side", "list"} =>
             /\ ColumnTrue(e.job.kind, e.left, members, 1)
             /\ ColumnTrue(e.job.kind, e.right, members, 2)
             /\ e.job.style = "side" => SideBySide(e)
  /\ jobs = << >> => \A kind \in {"nodes", "elements"} :
       ClassesIn("list", kind) \in {{}, Illegals(kind)}
=============================================================================
