--------------------------------- MODULE Lvs ---------------------------------
(***************************************************************************)
(* The lvs procedure (tcltk/netgen.tcl.in) and the command it repeats,      *)
(* compare hierarchical (_netcmp_compare, tcltk/tclnetgen.c): take the next *)
(* pair of cells from the queue, flatten what has to be flattened, compare, *)
(* and decide from the outcome whether the pair is one class from now on or *)
(* is flattened into its parents.                                           *)
(*                                                                          *)
(* The comparison of two cells is one step here: cells whose bags of        *)
(* instance classes differ never match; those whose bags agree may have any *)
(* of the Outcomes, as their nets decide.  Likewise PinResults are the      *)
(* values that equate pins may return.  Where the nets agree the outcome is *)
(* always a unique match with matching pins.                                *)
(***************************************************************************)
EXTENDS Prematch

CONSTANTS
  Outcomes,   \* outcomes of comparing cells with the same bag of instances
  PinResults  \* results of equate pins

AllOutcomes == {"unique",     \* 1: unique match
                "properties", \* -3: unique, with property errors
                "ports",      \* -2: unique, with port errors
                "both",       \* -4: unique, with port and property errors
                "symmetric",  \* 0: equivalent but not unique
                "mismatch"}   \* not equivalent

ASSUME LvsAssumption ==
  /\ Outcomes \subseteq AllOutcomes
  /\ PinResults \subseteq -2..2

VARIABLES
  pc,             \* where the procedure is
  verdict,        \* the outcome of the last comparison
  pinMismatch,    \* the top cells' pins do not match
  childMismatch,  \* a pair of subcells was declared black boxes on a mismatch
  forced,         \* the pairs compared as black boxes or prohibited
  answer,         \* the final result
  runs            \* calls of lvs so far

lvsVars == <<verdict, pinMismatch, childMismatch, forced, answer, runs>>
vars == <<hierarchyVars, queueVars, pair, prematchVars, pc, lvsVars>>

NotTop == queue # << >>

Init ==
  /\ InitHierarchy
  /\ InitQueue
  /\ pair = <<NoCell, NoCell>>
  /\ entryOf = << >> /\ num = << >> /\ todo = {}
  /\ modified = FALSE /\ listX0 = << >> /\ list0X = << >>
  /\ pc = "start"
  /\ verdict = "none"
  /\ pinMismatch = FALSE /\ childMismatch = FALSE
  /\ forced = {}
  /\ answer = "none"
  /\ runs = 0

(***************************************************************************)
(* netgen::lvs up to its loop: prohibit flattening of the cells of the      *)
(* -noflatten option, and create the queue.                                 *)
(***************************************************************************)
Noflat(c) == c[1] \in D.noflat

StartLvs ==
  /\ pc = "start"
  /\ placeholder' = placeholder \cup {c \in Cell : Noflat(c)}
  /\ queue' = CreateCompareQueue.queue
  /\ matched' = CreateCompareQueue.matched
  /\ pinMismatch' = FALSE /\ childMismatch' = FALSE
  /\ runs' = runs + 1
  /\ pc' = "next"
  /\ UNCHANGED <<design, contents, classhash, pair, prematchVars, verdict,
                 forced, answer>>

\* Cells of which one is an empty placeholder are not flattened to match.
BlackBox(p) ==
  LET empty(c) == ~HasContents(contents, c) /\ c \in placeholder
      full(c) == HasContents(contents, c)
  IN  \/ full(p[1]) /\ empty(p[2])
      \/ full(p[2]) /\ empty(p[1])
      \/ empty(p[1]) /\ empty(p[2])

\* compare hierarchical: pop the queue.
GetCompareQueueTop ==
  /\ pc = "next" /\ NotTop
  /\ pair' = Head(queue)
  /\ queue' = Tail(queue)
  /\ pc' = IF BlackBox(Head(queue)) THEN "compare" ELSE "flatten"
  /\ UNCHANGED <<hierarchyVars, matched, classhash, prematchVars, lvsVars>>

Flattened == FlattenUnmatched(FlattenUnmatched(contents, pair[1]), pair[2])

FlattenBoth ==
  /\ pc = "flatten"
  /\ contents' = Flattened
  /\ entryOf' = Surveyed(Flattened).entryOf
  /\ num' = Surveyed(Flattened).num
  /\ todo' = DOMAIN Surveyed(Flattened).entryOf
  /\ modified' = FALSE /\ listX0' = << >> /\ list0X' = << >>
  /\ pc' = "prematch"
  /\ UNCHANGED <<design, placeholder, queueVars, pair, lvsVars>>

PrematchStep ==
  /\ pc = "prematch"
  /\ \E k \in todo : PrematchEntry(k)
  /\ UNCHANGED <<design, placeholder, queueVars, pair, pc, lvsVars>>

\* The end of PrematchLists, and of the loop that repeats it.
PrematchEnd ==
  LET ct == IF modified THEN contents ELSE CrossChecked.contents
  IN  /\ pc = "prematch" /\ todo = {}
      /\ contents' = ct
      /\ pc' = IF modified \/ ct # contents THEN "flatten" ELSE "compare"
      /\ entryOf' = << >> /\ num' = << >>
      /\ modified' = FALSE /\ listX0' = << >> /\ list0X' = << >>
      /\ UNCHANGED <<design, placeholder, queueVars, pair, todo, lvsVars>>

(***************************************************************************)
(* CreateTwoLists, run converge, run resolve and verify, as one step.       *)
(***************************************************************************)
Classes(c) ==
  LET s == Instances(contents, c)
  IN  [h \in {classhash[x] : x \in ToSet(s)} |->
         Cardinality({i \in DOMAIN s : classhash[s[i]] = h})]

Verdicts(p) ==
  IF \E s \in File : ~HasContents(contents, p[s]) THEN {"blackbox"}
  ELSE IF Classes(p[1]) # Classes(p[2]) THEN {"mismatch"}
  ELSE IF D.agree THEN {"unique"} ELSE Outcomes

Compare ==
  /\ pc = "compare"
  /\ verdict' \in Verdicts(pair)
  /\ forced' = IF verdict' = "blackbox" THEN forced \cup {pair} ELSE forced
  /\ pc' = "decide"
  /\ UNCHANGED <<hierarchyVars, queueVars, pair, prematchVars, pinMismatch,
                 childMismatch, answer, runs>>

(***************************************************************************)
(* The rest of the loop's body.                                             *)
(***************************************************************************)
DoCheckFlatten == verdict \in {"symmetric", "ports", "both", "mismatch"}

\* A mismatch of cells that must not be flattened: they become black boxes.
Prohibited == DoCheckFlatten /\ NotTop /\ (Noflat(pair[1]) \/ Noflat(pair[2]))

ForceMatch == verdict = "blackbox" \/ Prohibited

DoEquatePins ==
  ~NotTop \/ verdict \notin {"symmetric", "mismatch"} \/ Prohibited

\* Mutants of DoFlatten: a mismatched pair is kept; pin results are ignored.
NeverFlatten(r) == FALSE
FlattenUnlessPinsMatch(r) == DoCheckFlatten /\ NotTop /\ ~Prohibited /\ r # 1

DoFlatten(r) ==
  LET mismatch == DoCheckFlatten /\ NotTop /\ ~Prohibited
  IN  IF ~DoEquatePins THEN mismatch
      ELSE IF r < 0 THEN mismatch \/ (r = -1 /\ NotTop /\ ~ForceMatch)
      ELSE mismatch /\ ~NotTop /\ r = 0

\* flatten prohibit sets the flag on both cells, and so does equate pins when
\* a cell without elements, or forced, has it in one circuit.
SetPlaceholders(p) ==
  placeholder \cup
  IF Prohibited \/ (ForceMatch /\ \E s \in File : p[s] \in placeholder)
  THEN {p[1], p[2]} ELSE {}

Decide(r) ==
  /\ pc = "decide"
  /\ placeholder' = SetPlaceholders(pair)
  /\ forced' = IF ForceMatch THEN forced \cup {pair} ELSE forced
  /\ childMismatch' = (childMismatch \/ Prohibited)
  /\ pinMismatch' = (DoEquatePins /\ ~NotTop /\ r = 0)
  /\ classhash' = IF DoEquatePins /\ r >= 0
                  THEN EquivalenceClasses(classhash, pair[1], pair[2])
                  ELSE classhash
  /\ IF DoFlatten(r) THEN pc' = "flatten class" ELSE pc' = "next"
  /\ UNCHANGED <<design, contents, queue, matched, pair, prematchVars, verdict,
                 answer, runs>>

FlattenPair ==
  /\ pc = "flatten class"
  /\ contents' = FlattenInstancesOf(FlattenInstancesOf(contents, pair[1]),
                                    pair[2])
  /\ pc' = "next"
  /\ UNCHANGED <<design, placeholder, queueVars, pair, prematchVars, lvsVars>>

\* The final result: verify only prints what the comparison of the top found.
FinalResult ==
  IF pinMismatch \/ childMismatch THEN "fail"
  ELSE IF verdict = "blackbox" THEN "unchecked"
  ELSE IF verdict = "mismatch" THEN "fail"
  ELSE "match"

EndLvs ==
  /\ pc = "next" /\ ~NotTop
  /\ answer' = FinalResult
  /\ pc' = "done"
  /\ UNCHANGED <<hierarchyVars, queueVars, pair, prematchVars, verdict,
                 pinMismatch, childMismatch, forced, runs>>

\* lvs is called once more in the same session, on the same cells.
Again ==
  /\ pc = "done" /\ runs < D.calls
  /\ pc' = "start"
  /\ UNCHANGED <<hierarchyVars, queueVars, pair, prematchVars, lvsVars>>

Next ==
  \/ StartLvs
  \/ GetCompareQueueTop
  \/ FlattenBoth
  \/ PrematchStep
  \/ PrematchEnd
  \/ Compare
  \/ \E r \in IF D.agree THEN {1} ELSE PinResults : Decide(r)
  \/ FlattenPair
  \/ EndLvs
  \/ Again

(***************************************************************************)
(* One thread runs the procedure: it goes on to its next place, and within  *)
(* PrematchLists to the next entry of the table, for as long as there is    *)
(* one.                                                                     *)
(***************************************************************************)
Places == {"start", "next", "flatten", "prematch", "compare", "decide",
           "flatten class", "done"}

NextPlace ==
  /\ pc # "done" \/ runs < D.calls
  /\ pc = "prematch" => todo = {}
  /\ pc' \in Places

NextEntry == pc = "prematch" /\ \E k \in todo : todo' = todo \ {k}

Spec == Init /\ [][Next]_vars /\ WF_pc(NextPlace) /\ WF_todo(NextEntry)
=============================================================================
