------------------------------- MODULE Prematch -------------------------------
(***************************************************************************)
(* PrematchLists (base/flatten.c): before two cells are compared, count     *)
(* their instances of each class, and flatten the instances of subcircuits  *)
(* of which the two cells have a different number when that makes the       *)
(* counts agree better.  The entries of the count table are visited in hash *)
(* order, which is arbitrary; an entry that is registered under the names   *)
(* of both of its cells is visited twice.  Every visit reads and changes    *)
(* the counts that earlier visits left.                                     *)
(*                                                                          *)
(* The removal of zero-valued devices, also part of PrematchLists, is in    *)
(* module Flattening.                                                       *)
(***************************************************************************)
EXTENDS CompareQueue

VARIABLES
  pair,      \* the two cells being compared
  entryOf,   \* compdict: the entry that each registered cell leads to
  num,       \* for each entry, the number of instances in either circuit
  todo,      \* the keys of the table still to be visited
  modified,  \* whether this call has modified a circuit
  listX0,    \* the entries found only in circuit 1
  list0X     \* the entries found only in circuit 2

prematchVars == <<entryOf, num, todo, modified, listX0, list0X>>

\* The cells of an entry: the one it was made for and its class equivalent.
CellOf(e, s) == IF e[2] = s THEN e ELSE LookupClassEquivalent(e)

Opposite(n) == 3 - n

(***************************************************************************)
(* SurveyCell: count the instance c in the table.                           *)
(***************************************************************************)
Survey(table, c) ==
  LET teq == LookupClassEquivalent(c)
      one == IF c[2] = 1 THEN <<1, 0>> ELSE <<0, 1>>
      keys == {c} \cup ({teq} \ ({NoCell} \cup DOMAIN table.entryOf))
      entry == table.entryOf[c]
  IN  IF c \in DOMAIN table.entryOf
      THEN [table EXCEPT !.num[entry][c[2]] = @ + 1]
      ELSE [entryOf |-> [k \in DOMAIN table.entryOf \cup keys |->
                           IF k \in keys THEN c ELSE table.entryOf[k]],
            num |-> [e \in DOMAIN table.num \cup {c} |->
                       IF e = c THEN one ELSE table.num[e]]]

Surveyed(ct) ==
  FoldLeft(Survey, [entryOf |-> << >>, num |-> << >>],
           Instances(ct, pair[1]) \o Instances(ct, pair[2]))

(***************************************************************************)
(* Weighing: what would the counts of the classes in a child become?  The   *)
(* loop over the instances of the child stops at the first that speaks      *)
(* against flattening, or whose class is in neither circuit.                *)
(***************************************************************************)
NoAdds == [e \in DOMAIN num |-> <<0, 0>>]

\* Case 1: instances in both circuits would be flattened, n of them in each.
WeighBoth(n, w, x) ==
  IF w.stopped THEN w
  ELSE IF x \notin DOMAIN entryOf THEN [w EXCEPT !.stopped = TRUE]
  ELSE LET e == entryOf[x]
           add == w.add[e]
           after == <<add[1] + n[1], add[2] + n[2]>>
       IN  IF \/ num[e][1] > num[e][2] /\ after[2] >= after[1]
              \/ num[e][1] < num[e][2] /\ after[2] <= after[1]
           THEN [w EXCEPT !.add[e] = after]
           ELSE [w EXCEPT !.stopped = TRUE, !.match = FALSE]

\* Cases 2 and 3: instances in circuit s only would be flattened.
WeighOne(n, s, w, x) ==
  IF w.stopped THEN w
  ELSE IF x \notin DOMAIN entryOf
       THEN [w EXCEPT !.stopped = TRUE, !.match = FALSE]
  ELSE LET e == entryOf[x]
           after == w.add[e][s] + n
       IN  IF num[e][Opposite(s)] > num[e][s] /\ after <= num[e][Opposite(s)]
           THEN [w EXCEPT !.add[e][s] = after]
           ELSE [w EXCEPT !.stopped = TRUE, !.match = FALSE]

Weigh(op(_, _), s, e) ==
  FoldLeft(op, [add |-> NoAdds, match |-> TRUE, stopped |-> FALSE],
           Instances(contents, CellOf(e, s)))

Adjusted(add) ==
  [e \in DOMAIN num |-> <<num[e][1] + add[e][1], num[e][2] + add[e][2]>>]

Differs(e) == num[e][1] # num[e][2]
IsSubckt(c) == c # NoCell /\ Kind(c) = "subckt"

FlattenIn(ct, s, e) ==
  IF num[e][s] > 0 THEN flattenInstancesOf(ct, pair[s], CellOf(e, s)) ELSE ct

\* Case 1: both cells are subcircuits, and flattening both of them improves
\* the matching.  The contents of the cell of circuit 2 stand for both.
Case1(e) ==
  LET w == Weigh(LAMBDA v, x : WeighBoth(num[e], v, x), 2, e)
      ct == FlattenIn(FlattenIn(contents, 1, e), 2, e)
      unresolved == ~w.match
  IN  /\ Differs(e) /\ IsSubckt(CellOf(e, 1)) /\ IsSubckt(CellOf(e, 2))
      /\ IF w.match
         THEN /\ contents' = ct
              /\ modified' = (modified \/ ct # contents)
              /\ num' = [Adjusted(w.add) EXCEPT ![e] = <<0, 0>>]
         ELSE UNCHANGED <<contents, modified, num>>
      /\ listX0' = IF unresolved /\ num[e][2] = 0 THEN <<e>> \o listX0 ELSE listX0
      /\ list0X' = IF unresolved /\ num[e][1] = 0 THEN <<e>> \o list0X ELSE list0X

BothSubckts(e) == IsSubckt(CellOf(e, 1)) /\ IsSubckt(CellOf(e, 2))

\* Cases 2 and 3: the cell of circuit s is a subcircuit, and flattening it
\* (without regard to the other) improves the matching; not when the other
\* is a black box, because it cannot also be flattened.
CaseOne(e, s) ==
  LET w == Weigh(LAMBDA v, x : WeighOne(num[e][s], s, v, x), s, e)
      o == Opposite(s)
      blocked == num[e][o] # 0 /\ Kind(CellOf(e, o)) = "module"
      ct == IF blocked THEN contents ELSE FlattenIn(contents, s, e)
  IN  /\ Differs(e) /\ ~BothSubckts(e)
      /\ IsSubckt(CellOf(e, s)) /\ num[e][s] # 0
      /\ IF w.match
         THEN /\ contents' = ct
              /\ modified' = (modified \/ ct # contents)
              /\ num' = [Adjusted(w.add) EXCEPT ![e][s] = 0]
         ELSE UNCHANGED <<contents, modified, num>>
      /\ UNCHANGED <<listX0, list0X>>

NoCase(e) ==
  /\ ~Differs(e) \/ (/\ ~BothSubckts(e)
                     /\ \A s \in File : ~IsSubckt(CellOf(e, s)) \/ num[e][s] = 0)
  /\ UNCHANGED <<contents, modified, num, listX0, list0X>>

\* One turn of the loop over the table.  Where both circuits' cells could be
\* flattened alone, case 2 goes first; it needs one that is no subcircuit.
PrematchEntry(k) ==
  /\ k \in todo
  /\ todo' = todo \ {k}
  /\ \/ Case1(entryOf[k])
     \/ \E s \in File : CaseOne(entryOf[k], s)
     \/ NoCase(entryOf[k])
  /\ UNCHANGED entryOf

(***************************************************************************)
(* The classes found in one circuit only, checked against those found in    *)
(* the other only: is one a part of the other?  The code adds a count that  *)
(* it has just set to zero, so that only the zero has an effect.            *)
(***************************************************************************)
PartOf(e, s, f, r) ==
  /\ \E x \in ToSet(Instances(contents, CellOf(e, s))) :
       x \in DOMAIN entryOf /\ entryOf[x] = f
  /\ r.num[f][Opposite(s)] <= r.num[e][s]

FlattenEntry(r, e, s) ==
  LET ct == flattenInstancesOf(r.contents, pair[s], CellOf(e, s))
  IN  IF ct = r.contents THEN r
      ELSE [r EXCEPT !.contents = ct, !.num[e][s] = 0]

CrossCheck(r, ef) ==
  LET first == IF PartOf(ef[1], 1, ef[2], r) THEN FlattenEntry(r, ef[1], 1) ELSE r
  IN  IF r.num[ef[1]][1] = 0 \/ r.num[ef[2]][2] = 0 THEN r
      ELSE IF PartOf(ef[2], 2, ef[1], first)
           THEN FlattenEntry(first, ef[2], 2) ELSE first

CrossChecked ==
  LET pairs == FlattenSeq([i \in DOMAIN listX0 |->
                             [j \in DOMAIN list0X |-> <<listX0[i], list0X[j]>>]])
      after[n \in 0..Len(pairs)] ==
        IF n = 0 THEN [contents |-> contents, num |-> num]
        ELSE CrossCheck(after[n - 1], pairs[n])
  IN  after[Len(pairs)]
=============================================================================
