--------------------------- MODULE PropertyNetworks ---------------------------
(***************************************************************************)
(* The property records of two corresponding devices (base/netcmp.c,        *)
(* PropertyMatch): the two lists are reduced and sorted until their records *)
(* can be compared one to one.  A list is a sequence of records [tags,      *)
(* props] as DeviceMerge leaves it.  There is one property of interest,     *)
(* "value", beside the numbers of devices in parallel, M, and in series, S; *)
(* a value is a fraction <<numerator, denominator>>.                        *)
(***************************************************************************)
EXTENDS Integers, FiniteSets, SequencesExt

CONSTANTS Merges,         \* merge type of value: "p_add", "p_par", "p_crit",
                          \* "s_add", "s_par" and "s_crit", at most one of each letter
          MDeclared,      \* M is a property of the cell, S is not
          Tolerance,      \* slop of value, a fraction
          ExactTopology

LOCAL None == -1          \* a property that a record does not have
LOCAL Abs(n) == IF n < 0 THEN -n ELSE n

Prop(rec, key) == IF key \in DOMAIN rec.props THEN rec.props[key] ELSE None
Times(rec, key) == IF Prop(rec, key) = None THEN 1 ELSE Prop(rec, key)
Value(rec) == IF "value" \in DOMAIN rec.props THEN rec.props["value"] ELSE <<0, 1>>

\* The difference of two fractions over their sum is at most half the slop.
Close(r, s) ==
  2 * Abs(r[1] * s[2] - s[1] * r[2]) * Tolerance[2]
    <= (r[1] * s[2] + s[1] * r[2]) * Tolerance[1]

Set(rec, key, v) == [rec EXCEPT !.props = (key :> v) @@ @]

-----------------------------------------------------------------------------
(* Groups and networks.                                                     *)

\* The tags of a list in order: the record, which of its tags, the character.
Letters(recs) ==
  FlattenSeq([k \in DOMAIN recs |->
    FlattenSeq([t \in DOMAIN recs[k].tags |->
      [c \in DOMAIN recs[k].tags[t] |-> <<k, t, recs[k].tags[t][c]>>]])])

\* The tags of the first group without a device in series, <<record, tag>>: those
\* that open and close it, or the one that opens it when it ends with the list.
\* A close with no group before it that is open still is `lost`.
FirstGroup(recs) ==
  LET Scan(acc, x) ==
        IF acc.found # << >> THEN acc
        ELSE CASE x[3] = "(" -> [acc EXCEPT !.open = <<x[1], x[2]>>, !.series = 0]
               [] x[3] = "+" -> [acc EXCEPT !.series = @ + 1]
               [] x[3] = ")" /\ acc.series = 0 ->
                    [acc EXCEPT !.found = <<acc.open, <<x[1], x[2]>>>>]
               [] x[3] = ")" /\ acc.series > 0 -> [acc EXCEPT !.open = << >>, !.series = 0]
               [] OTHER -> acc
      all == FoldLeft(Scan, [open |-> << >>, series |-> 0, found |-> << >>], Letters(recs))
  IN  IF all.found # << >> \/ all.open = << >> \/ all.series > 0 THEN all.found
      ELSE <<all.open>>

\* remove_group_tags, until no group is left to remove.
RemoveGroupTags(recs) ==
  LET Without(r, x) == [r EXCEPT ![x[1]].tags = RemoveAt(@, x[2])]
      Again(r, i) == IF << >> \in ToSet(FirstGroup(r)) THEN r
                     ELSE FoldRight(LAMBDA x, s : Without(s, x), FirstGroup(r), r)
  IN  FoldLeftDomain(Again, recs, Letters(recs))

\* It writes through a null pointer when the close of an outer group follows.
LostGroup(recs) == << >> \in ToSet(FirstGroup(RemoveGroupTags(recs)))

\* The network as a string, one D for every record, and its end.
Network(recs) ==
  FlattenSeq([k \in DOMAIN recs |-> FlattenSeq(recs[k].tags) \o <<"D">>]) \o <<"0">>

\* The longest run of devices in parallel: no tag between them.
ParallelRun(net) ==
  LET Scan(a, c) ==
        IF c = "D" THEN [a EXCEPT !.run = @ + 1, !.cnt = @ + 1]
        ELSE IF a.run > a.max
             THEN [a EXCEPT !.max = a.run, !.idx = a.cnt - a.run, !.run = 0]
             ELSE [a EXCEPT !.run = 0]
  IN  FoldLeft(Scan, [run |-> 0, cnt |-> 0, max |-> 0, idx |-> 0], net)

\* The longest run of devices in series, joined by "+".  A device in parallel
\* does not end the run, but moves the place where it is said to start.
SeriesRun(net) ==
  LET Joined(k) == k + 2 <= Len(net) /\ net[k + 1] = "+" /\ net[k + 2] = "D"
      Scan(a, k) ==
        IF k > 1 /\ net[k - 1] = "D" /\ Joined(k - 1) THEN a
        ELSE IF net[k] = "D"
             THEN [a EXCEPT !.cnt = @ + 1,
                            !.run = (IF @ = 0 THEN 1 ELSE @) + (IF Joined(k) THEN 1 ELSE 0)]
        ELSE IF a.run > a.max
             THEN [a EXCEPT !.max = a.run, !.idx = a.cnt - a.run, !.run = 0]
             ELSE [a EXCEPT !.run = 0]
  IN  FoldLeftDomain(Scan, [run |-> 0, cnt |-> 0, max |-> 0, idx |-> 0], net)
-----------------------------------------------------------------------------
(* Reducing a run of records to fewer.                                      *)

CountKey(series) == IF series THEN "S" ELSE "M"
OtherKey(series) == IF series THEN "M" ELSE "S"

\* Mutant of Alike: the values are not compared.
AnyValue(a, b, series) == series /\ MDeclared => Times(a, "M") = Times(b, "M")

\* Records whose properties of interest agree; in a series run M is one of them
\* when it is declared, while S is never compared in a parallel run.
Alike(a, b, series) ==
  /\ "value" \in DOMAIN a.props \cup DOMAIN b.props => Close(Value(a), Value(b))
  /\ series /\ MDeclared => Times(a, "M") = Times(b, "M")

\* M and S at once: topologically ambiguous, no merge in a strict topology.
Ambiguous(run, series) ==
  /\ ExactTopology
  /\ \E k \in DOMAIN run : /\ Prop(run[k], OtherKey(series)) > 1
                           /\ ~(series /\ MDeclared)

Removed(k, times) == k > 1 /\ times = 0

\* Each record takes the M (S) of the later ones like it, which then have none.
\* Records without an M that were taken share one cell for it, `shared`; a record
\* is removed when its M is zero in the end.
SumTimes(run, series) ==
  LET n == Len(run)
      start == [m |-> [k \in 1..n |-> Prop(run[k], CountKey(series))], null |-> {}, shared |-> 0]
      At(a, k) == IF k \in a.null THEN a.shared ELSE a.m[k]
      Put(a, k, v) == IF k \in a.null THEN [a EXCEPT !.shared = v] ELSE [a EXCEPT !.m[k] = v]
      Take(a, x) ==
        LET i == x[1]
            j == x[2]
            b == IF At(a, i) = None THEN Put(a, i, 1) ELSE a
            c == IF At(b, j) = None
                 THEN LET z == [b EXCEPT !.null = @ \cup {j}] IN Put(z, i, At(z, i) + 1)
                 ELSE IF At(b, j) > 0 THEN Put(Put(b, i, At(b, i) + At(b, j)), j, 0) ELSE b
        IN  IF Alike(run[i], run[j], series) THEN c ELSE a
      pairs == FlattenSeq([i \in 1..n |-> [d \in 1..(n - i) |-> <<i, i + d>>]])
      end == FoldLeft(Take, start, pairs)
      Kept(k) == IF k \in end.null \/ end.m[k] = None THEN run[k]
                 ELSE Set(run[k], CountKey(series), end.m[k])
  IN  FlattenSeq([k \in 1..n |-> IF Removed(k, At(end, k)) THEN << >> ELSE <<Kept(k)>>])

Sum(r, s) == <<r[1] * s[2] + s[1] * r[2], r[2] * s[2]>>
Parallel(r, s) == <<r[1] * s[1], r[1] * s[2] + s[1] * r[2]>>
Scaled(v, n, merge) == IF merge = "add" THEN <<v[1] * n, v[2]>> ELSE <<v[1], v[2] * n>>

\* How the value merges: "add", "par", "crit" or "none".
Merge(series) ==
  LET p == IF series THEN "s_" ELSE "p_"
  IN  IF p \o "add" \in Merges THEN "add"
      ELSE IF p \o "par" \in Merges THEN "par"
      ELSE IF p \o "crit" \in Merges THEN "crit" ELSE "none"

\* The last resort: the value takes over M (S), then all values go into the first.
MergeValues(run, series) ==
  LET merge == Merge(series)
      Folded(r) == IF "value" \in DOMAIN r.props /\ Times(r, CountKey(series)) > 1
                   THEN Set(Set(r, "value", Scaled(Value(r), Times(r, CountKey(series)), merge)),
                            CountKey(series), 1)
                   ELSE r
      runF == [k \in DOMAIN run |-> Folded(run[k])]
      Into(v, k) == IF k = 1 \/ "value" \notin DOMAIN run[k].props THEN v
                    ELSE IF merge = "add" THEN Sum(v, Value(runF[k])) ELSE Parallel(Value(runF[k]), v)
      first == IF "value" \in DOMAIN run[1].props
               THEN Set(runF[1], "value", FoldLeftDomain(Into, Value(runF[1]), run))
               ELSE runF[1]
      Stays(k) == k = 1 \/ "value" \notin DOMAIN run[k].props
  IN  IF merge \in {"none", "crit"} THEN run
      ELSE FlattenSeq([k \in DOMAIN run |->
             IF ~Stays(k) THEN << >> ELSE <<IF k = 1 THEN first ELSE runF[k]>>])

\* PropertyOptimize on the n records after the first idx.  The result is negative
\* if records could have been merged but must not.
Optimize(recs, idx, n, series, comb) ==
  LET run == SubSeq(recs, idx + 1, idx + n)
      new == IF comb THEN MergeValues(run, series) ELSE SumTimes(run, series)
      last == Times(run[n], CountKey(series))
      folded == IF comb /\ last > 1 /\ "value" \in DOMAIN run[n].props /\ Merge(series) \in {"add", "par"} THEN last ELSE 0
      pairs == {x \in (1..n) \X (1..n) : x[1] < x[2] /\ Alike(run[x[1]], run[x[2]], series)}
  IN  IF ~comb /\ Ambiguous(run, series)
      THEN [recs |-> recs, changed |-> IF pairs = {} THEN 0 ELSE -1]
      ELSE [recs |-> SubSeq(recs, 1, idx) \o new \o SubSeq(recs, idx + n + 1, Len(recs)),
            changed |-> folded + n - Len(new)]
-----------------------------------------------------------------------------
(* Sorting a run, and PropertySortAndCombine.                               *)

\* compdsort on <<value, second value, slop>>: within the slop the second decides.
After(x, y) ==
  LET near == Abs(x[1][1] * y[1][2] - y[1][1] * x[1][2]) * x[3][2]
                <= (x[1][1] * y[1][2] + y[1][1] * x[1][2]) * x[3][1]
  IN  IF near THEN x[2][1] * y[2][2] > y[2][1] * x[2][2]
      ELSE x[1][1] * y[1][2] > y[1][1] * x[1][2]

\* What a record is sorted by: the value, then M (S), or the other way round when
\* the value does not merge.  Without an S, series_sort takes that of the record
\* before.
SortKey(recs, k, series) ==
  LET given == {j \in 1..k : Prop(recs[j], "S") # None}
      times == IF ~series THEN Times(recs[k], "M")
               ELSE IF given = {} THEN 1
               ELSE Prop(recs[CHOOSE j \in given : \A i \in given : i <= j], "S")
  IN  IF Merge(series) = "none" THEN <<<<times, 1>>, Value(recs[k]), <<0, 1>>>>
      ELSE <<Value(recs[k]), <<times, 1>>, Tolerance>>

\* qsort, as a stable sort.
Sorted(run, series) ==
  LET Insert(order, k) ==
        LET before == {p \in DOMAIN order :
                         ~After(SortKey(run, order[p], series), SortKey(run, k, series))}
            at == 1 + Cardinality({p \in DOMAIN order :
                                     \E q \in before : p <= q})
        IN  InsertAt(order, at, k)
      order == FoldLeftDomain(Insert, << >>, run)
  IN  [p \in DOMAIN order |-> run[order[p]]]

\* Mutant of SortRun: the records stay in the order of the devices.
Unsorted(recs, idx, n, series) == recs

SortRun(recs, idx, n, series) ==
  IF n <= 1 THEN recs
  ELSE SubSeq(recs, 1, idx) \o Sorted(SubSeq(recs, idx + 1, idx + n), series)
       \o SubSeq(recs, idx + n + 1, Len(recs))

\* A "+" that sorting moved to the first record of the list goes to the first of
\* the next records that has no tag; a sort of devices in parallel does not do it.
MovePlus(recs, n) ==
  LET bare == {k \in 2..n : recs[k].tags = << >>}
      off == [recs EXCEPT ![1].tags = Tail(@)]
  IN  IF recs[1].tags = << >> \/ recs[1].tags[1] # <<"+">> THEN recs
      ELSE IF bare = {} THEN off
      ELSE [off EXCEPT ![CHOOSE k \in bare : \A j \in bare : k <= j].tags = <<<<"+">>>>]

SortSeries(recs, idx, n) ==
  IF n <= 1 THEN recs ELSE MovePlus(SortRun(recs, idx, n, TRUE), n)

\* Reduce the longest run of one list: by M (S); when that is ambiguous and the
\* run is longer than that of the other list, by the value, as the other kind.
Reduce(recs, run, other, series) ==
  LET same == Optimize(recs, run.idx, run.max, series, FALSE)
      last == Optimize(recs, run.idx, run.max, ~series, TRUE)
  IN  IF run.max <= 1 THEN [recs |-> recs, changed |-> 0]
      ELSE IF same.changed < 0 /\ run.max > other.max THEN last
      ELSE same

\* What follows for both lists, reduced as in pair; `more` says that the loop goes on.
Reduced(pair) == pair[1].changed > 0 \/ pair[2].changed > 0
ReduceBoth(lists, runs, series) ==
  <<Reduce(lists[1], runs[1], runs[2], series), Reduce(lists[2], runs[2], runs[1], series)>>

AfterSeries(pair, runs) ==
  IF Reduced(pair) THEN [lists |-> [k \in 1..2 |-> pair[k].recs], more |-> TRUE]
  ELSE [lists |-> [k \in 1..2 |-> SortSeries(pair[k].recs, runs[k].idx, runs[k].max)],
        more |-> FALSE]

AfterParallel(pair, runs, seriesRuns) ==
  LET sorted == [k \in 1..2 |-> SortRun(pair[k].recs, runs[k].idx, runs[k].max, FALSE)]
  IN  IF Reduced(pair) THEN [lists |-> [k \in 1..2 |-> pair[k].recs], more |-> TRUE]
      ELSE AfterSeries(ReduceBoth(sorted, seriesRuns, TRUE), seriesRuns)

\* One round of the loop on a pair of lists without their group tags.
RoundOf(lists, runs, seriesRuns) ==
  IF \A k \in 1..2 : Len(lists[k]) < 2 THEN [lists |-> lists, more |-> FALSE]
  ELSE AfterParallel(ReduceBoth(lists, runs, FALSE), runs, seriesRuns)

Round(lists) ==
  LET bare == [k \in 1..2 |-> RemoveGroupTags(lists[k])]
  IN  RoundOf(bare, [k \in 1..2 |-> ParallelRun(Network(bare[k]))],
              [k \in 1..2 |-> SeriesRun(Network(bare[k]))])

-----------------------------------------------------------------------------
(* PropertyMatch: the records are compared one to one.                      *)

\* PropertyCheckMismatch: the number of properties that differ.  The tags are not
\* properties of interest.
Mismatches(a, b) ==
  (IF "value" \notin DOMAIN a.props \cup DOMAIN b.props THEN 0
   ELSE IF "value" \in DOMAIN a.props \cap DOMAIN b.props /\ Close(Value(a), Value(b))
   THEN 0 ELSE 1)
  + (IF Times(a, "M") = Times(b, "M") THEN 0 ELSE 1)
  + (IF Times(a, "S") = Times(b, "S") THEN 0 ELSE 1)

\* What is left of a list when only M and S are to be reduced to 1.
LastResort(recs, series) == Optimize(recs, 0, Len(recs), series, TRUE).recs

\* One record of each list, with the last resort on what is left of both.  (When
\* both M and S differ the later property decides; S, which is added behind.)
FirstTwo(lists) == [lists |-> lists, count |-> Mismatches(Head(lists[1]), Head(lists[2]))]
Compare(lists) ==
  LET Same(key) == Times(Head(lists[1]), key) = Times(Head(lists[2]), key)
  IN  FirstTwo(IF Same("S") /\ Same("M") /\ Len(lists[1]) = Len(lists[2]) THEN lists
               ELSE [k \in 1..2 |-> LastResort(lists[k], ~Same("S"))])

\* The mismatch of a record against a device without any, or with no more.
Required(rec) ==
  "value" \in DOMAIN rec.props \/ Times(rec, "M") # 1 \/ Times(rec, "S") # 1
===============================================================================
