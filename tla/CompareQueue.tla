----------------------------- MODULE CompareQueue -----------------------------
(***************************************************************************)
(* The queue of cell pairs of a hierarchical comparison, and the flags and  *)
(* class hashes that steer it (base/netcmp.c).  CreateCompareQueue walks    *)
(* the two hierarchies from their deepest level up, and appends a pair for  *)
(* each cell that has a class equivalent in the other file; every cell in a *)
(* pair is flagged CELL_MATCHED, and no command of the Tcl interface clears *)
(* that flag again.                                                         *)
(*                                                                          *)
(* LookupPrematchedClass finds nothing: ClassCorrespondence gets a record   *)
(* only from an equate classes command with a wildcard file.                *)
(***************************************************************************)
EXTENDS CellHierarchy

VARIABLES
  queue,     \* CompareQueue
  matched,   \* the cells flagged CELL_MATCHED
  classhash  \* the class hash of every cell

queueVars == <<queue, matched, classhash>>

Other(f) == 3 - f

\* The first cell of the other file with c's class hash: which of several is
\* first depends on the hash table.
LookupClassEquivalent(c) ==
  LET found == {x \in Cell : x[2] # c[2] /\ classhash[x] = classhash[c]}
  IN  IF found = {} THEN NoCell ELSE CHOOSE x \in found : TRUE

\* Make the class hashes of two cells the same (equate classes).
EquivalenceClasses(hash, c1, c2) == [hash EXCEPT ![c2] = hash[c1]]

InitialHash(d) ==
  [c \in Cells(d) |->
     IF \E e \in d.equated : c = <<e[2], 2>>
     THEN (CHOOSE e \in d.equated : c = <<e[2], 2>>)[1]
     ELSE c[1]]

\* The cells n levels below the top of file f, in the order of the descent.
Top(f) == <<D.top[f], f>>
Level(f, n) == Opened(<<Top(f)>>, Cell, contents, n)

\* A cell and its class equivalent, that of circuit 1 first.
PairOf(c) ==
  LET c2 == LookupClassEquivalent(c) IN IF c[2] = 1 THEN <<c, c2>> ELSE <<c2, c>>

(***************************************************************************)
(* DescendCompareQueue where it reaches a cell at the level it is to stop   *)
(* at, with q the queue and the flags so far.                               *)
(***************************************************************************)
\* Mutants: the flag of the cell's equivalent is not set; a cell without an
\* equivalent is flagged.
FlagOnlyOne(q, c) ==
  IF ~Hierarchical(c) \/ c \in q.matched \/ LookupClassEquivalent(c) = NoCell THEN q
  ELSE [queue |-> Append(q.queue, PairOf(c)), matched |-> q.matched \cup {c}]

FlagUnpaired(q, c) ==
  IF ~Hierarchical(c) \/ c \in q.matched THEN q
  ELSE IF LookupClassEquivalent(c) = NoCell THEN [q EXCEPT !.matched = @ \cup {c}]
  ELSE [queue |-> Append(q.queue, PairOf(c)),
        matched |-> q.matched \cup {c, LookupClassEquivalent(c)}]

DescendCompareQueue(q, c) ==
  IF ~Hierarchical(c) \/ c \in q.matched \/ LookupClassEquivalent(c) = NoCell THEN q
  ELSE [queue |-> Append(q.queue, PairOf(c)),
        matched |-> q.matched \cup {c, LookupClassEquivalent(c)}]

AppendTop(q) ==
  [queue |-> Append(q.queue, <<Top(1), Top(2)>>),
   matched |-> q.matched \cup {Top(1), Top(2)}]

(***************************************************************************)
(* From the deepest level up, circuit 1 before circuit 2, the top pair      *)
(* last.  No cell is deeper than there are subcircuits, so that the empty   *)
(* levels below the one that DescendCountQueue finds do not matter.         *)
(***************************************************************************)
Visits ==
  LET deepest == Cardinality(DOMAIN contents)
  IN  FlattenSeq([i \in 1..deepest |->
                    Level(1, deepest + 1 - i) \o Level(2, deepest + 1 - i)])

CreateCompareQueue ==
  LET visits == Visits
      after[n \in 0..Len(visits)] ==
        IF n = 0 THEN [queue |-> << >>, matched |-> matched]
        ELSE DescendCompareQueue(after[n - 1], visits[n])
  IN  AppendTop(after[Len(visits)])

(***************************************************************************)
(* FlattenUnmatched(tc, name, 1, 0): every subcircuit instance in p that is *)
(* not flagged is flattened, and then those that came with it.              *)
(***************************************************************************)
FlattenUnmatched(ct, p) ==
  IF p \notin DOMAIN ct THEN ct
  ELSE [ct EXCEPT ![p] =
          Expanded(@, {c \in DOMAIN ct \ matched : MayFlatten(p, c)}, ct)]

InitQueue ==
  /\ queue = << >>
  /\ matched = {}
  /\ classhash = InitialHash(D)
=============================================================================
