----------------------------- MODULE Refinement -----------------------------
(***************************************************************************)
(* What the comparison promises, whatever the hash values are: a command    *)
(* splits the classes it was given and never merges any, a class without as *)
(* many members of either circuit is never forgotten, and netlists are      *)
(* called a unique match only when every class is a pair of corresponding   *)
(* members.  (File header, base/netcmp.c: a legal class has an equal number *)
(* of components from each graph.)                                          *)
(***************************************************************************)
EXTENDS Integers, FiniteSets

CONSTANT Side  \* the circuit that every element and net comes from

VARIABLES
  partition,  \* the classes of the elements and nets of both circuits
  bad,        \* a mismatch was found
  busy,       \* a command is being executed
  verdict

Of(S, c) == {x \in S : Side[x] = c}

Even(S) == Cardinality(Of(S, 1)) = Cardinality(Of(S, 2))

Single(S) == Cardinality(Of(S, 1)) = 1 /\ Cardinality(Of(S, 2)) = 1

Init == partition = {} /\ bad = FALSE /\ busy = FALSE /\ verdict = "none"

\* Other circuits, or the same ones again, are loaded between commands.
Load ==
  /\ ~busy /\ ~busy'
  /\ \A S, T \in partition' : S = T \/ S \cap T = {}
  /\ (\E S \in partition' : ~Even(S)) => bad'
  /\ verdict' = "none"

\* Every new class is a part of an old one, and all members stay.
Split ==
  /\ busy' = busy
  /\ UNION partition' = UNION partition
  /\ \A S \in partition' : \E T \in partition : S \subseteq T
  /\ bad => bad'
  /\ (\E S \in partition' : ~Even(S)) => bad'
  /\ verdict' \in {verdict, "none"}

Begin == ~busy /\ busy' /\ verdict' = "none" /\ UNCHANGED <<partition, bad>>

End ==
  /\ ~busy'
  /\ verdict' = "unique" => ~bad /\ \A S \in partition : Single(S)
  /\ verdict' = "mismatch" => bad
  /\ UNCHANGED <<partition, bad>>

Next == Load \/ Split \/ Begin \/ End

Spec == Init /\ [][Next]_<<partition, bad, busy, verdict>>
=============================================================================
