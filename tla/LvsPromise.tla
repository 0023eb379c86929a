------------------------------ MODULE LvsPromise ------------------------------
(***************************************************************************)
(* What the lvs procedure promises its user: it answers once, it does       *)
(* answer, and it only answers that the circuits match when they come down  *)
(* to the same devices, unless it was told to see a cell as a black box.    *)
(***************************************************************************)
CONSTANTS
  Design,  \* the pairs of circuits that may be compared
  Same     \* those whose two circuits come down to the same devices

VARIABLES design, answer

vars == <<design, answer>>

Init == design \in Design /\ answer = "none"

Answer(a) ==
  /\ answer = "none"
  /\ a = "match" => design \in Same
  /\ answer' = a
  /\ UNCHANGED design

Next == \E a \in {"match", "fail", "unchecked"} : Answer(a)

Spec == Init /\ [][Next]_vars /\ WF_vars(Next)
=============================================================================
