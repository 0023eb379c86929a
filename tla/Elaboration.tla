----------------------------- MODULE Elaboration -----------------------------
(***************************************************************************)
(* The life of a property: the devices of a cell are read with their        *)
(* properties (LinkProperties, ReduceExpressions), the cell is flattened    *)
(* into its parent once for every instance of it (flattenInstancesOf and    *)
(* CopyProperties), and the devices of two files are compared, pair by      *)
(* pair and possibly again (PropertyMatch).                                 *)
(***************************************************************************)
EXTENDS PropertyValues

CONSTANTS
  Designs,   \* pairs of files, with the pins of the device
  MaxChecks  \* bound on the comparisons

VARIABLES
  design,   \* [files, pins]: of each file the globals, the defaults of the cell, the
            \* properties of its instances, its devices and the device class
  inst,     \* the property lists of the devices, of each file
  dict,     \* the property definitions of the device class, of each file
  flat,     \* whether the cell has been flattened, in each file
  crashed,
  verdict,  \* the pair that was compared last, and the mismatches found
  checks

vars == <<design, inst, dict, flat, crashed, verdict, checks>>

File(f) == design.files[f]
NoVerdict == [pair |-> 0, count |-> 0]

Init ==
  /\ design \in Designs
  /\ inst = << << >>, << >> >>
  /\ dict = [f \in 1..2 |-> design.files[f].dict]
  /\ flat = <<FALSE, FALSE>>
  /\ crashed = FALSE
  /\ verdict = NoVerdict
  /\ checks = 0

IsRead(f) == flat[f] \/ Len(inst[f]) = Len(File(f).devices)
IsReady(f) == IsRead(f) /\ (flat[f] \/ File(f).parents = << >>)

HasUndefined(list) == \E i \in DOMAIN list : list[i].val.type = "undefined"

(***************************************************************************)
(* LinkProperties, then ReduceExpressions with the global parameters and    *)
(* the defaults of the cell, but no instance.                               *)
(***************************************************************************)
ReadEnvironment(f) ==
  [glob |-> TRUE, globals |-> File(f).globals, inst |-> << >>, defaults |-> File(f).defaults]

Strings(device) == [i \in DOMAIN device |-> [key |-> device[i][1], val |-> String(device[i][2])]]

LinkProperties(f) ==
  /\ ~crashed /\ ~IsRead(f)
  /\ LET list == Strings(File(f).devices[Len(inst[f]) + 1])
     IN  \E reduced \in {ReduceExpressions(list, ReadEnvironment(f))} :
           IF HasUndefined(reduced) THEN crashed' = TRUE /\ UNCHANGED <<inst, dict>>
           ELSE /\ inst' = [inst EXCEPT ![f] = Append(@, reduced)]
                /\ dict' = [dict EXCEPT ![f] = Linked(@, list)]
                /\ UNCHANGED crashed
  /\ UNCHANGED <<design, flat, verdict, checks>>

(***************************************************************************)
(* flattenInstancesOf: every instance of the cell, as many times as its     *)
(* property M says, gets a copy of the devices.  A copy is reduced with the *)
(* properties of the instance, when it has any, and the defaults.  M counts *)
(* down while the copies are made.                                          *)
(***************************************************************************)
Copies(parent) ==
  IF "M" \notin DOMAIN parent THEN 1
  ELSE IF parent["M"] = NoNumber THEN 1
  ELSE Max({1, parent["M"][1] \div parent["M"][2]})

ParentOfCopy(parent, n) ==
  IF n = 1 THEN parent ELSE [parent EXCEPT !["M"] = <<Copies(parent) - n + 1, 1>>]

CopyProperties(f, parent) ==
  LET env(n) == [glob |-> FALSE, globals |-> << >>,
                 inst |-> ParentOfCopy(parent, n), defaults |-> File(f).defaults]
      copy(n) == [k \in DOMAIN inst[f] |-> IF DOMAIN parent = {} THEN inst[f][k]
                                           ELSE ReduceExpressions(inst[f][k], env(n))]
  IN  FlattenSeq([n \in 1..Copies(parent) |-> copy(n)])

Flatten(f) ==
  /\ ~crashed /\ IsRead(f) /\ ~IsReady(f)
  /\ \E copies \in {FlattenSeq([p \in DOMAIN File(f).parents |->
                                   CopyProperties(f, File(f).parents[p])])} :
         IF \E k \in DOMAIN copies : HasUndefined(copies[k])
         THEN crashed' = TRUE /\ UNCHANGED <<inst, flat>>
         ELSE /\ inst' = [inst EXCEPT ![f] = copies]
              /\ flat' = [flat EXCEPT ![f] = TRUE]
              /\ UNCHANGED crashed
  /\ UNCHANGED <<design, dict, verdict, checks>>

(***************************************************************************)
(* A pair of instances, one of each file.  What is compared although it is  *)
(* neither number nor string may or may not count.                          *)
(***************************************************************************)
Check(k) ==
  /\ ~crashed /\ checks < MaxChecks /\ IsReady(1) /\ IsReady(2)
  /\ checks' = checks + 1
  /\ \E s \in {PropertyCheckMismatch(<<inst[1][k], inst[2][k]>>, dict, design.pins)} :
       IF HasUndefined(s.lists[1]) \/ HasUndefined(s.lists[2])
       THEN crashed' = TRUE /\ UNCHANGED <<inst, dict, verdict>>
       ELSE /\ inst' = [f \in 1..2 |-> [inst[f] EXCEPT ![k] = s.lists[f]]]
            /\ dict' = s.dicts
            /\ \E lucky \in 0..s.unknown :
                 verdict' = [pair |-> k, count |-> s.wrong + lucky]
            /\ UNCHANGED crashed
  /\ UNCHANGED <<design, flat>>

Next ==
  \/ \E f \in 1..2 : LinkProperties(f) \/ Flatten(f)
  \/ \E k \in DOMAIN inst[1] \cap DOMAIN inst[2] : Check(k)

Spec == Init /\ [][Next]_vars
=============================================================================
