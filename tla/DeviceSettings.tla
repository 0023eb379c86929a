---------------------------- MODULE DeviceSettings ----------------------------
(***************************************************************************)
(* What the commands of a setup file change in the cells of the netlists    *)
(* (base/netgen.c, base/netcmp.c, base/objlist.c).  A cell <<name, file>>   *)
(* is a record of                                                           *)
(*   class       "fet", "res", "cap", "ind" or "other"                      *)
(*   top         it is the top-level cell of its file (CELL_TOP)            *)
(*   ports       its pins <<name, node>>                                    *)
(*   defs        propdict, the properties by key: type, slop (a tolerance), *)
(*               merge (a set of the MERGE_ bits) and pin                   *)
(*   series      COMB_SERIES                                                *)
(*   noparallel  COMB_NO_PARALLEL                                           *)
(*   permutes    pairs of pins, and freed: the list has been given back to  *)
(*               the allocator but not taken from the cell                  *)
(*   insts       instances: model, nodes of the pins, list of <<key, value>>*)
(* The operators take the cells and return them changed.  File numbers are  *)
(* positive; AnyFile stands for the wildcard -1.                            *)
(***************************************************************************)
EXTENDS Integers, Sequences, SequencesExt

AnyFile == -1
Unset == "unset"     \* a number that was never written
NoPin == "no pin"

PMask == {"p_add", "p_par", "p_crit", "p_xcrit"}
SMask == {"s_add", "s_par", "s_crit", "s_xcrit"}
AllMask == PMask \cup SMask

\* The cell of that name that was read last, which hash lookup finds first.
LookupCell(order, name) ==
  LET named == {i \in DOMAIN order : order[i][1] = name}
  IN  IF named = {} THEN {} ELSE {order[Max(named)]}

LookupCellFile(cells, name, file) == {<<name, file>>} \cap DOMAIN cells

\* Mutant: after the call for circuit 1 the function returns.
ReachedFirst(cells, order, circuits, name, file) ==
  IF file # AnyFile THEN LookupCellFile(cells, name, file)
  ELSE IF circuits = << >> THEN LookupCell(order, name)
  ELSE {<<name, circuits[1]>>} \cap DOMAIN cells

\* The cells that a call with a name and a file number reaches.
Reached(cells, order, circuits, name, file) ==
  IF file # AnyFile THEN LookupCellFile(cells, name, file)
  ELSE IF circuits = << >> THEN LookupCell(order, name)
  ELSE {<<name, f>> : f \in ToSet(circuits)} \cap DOMAIN cells

\* Functions on permutations do nothing without circuits.
ReachedPermute(cells, circuits, name, file) ==
  {<<name, f>> : f \in IF file = AnyFile THEN ToSet(circuits) ELSE {file}}
    \cap DOMAIN cells

-----------------------------------------------------------------------------
(* Definitions of properties in one cell.                                   *)

Definition(type, slop) == [type |-> type, slop |-> slop, merge |-> {}, pin |-> NoPin]

\* PropertyDouble, PropertyInteger, PropertyValue and PropertyString leave a
\* definition that is there as it is.
PropertyAdd(cell, key, type, slop) ==
  IF key \in DOMAIN cell.defs THEN cell
  ELSE [cell EXCEPT !.defs =
          [k \in DOMAIN @ \cup {key} |->
             IF k = key THEN Definition(type, slop) ELSE cell.defs[k]]]

PropertyDelete(cell, keys) ==
  [cell EXCEPT !.defs = [k \in DOMAIN @ \ keys |-> @[k]]]

PropertyAssociatePin(cell, key, pin) ==
  IF key \in DOMAIN cell.defs /\ \E i \in DOMAIN cell.ports : cell.ports[i][1] = pin
  THEN [cell EXCEPT !.defs[key].pin = pin]
  ELSE cell

\* A type keeps its tolerance as a double or as an integer, and each command
\* gives both numbers, of which one may never have been written.
PropertyTolerance(cell, key, ival, dval) ==
  IF key \notin DOMAIN cell.defs THEN cell
  ELSE [cell EXCEPT !.defs[key].slop =
          IF cell.defs[key].type \in {"integer", "expression"} THEN ival ELSE dval]

\* Mutant: the bits of the other kind of merging are cleared too.
MergeAll(cell, key, types, mask) ==
  IF key \notin DOMAIN cell.defs THEN cell
  ELSE [cell EXCEPT !.defs[key].merge = types]

PropertyMerge(cell, key, types, mask) ==
  IF key \notin DOMAIN cell.defs THEN cell
  ELSE [cell EXCEPT !.defs[key].merge = (@ \ mask) \cup types]

\* `property default' for one cell.
PropertyDefault(cell) ==
  CASE cell.class = "fet" ->
         PropertyDelete(PropertyMerge(cell, "w", {"p_add", "p_crit"}, AllMask),
                        {"as", "ad", "ps", "pd"})
    [] cell.class = "res" ->
         [PropertyMerge(PropertyMerge(PropertyMerge(cell,
            "w", {"p_par", "s_crit"}, AllMask),
            "l", {"s_add", "p_crit"}, AllMask),
            "value", {"s_add", "p_par"}, AllMask) EXCEPT !.series = TRUE]
    [] cell.class = "cap" ->
         [PropertyMerge(PropertyMerge(cell,
            "area", {"p_add", "s_par"}, AllMask),
            "value", {"p_add", "s_par"}, AllMask) EXCEPT !.series = TRUE]
    [] cell.class = "ind" ->
         [PropertyMerge(cell, "value", {"s_add", "p_par"}, AllMask) EXCEPT !.series = TRUE]
    [] OTHER -> cell

\* The bits that a {key type} pair of `property series' or `parallel' sets.
CombineBits(how, type) ==
  CASE type = "none" -> {}
    [] type = "par" -> {IF how = "series" THEN "s_par" ELSE "p_par"}
    [] type = "add" -> {IF how = "series" THEN "s_add" ELSE "p_add"}
    [] type = "critical" -> {IF how = "series" THEN "s_crit" ELSE "p_crit"}

\* The bits of the older `property merge'.
MergeBits(type) ==
  CASE type = "none" -> {}
    [] type = "add" -> {"p_add"}
    [] type = "add_critical" -> {"p_add", "p_xcrit"}
    [] type = "par" -> {"p_par"}
    [] type = "par_critical" -> {"p_par", "p_xcrit"}
    [] type = "ser" -> {"s_add"}
    [] type = "ser_critical" -> {"s_add", "s_xcrit"}

Combine(cell, how, yes) ==
  IF how = "series" THEN [cell EXCEPT !.series = yes]
  ELSE [cell EXCEPT !.noparallel = ~yes]

\* SetParallelCombine; SetSeriesCombine is written the same way, for a bit that
\* means the opposite.
SetParallelCombine(cell, value) == [cell EXCEPT !.noparallel = ~value]
SetSeriesCombine(cell, value) == [cell EXCEPT !.series = ~value]

-----------------------------------------------------------------------------
(* Permutations of pins.                                                    *)

HasPins(cell, pins) == pins \subseteq {cell.ports[i][1] : i \in DOMAIN cell.ports}

PermuteSetup(cell, p, q) ==
  IF ~HasPins(cell, {p, q}) \/ <<p, q>> \in ToSet(cell.permutes) THEN cell
  ELSE [cell EXCEPT !.permutes = <<<<p, q>>>> \o @]

\* The first record of the pair, in either order, is removed.
PermuteForget(cell, p, q) ==
  LET found == SelectInSeq(cell.permutes, LAMBDA r : r \in {<<p, q>>, <<q, p>>})
  IN  IF ~HasPins(cell, {p, q}) \/ found = 0 THEN cell
      ELSE [cell EXCEPT !.permutes = RemoveAt(@, found)]

\* All records are freed, and the cell still points to the first.
PermuteForgetAll(cell) ==
  [cell EXCEPT !.freed = @ \/ cell.permutes # << >>]

\* The pins that `permute' makes equal in a cell, by the class of devices named.
DefaultPins(cell, devices) ==
  CASE cell.class = "fet" /\ devices \in {"transistors", "default"} -> <<"source", "drain">>
    [] cell.class = "res" /\ devices \in {"resistors", "default"} -> <<"end_a", "end_b">>
    [] cell.class = "ind" /\ devices \in {"inductors", "default"} -> <<"end_a", "end_b">>
    [] cell.class = "cap" /\ devices = "capacitors" -> <<"top", "bottom">>
    [] OTHER -> << >>

PermuteDefault(cell, devices) ==
  LET pins == DefaultPins(cell, devices)
  IN  IF pins = << >> THEN cell ELSE PermuteSetup(cell, pins[1], pins[2])

-----------------------------------------------------------------------------
(* Instances.                                                               *)

Shorted(inst) == \A i \in DOMAIN inst.nodes : inst.nodes[i] = inst.nodes[1]

RemoveShorted(cell, name) ==
  [cell EXCEPT !.insts = SelectSeq(@, LAMBDA x : x.model # name \/ ~Shorted(x))]

\* Of the ports on a net whose last device is deleted, the last is disconnected.
ClassDelete(cell, name) ==
  LET left == SelectSeq(cell.insts, LAMBDA x : x.model # name)
      Used(insts) == UNION {ToSet(x.nodes) : x \in ToSet(insts)}
      bare == Used(cell.insts) \ Used(left)
      IsLast(i) == \A j \in DOMAIN cell.ports : j > i => cell.ports[j][2] # cell.ports[i][2]
  IN  [cell EXCEPT
         !.insts = left,
         !.ports = [i \in DOMAIN @ |->
           IF @[i][2] \in bare /\ IsLast(i) THEN <<@[i][1], -1>> ELSE @[i]]]

\* derivedprops in one cell.  What is known of width and length carries over
\* from one instance to the next; the new list has no place for one property
\* more: the last is replaced, by an entry without a key if none is to be added.
Derived(cell, name, defs, key, width, length) ==
  LET Value(props, k, old) ==
        LET at == SelectLastInSeq(props, LAMBDA p : p[1] = k)
        IN  IF at = 0 \/ k \notin DOMAIN defs THEN old ELSE <<props[at][2]>>
      Visit(a, inst) ==
        IF inst.model # name \/ inst.props = << >> THEN [a EXCEPT !.insts = Append(@, inst)]
        ELSE LET w == Value(inst.props, width, a.w)
                 l == Value(inst.props, length, a.l)
                 has == a.has \/ \E i \in DOMAIN inst.props : inst.props[i][1] = key
                 val == IF key = "area" THEN w[1] * l[1] ELSE 2 * (w[1] + l[1])
                 last == IF has THEN <<"", 0>> ELSE <<key, val>>
             IN  IF w = << >> \/ l = << >>
                 THEN [a EXCEPT !.w = w, !.l = l, !.has = has, !.insts = Append(@, inst)]
                 ELSE [w |-> w, l |-> l, has |-> has,
                       insts |-> Append(a.insts,
                         [inst EXCEPT !.props = Front(@) \o <<last>>])]
  IN  [cell EXCEPT !.insts =
         FoldLeft(Visit, [w |-> << >>, l |-> << >>, has |-> FALSE, insts |-> << >>], @).insts]
=============================================================================
