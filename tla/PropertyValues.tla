--------------------------- MODULE PropertyValues ---------------------------
(***************************************************************************)
(* Values of properties, the definitions that a device class has of them,   *)
(* and the comparison of the property lists of two instances.               *)
(*                                                                          *)
(* A value has a type: "string" (a sequence of items), "integer", "double"  *)
(* or "expression" (a stack of tokens).  A list is a sequence of keys with  *)
(* their values; the definitions of a class are a function of keys.         *)
(***************************************************************************)
EXTENDS Expressions

String(text) == [type |-> "string", val |-> text]
Double(x) == [type |-> "double", val |-> x]
Integer(x) == [type |-> "integer", val |-> x]
UndefinedValue == [type |-> "undefined", val |-> << >>]

\* A string definition without a default has an empty one.
Definition(type, slop, default) ==
  [type |-> type, slop |-> slop, default |-> default, pin |-> ""]
NoDefault == << >>
Declared == Definition("string", <<0, 1>>, NoDefault)

StringIsValue(text) == Len(text) = 1 /\ IsNumber(text[1])
ConvertStringToFloat(text) == <<text[1][1], text[1][2]>>
IsWhole(x) == x[2] = 1

NumberOf(type, val) ==
  CASE type = "string" -> IF StringIsValue(val) THEN ConvertStringToFloat(val) ELSE NoNumber
    [] type \in {"integer", "double", "value"} -> val
    [] OTHER -> NoNumber

InstanceNumbers(list) ==
  [key \in {list[i].key : i \in DOMAIN list} |->
     LET first == Min({i \in DOMAIN list : list[i].key = key})
     IN  NumberOf(list[first].val.type, list[first].val.val)]

DefaultNumbers(dict) ==
  [key \in DOMAIN dict |-> NumberOf(dict[key].type, dict[key].default)]

-----------------------------------------------------------------------------
(***************************************************************************)
(* Reduction of a string or an expression, as far as the names are known.   *)
(***************************************************************************)
ValueOfStack(r) ==
  IF r.undefined THEN UndefinedValue
  ELSE IF Len(r.stack) = 1 /\ IsNum(r.stack[1]) THEN Double(r.stack[1].val)
  ELSE IF Len(r.stack) = 1 /\ IsName(r.stack[1]) THEN String(<<<<r.stack[1].tok>>>>)
  ELSE [type |-> "expression", val |-> r.stack]

ReduceOneExpression(vl, env) ==
  ValueOfStack(Reduced(IF vl.type = "expression" THEN vl.val ELSE Compile(vl.val, env), env))

ReduceExpressions(list, env) ==
  [i \in DOMAIN list |->
     [key |-> list[i].key,
      val |-> IF list[i].val.type \in {"integer", "double"} THEN list[i].val
              ELSE ReduceOneExpression(list[i].val, env)]]

\* LinkProperties: keys that the class does not define are added to it.
Linked(dict, list) ==
  [key \in DOMAIN dict \cup {list[i].key : i \in DOMAIN list} |->
     IF key \in DOMAIN dict THEN dict[key] ELSE Declared]

\* A definition without a default takes type and value from the first instance
\* that is compared.
\* Mutant: the default is taken again from every pair.
AlwaysSetDefault(kl, vl) == [kl EXCEPT !.type = vl.type, !.default = vl.val]
SetPropertyDefault(kl, vl) ==
  IF kl.type # "string" \/ kl.default # NoDefault THEN kl
  ELSE [kl EXCEPT !.type = vl.type, !.default = vl.val]

\* What is left of a fraction is the low half of its binary form, which is zero
\* for the fractions used here.
LowWord(x) == IF IsWhole(x) THEN x ELSE <<0, 1>>

Promoted(kl, v) ==
  LET number == NumberOf(v.type, v.val)
  IN  CASE kl.type = "string" /\ v.type \in {"integer", "double"} -> String(<<v.val>>)
        [] kl.type = "integer" /\ v.type = "double" -> Integer(LowWord(v.val))
        [] kl.type = "integer" /\ v.type = "string" /\ number # NoNumber /\ IsWhole(number) ->
             Integer(number)
        [] kl.type \in {"double", "value"} /\ v.type \in {"integer", "string"} /\ number # NoNumber ->
             Double(number)
        [] OTHER -> v

PromoteProperty(kl, vl, env) ==
  IF kl.type = vl.type THEN vl
  ELSE Promoted(kl, IF vl.type = "expression" THEN ReduceOneExpression(vl, env) ELSE vl)

-----------------------------------------------------------------------------
(***************************************************************************)
(* The comparison.  `lists' and `dicts' are those of the two instances,     *)
(* `implicit' the records that stand for an M or S that is not there (they  *)
(* are promoted like others, for the rest of the comparison), `done' what   *)
(* was found of the second list, `wrong' the mismatches and                 *)
(* `unknown' the values that are compared as numbers or strings although    *)
(* they are something else.                                                 *)
(***************************************************************************)
\* A property M or S that is not there is one.
ImplicitKeys == <<"M", "S">>
ImplicitValue == Integer(<<1, 1>>)
ImplicitDefinition == Definition("integer", <<0, 1>>, <<1, 1>>)
IsOfInterest(dict, key) == key \in DOMAIN dict \cup ToSet(ImplicitKeys)
DefinitionOf(dict, key) == IF key \in DOMAIN dict THEN dict[key] ELSE ImplicitDefinition

Starting(lists, dicts) ==
  [lists |-> lists, dicts |-> dicts,
   implicit |-> [key \in ToSet(ImplicitKeys) |-> ImplicitValue],
   done |-> {}, wrong |-> 0, unknown |-> 0]

\* The key to look for: that of another pin, when the two pins are swapped.
SwappedKey(s, key, pins) ==
  LET dict == s.dicts[1]
      kl == DefinitionOf(dict, key)
      at == SelectInSeq(pins.names, LAMBDA p : p = kl.pin)
      to == IF at = 0 THEN 0 ELSE SelectInSeq(pins.nets[2], LAMBDA net : net = pins.nets[1][at])
      others == {i \in DOMAIN s.lists[1] :
                   /\ s.lists[1][i].key # key /\ s.lists[1][i].key \in DOMAIN dict
                   /\ dict[s.lists[1][i].key].pin = pins.names[to]}
  IN  IF at = 0 \/ to \in {0, at} THEN key
      ELSE IF others = {} THEN key
      ELSE s.lists[1][Min(others)].key

\* Prefer double, then integer, then string; and the first of the two.
Target(kl1, kl2) ==
  LET ranked == <<"double", "integer", "string">>
      first == SelectInSeq(ranked, LAMBDA t : t \in {kl1.type, kl2.type})
  IN  IF first = 0 THEN kl1 ELSE IF kl1.type = ranked[first] THEN kl1 ELSE kl2

\* Twice the difference in relation to the sum; without a sum it is infinite, or
\* no number at all when there is no difference.
Beyond(x, y, slop) ==
  LET sum == Fraction(x[1] * y[2] + y[1] * x[2], x[2] * y[2])
      difference == Fraction(2 * Abs(x[1] * y[2] - y[1] * x[2]), x[2] * y[2])
  IN  IF sum[1] = 0 THEN difference[1] # 0
      ELSE Less(slop, Fraction(difference[1] * sum[2], difference[2] * sum[1]))

Kinds(type) == CASE type = "string" -> {"string"} [] type = "integer" -> {"integer"}
                 [] type \in {"double", "value"} -> {"double", "value"} [] OTHER -> {}

Judge(s, klt, v1, v2) ==
  IF v1.type # v2.type \/ klt.type = "expression" THEN [s EXCEPT !.wrong = @ + 1]
  ELSE IF v1.type \notin Kinds(klt.type) THEN [s EXCEPT !.unknown = @ + 1]
  ELSE IF CASE klt.type = "integer" -> Abs(v1.val[1] - v2.val[1]) > klt.slop[1]
            [] klt.type = "string" -> v1.val # v2.val
            [] OTHER -> Beyond(v1.val, v2.val, klt.slop)
  THEN [s EXCEPT !.wrong = @ + 1]
  ELSE s

Environment(s, f) ==
  [glob |-> FALSE, globals |-> << >>,
   inst |-> InstanceNumbers(s.lists[f]), defaults |-> DefaultNumbers(s.dicts[f])]

\* Entry i of the first list and entry j of the second, or zero for an implicit
\* one.  Both lists keep the types that the values are promoted to.
OldValues(s, keys, at) ==
  [f \in 1..2 |-> IF at[f] = 0 THEN s.implicit[keys[f]] ELSE s.lists[f][at[f]].val]

Definitions(s, keys, old) ==
  [f \in 1..2 |->
     LET def == DefinitionOf(s.dicts[f], keys[f])
     IN  IF old[1].type = old[2].type THEN SetPropertyDefault(def, old[f]) ELSE def]

WithDefinitions(s, keys, kl) ==
  [s EXCEPT !.dicts = [f \in 1..2 |-> IF keys[f] \in DOMAIN @[f]
                                      THEN [@[f] EXCEPT ![keys[f]] = kl[f]] ELSE @[f]]]

NewValues(s, kl, target, old) ==
  LET promoted(kl1, vl, f) == PromoteProperty(kl1, vl, Environment(s, f))
  IN  [f \in 1..2 |-> promoted(target, promoted(kl[f], old[f], f), f)]

JudgeValues(s, keys, at, target, new) ==
  LET lists == [f \in 1..2 |-> IF at[f] = 0 THEN s.lists[f]
                               ELSE [s.lists[f] EXCEPT ![at[f]].val = new[f]]]
      implicit == [key \in ToSet(ImplicitKeys) |->
                     LET of == {f \in 1..2 : at[f] = 0 /\ keys[f] = key}
                     IN  IF of = {} THEN s.implicit[key] ELSE new[Min(of)]]
  IN  Judge([s EXCEPT !.lists = lists, !.implicit = implicit], target, new[1], new[2])

CompareAs(s, keys, at, kl, target, old) ==
  JudgeValues(s, keys, at, target, NewValues(s, kl, target, old))

CompareDefined(s, keys, at, kl, old) ==
  CompareAs(WithDefinitions(s, keys, kl), keys, at, kl, Target(kl[1], kl[2]), old)

CompareValues(s, keys, at, old) == CompareDefined(s, keys, at, Definitions(s, keys, old), old)

CompareEntries(s, keys, i, j) == CompareValues(s, keys, <<i, j>>, OldValues(s, keys, <<i, j>>))

\* One entry of the first list, or an implicit one, with what the second has.
CheckEntry(s, i, key, pins) ==
  LET sought == SwappedKey(s, key, pins)
      found == {j \in DOMAIN s.lists[2] \ s.done : s.lists[2][j].key = sought}
      j == IF found = {} THEN 0 ELSE Min(found)
  IN  IF ~IsOfInterest(s.dicts[1], key) THEN s
      ELSE IF j = 0 /\ sought \notin ToSet(ImplicitKeys) THEN [s EXCEPT !.wrong = @ + 1]
      ELSE LET t == IF j = 0 THEN s ELSE [s EXCEPT !.done = @ \cup {j}]
           IN  IF IsOfInterest(s.dicts[2], sought) THEN CompareEntries(t, <<key, sought>>, i, j)
               ELSE t

\* What the first list has not got.  An implicit M or S is looked for from the
\* start of the second list, so what is missing before it counts again.
Missing(s, before) ==
  Cardinality({j \in before \ s.done : s.lists[2][j].key \in DOMAIN s.dicts[2]})

CheckRest(s, pins) ==
  LET round(t, n) ==
        LET implicit == {j \in DOMAIN t.lists[2] \ t.done :
                           t.lists[2][j].key \in ToSet(ImplicitKeys)}
        IN  IF t.ended THEN t
            ELSE IF implicit = {}
            THEN [t EXCEPT !.wrong = @ + Missing(t, DOMAIN t.lists[2]), !.ended = TRUE]
            ELSE LET j == Min(implicit)
                 IN  CheckEntry([t EXCEPT !.wrong = @ + Missing(t, 1..(j - 1))],
                                0, t.lists[2][j].key, pins)
      start == [lists |-> s.lists, dicts |-> s.dicts, implicit |-> s.implicit,
                done |-> s.done, wrong |-> s.wrong, unknown |-> s.unknown, ended |-> FALSE]
  IN  FoldLeft(round, start, [n \in 1..(Len(s.lists[2]) + 1) |-> n])

PropertyCheckMismatch(lists, dicts, pins) ==
  CheckRest(FoldLeft(LAMBDA s, i : CheckEntry(s, i, s.lists[1][i].key, pins),
                     Starting(lists, dicts), [i \in DOMAIN lists[1] |-> i]),
            pins)
=============================================================================
