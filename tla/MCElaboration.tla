---------------------------- MODULE MCElaboration ----------------------------
(***************************************************************************)
(* Designs for Elaboration, and what the values and the verdicts should be. *)
(***************************************************************************)
EXTENDS Elaboration

N(n) == <<n, 1>>
Items(tokens) == [i \in DOMAIN tokens |-> <<tokens[i]>>]
o(s) == <<s>>

\* Chains of one to three operands, with at most one group.
Operands == {N(2), <<3, 2>>, o("x")}
Ops == {o("+"), o("-"), o("*"), o("/")}
Pairs == {<<a, f, b>> : a \in Operands, f \in Ops \cup {o("<"), o(">=")}, b \in Operands}
Chains == {p \o <<g, c>> : p \in {q \in Pairs : q[2] \in Ops}, g \in Ops, c \in Operands}
Grouped ==
  UNION {{<<o("(")>> \o p \o <<o(")"), g, c>>, <<c, g, o("(")>> \o p \o <<o(")")>>} :
           p \in {q \in Pairs : q[1] = o("x")}, g \in {o("-"), o("*")}, c \in {N(2)}}
Quoted ==
  {<<o("'")>> \o p \o <<o("'")>> : p \in {q \in Pairs : q[1] # q[3]}}
    \cup {<<o("{")>> \o p \o <<o("}")>> : p \in {q \in Pairs : q[1] # q[3]}}
Conditions ==
  {<<o("IF"), o("("), o("x"), o("<"), c, o(","), N(2), o(","), o("x"), o(")")>> : c \in Operands}
    \cup {<<o("IF"), o("("), o("x"), o(","), N(2), o(")")>>}
Equalities ==
  {p \o r : p \in {<<N(2), o("=="), N(1)>>, <<o("x"), o("!="), N(1)>>},
            r \in {<< >>, <<o("+"), N(2)>>, <<o("*"), N(2)>>}}
Texts == Pairs \cup Chains \cup Grouped \cup Quoted \cup Conditions \cup Equalities

\* Where x gets its value, which is 3 for the code.
None == << >>
NamesOf(x) == [k \in {"x"} |-> x]
Where ==
  [ globals |-> [globals |-> NamesOf(N(3)), defaults |-> None, parents |-> << >>],
    defaults |-> [globals |-> None, defaults |-> NamesOf(N(3)), parents |-> << >>],
    parent |-> [globals |-> None, defaults |-> None, parents |-> <<NamesOf(N(3))>>],
    shadowed |-> [globals |-> NamesOf(N(3)), defaults |-> NamesOf(N(4)),
                  parents |-> <<NamesOf(N(5))>>],
    overridden |-> [globals |-> None, defaults |-> NamesOf(N(3)), parents |-> <<NamesOf(N(2))>>],
    flat |-> [globals |-> None, defaults |-> NamesOf(N(3)), parents |-> <<None>>] ]

Device(text) == <<<<"w", text>>>>
Class(type, slop) == [w |-> Definition(type, slop, << >>)]
Pins == [names |-> << >>, nets |-> <<<< >>, << >>>>]
FileOf(where, devices, class) ==
  [globals |-> where.globals, defaults |-> where.defaults, parents |-> where.parents,
   devices |-> devices, dict |-> class]

\* An expression in one file, in the other a number.
Literal == FileOf(Where["globals"], <<Device(<<N(2)>>)>>, None)
Expressions1 ==
  {[files |-> <<FileOf(Where[w], <<Device(t)>>, None), Literal>>, pins |-> Pins] :
     w \in DOMAIN Where, t \in Texts}

\* Lists of values, of which the class knows more or less.
Values == {<<N(0)>>, <<N(1)>>, <<N(2)>>, <<<<2, 1, "2.0">>>>, <<<<21, 10>>>>, <<o("nom")>>}
Types == {"string", "integer", "double", "value"}
ListFile(lists, class) == FileOf(Where["globals"], lists, class)
DictOf(type, slop) ==
  IF type = "string" THEN [w |-> Declared]
  ELSE [w |-> Definition(type, IF type = "integer" THEN N(1) ELSE slop, N(0))]
OneValue ==
  {[files |-> <<ListFile(<<Device(v1), Device(u)>>, DictOf(t1, <<1, 10>>)),
                ListFile(<<Device(v2), Device(u)>>, DictOf(t2, <<1, 10>>))>>,
    pins |-> Pins] : v1 \in Values, v2 \in Values, u \in {<<N(2)>>, <<o("nom")>>},
                     t1 \in Types, t2 \in Types}

Several ==
  LET lists == {<<>>, <<<<"w", <<N(1)>>>>>>, <<<<"M", <<N(1)>>>>>>, <<<<"M", <<N(2)>>>>>>,
                <<<<"M", <<N(1)>>>>, <<"S", <<N(1)>>>>, <<"w", <<N(1)>>>>>>,
                <<<<"w", <<N(1)>>>>, <<"M", <<N(2)>>>>, <<"w", <<N(2)>>>>>>,
                <<<<"l", <<N(2)>>>>, <<"S", <<N(1)>>>>, <<"w", <<N(1)>>>>>>}
  IN  {[files |-> <<ListFile(<<l1>>, None), ListFile(<<l2>>, None)>>, pins |-> Pins] :
         l1 \in lists, l2 \in lists}

\* Areas of source and drain, and the two swapped.
Mos == [names |-> <<"d", "s">>, nets |-> <<<<1, 2>>, <<2, 1>>>>]
PinDict ==
  [ad |-> [Definition("double", N(0), N(0)) EXCEPT !.pin = "d"],
   as |-> [Definition("double", N(0), N(0)) EXCEPT !.pin = "s"]]
Areas(d, s) == <<<<"ad", <<N(d)>>>>, <<"as", <<N(s)>>>>>>
Swapped ==
  {[files |-> <<ListFile(<<Areas(1, 2)>>, PinDict), ListFile(<<Areas(d, s)>>, PinDict)>>,
    pins |-> [Mos EXCEPT !.nets[2] = n]] : d \in 1..2, s \in 1..2, n \in {<<1, 2>>, <<2, 1>>, <<2, 2>>}}

\* An instance that stands for two, flattened or not.
Multiple ==
  {[files |-> <<FileOf([globals |-> None, defaults |-> NamesOf(N(3)), parents |-> <<[M |-> N(2)], NamesOf(N(4))>>],
                       <<Device(<<o("x"), o("*"), o("M")>>)>>, None),
                ListFile(<<Device(<<N(6)>>), Device(<<N(3)>>), Device(<<N(4)>>)>>, None)>>,
    pins |-> Pins]}

MCDesigns == Expressions1 \cup OneValue \cup Several \cup Swapped \cup Multiple

-----------------------------------------------------------------------------
(***************************************************************************)
(* The reference: what a text means, by splitting it at its last operator   *)
(* of the lowest precedence that is not in brackets.                        *)
(***************************************************************************)
Depth(text, k) ==
  Cardinality({i \in 1..k : text[i] \in {o("("), o("{")}})
    - Cardinality({i \in 1..k : text[i] \in {o(")"), o("}")}})
SplitAt(text, ops) ==
  LET at == {k \in 2..(Len(text) - 1) : Depth(text, k) = 0 /\ text[k] \in ops}
  IN  IF at = {} THEN 0 ELSE Max(at)

Weak == {o(c) : c \in Comparisons}
Middle == {o("+"), o("-")}
Strong == {o("*"), o("/")}
RECURSIVE Meaning(_, _)
Meaning(text, x) ==
  LET k == IF SplitAt(text, Weak) > 0 THEN SplitAt(text, Weak)
           ELSE IF SplitAt(text, Middle) > 0 THEN SplitAt(text, Middle)
           ELSE SplitAt(text, Strong)
  IN  IF Len(text) = 1 THEN IF IsNumber(text[1]) THEN <<text[1][1], text[1][2]>> ELSE x
      ELSE IF k = 0 \/ text[1] = o("'") THEN Meaning(SubSeq(text, 2, Len(text) - 1), x)
      ELSE Apply(text[k][1], Meaning(SubSeq(text, 1, k - 1), x),
                 Meaning(SubSeq(text, k + 1, Len(text)), x))

\* Texts with more than one operator at one level, one operand of which is a
\* group or a name without a value when it is read; such a name before a closing
\* brace; IF; and == and !=.
ReadLater(file) == file.globals = None /\ file.defaults = None
IsPlain(text, file) ==
  LET ops == {k \in DOMAIN text : text[k] \in Weak \cup Middle \cup Strong}
      levels == {Depth(text, k) : k \in ops}
      late == ReadLater(file) /\ o("x") \in ToSet(text)
  IN  /\ ToSet(text) \cap {o("IF"), o("=="), o("!=")} = {}
      /\ ~(late /\ \E k \in DOMAIN text : k > 1 /\ text[k] = o("}") /\ text[k - 1] = o("x"))
      /\ \A level \in levels :
           Cardinality({k \in ops : Depth(text, k) = level}) = 1
             \/ (levels = {0} /\ ~late)

XOf(file) ==
  IF file.globals # None THEN file.globals["x"]
  ELSE IF file.defaults # None THEN file.defaults["x"]
  ELSE file.parents[1]["x"]

(***************************************************************************)
(* An expression has the value that arithmetic gives it, whenever the names *)
(* in it become known, while the file is read or when the cell is           *)
(* flattened: for plain texts.                                              *)
(***************************************************************************)
ValueRight ==
  design \in Expressions1 /\ IsReady(1) /\ ~crashed =>
    LET text == File(1).devices[1][1][2]
    IN  IsPlain(text, File(1)) => inst[1][1][1].val = Double(Meaning(text, XOf(File(1))))

\* What a key of a device of a file should stand for.
Keys(device) == {device[i][1] : i \in DOMAIN device}
TextOf(device, key) == device[Min({i \in DOMAIN device : device[i][1] = key})][2]
ValueOf(f, k, key) ==
  LET device == File(f).devices[k]
  IN  IF key \in Keys(device) THEN Meaning(TextOf(device, key), XOf(File(f))) ELSE N(1)

IsNumeric(f, key, text) ==
  LET class == IF key \in DOMAIN File(f).dict THEN File(f).dict[key] ELSE Declared
  IN  /\ o("nom") \notin ToSet(text) /\ IsPlain(text, File(f))
      /\ LET v == Meaning(text, XOf(File(f)))
         IN  v[1] >= 0 /\ v[2] > 0 /\ (class.type = "integer" => v[2] = 1)

\* Numbers under every key, none of them negative, no fraction under an integer
\* definition of either class, and a definition of a value only beside another one:
\* netcmp.c does not count it as a double where it chooses between two types.
IsComparable ==
  \A f \in 1..2 : \A k \in DOMAIN File(f).devices :
    LET device == File(f).devices[k]
    IN  /\ \A i, j \in DOMAIN device : i # j => device[i][1] # device[j][1]
        /\ \A i \in DOMAIN device, g \in 1..2 :
             LET class == IF device[i][1] \in DOMAIN File(g).dict THEN File(g).dict[device[i][1]]
                          ELSE Declared
             IN  /\ IsNumeric(f, device[i][1], device[i][2])
                 /\ class.type = "integer" => ValueOf(f, k, device[i][1])[2] = 1
                 /\ class.type = "value" => File(3 - g).dict["w"].type = "value"

\* The tolerance is that of a class with a fractional number, rather than of one
\* with an integer.
Alike(k) ==
  LET keys(f) == Keys(File(f).devices[k])
      class(f, key) == IF key \in DOMAIN File(f).dict THEN File(f).dict[key] ELSE Declared
      partner(key) == IF design.pins.names # << >> /\ design.pins.nets[1] # design.pins.nets[2]
                      THEN IF key = "ad" THEN "as" ELSE "ad"
                      ELSE key
      within(key) ==
        LET x == ValueOf(1, k, key)
            y == ValueOf(2, k, partner(key))
            exact == {f \in 1..2 : class(f, key).type = "integer"}
            tolerance == class(IF exact = {1} THEN 2 ELSE 1, key).slop
        IN  IF exact = 1..2 THEN Abs(x[1] - y[1]) <= tolerance[1] ELSE ~Beyond(x, y, tolerance)
  IN  /\ (keys(1) \ {"M", "S"}) = (keys(2) \ {"M", "S"})
      /\ \A key \in keys(1) \cup keys(2) : within(key)

(***************************************************************************)
(* The verdict on a pair is that of the values as they are written in the   *)
(* two files, whatever was compared before, or the same pair again.         *)
(***************************************************************************)
VerdictRight ==
  /\ verdict.pair # 0 /\ Len(File(1).parents) < 2 /\ IsComparable
  /\ design.pins.nets[2] # <<2, 2>>
  => (verdict.count = 0 <=> Alike(verdict.pair))
=============================================================================
