----------------------------- MODULE Expressions -----------------------------
(***************************************************************************)
(* Expressions as values of properties: ReduceOneExpression compiles a      *)
(* string into a list of tokens (the stack, here from its bottom to its     *)
(* top) and replaces numbers that stand on both sides of an operator, pass  *)
(* by pass, until nothing changes.  What is left stays an expression, and   *)
(* is reduced further when the names in it have got values.                 *)
(*                                                                          *)
(* A string is a sequence of items: <<s>> for an operator, bracket or name, *)
(* and <<n, d>> for a number with its sign and unit, which is n/d; numbers  *)
(* spelled otherwise than they are printed have their spelling as well.     *)
(***************************************************************************)
EXTENDS Integers, Sequences, SequencesExt, FiniteSetsExt

NoNumber == << >>
NoItem == << >>
IsNumber(item) == Len(item) > 1

Abs(n) == IF n < 0 THEN -n ELSE n
Fraction(n, d) ==
  LET s == IF d < 0 THEN -1 ELSE 1
      g == Max({k \in 1..Abs(d) : n % k = 0 /\ d % k = 0})
  IN  IF d = 0 THEN <<n, 0>> ELSE <<(s * n) \div g, Abs(d) \div g>>

Comparisons == {"<", "<=", ">", ">=", "==", "!="}
Less(x, y) == x[1] * y[2] < y[1] * x[2]
Truth(b) == IF b THEN <<1, 1>> ELSE <<0, 1>>
Apply(op, x, y) ==
  CASE op = "+"  -> Fraction(x[1] * y[2] + y[1] * x[2], x[2] * y[2])
    [] op = "-"  -> Fraction(x[1] * y[2] - y[1] * x[2], x[2] * y[2])
    [] op = "*"  -> Fraction(x[1] * y[1], x[2] * y[2])
    [] op = "/"  -> Fraction(x[1] * y[2], x[2] * y[1])
    [] op = "<"  -> Truth(Less(x, y))
    [] op = "<=" -> Truth(~Less(y, x))
    [] op = ">"  -> Truth(Less(y, x))
    [] op = ">=" -> Truth(~Less(x, y))
    [] op = "==" -> Truth(x = y)
    [] op = "!=" -> Truth(x # y)

-----------------------------------------------------------------------------
(***************************************************************************)
(* The value of an item.  While a file is read (env.glob) global parameters *)
(* come first, whether they are numbers or not; then the properties of the  *)
(* instance that the cell belongs to; then the defaults of the cell.        *)
(***************************************************************************)
TokGetValue(item, env) ==
  IF IsNumber(item) THEN <<item[1], item[2]>>
  ELSE IF env.glob /\ item[1] \in DOMAIN env.globals THEN env.globals[item[1]]
  ELSE IF item[1] \in DOMAIN env.inst /\ env.inst[item[1]] # NoNumber THEN env.inst[item[1]]
  ELSE IF item[1] \in DOMAIN env.defaults THEN env.defaults[item[1]]
  ELSE NoNumber

Op(tok) == [tok |-> tok, val |-> NoNumber]
Num(val) == [tok |-> "number", val |-> val]
IsNum(t) == t.tok = "number"
Operators == Comparisons \cup {"+", "-", "*", "/", "(", ")", "IF", "THEN", "ELSE", "'", "{", "}"}
IsName(t) == t.tok \notin Operators \cup {"number"}

\* Names that have no value are pushed as they are.
PushItem(stack, item, env) ==
  IF item = NoItem THEN stack
  ELSE LET val == TokGetValue(item, env)
       IN  Append(stack, IF val = NoNumber THEN Op(item[1]) ELSE Num(val))

-----------------------------------------------------------------------------
(***************************************************************************)
(* The compiler.  `item' is what stands between the last operator and here; *)
(* when `hidden', a string end was written behind it, and what follows is   *)
(* not seen before the next operator.                                       *)
(***************************************************************************)
Scanned(stack) == [stack |-> stack, item |-> NoItem, hidden |-> FALSE]
Hidden(stack, item) == [stack |-> stack, item |-> item, hidden |-> TRUE]

\* The sign behind a number that is hidden is taken for a part of that number.
ScanSign(s, sign, env) ==
  IF s.hidden /\ IsNumber(s.item) THEN s
  ELSE Scanned(Append(PushItem(s.stack, s.item, env), Op(sign)))

ScanOperator(s, op, env) == Scanned(Append(PushItem(s.stack, s.item, env), Op(op)))

\* The second character of == and != is no operator, and what follows it is
\* not seen: the item before it stays.
ScanEquality(s, op, env) ==
  Hidden(Append(PushItem(s.stack, s.item, env), Op(op)), s.item)

ScanOpen(s, env) ==
  Scanned(IF s.item = <<"IF">> THEN Append(s.stack, Op("IF"))
          ELSE Append(PushItem(s.stack, s.item, env), Op("(")))

ScanClose(s, env) ==
  IF s.stack = << >> THEN Hidden(s.stack, s.item)
  ELSE ScanOperator(s, IF Last(s.stack).tok = "THEN" THEN "ELSE" ELSE ")", env)

\* A name at the end of a braced group is dropped.
ScanGroupClose(s, env) ==
  LET known == s.item # NoItem /\ TokGetValue(s.item, env) # NoNumber
  IN  Scanned(Append(IF known THEN PushItem(s.stack, s.item, env) ELSE s.stack, Op("}")))

\* A comma belongs to the last IF or THEN below the value pushed before it.
ScanComma(s, env) ==
  LET pushed == PushItem(s.stack, s.item, env)
      open == {k \in 1..(Len(pushed) - 1) : pushed[k].tok \in {"IF", "THEN"}}
  IN  IF pushed = << >> THEN Hidden(s.stack, s.item)
      ELSE IF open = {} THEN Scanned(pushed)
      ELSE Scanned(Append(pushed, Op(IF pushed[Max(open)].tok = "IF" THEN "THEN" ELSE "ELSE")))

ScanItem(s, item) ==
  IF s.hidden THEN s ELSE [stack |-> s.stack, item |-> item, hidden |-> FALSE]

Scan(s, item, env) ==
  CASE IsNumber(item) -> ScanItem(s, item)
    [] item[1] \in {"+", "-"} -> ScanSign(s, item[1], env)
    [] item[1] \in {"==", "!="} -> ScanEquality(s, item[1], env)
    [] item[1] \in {"*", "/", "'", "{", "<", "<=", ">", ">="} -> ScanOperator(s, item[1], env)
    [] item[1] = "(" -> ScanOpen(s, env)
    [] item[1] = ")" -> ScanClose(s, env)
    [] item[1] = "}" -> ScanGroupClose(s, env)
    [] item[1] = "," -> ScanComma(s, env)
    [] OTHER -> ScanItem(s, item)

Compile(text, env) ==
  LET end == FoldLeft(LAMBDA s, item : Scan(s, item, env), Scanned(<< >>), text)
  IN  PushItem(end.stack, end.item, env)

-----------------------------------------------------------------------------
(***************************************************************************)
(* One pass over the list for each kind of token, in this order.            *)
(***************************************************************************)
ReduceBinary(stack, ops) ==
  LET step(out, t) ==
        LET n == Len(out)
        IN  IF n > 1 /\ IsNum(t) /\ out[n].tok \in ops /\ IsNum(out[n - 1])
            THEN Append(SubSeq(out, 1, n - 2), Num(Apply(out[n].tok, out[n - 1].val, t.val)))
            ELSE Append(out, t)
  IN  FoldLeft(step, << >>, stack)

Conditionals(stack) == ReduceBinary(stack, Comparisons)
\* Mutant: sums and products are reduced in one pass.
AllInOnePass(stack) == ReduceBinary(stack, {"+", "-", "*", "/"})
Products(stack) == ReduceBinary(stack, {"*", "/"})
Sums(stack) == ReduceBinary(stack, {"+", "-"})

\* A number within brackets; one level of them in a pass.
Brackets == {<<"(", ")">>, <<"{", "}">>, <<"'", "'">>}
Groups(stack) ==
  LET step(a, t) ==
        LET n == Len(a.out)
        IN  IF n > 1 /\ ~a.fresh /\ IsNum(a.out[n]) /\ <<a.out[n - 1].tok, t.tok>> \in Brackets
            THEN [out |-> Append(SubSeq(a.out, 1, n - 2), a.out[n]), fresh |-> TRUE]
            ELSE [out |-> Append(a.out, t), fresh |-> FALSE]
  IN  FoldLeft(step, [out |-> << >>, fresh |-> FALSE], stack).out

Names(stack, env) ==
  [k \in DOMAIN stack |->
     LET val == IF IsName(stack[k]) THEN TokGetValue(<<stack[k].tok>>, env) ELSE NoNumber
     IN  IF val = NoNumber THEN stack[k] ELSE Num(val)]

\* IF(condition, then, else) with a condition of zero becomes (else).  With any
\* other number the token at hand is freed in place of the THEN, and used after
\* that; without an ELSE part the end of the list is passed.  Neither has a
\* defined result.
Undefined == [stack |-> << >>, undefined |-> TRUE]
Defined(stack) == [stack |-> stack, undefined |-> FALSE]

IfAt(r, k) ==
  LET stack == r.stack
      elses == {e \in (k + 2)..(Len(stack) - 1) : stack[e].tok = "ELSE"}
  IN  IF r.undefined \/ k > Len(stack) THEN r
      ELSE IF stack[k].tok # "IF" THEN r
      ELSE IF k = Len(stack) THEN Undefined
      ELSE IF ~IsNum(stack[k + 1]) THEN r
      ELSE IF stack[k + 1].val[1] # 0 \/ elses = {} THEN Undefined
      ELSE Defined(SubSeq(stack, 1, k - 1) \o <<Op("(")>>
                     \o SubSeq(stack, Min(elses) + 1, Len(stack)))

Ifs(stack) == FoldLeft(IfAt, Defined(stack), [k \in DOMAIN stack |-> k])

AfterIfs(r, env) ==
  IF r.undefined THEN r ELSE Defined(Names(Groups(Sums(Products(r.stack))), env))

Pass(r, env) == IF r.undefined THEN r ELSE AfterIfs(Ifs(Conditionals(r.stack)), env)

\* Each pass that changes the list makes it shorter, or gives a name its value.
Reduced(stack, env) ==
  FoldLeft(LAMBDA r, i : Pass(r, env), Defined(stack), [i \in 1..(2 * Len(stack) + 1) |-> i])
=============================================================================
