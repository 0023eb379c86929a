-------------------------- MODULE VerilogExpressions -------------------------
(***************************************************************************)
(* The value of a bound in a Verilog netlist (base/verilog.c, EvalExpr):    *)
(* the items of an expression are numbers and operators, and passes over    *)
(* them replace what can be computed until nothing changes.  Shifts come    *)
(* first, so that 1 + 1 << 2 is 5, where Verilog has 8.  An integer is      *)
(* unbounded here, and nothing is shifted by less than 0 or more than 31.   *)
(***************************************************************************)
EXTENDS Integers, Sequences, SequencesExt

Number(n) == [oper |-> "", value |-> n]
Operator(o) == [oper |-> o, value |-> 0]

IsNumber(s, k) == k \in DOMAIN s /\ s[k].oper = ""
IsOperator(s, k, opers) == k \in DOMAIN s /\ s[k].oper \in opers

\* Integer division of C.
Quotient(m, n) ==
  LET size == (IF m < 0 THEN -m ELSE m) \div (IF n < 0 THEN -n ELSE n)
  IN  IF (m < 0) = (n < 0) THEN size ELSE -size

Apply(o, m, n) ==
  CASE o = "*" -> m * n
    [] o = "/" -> Quotient(m, n)
    [] o = "+" -> m + n
    [] o = "-" -> m - n
    [] o = "<<" -> m * 2^n
    [] o = ">>" -> m \div 2^n

\* Items i to j of s become one number.
Replace(s, i, j, n) == SubSeq(s, 1, i - 1) \o <<Number(n)>> \o SubSeq(s, j + 1, Len(s))

\* A + or - after another operator is the sign of the number behind it.
IsSign(s, k) ==
  /\ IsOperator(s, k - 1, {"+", "-", "*", "/", "("})
  /\ IsOperator(s, k, {"+", "-"})
  /\ IsNumber(s, k + 1)

\* The operands of a sum may still belong to a product.
HasOperands(s, k, opers) ==
  /\ IsOperator(s, k, opers)
  /\ IsNumber(s, k - 1)
  /\ IsNumber(s, k + 1)
  /\ opers = {"+", "-"} => /\ ~IsOperator(s, k - 2, {"*", "/"})
                           /\ ~IsOperator(s, k + 2, {"*", "/"})

IsChoice(s, k) ==
  /\ IsOperator(s, k, {"?"}) /\ IsNumber(s, k - 1) /\ IsNumber(s, k + 1)
  /\ IsOperator(s, k + 2, {":"}) /\ IsNumber(s, k + 3)

IsGroup(s, k) ==
  IsNumber(s, k) /\ IsOperator(s, k - 1, {"("}) /\ IsOperator(s, k + 1, {")"})

\* The passes go from left to right, with the result as the next left operand.
RECURSIVE Signs(_, _)
Signs(s, k) ==
  IF k > Len(s) THEN s
  ELSE IF ~IsSign(s, k) THEN Signs(s, k + 1)
  ELSE Signs(Replace(s, k, k + 1, Apply(s[k].oper, 0, s[k + 1].value)), k + 1)

RECURSIVE Binary(_, _, _)
Binary(s, k, opers) ==
  IF k > Len(s) THEN s
  ELSE IF ~HasOperands(s, k, opers) THEN Binary(s, k + 1, opers)
  ELSE Binary(Replace(s, k - 1, k + 1, Apply(s[k].oper, s[k - 1].value, s[k + 1].value)),
              k, opers)

RECURSIVE Conditional(_, _)
Conditional(s, k) ==
  IF k > Len(s) THEN s
  ELSE IF ~IsChoice(s, k) THEN Conditional(s, k + 1)
  ELSE Conditional(Replace(s, k - 1, k + 3, IF s[k - 1].value # 0 THEN s[k + 1].value
                                            ELSE s[k + 3].value), k)

RECURSIVE Groups(_, _)
Groups(s, k) ==
  IF k > Len(s) THEN s
  ELSE IF ~IsGroup(s, k) THEN Groups(s, k + 1)
  ELSE Groups(Replace(s, k - 1, k + 1, s[k].value), k)

Passes(s) ==
  LET shifted == Binary(Signs(s, 1), 1, {"<<", ">>"})
      summed == Binary(Binary(shifted, 1, {"*", "/"}), 1, {"+", "-"})
  IN  Groups(Conditional(summed, 1), 1)

RECURSIVE Reduced(_)
Reduced(s) == LET reduced == Passes(s) IN IF reduced = s THEN s ELSE Reduced(reduced)

\* One number is left of an expression that can be evaluated, otherwise << >>.  In
\* -1, the sign is left as well: only a sign behind another item is applied.
Evaluated(s) == IF Len(s) = 1 /\ IsNumber(s, 1) THEN <<s[1].value>> ELSE << >>
EvalExpr(s) == Evaluated(Reduced(s))
=============================================================================
