----------------------------- MODULE ArrowKernel -----------------------------
(***************************************************************************)
(* The arrow_kernel backend (gilmap/_router.py): which functions it takes, *)
(* and what the calls of pyarrow.compute make of one element.              *)
(***************************************************************************)
EXTENDS JitWalker

ArrowBinOps == {"add", "sub", "mul", "div", "pow", "bitand", "bitor", "bitxor"}

ArrowUnaryOps == {"neg", "plus", "invert"}
MathCalls == {"sqrt", "abs", "exp", "log", "sin", "cos", "tan", "floor", "ceil", "round"}

\* The expression of a body of a single return, or none.
FuncBodyExpr(f) ==
  LET node == FnNode(f)
      b == StripDocstring(node.b)
  IN  CASE ~HasNode(f) \/ Len(node.params) # 1 -> {}
        [] HasNode(f) /\ Len(node.params) = 1 /\ node.k = "Lambda" -> {node.e}
        [] OTHER -> IF Len(b) = 1 /\ b[1].k = "Return" THEN {b[1].e} ELSE {}

RECURSIVE Lowers(_, _)
Lowers(e, param) ==
  CASE e.k = "Name" -> e.id = param
    [] e.k \in {"Int", "Float", "Bool"} -> TRUE
    [] e.k = "UnaryOp" -> e.op \in ArrowUnaryOps /\ Lowers(e.a, param)
    [] e.k = "BinOp" ->
         e.op \in ArrowBinOps /\ Lowers(e.l, param) /\ Lowers(e.r, param)
    [] e.k = "Call" ->
         /\ e.mod = "math" /\ e.f \in MathCalls /\ Len(e.args) = 1
         /\ Lowers(e.args[1], param)
    [] e.k = "IfExp" -> \A a \in {e.t, e.y, e.n} : Lowers(a, param)
    [] e.k = "Compare" ->
         /\ Len(e.ops) = 1 /\ e.ops[1] \in CmpOps
         /\ Lowers(e.l, param) /\ Lowers(e.rs[1], param)
    [] OTHER -> FALSE

ArrowTakes(f) == \E e \in FuncBodyExpr(f) : Lowers(e, FnNode(f).params[1])

-----------------------------------------------------------------------------
(* Values with their Arrow types; one exception fails the whole array.     *)

Datum(v, t) == [v |-> v, t |-> t]
Raised == Datum(Undef, "raise")

\* The type two operands are cast to.
CommonType(l, r) ==
  CASE l.t = r.t -> l.t
    [] {l.t, r.t} = {"i64", "f64"} -> "f64"
    [] OTHER -> "raise"

ArrowBin(op, l, r) ==
  LET t == CommonType(l, r)
      v == Arithmetic(op, l.v, r.v)
      bits == op \in {"bitand", "bitor", "bitxor"}
  IN  CASE t = "f64" /\ ~bits -> Datum(v, "f64")
        [] t = "i64" /\ op = "div" ->
             IF r.v = Zero THEN Raised ELSE Datum(Truncated(v), "i64")
        [] t = "i64" /\ op = "pow" /\ r.v[1] < 0 -> Raised
        [] t = "i64" /\ op # "div" /\ (op = "pow" => r.v[1] >= 0) -> Datum(Wrapped(v), "i64")
        [] OTHER -> Raised

RECURSIVE ArrowValue(_, _)
ArrowValue(e, x) ==
  LET v(a) == ArrowValue(a, x)
      if(t, y, n) ==
        IF t.t # "bool" \/ CommonType(y, n) = "raise" THEN Raised
        ELSE Datum((IF t.v # Zero THEN y ELSE n).v, CommonType(y, n))
  IN  CASE e.k = "Name"  -> x
        [] e.k = "Int"   -> Datum(e.v, "i64")
        [] e.k = "Float" -> Datum(e.v, "f64")
        [] e.k = "Bool"  -> Datum(e.v, "bool")
        [] e.k = "UnaryOp" ->
             LET a == v(e.a)
             IN  (CASE e.op = "plus" -> a
                    [] e.op = "neg" /\ a.t = "f64" -> Datum(Negated(a.v), "f64")
                    [] e.op = "neg" /\ a.t = "i64" -> Datum(Wrapped(Negated(a.v)), "i64")
                    [] e.op = "invert" /\ a.t = "i64" ->
                         Datum(Plus(Negated(a.v), Whole(-1)), "i64")
                    [] OTHER -> Raised)
        [] e.k = "BinOp" ->
             LET l == v(e.l)
                 r == v(e.r)
             IN  IF "bool" \in {l.t, r.t} THEN Raised ELSE ArrowBin(e.op, l, r)
        [] e.k = "Call" ->
             LET a == v(e.args[1])
             IN  IF a.t \notin Dtypes THEN Raised
                 ELSE Datum(MathValue(e.f, a.v), IF e.f = "abs" THEN a.t ELSE "f64")
        [] e.k = "IfExp" -> if(v(e.t), v(e.y), v(e.n))
        [] e.k = "Compare" ->
             LET l == v(e.l)
                 r == v(e.rs[1])
             IN  IF CommonType(l, r) = "raise" THEN Raised
                 ELSE Datum(Bit(Compared(e.ops[1], l.v, r.v)), "bool")

\* fast: the values for an array of type t, or no value if a kernel raises.
ArrowFast(f, array, t) ==
  LET e == CHOOSE b \in FuncBodyExpr(f) : TRUE
      r == [i \in DOMAIN array |-> ArrowValue(e, Datum(array[i], t))]
  IN  IF \E i \in DOMAIN r : r[i].t = "raise" THEN {} ELSE {[i \in DOMAIN r |-> r[i].v]}
=============================================================================
