------------------------------ MODULE JitWalker ------------------------------
(***************************************************************************)
(* The front end of the JIT: finding the syntax tree of a function and     *)
(* lowering it to the typed IR (gilmap/_ast_utils.py, gilmap/_jit.py).     *)
(*                                                                         *)
(* An expression is lowered to [ir, dt], its IR and its dtype; dt = "no"   *)
(* stands for _LowerError.  A walker w has the parameter, the dtype of the *)
(* input, the dtypes of the locals, the output dtype ("none" before the    *)
(* first return) and ok, which a _LowerError clears.                       *)
(***************************************************************************)
EXTENDS PyEval

Dtypes == {"i64", "f64"}
BinOps == {"add", "sub", "mul", "div", "floordiv", "mod", "pow"}
CmpOps == {"lt", "le", "gt", "ge", "eq", "ne"}
UnaryOps == {"neg", "plus"}
MathFns == {"sqrt", "fabs", "abs", "exp", "log", "sin", "cos", "tan", "floor", "ceil"}

-----------------------------------------------------------------------------
(* A function object: self, what calling it does; source, the functions    *)
(* and lambdas in the text that inspect.getsource gives for it, in the     *)
(* order of ast.walk (none, if there is no text or it does not parse); and *)
(* named, what its module has under its name.                              *)

Func(source, self, named) == [source |-> source, self |-> self, named |-> named]

HasNode(f) == f.source # <<>>
FnNode(f) == f.source[1]

StripDocstring(b) == IF b # <<>> /\ b[1] = Docstring THEN Tail(b) ELSE b

-----------------------------------------------------------------------------
(* Expressions                                                             *)

Const(v, dt)  == [k |-> IF dt = "i64" THEN "const_i64" ELSE "const_f64", v |-> v]
Cast(ir, to)  == [k |-> IF to = "i64" THEN "cast_to_i64" ELSE "cast_to_f64", a |-> ir]
BinIR(op, l, r) == [k |-> "bin_op", op |-> op, l |-> l, r |-> r]
Lowered(ir, dt) == [ir |-> ir, dt |-> dt]
Rejected == Lowered([k |-> "none"], "no")

\* f64 wins over i64, an error over both.
Common(l, r) ==
  CASE "no" \in {l.dt, r.dt} -> "no"
    [] "no" \notin {l.dt, r.dt} /\ l.dt = r.dt -> l.dt
    [] OTHER -> "f64"
To(l, dt) == IF l.dt # dt /\ dt # "no" THEN Cast(l.ir, dt) ELSE l.ir

\* _promote, and the operation on what it returns.
PromotedTo(dt, op, l, r) == Lowered(BinIR(op, To(l, dt), To(r, dt)), dt)
Promoted(op, l, r) == PromotedTo(Common(l, r), op, l, r)

\* // and % are for integers.
Divides(op, p) == IF op \in {"floordiv", "mod"} /\ p.dt = "f64" THEN Rejected ELSE p
Comparison(p) ==
  IF p.dt = "no" THEN Rejected ELSE Lowered([p.ir EXCEPT !.k = "compare"], "i64")
Conditional(t, p) ==
  IF "no" \in {t.dt, p.dt} THEN Rejected
  ELSE Lowered([k |-> "if_expr", t |-> t.ir, y |-> p.ir.l, n |-> p.ir.r], p.dt)
Unary(op, a) == Lowered([k |-> "unary", op |-> op, a |-> a.ir], a.dt)

\* _walk_call
Called(e, a) ==
  CASE a.dt = "no" -> Rejected
    [] a.dt # "no" /\ e.mod = "math" /\ e.f \in MathFns ->
         Lowered([k |-> "math_call", f |-> e.f, a |-> To(a, "f64")], "f64")
    [] a.dt # "no" /\ e.mod = "" /\ e.f = "int" -> Lowered(To(a, "i64"), "i64")
    [] a.dt # "no" /\ e.mod = "" /\ e.f = "float" -> Lowered(To(a, "f64"), "f64")
    [] OTHER -> Rejected

RECURSIVE WExpr(_, _)
WExpr(e, w) ==
  CASE e.k = "Name" /\ e.id = w.param -> Lowered([k |-> "param"], w.input)
    [] e.k = "Name" /\ e.id # w.param /\ e.id \in DOMAIN w.locals ->
         Lowered([k |-> "local", id |-> e.id], w.locals[e.id])
    [] e.k = "Bool"  -> Lowered([k |-> "const_bool", v |-> e.v], "i64")
    [] e.k = "Int"   -> Lowered(Const(e.v, "i64"), "i64")
    [] e.k = "Float" -> Lowered(Const(e.v, "f64"), "f64")
    [] e.k = "UnaryOp" /\ e.op \in UnaryOps -> Unary(e.op, WExpr(e.a, w))
    [] e.k = "BinOp" /\ e.op \in BinOps ->
         Divides(e.op, Promoted(e.op, WExpr(e.l, w), WExpr(e.r, w)))
    [] e.k = "Compare" /\ Len(e.ops) = 1 /\ e.ops[1] \in CmpOps ->
         Comparison(Promoted(e.ops[1], WExpr(e.l, w), WExpr(e.rs[1], w)))
    [] e.k = "IfExp" ->
         Conditional(WExpr(e.t, w), Promoted("if", WExpr(e.y, w), WExpr(e.n, w)))
    [] e.k = "Call" /\ Len(e.args) = 1 -> Called(e, WExpr(e.args[1], w))
    [] OTHER -> Rejected

-----------------------------------------------------------------------------
(* Statements.  One is lowered to [w, ir, term]: the walker after it, its  *)
(* IR, and whether control never gets past it.                             *)

Done(w, ir, term) == [w |-> w, ir |-> ir, term |-> term]
Check(w, good) == [w EXCEPT !.ok = @ /\ good]
Typed(w, n, dt) == Check([w EXCEPT !.locals = n :> dt @@ @], dt # "no")

RecordReturn(w, dt) ==
  Check([w EXCEPT !.out = IF @ = "none" THEN dt ELSE @],
        dt # "no" /\ w.out \in {"none", dt})

\* Variant: control never gets past an if one of whose branches ends.
EitherEnds(b, o) == b \/ o

\* It never gets past one both of whose branches end.
BothEnd(b, o) == b /\ o

RECURSIVE WStmts(_, _), WSeq(_, _), WStmt(_, _)
\* Nothing is lowered after a statement control does not get past.
After(h, rest) ==
  IF h.term \/ ~h.w.ok THEN [h EXCEPT !.ir = <<@>>]
  ELSE [WSeq(rest, h.w) EXCEPT !.ir = <<h.ir>> \o @]

WSeq(b, w) == IF b = <<>> THEN Done(w, <<>>, FALSE) ELSE After(WStmt(b[1], w), Tail(b))
WStmts(b, w) == WSeq(StripDocstring(b), w)

AssignTo(id, v, w) == Done(w, [k |-> "assign", id |-> id, dt |-> v.dt, v |-> v.ir], FALSE)

WIf(n, t, b) ==
  LET o == WStmts(n.o, b.w)
  IN  Done(o.w, [k |-> "if", t |-> t.ir, b |-> b.ir, o |-> o.ir], BothEnd(b.term, o.term))

WFor(n, lo, hi, w) ==
  LET b == WStmts(n.b, Check(Typed(w, n.id, "i64"), "no" \notin {lo.dt, hi.dt}))
  IN  Done(b.w, [k |-> "for_range", id |-> n.id, lo |-> To(lo, "i64"),
                 hi |-> To(hi, "i64"), b |-> b.ir], FALSE)

WWhile(n, t, w) ==
  LET b == WStmts(n.b, Check(w, t.dt # "no"))
  IN  Done(b.w, [k |-> "while", t |-> t.ir, b |-> b.ir], FALSE)

WStmt(n, w) ==
  LET assign(id, v) == AssignTo(id, v, Typed(w, id, v.dt))
      augment(v) == AssignTo(n.id, v, Check(w, v.dt = w.locals[n.id]))
      return(v) == Done(RecordReturn(w, v.dt), [k |-> "return", v |-> v.ir], TRUE)
      if(t) == WIf(n, t, WStmts(n.b, Check(w, t.dt # "no")))
      bound(i) == IF i = 0 THEN Lowered(Const(Zero, "i64"), "i64") ELSE WExpr(n.args[i], w)
  IN  CASE n.k = "Assign" /\ Len(n.targets) = 1 -> assign(n.targets[1], WExpr(n.e, w))
        [] n.k = "AugAssign" /\ n.id \in DOMAIN w.locals /\ n.op \in BinOps ->
             augment(Promoted(n.op, WExpr(Name(n.id), w), WExpr(n.e, w)))
        [] n.k = "Return" -> return(WExpr(n.e, w))
        [] n.k = "If" -> if(WExpr(n.t, w))
        [] n.k = "For" /\ n.o = <<>> /\ Len(n.args) \in 1..2 ->
             WFor(n, bound(Len(n.args) - 1), bound(Len(n.args)), w)
        [] n.k = "While" /\ n.o = <<>> -> WWhile(n, WExpr(n.t, w), w)
        [] n.k = "Break" -> Done(w, [k |-> "break"], TRUE)
        [] n.k = "Continue" -> Done(w, [k |-> "continue"], TRUE)
        [] OTHER -> Done(Check(w, FALSE), [k |-> "none"], FALSE)

-----------------------------------------------------------------------------
\* The kernel of what a lambda or a function is lowered to, or that there is none.
NoKernel == [ok |-> FALSE]
KernelOf(input, out, body) == [ok |-> TRUE, in |-> input, out |-> out, body |-> body]
LambdaKernel(e, input) ==
  IF e.dt = "no" THEN NoKernel
  ELSE KernelOf(input, e.dt, <<[k |-> "return", v |-> e.ir]>>)
FunctionKernel(s, input) ==
  IF ~s.w.ok \/ ~s.term THEN NoKernel
  ELSE KernelOf(input, IF s.w.out = "none" THEN input ELSE s.w.out, s.ir)

\* try_compile up to jit_compile.
Kernel(f, input) ==
  LET w(node) == [param |-> node.params[1], input |-> input, locals |-> <<>>,
                  out |-> "none", ok |-> TRUE]
      lower(node) == IF node.k = "Lambda"
                     THEN LambdaKernel(WExpr(node.e, w(node)), input)
                     ELSE FunctionKernel(WStmts(node.b, w(node)), input)
  IN  IF ~HasNode(f) \/ Len(FnNode(f).params) # 1 THEN NoKernel ELSE lower(FnNode(f))
=============================================================================
