------------------------------ MODULE JitKernel ------------------------------
(***************************************************************************)
(* The code generator of the JIT (src/ast_ir.rs, src/jit.rs): which        *)
(* kernels it accepts and what the machine code computes for one element.  *)
(*                                                                         *)
(* g is the generator's context: in and out, the dtypes of the kernel;     *)
(* types, the locals declared so far with their dtypes; vector, whether    *)
(* the vector loop or the scalar one is generated; host, the conversions   *)
(* of vectors ("to_int", "to_float") the target has instructions for; and  *)
(* end, how the generation ends: "ok"; "bad", with code the verifier       *)
(* refuses or the target cannot do; "err", an Err there and then; "panic". *)
(***************************************************************************)
EXTENDS JitWalker

Ints == {"i8", "i64"}

-----------------------------------------------------------------------------
(* Types                                                                   *)

\* Variant: operands of comparisons are integers.
InspectNothing(e, g) == "none"

RECURSIVE Inspect(_, _)
Inspect(e, g) ==
  LET first(a, b) == IF Inspect(a, g) # "none" THEN Inspect(a, g) ELSE Inspect(b, g)
  IN  CASE e.k \in {"const_f64", "cast_to_f64"} -> "f64"
        [] e.k = "math_call" -> IF g.vector THEN "none" ELSE "f64"
        [] e.k \in {"const_i64", "const_bool", "cast_to_i64"} -> "i64"
        [] e.k = "param" -> g.in
        [] e.k = "local" -> IF e.id \in DOMAIN g.types THEN g.types[e.id] ELSE "none"
        [] e.k \in {"bin_op", "compare"} -> first(e.l, e.r)
        [] e.k = "unary" -> Inspect(e.a, g)
        [] e.k = "if_expr" -> first(e.y, e.n)

\* guess_cmp_dtype, guess_simd_cmp_dtype
GuessCmpDtype(l, r, g) ==
  CASE Inspect(l, g) # "none" -> Inspect(l, g)
    [] Inspect(l, g) = "none" /\ Inspect(r, g) # "none" -> Inspect(r, g)
    [] OTHER -> "i64"

\* coerce
Converts(from, to, g) ==
  from = to \/ ~g.vector \/ (IF to = "i64" THEN "to_int" ELSE "to_float") \in g.host

\* Lowering an expression when want is expected: ty, the type of the value made,
\* and st, "fine" or how it ends.
Made(ty, kids, good) ==
  [ty |-> ty,
   st |-> CASE \E t \in kids : t.st = "err" -> "err"
            [] ~(\E t \in kids : t.st = "err") /\ good /\ (\A t \in kids : t.st = "fine") -> "fine"
            [] OTHER -> "bad"]
Fails(t) == [t EXCEPT !.st = "err"]

\* Does an instruction on dtype dt take a value of type ty?
Fits(ty, dt) == IF dt = "i64" THEN ty \in Ints ELSE ty = "f64"

RECURSIVE ClType(_, _, _)
ClType(e, want, g) ==
  LET t(a, dt) == ClType(a, dt, g)
      fixed(from) == Made(want, {}, Converts(from, want, g))
      pair(l, r, ty, dt) == Made(ty, {l, r}, Fits(l.ty, dt) /\ l.ty = r.ty)
  IN  CASE e.k = "param" -> fixed(g.in)
        [] e.k = "local" -> IF e.id \in DOMAIN g.types THEN fixed(g.types[e.id])
                            ELSE Fails(fixed(want))
        [] e.k = "const_i64" -> fixed("i64")
        [] e.k = "const_f64" -> fixed("f64")
        [] e.k = "const_bool" -> Made("i64", {}, TRUE)
        [] e.k = "unary" ->
             LET a == t(e.a, want) IN Made(a.ty, {a}, e.op = "plus" \/ Fits(a.ty, want))
        [] e.k = "bin_op" ->
             LET l == t(e.l, want)
                 v == pair(l, t(e.r, want), l.ty, want)
             IN  IF e.op \in (IF want = "i64" THEN {"pow"} ELSE {"floordiv", "mod"})
                 THEN Fails(v) ELSE v
        [] e.k = "compare" ->
             LET dt == GuessCmpDtype(e.l, e.r, g)
             IN  pair(t(e.l, dt), t(e.r, dt), IF g.vector THEN "i64" ELSE "i8", dt)
        [] e.k = "if_expr" ->
             LET c == t(e.t, "i64")
                 y == t(e.y, want)
                 n == t(e.n, want)
             IN  Made(y.ty, {c, y, n}, c.ty \in Ints /\ y.ty = n.ty)
        [] e.k = "math_call" ->
             LET a == t(e.a, "f64")
             IN  IF want = "i64" THEN Fails(a) ELSE Made("f64", {a}, a.ty = "f64")
        [] e.k = "cast_to_i64" ->
             LET a == t(e.a, "f64")
             IN  Made("i64", {a}, a.ty = "f64" /\ Converts("f64", "i64", g))
        [] e.k = "cast_to_f64" ->
             LET a == t(e.a, "i64")
             IN  Made("f64", {a}, a.ty \in Ints /\ Converts("i64", "f64", g))

\* How it ends after a value of t has been used where types tys fit, ...
Used(end, t, tys) ==
  CASE t.st = "err" -> "err"
    [] t.st # "err" /\ end # "ok" -> end
    [] OTHER -> IF t.st = "bad" \/ t.ty \notin tys THEN "bad" ELSE "ok"

\* ... and after def_var to a variable of type ty, which panics on another type.
DefVar(end, t, ty) ==
  IF t.st # "err" /\ t.ty # ty THEN "panic" ELSE Used(end, t, {ty})

RECURSIVE LowerBody(_, _), LowerStmt(_, _)
LowerBody(b, g) ==
  IF b = <<>> \/ g.end \in {"err", "panic"} THEN g
  ELSE LowerBody(Tail(b), LowerStmt(b[1], g))

LowerStmt(n, g) ==
  LET test == [g EXCEPT !.end = Used(@, ClType(n.t, "i64", g), Ints)]
      known == n.id \in DOMAIN g.types
      declared(dt) == n.id :> (IF known THEN g.types[n.id] ELSE dt) @@ g.types
  IN  CASE n.k = "assign" ->
             [g EXCEPT !.types = declared(n.dt),
                       !.end = IF known /\ g.types[n.id] # n.dt THEN "err"
                               ELSE DefVar(@, ClType(n.v, n.dt, g), n.dt)]
        [] n.k = "return" -> [g EXCEPT !.end = DefVar(@, ClType(n.v, g.out, g), g.out)]
        [] n.k = "for_range" ->
             LowerBody(n.b,
               [g EXCEPT !.types = declared("i64"),
                         !.end = Used(DefVar(@, ClType(n.lo, "i64", g), declared("i64")[n.id]),
                                      ClType(n.hi, "i64", g), {"i64"})])
        [] n.k = "while" -> LowerBody(n.b, test)
        [] n.k = "if" -> LowerBody(n.o, LowerBody(n.b, test))
        [] n.k \in {"break", "continue"} -> g

RECURSIVE Pure(_)
\* is_pure_simd_expr
Pure(e) ==
  CASE e.k \in {"param", "const_i64", "const_f64", "const_bool"} -> TRUE
    [] e.k \in {"local", "math_call"} -> FALSE
    [] e.k \in {"unary", "cast_to_i64", "cast_to_f64"} -> Pure(e.a)
    [] e.k = "bin_op" ->
         e.op \notin {"mod", "floordiv", "div", "pow"} /\ Pure(e.l) /\ Pure(e.r)
    [] e.k = "compare" -> Pure(e.l) /\ Pure(e.r)
    [] e.k = "if_expr" -> Pure(e.t) /\ Pure(e.y) /\ Pure(e.n)

Vectorizable(k) == Len(k.body) = 1 /\ k.body[1].k = "return" /\ Pure(k.body[1].v)

\* jit_compile of a kernel.  There is no second attempt without vectors.
Compiled(k, host) ==
  LET g0 == [in |-> k.in, out |-> k.out, types |-> <<>>, vector |-> FALSE,
             host |-> host, end |-> "ok"]
      v == [g0 EXCEPT !.vector = TRUE]
      g == LowerBody(k.body, IF Vectorizable(k)
                             THEN [g0 EXCEPT !.end = Used(@, ClType(k.body[1].v, k.out, v), Dtypes)]
                             ELSE g0)
  IN  [g EXCEPT !.vector = Vectorizable(k)]

-----------------------------------------------------------------------------
(* Values.  m has the element x and the locals' registers.                 *)

\* fcvt_to_sint
ToInt(a) ==
  IF Defined(a) /\ Magnitude(Truncated(a)[1]) < Limit THEN Truncated(a) ELSE Trap

Coerced(a, from, to) == IF from = "f64" /\ to = "i64" THEN ToInt(a) ELSE a

\* bin_op: iadd, isub and imul wrap around; sdiv and srem truncate, and trap on
\* a zero divisor and on the one quotient that does not fit.
Native(op, l, r, want) ==
  LET q == Truncated(Over(l, r))
  IN  CASE Trap \in {l, r} -> Trap
        [] Trap \notin {l, r} /\ want = "f64" -> Arithmetic(op, l, r)
        [] Trap \notin {l, r} /\ want = "i64" /\ op \in {"add", "sub", "mul"} ->
             Wrapped(Arithmetic(op, l, r))
        [] OTHER -> IF r = Zero \/ q = Whole(Limit) THEN Trap
                    ELSE IF op = "mod" THEN Plus(l, Negated(Times(r, q))) ELSE q

\* bitselect on the bits of two integers: (c & y) | (~c & n).
BitSelect(c, y, n) ==
  LET and(a, b) == BitOp("bitand", a, b, Width)
  IN  Plus(and(c, y), Plus(n, Negated(and(c, n))))

\* select takes any non-zero condition, bitselect a mask.
Select(c, y, n, want, g) ==
  CASE Trap \in {c, y, n} -> Trap
    [] Trap \notin {c, y, n} /\ (~g.vector \/ c \in {Zero, Whole(-1)}) ->
         IF c # Zero THEN y ELSE n
    [] OTHER -> IF want = "i64" THEN BitSelect(c, y, n) ELSE Undef

RECURSIVE Value(_, _, _, _)
Value(e, want, m, g) ==
  LET v(a, dt) == Value(a, dt, m, g)
      true == IF g.vector THEN Whole(-1) ELSE Whole(1)
  IN  CASE e.k = "param" -> Coerced(m.x, g.in, want)
        [] e.k = "local" -> Coerced(m.regs[e.id], g.types[e.id], want)
        [] e.k = "const_i64" -> e.v
        [] e.k = "const_f64" -> Coerced(e.v, "f64", want)
        [] e.k = "const_bool" -> IF e.v = Zero THEN Zero ELSE true
        [] e.k = "unary" ->
             LET a == v(e.a, want)
             IN  IF a = Trap \/ e.op = "plus" THEN a
                 ELSE IF want = "i64" THEN Wrapped(Negated(a)) ELSE Negated(a)
        [] e.k = "bin_op" -> Native(e.op, v(e.l, want), v(e.r, want), want)
        [] e.k = "compare" ->
             LET dt == GuessCmpDtype(e.l, e.r, g)
                 l == v(e.l, dt)
                 r == v(e.r, dt)
             IN  IF Trap \in {l, r} THEN Trap
                 ELSE IF Compared(e.op, l, r) THEN true ELSE Zero
        [] e.k = "if_expr" -> Select(v(e.t, "i64"), v(e.y, want), v(e.n, want), want, g)
        [] e.k = "math_call" ->
             LET a == v(e.a, "f64") IN IF a = Trap THEN Trap ELSE MathValue(e.f, a)
        [] e.k = "cast_to_i64" -> ToInt(v(e.a, "f64"))
        [] e.k = "cast_to_f64" -> v(e.a, "i64")

-----------------------------------------------------------------------------
(* Control.  A state has the registers, the way control goes ("run",       *)
(* "break", "continue", "return", "trap", "hang"), the result, and fuel    *)
(* for the rounds of loops.                                                *)

Put(m, id, v) ==
  IF v = Trap THEN Go(m, "trap") ELSE [m EXCEPT !.regs = [@ EXCEPT ![id] = v]]

RECURSIVE RunBody(_, _, _), RunStmt(_, _, _), RunFor(_, _, _, _), RunWhile(_, _, _)
RunBody(b, m, g) ==
  IF b = <<>> \/ m.flow # "run" THEN m ELSE RunBody(Tail(b), RunStmt(b[1], m, g), g)

\* Variant: continue goes to the test of the loop.
NotAfterContinue(r, id) ==
  IF r.flow = "continue" THEN Go(r, "run")
  ELSE Put(r, id, Wrapped(Plus(r.regs[id], Whole(1))))

\* inc_block: the loop variable is the counter; continue comes by here, too.
Increment(r, id) == Put(Go(r, "run"), id, Wrapped(Plus(r.regs[id], Whole(1))))

RunFor(n, hi, m, g) ==
  LET r == RunBody(n.b, [m EXCEPT !.fuel = @ - 1], g)
  IN  IF ~Compared("lt", m.regs[n.id], hi) THEN m
      ELSE IF m.fuel = 0 THEN Go(m, "hang")
      ELSE IF Rounds(r)
           THEN RunFor(n, hi, Increment(r, n.id), g)
      ELSE Leave(r)

RunWhile(n, m, g) ==
  LET t == Value(n.t, "i64", m, g)
      r == RunBody(n.b, [m EXCEPT !.fuel = @ - 1], g)
  IN  CASE t = Trap -> Go(m, "trap")
        [] t = Zero -> m
        [] OTHER -> IF m.fuel = 0 THEN Go(m, "hang")
                    ELSE IF Rounds(r) THEN RunWhile(n, Go(r, "run"), g) ELSE Leave(r)

RunStmt(n, m, g) ==
  CASE n.k = "assign" -> Put(m, n.id, Value(n.v, n.dt, m, g))
    [] n.k = "return" ->
         LET v == Value(n.v, g.out, m, g)
         IN  IF v = Trap THEN Go(m, "trap") ELSE [Go(m, "return") EXCEPT !.val = v]
    [] n.k = "for_range" ->
         LET lo == Value(n.lo, "i64", m, g)
             hi == Value(n.hi, "i64", m, g)
         IN  IF Trap \in {lo, hi} THEN Go(m, "trap") ELSE RunFor(n, hi, Put(m, n.id, lo), g)
    [] n.k = "while" -> RunWhile(n, m, g)
    [] n.k = "if" ->
         LET t == Value(n.t, "i64", m, g)
         IN  IF t = Trap THEN Go(m, "trap")
             ELSE RunBody(IF t # Zero THEN n.b ELSE n.o, m, g)
    [] n.k \in {"break", "continue"} -> Go(m, n.k)

\* What the code does with one element.  Registers are those the element before
\* has left: a local that is not assigned on this path reads its last value.
RunElement(body, x, regs, g) ==
  RunBody(body, [x |-> x, regs |-> regs, flow |-> "run", val |-> Zero, fuel |-> 40], g)
=============================================================================
