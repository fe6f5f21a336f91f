------------------------------- MODULE PyEval -------------------------------
(***************************************************************************)
(* The Python functions that are mapped: their syntax trees, in the shape  *)
(* of the module ast, and what CPython makes of them.  This is what every  *)
(* backend is compared with.                                               *)
(*                                                                         *)
(* A value is a number: v, what it is worth, and t, "int" or "float"; a    *)
(* bool is the int 0 or 1.                                                 *)
(*                                                                         *)
(* An evaluation is in a context: param, the parameter; and strict, which  *)
(* leaves undefined everything some backend is known to do otherwise.      *)
(***************************************************************************)
EXTENDS Fractions, Sequences, TLC

CONSTANT
  Width   \* bits of an i64

Limit == 2 ^ (Width - 1)
Wrapped(a) == Whole(((a[1] + Limit) % (2 * Limit)) - Limit)

-----------------------------------------------------------------------------
(* Syntax                                                                  *)

Name(i)       == [k |-> "Name", id |-> i]
Num(n)        == [k |-> "Int", v |-> Whole(n)]
Float(n, d)   == [k |-> "Float", v |-> Fraction(n, d)]
Bool(b)       == [k |-> "Bool", v |-> Bit(b)]
Un(op, a)     == [k |-> "UnaryOp", op |-> op, a |-> a]
Bin(op, l, r) == [k |-> "BinOp", op |-> op, l |-> l, r |-> r]
Cmp(op, l, r) == [k |-> "Compare", ops |-> <<op>>, l |-> l, rs |-> <<r>>]
IfExp(t, y, n) == [k |-> "IfExp", t |-> t, y |-> y, n |-> n]
Call(f, a)    == [k |-> "Call", mod |-> "", f |-> f, args |-> <<a>>]
Math(f, a)    == [k |-> "Call", mod |-> "math", f |-> f, args |-> <<a>>]
Other         == [k |-> "Other"]   \* any other expression or statement

Assign(n, e)     == [k |-> "Assign", targets |-> <<n>>, e |-> e]
Aug(n, op, e)    == [k |-> "AugAssign", id |-> n, op |-> op, e |-> e]
Return(e)        == [k |-> "Return", e |-> e]
If(t, b, o)      == [k |-> "If", t |-> t, b |-> b, o |-> o]
For(i, args, b)  == [k |-> "For", id |-> i, args |-> args, b |-> b, o |-> <<>>]
While(t, b)      == [k |-> "While", t |-> t, b |-> b, o |-> <<>>]
Break            == [k |-> "Break"]
Continue         == [k |-> "Continue"]
Docstring        == [k |-> "Docstring"]

Lambda(i, e) == [k |-> "Lambda", params |-> <<i>>, e |-> e]
Def(i, b)    == [k |-> "FunctionDef", params |-> <<i>>, b |-> b]

-----------------------------------------------------------------------------
(* Numbers                                                                 *)

PyInt(v)   == [v |-> v, t |-> "int"]
PyFloat(v) == [v |-> v, t |-> "float"]
NoNumber   == PyInt(Undef)
Exists(a)  == Defined(a.v)

IntsOnly == {"bitand", "bitor", "bitxor"}

Arithmetic(op, l, r) ==
  CASE op = "add" -> Plus(l, r)
    [] op = "sub" -> Plus(l, Negated(r))
    [] op = "mul" -> Times(l, r)
    [] op = "div" -> Over(l, r)
    [] op = "floordiv" -> Floor(Over(l, r))
    [] op = "mod" -> Plus(l, Negated(Times(r, Floor(Over(l, r)))))
    [] op = "pow" -> Power(l, r)
    [] op \in IntsOnly -> BitOp(op, l, r, Width)
    [] OTHER -> Undef

\* / makes floats of ints, & | ^ are for ints, the others make a float if one
\* operand is.
BinaryValue(op, l, r) ==
  LET v == Arithmetic(op, l.v, r.v)
  IN  CASE op # "div" /\ l.t = "int" /\ r.t = "int" -> PyInt(v)
        [] op \in IntsOnly /\ "float" \in {l.t, r.t} -> NoNumber
        [] OTHER -> PyFloat(v)

\* math.floor and math.ceil make ints, abs what it is given, the rest floats.
CallValue(mod, f, a) ==
  CASE mod = "math" /\ f \in {"floor", "ceil"} -> PyInt(MathValue(f, a.v))
    [] mod = "math" /\ f \notin {"floor", "ceil", "abs"} -> PyFloat(MathValue(f, a.v))
    [] mod = "" /\ f = "abs" -> [a EXCEPT !.v = MathValue("abs", @)]
    [] mod = "" /\ f = "int" -> PyInt(Truncated(a.v))
    [] mod = "" /\ f = "float" -> PyFloat(a.v)
    [] OTHER -> NoNumber

-----------------------------------------------------------------------------
(* Expressions                                                             *)

\* An operation all backends do as Python does: nothing leaves the range of
\* integers, whole numbers divide without remainder by /, and the quotient of
\* // and % is not rounded down past zero.
Faithful(op, l, r, v) ==
  /\ Magnitude(v[1]) < Limit
  /\ op = "div" /\ IsWhole(l) /\ IsWhole(r) => IsWhole(v)
  /\ op \in {"floordiv", "mod"} => Truncated(Over(l, r)) = Floor(Over(l, r))

Within(c, op, l, r, a) ==
  IF c.strict => Faithful(op, l.v, r.v, a.v) THEN a ELSE NoNumber

\* A test all backends take as Python does.
PlainTest(e) == e.k \in {"Compare", "Bool"}

RECURSIVE PyExpr(_, _, _)
PyExpr(e, env, c) ==
  LET \* a bool is no operand
      operand(a) == IF c.strict /\ PlainTest(a) THEN NoNumber ELSE PyExpr(a, env, c)
  IN
  CASE e.k = "Name" -> IF e.id \in DOMAIN env THEN env[e.id] ELSE NoNumber
    [] e.k \in {"Int", "Bool"} -> PyInt(e.v)
    [] e.k = "Float" -> PyFloat(e.v)
    [] e.k = "UnaryOp" ->
         LET a == operand(e.a)
         IN  (CASE e.op = "neg" -> [a EXCEPT !.v = Negated(@)]
                [] e.op = "plus" -> a
                [] e.op = "invert" ->
                     IF a.t = "int" THEN PyInt(Plus(Negated(a.v), Whole(-1))) ELSE NoNumber
                [] e.op = "not" -> IF Exists(a) THEN PyInt(Bit(a.v = Zero)) ELSE NoNumber)
    [] e.k = "BinOp" ->
         LET l == operand(e.l)
             r == operand(e.r)
         IN  Within(c, e.op, l, r, BinaryValue(e.op, l, r))
    [] e.k = "Compare" ->
         LET l == operand(e.l)
             r == operand(e.rs[1])
         IN  IF Len(e.ops) = 1 /\ Exists(l) /\ Exists(r)
             THEN PyInt(Bit(Compared(e.ops[1], l.v, r.v))) ELSE NoNumber
    [] e.k = "IfExp" ->
         LET t == PyExpr(e.t, env, c)
             y == operand(e.y)
             n == operand(e.n)
             \* backends evaluate both arms
             plain == PlainTest(e.t) /\ Exists(y) /\ Exists(n)
         IN  IF ~Exists(t) \/ (c.strict /\ ~plain) THEN NoNumber
             ELSE IF t.v # Zero THEN y ELSE n
    [] e.k = "Call" /\ Len(e.args) = 1 -> CallValue(e.mod, e.f, operand(e.args[1]))
    [] OTHER -> NoNumber

-----------------------------------------------------------------------------
(* Statements.  A state has the variables, the way control goes ("run",    *)
(* "break", "continue", "return", "raise"), the value returned, and fuel   *)
(* for the iterations of while.                                            *)

Branches(t, a, c) ==
  c.strict => PlainTest(t) \/ (t.k = "Name" /\ IsWhole(a.v))

Go(s, flow) == [s EXCEPT !.flow = flow]
Set(s, n, a, c) ==
  IF ~Exists(a) \/ (c.strict /\ n = c.param) THEN Go(s, "raise")
  ELSE [s EXCEPT !.env = n :> a @@ @]

RECURSIVE PyStmts(_, _, _), PyStmt(_, _, _), PyFor(_, _, _, _),
          PyWhile(_, _, _), PyRound(_, _, _, _)
PyStmts(b, s, c) ==
  IF b = <<>> \/ s.flow # "run" THEN s
  ELSE PyStmts(Tail(b), PyStmt(Head(b), s, c), c)

\* After a round of a loop: does it go on?
Rounds(s) == s.flow \in {"run", "continue"}
Leave(s)  == IF s.flow = "break" THEN Go(s, "run") ELSE s

\* The iterator, not the variable, decides; in strict mode the body leaves the
\* variable alone and nobody reads it after the loop.
PyFor(n, is, s, c) ==
  IF is = <<>>
  THEN IF c.strict THEN [s EXCEPT !.env = [m \in DOMAIN @ \ {n.id} |-> @[m]]] ELSE s
  ELSE LET i == PyInt(Whole(is[1]))
           r == PyStmts(n.b, Set(s, n.id, i, c), c)
       IN  IF c.strict /\ r.flow # "raise" /\ r.env # [r.env EXCEPT ![n.id] = i]
           THEN Go(r, "raise")
           ELSE IF Rounds(r) THEN PyFor(n, Tail(is), Go(r, "run"), c)
           ELSE Leave(r)

PyWhile(n, s, c) == PyRound(n, PyExpr(n.t, s.env, c), s, c)

\* A round of a while loop whose test is t.
PyRound(n, t, s, c) ==
  LET r == PyStmts(n.b, [s EXCEPT !.fuel = @ - 1], c)
  IN  IF ~Exists(t) \/ ~Branches(n.t, t, c) \/ s.fuel = 0 THEN Go(s, "raise")
      ELSE IF t.v = Zero THEN s
      ELSE IF Rounds(r) THEN PyWhile(n, Go(r, "run"), c)
      ELSE Leave(r)

PyBranch(n, t, s, c) ==
  IF ~Exists(t) \/ ~Branches(n.t, t, c) THEN Go(s, "raise")
  ELSE PyStmts(IF t.v # Zero THEN n.b ELSE n.o, s, c)

\* range, of ints; a step that is not positive is left out.
Steps(lo, hi, step) ==
  [j \in 1..((hi - lo + step - 1) \div step) |-> lo + (j - 1) * step]

PyRange(n, lo, hi, step, s, c) ==
  IF (\A a \in {lo, hi, step} : Exists(a) /\ a.t = "int") /\ step.v[1] > 0
  THEN PyFor(n, Steps(lo.v[1], hi.v[1], step.v[1]), s, c)
  ELSE Go(s, "raise")

Returned(s, a) == IF Exists(a) THEN [Go(s, "return") EXCEPT !.val = a] ELSE Go(s, "raise")

PyStmt(n, s, c) ==
  CASE n.k = "Assign" /\ Len(n.targets) = 1 ->
         Set(s, n.targets[1], PyExpr(n.e, s.env, c), c)
    [] n.k = "AugAssign" ->
         Set(s, n.id, PyExpr(Bin(n.op, Name(n.id), n.e), s.env, c), c)
    [] n.k = "Return" -> Returned(s, PyExpr(n.e, s.env, c))
    [] n.k = "If" -> PyBranch(n, PyExpr(n.t, s.env, c), s, c)
    [] n.k = "For" ->
         LET bound(j) == PyExpr(n.args[j], s.env, c)
         IN  (CASE Len(n.args) = 1 -> PyRange(n, PyInt(Zero), bound(1), PyInt(Whole(1)), s, c)
                [] Len(n.args) = 2 -> PyRange(n, bound(1), bound(2), PyInt(Whole(1)), s, c)
                [] Len(n.args) = 3 -> PyRange(n, bound(1), bound(2), bound(3), s, c))
    [] n.k = "While" -> PyWhile(n, s, c)
    [] n.k = "Break" -> Go(s, "break")
    [] n.k = "Continue" -> Go(s, "continue")
    [] n.k = "Docstring" -> s
    [] OTHER -> Go(s, "raise")

\* What the function of this node returns for x, or no number.
Result(s) == IF s.flow = "return" THEN s.val ELSE NoNumber
PyCall(node, x, strict) ==
  LET c == [param |-> node.params[1], strict |-> strict]
      env == node.params[1] :> x
  IN  IF node.k = "Lambda" THEN PyExpr(node.e, env, c)
      ELSE Result(PyStmts(node.b, [env |-> env, flow |-> "run", val |-> NoNumber,
                                   fuel |-> 20], c))
=============================================================================
