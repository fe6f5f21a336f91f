------------------------------ MODULE MCBackends ------------------------------
(* Functions and arrays for Backends: expressions of a small grammar, written *)
(* as lambdas and as functions, and functions with control flow.              *)
EXTENDS Backends

X == Name("x")
Half == Float(1, 2)
Leaf == {X, Num(0), Num(2), Half}
BinaryOps == BinOps \cup ArrowBinOps
Up  == Bin("add", X, Num(1))
Odd == Bin("mod", X, Num(2))

Simple ==
  Leaf \cup {Bool(TRUE)}
  \cup {Un(op, a) : op \in {"neg", "plus", "invert", "not"}, a \in {X, Half, Bool(TRUE)}}
  \cup {Bin(op, l, r) : op \in BinaryOps, l \in {X, Num(2)}, r \in {X, Num(0), Half}}
  \cup {Cmp(op, X, r) : op \in CmpOps, r \in {Num(2), Half}}
  \cup {Math(f, a) : f \in {"floor", "ceil", "fabs", "sqrt", "abs", "round"}, a \in {X, Half}}
  \cup {Call(f, a) : f \in {"int", "float", "abs"}, a \in {X, Half, Bool(TRUE)}}

\* Shapes around simple expressions: with a cast, which arrow_kernel refuses and
\* the JIT makes vectors of; with //, which it does element by element.
Shapes(e) ==
  {e, Bin("add", Call("float", X), e), Bin("sub", e, Call("int", X)),
   Bin("mul", Odd, e), Bin("floordiv", e, Num(2)),
   Cmp("lt", Call("int", X), e), Math("floor", e),
   IfExp(Cmp("gt", X, Num(0)), e, X),
   IfExp(Cmp("le", Call("float", X), Half), Num(1), e), IfExp(e, X, Num(2))}

\* Operands of every type, in every pair: what is promoted to what, and which
\* type a comparison takes.
Atoms == {X, Num(2), Half, Odd, Call("int", X), Call("float", X), Math("floor", X),
          Cmp("lt", Call("int", X), Num(2)), IfExp(Cmp("lt", X, Num(1)), Num(1), Half)}
Paired == {Bin(op, l, r) : op \in BinOps, l \in Atoms, r \in Atoms}
Chosen == {IfExp(Cmp("lt", l, r), y, n) :
             l \in Atoms, r \in Atoms, y \in {X, Half, Odd, Call("int", X), Math("floor", X)},
             n \in {X, Num(2), Odd, Call("float", X)}}

Expressions == UNION {Shapes(e) : e \in Simple}

\* f is what its own source shows.
Alone(f) == Func(<<f>>, f, f)
Fn(b) == Alone(Def("x", b))

OfExpressions ==
  {Alone(Lambda("x", e)) : e \in Expressions \cup Paired \cup Chosen}
  \cup {Fn(<<Docstring, Return(e)>>) : e \in Simple}
  \cup {Fn(<<Assign("y", e), Return(Bin("add", Name("y"), X))>>) :
         e \in Expressions \cup Paired}
  \cup {Fn(<<If(e, <<Return(Num(1))>>, <<>>), Return(Odd)>>) : e \in Expressions}

Y == Name("y")
N == Name("n")
I == Name("i")
Inc(v) == Aug(v, "add", Num(1))

\* The sum of a range, by for, by while, and by while with a way out.
SumFor == Fn(<<Assign("y", Num(0)),
               For("i", <<X>>, <<Aug("y", "add", I)>>), Return(Y)>>)
SumWhile == Fn(<<Assign("n", X), Assign("y", Num(0)),
                 While(Cmp("gt", N, Num(0)), <<Aug("y", "add", N), Aug("n", "sub", Num(1))>>),
                 Return(Y)>>)
SumOut == Fn(<<Assign("n", X), Assign("y", Num(0)),
               While(Bool(TRUE), <<If(Cmp("le", N, Num(0)), <<Break>>, <<>>),
                                   Aug("y", "add", N), Aug("n", "sub", Num(1))>>),
               Return(Y)>>)
\* continue; nested loops; a search that returns from a loop; steps of Collatz.
Odds == Fn(<<Assign("y", Num(0)),
             For("i", <<Num(1), X>>,
                 <<If(Cmp("eq", Bin("mod", I, Num(2)), Num(0)), <<Continue>>, <<>>), Inc("y")>>),
             Return(Y)>>)
Pairs == Fn(<<Assign("y", Num(0)),
              For("i", <<X>>, <<For("n", <<I, X>>,
                 <<If(Cmp("gt", N, Num(1)), <<Break>>, <<Inc("y")>>)>>)>>),
              Return(Y)>>)
Prime == Fn(<<Docstring, If(Cmp("lt", X, Num(2)), <<Return(Bool(FALSE))>>, <<>>),
              For("i", <<Num(2), X>>,
                  <<If(Cmp("eq", Bin("mod", X, I), Num(0)), <<Return(Bool(FALSE))>>, <<>>)>>),
              Return(Bool(TRUE))>>)
Collatz == Fn(<<Assign("n", Call("int", X)), Assign("y", Num(0)),
                While(Cmp("gt", N, Num(1)),
                      <<If(Cmp("eq", Bin("mod", N, Num(2)), Num(0)),
                           <<Assign("n", Bin("floordiv", N, Num(2)))>>,
                           <<Assign("n", Bin("add", Bin("mul", N, Num(3)), Num(1)))>>),
                        Inc("y")>>),
                Return(Y)>>)
Sign == Fn(<<If(Cmp("lt", X, Num(0)), <<Return(Num(-1))>>,
                <<If(Cmp("eq", X, Num(0)), <<Return(Num(0))>>, <<Return(Num(1))>>)>>)>>)
Mixed == Fn(<<Assign("y", Float(0, 1)),
              For("i", <<Num(3)>>, <<Aug("y", "add", Bin("mul", X, I))>>), Return(Y)>>)
ModFor == Fn(<<Assign("y", Odd), For("i", <<Num(2)>>, <<Inc("y")>>), Return(Y)>>)

\* No kernel: an end without a return; two types of results, of a local, of an
\* augmented local; two parameters; an unknown name; a range with a step.
OpenEnd == Fn(<<If(Cmp("lt", X, Num(2)), <<Return(X)>>, <<>>)>>)
TwoTypes == Fn(<<If(Cmp("lt", X, Num(2)), <<Return(Half)>>, <<>>), Return(Num(1))>>)
Retyped == Fn(<<Assign("y", Num(0)), Assign("y", Half), Return(Bin("add", Y, X))>>)
AugTyped == Fn(<<Assign("y", Num(0)), Aug("y", "add", Half), Return(Bin("add", Y, X))>>)
AugNew == Fn(<<Inc("x"), Return(X)>>)
TwoParams == LET f == [Def("x", <<Return(X)>>) EXCEPT !.params = <<"x", "k">>]
             IN  Alone(f)
Unknown == Fn(<<Assign("y", Num(1)), Return(Bin("add", Name("z"), Y))>>)
Stepped == Fn(<<Assign("y", Num(1)),
                For("i", <<Num(0), X, Num(2)>>, <<Inc("y")>>), Return(Y)>>)
NoSource == LET f == Def("x", <<Return(Up)>>) IN Func(<<>>, f, f)
LoopOnly == Fn(<<While(Bool(TRUE), <<Return(X)>>)>>)
FloatIndex == Fn(<<Assign("i", Half), For("i", <<Num(2)>>, <<Inc("i")>>), Return(X)>>)

\* Outside the contract, each for a reason of its own: the parameter is assigned
\* to, the lambda is the second of its line, the source is that of the function a
\* decorator has wrapped, the module has another function under the name, the
\* variable of a loop is read after it or assigned to in it, a local may be
\* unassigned, the arm of a conditional expression that is not taken has no value.
Parameter == Fn(<<Assign("x", Up), Return(Bin("mul", X, Num(2)))>>)
SecondLambda == LET f == Lambda("x", Bin("mul", X, Num(2)))
                IN  Func(<<Lambda("x", Up), f>>, f, f)
Decorated == LET f == Def("x", <<Return(Bin("mul", Up, Num(2)))>>)
             IN  Func(<<Def("x", <<Return(Up)>>)>>, f, f)
Rebound == Func(<<>>, Def("x", <<Return(Up)>>), Def("x", <<Return(X)>>))
LastIndex == Fn(<<For("i", <<Num(3)>>, <<Assign("y", I)>>), Return(Bin("add", I, X))>>)
OwnIndex == Fn(<<Assign("y", Num(0)),
                 For("i", <<Num(4)>>, <<Inc("y"), Assign("i", Bin("add", I, Num(1)))>>),
                 Return(Y)>>)
StuckIndex == Fn(<<For("i", <<Num(4)>>, <<Assign("i", Num(0))>>), Return(Odd)>>)
Unassigned == Fn(<<If(Cmp("gt", X, Num(0)), <<Assign("y", X)>>, <<>>), Return(Y)>>)
Guarded == Alone(Lambda("x", IfExp(Cmp("eq", Odd, Num(0)), Num(0),
                                   Bin("floordiv", Num(2), Odd))))
Predicate == Alone(Lambda("x", Cmp("eq", Odd, Num(0))))

Programs ==
  {SumFor, SumWhile, SumOut, Odds, Pairs, Prime, Collatz, Sign, Mixed, ModFor,
   OpenEnd, TwoTypes, Retyped, AugTyped, AugNew, TwoParams, Unknown, Stepped,
   NoSource, LoopOnly, FloatIndex, Parameter, SecondLambda, Decorated, Rebound, LastIndex, OwnIndex,
   StuckIndex, Unassigned, Guarded, Predicate}

\* What a backend makes of one element, in a vector or not: how it ends, and the
\* value.
Backend(f, x, vector) ==
  LET p == Plan(f, {"to_int", "to_float"})
      m == RunElement(p.body, x, [n \in DOMAIN p.types |-> Zero],
                      [p EXCEPT !.vector = vector])
  IN  CASE p.via = "arrow" -> {<<"return", r[1]>> : r \in ArrowFast(f, <<x>>, "i64")}
        [] p.via = "jit" -> {<<m.flow, m.val>>}
        [] OTHER -> {<<"return", Unboxed(PyCall(f.named, PyInt(x), FALSE), "i64")>>}

\* Every exclusion of the contract is one of these: what is left out is left out
\* because a backend does it otherwise.
Of(e) == Alone(Lambda("x", e))
Deviations ==
  {<<Of(Bin("floordiv", X, Num(2))), Whole(-3), FALSE>>,
   <<Of(Odd), Whole(-3), FALSE>>,
   <<Of(Bin("div", Odd, Num(2))), Whole(5), FALSE>>,
   <<Of(Bin("div", X, Num(2))), Whole(5), FALSE>>,
   <<Of(Bin("mul", X, X)), Whole(100), FALSE>>,
   <<Of(Bin("add", Call("float", X), Bool(TRUE))), Whole(5), TRUE>>,
   <<Of(IfExp(Call("int", X), Num(2), Num(1))), Whole(4), TRUE>>,
   <<Fn(<<Assign("y", X), If(Half, <<Return(Y)>>, <<>>), Return(Up)>>), Whole(5), FALSE>>,
   <<Parameter, Whole(5), FALSE>>, <<SecondLambda, Whole(5), FALSE>>,
   <<Decorated, Whole(5), FALSE>>, <<Rebound, Whole(5), FALSE>>,
   <<LastIndex, Whole(5), FALSE>>, <<OwnIndex, Whole(5), FALSE>>,
   <<StuckIndex, Whole(5), FALSE>>, <<Guarded, Whole(4), FALSE>>}

ASSUME EveryExclusionIsNeeded ==
  \A d \in Deviations :
    LET python == PyCall(d[1].self, PyInt(d[2]), FALSE)
    IN  /\ Exists(python) /\ ~Exists(Promised(d[1], PyInt(d[2])))
        /\ <<"return", python.v>> \notin Backend(d[1], d[2], d[3])

AllFns == OfExpressions \cup Programs
OfType(t, values) == [type |-> t, values |-> values]
AllArrays == {OfType("i64", <<Whole(5), Whole(-3), Whole(0)>>),
              OfType("i64", <<Whole(1), Whole(4), Whole(7), Whole(2)>>),
              OfType("f64", <<Fraction(-1, 2), Whole(2), Fraction(3, 2)>>)}
Reassigning == {Parameter}
Predicates == {Predicate}
=============================================================================
