------------------------------- MODULE Backends -------------------------------
(***************************************************************************)
(* gilmap.map of a function over an array, from the choice of a backend    *)
(* (gilmap/_router.py) to the values it returns: pyarrow.compute, native   *)
(* code made by the JIT, or Python in the workers.  The kernel of the JIT  *)
(* is run on chunks, each in a loop over its elements of two at a time     *)
(* where the code is vectorized, and one at a time.  What a chunk does is  *)
(* independent of the others: they run one after the other here.           *)
(***************************************************************************)
EXTENDS ArrowKernel, JitKernel, FiniteSets

CONSTANTS
  Fns,      \* functions that are mapped
  Arrays    \* [type, values] they are mapped over

VARIABLES
  fn,       \* the function
  array,    \* the input
  plan,     \* the decision of the router, or the empty record
  phase,    \* where the call is, or how it ended
  pos,      \* the elements done, or the one that was fatal
  chunk,    \* the end of the chunk the kernel is in
  regs,     \* the kernel's locals
  out       \* the values computed

vars == <<fn, array, plan, phase, pos, chunk, regs, out>>

Hosts == SUBSET {"to_int", "to_float"}
Ended == {"done", "raised", "panicked", "killed", "hung"}
Size == Len(array.values)

TypeOK ==
  /\ fn \in Fns /\ array \in Arrays
  /\ phase \in {"decide", "start", "chunks"} \cup Ended
  /\ phase = "chunks" =>
       /\ plan.via = "jit" /\ plan.end = "ok"
       /\ pos \in 0..chunk /\ chunk \in 0..Size /\ Len(out) = pos
       /\ DOMAIN regs \subseteq DOMAIN plan.types
  /\ phase = "done" => DOMAIN out = 1..Size /\ \A i \in 1..Size : out[i] # Trap

Init ==
  /\ fn \in Fns /\ array \in Arrays
  /\ plan = <<>> /\ phase = "decide"
  /\ pos = 0 /\ chunk = 0 /\ regs = <<>> /\ out = <<>>

-----------------------------------------------------------------------------
(* The decision: _detect_arrow_kernel, then _detect_jit, f64 lane first.   *)

Attempt(k, host) ==
  IF k.ok THEN [body |-> k.body, via |-> "jit"] @@ Compiled(k, host)
  ELSE [end |-> "bad"]

\* An Err is None to try_compile; the PanicException of a panic is no
\* Exception: it goes through to the caller of map.
OrElse(p, q) == IF p.end \in {"ok", "panic"} THEN p ELSE q

Plan(f, host) ==
  IF ArrowTakes(f) THEN [via |-> "arrow", end |-> "ok"]
  ELSE OrElse(Attempt(Kernel(f, "f64"), host),
              OrElse(Attempt(Kernel(f, "i64"), host), [via |-> "subinterp", end |-> "ok"]))

Decide ==
  /\ phase = "decide"
  /\ \E host \in Hosts : plan' = Plan(fn, host)
  /\ phase' = IF plan'.end = "panic" THEN "panicked" ELSE "start"
  /\ UNCHANGED <<fn, array, pos, chunk, regs, out>>

-----------------------------------------------------------------------------
(* Backends that take the array as a whole.  values: none, if it raises.   *)

Finish(values) ==
  /\ phase' = IF values = {} THEN "raised" ELSE "done"
  /\ out' = IF values = {} THEN out ELSE CHOOSE r \in values : TRUE
  /\ UNCHANGED <<fn, array, plan, pos, chunk, regs>>

RunArrow ==
  /\ phase = "start" /\ plan.via = "arrow"
  /\ Finish(ArrowFast(fn, array.values, array.type))

\* What a Python function is called with for an element of an array of type t.
Boxed(v, t) == IF t = "i64" THEN PyInt(v) ELSE PyFloat(v)

\* Variant: a float is cut to an integer.
UnboxedCut(a, t) == IF t = "i64" THEN Wrapped(Truncated(a.v)) ELSE a.v

\* PyLong_AsLongLong, PyFloat_AsDouble: into an int64 array goes an int within
\* the range, and no float, into a float64 array any number; else it raises.
Unboxed(a, t) ==
  IF t = "i64" /\ (a.t = "float" \/ a.v # Wrapped(a.v)) THEN Undef ELSE a.v

\* The workers import the function by its name; lambdas are refused.  A result is
\* converted to the type of the array; the first that cannot be fails the call.
Fallback ==
  LET python(i) == PyCall(fn.named, Boxed(array.values[i], array.type), FALSE)
      r == [i \in 1..Size |-> Unboxed(python(i), array.type)]
  IN  /\ phase = "start" /\ plan.via = "subinterp"
      /\ Finish(IF fn.self.k = "Lambda" \/ \E i \in 1..Size : ~Defined(r[i])
                THEN {} ELSE {r})

-----------------------------------------------------------------------------
(* The JIT.                                                                *)

\* _cast_to_dtype_tag: a float with a fraction is no int64.
CastToDtypeTag ==
  /\ phase = "start" /\ plan.via = "jit"
  /\ phase' = IF \E i \in 1..Size : plan.in = "i64" /\ ~IsWhole(array.values[i])
              THEN "raised" ELSE "chunks"
  /\ UNCHANGED <<fn, array, plan, pos, chunk, regs, out>>

\* Variant: the last chunk is not cut to what is left.
LongChunk ==
  /\ phase = "chunks" /\ pos = chunk
  /\ \E last \in pos + 1 .. Size + 1 : chunk' = last
  /\ regs' = [n \in DOMAIN plan.types |-> Zero]
  /\ UNCHANGED <<fn, array, plan, phase, pos, out>>

\* A call of the kernel: nothing is in its locals yet.
StartChunk ==
  /\ phase = "chunks" /\ pos = chunk
  /\ \E last \in pos + 1 .. Size : chunk' = last
  /\ regs' = [n \in DOMAIN plan.types |-> Zero]
  /\ UNCHANGED <<fn, array, plan, phase, pos, out>>

\* The results of RunElement on the elements that follow.  pos ends at the one
\* that traps or never ends, if there is one.
Settle(rs) ==
  LET stopped == {i \in DOMAIN rs : rs[i].flow \in {"trap", "hang"}}
  IN  /\ \/ /\ stopped = {}
            /\ phase' = IF pos + Len(rs) = Size THEN "done" ELSE phase
            /\ pos' = pos + Len(rs)
            /\ out' = out \o [i \in DOMAIN rs |-> rs[i].val]
            /\ regs' = rs[Len(rs)].regs
         \/ \E i \in stopped :
              /\ phase' = IF rs[i].flow = "trap" THEN "killed" ELSE "hung"
              /\ pos' = pos + i
              /\ UNCHANGED <<out, regs>>
      /\ UNCHANGED <<fn, array, plan, chunk>>

Scalar == [plan EXCEPT !.vector = FALSE]
Element(i, g) == RunElement(plan.body, array.values[i], regs, g)

VectorStep ==
  /\ phase = "chunks" /\ plan.vector /\ pos + 2 <= chunk
  /\ Settle(<<Element(pos + 1, plan), Element(pos + 2, plan)>>)

ScalarStep ==
  /\ phase = "chunks" /\ pos < chunk
  /\ plan.vector => pos + 1 = chunk
  /\ Settle(<<Element(pos + 1, Scalar)>>)

Next ==
  \/ Decide \/ RunArrow \/ Fallback \/ CastToDtypeTag \/ StartChunk
  \/ VectorStep \/ ScalarStep

Spec == Init /\ [][Next]_vars

-----------------------------------------------------------------------------
\* What Python makes of an element, within the contract of all backends.
Promised(f, x) ==
  IF (HasNode(f) /\ FnNode(f) # f.self) \/ f.named # f.self THEN NoNumber
  ELSE PyCall(f.self, x, TRUE)
Python(i)   == Boxed(array.values[i], array.type)
Contract(i) == Promised(fn, Python(i))

\* Whatever backend runs a function, whatever chunks the array is cut into and
\* wherever in a vector, a chunk or a tail an element falls, its result is equal
\* (==) to what Python returns for it, as long as the function keeps to what all
\* backends do alike.
AgreesWithPython ==
  phase = "done" =>
    \A i \in 1..Size : Exists(Contract(i)) => out[i] = Contract(i).v


\* Machine code kills the process or hangs only on an element that is outside
\* the contract, itself and not one before it in the chunk; the process is the
\* interpreter of every other thread, too.
NeverFatal == phase \in {"killed", "hung"} => ~Exists(Contract(pos))

\* Every element of a kernel leaves it through a return: the zero that the code
\* generator stores after a body that has not ended (src/jit.rs: the walker
\* requires a terminating return on every path) is never a result.
ReturnsOnEveryPath ==
  phase = "chunks" /\ pos < chunk =>
    Element(pos + 1, Scalar).flow \in {"return", "trap", "hang"}

\* A function that Python maps is mapped with the same results: what the tests of
\* the JIT and of the router compare.
SameAsPython ==
  phase = "done" =>
    \A i \in 1..Size :
      LET a == PyCall(fn.self, Python(i), FALSE)
      IN  Exists(a) => out[i] = a.v

\* A body the JIT cannot compile is left to another backend: try_compile returns
\* a kernel, or None.
RejectedNotRaised == phase # "panicked"
=============================================================================
