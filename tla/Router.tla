------------------------------- MODULE Router -------------------------------
(***************************************************************************)
(* gilmap.map and gilmap.explain: the router's choice of a backend for a   *)
(* function, the cache of its decisions, and what map does with one.       *)
(*                                                                         *)
(* Decisions are cached under id(func), the address of the function        *)
(* object, which the next object may get once the function is gone; a weak *)
(* reference to the function, with a callback, has to take the decision    *)
(* out of the cache in time.  Python threads run all of this step by step, *)
(* in any interleaving the GIL (or its absence) allows.                    *)
(*                                                                         *)
(* What the detectors see in a function is its Shape: which of the fast    *)
(* paths its body or its attributes admit.                                 *)
(***************************************************************************)
EXTENDS Naturals, FiniteSets

CONSTANTS
  Threads,       \* Python threads
  Funcs,         \* function objects
  Ids,           \* addresses they may be allocated at
  Shape,         \* what the detectors see in each function
  Inputs,        \* arrays passed to map
  None

Lanes == {"i64", "f64"}
Shapes == [expr : BOOLEAN,               \* one return of supported operations
           cfunc : Lanes \cup {"none"},  \* a @cfunc with a readable signature
           numba : BOOLEAN,              \* other numba attributes
           jit : SUBSET Lanes,           \* lanes the body compiles for
           name : {"module", "<lambda>", "<locals>", "__main__"},
           weakref : BOOLEAN]            \* can it be referenced weakly?
Arrays == [type : {"int64", "float64", "float32", "integer", "text"},
           fits : BOOLEAN]               \* are all values in both lanes?

ASSUME RouterAssumption ==
  Shape \in [Funcs -> Shapes] /\ Inputs \subseteq Arrays

VARIABLES
  object,      \* the life of each function object
  id,          \* its address
  cache,       \* _DECISION_CACHE
  finalizers,  \* _FINALIZERS: the function each weak reference refers to
  resetting,   \* is reset_cache between its two steps?
  pc,          \* where each thread is in map or explain
  func,        \* the function it is called with, or was last
  input,       \* the array it is called with (None: explain)
  decision,    \* the decision it has got
  outcome      \* how the call ended

objectVars == <<object, id>>
cacheVars  == <<cache, finalizers, resetting>>
callVars   == <<pc, func, input, decision, outcome>>
vars == <<objectVars, cacheVars, callVars>>

Backends == {"arrow_kernel", "numba_cfunc", "numba_native", "jit", "subinterp"}
Decisions == [backend : Backends, lane : Lanes \cup {"any"}, of : Funcs]

ASSUME NoneAssumption ==
  None \notin Funcs /\ None \notin Ids /\ None \notin Inputs /\ None \notin Decisions

Init ==
  /\ object = [f \in Funcs |-> "unborn"]
  /\ id = [f \in Funcs |-> None]
  /\ cache = [i \in Ids |-> None]
  /\ finalizers = [i \in Ids |-> None]
  /\ resetting = FALSE
  /\ pc = [t \in Threads |-> "idle"]
  /\ func = [t \in Threads |-> None]
  /\ input = [t \in Threads |-> None]
  /\ decision = [t \in Threads |-> None]
  /\ outcome = [t \in Threads |-> "none"]

-----------------------------------------------------------------------------
(* The detectors, in their order; the first that matches decides.  The     *)
(* fast paths of arrow_kernel, numba_cfunc and jit hold what was made of   *)
(* this very function: a kernel chain, an address, a compiled kernel.      *)

\* The lane f64 is tried first, whatever the array will be.
JitLane(f) == IF "f64" \in Shape[f].jit THEN "f64" ELSE "i64"

\* Variant: numba attributes are enough for numba_cfunc.
DecideUnread(f) ==
  LET chosen(backend, lane) == [backend |-> backend, lane |-> lane, of |-> f]
  IN  CASE Shape[f].expr -> chosen("arrow_kernel", "any")
        [] ~Shape[f].expr /\ (Shape[f].cfunc # "none" \/ Shape[f].numba) ->
             chosen("numba_cfunc", Shape[f].cfunc)
        [] ~Shape[f].expr /\ Shape[f].cfunc = "none" /\ ~Shape[f].numba
             /\ Shape[f].jit # {} -> chosen("jit", JitLane(f))
        [] OTHER -> chosen("subinterp", "any")

Decide(f) ==
  LET chosen(backend, lane) == [backend |-> backend, lane |-> lane, of |-> f]
  IN  CASE Shape[f].expr -> chosen("arrow_kernel", "any")
        [] ~Shape[f].expr /\ Shape[f].cfunc # "none" ->
             chosen("numba_cfunc", Shape[f].cfunc)
        [] ~Shape[f].expr /\ Shape[f].cfunc = "none" /\ Shape[f].numba ->
             chosen("numba_native", "any")
        [] ~Shape[f].expr /\ Shape[f].cfunc = "none" /\ ~Shape[f].numba
             /\ Shape[f].jit # {} -> chosen("jit", JitLane(f))
        [] OTHER -> chosen("subinterp", "any")

-----------------------------------------------------------------------------
(* map and explain                                                         *)

\* A call comes with a reference to its function; reset_cache, a hook of the
\* tests, is not used while calls are made.
Call(t) ==
  /\ pc[t] = "idle" /\ ~resetting
  /\ \E f \in Funcs : object[f] = "live" /\ func' = [func EXCEPT ![t] = f]
  /\ \E a \in Inputs \cup {None} : input' = [input EXCEPT ![t] = a]
  /\ pc' = [pc EXCEPT ![t] = "lookup"]
  /\ decision' = [decision EXCEPT ![t] = None]
  /\ outcome' = [outcome EXCEPT ![t] = "none"]
  /\ UNCHANGED <<objectVars, cacheVars>>

\* _cached_decision
Lookup(t) ==
  /\ pc[t] = "lookup"
  /\ decision' = [decision EXCEPT ![t] = cache[id[func[t]]]]
  /\ pc' = [pc EXCEPT ![t] =
              IF cache[id[func[t]]] = None THEN "detect" ELSE "decided"]
  /\ UNCHANGED <<objectVars, cacheVars, func, input, outcome>>

Detect(t) ==
  /\ pc[t] = "detect"
  /\ decision' = [decision EXCEPT ![t] = Decide(func[t])]
  /\ pc' = [pc EXCEPT ![t] = "store"]
  /\ UNCHANGED <<objectVars, cacheVars, func, input, outcome>>

\* _cache_decision: first the decision ...
Store(t) ==
  /\ pc[t] = "store"
  /\ cache' = [cache EXCEPT ![id[func[t]]] = decision[t]]
  /\ pc' = [pc EXCEPT ![t] = "watch"]
  /\ UNCHANGED <<objectVars, finalizers, resetting, func, input, decision, outcome>>

\* ... then the weak reference that will evict it ...
Watch(t) ==
  /\ pc[t] = "watch" /\ Shape[func[t]].weakref
  /\ finalizers' = [finalizers EXCEPT ![id[func[t]]] = func[t]]
  /\ pc' = [pc EXCEPT ![t] = "decided"]
  /\ UNCHANGED <<objectVars, cache, resetting, func, input, decision, outcome>>

\* Variant: the decision of an object without weak references stays cached.
KeepUnwatched(t) ==
  /\ pc[t] = "watch" /\ ~Shape[func[t]].weakref
  /\ pc' = [pc EXCEPT ![t] = "decided"]
  /\ UNCHANGED <<objectVars, cacheVars, func, input, decision, outcome>>

\* ... or, of a callable that cannot be referenced weakly, out it goes again.
Unwatchable(t) ==
  /\ pc[t] = "watch" /\ ~Shape[func[t]].weakref
  /\ cache' = [cache EXCEPT ![id[func[t]]] = None]
  /\ pc' = [pc EXCEPT ![t] = "decided"]
  /\ UNCHANGED <<objectVars, finalizers, resetting, func, input, decision, outcome>>

Return(t, how) ==
  /\ pc' = [pc EXCEPT ![t] = "idle"]
  /\ outcome' = [outcome EXCEPT ![t] = how]
  /\ UNCHANGED <<objectVars, cacheVars, func, input, decision>>

Explain(t) == pc[t] = "decided" /\ input[t] = None /\ Return(t, "explained")

\* _to_arrow: the lane of the array map goes on with.
ArrowLane(a) ==
  CASE a.type \in {"float64", "float32"} -> "f64"
    [] a.type \in {"int64", "integer"}   -> "i64"
    [] a.type = "text"                   -> "none"

NotNumeric(t) ==
  /\ pc[t] = "decided" /\ input[t] # None /\ ArrowLane(input[t]) = "none"
  /\ Return(t, "TypeError")

Convert(t) ==
  /\ pc[t] = "decided" /\ input[t] # None /\ ArrowLane(input[t]) # "none"
  /\ pc' = [pc EXCEPT ![t] = "run"]
  /\ UNCHANGED <<objectVars, cacheVars, func, input, decision, outcome>>

\* _cast_to_dtype_tag refuses to lose a value.
Castable(d, a) == d.lane \in {"any", ArrowLane(a)} \/ a.fits

FastPath(t) ==
  /\ pc[t] = "run" /\ decision[t].backend # "subinterp"
  /\ Return(t, IF Castable(decision[t], input[t]) THEN "result" ELSE "ArrowInvalid")

\* The fallback imports the function by name, so it must have one that works.
Fallback(t) ==
  /\ pc[t] = "run" /\ decision[t].backend = "subinterp"
  /\ Return(t, IF Shape[func[t]].name = "module" THEN "result" ELSE "ValueError")

-----------------------------------------------------------------------------
(* Function objects                                                        *)

InUse(i) == \E f \in Funcs : id[f] = i /\ object[f] \notin {"unborn", "dead"}
Held(f)  == \E t \in Threads : pc[t] # "idle" /\ func[t] = f

Create(f) ==
  /\ object[f] = "unborn"
  /\ object' = [object EXCEPT ![f] = "live"]
  /\ \E i \in Ids : ~InUse(i) /\ id' = [id EXCEPT ![f] = i]
  /\ UNCHANGED <<cacheVars, callVars>>

\* The last reference is gone: if a weak reference is left, its callback runs
\* before the memory is given back.
Die(f) ==
  /\ object[f] = "live" /\ ~Held(f)
  /\ object' = [object EXCEPT ![f] =
                  IF finalizers[id[f]] = f THEN "clearing" ELSE "dead"]
  /\ UNCHANGED <<id, cacheVars, callVars>>

\* Variant: _evict forgets the decision itself.
EvictNothing(f) ==
  /\ object[f] = "clearing"
  /\ object' = [object EXCEPT ![f] = "evicting"]
  /\ UNCHANGED <<id, cacheVars, callVars>>

\* Variant: _evict forgets the decisions of all functions.
EvictAll(f) ==
  /\ object[f] = "clearing"
  /\ object' = [object EXCEPT ![f] = "evicting"]
  /\ cache' = [i \in Ids |-> None]
  /\ UNCHANGED <<id, finalizers, resetting, callVars>>

\* _evict: first the decision ...
EvictDecision(f) ==
  /\ object[f] = "clearing"
  /\ object' = [object EXCEPT ![f] = "evicting"]
  /\ cache' = [cache EXCEPT ![id[f]] = None]
  /\ UNCHANGED <<id, finalizers, resetting, callVars>>

\* ... then the weak reference.
EvictFinalizer(f) ==
  /\ object[f] = "evicting"
  /\ object' = [object EXCEPT ![f] = "dead"]
  /\ finalizers' = [finalizers EXCEPT ![id[f]] = None]
  /\ UNCHANGED <<id, cache, resetting, callVars>>

-----------------------------------------------------------------------------
(* reset_cache                                                             *)

\* Variant: only the weak references are cleared.
KeepDecisions ==
  /\ ~resetting /\ \A t \in Threads : pc[t] = "idle"
  /\ resetting' = TRUE
  /\ UNCHANGED <<objectVars, cache, finalizers, callVars>>

ResetDecisions ==
  /\ ~resetting /\ \A t \in Threads : pc[t] = "idle"
  /\ resetting' = TRUE
  /\ cache' = [i \in Ids |-> None]
  /\ UNCHANGED <<objectVars, finalizers, callVars>>

\* A weak reference that is deleted never calls back.
ResetFinalizers ==
  /\ resetting
  /\ resetting' = FALSE
  /\ finalizers' = [i \in Ids |-> None]
  /\ UNCHANGED <<objectVars, cache, callVars>>

-----------------------------------------------------------------------------
ThreadStep(t) ==
  \/ Lookup(t) \/ Detect(t) \/ Store(t) \/ Watch(t) \/ Unwatchable(t)
  \/ Explain(t) \/ NotNumeric(t) \/ Convert(t) \/ FastPath(t) \/ Fallback(t)
ObjectStep(f) == EvictDecision(f) \/ EvictFinalizer(f)

Next ==
  \/ \E t \in Threads : Call(t) \/ ThreadStep(t)
  \/ \E f \in Funcs : Create(f) \/ Die(f) \/ ObjectStep(f)
  \/ ResetDecisions \/ ResetFinalizers

Spec == Init /\ [][Next]_vars

-----------------------------------------------------------------------------
(* Properties                                                              *)

TypeOK ==
  /\ object \in [Funcs -> {"unborn", "live", "clearing", "evicting", "dead"}]
  /\ id \in [Funcs -> Ids \cup {None}]
  /\ cache \in [Ids -> Decisions \cup {None}]
  /\ finalizers \in [Ids -> Funcs \cup {None}]
  /\ resetting \in BOOLEAN
  /\ pc \in [Threads -> {"idle", "lookup", "detect", "store", "watch",
                         "decided", "run"}]
  /\ func \in [Threads -> Funcs \cup {None}]
  /\ input \in [Threads -> Inputs \cup {None}]
  /\ decision \in [Threads -> Decisions \cup {None}]
  /\ outcome \in [Threads -> {"none", "explained", "result", "TypeError",
                              "ValueError", "ArrowInvalid"}]

\* No decision outlives its function: what is cached under an address was
\* decided for the object that is at this address, or whose memory has not
\* been given back yet ("attach a weak-finalizer to clear it when the function
\* is GC'd", _router.py:48).
NoStaleDecision ==
  \A i \in Ids : cache[i] # None =>
    \E f \in Funcs :
      /\ id[f] = i /\ object[f] \in {"live", "clearing"}
      /\ cache[i] = Decide(f)

\* A call runs what was made of its own function, cached or not, however its
\* steps interleave with those of other calls, collections and resets.
OwnDecision ==
  \A t \in Threads :
    pc[t] \in {"store", "watch", "decided", "run"} =>
      decision[t] = Decide(func[t])

\* A function that some fast path takes is never turned away for its name:
\* "lambdas, `__main__` functions, and locals are all fine" (README.md:118), also
\* at an address where something else has been before.
RoutableAccepted ==
  \A t \in Threads :
    outcome[t] = "ValueError" => Decide(func[t]).backend = "subinterp"

\* Its decision is cached and will be taken out when it dies.
Remembered(f) == cache[id[f]] # None /\ finalizers[id[f]] = f

\* The router looks at a function once ("repeat calls hit O(1)", _router.py:49):
\* no other thread that decides, no object that dies, not even one that had the
\* same address, and nothing but a reset makes it forget a living function.
DecisionsKept ==
  [][\A f \in Funcs :
       object[f] = "live" /\ Remembered(f) /\ ~resetting' =>
         Remembered(f)' /\ cache'[id[f]] = cache[id[f]]]_vars

-----------------------------------------------------------------------------
(* The inductive invariant                                                 *)

\* A function is not collected while a call is at work on it; what a call has
\* decided or found is its own function's.
CallInv ==
  \A t \in Threads :
    /\ pc[t] # "idle" => func[t] \in Funcs /\ object[func[t]] = "live"
    /\ pc[t] \in {"store", "watch", "decided", "run"} =>
         decision[t] = Decide(func[t])
    /\ pc[t] = "run" => input[t] # None
    /\ outcome[t] = "ValueError" =>
         func[t] \in Funcs /\ Decide(func[t]).backend = "subinterp"

\* Objects that have memory have addresses of their own.
AddressInv ==
  /\ \A f \in Funcs : object[f] \notin {"unborn", "dead"} => id[f] \in Ids
  /\ \A f, g \in Funcs :
       /\ object[f] \notin {"unborn", "dead"}
       /\ object[g] \notin {"unborn", "dead"}
       /\ id[f] = id[g]
       => f = g

\* Everything cached is watched, or about to be by the call that cached it; a
\* weak reference refers to the object at its address.
WatchInv ==
  \A i \in Ids :
    /\ cache[i] # None /\ finalizers[i] = None =>
         \E t \in Threads : pc[t] = "watch" /\ id[func[t]] = i
    /\ finalizers[i] # None =>
         /\ id[finalizers[i]] = i
         /\ object[finalizers[i]] \notin {"unborn", "dead"}

ResetInv ==
  resetting => /\ \A t \in Threads : pc[t] = "idle"
               /\ \A i \in Ids : cache[i] = None

\* Only what can be referenced weakly is: Unwatchable leaves its entry alone.
WeakInv ==
  \A i \in Ids : finalizers[i] # None => Shape[finalizers[i]].weakref

IInv ==
  TypeOK /\ CallInv /\ AddressInv /\ NoStaleDecision /\ WatchInv /\ ResetInv
=============================================================================
