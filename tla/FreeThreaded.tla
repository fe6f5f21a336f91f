---------------------------- MODULE FreeThreaded ----------------------------
(***************************************************************************)
(* gilmap on a free-threaded CPython: execute_rayon, cfunc_apply and       *)
(* jit_apply, called by Python threads, share rayon's global pool.         *)
(*                                                                         *)
(* There is no GIL, but a thread has to be attached to run Python, and to  *)
(* collect garbage the interpreter stops the world: it waits until every   *)
(* other thread has detached or, at its next safe point, parked, and       *)
(* until it is done no thread can attach.  A thread that blocks in native  *)
(* code while it is attached reaches no safe point.                        *)
(*                                                                         *)
(* A scope opened from outside the pool is a job too: a pool thread runs   *)
(* its body, which spawns one job per chunk, and takes other jobs, on top  *)
(* of this one, until all of them are finished.  How the chunks are cut    *)
(* and spawned is in KernelDispatch.                                       *)
(***************************************************************************)
EXTENDS Naturals, Sequences

CONSTANTS
  RayonCalls,    \* calls of execute_rayon,
  CfuncCalls,    \* of cfunc_apply
  JitCalls,      \* and of jit_apply
  Before,        \* the call the thread of a call makes just before it, or None
  Pool,          \* threads of rayon's global pool
  Path,          \* the list execute_rayon is given as sys.path
  Failing,       \* calls whose import or function, or patch, may raise
  Sizes,         \* numbers of chunks
  MaxLen,        \* bound on those numbers
  Collecting,    \* places in Python code where garbage is collected
  MaxStops,      \* bound on the number of times it is
  None

Calls   == RayonCalls \cup CfuncCalls \cup JitCalls
Threads == Calls \cup Pool
Places  == {"patch", "prepare", "return", "chunk"}

ASSUME FreeThreadedAssumption ==
  /\ Before \in [Calls -> Calls \cup {None}]
  /\ Failing \subseteq Calls /\ Collecting \subseteq Places
  /\ MaxLen \in Nat /\ Sizes \subseteq 0..MaxLen /\ MaxStops \in Nat
  /\ Calls \cap Pool = {} /\ None \notin Threads
  /\ None \notin {Path[c] : c \in RayonCalls}

VARIABLES
  state,     \* is each thread "in" (attached), "out" or "parked"?
  stopper,   \* the thread that stops the world
  stops,     \* how often it was stopped
  pc,        \* where each call is, or how it ended
  mutex,     \* the call that holds LAST_SYS_PATH_ID,
  lastPath,  \* and what is in it
  patched,   \* the lists that are in sys.path entry by entry
  size,      \* the number of chunks of each call
  running,   \* is the scope of each call still open?
  queue,     \* the jobs nobody has taken
  stack,     \* the jobs each pool thread is in, innermost first
  chunk,     \* the outcome of each chunk
  firstErr   \* the chunk whose error each call keeps (0: none)

worldVars == <<stopper, stops>>
pathVars  == <<mutex, lastPath, patched>>
jobVars   == <<running, queue, stack, chunk, firstErr>>
vars == <<state, worldVars, pc, pathVars, size, jobVars>>

Lists == {Path[c] : c \in RayonCalls}
\* <<c, 0>> is the body of c's scope, <<c, k>> its chunk k.
Jobs  == Calls \X (0..MaxLen)
Ended == {"ok", "failed", "refused"}

Init ==
  /\ state = [t \in Threads |-> "out"]
  /\ stopper = None /\ stops = 0
  /\ pc = [c \in Calls |-> "idle"]
  /\ mutex = None /\ lastPath = None /\ patched = {}
  /\ size = [c \in Calls |-> 0]
  /\ running = [c \in Calls |-> FALSE]
  /\ queue = {}
  /\ stack = [p \in Pool |-> <<>>]
  /\ chunk = [c \in Calls |-> [k \in 1..MaxLen |-> "none"]]
  /\ firstErr = [c \in Calls |-> 0]

-----------------------------------------------------------------------------
(* The interpreter                                                         *)

CanAttach == stopper = None

\* The innermost job of a pool thread is a scope's body or a chunk.
Top(p) == Head(stack[p])
InBody(p)  == stack[p] # <<>> /\ Top(p)[2] = 0
InChunk(p) == stack[p] # <<>> /\ Top(p)[2] # 0

Place(t) ==
  CASE t \in Calls -> pc[t]
    [] t \in Pool  -> IF InChunk(t) THEN "chunk" ELSE "pool"

\* Attached, and not in native code: t goes on, and reaches safe points.
InPython(t) == state[t] = "in" /\ stopper # t /\ Place(t) \in Places

StopWorld(t) ==
  /\ InPython(t) /\ stopper = None
  /\ Place(t) \in Collecting /\ stops < MaxStops
  /\ stopper' = t /\ stops' = stops + 1
  /\ UNCHANGED <<state, pc, pathVars, size, jobVars>>

Park(t) ==
  /\ InPython(t) /\ stopper # None
  /\ state' = [state EXCEPT ![t] = "parked"]
  /\ UNCHANGED <<worldVars, pc, pathVars, size, jobVars>>

StartWorld(t) ==
  /\ stopper = t /\ \A u \in Threads \ {t} : state[u] # "in"
  /\ stopper' = None
  /\ state' = [u \in Threads |-> IF state[u] = "parked" THEN "in" ELSE state[u]]
  /\ UNCHANGED <<stops, pc, pathVars, size, jobVars>>

-----------------------------------------------------------------------------
(* The calling threads                                                     *)

Begin(c) ==
  /\ pc[c] = "idle" /\ CanAttach
  /\ Before[c] # None => pc[Before[c]] \in Ended
  /\ state' = [state EXCEPT ![c] = "in"]
  /\ pc' = [pc EXCEPT ![c] = IF c \in RayonCalls THEN "lock" ELSE "prepare"]
  /\ UNCHANGED <<worldVars, pathVars, size, jobVars>>

End(c, how) ==
  /\ state' = [state EXCEPT ![c] = "out"]
  /\ pc' = [pc EXCEPT ![c] = how]

\* LAST_SYS_PATH_ID.lock(), a plain mutex: who waits for it stays attached.
Lock(c) ==
  /\ pc[c] = "lock" /\ mutex = None
  /\ IF lastPath = Path[c]
     THEN pc' = [pc EXCEPT ![c] = "prepare"] /\ UNCHANGED mutex
     ELSE pc' = [pc EXCEPT ![c] = "patch"] /\ mutex' = c
  /\ UNCHANGED <<state, worldVars, lastPath, patched, size, jobVars>>

\* What is missing is appended to sys.path, with the mutex held.
Patch(c) ==
  /\ pc[c] = "patch" /\ InPython(c)
  /\ patched' = patched \cup {Path[c]}
  /\ lastPath' = Path[c] /\ mutex' = None
  /\ pc' = [pc EXCEPT ![c] = "prepare"]
  /\ UNCHANGED <<state, worldVars, size, jobVars>>

\* Variant: the list is remembered before its entries are looked at.
PatchFailsLate(c) ==
  /\ pc[c] = "patch" /\ InPython(c) /\ c \in Failing
  /\ End(c, "refused")
  /\ mutex' = None /\ lastPath' = Path[c]
  /\ UNCHANGED <<worldVars, patched, size, jobVars>>

PatchFails(c) ==
  /\ pc[c] = "patch" /\ InPython(c) /\ c \in Failing
  /\ End(c, "refused")
  /\ mutex' = None
  /\ UNCHANGED <<worldVars, lastPath, patched, size, jobVars>>

PrepareFails(c) ==
  /\ pc[c] = "prepare" /\ InPython(c) /\ c \in Failing
  /\ End(c, "refused")
  /\ UNCHANGED <<worldVars, pathVars, size, jobVars>>

\* Variant: the scope is entered without py.detach.
PrepareAttached(c) ==
  /\ pc[c] = "prepare" /\ InPython(c)
  /\ pc' = [pc EXCEPT ![c] = "wait"]
  /\ \E n \in Sizes :
       /\ size' = [size EXCEPT ![c] = n]
       /\ running' = [running EXCEPT ![c] = n > 0]
       /\ queue' = IF n > 0 THEN queue \cup {<<c, 0>>} ELSE queue
  /\ UNCHANGED <<state, worldVars, pathVars, stack, chunk, firstErr>>

\* The function is imported and the array taken apart; then execute_rayon and
\* cfunc_apply detach, jit_apply does not, and the scope's body is handed to
\* the pool, unless there is nothing to do.
Prepare(c) ==
  /\ pc[c] = "prepare" /\ InPython(c)
  /\ pc' = [pc EXCEPT ![c] = "wait"]
  /\ state' = [state EXCEPT ![c] = IF c \in JitCalls THEN "in" ELSE "out"]
  /\ \E n \in Sizes :
       /\ size' = [size EXCEPT ![c] = n]
       /\ running' = [running EXCEPT ![c] = n > 0]
       /\ queue' = IF n > 0 THEN queue \cup {<<c, 0>>} ELSE queue
  /\ UNCHANGED <<worldVars, pathVars, stack, chunk, firstErr>>

Wake(c) ==
  /\ pc[c] = "wait" /\ ~running[c]
  /\ state[c] = "in" \/ CanAttach
  /\ state' = [state EXCEPT ![c] = "in"]
  /\ pc' = [pc EXCEPT ![c] = "return"]
  /\ UNCHANGED <<worldVars, pathVars, size, jobVars>>

\* The buffer goes to Arrow, or the error to Python.
Return(c) ==
  /\ pc[c] = "return" /\ InPython(c)
  /\ End(c, IF firstErr[c] = 0 THEN "ok" ELSE "failed")
  /\ UNCHANGED <<worldVars, pathVars, size, jobVars>>

-----------------------------------------------------------------------------
(* The pool                                                                *)

Push(p, job) == stack' = [stack EXCEPT ![p] = <<job>> \o @]
Pop(p)       == stack' = [stack EXCEPT ![p] = Tail(@)]
Settle(p, how) == chunk' = [chunk EXCEPT ![Top(p)[1]][Top(p)[2]] = how]

\* Variant: one chunk too many is spawned.
TakeBodyPastEnd(p) ==
  /\ ~InChunk(p)
  /\ \E c \in Calls :
       /\ <<c, 0>> \in queue
       /\ queue' = (queue \ {<<c, 0>>}) \cup ({c} \X (1..(size[c] + 1)))
       /\ Push(p, <<c, 0>>)
  /\ UNCHANGED <<state, worldVars, pc, pathVars, size, running, chunk, firstErr>>

\* A thread without a job, or in the body of a scope that is not finished,
\* takes any job.
TakeBody(p) ==
  /\ ~InChunk(p)
  /\ \E c \in Calls :
       /\ <<c, 0>> \in queue
       /\ queue' = (queue \ {<<c, 0>>}) \cup ({c} \X (1..size[c]))
       /\ Push(p, <<c, 0>>)
  /\ UNCHANGED <<state, worldVars, pc, pathVars, size, running, chunk, firstErr>>

TakeChunk(p) ==
  /\ ~InChunk(p)
  /\ \E job \in queue :
       /\ job[2] # 0
       /\ queue' = queue \ {job}
       /\ Push(p, job)
  /\ UNCHANGED <<state, worldVars, pc, pathVars, size, running, chunk, firstErr>>

\* Native kernels need no interpreter.
RunKernel(p) ==
  /\ InChunk(p) /\ Top(p)[1] \notin RayonCalls
  /\ Settle(p, "ok") /\ Pop(p)
  /\ UNCHANGED <<state, worldVars, pc, pathVars, size, running, queue, firstErr>>

\* Python::attach
Attach(p) ==
  /\ InChunk(p) /\ Top(p)[1] \in RayonCalls /\ state[p] = "out"
  /\ chunk[Top(p)[1]][Top(p)[2]] = "none" /\ CanAttach
  /\ state' = [state EXCEPT ![p] = "in"]
  /\ UNCHANGED <<worldVars, pc, pathVars, size, jobVars>>

\* Variant: the thread stays attached between two chunks.
CallElementsAttached(p) ==
  /\ InChunk(p) /\ InPython(p)
  /\ Settle(p, "ok") /\ Pop(p)
  /\ UNCHANGED <<state, worldVars, pc, pathVars, size, running, queue, firstErr>>

CallElements(p) ==
  /\ InChunk(p) /\ InPython(p)
  /\ Settle(p, "ok") /\ Pop(p)
  /\ state' = [state EXCEPT ![p] = "out"]
  /\ UNCHANGED <<worldVars, pc, pathVars, size, running, queue, firstErr>>

ElementRaises(p) ==
  /\ InChunk(p) /\ InPython(p) /\ Top(p)[1] \in Failing
  /\ Settle(p, "err")
  /\ state' = [state EXCEPT ![p] = "out"]
  /\ UNCHANGED <<worldVars, pc, pathVars, size, running, queue, stack, firstErr>>

\* Variant: a later error replaces the one that is kept.
RecordLast(p) ==
  /\ InChunk(p) /\ state[p] = "out" /\ chunk[Top(p)[1]][Top(p)[2]] = "err"
  /\ firstErr' = [firstErr EXCEPT ![Top(p)[1]] = Top(p)[2]]
  /\ Pop(p)
  /\ UNCHANGED <<state, worldVars, pc, pathVars, size, running, queue, chunk>>

\* The error is kept if it is the first to get here; to format it the thread
\* attaches once more, for a moment, with the slot locked.  Who waits for the
\* slot is detached.
Record(p) ==
  /\ InChunk(p) /\ state[p] = "out" /\ chunk[Top(p)[1]][Top(p)[2]] = "err"
  /\ firstErr[Top(p)[1]] = 0 => CanAttach
  /\ firstErr' = [firstErr EXCEPT ![Top(p)[1]] = IF @ = 0 THEN Top(p)[2] ELSE @]
  /\ Pop(p)
  /\ UNCHANGED <<state, worldVars, pc, pathVars, size, running, queue, chunk>>

OnStacks == UNION {{stack[p][i] : i \in 1..Len(stack[p])} : p \in Pool}
Unfinished(c) == {job \in queue \cup OnStacks : job[1] = c /\ job[2] # 0}

\* Variant: the scope is left when its last chunk has been taken.
CloseTaken(p) ==
  /\ InBody(p) /\ \A job \in queue : job[1] # Top(p)[1]
  /\ running' = [running EXCEPT ![Top(p)[1]] = FALSE]
  /\ Pop(p)
  /\ UNCHANGED <<state, worldVars, pc, pathVars, size, queue, chunk, firstErr>>

\* The last chunk is finished: the scope ends and its caller is woken.
CloseScope(p) ==
  /\ InBody(p) /\ Unfinished(Top(p)[1]) = {}
  /\ running' = [running EXCEPT ![Top(p)[1]] = FALSE]
  /\ Pop(p)
  /\ UNCHANGED <<state, worldVars, pc, pathVars, size, queue, chunk, firstErr>>

-----------------------------------------------------------------------------
CallStep(c) ==
  \/ Lock(c) \/ Patch(c) \/ PatchFails(c) \/ Prepare(c) \/ PrepareFails(c)
  \/ Wake(c) \/ Return(c)
PoolStep(p) ==
  \/ TakeBody(p) \/ TakeChunk(p) \/ RunKernel(p) \/ Attach(p)
  \/ CallElements(p) \/ ElementRaises(p) \/ Record(p) \/ CloseScope(p)

Next ==
  \/ \E c \in Calls : Begin(c) \/ CallStep(c)
  \/ \E p \in Pool : PoolStep(p)
  \/ \E t \in Threads : StopWorld(t) \/ Park(t) \/ StartWorld(t)

\* Threads of the operating system: one that can go on does, to a safe point
\* if need be; functions return.
Fairness ==
  /\ \A c \in Calls : WF_vars(CallStep(c) \/ Park(c) \/ StartWorld(c))
  /\ \A p \in Pool : WF_vars(PoolStep(p) \/ Park(p) \/ StartWorld(p))

Spec     == Init /\ [][Next]_vars
FairSpec == Spec /\ Fairness

-----------------------------------------------------------------------------
(* Properties                                                              *)

TypeOK ==
  /\ state \in [Threads -> {"in", "out", "parked"}]
  /\ stopper \in Threads \cup {None} /\ stops \in 0..MaxStops
  /\ pc \in [Calls -> {"idle", "lock", "patch", "prepare", "wait", "return"} \cup Ended]
  /\ mutex \in RayonCalls \cup {None}
  /\ lastPath \in Lists \cup {None} /\ patched \subseteq Lists
  /\ size \in [Calls -> 0..MaxLen]
  /\ running \in [Calls -> BOOLEAN]
  /\ queue \subseteq Jobs
  /\ stack \in [Pool -> Seq(Jobs)]
  /\ chunk \in [Calls -> [1..MaxLen -> {"none", "ok", "err"}]]
  /\ firstErr \in [Calls -> 0..MaxLen]

\* The jobs borrow the caller's buffers and its error slot: as long as one of
\* them is queued or at work, at any depth of any stack, the call is still
\* waiting in its scope.
ScopeOutlivesJobs ==
  \A c \in Calls : Unfinished(c) # {} => pc[c] = "wait" /\ running[c]

\* "On a freshly-attached Python token" (run_chunks): between two steps a thread
\* of the pool is attached only if it is at elements of execute_rayon.  It waits
\* for no other job and for no error slot, and runs no kernel and no scope's body,
\* in a state in which a collection would have to wait for it.
AttachedForElements ==
  \A p \in Pool : state[p] # "out" =>
    /\ InChunk(p) /\ Top(p)[1] \in RayonCalls
    /\ chunk[Top(p)[1]][Top(p)[2]] = "none"

\* No call imports its function before the entries of its own list are in
\* sys.path, even after an earlier patch has failed half-way or another list
\* has been remembered in between.
ImportsPatched ==
  \A c \in RayonCalls :
    pc[c] \in {"prepare", "wait", "return"} => Path[c] \in patched

\* execute_rayon, cfunc_apply and jit_apply "share contract" with the worker
\* pool (docs/ARCHITECTURE.md:65): all the chunks or an error, and nothing is
\* written after the return; but the error is "the first worker error
\* observed" (run_chunks), not that of the first chunk.
Verdict(c) ==
  CASE pc[c] \in Ended                            -> pc[c]
    [] pc[c] \in {"wait", "return"}               -> "running"
    [] pc[c] \in {"idle", "lock", "patch", "prepare"} -> "idle"

Good(c) == {k \in 1..MaxLen : chunk[c][k] = "ok"}
Bad(c)  == {k \in 1..MaxLen : chunk[c][k] = "err"}

Contract == INSTANCE MapContract WITH
  Ordered <- FALSE,
  status <- [c \in Calls |-> Verdict(c)],
  good <- [c \in Calls |-> Good(c)],
  bad <- [c \in Calls |-> Bad(c)],
  blamed <- firstErr
ImplementsContract == Contract!ContractSpec

\* Every call returns: "on a free-threaded build, gilmap loads, fast paths still
\* work, and the fallback path runs" (tests/test_free_threaded.py:6).
CallsReturn == \A c \in Calls : pc[c] # "idle" ~> pc[c] \in Ended

\* A collection comes to its end: no thread waits attached for something that
\* needs the interpreter.
WorldResumes == stopper # None ~> stopper = None

-----------------------------------------------------------------------------
(* The inductive invariants                                                *)

\* Only execute_rayon patches sys.path; the list that is remembered has been
\* patched in, and so has that of a call that is past its patch.
PathInv ==
  /\ \A c \in Calls : pc[c] \in {"lock", "patch"} => c \in RayonCalls
  /\ lastPath # None => lastPath \in patched
  /\ ImportsPatched

\* A job is in one place: the queue, or one level of one stack.
OnePlace ==
  /\ queue \cap OnStacks = {}
  /\ \A p, q \in Pool : \A i \in 1..Len(stack[p]), j \in 1..Len(stack[q]) :
       stack[p][i] = stack[q][j] => p = q /\ i = j

\* The chunks of a call are there only while the body of its scope is on a
\* stack, and the body only while the scope is open.
ScopeInv ==
  \A c \in Calls :
    /\ running[c] => pc[c] = "wait"
    /\ <<c, 0>> \in queue \cup OnStacks => running[c]
    /\ Unfinished(c) # {} => <<c, 0>> \in OnStacks

IInv == TypeOK /\ PathInv /\ OnePlace /\ ScopeInv

\* A call none of whose chunks is a job yet.
Fresh(c) ==
  pc[c] \notin {"wait", "return", "ok", "failed"} \/ <<c, 0>> \in queue

\* What has become of a chunk: until it has an outcome it is a job, or the body
\* that spawns it is; one that raised is on a stack until some error is kept.
ChunkOK(c, k) ==
  /\ Fresh(c) => chunk[c][k] = "none"
  /\ <<c, k>> \in queue => k <= size[c] /\ chunk[c][k] = "none"
  /\ <<c, k>> \in OnStacks =>
       /\ k <= size[c] /\ chunk[c][k] # "ok"
       /\ chunk[c][k] = "err" => c \in RayonCalls
  /\ chunk[c][k] # "none" => k <= size[c]
  /\ chunk[c][k] = "err" => firstErr[c] # 0 \/ <<c, k>> \in OnStacks
  /\ firstErr[c] = k => chunk[c][k] = "err"
  /\ pc[c] \in {"wait", "return"} /\ k <= size[c] /\ chunk[c][k] = "none" =>
       {<<c, 0>>, <<c, k>>} \cap queue # {} \/ <<c, k>> \in OnStacks

ResultInv ==
  /\ \A c \in Calls : Fresh(c) => firstErr[c] = 0
  /\ \A c \in Calls, k \in 1..MaxLen : ChunkOK(c, k)
=============================================================================
