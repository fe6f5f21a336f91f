----------------------------- MODULE WorkerPool -----------------------------
(***************************************************************************)
(* The sub-interpreter executor: Python threads that call execute(), the   *)
(* bounded channel they share, one worker thread per core with a           *)
(* sub-interpreter of its own, and shutdown_workers().                     *)
(*                                                                         *)
(* A call takes the GIL of the main interpreter to build its context and   *)
(* to send one task per chunk, gives it up to wait for the chunks in       *)
(* order, and takes it again to return.  A worker resolves the call's      *)
(* function (by the address of the call's context, then in its cache, then *)
(* by an import, with the call's entries added to its sys.path), writes the*)
(* chunk of the result, publishes the outcome and only then drops its      *)
(* reference to the context.                                               *)
(*                                                                         *)
(* A chunk is its number; what it holds is the function that filled it.    *)
(*                                                                         *)
(* The operators marked "Variant:" are not part of the specification: each *)
(* is the definition below it with a mistake a programmer could make, kept *)
(* to show that the properties notice it.                                  *)
(***************************************************************************)
EXTENDS Sequences, FiniteSets, Chunking

CONSTANTS
  Calls,         \* invocations of execute()
  Stops,         \* invocations of shutdown_workers()
  Workers,       \* worker threads, one per core
  Funcs,         \* (module, function) names
  Faulty,        \* functions whose import, set-up of it included, or call may raise
  Paths,         \* lists passed as sys_path, as sets of entries
  Flaky,         \* workers whose sub-interpreter may fail to start
  Addrs,         \* heap addresses a call context may get
  Lens,          \* lengths of the arrays passed to execute()
  MaxLen,        \* bound on those lengths
  NoCall, NoFunc, NoAddr, NoTask, NoPaths,
  Shutdown,      \* WorkerMessage::Shutdown
  Torn           \* a chunk some element of which raised

ASSUME PoolAssumption ==
  /\ IsFiniteSet(Workers) /\ Workers # {}
  /\ Faulty \subseteq Funcs /\ Flaky \subseteq Workers
  /\ MaxLen \in Nat /\ Lens \subseteq 0..MaxLen
  /\ NoPaths \notin Paths
  /\ NoCall \notin Calls /\ NoAddr \notin Addrs
  /\ NoFunc \notin Funcs /\ Torn \notin Funcs /\ Torn # NoFunc

Chunk == 1..MaxLen
Tasks == Calls \X Chunk

ASSUME MessageAssumption ==
  Shutdown \notin Tasks /\ NoTask \notin Tasks /\ Shutdown # NoTask

Threads  == Cardinality(Workers)
QueueCap == Threads * ChunksPerWorker * 2

VARIABLES
  gil,       \* the call that holds the main interpreter's GIL
  pool,      \* has WORKER_POOL been initialised?
  chan,      \* the messages in the channel, oldest first
  phase,     \* where each call is in execute()
  fn,        \* the function each call maps
  ctx,       \* the address of each call's CallContext
  sysPath,   \* the sys_path each call was given
  nchunks,   \* the number of chunks of each call
  sent,      \* how many of them the call has sent
  waited,    \* how many of them the call has seen finished
  firstErr,  \* the first chunk, in chunk order, the call saw fail (0: none)
  done,      \* the outcome published for each chunk
  out,       \* the function whose results each chunk of the output holds
  wstate,    \* where each worker is in its loop
  task,      \* the task each worker holds
  res,       \* the outcome each worker is about to publish
  cache,     \* the functions in each worker's func_cache
  lastFn,    \* last_func of each worker
  lastCtx,   \* last_ctx_ptr of each worker
  path,      \* the entries gilmap has put into each worker's sys.path
  lastPath,  \* last_sys_path_id of each worker
  stop,      \* where each invocation of shutdown_workers is
  stopSent   \* how many Shutdown messages it has sent

callVars   == <<phase, fn, ctx, sysPath, nchunks, sent, waited, firstErr>>
workerVars == <<wstate, task, res, cache, lastFn, lastCtx, path, lastPath>>
stopVars   == <<stop, stopSent>>
vars == <<gil, pool, chan, callVars, done, out, workerVars, stopVars>>

CallPhase   == {"idle", "parse", "dispatch", "wait", "ok", "err"}
WorkerPhase == {"none", "starting", "idle", "busy", "ready", "ran",
                "reported", "ending", "ended"}

Init ==
  /\ gil = NoCall /\ pool = FALSE /\ chan = <<>>
  /\ phase = [c \in Calls |-> "idle"]
  /\ fn = [c \in Calls |-> NoFunc]
  /\ ctx = [c \in Calls |-> NoAddr]
  /\ sysPath = [c \in Calls |-> NoPaths]
  /\ nchunks = [c \in Calls |-> 0]
  /\ sent = [c \in Calls |-> 0]
  /\ waited = [c \in Calls |-> 0]
  /\ firstErr = [c \in Calls |-> 0]
  /\ done = [c \in Calls |-> [k \in Chunk |-> "none"]]
  /\ out = [c \in Calls |-> [k \in Chunk |-> NoFunc]]
  /\ wstate = [w \in Workers |-> "none"]
  /\ task = [w \in Workers |-> NoTask]
  /\ res = [w \in Workers |-> "none"]
  /\ cache = [w \in Workers |-> {}]
  /\ lastFn = [w \in Workers |-> NoFunc]
  /\ lastCtx = [w \in Workers |-> NoAddr]
  /\ path = [w \in Workers |-> {}]
  /\ lastPath = [w \in Workers |-> NoPaths]
  /\ stop = [s \in Stops |-> "idle"]
  /\ stopSent = [s \in Stops |-> 0]

-----------------------------------------------------------------------------
(* Who still refers to what.                                               *)

\* Threads whose receiver the channel counts: a send fails once there is none.
Receivers == {w \in Workers : wstate[w] \notin {"none", "ended"}}

Queued == {chan[i] : i \in 1..Len(chan)} \ {Shutdown}
Held   == {task[w] : w \in Workers} \ {NoTask}

Active(c) == phase[c] \in {"dispatch", "wait"}

\* The Arc<CallContext> of a call lives as long as the call, a queued task or
\* a worker holds a clone of it.
CtxLive(c) ==
  \/ Active(c)
  \/ \E t \in Queued \cup Held : t[1] = c

\* The allocator hands out any address that is not in use, be it new or not.
FreeAddrs == Addrs \ {ctx[c] : c \in {d \in Calls : CtxLive(d)}}

-----------------------------------------------------------------------------
(* execute()                                                               *)

\* A Python thread enters execute(): the first one creates the channel and
\* spawns the workers.  Parsing the array runs Python code, so the GIL may
\* change hands before the call goes on.
Enter(c) ==
  /\ phase[c] = "idle" /\ gil = NoCall
  /\ phase' = [phase EXCEPT ![c] = "parse"]
  /\ pool' = TRUE
  /\ wstate' = IF pool THEN wstate ELSE [w \in Workers |-> "starting"]
  /\ UNCHANGED <<gil, chan, fn, ctx, sysPath, nchunks, sent, waited, firstErr,
                 done, out, task, res, cache, lastFn, lastCtx, path, lastPath,
                 stopVars>>

\* The array is not an Arrow array of int64 or float64.
Reject(c) ==
  /\ phase[c] = "parse" /\ gil = NoCall
  /\ phase' = [phase EXCEPT ![c] = "err"]
  /\ UNCHANGED <<gil, pool, chan, fn, ctx, sysPath, nchunks, sent, waited,
                 firstErr, done, out, workerVars, stopVars>>

\* The array is cut and the call's context allocated.
Begin(c) ==
  /\ phase[c] = "parse" /\ gil = NoCall
  /\ gil' = c
  /\ phase' = [phase EXCEPT ![c] = "dispatch"]
  /\ \E f \in Funcs : fn' = [fn EXCEPT ![c] = f]
  /\ \E a \in FreeAddrs : ctx' = [ctx EXCEPT ![c] = a]
  /\ \E p \in Paths : sysPath' = [sysPath EXCEPT ![c] = p]
  /\ \E len \in Lens :
       nchunks' = [nchunks EXCEPT ![c] = NumChunks(len, Threads)]
  /\ UNCHANGED <<pool, chan, sent, waited, firstErr, done, out, workerVars,
                 stopVars>>

\* Variant: the channel is unbounded.
SendUnbounded(c) ==
  /\ phase[c] = "dispatch" /\ sent[c] < nchunks[c] /\ Receivers # {}
  /\ chan' = Append(chan, <<c, sent[c] + 1>>)
  /\ sent' = [sent EXCEPT ![c] = @ + 1]
  /\ UNCHANGED <<gil, pool, phase, fn, ctx, sysPath, nchunks, waited, firstErr,
                 done, out, workerVars, stopVars>>

\* The blocking send of one task, which keeps the GIL.
Send(c) ==
  /\ phase[c] = "dispatch" /\ sent[c] < nchunks[c]
  /\ Receivers # {} /\ Len(chan) < QueueCap
  /\ chan' = Append(chan, <<c, sent[c] + 1>>)
  /\ sent' = [sent EXCEPT ![c] = @ + 1]
  /\ UNCHANGED <<gil, pool, phase, fn, ctx, sysPath, nchunks, waited, firstErr,
                 done, out, workerVars, stopVars>>

\* Every receiver is gone: the send fails and `?` returns at once.
SendFails(c) ==
  /\ phase[c] = "dispatch" /\ sent[c] < nchunks[c] /\ Receivers = {}
  /\ phase' = [phase EXCEPT ![c] = "err"]
  /\ gil' = NoCall
  /\ UNCHANGED <<pool, chan, fn, ctx, sysPath, nchunks, sent, waited, firstErr,
                 done, out, workerVars, stopVars>>

\* Variant: the call waits for its chunks without py.detach.
WaitAttached(c) ==
  /\ phase[c] = "dispatch" /\ sent[c] = nchunks[c]
  /\ phase' = [phase EXCEPT ![c] = "wait"]
  /\ UNCHANGED <<gil, pool, chan, fn, ctx, sysPath, nchunks, sent, waited,
                 firstErr, done, out, workerVars, stopVars>>

\* py.detach
Detach(c) ==
  /\ phase[c] = "dispatch" /\ sent[c] = nchunks[c]
  /\ phase' = [phase EXCEPT ![c] = "wait"]
  /\ gil' = NoCall
  /\ UNCHANGED <<pool, chan, fn, ctx, sysPath, nchunks, sent, waited, firstErr,
                 done, out, workerVars, stopVars>>

\* Variant: the last error wins.
AwaitKeepingLast(c) ==
  /\ phase[c] = "wait" /\ waited[c] < nchunks[c]
  /\ done[c][waited[c] + 1] # "none"
  /\ waited' = [waited EXCEPT ![c] = @ + 1]
  /\ firstErr' =
       IF done[c][waited[c] + 1] = "err"
       THEN [firstErr EXCEPT ![c] = waited[c] + 1]
       ELSE firstErr
  /\ UNCHANGED <<gil, pool, chan, phase, fn, ctx, sysPath, nchunks, sent, done,
                 out, workerVars, stopVars>>

\* One round of wait_for_tasks: the chunks are waited for in order, all of
\* them, and the first error is kept.
Await(c) ==
  /\ phase[c] = "wait" /\ waited[c] < nchunks[c]
  /\ done[c][waited[c] + 1] # "none"
  /\ waited' = [waited EXCEPT ![c] = @ + 1]
  /\ firstErr' =
       IF done[c][waited[c] + 1] = "err" /\ firstErr[c] = 0
       THEN [firstErr EXCEPT ![c] = waited[c] + 1]
       ELSE firstErr
  /\ UNCHANGED <<gil, pool, chan, phase, fn, ctx, sysPath, nchunks, sent, done,
                 out, workerVars, stopVars>>

\* Variant: the first error ends the wait.
ReturnOnError(c) ==
  /\ phase[c] = "wait" /\ gil = NoCall
  /\ waited[c] = nchunks[c] \/ firstErr[c] # 0
  /\ phase' = [phase EXCEPT ![c] = IF firstErr[c] = 0 THEN "ok" ELSE "err"]
  /\ UNCHANGED <<gil, pool, chan, fn, ctx, sysPath, nchunks, sent, waited,
                 firstErr, done, out, workerVars, stopVars>>

\* The GIL is taken back and the buffer handed to Arrow, or dropped.
Return(c) ==
  /\ phase[c] = "wait" /\ waited[c] = nchunks[c] /\ gil = NoCall
  /\ phase' = [phase EXCEPT ![c] = IF firstErr[c] = 0 THEN "ok" ELSE "err"]
  /\ UNCHANGED <<gil, pool, chan, fn, ctx, sysPath, nchunks, sent, waited,
                 firstErr, done, out, workerVars, stopVars>>

-----------------------------------------------------------------------------
(* A worker thread                                                         *)

StartOk(w) ==
  /\ wstate[w] = "starting"
  /\ wstate' = [wstate EXCEPT ![w] = "idle"]
  /\ UNCHANGED <<gil, pool, chan, callVars, done, out, task, res, cache,
                 lastFn, lastCtx, path, lastPath, stopVars>>

\* The thread ends and its receiver is dropped: with the last one goes
\* everything still in the channel, and nobody is told.
Exit(w) ==
  /\ wstate' = [wstate EXCEPT ![w] = "ended"]
  /\ chan' = IF Receivers = {w} THEN <<>> ELSE chan
  /\ UNCHANGED <<gil, pool, callVars, done, out, task, res, cache, lastFn,
                 lastCtx, path, lastPath, stopVars>>

\* Py_NewInterpreterFromConfig reports an exception.
StartFails(w) ==
  /\ wstate[w] = "starting" /\ w \in Flaky
  /\ Exit(w)

\* Variant: the message is read and left in the channel.
RecvWithoutPop(w) ==
  /\ wstate[w] = "idle" /\ chan # <<>> /\ Head(chan) # Shutdown
  /\ task' = [task EXCEPT ![w] = Head(chan)]
  /\ wstate' = [wstate EXCEPT ![w] = "busy"]
  /\ UNCHANGED <<gil, pool, chan, callVars, done, out, res, cache, lastFn,
                 lastCtx, path, lastPath, stopVars>>

RecvTask(w) ==
  /\ wstate[w] = "idle" /\ chan # <<>> /\ Head(chan) # Shutdown
  /\ task' = [task EXCEPT ![w] = Head(chan)]
  /\ chan' = Tail(chan)
  /\ wstate' = [wstate EXCEPT ![w] = "busy"]
  /\ UNCHANGED <<gil, pool, callVars, done, out, res, cache, lastFn, lastCtx,
                 path, lastPath, stopVars>>

\* Variant: a Shutdown overtakes the tasks sent before it.
ShutdownFirst(w) ==
  /\ wstate[w] = "idle"
  /\ \E i \in 1..Len(chan) :
       /\ chan[i] = Shutdown
       /\ chan' = SubSeq(chan, 1, i - 1) \o SubSeq(chan, i + 1, Len(chan))
  /\ cache' = [cache EXCEPT ![w] = {}]
  /\ wstate' = [wstate EXCEPT ![w] = "ending"]
  /\ UNCHANGED <<gil, pool, callVars, done, out, task, res, lastFn, lastCtx,
                 path, lastPath, stopVars>>

RecvShutdown(w) ==
  /\ wstate[w] = "idle" /\ chan # <<>> /\ Head(chan) = Shutdown
  /\ chan' = Tail(chan)
  /\ cache' = [cache EXCEPT ![w] = {}]
  /\ wstate' = [wstate EXCEPT ![w] = "ending"]
  /\ UNCHANGED <<gil, pool, callVars, done, out, task, res, lastFn, lastCtx,
                 path, lastPath, stopVars>>

\* The call whose chunk the worker holds, and the chunk's number.
CallOf(w)  == task[w][1]
ChunkNo(w) == task[w][2]

\* Same context as the last task: last_func is the function.
PointerHit(w) == lastCtx[w] = ctx[CallOf(w)] /\ lastFn[w] # NoFunc

\* Variant: last_func is set once (get_or_insert) and never replaced.
RememberOnce(w, f) ==
  /\ lastFn' = IF lastFn[w] = NoFunc THEN [lastFn EXCEPT ![w] = f] ELSE lastFn
  /\ lastCtx' = [lastCtx EXCEPT ![w] = ctx[CallOf(w)]]

Remember(w, f) ==
  /\ lastFn' = [lastFn EXCEPT ![w] = f]
  /\ lastCtx' = [lastCtx EXCEPT ![w] = ctx[CallOf(w)]]

\* The entries of the call's list that are missing, if it is not the list that
\* was seen to last.
Missing(w) == IF lastPath[w] = sysPath[CallOf(w)] THEN {} ELSE sysPath[CallOf(w)]

PatchPath(w) ==
  /\ path' = [path EXCEPT ![w] = @ \cup Missing(w)]
  /\ lastPath' = [lastPath EXCEPT ![w] = sysPath[CallOf(w)]]

\* Variant: the list is remembered before it has been gone through.
PatchFailsLate(w) ==
  /\ \E some \in SUBSET Missing(w) : path' = [path EXCEPT ![w] = @ \cup some]
  /\ lastPath' = [lastPath EXCEPT ![w] = sysPath[CallOf(w)]]

\* sys.path is no list any more: some entries may have been added by then.
PatchFails(w) ==
  /\ lastPath[w] # sysPath[CallOf(w)]
  /\ \E some \in SUBSET Missing(w) : path' = [path EXCEPT ![w] = @ \cup some]
  /\ UNCHANGED lastPath

\* The three ways to the function, tried in this order; afterwards it is
\* last_func in each of them.
Resolve(w) ==
  /\ wstate[w] = "busy"
  /\ wstate' = [wstate EXCEPT ![w] = "ready"]
  /\ \/ /\ PointerHit(w)
        /\ UNCHANGED <<cache, lastFn, lastCtx, path, lastPath>>
     \/ /\ ~PointerHit(w) /\ fn[CallOf(w)] \in cache[w]
        /\ Remember(w, fn[CallOf(w)])
        /\ UNCHANGED <<cache, path, lastPath>>
     \/ /\ ~PointerHit(w) /\ fn[CallOf(w)] \notin cache[w]
        /\ PatchPath(w)
        /\ cache' = [cache EXCEPT ![w] = @ \cup {fn[CallOf(w)]}]
        /\ Remember(w, fn[CallOf(w)])
  /\ UNCHANGED <<gil, pool, chan, callVars, done, out, task, res, stopVars>>

\* Variant: the error leaves the loop body before the outcome is published.
ResolveFailsSilently(w) ==
  /\ wstate[w] = "busy" /\ ~PointerHit(w)
  /\ fn[CallOf(w)] \in Faulty \ cache[w]
  /\ wstate' = [wstate EXCEPT ![w] = "idle"]
  /\ task' = [task EXCEPT ![w] = NoTask]
  /\ UNCHANGED <<gil, pool, chan, callVars, done, out, res, cache, lastFn,
                 lastCtx, path, lastPath, stopVars>>

\* The patch of sys.path raises, or the import or attribute lookup after it.
ResolveFails(w) ==
  /\ wstate[w] = "busy" /\ ~PointerHit(w)
  /\ fn[CallOf(w)] \in Faulty \ cache[w]
  /\ wstate' = [wstate EXCEPT ![w] = "ran"]
  /\ res' = [res EXCEPT ![w] = "err"]
  /\ PatchPath(w) \/ PatchFails(w)
  /\ UNCHANGED <<gil, pool, chan, callVars, done, out, task, cache, lastFn,
                 lastCtx, stopVars>>

\* The chunk is written, element by element, with the results of f.
Fill(w, f, outcome) ==
  /\ wstate[w] = "ready"
  /\ wstate' = [wstate EXCEPT ![w] = "ran"]
  /\ out' = [out EXCEPT ![CallOf(w)][ChunkNo(w)] = f]
  /\ res' = [res EXCEPT ![w] = outcome]
  /\ UNCHANGED <<gil, pool, chan, callVars, done, task, cache, lastFn, lastCtx,
                 path, lastPath, stopVars>>

CallElements(w) == Fill(w, lastFn[w], "ok")
ElementRaises(w) == lastFn[w] \in Faulty /\ Fill(w, Torn, "err")

\* The outcome is stored under the task's mutex and its waiter notified.
Report(w) ==
  /\ wstate[w] = "ran"
  /\ wstate' = [wstate EXCEPT ![w] = "reported"]
  /\ done' = [done EXCEPT ![CallOf(w)][ChunkNo(w)] = res[w]]
  /\ res' = [res EXCEPT ![w] = "none"]
  /\ UNCHANGED <<gil, pool, chan, callVars, out, task, cache, lastFn, lastCtx,
                 path, lastPath, stopVars>>

\* The task goes out of scope, and with it the worker's Arc of the context.
DropTask(w) ==
  /\ wstate[w] = "reported"
  /\ wstate' = [wstate EXCEPT ![w] = "idle"]
  /\ task' = [task EXCEPT ![w] = NoTask]
  /\ UNCHANGED <<gil, pool, chan, callVars, done, out, res, cache, lastFn,
                 lastCtx, path, lastPath, stopVars>>

\* Py_EndInterpreter, then the end of the thread.
EndInterpreter(w) ==
  /\ wstate[w] = "ending"
  /\ Exit(w)

-----------------------------------------------------------------------------
(* shutdown_workers(), detached from the GIL until it returns              *)

\* WORKER_POOL.get(): without a pool there is nothing to do.
LookForPool(s) ==
  /\ stop[s] = "idle"
  /\ stop' = [stop EXCEPT ![s] = IF pool THEN "stopping" ELSE "done"]
  /\ UNCHANGED <<gil, pool, chan, callVars, done, out, workerVars, stopSent>>

\* Variant: try_send, which drops the message when the channel is full.
TrySendShutdown(s) ==
  /\ stop[s] = "stopping" /\ stopSent[s] < Threads
  /\ chan' = IF Receivers = {} \/ Len(chan) = QueueCap
             THEN chan ELSE Append(chan, Shutdown)
  /\ stopSent' = [stopSent EXCEPT ![s] = @ + 1]
  /\ UNCHANGED <<gil, pool, callVars, done, out, workerVars, stop>>

\* One Shutdown per worker; a failed send is ignored.
SendShutdown(s) ==
  /\ stop[s] = "stopping" /\ stopSent[s] < Threads
  /\ Receivers = {} \/ Len(chan) < QueueCap
  /\ chan' = IF Receivers = {} THEN chan ELSE Append(chan, Shutdown)
  /\ stopSent' = [stopSent EXCEPT ![s] = @ + 1]
  /\ UNCHANGED <<gil, pool, callVars, done, out, workerVars, stop>>

\* Variant: the workers are told to end and not waited for.
JoinNobody(s) ==
  /\ stop[s] = "stopping" /\ stopSent[s] = Threads
  /\ gil = NoCall
  /\ stop' = [stop EXCEPT ![s] = "done"]
  /\ UNCHANGED <<gil, pool, chan, callVars, done, out, workerVars, stopSent>>

\* Every worker has been joined.
Joined(s) ==
  /\ stop[s] = "stopping" /\ stopSent[s] = Threads /\ Receivers = {}
  /\ gil = NoCall
  /\ stop' = [stop EXCEPT ![s] = "done"]
  /\ UNCHANGED <<gil, pool, chan, callVars, done, out, workerVars, stopSent>>

-----------------------------------------------------------------------------
\* What a call does once it has begun, a worker once it was spawned and a
\* shutdown once it was called.
CallStep(c) ==
  Send(c) \/ SendFails(c) \/ Detach(c) \/ Await(c) \/ Return(c)
WorkerStep(w) ==
  \/ StartOk(w) \/ StartFails(w) \/ RecvTask(w) \/ RecvShutdown(w)
  \/ Resolve(w) \/ ResolveFails(w) \/ CallElements(w) \/ ElementRaises(w)
  \/ Report(w) \/ DropTask(w) \/ EndInterpreter(w)
StopStep(s) == SendShutdown(s) \/ Joined(s)

Next ==
  \/ \E c \in Calls : Enter(c) \/ Reject(c) \/ Begin(c) \/ CallStep(c)
  \/ \E w \in Workers : WorkerStep(w)
  \/ \E s \in Stops : LookForPool(s) \/ StopStep(s)

\* Python threads, workers and shutdowns are threads of the operating system:
\* one that can go on does.  Nothing obliges anyone to call execute().
Fairness ==
  /\ \A c \in Calls : WF_vars(CallStep(c))
  /\ \A w \in Workers : WF_vars(WorkerStep(w))
  /\ \A s \in Stops : WF_vars(StopStep(s))

Spec     == Init /\ [][Next]_vars
FairSpec == Spec /\ Fairness
-----------------------------------------------------------------------------
(* Properties                                                              *)

TypeOK ==
  /\ gil \in Calls \cup {NoCall}
  /\ pool \in BOOLEAN
  /\ chan \in Seq(Tasks \cup {Shutdown}) /\ Len(chan) <= QueueCap
  /\ phase \in [Calls -> CallPhase]
  /\ fn \in [Calls -> Funcs \cup {NoFunc}]
  /\ ctx \in [Calls -> Addrs \cup {NoAddr}]
  /\ sysPath \in [Calls -> Paths \cup {NoPaths}]
  /\ nchunks \in [Calls -> 0..MaxLen]
  /\ sent \in [Calls -> 0..MaxLen]
  /\ waited \in [Calls -> 0..MaxLen]
  /\ firstErr \in [Calls -> 0..MaxLen]
  /\ done \in [Calls -> [Chunk -> {"none", "ok", "err"}]]
  /\ out \in [Calls -> [Chunk -> Funcs \cup {NoFunc, Torn}]]
  /\ wstate \in [Workers -> WorkerPhase]
  /\ task \in [Workers -> Tasks \cup {NoTask}]
  /\ res \in [Workers -> {"none", "ok", "err"}]
  /\ cache \in [Workers -> SUBSET Funcs]
  /\ lastFn \in [Workers -> Funcs \cup {NoFunc}]
  /\ lastCtx \in [Workers -> Addrs \cup {NoAddr}]
  /\ path \in [Workers -> SUBSET UNION Paths]
  /\ lastPath \in [Workers -> Paths \cup {NoPaths}]
  /\ stop \in [Stops -> {"idle", "stopping", "done"}]
  /\ stopSent \in [Stops -> 0..Threads]

\* A worker is at work on its task until it has published the outcome.
AtWork(w) == wstate[w] \in {"busy", "ready", "ran"}

\* The workers write through raw pointers into buffers the call owns: no worker
\* is at a chunk, and none will be handed one, of a call that has returned and
\* freed them, although other chunks of that call may have failed before.
BuffersLive ==
  /\ \A w \in Workers : AtWork(w) => Active(CallOf(w))
  /\ \A t \in Queued : Active(t[1])

\* The slices handed out as *mut are never shared: a chunk is at most once in
\* the channel, with at most one worker, never in both places, and in neither
\* once its outcome is published and the caller may read it.
OneOwner ==
  /\ \A i, j \in 1..Len(chan) : chan[i] = chan[j] => i = j \/ chan[i] = Shutdown
  /\ \A v, w \in Workers :
       AtWork(v) /\ AtWork(w) /\ task[v] = task[w] => v = w
  /\ \A w \in Workers : AtWork(w) => task[w] \notin Queued
  /\ \A t \in Queued \cup {task[w] : w \in {v \in Workers : AtWork(v)}} :
       done[t[1]][t[2]] = "none"

\* No chunk is forgotten while a worker is left to run it: a call waits for
\* each one it sent, and only a queued or a held task can still be published.
NothingLost ==
  \A c \in Calls : \A k \in 1..sent[c] :
    Active(c) /\ done[c][k] = "none" /\ Receivers # {}
      => <<c, k>> \in Queued \cup Held

\* The functions of the calls whose context is or was at this address.
FuncsAt(a) == {fn[c] : c \in {d \in Calls : ctx[d] = a}}

\* Whichever of the three ways a worker takes to the function, it fills a chunk
\* with that of a call whose context is or was at the address of the chunk's own:
\* the function of the chunk's call, unless its address had been another's before.
\* This is all that comparing last_ctx_ptr can promise (src/lib.rs:181).
FunctionOfAddress ==
  \A c \in Calls, k \in Chunk : out[c][k] \in {NoFunc, Torn} \cup FuncsAt(ctx[c])

\* A chunk is filled by the function of its own call; in particular last_ctx_ptr,
\* kept after the context is gone, never matches the context of another function.
RightFunction ==
  \A c \in Calls, k \in Chunk : out[c][k] \in {NoFunc, Torn, fn[c]}

\* A worker imports a function only with every entry of the call's sys_path in
\* place, although it looks at the list only if the last one it saw was another,
\* and an earlier patch may have failed half-way.
ImportsPatched ==
  [][\A w \in Workers :
       wstate[w] = "busy" /\ cache'[w] # cache[w] =>
         sysPath[CallOf(w)] \subseteq path'[w]]_vars

\* "If any worker fails, the whole call fails and no partial result is returned"
\* (README.md:132): a buffer that is handed out has been filled to the end, and
\* an error that is raised is that of the first chunk that failed, after all of
\* them are over, so that no worker still writes.
NoPartialResult ==
  \A c \in Calls :
    /\ phase[c] = "ok" => \A k \in 1..nchunks[c] : out[c][k] \in Funcs
    /\ phase[c] = "err" /\ firstErr[c] # 0 =>
         /\ \A k \in 1..nchunks[c] : done[c][k] # "none"
         /\ done[c][firstErr[c]] = "err"
         /\ \A k \in 1..(firstErr[c] - 1) : out[c][k] \in Funcs

Shutdowns == {i \in 1..Len(chan) : chan[i] = Shutdown}
Leaving   == {w \in Workers : wstate[w] \in {"ending", "ended"}}

\* "shutdown_workers sends one shutdown message per worker and joins threads"
\* (README.md:150): once all are sent, each worker that has not taken one, be it
\* behind a task or yet to start, finds one of its own in the channel, whatever
\* tasks and other shutdowns are queued there and whichever workers are gone.
EnoughShutdowns ==
  \A s \in Stops :
    stop[s] = "stopping" /\ stopSent[s] = Threads =>
      Cardinality(Receivers \ Leaving) <= Cardinality(Shutdowns)

Retired == \E s \in Stops : stop[s] = "done" /\ stopSent[s] = Threads

\* A shutdown that found the pool and has returned is final, for a call that comes
\* later too: nothing is queued, no chunk is filled and no outcome published any
\* more, so the process may end (it runs in atexit, gilmap/__init__.py:34).
ShutdownFinal ==
  [][Retired => UNCHANGED <<chan, sent, done, out, wstate>>]_vars

\* The pool does what a parallel map promises, at every step: in addition a chunk
\* is filled once and to the end, a failed chunk is blamed in the order of
\* wait_for_tasks, and nothing is touched after the return.  Which function has
\* filled it is not in the contract: FunctionOfAddress says that.
Verdict(c) ==
  CASE phase[c] \in {"idle", "parse"}    -> "idle"
    [] phase[c] \in {"dispatch", "wait"} -> "running"
    [] phase[c] = "ok"                   -> "ok"
    [] phase[c] = "err" /\ firstErr[c] # 0 -> "failed"
    [] phase[c] = "err" /\ firstErr[c] = 0 -> "refused"

Good(c) == {k \in Chunk : out[c][k] \in Funcs}
Bad(c)  == {k \in Chunk : done[c][k] = "err"}

Contract == INSTANCE MapContract WITH
  Ordered <- TRUE,
  status <- [c \in Calls |-> Verdict(c)],
  size <- nchunks,
  good <- [c \in Calls |-> Good(c)],
  bad <- [c \in Calls |-> Bad(c)],
  blamed <- firstErr
ImplementsContract == Contract!ContractSpec

\* The main interpreter never stays blocked on the pool: a call that holds the
\* GIL, even one stuck in a send on a full channel, gives it up.
GilFreed == \A c \in Calls : gil = c ~> gil # c

\* A call all of whose chunks were sent before any shutdown began returns,
\* even if a shutdown overtakes it while it waits.
CallsReturn ==
  \A c \in Calls :
    phase[c] = "wait" /\ (\A s \in Stops : stop[s] = "idle")
      ~> phase[c] \in {"ok", "err"}

\* shutdown_workers comes back: it finds room for its messages, and every
\* worker ends.
ShutdownReturns == \A s \in Stops : stop[s] = "stopping" ~> stop[s] = "done"

-----------------------------------------------------------------------------
(* The inductive invariant: what holds between any two steps and, with     *)
(* TypeOK, is enough to see that the next step keeps it.                   *)

\* A task some worker still has to publish: its call is alive, sent it, and has
\* no outcome for it yet.
InFlight(t) ==
  Active(t[1]) /\ t[2] <= sent[t[1]] /\ done[t[1]][t[2]] = "none"

\* Where a call is and what it has done so far.
CallOK(c) ==
  /\ gil = c <=> phase[c] = "dispatch"
  /\ phase[c] \in {"idle", "parse"} =>
       /\ nchunks[c] = 0 /\ ctx[c] = NoAddr
       /\ \A k \in Chunk : out[c][k] = NoFunc
  /\ phase[c] # "idle" => pool
  /\ Active(c) => fn[c] \in Funcs /\ ctx[c] \in Addrs /\ sysPath[c] \in Paths
  /\ sent[c] <= nchunks[c] /\ waited[c] <= sent[c]
  /\ phase[c] = "wait" => sent[c] = nchunks[c]
  /\ \A k \in 1..waited[c] : done[c][k] # "none"
  /\ \A k \in Chunk : k > sent[c] => done[c][k] = "none"
CallInv == \A c \in Calls : CallOK(c)

\* Where a worker is and what it holds.
WorkerOK(w) ==
  /\ wstate[w] = "none" <=> ~pool
  /\ task[w] # NoTask <=> AtWork(w) \/ wstate[w] = "reported"
  /\ AtWork(w) => InFlight(task[w])
  /\ wstate[w] = "ran" => res[w] # "none"
  /\ wstate[w] = "reported" => done[CallOf(w)][ChunkNo(w)] # "none"
WorkerInv == \A w \in Workers : WorkerOK(w)

\* What is in the channel, and that nothing is there and elsewhere.
ChannelInv ==
  /\ Receivers = {} => chan = <<>>
  /\ \A i \in 1..Len(chan) : chan[i] # Shutdown => InFlight(chan[i])
  /\ \A i, j \in 1..Len(chan) : chan[i] = chan[j] => i = j \/ chan[i] = Shutdown
  /\ \A w \in Workers, i \in 1..Len(chan) : AtWork(w) => chan[i] # task[w]
  /\ \A v, w \in Workers :
       AtWork(v) /\ AtWork(w) /\ task[v] = task[w] => v = w

IInv == TypeOK /\ CallInv /\ WorkerInv /\ ChannelInv

\* A shutdown stops a pool there is; each of its messages is in the channel, has
\* been taken by a worker, or came when no worker was left.
StopOK(s) ==
  /\ stop[s] = "idle" => stopSent[s] = 0
  /\ stopSent[s] # 0 => pool
  /\ stop[s] = "stopping" => pool
  /\ stopSent[s] <= Cardinality(Shutdowns) + Cardinality(Leaving)
  /\ stop[s] = "done" /\ stopSent[s] = Threads => Receivers = {}
StopInv == \A s \in Stops : StopOK(s)

\* The list that was seen last has been gone through to its end.
PathInv ==
  \A w \in Workers : lastPath[w] # NoPaths => lastPath[w] \subseteq path[w]

\* last_func is the function of some call whose context was at last_ctx_ptr, and
\* what a worker is about to call that of one at the address of its task's.
CacheInv ==
  /\ \A c \in Calls : ctx[c] = NoAddr => fn[c] = NoFunc
  /\ \A w \in Workers :
       /\ lastFn[w] # NoFunc =>
            lastCtx[w] # NoAddr /\ lastFn[w] \in FuncsAt(lastCtx[w])
       /\ wstate[w] = "ready" => lastFn[w] \in FuncsAt(ctx[CallOf(w)])

\* A published outcome is what the buffer holds, and the error a call keeps is
\* the first one of the outcomes it has seen.
OutcomeOK(c) ==
  /\ \A k \in Chunk :
       /\ done[c][k] = "ok" => out[c][k] \in Funcs
       /\ done[c][k] = "err" => out[c][k] \in {NoFunc, Torn}
       /\ k > sent[c] => out[c][k] = NoFunc
  /\ firstErr[c] = 0 => \A k \in 1..waited[c] : done[c][k] = "ok"
  /\ firstErr[c] # 0 =>
       /\ firstErr[c] \in 1..waited[c] /\ done[c][firstErr[c]] = "err"
       /\ \A k \in 1..(firstErr[c] - 1) : done[c][k] = "ok"
  /\ phase[c] \in {"idle", "parse", "dispatch"} => firstErr[c] = 0

\* What the buffer holds of a chunk that has no outcome yet.
Written(t) == out[t[1]][t[2]]
OutputOK(w) ==
  /\ wstate[w] \in {"busy", "ready"} => Written(task[w]) = NoFunc
  /\ wstate[w] = "ready" => lastFn[w] \in Funcs
  /\ wstate[w] = "ran" =>
       Written(task[w]) \in IF res[w] = "ok" THEN Funcs ELSE {NoFunc, Torn}

OutcomeInv ==
  /\ \A c \in Calls : OutcomeOK(c)
  /\ \A w \in Workers : OutputOK(w)
  /\ \A i \in 1..Len(chan) : chan[i] # Shutdown => Written(chan[i]) = NoFunc

\* A call that has returned a buffer or an error has seen every outcome.
EndInv ==
  \A c \in Calls :
    /\ phase[c] = "ok" => firstErr[c] = 0
    /\ phase[c] = "err" => firstErr[c] = 0 \/ waited[c] = nchunks[c]
    /\ phase[c] = "ok" => waited[c] = nchunks[c]
=============================================================================
