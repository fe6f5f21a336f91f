--------------------------- MODULE KernelDispatch ---------------------------
(***************************************************************************)
(* The native executors: invoke_kernel_parallel cuts an array and runs a   *)
(* compiled kernel over the chunks on rayon's pool (apply_in_parallel does *)
(* the same for a numba cfunc).  The scope's body itself runs on a thread  *)
(* of the pool, which spawns the chunks and then helps with them; idle     *)
(* threads steal them in any order.                                        *)
(*                                                                         *)
(* A kernel walks its chunk one element at a time or, when its body was    *)
(* vectorised, Lanes elements at a time with a scalar tail.  Of the output *)
(* the model keeps how often each position was stored to, positions past   *)
(* the end of the buffer included.                                         *)
(***************************************************************************)
EXTENDS Integers, FiniteSets, Chunking

CONSTANTS
  Threads,   \* rayon's threads
  Lens,      \* lengths of the input
  MaxLen,    \* bound on those lengths
  Lanes      \* SIMD_LANES

ASSUME DispatchAssumption ==
  /\ Threads \in Nat \ {0} /\ Lanes \in Nat \ {0}
  /\ MaxLen \in Nat /\ Lens \subseteq 0..MaxLen

VARIABLES
  len,       \* the length of the array
  simd,      \* was the kernel vectorised?
  pc,        \* where invoke_kernel_parallel is
  start,     \* its cursor in the array
  spawned,   \* how many chunks it has spawned
  queue,     \* the spawned chunks nobody has taken, as [from, n]
  job,       \* the chunk each thread runs
  at,        \* the kernel's index in that chunk
  stores     \* stores to each position

vars == <<len, simd, pc, start, spawned, queue, job, at, stores>>

Pool == 1..Threads
Scope == 1                           \* the pool thread that runs the scope
NoJob == [from |-> 0, n |-> 0]
Memory == 0..(MaxLen + MaxChunkLen + Lanes)  \* the buffer and what follows it

Init ==
  /\ len \in Lens
  /\ simd \in BOOLEAN
  /\ pc = "entry" /\ start = 0 /\ spawned = 0 /\ queue = {}
  /\ job = [t \in Pool |-> NoJob]
  /\ at = [t \in Pool |-> 0]
  /\ stores = [p \in Memory |-> 0]

Size == PickChunkSize(len, Threads)

-----------------------------------------------------------------------------
Empty ==
  /\ pc = "entry" /\ len = 0
  /\ pc' = "done"
  /\ UNCHANGED <<len, simd, start, spawned, queue, job, at, stores>>

\* Fewer elements than threads: one kernel call on the caller's own thread.
Single ==
  /\ pc = "entry" /\ len > 0 /\ len < Threads
  /\ pc' = "single"
  /\ job' = [job EXCEPT ![Scope] = [from |-> 0, n |-> len]]
  /\ at' = [at EXCEPT ![Scope] = 0]
  /\ UNCHANGED <<len, simd, start, spawned, queue, stores>>

OpenScope ==
  /\ pc = "entry" /\ len >= Threads
  /\ pc' = "spawning"
  /\ UNCHANGED <<len, simd, start, spawned, queue, job, at, stores>>

\* Variant: every chunk is given the full length.
SpawnFullChunk ==
  /\ pc = "spawning" /\ start < len
  /\ queue' = queue \cup {[from |-> start, n |-> Size]}
  /\ start' = start + Size
  /\ spawned' = spawned + 1
  /\ UNCHANGED <<len, simd, pc, job, at, stores>>

\* One round of the while loop.
Spawn ==
  /\ pc = "spawning" /\ start < len
  /\ LET this == Smaller(len - start, Size)
     IN  /\ queue' = queue \cup {[from |-> start, n |-> this]}
         /\ start' = start + this
  /\ spawned' = spawned + 1
  /\ UNCHANGED <<len, simd, pc, job, at, stores>>

\* The scope's body ends; its thread joins the others.
Spawned ==
  /\ pc = "spawning" /\ start >= len
  /\ pc' = "joining"
  /\ UNCHANGED <<len, simd, start, spawned, queue, job, at, stores>>

Busy(t) == job[t] # NoJob \/ (t = Scope /\ pc = "spawning")

Take(t) ==
  /\ ~Busy(t)
  /\ \E j \in queue :
       /\ queue' = queue \ {j}
       /\ job' = [job EXCEPT ![t] = j]
  /\ at' = [at EXCEPT ![t] = 0]
  /\ UNCHANGED <<len, simd, pc, start, spawned, stores>>

-----------------------------------------------------------------------------
(* The compiled kernel                                                     *)

\* vec_end = len - (len % LANES), of the length the kernel was called with.
VecEnd(t) == IF simd THEN job[t].n - (job[t].n % Lanes) ELSE 0

Store(t, width) ==
  /\ stores' = [p \in Memory |->
       IF p \in (job[t].from + at[t])..(job[t].from + at[t] + width - 1)
       THEN stores[p] + 1 ELSE stores[p]]
  /\ at' = [at EXCEPT ![t] = @ + width]
  /\ UNCHANGED <<len, simd, pc, start, spawned, queue, job>>

VectorStep(t) == job[t] # NoJob /\ at[t] < VecEnd(t) /\ Store(t, Lanes)

ScalarStep(t) ==
  /\ job[t] # NoJob /\ at[t] >= VecEnd(t) /\ at[t] < job[t].n
  /\ Store(t, 1)

\* Variant: the vectorised kernel has no scalar tail.
KernelReturnAtVecEnd(t) ==
  /\ job[t] # NoJob /\ at[t] >= (IF simd THEN VecEnd(t) ELSE job[t].n)
  /\ job' = [job EXCEPT ![t] = NoJob]
  /\ UNCHANGED <<len, simd, pc, start, spawned, queue, at, stores>>

KernelReturn(t) ==
  /\ job[t] # NoJob /\ at[t] >= VecEnd(t) /\ at[t] >= job[t].n
  /\ job' = [job EXCEPT ![t] = NoJob]
  /\ UNCHANGED <<len, simd, pc, start, spawned, queue, at, stores>>

\* Variant: the caller waits for the queue to empty, not for the chunks to end.
JoinOnEmptyQueue ==
  /\ pc \in {"single", "joining"} /\ queue = {}
  /\ pc' = "done"
  /\ UNCHANGED <<len, simd, start, spawned, queue, job, at, stores>>

\* Variant: the caller waits on a latch set for the chunks it wanted.
JoinOnLatch ==
  /\ pc = "joining" => spawned = Threads * ChunksPerWorker
  /\ pc \in {"single", "joining"}
  /\ queue = {} /\ \A t \in Pool : job[t] = NoJob
  /\ pc' = "done"
  /\ UNCHANGED <<len, simd, start, spawned, queue, job, at, stores>>

\* rayon::scope returns once every spawned chunk has ended; without a scope,
\* the one kernel call has returned.
Join ==
  /\ pc \in {"single", "joining"}
  /\ queue = {} /\ \A t \in Pool : job[t] = NoJob
  /\ pc' = "done"
  /\ UNCHANGED <<len, simd, start, spawned, queue, job, at, stores>>

-----------------------------------------------------------------------------
CallerStep == Empty \/ Single \/ OpenScope \/ Spawn \/ Spawned \/ Join
PoolStep(t) == Take(t) \/ VectorStep(t) \/ ScalarStep(t) \/ KernelReturn(t)

Next == CallerStep \/ \E t \in Pool : PoolStep(t)

Spec == Init /\ [][Next]_vars
\* The caller and the threads of the pool are threads of the operating system.
FairSpec == Spec /\ WF_vars(CallerStep) /\ \A t \in Pool : WF_vars(PoolStep(t))

-----------------------------------------------------------------------------
(* Properties                                                              *)

Jobs == {[from |-> p, n |-> m] : p \in 0..MaxLen, m \in 0..MaxLen}

TypeOK ==
  /\ len \in Lens /\ simd \in BOOLEAN
  /\ pc \in {"entry", "single", "spawning", "joining", "done"}
  /\ start \in 0..len /\ spawned \in 0..len
  /\ queue \subseteq Jobs
  /\ job \in [Pool -> Jobs]
  /\ at \in [Pool -> 0..MaxLen]
  /\ stores \in [Memory -> Nat]

\* "Per chunk owns a disjoint sub-slice of the caller-owned buffer, so there's
\* no aliasing" (jit.rs:1000): whatever the interleaving of the threads, no
\* position is stored to twice and none past the end of the buffer.
NoAliasing ==
  \A p \in Memory : stores[p] <= (IF p < len THEN 1 ELSE 0)

\* The buffer invoke_kernel_parallel hands back is filled to the last element,
\* and no thread is still in the kernel with a pointer into it.
ReturnsFilled ==
  pc = "done" =>
    /\ \A p \in 0..(len - 1) : stores[p] = 1
    /\ queue = {} /\ \A t \in Pool : job[t] = NoJob

\* The dispatch ends: the loop advances and every chunk is taken by somebody,
\* the spawning thread itself if need be.
Terminates == <>(pc = "done")

-----------------------------------------------------------------------------
(* The inductive invariant: stores[p] counts what no chunk has left to do. *)

\* Up to here the array has been given out.
Bound == IF pc \in {"entry", "spawning"} THEN start ELSE len

PcInv ==
  /\ pc = "entry" => start = 0
  /\ pc = "joining" => start = len
  /\ pc \in {"entry", "done"} => queue = {} /\ \A t \in Pool : job[t] = NoJob

JobInv ==
  /\ spawned <= start
  /\ \A j \in queue : j.n > 0 /\ j.from + j.n <= Bound
  /\ \A t \in Pool : job[t].from + job[t].n <= Bound

Apart(i, j) == i.from + i.n <= j.from \/ j.from + j.n <= i.from
ApartInv ==
  /\ \A i, j \in queue : i # j => Apart(i, j)
  /\ \A j \in queue, t \in Pool : Apart(j, job[t])
  /\ \A t, u \in Pool : t # u => Apart(job[t], job[u])

\* The vector loop is at a multiple of Lanes, so it stops at VecEnd.
AtInv ==
  \A t \in Pool :
    /\ job[t] = NoJob \/ at[t] <= job[t].n
    /\ at[t] < VecEnd(t) => \E k \in 0..MaxLen : at[t] = Lanes * k

Queued(p) == \E j \in queue : p \in j.from .. (j.from + j.n - 1)
Left(t) == (job[t].from + at[t]) .. (job[t].from + job[t].n - 1)
Undone(p) == p >= Bound \/ Queued(p) \/ \E t \in Pool : p \in Left(t)
StoreInv == \A p \in Memory : stores[p] = IF Undone(p) THEN 0 ELSE 1

IInv == TypeOK /\ PcInv /\ JobInv /\ ApartInv /\ AtInv /\ StoreInv
=============================================================================
