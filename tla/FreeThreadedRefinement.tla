----------------------- MODULE FreeThreadedRefinement -----------------------
(***************************************************************************)
(* FreeThreaded implements MapContract, for any calls, threads, chunks,    *)
(* paths and collections; the error that is kept is any of the errors.     *)
(***************************************************************************)
EXTENDS FreeThreadedProofs

-----------------------------------------------------------------------------
(* Stacks, chunk by chunk                                                  *)

\* Two threads never have the same job on top.
LEMMA TopApart ==
  ASSUME TypeOK, OnePlace, NEW p \in Pool, NEW q \in Pool, p # q, InChunk(p), InChunk(q)
  PROVE  Top(p) # Top(q)
<1>1. stack[p] \in Seq(Jobs) /\ stack[q] \in Seq(Jobs)
  BY DEF TypeOK
<1>2. /\ 1 \in 1..Len(stack[p]) /\ Head(stack[p]) = stack[p][1]
      /\ 1 \in 1..Len(stack[q]) /\ Head(stack[q]) = stack[q][1]
  BY <1>1, HeadTailProperties DEF InChunk
<1> QED
  BY <1>2 DEF OnePlace, Top

LEMMA TopShape ==
  ASSUME TypeOK, NEW p \in Pool, InChunk(p)
  PROVE  \E c \in Calls, k \in 1..MaxLen : Top(p) = <<c, k>>
<1>1. Top(p) \in Calls \X (0..MaxLen)
  BY HeadTailProperties DEF TypeOK, InChunk, Top, Jobs
<1>2. Top(p)[1] \in Calls /\ Top(p)[2] \in 1..MaxLen
  BY TopChunk
<1>3. Top(p) = <<Top(p)[1], Top(p)[2]>>
  BY <1>1
<1> QED
  BY <1>2, <1>3

\* The chunk a thread is at, and its call, which is still waiting.
LEMMA AtChunk ==
  ASSUME IInv, NEW p \in Pool, InChunk(p)
  PROVE  \E c \in Calls, k \in 1..MaxLen :
           /\ Top(p) = <<c, k>> /\ <<c, k>> \in OnStacks /\ <<c, k>> \notin queue
           /\ pc[c] = "wait" /\ <<c, 0>> \notin queue
<1>0. TypeOK /\ OnePlace /\ ScopeInv
  BY DEF IInv
<1>1. PICK c \in Calls, k \in 1..MaxLen : Top(p) = <<c, k>>
  BY <1>0, TopShape
<1>2. Top(p) \in OnStacks
  <2>1. stack[p] \in Seq(Jobs) /\ stack[p] # <<>>
    BY <1>0 DEF TypeOK, InChunk
  <2>2. 1 \in 1..Len(stack[p]) /\ Head(stack[p]) = stack[p][1]
    BY <2>1, HeadTailProperties
  <2> QED
    BY <2>2, OnStacksDef DEF Top
<1>3. <<c, k>> \in Unfinished(c)
  BY <1>1, <1>2, FreeThreadedAssumption DEF Unfinished
<1> QED
  BY <1>0, <1>1, <1>2, <1>3 DEF OnePlace, ScopeInv

-----------------------------------------------------------------------------
(* Who is attached                                                         *)

\* Steps that leave the jobs and the threads of the pool alone.
LEMMA AttachedKept ==
  ASSUME AttachedForElements, UNCHANGED <<stack, chunk>>,
         \A p \in Pool : state'[p] # "out" => state[p] # "out"
  PROVE  AttachedForElements'
BY DEF AttachedForElements, InChunk, Top

\* A thread takes a job, finishes one, or goes on with the one it is in.
LEMMA PoolAttached ==
  ASSUME TypeOK, OnePlace, AttachedForElements, NEW p \in Pool, PoolStep(p)
  PROVE  AttachedForElements'
<1>1. \A q \in Pool \ {p} : state'[q] = state[q] /\ stack'[q] = stack[q]
  <2>1. p \in Threads /\ Pool \subseteq Threads
    BY DEF Threads
  <2>2. /\ state' = state \/ \E to : state' = [state EXCEPT ![p] = to]
        /\ stack' = stack \/ \E jobs : stack' = [stack EXCEPT ![p] = jobs]
    <3>1. CASE TakeBody(p) \/ TakeChunk(p)
      BY <3>1 DEF TakeBody, TakeChunk, Push
    <3>2. CASE RunKernel(p) \/ CallElements(p) \/ Record(p) \/ CloseScope(p)
      BY <3>2 DEF RunKernel, CallElements, Record, CloseScope, Pop
    <3>3. CASE Attach(p) \/ ElementRaises(p)
      BY <3>3 DEF Attach, ElementRaises, jobVars
    <3> QED
      BY <3>1, <3>2, <3>3 DEF PoolStep
  <2> QED
    BY <2>1, <2>2 DEF TypeOK
<1>2. \/ chunk' = chunk
      \/ InChunk(p) /\ \E how : Settle(p, how)
  BY DEF PoolStep, TakeBody, TakeChunk, RunKernel, Attach, CallElements, ElementRaises,
         Record, CloseScope, jobVars
<1>3. ASSUME NEW q \in Pool \ {p}, state'[q] # "out"
      PROVE  /\ InChunk(q)' /\ Top(q)'[1] \in RayonCalls
             /\ chunk'[Top(q)'[1]][Top(q)'[2]] = "none"
  <2>1. /\ InChunk(q) /\ Top(q)[1] \in RayonCalls
        /\ chunk[Top(q)[1]][Top(q)[2]] = "none"
        /\ Top(q)' = Top(q) /\ InChunk(q)'
    BY <1>1, <1>3 DEF AttachedForElements, InChunk, Top
  <2>2. InChunk(p) => Top(q) # Top(p)
    BY <2>1, TopApart
  <2>3. PICK c \in Calls, k \in 1..MaxLen : Top(q) = <<c, k>>
    BY <2>1, TopShape
  <2>4. chunk'[c][k] = chunk[c][k]
    <3>1. CASE chunk' = chunk
      BY <3>1
    <3>2. CASE InChunk(p) /\ \E how : Settle(p, how)
      <4>1. PICK d \in Calls, n \in 1..MaxLen : Top(p) = <<d, n>>
        BY <3>2, TopShape
      <4>2. c # d \/ k # n
        BY <2>2, <2>3, <3>2, <4>1
      <4>3. \E how : chunk' = [chunk EXCEPT ![d][n] = how]
        <5>1. Top(p)[1] = d /\ Top(p)[2] = n
          BY <4>1
        <5> QED
          BY <3>2, <5>1 DEF Settle
      <4> QED
        BY <4>2, <4>3 DEF TypeOK
    <3> QED
      BY <1>2, <3>1, <3>2
  <2> QED
    BY <2>1, <2>3, <2>4
<1>4. state'[p] # "out" =>
        /\ InChunk(p)' /\ Top(p)'[1] \in RayonCalls
        /\ chunk'[Top(p)'[1]][Top(p)'[2]] = "none"
  <2>1. CASE Attach(p)
    BY <2>1 DEF Attach, InChunk, Top, jobVars
  <2>2. CASE ~Attach(p)
    <3>1. p \in Threads /\ state'[p] = "out"
      BY <2>2 DEF PoolStep, TakeBody, TakeChunk, RunKernel, CallElements, ElementRaises,
                  Record, CloseScope, InBody, InChunk, AttachedForElements, Threads, TypeOK
    <3> QED
      BY <3>1
  <2> QED
    BY <2>1, <2>2
<1> QED
  BY <1>3, <1>4 DEF AttachedForElements

LEMMA NextAttached ==
  ASSUME IInv, AttachedForElements, [Next]_vars
  PROVE  AttachedForElements'
<1>0. TypeOK /\ OnePlace
  BY DEF IInv
<1>1. ASSUME NEW c \in Calls, Begin(c) \/ CallStep(c) PROVE AttachedForElements'
  <2>1. \A p \in Pool : p # c
    BY FreeThreadedAssumption
  <2>2. UNCHANGED <<stack, chunk>> /\ \A p \in Pool : state'[p] = state[p]
    BY <1>0, <1>1, <2>1 DEF Begin, CallStep, Lock, Patch, PatchFails, Prepare, PrepareFails,
                            Wake, Return, End, jobVars, TypeOK, Threads
  <2> QED
    BY <2>2, AttachedKept
<1>2. ASSUME NEW t \in Threads, StopWorld(t) \/ Park(t) \/ StartWorld(t)
      PROVE  AttachedForElements'
  <2>1. UNCHANGED <<stack, chunk>>
    BY <1>2 DEF StopWorld, Park, StartWorld, jobVars
  <2>2. \A p \in Pool : state'[p] # "out" => state[p] # "out"
    BY <1>0, <1>2 DEF StopWorld, Park, StartWorld, InPython, Threads, TypeOK
  <2> QED
    BY <2>1, <2>2, AttachedKept
<1>3. CASE UNCHANGED vars
  BY <1>3, AttachedKept DEF vars, jobVars
<1> QED
  BY <1>0, <1>1, <1>2, <1>3, PoolAttached DEF Next

\* Between two chunks, in a kernel, in the body of a scope and with an error in
\* its hands, a thread of the pool is detached.
THEOREM PoolDetached == Spec => []AttachedForElements
<1>1. Init => AttachedForElements
  BY DEF Init, AttachedForElements, Threads
<1>2. IInv /\ AttachedForElements /\ [Next]_vars => AttachedForElements'
  BY NextAttached
<1> QED
  BY <1>1, <1>2, Invariant, PTL DEF Spec

-----------------------------------------------------------------------------
(* What has become of the chunks                                           *)

\* A chunk at which nothing happens.
LEMMA ChunkKept ==
  ASSUME NEW c \in Calls, NEW k \in 1..MaxLen, ChunkOK(c, k),
         UNCHANGED <<size[c], chunk[c][k], firstErr[c]>>,
         Fresh(c)' => Fresh(c),
         pc'[c] \in {"wait", "return"} => pc[c] \in {"wait", "return"},
         \A n \in {0, k} : <<c, n>> \in queue' <=> <<c, n>> \in queue,
         <<c, k>> \in OnStacks' <=> <<c, k>> \in OnStacks
  PROVE  ChunkOK(c, k)'
BY DEF ChunkOK

\* Steps at which no job is taken or finished and no call prepares its scope.
LEMMA ResultKept ==
  ASSUME ResultInv, UNCHANGED <<size, queue, stack, chunk, firstErr>>,
         \A c \in Calls : /\ Fresh(c)' => Fresh(c)
                          /\ pc'[c] \in {"wait", "return"} => pc[c] \in {"wait", "return"}
  PROVE  ResultInv'
<1>1. OnStacks' = OnStacks
  BY DEF OnStacks
<1> QED
  BY <1>1, ChunkKept DEF ResultInv

\* The scope is opened with all of its chunks to come, or is empty.
LEMMA PrepareResult ==
  ASSUME IInv, ResultInv, NEW c \in Calls, Prepare(c)
  PROVE  ResultInv'
<1>0. TypeOK /\ ScopeInv
  BY DEF IInv
<1>1. PICK n \in Sizes :
        /\ size' = [size EXCEPT ![c] = n]
        /\ queue' = IF n > 0 THEN queue \cup {<<c, 0>>} ELSE queue
  BY DEF Prepare
<1>2. /\ pc[c] = "prepare" /\ pc' = [pc EXCEPT ![c] = "wait"]
      /\ OnStacks' = OnStacks /\ UNCHANGED <<chunk, firstErr>>
  BY DEF Prepare, OnStacks
<1>3. n \in Nat /\ 0 \notin 1..MaxLen
  BY FreeThreadedAssumption
<1>4. size'[c] = n /\ pc'[c] = "wait"
      /\ \A d \in Calls \ {c} : size'[d] = size[d] /\ pc'[d] = pc[d]
  BY <1>0, <1>1, <1>2 DEF TypeOK
<1>5. \A d \in Calls \ {c}, k \in 0..MaxLen : <<d, k>> \in queue' <=> <<d, k>> \in queue
  BY <1>1
<1>6. \A k \in 1..MaxLen : /\ chunk[c][k] = "none"
                           /\ <<c, k>> \notin queue' /\ <<c, k>> \notin OnStacks
  <2>1. ~running[c] /\ Unfinished(c) = {}
    BY <1>0, <1>2 DEF ScopeInv
  <2>2. \A k \in 1..MaxLen : <<c, k>> \notin queue /\ <<c, k>> \notin OnStacks
    BY <2>1, <1>3 DEF Unfinished
  <2>3. \A k \in 1..MaxLen : <<c, k>> \notin queue'
    BY <2>2, <1>1, <1>3
  <2>4. Fresh(c)
    BY <1>2 DEF Fresh
  <2> QED
    BY <2>2, <2>3, <2>4 DEF ResultInv, ChunkOK
<1>7. firstErr[c] = 0
  BY <1>2 DEF ResultInv, Fresh
<1>8. ASSUME NEW k \in 1..MaxLen PROVE ChunkOK(c, k)'
  <2>1. k <= n => <<c, 0>> \in queue'
    BY <1>1, <1>3
  <2> QED
    BY <2>1, <1>2, <1>3, <1>4, <1>6, <1>7 DEF ChunkOK
<1>9. ASSUME NEW d \in Calls \ {c}, NEW k \in 1..MaxLen PROVE ChunkOK(d, k)'
  <2>1. 0 \in 0..MaxLen /\ k \in 0..MaxLen
    BY FreeThreadedAssumption
  <2>2. \A m \in {0, k} : <<d, m>> \in queue' <=> <<d, m>> \in queue
    BY <2>1, <1>5
  <2>3. Fresh(d)' => Fresh(d)
    BY <2>2, <1>4 DEF Fresh
  <2> QED
    BY <2>2, <2>3, <1>2, <1>4, ChunkKept DEF ResultInv
<1>10. \A d \in Calls : Fresh(d)' => firstErr'[d] = 0
  <2>1. \A d \in Calls \ {c} : Fresh(d)' => Fresh(d)
    BY <1>4, <1>5, FreeThreadedAssumption DEF Fresh
  <2> QED
    BY <2>1, <1>2, <1>7 DEF ResultInv
<1> QED
  BY <1>8, <1>9, <1>10 DEF ResultInv

\* The body of a scope spawns a job for each of its chunks.
LEMMA TakeBodyResult ==
  ASSUME IInv, ResultInv, NEW p \in Pool, TakeBody(p)
  PROVE  ResultInv'
<1>0. TypeOK /\ OnePlace /\ ScopeInv
  BY DEF IInv
<1>1. PICK c \in Calls :
        /\ <<c, 0>> \in queue /\ Push(p, <<c, 0>>)
        /\ queue' = (queue \ {<<c, 0>>}) \cup ({c} \X (1..size[c]))
  BY DEF TakeBody
<1>2. UNCHANGED <<pc, size, chunk, firstErr>>
  BY DEF TakeBody
<1>3. size[c] \in Nat /\ MaxLen \in Nat
  BY <1>0, FreeThreadedAssumption DEF TypeOK
<1>4. \A d \in Calls, k \in 0..MaxLen :
        <<d, k>> \in queue' <=> IF d = c THEN k \in 1..size[c] ELSE <<d, k>> \in queue
  <2>1. \A k \in Nat \ {0} : <<c, k>> \notin queue
    BY <1>0, <1>1, NoChunks
  <2> QED
    BY <2>1, <1>1, <1>3
<1>5. OnStacks' = OnStacks \cup {<<c, 0>>}
  <2>1. /\ <<c, 0>> \in Jobs /\ <<c, 0>> \notin OnStacks
        /\ \A k \in Nat \ {0} : <<c, k>> \notin queue \cup OnStacks
    BY <1>0, <1>1, NoChunks DEF TypeOK
  <2>2. \A k \in 1..size[c] : k \in Nat \ {0}
    BY <1>3
  <2>3. queue' \cap (OnStacks \cup {<<c, 0>>}) = {}
    BY <2>1, <2>2, <1>0, <1>1 DEF OnePlace
  <2> QED
    BY <2>1, <2>3, <1>0, <1>1, PushKeeps
<1>6. \A d \in Calls, k \in 1..MaxLen : <<d, k>> \in OnStacks' <=> <<d, k>> \in OnStacks
  BY <1>5, <1>3
<1>7. \A d \in Calls : Fresh(d)' => Fresh(d)
  BY <1>2, <1>3, <1>4 DEF Fresh
<1>8. ASSUME NEW k \in 1..MaxLen PROVE ChunkOK(c, k)'
  <2>1. Fresh(c) /\ ChunkOK(c, k) /\ firstErr[c] = 0
    BY <1>1 DEF Fresh, ResultInv
  <2>2. <<c, k>> \in queue' <=> k <= size[c]
    BY <1>3, <1>4
  <2> QED
    BY <2>1, <2>2, <1>2, <1>3, <1>6 DEF ChunkOK
<1>9. ASSUME NEW d \in Calls \ {c}, NEW k \in 1..MaxLen PROVE ChunkOK(d, k)'
  <2>1. 0 \in 0..MaxLen /\ k \in 0..MaxLen
    BY <1>3
  <2>2. \A m \in {0, k} : <<d, m>> \in queue' <=> <<d, m>> \in queue
    BY <2>1, <1>4
  <2> QED
    BY <2>2, <1>2, <1>6, <1>7, ChunkKept DEF ResultInv
<1> QED
  BY <1>2, <1>7, <1>8, <1>9 DEF ResultInv

\* A chunk goes from the queue to a stack.
LEMMA TakeChunkResult ==
  ASSUME IInv, ResultInv, NEW p \in Pool, TakeChunk(p)
  PROVE  ResultInv'
<1>0. TypeOK /\ OnePlace
  BY DEF IInv
<1>1. PICK job \in queue : job[2] # 0 /\ queue' = queue \ {job} /\ Push(p, job)
  BY DEF TakeChunk
<1>2. UNCHANGED <<pc, size, chunk, firstErr>>
  BY DEF TakeChunk
<1>3. job \in Jobs /\ OnStacks' = OnStacks \cup {job}
  <2>1. job \in Jobs /\ job \notin OnStacks /\ queue' \cap (OnStacks \cup {job}) = {}
    BY <1>0, <1>1 DEF OnePlace, TypeOK
  <2> QED
    BY <2>1, <1>0, <1>1, PushKeeps
<1>4. \A d \in Calls : <<d, 0>> \in queue' <=> <<d, 0>> \in queue
  BY <1>1
<1>5. \A d \in Calls : Fresh(d)' => Fresh(d)
  BY <1>2, <1>4 DEF Fresh
<1>6. ASSUME NEW d \in Calls, NEW k \in 1..MaxLen PROVE ChunkOK(d, k)'
  <2>1. CASE job = <<d, k>>
    <3>1. <<d, k>> \in queue /\ <<d, k>> \notin queue' /\ <<d, k>> \in OnStacks'
      BY <2>1, <1>1, <1>3
    <3>2. k <= size[d] /\ chunk[d][k] = "none"
      BY <3>1 DEF ResultInv, ChunkOK
    <3> QED
      BY <3>1, <3>2, <1>2, <1>5 DEF ResultInv, ChunkOK
  <2>2. CASE job # <<d, k>>
    BY <2>2, <1>1, <1>2, <1>3, <1>4, <1>5, ChunkKept DEF ResultInv
  <2> QED
    BY <2>1, <2>2
<1> QED
  BY <1>2, <1>5, <1>6 DEF ResultInv

\* A chunk is filled by the thread that is at it, or raises there.
LEMMA SettleResult ==
  ASSUME IInv, ResultInv, NEW p \in Pool, InChunk(p),
         NEW c \in Calls, NEW k \in 1..MaxLen, Top(p) = <<c, k>>, chunk[c][k] = "none",
         UNCHANGED <<pc, size, queue, firstErr>>,
         \/ Settle(p, "ok") /\ Pop(p)
         \/ Settle(p, "err") /\ UNCHANGED stack /\ c \in RayonCalls
  PROVE  ResultInv'
<1>0. TypeOK /\ OnePlace
  BY DEF IInv
<1>1. /\ <<c, k>> \in OnStacks /\ <<c, k>> \notin queue
      /\ pc[c] = "wait" /\ <<c, 0>> \notin queue
  <2>1. PICK d \in Calls, n \in 1..MaxLen :
          /\ Top(p) = <<d, n>> /\ <<d, n>> \in OnStacks /\ <<d, n>> \notin queue
          /\ pc[d] = "wait" /\ <<d, 0>> \notin queue
    BY AtChunk
  <2> QED
    BY <2>1
<1>2. k <= size[c] /\ firstErr[c] # k
  BY <1>1 DEF ResultInv, ChunkOK
<1>3. \/ /\ chunk' = [chunk EXCEPT ![c][k] = "ok"] /\ OnStacks' = OnStacks \ {<<c, k>>}
      \/ /\ chunk' = [chunk EXCEPT ![c][k] = "err"] /\ OnStacks' = OnStacks /\ c \in RayonCalls
  <2>1. Top(p)[1] = c /\ Top(p)[2] = k
    OBVIOUS
  <2>2. Pop(p) => OnStacks' = OnStacks \ {<<c, k>>}
    BY <1>0, PopKeeps DEF InChunk
  <2>3. stack' = stack => OnStacks' = OnStacks
    BY DEF OnStacks
  <2> QED
    BY <2>1, <2>2, <2>3 DEF Settle
<1>4. \A d \in Calls : Fresh(d)' => Fresh(d) /\ d # c
  BY <1>1 DEF Fresh
<1>5. ChunkOK(c, k)'
  <2>1. \/ chunk'[c][k] = "ok" /\ <<c, k>> \notin OnStacks'
        \/ chunk'[c][k] = "err" /\ <<c, k>> \in OnStacks' /\ c \in RayonCalls
    <3>1. chunk \in [Calls -> [1..MaxLen -> {"none", "ok", "err"}]]
      BY <1>0 DEF TypeOK
    <3> QED
      BY <3>1, <1>1, <1>3
  <2> QED
    BY <2>1, <1>1, <1>2, <1>4 DEF ChunkOK
<1>6. ASSUME NEW d \in Calls, NEW n \in 1..MaxLen, ~(d = c /\ n = k)
      PROVE  ChunkOK(d, n)'
  <2>1. chunk'[d][n] = chunk[d][n]
    <3>1. \E how : chunk' = [chunk EXCEPT ![c][k] = how]
      BY <1>3
    <3>2. CASE d = c
      BY <3>1, <3>2, <1>0, <1>6 DEF TypeOK
    <3>3. CASE d # c
      BY <3>1, <3>3, <1>0 DEF TypeOK
    <3> QED
      BY <3>2, <3>3
  <2>2. <<d, n>> \in OnStacks' <=> <<d, n>> \in OnStacks
    BY <1>3, <1>6
  <2> QED
    BY <2>1, <2>2, <1>4, ChunkKept DEF ResultInv
<1> QED
  BY <1>4, <1>5, <1>6 DEF ResultInv

\* An error that leaves its stack is kept, or another one is.
LEMMA RecordResult ==
  ASSUME IInv, ResultInv, NEW p \in Pool, Record(p)
  PROVE  ResultInv'
<1>0. TypeOK /\ OnePlace
  BY DEF IInv
<1>1. InChunk(p) /\ Pop(p) /\ UNCHANGED <<pc, size, queue, chunk>>
  BY DEF Record
<1>2. PICK c \in Calls, k \in 1..MaxLen :
        /\ Top(p) = <<c, k>> /\ <<c, k>> \in OnStacks /\ <<c, k>> \notin queue
        /\ pc[c] = "wait" /\ <<c, 0>> \notin queue
  BY <1>1, AtChunk
<1>3. /\ chunk[c][k] = "err"
      /\ firstErr' = [firstErr EXCEPT ![c] = IF @ = 0 THEN k ELSE @]
  <2>1. Top(p)[1] = c /\ Top(p)[2] = k
    BY <1>2
  <2> QED
    BY <2>1 DEF Record
<1>4. /\ firstErr'[c] = IF firstErr[c] = 0 THEN k ELSE firstErr[c]
      /\ \A d \in Calls \ {c} : firstErr'[d] = firstErr[d]
  BY <1>0, <1>3 DEF TypeOK
<1>5. OnStacks' = OnStacks \ {<<c, k>>}
  BY <1>0, <1>1, <1>2, PopKeeps DEF InChunk
<1>6. k # 0 /\ firstErr'[c] # 0
  BY <1>4, FreeThreadedAssumption
<1>7. \A d \in Calls : Fresh(d)' => Fresh(d) /\ d # c
  BY <1>1, <1>2 DEF Fresh
<1>8. ASSUME NEW n \in 1..MaxLen PROVE ChunkOK(c, n)'
  <2>1. ChunkOK(c, n)
    BY DEF ResultInv
  <2>2. <<c, n>> \in OnStacks' => <<c, n>> \in OnStacks
    BY <1>5
  <2>3. chunk[c][n] = "none" /\ <<c, n>> \in OnStacks => <<c, n>> \in OnStacks'
    BY <1>3, <1>5
  <2>4. firstErr'[c] = n => chunk[c][n] = "err"
    BY <2>1, <1>3, <1>4 DEF ChunkOK
  <2> QED
    BY <2>1, <2>2, <2>3, <2>4, <1>1, <1>6, <1>7 DEF ChunkOK
<1>9. ASSUME NEW d \in Calls \ {c}, NEW n \in 1..MaxLen PROVE ChunkOK(d, n)'
  BY <1>1, <1>4, <1>5, <1>7, ChunkKept DEF ResultInv
<1> QED
  BY <1>4, <1>7, <1>8, <1>9 DEF ResultInv

LEMMA CloseScopeResult ==
  ASSUME IInv, ResultInv, NEW p \in Pool, CloseScope(p)
  PROVE  ResultInv'
<1>0. TypeOK /\ OnePlace
  BY DEF IInv
<1>1. UNCHANGED <<pc, size, queue, chunk, firstErr>>
  BY DEF CloseScope
<1>2. OnStacks' = OnStacks \ {Top(p)} /\ Top(p)[2] = 0
  BY <1>0, PopKeeps DEF CloseScope, InBody
<1>3. \A c \in Calls, k \in 1..MaxLen : <<c, k>> \in OnStacks' <=> <<c, k>> \in OnStacks
  BY <1>2, FreeThreadedAssumption
<1>4. \A c \in Calls : Fresh(c)' => Fresh(c)
  BY <1>1 DEF Fresh
<1> QED
  BY <1>1, <1>3, <1>4, ChunkKept DEF ResultInv

\* A thread at a chunk whose element raises or returns has no outcome for it yet.
LEMMA NoOutcomeYet ==
  ASSUME IInv, ResultInv, AttachedForElements, NEW p \in Pool,
         RunKernel(p) \/ CallElements(p) \/ ElementRaises(p)
  PROVE  InChunk(p) /\ \E c \in Calls, k \in 1..MaxLen :
           /\ Top(p) = <<c, k>> /\ chunk[c][k] = "none" /\ pc[c] = "wait" /\ k <= size[c]
           /\ ~RunKernel(p) => c \in RayonCalls
<1>1. InChunk(p)
  BY DEF RunKernel, CallElements, ElementRaises
<1>2. PICK c \in Calls, k \in 1..MaxLen :
        Top(p) = <<c, k>> /\ <<c, k>> \in OnStacks /\ pc[c] = "wait"
  BY <1>1, AtChunk
<1>3. Top(p)[1] = c /\ Top(p)[2] = k /\ ChunkOK(c, k)
  BY <1>2 DEF ResultInv
<1>4. CASE RunKernel(p)
  <2>1. c \notin RayonCalls
    BY <1>3, <1>4 DEF RunKernel
  <2>2. chunk[c][k] \in {"none", "ok", "err"}
    BY DEF IInv, TypeOK
  <2> QED
    BY <2>1, <2>2, <1>1, <1>2, <1>3, <1>4 DEF ChunkOK
<1>5. CASE ~RunKernel(p)
  <2>1. state[p] = "in"
    BY <1>5 DEF CallElements, ElementRaises, InPython
  <2> QED
    BY <2>1, <1>1, <1>2, <1>3 DEF AttachedForElements, ChunkOK
<1> QED
  BY <1>4, <1>5

LEMMA NextResult ==
  ASSUME IInv, AttachedForElements, ResultInv, [Next]_vars
  PROVE  ResultInv'
<1>0. TypeOK
  BY DEF IInv
<1>1. ASSUME NEW c \in Calls, Begin(c) \/ CallStep(c) PROVE ResultInv'
  <2>1. CASE Prepare(c)
    BY <2>1, PrepareResult
  <2>2. CASE ~Prepare(c)
    <3>1. UNCHANGED <<size, jobVars>>
      BY <1>1, <2>2 DEF Begin, CallStep, Lock, Patch, PatchFails, PrepareFails, Wake, Return
    <3>2. /\ \A d \in Calls \ {c} : pc'[d] = pc[d]
          /\ \/ /\ pc[c] \in {"idle", "lock", "patch", "prepare"}
                /\ pc'[c] \in {"lock", "patch", "prepare", "refused"}
             \/ pc[c] = "wait" /\ pc'[c] = "return"
             \/ pc[c] = "return" /\ pc'[c] \in {"ok", "failed"}
      BY <1>0, <1>1, <2>2 DEF Begin, CallStep, Lock, Patch, PatchFails, PrepareFails, Wake,
                              Return, End, TypeOK
    <3> QED
      BY <3>1, <3>2, ResultKept DEF Fresh, jobVars
  <2> QED
    BY <2>1, <2>2
<1>2. ASSUME NEW p \in Pool, PoolStep(p) PROVE ResultInv'
  <2>1. CASE RunKernel(p) \/ CallElements(p) \/ ElementRaises(p)
    <3>1. PICK c \in Calls, k \in 1..MaxLen :
            /\ Top(p) = <<c, k>> /\ chunk[c][k] = "none"
            /\ ~RunKernel(p) => c \in RayonCalls
      BY <2>1, NoOutcomeYet
    <3>2. InChunk(p)
      BY <2>1, NoOutcomeYet
    <3> QED
      BY <2>1, <3>1, <3>2, SettleResult DEF RunKernel, CallElements, ElementRaises
  <2>2. CASE Attach(p)
    BY <2>2, ResultKept DEF Attach, jobVars, Fresh
  <2> QED
    BY <1>2, <2>1, <2>2, TakeBodyResult, TakeChunkResult, RecordResult, CloseScopeResult
    DEF PoolStep
<1>3. ASSUME NEW t \in Threads, StopWorld(t) \/ Park(t) \/ StartWorld(t) PROVE ResultInv'
  BY <1>3, ResultKept DEF StopWorld, Park, StartWorld, jobVars, Fresh
<1>4. CASE UNCHANGED vars
  BY <1>4, ResultKept DEF vars, jobVars, Fresh
<1> QED
  BY <1>1, <1>2, <1>3, <1>4 DEF Next

\* A chunk has an outcome or is still a job, and an error is kept or about to be.
LEMMA SpecResultInv == Spec => []ResultInv
<1>1. Init => ResultInv
  <2> SUFFICES ASSUME Init PROVE ResultInv
    OBVIOUS
  <2>1. OnStacks = {}
    BY DEF Init, OnStacks
  <2> QED
    BY <2>1, FreeThreadedAssumption DEF Init, ResultInv, ChunkOK, Fresh
<1>2. IInv /\ AttachedForElements /\ ResultInv /\ [Next]_vars => ResultInv'
  BY NextResult
<1> QED
  BY <1>1, <1>2, Invariant, PoolDetached, PTL DEF Spec

-----------------------------------------------------------------------------
(* The steps of the contract, call by call                                 *)

\* What the contract sees of a call has not changed.
Same(c) == UNCHANGED <<Verdict(c), size[c], Good(c), Bad(c), firstErr[c]>>

\* Numbers that are the same for every call are the same.
LEMMA SameNumbers ==
  ASSUME TypeOK, TypeOK'
  PROVE  /\ (\A d \in Calls : size'[d] = size[d]) => size' = size
         /\ (\A d \in Calls : firstErr'[d] = firstErr[d]) => firstErr' = firstErr
<1>1. /\ size \in [Calls -> 0..MaxLen] /\ size' \in [Calls -> 0..MaxLen]
      /\ firstErr \in [Calls -> 0..MaxLen] /\ firstErr' \in [Calls -> 0..MaxLen]
  BY DEF TypeOK
<1> QED
  BY <1>1

\* Nothing that the contract sees has changed.
LEMMA StutterStep ==
  ASSUME TypeOK, TypeOK', \A c \in Calls : Same(c)
  PROVE  UNCHANGED Contract!contractVars
<1>1. size' = size /\ firstErr' = firstErr
  BY SameNumbers DEF Same
<1> QED
  BY <1>1 DEF Contract!contractVars, Same

\* A step of a running call: the contract's actions on it, each as what it
\* changes of that call.
LEMMA FillStep ==
  ASSUME TypeOK, TypeOK', NEW c \in Calls, Verdict(c) = "running",
         NEW k \in 1..size[c], k \notin Good(c) \cup Bad(c),
         Good(c)' = Good(c) \cup {k},
         UNCHANGED <<Verdict(c), size[c], Bad(c), firstErr[c]>>,
         \A d \in Calls \ {c} : Same(d)
  PROVE  Contract!Fill(c)
<1>0. \A d \in Calls : size'[d] = size[d] /\ firstErr'[d] = firstErr[d]
  BY DEF Same
<1>1. size' = size /\ firstErr' = firstErr
  BY <1>0, SameNumbers
<1>2. [d \in Calls |-> Good(d)]' = [[d \in Calls |-> Good(d)] EXCEPT ![c] = @ \cup {k}]
  BY DEF Same
<1>3. UNCHANGED <<[d \in Calls |-> Verdict(d)], [d \in Calls |-> Bad(d)]>>
  BY DEF Same
<1> QED
  BY <1>1, <1>2, <1>3 DEF Contract!Fill, Contract!Positions

LEMMA RaiseStep ==
  ASSUME TypeOK, TypeOK', NEW c \in Calls, Verdict(c) = "running",
         NEW k \in 1..size[c], k \notin Good(c) \cup Bad(c),
         Bad(c)' = Bad(c) \cup {k},
         UNCHANGED <<Verdict(c), size[c], Good(c), firstErr[c]>>,
         \A d \in Calls \ {c} : Same(d)
  PROVE  Contract!Raise(c)
<1>0. \A d \in Calls : size'[d] = size[d] /\ firstErr'[d] = firstErr[d]
  BY DEF Same
<1>1. size' = size /\ firstErr' = firstErr
  BY <1>0, SameNumbers
<1>2. [d \in Calls |-> Bad(d)]' = [[d \in Calls |-> Bad(d)] EXCEPT ![c] = @ \cup {k}]
  BY DEF Same
<1>3. UNCHANGED <<[d \in Calls |-> Verdict(d)], [d \in Calls |-> Good(d)]>>
  BY DEF Same
<1> QED
  BY <1>1, <1>2, <1>3 DEF Contract!Raise, Contract!Positions

LEMMA BlameStep ==
  ASSUME TypeOK, TypeOK', NEW c \in Calls, Verdict(c) = "running",
         firstErr[c] = 0, NEW k \in Bad(c),
         firstErr'[c] = k, UNCHANGED <<Verdict(c), size[c], Good(c), Bad(c)>>,
         \A d \in Calls \ {c} : Same(d)
  PROVE  Contract!Blame(c)
<1>0. \A d \in Calls : size'[d] = size[d]
  BY DEF Same
<1>1. size' = size
  BY <1>0, SameNumbers
<1>2. firstErr' = [firstErr EXCEPT ![c] = k]
  BY DEF TypeOK, Same
<1>3. UNCHANGED <<[d \in Calls |-> Verdict(d)], [d \in Calls |-> Good(d)],
                  [d \in Calls |-> Bad(d)]>>
  BY DEF Same
<1> QED
  BY <1>1, <1>2, <1>3 DEF Contract!Blame

\* The call ends, or begins to run: nothing but its status changes, and at the
\* beginning the number of its chunks.
LEMMA StatusStep ==
  ASSUME TypeOK, TypeOK', NEW c \in Calls, NEW to, Verdict(c)' = to,
         UNCHANGED <<Good(c), Bad(c), firstErr[c]>>,
         \A d \in Calls \ {c} : Same(d)
  PROVE  /\ [d \in Calls |-> Verdict(d)]' = [[d \in Calls |-> Verdict(d)] EXCEPT ![c] = to]
         /\ size' = [size EXCEPT ![c] = size'[c]]
         /\ UNCHANGED <<[d \in Calls |-> Good(d)], [d \in Calls |-> Bad(d)], firstErr>>
<1>0. \A d \in Calls : firstErr'[d] = firstErr[d]
  BY DEF Same
<1>1. firstErr' = firstErr
  BY <1>0, SameNumbers
<1>2. \A d \in Calls \ {c} : size'[d] = size[d]
  BY DEF Same
<1>3. size' = [size EXCEPT ![c] = size'[c]]
  BY <1>2 DEF TypeOK
<1> QED
  BY <1>1, <1>3 DEF Same

-----------------------------------------------------------------------------
(* The simulation                                                          *)

\* The number of chunks is known, and none of them has an outcome.
LEMMA PrepareSimulated ==
  ASSUME IInv, IInv', NEW c \in Calls, Prepare(c)
  PROVE  Contract!Open(c)
<1>0. TypeOK /\ TypeOK'
  BY DEF IInv
<1>1. PICK n \in Sizes : size' = [size EXCEPT ![c] = n]
  BY DEF Prepare
<1>2. pc[c] = "prepare" /\ pc' = [pc EXCEPT ![c] = "wait"] /\ UNCHANGED <<chunk, firstErr>>
  BY DEF Prepare
<1>3. /\ pc'[c] = "wait" /\ size'[c] = n
      /\ \A d \in Calls \ {c} : pc'[d] = pc[d] /\ size'[d] = size[d]
  BY <1>0, <1>1, <1>2 DEF TypeOK
<1>4. Verdict(c) = "idle" /\ Verdict(c)' = "running"
  BY <1>2, <1>3 DEF Verdict, Ended
<1>5. \A d \in Calls : UNCHANGED <<Good(d), Bad(d), firstErr[d]>>
  BY <1>2 DEF Good, Bad
<1>6. \A d \in Calls \ {c} : Same(d)
  BY <1>3, <1>5 DEF Same, Verdict
<1>7. size'[c] \in 0..MaxLen
  BY <1>0 DEF TypeOK
<1> QED
  BY <1>0, <1>4, <1>5, <1>6, <1>7, StatusStep DEF Contract!Open

LEMMA RefuseSimulated ==
  ASSUME IInv, IInv', ResultInv, NEW c \in Calls, PatchFails(c) \/ PrepareFails(c)
  PROVE  Contract!Refuse(c)
<1>0. TypeOK /\ TypeOK'
  BY DEF IInv
<1>1. /\ UNCHANGED <<size, chunk, firstErr>>
      /\ pc[c] \in {"patch", "prepare"} /\ pc'[c] = "refused"
      /\ \A d \in Calls \ {c} : pc'[d] = pc[d]
  BY <1>0 DEF PatchFails, PrepareFails, End, jobVars, TypeOK
<1>2. firstErr[c] = 0
  BY <1>1 DEF ResultInv, Fresh
<1>3. Verdict(c) = "idle" /\ Verdict(c)' = "refused"
  BY <1>1 DEF Verdict, Ended
<1>4. \A d \in Calls : UNCHANGED <<Good(d), Bad(d), firstErr[d]>>
  BY <1>1 DEF Good, Bad
<1>5. \A d \in Calls \ {c} : Same(d)
  BY <1>1, <1>4 DEF Same, Verdict
<1>6. size'[c] = size[c]
  BY <1>1
<1> QED
  BY <1>0, <1>1, <1>2, <1>3, <1>4, <1>5, <1>6, StatusStep DEF Contract!Refuse, TypeOK

\* A call returns when its scope is closed: no chunk is a job, so that each has
\* an outcome, and one that raised has left an error.
LEMMA ReturnSimulated ==
  ASSUME IInv, IInv', ResultInv, NEW c \in Calls, Return(c)
  PROVE  Contract!Succeed(c) \/ Contract!Fail(c)
<1>0. TypeOK /\ TypeOK' /\ ScopeInv
  BY DEF IInv
<1>1. /\ UNCHANGED <<size, chunk, firstErr>>
      /\ pc[c] = "return" /\ pc'[c] = IF firstErr[c] = 0 THEN "ok" ELSE "failed"
      /\ \A d \in Calls \ {c} : pc'[d] = pc[d]
  BY <1>0 DEF Return, End, jobVars, TypeOK
<1>2. \A k \in 1..MaxLen : <<c, k>> \notin queue /\ <<c, k>> \notin OnStacks
  <2>1. Unfinished(c) = {}
    BY <1>0, <1>1 DEF ScopeInv
  <2> QED
    BY <2>1, FreeThreadedAssumption DEF Unfinished
<1>3. <<c, 0>> \notin queue
  BY <1>0, <1>1 DEF ScopeInv
<1>4. ASSUME NEW k \in 1..MaxLen
      PROVE  /\ k \in 1..size[c] <=> chunk[c][k] \in {"ok", "err"}
             /\ chunk[c][k] = "err" => firstErr[c] # 0
  <2>1. ChunkOK(c, k)
    BY DEF ResultInv
  <2>2. chunk[c][k] \in {"none", "ok", "err"} /\ size[c] \in Nat /\ k \in Nat \ {0}
    BY <1>0, FreeThreadedAssumption DEF TypeOK
  <2> QED
    BY <2>1, <2>2, <1>1, <1>2, <1>3 DEF ChunkOK
<1>5. 1..size[c] \subseteq 1..MaxLen
  BY <1>0, FreeThreadedAssumption DEF TypeOK
<1>6. Good(c) \cup Bad(c) = 1..size[c] /\ (firstErr[c] = 0 => Bad(c) = {})
  BY <1>4, <1>5 DEF Good, Bad
<1>7. \A d \in Calls : UNCHANGED <<Good(d), Bad(d), firstErr[d]>>
  BY <1>1 DEF Good, Bad
<1>8. \A d \in Calls \ {c} : Same(d)
  BY <1>1, <1>7 DEF Same, Verdict
<1>9. /\ Verdict(c) = "running"
      /\ Verdict(c)' = IF firstErr[c] = 0 THEN "ok" ELSE "failed"
  BY <1>1 DEF Verdict, Ended
<1>10. CASE firstErr[c] = 0
  <2>1. Verdict(c)' = "ok" /\ Good(c) = 1..size[c]
    BY <1>6, <1>9, <1>10
  <2> QED
    BY <1>0, <1>1, <1>7, <1>8, <1>9, <2>1, StatusStep
    DEF Contract!Succeed, Contract!Positions
<1>11. CASE firstErr[c] # 0
  <2>1. Verdict(c)' = "failed"
    BY <1>9, <1>11
  <2> QED
    BY <1>0, <1>1, <1>6, <1>7, <1>8, <1>9, <1>11, <2>1, StatusStep
    DEF Contract!Fail, Contract!Positions
<1> QED
  BY <1>10, <1>11

\* The chunk a thread is at gets its only outcome.
LEMMA SettleSimulated ==
  ASSUME IInv, IInv', AttachedForElements, ResultInv, NEW p \in Pool,
         RunKernel(p) \/ CallElements(p) \/ ElementRaises(p)
  PROVE  \E c \in Calls : Contract!Fill(c) \/ Contract!Raise(c)
<1>0. TypeOK /\ TypeOK'
  BY DEF IInv
<1>1. PICK c \in Calls, k \in 1..MaxLen :
        Top(p) = <<c, k>> /\ chunk[c][k] = "none" /\ pc[c] = "wait" /\ k <= size[c]
  BY NoOutcomeYet
<1>2. UNCHANGED <<pc, size, firstErr>>
  BY DEF RunKernel, CallElements, ElementRaises
<1>3. \/ chunk' = [chunk EXCEPT ![c][k] = "ok"]
      \/ chunk' = [chunk EXCEPT ![c][k] = "err"]
  <2>1. Top(p)[1] = c /\ Top(p)[2] = k
    BY <1>1
  <2> QED
    BY <2>1 DEF RunKernel, CallElements, ElementRaises, Settle
<1>4. k \in 1..size[c] /\ k \notin Good(c) \cup Bad(c)
  BY <1>0, <1>1, FreeThreadedAssumption DEF Good, Bad, TypeOK
<1>5. \A d \in Calls : Verdict(d)' = Verdict(d)
  BY <1>2 DEF Verdict
<1>6. Verdict(c) = "running"
  BY <1>1 DEF Verdict, Ended
<1>7. \A d \in Calls \ {c} : chunk'[d] = chunk[d]
  BY <1>0, <1>3 DEF TypeOK
<1>8. \A d \in Calls \ {c} : Same(d)
  BY <1>2, <1>5, <1>7 DEF Same, Good, Bad
<1>9. /\ \A n \in 1..MaxLen : n # k => chunk'[c][n] = chunk[c][n]
      /\ chunk'[c][k] \in {"ok", "err"}
  <2>1. PICK how \in {"ok", "err"} : chunk' = [chunk EXCEPT ![c][k] = how]
    BY <1>3
  <2>2. chunk[c] \in [1..MaxLen -> {"none", "ok", "err"}]
    BY <1>0 DEF TypeOK
  <2>3. chunk'[c] = [chunk[c] EXCEPT ![k] = how]
    BY <1>0, <2>1 DEF TypeOK
  <2> QED
    BY <2>2, <2>3
<1>10. CASE chunk'[c][k] = "ok"
  <2>1. Good(c)' = Good(c) \cup {k} /\ Bad(c)' = Bad(c)
    BY <1>1, <1>9, <1>10 DEF Good, Bad
  <2> QED
    BY <1>0, <1>2, <1>4, <1>5, <1>6, <1>8, <2>1, FillStep
<1>11. CASE chunk'[c][k] = "err"
  <2>1. Bad(c)' = Bad(c) \cup {k} /\ Good(c)' = Good(c)
    BY <1>1, <1>9, <1>11 DEF Good, Bad
  <2> QED
    BY <1>0, <1>2, <1>4, <1>5, <1>6, <1>8, <2>1, RaiseStep
<1> QED
  BY <1>9, <1>10, <1>11

\* The first error to get to the slot is blamed, a later one is forgotten.
LEMMA RecordSimulated ==
  ASSUME IInv, IInv', NEW p \in Pool, Record(p)
  PROVE  (\E c \in Calls : Contract!Blame(c)) \/ UNCHANGED Contract!contractVars
<1>0. TypeOK /\ TypeOK'
  BY DEF IInv
<1>1. InChunk(p) /\ UNCHANGED <<pc, size, chunk>>
  BY DEF Record
<1>2. PICK c \in Calls, k \in 1..MaxLen : Top(p) = <<c, k>> /\ pc[c] = "wait"
  BY <1>1, AtChunk
<1>3. /\ chunk[c][k] = "err"
      /\ firstErr' = [firstErr EXCEPT ![c] = IF @ = 0 THEN k ELSE @]
  <2>1. Top(p)[1] = c /\ Top(p)[2] = k
    BY <1>2
  <2> QED
    BY <2>1 DEF Record
<1>4. /\ firstErr'[c] = IF firstErr[c] = 0 THEN k ELSE firstErr[c]
      /\ \A d \in Calls \ {c} : firstErr'[d] = firstErr[d]
  BY <1>0, <1>3 DEF TypeOK
<1>5. \A d \in Calls : UNCHANGED <<Verdict(d), Good(d), Bad(d), size[d]>>
  BY <1>1 DEF Verdict, Good, Bad
<1>6. \A d \in Calls \ {c} : Same(d)
  BY <1>4, <1>5 DEF Same
<1>7. CASE firstErr[c] = 0
  <2>1. k \in Bad(c) /\ Verdict(c) = "running" /\ firstErr'[c] = k
    BY <1>2, <1>3, <1>4, <1>7 DEF Bad, Verdict, Ended
  <2> QED
    BY <1>0, <1>5, <1>6, <1>7, <2>1, BlameStep
<1>8. CASE firstErr[c] # 0
  <2>1. \A d \in Calls : Same(d)
    BY <1>4, <1>5, <1>6, <1>8 DEF Same
  <2> QED
    BY <1>0, <2>1, StutterStep
<1> QED
  BY <1>7, <1>8

\* The steps the contract does not see.
LEMMA OthersSimulated ==
  ASSUME TypeOK, TypeOK', UNCHANGED <<size, chunk, firstErr>>,
         \A c \in Calls :
           \/ pc'[c] = pc[c]
           \/ pc[c] = "wait" /\ pc'[c] = "return"
           \/ {pc[c], pc'[c]} \subseteq {"idle", "lock", "patch", "prepare"}
  PROVE  UNCHANGED Contract!contractVars
<1>1. \A c \in Calls : Verdict(c)' = Verdict(c)
  BY DEF Verdict, Ended
<1> QED
  BY <1>1, StutterStep DEF Same, Good, Bad

LEMMA InitSimulated == Init => Contract!ContractInit
<1> SUFFICES ASSUME Init PROVE Contract!ContractInit
  OBVIOUS
<1>1. \A c \in Calls : Verdict(c) = "idle" /\ Good(c) = {} /\ Bad(c) = {}
  BY DEF Init, Verdict, Ended, Good, Bad
<1> QED
  BY <1>1 DEF Init, Contract!ContractInit

LEMMA NextSimulated ==
  ASSUME IInv, IInv', AttachedForElements, ResultInv, [Next]_vars
  PROVE  [Contract!ContractNext]_Contract!contractVars
<1>0. TypeOK /\ TypeOK'
  BY DEF IInv
<1>1. ASSUME NEW c \in Calls, Begin(c) \/ CallStep(c)
      PROVE  Contract!ContractNext \/ UNCHANGED Contract!contractVars
  <2>1. CASE Begin(c) \/ Lock(c) \/ Patch(c) \/ Wake(c)
    <3>1. UNCHANGED <<size, chunk, firstErr>>
      BY <2>1 DEF Begin, Lock, Patch, Wake, jobVars
    <3>2. \A d \in Calls :
            \/ pc'[d] = pc[d]
            \/ pc[d] = "wait" /\ pc'[d] = "return"
            \/ {pc[d], pc'[d]} \subseteq {"idle", "lock", "patch", "prepare"}
      BY <1>0, <2>1 DEF Begin, Lock, Patch, Wake, TypeOK
    <3> QED
      BY <1>0, <3>1, <3>2, OthersSimulated
  <2>2. CASE PatchFails(c) \/ PrepareFails(c)
    BY <2>2, RefuseSimulated DEF Contract!ContractNext
  <2>3. CASE Prepare(c)
    BY <2>3, PrepareSimulated DEF Contract!ContractNext
  <2>4. CASE Return(c)
    BY <2>4, ReturnSimulated DEF Contract!ContractNext
  <2> QED
    BY <1>1, <2>1, <2>2, <2>3, <2>4 DEF CallStep
<1>2. ASSUME NEW p \in Pool, PoolStep(p)
      PROVE  Contract!ContractNext \/ UNCHANGED Contract!contractVars
  <2>1. CASE RunKernel(p) \/ CallElements(p) \/ ElementRaises(p)
    BY <2>1, SettleSimulated DEF Contract!ContractNext
  <2>2. CASE Record(p)
    BY <2>2, RecordSimulated DEF Contract!ContractNext
  <2>3. CASE TakeBody(p) \/ TakeChunk(p) \/ Attach(p) \/ CloseScope(p)
    <3>1. UNCHANGED <<pc, size, chunk, firstErr>>
      BY <2>3 DEF TakeBody, TakeChunk, Attach, CloseScope, jobVars
    <3> QED
      BY <1>0, <3>1, OthersSimulated
  <2> QED
    BY <1>2, <2>1, <2>2, <2>3 DEF PoolStep
<1>3. ASSUME NEW t \in Threads, StopWorld(t) \/ Park(t) \/ StartWorld(t)
      PROVE  UNCHANGED Contract!contractVars
  <2>1. UNCHANGED <<pc, size, chunk, firstErr>>
    BY <1>3 DEF StopWorld, Park, StartWorld, jobVars
  <2> QED
    BY <1>0, <2>1, OthersSimulated
<1>4. CASE UNCHANGED vars
  <2>1. UNCHANGED <<pc, size, chunk, firstErr>>
    BY <1>4 DEF vars, jobVars
  <2> QED
    BY <1>0, <2>1, OthersSimulated
<1> QED
  BY <1>1, <1>2, <1>3, <1>4 DEF Next

\* The three entry points of the free-threaded build share the contract of the
\* worker pool, however their scopes are stacked on the threads of the pool and
\* whenever garbage is collected: each chunk gets one outcome, a call succeeds
\* with all of them filled and fails with the error of one that raised, after all
\* of them have ended; after the return nothing changes any more.
THEOREM ImplementsMapContract == Spec => ImplementsContract
<1>1. IInv /\ IInv' /\ AttachedForElements /\ ResultInv /\ [Next]_vars
        => [Contract!ContractNext]_Contract!contractVars
  BY NextSimulated
<1> QED
  BY <1>1, InitSimulated, Invariant, PoolDetached, SpecResultInv, PTL
  DEF Spec, ImplementsContract, Contract!ContractSpec

-----------------------------------------------------------------------------
(* What the caller gets                                                    *)

Caller == INSTANCE MapContractProofs WITH
  Ordered <- FALSE,
  status <- [c \in Calls |-> Verdict(c)],
  good <- [c \in Calls |-> Good(c)],
  bad <- [c \in Calls |-> Bad(c)],
  blamed <- firstErr

LEMMA SameContract == ImplementsContract => Caller!ContractSpec
<1>1. Contract!ContractInit => Caller!ContractInit
  BY DEF Contract!ContractInit, Caller!ContractInit
<1>2. [Contract!ContractNext]_Contract!contractVars
        => [Caller!ContractNext]_Caller!contractVars
  BY DEF Contract!ContractNext, Caller!ContractNext, Contract!contractVars,
         Caller!contractVars, Contract!Positions, Caller!Positions,
         Contract!Open, Contract!Fill, Contract!Raise, Contract!Blame,
         Contract!Succeed, Contract!Fail, Contract!Refuse,
         Caller!Open, Caller!Fill, Caller!Raise, Caller!Blame,
         Caller!Succeed, Caller!Fail, Caller!Refuse
<1> QED
  BY <1>1, <1>2, PTL DEF ImplementsContract, Contract!ContractSpec, Caller!ContractSpec

\* The theorems about the contract hold of the free-threaded build: a call returns
\* all of its chunks, or the error of one that raised when none is at work.
THEOREM PromiseKept == Spec => []Caller!Promise
BY ImplementsMapContract, SameContract, Caller!PromiseKept, PTL

\* No thread, stack of jobs or collection takes an outcome back, or changes what a call has returned.
THEOREM ReturnsAreFinal == Spec => [][Caller!Settled]_Caller!contractVars
BY ImplementsMapContract, SameContract, Caller!ReturnsAreFinal, PTL
=============================================================================
