------------------------ MODULE WorkerPoolRefinement ------------------------
(***************************************************************************)
(* WorkerPool implements MapContract, for any calls, workers, functions    *)
(* and arrays, whatever addresses the allocator uses again.                *)
(***************************************************************************)
EXTENDS WorkerPoolProofs

-----------------------------------------------------------------------------
(* The outcomes and the buffers                                            *)

\* The phases in which a call has not looked at any outcome.
Early == {"idle", "parse", "dispatch"}

\* A step that publishes, writes, sends and counts nothing.
LEMMA OutcomesKept ==
  ASSUME OutcomeInv, UNCHANGED <<done, out, sent, waited, firstErr>>,
         \A c \in Calls : phase'[c] \in Early => phase[c] \in Early,
         \A w \in Workers : OutputOK(w)',
         \A i \in 1..Len(chan') : chan'[i] # Shutdown => Written(chan'[i]) = NoFunc
  PROVE  OutcomeInv'
BY DEF OutcomeInv, OutcomeOK, Written, Early

\* The workers other than the one that steps.
LEMMA OtherOutputsKept ==
  ASSUME OutcomeInv, out' = out, NEW w \in Workers, OutputOK(w)',
         \A v \in Workers \ {w} : /\ wstate'[v] = wstate[v] /\ task'[v] = task[v]
                                 /\ res'[v] = res[v] /\ lastFn'[v] = lastFn[v]
  PROVE  \A v \in Workers : OutputOK(v)'
<1> SUFFICES ASSUME NEW v \in Workers, v # w PROVE OutputOK(v)'
  OBVIOUS
<1> QED
  BY DEF OutcomeInv, OutputOK, Written

LEMMA InitOutcomes == Init => OutcomeInv
BY PoolAssumption DEF Init, OutcomeInv, OutcomeOK, OutputOK, Chunk

LEMMA EnterOutcomes ==
  ASSUME IInv, OutcomeInv, NEW c \in Calls, Enter(c)
  PROVE  OutcomeInv'
<1>1. \A w \in Workers : OutputOK(w)'
  BY DEF Enter, OutcomeInv, OutputOK, Written
<1>2. \A d \in Calls : phase'[d] \in Early => phase[d] \in Early
  BY DEF Enter, IInv, TypeOK, Early
<1> QED
  BY <1>1, <1>2, OutcomesKept DEF Enter, OutcomeInv

\* Steps of a call, or of nobody, that leave workers and channel alone.
LEMMA QuietOutcomes ==
  ASSUME OutcomeInv, UNCHANGED <<done, out, sent, waited, firstErr, workerVars, chan>>,
         \A c \in Calls : phase'[c] \in Early => phase[c] \in Early
  PROVE  OutcomeInv'
<1>1. \A w \in Workers : OutputOK(w)'
  BY DEF OutcomeInv, OutputOK, Written, workerVars
<1> QED
  BY <1>1, OutcomesKept DEF OutcomeInv

\* A chunk that has not been sent has not been written to.
LEMMA SendOutcomes ==
  ASSUME IInv, OutcomeInv, NEW c \in Calls, Send(c)
  PROVE  OutcomeInv'
<1>0. TypeOK /\ CallInv /\ WorkerInv
  BY DEF IInv
<1>1. sent[c] + 1 \in Chunk
  <2>1. sent[c] < nchunks[c] /\ nchunks[c] <= MaxLen /\ MaxLen \in Nat
        /\ sent[c] \in Nat /\ nchunks[c] \in Nat
    BY <1>0, ChunkType, PoolAssumption DEF Send
  <2> QED
    BY <2>1 DEF Chunk
<1>2. /\ UNCHANGED <<done, out, waited, firstErr, phase, wstate, task, res, lastFn>>
      /\ sent'[c] = sent[c] + 1 /\ \A d \in Calls \ {c} : sent'[d] = sent[d]
  BY <1>0 DEF Send, workerVars, TypeOK
<1>3. \A d \in Calls : sent[d] \in Nat
  BY <1>0, ChunkType
<1>4. ASSUME NEW d \in Calls PROVE OutcomeOK(d)'
  <2>1. \A k \in Chunk : k > sent'[d] => k > sent[d]
    BY <1>2, <1>3 DEF Chunk
  <2> QED
    BY <1>2, <2>1 DEF OutcomeInv, OutcomeOK
<1>5. \A w \in Workers : OutputOK(w)'
  BY <1>2 DEF OutcomeInv, OutputOK, Written
<1>6. out[c][sent[c] + 1] = NoFunc
  BY <1>1, <1>3 DEF OutcomeInv, OutcomeOK
<1>7. ASSUME NEW i \in 1..Len(chan'), chan'[i] # Shutdown PROVE Written(chan[i])' = NoFunc
  <2>1. <<c, sent[c] + 1>> \in Tasks
    BY <1>1 DEF Tasks
  <2>2. chan' = Append(chan, <<c, sent[c] + 1>>)
        /\ chan \in Seq(Tasks \cup {Shutdown})
    BY <1>0 DEF Send, TypeOK
  <2>3. chan'[i] = <<c, sent[c] + 1>> \/ (i \in 1..Len(chan) /\ chan'[i] = chan[i])
    BY <2>1, <1>7, <2>2
  <2> QED
    BY <1>2, <1>6, <1>7, <2>3 DEF OutcomeInv, Written
<1> QED
  BY <1>4, <1>5, <1>7 DEF OutcomeInv, Written

\* The first error is kept and what was seen before it was good.
LEMMA AwaitOutcomes ==
  ASSUME IInv, OutcomeInv, NEW c \in Calls, Await(c)
  PROVE  OutcomeInv'
<1>0. TypeOK /\ CallInv /\ WorkerInv
  BY DEF IInv
<1> DEFINE n == waited[c] + 1
<1>1. n \in Chunk /\ waited[c] \in Nat
  <2>1. waited[c] < nchunks[c] /\ nchunks[c] <= MaxLen /\ MaxLen \in Nat
        /\ waited[c] \in Nat /\ nchunks[c] \in Nat
    BY <1>0, ChunkType, PoolAssumption DEF Await
  <2> QED
    BY <2>1 DEF Chunk
<1>2. /\ UNCHANGED <<done, out, sent, phase, wstate, task, res, lastFn, chan>>
      /\ phase[c] = "wait" /\ waited'[c] = n /\ done[c][n] \in {"ok", "err"}
      /\ firstErr'[c] = IF done[c][n] = "err" /\ firstErr[c] = 0 THEN n ELSE firstErr[c]
      /\ \A d \in Calls \ {c} : waited'[d] = waited[d] /\ firstErr'[d] = firstErr[d]
  BY <1>0, <1>1 DEF Await, workerVars, TypeOK
<1>3. firstErr[c] \in Nat
  BY <1>0, PoolAssumption DEF TypeOK
<1>4. OutcomeOK(c)
  BY DEF OutcomeInv
<1> HIDE DEF n
<1>5. OutcomeOK(c)'
  <2>1. n = waited[c] + 1 /\ n \in Nat \ {0}
    BY <1>1 DEF n
  <2>2. 1..n = 1..waited[c] \cup {n} /\ 1..(n - 1) = 1..waited[c]
    BY <1>1, <2>1
  <2>3. firstErr'[c] = 0 => \A k \in 1..waited'[c] : done[c][k] = "ok"
    BY <1>2, <1>4, <2>1, <2>2 DEF OutcomeOK
  <2>4. firstErr'[c] # 0 =>
          /\ firstErr'[c] \in 1..waited'[c] /\ done[c][firstErr'[c]] = "err"
          /\ \A k \in 1..(firstErr'[c] - 1) : done[c][k] = "ok"
    <3>1. CASE firstErr[c] # 0
      BY <3>1, <1>2, <1>4, <2>2 DEF OutcomeOK
    <3>2. CASE firstErr[c] = 0
      BY <3>2, <1>2, <1>4, <2>1, <2>2 DEF OutcomeOK
    <3> QED
      BY <3>1, <3>2
  <2> QED
    BY <1>2, <1>4, <2>3, <2>4 DEF OutcomeOK
<1>6. \A d \in Calls \ {c} : OutcomeOK(d)'
  BY <1>2 DEF OutcomeInv, OutcomeOK
<1>7. \A w \in Workers : OutputOK(w)'
  BY <1>2 DEF OutcomeInv, OutputOK, Written
<1> QED
  BY <1>2, <1>5, <1>6, <1>7 DEF OutcomeInv, Written

\* Two tasks at work, or one at work and one in the channel, have buffers apart.
LEMMA FillOutcomes ==
  ASSUME IInv, OutcomeInv, NEW w \in Workers, NEW f \in Funcs \cup {NoFunc, Torn},
         NEW outcome \in {"ok", "err"}, Fill(w, f, outcome),
         f \in IF outcome = "ok" THEN Funcs ELSE {NoFunc, Torn}
  PROVE  OutcomeInv'
<1>0. TypeOK /\ CallInv /\ WorkerInv /\ ChannelInv
  BY DEF IInv
<1> DEFINE c == CallOf(w)
           n == ChunkNo(w)
<1>1. c \in Calls /\ n \in Chunk /\ task[w] = <<c, n>> /\ AtWork(w)
  BY <1>0, HeldTask DEF Fill, AtWork
<1>2. done[c][n] = "none" /\ n <= sent[c]
  BY <1>0, <1>1 DEF WorkerInv, WorkerOK, InFlight
<1>3. /\ UNCHANGED <<done, sent, waited, firstErr, phase, chan, task, lastFn>>
      /\ wstate'[w] = "ran" /\ res'[w] = outcome
      /\ \A v \in Workers \ {w} : wstate'[v] = wstate[v] /\ res'[v] = res[v]
  BY <1>0 DEF Fill, callVars, TypeOK
<1>4. \A d \in Calls, k \in Chunk :
        out'[d][k] = IF d = c /\ k = n THEN f ELSE out[d][k]
  <2>1. out' = [out EXCEPT ![c][n] = f]
    BY DEF Fill
  <2>2. out \in [Calls -> [Chunk -> Funcs \cup {NoFunc, Torn}]]
    BY <1>0 DEF TypeOK
  <2> QED
    BY <1>1, <2>1, <2>2
<1>5. \A t \in Tasks : t # task[w] => Written(t)' = Written(t)
  <2> SUFFICES ASSUME NEW d \in Calls, NEW k \in Chunk, <<d, k>> # task[w]
               PROVE  out'[d][k] = out[d][k]
    BY DEF Tasks, Written
  <2> QED
    BY <1>1, <1>4
<1> HIDE DEF c, n
<1>6. \A d \in Calls : OutcomeOK(d)'
  <2> SUFFICES ASSUME NEW d \in Calls PROVE OutcomeOK(d)'
    OBVIOUS
  <2>1. n \in Nat /\ sent[c] \in Nat
    BY <1>0, <1>1, ChunkType DEF Chunk
  <2>2. \A k \in Chunk : out'[d][k] # out[d][k] => done[d][k] = "none" /\ ~(k > sent[d])
    BY <1>2, <1>4, <2>1
  <2> QED
    BY <1>3, <2>2 DEF OutcomeInv, OutcomeOK
<1>7. ASSUME NEW v \in Workers PROVE OutputOK(v)'
  <2>1. CASE v = w
    <3>1. Written(task[w])' = f
      BY <1>1, <1>3, <1>4 DEF Written
    <3> QED
      BY <2>1, <3>1, <1>3 DEF OutputOK
  <2>2. CASE v # w
    <3>1. AtWork(v) => task[v] \in Tasks /\ task[v] # task[w]
      BY <1>0, <1>1, <2>2, HeldTask DEF ChannelInv
    <3>2. AtWork(v) => Written(task[v])' = Written(task[v])
      BY <1>3, <1>5, <3>1 DEF Written
    <3> QED
      BY <1>3, <2>2, <3>2 DEF OutcomeInv, OutputOK, AtWork
  <2> QED
    BY <2>1, <2>2
<1>8. ASSUME NEW i \in 1..Len(chan), chan[i] # Shutdown PROVE Written(chan[i])' = NoFunc
  <2>1. chan[i] \in Tasks /\ chan[i] # task[w]
    BY <1>0, <1>1, <1>8, Message DEF ChannelInv
  <2>2. Written(chan[i])' = Written(chan[i])
    BY <1>3, <1>5, <2>1 DEF Written
  <2> QED
    BY <1>8, <2>2 DEF OutcomeInv
<1> QED
  BY <1>3, <1>6, <1>7, <1>8 DEF OutcomeInv

\* The outcome that is published is the one of what was written, and of a chunk
\* the call has not looked at.
LEMMA ReportOutcomes ==
  ASSUME IInv, OutcomeInv, NEW w \in Workers, Report(w)
  PROVE  OutcomeInv'
<1>0. TypeOK /\ CallInv /\ WorkerInv
  BY DEF IInv
<1> DEFINE c == CallOf(w)
           n == ChunkNo(w)
<1>1. c \in Calls /\ n \in Chunk /\ task[w] = <<c, n>> /\ AtWork(w)
  BY <1>0, HeldTask DEF Report, AtWork
<1>2. /\ done[c][n] = "none" /\ n <= sent[c] /\ res[w] \in {"ok", "err"}
      /\ out[c][n] \in IF res[w] = "ok" THEN Funcs ELSE {NoFunc, Torn}
  <2>1. wstate[w] = "ran" /\ res[w] \in {"none", "ok", "err"}
    BY <1>0 DEF Report, TypeOK
  <2>2. done[c][n] = "none" /\ n <= sent[c] /\ res[w] # "none"
    BY <1>0, <1>1, <2>1 DEF WorkerInv, WorkerOK, InFlight
  <2>3. Written(task[w]) = out[c][n]
    BY <1>1 DEF Written
  <2>4. out[c][n] \in IF res[w] = "ok" THEN Funcs ELSE {NoFunc, Torn}
    BY <2>1, <2>3 DEF OutcomeInv, OutputOK
  <2> QED
    BY <2>1, <2>2, <2>4
<1>3. /\ UNCHANGED <<out, sent, waited, firstErr, phase, chan, task, lastFn>>
      /\ wstate'[w] = "reported"
      /\ \A v \in Workers \ {w} : wstate'[v] = wstate[v] /\ res'[v] = res[v]
  BY <1>0 DEF Report, callVars, TypeOK
<1>4. \A d \in Calls, k \in Chunk :
        done'[d][k] = IF d = c /\ k = n THEN res[w] ELSE done[d][k]
  <2>1. done' = [done EXCEPT ![c][n] = res[w]]
    BY DEF Report
  <2>2. done \in [Calls -> [Chunk -> {"none", "ok", "err"}]]
    BY <1>0 DEF TypeOK
  <2> QED
    BY <1>1, <2>1, <2>2
<1>5. n \in Nat /\ n \notin 1..waited[c]
  BY <1>0, <1>1, <1>2 DEF CallInv, CallOK, Chunk
<1> HIDE DEF c, n
<1>6. \A d \in Calls : OutcomeOK(d)'
  <2> SUFFICES ASSUME NEW d \in Calls PROVE OutcomeOK(d)'
    OBVIOUS
  <2>1. /\ sent[d] \in Nat /\ waited[d] \in Nat /\ firstErr[d] \in Nat
        /\ 1..waited[d] \subseteq Chunk
    BY <1>0, ChunkType, PoolAssumption DEF TypeOK
  <2>2. \A k \in 1..waited[d] : done'[d][k] = done[d][k]
    BY <1>4, <1>5, <2>1
  <2>3. OutcomeOK(d)
    BY DEF OutcomeInv
  <2>4. firstErr[d] \in 1..waited[d] => \A k \in 1..(firstErr[d] - 1) : k \in 1..waited[d]
    BY <2>1
  <2> QED
    BY <1>2, <1>3, <1>4, <2>2, <2>3, <2>4 DEF OutcomeOK
<1>7. \A v \in Workers : OutputOK(v)'
  BY <1>3 DEF OutcomeInv, OutputOK, Written
<1> QED
  BY <1>3, <1>6, <1>7 DEF OutcomeInv, Written

\* What comes out of the channel has not been written to.
LEMMA RecvOutcomes ==
  ASSUME IInv, OutcomeInv, NEW w \in Workers, RecvTask(w) \/ RecvShutdown(w)
  PROVE  OutcomeInv'
<1>0. TypeOK /\ CallInv /\ WorkerInv
  BY DEF IInv
<1>1. /\ chan # <<>> /\ chan' = Tail(chan)
      /\ UNCHANGED <<done, out, sent, waited, firstErr, phase, res, lastFn>>
  BY DEF RecvTask, RecvShutdown, callVars
<1>2. /\ Len(chan) \in Nat \ {0} /\ Head(chan) = chan[1]
      /\ \A i \in 1..Len(chan') : i + 1 \in 1..Len(chan) /\ chan'[i] = chan[i + 1]
  BY <1>0, <1>1, TailFacts
<1>3. OutputOK(w)'
  <2>1. CASE RecvTask(w)
    <3>1. task'[w] = chan[1] /\ wstate'[w] = "busy" /\ chan[1] # Shutdown
      BY <1>0, <1>2, <2>1 DEF RecvTask, TypeOK
    <3>2. Written(chan[1]) = NoFunc
      BY <1>2, <3>1 DEF OutcomeInv
    <3> QED
      BY <1>1, <3>1, <3>2 DEF OutputOK, Written
  <2>2. CASE RecvShutdown(w)
    BY <1>0, <2>2 DEF RecvShutdown, OutputOK, TypeOK
  <2> QED
    BY <2>1, <2>2
<1>4. \A v \in Workers \ {w} :
        wstate'[v] = wstate[v] /\ task'[v] = task[v]
  BY <1>0 DEF RecvTask, RecvShutdown, TypeOK
<1>5. \A v \in Workers : OutputOK(v)'
  BY <1>1, <1>3, <1>4, OtherOutputsKept
<1>6. \A i \in 1..Len(chan') : chan'[i] # Shutdown => Written(chan'[i]) = NoFunc
  BY <1>2 DEF OutcomeInv
<1> QED
  BY <1>1, <1>5, <1>6, OutcomesKept

\* Steps of a worker at which no buffer and no outcome changes.
LEMMA PlainOutcomes ==
  ASSUME IInv, OutcomeInv, NEW w \in Workers,
         StartOk(w) \/ StartFails(w) \/ Resolve(w) \/ ResolveFails(w) \/ DropTask(w)
         \/ EndInterpreter(w)
  PROVE  OutcomeInv'
<1>0. TypeOK /\ CallInv /\ WorkerInv
  BY DEF IInv
<1>1. UNCHANGED <<done, out, sent, waited, firstErr, phase>>
  BY DEF StartOk, StartFails, Resolve, ResolveFails, DropTask, EndInterpreter, Exit,
         callVars
<1>2. \A v \in Workers \ {w} : /\ wstate'[v] = wstate[v] /\ task'[v] = task[v]
                              /\ res'[v] = res[v] /\ lastFn'[v] = lastFn[v]
  BY <1>0 DEF StartOk, StartFails, Resolve, Remember, ResolveFails, DropTask, EndInterpreter,
              Exit, TypeOK
<1>3. OutputOK(w)'
  <2>1. CASE StartOk(w) \/ StartFails(w) \/ DropTask(w) \/ EndInterpreter(w)
    <3>1. wstate'[w] \in {"idle", "ended"}
      BY <1>0, <2>1 DEF StartOk, StartFails, DropTask, EndInterpreter, Exit, TypeOK
    <3> QED
      BY <3>1 DEF OutputOK
  <2>2. CASE Resolve(w)
    <3>1. wstate[w] = "busy" /\ wstate'[w] = "ready" /\ task' = task
      BY <1>0, <2>2 DEF Resolve, TypeOK
    <3>2. fn[CallOf(w)] \in Funcs
      BY <3>1, <1>0, HeldTask
      DEF AtWork, WorkerInv, WorkerOK, InFlight, CallOf, CallInv, CallOK
    <3>3. lastFn'[w] \in Funcs
      BY <1>0, <2>2, <3>2 DEF Resolve, PointerHit, Remember, TypeOK
    <3> QED
      BY <1>1, <3>1, <3>3 DEF OutcomeInv, OutputOK, Written
  <2>3. CASE ResolveFails(w)
    <3>1. wstate[w] = "busy" /\ wstate'[w] = "ran" /\ task' = task /\ res'[w] = "err"
      BY <1>0, <2>3 DEF ResolveFails, TypeOK
    <3> QED
      BY <1>1, <3>1 DEF OutcomeInv, OutputOK, Written
  <2> QED
    BY <2>1, <2>2, <2>3
<1>4. \A v \in Workers : OutputOK(v)'
  BY <1>1, <1>2, <1>3, OtherOutputsKept
<1>5. chan' = chan \/ chan' = <<>>
  BY DEF StartOk, StartFails, Resolve, ResolveFails, DropTask, EndInterpreter, Exit
<1>6. \A i \in 1..Len(chan') : chan'[i] # Shutdown => Written(chan'[i]) = NoFunc
  BY <1>5 DEF OutcomeInv
<1> QED
  BY <1>1, <1>4, <1>6, OutcomesKept

LEMMA StopOutcomes ==
  ASSUME IInv, OutcomeInv, NEW s \in Stops, LookForPool(s) \/ StopStep(s)
  PROVE  OutcomeInv'
<1>1. UNCHANGED <<callVars, done, out, workerVars>>
  BY DEF LookForPool, StopStep, SendShutdown, Joined
<1>2. CASE chan' = chan
  BY <1>1, <1>2, QuietOutcomes DEF callVars
<1>3. CASE chan' = Append(chan, Shutdown)
  <2>1. \A i \in 1..Len(chan') :
          chan'[i] = Shutdown \/ (i \in 1..Len(chan) /\ chan'[i] = chan[i])
    <3>1. /\ Len(chan') = Len(chan) + 1 /\ Len(chan) \in Nat
          /\ chan'[Len(chan) + 1] = Shutdown
          /\ \A i \in 1..Len(chan) : chan'[i] = chan[i]
      BY <1>3 DEF IInv, TypeOK
    <3> QED
      BY <3>1
  <2>2. \A w \in Workers : OutputOK(w)'
    BY <1>1 DEF OutcomeInv, OutputOK, Written, callVars, workerVars
  <2> QED
    BY <1>1, <2>1, <2>2, OutcomesKept DEF OutcomeInv, callVars
<1> QED
  BY <1>2, <1>3 DEF LookForPool, StopStep, SendShutdown, Joined

\* Every step keeps the outcomes true to the buffers.
LEMMA NextOutcomes ==
  ASSUME IInv, OutcomeInv, [Next]_vars
  PROVE  OutcomeInv'
<1>0. TypeOK
  BY DEF IInv
<1>1. ASSUME NEW c \in Calls, Enter(c) \/ Reject(c) \/ Begin(c) \/ CallStep(c)
      PROVE  OutcomeInv'
  <2>1. CASE Reject(c) \/ Begin(c) \/ SendFails(c) \/ Detach(c) \/ Return(c)
    <3>1. \A d \in Calls : phase'[d] \in Early => phase[d] \in Early
      BY <1>0, <2>1 DEF Reject, Begin, SendFails, Detach, Return, TypeOK, Early
    <3> QED
      BY <2>1, <3>1, QuietOutcomes DEF Reject, Begin, SendFails, Detach, Return
  <2> QED
    BY <1>1, <2>1, EnterOutcomes, SendOutcomes, AwaitOutcomes DEF CallStep
<1>2. ASSUME NEW w \in Workers, WorkerStep(w) PROVE OutcomeInv'
  <2>1. CASE CallElements(w)
    <3>1. lastFn[w] \in Funcs
      BY <2>1 DEF CallElements, Fill, OutcomeInv, OutputOK
    <3> QED
      BY <2>1, <3>1, FillOutcomes DEF CallElements
  <2>2. CASE ElementRaises(w)
    BY <2>2, FillOutcomes DEF ElementRaises
  <2> QED
    BY <1>2, <2>1, <2>2, RecvOutcomes, PlainOutcomes, ReportOutcomes DEF WorkerStep
<1>3. CASE UNCHANGED vars
  BY <1>3, QuietOutcomes DEF vars, callVars
<1> QED
  BY <1>1, <1>2, <1>3, StopOutcomes DEF Next

\* Published outcomes match the buffers, and the error a call keeps is the first.
LEMMA SpecOutcomeInv == Spec => []OutcomeInv
<1>1. IInv /\ OutcomeInv /\ [Next]_vars => OutcomeInv'
  BY NextOutcomes
<1> QED
  BY <1>1, InitOutcomes, SpecIInv, PTL DEF Spec

-----------------------------------------------------------------------------
(* What a call returns                                                     *)

LEMMA NextEnds ==
  ASSUME IInv, OutcomeInv, EndInv, [Next]_vars
  PROVE  EndInv'
<1>0. TypeOK
  BY DEF IInv
<1>1. ASSUME NEW c \in Calls, Enter(c) \/ Reject(c) \/ Begin(c) \/ CallStep(c)
      PROVE  EndInv'
  <2>1. /\ \A d \in Calls \ {c} :
             /\ phase'[d] = phase[d] /\ firstErr'[d] = firstErr[d]
             /\ waited'[d] = waited[d] /\ nchunks'[d] = nchunks[d]
        /\ \/ phase'[c] \notin {"ok", "err"}
           \/ /\ phase'[c] = "err" /\ firstErr'[c] = firstErr[c]
              /\ phase[c] \in {"parse", "dispatch"}
           \/ /\ phase'[c] = (IF firstErr'[c] = 0 THEN "ok" ELSE "err")
              /\ waited'[c] = nchunks'[c]
    BY <1>0, <1>1 DEF Enter, Reject, Begin, CallStep, Send, SendFails, Detach, Await,
                      Return, TypeOK
  <2> QED
    BY <2>1 DEF EndInv, OutcomeInv, OutcomeOK
<1>2. ASSUME UNCHANGED callVars PROVE EndInv'
  BY <1>2 DEF EndInv, callVars
<1>3. ASSUME NEW w \in Workers, WorkerStep(w) PROVE EndInv'
  BY <1>2, <1>3 DEF WorkerStep, StartOk, StartFails, RecvTask, RecvShutdown, Resolve,
       ResolveFails, CallElements, ElementRaises, Fill, Report, DropTask, EndInterpreter,
       Exit
<1>4. ASSUME NEW s \in Stops, LookForPool(s) \/ StopStep(s) PROVE EndInv'
  BY <1>2, <1>4 DEF LookForPool, StopStep, SendShutdown, Joined
<1> QED
  BY <1>1, <1>2, <1>3, <1>4 DEF Next, vars

\* However addresses are used, tasks interleave and workers end: a call that
\* succeeds returns a buffer filled to the end, and one that fails does so after
\* all of its chunks, with the error of the first of them that failed.
THEOREM WholeResults == Spec => []NoPartialResult
<1>1. Init => EndInv
  BY DEF Init, EndInv
<1>2. IInv /\ OutcomeInv /\ EndInv /\ [Next]_vars => EndInv'
  BY NextEnds
<1>3. IInv /\ OutcomeInv /\ EndInv => NoPartialResult
  <2> SUFFICES ASSUME IInv, OutcomeInv, EndInv, NEW c \in Calls
               PROVE  /\ phase[c] = "ok" => \A k \in 1..nchunks[c] : out[c][k] \in Funcs
                      /\ phase[c] = "err" /\ firstErr[c] # 0 =>
                           /\ \A k \in 1..nchunks[c] : done[c][k] # "none"
                           /\ done[c][firstErr[c]] = "err"
                           /\ \A k \in 1..(firstErr[c] - 1) : out[c][k] \in Funcs
    BY DEF NoPartialResult
  <2>1. OutcomeOK(c) /\ CallOK(c) /\ 1..waited[c] \subseteq Chunk /\ waited[c] \in Nat
    BY ChunkType DEF IInv, OutcomeInv, CallInv
  <2>2. \A k \in 1..waited[c] : done[c][k] = "ok" => out[c][k] \in Funcs
    BY <2>1 DEF OutcomeOK
  <2>3. firstErr[c] \in 1..waited[c] => \A k \in 1..(firstErr[c] - 1) : k \in 1..waited[c]
    BY <2>1
  <2> QED
    BY <2>1, <2>2, <2>3 DEF EndInv, OutcomeOK, CallOK
<1> QED
  BY <1>1, <1>2, <1>3, SpecIInv, SpecOutcomeInv, PTL DEF Spec

-----------------------------------------------------------------------------
(* The steps of the contract, call by call                                 *)

\* What the contract sees of a call has not changed.
Same(c) == UNCHANGED <<Verdict(c), nchunks[c], Good(c), Bad(c), firstErr[c]>>

\* Numbers that are the same for every call are the same.
LEMMA SameNumbers ==
  ASSUME TypeOK, TypeOK'
  PROVE  /\ (\A d \in Calls : nchunks'[d] = nchunks[d]) => nchunks' = nchunks
         /\ (\A d \in Calls : firstErr'[d] = firstErr[d]) => firstErr' = firstErr
<1>1. /\ nchunks \in [Calls -> 0..MaxLen] /\ nchunks' \in [Calls -> 0..MaxLen]
      /\ firstErr \in [Calls -> 0..MaxLen] /\ firstErr' \in [Calls -> 0..MaxLen]
  BY DEF TypeOK
<1> QED
  BY <1>1

\* Nothing that the contract sees has changed.
LEMMA StutterStep ==
  ASSUME TypeOK, TypeOK', \A c \in Calls : Same(c)
  PROVE  UNCHANGED Contract!contractVars
<1>1. nchunks' = nchunks /\ firstErr' = firstErr
  BY SameNumbers DEF Same
<1> QED
  BY <1>1 DEF Contract!contractVars, Same

\* A step of a running call: the contract's actions on it, each as what it
\* changes of that call.
LEMMA FillStep ==
  ASSUME TypeOK, TypeOK', NEW c \in Calls, Verdict(c) = "running",
         NEW k \in 1..nchunks[c], k \notin Good(c) \cup Bad(c),
         Good(c)' = Good(c) \cup {k},
         UNCHANGED <<Verdict(c), nchunks[c], Bad(c), firstErr[c]>>,
         \A d \in Calls \ {c} : Same(d)
  PROVE  Contract!Fill(c)
<1>0. \A d \in Calls : nchunks'[d] = nchunks[d] /\ firstErr'[d] = firstErr[d]
  BY DEF Same
<1>1. nchunks' = nchunks /\ firstErr' = firstErr
  BY <1>0, SameNumbers
<1>2. [d \in Calls |-> Good(d)]' = [[d \in Calls |-> Good(d)] EXCEPT ![c] = @ \cup {k}]
  BY DEF Same
<1>3. UNCHANGED <<[d \in Calls |-> Verdict(d)], [d \in Calls |-> Bad(d)]>>
  BY DEF Same
<1> QED
  BY <1>1, <1>2, <1>3 DEF Contract!Fill, Contract!Positions

LEMMA RaiseStep ==
  ASSUME TypeOK, TypeOK', NEW c \in Calls, Verdict(c) = "running",
         NEW k \in 1..nchunks[c], k \notin Good(c) \cup Bad(c),
         Bad(c)' = Bad(c) \cup {k},
         UNCHANGED <<Verdict(c), nchunks[c], Good(c), firstErr[c]>>,
         \A d \in Calls \ {c} : Same(d)
  PROVE  Contract!Raise(c)
<1>0. \A d \in Calls : nchunks'[d] = nchunks[d] /\ firstErr'[d] = firstErr[d]
  BY DEF Same
<1>1. nchunks' = nchunks /\ firstErr' = firstErr
  BY <1>0, SameNumbers
<1>2. [d \in Calls |-> Bad(d)]' = [[d \in Calls |-> Bad(d)] EXCEPT ![c] = @ \cup {k}]
  BY DEF Same
<1>3. UNCHANGED <<[d \in Calls |-> Verdict(d)], [d \in Calls |-> Good(d)]>>
  BY DEF Same
<1> QED
  BY <1>1, <1>2, <1>3 DEF Contract!Raise, Contract!Positions

LEMMA BlameStep ==
  ASSUME TypeOK, TypeOK', NEW c \in Calls, Verdict(c) = "running",
         firstErr[c] = 0, NEW k \in Bad(c), 1..(k - 1) \subseteq Good(c),
         firstErr'[c] = k, UNCHANGED <<Verdict(c), nchunks[c], Good(c), Bad(c)>>,
         \A d \in Calls \ {c} : Same(d)
  PROVE  Contract!Blame(c)
<1>0. \A d \in Calls : nchunks'[d] = nchunks[d]
  BY DEF Same
<1>1. nchunks' = nchunks
  BY <1>0, SameNumbers
<1>2. firstErr' = [firstErr EXCEPT ![c] = k]
  BY DEF TypeOK, Same
<1>3. UNCHANGED <<[d \in Calls |-> Verdict(d)], [d \in Calls |-> Good(d)],
                  [d \in Calls |-> Bad(d)]>>
  BY DEF Same
<1> QED
  BY <1>1, <1>2, <1>3 DEF Contract!Blame

\* The call ends, or begins to run: nothing but its status changes, and at the
\* beginning the number of its chunks.
LEMMA StatusStep ==
  ASSUME TypeOK, TypeOK', NEW c \in Calls, NEW to, Verdict(c)' = to,
         UNCHANGED <<Good(c), Bad(c), firstErr[c]>>,
         \A d \in Calls \ {c} : Same(d)
  PROVE  /\ [d \in Calls |-> Verdict(d)]' = [[d \in Calls |-> Verdict(d)] EXCEPT ![c] = to]
         /\ nchunks' = [nchunks EXCEPT ![c] = nchunks'[c]]
         /\ UNCHANGED <<[d \in Calls |-> Good(d)], [d \in Calls |-> Bad(d)], firstErr>>
<1>0. \A d \in Calls : firstErr'[d] = firstErr[d]
  BY DEF Same
<1>1. firstErr' = firstErr
  BY <1>0, SameNumbers
<1>2. \A d \in Calls \ {c} : nchunks'[d] = nchunks[d]
  BY DEF Same
<1>3. nchunks' = [nchunks EXCEPT ![c] = nchunks'[c]]
  BY <1>2 DEF TypeOK
<1> QED
  BY <1>1, <1>3 DEF Same

\* Steps after which fn, outcomes, output and count of errors are the same, and
\* so is every call's phase as the contract sees it.
LEMMA UnseenStep ==
  ASSUME TypeOK, TypeOK', UNCHANGED <<fn, nchunks, firstErr, done, out>>,
         \A c \in Calls : Verdict(c)' = Verdict(c)
  PROVE  UNCHANGED Contract!contractVars
BY StutterStep DEF Same, Good, Bad

-----------------------------------------------------------------------------
(* The simulation                                                          *)

\* Every length an array may have gives a number of chunks the contract allows;
\* the buffer is untouched, so that it is good for no function.
LEMMA BeginSimulated ==
  ASSUME IInv, IInv', NEW c \in Calls, Begin(c)
  PROVE  Contract!Open(c)
<1>0. TypeOK /\ TypeOK' /\ CallInv
  BY DEF IInv
<1>1. /\ UNCHANGED <<done, out, firstErr>> /\ phase[c] = "parse" /\ phase'[c] = "dispatch"
      /\ \A d \in Calls \ {c} : /\ fn'[d] = fn[d] /\ phase'[d] = phase[d]
                                 /\ nchunks'[d] = nchunks[d]
  BY <1>0 DEF Begin, TypeOK
<1>2. Good(c) = {} /\ Good(c)' = {}
  BY <1>0, <1>1, PoolAssumption DEF CallInv, CallOK, Good
<1>3. Verdict(c) = "idle" /\ Verdict(c)' = "running"
  BY <1>1 DEF Verdict
<1>4. \A d \in Calls \ {c} : Same(d)
  BY <1>1 DEF Same, Verdict, Good, Bad
<1>5. Bad(c)' = Bad(c)
  BY <1>1 DEF Bad
<1>6. nchunks'[c] \in 0..MaxLen
  BY <1>0 DEF TypeOK
<1> QED
  BY <1>0, <1>1, <1>2, <1>3, <1>4, <1>5, <1>6, StatusStep DEF Contract!Open

\* A call that is rejected, or finds no worker, keeps no error.
LEMMA RefuseSimulated ==
  ASSUME IInv, IInv', OutcomeInv, NEW c \in Calls, Reject(c) \/ SendFails(c)
  PROVE  Contract!Refuse(c)
<1>0. TypeOK /\ TypeOK' /\ CallInv
  BY DEF IInv
<1>1. /\ UNCHANGED <<fn, nchunks, done, out, firstErr>>
      /\ phase[c] \in {"parse", "dispatch"} /\ phase'[c] = "err"
      /\ \A d \in Calls \ {c} : phase'[d] = phase[d]
  BY <1>0 DEF Reject, SendFails, TypeOK
<1>2. firstErr[c] = 0
  BY <1>1 DEF OutcomeInv, OutcomeOK
<1>3. Verdict(c) \in {"idle", "running"} /\ Verdict(c)' = "refused"
  BY <1>1, <1>2 DEF Verdict
<1>4. \A d \in Calls \ {c} : Same(d)
  BY <1>1 DEF Same, Verdict, Good, Bad
<1>5. UNCHANGED <<Good(c), Bad(c)>>
  BY <1>1 DEF Good, Bad
<1> QED
  BY <1>0, <1>1, <1>2, <1>3, <1>4, <1>5, StatusStep DEF Contract!Refuse

\* wait_for_tasks takes the outcomes in the order of the chunks.
LEMMA AwaitSimulated ==
  ASSUME IInv, IInv', OutcomeInv, NEW c \in Calls, Await(c)
  PROVE  Contract!Blame(c) \/ UNCHANGED Contract!contractVars
<1>0. TypeOK /\ TypeOK' /\ CallInv
  BY DEF IInv
<1> DEFINE n == waited[c] + 1
<1>1. n \in Chunk /\ waited[c] \in Nat
  <2>1. waited[c] < nchunks[c] /\ nchunks[c] <= MaxLen /\ MaxLen \in Nat
        /\ waited[c] \in Nat /\ nchunks[c] \in Nat
    BY <1>0, ChunkType, PoolAssumption DEF Await
  <2> QED
    BY <2>1 DEF Chunk
<1>2. UNCHANGED <<fn, nchunks, done, out, phase>> /\ phase[c] = "wait"
  BY DEF Await
<1>3. CASE done[c][n] = "err" /\ firstErr[c] = 0
  <2>1. firstErr' = [firstErr EXCEPT ![c] = n]
    BY <1>3 DEF Await
  <2>2. firstErr'[c] = n /\ \A d \in Calls \ {c} : firstErr'[d] = firstErr[d]
    BY <1>0, <2>1 DEF TypeOK
  <2>3. n \in Bad(c)
    BY <1>1, <1>3 DEF Bad
  <2>4. \A k \in 1..waited[c] : k \in Chunk /\ done[c][k] = "ok"
    BY <1>0, <1>3, ChunkType DEF OutcomeInv, OutcomeOK
  <2>5. \A k \in 1..waited[c] : out[c][k] \in Funcs
    BY <2>4 DEF OutcomeInv, OutcomeOK
  <2>6. \A k \in 1..waited[c] : k \in Good(c)
    BY <2>4, <2>5 DEF Good
  <2>7. n - 1 = waited[c]
    BY <1>1
  <2>8. Verdict(c) = "running" /\ UNCHANGED <<Verdict(c), nchunks[c], Good(c), Bad(c)>>
    BY <1>2 DEF Verdict, Good, Bad
  <2>9. \A d \in Calls \ {c} : Same(d)
    BY <1>2, <2>2 DEF Same, Verdict, Good, Bad
  <2> HIDE DEF n
  <2> QED
    BY <1>0, <1>3, <2>2, <2>3, <2>6, <2>7, <2>8, <2>9, BlameStep
<1>4. CASE ~(done[c][n] = "err" /\ firstErr[c] = 0)
  <2>1. firstErr' = firstErr
    BY <1>4 DEF Await
  <2>2. \A d \in Calls : Verdict(d)' = Verdict(d)
    BY <1>2, <2>1 DEF Verdict
  <2> QED
    BY <1>0, <1>2, <2>1, <2>2, UnseenStep
<1> QED
  BY <1>3, <1>4

\* A call returns when it has seen every outcome.
LEMMA ReturnSimulated ==
  ASSUME IInv, IInv', OutcomeInv, NEW c \in Calls, Return(c)
  PROVE  Contract!Succeed(c) \/ Contract!Fail(c)
<1>0. TypeOK /\ TypeOK' /\ CallInv /\ OutcomeOK(c)
  BY DEF IInv, OutcomeInv
<1>1. /\ UNCHANGED <<fn, nchunks, done, out, firstErr>>
      /\ phase[c] = "wait" /\ waited[c] = nchunks[c] /\ sent[c] = nchunks[c]
      /\ phase'[c] = IF firstErr[c] = 0 THEN "ok" ELSE "err"
      /\ \A d \in Calls \ {c} : phase'[d] = phase[d]
  BY <1>0 DEF Return, TypeOK, CallInv, CallOK
<1>2. \A d \in Calls \ {c} : Same(d)
  BY <1>1 DEF Same, Verdict, Good, Bad
<1>3. UNCHANGED <<Good(c), Bad(c), nchunks[c]>>
  BY <1>1 DEF Good, Bad
<1>4. Verdict(c) = "running"
  BY <1>1 DEF Verdict
<1>6. 1..nchunks[c] \subseteq Chunk /\ \A k \in Chunk : k \in 1..nchunks[c] \/ k > sent[c]
  BY <1>0, <1>1, ChunkType DEF Chunk
<1>7. \A k \in Chunk : k \in Good(c) \cup Bad(c) => k \in 1..nchunks[c]
  <2> SUFFICES ASSUME NEW k \in Chunk, k > sent[c] PROVE k \notin Good(c) \cup Bad(c)
    BY <1>6
  <2> QED
    BY <1>0, PoolAssumption DEF Good, Bad, OutcomeOK, CallInv, CallOK
<1>8. \A k \in 1..nchunks[c] : k \in Good(c) \cup Bad(c)
  <2> SUFFICES ASSUME NEW k \in 1..nchunks[c] PROVE done[c][k] \in {"ok", "err"}
    BY <1>0, <1>6 DEF Good, Bad, OutcomeOK
  <2>1. done[c][k] \in {"none", "ok", "err"}
    <3>1. done[c] \in [Chunk -> {"none", "ok", "err"}]
      BY <1>0 DEF TypeOK
    <3>2. k \in Chunk
      BY <1>6
    <3> QED
      BY <3>1, <3>2
  <2>2. k \in 1..waited[c]
    BY <1>1
  <2>3. done[c][k] # "none"
    BY <1>0, <2>2 DEF CallInv, CallOK
  <2> QED
    BY <2>1, <2>3
<1>9. Good(c) \cup Bad(c) = 1..nchunks[c]
  BY <1>7, <1>8 DEF Good, Bad
<1>10. CASE firstErr[c] = 0
  <2>1. \A k \in 1..nchunks[c] : k \in Good(c)
    BY <1>0, <1>1, <1>6, <1>10 DEF Good, OutcomeOK
  <2>2. Good(c) = 1..nchunks[c]
    BY <2>1, <1>9
  <2>3. Verdict(c)' = "ok"
    BY <1>1, <1>10 DEF Verdict
  <2> QED
    BY <1>0, <1>1, <1>2, <1>3, <1>4, <2>2, <2>3, StatusStep
    DEF Contract!Succeed, Contract!Positions
<1>11. CASE firstErr[c] # 0
  <2>1. Verdict(c)' = "failed"
    BY <1>1, <1>11 DEF Verdict
  <2> QED
    BY <1>0, <1>1, <1>2, <1>3, <1>4, <1>9, <1>11, <2>1, StatusStep
    DEF Contract!Fail, Contract!Positions
<1> QED
  BY <1>10, <1>11

\* What a worker at work has in its hands, as the contract sees it.
LEMMA AtChunk ==
  ASSUME IInv, NEW w \in Workers, AtWork(w)
  PROVE  /\ CallOf(w) \in Calls /\ ChunkNo(w) \in Chunk
         /\ task[w] = <<CallOf(w), ChunkNo(w)>>
         /\ Verdict(CallOf(w)) = "running" /\ ChunkNo(w) \in 1..nchunks[CallOf(w)]
         /\ done[CallOf(w)][ChunkNo(w)] = "none"
<1>0. TypeOK /\ CallInv /\ WorkerInv
  BY DEF IInv
<1>1. CallOf(w) \in Calls /\ ChunkNo(w) \in Chunk /\ task[w] = <<CallOf(w), ChunkNo(w)>>
  BY <1>0, HeldTask
<1>2. /\ phase[CallOf(w)] \in {"dispatch", "wait"} /\ ChunkNo(w) <= sent[CallOf(w)]
      /\ done[CallOf(w)][ChunkNo(w)] = "none"
  BY <1>0, <1>1 DEF WorkerInv, WorkerOK, InFlight, Active
<1>3. ChunkNo(w) \in 1..nchunks[CallOf(w)]
  <2>1. sent[CallOf(w)] <= nchunks[CallOf(w)]
    BY <1>0, <1>1 DEF CallInv, CallOK
  <2> QED
    BY <1>0, <1>1, <1>2, <2>1, ChunkType DEF Chunk
<1> QED
  BY <1>1, <1>2, <1>3 DEF Verdict

\* The buffer of one chunk is filled, for the first time, with the results of
\* a function; or an element raised, which nobody sees yet.
LEMMA FillSimulated ==
  ASSUME IInv, IInv', OutcomeInv, NEW w \in Workers,
         CallElements(w) \/ ElementRaises(w)
  PROVE  (\E c \in Calls : Contract!Fill(c)) \/ UNCHANGED Contract!contractVars
<1>0. TypeOK /\ TypeOK'
  BY DEF IInv
<1>1. wstate[w] = "ready" /\ AtWork(w)
  BY DEF CallElements, ElementRaises, Fill, AtWork
<1>2. PICK c \in Calls, n \in Chunk : c = CallOf(w) /\ n = ChunkNo(w) /\ task[w] = <<c, n>>
  BY <1>1, AtChunk
<1>3. /\ Verdict(c) = "running" /\ n \in 1..nchunks[c]
      /\ done[c][n] = "none"
  BY <1>1, <1>2, AtChunk
<1>4. out[c][n] = NoFunc
  <2>1. Written(task[w]) = out[c][n]
    BY <1>2 DEF Written
  <2> QED
    BY <1>1, <2>1 DEF OutcomeInv, OutputOK
<1>5. UNCHANGED <<fn, nchunks, firstErr, phase, done>>
      /\ \E g : out' = [out EXCEPT ![c][n] = g]
  BY <1>2 DEF CallElements, ElementRaises, Fill, callVars
<1>6. lastFn[w] \in Funcs
  BY <1>1 DEF OutcomeInv, OutputOK
<1>7. Torn \notin Funcs /\ NoFunc \notin Funcs
  BY PoolAssumption
<1>8. \A d \in Calls : Verdict(d)' = Verdict(d) /\ Bad(d)' = Bad(d)
  BY <1>5 DEF Verdict, Bad
<1>9. out \in [Calls -> [Chunk -> Funcs \cup {NoFunc, Torn}]]
  BY <1>0 DEF TypeOK
<1>10. CASE CallElements(w)
  <2>1. out' = [out EXCEPT ![c][n] = lastFn[w]]
    BY <1>2, <1>10 DEF CallElements, Fill
  <2>2. \A d \in Calls, k \in Chunk :
          out'[d][k] = IF d = c /\ k = n THEN lastFn[w] ELSE out[d][k]
    BY <1>3, <1>9, <2>1
  <2>3. Good(c)' = Good(c) \cup {n}
    BY <1>6, <2>2 DEF Good
  <2>4. \A d \in Calls \ {c} : Same(d)
    BY <1>5, <1>8, <2>2 DEF Same, Good
  <2>5. n \notin Good(c) \cup Bad(c)
    BY <1>3, <1>4, <1>7 DEF Good, Bad
  <2>6. Contract!Fill(c)
    BY <1>0, <1>3, <1>5, <1>8, <2>3, <2>4, <2>5, FillStep
  <2> QED
    BY <1>3, <2>6
<1>11. CASE ElementRaises(w)
  <2>1. out' = [out EXCEPT ![c][n] = Torn]
    BY <1>2, <1>11 DEF ElementRaises, Fill
  <2>2. \A d \in Calls, k \in Chunk :
          out'[d][k] = IF d = c /\ k = n THEN Torn ELSE out[d][k]
    BY <1>3, <1>9, <2>1
  <2>3. Good(c)' = Good(c)
    BY <1>4, <1>5, <1>7, <2>2 DEF Good
  <2>4. \A d \in Calls \ {c} : Good(d)' = Good(d)
    BY <1>5, <2>2 DEF Good
  <2>5. \A d \in Calls : Same(d)
    BY <1>5, <1>8, <2>3, <2>4 DEF Same
  <2> QED
    BY <1>0, <2>5, StutterStep
<1> QED
  BY <1>10, <1>11

\* An outcome that is an error is news, one that is not was seen in the buffer.
LEMMA ReportSimulated ==
  ASSUME IInv, IInv', OutcomeInv, NEW w \in Workers, Report(w)
  PROVE  (\E c \in Calls : Contract!Raise(c)) \/ UNCHANGED Contract!contractVars
<1>0. TypeOK /\ TypeOK'
  BY DEF IInv
<1>1. wstate[w] = "ran" /\ AtWork(w)
  BY DEF Report, AtWork
<1>2. PICK c \in Calls, n \in Chunk : c = CallOf(w) /\ n = ChunkNo(w) /\ task[w] = <<c, n>>
  BY <1>1, AtChunk
<1>3. /\ Verdict(c) = "running" /\ n \in 1..nchunks[c]
      /\ done[c][n] = "none"
  BY <1>1, <1>2, AtChunk
<1>4. out[c][n] \in IF res[w] = "ok" THEN Funcs ELSE {NoFunc, Torn}
  <2>1. Written(task[w]) = out[c][n]
    BY <1>2 DEF Written
  <2> QED
    BY <1>1, <1>2, <2>1 DEF OutcomeInv, OutputOK
<1>5. UNCHANGED <<fn, nchunks, firstErr, phase, out>>
  BY DEF Report, callVars
<1>6. \A d \in Calls, k \in Chunk :
        done'[d][k] = IF d = c /\ k = n THEN res[w] ELSE done[d][k]
  <2>1. done' = [done EXCEPT ![c][n] = res[w]]
    BY <1>2 DEF Report
  <2>2. done \in [Calls -> [Chunk -> {"none", "ok", "err"}]]
    BY <1>0 DEF TypeOK
  <2> QED
    BY <2>1, <2>2
<1>7. \A d \in Calls : Verdict(d)' = Verdict(d) /\ Good(d)' = Good(d)
  BY <1>5 DEF Verdict, Good
<1>8. \A d \in Calls \ {c} : Bad(d)' = Bad(d)
  BY <1>6 DEF Bad
<1>9. CASE res[w] = "err"
  <2>1. Bad(c)' = Bad(c) \cup {n}
    BY <1>3, <1>6, <1>9 DEF Bad
  <2>2. n \notin Good(c) \cup Bad(c)
    BY <1>3, <1>4, <1>9, PoolAssumption DEF Good, Bad
  <2>3. \A d \in Calls \ {c} : Same(d)
    BY <1>5, <1>7, <1>8 DEF Same
  <2>4. Contract!Raise(c)
    BY <1>0, <1>3, <1>5, <1>7, <2>1, <2>2, <2>3, RaiseStep
  <2> QED
    BY <1>3, <2>4
<1>10. CASE res[w] # "err"
  <2>1. Bad(c)' = Bad(c)
    BY <1>3, <1>6, <1>10 DEF Bad
  <2>2. \A d \in Calls : Same(d)
    BY <1>5, <1>7, <1>8, <2>1 DEF Same
  <2> QED
    BY <1>0, <2>2, StutterStep
<1> QED
  BY <1>9, <1>10

\* The steps the contract does not see.
LEMMA OthersSimulated ==
  ASSUME TypeOK, TypeOK', UNCHANGED <<fn, nchunks, firstErr, done, out>>,
         \A c \in Calls :
           \/ phase'[c] = phase[c]
           \/ phase[c] = "idle" /\ phase'[c] = "parse"
           \/ phase[c] = "dispatch" /\ phase'[c] = "wait"
  PROVE  UNCHANGED Contract!contractVars
<1>1. \A c \in Calls : Verdict(c)' = Verdict(c)
  BY DEF Verdict
<1> QED
  BY <1>1, UnseenStep

LEMMA InitSimulated == Init => Contract!ContractInit
<1> SUFFICES ASSUME Init PROVE Contract!ContractInit
  OBVIOUS
<1>1. \A c \in Calls : Verdict(c) = "idle" /\ Good(c) = {} /\ Bad(c) = {}
  BY PoolAssumption DEF Init, Verdict, Good, Bad
<1> QED
  BY <1>1 DEF Init, Contract!ContractInit

LEMMA NextSimulated ==
  ASSUME IInv, IInv', OutcomeInv, [Next]_vars
  PROVE  [Contract!ContractNext]_Contract!contractVars
<1>0. TypeOK /\ TypeOK'
  BY DEF IInv
<1>1. ASSUME NEW c \in Calls, Enter(c) \/ Reject(c) \/ Begin(c) \/ CallStep(c)
      PROVE  Contract!ContractNext \/ UNCHANGED Contract!contractVars
  <2>1. CASE Enter(c) \/ Send(c) \/ Detach(c)
    <3>1. UNCHANGED <<fn, nchunks, firstErr, done, out>>
      BY <2>1 DEF Enter, Send, Detach
    <3>2. \A d \in Calls :
            \/ phase'[d] = phase[d]
            \/ phase[d] = "idle" /\ phase'[d] = "parse"
            \/ phase[d] = "dispatch" /\ phase'[d] = "wait"
      BY <1>0, <2>1 DEF Enter, Send, Detach, TypeOK
    <3> QED
      BY <1>0, <3>1, <3>2, OthersSimulated
  <2>2. CASE Reject(c) \/ SendFails(c)
    BY <2>2, RefuseSimulated DEF Contract!ContractNext
  <2>3. CASE Begin(c)
    BY <2>3, BeginSimulated DEF Contract!ContractNext
  <2>4. CASE Await(c)
    BY <2>4, AwaitSimulated DEF Contract!ContractNext
  <2>5. CASE Return(c)
    BY <2>5, ReturnSimulated DEF Contract!ContractNext
  <2> QED
    BY <1>1, <2>1, <2>2, <2>3, <2>4, <2>5 DEF CallStep
<1>2. ASSUME NEW w \in Workers, WorkerStep(w)
      PROVE  Contract!ContractNext \/ UNCHANGED Contract!contractVars
  <2>1. CASE CallElements(w) \/ ElementRaises(w)
    BY <2>1, FillSimulated DEF Contract!ContractNext
  <2>2. CASE Report(w)
    BY <2>2, ReportSimulated DEF Contract!ContractNext
  <2>3. CASE StartOk(w) \/ StartFails(w) \/ RecvTask(w) \/ RecvShutdown(w) \/ Resolve(w)
             \/ ResolveFails(w) \/ DropTask(w) \/ EndInterpreter(w)
    <3>1. UNCHANGED <<fn, nchunks, firstErr, done, out, phase>>
      BY <2>3 DEF StartOk, StartFails, RecvTask, RecvShutdown, Resolve, ResolveFails,
                  DropTask, EndInterpreter, Exit, callVars
    <3> QED
      BY <1>0, <3>1, OthersSimulated
  <2> QED
    BY <1>2, <2>1, <2>2, <2>3 DEF WorkerStep
<1>3. ASSUME NEW s \in Stops, LookForPool(s) \/ StopStep(s)
      PROVE  UNCHANGED Contract!contractVars
  <2>1. UNCHANGED <<fn, nchunks, firstErr, done, out, phase>>
    BY <1>3 DEF LookForPool, StopStep, SendShutdown, Joined, callVars
  <2> QED
    BY <1>0, <2>1, OthersSimulated
<1>4. CASE UNCHANGED vars
  <2>1. UNCHANGED <<fn, nchunks, firstErr, done, out, phase>>
    BY <1>4 DEF vars, callVars
  <2> QED
    BY <1>0, <2>1, OthersSimulated
<1> QED
  BY <1>1, <1>2, <1>3, <1>4 DEF Next

\* The worker pool does what a parallel map promises: whatever workers, threads
\* and shutdowns do, a call succeeds only with each chunk filled once and to the
\* end, fails with the error of the earliest failing chunk, and only after every
\* chunk has an outcome; after the return nothing changes any more.
THEOREM ImplementsMapContract == Spec => ImplementsContract
<1>1. IInv /\ IInv' /\ OutcomeInv /\ [Next]_vars
        => [Contract!ContractNext]_Contract!contractVars
  BY NextSimulated
<1> QED
  BY <1>1, InitSimulated, SpecIInv, SpecOutcomeInv, PTL
  DEF Spec, ImplementsContract, Contract!ContractSpec

-----------------------------------------------------------------------------
(* What the caller gets                                                    *)

Caller == INSTANCE MapContractProofs WITH
  Ordered <- TRUE,
  status <- [c \in Calls |-> Verdict(c)],
  size <- nchunks,
  good <- [c \in Calls |-> Good(c)],
  bad <- [c \in Calls |-> Bad(c)],
  blamed <- firstErr

LEMMA SameContract == ImplementsContract => Caller!ContractSpec
<1>1. Contract!ContractInit => Caller!ContractInit
  BY DEF Contract!ContractInit, Caller!ContractInit
<1>2. [Contract!ContractNext]_Contract!contractVars
        => [Caller!ContractNext]_Caller!contractVars
  BY DEF Contract!ContractNext, Caller!ContractNext, Contract!contractVars,
         Caller!contractVars, Contract!Positions, Caller!Positions,
         Contract!Open, Contract!Fill, Contract!Raise, Contract!Blame,
         Contract!Succeed, Contract!Fail, Contract!Refuse,
         Caller!Open, Caller!Fill, Caller!Raise, Caller!Blame,
         Caller!Succeed, Caller!Fail, Caller!Refuse
<1> QED
  BY <1>1, <1>2, PTL DEF ImplementsContract, Contract!ContractSpec, Caller!ContractSpec

\* The theorems about the contract hold of the worker pool: a call returns all of
\* its chunks, each filled to the end, or the first error in chunk order.
THEOREM PromiseKept == Spec => []Caller!Promise
BY ImplementsMapContract, SameContract, Caller!PromiseKept, PTL

\* No worker, thread or shutdown takes an outcome back, or changes what a call has returned.
THEOREM ReturnsAreFinal == Spec => [][Caller!Settled]_Caller!contractVars
BY ImplementsMapContract, SameContract, Caller!ReturnsAreFinal, PTL
=============================================================================
