-------------------------- MODULE WorkerPoolProofs --------------------------
(***************************************************************************)
(* Theorems about WorkerPool, for any number of calls, shutdowns, workers  *)
(* and functions, any chunk count and any channel size.                    *)
(***************************************************************************)
EXTENDS WorkerPool, ChunkingProofs, FiniteSetTheorems

LEMMA ThreadsType == Threads \in Nat \ {0} /\ QueueCap \in Nat
<1>1. Threads \in Nat
  BY PoolAssumption, FS_CardinalityType DEF Threads
<1>2. Threads # 0
  BY PoolAssumption, FS_EmptySet DEF Threads
<1>3. \A x, y \in Nat : x * y \in Nat
  OBVIOUS
<1> QED
  BY <1>1, <1>2, <1>3, ChunkingAssumption DEF QueueCap

\* An array of an admissible length has an admissible number of chunks.
LEMMA ChunkCountType == \A len \in Lens : NumChunks(len, Threads) \in 0..MaxLen
<1> TAKE len \in Lens
<1>1. len \in Nat /\ len <= MaxLen
  BY PoolAssumption
<1>2. NumChunks(len, Threads) \in 0..len
  BY <1>1, ThreadsType, NoMoreChunksThanElements
<1> QED
  BY <1>1, <1>2, PoolAssumption

\* A worker that holds a task holds a chunk of a call.
LEMMA HeldTask ==
  ASSUME TypeOK, WorkerInv, NEW w \in Workers,
         AtWork(w) \/ wstate[w] = "reported"
  PROVE  /\ task[w] \in Tasks /\ task[w] = <<CallOf(w), ChunkNo(w)>>
         /\ CallOf(w) \in Calls /\ ChunkNo(w) \in Chunk
<1>1. task[w] \in Tasks
  BY DEF TypeOK, WorkerInv, WorkerOK
<1> QED
  BY <1>1 DEF Tasks, CallOf, ChunkNo

\* A message of the channel is a Shutdown or a chunk of a call.
LEMMA Message ==
  ASSUME TypeOK, NEW i \in 1..Len(chan)
  PROVE  chan[i] \in Tasks \cup {Shutdown}
BY DEF TypeOK

LEMMA ChunkType == ASSUME TypeOK, NEW c \in Calls
  PROVE /\ 1..sent[c] \subseteq Chunk /\ 1..waited[c] \subseteq Chunk
        /\ sent[c] \in Nat /\ waited[c] \in Nat /\ nchunks[c] \in Nat
        /\ nchunks[c] <= MaxLen
BY PoolAssumption DEF TypeOK, Chunk

-----------------------------------------------------------------------------
(* What a step leaves alone keeps its part of the invariant.               *)

LEMMA CallsKept ==
  ASSUME CallInv, UNCHANGED <<gil, pool, callVars, done>>,
         \A c \in Calls : phase[c] \in {"idle", "parse"} => out'[c] = out[c]
  PROVE  CallInv'
BY DEF CallInv, CallOK, callVars, Active

\* The calls other than the one that steps.
LEMMA OtherCallsKept ==
  ASSUME CallInv, NEW c \in Calls, pool => pool',
         \A d \in Calls \ {c} :
           /\ (gil' = d) <=> (gil = d)
           /\ phase'[d] = phase[d] /\ ctx'[d] = ctx[d] /\ fn'[d] = fn[d]
           /\ nchunks'[d] = nchunks[d] /\ sent'[d] = sent[d]
           /\ waited'[d] = waited[d] /\ sysPath'[d] = sysPath[d],
         done' = done, out' = out, CallOK(c)'
  PROVE  CallInv'
<1> SUFFICES ASSUME NEW d \in Calls PROVE CallOK(d)'
  BY DEF CallInv
<1>1. CASE d = c
  BY <1>1
<1>2. CASE d # c
  BY <1>2 DEF CallInv, CallOK, Active
<1> QED
  BY <1>1, <1>2

\* What is in flight stays so while its call only goes on sending.
LEMMA InFlightKept ==
  ASSUME TypeOK, done' = done,
         \A c \in Calls : Active(c) => Active(c)' /\ sent[c] <= sent'[c],
         sent' \in [Calls -> 0..MaxLen]
  PROVE  \A t \in Tasks : InFlight(t) => InFlight(t)'
<1> SUFFICES ASSUME NEW t \in Tasks, InFlight(t) PROVE InFlight(t)'
  OBVIOUS
<1>1. t[1] \in Calls /\ t[2] \in Nat
  BY DEF Tasks, Chunk
<1>2. sent[t[1]] \in Nat /\ sent'[t[1]] \in Nat
  BY <1>1, PoolAssumption DEF TypeOK
<1> QED
  BY <1>1, <1>2 DEF InFlight

\* A step of a call, or of nobody, that leaves the workers alone.
LEMMA WorkersKept ==
  ASSUME TypeOK, WorkerInv, pool' = pool, UNCHANGED <<workerVars, done>>,
         \A t \in Tasks : InFlight(t) => InFlight(t)'
  PROVE  WorkerInv'
<1> SUFFICES ASSUME NEW w \in Workers PROVE WorkerOK(w)'
  BY DEF WorkerInv
<1>1. WorkerOK(w)
  BY DEF WorkerInv
<1>2. UNCHANGED <<wstate[w], task[w], res[w], done, pool>>
  BY DEF workerVars
<1>3. ASSUME AtWork(w) PROVE InFlight(task[w])'
  <2>1. PICK t \in Tasks : t = task[w]
    BY <1>3, HeldTask
  <2>2. InFlight(t)
    BY <1>1, <1>3, <2>1 DEF WorkerOK
  <2>3. InFlight(t)' /\ t = task'[w]
    BY <1>2, <2>1, <2>2
  <2> QED
    BY <2>3 DEF InFlight, Active
<1> QED
  BY <1>1, <1>2, <1>3 DEF WorkerOK, AtWork, CallOf, ChunkNo

\* The workers other than the one that steps.
LEMMA OtherWorkersKept ==
  ASSUME TypeOK, WorkerInv, NEW w \in Workers, pool' = pool,
         \A v \in Workers \ {w} :
           wstate'[v] = wstate[v] /\ task'[v] = task[v] /\ res'[v] = res[v],
         UNCHANGED <<phase, sent, done>>, WorkerOK(w)'
  PROVE  WorkerInv'
<1> SUFFICES ASSUME NEW v \in Workers PROVE WorkerOK(v)'
  BY DEF WorkerInv
<1>1. CASE v = w
  BY <1>1
<1>2. CASE v # w
  BY <1>2 DEF WorkerInv, WorkerOK, AtWork, CallOf, ChunkNo, InFlight, Active
<1> QED
  BY <1>1, <1>2

\* A step that neither sends nor receives.
LEMMA ChannelKept ==
  ASSUME TypeOK, ChannelInv, UNCHANGED chan,
         Receivers' = {} => chan = <<>>,
         \A v \in Workers : AtWork(v)' => AtWork(v) /\ task'[v] = task[v],
         \A t \in Tasks : InFlight(t) /\ (\E i \in 1..Len(chan) : chan[i] = t)
                            => InFlight(t)'
  PROVE  ChannelInv'
<1>1. ASSUME NEW i \in 1..Len(chan'), chan'[i] # Shutdown
      PROVE  InFlight(chan[i])'
  <2>1. PICK t \in Tasks : t = chan[i]
    BY <1>1, Message
  <2>2. InFlight(t)
    BY <1>1, <2>1 DEF ChannelInv
  <2>3. InFlight(t)' /\ chan'[i] = t
    BY <1>1, <2>1, <2>2
  <2> QED
    BY <2>3 DEF InFlight, Active
<1> QED
  BY <1>1 DEF ChannelInv

-----------------------------------------------------------------------------
LEMMA InitIInv == Init => IInv
<1> SUFFICES ASSUME Init PROVE IInv
  OBVIOUS
<1>1. TypeOK
  <2>1. chan \in Seq(Tasks \cup {Shutdown}) /\ Len(chan) <= QueueCap
    BY ThreadsType DEF Init
  <2>2. stopSent \in [Stops -> 0..Threads]
    BY ThreadsType DEF Init
  <2>3. 0 \in 0..MaxLen
    BY PoolAssumption
  <2>4. /\ done \in [Calls -> [Chunk -> {"none", "ok", "err"}]]
        /\ out \in [Calls -> [Chunk -> Funcs \cup {NoFunc, Torn}]]
    BY DEF Init
  <2> QED
    BY <2>1, <2>2, <2>3, <2>4 DEF Init, TypeOK, CallPhase, WorkerPhase
<1>2. CallInv
  BY PoolAssumption DEF Init, CallInv, CallOK, Active
<1>3. WorkerInv
  BY DEF Init, WorkerInv, WorkerOK, AtWork
<1>4. ChannelInv
  BY DEF Init, ChannelInv, AtWork
<1> QED
  BY <1>1, <1>2, <1>3, <1>4 DEF IInv

LEMMA EnterIInv ==
  ASSUME IInv, NEW c \in Calls, Enter(c)
  PROVE  IInv'
<1>0. TypeOK /\ CallInv /\ WorkerInv /\ ChannelInv
  BY DEF IInv
<1>1. TypeOK'
  BY <1>0 DEF Enter, TypeOK, CallPhase, WorkerPhase, stopVars
<1>2. CallInv'
  <2>1. CallOK(c)'
    BY <1>0, PoolAssumption DEF Enter, CallInv, CallOK, Active, TypeOK, CallPhase
  <2> QED
    BY <1>0, <2>1, OtherCallsKept DEF Enter, TypeOK
<1>3. \A t \in Tasks : InFlight(t) => InFlight(t)'
  BY <1>0, InFlightKept DEF Enter, TypeOK, Active
<1>4. WorkerInv' /\ ChannelInv'
  <2>1. CASE pool
    <3>1. UNCHANGED workerVars
      BY <2>1 DEF Enter, workerVars
    <3>2. WorkerInv'
      BY <1>0, <1>3, <2>1, <3>1, WorkersKept DEF Enter
    <3>3. Receivers' = {} => chan = <<>>
      BY <1>0, <3>1 DEF ChannelInv, Receivers, workerVars
    <3> QED
      BY <1>0, <1>3, <3>1, <3>2, <3>3, ChannelKept DEF Enter, AtWork, workerVars
  <2>2. CASE ~pool
    <3>1. \A w \in Workers : wstate[w] = "none" /\ task[w] = NoTask
      BY <1>0, <2>2 DEF WorkerInv, WorkerOK, AtWork
    <3>2. \A w \in Workers : wstate'[w] = "starting" /\ task'[w] = NoTask
      BY <2>2, <3>1 DEF Enter
    <3>3. WorkerInv'
      BY <3>2 DEF Enter, WorkerInv, WorkerOK, AtWork
    <3>4. chan = <<>> /\ chan' = <<>>
      BY <1>0, <3>1 DEF Enter, ChannelInv, Receivers
    <3>5. ChannelInv'
      BY <3>2, <3>4 DEF ChannelInv, AtWork
    <3> QED
      BY <3>3, <3>5
  <2> QED
    BY <2>1, <2>2
<1> QED
  BY <1>1, <1>2, <1>4 DEF IInv

LEMMA RejectIInv ==
  ASSUME IInv, NEW c \in Calls, Reject(c)
  PROVE  IInv'
<1>0. TypeOK /\ CallInv /\ WorkerInv /\ ChannelInv
  BY DEF IInv
<1>1. TypeOK'
  BY <1>0 DEF Reject, TypeOK, CallPhase, workerVars, stopVars
<1>2. CallInv'
  <2>1. CallOK(c)'
    BY <1>0, PoolAssumption DEF Reject, CallInv, CallOK, Active, TypeOK, CallPhase
  <2> QED
    BY <1>0, <2>1, OtherCallsKept DEF Reject, TypeOK
<1>3. \A t \in Tasks : InFlight(t) => InFlight(t)'
  BY <1>0, InFlightKept DEF Reject, TypeOK, Active
<1>4. WorkerInv'
  BY <1>0, <1>3, WorkersKept DEF Reject
<1>5. ChannelInv'
  BY <1>0, <1>3, ChannelKept
     DEF Reject, ChannelInv, Receivers, AtWork, workerVars
<1> QED
  BY <1>1, <1>2, <1>4, <1>5 DEF IInv

LEMMA BeginIInv ==
  ASSUME IInv, NEW c \in Calls, Begin(c)
  PROVE  IInv'
<1>0. TypeOK /\ CallInv /\ WorkerInv /\ ChannelInv
  BY DEF IInv
<1>1. TypeOK'
  <2>1. nchunks' \in [Calls -> 0..MaxLen]
    BY <1>0, ChunkCountType DEF Begin, TypeOK
  <2>2. /\ fn' \in [Calls -> Funcs \cup {NoFunc}]
        /\ ctx' \in [Calls -> Addrs \cup {NoAddr}]
        /\ sysPath' \in [Calls -> Paths \cup {NoPaths}]
    BY <1>0 DEF Begin, TypeOK, FreeAddrs
  <2> QED
    BY <1>0, <2>1, <2>2 DEF Begin, TypeOK, CallPhase, workerVars, stopVars
<1>2. CallInv'
  <2>1. sent[c] = 0 /\ waited[c] = 0
    BY <1>0, ChunkType DEF Begin, CallInv, CallOK
  <2>2. nchunks'[c] \in Nat
    BY <1>1 DEF TypeOK
  <2>3. fn'[c] \in Funcs /\ ctx'[c] \in Addrs /\ sysPath'[c] \in Paths
    BY <1>0 DEF Begin, TypeOK, FreeAddrs
  <2>4. phase'[c] = "dispatch" /\ gil' = c /\ pool'
    BY <1>0 DEF Begin, CallInv, CallOK, TypeOK
  <2>5. CallOK(c)'
    BY <1>0, <2>1, <2>2, <2>3, <2>4 DEF Begin, CallInv, CallOK
  <2>6. \A d \in Calls \ {c} : gil' # d /\ gil # d
    BY PoolAssumption DEF Begin
  <2> QED
    BY <1>0, <2>5, <2>6, OtherCallsKept DEF Begin, TypeOK
<1>3. \A t \in Tasks : InFlight(t) => InFlight(t)'
  BY <1>0, InFlightKept DEF Begin, TypeOK, Active
<1>4. WorkerInv'
  BY <1>0, <1>3, WorkersKept DEF Begin
<1>5. ChannelInv'
  BY <1>0, <1>3, ChannelKept
     DEF Begin, ChannelInv, Receivers, AtWork, workerVars
<1> QED
  BY <1>1, <1>2, <1>4, <1>5 DEF IInv

\* The new task is in flight and, being the next of its call, nowhere else yet.
LEMMA SendIInv ==
  ASSUME IInv, NEW c \in Calls, Send(c)
  PROVE  IInv'
<1>0. TypeOK /\ CallInv /\ WorkerInv /\ ChannelInv
  BY DEF IInv
<1>1. sent[c] + 1 \in Chunk /\ sent[c] + 1 \in 0..MaxLen
  <2>1. sent[c] < nchunks[c] /\ nchunks[c] <= MaxLen /\ MaxLen \in Nat
        /\ sent[c] \in Nat /\ nchunks[c] \in Nat
    BY <1>0, ChunkType, PoolAssumption DEF Send
  <2> QED
    BY <2>1 DEF Chunk
<1>2. PICK new \in Tasks : new = <<c, sent[c] + 1>>
  BY <1>1 DEF Tasks
<1>3. TypeOK'
  <2>1. chan' \in Seq(Tasks \cup {Shutdown}) /\ Len(chan') <= QueueCap
    BY <1>0, <1>2, ThreadsType DEF Send, TypeOK
  <2>2. sent' \in [Calls -> 0..MaxLen]
    BY <1>0, <1>1 DEF Send, TypeOK
  <2> QED
    BY <1>0, <2>1, <2>2 DEF Send, TypeOK, workerVars, stopVars
<1>4. sent'[c] = sent[c] + 1 /\ \A d \in Calls \ {c} : sent'[d] = sent[d]
  BY <1>0 DEF Send, TypeOK
<1>5. CallInv'
  <2>1. CallOK(c)
    BY <1>0 DEF CallInv
  <2>2. sent'[c] <= nchunks[c] /\ waited[c] <= sent'[c]
    BY <1>0, <1>4, <2>1, ChunkType DEF Send, CallOK
  <2>3. \A k \in Chunk : k > sent'[c] => k > sent[c]
    BY <1>0, <1>4, ChunkType DEF Chunk
  <2>4. CallOK(c)'
    BY <2>1, <2>2, <2>3 DEF Send, CallOK, Active
  <2> QED
    BY <1>0, <1>4, <2>4, OtherCallsKept DEF Send
<1>6. \A t \in Tasks : InFlight(t) => InFlight(t)'
  <2>1. \A d \in Calls : Active(d) => Active(d)' /\ sent[d] <= sent'[d]
    BY <1>0, <1>4, ChunkType DEF Send, Active
  <2>2. done' = done /\ sent' \in [Calls -> 0..MaxLen]
    BY <1>3 DEF Send, TypeOK
  <2> QED
    BY <1>0, <2>1, <2>2, InFlightKept
<1>7. WorkerInv'
  BY <1>0, <1>6, WorkersKept DEF Send
<1>8. ~InFlight(new) /\ InFlight(new)'
  <2>1. new[1] = c /\ new[2] = sent[c] + 1
    BY <1>2
  <2>2. ~InFlight(new)
    BY <1>0, <2>1, ChunkType DEF InFlight
  <2>3. done[c][sent[c] + 1] = "none"
    BY <1>0, <1>1, ChunkType DEF CallInv, CallOK
  <2>4. sent[c] + 1 <= sent'[c]
    BY <1>0, <1>4, ChunkType
  <2>5. Active(c)' /\ done' = done
    BY DEF Send, Active
  <2> QED
    BY <2>1, <2>2, <2>3, <2>4, <2>5 DEF InFlight, Active
<1>9. ChannelInv'
  <2>1. /\ Len(chan') = Len(chan) + 1 /\ Len(chan) \in Nat
        /\ chan'[Len(chan) + 1] = new
        /\ \A i \in 1..Len(chan) : chan'[i] = chan[i]
    BY <1>0, <1>2 DEF Send, TypeOK
  <2>2. \A i \in 1..Len(chan) : chan[i] # new
    BY <1>0, <1>8, MessageAssumption DEF ChannelInv
  <2>3. \A w \in Workers : AtWork(w) => task[w] # new
    BY <1>0, <1>8 DEF WorkerInv, WorkerOK
  <2>4. /\ \A w \in Workers : AtWork(w)' = AtWork(w) /\ task'[w] = task[w]
        /\ Receivers' = Receivers
    BY DEF Send, workerVars, AtWork, Receivers
  <2>5. ASSUME NEW i \in 1..Len(chan'), chan'[i] # Shutdown
        PROVE  InFlight(chan[i])'
    <3>1. PICK t \in Tasks : t = chan'[i] /\ InFlight(t)'
      <4>1. CASE i = Len(chan) + 1
        BY <1>8, <2>1, <4>1
      <4>2. CASE i \in 1..Len(chan)
        <5>1. PICK t \in Tasks : t = chan[i]
          BY <1>0, <2>1, <2>5, <4>2, Message
        <5>2. InFlight(t)
          BY <1>0, <2>1, <2>5, <4>2, <5>1 DEF ChannelInv
        <5> QED
          BY <1>6, <2>1, <4>2, <5>1, <5>2
      <4> QED
        BY <2>1, <4>1, <4>2
    <3> QED
      BY <3>1 DEF InFlight, Active
  <2>6. \A i, j \in 1..Len(chan') :
          chan'[i] = chan'[j] => i = j \/ chan'[i] = Shutdown
    BY <1>0, <2>1, <2>2 DEF ChannelInv
  <2>7. \A w \in Workers, i \in 1..Len(chan') : AtWork(w)' => chan'[i] # task'[w]
    BY <1>0, <2>1, <2>3, <2>4 DEF ChannelInv
  <2>8. Receivers' # {}
    BY <2>4 DEF Send
  <2>9. \A v, w \in Workers :
          AtWork(v)' /\ AtWork(w)' /\ task'[v] = task'[w] => v = w
    BY <1>0, <2>4 DEF ChannelInv
  <2> QED
    BY <2>5, <2>6, <2>7, <2>8, <2>9 DEF ChannelInv
<1> QED
  BY <1>3, <1>5, <1>7, <1>9 DEF IInv

\* Without receivers the channel is empty and no worker holds a task, so the
\* call may free its buffers at once.
LEMMA SendFailsIInv ==
  ASSUME IInv, NEW c \in Calls, SendFails(c)
  PROVE  IInv'
<1>0. TypeOK /\ CallInv /\ WorkerInv /\ ChannelInv
  BY DEF IInv
<1>1. TypeOK'
  BY <1>0 DEF SendFails, TypeOK, CallPhase, workerVars, stopVars
<1>2. CallInv'
  <2>1. CallOK(c)'
    BY <1>0, PoolAssumption DEF SendFails, CallInv, CallOK, Active, TypeOK
  <2>2. \A d \in Calls \ {c} : gil' # d /\ gil # d
    BY <1>0, PoolAssumption DEF SendFails, CallInv, CallOK
  <2> QED
    BY <1>0, <2>1, <2>2, OtherCallsKept DEF SendFails, TypeOK
<1>3. chan = <<>> /\ \A w \in Workers : ~AtWork(w)
  BY <1>0 DEF SendFails, ChannelInv, Receivers, AtWork
<1>4. chan' = <<>> /\ \A w \in Workers : ~AtWork(w)'
  BY <1>3 DEF SendFails, AtWork, workerVars
<1>5. WorkerInv'
  BY <1>0, <1>3, <1>4 DEF SendFails, workerVars, WorkerInv, WorkerOK, CallOf, ChunkNo
<1>6. ChannelInv'
  BY <1>4 DEF ChannelInv
<1> QED
  BY <1>1, <1>2, <1>5, <1>6 DEF IInv

LEMMA DetachIInv ==
  ASSUME IInv, NEW c \in Calls, Detach(c)
  PROVE  IInv'
<1>0. TypeOK /\ CallInv /\ WorkerInv /\ ChannelInv
  BY DEF IInv
<1>1. TypeOK'
  BY <1>0 DEF Detach, TypeOK, CallPhase, workerVars, stopVars
<1>2. CallInv'
  <2>1. CallOK(c)'
    BY <1>0, PoolAssumption DEF Detach, CallInv, CallOK, Active, TypeOK
  <2>2. \A d \in Calls \ {c} : gil' # d /\ gil # d
    BY <1>0, PoolAssumption DEF Detach, CallInv, CallOK
  <2> QED
    BY <1>0, <2>1, <2>2, OtherCallsKept DEF Detach, TypeOK
<1>3. \A t \in Tasks : InFlight(t) => InFlight(t)'
  BY <1>0, InFlightKept DEF Detach, TypeOK, Active
<1>4. WorkerInv'
  BY <1>0, <1>3, WorkersKept DEF Detach
<1>5. ChannelInv'
  BY <1>0, <1>3, ChannelKept
     DEF Detach, ChannelInv, Receivers, AtWork, workerVars
<1> QED
  BY <1>1, <1>2, <1>4, <1>5 DEF IInv

LEMMA AwaitIInv ==
  ASSUME IInv, NEW c \in Calls, Await(c)
  PROVE  IInv'
<1>0. TypeOK /\ CallInv /\ WorkerInv /\ ChannelInv
  BY DEF IInv
<1>1. waited[c] \in Nat /\ waited[c] + 1 \in 0..MaxLen
      /\ waited[c] + 1 <= nchunks[c] /\ nchunks[c] = sent[c]
  BY <1>0, ChunkType, PoolAssumption DEF Await, CallInv, CallOK
<1>2. TypeOK'
  <2>1. waited' \in [Calls -> 0..MaxLen] /\ firstErr' \in [Calls -> 0..MaxLen]
    BY <1>0, <1>1 DEF Await, TypeOK
  <2> QED
    BY <1>0, <2>1 DEF Await, TypeOK, workerVars, stopVars
<1>3. waited'[c] = waited[c] + 1 /\ \A d \in Calls \ {c} : waited'[d] = waited[d]
  BY <1>0 DEF Await, TypeOK
<1>4. CallInv'
  <2>1. CallOK(c)
    BY <1>0 DEF CallInv
  <2>2. \A k \in 1..waited'[c] : done[c][k] # "none"
    BY <1>1, <1>3, <2>1 DEF Await, CallOK
  <2>3. CallOK(c)'
    BY <1>1, <1>3, <2>1, <2>2 DEF Await, CallOK, Active
  <2> QED
    BY <1>0, <1>3, <2>3, OtherCallsKept DEF Await
<1>5. \A t \in Tasks : InFlight(t) => InFlight(t)'
  BY DEF Await, InFlight, Active
<1>6. WorkerInv'
  BY <1>0, <1>5, WorkersKept DEF Await
<1>7. ChannelInv'
  BY <1>0, <1>5, ChannelKept
     DEF Await, ChannelInv, Receivers, AtWork, workerVars
<1> QED
  BY <1>2, <1>4, <1>6, <1>7 DEF IInv

\* The call has seen an outcome for each chunk it sent, so none of its tasks is
\* in flight when it leaves.
LEMMA ReturnIInv ==
  ASSUME IInv, NEW c \in Calls, Return(c)
  PROVE  IInv'
<1>0. TypeOK /\ CallInv /\ WorkerInv /\ ChannelInv
  BY DEF IInv
<1>1. TypeOK'
  BY <1>0 DEF Return, TypeOK, CallPhase, workerVars, stopVars
<1>2. CallInv'
  <2>1. CallOK(c)'
    BY <1>0, PoolAssumption DEF Return, CallInv, CallOK, Active, TypeOK, CallPhase
  <2> QED
    BY <1>0, <2>1, OtherCallsKept DEF Return, TypeOK
<1>3. \A t \in Tasks : InFlight(t) => InFlight(t)'
  <2> SUFFICES ASSUME NEW t \in Tasks, InFlight(t) PROVE InFlight(t)'
    OBVIOUS
  <2>1. t[1] \in Calls /\ t[2] \in Chunk
    BY DEF Tasks
  <2>2. t[1] # c
    <3> SUFFICES ASSUME t[1] = c PROVE FALSE
      OBVIOUS
    <3>1. waited[c] = sent[c] /\ sent[c] \in Nat
      BY <1>0, ChunkType DEF Return, CallInv, CallOK
    <3>2. t[2] \in 1..waited[c]
      BY <2>1, <3>1 DEF InFlight, Chunk
    <3> QED
      BY <1>0, <3>2 DEF InFlight, CallInv, CallOK
  <2> QED
    BY <1>0, <2>1, <2>2 DEF Return, InFlight, Active, TypeOK
<1>4. WorkerInv'
  BY <1>0, <1>3, WorkersKept DEF Return
<1>5. ChannelInv'
  BY <1>0, <1>3, ChannelKept
     DEF Return, ChannelInv, Receivers, AtWork, workerVars
<1> QED
  BY <1>1, <1>2, <1>4, <1>5 DEF IInv

-----------------------------------------------------------------------------
(* The workers                                                             *)

LEMMA StartOkIInv ==
  ASSUME IInv, NEW w \in Workers, StartOk(w)
  PROVE  IInv'
<1>0. TypeOK /\ CallInv /\ WorkerInv /\ ChannelInv
  BY DEF IInv
<1>1. wstate'[w] = "idle" /\ \A v \in Workers \ {w} : wstate'[v] = wstate[v]
  BY <1>0 DEF StartOk, TypeOK
<1>2. TypeOK'
  BY <1>0 DEF StartOk, TypeOK, WorkerPhase, callVars, stopVars
<1>3. CallInv'
  BY <1>0, CallsKept DEF StartOk
<1>4. WorkerInv'
  <2>1. WorkerOK(w)'
    BY <1>0, <1>1 DEF StartOk, WorkerInv, WorkerOK, AtWork
  <2> QED
    BY <1>0, <1>1, <2>1, OtherWorkersKept DEF StartOk, callVars
<1>5. ChannelInv'
  <2>1. w \in Receivers'
    BY <1>1 DEF Receivers
  <2>2. \A t \in Tasks : InFlight(t) => InFlight(t)'
    BY DEF StartOk, InFlight, Active, callVars
  <2>3. \A v \in Workers : AtWork(v)' => AtWork(v) /\ task'[v] = task[v]
    BY <1>1 DEF StartOk, AtWork
  <2> QED
    BY <1>0, <2>1, <2>2, <2>3, ChannelKept DEF StartOk
<1> QED
  BY <1>2, <1>3, <1>4, <1>5 DEF IInv

\* A thread that ends holds no task; with the last receiver the channel goes.
LEMMA ExitIInv ==
  ASSUME IInv, NEW w \in Workers, wstate[w] \in {"starting", "ending"}, Exit(w)
  PROVE  IInv'
<1>0. TypeOK /\ CallInv /\ WorkerInv /\ ChannelInv
  BY DEF IInv
<1>1. wstate'[w] = "ended" /\ \A v \in Workers \ {w} : wstate'[v] = wstate[v]
  BY <1>0 DEF Exit, TypeOK
<1>2. TypeOK'
  <2>1. chan' \in Seq(Tasks \cup {Shutdown}) /\ Len(chan') <= QueueCap
    BY <1>0, ThreadsType DEF Exit, TypeOK
  <2> QED
    BY <1>0, <2>1 DEF Exit, TypeOK, WorkerPhase, callVars, stopVars
<1>3. CallInv'
  BY <1>0, CallsKept DEF Exit
<1>4. WorkerInv'
  <2>1. WorkerOK(w)'
    BY <1>0, <1>1 DEF Exit, WorkerInv, WorkerOK, AtWork
  <2> QED
    BY <1>0, <1>1, <2>1, OtherWorkersKept DEF Exit, callVars
<1>5. ChannelInv'
  <2>1. \A t \in Tasks : InFlight(t) => InFlight(t)'
    BY DEF Exit, InFlight, Active, callVars
  <2>2. \A v \in Workers : AtWork(v)' => AtWork(v) /\ task'[v] = task[v]
    BY <1>1 DEF Exit, AtWork
  <2>3. CASE Receivers = {w}
    <3>1. chan' = <<>> /\ Len(chan') = 0
      BY <2>3 DEF Exit
    <3>2. \A u, v \in Workers :
            AtWork(u)' /\ AtWork(v)' /\ task'[u] = task'[v] => u = v
      BY <1>0, <2>2 DEF ChannelInv
    <3> QED
      BY <3>1, <3>2 DEF ChannelInv
  <2>4. CASE Receivers # {w}
    <3>1. chan' = chan
      BY <2>4 DEF Exit
    <3>2. Receivers' = Receivers \ {w} /\ w \in Receivers
      BY <1>1 DEF Receivers
    <3>3. Receivers' = {} => chan = <<>>
      BY <2>4, <3>2
    <3> QED
      BY <1>0, <2>1, <2>2, <3>1, <3>3, ChannelKept
  <2> QED
    BY <2>3, <2>4
<1> QED
  BY <1>2, <1>3, <1>4, <1>5 DEF IInv

\* The tail of a channel without doubles has neither doubles nor the old head.
LEMMA TailFacts ==
  ASSUME TypeOK, chan # <<>>, chan' = Tail(chan)
  PROVE  /\ Len(chan) \in Nat \ {0} /\ Len(chan') = Len(chan) - 1
         /\ Head(chan) = chan[1]
         /\ chan' \in Seq(Tasks \cup {Shutdown}) /\ Len(chan') <= QueueCap
         /\ \A i \in 1..Len(chan') : i + 1 \in 1..Len(chan) /\ chan'[i] = chan[i + 1]
<1>1. chan \in Seq(Tasks \cup {Shutdown}) /\ Len(chan) <= QueueCap
  BY DEF TypeOK
<1> QED
  BY <1>1, ThreadsType

LEMMA RecvTaskIInv ==
  ASSUME IInv, NEW w \in Workers, RecvTask(w)
  PROVE  IInv'
<1>0. TypeOK /\ CallInv /\ WorkerInv /\ ChannelInv
  BY DEF IInv
<1>1. chan # <<>> /\ chan' = Tail(chan)
  BY DEF RecvTask
<1>2. PICK t \in Tasks : t = Head(chan) /\ t = chan[1] /\ t # Shutdown
  <2>1. 1 \in 1..Len(chan)
    BY <1>0, <1>1, TailFacts
  <2> QED
    BY <1>0, <1>1, <2>1, TailFacts, Message DEF RecvTask
<1>3. /\ wstate'[w] = "busy" /\ task'[w] = t
      /\ \A v \in Workers \ {w} : wstate'[v] = wstate[v] /\ task'[v] = task[v]
  BY <1>0, <1>2 DEF RecvTask, TypeOK
<1>4. TypeOK'
  <2>1. task' \in [Workers -> Tasks \cup {NoTask}]
    BY <1>0, <1>2 DEF RecvTask, TypeOK
  <2>2. chan' \in Seq(Tasks \cup {Shutdown}) /\ Len(chan') <= QueueCap
    BY <1>0, <1>1, TailFacts
  <2> QED
    BY <1>0, <2>1, <2>2 DEF RecvTask, TypeOK, WorkerPhase, callVars, stopVars
<1>5. CallInv'
  BY <1>0, CallsKept DEF RecvTask
<1>6. InFlight(t) /\ \A u \in Tasks : InFlight(u) => InFlight(u)'
  <2>1. InFlight(t)
    BY <1>0, <1>1, <1>2, TailFacts DEF ChannelInv
  <2> QED
    BY <2>1 DEF RecvTask, InFlight, Active, callVars
<1>7. WorkerInv'
  <2>1. InFlight(task[w])'
    BY <1>3, <1>6 DEF InFlight, Active
  <2>2. AtWork(w)' /\ task'[w] # NoTask /\ pool
    BY <1>0, <1>2, <1>3, MessageAssumption
       DEF RecvTask, AtWork, WorkerInv, WorkerOK
  <2>3. WorkerOK(w)'
    BY <1>3, <2>1, <2>2 DEF RecvTask, WorkerOK
  <2> QED
    BY <1>0, <1>3, <2>3, OtherWorkersKept DEF RecvTask, callVars
<1>8. ChannelInv'
  <2>1. /\ Len(chan) \in Nat \ {0} /\ Len(chan') = Len(chan) - 1
        /\ \A i \in 1..Len(chan') : i + 1 \in 1..Len(chan) /\ chan'[i] = chan[i + 1]
    BY <1>0, <1>1, TailFacts
  <2>2. ASSUME NEW i \in 1..Len(chan'), chan'[i] # Shutdown
        PROVE  InFlight(chan[i])'
    <3>1. i + 1 \in 1..Len(chan) /\ chan'[i] = chan[i + 1]
      BY <2>1
    <3>2. PICK u \in Tasks : u = chan[i + 1]
      BY <1>0, <2>2, <3>1, Message
    <3>3. InFlight(u)
      BY <1>0, <2>2, <3>1, <3>2 DEF ChannelInv
    <3>4. InFlight(u)' /\ u = chan'[i]
      BY <1>6, <3>1, <3>2, <3>3
    <3> QED
      BY <3>4 DEF InFlight, Active
  <2>3. \A i, j \in 1..Len(chan') :
          chan'[i] = chan'[j] => i = j \/ chan'[i] = Shutdown
    <3> SUFFICES ASSUME NEW i \in 1..Len(chan'), NEW j \in 1..Len(chan'),
                        chan'[i] = chan'[j], chan'[i] # Shutdown
                 PROVE  i = j
      OBVIOUS
    <3>1. chan[i + 1] = chan[j + 1] /\ chan[i + 1] # Shutdown
          /\ i + 1 \in 1..Len(chan) /\ j + 1 \in 1..Len(chan)
      BY <2>1
    <3>2. i + 1 = j + 1
      BY <1>0, <3>1 DEF ChannelInv
    <3> QED
      BY <2>1, <3>2
  <2>4. \A i \in 1..Len(chan') : chan'[i] # t
    <3> SUFFICES ASSUME NEW i \in 1..Len(chan'), chan'[i] = t PROVE FALSE
      OBVIOUS
    <3>1. i + 1 \in 1..Len(chan) /\ chan[i + 1] = chan[1] /\ 1 \in 1..Len(chan)
      BY <1>2, <2>1
    <3>2. i + 1 = 1
      BY <1>0, <1>2, <3>1 DEF ChannelInv
    <3> QED
      BY <2>1, <3>2
  <2>5. \A v \in Workers \ {w} : AtWork(v)' = AtWork(v)
    BY <1>3 DEF AtWork
  <2>6. \A v \in Workers \ {w} : AtWork(v) => task[v] # t
    <3>1. 1 \in 1..Len(chan)
      BY <2>1
    <3> QED
      BY <1>0, <1>2, <3>1 DEF ChannelInv
  <2>7. \A v \in Workers, i \in 1..Len(chan') : AtWork(v)' => chan'[i] # task'[v]
    BY <1>0, <1>3, <2>1, <2>4, <2>5 DEF ChannelInv
  <2>8. \A u, v \in Workers :
          AtWork(u)' /\ AtWork(v)' /\ task'[u] = task'[v] => u = v
    BY <1>0, <1>3, <2>5, <2>6 DEF ChannelInv
  <2>9. Receivers' # {}
    BY <1>3 DEF Receivers
  <2> QED
    BY <2>2, <2>3, <2>7, <2>8, <2>9 DEF ChannelInv
<1> QED
  BY <1>4, <1>5, <1>7, <1>8 DEF IInv

LEMMA RecvShutdownIInv ==
  ASSUME IInv, NEW w \in Workers, RecvShutdown(w)
  PROVE  IInv'
<1>0. TypeOK /\ CallInv /\ WorkerInv /\ ChannelInv
  BY DEF IInv
<1>1. chan # <<>> /\ chan' = Tail(chan)
  BY DEF RecvShutdown
<1>2. wstate'[w] = "ending" /\ \A v \in Workers \ {w} : wstate'[v] = wstate[v]
  BY <1>0 DEF RecvShutdown, TypeOK
<1>3. TypeOK'
  <2>1. chan' \in Seq(Tasks \cup {Shutdown}) /\ Len(chan') <= QueueCap
    BY <1>0, <1>1, TailFacts
  <2> QED
    BY <1>0, <2>1 DEF RecvShutdown, TypeOK, WorkerPhase, callVars, stopVars
<1>4. CallInv'
  BY <1>0, CallsKept DEF RecvShutdown
<1>5. WorkerInv'
  <2>1. WorkerOK(w)'
    BY <1>0, <1>2 DEF RecvShutdown, WorkerInv, WorkerOK, AtWork
  <2> QED
    BY <1>0, <1>2, <2>1, OtherWorkersKept DEF RecvShutdown, callVars
<1>6. ChannelInv'
  <2>1. /\ Len(chan) \in Nat \ {0} /\ Len(chan') = Len(chan) - 1
        /\ \A i \in 1..Len(chan') : i + 1 \in 1..Len(chan) /\ chan'[i] = chan[i + 1]
    BY <1>0, <1>1, TailFacts
  <2>2. ASSUME NEW i \in 1..Len(chan'), chan'[i] # Shutdown
        PROVE  InFlight(chan[i])'
    <3>1. i + 1 \in 1..Len(chan) /\ chan'[i] = chan[i + 1]
      BY <2>1
    <3>2. PICK u \in Tasks : u = chan[i + 1] /\ InFlight(u)
      BY <1>0, <2>2, <3>1, Message DEF ChannelInv
    <3> QED
      BY <3>1, <3>2 DEF RecvShutdown, InFlight, Active, callVars
  <2>3. \A i, j \in 1..Len(chan') :
          chan'[i] = chan'[j] => i = j \/ chan'[i] = Shutdown
    <3> SUFFICES ASSUME NEW i \in 1..Len(chan'), NEW j \in 1..Len(chan'),
                        chan'[i] = chan'[j], chan'[i] # Shutdown
                 PROVE  i = j
      OBVIOUS
    <3>1. chan[i + 1] = chan[j + 1] /\ chan[i + 1] # Shutdown
          /\ i + 1 \in 1..Len(chan) /\ j + 1 \in 1..Len(chan)
      BY <2>1
    <3>2. i + 1 = j + 1
      BY <1>0, <3>1 DEF ChannelInv
    <3> QED
      BY <2>1, <3>2
  <2>4. \A v \in Workers : AtWork(v)' => AtWork(v) /\ task'[v] = task[v]
    BY <1>2 DEF RecvShutdown, AtWork
  <2>5. \A v \in Workers, i \in 1..Len(chan') : AtWork(v)' => chan'[i] # task'[v]
    BY <1>0, <2>1, <2>4 DEF ChannelInv
  <2>6. \A u, v \in Workers :
          AtWork(u)' /\ AtWork(v)' /\ task'[u] = task'[v] => u = v
    BY <1>0, <2>4 DEF ChannelInv
  <2>7. Receivers' # {}
    BY <1>2 DEF Receivers
  <2> QED
    BY <2>2, <2>3, <2>5, <2>6, <2>7 DEF ChannelInv
<1> QED
  BY <1>3, <1>4, <1>5, <1>6 DEF IInv

\* A step of one worker on its task, up to and with the publication.
LEMMA OnTaskIInv ==
  ASSUME TypeOK, CallInv, WorkerInv, ChannelInv, TypeOK', CallInv',
         NEW w \in Workers, AtWork(w),
         UNCHANGED <<pool, chan, callVars, task>>,
         wstate'[w] \in {"ready", "ran", "reported"},
         \A v \in Workers \ {w} : wstate'[v] = wstate[v] /\ res'[v] = res[v],
         wstate'[w] = "ran" => res'[w] # "none",
         IF wstate'[w] = "reported"
         THEN /\ done'[CallOf(w)][ChunkNo(w)] # "none"
              /\ \A t \in Tasks : t # task[w] =>
                   done'[t[1]][t[2]] = done[t[1]][t[2]]
         ELSE done' = done
  PROVE  WorkerInv' /\ ChannelInv'
<1>1. \A t \in Tasks : t # task[w] \/ wstate'[w] # "reported" =>
        /\ InFlight(t) => InFlight(t)'
        /\ done[t[1]][t[2]] # "none" => done'[t[1]][t[2]] # "none"
  BY DEF InFlight, Active, callVars
<1>2. \A v \in Workers \ {w} : AtWork(v) => task[v] # task[w]
  BY DEF ChannelInv
<1>3. ASSUME NEW v \in Workers, v # w PROVE WorkerOK(v)'
  <2>1. WorkerOK(v) /\ wstate'[v] = wstate[v] /\ res'[v] = res[v]
        /\ task'[v] = task[v] /\ pool' = pool
    BY <1>3 DEF WorkerInv
  <2>2. CASE AtWork(v)
    <3>1. PICK t \in Tasks : t = task[v] /\ InFlight(t)
      BY <1>3, <2>1, <2>2, HeldTask DEF WorkerOK
    <3>2. InFlight(t)' /\ t = task'[v]
      BY <1>1, <1>2, <1>3, <2>1, <2>2, <3>1
    <3>3. InFlight(task[v])'
      BY <3>2 DEF InFlight, Active
    <3> QED
      BY <2>1, <2>2, <3>3 DEF WorkerOK, AtWork
  <2>3. CASE wstate[v] = "reported"
    <3>1. PICK t \in Tasks : t = task[v] /\ t[1] = CallOf(v) /\ t[2] = ChunkNo(v)
      BY <2>3, HeldTask DEF CallOf, ChunkNo
    <3>2. done[t[1]][t[2]] # "none"
      BY <2>1, <2>3, <3>1 DEF WorkerOK
    <3>3. done'[t[1]][t[2]] # "none"
      <4>1. CASE t = task[w]
        BY <1>1, <3>1, <3>2, <4>1 DEF CallOf, ChunkNo
      <4>2. CASE t # task[w]
        BY <1>1, <3>1, <3>2, <4>2
      <4> QED
        BY <4>1, <4>2
    <3> QED
      BY <2>1, <2>3, <3>1, <3>3 DEF WorkerOK, AtWork, CallOf, ChunkNo
  <2>4. CASE ~AtWork(v) /\ wstate[v] # "reported"
    BY <2>1, <2>4 DEF WorkerOK, AtWork
  <2> QED
    BY <2>2, <2>3, <2>4
<1>4. WorkerOK(w)'
  <2>1. WorkerOK(w) /\ task'[w] = task[w] /\ pool' = pool
    BY DEF WorkerInv
  <2>2. CASE wstate'[w] = "reported"
    BY <2>1, <2>2 DEF WorkerOK, AtWork, CallOf, ChunkNo
  <2>3. CASE wstate'[w] # "reported"
    <3>1. PICK t \in Tasks : t = task[w] /\ InFlight(t)
      BY <2>1, HeldTask DEF WorkerOK
    <3>2. InFlight(t)' /\ t = task'[w]
      BY <1>1, <2>1, <2>3, <3>1
    <3>3. InFlight(task[w])'
      BY <3>2 DEF InFlight, Active
    <3> QED
      BY <2>1, <2>3, <3>3 DEF WorkerOK, AtWork
  <2> QED
    BY <2>2, <2>3
<1>5. WorkerInv'
  BY <1>3, <1>4 DEF WorkerInv
<1>6. ChannelInv'
  <2>1. \A v \in Workers : AtWork(v)' => AtWork(v) /\ task'[v] = task[v]
    BY DEF AtWork
  <2>2. \A t \in Tasks : InFlight(t) /\ (\E i \in 1..Len(chan) : chan[i] = t)
                           => InFlight(t)'
    BY <1>1 DEF ChannelInv
  <2>3. Receivers' # {}
    BY DEF Receivers
  <2> QED
    BY <2>1, <2>2, <2>3, ChannelKept
<1> QED
  BY <1>5, <1>6

\* The list of a call a worker is at is one of Paths, so its entries are too.
LEMMA PathsType ==
  ASSUME TypeOK, CallInv, WorkerInv, NEW w \in Workers, AtWork(w),
         UNCHANGED <<path, lastPath>> \/ PatchPath(w) \/ PatchFails(w)
  PROVE  /\ path' \in [Workers -> SUBSET UNION Paths]
         /\ lastPath' \in [Workers -> Paths \cup {NoPaths}]
<1>1. sysPath[CallOf(w)] \in Paths
  BY HeldTask DEF WorkerInv, WorkerOK, InFlight, CallInv, CallOK, CallOf
<1>2. Missing(w) \subseteq UNION Paths
  BY <1>1 DEF Missing
<1>3. path \in [Workers -> SUBSET UNION Paths]
      /\ lastPath \in [Workers -> Paths \cup {NoPaths}]
  BY DEF TypeOK
<1>4. \A some \in SUBSET Missing(w) : path[w] \cup some \in SUBSET UNION Paths
  BY <1>2, <1>3
<1>5. UNCHANGED path \/ \E some \in SUBSET Missing(w) :
        path' = [path EXCEPT ![w] = path[w] \cup some]
  BY DEF PatchPath, PatchFails
<1>6. UNCHANGED lastPath
      \/ lastPath' = [lastPath EXCEPT ![w] = sysPath[CallOf(w)]]
  BY DEF PatchPath, PatchFails
<1> QED
  BY <1>1, <1>3, <1>4, <1>5, <1>6

LEMMA ResolveIInv ==
  ASSUME IInv, NEW w \in Workers, Resolve(w)
  PROVE  IInv'
<1>0. TypeOK /\ CallInv /\ WorkerInv /\ ChannelInv
  BY DEF IInv
<1>1. AtWork(w) /\ CallOf(w) \in Calls
  BY <1>0, HeldTask DEF Resolve, AtWork
<1>2. TypeOK'
  <2>1. fn[CallOf(w)] \in Funcs
    BY <1>0, <1>1 DEF WorkerInv, WorkerOK, InFlight, CallInv, CallOK, CallOf
  <2>2. cache' \in [Workers -> SUBSET Funcs]
    <3>1. cache' = cache
          \/ cache' = [cache EXCEPT ![w] = cache[w] \cup {fn[CallOf(w)]}]
      BY DEF Resolve
    <3>2. cache \in [Workers -> SUBSET Funcs]
      BY <1>0 DEF TypeOK
    <3>3. cache[w] \cup {fn[CallOf(w)]} \in SUBSET Funcs
      BY <2>1, <3>2
    <3> QED
      BY <3>1, <3>2, <3>3
  <2>3. \/ lastFn' = lastFn /\ lastCtx' = lastCtx
        \/ /\ lastFn' = [lastFn EXCEPT ![w] = fn[CallOf(w)]]
           /\ lastCtx' = [lastCtx EXCEPT ![w] = ctx[CallOf(w)]]
    BY DEF Resolve, Remember
  <2>4. lastFn' \in [Workers -> Funcs \cup {NoFunc}]
    BY <1>0, <2>1, <2>3 DEF TypeOK
  <2>5. lastCtx' \in [Workers -> Addrs \cup {NoAddr}]
    <3>1. ctx[CallOf(w)] \in Addrs \cup {NoAddr}
      BY <1>0, <1>1 DEF TypeOK
    <3> QED
      BY <1>0, <2>3, <3>1 DEF TypeOK
  <2>6. /\ path' \in [Workers -> SUBSET UNION Paths]
        /\ lastPath' \in [Workers -> Paths \cup {NoPaths}]
    BY <1>0, <1>1, PathsType DEF Resolve
  <2> QED
    BY <1>0, <2>2, <2>4, <2>5, <2>6
       DEF Resolve, TypeOK, WorkerPhase, callVars, stopVars
<1>3. CallInv'
  BY <1>0, CallsKept DEF Resolve
<1>4. /\ wstate'[w] = "ready" /\ res' = res
      /\ \A v \in Workers \ {w} : wstate'[v] = wstate[v]
  BY <1>0 DEF Resolve, TypeOK
<1> QED
  BY <1>0, <1>1, <1>2, <1>3, <1>4, OnTaskIInv DEF Resolve, IInv

LEMMA ResolveFailsIInv ==
  ASSUME IInv, NEW w \in Workers, ResolveFails(w)
  PROVE  IInv'
<1>0. TypeOK /\ CallInv /\ WorkerInv /\ ChannelInv
  BY DEF IInv
<1>1. AtWork(w)
  BY DEF ResolveFails, AtWork
<1>2. TypeOK'
  <2>1. /\ path' \in [Workers -> SUBSET UNION Paths]
        /\ lastPath' \in [Workers -> Paths \cup {NoPaths}]
    BY <1>0, <1>1, PathsType DEF ResolveFails
  <2> QED
    BY <1>0, <2>1 DEF ResolveFails, TypeOK, WorkerPhase, callVars, stopVars
<1>3. CallInv'
  BY <1>0, CallsKept DEF ResolveFails
<1>4. /\ wstate'[w] = "ran" /\ res'[w] = "err"
      /\ \A v \in Workers \ {w} : wstate'[v] = wstate[v] /\ res'[v] = res[v]
  BY <1>0 DEF ResolveFails, TypeOK
<1> QED
  BY <1>0, <1>1, <1>2, <1>3, <1>4, OnTaskIInv DEF ResolveFails, IInv

LEMMA FillIInv ==
  ASSUME IInv, NEW w \in Workers, NEW f \in Funcs \cup {NoFunc, Torn},
         NEW outcome \in {"ok", "err"}, Fill(w, f, outcome)
  PROVE  IInv'
<1>0. TypeOK /\ CallInv /\ WorkerInv /\ ChannelInv
  BY DEF IInv
<1>1. AtWork(w) /\ CallOf(w) \in Calls /\ ChunkNo(w) \in Chunk
  BY <1>0, HeldTask DEF Fill, AtWork
<1>2. TypeOK'
  <2>1. out' \in [Calls -> [Chunk -> Funcs \cup {NoFunc, Torn}]]
    BY <1>0, <1>1 DEF Fill, TypeOK
  <2> QED
    BY <1>0, <2>1 DEF Fill, TypeOK, WorkerPhase, callVars, stopVars
<1>3. CallInv'
  <2>1. Active(CallOf(w))
    BY <1>0, <1>1 DEF WorkerInv, WorkerOK, InFlight, CallOf
  <2>2. \A c \in Calls : phase[c] \in {"idle", "parse"} => out'[c] = out[c]
    BY <1>0, <1>1, <2>1 DEF Fill, Active, TypeOK
  <2> QED
    BY <1>0, <2>2, CallsKept DEF Fill
<1>4. /\ wstate'[w] = "ran" /\ res'[w] = outcome
      /\ \A v \in Workers \ {w} : wstate'[v] = wstate[v] /\ res'[v] = res[v]
  BY <1>0 DEF Fill, TypeOK
<1> QED
  BY <1>0, <1>1, <1>2, <1>3, <1>4, OnTaskIInv DEF Fill, IInv

\* The only step that gives a chunk its outcome.
LEMMA ReportIInv ==
  ASSUME IInv, NEW w \in Workers, Report(w)
  PROVE  IInv'
<1>0. TypeOK /\ CallInv /\ WorkerInv /\ ChannelInv
  BY DEF IInv
<1>1. AtWork(w) /\ CallOf(w) \in Calls /\ ChunkNo(w) \in Chunk
      /\ task[w] = <<CallOf(w), ChunkNo(w)>>
  BY <1>0, HeldTask DEF Report, AtWork
<1>2. res[w] \in {"ok", "err"}
  BY <1>0 DEF Report, TypeOK, WorkerInv, WorkerOK
<1>3. InFlight(task[w])
  BY <1>0, <1>1 DEF WorkerInv, WorkerOK
<1>4. /\ done'[CallOf(w)][ChunkNo(w)] = res[w]
      /\ \A c \in Calls, k \in Chunk :
           c # CallOf(w) \/ k # ChunkNo(w) => done'[c][k] = done[c][k]
  BY <1>0, <1>1 DEF Report, TypeOK
<1>5. TypeOK'
  <2>1. done' \in [Calls -> [Chunk -> {"none", "ok", "err"}]]
    BY <1>0, <1>1, <1>2 DEF Report, TypeOK
  <2> QED
    BY <1>0, <2>1 DEF Report, TypeOK, WorkerPhase, callVars, stopVars
<1>6. CallInv'
  <2> SUFFICES ASSUME NEW c \in Calls PROVE CallOK(c)'
    BY DEF CallInv
  <2>1. CallOK(c) /\ UNCHANGED <<gil, pool, callVars, out>>
    BY <1>0 DEF CallInv, Report
  <2>2. \A k \in 1..waited[c] : done'[c][k] # "none"
    BY <1>0, <1>2, <1>4, <2>1, ChunkType DEF CallOK
  <2>3. ChunkNo(w) <= sent[CallOf(w)]
    BY <1>1, <1>3 DEF InFlight
  <2>4. \A k \in Chunk : k > sent[c] => done'[c][k] = "none"
    BY <1>0, <1>1, <1>4, <2>1, <2>3, ChunkType DEF CallOK, Chunk
  <2> QED
    BY <2>1, <2>2, <2>4 DEF CallOK, Active, callVars
<1>7. /\ wstate'[w] = "reported"
      /\ \A v \in Workers \ {w} : wstate'[v] = wstate[v] /\ res'[v] = res[v]
  BY <1>0 DEF Report, TypeOK
<1>8. \A t \in Tasks : t # task[w] => done'[t[1]][t[2]] = done[t[1]][t[2]]
  BY <1>1, <1>4 DEF Tasks
<1>9. UNCHANGED <<pool, chan, callVars, task>>
  BY DEF Report
<1>10. done'[CallOf(w)][ChunkNo(w)] # "none"
  BY <1>2, <1>4
<1> QED
  BY <1>0, <1>1, <1>5, <1>6, <1>7, <1>8, <1>9, <1>10, OnTaskIInv DEF IInv

LEMMA DropTaskIInv ==
  ASSUME IInv, NEW w \in Workers, DropTask(w)
  PROVE  IInv'
<1>0. TypeOK /\ CallInv /\ WorkerInv /\ ChannelInv
  BY DEF IInv
<1>1. /\ wstate'[w] = "idle" /\ task'[w] = NoTask
      /\ \A v \in Workers \ {w} : wstate'[v] = wstate[v] /\ task'[v] = task[v]
  BY <1>0 DEF DropTask, TypeOK
<1>2. TypeOK'
  BY <1>0 DEF DropTask, TypeOK, WorkerPhase, callVars, stopVars
<1>3. CallInv'
  BY <1>0, CallsKept DEF DropTask
<1>4. WorkerInv'
  <2>1. WorkerOK(w)'
    BY <1>0, <1>1 DEF DropTask, WorkerInv, WorkerOK, AtWork
  <2> QED
    BY <1>0, <1>1, <2>1, OtherWorkersKept DEF DropTask, callVars
<1>5. ChannelInv'
  <2>1. w \in Receivers'
    BY <1>1 DEF Receivers
  <2>2. \A t \in Tasks : InFlight(t) => InFlight(t)'
    BY DEF DropTask, InFlight, Active, callVars
  <2>3. \A v \in Workers : AtWork(v)' => AtWork(v) /\ task'[v] = task[v]
    BY <1>1 DEF AtWork
  <2> QED
    BY <1>0, <2>1, <2>2, <2>3, ChannelKept DEF DropTask
<1> QED
  BY <1>2, <1>3, <1>4, <1>5 DEF IInv

-----------------------------------------------------------------------------
(* shutdown_workers                                                        *)

\* A step that changes nothing but a shutdown.
LEMMA StopOnlyIInv ==
  ASSUME IInv, UNCHANGED <<gil, pool, chan, callVars, done, out, workerVars>>,
         stop' \in [Stops -> {"idle", "stopping", "done"}],
         stopSent' \in [Stops -> 0..Threads]
  PROVE  IInv'
BY DEF IInv, TypeOK, CallInv, CallOK, WorkerInv, WorkerOK, ChannelInv, Receivers,
       InFlight, Active, AtWork, CallOf, ChunkNo, callVars, workerVars

LEMMA SendShutdownIInv ==
  ASSUME IInv, NEW s \in Stops, SendShutdown(s)
  PROVE  IInv'
<1>0. TypeOK /\ CallInv /\ WorkerInv /\ ChannelInv
  BY DEF IInv
<1>1. chan' \in Seq(Tasks \cup {Shutdown}) /\ Len(chan') <= QueueCap
  BY <1>0, ThreadsType DEF SendShutdown, TypeOK
<1>2. TypeOK'
  <2>1. stopSent' \in [Stops -> 0..Threads]
    BY <1>0, ThreadsType DEF SendShutdown, TypeOK
  <2> QED
    BY <1>0, <1>1, <2>1 DEF SendShutdown, TypeOK, callVars, workerVars
<1>3. CallInv'
  BY <1>0, CallsKept DEF SendShutdown
<1>4. \A t \in Tasks : InFlight(t) => InFlight(t)'
  BY DEF SendShutdown, InFlight, Active, callVars
<1>5. WorkerInv'
  BY <1>0, <1>4, WorkersKept DEF SendShutdown
<1>6. ChannelInv'
  <2>1. Receivers' = Receivers
        /\ \A w \in Workers : AtWork(w)' = AtWork(w) /\ task'[w] = task[w]
    BY DEF SendShutdown, Receivers, AtWork, workerVars
  <2>2. CASE Receivers = {}
    BY <1>0, <1>4, <2>1, <2>2, ChannelKept DEF SendShutdown, ChannelInv
  <2>3. CASE Receivers # {}
    <3>1. /\ Len(chan') = Len(chan) + 1 /\ Len(chan) \in Nat
          /\ chan'[Len(chan) + 1] = Shutdown
          /\ \A i \in 1..Len(chan) : chan'[i] = chan[i]
      BY <1>0, <2>3 DEF SendShutdown, TypeOK
    <3>2. ASSUME NEW i \in 1..Len(chan'), chan'[i] # Shutdown
          PROVE  InFlight(chan[i])'
      <4>1. i \in 1..Len(chan) /\ chan'[i] = chan[i]
        BY <3>1, <3>2
      <4>2. PICK u \in Tasks : u = chan[i] /\ InFlight(u)
        BY <1>0, <3>2, <4>1, Message DEF ChannelInv
      <4>3. InFlight(u)' /\ u = chan'[i]
        BY <1>4, <4>1, <4>2
      <4> QED
        BY <4>3 DEF InFlight, Active
    <3>3. \A i, j \in 1..Len(chan') :
            chan'[i] = chan'[j] => i = j \/ chan'[i] = Shutdown
      BY <1>0, <3>1 DEF ChannelInv
    <3>4. \A w \in Workers : AtWork(w) => task[w] # Shutdown
      BY <1>0, HeldTask, MessageAssumption
    <3>5. \A w \in Workers, i \in 1..Len(chan') : AtWork(w)' => chan'[i] # task'[w]
      BY <1>0, <2>1, <3>1, <3>4 DEF ChannelInv
    <3>6. \A v, w \in Workers :
            AtWork(v)' /\ AtWork(w)' /\ task'[v] = task'[w] => v = w
      BY <1>0, <2>1 DEF ChannelInv
    <3> QED
      BY <2>1, <2>3, <3>2, <3>3, <3>5, <3>6 DEF ChannelInv
  <2> QED
    BY <2>2, <2>3
<1> QED
  BY <1>2, <1>3, <1>5, <1>6 DEF IInv

-----------------------------------------------------------------------------
LEMMA NextIInv == IInv /\ [Next]_vars => IInv'
<1> SUFFICES ASSUME IInv, [Next]_vars PROVE IInv'
  OBVIOUS
<1>1. ASSUME NEW c \in Calls, Enter(c) \/ Reject(c) \/ Begin(c) \/ CallStep(c)
      PROVE  IInv'
  BY <1>1, EnterIInv, RejectIInv, BeginIInv, SendIInv, SendFailsIInv, DetachIInv,
     AwaitIInv, ReturnIInv DEF CallStep
<1>2. ASSUME NEW w \in Workers, WorkerStep(w) PROVE IInv'
  <2>1. CASE StartFails(w) \/ EndInterpreter(w)
    BY <2>1, ExitIInv DEF StartFails, EndInterpreter
  <2>2. CASE CallElements(w) \/ ElementRaises(w)
    <3>1. lastFn[w] \in Funcs \cup {NoFunc}
      BY DEF IInv, TypeOK
    <3> QED
      BY <2>2, <3>1, FillIInv DEF CallElements, ElementRaises
  <2> QED
    BY <1>2, <2>1, <2>2, StartOkIInv, RecvTaskIInv, RecvShutdownIInv, ResolveIInv,
       ResolveFailsIInv, ReportIInv, DropTaskIInv DEF WorkerStep
<1>3. ASSUME NEW s \in Stops, LookForPool(s) \/ StopStep(s) PROVE IInv'
  <2>1. CASE SendShutdown(s)
    BY <2>1, SendShutdownIInv
  <2>2. CASE LookForPool(s) \/ Joined(s)
    <3>1. stop' \in [Stops -> {"idle", "stopping", "done"}]
          /\ stopSent' \in [Stops -> 0..Threads]
      BY <2>2 DEF IInv, TypeOK, LookForPool, Joined
    <3> QED
      BY <2>2, <3>1, StopOnlyIInv DEF LookForPool, Joined
  <2> QED
    BY <1>3, <2>1, <2>2 DEF StopStep
<1>4. CASE UNCHANGED vars
  BY <1>4, StopOnlyIInv DEF vars, stopVars, IInv, TypeOK
<1> QED
  BY <1>1, <1>2, <1>3, <1>4 DEF Next

LEMMA SpecIInv == Spec => []IInv
BY InitIInv, NextIInv, PTL DEF Spec

\* Every value stays in its set; in particular the channel never holds more
\* than its capacity, whoever sends.
THEOREM TypeCorrect == Spec => []TypeOK
BY SpecIInv, PTL DEF IInv

\* Nobody writes into the buffers of a call that has returned, and no such task
\* waits in the channel: a call returns or fails early only with nothing out.
THEOREM BuffersStayLive == Spec => []BuffersLive
<1>1. IInv => BuffersLive
  <2> SUFFICES ASSUME IInv PROVE BuffersLive
    OBVIOUS
  <2>1. \A w \in Workers : AtWork(w) => Active(CallOf(w))
    BY DEF IInv, WorkerInv, WorkerOK, InFlight, CallOf
  <2>2. \A t \in Queued : Active(t[1])
    BY DEF IInv, ChannelInv, Queued, InFlight
  <2> QED
    BY <2>1, <2>2 DEF BuffersLive
<1> QED
  BY <1>1, SpecIInv, PTL

\* Each slice of a result has at most one place that may write it.
THEOREM SlicesNotShared == Spec => []OneOwner
<1>1. IInv => OneOwner
  <2> SUFFICES ASSUME IInv PROVE OneOwner
    OBVIOUS
  <2>1. \A w \in Workers : AtWork(w) => task[w] \notin Queued
    BY DEF IInv, ChannelInv, Queued
  <2>2. ASSUME NEW t \in Queued \cup {task[w] : w \in {v \in Workers : AtWork(v)}}
        PROVE  done[t[1]][t[2]] = "none"
    BY <2>2 DEF IInv, ChannelInv, WorkerInv, WorkerOK, Queued, InFlight
  <2> QED
    BY <2>1, <2>2 DEF OneOwner, IInv, ChannelInv
<1> QED
  BY <1>1, SpecIInv, PTL

-----------------------------------------------------------------------------
(* No chunk is lost while a worker is left                                 *)

\* The task is in the channel or in a worker's hands.
Somewhere(t) ==
  (\E i \in 1..Len(chan) : chan[i] = t) \/ (\E w \in Workers : task[w] = t)

Safe(t) == InFlight(t) /\ Receivers # {} => Somewhere(t)

LEMMA SafeIsNothingLost ==
  ASSUME TypeOK PROVE (\A t \in Tasks : Safe(t)) <=> NothingLost
<1>1. ASSUME NEW c \in Calls, NEW k \in Chunk
      PROVE  /\ <<c, k>> \in Tasks /\ <<c, k>> # Shutdown /\ <<c, k>> # NoTask
             /\ <<c, k>>[1] = c /\ <<c, k>>[2] = k
  BY MessageAssumption DEF Tasks
<1>2. ASSUME NEW t \in Tasks
      PROVE  Somewhere(t) <=> t \in Queued \cup Held
  BY MessageAssumption DEF Somewhere, Queued, Held
<1>3. ASSUME \A t \in Tasks : Safe(t) PROVE NothingLost
  <2> SUFFICES ASSUME NEW c \in Calls, NEW k \in 1..sent[c], Active(c),
                      done[c][k] = "none", Receivers # {}
               PROVE  <<c, k>> \in Queued \cup Held
    BY DEF NothingLost
  <2>1. k \in Chunk /\ k <= sent[c]
    BY ChunkType
  <2>2. InFlight(<<c, k>>)
    BY <1>1, <2>1 DEF InFlight
  <2> QED
    BY <1>1, <1>2, <1>3, <2>1, <2>2 DEF Safe
<1>4. ASSUME NothingLost, NEW t \in Tasks PROVE Safe(t)
  <2> SUFFICES ASSUME InFlight(t), Receivers # {} PROVE Somewhere(t)
    BY DEF Safe
  <2>1. t[1] \in Calls /\ t[2] \in Chunk /\ t = <<t[1], t[2]>>
    BY DEF Tasks
  <2>2. t[2] \in 1..sent[t[1]]
    BY <2>1, ChunkType DEF InFlight, Chunk
  <2> QED
    BY <1>2, <1>4, <2>1, <2>2 DEF NothingLost, InFlight
<1> QED
  BY <1>3, <1>4

\* A step that puts nothing new in flight and takes nothing away.
LEMMA SafeKept ==
  ASSUME NEW t \in Tasks, Safe(t), InFlight(t)' => InFlight(t),
         Receivers' # {} => Receivers # {},
         UNCHANGED <<chan, task>>
  PROVE  Safe(t)'
BY DEF Safe, Somewhere

LEMMA CallStepSafe ==
  ASSUME IInv, NEW c \in Calls, NEW t \in Tasks, Safe(t),
         Enter(c) \/ Reject(c) \/ Begin(c) \/ CallStep(c)
  PROVE  Safe(t)'
<1>0. TypeOK /\ CallInv /\ WorkerInv
  BY DEF IInv
<1>1. t[1] \in Calls /\ t[2] \in Chunk /\ t = <<t[1], t[2]>> /\ t[2] \in Nat \ {0}
  BY DEF Tasks, Chunk
<1>2. CASE Enter(c)
  <2>1. InFlight(t)' => InFlight(t) /\ pool
    BY <1>0, <1>1, <1>2 DEF Enter, InFlight, Active, TypeOK, CallInv, CallOK
  <2>2. pool => wstate' = wstate
    BY <1>2 DEF Enter
  <2>3. CASE pool
    BY <1>2, <2>1, <2>2, <2>3, SafeKept DEF Enter, Receivers
  <2>4. CASE ~pool
    BY <2>1, <2>4 DEF Safe
  <2> QED
    BY <2>3, <2>4
<1>3. CASE Begin(c)
  <2>1. sent[c] = 0
    BY <1>0, <1>3, ChunkType DEF Begin, CallInv, CallOK
  <2>2. InFlight(t)' => InFlight(t)
    BY <1>0, <1>1, <1>3, <2>1 DEF Begin, InFlight, Active, TypeOK
  <2> QED
    BY <1>3, <2>2, SafeKept DEF Begin, Receivers, workerVars
<1>4. CASE Send(c)
  <2>1. /\ Len(chan') = Len(chan) + 1 /\ Len(chan) \in Nat
        /\ chan'[Len(chan) + 1] = <<c, sent[c] + 1>>
        /\ \A i \in 1..Len(chan) : chan'[i] = chan[i]
    <3>1. sent[c] + 1 \in Chunk
      <4>1. sent[c] < nchunks[c] /\ nchunks[c] <= MaxLen /\ MaxLen \in Nat
            /\ sent[c] \in Nat /\ nchunks[c] \in Nat
        BY <1>0, <1>4, ChunkType, PoolAssumption DEF Send
      <4> QED
        BY <4>1 DEF Chunk
    <3>2. <<c, sent[c] + 1>> \in Tasks
      BY <3>1 DEF Tasks
    <3> QED
      BY <1>0, <1>4, <3>2 DEF Send, TypeOK
  <2>2. sent[t[1]] \in Nat /\ sent'[c] = sent[c] + 1
        /\ \A d \in Calls \ {c} : sent'[d] = sent[d]
    BY <1>0, <1>1, <1>4, ChunkType DEF Send, TypeOK
  <2>3. InFlight(t)' => InFlight(t) \/ t = <<c, sent[c] + 1>>
    BY <1>1, <1>4, <2>2 DEF Send, InFlight, Active
  <2>4. Receivers # {} /\ task' = task
    BY <1>4 DEF Send, workerVars
  <2>5. Somewhere(t) \/ t = <<c, sent[c] + 1>> => Somewhere(t)'
    BY <2>1, <2>4 DEF Somewhere
  <2> QED
    BY <2>3, <2>4, <2>5 DEF Safe
<1>5. CASE Reject(c) \/ SendFails(c) \/ Detach(c) \/ Await(c) \/ Return(c)
  <2>1. InFlight(t)' => InFlight(t)
    BY <1>0, <1>1, <1>5
       DEF Reject, SendFails, Detach, Await, Return, InFlight, Active, TypeOK
  <2>2. UNCHANGED <<chan, workerVars>>
    BY <1>5 DEF Reject, SendFails, Detach, Await, Return
  <2> QED
    BY <2>1, <2>2, SafeKept DEF Receivers, workerVars
<1> QED
  BY <1>2, <1>3, <1>4, <1>5 DEF CallStep

LEMMA WorkerStepSafe ==
  ASSUME IInv, NEW w \in Workers, NEW t \in Tasks, Safe(t), WorkerStep(w)
  PROVE  Safe(t)'
<1>0. TypeOK /\ CallInv /\ WorkerInv
  BY DEF IInv
<1>1. t[1] \in Calls /\ t[2] \in Chunk /\ t = <<t[1], t[2]>>
  BY DEF Tasks
<1>2. CASE StartOk(w) \/ Resolve(w) \/ ResolveFails(w) \/ CallElements(w)
           \/ ElementRaises(w)
  <2>1. UNCHANGED <<chan, task, callVars, done>> /\ w \in Receivers
    BY <1>2 DEF StartOk, Resolve, ResolveFails, CallElements, ElementRaises, Fill,
                Receivers
  <2>2. InFlight(t)' => InFlight(t)
    BY <2>1 DEF InFlight, Active, callVars
  <2> QED
    BY <2>1, <2>2, SafeKept
<1>3. CASE StartFails(w) \/ EndInterpreter(w)
  <2>1. UNCHANGED <<task, callVars, done>> /\ w \in Receivers
        /\ wstate' = [wstate EXCEPT ![w] = "ended"]
        /\ chan' = IF Receivers = {w} THEN <<>> ELSE chan
    BY <1>3 DEF StartFails, EndInterpreter, Exit, Receivers
  <2>2. InFlight(t)' => InFlight(t)
    BY <2>1 DEF InFlight, Active, callVars
  <2>3. Receivers' = Receivers \ {w}
    BY <1>0, <2>1 DEF Receivers, TypeOK
  <2>4. CASE Receivers = {w}
    BY <2>3, <2>4 DEF Safe
  <2>5. CASE Receivers # {w}
    BY <2>1, <2>2, <2>5, SafeKept
  <2> QED
    BY <2>4, <2>5
<1>4. CASE RecvTask(w) \/ RecvShutdown(w)
  <2>1. chan # <<>> /\ chan' = Tail(chan) /\ w \in Receivers
        /\ UNCHANGED <<callVars, done>>
    BY <1>4 DEF RecvTask, RecvShutdown, Receivers
  <2>2. InFlight(t)' => InFlight(t)
    BY <2>1 DEF InFlight, Active, callVars
  <2>3. /\ Len(chan) \in Nat \ {0} /\ Len(chan') = Len(chan) - 1
        /\ Head(chan) = chan[1]
        /\ \A i \in 1..Len(chan') : chan'[i] = chan[i + 1]
    BY <1>0, <2>1, TailFacts
  <2>4. task[w] = NoTask /\ t # Shutdown /\ t # NoTask
    BY <1>0, <1>4, MessageAssumption
       DEF RecvTask, RecvShutdown, WorkerInv, WorkerOK, AtWork
  <2>5. task' = task \/ task' = [task EXCEPT ![w] = Head(chan)]
    BY <1>4 DEF RecvTask, RecvShutdown
  <2>6. ASSUME NEW i \in 1..Len(chan), chan[i] = t PROVE Somewhere(t)'
    <3>1. CASE i = 1
      <4>1. task'[w] = t
        BY <1>0, <1>4, <2>3, <2>4, <2>6, <3>1 DEF RecvTask, RecvShutdown, TypeOK
      <4> QED
        BY <4>1 DEF Somewhere
    <3>2. CASE i # 1
      <4>1. i - 1 \in 1..Len(chan') /\ chan'[i - 1] = chan[(i - 1) + 1]
        BY <2>3, <3>2
      <4>2. chan'[i - 1] = t
        BY <2>6, <4>1
      <4> QED
        BY <4>1, <4>2 DEF Somewhere
    <3> QED
      BY <3>1, <3>2
  <2>7. ASSUME NEW v \in Workers, task[v] = t PROVE Somewhere(t)'
    <3>1. task'[v] = t
      BY <1>0, <2>4, <2>5, <2>7 DEF TypeOK
    <3> QED
      BY <3>1 DEF Somewhere
  <2> QED
    BY <2>1, <2>2, <2>6, <2>7 DEF Safe, Somewhere
<1>5. CASE Report(w)
  <2>1. /\ CallOf(w) \in Calls /\ ChunkNo(w) \in Chunk
        /\ res[w] # "none" /\ w \in Receivers
    BY <1>0, <1>5, HeldTask DEF Report, AtWork, Receivers, WorkerInv, WorkerOK
  <2>2. InFlight(t)' => InFlight(t)
    BY <1>0, <1>1, <1>5, <2>1 DEF Report, InFlight, Active, callVars, TypeOK
  <2> QED
    BY <1>5, <2>1, <2>2, SafeKept DEF Report
<1>6. CASE DropTask(w)
  <2>1. UNCHANGED <<chan, callVars, done>> /\ w \in Receivers
    BY <1>6 DEF DropTask, Receivers
  <2>2. InFlight(t)' => InFlight(t)
    BY <2>1 DEF InFlight, Active, callVars
  <2>3. InFlight(t) => task[w] # t
    BY <1>0, <1>6 DEF DropTask, WorkerInv, WorkerOK, CallOf, ChunkNo, InFlight
  <2>4. \A v \in Workers \ {w} : task'[v] = task[v]
    BY <1>0, <1>6 DEF DropTask, TypeOK
  <2> QED
    BY <2>1, <2>2, <2>3, <2>4 DEF Safe, Somewhere
<1> QED
  BY <1>2, <1>3, <1>4, <1>5, <1>6 DEF WorkerStep

LEMMA StopStepSafe ==
  ASSUME IInv, NEW s \in Stops, NEW t \in Tasks, Safe(t),
         LookForPool(s) \/ StopStep(s)
  PROVE  Safe(t)'
<1>1. UNCHANGED <<callVars, done, workerVars>>
  BY DEF LookForPool, StopStep, SendShutdown, Joined
<1>2. (InFlight(t)' => InFlight(t)) /\ Receivers' = Receivers
  BY <1>1 DEF InFlight, Active, callVars, Receivers, workerVars
<1>3. CASE chan' = chan
  BY <1>1, <1>2, <1>3, SafeKept DEF workerVars
<1>4. CASE chan' = Append(chan, Shutdown)
  <2>1. /\ Len(chan') = Len(chan) + 1 /\ Len(chan) \in Nat
        /\ \A i \in 1..Len(chan) : chan'[i] = chan[i]
    BY <1>4 DEF IInv, TypeOK
  <2> QED
    BY <1>1, <1>2, <2>1 DEF Safe, Somewhere, workerVars
<1> QED
  BY <1>3, <1>4 DEF LookForPool, StopStep, SendShutdown, Joined

\* A chunk that was sent and has no outcome is in the channel or with a worker
\* as long as there is a worker: what wait_for_tasks waits for can still come.
THEOREM NoChunkLost == Spec => []NothingLost
<1> DEFINE AllSafe == \A t \in Tasks : Safe(t)
<1>1. Init => AllSafe
  <2>1. \A t \in Tasks : t[1] \in Calls
    BY DEF Tasks
  <2> QED
    BY <2>1 DEF Init, Safe, InFlight, Active
<1>2. IInv /\ AllSafe /\ [Next]_vars => AllSafe'
  <2> SUFFICES ASSUME IInv, AllSafe, [Next]_vars, NEW t \in Tasks PROVE Safe(t)'
    OBVIOUS
  <2>1. CASE UNCHANGED vars
    BY <2>1, SafeKept
       DEF vars, callVars, workerVars, InFlight, Active, Receivers
  <2>2. CASE Next
    BY <2>2, CallStepSafe, WorkerStepSafe, StopStepSafe DEF Next
  <2> QED
    BY <2>1, <2>2
<1>3. IInv /\ AllSafe => NothingLost
  BY SafeIsNothingLost DEF IInv
<1> HIDE DEF AllSafe
<1> QED
  BY <1>1, <1>2, <1>3, SpecIInv, PTL DEF Spec

-----------------------------------------------------------------------------
(* Which function fills a chunk                                            *)

FunctionInv == CacheInv /\ FunctionOfAddress

\* A step that allocates no context, resolves nothing and fills nothing.
LEMMA FunctionKept ==
  ASSUME FunctionInv, UNCHANGED <<fn, ctx, out, lastFn, lastCtx>>,
         \A w \in Workers : wstate'[w] = "ready" =>
           wstate[w] = "ready" /\ task'[w] = task[w]
  PROVE  FunctionInv'
BY DEF FunctionInv, CacheInv, FunctionOfAddress, FuncsAt, CallOf

\* A context that is allocated at an address adds a function to those the address
\* has had, and takes none from another.
LEMMA BeginFunction ==
  ASSUME IInv, FunctionInv, NEW c \in Calls, Begin(c)
  PROVE  FunctionInv'
<1>0. TypeOK /\ CallInv /\ WorkerInv
  BY DEF IInv
<1>1. PICK f \in Funcs, a \in FreeAddrs :
        fn' = [fn EXCEPT ![c] = f] /\ ctx' = [ctx EXCEPT ![c] = a]
  BY DEF Begin
<1>2. a # NoAddr
  BY PoolAssumption DEF FreeAddrs
<1>3. /\ fn'[c] = f /\ ctx'[c] = a
      /\ \A d \in Calls \ {c} : fn'[d] = fn[d] /\ ctx'[d] = ctx[d]
  BY <1>0, <1>1 DEF TypeOK
<1>4. ctx[c] = NoAddr /\ \A k \in Chunk : out[c][k] = NoFunc
  BY <1>0 DEF Begin, CallInv, CallOK
<1>5. UNCHANGED <<out, workerVars>>
  BY DEF Begin
<1>6. ASSUME NEW b, b # NoAddr, NEW g \in FuncsAt(b)
      PROVE  g \in FuncsAt(b)'
  <2>1. PICK d \in Calls : ctx[d] = b /\ fn[d] = g
    BY <1>6 DEF FuncsAt
  <2>2. ctx'[d] = b /\ fn'[d] = g
    BY <1>3, <1>4, <1>6, <2>1
  <2> QED
    BY <2>2 DEF FuncsAt
<1>7. \A d \in Calls : ctx'[d] = NoAddr => fn'[d] = NoFunc
  BY <1>2, <1>3 DEF FunctionInv, CacheInv
<1>8. ASSUME NEW w \in Workers, lastFn[w] # NoFunc
      PROVE  lastCtx[w] # NoAddr /\ lastFn[w] \in FuncsAt(lastCtx[w])'
  <2>1. lastCtx[w] # NoAddr /\ lastFn[w] \in FuncsAt(lastCtx[w])
    BY <1>8 DEF FunctionInv, CacheInv
  <2>2. PICK d \in Calls : ctx[d] = lastCtx[w] /\ fn[d] = lastFn[w]
    BY <2>1 DEF FuncsAt
  <2>3. ctx'[d] = lastCtx'[w] /\ fn'[d] = lastFn[w]
    BY <1>3, <1>4, <1>5, <2>1, <2>2 DEF workerVars
  <2> QED
    BY <2>1, <2>3 DEF FuncsAt
<1>9. ASSUME NEW w \in Workers, wstate[w] = "ready"
      PROVE  lastFn[w] \in FuncsAt(ctx[CallOf(w)])'
  <2>1. CallOf(w) \in Calls /\ Active(CallOf(w))
    BY <1>0, <1>9, HeldTask DEF AtWork, WorkerInv, WorkerOK, InFlight, CallOf
  <2>2. CallOf(w) # c
    BY <2>1 DEF Begin, Active
  <2>3. ctx[CallOf(w)] # NoAddr
    BY <1>0, <2>1, PoolAssumption DEF CallInv, CallOK
  <2>4. PICK d \in Calls : ctx[d] = ctx[CallOf(w)] /\ fn[d] = lastFn[w]
    BY <1>9 DEF FunctionInv, CacheInv, FuncsAt
  <2>5. CallOf(w)' = CallOf(w)
    BY <1>5 DEF CallOf, workerVars
  <2>6. ctx'[d] = ctx'[CallOf(w)] /\ fn'[d] = lastFn[w]
    BY <1>3, <1>4, <2>1, <2>2, <2>3, <2>4
  <2> QED
    BY <2>5, <2>6 DEF FuncsAt
<1>10. CacheInv'
  BY <1>5, <1>7, <1>8, <1>9 DEF CacheInv, workerVars, FuncsAt
<1>11. ASSUME NEW d \in Calls, NEW k \in Chunk
       PROVE  out'[d][k] \in {NoFunc, Torn} \cup FuncsAt(ctx[d])'
  <2>1. CASE d = c
    BY <1>4, <1>5, <2>1
  <2>2. CASE d # c /\ out[d][k] \notin {NoFunc, Torn}
    <3>1. PICK e \in Calls : ctx[e] = ctx[d] /\ fn[e] = out[d][k]
      BY <2>2 DEF FunctionInv, FunctionOfAddress, FuncsAt
    <3>2. ctx[d] # NoAddr
      BY <2>2, <3>1 DEF FunctionInv, CacheInv
    <3>3. ctx'[e] = ctx'[d] /\ fn'[e] = out'[d][k]
      BY <1>3, <1>4, <1>5, <2>2, <3>1, <3>2
    <3> QED
      BY <3>3 DEF FuncsAt
  <2>3. CASE out[d][k] \in {NoFunc, Torn}
    BY <1>5, <2>3
  <2> QED
    BY <2>1, <2>2, <2>3
<1>12. FunctionOfAddress'
  BY <1>11 DEF FunctionOfAddress
<1> QED
  BY <1>10, <1>12 DEF FunctionInv

\* Where the pointer comparison is decided: a match means a call whose context
\* had the address, no more.
LEMMA ResolveFunction ==
  ASSUME IInv, FunctionInv, NEW w \in Workers, Resolve(w)
  PROVE  FunctionInv'
<1>0. TypeOK /\ CallInv /\ WorkerInv
  BY DEF IInv
<1>1. CallOf(w) \in Calls /\ ctx[CallOf(w)] # NoAddr
  <2>1. CallOf(w) \in Calls /\ Active(CallOf(w))
    BY <1>0, HeldTask DEF Resolve, AtWork, WorkerInv, WorkerOK, InFlight, CallOf
  <2> QED
    BY <1>0, <2>1, PoolAssumption DEF CallInv, CallOK
<1>2. UNCHANGED <<fn, ctx, out, task>>
  BY DEF Resolve, callVars
<1>3. /\ lastFn'[w] \in FuncsAt(ctx[CallOf(w)]) /\ lastCtx'[w] = ctx[CallOf(w)]
      /\ \A v \in Workers \ {w} : lastFn'[v] = lastFn[v] /\ lastCtx'[v] = lastCtx[v]
  <2>1. CASE PointerHit(w) /\ UNCHANGED <<lastFn, lastCtx>>
    BY <2>1 DEF PointerHit, FunctionInv, CacheInv
  <2>2. CASE Remember(w, fn[CallOf(w)])
    BY <1>0, <1>1, <2>2 DEF Remember, TypeOK, FuncsAt
  <2> QED
    BY <2>1, <2>2 DEF Resolve
<1>4. \A v \in Workers \ {w} : wstate'[v] = wstate[v]
  BY <1>0 DEF Resolve, TypeOK
<1>5. CacheInv'
  BY <1>1, <1>2, <1>3, <1>4 DEF FunctionInv, CacheInv, CallOf, FuncsAt
<1>6. FunctionOfAddress'
  BY <1>2 DEF FunctionInv, FunctionOfAddress, FuncsAt
<1> QED
  BY <1>5, <1>6 DEF FunctionInv

LEMMA FillFunction ==
  ASSUME IInv, FunctionInv, NEW w \in Workers, NEW f, NEW outcome,
         f \in {lastFn[w], Torn}, Fill(w, f, outcome)
  PROVE  FunctionInv'
<1>0. TypeOK /\ WorkerInv
  BY DEF IInv
<1>1. CallOf(w) \in Calls /\ ChunkNo(w) \in Chunk
  BY <1>0, HeldTask DEF Fill, AtWork
<1>2. f \in {Torn} \cup FuncsAt(ctx[CallOf(w)])
  BY DEF Fill, FunctionInv, CacheInv
<1>3. UNCHANGED <<fn, ctx, lastFn, lastCtx, task>>
  BY DEF Fill, callVars
<1>4. \A v \in Workers : wstate'[v] = "ready" => wstate[v] = "ready"
  BY <1>0 DEF Fill, TypeOK
<1>5. CacheInv'
  BY <1>3, <1>4 DEF FunctionInv, CacheInv, CallOf, FuncsAt
<1>6. \A c \in Calls, k \in Chunk :
        out'[c][k] = IF c = CallOf(w) /\ k = ChunkNo(w) THEN f ELSE out[c][k]
  BY <1>0, <1>1 DEF Fill, TypeOK
<1>7. FunctionOfAddress'
  BY <1>2, <1>3, <1>6 DEF FunctionInv, FunctionOfAddress, FuncsAt
<1> QED
  BY <1>5, <1>7 DEF FunctionInv

\* The invariant of the caches, whatever addresses the allocator uses again.
LEMMA SpecFunctionInv == Spec => []FunctionInv
<1>1. Init => FunctionInv
  BY DEF Init, FunctionInv, CacheInv, FunctionOfAddress
<1>2. IInv /\ FunctionInv /\ [Next]_vars => FunctionInv'
  <2> SUFFICES ASSUME IInv, FunctionInv, [Next]_vars PROVE FunctionInv'
    OBVIOUS
  <2>0. TypeOK
    BY DEF IInv
  <2>1. ASSUME NEW c \in Calls,
               Enter(c) \/ Reject(c) \/ Begin(c) \/ CallStep(c)
        PROVE  FunctionInv'
    <3>1. CASE Begin(c)
      BY <3>1, BeginFunction
    <3>2. CASE Enter(c)
      BY <3>2, FunctionKept DEF Enter
    <3>3. CASE Reject(c) \/ CallStep(c)
      <4>1. UNCHANGED <<fn, ctx, out, workerVars>>
        BY <3>3 DEF Reject, CallStep, Send, SendFails, Detach, Await, Return
      <4> QED
        BY <4>1, FunctionKept DEF workerVars
    <3> QED
      BY <2>1, <3>1, <3>2, <3>3
  <2>2. ASSUME NEW w \in Workers, WorkerStep(w) PROVE FunctionInv'
    <3>1. CASE Resolve(w)
      BY <3>1, ResolveFunction
    <3>2. CASE CallElements(w) \/ ElementRaises(w)
      BY <3>2, FillFunction DEF CallElements, ElementRaises
    <3>3. CASE StartOk(w) \/ StartFails(w) \/ RecvTask(w) \/ RecvShutdown(w)
               \/ ResolveFails(w) \/ Report(w) \/ DropTask(w)
               \/ EndInterpreter(w)
      <4>1. UNCHANGED <<fn, ctx, out, lastFn, lastCtx>>
        BY <3>3 DEF StartOk, StartFails, RecvTask, RecvShutdown, ResolveFails,
                    Report, DropTask, EndInterpreter, Exit, callVars
      <4>2. PICK to \in WorkerPhase \ {"ready"} :
              wstate' = [wstate EXCEPT ![w] = to]
        BY <3>3 DEF StartOk, StartFails, RecvTask, RecvShutdown, ResolveFails,
                    Report, DropTask, EndInterpreter, Exit, WorkerPhase
      <4>3. \A v \in Workers \ {w} : task'[v] = task[v]
        BY <2>0, <3>3 DEF StartOk, StartFails, RecvTask, RecvShutdown, ResolveFails,
                    Report, DropTask, EndInterpreter, Exit, TypeOK
      <4>4. \A v \in Workers :
              wstate'[v] = "ready" => v # w /\ wstate[v] = "ready"
        BY <2>0, <4>2 DEF TypeOK
      <4> QED
        BY <4>1, <4>3, <4>4, FunctionKept
    <3> QED
      BY <2>2, <3>1, <3>2, <3>3 DEF WorkerStep
  <2>3. ASSUME NEW s \in Stops, LookForPool(s) \/ StopStep(s) PROVE FunctionInv'
    <3>1. UNCHANGED <<fn, ctx, out, workerVars>>
      BY <2>3 DEF LookForPool, StopStep, SendShutdown, Joined, callVars
    <3> QED
      BY <3>1, FunctionKept DEF workerVars
  <2>4. CASE UNCHANGED vars
    BY <2>4, FunctionKept DEF vars, callVars, workerVars
  <2> QED
    BY <2>1, <2>2, <2>3, <2>4 DEF Next
<1> QED
  BY <1>1, <1>2, SpecIInv, PTL DEF Spec

\* Whatever addresses the allocator uses again, a chunk is only ever filled by the
\* function of a call whose context is or was at the address of its own call's.
\* (That it is its own call's function is false: the run pool_ctx_reuse.)
THEOREM FunctionsOfAddresses == Spec => []FunctionOfAddress
<1>1. FunctionInv => FunctionOfAddress
  BY DEF FunctionInv
<1> QED
  BY <1>1, SpecFunctionInv, PTL

-----------------------------------------------------------------------------
(* shutdown_workers sends enough and is final.                             *)

LEMMA CountTypes ==
  ASSUME TypeOK
  PROVE  /\ IsFiniteSet(Shutdowns) /\ Cardinality(Shutdowns) \in Nat
         /\ IsFiniteSet(Leaving) /\ Cardinality(Leaving) \in Nat
         /\ \A s \in Stops : stopSent[s] \in Nat /\ stopSent[s] <= Threads
<1>1. Len(chan) \in Nat
  BY DEF TypeOK
<1>2. IsFiniteSet(1..Len(chan))
  BY <1>1, FS_Interval
<1>3. Shutdowns \in SUBSET (1..Len(chan)) /\ Leaving \in SUBSET Workers
  BY DEF Shutdowns, Leaving
<1>4. IsFiniteSet(Shutdowns) /\ IsFiniteSet(Leaving)
  BY <1>2, <1>3, PoolAssumption, FS_Subset
<1> QED
  BY <1>4, FS_CardinalityType, ThreadsType DEF TypeOK

\* When the last receiver of a pool is gone, every worker has left.
LEMMA AllLeft ==
  ASSUME TypeOK, WorkerInv, pool, Receivers = {}
  PROVE  Leaving = Workers /\ Cardinality(Leaving) = Threads
<1>1. \A w \in Workers : wstate[w] = "ended"
  BY DEF WorkerInv, WorkerOK, Receivers
<1> QED
  BY <1>1 DEF Leaving, Threads

\* A receive takes one Shutdown from the channel, or none.
LEMMA TailShutdowns ==
  ASSUME TypeOK, chan # <<>>, chan' = Tail(chan)
  PROVE  Cardinality(Shutdowns') = IF Head(chan) = Shutdown
                                   THEN Cardinality(Shutdowns) - 1
                                   ELSE Cardinality(Shutdowns)
<1> DEFINE Rest == Shutdowns \ {1}
           shift == [i \in Shutdowns' |-> i + 1]
<1>1. /\ Len(chan) \in Nat \ {0} /\ Len(chan') = Len(chan) - 1
      /\ Head(chan) = chan[1]
      /\ \A i \in 1..Len(chan') : i + 1 \in 1..Len(chan) /\ chan'[i] = chan[i + 1]
  BY TailFacts
<1>2. \A i \in Shutdowns' : i \in Nat /\ i + 1 \in Rest
  BY <1>1 DEF Shutdowns
<1>3. \A j \in Rest : j - 1 \in Shutdowns' /\ (j - 1) + 1 = j
  <2> SUFFICES ASSUME NEW j \in Rest PROVE j - 1 \in Shutdowns' /\ (j - 1) + 1 = j
    OBVIOUS
  <2>1. j \in 1..Len(chan) /\ j # 1 /\ chan[j] = Shutdown
    BY DEF Shutdowns
  <2>2. j - 1 \in 1..Len(chan') /\ (j - 1) + 1 = j
    BY <1>1, <2>1
  <2>3. chan'[j - 1] = chan[(j - 1) + 1]
    BY <1>1, <2>2
  <2> QED
    BY <2>1, <2>2, <2>3 DEF Shutdowns
<1>4. shift \in Bijection(Shutdowns', Rest)
  BY <1>2, <1>3 DEF Bijection, Injection, Surjection, IsInjective
<1>5. Cardinality(Rest) = Cardinality(Shutdowns')
  <2>1. IsFiniteSet(1..Len(chan'))
    BY <1>1, FS_Interval
  <2>2. Shutdowns' \in SUBSET (1..Len(chan'))
    BY DEF Shutdowns
  <2>3. IsFiniteSet(Shutdowns')
    BY <2>1, <2>2, FS_Subset
  <2> QED
    BY <1>4, <2>3, FS_Bijection DEF ExistsBijection
<1>6. Cardinality(Rest) = IF 1 \in Shutdowns THEN Cardinality(Shutdowns) - 1
                                              ELSE Cardinality(Shutdowns)
  BY CountTypes, FS_RemoveElement
<1>7. 1 \in Shutdowns <=> Head(chan) = Shutdown
  BY <1>1 DEF Shutdowns
<1> QED
  BY <1>5, <1>6, <1>7

\* A step of a call or a worker keeps the shutdowns' books if the messages sent
\* stay accounted for and a pool without receivers stays so.
LEMMA StopKept ==
  ASSUME TypeOK, StopInv, UNCHANGED stopVars, pool => pool',
         \A n \in Nat :
           /\ n <= Threads /\ (n # 0 => pool)
           /\ n <= Cardinality(Shutdowns) + Cardinality(Leaving)
           => n <= Cardinality(Shutdowns') + Cardinality(Leaving'),
         pool /\ Receivers = {} => Receivers' = {}
  PROVE  StopInv'
<1> SUFFICES ASSUME NEW s \in Stops PROVE StopOK(s)'
  BY DEF StopInv
<1>1. StopOK(s) /\ stop'[s] = stop[s] /\ stopSent'[s] = stopSent[s]
  BY DEF StopInv, stopVars
<1>2. stopSent[s] \in Nat /\ stopSent[s] <= Threads
  BY CountTypes
<1>3. stopSent[s] <= Cardinality(Shutdowns') + Cardinality(Leaving')
  BY <1>1, <1>2 DEF StopOK
<1>4. stopSent[s] = Threads => pool
  BY <1>1, ThreadsType DEF StopOK
<1> QED
  BY <1>1, <1>3, <1>4 DEF StopOK

\* A step that neither sends nor takes a Shutdown and after which as many
\* workers as before have left.
LEMMA StopUnmoved ==
  ASSUME TypeOK, StopInv, UNCHANGED stopVars, pool => pool',
         Cardinality(Shutdowns') = Cardinality(Shutdowns), Leaving' = Leaving,
         pool /\ Receivers = {} => Receivers' = {}
  PROVE  StopInv'
BY StopKept

LEMMA CallStop ==
  ASSUME IInv, StopInv, NEW c \in Calls,
         Enter(c) \/ Reject(c) \/ Begin(c) \/ CallStep(c)
  PROVE  StopInv'
<1>0. TypeOK /\ WorkerInv
  BY DEF IInv
<1>1. CASE Enter(c)
  <2>1. CASE pool
    <3>1. UNCHANGED <<chan, wstate, pool, stopVars>>
      BY <1>1, <2>1 DEF Enter
    <3>2. UNCHANGED <<Shutdowns, Leaving, Receivers>>
      BY <3>1 DEF Shutdowns, Leaving, Receivers
    <3> QED
      BY <1>0, <3>1, <3>2, StopUnmoved
  <2>2. CASE ~pool
    <3>1. \A w \in Workers : wstate[w] = "none" /\ wstate'[w] = "starting"
      BY <1>0, <1>1, <2>2 DEF WorkerInv, WorkerOK, Enter
    <3>2. Leaving = {} /\ Leaving' = {}
      BY <3>1 DEF Leaving
    <3>3. Shutdowns' = Shutdowns
      BY <1>1 DEF Enter, Shutdowns
    <3> QED
      BY <1>0, <1>1, <2>2, <3>2, <3>3, StopUnmoved DEF Enter
  <2> QED
    BY <2>1, <2>2
<1>2. CASE Send(c)
  <2>1. sent[c] + 1 \in Chunk
    <3>1. sent[c] < nchunks[c] /\ nchunks[c] <= MaxLen /\ MaxLen \in Nat
          /\ sent[c] \in Nat /\ nchunks[c] \in Nat
      BY <1>0, <1>2, ChunkType, PoolAssumption DEF Send
    <3> QED
      BY <3>1 DEF Chunk
  <2>2. PICK new \in Tasks : new = <<c, sent[c] + 1>>
    BY <2>1 DEF Tasks
  <2>3. /\ Len(chan') = Len(chan) + 1 /\ Len(chan) \in Nat
        /\ chan'[Len(chan) + 1] # Shutdown
        /\ \A i \in 1..Len(chan) : chan'[i] = chan[i]
    <3>1. chan' = Append(chan, new) /\ chan \in Seq(Tasks \cup {Shutdown})
      BY <1>0, <1>2, <2>2 DEF Send, TypeOK
    <3>2. new # Shutdown
      BY MessageAssumption
    <3> QED
      BY <3>1, <3>2
  <2>4. Shutdowns' = Shutdowns
    BY <2>3 DEF Shutdowns
  <2>5. UNCHANGED <<wstate, pool, stopVars>>
    BY <1>2 DEF Send, workerVars
  <2>6. UNCHANGED <<Leaving, Receivers>>
    BY <2>5 DEF Leaving, Receivers
  <2> QED
    BY <1>0, <2>4, <2>5, <2>6, StopUnmoved
<1>3. CASE Reject(c) \/ Begin(c) \/ SendFails(c) \/ Detach(c) \/ Await(c) \/ Return(c)
  <2>1. UNCHANGED <<chan, wstate, pool, stopVars>>
    BY <1>3 DEF Reject, Begin, SendFails, Detach, Await, Return, workerVars
  <2>2. UNCHANGED <<Shutdowns, Leaving, Receivers>>
    BY <2>1 DEF Shutdowns, Leaving, Receivers
  <2> QED
    BY <1>0, <2>1, <2>2, StopUnmoved
<1> QED
  BY <1>1, <1>2, <1>3 DEF CallStep

\* The thread that ends is a worker that has left; with the last one the channel
\* goes, but then every worker has left.
LEMMA ExitStop ==
  ASSUME IInv, StopInv, NEW w \in Workers,
         wstate[w] \in {"starting", "ending"}, Exit(w)
  PROVE  StopInv'
<1>0. TypeOK /\ WorkerInv
  BY DEF IInv
<1>1. /\ wstate'[w] = "ended" /\ \A v \in Workers \ {w} : wstate'[v] = wstate[v]
      /\ UNCHANGED <<pool, stopVars>>
  BY <1>0 DEF Exit, TypeOK
<1>2. w \in Receivers /\ Receivers' = Receivers \ {w}
  BY <1>1 DEF Receivers
<1>3. Leaving' = Leaving \cup {w}
  BY <1>1 DEF Leaving
<1>4. /\ IsFiniteSet(Leaving') /\ Cardinality(Leaving') \in Nat
      /\ Cardinality(Leaving) <= Cardinality(Leaving')
  <2>1. IsFiniteSet(Leaving) /\ Cardinality(Leaving) \in Nat
    BY <1>0, CountTypes
  <2>2. IsFiniteSet(Leaving \cup {w})
    BY <2>1, FS_AddElement
  <2> QED
    BY <1>3, <2>1, <2>2, FS_AddElement, FS_CardinalityType, FS_Subset
<1>5. CASE Receivers = {w}
  <2>1. pool
    BY <1>0, <1>2 DEF Receivers, WorkerInv, WorkerOK
  <2>2. \A v \in Workers : wstate'[v] = "ended"
    <3> TAKE v \in Workers
    <3>1. CASE v = w
      BY <1>1, <3>1
    <3>2. CASE v # w
      BY <1>0, <1>1, <1>5, <2>1, <3>2 DEF Receivers, WorkerInv, WorkerOK
    <3> QED
      BY <3>1, <3>2
  <2>3. Leaving' = Workers
    BY <2>2 DEF Leaving
  <2>4. chan' = <<>>
    BY <1>5 DEF Exit
  <2>5. Shutdowns' = {}
    BY <2>4 DEF Shutdowns
  <2>6. Cardinality(Shutdowns') = 0 /\ Cardinality(Leaving') = Threads
    BY <2>3, <2>5, FS_EmptySet DEF Threads
  <2> QED
    BY <1>0, <1>1, <1>2, <2>6, ThreadsType, StopKept
<1>6. CASE Receivers # {w}
  <2>1. Shutdowns' = Shutdowns
    BY <1>6 DEF Exit, Shutdowns
  <2> QED
    BY <1>0, <1>1, <1>2, <1>4, <2>1, CountTypes, StopKept
<1> QED
  BY <1>5, <1>6

LEMMA RecvStop ==
  ASSUME IInv, StopInv, NEW w \in Workers, RecvTask(w) \/ RecvShutdown(w)
  PROVE  StopInv'
<1>0. TypeOK /\ WorkerInv
  BY DEF IInv
<1>1. /\ chan # <<>> /\ chan' = Tail(chan) /\ wstate[w] = "idle"
      /\ UNCHANGED <<pool, stopVars>> /\ w \in Receivers
  BY DEF RecvTask, RecvShutdown, Receivers
<1>2. CASE RecvTask(w)
  <2>1. wstate'[w] = "busy" /\ \A v \in Workers \ {w} : wstate'[v] = wstate[v]
    BY <1>0, <1>2 DEF RecvTask, TypeOK
  <2>2. Leaving' = Leaving
    BY <1>1, <2>1 DEF Leaving
  <2>3. Cardinality(Shutdowns') = Cardinality(Shutdowns)
    BY <1>0, <1>1, <1>2, TailShutdowns DEF RecvTask
  <2> QED
    BY <1>0, <1>1, <2>2, <2>3, StopUnmoved
<1>3. CASE RecvShutdown(w)
  <2>1. wstate'[w] = "ending" /\ \A v \in Workers \ {w} : wstate'[v] = wstate[v]
    BY <1>0, <1>3 DEF RecvShutdown, TypeOK
  <2>2. Leaving' = Leaving \cup {w} /\ w \notin Leaving
    BY <1>1, <2>1 DEF Leaving
  <2>3. Cardinality(Leaving') = Cardinality(Leaving) + 1
    BY <1>0, <2>2, CountTypes, FS_AddElement
  <2>4. Cardinality(Shutdowns') = Cardinality(Shutdowns) - 1
    BY <1>0, <1>1, <1>3, TailShutdowns DEF RecvShutdown
  <2>5. Cardinality(Leaving) \in Nat /\ Cardinality(Shutdowns) \in Nat
    BY <1>0, CountTypes
  <2>6. Cardinality(Shutdowns') + Cardinality(Leaving')
          = Cardinality(Shutdowns) + Cardinality(Leaving)
    BY <2>3, <2>4, <2>5
  <2> QED
    BY <1>0, <1>1, <2>6, StopKept
<1> QED
  BY <1>2, <1>3

LEMMA WorkerStop ==
  ASSUME IInv, StopInv, NEW w \in Workers, WorkerStep(w)
  PROVE  StopInv'
<1>0. TypeOK
  BY DEF IInv
<1>1. CASE StartFails(w) \/ EndInterpreter(w)
  BY <1>1, ExitStop DEF StartFails, EndInterpreter
<1>2. CASE RecvTask(w) \/ RecvShutdown(w)
  BY <1>2, RecvStop
<1>3. CASE StartOk(w) \/ Resolve(w) \/ ResolveFails(w) \/ CallElements(w)
           \/ ElementRaises(w) \/ Report(w) \/ DropTask(w)
  <2>1. PICK to \in WorkerPhase \ {"none", "ending", "ended"} :
          wstate' = [wstate EXCEPT ![w] = to]
    BY <1>3 DEF StartOk, Resolve, ResolveFails, CallElements, ElementRaises, Fill,
                Report, DropTask, WorkerPhase
  <2>2. wstate[w] \notin {"none", "ending", "ended"}
    BY <1>3 DEF StartOk, Resolve, ResolveFails, CallElements, ElementRaises, Fill,
                Report, DropTask
  <2>3. \A v \in Workers : wstate'[v] = IF v = w THEN to ELSE wstate[v]
    BY <1>0, <2>1 DEF TypeOK
  <2>4. Leaving' = Leaving /\ Receivers' = Receivers
    BY <2>2, <2>3 DEF Leaving, Receivers
  <2>5. UNCHANGED <<chan, pool, stopVars>>
    BY <1>3 DEF StartOk, Resolve, ResolveFails, CallElements, ElementRaises, Fill,
                Report, DropTask
  <2>6. Shutdowns' = Shutdowns
    BY <2>5 DEF Shutdowns
  <2> QED
    BY <1>0, <2>4, <2>5, <2>6, StopUnmoved
<1> QED
  BY <1>1, <1>2, <1>3 DEF WorkerStep

\* A Shutdown that is sent is counted, once, for the shutdown that sends it.
LEMMA ShutdownStop ==
  ASSUME IInv, StopInv, NEW s \in Stops,
         LookForPool(s) \/ StopStep(s)
  PROVE  StopInv'
<1>0. TypeOK /\ WorkerInv
  BY DEF IInv
<1>1. UNCHANGED <<pool, wstate>>
  BY DEF LookForPool, StopStep, SendShutdown, Joined, workerVars
<1>2. Leaving' = Leaving /\ Receivers' = Receivers
  BY <1>1 DEF Leaving, Receivers
<1>3. \A r \in Stops : stopSent[r] \in Nat /\ stopSent[r] <= Threads /\ StopOK(r)
  BY <1>0, CountTypes DEF StopInv
<1>4. CASE LookForPool(s) \/ Joined(s)
  <2>1. Shutdowns' = Shutdowns /\ stopSent' = stopSent
    BY <1>4 DEF LookForPool, Joined, Shutdowns
  <2>2. ASSUME NEW r \in Stops PROVE StopOK(r)'
    <3>1. CASE r # s
      <4>1. stop'[r] = stop[r]
        BY <1>0, <1>4, <3>1 DEF LookForPool, Joined, TypeOK
      <4> QED
        BY <1>1, <1>2, <1>3, <2>1, <4>1 DEF StopOK
    <3>2. CASE r = s /\ LookForPool(s)
      <4>1. stop'[s] = (IF pool THEN "stopping" ELSE "done") /\ stopSent[s] = 0
        BY <1>0, <1>3, <3>2 DEF LookForPool, TypeOK, StopOK
      <4> QED
        BY <1>1, <1>2, <1>3, <2>1, <3>2, <4>1, ThreadsType DEF StopOK
    <3>3. CASE r = s /\ Joined(s)
      <4>1. stop'[s] = "done" /\ Receivers = {}
        BY <1>0, <3>3 DEF Joined, TypeOK
      <4> QED
        BY <1>1, <1>2, <1>3, <2>1, <3>3, <4>1 DEF StopOK
    <3> QED
      BY <1>4, <3>1, <3>2, <3>3
  <2> QED
    BY <2>2 DEF StopInv
<1>5. CASE SendShutdown(s)
  <2>1. /\ stop' = stop /\ stop[s] = "stopping" /\ stopSent'[s] = stopSent[s] + 1
        /\ \A r \in Stops \ {s} : stopSent'[r] = stopSent[r]
    BY <1>0, <1>5 DEF SendShutdown, TypeOK
  <2>2. pool /\ stopSent[s] + 1 <= Threads
    BY <1>3, <1>5, <2>1, ThreadsType DEF SendShutdown, StopOK
  <2>3. Cardinality(Shutdowns) \in Nat /\ Cardinality(Leaving) \in Nat
    BY <1>0, CountTypes
  <2>4. \A r \in Stops : stopSent'[r] <= Cardinality(Shutdowns') + Cardinality(Leaving')
    <3>1. CASE Receivers = {}
      <4>1. Shutdowns' = Shutdowns
        BY <1>5, <3>1 DEF SendShutdown, Shutdowns
      <4>2. Cardinality(Leaving) = Threads
        BY <1>0, <2>2, <3>1, AllLeft
      <4> QED
        BY <1>2, <1>3, <2>1, <2>2, <2>3, <4>1, <4>2
    <3>2. CASE Receivers # {}
      <4>1. chan' = Append(chan, Shutdown) /\ chan \in Seq(Tasks \cup {Shutdown})
        BY <1>0, <1>5, <3>2 DEF SendShutdown, TypeOK
      <4>2. /\ Len(chan') = Len(chan) + 1 /\ Len(chan) \in Nat
            /\ chan'[Len(chan) + 1] = Shutdown
            /\ \A i \in 1..Len(chan) : chan'[i] = chan[i]
        BY <4>1
      <4>3. Shutdowns' = Shutdowns \cup {Len(chan) + 1} /\ Len(chan) + 1 \notin Shutdowns
        BY <4>2 DEF Shutdowns
      <4>4. Cardinality(Shutdowns') = Cardinality(Shutdowns) + 1
        BY <1>0, <4>3, CountTypes, FS_AddElement
      <4> QED
        BY <1>2, <1>3, <2>1, <2>3, <4>4 DEF StopOK
    <3> QED
      BY <3>1, <3>2
  <2>5. ASSUME NEW r \in Stops PROVE StopOK(r)'
    <3>1. CASE r # s
      BY <1>1, <1>2, <1>3, <2>1, <2>4, <3>1 DEF StopOK
    <3>2. CASE r = s
      BY <1>1, <1>2, <1>3, <2>1, <2>2, <2>4, <3>2 DEF StopOK
    <3> QED
      BY <3>1, <3>2
  <2> QED
    BY <2>5 DEF StopInv
<1> QED
  BY <1>4, <1>5 DEF StopStep

LEMMA SpecStopInv == Spec => []StopInv
<1>1. Init => StopInv
  <2> SUFFICES ASSUME Init, NEW s \in Stops PROVE StopOK(s)
    BY DEF StopInv
  <2>1. TypeOK /\ stop[s] = "idle" /\ stopSent[s] = 0
    BY InitIInv DEF Init, IInv
  <2>2. Cardinality(Shutdowns) \in Nat /\ Cardinality(Leaving) \in Nat
    BY <2>1, CountTypes
  <2> QED
    BY <2>1, <2>2 DEF StopOK
<1>2. IInv /\ StopInv /\ [Next]_vars => StopInv'
  <2> SUFFICES ASSUME IInv, StopInv, [Next]_vars PROVE StopInv'
    OBVIOUS
  <2>1. ASSUME UNCHANGED vars PROVE StopInv'
    <3>1. UNCHANGED <<chan, wstate, pool, stopVars>>
      BY <2>1 DEF vars, workerVars
    <3>2. UNCHANGED <<Shutdowns, Leaving, Receivers>>
      BY <3>1 DEF Shutdowns, Leaving, Receivers
    <3> QED
      BY <3>1, <3>2, StopUnmoved DEF IInv
  <2> QED
    BY <2>1, CallStop, WorkerStop, ShutdownStop DEF Next
<1> QED
  BY <1>1, <1>2, SpecIInv, PTL DEF Spec

\* When shutdown_workers has sent its messages, the workers that have yet to take
\* one are no more than the messages in the channel, for any number of workers
\* and of shutdowns at once.
THEOREM ShutdownsSuffice == Spec => []EnoughShutdowns
<1>1. IInv /\ StopInv => EnoughShutdowns
  <2> SUFFICES ASSUME IInv, StopInv, NEW s \in Stops,
                      stop[s] = "stopping" /\ stopSent[s] = Threads
               PROVE  Cardinality(Receivers \ Leaving) <= Cardinality(Shutdowns)
    BY DEF EnoughShutdowns
  <2>1. TypeOK /\ WorkerInv
    BY DEF IInv
  <2>2. pool /\ Threads <= Cardinality(Shutdowns) + Cardinality(Leaving)
    BY DEF StopInv, StopOK
  <2>3. Receivers \ Leaving = Workers \ Leaving
    BY <2>1, <2>2 DEF WorkerInv, WorkerOK, Receivers, Leaving
  <2>4. Workers \cap Leaving = Leaving
    BY DEF Leaving
  <2>5. Cardinality(Workers \ Leaving) = Threads - Cardinality(Leaving)
    BY <2>4, PoolAssumption, FS_Difference DEF Threads
  <2>6. Cardinality(Shutdowns) \in Nat /\ Cardinality(Leaving) \in Nat
    BY <2>1, CountTypes
  <2>7. Threads - Cardinality(Leaving) <= Cardinality(Shutdowns)
    BY <2>2, <2>6, ThreadsType
  <2>8. Cardinality(Receivers \ Leaving) = Cardinality(Workers \ Leaving)
    BY <2>3
  <2> QED
    BY <2>5, <2>7, <2>8
<1> QED
  BY <1>1, SpecIInv, SpecStopInv, PTL

\* Once a shutdown that found the pool has returned, nothing is sent, written or
\* published any more, whatever is called later.
THEOREM ShutdownIsFinal == Spec => ShutdownFinal
<1>1. IInv /\ StopInv /\ [Next]_vars
        => (Retired => UNCHANGED <<chan, sent, done, out, wstate>>)
  <2> SUFFICES ASSUME IInv, StopInv, [Next]_vars, Retired
               PROVE  UNCHANGED <<chan, sent, done, out, wstate>>
    OBVIOUS
  <2>1. Receivers = {} /\ pool
    BY ThreadsType DEF Retired, StopInv, StopOK
  <2>2. ASSUME NEW c \in Calls, Enter(c) \/ Reject(c) \/ Begin(c) \/ CallStep(c)
        PROVE  UNCHANGED <<chan, sent, done, out, wstate>>
    <3>1. ~Send(c)
      BY <2>1 DEF Send
    <3>2. CASE Enter(c)
      BY <2>1, <3>2 DEF Enter
    <3>3. CASE Reject(c) \/ Begin(c) \/ SendFails(c) \/ Detach(c) \/ Await(c)
               \/ Return(c)
      BY <3>3 DEF Reject, Begin, SendFails, Detach, Await, Return, workerVars
    <3> QED
      BY <2>2, <3>1, <3>2, <3>3 DEF CallStep
  <2>3. ASSUME NEW w \in Workers, WorkerStep(w) PROVE FALSE
    <3>1. wstate[w] \in {"none", "ended"}
      BY <2>1 DEF Receivers
    <3> QED
      BY <2>3, <3>1 DEF WorkerStep, StartOk, StartFails, RecvTask, RecvShutdown,
            Resolve, ResolveFails, CallElements, ElementRaises, Fill, Report,
            DropTask, EndInterpreter
  <2>4. ASSUME NEW s \in Stops, LookForPool(s) \/ StopStep(s)
        PROVE  UNCHANGED <<chan, sent, done, out, wstate>>
    BY <2>1, <2>4 DEF LookForPool, StopStep, SendShutdown, Joined, callVars, workerVars
  <2>5. ASSUME UNCHANGED vars PROVE UNCHANGED <<chan, sent, done, out, wstate>>
    BY <2>5 DEF vars, callVars, workerVars
  <2> QED
    BY <2>2, <2>3, <2>4, <2>5 DEF Next
<1> QED
  BY <1>1, SpecIInv, SpecStopInv, PTL DEF Spec, ShutdownFinal

-----------------------------------------------------------------------------
(* sys.path of a sub-interpreter.                                          *)

\* A patch that comes to its end leaves every entry of the call in place: those
\* it did not look at are there because the list was gone through before.
LEMMA PatchedPath ==
  ASSUME TypeOK, PathInv, NEW w \in Workers, PatchPath(w),
         sysPath[CallOf(w)] # NoPaths
  PROVE  PathInv' /\ sysPath[CallOf(w)] \subseteq path'[w]
<1>1. /\ path'[w] = path[w] \cup Missing(w) /\ lastPath'[w] = sysPath[CallOf(w)]
      /\ \A v \in Workers \ {w} : path'[v] = path[v] /\ lastPath'[v] = lastPath[v]
  BY DEF PatchPath, TypeOK
<1>2. sysPath[CallOf(w)] \subseteq path'[w]
  BY <1>1 DEF PathInv, Missing
<1> QED
  BY <1>1, <1>2 DEF PathInv

LEMMA ResolvePath ==
  ASSUME IInv, PathInv, NEW w \in Workers, Resolve(w) \/ ResolveFails(w)
  PROVE  /\ PathInv'
         /\ \A v \in Workers : cache'[v] # cache[v] =>
              sysPath[CallOf(v)] \subseteq path'[v]
<1>0. TypeOK /\ CallInv /\ WorkerInv
  BY DEF IInv
<1>1. sysPath[CallOf(w)] # NoPaths
  <2>1. AtWork(w)
    BY DEF Resolve, ResolveFails, AtWork
  <2> QED
    BY <1>0, <2>1, HeldTask, PoolAssumption
       DEF WorkerInv, WorkerOK, InFlight, CallInv, CallOK, CallOf
<1>2. \A v \in Workers \ {w} : cache'[v] = cache[v]
  BY <1>0 DEF Resolve, ResolveFails, TypeOK
<1>3. CASE PatchPath(w)
  BY <1>0, <1>1, <1>2, <1>3, PatchedPath
<1>4. CASE UNCHANGED <<cache, path, lastPath>>
  BY <1>4 DEF PathInv
<1>5. CASE ResolveFails(w) /\ PatchFails(w)
  <2>1. PICK some \in SUBSET Missing(w) :
          path' = [path EXCEPT ![w] = path[w] \cup some]
    BY <1>5 DEF PatchFails
  <2>2. \A v \in Workers : path[v] \subseteq path'[v]
    BY <1>0, <2>1 DEF TypeOK
  <2>3. UNCHANGED <<cache, lastPath>>
    BY <1>5 DEF ResolveFails, PatchFails
  <2> QED
    BY <2>2, <2>3 DEF PathInv
<1> QED
  BY <1>3, <1>4, <1>5 DEF Resolve, ResolveFails

\* Any other step leaves path and lastPath alone.
LEMMA OtherPath ==
  ASSUME TypeOK, [Next]_vars, \A w \in Workers : ~Resolve(w) /\ ~ResolveFails(w)
  PROVE  /\ UNCHANGED <<path, lastPath>>
         /\ \A w \in Workers : wstate[w] = "busy" => cache'[w] = cache[w]
<1>1. ASSUME NEW c \in Calls, Enter(c) \/ Reject(c) \/ Begin(c) \/ CallStep(c)
      PROVE  UNCHANGED <<path, lastPath, cache>>
  BY <1>1 DEF Enter, Reject, Begin, CallStep, Send, SendFails, Detach, Await,
              Return, workerVars
<1>2. ASSUME NEW w \in Workers, RecvShutdown(w)
      PROVE  /\ UNCHANGED <<path, lastPath>> /\ wstate[w] = "idle"
             /\ cache' = [cache EXCEPT ![w] = {}]
  BY <1>2 DEF RecvShutdown
<1>3. ASSUME NEW w \in Workers, WorkerStep(w), ~RecvShutdown(w)
      PROVE  UNCHANGED <<path, lastPath, cache>>
  BY <1>3 DEF WorkerStep, StartOk, StartFails, RecvTask, CallElements,
              ElementRaises, Fill, Report, DropTask, EndInterpreter, Exit
<1>4. ASSUME NEW s \in Stops, LookForPool(s) \/ StopStep(s)
      PROVE  UNCHANGED <<path, lastPath, cache>>
  BY <1>4 DEF LookForPool, StopStep, SendShutdown, Joined, workerVars
<1>5. ASSUME UNCHANGED vars PROVE UNCHANGED <<path, lastPath, cache>>
  BY <1>5 DEF vars, workerVars
<1>6. CASE \E w \in Workers : RecvShutdown(w)
  <2>1. PICK w \in Workers : RecvShutdown(w)
    BY <1>6
  <2>2. /\ UNCHANGED <<path, lastPath>> /\ wstate[w] = "idle"
        /\ cache' = [cache EXCEPT ![w] = {}]
    BY <1>2, <2>1
  <2>3. \A v \in Workers \ {w} : cache'[v] = cache[v]
    BY <2>2 DEF TypeOK
  <2> QED
    BY <2>2, <2>3
<1>7. CASE \A w \in Workers : ~RecvShutdown(w)
  <2>1. UNCHANGED <<path, lastPath, cache>>
    BY <1>1, <1>3, <1>4, <1>5, <1>7 DEF Next
  <2> QED
    BY <2>1
<1> QED
  BY <1>6, <1>7

LEMMA SpecPathInv == Spec => []PathInv
<1>1. Init => PathInv
  BY DEF Init, PathInv
<1>2. IInv /\ PathInv /\ [Next]_vars => PathInv'
  BY ResolvePath, OtherPath DEF PathInv, IInv
<1> QED
  BY <1>1, <1>2, SpecIInv, PTL DEF Spec

\* Whatever lists the calls bring, in whatever order, and wherever a patch of
\* sys.path fails: a function is imported with its call's entries in place.
THEOREM PathsPatched == Spec => ImportsPatched
<1>1. IInv /\ PathInv /\ [Next]_vars =>
        \A w \in Workers : wstate[w] = "busy" /\ cache'[w] # cache[w] =>
          sysPath[CallOf(w)] \subseteq path'[w]
  BY ResolvePath, OtherPath DEF IInv
<1> QED
  BY <1>1, SpecIInv, SpecPathInv, PTL DEF Spec, ImportsPatched
=============================================================================
