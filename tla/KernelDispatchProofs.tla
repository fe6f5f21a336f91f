------------------------ MODULE KernelDispatchProofs ------------------------
(***************************************************************************)
(* Theorems about KernelDispatch, for any array, any number of threads and *)
(* lanes, and any chunk length pick_chunk_size chooses.                    *)
(***************************************************************************)
EXTENDS KernelDispatch, ChunkingProofs

LEMMA SizeType == ASSUME TypeOK PROVE Size \in Nat \ {0}
<1>1. len \in Nat /\ Threads \in Nat \ {0}
  BY DispatchAssumption DEF TypeOK
<1> QED
  BY <1>1, ChunkSizePositive DEF Size

LEMMA BoundType == ASSUME TypeOK PROVE Bound \in Nat
BY DispatchAssumption DEF TypeOK, Bound

LEMMA ScopeInPool == Scope \in Pool
BY DispatchAssumption DEF Scope, Pool

\* Where the vector loop ends, and that a step of it stays inside.
LEMMA VecEndOf ==
  ASSUME TypeOK, NEW t \in Pool
  PROVE  /\ VecEnd(t) \in 0..job[t].n
         /\ \E q \in Nat : VecEnd(t) = Lanes * q
<1> DEFINE n == job[t].n
<1>1. n \in Nat /\ Lanes \in Nat \ {0}
  BY DispatchAssumption DEF TypeOK, Jobs
<1>2. /\ n \div Lanes \in Nat /\ n % Lanes \in 0..(Lanes - 1)
      /\ n = Lanes * (n \div Lanes) + (n % Lanes)
  BY <1>1, DivBounds
<1>3. Lanes * (n \div Lanes) \in Nat
  BY <1>1, <1>2
<1>4. CASE simd
  <2>1. VecEnd(t) = n - (n % Lanes)
    BY <1>4 DEF VecEnd
  <2>2. VecEnd(t) = Lanes * (n \div Lanes)
    BY <2>1, <1>1, <1>2, <1>3
  <2>3. n % Lanes \in Nat
    BY <1>1, <1>2
  <2>4. VecEnd(t) \in Nat
    BY <2>2, <1>3
  <2>5. VecEnd(t) \in 0..n
    BY <2>1, <2>3, <2>4, <1>1
  <2> QED
    BY <2>2, <2>5, <1>2
<1>5. CASE ~simd
  <2>1. VecEnd(t) = 0 /\ 0 = Lanes * 0
    BY <1>5, <1>1 DEF VecEnd
  <2> QED
    BY <2>1, <1>1
<1> QED
  BY <1>4, <1>5

LEMMA VectorStepFits ==
  ASSUME IInv, NEW t \in Pool, at[t] < VecEnd(t)
  PROVE  /\ at[t] + Lanes <= VecEnd(t)
         /\ at[t] + Lanes < VecEnd(t) =>
              \E k \in 0..MaxLen : at[t] + Lanes = Lanes * k
<1>1. PICK q \in Nat : VecEnd(t) = Lanes * q
  BY VecEndOf DEF IInv
<1>2. PICK k \in 0..MaxLen : at[t] = Lanes * k
  BY DEF IInv, AtInv
<1>3. Lanes \in Nat \ {0} /\ MaxLen \in Nat /\ k \in Nat
  BY DispatchAssumption
<1>4. k < q
  BY <1>1, <1>2, <1>3, MultCancel
<1>5. Lanes * (k + 1) = at[t] + Lanes
  BY <1>2, <1>3
<1>6. Lanes * (k + 1) <= Lanes * q
  BY <1>3, <1>4, MultMono
<1>7. VecEnd(t) <= MaxLen
  BY VecEndOf, <1>3 DEF IInv, TypeOK, Jobs
<1>8. ASSUME at[t] + Lanes < VecEnd(t)
      PROVE  k + 1 \in 0..MaxLen
  <2>1. k + 1 <= Lanes * (k + 1)
    <3>1. (k + 1) * 1 <= (k + 1) * Lanes
      BY <1>3, MultMono
    <3> QED
      BY <3>1, <1>3
  <2>2. at[t] \in Nat /\ VecEnd(t) \in Nat
    BY <1>1, <1>2, <1>3
  <2> QED
    BY <2>1, <2>2, <1>3, <1>5, <1>7, <1>8
<1> QED
  BY <1>1, <1>5, <1>6, <1>8

-----------------------------------------------------------------------------
(* Steps of the caller                                                     *)

\* What does not touch the threads' chunks: nothing changes for a position.
LEMMA CallerKeeps ==
  ASSUME IInv, UNCHANGED <<len, simd, start, spawned, queue, job, at, stores>>,
         pc' \in {"spawning", "joining", "done"}, Bound' = Bound,
         pc' = "joining" => start = len,
         pc' = "done" => queue = {} /\ \A t \in Pool : job[t] = NoJob
  PROVE  IInv'
<1> USE DEF IInv
<1>1. TypeOK'
  BY DEF TypeOK
<1>2. PcInv'
  BY DEF PcInv
<1>3. JobInv'
  BY DEF JobInv
<1>4. ApartInv'
  BY DEF ApartInv, Apart
<1>5. AtInv'
  BY DEF AtInv, VecEnd
<1>6. StoreInv'
  <2>1. \A t \in Pool : Left(t)' = Left(t)
    BY DEF Left
  <2>2. \A p \in Memory : Undone(p)' <=> Undone(p)
    BY <2>1 DEF Undone, Queued
  <2> QED
    BY <2>2 DEF StoreInv
<1> QED
  BY <1>1, <1>2, <1>3, <1>4, <1>5, <1>6

LEMMA SingleKeeps == ASSUME IInv, Single PROVE IInv'
<1> USE DEF IInv, Single
<1> DEFINE all == [from |-> 0, n |-> len]
<1>1. /\ len \in Nat \ {0} /\ len \in 0..MaxLen /\ MaxLen \in Nat
      /\ pc = "entry" /\ pc' = "single"
      /\ queue = {} /\ queue' = {} /\ start = 0
      /\ \A t \in Pool : job[t] = NoJob
  BY DispatchAssumption DEF TypeOK, PcInv
<1>2. /\ job'[Scope] = all /\ at'[Scope] = 0
      /\ \A t \in Pool \ {Scope} : job'[t] = NoJob /\ at'[t] = at[t]
  BY <1>1, ScopeInPool DEF TypeOK
<1>3. Bound = 0 /\ Bound' = len
  BY <1>1 DEF Bound
<1>4. TypeOK'
  BY <1>1, ScopeInPool DEF TypeOK, Jobs
<1>5. PcInv'
  BY <1>1 DEF PcInv
<1>6. JobInv'
  <2>1. \A t \in Pool : job'[t].from + job'[t].n <= len
    BY <1>1, <1>2 DEF NoJob
  <2> QED
    BY <2>1, <1>1, <1>3 DEF JobInv
<1>7. ApartInv'
  <2>1. \A t \in Pool \ {Scope} : Apart(NoJob, job'[t]) /\ Apart(job'[t], NoJob)
    BY <1>2 DEF Apart, NoJob
  <2>2. Apart(NoJob, all) /\ Apart(all, NoJob)
    BY <1>1 DEF Apart, NoJob
  <2> QED
    BY <2>1, <2>2, <1>1, <1>2 DEF ApartInv
<1>8. AtInv'
  <2>1. Lanes \in Nat \ {0} /\ 0 = Lanes * 0
    BY DispatchAssumption
  <2>2. at'[Scope] <= job'[Scope].n
    BY <1>1, <1>2
  <2>3. \A t \in Pool \ {Scope} : ~(at'[t] < VecEnd(t)')
    <3> SUFFICES ASSUME NEW t \in Pool \ {Scope} PROVE ~(at'[t] < VecEnd(t)')
      OBVIOUS
    <3>1. 0 % Lanes \in Nat
      BY <2>1, DivBounds
    <3>2. job'[t].n = 0 /\ at'[t] \in Nat /\ simd' = simd
      BY <1>1, <1>2 DEF TypeOK, NoJob
    <3>3. VecEnd(t)' = IF simd THEN 0 - (0 % Lanes) ELSE 0
      BY <3>2 DEF VecEnd
    <3> QED
      BY <3>1, <3>2, <3>3
  <2> QED
    BY <2>1, <2>2, <2>3, <1>1, <1>2 DEF AtInv
<1>9. StoreInv'
  <2> SUFFICES ASSUME NEW p \in Memory
               PROVE  Undone(p)' <=> Undone(p)
    BY DEF StoreInv
  <2>1. p \in Nat
    BY DEF Memory
  <2>2. Undone(p)
    BY <2>1, <1>3 DEF Undone
  <2>3. p < len => p \in Left(Scope)'
    BY <2>1, <1>1, <1>2 DEF Left
  <2> QED
    BY <2>1, <2>2, <2>3, <1>1, <1>3, ScopeInPool DEF Undone
<1> QED
  BY <1>4, <1>5, <1>6, <1>7, <1>8, <1>9

LEMMA SpawnKeeps == ASSUME IInv, Spawn PROVE IInv'
<1> USE DEF IInv, Spawn
<1> DEFINE this == Smaller(len - start, Size)
           new == [from |-> start, n |-> this]
<1>1. /\ len \in 0..MaxLen /\ MaxLen \in Nat /\ start \in Nat /\ start < len
      /\ pc = "spawning" /\ pc' = pc /\ len' = len
  BY DispatchAssumption DEF TypeOK
<1>2. this \in Nat \ {0} /\ start + this <= len
  BY <1>1, SizeType DEF Smaller
<1>3. Bound = start /\ Bound' = start + this
  BY <1>1 DEF Bound
<1>4. queue' = queue \cup {new} /\ UNCHANGED <<job, at, simd, stores>>
  OBVIOUS
<1> HIDE DEF new, this
<1>5. new.from = start /\ new.n = this /\ new \in Jobs
  BY <1>1, <1>2 DEF new, Jobs
<1>6. TypeOK'
  <2>1. spawned + 1 \in 0..len /\ start + this \in 0..len
    BY <1>1, <1>2 DEF TypeOK, JobInv
  <2> QED
    BY <2>1, <1>3, <1>5 DEF TypeOK, new, this
<1>7. PcInv'
  BY <1>1 DEF PcInv
<1>8. JobInv'
  <2>1. \A j \in queue' : j.n > 0 /\ j.from + j.n <= start + this
    BY <1>1, <1>2, <1>3, <1>4, <1>5 DEF JobInv, TypeOK, Jobs
  <2>2. \A t \in Pool : job'[t].from + job'[t].n <= start + this
    BY <1>1, <1>2, <1>3, <1>4 DEF JobInv, TypeOK, Jobs
  <2>3. spawned' <= start'
    BY <1>1, <1>2 DEF JobInv, TypeOK, this
  <2> QED
    BY <2>1, <2>2, <2>3, <1>3 DEF JobInv
<1>9. ApartInv'
  <2>1. \A j \in queue : Apart(j, new) /\ Apart(new, j)
    BY <1>1, <1>3, <1>5 DEF JobInv, Apart
  <2>2. \A t \in Pool : Apart(new, job[t])
    BY <1>1, <1>3, <1>5 DEF JobInv, Apart
  <2> QED
    BY <2>1, <2>2, <1>4 DEF ApartInv, Apart
<1>10. AtInv'
  BY <1>4 DEF AtInv, VecEnd
<1>11. StoreInv'
  <2> SUFFICES ASSUME NEW p \in Memory
               PROVE  Undone(p)' <=> Undone(p)
    BY <1>4 DEF StoreInv
  <2>1. p \in Nat
    BY DEF Memory
  <2>2. Queued(p)' <=> Queued(p) \/ p \in start..(start + this - 1)
    BY <1>4, <1>5 DEF Queued
  <2>3. \A t \in Pool : Left(t)' = Left(t)
    BY <1>4 DEF Left
  <2>4. p >= start <=> p >= start + this \/ p \in start..(start + this - 1)
    BY <2>1, <1>1, <1>2
  <2> QED
    BY <2>2, <2>3, <2>4, <1>3 DEF Undone
<1> QED
  BY <1>6, <1>7, <1>8, <1>9, <1>10, <1>11

-----------------------------------------------------------------------------
(* Steps of the pool                                                       *)

\* The positions of a chunk somebody has are given out and left to nobody else.
LEMMA LeftBelow ==
  ASSUME TypeOK, JobInv, NEW t \in Pool, NEW p \in Left(t)
  PROVE  p \in Nat /\ p < Bound /\ p \in job[t].from .. (job[t].from + job[t].n - 1)
<1>1. job[t].from \in Nat /\ job[t].n \in Nat /\ at[t] \in Nat /\ Bound \in Nat
  BY BoundType DEF TypeOK, Jobs
<1>2. job[t].from + job[t].n <= Bound
  BY DEF JobInv
<1> QED
  BY <1>1, <1>2 DEF Left

LEMMA LeftAlone ==
  ASSUME TypeOK, JobInv, ApartInv, NEW t \in Pool, NEW p \in Left(t)
  PROVE  ~Queued(p) /\ \A u \in Pool \ {t} : p \notin Left(u)
<1>1. p \in job[t].from .. (job[t].from + job[t].n - 1)
  BY LeftBelow
<1>2. job[t] \in Jobs /\ queue \subseteq Jobs
  BY DEF TypeOK
<1>3. ~Queued(p)
  BY <1>1, <1>2 DEF ApartInv, Apart, Queued, Jobs
<1>4. ASSUME NEW u \in Pool \ {t} PROVE p \notin Left(u)
  <2>1. job[u] \in Jobs /\ at[u] \in Nat /\ Apart(job[t], job[u])
    BY DEF TypeOK, ApartInv
  <2> QED
    BY <2>1, <1>1, <1>2 DEF Apart, Left, Jobs
<1> QED
  BY <1>3, <1>4

LEMMA TakeKeeps == ASSUME IInv, NEW t \in Pool, Take(t) PROVE IInv'
<1> USE DEF IInv
<1>1. PICK j \in queue : queue' = queue \ {j} /\ job' = [job EXCEPT ![t] = j]
  BY DEF Take
<1>2. /\ job[t] = NoJob /\ at' = [at EXCEPT ![t] = 0]
      /\ UNCHANGED <<len, simd, pc, start, spawned, stores>>
  BY DEF Take, Busy
<1>3. /\ j \in Jobs /\ j.from \in Nat /\ j.n \in Nat \ {0} /\ j.from + j.n <= Bound
      /\ Bound' = Bound
  BY <1>2 DEF TypeOK, Jobs, JobInv, Bound
<1>4. /\ job'[t] = j /\ at'[t] = 0
      /\ \A u \in Pool \ {t} : job'[u] = job[u] /\ at'[u] = at[u]
  BY <1>1, <1>2 DEF TypeOK
<1>5. TypeOK'
  BY <1>1, <1>2, <1>3, DispatchAssumption DEF TypeOK
<1>6. PcInv'
  BY <1>1, <1>2 DEF PcInv
<1>7. JobInv'
  BY <1>1, <1>2, <1>3, <1>4 DEF JobInv
<1>8. ApartInv'
  <2>1. \A i \in queue' : Apart(i, j) /\ Apart(j, i)
    BY <1>1 DEF ApartInv, Apart
  <2>2. \A u \in Pool \ {t} : Apart(j, job[u]) /\ Apart(job[u], j)
    BY DEF ApartInv, Apart
  <2> QED
    BY <2>1, <2>2, <1>1, <1>4 DEF ApartInv
<1>9. AtInv'
  <2>1. \A u \in Pool : VecEnd(u)' = IF u = t THEN VecEnd(t)' ELSE VecEnd(u)
    BY <1>2, <1>4 DEF VecEnd
  <2>2. 0 \in 0..MaxLen /\ at'[t] = Lanes * 0 /\ at'[t] <= job'[t].n
    BY <1>3, <1>4, DispatchAssumption
  <2> QED
    BY <2>1, <2>2, <1>4 DEF AtInv
<1>10. StoreInv'
  <2> SUFFICES ASSUME NEW p \in Memory
               PROVE  Undone(p)' <=> Undone(p)
    BY <1>2 DEF StoreInv
  <2>1. Queued(p) <=> Queued(p)' \/ p \in j.from..(j.from + j.n - 1)
    BY <1>1 DEF Queued
  <2>2. Left(t)' = j.from..(j.from + j.n - 1)
    BY <1>3, <1>4 DEF Left
  <2>3. Left(t) = {}
    BY <1>2 DEF Left, NoJob, TypeOK
  <2>4. \A u \in Pool \ {t} : Left(u)' = Left(u)
    BY <1>4 DEF Left
  <2> QED
    BY <2>1, <2>2, <2>3, <2>4, <1>3 DEF Undone
<1> QED
  BY <1>5, <1>6, <1>7, <1>8, <1>9, <1>10

LEMMA StoreKeeps ==
  ASSUME IInv, NEW t \in Pool, NEW width \in Nat \ {0}, Store(t, width),
         job[t] # NoJob, at[t] + width <= job[t].n,
         at[t] + width < VecEnd(t) => \E k \in 0..MaxLen : at[t] + width = Lanes * k
  PROVE  IInv'
<1> USE DEF IInv
<1> DEFINE first == job[t].from + at[t]
<1>1. /\ at' = [at EXCEPT ![t] = @ + width]
      /\ UNCHANGED <<len, simd, pc, start, spawned, queue, job>>
      /\ \A p \in Memory :
           stores'[p] = IF p \in first..(first + width - 1) THEN stores[p] + 1 ELSE stores[p]
  BY DEF Store
<1>2. /\ job[t].from \in Nat /\ job[t].n \in 0..MaxLen /\ at[t] \in Nat /\ MaxLen \in Nat
      /\ first \in Nat
  BY DispatchAssumption DEF TypeOK, Jobs
<1>3. /\ at'[t] = at[t] + width
      /\ \A u \in Pool \ {t} : at'[u] = at[u]
      /\ \A u \in Pool : VecEnd(u)' = VecEnd(u)
      /\ Bound' = Bound
  BY <1>1 DEF TypeOK, VecEnd, Bound
<1> HIDE DEF first
<1>4. TypeOK'
  <2>1. at' \in [Pool -> 0..MaxLen]
    BY <1>1, <1>2, <1>3 DEF TypeOK
  <2>2. stores' \in [Memory -> Nat]
    BY DEF Store, TypeOK
  <2> QED
    BY <2>1, <2>2, <1>1 DEF TypeOK
<1>5. PcInv'
  BY <1>1 DEF PcInv
<1>6. JobInv'
  BY <1>1, <1>3 DEF JobInv
<1>7. ApartInv'
  BY <1>1 DEF ApartInv, Apart
<1>8. AtInv'
  BY <1>1, <1>3 DEF AtInv
<1>9. StoreInv'
  <2> SUFFICES ASSUME NEW p \in Memory
               PROVE  stores'[p] = IF Undone(p)' THEN 0 ELSE 1
    BY DEF StoreInv
  <2>1. p \in Nat
    BY DEF Memory
  <2>2. Queued(p)' <=> Queued(p)
    BY <1>1 DEF Queued
  <2>3. \A u \in Pool \ {t} : Left(u)' = Left(u)
    BY <1>1, <1>3 DEF Left
  <2>4. /\ Left(t)  = first..(job[t].from + job[t].n - 1)
        /\ Left(t)' = (first + width)..(job[t].from + job[t].n - 1)
    BY <1>1, <1>2, <1>3 DEF Left, first
  <2>5. CASE p \in first..(first + width - 1)
    <3>1. p \in Left(t) /\ p \notin Left(t)'
      <4>1. p >= first /\ p < first + width
        BY <2>1, <2>5, <1>2
      <4>2. first + width <= job[t].from + job[t].n
        BY <1>2 DEF first
      <4> QED
        BY <4>1, <4>2, <2>1, <2>4, <1>2
    <3>2. Undone(p) /\ stores[p] = 0
      BY <3>1 DEF Undone, StoreInv
    <3>3. p < Bound /\ ~Queued(p) /\ \A u \in Pool \ {t} : p \notin Left(u)
      BY <3>1, LeftBelow, LeftAlone
    <3>4. ~(p >= Bound)
      BY <3>3, <2>1, BoundType
    <3>5. ~Undone(p)'
      BY <3>1, <3>3, <3>4, <2>2, <2>3, <1>3 DEF Undone
    <3> QED
      BY <3>2, <3>5, <2>5, <1>1
  <2>6. CASE p \notin first..(first + width - 1)
    <3>1. p \in Left(t)' <=> p \in Left(t)
      BY <2>1, <2>4, <2>6, <1>2
    <3>2. Undone(p)' <=> Undone(p)
      BY <3>1, <2>2, <2>3, <1>3 DEF Undone
    <3> QED
      BY <3>2, <2>6, <1>1 DEF StoreInv
  <2> QED
    BY <2>5, <2>6
<1> QED
  BY <1>4, <1>5, <1>6, <1>7, <1>8, <1>9

LEMMA ReturnKeeps == ASSUME IInv, NEW t \in Pool, KernelReturn(t) PROVE IInv'
<1> USE DEF IInv
<1>1. /\ job' = [job EXCEPT ![t] = NoJob] /\ at[t] >= job[t].n
      /\ UNCHANGED <<len, simd, pc, start, spawned, queue, at, stores>>
  BY DEF KernelReturn
<1>2. /\ job'[t] = NoJob
      /\ \A u \in Pool \ {t} : job'[u] = job[u]
      /\ Bound' = Bound /\ Bound \in Nat /\ at[t] \in Nat
  <2>1. Bound \in Nat /\ at[t] \in Nat /\ job \in [Pool -> Jobs]
    BY BoundType DEF TypeOK
  <2> QED
    BY <2>1, <1>1 DEF Bound
<1>3. TypeOK'
  BY <1>1, DispatchAssumption DEF TypeOK, Jobs, NoJob
<1>4. PcInv'
  BY <1>1, <1>2 DEF PcInv
<1>5. JobInv'
  BY <1>1, <1>2 DEF JobInv, NoJob
<1>6. ApartInv'
  <2>1. \A j \in Jobs : Apart(j, NoJob) /\ Apart(NoJob, j)
    BY DEF Apart, NoJob, Jobs
  <2>2. queue \subseteq Jobs /\ \A u \in Pool : job[u] \in Jobs
    BY DEF TypeOK
  <2> QED
    BY <2>1, <2>2, <1>1, <1>2 DEF ApartInv
<1>7. AtInv'
  <2>1. ~(at'[t] < VecEnd(t)')
    <3>1. Lanes \in Nat \ {0}
      BY DispatchAssumption
    <3>2. 0 % Lanes \in Nat
      BY <3>1, DivBounds
    <3>3. VecEnd(t)' = IF simd THEN 0 - (0 % Lanes) ELSE 0
      BY <1>1, <1>2 DEF VecEnd, NoJob
    <3> QED
      BY <3>2, <3>3, <1>1, <1>2
  <2>2. \A u \in Pool \ {t} : VecEnd(u)' = VecEnd(u)
    BY <1>1, <1>2 DEF VecEnd
  <2> QED
    BY <2>1, <2>2, <1>1, <1>2 DEF AtInv
<1>8. StoreInv'
  <2>1. Left(t) = {}
    BY <1>1 DEF Left, TypeOK, Jobs
  <2>2. Left(t)' = {}
    BY <1>1, <1>2 DEF Left, NoJob
  <2>3. \A u \in Pool \ {t} : Left(u)' = Left(u)
    BY <1>1, <1>2 DEF Left
  <2>4. \A p \in Memory : Undone(p)' <=> Undone(p)
    BY <2>1, <2>2, <2>3, <1>1, <1>2 DEF Undone, Queued
  <2> QED
    BY <2>4, <1>1 DEF StoreInv
<1> QED
  BY <1>3, <1>4, <1>5, <1>6, <1>7, <1>8

-----------------------------------------------------------------------------
LEMMA InitInv == Init => IInv
<1> SUFFICES ASSUME Init PROVE IInv
  OBVIOUS
<1> USE DEF Init
<1>1. /\ \A t \in Pool : job[t] = NoJob /\ at[t] = 0
      /\ Bound = 0 /\ queue = {} /\ MaxLen \in Nat /\ len \in Nat
  BY DispatchAssumption DEF Bound
<1>2. TypeOK
  BY <1>1, DispatchAssumption DEF TypeOK, Jobs, NoJob
<1>3. PcInv /\ JobInv /\ ApartInv
  BY <1>1 DEF PcInv, JobInv, ApartInv, Apart, NoJob
<1>4. AtInv
  <2>1. Lanes \in Nat \ {0} /\ 0 = Lanes * 0 /\ 0 \in 0..MaxLen
    BY <1>1, DispatchAssumption
  <2> QED
    BY <2>1, <1>1 DEF AtInv
<1>5. StoreInv
  <2>1. \A p \in Memory : p >= Bound /\ stores[p] = 0
    BY <1>1 DEF Memory
  <2> QED
    BY <2>1 DEF StoreInv, Undone
<1> QED
  BY <1>2, <1>3, <1>4, <1>5 DEF IInv

LEMMA NextInv == IInv /\ [Next]_vars => IInv'
<1> SUFFICES ASSUME IInv, [Next]_vars PROVE IInv'
  OBVIOUS
<1> USE DEF IInv
<1>1. CASE Empty
  <2>1. start = 0 /\ Bound = 0 /\ Bound' = 0
    BY <1>1 DEF Empty, PcInv, Bound
  <2>2. queue = {} /\ \A t \in Pool : job[t] = NoJob
    BY <1>1 DEF Empty, PcInv
  <2> QED
    BY <2>1, <2>2, <1>1, CallerKeeps DEF Empty
<1>2. CASE Single
  BY <1>2, SingleKeeps
<1>3. CASE OpenScope
  <2>1. Bound' = Bound
    BY <1>3 DEF OpenScope, Bound
  <2> QED
    BY <2>1, <1>3, CallerKeeps DEF OpenScope
<1>4. CASE Spawn
  BY <1>4, SpawnKeeps
<1>5. CASE Spawned
  <2>1. start = len
    BY <1>5, DispatchAssumption DEF Spawned, TypeOK
  <2>2. Bound' = Bound
    BY <2>1, <1>5 DEF Spawned, Bound
  <2> QED
    BY <2>1, <2>2, <1>5, CallerKeeps DEF Spawned
<1>6. CASE Join
  <2>1. Bound' = Bound
    BY <1>6 DEF Join, Bound
  <2> QED
    BY <2>1, <1>6, CallerKeeps DEF Join
<1>7. ASSUME NEW t \in Pool, Take(t) PROVE IInv'
  BY <1>7, TakeKeeps
<1>8. ASSUME NEW t \in Pool, VectorStep(t) PROVE IInv'
  <2>1. /\ Lanes \in Nat \ {0} /\ at[t] \in Nat /\ job[t].n \in Nat
        /\ VecEnd(t) \in 0..job[t].n
    BY VecEndOf, DispatchAssumption DEF TypeOK, Jobs
  <2>2. /\ at[t] + Lanes <= VecEnd(t)
        /\ at[t] + Lanes < VecEnd(t) =>
             \E k \in 0..MaxLen : at[t] + Lanes = Lanes * k
    BY <1>8, VectorStepFits DEF VectorStep
  <2>3. at[t] + Lanes <= job[t].n
    BY <2>1, <2>2
  <2> QED
    BY <2>1, <2>2, <2>3, <1>8, StoreKeeps DEF VectorStep
<1>9. ASSUME NEW t \in Pool, ScalarStep(t) PROVE IInv'
  <2>1. at[t] \in Nat /\ job[t].n \in Nat /\ VecEnd(t) \in 0..job[t].n
    BY VecEndOf DEF TypeOK, Jobs
  <2>2. at[t] + 1 <= job[t].n /\ ~(at[t] + 1 < VecEnd(t))
    BY <2>1, <1>9 DEF ScalarStep
  <2> QED
    BY <2>2, <1>9, StoreKeeps DEF ScalarStep
<1>10. ASSUME NEW t \in Pool, KernelReturn(t) PROVE IInv'
  BY <1>10, ReturnKeeps
<1>11. CASE UNCHANGED vars
  BY <1>11 DEF vars, TypeOK, PcInv, JobInv, ApartInv, Apart, AtInv, VecEnd,
               StoreInv, Undone, Queued, Left, Bound
<1> QED
  BY <1>1, <1>2, <1>3, <1>4, <1>5, <1>6, <1>7, <1>8, <1>9, <1>10, <1>11
  DEF Next, CallerStep, PoolStep

\* What is given out is stored to once, and what is left is left to one thread.
THEOREM Invariant == Spec => []IInv
BY InitInv, NextInv, PTL DEF Spec

\* The cursor, the chunks and the kernels' indices stay inside the array, for
\* every length, number of threads and vector width.
THEOREM TypeCorrect == Spec => []TypeOK
<1>1. IInv => TypeOK
  BY DEF IInv
<1> QED
  BY <1>1, Invariant, PTL

\* Whatever threads take the chunks and in whatever order, no element is stored
\* to twice and nothing is stored past the end of the buffer.
THEOREM StoresNotShared == Spec => []NoAliasing
<1>1. IInv => NoAliasing
  <2> SUFFICES ASSUME IInv, NEW p \in Memory
               PROVE  stores[p] <= (IF p < len THEN 1 ELSE 0)
    BY DEF NoAliasing
  <2>1. /\ p \in Nat /\ len \in Nat /\ start \in 0..len
        /\ stores[p] = IF Undone(p) THEN 0 ELSE 1
    BY DispatchAssumption DEF IInv, TypeOK, StoreInv, Memory
  <2>2. ~(p < len) => Undone(p)
    BY <2>1 DEF Undone, Bound
  <2> QED
    BY <2>1, <2>2
<1> QED
  BY <1>1, Invariant, PTL

\* When the dispatch returns, every element has been stored to and no thread is
\* left in the kernel.
THEOREM BufferFilled == Spec => []ReturnsFilled
<1>1. IInv => ReturnsFilled
  <2> SUFFICES ASSUME IInv, pc = "done" PROVE ReturnsFilled
    BY DEF ReturnsFilled
  <2>1. queue = {} /\ \A t \in Pool : job[t] = NoJob
    BY DEF IInv, PcInv
  <2>2. ASSUME NEW p \in 0..(len - 1) PROVE stores[p] = 1
    <3>1. /\ len \in 0..MaxLen /\ MaxLen \in Nat /\ MaxChunkLen \in Nat /\ Lanes \in Nat
          /\ p \in Nat /\ p < len /\ Bound = len
      BY DispatchAssumption, ChunkingAssumption DEF IInv, TypeOK, Bound
    <3>2. p \in Memory
      BY <3>1 DEF Memory
    <3>3. ~Queued(p)
      BY <2>1 DEF Queued
    <3>4. \A t \in Pool : p \notin Left(t)
      BY <2>1 DEF Left, NoJob, IInv, TypeOK
    <3> QED
      BY <3>1, <3>2, <3>3, <3>4 DEF IInv, StoreInv, Undone
  <2> QED
    BY <2>1, <2>2 DEF ReturnsFilled
<1> QED
  BY <1>1, Invariant, PTL
=============================================================================
