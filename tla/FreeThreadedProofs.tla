------------------------- MODULE FreeThreadedProofs -------------------------
(***************************************************************************)
(* Theorems about FreeThreaded, for any calls, threads, chunks, paths and  *)
(* collections.                                                            *)
(***************************************************************************)
EXTENDS FreeThreaded, SequenceTheorems, TLAPS

-----------------------------------------------------------------------------
(* Stacks                                                                  *)

LEMMA OnStacksDef ==
  ASSUME NEW job
  PROVE  job \in OnStacks <=> \E p \in Pool : \E i \in 1..Len(stack[p]) : stack[p][i] = job
BY DEF OnStacks

\* A job is put on top of the others.
LEMMA PushKeeps ==
  ASSUME TypeOK, OnePlace, NEW p \in Pool, NEW job \in Jobs, job \notin OnStacks,
         Push(p, job), queue' \cap (OnStacks \cup {job}) = {}
  PROVE  /\ stack' \in [Pool -> Seq(Jobs)]
         /\ OnStacks' = OnStacks \cup {job}
         /\ OnePlace'
<1> DEFINE s == stack[p]
           t == <<job>> \o s
<1>1. s \in Seq(Jobs) /\ Len(s) \in Nat /\ <<job>> \in Seq(Jobs) /\ Len(<<job>>) = 1
  BY DEF TypeOK
<1>2. /\ t \in Seq(Jobs) /\ Len(t) = Len(s) + 1
      /\ \A i \in 1..Len(t) : t[i] = IF i = 1 THEN job ELSE s[i - 1]
  <2>1. /\ t \in Seq(Jobs) /\ Len(t) = 1 + Len(s)
        /\ \A i \in 1..(1 + Len(s)) : t[i] = IF i <= 1 THEN <<job>>[i] ELSE s[i - 1]
    BY <1>1, ConcatProperties
  <2> QED
    BY <2>1, <1>1
<1>3. stack'[p] = t /\ \A q \in Pool \ {p} : stack'[q] = stack[q]
  BY DEF Push, TypeOK
<1>4. stack' \in [Pool -> Seq(Jobs)]
  BY <1>2 DEF Push, TypeOK
<1> HIDE DEF s, t
<1>5. ASSUME NEW j
      PROVE  (\E i \in 1..Len(stack'[p]) : stack'[p][i] = j)
               <=> j = job \/ \E i \in 1..Len(stack[p]) : stack[p][i] = j
  <2>1. \A i \in 1..Len(s) : i + 1 \in 1..Len(t) /\ t[i + 1] = s[i]
    BY <1>1, <1>2
  <2>2. \A i \in 1..Len(t) : i = 1 \/ i - 1 \in 1..Len(s)
    BY <1>1, <1>2
  <2>3. 1 \in 1..Len(t) /\ t[1] = job
    BY <1>1, <1>2
  <2>4. ASSUME NEW i \in 1..Len(s), s[i] = j PROVE \E k \in 1..Len(t) : t[k] = j
    BY <2>1, <2>4
  <2>5. ASSUME NEW i \in 1..Len(t), t[i] = j, j # job
        PROVE  \E k \in 1..Len(s) : s[k] = j
    <3>1. i # 1
      BY <2>3, <2>5
    <3>2. i - 1 \in 1..Len(s) /\ s[i - 1] = j
      BY <3>1, <2>2, <2>5, <1>2
    <3> QED
      BY <3>2
  <2> QED
    BY <2>3, <2>4, <2>5, <1>3 DEF s
<1>6. OnStacks' = OnStacks \cup {job}
  <2> SUFFICES ASSUME NEW j PROVE j \in OnStacks' <=> j \in OnStacks \/ j = job
    OBVIOUS
  <2>1. j \in OnStacks' <=> \E q \in Pool : \E i \in 1..Len(stack'[q]) : stack'[q][i] = j
    BY DEF OnStacks
  <2> DEFINE in(q) == \E i \in 1..Len(stack[q]) : stack[q][i] = j
             inNow(q) == \E i \in 1..Len(stack'[q]) : stack'[q][i] = j
  <2>2. \A q \in Pool \ {p} : inNow(q) <=> in(q)
    BY <1>3
  <2>3. inNow(p) <=> in(p) \/ j = job
    BY <1>5
  <2>4. j \in OnStacks <=> \E q \in Pool : in(q)
    BY OnStacksDef
  <2> HIDE DEF in, inNow
  <2>5. j \in OnStacks' <=> \E q \in Pool : inNow(q)
    BY <2>1 DEF inNow
  <2> QED
    BY <2>2, <2>3, <2>4, <2>5
<1>7. OnePlace'
  <2> SUFFICES ASSUME NEW q \in Pool, NEW r \in Pool,
                      NEW i \in 1..Len(stack'[q]), NEW j \in 1..Len(stack'[r]),
                      stack'[q][i] = stack'[r][j]
               PROVE  q = r /\ i = j
    BY <1>6 DEF OnePlace
  <2>1. \A u \in Pool : \A k \in 1..Len(stack[u]) : stack[u][k] # job
    BY OnStacksDef
  <2>2. ASSUME NEW u \in Pool, NEW k \in 1..Len(stack'[u])
        PROVE  /\ k \in Nat
               /\ \/ u = p /\ k = 1 /\ stack'[u][k] = job
                  \/ u = p /\ k - 1 \in 1..Len(stack[u]) /\ stack'[u][k] = stack[u][k - 1]
                  \/ u # p /\ k \in 1..Len(stack[u]) /\ stack'[u][k] = stack[u][k]
    BY <2>2, <1>1, <1>2, <1>3 DEF s
  <2>3. CASE stack'[q][i] = job
    <3>1. q = p /\ i = 1
      BY <2>1, <2>2, <2>3
    <3>2. stack'[r][j] = job
      BY <2>3
    <3>3. r = p /\ j = 1
      BY <2>1, <2>2, <3>2
    <3> QED
      BY <3>1, <3>3
  <2>4. CASE stack'[q][i] # job
    <3> DEFINE a == IF q = p THEN i - 1 ELSE i
               b == IF r = p THEN j - 1 ELSE j
    <3>1. a \in 1..Len(stack[q]) /\ stack'[q][i] = stack[q][a]
      BY <2>2, <2>4
    <3>2. b \in 1..Len(stack[r]) /\ stack'[r][j] = stack[r][b]
      BY <2>2, <2>4
    <3>3. q = r /\ a = b
      <4> HIDE DEF a, b
      <4>1. stack[q][a] = stack[r][b]
        BY <3>1, <3>2
      <4> QED
        BY <3>1, <3>2, <4>1 DEF OnePlace
    <3>4. i \in Nat /\ j \in Nat
      BY <2>2
    <3> QED
      BY <3>3, <3>4
  <2> QED
    BY <2>3, <2>4
<1> QED
  BY <1>4, <1>6, <1>7

\* The job on top is taken off.
LEMMA PopKeeps ==
  ASSUME TypeOK, OnePlace, NEW p \in Pool, stack[p] # <<>>, Pop(p), queue' = queue
  PROVE  /\ stack' \in [Pool -> Seq(Jobs)]
         /\ Top(p) \in Jobs /\ Top(p) \in OnStacks
         /\ OnStacks' = OnStacks \ {Top(p)}
         /\ OnePlace'
<1> DEFINE s == stack[p]
           t == Tail(s)
<1>1. s \in Seq(Jobs) /\ Len(s) \in Nat
  BY DEF TypeOK
<1>2. /\ Head(s) \in Jobs /\ t \in Seq(Jobs) /\ Len(t) = Len(s) - 1
      /\ \A i \in 1..Len(t) : t[i] = s[i + 1]
  BY <1>1, HeadTailProperties
<1>3. Len(t) \in Nat /\ 1 \in 1..Len(s) /\ Head(s) = s[1]
  <2>1. Len(t) \in Nat
    BY <1>2
  <2> QED
    BY <2>1, <1>1, <1>2
<1>4. stack'[p] = t /\ \A q \in Pool \ {p} : stack'[q] = stack[q]
  BY DEF Pop, TypeOK
<1>5. stack' \in [Pool -> Seq(Jobs)]
  BY <1>2 DEF Pop, TypeOK
<1> HIDE DEF s, t
<1>6. Top(p) = s[1] /\ Top(p) \in Jobs /\ Top(p) \in OnStacks
  BY <1>2, <1>3, OnStacksDef DEF Top, s
<1>7. ASSUME NEW u \in Pool, NEW k \in 1..Len(stack'[u])
      PROVE  \/ u = p /\ k + 1 \in 1..Len(stack[u]) /\ k + 1 # 1
                /\ stack'[u][k] = stack[u][k + 1]
             \/ u # p /\ k \in 1..Len(stack[u]) /\ stack'[u][k] = stack[u][k]
  BY <1>1, <1>2, <1>3, <1>4, <1>7 DEF s
<1>8. OnStacks' = OnStacks \ {Top(p)}
  <2> SUFFICES ASSUME NEW j PROVE j \in OnStacks' <=> j \in OnStacks /\ j # Top(p)
    OBVIOUS
  <2>1. j \in OnStacks' <=> \E q \in Pool : \E i \in 1..Len(stack'[q]) : stack'[q][i] = j
    BY DEF OnStacks
  <2>2. ASSUME NEW q \in Pool, NEW i \in 1..Len(stack'[q]), stack'[q][i] = j
        PROVE  j \in OnStacks /\ j # Top(p)
    <3>1. PICK k \in 1..Len(stack[q]) : stack[q][k] = j /\ ~(q = p /\ k = 1)
      BY <2>2, <1>7
    <3>2. j \in OnStacks
      BY <3>1, OnStacksDef
    <3>3. stack[p][1] = Top(p) /\ 1 \in 1..Len(stack[p])
      BY <1>3, <1>6 DEF s
    <3> QED
      BY <3>1, <3>2, <3>3 DEF OnePlace
  <2>3. ASSUME NEW q \in Pool, NEW i \in 1..Len(stack[q]), stack[q][i] = j, j # Top(p)
        PROVE  \E k \in 1..Len(stack'[q]) : stack'[q][k] = j
    <3>1. CASE q # p
      BY <3>1, <2>3, <1>4
    <3>2. CASE q = p
      <4>1. i # 1 /\ i \in 1..Len(s) /\ s[i] = j
        BY <3>2, <2>3, <1>6 DEF s
      <4>2. i - 1 \in 1..Len(t) /\ t[i - 1] = s[i]
        BY <4>1, <1>1, <1>2
      <4> QED
        BY <4>1, <4>2, <3>2, <1>4
    <3> QED
      BY <3>1, <3>2
  <2> QED
    BY <2>1, <2>2, <2>3, OnStacksDef
<1>9. OnePlace'
  <2> SUFFICES ASSUME NEW q \in Pool, NEW r \in Pool,
                      NEW i \in 1..Len(stack'[q]), NEW j \in 1..Len(stack'[r]),
                      stack'[q][i] = stack'[r][j]
               PROVE  q = r /\ i = j
    BY <1>8 DEF OnePlace
  <2>1. i \in Nat /\ j \in Nat
    BY <1>1, <1>3, <1>4, <1>5
  <2> DEFINE a == IF q = p THEN i + 1 ELSE i
             b == IF r = p THEN j + 1 ELSE j
  <2>2. a \in 1..Len(stack[q]) /\ stack'[q][i] = stack[q][a]
    BY <1>7
  <2>3. b \in 1..Len(stack[r]) /\ stack'[r][j] = stack[r][b]
    BY <1>7
  <2>4. q = r /\ a = b
    <3> HIDE DEF a, b
    <3>1. stack[q][a] = stack[r][b]
      BY <2>2, <2>3
    <3> QED
      BY <2>2, <2>3, <3>1 DEF OnePlace
  <2> QED
    BY <2>1, <2>4
<1> QED
  BY <1>5, <1>6, <1>8, <1>9

-----------------------------------------------------------------------------
(* Jobs                                                                    *)

\* A call whose scope is not open has no job anywhere; one whose scope's body
\* is still queued has no chunk anywhere.
LEMMA NoJobs ==
  ASSUME ScopeInv, NEW c \in Calls, ~running[c]
  PROVE  <<c, 0>> \notin queue /\ <<c, 0>> \notin OnStacks /\ Unfinished(c) = {}
BY DEF ScopeInv

LEMMA NoChunks ==
  ASSUME OnePlace, ScopeInv, NEW c \in Calls, <<c, 0>> \in queue
  PROVE  /\ <<c, 0>> \notin OnStacks
         /\ \A k \in Nat \ {0} : <<c, k>> \notin queue \cup OnStacks
<1>1. <<c, 0>> \notin OnStacks
  BY DEF OnePlace
<1>2. Unfinished(c) = {}
  BY <1>1 DEF ScopeInv
<1> QED
  BY <1>1, <1>2 DEF Unfinished

LEMMA JobsKept ==
  ASSUME OnePlace, ScopeInv, UNCHANGED <<running, queue, stack>>,
         \A c \in Calls : running[c] => pc'[c] = "wait"
  PROVE  OnePlace' /\ ScopeInv'
<1>1. OnStacks' = OnStacks
  BY DEF OnStacks
<1> QED
  BY <1>1 DEF OnePlace, ScopeInv, Unfinished

\* A chunk leaves its stack for good.
LEMMA ChunkDone ==
  ASSUME TypeOK, OnePlace, ScopeInv, NEW p \in Pool, InChunk(p), Pop(p),
         UNCHANGED <<pc, running, queue>>
  PROVE  stack' \in [Pool -> Seq(Jobs)] /\ OnePlace' /\ ScopeInv'
<1>1. /\ stack' \in [Pool -> Seq(Jobs)] /\ OnePlace'
      /\ OnStacks' = OnStacks \ {Top(p)} /\ Top(p)[2] # 0
  BY PopKeeps DEF InChunk
<1>2. \A c \in Calls : /\ <<c, 0>> \in OnStacks' <=> <<c, 0>> \in OnStacks
                       /\ Unfinished(c)' \subseteq Unfinished(c)
  BY <1>1 DEF Unfinished
<1> QED
  BY <1>1, <1>2 DEF ScopeInv

\* What InChunk says of the job on top.
LEMMA TopChunk ==
  ASSUME TypeOK, NEW p \in Pool, InChunk(p)
  PROVE  Top(p)[1] \in Calls /\ Top(p)[2] \in 1..MaxLen
<1>1. Top(p) \in Calls \X (0..MaxLen)
  BY HeadTailProperties DEF TypeOK, InChunk, Top, Jobs
<1> QED
  BY <1>1, FreeThreadedAssumption DEF InChunk

LEMMA PrepareKeeps ==
  ASSUME TypeOK, OnePlace, ScopeInv, NEW c \in Calls, Prepare(c)
  PROVE  OnePlace' /\ ScopeInv'
<1>1. PICK n \in Sizes :
        /\ running' = [running EXCEPT ![c] = n > 0]
        /\ queue' = IF n > 0 THEN queue \cup {<<c, 0>>} ELSE queue
  BY DEF Prepare
<1>2. /\ pc[c] = "prepare" /\ pc' = [pc EXCEPT ![c] = "wait"]
      /\ OnStacks' = OnStacks /\ stack' = stack
  BY DEF Prepare, OnStacks
<1>3. ~running[c]
  BY <1>2 DEF ScopeInv
<1>4. <<c, 0>> \notin queue /\ <<c, 0>> \notin OnStacks /\ Unfinished(c) = {}
  BY <1>3, NoJobs
<1>5. OnePlace'
  BY <1>1, <1>2, <1>4 DEF OnePlace
<1>6. ScopeInv'
  <2> SUFFICES ASSUME NEW d \in Calls
               PROVE  /\ running'[d] => pc'[d] = "wait"
                      /\ <<d, 0>> \in queue' \cup OnStacks' => running'[d]
                      /\ Unfinished(d)' # {} => <<d, 0>> \in OnStacks'
    BY DEF ScopeInv
  <2>1. Unfinished(d)' = Unfinished(d)
    BY <1>1, <1>2 DEF Unfinished
  <2>2. CASE d = c
    <3>1. running'[c] = (n > 0) /\ pc'[c] = "wait"
      BY <1>1, <1>2 DEF TypeOK
    <3> QED
      BY <2>1, <2>2, <3>1, <1>1, <1>2, <1>4
  <2>3. CASE d # c
    <3>1. running'[d] = running[d] /\ pc'[d] = pc[d]
      BY <2>3, <1>1, <1>2 DEF TypeOK
    <3>2. <<d, 0>> \in queue' <=> <<d, 0>> \in queue
      BY <2>3, <1>1
    <3> QED
      BY <2>1, <3>1, <3>2, <1>2 DEF ScopeInv
  <2> QED
    BY <2>2, <2>3
<1> QED
  BY <1>5, <1>6

LEMMA TakeBodyKeeps ==
  ASSUME TypeOK, OnePlace, ScopeInv, NEW p \in Pool, TakeBody(p)
  PROVE  /\ queue' \subseteq Jobs /\ stack' \in [Pool -> Seq(Jobs)]
         /\ OnePlace' /\ ScopeInv'
<1>1. PICK c \in Calls :
        /\ <<c, 0>> \in queue /\ Push(p, <<c, 0>>)
        /\ queue' = (queue \ {<<c, 0>>}) \cup ({c} \X (1..size[c]))
  BY DEF TakeBody
<1>2. UNCHANGED <<pc, running>>
  BY DEF TakeBody
<1>3. <<c, 0>> \in Jobs /\ size[c] \in 0..MaxLen /\ MaxLen \in Nat /\ queue \subseteq Jobs
  BY <1>1, FreeThreadedAssumption DEF TypeOK
<1>4. queue' \subseteq Jobs
  BY <1>1, <1>3 DEF Jobs
<1>5. /\ <<c, 0>> \notin OnStacks
      /\ \A k \in Nat \ {0} : <<c, k>> \notin queue \cup OnStacks
  BY <1>1, NoChunks
<1>6. queue' \cap (OnStacks \cup {<<c, 0>>}) = {}
  <2>1. \A k \in 1..size[c] : k \in Nat \ {0}
    BY <1>3
  <2> QED
    BY <2>1, <1>1, <1>5 DEF OnePlace
<1>7. /\ stack' \in [Pool -> Seq(Jobs)] /\ OnePlace'
      /\ OnStacks' = OnStacks \cup {<<c, 0>>}
  BY <1>1, <1>3, <1>5, <1>6, PushKeeps
<1>8. ScopeInv'
  <2> SUFFICES ASSUME NEW d \in Calls
               PROVE  /\ running[d] => pc[d] = "wait"
                      /\ <<d, 0>> \in queue' \cup OnStacks' => running[d]
                      /\ Unfinished(d)' # {} => <<d, 0>> \in OnStacks'
    BY <1>2 DEF ScopeInv
  <2>1. <<d, 0>> \in queue' => <<d, 0>> \in queue
    BY <1>1, <1>3
  <2>2. CASE d = c
    BY <2>1, <2>2, <1>1, <1>7 DEF ScopeInv
  <2>3. CASE d # c
    <3>1. Unfinished(d)' = Unfinished(d)
      BY <2>3, <1>1, <1>7 DEF Unfinished
    <3> QED
      BY <2>1, <2>3, <3>1, <1>7 DEF ScopeInv
  <2> QED
    BY <2>2, <2>3
<1> QED
  BY <1>4, <1>7, <1>8

LEMMA TakeChunkKeeps ==
  ASSUME TypeOK, OnePlace, ScopeInv, NEW p \in Pool, TakeChunk(p)
  PROVE  /\ queue' \subseteq Jobs /\ stack' \in [Pool -> Seq(Jobs)]
         /\ OnePlace' /\ ScopeInv'
<1>1. PICK job \in queue : job[2] # 0 /\ queue' = queue \ {job} /\ Push(p, job)
  BY DEF TakeChunk
<1>2. UNCHANGED <<pc, running>> /\ queue \subseteq Jobs
  BY DEF TakeChunk, TypeOK
<1>3. /\ stack' \in [Pool -> Seq(Jobs)] /\ OnePlace'
      /\ OnStacks' = OnStacks \cup {job}
  <2>1. job \in Jobs /\ job \notin OnStacks /\ queue' \cap (OnStacks \cup {job}) = {}
    BY <1>1, <1>2 DEF OnePlace
  <2> QED
    BY <2>1, <1>1, PushKeeps
<1>4. queue' \cup OnStacks' = queue \cup OnStacks
  BY <1>1, <1>3
<1>5. \A c \in Calls : Unfinished(c)' = Unfinished(c)
  BY <1>4 DEF Unfinished
<1> QED
  BY <1>1, <1>2, <1>3, <1>4, <1>5 DEF ScopeInv

LEMMA CloseScopeKeeps ==
  ASSUME TypeOK, OnePlace, ScopeInv, NEW p \in Pool, CloseScope(p)
  PROVE  /\ stack' \in [Pool -> Seq(Jobs)] /\ running' \in [Calls -> BOOLEAN]
         /\ OnePlace' /\ ScopeInv'
<1>1. /\ stack[p] # <<>> /\ Top(p)[2] = 0 /\ Unfinished(Top(p)[1]) = {}
      /\ running' = [running EXCEPT ![Top(p)[1]] = FALSE]
      /\ Pop(p) /\ UNCHANGED <<pc, queue>>
  BY DEF CloseScope, InBody
<1>2. /\ stack' \in [Pool -> Seq(Jobs)] /\ OnePlace'
      /\ Top(p) \in Jobs /\ Top(p) \in OnStacks
      /\ OnStacks' = OnStacks \ {Top(p)}
  BY <1>1, PopKeeps
<1>3. PICK c \in Calls : Top(p) = <<c, 0>>
  BY <1>1, <1>2 DEF Jobs
<1>4. running' = [running EXCEPT ![c] = FALSE] /\ Unfinished(c) = {}
  BY <1>1, <1>3
<1>5. ScopeInv'
  <2> SUFFICES ASSUME NEW d \in Calls
               PROVE  /\ running'[d] => pc[d] = "wait"
                      /\ <<d, 0>> \in queue \cup OnStacks' => running'[d]
                      /\ Unfinished(d)' # {} => <<d, 0>> \in OnStacks'
    BY <1>1 DEF ScopeInv
  <2>1. Unfinished(d)' = Unfinished(d)
    BY <1>1, <1>2, <1>3 DEF Unfinished
  <2>2. CASE d = c
    <3>1. <<c, 0>> \notin queue \cup OnStacks'
      BY <1>2, <1>3 DEF OnePlace
    <3> QED
      BY <2>1, <2>2, <3>1, <1>4 DEF TypeOK
  <2>3. CASE d # c
    <3>1. running'[d] = running[d] /\ (<<d, 0>> \in OnStacks' <=> <<d, 0>> \in OnStacks)
      BY <2>3, <1>2, <1>3, <1>4 DEF TypeOK
    <3> QED
      BY <2>1, <3>1 DEF ScopeInv
  <2> QED
    BY <2>2, <2>3
<1>6. running' \in [Calls -> BOOLEAN]
  BY <1>4 DEF TypeOK
<1> QED
  BY <1>2, <1>5, <1>6

-----------------------------------------------------------------------------
(* The three parts of the invariant                                        *)

LEMMA TypeInit == Init => TypeOK
<1>1. None \in Threads \cup {None}
  OBVIOUS
<1>2. <<>> \in Seq(Jobs)
  OBVIOUS
<1> QED
  BY <1>1, <1>2, FreeThreadedAssumption DEF Init, TypeOK

LEMMA CallTypes ==
  ASSUME TypeOK, PathInv, NEW c \in Calls, Begin(c) \/ CallStep(c)
  PROVE  TypeOK'
<1> USE DEF TypeOK
<1>0. c \in Threads /\ MaxLen \in Nat /\ Sizes \subseteq 0..MaxLen
  BY FreeThreadedAssumption DEF Threads
<1>1. CASE Begin(c)
  BY <1>1, <1>0 DEF Begin, worldVars, pathVars, jobVars
<1>2. CASE Lock(c)
  <2>1. c \in RayonCalls
    BY <1>2 DEF Lock, PathInv
  <2> QED
    BY <1>2, <1>0, <2>1 DEF Lock, worldVars, jobVars
<1>3. CASE Patch(c)
  <2>1. Path[c] \in Lists
    BY <1>3 DEF Patch, PathInv, Lists
  <2> QED
    BY <1>3, <1>0, <2>1 DEF Patch, worldVars, jobVars
<1>4. CASE PatchFails(c)
  BY <1>4, <1>0 DEF PatchFails, End, Ended, worldVars, jobVars
<1>5. CASE Prepare(c)
  <2>1. <<c, 0>> \in Jobs
    BY <1>0 DEF Jobs
  <2>2. PICK n \in Sizes :
          /\ size' = [size EXCEPT ![c] = n]
          /\ running' = [running EXCEPT ![c] = n > 0]
          /\ queue' = IF n > 0 THEN queue \cup {<<c, 0>>} ELSE queue
    BY <1>5 DEF Prepare
  <2>3. n \in 0..MaxLen /\ (n > 0) \in BOOLEAN
    BY <1>0
  <2>4. size' \in [Calls -> 0..MaxLen] /\ running' \in [Calls -> BOOLEAN]
    BY <2>2, <2>3
  <2>5. queue' \subseteq Jobs
    BY <2>1, <2>2
  <2>6. state' \in [Threads -> {"in", "out", "parked"}]
    BY <1>5, <1>0 DEF Prepare
  <2>7. pc' \in [Calls -> {"idle", "lock", "patch", "prepare", "wait", "return"} \cup Ended]
    BY <1>5 DEF Prepare
  <2> QED
    BY <1>5, <2>4, <2>5, <2>6, <2>7 DEF Prepare, worldVars, pathVars
<1>6. CASE PrepareFails(c)
  BY <1>6, <1>0 DEF PrepareFails, End, Ended, worldVars, pathVars, jobVars
<1>7. CASE Wake(c)
  BY <1>7, <1>0 DEF Wake, worldVars, pathVars, jobVars
<1>8. CASE Return(c)
  BY <1>8, <1>0 DEF Return, End, Ended, worldVars, pathVars, jobVars
<1> QED
  BY <1>1, <1>2, <1>3, <1>4, <1>5, <1>6, <1>7, <1>8 DEF CallStep

LEMMA PoolTypes ==
  ASSUME TypeOK, OnePlace, ScopeInv, NEW p \in Pool, PoolStep(p)
  PROVE  TypeOK'
<1> USE DEF TypeOK
<1>1. CASE TakeBody(p)
  BY <1>1, TakeBodyKeeps DEF TakeBody, worldVars, pathVars
<1>2. CASE TakeChunk(p)
  BY <1>2, TakeChunkKeeps DEF TakeChunk, worldVars, pathVars
<1>3. CASE RunKernel(p)
  <2>1. stack' \in [Pool -> Seq(Jobs)]
    BY <1>3, ChunkDone DEF RunKernel
  <2> QED
    BY <2>1, <1>3, TopChunk DEF RunKernel, Settle, worldVars, pathVars
<1>4. CASE Attach(p)
  BY <1>4 DEF Attach, Threads, worldVars, pathVars, jobVars
<1>5. CASE CallElements(p)
  <2>1. stack' \in [Pool -> Seq(Jobs)]
    BY <1>5, ChunkDone DEF CallElements
  <2> QED
    BY <2>1, <1>5, TopChunk DEF CallElements, Settle, worldVars, pathVars
<1>6. CASE ElementRaises(p)
  BY <1>6, TopChunk DEF ElementRaises, Settle, worldVars, pathVars
<1>7. CASE Record(p)
  <2>1. stack' \in [Pool -> Seq(Jobs)]
    BY <1>7, ChunkDone DEF Record
  <2>2. firstErr' \in [Calls -> 0..MaxLen]
    BY <1>7, TopChunk, FreeThreadedAssumption DEF Record
  <2> QED
    BY <2>1, <2>2, <1>7 DEF Record, worldVars, pathVars
<1>8. CASE CloseScope(p)
  BY <1>8, CloseScopeKeeps DEF CloseScope, worldVars, pathVars
<1> QED
  BY <1>1, <1>2, <1>3, <1>4, <1>5, <1>6, <1>7, <1>8 DEF PoolStep

LEMMA WorldTypes ==
  ASSUME TypeOK, NEW t \in Threads, StopWorld(t) \/ Park(t) \/ StartWorld(t)
  PROVE  TypeOK'
<1> USE DEF TypeOK, pathVars, jobVars
<1>1. CASE StopWorld(t)
  BY <1>1, FreeThreadedAssumption DEF StopWorld
<1>2. CASE Park(t)
  BY <1>2 DEF Park, worldVars
<1>3. CASE StartWorld(t)
  BY <1>3 DEF StartWorld
<1> QED
  BY <1>1, <1>2, <1>3

\* Steps that neither move a call nor touch the paths.
LEMMA PathsKept ==
  ASSUME PathInv, UNCHANGED <<pc, pathVars>>
  PROVE  PathInv'
BY DEF PathInv, ImportsPatched, pathVars

LEMMA PathStep ==
  ASSUME TypeOK, PathInv, NEW c \in Calls, Begin(c) \/ CallStep(c)
  PROVE  PathInv'
<1> USE DEF TypeOK, PathInv, ImportsPatched
<1>1. CASE Begin(c)
  BY <1>1 DEF Begin, pathVars
<1>2. CASE Lock(c)
  <2>1. c \in RayonCalls /\ Path[c] \in Lists /\ Path[c] # None
    BY <1>2, FreeThreadedAssumption DEF Lock, Lists
  <2>2. UNCHANGED <<lastPath, patched>>
    BY <1>2 DEF Lock
  <2>3. CASE lastPath = Path[c]
    <3>1. Path[c] \in patched /\ pc' = [pc EXCEPT ![c] = "prepare"]
      BY <1>2, <2>1, <2>3 DEF Lock
    <3> QED
      BY <2>1, <2>2, <3>1
  <2>4. CASE lastPath # Path[c]
    <3>1. pc' = [pc EXCEPT ![c] = "patch"]
      BY <1>2, <2>4 DEF Lock
    <3> QED
      BY <2>1, <2>2, <3>1
  <2> QED
    BY <2>3, <2>4
<1>3. CASE Patch(c)
  BY <1>3 DEF Patch
<1>4. CASE PatchFails(c)
  BY <1>4 DEF PatchFails, End
<1>5. CASE Prepare(c)
  BY <1>5 DEF Prepare, pathVars
<1>6. CASE PrepareFails(c)
  BY <1>6 DEF PrepareFails, End, pathVars
<1>7. CASE Wake(c)
  <2>1. pc[c] = "wait" /\ pc' = [pc EXCEPT ![c] = "return"] /\ UNCHANGED pathVars
    BY <1>7 DEF Wake
  <2> QED
    BY <2>1 DEF pathVars
<1>8. CASE Return(c)
  <2>1. /\ pc' = [pc EXCEPT ![c] = IF firstErr[c] = 0 THEN "ok" ELSE "failed"]
        /\ UNCHANGED pathVars
    BY <1>8 DEF Return, End
  <2> QED
    BY <2>1 DEF pathVars
<1> QED
  BY <1>1, <1>2, <1>3, <1>4, <1>5, <1>6, <1>7, <1>8 DEF CallStep

LEMMA CallJobs ==
  ASSUME TypeOK, OnePlace, ScopeInv, NEW c \in Calls, Begin(c) \/ CallStep(c)
  PROVE  OnePlace' /\ ScopeInv'
<1>1. CASE Prepare(c)
  BY <1>1, PrepareKeeps
<1>2. CASE ~Prepare(c)
  <2>1. UNCHANGED jobVars
    BY <1>2 DEF CallStep, Begin, Lock, Patch, PatchFails, PrepareFails, Wake, Return
  <2>2. ~running[c] /\ \A d \in Calls \ {c} : pc'[d] = pc[d]
    <3>1. pc[c] # "wait" \/ ~running[c]
      BY <1>2 DEF CallStep, Begin, Lock, Patch, PatchFails, PrepareFails, Wake, Return
    <3>2. \A d \in Calls \ {c} : pc'[d] = pc[d]
      BY <1>2 DEF CallStep, Begin, Lock, Patch, PatchFails, PrepareFails, Wake, Return,
                  End, TypeOK
    <3> QED
      BY <3>1, <3>2 DEF ScopeInv
  <2>3. \A d \in Calls : running[d] => pc'[d] = "wait"
    BY <2>2 DEF ScopeInv
  <2> QED
    BY <2>1, <2>3, JobsKept DEF jobVars
<1> QED
  BY <1>1, <1>2

LEMMA PoolJobs ==
  ASSUME TypeOK, OnePlace, ScopeInv, NEW p \in Pool, PoolStep(p)
  PROVE  OnePlace' /\ ScopeInv'
<1>1. CASE TakeBody(p)
  BY <1>1, TakeBodyKeeps
<1>2. CASE TakeChunk(p)
  BY <1>2, TakeChunkKeeps
<1>3. CASE RunKernel(p) \/ CallElements(p) \/ Record(p)
  BY <1>3, ChunkDone DEF RunKernel, CallElements, Record
<1>4. CASE Attach(p) \/ ElementRaises(p)
  <2>1. UNCHANGED <<pc, running, queue, stack>>
    BY <1>4 DEF Attach, ElementRaises, jobVars
  <2> QED
    BY <2>1, JobsKept DEF ScopeInv
<1>5. CASE CloseScope(p)
  BY <1>5, CloseScopeKeeps
<1> QED
  BY <1>1, <1>2, <1>3, <1>4, <1>5 DEF PoolStep

-----------------------------------------------------------------------------
LEMMA InitInv == Init => IInv
<1> SUFFICES ASSUME Init PROVE IInv
  OBVIOUS
<1>1. TypeOK
  BY TypeInit
<1>2. PathInv
  BY DEF Init, PathInv, ImportsPatched, Calls
<1>3. OnStacks = {}
  BY DEF Init, OnStacks
<1>4. OnePlace /\ ScopeInv
  BY <1>3 DEF Init, OnePlace, ScopeInv, Unfinished
<1> QED
  BY <1>1, <1>2, <1>4 DEF IInv

LEMMA NextInv == IInv /\ [Next]_vars => IInv'
<1> SUFFICES ASSUME IInv, [Next]_vars PROVE IInv'
  OBVIOUS
<1> USE DEF IInv
<1>1. ASSUME NEW c \in Calls, Begin(c) \/ CallStep(c) PROVE IInv'
  BY <1>1, CallTypes, PathStep, CallJobs
<1>2. ASSUME NEW p \in Pool, PoolStep(p) PROVE IInv'
  <2>1. UNCHANGED <<pc, pathVars>>
    BY <1>2 DEF PoolStep, TakeBody, TakeChunk, RunKernel, Attach, CallElements,
                ElementRaises, Record, CloseScope
  <2> QED
    BY <2>1, <1>2, PoolTypes, PathsKept, PoolJobs
<1>3. ASSUME NEW t \in Threads, StopWorld(t) \/ Park(t) \/ StartWorld(t) PROVE IInv'
  <2>1. UNCHANGED <<pc, pathVars, jobVars>>
    BY <1>3 DEF StopWorld, Park, StartWorld
  <2>2. OnePlace' /\ ScopeInv'
    BY <2>1, JobsKept DEF jobVars, ScopeInv
  <2> QED
    BY <2>1, <2>2, <1>3, WorldTypes, PathsKept
<1>4. CASE UNCHANGED vars
  <2>1. TypeOK'
    BY <1>4 DEF vars, worldVars, pathVars, jobVars, TypeOK
  <2>2. OnePlace' /\ ScopeInv'
    BY <1>4, JobsKept DEF vars, jobVars, ScopeInv
  <2>3. PathInv'
    BY <1>4, PathsKept DEF vars
  <2> QED
    BY <2>1, <2>2, <2>3
<1> QED
  BY <1>1, <1>2, <1>3, <1>4 DEF Next

\* A job is in one place, below a body whose scope is open, and nobody is past
\* the patch of a list that is not in sys.path.
THEOREM Invariant == Spec => []IInv
BY InitInv, NextInv, PTL DEF Spec

\* States, stacks and outcomes keep their types, for any calls and pool.
THEOREM TypeCorrect == Spec => []TypeOK
<1>1. IInv => TypeOK
  BY DEF IInv
<1> QED
  BY <1>1, Invariant, PTL

\* No job of a call is queued or at work once the call is past its scope, however
\* deep the stacks of the pool are nested.
THEOREM ScopesOutliveJobs == Spec => []ScopeOutlivesJobs
<1>1. IInv => ScopeOutlivesJobs
  BY DEF IInv, ScopeInv, ScopeOutlivesJobs
<1> QED
  BY <1>1, Invariant, PTL

\* A function is imported only after the list of its own call is in sys.path,
\* whatever other calls patched, failed to patch or remembered.
THEOREM ImportsFindTheirPath == Spec => []ImportsPatched
<1>1. IInv => ImportsPatched
  BY DEF IInv, PathInv
<1> QED
  BY <1>1, Invariant, PTL
=============================================================================
