---------------------------- MODULE RouterProofs ----------------------------
(***************************************************************************)
(* Theorems about Router, for any number of threads, functions, addresses  *)
(* and arrays, and whatever the functions look like to the detectors.      *)
(***************************************************************************)
EXTENDS Router, TLAPS

LEMMA DecideType == ASSUME NEW f \in Funcs PROVE Decide(f) \in Decisions
<1>1. Shape[f] \in Shapes
  BY RouterAssumption
<1> QED
  BY <1>1 DEF Decide, Decisions, Backends, Shapes, Lanes, JitLane

-----------------------------------------------------------------------------
(* Parts of the invariant a step of one thread keeps.                      *)

\* The threads other than the one that steps.
LEMMA OtherCallsKept ==
  ASSUME CallInv, UNCHANGED object, NEW t \in Threads,
         \A u \in Threads \ {t} :
           /\ pc'[u] = pc[u] /\ func'[u] = func[u] /\ input'[u] = input[u]
           /\ decision'[u] = decision[u] /\ outcome'[u] = outcome[u],
         pc'[t] # "idle" => func'[t] \in Funcs /\ object[func'[t]] = "live",
         pc'[t] \in {"store", "watch", "decided", "run"} =>
           decision'[t] = Decide(func'[t]),
         pc'[t] = "run" => input'[t] # None,
         outcome'[t] = "ValueError" =>
           func'[t] \in Funcs /\ Decide(func'[t]).backend = "subinterp"
  PROVE  CallInv'
<1> SUFFICES ASSUME NEW u \in Threads
             PROVE  /\ pc'[u] # "idle" => func'[u] \in Funcs /\ object[func'[u]] = "live"
                    /\ pc'[u] \in {"store", "watch", "decided", "run"} =>
                         decision'[u] = Decide(func'[u])
                    /\ pc'[u] = "run" => input'[u] # None
                    /\ outcome'[u] = "ValueError" =>
                         func'[u] \in Funcs /\ Decide(func'[u]).backend = "subinterp"
  BY DEF CallInv
<1>1. CASE u = t
  BY <1>1
<1>2. CASE u # t
  BY <1>2 DEF CallInv
<1> QED
  BY <1>1, <1>2

\* A step of a thread that is not between Store and Watch, and touches neither
\* the caches nor the objects.
LEMMA CachesKept ==
  ASSUME IInv, UNCHANGED <<objectVars, cacheVars>>, NEW t \in Threads,
         pc[t] # "watch", pc[t] # "idle" \/ ~resetting,
         \A u \in Threads \ {t} : pc'[u] = pc[u] /\ func'[u] = func[u]
  PROVE  AddressInv' /\ NoStaleDecision' /\ WatchInv' /\ ResetInv'
<1> USE DEF objectVars, cacheVars
<1>1. AddressInv'
  BY DEF IInv, AddressInv
<1>2. NoStaleDecision'
  BY DEF IInv, NoStaleDecision
<1>3. WatchInv'
  <2> SUFFICES ASSUME NEW i \in Ids
               PROVE  /\ cache[i] # None /\ finalizers[i] = None =>
                           \E u \in Threads : pc'[u] = "watch" /\ id[func'[u]] = i
                      /\ finalizers[i] # None =>
                           /\ id[finalizers[i]] = i
                           /\ object[finalizers[i]] \notin {"unborn", "dead"}
    BY DEF WatchInv
  <2>1. ASSUME cache[i] # None, finalizers[i] = None
        PROVE  \E u \in Threads : pc'[u] = "watch" /\ id[func'[u]] = i
    <3>1. PICK u \in Threads : pc[u] = "watch" /\ id[func[u]] = i
      BY <2>1 DEF IInv, WatchInv
    <3> QED
      BY <3>1
  <2> QED
    BY <2>1 DEF IInv, WatchInv
<1>4. ResetInv'
  <2>1. ~resetting
    BY DEF IInv, ResetInv
  <2> QED
    BY <2>1 DEF ResetInv
<1> QED
  BY <1>1, <1>2, <1>3, <1>4

-----------------------------------------------------------------------------
(* The steps of a call                                                     *)

LEMMA CallKeeps == ASSUME IInv, NEW t \in Threads, Call(t) PROVE IInv'
<1> USE DEF Call
<1>1. TypeOK'
  BY DEF IInv, TypeOK, objectVars, cacheVars
<1>2. CallInv'
  <2>1. pc'[t] = "lookup" /\ func'[t] \in Funcs /\ object[func'[t]] = "live"
        /\ outcome'[t] = "none"
    BY DEF IInv, TypeOK
  <2>2. \A u \in Threads \ {t} :
          /\ pc'[u] = pc[u] /\ func'[u] = func[u] /\ input'[u] = input[u]
          /\ decision'[u] = decision[u] /\ outcome'[u] = outcome[u]
    BY DEF IInv, TypeOK
  <2> QED
    BY <2>1, <2>2, OtherCallsKept DEF IInv, objectVars
<1>3. AddressInv' /\ NoStaleDecision' /\ WatchInv' /\ ResetInv'
  <2>1. \A u \in Threads \ {t} : pc'[u] = pc[u] /\ func'[u] = func[u]
    BY DEF IInv, TypeOK
  <2> QED
    BY <2>1, CachesKept
<1> QED
  BY <1>1, <1>2, <1>3 DEF IInv

\* What is cached for a live function was decided for it.
LEMMA CachedIsOwn ==
  ASSUME IInv, NEW f \in Funcs, object[f] = "live", cache[id[f]] # None
  PROVE  cache[id[f]] = Decide(f)
<1>1. id[f] \in Ids
  BY DEF IInv, AddressInv
<1>2. PICK g \in Funcs : /\ id[g] = id[f] /\ object[g] \in {"live", "clearing"}
                         /\ cache[id[f]] = Decide(g)
  BY <1>1 DEF IInv, NoStaleDecision
<1>3. g = f
  BY <1>2 DEF IInv, AddressInv
<1> QED
  BY <1>2, <1>3

LEMMA LookupKeeps == ASSUME IInv, NEW t \in Threads, Lookup(t) PROVE IInv'
<1> USE DEF Lookup
<1>0. func[t] \in Funcs /\ object[func[t]] = "live" /\ id[func[t]] \in Ids
  BY DEF IInv, CallInv, AddressInv
<1>1. TypeOK'
  <2>1. cache[id[func[t]]] \in Decisions \cup {None}
    BY <1>0 DEF IInv, TypeOK
  <2> QED
    BY <2>1 DEF IInv, TypeOK, objectVars, cacheVars
<1>2. CallInv'
  <2>1. pc'[t] \in {"detect", "decided"}
        /\ (pc'[t] = "decided" => decision'[t] = Decide(func[t]))
    BY <1>0, CachedIsOwn DEF IInv, TypeOK
  <2>2. outcome'[t] = "ValueError" => Decide(func[t]).backend = "subinterp"
    BY DEF IInv, CallInv
  <2>3. \A u \in Threads \ {t} : pc'[u] = pc[u] /\ decision'[u] = decision[u]
    BY DEF IInv, TypeOK
  <2> QED
    BY <1>0, <2>1, <2>2, <2>3, OtherCallsKept DEF IInv, objectVars
<1>3. AddressInv' /\ NoStaleDecision' /\ WatchInv' /\ ResetInv'
  <2>1. \A u \in Threads \ {t} : pc'[u] = pc[u] /\ func'[u] = func[u]
    BY DEF IInv, TypeOK
  <2> QED
    BY <2>1, CachesKept
<1> QED
  BY <1>1, <1>2, <1>3 DEF IInv

LEMMA DetectKeeps == ASSUME IInv, NEW t \in Threads, Detect(t) PROVE IInv'
<1> USE DEF Detect
<1>0. func[t] \in Funcs /\ object[func[t]] = "live"
  BY DEF IInv, CallInv
<1>1. TypeOK'
  BY <1>0, DecideType DEF IInv, TypeOK, objectVars, cacheVars
<1>2. CallInv'
  <2>1. pc'[t] = "store" /\ decision'[t] = Decide(func[t])
    BY DEF IInv, TypeOK
  <2>2. outcome'[t] = "ValueError" => Decide(func[t]).backend = "subinterp"
    BY DEF IInv, CallInv
  <2>3. \A u \in Threads \ {t} : pc'[u] = pc[u] /\ decision'[u] = decision[u]
    BY DEF IInv, TypeOK
  <2> QED
    BY <1>0, <2>1, <2>2, <2>3, OtherCallsKept DEF IInv, objectVars
<1>3. AddressInv' /\ NoStaleDecision' /\ WatchInv' /\ ResetInv'
  <2>1. \A u \in Threads \ {t} : pc'[u] = pc[u] /\ func'[u] = func[u]
    BY DEF IInv, TypeOK
  <2> QED
    BY <2>1, CachesKept
<1> QED
  BY <1>1, <1>2, <1>3 DEF IInv

LEMMA StoreKeeps == ASSUME IInv, NEW t \in Threads, Store(t) PROVE IInv'
<1> USE DEF Store
<1>0. /\ func[t] \in Funcs /\ object[func[t]] = "live" /\ id[func[t]] \in Ids
      /\ decision[t] = Decide(func[t]) /\ decision[t] \in Decisions /\ ~resetting
  BY DecideType DEF IInv, CallInv, AddressInv, ResetInv
<1> DEFINE a == id[func[t]]
<1>1. TypeOK'
  BY <1>0 DEF IInv, TypeOK, objectVars
<1>2. \A u \in Threads \ {t} : pc'[u] = pc[u]
  BY DEF IInv, TypeOK
<1>3. pc'[t] = "watch" /\ cache'[a] = Decide(func[t])
      /\ \A i \in Ids \ {a} : cache'[i] = cache[i]
  BY <1>0 DEF IInv, TypeOK
<1>4. CallInv'
  <2>1. outcome'[t] = "ValueError" => Decide(func[t]).backend = "subinterp"
    BY DEF IInv, CallInv
  <2> QED
    BY <1>0, <1>2, <1>3, <2>1, OtherCallsKept DEF IInv, objectVars
<1>5. AddressInv'
  BY DEF IInv, AddressInv, objectVars
<1>6. NoStaleDecision'
  <2> SUFFICES ASSUME NEW i \in Ids, cache'[i] # None
               PROVE  \E f \in Funcs : /\ id[f] = i /\ object[f] \in {"live", "clearing"}
                                       /\ cache'[i] = Decide(f)
    BY DEF NoStaleDecision, objectVars
  <2>1. CASE i = a
    BY <2>1, <1>0, <1>3
  <2>2. CASE i # a
    BY <2>2, <1>3 DEF IInv, NoStaleDecision
  <2> QED
    BY <2>1, <2>2
<1>7. WatchInv'
  <2> SUFFICES ASSUME NEW i \in Ids
               PROVE  /\ cache'[i] # None /\ finalizers[i] = None =>
                           \E u \in Threads : pc'[u] = "watch" /\ id[func[u]] = i
                      /\ finalizers[i] # None =>
                           /\ id[finalizers[i]] = i
                           /\ object[finalizers[i]] \notin {"unborn", "dead"}
    BY DEF WatchInv, objectVars
  <2>1. CASE i = a
    BY <2>1, <1>3 DEF IInv, WatchInv
  <2>2. CASE i # a
    <3>1. ASSUME cache'[i] # None, finalizers[i] = None
          PROVE  \E u \in Threads : pc'[u] = "watch" /\ id[func[u]] = i
      <4>1. PICK u \in Threads : pc[u] = "watch" /\ id[func[u]] = i
        BY <2>2, <3>1, <1>3 DEF IInv, WatchInv
      <4> QED
        BY <4>1, <1>2, <1>3
    <3> QED
      BY <3>1 DEF IInv, WatchInv
  <2> QED
    BY <2>1, <2>2
<1>8. ResetInv'
  BY <1>0 DEF ResetInv
<1> QED
  BY <1>1, <1>4, <1>5, <1>6, <1>7, <1>8 DEF IInv

LEMMA WatchKeeps == ASSUME IInv, NEW t \in Threads, Watch(t) PROVE IInv'
<1> USE DEF Watch
<1>0. /\ func[t] \in Funcs /\ object[func[t]] = "live" /\ id[func[t]] \in Ids
      /\ decision[t] = Decide(func[t]) /\ ~resetting
  BY DEF IInv, CallInv, AddressInv, ResetInv
<1> DEFINE a == id[func[t]]
<1>1. TypeOK'
  BY <1>0 DEF IInv, TypeOK, objectVars
<1>2. \A u \in Threads \ {t} : pc'[u] = pc[u]
  BY DEF IInv, TypeOK
<1>3. pc'[t] = "decided" /\ finalizers'[a] = func[t]
      /\ \A i \in Ids \ {a} : finalizers'[i] = finalizers[i]
  BY <1>0 DEF IInv, TypeOK
<1>4. CallInv'
  <2>1. outcome'[t] = "ValueError" => Decide(func[t]).backend = "subinterp"
    BY DEF IInv, CallInv
  <2> QED
    BY <1>0, <1>2, <1>3, <2>1, OtherCallsKept DEF IInv, objectVars
<1>5. AddressInv' /\ NoStaleDecision'
  BY DEF IInv, AddressInv, NoStaleDecision, objectVars
<1>6. WatchInv'
  <2> SUFFICES ASSUME NEW i \in Ids
               PROVE  /\ cache[i] # None /\ finalizers'[i] = None =>
                           \E u \in Threads : pc'[u] = "watch" /\ id[func[u]] = i
                      /\ finalizers'[i] # None =>
                           /\ id[finalizers'[i]] = i
                           /\ object[finalizers'[i]] \notin {"unborn", "dead"}
    BY DEF WatchInv, objectVars
  <2>1. CASE i = a
    BY <2>1, <1>0, <1>3, NoneAssumption
  <2>2. CASE i # a
    <3>1. ASSUME cache[i] # None, finalizers'[i] = None
          PROVE  \E u \in Threads : pc'[u] = "watch" /\ id[func[u]] = i
      <4>1. PICK u \in Threads : pc[u] = "watch" /\ id[func[u]] = i
        BY <2>2, <3>1, <1>3 DEF IInv, WatchInv
      <4> QED
        BY <4>1, <1>2, <2>2
    <3> QED
      BY <3>1, <2>2, <1>3 DEF IInv, WatchInv
  <2> QED
    BY <2>1, <2>2
<1>7. ResetInv'
  BY <1>0 DEF ResetInv
<1> QED
  BY <1>1, <1>4, <1>5, <1>6, <1>7 DEF IInv

LEMMA UnwatchableKeeps == ASSUME IInv, NEW t \in Threads, Unwatchable(t) PROVE IInv'
<1> USE DEF Unwatchable
<1>0. /\ func[t] \in Funcs /\ object[func[t]] = "live" /\ id[func[t]] \in Ids
      /\ decision[t] = Decide(func[t]) /\ ~resetting
  BY DEF IInv, CallInv, AddressInv, ResetInv
<1> DEFINE a == id[func[t]]
<1>1. TypeOK'
  BY <1>0 DEF IInv, TypeOK, objectVars
<1>2. \A u \in Threads \ {t} : pc'[u] = pc[u]
  BY DEF IInv, TypeOK
<1>3. pc'[t] = "decided" /\ cache'[a] = None
      /\ \A i \in Ids \ {a} : cache'[i] = cache[i]
  BY <1>0 DEF IInv, TypeOK
<1>4. CallInv'
  <2>1. outcome'[t] = "ValueError" => Decide(func[t]).backend = "subinterp"
    BY DEF IInv, CallInv
  <2> QED
    BY <1>0, <1>2, <1>3, <2>1, OtherCallsKept DEF IInv, objectVars
<1>5. AddressInv'
  BY DEF IInv, AddressInv, objectVars
<1>6. NoStaleDecision'
  BY <1>3 DEF IInv, NoStaleDecision, objectVars
<1>7. WatchInv'
  <2> SUFFICES ASSUME NEW i \in Ids, i # a, cache[i] # None, finalizers[i] = None
               PROVE  \E u \in Threads : pc'[u] = "watch" /\ id[func[u]] = i
    BY <1>3 DEF IInv, WatchInv, objectVars
  <2>1. PICK u \in Threads : pc[u] = "watch" /\ id[func[u]] = i
    BY DEF IInv, WatchInv
  <2> QED
    BY <2>1, <1>2
<1>8. ResetInv'
  BY <1>0 DEF ResetInv
<1> QED
  BY <1>1, <1>4, <1>5, <1>6, <1>7, <1>8 DEF IInv

\* The ways out of a call, and Convert.
LEMMA ReturnKeeps ==
  ASSUME IInv, NEW t \in Threads, pc[t] \in {"decided", "run"}, NEW how,
         how \in {"explained", "result", "TypeError", "ValueError", "ArrowInvalid"},
         how = "ValueError" => decision[t].backend = "subinterp",
         Return(t, how)
  PROVE  IInv'
<1> USE DEF Return
<1>0. func[t] \in Funcs /\ decision[t] = Decide(func[t])
  BY DEF IInv, CallInv
<1>1. TypeOK'
  BY DEF IInv, TypeOK, objectVars, cacheVars
<1>2. pc'[t] = "idle" /\ outcome'[t] = how
  BY DEF IInv, TypeOK
<1>3. \A u \in Threads \ {t} : pc'[u] = pc[u] /\ outcome'[u] = outcome[u]
  BY DEF IInv, TypeOK
<1>4. CallInv'
  BY <1>0, <1>2, <1>3, OtherCallsKept DEF IInv, objectVars
<1>5. AddressInv' /\ NoStaleDecision' /\ WatchInv' /\ ResetInv'
  BY <1>3, CachesKept
<1> QED
  BY <1>1, <1>4, <1>5 DEF IInv

LEMMA ConvertKeeps == ASSUME IInv, NEW t \in Threads, Convert(t) PROVE IInv'
<1> USE DEF Convert
<1>0. func[t] \in Funcs /\ object[func[t]] = "live" /\ decision[t] = Decide(func[t])
  BY DEF IInv, CallInv
<1>1. TypeOK'
  BY DEF IInv, TypeOK, objectVars, cacheVars
<1>2. pc'[t] = "run" /\ \A u \in Threads \ {t} : pc'[u] = pc[u]
  BY DEF IInv, TypeOK
<1>3. CallInv'
  <2>1. outcome'[t] = "ValueError" => Decide(func[t]).backend = "subinterp"
    BY DEF IInv, CallInv
  <2> QED
    BY <1>0, <1>2, <2>1, OtherCallsKept DEF IInv, objectVars
<1>4. AddressInv' /\ NoStaleDecision' /\ WatchInv' /\ ResetInv'
  BY <1>2, CachesKept
<1> QED
  BY <1>1, <1>3, <1>4 DEF IInv

LEMMA ThreadStepKeeps ==
  ASSUME IInv, NEW t \in Threads, Call(t) \/ ThreadStep(t) PROVE IInv'
<1>1. CASE Explain(t)
  BY <1>1, ReturnKeeps DEF Explain
<1>2. CASE NotNumeric(t)
  BY <1>2, ReturnKeeps DEF NotNumeric
<1>3. CASE FastPath(t)
  <2> DEFINE how == IF Castable(decision[t], input[t]) THEN "result" ELSE "ArrowInvalid"
  <2>1. how \in {"result", "ArrowInvalid"} /\ Return(t, how) /\ pc[t] = "run"
    BY <1>3 DEF FastPath
  <2> HIDE DEF how
  <2> QED
    BY <2>1, ReturnKeeps
<1>4. CASE Fallback(t)
  <2> DEFINE how == IF Shape[func[t]].name = "module" THEN "result" ELSE "ValueError"
  <2>1. /\ how \in {"result", "ValueError"} /\ Return(t, how) /\ pc[t] = "run"
        /\ decision[t].backend = "subinterp"
    BY <1>4 DEF Fallback
  <2> HIDE DEF how
  <2> QED
    BY <2>1, ReturnKeeps
<1> QED
  BY <1>1, <1>2, <1>3, <1>4, CallKeeps, LookupKeeps, DetectKeeps, StoreKeeps,
     WatchKeeps, UnwatchableKeeps, ConvertKeeps DEF ThreadStep

-----------------------------------------------------------------------------
(* The steps of an object and of reset_cache                               *)

LEMMA CreateKeeps == ASSUME IInv, NEW f \in Funcs, Create(f) PROVE IInv'
<1>0. PICK a \in Ids : ~InUse(a) /\ id' = [id EXCEPT ![f] = a]
  BY DEF Create
<1>1. /\ object[f] = "unborn" /\ object' = [object EXCEPT ![f] = "live"]
      /\ UNCHANGED <<cacheVars, callVars>>
  BY DEF Create
<1>2. TypeOK'
  BY <1>0, <1>1 DEF IInv, TypeOK, cacheVars, callVars
<1>3. object'[f] = "live" /\ id'[f] = a
      /\ \A g \in Funcs \ {f} : object'[g] = object[g] /\ id'[g] = id[g]
  BY <1>0, <1>1 DEF IInv, TypeOK
<1>4. CallInv'
  BY <1>1, <1>3 DEF IInv, CallInv, callVars
<1>5. AddressInv'
  BY <1>0, <1>1, <1>3 DEF IInv, AddressInv, InUse
<1>6. NoStaleDecision'
  <2> SUFFICES ASSUME NEW i \in Ids, cache[i] # None
               PROVE  \E g \in Funcs : /\ id'[g] = i /\ object'[g] \in {"live", "clearing"}
                                       /\ cache[i] = Decide(g)
    BY <1>1 DEF NoStaleDecision, cacheVars
  <2> QED
    BY <1>1, <1>3 DEF IInv, NoStaleDecision
<1>7. WatchInv'
  <2> SUFFICES ASSUME NEW i \in Ids
               PROVE  /\ cache[i] # None /\ finalizers[i] = None =>
                           \E t \in Threads : pc[t] = "watch" /\ id'[func[t]] = i
                      /\ finalizers[i] # None =>
                           /\ id'[finalizers[i]] = i
                           /\ object'[finalizers[i]] \notin {"unborn", "dead"}
    BY <1>1 DEF WatchInv, cacheVars, callVars
  <2>1. ASSUME cache[i] # None, finalizers[i] = None
        PROVE  \E t \in Threads : pc[t] = "watch" /\ id'[func[t]] = i
    <3>1. PICK t \in Threads : pc[t] = "watch" /\ id[func[t]] = i
      BY <2>1 DEF IInv, WatchInv
    <3>2. func[t] \in Funcs \ {f}
      BY <1>1, <3>1 DEF IInv, CallInv
    <3> QED
      BY <3>1, <3>2, <1>3
  <2>2. ASSUME finalizers[i] # None
        PROVE  id'[finalizers[i]] = i /\ object'[finalizers[i]] \notin {"unborn", "dead"}
    <3>1. finalizers[i] \in Funcs \ {f}
      BY <1>1, <2>2 DEF IInv, TypeOK, WatchInv
    <3> QED
      BY <2>2, <3>1, <1>3 DEF IInv, WatchInv
  <2> QED
    BY <2>1, <2>2
<1>8. ResetInv'
  BY <1>1 DEF IInv, ResetInv, cacheVars, callVars
<1> QED
  BY <1>2, <1>4, <1>5, <1>6, <1>7, <1>8 DEF IInv

\* A function that dies unwatched has no decision in the cache: the one that is
\* would be watched, or about to be by a call that holds the function.
LEMMA DieKeeps == ASSUME IInv, NEW f \in Funcs, Die(f) PROVE IInv'
<1> USE DEF Die
<1>1. TypeOK'
  BY DEF IInv, TypeOK, cacheVars, callVars
<1>2. /\ object[f] = "live" /\ id[f] \in Ids /\ UNCHANGED <<cacheVars, callVars, id>>
      /\ object'[f] = IF finalizers[id[f]] = f THEN "clearing" ELSE "dead"
      /\ \A g \in Funcs \ {f} : object'[g] = object[g]
  BY DEF IInv, TypeOK, AddressInv
<1>3. CallInv'
  BY <1>2 DEF IInv, CallInv, callVars, Held
<1>4. AddressInv'
  BY <1>2 DEF IInv, AddressInv
<1>5. finalizers[id[f]] # f => cache[id[f]] = None
  <2> SUFFICES ASSUME finalizers[id[f]] # f, cache[id[f]] # None PROVE FALSE
    OBVIOUS
  <2>1. CASE finalizers[id[f]] = None
    <3>1. PICK t \in Threads : pc[t] = "watch" /\ id[func[t]] = id[f]
      BY <1>2, <2>1 DEF IInv, WatchInv
    <3>2. func[t] \in Funcs /\ object[func[t]] = "live"
      BY <3>1 DEF IInv, CallInv
    <3>3. func[t] = f
      BY <1>2, <3>1, <3>2 DEF IInv, AddressInv
    <3> QED
      BY <3>1, <3>3 DEF Held
  <2>2. CASE finalizers[id[f]] # None
    <3> DEFINE g == finalizers[id[f]]
    <3>1. g \in Funcs /\ id[g] = id[f] /\ object[g] \notin {"unborn", "dead"}
      BY <1>2, <2>2 DEF IInv, TypeOK, WatchInv
    <3>2. g = f
      BY <1>2, <3>1 DEF IInv, AddressInv
    <3> QED
      BY <3>2
  <2> QED
    BY <2>1, <2>2
<1>6. NoStaleDecision'
  <2> SUFFICES ASSUME NEW i \in Ids, cache[i] # None
               PROVE  \E g \in Funcs : /\ id[g] = i /\ object'[g] \in {"live", "clearing"}
                                       /\ cache[i] = Decide(g)
    BY <1>2 DEF NoStaleDecision, cacheVars
  <2>1. PICK g \in Funcs : /\ id[g] = i /\ object[g] \in {"live", "clearing"}
                           /\ cache[i] = Decide(g)
    BY DEF IInv, NoStaleDecision
  <2>2. CASE g = f
    BY <2>1, <2>2, <1>2, <1>5
  <2>3. CASE g # f
    BY <2>1, <2>3, <1>2
  <2> QED
    BY <2>2, <2>3
<1>7. WatchInv'
  <2> SUFFICES ASSUME NEW i \in Ids
               PROVE  /\ cache[i] # None /\ finalizers[i] = None =>
                           \E t \in Threads : pc[t] = "watch" /\ id[func[t]] = i
                      /\ finalizers[i] # None =>
                           /\ id[finalizers[i]] = i
                           /\ object'[finalizers[i]] \notin {"unborn", "dead"}
    BY <1>2 DEF WatchInv, cacheVars, callVars
  <2>1. CASE finalizers[i] = f
    BY <1>2, <2>1, NoneAssumption DEF IInv, WatchInv
  <2>2. CASE finalizers[i] # f
    BY <1>2, <2>2 DEF IInv, TypeOK, WatchInv
  <2> QED
    BY <2>1, <2>2
<1>8. ResetInv'
  BY DEF IInv, ResetInv, cacheVars, callVars
<1> QED
  BY <1>1, <1>3, <1>4, <1>6, <1>7, <1>8 DEF IInv

LEMMA EvictDecisionKeeps == ASSUME IInv, NEW f \in Funcs, EvictDecision(f) PROVE IInv'
<1> USE DEF EvictDecision
<1>1. TypeOK'
  BY NoneAssumption DEF IInv, TypeOK, callVars
<1>2. /\ object[f] = "clearing" /\ object'[f] = "evicting" /\ id[f] \in Ids
      /\ cache'[id[f]] = None
      /\ \A g \in Funcs \ {f} : object'[g] = object[g]
      /\ \A i \in Ids \ {id[f]} : cache'[i] = cache[i]
      /\ UNCHANGED <<id, finalizers, resetting, callVars>>
  BY DEF IInv, TypeOK, AddressInv
<1>3. CallInv'
  BY <1>2 DEF IInv, CallInv, callVars
<1>4. AddressInv'
  BY <1>2 DEF IInv, AddressInv
<1>5. NoStaleDecision'
  <2> SUFFICES ASSUME NEW i \in Ids, cache'[i] # None
               PROVE  \E g \in Funcs : /\ id[g] = i /\ object'[g] \in {"live", "clearing"}
                                       /\ cache'[i] = Decide(g)
    BY <1>2 DEF NoStaleDecision
  <2> QED
    BY <1>2 DEF IInv, NoStaleDecision
<1>6. WatchInv'
  <2> SUFFICES ASSUME NEW i \in Ids
               PROVE  /\ cache'[i] # None /\ finalizers[i] = None =>
                           \E t \in Threads : pc[t] = "watch" /\ id[func[t]] = i
                      /\ finalizers[i] # None =>
                           /\ id[finalizers[i]] = i
                           /\ object'[finalizers[i]] \notin {"unborn", "dead"}
    BY <1>2 DEF WatchInv, callVars
  <2> QED
    BY <1>2 DEF IInv, TypeOK, WatchInv
<1>7. ResetInv'
  BY <1>2 DEF IInv, ResetInv, callVars
<1> QED
  BY <1>1, <1>3, <1>4, <1>5, <1>6, <1>7 DEF IInv

\* By then the decision is gone: another function's cannot have taken its place
\* while the memory is not given back.
LEMMA EvictFinalizerKeeps ==
  ASSUME IInv, NEW f \in Funcs, EvictFinalizer(f) PROVE IInv'
<1> USE DEF EvictFinalizer
<1>1. TypeOK'
  BY NoneAssumption DEF IInv, TypeOK, callVars
<1>2. /\ object[f] = "evicting" /\ object'[f] = "dead" /\ id[f] \in Ids
      /\ finalizers'[id[f]] = None
      /\ \A g \in Funcs \ {f} : object'[g] = object[g]
      /\ \A i \in Ids \ {id[f]} : finalizers'[i] = finalizers[i]
      /\ UNCHANGED <<id, cache, resetting, callVars>>
  BY DEF IInv, TypeOK, AddressInv
<1>3. CallInv'
  BY <1>2 DEF IInv, CallInv, callVars
<1>4. AddressInv'
  BY <1>2 DEF IInv, AddressInv
<1>5. cache[id[f]] = None
  <2> SUFFICES ASSUME cache[id[f]] # None PROVE FALSE
    OBVIOUS
  <2>1. PICK g \in Funcs : id[g] = id[f] /\ object[g] \in {"live", "clearing"}
    BY <1>2 DEF IInv, NoStaleDecision
  <2> QED
    BY <1>2, <2>1 DEF IInv, AddressInv
<1>6. NoStaleDecision'
  <2> SUFFICES ASSUME NEW i \in Ids, cache[i] # None
               PROVE  \E g \in Funcs : /\ id[g] = i /\ object'[g] \in {"live", "clearing"}
                                       /\ cache[i] = Decide(g)
    BY <1>2 DEF NoStaleDecision
  <2> QED
    BY <1>2 DEF IInv, NoStaleDecision
<1>7. WatchInv'
  <2> SUFFICES ASSUME NEW i \in Ids
               PROVE  /\ cache[i] # None /\ finalizers'[i] = None =>
                           \E t \in Threads : pc[t] = "watch" /\ id[func[t]] = i
                      /\ finalizers'[i] # None =>
                           /\ id[finalizers'[i]] = i
                           /\ object'[finalizers'[i]] \notin {"unborn", "dead"}
    BY <1>2 DEF WatchInv, callVars
  <2>1. CASE i = id[f]
    BY <1>2, <1>5, <2>1
  <2>2. CASE i # id[f]
    BY <1>2, <2>2 DEF IInv, TypeOK, WatchInv
  <2> QED
    BY <2>1, <2>2
<1>8. ResetInv'
  BY <1>2 DEF IInv, ResetInv, callVars
<1> QED
  BY <1>1, <1>3, <1>4, <1>6, <1>7, <1>8 DEF IInv

LEMMA ResetDecisionsKeeps == ASSUME IInv, ResetDecisions PROVE IInv'
<1> USE DEF ResetDecisions
<1>1. TypeOK'
  BY DEF IInv, TypeOK, objectVars, callVars
<1>2. CallInv' /\ AddressInv'
  BY DEF IInv, CallInv, AddressInv, objectVars, callVars
<1>3. NoStaleDecision' /\ ResetInv'
  BY DEF NoStaleDecision, ResetInv, callVars
<1>4. WatchInv'
  BY DEF IInv, WatchInv, objectVars, callVars
<1> QED
  BY <1>1, <1>2, <1>3, <1>4 DEF IInv

LEMMA ResetFinalizersKeeps == ASSUME IInv, ResetFinalizers PROVE IInv'
<1> USE DEF ResetFinalizers
<1>1. TypeOK'
  BY DEF IInv, TypeOK, objectVars, callVars
<1>2. CallInv' /\ AddressInv' /\ NoStaleDecision'
  BY DEF IInv, CallInv, AddressInv, NoStaleDecision, objectVars, callVars
<1>3. WatchInv' /\ ResetInv'
  BY DEF IInv, ResetInv, WatchInv, objectVars, callVars
<1> QED
  BY <1>1, <1>2, <1>3 DEF IInv

-----------------------------------------------------------------------------
(* The theorems                                                            *)

LEMMA InitIInv == Init => IInv
<1> SUFFICES ASSUME Init PROVE IInv
  OBVIOUS
<1> USE DEF Init
<1>1. TypeOK
  BY DEF TypeOK
<1>2. CallInv
  BY DEF CallInv
<1>3. AddressInv /\ NoStaleDecision /\ WatchInv /\ ResetInv
  BY DEF AddressInv, NoStaleDecision, WatchInv, ResetInv
<1> QED
  BY <1>1, <1>2, <1>3 DEF IInv

LEMMA NextIInv == IInv /\ [Next]_vars => IInv'
<1> SUFFICES ASSUME IInv, [Next]_vars PROVE IInv'
  OBVIOUS
<1>1. ASSUME NEW t \in Threads, Call(t) \/ ThreadStep(t) PROVE IInv'
  BY <1>1, ThreadStepKeeps
<1>2. ASSUME NEW f \in Funcs, Create(f) \/ Die(f) \/ ObjectStep(f) PROVE IInv'
  BY <1>2, CreateKeeps, DieKeeps, EvictDecisionKeeps, EvictFinalizerKeeps DEF ObjectStep
<1>3. CASE ResetDecisions \/ ResetFinalizers
  BY <1>3, ResetDecisionsKeeps, ResetFinalizersKeeps
<1>4. CASE UNCHANGED vars
  <2> USE <1>4 DEF vars, objectVars, cacheVars, callVars
  <2>1. TypeOK' /\ CallInv' /\ AddressInv'
    BY DEF IInv, TypeOK, CallInv, AddressInv
  <2>2. NoStaleDecision' /\ WatchInv' /\ ResetInv'
    BY DEF IInv, NoStaleDecision, WatchInv, ResetInv
  <2> QED
    BY <2>1, <2>2 DEF IInv
<1> QED
  BY <1>1, <1>2, <1>3, <1>4 DEF Next

LEMMA Inductive == Spec => []IInv
  BY InitIInv, NextIInv, PTL DEF Spec

\* Every variable of the router keeps its type.
THEOREM TypeCorrect == Spec => []TypeOK
<1>1. IInv => TypeOK
  BY DEF IInv
<1> QED
  BY <1>1, Inductive, PTL

\* What is cached under an address was decided for the object that has it: no
\* decision outlives its function, whatever the number of threads and addresses.
THEOREM DecisionsFresh == Spec => []NoStaleDecision
<1>1. IInv => NoStaleDecision
  BY DEF IInv
<1> QED
  BY <1>1, Inductive, PTL

\* A call runs what was made of the function it was called with.
THEOREM DecisionsOwn == Spec => []OwnDecision
<1>1. IInv => OwnDecision
  BY DEF IInv, CallInv, OwnDecision
<1> QED
  BY <1>1, Inductive, PTL

\* Only functions that no fast path takes are refused for their name.
THEOREM RoutableNeverRefused == Spec => []RoutableAccepted
<1>1. IInv => RoutableAccepted
  BY DEF IInv, CallInv, RoutableAccepted
<1> QED
  BY <1>1, Inductive, PTL

-----------------------------------------------------------------------------
(* What a step does to the entry of a live function that has one           *)

LEMMA NextWeakInv == IInv /\ WeakInv /\ [Next]_vars => WeakInv'
<1> SUFFICES ASSUME IInv, WeakInv, [Next]_vars, NEW i \in Ids, finalizers'[i] # None
             PROVE  Shape[finalizers'[i]].weakref
  BY DEF WeakInv
<1>1. CASE UNCHANGED finalizers
  BY <1>1 DEF WeakInv
<1>2. ASSUME NEW t \in Threads, Watch(t) PROVE Shape[finalizers'[i]].weakref
  BY <1>2 DEF Watch, WeakInv, IInv, TypeOK
<1>3. ASSUME NEW f \in Funcs, EvictFinalizer(f) PROVE Shape[finalizers'[i]].weakref
  BY <1>3 DEF EvictFinalizer, WeakInv, IInv, TypeOK
<1>4. CASE ResetFinalizers
  BY <1>4 DEF ResetFinalizers
<1>5. ASSUME NEW t \in Threads, Call(t) \/ ThreadStep(t), ~Watch(t)
      PROVE  UNCHANGED finalizers
  BY <1>5 DEF ThreadStep, Call, Lookup, Detect, Store, Unwatchable, Explain,
     NotNumeric, Convert, FastPath, Fallback, Return, cacheVars
<1>6. ASSUME NEW f \in Funcs, Create(f) \/ Die(f) \/ EvictDecision(f)
      PROVE  UNCHANGED finalizers
  BY <1>6 DEF Create, Die, EvictDecision, cacheVars
<1>7. CASE ResetDecisions \/ UNCHANGED vars
  BY <1>7, <1>1 DEF ResetDecisions, vars, cacheVars
<1> QED
  BY <1>1, <1>2, <1>3, <1>4, <1>5, <1>6, <1>7 DEF Next, ObjectStep

\* A second call that decides for the function stores the same decision, and
\* puts its own weak reference in the place of the first.
LEMMA CallKeepsEntry ==
  ASSUME IInv, WeakInv, NEW f \in Funcs, object[f] = "live", Remembered(f),
         NEW t \in Threads, Call(t) \/ ThreadStep(t)
  PROVE  Remembered(f)' /\ cache'[id[f]] = cache[id[f]]
<1>0. /\ id[f] \in Ids /\ cache[id[f]] = Decide(f)
      /\ finalizers[id[f]] = f /\ f # None /\ Shape[f].weakref
  BY CachedIsOwn, NoneAssumption DEF IInv, AddressInv, Remembered, WeakInv
<1>1. ASSUME pc[t] # "idle", id[func[t]] = id[f] PROVE func[t] = f
  BY <1>1, <1>0 DEF IInv, CallInv, AddressInv
<1>2. CASE Store(t)
  <2>1. cache'[id[f]] = cache[id[f]]
    <3>1. id[func[t]] = id[f] => decision[t] = cache[id[f]]
      BY <1>0, <1>1, <1>2 DEF Store, IInv, CallInv
    <3> QED
      BY <3>1, <1>0, <1>2 DEF Store, IInv, TypeOK
  <2> QED
    BY <2>1, <1>0, <1>2 DEF Store, Remembered, objectVars
<1>3. CASE Watch(t)
  <2>1. finalizers'[id[f]] = f
    BY <1>0, <1>1, <1>3 DEF Watch, IInv, TypeOK
  <2> QED
    BY <2>1, <1>3 DEF Watch, Remembered, objectVars
<1>4. CASE Unwatchable(t)
  <2>1. id[func[t]] # id[f]
    BY <1>0, <1>1, <1>4 DEF Unwatchable
  <2> QED
    BY <2>1, <1>4 DEF Unwatchable, Remembered, objectVars, IInv, TypeOK
<1>5. ASSUME ~Store(t), ~Watch(t), ~Unwatchable(t)
      PROVE  UNCHANGED <<objectVars, cacheVars>>
  BY <1>5 DEF ThreadStep, Call, Lookup, Detect, Explain, NotNumeric, Convert,
     FastPath, Fallback, Return
<1> QED
  BY <1>2, <1>3, <1>4, <1>5 DEF Remembered, objectVars, cacheVars

\* A dying function still has its memory: the entry its callback takes out is at
\* another address.
LEMMA ObjectKeepsEntry ==
  ASSUME IInv, NEW f \in Funcs, object[f] = "live", Remembered(f),
         NEW g \in Funcs, Create(g) \/ Die(g) \/ ObjectStep(g)
  PROVE  Remembered(f)' /\ cache'[id[f]] = cache[id[f]]
<1>1. CASE Create(g)
  <2>1. PICK a \in Ids : id' = [id EXCEPT ![g] = a]
    BY <1>1 DEF Create
  <2>2. id'[f] = id[f]
    BY <1>1, <2>1 DEF Create, IInv, TypeOK
  <2> QED
    BY <1>1, <2>2 DEF Create, Remembered, cacheVars
<1>2. CASE Die(g)
  BY <1>2 DEF Die, Remembered, cacheVars
<1>3. ASSUME object[g] \in {"clearing", "evicting"} PROVE id[g] # id[f]
  BY <1>3 DEF IInv, AddressInv
<1>4. CASE EvictDecision(g)
  <2>1. cache'[id[f]] = cache[id[f]]
    BY <1>3, <1>4 DEF EvictDecision, IInv, TypeOK, AddressInv
  <2> QED
    BY <1>4, <2>1 DEF EvictDecision, Remembered
<1>5. CASE EvictFinalizer(g)
  <2>1. finalizers'[id[f]] = finalizers[id[f]]
    BY <1>3, <1>5 DEF EvictFinalizer, IInv, TypeOK, AddressInv
  <2> QED
    BY <1>5, <2>1 DEF EvictFinalizer, Remembered
<1> QED
  BY <1>1, <1>2, <1>4, <1>5 DEF ObjectStep

\* A living function that the router remembers is forgotten in a reset only, and
\* its entry is never replaced by another: whatever the other threads decide and
\* whatever else is collected.
THEOREM EntriesKept == Spec => DecisionsKept
<1> DEFINE Kept == \A f \in Funcs :
                     object[f] = "live" /\ Remembered(f) /\ ~resetting' =>
                       Remembered(f)' /\ cache'[id[f]] = cache[id[f]]
<1>1. Init => WeakInv
  BY DEF Init, WeakInv
<1>2. IInv /\ WeakInv /\ [Next]_vars => Kept
  <2> SUFFICES ASSUME IInv, WeakInv, [Next]_vars,
                      NEW f \in Funcs, object[f] = "live", Remembered(f), ~resetting'
               PROVE  Remembered(f)' /\ cache'[id[f]] = cache[id[f]]
    OBVIOUS
  <2>1. ASSUME NEW t \in Threads, Call(t) \/ ThreadStep(t)
        PROVE  Remembered(f)' /\ cache'[id[f]] = cache[id[f]]
    BY <2>1, CallKeepsEntry
  <2>2. ASSUME NEW g \in Funcs, Create(g) \/ Die(g) \/ ObjectStep(g)
        PROVE  Remembered(f)' /\ cache'[id[f]] = cache[id[f]]
    BY <2>2, ObjectKeepsEntry
  <2>3. ~ResetDecisions
    BY DEF ResetDecisions
  <2>4. ~ResetFinalizers
    BY DEF ResetFinalizers, IInv, ResetInv, AddressInv, Remembered
  <2>5. CASE UNCHANGED vars
    BY <2>5 DEF vars, objectVars, cacheVars, Remembered
  <2> QED
    BY <2>1, <2>2, <2>3, <2>4, <2>5 DEF Next
<1> HIDE DEF Kept
<1>3. Spec => [][Kept]_vars
  BY <1>1, <1>2, Inductive, NextWeakInv, PTL DEF Spec
<1> QED
  BY <1>3 DEF DecisionsKept, Kept
=============================================================================
