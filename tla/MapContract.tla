----------------------------- MODULE MapContract ----------------------------
(***************************************************************************)
(* What one parallel map promises, whatever executes it: chunks of a       *)
(* running call are filled in any order, each at most once; the call       *)
(* succeeds only with every chunk filled to its end; it fails only after   *)
(* every chunk has an outcome, and then names a chunk that raised, the     *)
(* earliest one if Ordered; a call that never got its chunks out is        *)
(* refused; and nothing touches the result of a call that has returned.    *)
(* What function fills a chunk is not part of it.                          *)
(***************************************************************************)
EXTENDS Naturals

CONSTANTS
  Calls,     \* invocations of the map
  MaxLen,    \* bound on the number of chunks
  Ordered    \* is the error kept that of the earliest failing chunk?

VARIABLES
  status,    \* "idle", "running", "ok", "failed" or "refused"
  size,      \* the number of chunks of each call
  good,      \* the chunks filled to the end with results
  bad,       \* the chunks known to have raised
  blamed     \* the chunk whose error the call has kept (0: none)

contractVars == <<status, size, good, bad, blamed>>

Positions(c) == 1..size[c]

ContractInit ==
  /\ status = [c \in Calls |-> "idle"]
  /\ size = [c \in Calls |-> 0]
  /\ good = [c \in Calls |-> {}]
  /\ bad = [c \in Calls |-> {}]
  /\ blamed = [c \in Calls |-> 0]

Open(c) ==
  /\ status[c] = "idle"
  /\ status' = [status EXCEPT ![c] = "running"]
  /\ \E n \in 0..MaxLen : size' = [size EXCEPT ![c] = n]
  /\ UNCHANGED <<good, bad, blamed>>

Fill(c) ==
  /\ status[c] = "running"
  /\ \E k \in Positions(c) \ (good[c] \cup bad[c]) :
       good' = [good EXCEPT ![c] = @ \cup {k}]
  /\ UNCHANGED <<status, size, bad, blamed>>

Raise(c) ==
  /\ status[c] = "running"
  /\ \E k \in Positions(c) \ (good[c] \cup bad[c]) :
       bad' = [bad EXCEPT ![c] = @ \cup {k}]
  /\ UNCHANGED <<status, size, good, blamed>>

\* One error is kept: any, or only once every chunk before it is known to be
\* good.
Blame(c) ==
  /\ status[c] = "running" /\ blamed[c] = 0
  /\ \E k \in bad[c] :
       /\ Ordered => 1..(k - 1) \subseteq good[c]
       /\ blamed' = [blamed EXCEPT ![c] = k]
  /\ UNCHANGED <<status, size, good, bad>>

Succeed(c) ==
  /\ status[c] = "running" /\ good[c] = Positions(c)
  /\ status' = [status EXCEPT ![c] = "ok"]
  /\ UNCHANGED <<size, good, bad, blamed>>

Fail(c) ==
  /\ status[c] = "running" /\ blamed[c] # 0
  /\ good[c] \cup bad[c] = Positions(c)
  /\ status' = [status EXCEPT ![c] = "failed"]
  /\ UNCHANGED <<size, good, bad, blamed>>

Refuse(c) ==
  /\ status[c] \in {"idle", "running"} /\ blamed[c] = 0
  /\ status' = [status EXCEPT ![c] = "refused"]
  /\ UNCHANGED <<size, good, bad, blamed>>

ContractNext ==
  \E c \in Calls :
    Open(c) \/ Fill(c) \/ Raise(c) \/ Blame(c) \/ Succeed(c) \/ Fail(c)
    \/ Refuse(c)

ContractSpec == ContractInit /\ [][ContractNext]_contractVars
-----------------------------------------------------------------------------
(* What the promise comes to for the caller                                *)

Over == {"ok", "failed", "refused"}

\* A chunk has one outcome.  A call that succeeds has every chunk filled; one
\* that fails has an outcome for every chunk and raises the error of one that
\* raised, the first one if Ordered; one that is refused raises none of theirs.
Promise ==
  \A c \in Calls :
    /\ good[c] \cap bad[c] = {} /\ good[c] \cup bad[c] \subseteq Positions(c)
    /\ status[c] = "ok" => good[c] = Positions(c) /\ blamed[c] = 0
    /\ status[c] = "failed" =>
         /\ good[c] \cup bad[c] = Positions(c) /\ blamed[c] \in bad[c]
         /\ Ordered => \A k \in bad[c] : blamed[c] <= k
    /\ status[c] = "refused" => blamed[c] = 0

\* A step takes no outcome back, and none changes what has been returned.
Settled ==
  \A c \in Calls :
    /\ good[c] \subseteq good'[c] /\ bad[c] \subseteq bad'[c]
    /\ blamed[c] # 0 => blamed'[c] = blamed[c]
    /\ status[c] \in Over =>
         UNCHANGED <<status[c], size[c], good[c], bad[c], blamed[c]>>
=============================================================================
