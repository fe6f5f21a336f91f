------------------------- MODULE MapContractProofs --------------------------
(***************************************************************************)
(* What MapContract promises means what it says, for any calls and any     *)
(* number of chunks.                                                       *)
(***************************************************************************)
EXTENDS MapContract, TLAPS

ContractType ==
  /\ status \in [Calls -> {"idle", "running"} \cup Over]
  /\ size \in [Calls -> Nat]
  /\ good \in [Calls -> SUBSET Nat] /\ bad \in [Calls -> SUBSET Nat]
  /\ blamed \in [Calls -> Nat]

\* The inductive invariant, of one call.
CallKept(c) ==
  /\ status[c] = "idle" => size[c] = 0
  /\ good[c] \cap bad[c] = {} /\ good[c] \cup bad[c] \subseteq Positions(c)
  /\ blamed[c] # 0 =>
       blamed[c] \in bad[c] /\ (Ordered => 1..(blamed[c] - 1) \subseteq good[c])
  /\ status[c] = "ok" => good[c] = Positions(c)
  /\ status[c] = "failed" => good[c] \cup bad[c] = Positions(c) /\ blamed[c] # 0
  /\ status[c] = "refused" => blamed[c] = 0
Kept == ContractType /\ \A c \in Calls : CallKept(c)

CallAction(c) ==
  Open(c) \/ Fill(c) \/ Raise(c) \/ Blame(c) \/ Succeed(c) \/ Fail(c) \/ Refuse(c)

\* A step of a call, as what it changes of it: nothing of the others.
LEMMA OneCall ==
  ASSUME ContractType, NEW c \in Calls, CallAction(c)
  PROVE  /\ ContractType'
         /\ \A d \in Calls \ {c} :
              UNCHANGED <<status[d], size[d], good[d], bad[d], blamed[d]>>
<1> USE DEF ContractType, Over
<1>1. CASE Open(c)
  <2>1. PICK n \in 0..MaxLen : size' = [size EXCEPT ![c] = n]
    BY <1>1 DEF Open
  <2> QED
    BY <1>1, <2>1 DEF Open
<1>2. CASE Fill(c)
  <2>1. PICK k \in Positions(c) : good' = [good EXCEPT ![c] = @ \cup {k}]
    BY <1>2 DEF Fill
  <2>2. k \in Nat
    BY DEF Positions
  <2> QED
    BY <1>2, <2>1, <2>2 DEF Fill
<1>3. CASE Raise(c)
  <2>1. PICK k \in Positions(c) : bad' = [bad EXCEPT ![c] = @ \cup {k}]
    BY <1>3 DEF Raise
  <2>2. k \in Nat
    BY DEF Positions
  <2> QED
    BY <1>3, <2>1, <2>2 DEF Raise
<1>4. CASE Blame(c)
  <2>1. PICK k \in bad[c] : blamed' = [blamed EXCEPT ![c] = k]
    BY <1>4 DEF Blame
  <2> QED
    BY <1>4, <2>1 DEF Blame
<1>5. CASE Succeed(c) \/ Fail(c) \/ Refuse(c)
  BY <1>5 DEF Succeed, Fail, Refuse
<1> QED
  BY <1>1, <1>2, <1>3, <1>4, <1>5 DEF CallAction

LEMMA CallKeeps ==
  ASSUME ContractType, NEW c \in Calls, CallKept(c), CallAction(c)
  PROVE  CallKept(c)' /\ status[c] \notin Over
         /\ good[c] \subseteq good'[c] /\ bad[c] \subseteq bad'[c]
         /\ (blamed[c] # 0 => blamed'[c] = blamed[c])
<1> USE DEF ContractType, Over, CallKept, Positions
<1>1. CASE Open(c)
  <2>1. PICK n \in 0..MaxLen : size' = [size EXCEPT ![c] = n]
    BY <1>1 DEF Open
  <2>2. Positions(c) = {}
    BY <1>1 DEF Open
  <2> QED
    BY <1>1, <2>1, <2>2 DEF Open
<1>2. CASE Fill(c)
  BY <1>2 DEF Fill
<1>3. CASE Raise(c)
  BY <1>3 DEF Raise
<1>4. CASE Blame(c)
  BY <1>4 DEF Blame
<1>5. CASE Succeed(c)
  BY <1>5 DEF Succeed
<1>6. CASE Fail(c)
  BY <1>6 DEF Fail
<1>7. CASE Refuse(c)
  BY <1>7 DEF Refuse
<1> QED
  BY <1>1, <1>2, <1>3, <1>4, <1>5, <1>6, <1>7 DEF CallAction

LEMMA InitKept == ContractInit => Kept
BY DEF ContractInit, Kept, ContractType, CallKept, Over, Positions

LEMMA NextKept ==
  ASSUME Kept, [ContractNext]_contractVars
  PROVE  Kept' /\ (Settled \/ UNCHANGED contractVars)
<1>1. ASSUME NEW c \in Calls, CallAction(c) PROVE Kept' /\ Settled
  <2>1. /\ ContractType'
        /\ \A d \in Calls \ {c} :
             UNCHANGED <<status[d], size[d], good[d], bad[d], blamed[d]>>
    BY <1>1, OneCall DEF Kept
  <2>2. /\ CallKept(c)' /\ status[c] \notin Over
        /\ good[c] \subseteq good'[c] /\ bad[c] \subseteq bad'[c]
        /\ blamed[c] # 0 => blamed'[c] = blamed[c]
    BY <1>1, CallKeeps DEF Kept
  <2>3. \A d \in Calls \ {c} : CallKept(d)'
    BY <2>1 DEF Kept, CallKept, Positions
  <2> QED
    BY <2>1, <2>2, <2>3 DEF Kept, Settled
<1>2. CASE UNCHANGED contractVars
  BY <1>2 DEF contractVars, Kept, ContractType, CallKept, Positions
<1> QED
  BY <1>1, <1>2 DEF ContractNext, CallAction

LEMMA ContractInvariant == ContractSpec => []Kept
<1>1. Kept /\ [ContractNext]_contractVars => Kept'
  BY NextKept
<1> QED
  BY <1>1, InitKept, PTL DEF ContractSpec

\* What an implementation of the contract returns: everything, or the error of a
\* chunk that raised once all the others have ended, the first one if Ordered.
THEOREM PromiseKept == ContractSpec => []Promise
<1>1. Kept => Promise
  <2> SUFFICES ASSUME Kept, NEW c \in Calls
               PROVE  /\ CallKept(c)
                      /\ status[c] = "ok" => blamed[c] = 0
                      /\ status[c] = "failed" /\ Ordered => \A k \in bad[c] : blamed[c] <= k
    BY DEF Promise, Kept, CallKept
  <2>1. CallKept(c) /\ blamed[c] \in Nat /\ bad[c] \subseteq Nat
    BY DEF Kept, ContractType
  <2>2. status[c] = "ok" => blamed[c] = 0
    BY <2>1 DEF CallKept
  <2>3. ASSUME status[c] = "failed", Ordered, NEW k \in bad[c] PROVE blamed[c] <= k
    <3>1. k \in Nat /\ k >= 1 /\ k \notin 1..(blamed[c] - 1)
      BY <2>1, <2>3 DEF CallKept, Positions
    <3> QED
      BY <3>1, <2>1
  <2> QED
    BY <2>1, <2>2, <2>3
<1> QED
  BY <1>1, ContractInvariant, PTL

\* It takes nothing back, and touches nothing after the return.
THEOREM ReturnsAreFinal == ContractSpec => [][Settled]_contractVars
<1>1. Kept /\ [ContractNext]_contractVars => [Settled]_contractVars
  BY NextKept
<1> QED
  BY <1>1, ContractInvariant, PTL DEF ContractSpec
=============================================================================
