---------------------------- MODULE MCWorkerPool ----------------------------
(***************************************************************************)
(* Small instances of WorkerPool for TLC.                                  *)
(***************************************************************************)
EXTENDS WorkerPool, TLC

CONSTANTS c1, c2, w1, w2, f, g, a1, a2

MCSymmetry == Permutations(Calls) \cup Permutations(Workers) \cup Permutations(Addrs)
=============================================================================
