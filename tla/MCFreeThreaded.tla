--------------------------- MODULE MCFreeThreaded ---------------------------
(***************************************************************************)
(* Small instances of FreeThreaded for TLC.                                *)
(***************************************************************************)
EXTENDS FreeThreaded, TLC

CONSTANTS r1, r2, k1, j1, p1, p2, one, other

\* r1 and r2 are made by one thread, one after the other.
OneThread == [c \in Calls |-> IF c = r2 THEN r1 ELSE None]
\* Every call has a thread of its own.
OwnThreads == [c \in Calls |-> None]

MCPath == [c \in RayonCalls |-> IF c = r1 THEN one ELSE other]
SamePath == [c \in RayonCalls |-> one]

MCSymmetry == Permutations(Pool)
=============================================================================
