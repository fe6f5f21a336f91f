------------------------------ MODULE MCRouter ------------------------------
(***************************************************************************)
(* Small instances of Router for TLC: one function of each interesting     *)
(* shape, and arrays of either lane whose values do or do not fit the      *)
(* other one.                                                              *)
(***************************************************************************)
EXTENDS Router, TLC

CONSTANTS modulo, njit, opaque, t1, t2

Plain == [expr |-> FALSE, cfunc |-> "none", numba |-> FALSE, jit |-> {},
          name |-> "module", weakref |-> TRUE]

MCShape == [f \in Funcs |->
  CASE f = modulo -> [Plain EXCEPT !.jit = {"i64"}, !.name = "<lambda>"]
    [] f = njit   -> [Plain EXCEPT !.numba = TRUE]
    [] f = opaque -> [Plain EXCEPT !.weakref = FALSE]]

MCInputs == {[type |-> "int64", fits |-> TRUE], [type |-> "float64", fits |-> FALSE],
             [type |-> "text", fits |-> FALSE]}
=============================================================================
