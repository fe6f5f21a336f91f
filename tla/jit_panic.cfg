CONSTANTS
  Width = 8
  Fns <- Predicates
  Arrays <- AllArrays
SPECIFICATION Spec
CHECK_DEADLOCK FALSE
INVARIANT RejectedNotRaised
