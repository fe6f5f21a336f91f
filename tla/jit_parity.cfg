CONSTANTS
  Width = 8
  Fns <- Reassigning
  Arrays <- AllArrays
SPECIFICATION Spec
CHECK_DEADLOCK FALSE
INVARIANT SameAsPython
