CONSTANTS
  Width = 8
  Fns <- AllFns
  Arrays <- AllArrays
SPECIFICATION Spec
CHECK_DEADLOCK FALSE
INVARIANTS TypeOK AgreesWithPython  NeverFatal ReturnsOnEveryPath
