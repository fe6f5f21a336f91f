\* Two threads, three functions at two addresses, one of them without weak
\* references: an address is used again while calls are under way.
CONSTANTS
  modulo = modulo  njit = njit  opaque = opaque  t1 = t1  t2 = t2
  Threads = {t1, t2}
  Funcs = {modulo, njit, opaque}
  Ids = {1, 2}
  Shape <- MCShape
  Inputs <- MCInputs
  None = None
SPECIFICATION Spec
CHECK_DEADLOCK FALSE
INVARIANTS TypeOK NoStaleDecision OwnDecision RoutableAccepted
PROPERTY DecisionsKept
