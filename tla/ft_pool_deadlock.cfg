\* execute_rayon and jit_apply, two chunks each, on two pool threads; a chunk of
\* execute_rayon stops the world once.
CONSTANTS
  r1 = r1  r2 = r2  k1 = k1  j1 = j1  p1 = p1  p2 = p2  one = one  other = other
  RayonCalls = {r1}
  CfuncCalls = {}
  JitCalls = {j1}
  Before <- OwnThreads
  Pool = {p1, p2}
  Path <- MCPath
  Failing = {}
  Sizes = {2}
  MaxLen = 2
  Collecting = {"chunk"}
  MaxStops = 1
  None = None
SPECIFICATION FairSpec
CHECK_DEADLOCK FALSE
PROPERTY WorldResumes
