\* Two threads that call execute_rayon, with lists of their own; the world is
\* stopped once, while sys.path is patched.
CONSTANTS
  r1 = r1  r2 = r2  k1 = k1  j1 = j1  p1 = p1  p2 = p2  one = one  other = other
  RayonCalls = {r1, r2}
  CfuncCalls = {}
  JitCalls = {}
  Before <- OwnThreads
  Pool = {p1}
  Path <- MCPath
  Failing = {}
  Sizes = {1}
  MaxLen = 1
  Collecting = {"patch"}
  MaxStops = 1
  None = None
SPECIFICATION FairSpec
CHECK_DEADLOCK FALSE
PROPERTY CallsReturn
