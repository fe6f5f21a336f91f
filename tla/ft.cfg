\* A thread that calls execute_rayon twice and one that calls cfunc_apply, with
\* zero or two chunks each, on two pool threads; the world is stopped up to
\* two times, anywhere.
CONSTANTS
  r1 = r1  r2 = r2  k1 = k1  j1 = j1  p1 = p1  p2 = p2  one = one  other = other
  RayonCalls = {r1, r2}
  CfuncCalls = {k1}
  JitCalls = {}
  Before <- OneThread
  Pool = {p1, p2}
  Path <- SamePath
  Failing = {r1}
  Sizes = {0, 2}
  MaxLen = 2
  Collecting = {"patch", "prepare", "return", "chunk"}
  MaxStops = 2
  None = None
SPECIFICATION FairSpec
CHECK_DEADLOCK FALSE
INVARIANTS TypeOK ScopeOutlivesJobs ImportsPatched AttachedForElements
PROPERTIES ImplementsContract CallsReturn WorldResumes
