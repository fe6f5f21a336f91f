\* Two calls of different functions, one after the other; the allocator gives the
\* second context the address of the first.
CONSTANTS
  c1 = c1  c2 = c2  w1 = w1  w2 = w2  f = f  g = g  a1 = a1  a2 = a2
  NoCall = NoCall  NoFunc = NoFunc  NoAddr = NoAddr  NoTask = NoTask  NoPaths = NoPaths
  Shutdown = Shutdown  Torn = Torn
  ChunksPerWorker = 1
  MaxChunkLen = 1
  Calls = {c1, c2}
  Stops = {}
  Workers = {w1}
  Funcs = {f, g}
  Faulty = {}
  Paths = {{"p"}}
  Flaky = {}
  Addrs = {a1}
  Lens = {1}
  MaxLen = 1
SPECIFICATION Spec
CHECK_DEADLOCK FALSE
INVARIANT RightFunction
