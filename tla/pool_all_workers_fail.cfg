\* One call of two chunks; every worker may fail to create its sub-interpreter.
CONSTANTS
  c1 = c1  c2 = c2  w1 = w1  w2 = w2  f = f  g = g  a1 = a1  a2 = a2
  NoCall = NoCall  NoFunc = NoFunc  NoAddr = NoAddr  NoTask = NoTask  NoPaths = NoPaths
  Shutdown = Shutdown  Torn = Torn
  ChunksPerWorker = 1
  MaxChunkLen = 1
  Calls = {c1}
  Stops = {}
  Workers = {w1, w2}
  Funcs = {f}
  Faulty = {}
  Paths = {{"p"}}
  Flaky = {w1, w2}
  Addrs = {a1}
  Lens = {2}
  MaxLen = 2
SPECIFICATION FairSpec
CHECK_DEADLOCK FALSE
PROPERTY CallsReturn
