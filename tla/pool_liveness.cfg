\* Two calls of two chunks each, two workers of which one may fail to start, one
\* shutdown; a channel of four places; no function raises.
CONSTANTS
  c1 = c1  c2 = c2  w1 = w1  w2 = w2  f = f  g = g  a1 = a1  a2 = a2
  Calls = {c1, c2}
  Stops = {s1}
  Workers = {w1, w2}
  Funcs = {f}
  Faulty = {}
  Paths = {{"p"}}
  Flaky = {w1}
  Addrs = {a1, a2}
  Lens = {2}
  MaxLen = 2
  ChunksPerWorker = 1
  MaxChunkLen = 1
  NoCall = NoCall  NoFunc = NoFunc  NoAddr = NoAddr  NoTask = NoTask  NoPaths = NoPaths
  Shutdown = Shutdown  Torn = Torn
SPECIFICATION FairSpec
CHECK_DEADLOCK FALSE
PROPERTIES GilFreed CallsReturn ShutdownReturns
