\* Two calls of two chunks or none, two workers, one shutdown; a channel of
\* four places; either worker may fail to start, one function may raise;
\* one list of two paths.
CONSTANTS
  c1 = c1  c2 = c2  w1 = w1  w2 = w2  f = f  g = g  a1 = a1  a2 = a2
  Calls = {c1, c2}
  Stops = {s1}
  Workers = {w1, w2}
  Funcs = {f, g}
  Faulty = {g}
  Paths = {{"p", "q"}}
  Flaky = {w1, w2}
  Addrs = {a1, a2}
  Lens = {0, 2}
  MaxLen = 2
  ChunksPerWorker = 1
  MaxChunkLen = 1
  NoCall = NoCall  NoFunc = NoFunc  NoAddr = NoAddr  NoTask = NoTask  NoPaths = NoPaths
  Shutdown = Shutdown  Torn = Torn
SPECIFICATION Spec
SYMMETRY MCSymmetry
CHECK_DEADLOCK FALSE
INVARIANTS TypeOK BuffersLive OneOwner NothingLost FunctionOfAddress NoPartialResult EnoughShutdowns
PROPERTIES ImportsPatched ShutdownFinal ImplementsContract
