\* Arrays of up to nine elements on two threads: shorter than the pool, with and
\* without a last short chunk, odd and even chunk lengths, and with more chunks
\* than the pool wants because of MaxChunkLen.
CONSTANTS
  Threads = 2
  ChunksPerWorker = 1
  MaxChunkLen = 3
  Lens = {0, 1, 2, 3, 4, 5, 6, 7, 8, 9}
  MaxLen = 9
  Lanes = 2
SPECIFICATION FairSpec
CHECK_DEADLOCK FALSE
INVARIANTS TypeOK NoAliasing ReturnsFilled
PROPERTY Terminates
