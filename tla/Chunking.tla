------------------------------ MODULE Chunking ------------------------------
(***************************************************************************)
(* How one input array is cut into chunks.  Every executor of the program  *)
(* (the sub-interpreter pool, the free-threaded pool, the JIT and cfunc    *)
(* dispatchers) asks pick_chunk_size for a chunk length and then walks the *)
(* array in steps of that length, so that every worker writes a slice of   *)
(* the result that is its own.                                             *)
(***************************************************************************)
EXTENDS Integers

CONSTANTS
  ChunksPerWorker,   \* CHUNKS_PER_WORKER: chunks wanted per worker
  MaxChunkLen        \* MAX_CHUNK: longest chunk of a very long array

ASSUME ChunkingAssumption ==
  /\ ChunksPerWorker \in Nat \ {0}
  /\ MaxChunkLen \in Nat \ {0}

\* usize::div_ceil
DivCeil(a, b) == (a \div b) + (IF a % b = 0 THEN 0 ELSE 1)

Larger(a, b)  == IF a >= b THEN a ELSE b
Smaller(a, b) == IF a <= b THEN a ELSE b

\* The number of chunks pick_chunk_size would like, before the array's own
\* length bounds it.
WantedChunks(len, threads) ==
  Larger(threads * ChunksPerWorker, DivCeil(len, MaxChunkLen))

PickChunkSize(len, threads) ==
  IF len = 0 THEN 1
  ELSE DivCeil(len, Smaller(len, Larger(WantedChunks(len, threads), 1)))

\* slice::chunks(n) of a slice of len elements: this many chunks, of which the
\* k-th (from 1) holds these positions (from 0); the last one may be shorter.
NumChunks(len, threads) == DivCeil(len, PickChunkSize(len, threads))

ChunkStart(k, size) == (k - 1) * size
ChunkEnd(k, size, len) == Smaller(k * size, len)
ChunkOf(k, size, len) == ChunkStart(k, size) .. ChunkEnd(k, size, len) - 1
=============================================================================
