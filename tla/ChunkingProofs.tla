--------------------------- MODULE ChunkingProofs ---------------------------
EXTENDS Chunking, TLAPS

LEMMA DivBounds ==
  ASSUME NEW a \in Nat, NEW b \in Nat \ {0}
  PROVE  /\ a \div b \in Nat
         /\ a % b \in 0..(b - 1)
         /\ a = b * (a \div b) + (a % b)
BY SMTT(20)

LEMMA DivCeilBounds ==
  ASSUME NEW a \in Nat, NEW b \in Nat \ {0}
  PROVE  /\ DivCeil(a, b) \in Nat
         /\ a <= b * DivCeil(a, b)
         /\ b * DivCeil(a, b) < a + b
<1> DEFINE q == a \div b
           r == a % b
<1>1. /\ q \in Nat
      /\ r \in 0..(b - 1)
      /\ a = b * q + r
  BY DivBounds
<1>2. DivCeil(a, b) = q + (IF r = 0 THEN 0 ELSE 1)
  BY DEF DivCeil
<1> HIDE DEF q, r
<1>3. b * q \in Nat
  BY <1>1
<1>4. CASE r = 0
  BY <1>1, <1>2, <1>3, <1>4
<1>5. CASE r # 0
  <2>1. DivCeil(a, b) = q + 1
    BY <1>2, <1>5
  <2>2. b * (q + 1) = b * q + b
    BY <1>1
  <2> QED
    BY <1>1, <1>3, <1>5, <2>1, <2>2
<1> QED
  BY <1>4, <1>5

\* Multiplication is monotone and strictly so: what the provers need to compare
\* products without unfolding them.
LEMMA MultMono ==
  ASSUME NEW b \in Nat, NEW x \in Int, NEW y \in Int, x <= y
  PROVE  b * x <= b * y
BY SMTT(20)

LEMMA MultCancel ==
  ASSUME NEW b \in Nat \ {0}, NEW x \in Int, NEW y \in Int, b * x < b * y
  PROVE  x < y
BY SMTT(20)

-----------------------------------------------------------------------------
\* The number of chunks pick_chunk_size divides a non-empty array by.
Divisor(len, threads) == Smaller(len, Larger(WantedChunks(len, threads), 1))

LEMMA WantedType ==
  ASSUME NEW len \in Nat, NEW threads \in Nat \ {0}
  PROVE  /\ WantedChunks(len, threads) \in Nat \ {0}
         /\ DivCeil(len, MaxChunkLen) \in Nat
         /\ DivCeil(len, MaxChunkLen) <= WantedChunks(len, threads)
<1>1. DivCeil(len, MaxChunkLen) \in Nat
  BY DivCeilBounds, ChunkingAssumption
<1>2. threads * ChunksPerWorker \in Nat \ {0}
  BY ChunkingAssumption, SMTT(20)
<1> QED
  BY <1>1, <1>2 DEF WantedChunks, Larger

LEMMA DivisorBounds ==
  ASSUME NEW len \in Nat \ {0}, NEW threads \in Nat \ {0}
  PROVE  /\ Divisor(len, threads) \in 1..len
         /\ Divisor(len, threads) <= WantedChunks(len, threads)
         /\ \/ Divisor(len, threads) = len
            \/ Divisor(len, threads) = WantedChunks(len, threads)
BY WantedType DEF Divisor, Larger, Smaller

LEMMA SizeOfNonEmpty ==
  ASSUME NEW len \in Nat \ {0}, NEW threads \in Nat
  PROVE  PickChunkSize(len, threads) = DivCeil(len, Divisor(len, threads))
BY DEF PickChunkSize, Divisor

\* A chunk is never empty: slice::chunks panics on a length of zero, and the
\* dispatch loop of invoke_kernel_parallel would not advance.
THEOREM ChunkSizePositive ==
  ASSUME NEW len \in Nat, NEW threads \in Nat \ {0}
  PROVE  PickChunkSize(len, threads) \in Nat \ {0}
<1>1. CASE len = 0
  BY <1>1 DEF PickChunkSize
<1>2. CASE len # 0
  <2> DEFINE n == Divisor(len, threads)
             s == DivCeil(len, n)
  <2>1. n \in Nat \ {0}
    BY <1>2, DivisorBounds
  <2>2. s \in Nat /\ len <= n * s
    BY <2>1, DivCeilBounds
  <2>3. PickChunkSize(len, threads) = s
    BY <1>2, SizeOfNonEmpty
  <2> HIDE DEF n, s
  <2>4. s # 0
    <3>1. n * 0 = 0
      BY <2>1
    <3> QED
      BY <1>2, <2>1, <2>2, <3>1
  <2> QED
    BY <2>2, <2>3, <2>4
<1> QED
  BY <1>1, <1>2

\* A chunk has an element at least, so an array is never cut into more chunks
\* than it has elements.
THEOREM NoMoreChunksThanElements ==
  ASSUME NEW len \in Nat, NEW threads \in Nat \ {0}
  PROVE  NumChunks(len, threads) \in 0..len
<1> DEFINE s == PickChunkSize(len, threads)
           c == DivCeil(len, s)
<1>1. s \in Nat \ {0}
  BY ChunkSizePositive
<1>2. c \in Nat /\ s * c < len + s
  BY <1>1, DivCeilBounds
<1>3. NumChunks(len, threads) = c
  BY DEF NumChunks
<1> HIDE DEF s, c
<1>4. c <= len
  <2> SUFFICES ASSUME len + 1 <= c PROVE FALSE
    BY <1>2
  <2>1. s * (len + 1) <= s * c
    BY <1>1, <1>2, MultMono
  <2>2. s * (len + 1) = s * len + s
    BY <1>1
  <2>3. 1 * len <= s * len
    <3>1. len * 1 <= len * s
      BY <1>1, MultMono
    <3> QED
      BY <1>1, <3>1
  <2>4. s * len \in Nat /\ s * c \in Nat
    BY <1>1, <1>2
  <2> QED
    BY <1>1, <1>2, <2>1, <2>2, <2>3, <2>4
<1> QED
  BY <1>2, <1>3, <1>4

\* There are never more chunks than were wanted: rounding the chunk length up
\* can only lower their number.
THEOREM NoMoreChunksThanWanted ==
  ASSUME NEW len \in Nat \ {0}, NEW threads \in Nat \ {0}
  PROVE  NumChunks(len, threads) <= WantedChunks(len, threads)
<1> DEFINE n == Divisor(len, threads)
           s == PickChunkSize(len, threads)
           c == DivCeil(len, s)
<1>1. n \in Nat \ {0} /\ n <= WantedChunks(len, threads)
  BY DivisorBounds
<1>2. s \in Nat \ {0} /\ len <= n * s
  BY <1>1, ChunkSizePositive, SizeOfNonEmpty, DivCeilBounds
<1>3. c \in Nat /\ s * c < len + s
  BY <1>2, DivCeilBounds
<1>4. NumChunks(len, threads) = c
  BY DEF NumChunks
<1>5. WantedChunks(len, threads) \in Nat
  BY WantedType
<1> HIDE DEF n, s, c
<1>6. s * c < s * (n + 1)
  <2>1. n * s \in Nat /\ s * c \in Nat /\ s * (n + 1) = n * s + s
    BY <1>1, <1>2, <1>3
  <2> QED
    BY <1>2, <1>3, <2>1
<1>7. c < n + 1
  BY <1>1, <1>2, <1>3, <1>6, MultCancel
<1> QED
  BY <1>1, <1>3, <1>4, <1>5, <1>7

\* "For huge len, chunks scale up so chunk_size stays under MAX_CHUNK"
\* (lib.rs:74), at most MAX_CHUNK to be exact, and so for every length.
THEOREM ChunkSizeBounded ==
  ASSUME NEW len \in Nat, NEW threads \in Nat \ {0}
  PROVE  PickChunkSize(len, threads) <= MaxChunkLen
<1>1. CASE len = 0
  BY <1>1, ChunkingAssumption DEF PickChunkSize
<1>2. CASE len # 0
  <2> DEFINE n == Divisor(len, threads)
             s == PickChunkSize(len, threads)
             m == DivCeil(len, MaxChunkLen)
  <2>1. /\ n \in Nat \ {0}
        /\ n = len \/ n = WantedChunks(len, threads)
    BY <1>2, DivisorBounds
  <2>2. s \in Nat /\ n * s < len + n
    BY <1>2, <2>1, SizeOfNonEmpty, DivCeilBounds
  <2>3. m \in Nat /\ len <= MaxChunkLen * m
    BY DivCeilBounds, ChunkingAssumption
  <2>4. n = len \/ m <= n
    BY <2>1, WantedType
  <2> HIDE DEF n, s, m
  <2>5. len <= n * MaxChunkLen
    <3>1. CASE n = len
      <4>1. n * 1 <= n * MaxChunkLen
        BY <2>1, ChunkingAssumption, MultMono
      <4> QED
        BY <2>1, <3>1, <4>1
    <3>2. CASE m <= n
      <4>1. MaxChunkLen * m <= MaxChunkLen * n
        BY <2>1, <2>3, <3>2, ChunkingAssumption, MultMono
      <4>2. MaxChunkLen * m \in Nat /\ MaxChunkLen * n = n * MaxChunkLen
            /\ n * MaxChunkLen \in Nat
        BY <2>1, <2>3, ChunkingAssumption
      <4> QED
        BY <2>3, <4>1, <4>2
    <3> QED
      BY <2>4, <3>1, <3>2
  <2>6. n * s < n * (MaxChunkLen + 1)
    <3>1. /\ n * (MaxChunkLen + 1) = n * MaxChunkLen + n
          /\ n * MaxChunkLen \in Nat /\ n * s \in Nat
      BY <2>1, <2>2, ChunkingAssumption
    <3> QED
      BY <2>1, <2>2, <2>5, <3>1
  <2>7. s < MaxChunkLen + 1
    BY <2>1, <2>2, <2>6, ChunkingAssumption, MultCancel
  <2> QED
    BY <2>2, <2>7, ChunkingAssumption DEF s
<1> QED
  BY <1>1, <1>2

-----------------------------------------------------------------------------
\* The chunks cut the array: each position lies in exactly one of them.  This
\* is what lets every worker write its slice of the result without a lock.
THEOREM ChunksPartition ==
  ASSUME NEW len \in Nat, NEW threads \in Nat \ {0}, NEW p \in 0..(len - 1)
  PROVE  LET s == PickChunkSize(len, threads)
         IN  /\ \E k \in 1..NumChunks(len, threads) : p \in ChunkOf(k, s, len)
             /\ \A j, k \in 1..NumChunks(len, threads) :
                  p \in ChunkOf(j, s, len) /\ p \in ChunkOf(k, s, len) => j = k
<1> DEFINE s == PickChunkSize(len, threads)
           c == DivCeil(len, s)
           q == p \div s
<1>1. s \in Nat \ {0}
  BY ChunkSizePositive
<1>2. c \in Nat /\ len <= s * c /\ NumChunks(len, threads) = c
  BY <1>1, DivCeilBounds DEF NumChunks
<1>3. q \in Nat /\ s * q <= p /\ p < s * q + s
  <2> DEFINE r == p % s
  <2> HIDE DEF s
  <2>1. q \in Nat /\ r \in 0..(s - 1) /\ p = s * q + r
    <3>1. p \in Nat
      OBVIOUS
    <3> QED
      BY <1>1, <3>1, DivBounds
  <2> HIDE DEF q, r
  <2>2. s * q \in Nat
    BY <1>1, <2>1
  <2> QED
    BY <1>1, <2>1, <2>2
<1>4. \A k \in Nat : p \in ChunkOf(k, s, len) <=> (s * (k - 1) <= p /\ p < s * k)
  <2> TAKE k \in Nat
  <2>1. (k - 1) * s \in Int /\ k * s \in Int /\ (k - 1) * s = s * (k - 1)
        /\ k * s = s * k
    BY <1>1
  <2> QED
    BY <2>1 DEF ChunkOf, ChunkStart, ChunkEnd, Smaller
<1> HIDE DEF s, c, q
<1>5. \E k \in 1..c : p \in ChunkOf(k, s, len)
  <2>1. s * (q + 1) = s * q + s /\ (q + 1) - 1 = q /\ s * q \in Nat
    BY <1>1, <1>3
  <2>2. p \in ChunkOf(q + 1, s, len)
    BY <1>3, <1>4, <2>1
  <2>3. s * q < s * c
    BY <1>1, <1>2, <1>3, <2>1
  <2>4. q < c
    BY <1>1, <1>2, <1>3, <2>3, MultCancel
  <2> QED
    BY <1>2, <1>3, <2>2, <2>4
<1>6. \A j, k \in 1..c :
        p \in ChunkOf(j, s, len) /\ p \in ChunkOf(k, s, len) => j = k
  <2> SUFFICES ASSUME NEW j \in 1..c, NEW k \in 1..c,
                      p \in ChunkOf(j, s, len), p \in ChunkOf(k, s, len)
               PROVE  j = k
    OBVIOUS
  <2>1. /\ s * (j - 1) <= p /\ p < s * j
        /\ s * (k - 1) <= p /\ p < s * k
    BY <1>2, <1>4
  <2>2. s * (j - 1) \in Int /\ s * j \in Int /\ s * (k - 1) \in Int /\ s * k \in Int
    BY <1>1
  <2>3. s * (j - 1) < s * k /\ s * (k - 1) < s * j
    BY <2>1, <2>2
  <2>4. j - 1 < k /\ k - 1 < j
    BY <1>1, <2>3, MultCancel
  <2> QED
    BY <2>4
<1> QED
  BY <1>2, <1>5, <1>6 DEF s
=============================================================================
