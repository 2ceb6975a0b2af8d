--------------------------- MODULE ChunkingProofs ---------------------------
(***************************************************************************)
(* Chunks tile a file of any size, whatever the chunk size.                *)
(***************************************************************************)
EXTENDS Chunking, TLAPS

(* A size is so many whole chunks and a remainder.                         *)
LEMMA DivMod ==
  ASSUME NEW size \in Nat
  PROVE  /\ size \div ChunkSize \in Nat
         /\ size % ChunkSize \in 0 .. ChunkSize - 1
         /\ size = (size \div ChunkSize) * ChunkSize + (size % ChunkSize)
BY ChunkingAssumption

(* Offsets grow with the chunk index.                                      *)
LEMMA OffsetStrict ==
  ASSUME NEW i \in Nat, NEW j \in Nat, i < j
  PROVE  i * ChunkSize + ChunkSize <= j * ChunkSize
<1>1. PICK k \in Nat : j = i + 1 + k
  <2> DEFINE k == j - i - 1
  <2>1. k \in Nat /\ j = i + 1 + k
    OBVIOUS
  <2> QED BY <2>1
<1>2. j * ChunkSize = i * ChunkSize + ChunkSize + k * ChunkSize
  BY <1>1, ChunkingAssumption
<1>3. k * ChunkSize \in Nat /\ i * ChunkSize \in Nat
  BY <1>1, ChunkingAssumption
<1> QED BY <1>2, <1>3, ChunkingAssumption

(* No size in Sizes saturates the u32, so the total is the size rounded up *)
(* to whole chunks.                                                        *)
LEMMA TotalRoundsUp ==
  ASSUME NEW size \in Sizes
  PROVE  /\ size \in Nat
         /\ TotalChunks(size) \in Nat
         /\ TotalChunks(size) = IF size % ChunkSize = 0 THEN size \div ChunkSize
                                ELSE size \div ChunkSize + 1
<1> DEFINE q == size \div ChunkSize
           r == size % ChunkSize
<1>1. size \in Nat /\ size <= MaxChunks * ChunkSize /\ MaxChunks * ChunkSize \in Nat
  BY ChunkingAssumption
<1>2. q \in Nat /\ r \in 0 .. ChunkSize - 1 /\ size = q * ChunkSize + r
  BY <1>1, DivMod
<1>3. ~(MaxChunks < q)
  <2> SUFFICES ASSUME MaxChunks < q PROVE FALSE
    OBVIOUS
  <2>1. MaxChunks * ChunkSize + ChunkSize <= q * ChunkSize
    BY <1>2, OffsetStrict, ChunkingAssumption
  <2>2. q * ChunkSize \in Nat
    BY <1>2, ChunkingAssumption
  <2> HIDE DEF q, r
  <2> QED BY <1>1, <1>2, <2>1, <2>2, ChunkingAssumption
<1>4. ASSUME r # 0 PROVE q < MaxChunks
  <2>1. CASE q = MaxChunks
    <3> HIDE DEF q, r
    <3> QED BY <1>1, <1>2, <1>4, <2>1, ChunkingAssumption
  <2>2. CASE q # MaxChunks
    <3> HIDE DEF q, r
    <3> QED BY <1>2, <1>3, <2>2, ChunkingAssumption
  <2> QED BY <2>1, <2>2
<1>5. TotalChunks(size) = IF r = 0 THEN q ELSE q + 1
  <2> DEFINE n == q + (IF r = 0 THEN 0 ELSE 1)
  <2>1. n \in Nat /\ ~(n > MaxChunks)
    <3> HIDE DEF q, r
    <3> QED BY <1>2, <1>3, <1>4, ChunkingAssumption
  <2>2. TotalChunks(size) = IF n > MaxChunks THEN MaxChunks ELSE n
    BY DEF TotalChunks
  <2>3. n = IF r = 0 THEN q ELSE q + 1
    BY <1>2
  <2> QED BY <2>1, <2>2, <2>3
<1> QED BY <1>1, <1>2, <1>5

(* Every chunk starts where the one before it ends; the last one ends with *)
(* the file and is not empty (manifest.rs total_chunks, chunker.rs         *)
(* expected_size).                                                         *)
LEMMA ChunkEnds ==
  ASSUME NEW size \in Sizes, NEW i \in Nat, i < TotalChunks(size)
  PROVE  /\ Offset(i) \in Nat
         /\ ChunkLength(size, i) \in Nat \ {0}
         /\ Offset(i) + ChunkLength(size, i) <= size
         /\ i + 1 < TotalChunks(size)
              => Offset(i) + ChunkLength(size, i) = Offset(i + 1)
         /\ i + 1 = TotalChunks(size)
              => Offset(i) + ChunkLength(size, i) = size
<1> DEFINE q == size \div ChunkSize
           r == size % ChunkSize
           T == TotalChunks(size)
<1>1. /\ size \in Nat /\ T \in Nat
      /\ T = IF r = 0 THEN q ELSE q + 1
  BY TotalRoundsUp
<1>2. q \in Nat /\ r \in 0 .. ChunkSize - 1 /\ size = q * ChunkSize + r
  BY <1>1, DivMod
<1>3. Offset(i) = i * ChunkSize /\ Offset(i) \in Nat
  BY ChunkingAssumption DEF Offset
<1>4. Offset(i + 1) = Offset(i) + ChunkSize
  BY ChunkingAssumption DEF Offset
<1>5. ChunkLength(size, i) = IF i = T - 1 /\ r > 0 THEN r ELSE ChunkSize
  BY DEF ChunkLength
<1>6. CASE i + 1 < T
  <2>1. ChunkLength(size, i) = ChunkSize
    BY <1>1, <1>5, <1>6
  <2>2. i < q
    <3> HIDE DEF q, r, T
    <3> QED BY <1>1, <1>2, <1>6
  <2>3. Offset(i) + ChunkSize <= q * ChunkSize
    BY <1>2, <1>3, <2>2, OffsetStrict
  <2>4. q * ChunkSize \in Nat
    BY <1>2, ChunkingAssumption
  <2>5. Offset(i) + ChunkSize <= size
    <3> HIDE DEF q, r, T
    <3> QED BY <1>2, <1>3, <2>3, <2>4, ChunkingAssumption
  <2> QED BY <1>1, <1>3, <1>4, <1>6, <2>1, <2>5, ChunkingAssumption
<1>7. CASE i + 1 = T
  <2>1. CASE r = 0
    <3>1. i + 1 = q /\ ChunkLength(size, i) = ChunkSize
      BY <1>1, <1>2, <1>5, <1>7, <2>1
    <3>2. Offset(i) + ChunkSize = q * ChunkSize
      BY <1>4, <3>1 DEF Offset
    <3>3. size = q * ChunkSize
      <4>1. q * ChunkSize \in Nat
        BY <1>2, ChunkingAssumption
      <4> HIDE DEF q, r
      <4> QED BY <1>2, <2>1, <4>1
    <3> QED BY <1>1, <1>3, <1>7, <3>1, <3>2, <3>3, ChunkingAssumption
  <2>2. CASE r # 0
    <3>1. i = q /\ ChunkLength(size, i) = r
      <4> HIDE DEF q
      <4> QED BY <1>1, <1>2, <1>5, <1>7, <2>2, ChunkingAssumption
    <3>2. Offset(i) + r = size
      BY <1>2, <1>3, <3>1
    <3>3. r \in Nat \ {0}
      <4> HIDE DEF r
      <4> QED BY <1>2, <2>2, ChunkingAssumption
    <3> QED BY <1>1, <1>3, <1>7, <3>1, <3>2, <3>3
  <2> QED BY <2>1, <2>2
<1> QED BY <1>1, <1>6, <1>7

-----------------------------------------------------------------------------

\* ChunksAreContiguous fixes bytes_sent while chunks are left and
\* CompletedIsEverything when none is; together they are inductive.
IInv == TypeOK /\ ChunksAreContiguous /\ CompletedIsEverything

LEMMA IInvInit == Init => IInv
<1> SUFFICES ASSUME Init PROVE IInv
  OBVIOUS
<1>1. file_size \in Sizes /\ next = 0 /\ bytes_sent = 0 /\ written = {} /\ rewritten = FALSE
  BY DEF Init
<1>2. /\ file_size \in Nat /\ TotalChunks(file_size) \in Nat
      /\ TotalChunks(file_size) = IF file_size % ChunkSize = 0 THEN file_size \div ChunkSize
                                  ELSE file_size \div ChunkSize + 1
  BY <1>1, TotalRoundsUp
<1>3. TypeOK
  <2>1. next \in 0 .. TotalChunks(file_size)
    BY <1>1, <1>2
  <2>2. written \in SUBSET (0 .. file_size - 1) /\ bytes_sent \in Nat /\ rewritten \in BOOLEAN
    BY <1>1
  <2> QED BY <1>1, <2>1, <2>2 DEF TypeOK
<1>4. ChunksAreContiguous
  <2>1. 0 .. 0 - 1 = {}
    OBVIOUS
  <2>2. Offset(0) = 0
    BY ChunkingAssumption DEF Offset
  <2> QED BY <1>1, <2>1, <2>2 DEF ChunksAreContiguous
<1>5. CompletedIsEverything
  <2> SUFFICES ASSUME TotalChunks(file_size) = 0 PROVE file_size = 0
    BY <1>1 DEF CompletedIsEverything
  <2> DEFINE q == file_size \div ChunkSize
             r == file_size % ChunkSize
  <2>1. q \in Nat /\ r \in Nat /\ file_size = q * ChunkSize + r
    BY <1>2, DivMod
  <2>2. q = 0 /\ r = 0
    BY <1>2, <2>1
  <2> HIDE DEF q, r
  <2> QED BY <2>1, <2>2, ChunkingAssumption
<1> QED BY <1>3, <1>4, <1>5 DEF IInv

LEMMA IInvStep == IInv /\ [Next]_vars => IInv'
<1> SUFFICES ASSUME IInv, [Next]_vars PROVE IInv'
  OBVIOUS
<1>1. CASE UNCHANGED vars
  BY <1>1 DEF vars, IInv, TypeOK, ChunksAreContiguous, CompletedIsEverything
<1>2. CASE Next
  <2> DEFINE T == TotalChunks(file_size)
             len == ChunkLength(file_size, next)
  <2>1. /\ file_size \in Sizes /\ file_size' = file_size
        /\ next \in 0 .. T /\ next < T /\ next' = next + 1
        /\ bytes_sent' = bytes_sent + len
        /\ written' = written \cup ChunkBytes(file_size, next)
        /\ rewritten' = (rewritten \/ written \cap ChunkBytes(file_size, next) # {})
    BY <1>2 DEF Next, SendChunk, IInv, TypeOK
  <2>2. file_size \in Nat /\ T \in Nat
    BY <2>1, TotalRoundsUp
  <2>3. bytes_sent = Offset(next) /\ written = 0 .. bytes_sent - 1 /\ ~rewritten
    BY <2>1 DEF IInv, ChunksAreContiguous
  <2>4. /\ Offset(next) \in Nat /\ len \in Nat \ {0}
        /\ Offset(next) + len <= file_size
        /\ next + 1 < T => Offset(next) + len = Offset(next + 1)
        /\ next + 1 = T => Offset(next) + len = file_size
    BY <2>1, <2>2, ChunkEnds
  <2>5. ChunkBytes(file_size, next) = bytes_sent .. bytes_sent + len - 1
    BY <2>3 DEF ChunkBytes
  <2> HIDE DEF T, len
  <2>6. written' = 0 .. bytes_sent' - 1
    BY <2>1, <2>3, <2>4, <2>5
  <2>7. ~rewritten'
    <3>1. written \cap ChunkBytes(file_size, next) = {}
      BY <2>3, <2>4, <2>5
    <3>2. ~(written \cap ChunkBytes(file_size, next) # {})
      BY <3>1
    <3> QED BY <2>1, <2>3, <3>2, Zenon
  <2>8. ChunksAreContiguous'
    BY <2>1, <2>3, <2>4, <2>6, <2>7 DEF ChunksAreContiguous, T
  <2>9. CompletedIsEverything'
    BY <2>1, <2>3, <2>4 DEF CompletedIsEverything, T
  <2>10. TypeOK'
    <3>1. next' \in 0 .. T /\ bytes_sent' \in Nat /\ rewritten' \in BOOLEAN
      BY <2>1, <2>2, <2>3, <2>4, <2>7
    <3>2. written' \subseteq 0 .. file_size - 1
      BY <2>1, <2>2, <2>3, <2>4, <2>6
    <3> QED BY <2>1, <3>1, <3>2 DEF TypeOK, T
  <2> QED BY <2>8, <2>9, <2>10 DEF IInv
<1> QED BY <1>1, <1>2

(* For every chunk size and every file a u32 can count the chunks of, the  *)
(* bytes sent are always a prefix of the file, each sent once.             *)
THEOREM ChunksTileTheFile == Spec => [](TypeOK /\ ChunksAreContiguous)
<1>1. IInv => TypeOK /\ ChunksAreContiguous
  BY DEF IInv
<1> QED BY IInvInit, IInvStep, <1>1, PTL DEF Spec

(* COMPLETED is reported of the whole file, whatever its last chunk's size *)
(* (stream.rs:91).                                                         *)
THEOREM CompletedIsTheFile == Spec => []CompletedIsEverything
<1>1. IInv => CompletedIsEverything
  BY DEF IInv
<1> QED BY IInvInit, IInvStep, <1>1, PTL DEF Spec
=============================================================================
