------------------------------ MODULE Chunking ------------------------------
(***************************************************************************)
(* How a file's bytes are cut into chunks, sent and put back: the total in *)
(* FileManifest::new (file_relay/manifest.rs), the offset and length in    *)
(* FileChunker::read_chunk (chunker.rs), the loop and the byte count of    *)
(* send_file (transport/stream.rs) and the offset in                       *)
(* DiskWriter::write_chunk (writer.rs).  Module FileTransfer has the same  *)
(* loop among everything that can disturb it, without the bytes.           *)
(***************************************************************************)
EXTENDS Integers

CONSTANTS
  ChunkSize,  \* CHUNK_SIZE, 65536 in the code
  MaxChunks,  \* what "as u32" saturates to, 2^32 - 1
  Sizes       \* file sizes in bytes

\* Files of 2^48 bytes and more would need more chunks than a u32 counts.
ASSUME ChunkingAssumption ==
  /\ ChunkSize \in Nat \ {0}
  /\ MaxChunks \in Nat
  /\ Sizes \subseteq 0 .. MaxChunks * ChunkSize

VARIABLES
  file_size,    \* FileManifest.file_size
  next,         \* the loop variable of send_file
  bytes_sent,   \* its count of payload bytes
  written,      \* the bytes of the receiver's file that have been written
  rewritten     \* history: some byte was written twice

vars == <<file_size, next, bytes_sent, written, rewritten>>

\* Rounded down, as without ceil(), used to test the properties.
TotalChunksFloor(size) == IF size \div ChunkSize > MaxChunks THEN MaxChunks
                          ELSE size \div ChunkSize

\* (file_size as f64 / CHUNK_SIZE as f64).ceil() as u32.  The f64 quotient is
\* exact for every size whose number of chunks fits, CHUNK_SIZE being a power
\* of two.
TotalChunks(size) ==
  LET n == size \div ChunkSize + (IF size % ChunkSize = 0 THEN 0 ELSE 1)
  IN  IF n > MaxChunks THEN MaxChunks ELSE n

Offset(i) == i * ChunkSize

\* The length of the last chunk for every chunk, used to test the properties.
ChunkLengthOfAnyChunk(size, i) ==
  IF size % ChunkSize > 0 THEN size % ChunkSize ELSE ChunkSize

\* expected_size in read_chunk: the last chunk may be shorter.
ChunkLength(size, i) ==
  IF i = TotalChunks(size) - 1 /\ size % ChunkSize > 0
  THEN size % ChunkSize
  ELSE ChunkSize

\* The bytes chunk i covers, at the sender and at the receiver.
ChunkBytes(size, i) == Offset(i) .. Offset(i) + ChunkLength(size, i) - 1

TypeOK ==
  /\ file_size \in Sizes
  /\ next \in 0 .. TotalChunks(file_size)
  /\ bytes_sent \in Nat
  /\ written \in SUBSET (0 .. file_size - 1)
  /\ rewritten \in BOOLEAN

Init ==
  /\ file_size \in Sizes
  /\ next = 0
  /\ bytes_sent = 0
  /\ written = {}
  /\ rewritten = FALSE

\* One turn of the loop, and the write it leads to.
SendChunk ==
  /\ next < TotalChunks(file_size)
  /\ next' = next + 1
  /\ bytes_sent' = bytes_sent + ChunkLength(file_size, next)
  /\ written' = written \cup ChunkBytes(file_size, next)
  /\ rewritten' = (rewritten \/ written \cap ChunkBytes(file_size, next) # {})
  /\ UNCHANGED file_size

Next == SendChunk

Spec == Init /\ [][Next]_vars

-----------------------------------------------------------------------------
(* The chunks sent so far are exactly the file's first bytes_sent bytes,   *)
(* no byte of them twice, and the read of the next chunk starts where the  *)
(* last one ended.                                                         *)
ChunksAreContiguous ==
  /\ written = 0 .. bytes_sent - 1
  /\ ~rewritten
  /\ next < TotalChunks(file_size) => bytes_sent = Offset(next)

(* The update that says COMPLETED says so of the whole file: after the     *)
(* last chunk bytes_sent is file_size, so the CLI's bar is full and every  *)
(* byte the receiver allocated has been written.                           *)
CompletedIsEverything ==
  next = TotalChunks(file_size) => bytes_sent = file_size
=============================================================================
