---------------------------- MODULE FileTransfer ----------------------------
(***************************************************************************)
(* File transfers from one node to a peer over their QUIC connection:      *)
(* the CLI's send command (client/send.go), the daemon's InitiateSend and  *)
(* its background task (main.rs, file_relay/chunker.rs, send_file in       *)
(* transport/stream.rs), the stream between the two daemons, and the       *)
(* receiving task with its DiskWriter (spawn_incoming_stream_listener in   *)
(* transport/stream.rs, file_relay/writer.rs).                             *)
(*                                                                         *)
(* Files are sequences of chunks; how bytes are cut into chunks is the     *)
(* subject of module Chunking.  A chunk's content is the transfer whose    *)
(* source it comes from and the version of that source.                    *)
(***************************************************************************)
EXTENDS Naturals, Sequences, FiniteSets

CONSTANTS
  Transfers,      \* InitiateSend calls
  Names,          \* file names in the receiver's save directory
  NameOf,         \* the base name of each transfer's source
  Size,           \* how many chunks the source of each transfer has
  ProgressEvery,  \* a progress update every so many chunks, 50 in the code
  ProgressCap,    \* capacity of the progress channel, 128 in the code
  Edits,          \* somebody may rewrite a source while it is being sent
  DiskErrors,     \* the receiver's disk may refuse an open or a write
  None            \* nothing

ASSUME TransferAssumption ==
  /\ NameOf \in [Transfers -> Names]
  /\ Size \in [Transfers -> Nat]
  /\ ProgressEvery \in Nat \ {0}
  /\ ProgressCap \in Nat \ {0}
  /\ Edits \in BOOLEAN
  /\ DiskErrors \in BOOLEAN

Original(t) == [of |-> t, version |-> 1]
Edited(t) == [of |-> t, version |-> 2]
Chunk == {Original(t) : t \in Transfers} \cup {Edited(t) : t \in Transfers}
Zero == [of |-> None, version |-> 0]   \* never written
Torn == [of |-> None, version |-> 1]   \* written, then its last byte zeroed
OnDisk == Chunk \cup {Zero, Torn}

\* What a DiskWriter has buffered: a chunk for its position, or the zero byte
\* for the end of the file.
Write == [what : {"chunk"}, index : Nat, data : Chunk] \cup {[what |-> "end"]}

ASSUME NoneAssumption == None \notin Write

\* The two kinds of frame on a file stream.
ManifestFrame(n, h) == [kind |-> "manifest", total |-> n, hash |-> h]
ChunkFrame(i, c) == [kind |-> "chunk", index |-> i, data |-> c]

VARIABLES
  source,    \* the file each transfer reads
  snd,       \* each sending task: where it is and what it has collected
  progress,  \* its channel to the CLI
  cli,       \* the send command that started it
  conn,      \* the QUIC connection
  wire,      \* frames written to each stream and not yet read
  fin,       \* the sending side of the stream has been finished
  rcv,       \* each receiving task and its DiskWriter
  disk       \* the receiver's files

vars == <<source, snd, progress, cli, conn, wire, fin, rcv, disk>>
senderVars == <<source, snd, progress, fin>>
receiverVars == <<rcv, disk>>

NewSender == [at |-> "idle", total |-> 0, hash |-> <<>>, next |-> 0]
NewReceiver == [at |-> "none", writer |-> FALSE, total |-> 0, hash |-> <<>>,
                received |-> {}, pending |-> None, failed |-> FALSE,
                verified |-> FALSE, graceful |-> FALSE]

TypeOK ==
  /\ source \in [Transfers -> Seq(Chunk)]
  /\ \A t \in Transfers :
       /\ snd[t].at \in {"idle", "stat", "hash", "open", "chunk", "report",
                         "finish", "fail", "done"}
       /\ snd[t].next \in 0 .. snd[t].total
       /\ snd[t].hash \in Seq(Chunk)
       /\ rcv[t].at \in {"none", "reading", "allocate", "ended"}
       /\ rcv[t].received \subseteq 0 .. rcv[t].total - 1
       /\ rcv[t].pending \in Write \cup {None}
       /\ rcv[t].verified => rcv[t].writer
  /\ progress \in [Transfers -> Seq({"STREAMING", "COMPLETED", "ERR"})]
  /\ \A t \in Transfers : Len(progress[t]) <= ProgressCap
  /\ cli \in [Transfers -> {"idle", "waiting", "drawing", "hung",
                          "complete", "error", "gone"}]
  /\ conn \in {"open", "closed"}
  /\ fin \in [Transfers -> BOOLEAN]
  /\ disk \in [Names -> Seq(OnDisk)]

Init ==
  /\ source = [t \in Transfers |-> [i \in 1 .. Size[t] |-> Original(t)]]
  /\ snd = [t \in Transfers |-> NewSender]
  /\ progress = [t \in Transfers |-> <<>>]
  /\ cli = [t \in Transfers |-> "idle"]
  /\ conn = "open"
  /\ wire = [t \in Transfers |-> <<>>]
  /\ fin = [t \in Transfers |-> FALSE]
  /\ rcv = [t \in Transfers |-> NewReceiver]
  /\ disk = [n \in Names |-> <<>>]

-----------------------------------------------------------------------------
(* The CLI.                                                                *)

\* InitiateSend finds the peer's connection in the registry, dead or alive,
\* and spawns the sending task.
InitiateSend(t) ==
  /\ cli[t] = "idle"
  /\ cli' = [cli EXCEPT ![t] = "waiting"]
  /\ snd' = [snd EXCEPT ![t].at = "stat"]
  /\ UNCHANGED <<source, progress, conn, wire, fin, receiverVars>>

\* One stream.Recv.  The first update draws the progress bar.  COMPLETED fills
\* it and is success.  The end of the stream is success too, but p.Wait() never
\* returns with a bar that is not full.
Recv(t) ==
  /\ cli[t] \in {"waiting", "drawing"}
  /\ \/ /\ progress[t] # <<>>
        /\ progress' = [progress EXCEPT ![t] = Tail(@)]
        /\ cli' = [cli EXCEPT ![t] = CASE Head(progress[t]) = "STREAMING" -> "drawing"
                                       [] Head(progress[t]) = "COMPLETED" -> "complete"
                                       [] Head(progress[t]) = "ERR" -> "error"]
     \/ /\ progress[t] = <<>> /\ snd[t].at = "done"
        /\ cli' = [cli EXCEPT ![t] = IF @ = "drawing" THEN "hung" ELSE "complete"]
        /\ UNCHANGED progress
  /\ UNCHANGED <<source, snd, conn, wire, fin, receiverVars>>

\* The user interrupts the command.
KillCli(t) ==
  /\ cli[t] \in {"waiting", "drawing", "hung"}
  /\ cli' = [cli EXCEPT ![t] = "gone"]
  /\ UNCHANGED <<senderVars, conn, wire, receiverVars>>

\* The daemon's end of the progress channel has lost its receiver.
CliLeft(t) == cli[t] \in {"complete", "error", "gone"}

-----------------------------------------------------------------------------
(* The sending task.                                                       *)

\* An error leaves send_file or FileChunker::new with ?: the stream, if there
\* is one, is finished by its destructor, and the error is for the CLI.
FailAt(t) ==
  /\ snd' = [snd EXCEPT ![t].at = "fail"]
  /\ fin' = [fin EXCEPT ![t] = snd[t].at \in {"chunk", "report"}]
  /\ UNCHANGED wire

\* File::open and metadata: the size is taken here.
StatSource(t) ==
  /\ snd[t].at = "stat"
  /\ snd' = [snd EXCEPT ![t].at = "hash", ![t].total = Len(source[t])]
  /\ UNCHANGED <<source, progress, cli, conn, wire, fin, receiverVars>>

\* The blocking task opens the path again and hashes what it finds.
HashSource(t) ==
  /\ snd[t].at = "hash"
  /\ snd' = [snd EXCEPT ![t].at = "open", ![t].hash = source[t]]
  /\ UNCHANGED <<source, progress, cli, conn, wire, fin, receiverVars>>

\* open_uni and the manifest frame.
SendManifest(t) ==
  /\ snd[t].at = "open"
  /\ IF conn = "open"
     THEN /\ snd' = [snd EXCEPT ![t].at = IF snd[t].total = 0 THEN "finish" ELSE "chunk"]
          /\ wire' = [wire EXCEPT ![t] =
                        Append(@, ManifestFrame(snd[t].total, snd[t].hash))]
          /\ UNCHANGED fin
     ELSE FailAt(t)
  /\ UNCHANGED <<source, progress, cli, conn, receiverVars>>

\* A progress update is due after chunk i.
Due(t, i) == i % ProgressEvery = 0 \/ i = snd[t].total - 1

\* read_chunk(i) and the chunk frame.  The read comes up short when the source
\* has shrunk; the write fails when the connection is closed or the receiver
\* has stopped the stream.
SendChunk(t) ==
  LET i == snd[t].next IN
  /\ snd[t].at = "chunk"
  /\ \/ /\ i < Len(source[t])
        /\ conn = "open"
        /\ wire' = [wire EXCEPT ![t] = Append(@, ChunkFrame(i, source[t][i + 1]))]
        /\ snd' = [snd EXCEPT ![t].at = IF Due(t, i) THEN "report" ELSE "chunk",
                              ![t].next = i + 1]
        /\ UNCHANGED fin
     \/ /\ i >= Len(source[t]) \/ conn = "closed" \/ rcv[t].at = "ended"
        /\ FailAt(t)
  /\ UNCHANGED <<source, progress, cli, conn, receiverVars>>

\* One chunk too late, used to test the properties.
CompletedLate(t) == snd[t].next > snd[t].total

\* The last chunk's update says COMPLETED, the others STREAMING.
Completed(t) == snd[t].next = snd[t].total

\* progress_tx.send: waits while the channel is full; when the CLI is gone the
\* loop breaks as if it had come to its end.
Report(t) ==
  /\ snd[t].at = "report"
  /\ \/ /\ CliLeft(t)
        /\ snd' = [snd EXCEPT ![t].at = "finish"]
        /\ UNCHANGED progress
     \/ /\ ~CliLeft(t)
        /\ Len(progress[t]) < ProgressCap
        /\ progress' = [progress EXCEPT ![t] =
                          Append(@, IF Completed(t) THEN "COMPLETED" ELSE "STREAMING")]
        /\ snd' = [snd EXCEPT ![t].at = IF snd[t].next = snd[t].total
                                        THEN "finish" ELSE "chunk"]
  /\ UNCHANGED <<source, cli, conn, wire, fin, receiverVars>>

\* A task that leaves its stream open, used to test the properties.
FinishForgotten(t) ==
  /\ snd[t].at = "finish"
  /\ snd' = [snd EXCEPT ![t].at = "done"]
  /\ UNCHANGED <<source, progress, cli, conn, wire, fin, receiverVars>>

\* send_stream.finish(), and the task returns.
Finish(t) ==
  /\ snd[t].at = "finish"
  /\ fin' = [fin EXCEPT ![t] = TRUE]
  /\ snd' = [snd EXCEPT ![t].at = "done"]
  /\ UNCHANGED <<source, progress, cli, conn, wire, receiverVars>>

\* An error that never reaches the channel, used to test the properties.
FailSilently(t) ==
  /\ snd[t].at = "fail"
  /\ snd' = [snd EXCEPT ![t].at = "done"]
  /\ UNCHANGED <<source, progress, cli, conn, wire, fin, receiverVars>>

\* The error goes to the CLI, if it is still there.
ReportFailure(t) ==
  /\ snd[t].at = "fail"
  /\ \/ /\ ~CliLeft(t)
        /\ Len(progress[t]) < ProgressCap
        /\ progress' = [progress EXCEPT ![t] = Append(@, "ERR")]
     \/ /\ CliLeft(t)
        /\ UNCHANGED progress
  /\ snd' = [snd EXCEPT ![t].at = "done"]
  /\ UNCHANGED <<source, cli, conn, wire, fin, receiverVars>>

-----------------------------------------------------------------------------
(* The receiver's disk.  tokio::fs::File buffers a write and performs it   *)
(* on another thread: seek waits for the write before it, and the next     *)
(* write reports that write's error instead of writing.                    *)

\* A file after c has been written at chunk position i.
WriteAt(file, i, c) ==
  [k \in 1 .. (IF Len(file) > i THEN Len(file) ELSE i + 1) |->
     IF k = i + 1 THEN c ELSE IF k <= Len(file) THEN file[k] ELSE Zero]

\* A file after a zero byte has been written at the end of n chunks.
Allocated(file, n) ==
  WriteAt(file, n - 1, IF Len(file) < n \/ file[n] = Zero THEN Zero ELSE Torn)

\* The buffered write of a chunk, or of the allocating zero byte, is done.
Flush(t) ==
  LET w == rcv[t].pending
      n == NameOf[t]
  IN
  /\ w # None
  /\ rcv' = [rcv EXCEPT ![t].pending = None]
  /\ disk' = [disk EXCEPT ![n] = IF w.what = "chunk" THEN WriteAt(@, w.index, w.data)
                                 ELSE Allocated(@, rcv[t].total)]
  /\ UNCHANGED <<senderVars, cli, conn, wire>>

FlushFails(t) ==
  /\ DiskErrors
  /\ rcv[t].pending # None
  /\ rcv' = [rcv EXCEPT ![t].pending = None, ![t].failed = TRUE]
  /\ UNCHANGED <<senderVars, cli, conn, wire, disk>>

-----------------------------------------------------------------------------
(* The receiving task.                                                     *)

\* A manifest frame: DiskWriter::new opens and truncates the file.  When that
\* fails the task goes on without a writer.
ReadManifest(t) ==
  /\ rcv[t].at \in {"none", "reading"}
  /\ wire[t] # <<>>
  /\ Head(wire[t]).kind = "manifest"
  /\ wire' = [wire EXCEPT ![t] = Tail(@)]
  /\ \/ /\ disk' = [disk EXCEPT ![NameOf[t]] = <<>>]
        /\ rcv' = [rcv EXCEPT ![t] =
             [@ EXCEPT !.at = IF Head(wire[t]).total = 0 THEN "reading" ELSE "allocate",
                       !.writer = TRUE,
                       !.total = Head(wire[t]).total,
                       !.hash = Head(wire[t]).hash]]
     \/ /\ DiskErrors
        /\ rcv' = [rcv EXCEPT ![t].at = "reading"]
        /\ UNCHANGED disk
  /\ UNCHANGED <<senderVars, cli, conn>>

\* The sparse allocation.
Allocate(t) ==
  /\ rcv[t].at = "allocate"
  /\ rcv' = [rcv EXCEPT ![t].at = "reading",
                        ![t].pending = [what |-> "end"]]
  /\ UNCHANGED <<senderVars, cli, conn, wire, disk>>

\* Slips in write_chunk, used to test the properties.
MarksFailedWrite(r, i, c) ==
  LET marks == r.received \cup {i} IN
  [r EXCEPT !.failed = FALSE,
            !.received = marks,
            !.pending = IF r.failed THEN None ELSE [what |-> "chunk", index |-> i, data |-> c],
            !.verified = @ \/ Cardinality(marks) = r.total]

WritesNextChunk(r, i, c) ==
  LET marks == r.received \cup {i + 1} IN
  [r EXCEPT !.received = marks,
            !.pending = [what |-> "chunk", index |-> i + 1, data |-> c],
            !.verified = @ \/ Cardinality(marks) = r.total]

ChecksBeforeMarking(r, i, c) ==
  [r EXCEPT !.received = @ \cup {i},
            !.pending = [what |-> "chunk", index |-> i, data |-> c],
            !.verified = @ \/ Cardinality(r.received) = r.total]

\* The receiver after write_chunk(i, c) and is_complete.
WriteChunk(r, i, c) ==
  LET writes == i \notin r.received /\ ~r.failed
      marks == IF writes THEN r.received \cup {i} ELSE r.received
  IN  [r EXCEPT !.failed = @ /\ i \in r.received,
                !.received = marks,
                !.pending = IF writes THEN [what |-> "chunk", index |-> i, data |-> c]
                            ELSE @,
                !.verified = @ \/ Cardinality(marks) = r.total]

\* A chunk frame, with a writer: its seek waits for the write before it.
ReadChunk(t) ==
  /\ rcv[t].at = "reading"
  /\ rcv[t].writer
  /\ rcv[t].pending = None
  /\ wire[t] # <<>>
  /\ Head(wire[t]).kind = "chunk"
  /\ wire' = [wire EXCEPT ![t] = Tail(@)]
  /\ rcv' = [rcv EXCEPT ![t] = WriteChunk(@, Head(wire[t]).index, Head(wire[t]).data)]
  /\ UNCHANGED <<senderVars, cli, conn, disk>>

\* A chunk frame, without one: the data stays in the stream and is taken for
\* the next header, which does not decode.
LoseFraming(t) ==
  /\ rcv[t].at = "reading"
  /\ ~rcv[t].writer
  /\ wire[t] # <<>>
  /\ Head(wire[t]).kind = "chunk"
  /\ rcv' = [rcv EXCEPT ![t].at = "ended"]
  /\ UNCHANGED <<senderVars, cli, conn, wire, disk>>

\* The next header cannot be read: the stream is finished or the connection
\* is lost, and the code treats the two alike.
StreamEnds(t) ==
  /\ rcv[t].at = "reading"
  /\ \/ wire[t] = <<>> /\ fin[t]
     \/ conn = "closed"
  /\ rcv' = [rcv EXCEPT ![t].at = "ended", ![t].graceful = TRUE]
  /\ UNCHANGED <<senderVars, cli, conn, wire, disk>>

-----------------------------------------------------------------------------
(* The rest of the world.                                                  *)

\* Somebody rewrites the source, once, with up to one chunk more.
EditSource(t) ==
  /\ Edits
  /\ snd[t].at \in {"stat", "hash", "open", "chunk", "report"}
  /\ \A i \in DOMAIN source[t] : source[t][i] = Original(t)
  /\ \E n \in 1 .. Size[t] + 1 :
       source' = [source EXCEPT ![t] = [i \in 1 .. n |-> Edited(t)]]
  /\ UNCHANGED <<snd, progress, cli, conn, wire, fin, receiverVars>>

\* Idle timeout, or either daemon shuts down and closes its endpoint.
CloseConn ==
  /\ conn = "open"
  /\ conn' = "closed"
  /\ UNCHANGED <<senderVars, cli, wire, receiverVars>>

-----------------------------------------------------------------------------
SenderStep(t) ==
  \/ StatSource(t) \/ HashSource(t) \/ SendManifest(t) \/ SendChunk(t)
  \/ Report(t) \/ Finish(t) \/ ReportFailure(t)

ReceiverStep(t) ==
  \/ ReadManifest(t) \/ Allocate(t) \/ ReadChunk(t) \/ LoseFraming(t) \/ StreamEnds(t)

Next ==
  \/ \E t \in Transfers :
       \/ InitiateSend(t) \/ Recv(t) \/ KillCli(t)
       \/ SenderStep(t) \/ ReceiverStep(t)
       \/ Flush(t) \/ FlushFails(t)
       \/ EditSource(t)
  \/ CloseConn

Spec == Init /\ [][Next]_vars

\* The runtimes run every task that can run, writes to the disk end, and the
\* command reads its stream.  Nobody has to start, kill, edit or close.
Fairness ==
  \A t \in Transfers :
    /\ WF_vars(SenderStep(t))
    /\ WF_vars(ReceiverStep(t))
    /\ WF_vars(Flush(t) \/ FlushFails(t))
    /\ WF_vars(Recv(t))

FairSpec == Spec /\ Fairness

-----------------------------------------------------------------------------
(* What holds.                                                             *)

(* When the command prints success, every chunk announced in the manifest  *)
(* has been written to the stream, whatever was edited, killed or closed   *)
(* meanwhile: COMPLETED, and the end of the progress stream, never come    *)
(* early (stream.rs send_file, send.go).                                   *)
SuccessMeansAllSent ==
  \A t \in Transfers : cli[t] = "complete" => snd[t].next = snd[t].total

(* Whatever write fails, and although a chunk's bit is set before tokio    *)
(* has written it, a file logged as verified misses its last chunk at most *)
(* (DiskWriter::write_chunk: a failed write costs the next chunk its bit,  *)
(* so that the file never counts as complete, unless none is left).        *)
VerifiedMissesOnlyTheLast ==
  \A t \in Transfers :
    rcv[t].verified =>
      \A i \in 0 .. rcv[t].total - 2 :
        /\ i < Len(disk[NameOf[t]])
        /\ disk[NameOf[t]][i + 1] \in {Original(t), Edited(t)}

(* A file logged as verified has, once its last write is done, the content *)
(* the manifest's hash was computed from (stream.rs:176, "File received    *)
(* and verified successfully!").  Two transfers in parallel keep this; a   *)
(* source that is edited while it is sent breaks it, because the hash is   *)
(* never compared.                                                         *)
VerifiedMeansIntact ==
  \A t \in Transfers :
    rcv[t].verified /\ rcv[t].pending = None => disk[NameOf[t]] = rcv[t].hash

(* The command always returns: the sending task never leaves it waiting,   *)
(* nor with a bar that stays short of its end, through full channels,      *)
(* closed connections and sources that change.                             *)
CommandReturns ==
  \A t \in Transfers :
    cli[t] \in {"waiting", "drawing"} ~> cli[t] \in {"complete", "error", "gone"}

(* The receiving task never outlives the sending one: every way send_file  *)
(* can end finishes the stream, so the receiver stops reading.             *)
ReceiverEnds ==
  \A t \in Transfers : snd[t].at = "done" /\ rcv[t].at # "none" ~> rcv[t].at = "ended"

(* Success is followed by a verified file as long as the connection stays  *)
(* up and the disk and the source behave, so these are all that a success  *)
(* leaves open.                                                            *)
SuccessReachesDisk ==
  \A t \in Transfers :
    cli[t] = "complete" /\ snd[t].total > 0 ~> rcv[t].verified \/ conn = "closed"
=============================================================================
