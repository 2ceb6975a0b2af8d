----------------------------- MODULE FileProofs -----------------------------
(***************************************************************************)
(* File transfers, for any number of them, files of any size, any capacity *)
(* of the progress channel and any period of updates.                      *)
(*                                                                         *)
(* The inductive invariant has one part per place: Sending for the task    *)
(* and the command, Streaming for the stream and the receiving task, and,  *)
(* where every transfer has a file name of its own, Storing for the disk.  *)
(***************************************************************************)
EXTENDS FileTransfer, Integers, FiniteSetTheorems, TLAPS

-----------------------------------------------------------------------------
(* The invariant.                                                          *)

Update == {"STREAMING", "COMPLETED", "ERR"}
Manifest == [kind : {"manifest"}, total : Nat, hash : Seq(Chunk)]
Data == [kind : {"chunk"}, index : Nat, data : Chunk]
Frame == Manifest \cup Data
End == [what |-> "end"]
Buffered == [what : {"chunk"}, index : Nat, data : Chunk]

SenderState ==
  [at : {"idle", "stat", "hash", "open", "chunk", "report", "finish", "fail", "done"},
   total : Nat, hash : Seq(Chunk), next : Nat]
CliState == {"idle", "waiting", "drawing", "hung", "complete", "error", "gone"}
ReceiverState ==
  [at : {"none", "reading", "allocate", "ended"}, writer : BOOLEAN, total : Nat,
   hash : Seq(Chunk), received : SUBSET Nat, pending : Write \cup {None},
   failed : BOOLEAN, verified : BOOLEAN, graceful : BOOLEAN]

Types ==
  /\ source \in [Transfers -> Seq(Chunk)]
  /\ snd \in [Transfers -> SenderState]
  /\ progress \in [Transfers -> Seq(Update)]
  /\ \A t \in Transfers : Len(progress[t]) <= ProgressCap
  /\ cli \in [Transfers -> CliState]
  /\ conn \in {"open", "closed"}
  /\ wire \in [Transfers -> Seq(Frame)]
  /\ fin \in [Transfers -> BOOLEAN]
  /\ rcv \in [Transfers -> ReceiverState]
  /\ disk \in [Names -> Seq(OnDisk)]

\* The channel holds an update of this kind.
Says(t, u) == \E i \in 1 .. Len(progress[t]) : progress[t][i] = u
AllSent(t) == snd[t].next = snd[t].total

\* What the sending task and the command know of each other.  COMPLETED may
\* still be in the channel when the task is done, so success follows from what
\* is in the channel as much as from where the task is.
Sending(t) ==
  /\ snd[t].next <= snd[t].total
  /\ snd[t].at \in {"idle", "stat", "hash", "open"} => snd[t].next = 0
  /\ snd[t].at = "chunk" => snd[t].next < snd[t].total
  /\ snd[t].at = "finish" => AllSent(t) \/ CliLeft(t)
  /\ snd[t].at = "done" => AllSent(t) \/ CliLeft(t) \/ Says(t, "ERR")
  /\ Says(t, "COMPLETED") => AllSent(t) /\ snd[t].at \in {"finish", "done"}
  /\ cli[t] = "idle" => snd[t].at = "idle" /\ progress[t] = <<>>
  /\ cli[t] = "complete" => AllSent(t) /\ snd[t].at \in {"finish", "done"}

\* What the source of a transfer may hold.
Versions(t) == IF Edits THEN {Original(t), Edited(t)} ELSE {Original(t)}

\* How many chunks the receiver has taken from the stream; -1 while the
\* manifest is on its way.
Taken(t) == snd[t].next - Len(wire[t])

\* A frame in its place: the manifest in front, chunks in order behind it.
InPlace(t, i) ==
  LET f == wire[t][i] IN
  \/ /\ f \in Manifest
     /\ i = 1 /\ rcv[t].at = "none" /\ Taken(t) = -1
     /\ f.total = snd[t].total /\ f.hash = snd[t].hash
  \/ /\ f \in Data
     /\ rcv[t].at = "none" => i # 1
     /\ f.index = Taken(t) + i - 1
     /\ f.data \in Versions(t)

Frames(t) ==
  /\ source[t] \in Seq(Versions(t))
  /\ \A i \in 1 .. Len(wire[t]) : InPlace(t, i)

Early == {"idle", "stat", "hash", "open"}

Phases(t) ==
  /\ snd[t].at \in Early => wire[t] = <<>> /\ rcv[t].at = "none"
  /\ rcv[t].at = "none" /\ snd[t].at \in {"chunk", "report"} => wire[t] # <<>>
  /\ rcv[t].at = "none" => rcv[t] = NewReceiver
  /\ rcv[t].at # "none" => Taken(t) >= 0

\* What the receiving task has made of the chunks it has taken.
Receiving(t) ==
  /\ rcv[t].at = "allocate" => rcv[t].writer /\ Taken(t) = 0 /\ rcv[t].total > 0 /\ rcv[t].pending = None
  /\ rcv[t].writer => rcv[t].total = snd[t].total /\ rcv[t].hash = snd[t].hash
  /\ rcv[t].received \subseteq 0 .. Taken(t) - 1
  /\ rcv[t].received # {} => rcv[t].writer
  /\ rcv[t].pending = End => Taken(t) = 0 /\ rcv[t].total > 0
  /\ rcv[t].pending \in Buffered => /\ rcv[t].pending.index = Taken(t) - 1
                                    /\ rcv[t].pending.data \in Versions(t)
  /\ rcv[t].pending # None => rcv[t].writer
  /\ rcv[t].failed => DiskErrors
  /\ rcv[t].verified => rcv[t].writer /\ rcv[t].total > 0 /\ rcv[t].received = 0 .. rcv[t].total - 1

Streaming(t) == Frames(t) /\ Phases(t) /\ Receiving(t)

NamesApart == \A t, u \in Transfers : NameOf[t] = NameOf[u] => t = u

File(t) == disk[NameOf[t]]
Holds(t, i) == i < Len(File(t)) /\ File(t)[i + 1] \in Versions(t)

\* A chunk whose bit is set is on disk or about to be; or its write has failed,
\* and the chunk after it is denied its own bit.
Accounted(t, i) ==
  \/ Holds(t, i)
  \/ rcv[t].pending \in Buffered /\ i = Taken(t) - 1
  \/ rcv[t].failed /\ i = Taken(t) - 1
  \/ i + 1 < Taken(t) /\ i + 1 \notin rcv[t].received

Storing(t) ==
  /\ \A i \in rcv[t].received : Accounted(t, i)
  /\ rcv[t].at = "allocate" \/ rcv[t].pending = End => File(t) = <<>>

\* When nobody edits, the manifest describes the source; when the disk works
\* too, the file has its length as soon as it is allocated.
Announced(t) ==
  /\ source[t] = [i \in 1 .. Size[t] |-> Original(t)]
  /\ snd[t].at \notin {"idle", "stat"} => snd[t].total = Size[t]
  /\ snd[t].at \notin {"idle", "stat", "hash"} => snd[t].hash = source[t]

Allotted(t) ==
  rcv[t].writer /\ rcv[t].total > 0 =>
    rcv[t].at = "allocate" \/ rcv[t].pending = End \/ Len(File(t)) = rcv[t].total

Inductive == Types /\ \A t \in Transfers : Sending(t) /\ Streaming(t)

\* The steps of one transfer.
Step(t) ==
  \/ InitiateSend(t) \/ Recv(t) \/ KillCli(t)
  \/ SenderStep(t) \/ ReceiverStep(t)
  \/ Flush(t) \/ FlushFails(t)
  \/ EditSource(t)

\* The steps that leave the sending side alone.
Elsewhere(t) == ReceiverStep(t) \/ Flush(t) \/ FlushFails(t)

-----------------------------------------------------------------------------
(* Sequences and files.                                                    *)

LEMMA Contents ==
  /\ \A t \in Transfers : /\ Original(t) \in Chunk /\ Edited(t) \in Chunk
                          /\ Versions(t) \subseteq Chunk
  /\ Chunk \subseteq OnDisk
  /\ Zero \in OnDisk /\ Torn \in OnDisk
BY DEF Chunk, OnDisk, Versions

LEMMA Buffers ==
  /\ Write = Buffered \cup {End}
  /\ None \notin Buffered /\ None # End /\ End \notin Buffered
BY NoneAssumption DEF Write, Buffered, End

LEMMA ConstantSeq ==
  ASSUME NEW S, NEW n \in Nat, NEW c \in S
  PROVE  /\ [i \in 1 .. n |-> c] \in Seq(S)
         /\ Len([i \in 1 .. n |-> c]) = n
OBVIOUS

\* A write at a chunk position puts that chunk there, keeps the others, and
\* makes the file long enough for it.
LEMMA WriteAtProperties ==
  ASSUME NEW file \in Seq(OnDisk), NEW i \in Nat, NEW c \in OnDisk
  PROVE  /\ WriteAt(file, i, c) \in Seq(OnDisk)
         /\ Len(WriteAt(file, i, c)) = IF Len(file) > i THEN Len(file) ELSE i + 1
         /\ WriteAt(file, i, c)[i + 1] = c
         /\ \A k \in 1 .. Len(file) : k # i + 1 => WriteAt(file, i, c)[k] = file[k]
<1> DEFINE n == IF Len(file) > i THEN Len(file) ELSE i + 1
           e == [k \in 1 .. n |-> IF k = i + 1 THEN c ELSE IF k <= Len(file) THEN file[k] ELSE Zero]
<1>1. n \in Nat /\ Len(file) \in Nat /\ n >= Len(file) /\ i + 1 \in 1 .. n
  OBVIOUS
<1>2. \A k \in 1 .. Len(file) : file[k] \in OnDisk
  OBVIOUS
<1>3. e \in [1 .. n -> OnDisk]
  BY <1>1, <1>2, Contents
<1>4. e \in Seq(OnDisk) /\ Len(e) = n
  BY <1>1, <1>3
<1>5. e[i + 1] = c /\ \A k \in 1 .. Len(file) : k # i + 1 => e[k] = file[k]
  BY <1>1
<1> QED BY <1>4, <1>5 DEF WriteAt

LEMMA Appending ==
  ASSUME NEW S, NEW w \in [Transfers -> Seq(S)], NEW t \in Transfers, NEW f \in S
  PROVE  LET v == [w EXCEPT ![t] = Append(@, f)] IN
         /\ v \in [Transfers -> Seq(S)]
         /\ Len(v[t]) = Len(w[t]) + 1
         /\ \A u \in Transfers \ {t} : v[u] = w[u]
<1>1. Append(w[t], f) \in Seq(S) /\ Len(Append(w[t], f)) = Len(w[t]) + 1
  OBVIOUS
<1> DEFINE q == Append(w[t], f)
<1> HIDE DEF q
<1>2. LET v == [w EXCEPT ![t] = q] IN
      /\ v \in [Transfers -> Seq(S)]
      /\ v[t] = q
      /\ \A u \in Transfers \ {t} : v[u] = w[u]
  BY <1>1 DEF q
<1> QED BY <1>1, <1>2 DEF q

LEMMA TakingOff ==
  ASSUME NEW S, NEW w \in [Transfers -> Seq(S)], NEW t \in Transfers, w[t] # <<>>
  PROVE  LET v == [w EXCEPT ![t] = Tail(@)] IN
         /\ v \in [Transfers -> Seq(S)]
         /\ Len(v[t]) = Len(w[t]) - 1
         /\ \A u \in Transfers \ {t} : v[u] = w[u]
<1>1. Tail(w[t]) \in Seq(S) /\ Len(Tail(w[t])) = Len(w[t]) - 1
  OBVIOUS
<1> DEFINE q == Tail(w[t])
<1> HIDE DEF q
<1>2. LET v == [w EXCEPT ![t] = q] IN
      /\ v \in [Transfers -> Seq(S)]
      /\ v[t] = q
      /\ \A u \in Transfers \ {t} : v[u] = w[u]
  BY <1>1 DEF q
<1> QED BY <1>1, <1>2 DEF q

-----------------------------------------------------------------------------
(* Types.                                                                  *)

LEMMA TypesInit == Init => Types
<1> SUFFICES ASSUME Init PROVE Types
  OBVIOUS
<1>1. \A t \in Transfers : [i \in 1 .. Size[t] |-> Original(t)] \in Seq(Chunk)
  <2> TAKE t \in Transfers
  <2>1. Size[t] \in Nat BY TransferAssumption
  <2> QED BY <2>1, Contents, ConstantSeq
<1>2. source \in [Transfers -> Seq(Chunk)]
  BY <1>1 DEF Init
<1>3. NewSender \in SenderState /\ NewReceiver \in ReceiverState
  BY DEF NewSender, NewReceiver, SenderState, ReceiverState
<1> QED BY <1>2, <1>3, TransferAssumption DEF Init, Types, CliState

LEMMA TypesSender ==
  ASSUME Types, NEW t \in Transfers, SenderStep(t)
  PROVE  Types'
<1>1. /\ snd \in [Transfers -> SenderState]
      /\ snd[t] \in SenderState
      /\ snd[t].total \in Nat /\ snd[t].next \in Nat /\ snd[t].hash \in Seq(Chunk)
  BY DEF Types, SenderState
<1>2. /\ source[t] \in Seq(Chunk)
      /\ progress \in [Transfers -> Seq(Update)]
      /\ \A u \in Transfers : Len(progress[u]) <= ProgressCap
      /\ wire \in [Transfers -> Seq(Frame)]
      /\ fin \in [Transfers -> BOOLEAN]
  BY DEF Types
<1>3. CASE StatSource(t)
  <2>1. Len(source[t]) \in Nat
    BY <1>2
  <2>2. snd' \in [Transfers -> SenderState]
    BY <1>1, <1>3, <2>1 DEF StatSource, SenderState
  <2> QED BY <1>3, <2>2 DEF StatSource, Types, receiverVars
<1>4. CASE HashSource(t)
  <2>1. snd' \in [Transfers -> SenderState]
    BY <1>1, <1>2, <1>4 DEF HashSource, SenderState
  <2> QED BY <1>4, <2>1 DEF HashSource, Types, receiverVars
<1>5. CASE SendManifest(t)
  <2>1. ManifestFrame(snd[t].total, snd[t].hash) \in Frame
    BY <1>1 DEF ManifestFrame, Frame, Manifest
  <2>2. wire' \in [Transfers -> Seq(Frame)]
    <3>1. \/ wire' = wire
          \/ wire' = [wire EXCEPT ![t] = Append(@, ManifestFrame(snd[t].total, snd[t].hash))]
      BY <1>5 DEF SendManifest, FailAt
    <3>2. CASE wire' = wire BY <1>2, <3>2
    <3>3. CASE wire' = [wire EXCEPT ![t] = Append(@, ManifestFrame(snd[t].total, snd[t].hash))]
      BY <1>2, <2>1, <3>3, Appending
    <3> QED BY <3>1, <3>2, <3>3
  <2>3. snd' \in [Transfers -> SenderState]
    <3>1. PICK a \in {"finish", "chunk", "fail"} : snd' = [snd EXCEPT ![t].at = a]
      BY <1>5 DEF SendManifest, FailAt
    <3> QED BY <1>1, <3>1 DEF SenderState
  <2>4. fin' \in [Transfers -> BOOLEAN]
    <3>1. CASE UNCHANGED fin
      BY <1>2, <3>1
    <3>2. CASE fin' = [fin EXCEPT ![t] = snd[t].at \in {"chunk", "report"}]
      BY <1>2, <3>2
    <3> QED BY <1>5, <3>1, <3>2 DEF SendManifest, FailAt
  <2> QED BY <1>5, <2>2, <2>3, <2>4 DEF SendManifest, Types, receiverVars
<1>6. CASE SendChunk(t)
  <2> DEFINE i == snd[t].next
             f == ChunkFrame(i, source[t][i + 1])
  <2>1. i < Len(source[t]) => f \in Frame
    <3> HAVE i < Len(source[t])
    <3>1. source[t][i + 1] \in Chunk
      BY <1>1, <1>2
    <3> QED BY <1>1, <3>1 DEF ChunkFrame, Frame, Data
  <2>2. \/ i < Len(source[t]) /\ wire' = [wire EXCEPT ![t] = Append(@, f)]
        \/ wire' = wire
    BY <1>6 DEF SendChunk, FailAt
  <2>3. wire' \in [Transfers -> Seq(Frame)]
    <3> HIDE DEF f, i
    <3>1. CASE wire' = wire BY <1>2, <3>1
    <3>2. CASE i < Len(source[t]) /\ wire' = [wire EXCEPT ![t] = Append(@, f)]
      BY <1>2, <2>1, <3>2, Appending
    <3> QED BY <2>2, <3>1, <3>2
  <2>4. snd' \in [Transfers -> SenderState]
    <3>1. \/ \E a \in {"report", "chunk"} : snd' = [snd EXCEPT ![t].at = a, ![t].next = i + 1]
          \/ snd' = [snd EXCEPT ![t].at = "fail"]
      BY <1>6 DEF SendChunk, FailAt
    <3>2. i + 1 \in Nat
      BY <1>1
    <3> HIDE DEF i
    <3>3. CASE snd' = [snd EXCEPT ![t].at = "fail"]
      BY <1>1, <3>3 DEF SenderState
    <3>4. ASSUME NEW a \in {"report", "chunk"}, snd' = [snd EXCEPT ![t].at = a, ![t].next = i + 1]
          PROVE  snd' \in [Transfers -> SenderState]
      BY <1>1, <3>2, <3>4 DEF SenderState
    <3> QED BY <3>1, <3>3, <3>4
  <2>5. fin' \in [Transfers -> BOOLEAN]
    <3>1. CASE UNCHANGED fin
      BY <1>2, <3>1
    <3>2. CASE fin' = [fin EXCEPT ![t] = snd[t].at \in {"chunk", "report"}]
      BY <1>2, <3>2
    <3> QED BY <1>6, <3>1, <3>2 DEF SendChunk, FailAt
  <2> QED BY <1>6, <2>3, <2>4, <2>5 DEF SendChunk, Types, receiverVars
<1>7. CASE Report(t)
  <2>1. snd' \in [Transfers -> SenderState]
    <3>1. PICK a \in {"finish", "chunk"} : snd' = [snd EXCEPT ![t].at = a]
      BY <1>7 DEF Report
    <3> QED BY <1>1, <3>1 DEF SenderState
  <2>2. \/ progress' = progress
        \/ /\ Len(progress[t]) < ProgressCap
           /\ \E u \in Update : progress' = [progress EXCEPT ![t] = Append(@, u)]
    BY <1>7 DEF Report, Update
  <2>3. /\ progress' \in [Transfers -> Seq(Update)]
        /\ \A u \in Transfers : Len(progress'[u]) <= ProgressCap
    <3>1. CASE progress' = progress BY <1>2, <3>1
    <3>2. ASSUME NEW u \in Update, progress' = [progress EXCEPT ![t] = Append(@, u)],
                 Len(progress[t]) < ProgressCap
          PROVE  /\ progress' \in [Transfers -> Seq(Update)]
                 /\ \A v \in Transfers : Len(progress'[v]) <= ProgressCap
      BY <1>2, <3>2, TransferAssumption, Appending
    <3> QED BY <2>2, <3>1, <3>2
  <2> QED BY <1>7, <2>1, <2>3 DEF Report, Types, receiverVars
<1>8. CASE Finish(t)
  <2>1. snd' \in [Transfers -> SenderState]
    BY <1>1, <1>8 DEF Finish, SenderState
  <2>2. fin' \in [Transfers -> BOOLEAN]
    BY <1>2, <1>8 DEF Finish
  <2> QED BY <1>8, <2>1, <2>2 DEF Finish, Types, receiverVars
<1>9. CASE ReportFailure(t)
  <2>1. snd' \in [Transfers -> SenderState]
    BY <1>1, <1>9 DEF ReportFailure, SenderState
  <2>2. \/ progress' = progress
        \/ /\ Len(progress[t]) < ProgressCap
           /\ \E u \in Update : progress' = [progress EXCEPT ![t] = Append(@, u)]
    BY <1>9 DEF ReportFailure, Update
  <2>3. /\ progress' \in [Transfers -> Seq(Update)]
        /\ \A u \in Transfers : Len(progress'[u]) <= ProgressCap
    <3>1. CASE progress' = progress BY <1>2, <3>1
    <3>2. ASSUME NEW u \in Update, progress' = [progress EXCEPT ![t] = Append(@, u)],
                 Len(progress[t]) < ProgressCap
          PROVE  /\ progress' \in [Transfers -> Seq(Update)]
                 /\ \A v \in Transfers : Len(progress'[v]) <= ProgressCap
      BY <1>2, <3>2, TransferAssumption, Appending
    <3> QED BY <2>2, <3>1, <3>2
  <2> QED BY <1>9, <2>1, <2>3 DEF ReportFailure, Types, receiverVars
<1> QED BY <1>3, <1>4, <1>5, <1>6, <1>7, <1>8, <1>9 DEF SenderStep

\* The receiver's state after write_chunk.
LEMMA WriteChunkType ==
  ASSUME NEW r \in ReceiverState, NEW i \in Nat, NEW c \in Chunk
  PROVE  WriteChunk(r, i, c) \in ReceiverState
<1> DEFINE writes == i \notin r.received /\ ~r.failed
           marks == IF writes THEN r.received \cup {i} ELSE r.received
           pending == IF writes THEN [what |-> "chunk", index |-> i, data |-> c] ELSE r.pending
<1>1. marks \in SUBSET Nat
  BY DEF ReceiverState
<1>2. pending \in Write \cup {None}
  BY DEF ReceiverState, Write
<1>3. (r.failed /\ i \in r.received) \in BOOLEAN /\ (r.verified \/ Cardinality(marks) = r.total) \in BOOLEAN
  OBVIOUS
<1> HIDE DEF writes, marks, pending
<1> DEFINE q == [r EXCEPT !.failed = r.failed /\ i \in r.received, !.received = marks,
                          !.pending = pending,
                          !.verified = r.verified \/ Cardinality(marks) = r.total]
<1>4. q \in ReceiverState
  BY <1>1, <1>2, <1>3 DEF ReceiverState
<1> QED BY <1>4 DEF WriteChunk, writes, marks, pending

LEMMA TypesReceiver ==
  ASSUME Types, NEW t \in Transfers, ReceiverStep(t)
  PROVE  Types'
<1>1. /\ rcv \in [Transfers -> ReceiverState]
      /\ rcv[t] \in ReceiverState
      /\ wire \in [Transfers -> Seq(Frame)]
      /\ disk \in [Names -> Seq(OnDisk)]
  BY DEF Types
<1>2. wire[t] # <<>> => Head(wire[t]) \in Frame /\ Tail(wire[t]) \in Seq(Frame)
  BY <1>1
<1>3. CASE ReadManifest(t)
  <2> DEFINE m == Head(wire[t])
             r == [rcv[t] EXCEPT !.at = IF m.total = 0 THEN "reading" ELSE "allocate",
                                 !.writer = TRUE, !.total = m.total, !.hash = m.hash]
             q == [rcv[t] EXCEPT !.at = "reading"]
  <2>1. m \in Manifest /\ wire[t] # <<>>
    BY <1>2, <1>3 DEF ReadManifest, Frame, Data
  <2>2. m.total \in Nat /\ m.hash \in Seq(Chunk)
    BY <2>1 DEF Manifest
  <2>3. r \in ReceiverState /\ q \in ReceiverState
    BY <1>1, <2>2 DEF ReceiverState
  <2>4. /\ rcv' = [rcv EXCEPT ![t] = r] \/ rcv' = [rcv EXCEPT ![t] = q]
        /\ disk' = [disk EXCEPT ![NameOf[t]] = <<>>] \/ disk' = disk
        /\ wire' = [wire EXCEPT ![t] = Tail(@)]
    BY <1>3 DEF ReadManifest
  <2> HIDE DEF m, r, q
  <2>5. rcv' \in [Transfers -> ReceiverState] /\ disk' \in [Names -> Seq(OnDisk)]
    <3>1. rcv' \in [Transfers -> ReceiverState]
      <4>1. CASE rcv' = [rcv EXCEPT ![t] = r] BY <1>1, <2>3, <4>1
      <4>2. CASE rcv' = [rcv EXCEPT ![t] = q] BY <1>1, <2>3, <4>2
      <4> QED BY <2>4, <4>1, <4>2
    <3>2. disk' \in [Names -> Seq(OnDisk)]
      <4>1. CASE disk' = [disk EXCEPT ![NameOf[t]] = <<>>]
        <5>1. <<>> \in Seq(OnDisk) OBVIOUS
        <5> QED BY <1>1, <4>1, <5>1
      <4>2. CASE disk' = disk BY <1>1, <4>2
      <4> QED BY <2>4, <4>1, <4>2
    <3> QED BY <3>1, <3>2
  <2>6. wire' \in [Transfers -> Seq(Frame)]
    BY <1>1, <2>1, <2>4, TakingOff
  <2> QED BY <1>3, <2>5, <2>6 DEF ReadManifest, Types, senderVars
<1>4. CASE Allocate(t)
  <2>1. rcv' \in [Transfers -> ReceiverState]
    BY <1>1, <1>4, Buffers DEF Allocate, ReceiverState, End, Types
  <2> QED BY <1>4, <2>1 DEF Allocate, Types, senderVars
<1>5. CASE ReadChunk(t)
  <2> DEFINE r == WriteChunk(rcv[t], Head(wire[t]).index, Head(wire[t]).data)
  <2>1. Head(wire[t]) \in Data /\ Tail(wire[t]) \in Seq(Frame)
    BY <1>2, <1>5 DEF ReadChunk, Frame, Manifest
  <2>2. r \in ReceiverState
    BY <1>1, <2>1, WriteChunkType DEF Data
  <2>3. rcv' = [rcv EXCEPT ![t] = r]
    BY <1>5 DEF ReadChunk
  <2> HIDE DEF r
  <2>4. rcv' \in [Transfers -> ReceiverState]
    BY <1>1, <2>2, <2>3
  <2>5. wire' \in [Transfers -> Seq(Frame)]
    BY <1>1, <1>5, <2>1 DEF ReadChunk
  <2> QED BY <1>5, <2>4, <2>5 DEF ReadChunk, Types, senderVars
<1>6. CASE LoseFraming(t)
  <2>1. rcv' \in [Transfers -> ReceiverState]
    BY <1>1, <1>6 DEF LoseFraming, ReceiverState, Types
  <2> QED BY <1>6, <2>1 DEF LoseFraming, Types, senderVars
<1>7. CASE StreamEnds(t)
  <2>1. rcv' \in [Transfers -> ReceiverState]
    BY <1>1, <1>7 DEF StreamEnds, ReceiverState, Types
  <2> QED BY <1>7, <2>1 DEF StreamEnds, Types, senderVars
<1> QED BY <1>3, <1>4, <1>5, <1>6, <1>7 DEF ReceiverStep

LEMMA TypesFlush ==
  ASSUME Types, NEW t \in Transfers, Streaming(t), Flush(t)
  PROVE  Types'
<1> DEFINE w == rcv[t].pending
           n == NameOf[t]
           total == rcv[t].total
<1>1. /\ rcv \in [Transfers -> ReceiverState]
      /\ rcv[t] \in ReceiverState
      /\ w \in Buffered \/ (w = End /\ total > 0)
      /\ total \in Nat
      /\ disk \in [Names -> Seq(OnDisk)]
      /\ n \in Names
  <2>1. rcv \in [Transfers -> ReceiverState] /\ rcv[t] \in ReceiverState
    BY DEF Types
  <2>2. w \in Write \cup {None} /\ w # None /\ total \in Nat
    BY <2>1 DEF Flush, ReceiverState
  <2>3. w = End => total > 0
    BY DEF Streaming, Receiving
  <2> HIDE DEF w, total
  <2>4. w \in Buffered \/ w = End
    BY <2>2, Buffers
  <2>5. disk \in [Names -> Seq(OnDisk)] /\ NameOf[t] \in Names
    BY TransferAssumption DEF Types
  <2> QED BY <2>1, <2>2, <2>3, <2>4, <2>5
<1>2. rcv' \in [Transfers -> ReceiverState]
  <2> DEFINE q == [rcv[t] EXCEPT !.pending = None]
  <2>1. q \in ReceiverState
    BY <1>1 DEF ReceiverState
  <2>2. rcv' = [rcv EXCEPT ![t] = q]
    BY DEF Flush
  <2> HIDE DEF q
  <2> QED BY <1>1, <2>1, <2>2
<1>3. w \in Buffered => WriteAt(disk[n], w.index, w.data) \in Seq(OnDisk)
  BY <1>1, Contents, WriteAtProperties DEF Buffered
<1>4. total > 0 => Allocated(disk[n], total) \in Seq(OnDisk)
  <2> DEFINE z == IF Len(disk[n]) < total \/ disk[n][total] = Zero THEN Zero ELSE Torn
  <2>1. z \in OnDisk
    BY Contents
  <2> HIDE DEF z
  <2>2. total > 0 => total - 1 \in Nat
    BY <1>1
  <2>3. total > 0 => WriteAt(disk[n], total - 1, z) \in Seq(OnDisk)
    BY <1>1, <2>1, <2>2, Contents, WriteAtProperties
  <2> QED BY <2>3 DEF Allocated, z
<1>5. disk' \in [Names -> Seq(OnDisk)]
  <2>1. w \in Buffered => w.what = "chunk"
    BY DEF Buffered
  <2>2. disk' = [disk EXCEPT ![n] = IF w.what = "chunk" THEN WriteAt(@, w.index, w.data)
                                    ELSE Allocated(@, total)]
    BY DEF Flush
  <2>3. w = End => w.what # "chunk"
    BY DEF End
  <2> HIDE DEF w, n, total
  <2> QED BY <1>1, <1>3, <1>4, <2>1, <2>2, <2>3
<1> QED BY <1>2, <1>5 DEF Flush, Types, senderVars

LEMMA TypesStep ==
  ASSUME Types, \A t \in Transfers : Streaming(t), [Next]_vars
  PROVE  Types'
<1>1. /\ snd \in [Transfers -> SenderState]
      /\ progress \in [Transfers -> Seq(Update)]
      /\ rcv \in [Transfers -> ReceiverState]
  BY DEF Types
<1>2. ASSUME NEW t \in Transfers, InitiateSend(t) PROVE Types'
  <2>1. snd' \in [Transfers -> SenderState]
    BY <1>1, <1>2 DEF InitiateSend, SenderState
  <2> QED BY <1>2, <2>1 DEF InitiateSend, Types, CliState, receiverVars
<1>3. ASSUME NEW t \in Transfers, Recv(t) PROVE Types'
  <2>1. \/ progress' = progress
        \/ progress[t] # <<>> /\ progress' = [progress EXCEPT ![t] = Tail(@)]
    BY <1>3 DEF Recv
  <2>2. /\ progress' \in [Transfers -> Seq(Update)]
        /\ \A u \in Transfers : Len(progress'[u]) <= ProgressCap
    <3>1. \A u \in Transfers : Len(progress[u]) \in Nat /\ Len(progress[u]) <= ProgressCap
      BY <1>1 DEF Types
    <3>2. CASE progress' = progress BY <1>1, <3>1, <3>2
    <3>3. CASE progress[t] # <<>> /\ progress' = [progress EXCEPT ![t] = Tail(@)]
      BY <1>1, <3>1, <3>3, TransferAssumption, TakingOff
    <3> QED BY <2>1, <3>2, <3>3
  <2>3. progress[t] # <<>> => Head(progress[t]) \in Update
    BY <1>1
  <2>4. cli' \in [Transfers -> CliState]
    BY <1>3, <2>3 DEF Recv, Types, Update, CliState
  <2> QED BY <1>3, <2>2, <2>4 DEF Recv, Types, receiverVars
<1>4. ASSUME NEW t \in Transfers, KillCli(t) PROVE Types'
  BY <1>4 DEF KillCli, Types, CliState, senderVars, receiverVars
<1>5. ASSUME NEW t \in Transfers, FlushFails(t) PROVE Types'
  <2>1. rcv' \in [Transfers -> ReceiverState]
    <3> DEFINE q == [rcv[t] EXCEPT !.pending = None, !.failed = TRUE]
    <3>1. q \in ReceiverState
      BY <1>1 DEF ReceiverState
    <3>2. rcv' = [rcv EXCEPT ![t] = q]
      BY <1>5 DEF FlushFails
    <3> HIDE DEF q
    <3> QED BY <1>1, <3>1, <3>2
  <2> QED BY <1>5, <2>1 DEF FlushFails, Types, senderVars
<1>6. ASSUME NEW t \in Transfers, EditSource(t) PROVE Types'
  <2>1. PICK n \in 1 .. Size[t] + 1 : source' = [source EXCEPT ![t] = [i \in 1 .. n |-> Edited(t)]]
    BY <1>6 DEF EditSource
  <2>2. n \in Nat
    BY TransferAssumption
  <2>3. [i \in 1 .. n |-> Edited(t)] \in Seq(Chunk)
    BY <2>2, Contents, ConstantSeq
  <2> QED BY <1>6, <2>1, <2>3 DEF EditSource, Types, receiverVars
<1>7. CASE CloseConn
  BY <1>7 DEF CloseConn, Types, senderVars, receiverVars
<1>8. CASE UNCHANGED vars
  BY <1>8 DEF vars, Types
<1> QED BY <1>2, <1>3, <1>4, <1>5, <1>6, <1>7, <1>8, TypesSender, TypesReceiver, TypesFlush DEF Next

-----------------------------------------------------------------------------
(* The steps of one transfer leave the others alone, but for the files.    *)

LEMMA Local ==
  ASSUME Types, NEW t \in Transfers, Step(t), NEW u \in Transfers \ {t}
  PROVE  UNCHANGED <<source[u], snd[u], progress[u], cli[u], wire[u], rcv[u], conn>>
<1>1. /\ DOMAIN source = Transfers /\ DOMAIN snd = Transfers /\ DOMAIN progress = Transfers
      /\ DOMAIN cli = Transfers /\ DOMAIN wire = Transfers /\ DOMAIN rcv = Transfers
  BY DEF Types
<1>2. CASE InitiateSend(t) BY <1>1, <1>2 DEF InitiateSend, receiverVars
<1>3. CASE Recv(t) BY <1>1, <1>3 DEF Recv, receiverVars
<1>4. CASE KillCli(t) BY <1>1, <1>4 DEF KillCli, senderVars, receiverVars
<1>5. CASE SenderStep(t)
  <2> USE <1>1 DEF receiverVars
  <2>1. CASE StatSource(t) BY <2>1 DEF StatSource
  <2>2. CASE HashSource(t) BY <2>2 DEF HashSource
  <2>3. CASE SendManifest(t) BY <2>3 DEF SendManifest, FailAt
  <2>4. CASE SendChunk(t) BY <2>4 DEF SendChunk, FailAt
  <2>5. CASE Report(t) BY <2>5 DEF Report
  <2>6. CASE Finish(t) BY <2>6 DEF Finish
  <2>7. CASE ReportFailure(t) BY <2>7 DEF ReportFailure
  <2> QED BY <1>5, <2>1, <2>2, <2>3, <2>4, <2>5, <2>6, <2>7 DEF SenderStep
<1>6. CASE ReceiverStep(t)
  <2> USE <1>1 DEF senderVars
  <2>1. CASE ReadManifest(t) BY <2>1 DEF ReadManifest
  <2>2. CASE Allocate(t) BY <2>2 DEF Allocate
  <2>3. CASE ReadChunk(t) BY <2>3 DEF ReadChunk
  <2>4. CASE LoseFraming(t) BY <2>4 DEF LoseFraming
  <2>5. CASE StreamEnds(t) BY <2>5 DEF StreamEnds
  <2> QED BY <1>6, <2>1, <2>2, <2>3, <2>4, <2>5 DEF ReceiverStep
<1>7. CASE Flush(t) BY <1>1, <1>7 DEF Flush, senderVars
<1>8. CASE FlushFails(t) BY <1>1, <1>8 DEF FlushFails, senderVars
<1>9. CASE EditSource(t) BY <1>1, <1>9 DEF EditSource, receiverVars
<1> QED BY <1>2, <1>3, <1>4, <1>5, <1>6, <1>7, <1>8, <1>9 DEF Step

LEMMA ElsewhereKeeps ==
  ASSUME NEW t \in Transfers, Elsewhere(t)
  PROVE  UNCHANGED <<source, snd, progress, cli>>
BY DEF Elsewhere, ReceiverStep, ReadManifest, Allocate, ReadChunk, LoseFraming, StreamEnds,
       Flush, FlushFails, senderVars

-----------------------------------------------------------------------------
(* What the channel says before and after a step.                          *)

LEMMA SaysMore ==
  ASSUME Types, NEW t \in Transfers, NEW x \in Update, NEW u,
         progress' = [progress EXCEPT ![t] = Append(@, x)]
  PROVE  Says(t, u)' <=> Says(t, u) \/ x = u
<1> DEFINE q == progress[t]
           r == progress'[t]
<1>1. q \in Seq(Update) /\ r = Append(q, x)
  BY DEF Types
<1> HIDE DEF q, r
<1>2. /\ Len(r) = Len(q) + 1 /\ Len(q) \in Nat
      /\ r[Len(q) + 1] = x
      /\ \A i \in 1 .. Len(q) : r[i] = q[i]
  BY <1>1
<1>3. (\E i \in 1 .. Len(r) : r[i] = u) <=> (\E i \in 1 .. Len(q) : q[i] = u) \/ x = u
  BY <1>2
<1> QED BY <1>3 DEF Says, q, r

LEMMA SaysLess ==
  ASSUME Types, NEW t \in Transfers, NEW u, progress[t] # <<>>,
         progress' = [progress EXCEPT ![t] = Tail(@)]
  PROVE  Says(t, u) <=> Head(progress[t]) = u \/ Says(t, u)'
<1> DEFINE q == progress[t]
           r == progress'[t]
<1>1. q \in Seq(Update) /\ r = Tail(q) /\ q # <<>>
  BY DEF Types
<1> HIDE DEF q, r
<1>2. /\ Len(q) = Len(r) + 1 /\ Len(r) \in Nat
      /\ Head(q) = q[1]
      /\ \A i \in 1 .. Len(r) : r[i] = q[i + 1]
  BY <1>1
<1>3. (\E i \in 1 .. Len(q) : q[i] = u) => Head(q) = u \/ \E i \in 1 .. Len(r) : r[i] = u
  <2> SUFFICES ASSUME NEW i \in 1 .. Len(q), q[i] = u, i # 1
               PROVE  \E j \in 1 .. Len(r) : r[j] = u
    BY <1>2
  <2>1. i - 1 \in 1 .. Len(r) /\ r[i - 1] = q[(i - 1) + 1] /\ (i - 1) + 1 = i
    BY <1>2
  <2> QED BY <2>1
<1>4. Head(q) = u \/ (\E i \in 1 .. Len(r) : r[i] = u) => \E i \in 1 .. Len(q) : q[i] = u
  <2>1. 1 \in 1 .. Len(q) /\ \A i \in 1 .. Len(r) : i + 1 \in 1 .. Len(q)
    BY <1>2
  <2> QED BY <1>2, <2>1
<1> QED BY <1>3, <1>4 DEF Says, q, r

LEMMA SaysSame ==
  ASSUME NEW t, NEW u, progress'[t] = progress[t]
  PROVE  Says(t, u)' <=> Says(t, u)
BY DEF Says

LEMMA SaysNothing ==
  ASSUME NEW t, NEW u, progress[t] = <<>>
  PROVE  ~Says(t, u)
BY DEF Says

-----------------------------------------------------------------------------
(* The sending task and the command.                                       *)

\* The fields of a sending task after a step.
SndIs(t, at, total, next) == snd'[t].at = at /\ snd'[t].total = total /\ snd'[t].next = next

LEMMA SendingStep ==
  ASSUME Types, NEW t \in Transfers, Sending(t), Step(t)
  PROVE  Sending(t)'
<1> DEFINE total == snd[t].total
           next == snd[t].next
<1>1. /\ snd \in [Transfers -> SenderState] /\ snd[t] \in SenderState
      /\ total \in Nat /\ next \in Nat
      /\ progress \in [Transfers -> Seq(Update)]
      /\ cli \in [Transfers -> CliState]
  BY DEF Types, SenderState
<1>2. ASSUME UNCHANGED <<snd[t], progress[t], cli[t]>> PROVE Sending(t)'
  BY <1>2, SaysSame DEF Sending, AllSent, CliLeft
<1>3. CASE InitiateSend(t)
  <2>1. cli[t] = "idle" /\ cli'[t] = "waiting" /\ UNCHANGED progress
    BY <1>1, <1>3 DEF InitiateSend
  <2>2. SndIs(t, "stat", total, next)
    BY <1>1, <1>3 DEF InitiateSend, SndIs, SenderState
  <2>3. ~Says(t, "COMPLETED") /\ ~Says(t, "COMPLETED")'
    BY <2>1, SaysSame, SaysNothing DEF Sending
  <2> QED BY <1>1, <2>1, <2>2, <2>3 DEF Sending, AllSent, CliLeft, SndIs
<1>4. CASE Recv(t)
  <2>1. UNCHANGED snd[t] /\ cli[t] \in {"waiting", "drawing"}
    BY <1>4 DEF Recv
  <2>2. CASE progress[t] # <<>> /\ progress' = [progress EXCEPT ![t] = Tail(@)]
    <3>1. Head(progress[t]) \in Update
      BY <1>1, <2>2
    <3>2. cli'[t] = CASE Head(progress[t]) = "STREAMING" -> "drawing"
                      [] Head(progress[t]) = "COMPLETED" -> "complete"
                      [] Head(progress[t]) = "ERR" -> "error"
      BY <1>1, <1>4, <2>2 DEF Recv
    <3>3. \A u : Says(t, u) <=> Head(progress[t]) = u \/ Says(t, u)'
      BY <2>2, SaysLess
    <3>4. CASE Head(progress[t]) = "STREAMING"
      BY <1>1, <2>1, <3>2, <3>3, <3>4 DEF Sending, AllSent, CliLeft
    <3>5. CASE Head(progress[t]) = "COMPLETED"
      BY <1>1, <2>1, <3>2, <3>3, <3>5 DEF Sending, AllSent, CliLeft
    <3>6. CASE Head(progress[t]) = "ERR"
      BY <1>1, <2>1, <3>2, <3>3, <3>6 DEF Sending, AllSent, CliLeft
    <3> QED BY <3>1, <3>4, <3>5, <3>6 DEF Update
  <2>3. CASE progress[t] = <<>> /\ snd[t].at = "done" /\ UNCHANGED progress
    <3>1. cli'[t] \in {"hung", "complete"}
      BY <1>1, <1>4, <2>3 DEF Recv
    <3>2. \A u : ~Says(t, u) /\ ~Says(t, u)'
      BY <2>3, SaysSame, SaysNothing
    <3> QED BY <1>1, <2>1, <2>3, <3>1, <3>2 DEF Sending, AllSent, CliLeft
  <2> QED BY <1>4, <2>2, <2>3 DEF Recv
<1>5. CASE KillCli(t)
  <2>1. cli'[t] = "gone" /\ UNCHANGED <<snd, progress>>
    BY <1>1, <1>5 DEF KillCli, senderVars
  <2> QED BY <1>1, <2>1, SaysSame DEF Sending, AllSent, CliLeft
<1>6. CASE SenderStep(t)
  <2>1. UNCHANGED cli /\ cli[t] # "idle" /\ (cli[t] = "complete" => snd[t].at = "finish")
    BY <1>6 DEF SenderStep, StatSource, HashSource, SendManifest, SendChunk, Report, Finish,
                ReportFailure, Sending
  <2> USE <1>1, <2>1 DEF Sending, AllSent, CliLeft, SndIs
  <2>2. CASE StatSource(t)
    <3>1. Len(source[t]) \in Nat /\ UNCHANGED progress
      BY <2>2 DEF StatSource, Types
    <3>2. SndIs(t, "hash", Len(source[t]), next) /\ snd[t].at = "stat"
      BY <2>2 DEF StatSource, SenderState
    <3> QED BY <3>1, <3>2, SaysSame
  <2>3. CASE HashSource(t)
    <3>1. SndIs(t, "open", total, next) /\ snd[t].at = "hash" /\ UNCHANGED progress
      BY <2>3 DEF HashSource, SenderState
    <3> QED BY <3>1, SaysSame
  <2>4. CASE SendManifest(t)
    <3>1. snd[t].at = "open" /\ UNCHANGED progress
      BY <2>4 DEF SendManifest
    <3>2. PICK a \in {"finish", "chunk", "fail"} :
            /\ snd' = [snd EXCEPT ![t].at = a]
            /\ a = "finish" => total = 0
            /\ a = "chunk" => total # 0
      BY <2>4 DEF SendManifest, FailAt
    <3>3. SndIs(t, a, total, next)
      BY <3>2 DEF SenderState
    <3> QED BY <3>1, <3>2, <3>3, SaysSame
  <2>5. CASE SendChunk(t)
    <3>1. snd[t].at = "chunk" /\ UNCHANGED progress
      BY <2>5 DEF SendChunk
    <3>2. CASE snd' = [snd EXCEPT ![t].at = "fail"]
      <4>1. SndIs(t, "fail", total, next)
        BY <3>2 DEF SenderState
      <4> QED BY <3>1, <4>1, SaysSame
    <3>3. CASE snd' = [snd EXCEPT ![t].at = IF Due(t, next) THEN "report" ELSE "chunk",
                                  ![t].next = next + 1]
      <4>1. PICK a \in {"report", "chunk"} :
              SndIs(t, a, total, next + 1) /\ (a = "chunk" => ~Due(t, next))
        BY <3>3 DEF SenderState
      <4>2. ~Due(t, next) => next # total - 1
        BY DEF Due
      <4> QED BY <3>1, <4>1, <4>2, SaysSame
    <3> QED BY <2>5, <3>2, <3>3 DEF SendChunk, FailAt
  <2>6. CASE Report(t)
    <3>1. snd[t].at = "report"
      BY <2>6 DEF Report
    <3>2. CASE CliLeft(t) /\ snd' = [snd EXCEPT ![t].at = "finish"] /\ UNCHANGED progress
      <4>1. SndIs(t, "finish", total, next)
        BY <3>2 DEF SenderState
      <4> QED BY <3>1, <3>2, <4>1, SaysSame
    <3>3. CASE /\ progress' = [progress EXCEPT ![t] =
                                Append(@, IF Completed(t) THEN "COMPLETED" ELSE "STREAMING")]
               /\ snd' = [snd EXCEPT ![t].at = IF next = total THEN "finish" ELSE "chunk"]
      <4>1. SndIs(t, IF next = total THEN "finish" ELSE "chunk", total, next)
        BY <3>3 DEF SenderState
      <4>2. Says(t, "COMPLETED")' => Says(t, "COMPLETED") \/ next = total
        <5>1. CASE Completed(t)
          BY <5>1 DEF Completed
        <5>2. CASE ~Completed(t)
          BY <3>3, <5>2, SaysMore DEF Update
        <5> QED BY <5>1, <5>2
      <4> QED BY <3>1, <4>1, <4>2
    <3> QED BY <2>6, <3>2, <3>3 DEF Report
  <2>7. CASE Finish(t)
    <3>1. SndIs(t, "done", total, next) /\ snd[t].at = "finish" /\ UNCHANGED progress
      BY <2>7 DEF Finish, SenderState
    <3> QED BY <3>1, SaysSame
  <2>8. CASE ReportFailure(t)
    <3>1. SndIs(t, "done", total, next) /\ snd[t].at = "fail"
      BY <2>8 DEF ReportFailure, SenderState
    <3>2. CASE progress' = [progress EXCEPT ![t] = Append(@, "ERR")]
      <4>1. Says(t, "ERR")' /\ (Says(t, "COMPLETED")' => Says(t, "COMPLETED"))
        BY <3>2, SaysMore DEF Update
      <4> QED BY <3>1, <4>1
    <3>3. CASE CliLeft(t) /\ UNCHANGED progress
      BY <3>1, <3>3, SaysSame
    <3> QED BY <2>8, <3>2, <3>3 DEF ReportFailure
  <2> QED BY <1>6, <2>2, <2>3, <2>4, <2>5, <2>6, <2>7, <2>8 DEF SenderStep
<1>7. CASE Elsewhere(t) \/ EditSource(t)
  <2>1. UNCHANGED <<snd, progress, cli>>
    BY <1>7, ElsewhereKeeps DEF EditSource
  <2> QED BY <1>2, <2>1
<1> QED BY <1>3, <1>4, <1>5, <1>6, <1>7 DEF Step, Elsewhere


LEMMA SendingInit == Init => \A t \in Transfers : Sending(t)
<1> SUFFICES ASSUME Init, NEW t \in Transfers PROVE Sending(t)
  OBVIOUS
<1>1. snd[t] = NewSender /\ progress[t] = <<>> /\ cli[t] = "idle"
  BY DEF Init
<1> QED BY <1>1 DEF Sending, AllSent, Says, NewSender

-----------------------------------------------------------------------------
(* The stream.                                                             *)

LEMMA TypesOf ==
  ASSUME Types, NEW t \in Transfers
  PROVE  /\ snd \in [Transfers -> SenderState] /\ snd[t] \in SenderState
         /\ snd[t].next \in Nat /\ snd[t].total \in Nat /\ snd[t].hash \in Seq(Chunk)
         /\ rcv \in [Transfers -> ReceiverState] /\ rcv[t] \in ReceiverState
         /\ rcv[t].total \in Nat /\ rcv[t].received \subseteq Nat
         /\ wire \in [Transfers -> Seq(Frame)]
         /\ wire[t] \in Seq(Frame) /\ Len(wire[t]) \in Nat
         /\ Taken(t) \in Int
         /\ source[t] \in Seq(Chunk)
BY DEF Types, SenderState, ReceiverState, Taken

\* The sending task moves on without touching the stream.
LEMMA StreamingSame ==
  ASSUME NEW t \in Transfers, Streaming(t),
         UNCHANGED <<wire[t], rcv[t], snd[t].next, snd[t].total, snd[t].hash>>,
         source'[t] \in Seq(Versions(t)),
         snd'[t].at \in Early => snd[t].at \in Early,
         snd'[t].at \in {"chunk", "report"} => snd[t].at \in {"chunk", "report"}
  PROVE  Streaming(t)' /\ Taken(t)' = Taken(t)
<1>1. UNCHANGED Taken(t) BY DEF Taken
<1>2. Frames(t)' BY <1>1 DEF Streaming, Frames, InPlace
<1>3. Phases(t)' BY <1>1 DEF Streaming, Phases
<1>4. Receiving(t)' BY <1>1 DEF Streaming, Receiving
<1> QED BY <1>1, <1>2, <1>3, <1>4 DEF Streaming

\* Nothing is sent yet, or nothing ever will be.
LEMMA StreamingEarly ==
  ASSUME NEW t \in Transfers, source'[t] \in Seq(Versions(t)), wire'[t] = <<>>,
         rcv'[t] = NewReceiver, snd'[t].next = 0, snd'[t].at \notin {"chunk", "report"}
  PROVE  Streaming(t)'
<1>1. rcv'[t].at = "none" /\ Len(wire'[t]) = 0 /\ snd'[t].next = 0
  BY DEF NewReceiver
<1>2. Taken(t)' = 0
  <2>1. snd'[t].next - Len(wire'[t]) = 0 - 0
    BY <1>1
  <2> QED BY <2>1 DEF Taken
<1>3. Frames(t)'
  BY <1>1 DEF Frames
<1>4. Phases(t)'
  BY <1>1 DEF Phases
<1>5. Receiving(t)'
  BY <1>2, Buffers DEF Receiving, NewReceiver
<1> QED BY <1>3, <1>4, <1>5 DEF Streaming

LEMMA StreamingInit == Init => \A t \in Transfers : Streaming(t)
<1> SUFFICES ASSUME Init, NEW t \in Transfers PROVE Streaming(t)
  OBVIOUS
<1>1. /\ source[t] = [i \in 1 .. Size[t] |-> Original(t)]
      /\ wire[t] = <<>> /\ rcv[t] = NewReceiver /\ snd[t] = NewSender
  BY DEF Init
<1>2. snd[t].next = 0 /\ snd[t].at = "idle" /\ rcv[t].at = "none" /\ Len(wire[t]) = 0
  BY <1>1 DEF NewSender, NewReceiver
<1>3. Taken(t) = 0
  BY <1>2 DEF Taken
<1>4. source[t] \in Seq(Versions(t))
  <2>1. Size[t] \in Nat /\ Original(t) \in Versions(t)
    BY TransferAssumption DEF Versions
  <2> QED BY <1>1, <2>1, ConstantSeq
<1>5. Frames(t)
  BY <1>2, <1>4 DEF Frames
<1>6. Phases(t)
  BY <1>1, <1>2 DEF Phases
<1>7. Receiving(t)
  BY <1>1, <1>3, Buffers DEF Receiving, NewReceiver
<1> QED BY <1>5, <1>6, <1>7 DEF Streaming

\* The first frame is the manifest exactly when the receiver has not begun.
LEMMA FirstFrame ==
  ASSUME Types, NEW t \in Transfers, Streaming(t), wire[t] # <<>>
  PROVE  /\ rcv[t].at = "none" => /\ Head(wire[t]) \in Manifest
                                  /\ Taken(t) = -1
                                  /\ Head(wire[t]).total = snd[t].total
                                  /\ Head(wire[t]).hash = snd[t].hash
         /\ rcv[t].at # "none" => /\ Head(wire[t]) \in Data
                                  /\ Head(wire[t]).index = Taken(t)
                                  /\ Head(wire[t]).data \in Versions(t)
<1>1. 1 \in 1 .. Len(wire[t]) /\ Head(wire[t]) = wire[t][1]
  BY TypesOf
<1>2. InPlace(t, 1)
  BY <1>1 DEF Streaming, Frames
<1>3. Taken(t) \in Int /\ Taken(t) + 1 - 1 = Taken(t)
  BY TypesOf
<1> QED BY <1>1, <1>2, <1>3 DEF InPlace

\* The receiver takes the first frame: the others move up.
LEMMA FramesMoveUp ==
  ASSUME Types, NEW t \in Transfers, Streaming(t), wire[t] # <<>>,
         wire' = [wire EXCEPT ![t] = Tail(@)], UNCHANGED <<source, snd>>, rcv'[t].at # "none"
  PROVE  Frames(t)' /\ Taken(t)' = Taken(t) + 1
<1>1. /\ wire'[t] = Tail(wire[t])
      /\ Len(wire'[t]) = Len(wire[t]) - 1
      /\ \A i \in 1 .. Len(wire'[t]) : i + 1 \in 1 .. Len(wire[t]) /\ wire'[t][i] = wire[t][i + 1]
  BY TypesOf
<1>2. Taken(t)' = Taken(t) + 1
  BY <1>1, TypesOf DEF Taken
<1>3. ASSUME NEW i \in 1 .. Len(wire'[t]) PROVE InPlace(t, i)'
  <2>1. InPlace(t, i + 1) /\ i + 1 # 1
    BY <1>1, <1>3 DEF Streaming, Frames
  <2>2. /\ wire'[t][i] \in Data
        /\ wire'[t][i].index = Taken(t) + (i + 1) - 1
        /\ wire'[t][i].data \in Versions(t)
    BY <1>1, <2>1 DEF InPlace
  <2>3. Taken(t) + (i + 1) - 1 = Taken(t)' + i - 1
    BY <1>2, TypesOf
  <2> QED BY <2>2, <2>3 DEF InPlace
<1> QED BY <1>2, <1>3 DEF Streaming, Frames

\* The sending task writes its next chunk behind the others.
LEMMA FramesGrow ==
  ASSUME Types, NEW t \in Transfers, Streaming(t), UNCHANGED <<source, rcv>>,
         NEW c \in Versions(t), c \in Chunk,
         rcv[t].at = "none" => wire[t] # <<>>,
         wire' = [wire EXCEPT ![t] = Append(@, ChunkFrame(snd[t].next, c))],
         snd'[t].next = snd[t].next + 1, UNCHANGED <<snd[t].total, snd[t].hash>>
  PROVE  Frames(t)' /\ Taken(t)' = Taken(t)
<1> DEFINE f == ChunkFrame(snd[t].next, c)
<1> PICK n \in Nat : n = Len(wire[t])
  BY TypesOf
<1>1. f \in Data /\ f.index = snd[t].next /\ f.data = c
  BY TypesOf DEF ChunkFrame, Data
<1> HIDE DEF f
<1>2. /\ Len(wire'[t]) = n + 1
      /\ wire'[t][n + 1] = f
      /\ \A i \in 1 .. n : wire'[t][i] = wire[t][i]
  <2>1. wire'[t] = Append(wire[t], f)
    BY TypesOf DEF f
  <2> QED BY <1>1, <2>1, TypesOf DEF Frame
<1>3. Taken(t)' = Taken(t)
  BY <1>2, TypesOf DEF Taken
<1>4. ASSUME NEW i \in 1 .. n PROVE InPlace(t, i)'
  <2>1. InPlace(t, i) /\ wire'[t][i] = wire[t][i]
    BY <1>2, <1>4 DEF Streaming, Frames
  <2> QED BY <1>3, <2>1 DEF InPlace
<1>5. InPlace(t, n + 1)'
  <2>1. rcv[t].at = "none" => n + 1 # 1
    BY TypesOf
  <2>2. f.index = Taken(t) + (n + 1) - 1
    BY <1>1, TypesOf DEF Taken
  <2> QED BY <1>1, <1>2, <1>3, <2>1, <2>2 DEF InPlace
<1>6. ASSUME NEW i \in 1 .. Len(wire'[t]) PROVE InPlace(t, i)'
  <2>1. i \in 1 .. n \/ i = n + 1
    BY <1>2, <1>6, TypesOf
  <2> QED BY <1>4, <1>5, <2>1
<1> QED BY <1>3, <1>6 DEF Streaming, Frames

LEMMA StreamingSender ==
  ASSUME Types, NEW t \in Transfers, Sending(t), Streaming(t), SenderStep(t)
  PROVE  /\ Streaming(t)'
         /\ rcv[t].at # "none" => Taken(t)' = Taken(t)
         /\ UNCHANGED <<source, rcv, disk>>
<1>1. /\ snd[t].at \in Early => /\ wire[t] = <<>> /\ snd[t].next = 0
                              /\ rcv[t] = NewReceiver /\ rcv[t].at = "none"
      /\ UNCHANGED <<source, rcv, disk>>
      /\ source'[t] \in Seq(Versions(t))
  BY DEF Sending, Streaming, Frames, Phases, Early, SenderStep, StatSource, HashSource,
         SendManifest, SendChunk, Report, Finish, ReportFailure, receiverVars
<1>2. CASE StatSource(t) \/ HashSource(t)
  <2>1. snd[t].at \in Early /\ snd'[t].at \in {"hash", "open"} /\ snd'[t].next = snd[t].next
    <3>1. CASE StatSource(t)
      BY <3>1, TypesOf DEF StatSource, Early, SenderState
    <3>2. CASE HashSource(t)
      BY <3>2, TypesOf DEF HashSource, Early, SenderState
    <3> QED BY <1>2, <3>1, <3>2
  <2>2. wire' = wire
    BY <1>2 DEF StatSource, HashSource
  <2> QED BY <1>1, <2>1, <2>2, StreamingEarly
<1>3. CASE SendManifest(t)
  <2>1. /\ snd[t].at = "open" /\ wire[t] = <<>> /\ snd[t].next = 0
        /\ rcv[t] = NewReceiver /\ rcv[t].at = "none"
    BY <1>1, <1>3 DEF SendManifest, Early
  <2>2. CASE FailAt(t)
    <3>1. wire' = wire /\ snd'[t].at = "fail" /\ snd'[t].next = 0
      BY <2>1, <2>2, TypesOf DEF FailAt, SenderState
    <3> QED BY <1>1, <2>1, <3>1, StreamingEarly
  <2>3. CASE /\ snd' = [snd EXCEPT ![t].at = IF snd[t].total = 0 THEN "finish" ELSE "chunk"]
             /\ wire' = [wire EXCEPT ![t] = Append(@, ManifestFrame(snd[t].total, snd[t].hash))]
    <3> DEFINE m == ManifestFrame(snd[t].total, snd[t].hash)
    <3>1. /\ snd'[t].at \in {"finish", "chunk"}
          /\ snd'[t].next = 0
          /\ UNCHANGED <<snd[t].total, snd[t].hash>>
      BY <2>1, <2>3, TypesOf DEF SenderState
    <3>2. m \in Manifest /\ m.total = snd'[t].total /\ m.hash = snd'[t].hash
      BY <3>1, TypesOf DEF ManifestFrame, Manifest
    <3> HIDE DEF m
    <3>3. wire'[t] = <<m>> /\ Len(wire'[t]) = 1 /\ wire'[t][1] = m
      <4>1. wire'[t] = Append(<<>>, m)
        BY <2>1, <2>3, TypesOf DEF m
      <4> QED BY <4>1
    <3>4. Taken(t)' = -1
      <4>1. snd'[t].next - Len(wire'[t]) = 0 - 1
        BY <3>1, <3>3
      <4> QED BY <4>1 DEF Taken
    <3>5. rcv'[t] = NewReceiver /\ rcv'[t].at = "none"
      BY <1>1, <2>1 DEF NewReceiver
    <3>6. Frames(t)'
      <4>1. InPlace(t, 1)'
        BY <3>2, <3>3, <3>4, <3>5 DEF InPlace
      <4>2. \A i \in 1 .. Len(wire'[t]) : i = 1
        BY <3>3
      <4> QED BY <1>1, <4>1, <4>2 DEF Frames
    <3>7. Phases(t)'
      BY <3>1, <3>3, <3>5 DEF Phases, Early
    <3>8. Receiving(t)'
      BY <3>4, <3>5, Buffers DEF Receiving, NewReceiver
    <3> QED BY <1>1, <2>1, <3>6, <3>7, <3>8 DEF Streaming
  <2> QED BY <1>3, <2>2, <2>3 DEF SendManifest
<1>4. CASE SendChunk(t)
  <2> DEFINE n == snd[t].next
             c == source[t][n + 1]
  <2>1. snd[t].at = "chunk"
    BY <1>4 DEF SendChunk
  <2>2. CASE FailAt(t)
    <3>1. /\ UNCHANGED <<wire, snd[t].next, snd[t].total, snd[t].hash>>
          /\ snd'[t].at = "fail"
      BY <2>2, TypesOf DEF FailAt, SenderState
    <3> QED BY <1>1, <3>1, StreamingSame DEF Early
  <2>3. CASE /\ n < Len(source[t])
             /\ wire' = [wire EXCEPT ![t] = Append(@, ChunkFrame(n, c))]
             /\ snd' = [snd EXCEPT ![t].at = IF Due(t, n) THEN "report" ELSE "chunk",
                                   ![t].next = n + 1]
    <3>1. /\ snd'[t].at \in {"report", "chunk"}
          /\ snd'[t].next = n + 1
          /\ UNCHANGED <<snd[t].total, snd[t].hash>>
      BY <2>3, TypesOf DEF SenderState
    <3>2. c \in Versions(t) /\ c \in Chunk
      <4>1. source[t] \in Seq(Versions(t)) /\ n + 1 \in 1 .. Len(source[t])
        BY <1>1, <2>3, TypesOf
      <4>2. c \in Versions(t)
        BY <4>1
      <4> QED BY <4>2, Contents
    <3>3. rcv[t].at = "none" => wire[t] # <<>>
      BY <2>1 DEF Streaming, Phases
    <3> HIDE DEF c
    <3>4. wire'[t] # <<>>
      <4> DEFINE f == ChunkFrame(n, c)
      <4>1. f \in Frame
        BY <3>2, TypesOf DEF ChunkFrame, Frame, Data
      <4>2. wire'[t] = Append(wire[t], f)
        BY <2>3, TypesOf
      <4> HIDE DEF f
      <4> QED BY <4>1, <4>2, TypesOf
    <3>5. Frames(t)' /\ Taken(t)' = Taken(t)
      BY <1>1, <2>3, <3>1, <3>2, <3>3, FramesGrow
    <3>6. Phases(t)'
      BY <1>1, <3>1, <3>4, <3>5 DEF Streaming, Phases, Early
    <3>7. Receiving(t)'
      BY <1>1, <3>1, <3>5 DEF Streaming, Receiving
    <3> QED BY <1>1, <3>5, <3>6, <3>7 DEF Streaming
  <2> QED BY <1>4, <2>2, <2>3 DEF SendChunk
<1>5. CASE Report(t) \/ Finish(t) \/ ReportFailure(t)
  <2>1. PICK a \in {"finish", "chunk", "done"} :
          /\ snd' = [snd EXCEPT ![t].at = a]
          /\ a = "chunk" => snd[t].at = "report"
    BY <1>5 DEF Report, Finish, ReportFailure
  <2>2. snd'[t].at = a /\ UNCHANGED <<snd[t].next, snd[t].total, snd[t].hash>>
    BY <2>1, TypesOf DEF SenderState
  <2>3. wire' = wire
    BY <1>5 DEF Report, Finish, ReportFailure
  <2> QED BY <1>1, <2>1, <2>2, <2>3, StreamingSame DEF Early
<1> QED BY <1>2, <1>3, <1>4, <1>5 DEF SenderStep

\* The receiving task changes its state and takes nothing from the stream.
LEMMA FramesStay ==
  ASSUME NEW t \in Transfers, Streaming(t), UNCHANGED <<source, snd, wire>>,
         rcv[t].at # "none", rcv'[t].at # "none"
  PROVE  Frames(t)' /\ Phases(t)' /\ Taken(t)' = Taken(t)
<1>1. Taken(t)' = Taken(t)
  BY DEF Taken
<1>2. Frames(t)'
  BY <1>1 DEF Streaming, Frames, InPlace
<1>3. Phases(t)'
  BY <1>1 DEF Streaming, Phases
<1> QED BY <1>1, <1>2, <1>3

\* A bit field that counts as full has every bit.
LEMMA AllMarked ==
  ASSUME NEW n \in Nat, NEW marks \in SUBSET (0 .. n - 1), Cardinality(marks) = n
  PROVE  marks = 0 .. n - 1
<1>1. IsFiniteSet(0 .. n - 1) /\ Cardinality(0 .. n - 1) = n
  <2>1. 0 \in Int /\ n - 1 \in Int /\ (0 > n - 1 => n = 0) /\ n - 1 - 0 + 1 = n
    OBVIOUS
  <2> QED BY <2>1, FS_Interval
<1> QED BY <1>1, FS_Subset

\* How far the receiver can have come.
LEMMA TakenSoFar ==
  ASSUME Types, NEW t \in Transfers, Sending(t), Streaming(t)
  PROVE  /\ Taken(t) <= snd[t].total
         /\ wire[t] # <<>> => Taken(t) < snd[t].total
         /\ rcv[t].received \subseteq 0 .. snd[t].total - 1
<1>1. snd[t].next <= snd[t].total /\ rcv[t].received \subseteq 0 .. Taken(t) - 1
  BY DEF Sending, Streaming, Receiving
<1>2. Len(wire[t]) >= 0 /\ (wire[t] # <<>> => Len(wire[t]) > 0)
  BY TypesOf
<1> QED BY <1>1, <1>2, TypesOf DEF Taken

LEMMA StreamingManifest ==
  ASSUME Types, NEW t \in Transfers, Streaming(t), ReadManifest(t)
  PROVE  /\ Streaming(t)'
         /\ rcv[t] = NewReceiver
         /\ rcv'[t].received = {} /\ rcv'[t].pending = None
         /\ ~rcv'[t].writer => rcv'[t].at # "allocate" /\ DiskErrors
         /\ rcv'[t].writer => /\ File(t)' = <<>>
                              /\ rcv'[t].total > 0 => rcv'[t].at = "allocate"
<1> DEFINE m == Head(wire[t])
<1>1. wire[t] # <<>> /\ m.kind = "manifest" /\ wire' = [wire EXCEPT ![t] = Tail(@)]
      /\ UNCHANGED <<source, snd>>
  BY DEF ReadManifest, senderVars
<1>2. rcv[t].at = "none"
  <2>1. m \notin Data
    BY <1>1 DEF Data
  <2> QED BY <1>1, <2>1, FirstFrame
<1>3. /\ m \in Manifest /\ m.total = snd[t].total /\ m.hash = snd[t].hash /\ Taken(t) = -1
      /\ m.total \in Nat
  BY <1>1, <1>2, FirstFrame DEF Manifest
<1> HIDE DEF m
<1>4. rcv[t] = NewReceiver
  BY <1>2 DEF Streaming, Phases
<1>5. snd[t].at \notin Early
  BY <1>1 DEF Streaming, Phases
<1>6. ASSUME rcv'[t].at # "none" PROVE Frames(t)' /\ Phases(t)' /\ Taken(t)' = 0
  <2>1. Frames(t)' /\ Taken(t)' = -1 + 1
    BY <1>1, <1>3, <1>6, FramesMoveUp
  <2>2. Taken(t)' = 0
    BY <2>1
  <2>3. Phases(t)'
    BY <1>1, <1>5, <1>6, <2>2 DEF Phases
  <2> QED BY <2>1, <2>2, <2>3
<1>7. CASE /\ disk' = [disk EXCEPT ![NameOf[t]] = <<>>]
           /\ rcv' = [rcv EXCEPT ![t] =
                [@ EXCEPT !.at = IF m.total = 0 THEN "reading" ELSE "allocate",
                          !.writer = TRUE, !.total = m.total, !.hash = m.hash]]
  <2> DEFINE r == rcv'[t]
  <2>1. r = [NewReceiver EXCEPT !.at = IF m.total = 0 THEN "reading" ELSE "allocate",
                                !.writer = TRUE, !.total = m.total, !.hash = m.hash]
    BY <1>4, <1>7, TypesOf
  <2>2. /\ r.at = IF m.total = 0 THEN "reading" ELSE "allocate"
        /\ r.writer /\ r.total = m.total /\ r.hash = m.hash
        /\ r.received = {} /\ r.pending = None /\ ~r.failed /\ ~r.verified
    BY <2>1 DEF NewReceiver
  <2> HIDE DEF r
  <2>3. File(t)' = <<>>
    BY <1>7, TransferAssumption DEF File, Types
  <2>4. Frames(t)' /\ Phases(t)' /\ Taken(t)' = 0
    BY <1>6, <2>2 DEF r
  <2>5. Receiving(t)'
    BY <1>1, <1>3, <2>2, <2>4, Buffers DEF Receiving, r
  <2>6. r.total > 0 => r.at = "allocate"
    BY <1>3, <2>2
  <2> QED BY <1>4, <2>2, <2>3, <2>4, <2>5, <2>6 DEF Streaming, r
<1>8. CASE DiskErrors /\ rcv' = [rcv EXCEPT ![t].at = "reading"]
  <2>1. rcv'[t] = [NewReceiver EXCEPT !.at = "reading"]
    BY <1>4, <1>8, TypesOf
  <2>2. /\ rcv'[t].at = "reading" /\ ~rcv'[t].writer
        /\ rcv'[t].received = {} /\ rcv'[t].pending = None
        /\ ~rcv'[t].failed /\ ~rcv'[t].verified
    BY <2>1 DEF NewReceiver
  <2>3. Frames(t)' /\ Phases(t)' /\ Taken(t)' = 0
    BY <1>6, <2>2
  <2>4. Receiving(t)'
    BY <2>2, <2>3, Buffers DEF Receiving
  <2> QED BY <1>4, <1>8, <2>2, <2>3, <2>4 DEF Streaming
<1> QED BY <1>7, <1>8 DEF ReadManifest, m

\* What a chunk frame does: written with its bit set, or, after a failed write,
\* dropped without it.
LEMMA ReadChunkEffect ==
  ASSUME Types, NEW t \in Transfers, Sending(t), Streaming(t), ReadChunk(t)
  PROVE  LET r == rcv[t]
             q == rcv'[t]
             n == Taken(t)
         IN
         /\ wire[t] # <<>> /\ wire' = [wire EXCEPT ![t] = Tail(@)]
         /\ UNCHANGED <<source, snd, disk>>
         /\ r.at = "reading" /\ r.writer /\ r.pending = None
         /\ q.at = r.at /\ q.writer = r.writer /\ q.total = r.total /\ q.hash = r.hash
         /\ n \notin r.received /\ ~q.failed
         /\ ~r.failed => /\ q.received = r.received \cup {n}
                         /\ q.pending \in Buffered
                         /\ q.pending.index = n /\ q.pending.data \in Versions(t)
         /\ r.failed => q.received = r.received /\ q.pending = None
         /\ q.verified <=> r.verified \/ Cardinality(q.received) = r.total
<1> DEFINE r == rcv[t]
           q == rcv'[t]
           n == Taken(t)
           c == Head(wire[t]).data
<1>1. /\ wire[t] # <<>> /\ wire' = [wire EXCEPT ![t] = Tail(@)]
      /\ UNCHANGED <<source, snd, disk>>
      /\ r.at = "reading" /\ r.writer /\ r.pending = None
  BY DEF ReadChunk, senderVars
<1>2. /\ Head(wire[t]) \in Data /\ Head(wire[t]).index = n
      /\ c \in Versions(t)
  BY <1>1, FirstFrame
<1>3. n \in Nat /\ c \in Chunk
  BY <1>2 DEF Data
<1>4. n \notin r.received
  BY <1>3 DEF Streaming, Receiving
<1>5. q = WriteChunk(r, n, c)
  BY <1>2, TypesOf DEF ReadChunk
<1>6. r \in ReceiverState
  BY TypesOf
<1> HIDE DEF r, n, c, q
<1>7. CASE ~r.failed
  <2> DEFINE marks == r.received \cup {n}
             w == [what |-> "chunk", index |-> n, data |-> c]
  <2>1. q = [r EXCEPT !.failed = FALSE, !.received = marks, !.pending = w,
                      !.verified = r.verified \/ Cardinality(marks) = r.total]
    BY <1>4, <1>5, <1>7 DEF WriteChunk
  <2>2. w \in Buffered /\ w.index = n /\ w.data = c
    BY <1>3 DEF Buffered
  <2> HIDE DEF marks, w
  <2>3. /\ q.at = r.at /\ q.writer = r.writer /\ q.total = r.total /\ q.hash = r.hash
        /\ ~q.failed /\ q.received = marks /\ q.pending = w
        /\ q.verified = (r.verified \/ Cardinality(marks) = r.total)
    BY <1>6, <2>1 DEF ReceiverState
  <2> QED BY <1>1, <1>2, <1>4, <1>7, <2>2, <2>3 DEF r, q, n, marks
<1>8. CASE r.failed
  <2>1. q = [r EXCEPT !.failed = FALSE, !.received = r.received, !.pending = r.pending,
                      !.verified = r.verified \/ Cardinality(r.received) = r.total]
    BY <1>4, <1>5, <1>8 DEF WriteChunk
  <2>2. /\ q.at = r.at /\ q.writer = r.writer /\ q.total = r.total /\ q.hash = r.hash
        /\ ~q.failed /\ q.received = r.received /\ q.pending = r.pending
        /\ q.verified = (r.verified \/ Cardinality(r.received) = r.total)
    BY <1>6, <2>1 DEF ReceiverState
  <2> QED BY <1>1, <1>4, <1>8, <2>2 DEF r, q, n
<1> QED BY <1>7, <1>8

LEMMA StreamingChunk ==
  ASSUME Types, NEW t \in Transfers, Sending(t), Streaming(t), ReadChunk(t)
  PROVE  Streaming(t)'
<1> DEFINE r == rcv[t]
           q == rcv'[t]
<1> PICK n \in Int : n = Taken(t)
  BY TypesOf
<1>1. /\ wire[t] # <<>> /\ wire' = [wire EXCEPT ![t] = Tail(@)]
      /\ UNCHANGED <<source, snd>>
      /\ r.at = "reading" /\ r.writer /\ r.pending = None
      /\ q.at = r.at /\ q.writer = r.writer /\ q.total = r.total /\ q.hash = r.hash
      /\ n \notin r.received /\ ~q.failed
      /\ ~r.failed => /\ q.received = r.received \cup {n}
                      /\ q.pending \in Buffered
                      /\ q.pending.index = n /\ q.pending.data \in Versions(t)
      /\ r.failed => q.received = r.received /\ q.pending = None
      /\ q.verified <=> r.verified \/ Cardinality(q.received) = r.total
  BY ReadChunkEffect
<1>2. /\ r.total = snd[t].total /\ r.hash = snd[t].hash
      /\ r.received \subseteq 0 .. n - 1
      /\ r.verified => r.received = 0 .. r.total - 1
      /\ n >= 0 /\ n < r.total /\ r.total \in Nat
  BY <1>1, TypesOf, TakenSoFar DEF Streaming, Phases, Receiving
<1>3. Frames(t)' /\ Taken(t)' = n + 1
  BY <1>1, FramesMoveUp
<1>4. Phases(t)'
  BY <1>1, <1>2, <1>3 DEF Streaming, Phases
<1> HIDE DEF r, q
<1>5. q.received \subseteq 0 .. n /\ q.received \subseteq 0 .. r.total - 1
  BY <1>1, <1>2
<1>6. ~r.verified
  <2>1. n \in 0 .. r.total - 1
    BY <1>2
  <2> QED BY <1>1, <1>2, <2>1
<1>7. q.verified => q.received = 0 .. r.total - 1
  BY <1>1, <1>2, <1>5, <1>6, AllMarked
<1>8. q.pending = None \/ (q.pending \in Buffered /\ q.pending.index = (n + 1) - 1
                           /\ q.pending.data \in Versions(t))
  BY <1>1
<1>9. (n + 1) - 1 = n /\ r.total > 0
  BY <1>2
<1>10. Receiving(t)'
  <2>1. q.received \subseteq 0 .. Taken(t)' - 1
    BY <1>3, <1>5, <1>9
  <2>2. /\ q.pending # End
        /\ q.pending \in Buffered => /\ q.pending.index = Taken(t)' - 1
                                     /\ q.pending.data \in Versions(t)
    BY <1>3, <1>8, Buffers
  <2>3. q.at = "reading" /\ q.writer /\ ~q.failed
        /\ q.total = snd'[t].total /\ q.hash = snd'[t].hash
    BY <1>1, <1>2
  <2>4. q.verified => q.total > 0 /\ q.received = 0 .. q.total - 1
    BY <1>1, <1>7, <1>9
  <2> QED BY <2>1, <2>2, <2>3, <2>4 DEF Receiving, q
<1> QED BY <1>3, <1>4, <1>10 DEF Streaming

LEMMA StreamingReceiver ==
  ASSUME Types, NEW t \in Transfers, Sending(t), Streaming(t), Elsewhere(t)
  PROVE  Streaming(t)'
<1>1. CASE ReadManifest(t)
  BY <1>1, StreamingManifest
<1>2. CASE Allocate(t)
  <2>1. /\ rcv'[t].at = "reading" /\ rcv'[t].pending = End
        /\ UNCHANGED <<rcv[t].writer, rcv[t].total, rcv[t].hash, rcv[t].received,
                       rcv[t].failed, rcv[t].verified>>
    BY <1>2, TypesOf DEF Allocate, ReceiverState, End
  <2>2. rcv[t].at = "allocate" /\ UNCHANGED <<source, snd, wire>>
    BY <1>2 DEF Allocate, senderVars
  <2>3. Frames(t)' /\ Phases(t)' /\ Taken(t)' = Taken(t)
    BY <2>1, <2>2, FramesStay
  <2>4. Receiving(t)'
    BY <2>1, <2>2, <2>3, Buffers DEF Streaming, Receiving
  <2> QED BY <2>3, <2>4 DEF Streaming
<1>3. CASE ReadChunk(t)
  BY <1>3, StreamingChunk
<1>4. CASE LoseFraming(t) \/ StreamEnds(t)
  <2>1. /\ rcv[t].at = "reading" /\ rcv'[t].at = "ended"
        /\ UNCHANGED <<rcv[t].writer, rcv[t].total, rcv[t].hash, rcv[t].received,
                       rcv[t].pending, rcv[t].failed, rcv[t].verified>>
    <3>1. CASE LoseFraming(t)
      BY <3>1, TypesOf DEF LoseFraming, ReceiverState
    <3>2. CASE StreamEnds(t)
      BY <3>2, TypesOf DEF StreamEnds, ReceiverState
    <3> QED BY <1>4, <3>1, <3>2
  <2>2. UNCHANGED <<source, snd, wire>>
    BY <1>4 DEF LoseFraming, StreamEnds, senderVars
  <2>3. Frames(t)' /\ Phases(t)' /\ Taken(t)' = Taken(t)
    BY <2>1, <2>2, FramesStay
  <2>4. Receiving(t)'
    BY <2>1, <2>2, <2>3 DEF Streaming, Receiving
  <2> QED BY <2>3, <2>4 DEF Streaming
<1>5. CASE Flush(t) \/ FlushFails(t)
  <2>1. /\ rcv'[t].pending = None
        /\ rcv'[t].failed => rcv[t].failed \/ DiskErrors
        /\ UNCHANGED <<rcv[t].at, rcv[t].writer, rcv[t].total, rcv[t].hash,
                       rcv[t].received, rcv[t].verified>>
    <3>1. CASE Flush(t)
      BY <3>1, TypesOf DEF Flush, ReceiverState
    <3>2. CASE FlushFails(t)
      BY <3>2, TypesOf DEF FlushFails, ReceiverState
    <3> QED BY <1>5, <3>1, <3>2
  <2>2. UNCHANGED <<source, snd, wire>> /\ rcv[t].pending # None
    BY <1>5 DEF Flush, FlushFails, senderVars
  <2>3. rcv[t].at # "none"
    BY <2>2 DEF Streaming, Phases, NewReceiver
  <2>4. Frames(t)' /\ Phases(t)' /\ Taken(t)' = Taken(t)
    BY <2>1, <2>2, <2>3, FramesStay
  <2>5. Receiving(t)'
    BY <2>1, <2>2, <2>4, Buffers DEF Streaming, Receiving
  <2> QED BY <2>4, <2>5 DEF Streaming
<1> QED BY <1>1, <1>2, <1>3, <1>4, <1>5 DEF Elsewhere, ReceiverStep

LEMMA StreamingStep ==
  ASSUME Types, NEW t \in Transfers, Sending(t), Streaming(t), Step(t)
  PROVE  Streaming(t)'
<1>1. CASE InitiateSend(t)
  <2>1. /\ UNCHANGED <<source, wire, rcv, snd[t].next, snd[t].total, snd[t].hash>>
        /\ snd'[t].at = "stat" /\ snd[t].at = "idle"
    BY <1>1, TypesOf DEF InitiateSend, SenderState, receiverVars, Sending
  <2> QED BY <2>1, StreamingSame DEF Streaming, Frames, Early
<1>2. CASE Recv(t) \/ KillCli(t)
  <2>1. UNCHANGED <<source, snd, wire, rcv>>
    BY <1>2 DEF Recv, KillCli, senderVars, receiverVars
  <2> QED BY <2>1, StreamingSame DEF Streaming, Frames
<1>3. CASE EditSource(t)
  <2>1. PICK n \in 1 .. Size[t] + 1 :
          source' = [source EXCEPT ![t] = [i \in 1 .. n |-> Edited(t)]]
    BY <1>3 DEF EditSource
  <2>2. n \in Nat /\ Edited(t) \in Versions(t)
    BY <1>3, TransferAssumption DEF EditSource, Versions
  <2>3. source'[t] = [i \in 1 .. n |-> Edited(t)]
    BY <2>1 DEF Types
  <2>4. source'[t] \in Seq(Versions(t))
    BY <2>2, <2>3, ConstantSeq
  <2>5. UNCHANGED <<snd, wire, rcv>>
    BY <1>3 DEF EditSource, receiverVars
  <2> QED BY <2>4, <2>5, StreamingSame
<1> QED BY <1>1, <1>2, <1>3, StreamingSender, StreamingReceiver DEF Step, Elsewhere

-----------------------------------------------------------------------------
(* The sending side and the stream together.                               *)

LEMMA InductiveInit == Init => Inductive
BY TypesInit, SendingInit, StreamingInit DEF Inductive

LEMMA InductiveStep == Inductive /\ [Next]_vars => Inductive'
<1> SUFFICES ASSUME Inductive, [Next]_vars PROVE Inductive'
  OBVIOUS
<1>1. Types'
  BY TypesStep DEF Inductive
<1>2. ASSUME NEW u \in Transfers,
             UNCHANGED <<source[u], snd[u], progress[u], cli[u], wire[u], rcv[u]>>
      PROVE  Sending(u)' /\ Streaming(u)'
  <2>1. Sending(u)'
    BY <1>2 DEF Inductive, Sending, AllSent, Says, CliLeft
  <2>2. Streaming(u)'
    BY <1>2, StreamingSame DEF Inductive, Streaming, Frames
  <2> QED BY <2>1, <2>2
<1>3. ASSUME NEW t \in Transfers, Step(t), NEW u \in Transfers
      PROVE  Sending(u)' /\ Streaming(u)'
  <2>1. CASE u = t
    BY <1>3, <2>1, SendingStep, StreamingStep DEF Inductive
  <2>2. CASE u # t
    BY <1>2, <1>3, <2>2, Local DEF Inductive
  <2> QED BY <2>1, <2>2
<1>4. CASE CloseConn \/ UNCHANGED vars
  <2>1. UNCHANGED <<source, snd, progress, cli, wire, rcv>>
    BY <1>4 DEF CloseConn, vars, senderVars, receiverVars
  <2> QED BY <1>1, <1>2, <2>1 DEF Inductive
<1>5. (\E t \in Transfers : Step(t)) \/ CloseConn \/ UNCHANGED vars
  BY DEF Next, Step
<1> QED BY <1>1, <1>3, <1>4, <1>5 DEF Inductive

LEMMA InductiveAlways == Spec => []Inductive
BY InductiveInit, InductiveStep, PTL DEF Spec

(* Every variable keeps its type.  In particular a bit is only ever set    *)
(* for a chunk the manifest announced, the sending task never runs past    *)
(* the size it took, and the progress channel keeps to its capacity        *)
(* (send_file in stream.rs, DiskWriter in writer.rs).                      *)
THEOREM FileTypes == Spec => []TypeOK
<1>1. Inductive => TypeOK
  <2> SUFFICES ASSUME Inductive PROVE TypeOK
    OBVIOUS
  <2>1. ASSUME NEW t \in Transfers
        PROVE  /\ snd[t].at \in {"idle", "stat", "hash", "open", "chunk", "report",
                                 "finish", "fail", "done"}
               /\ snd[t].next \in 0 .. snd[t].total
               /\ snd[t].hash \in Seq(Chunk)
               /\ rcv[t].at \in {"none", "reading", "allocate", "ended"}
               /\ rcv[t].received \subseteq 0 .. rcv[t].total - 1
               /\ rcv[t].pending \in Write \cup {None}
               /\ rcv[t].verified => rcv[t].writer
    <3>1. Types /\ Sending(t) /\ Streaming(t)
      BY DEF Inductive
    <3>2. snd[t] \in SenderState /\ rcv[t] \in ReceiverState
      BY <3>1, TypesOf
    <3>3. snd[t].next \in 0 .. snd[t].total
      BY <3>1, TypesOf DEF Sending
    <3>4. rcv[t].received \subseteq 0 .. rcv[t].total - 1
      <4>1. rcv[t].received # {} => rcv[t].total = snd[t].total
        BY <3>1 DEF Streaming, Receiving
      <4> QED BY <3>1, <4>1, TakenSoFar
    <3>5. rcv[t].verified => rcv[t].writer
      BY <3>1 DEF Streaming, Receiving
    <3> QED BY <3>2, <3>3, <3>4, <3>5 DEF SenderState, ReceiverState
  <2> QED BY <2>1 DEF Inductive, Types, TypeOK, Update, CliState
<1> QED BY InductiveAlways, <1>1, PTL

(* When the command prints success, every chunk of the manifest has been   *)
(* written to the stream, for files of every size, every channel capacity  *)
(* and every period of updates, whatever is edited, killed, refused or     *)
(* closed meanwhile (stream.rs send_file, main.rs initiate_send, send.go). *)
THEOREM SuccessIsComplete == Spec => []SuccessMeansAllSent
<1>1. Inductive => SuccessMeansAllSent
  BY DEF Inductive, Sending, AllSent, SuccessMeansAllSent
<1> QED BY InductiveAlways, <1>1, PTL

-----------------------------------------------------------------------------
(* The disk.                                                               *)

LEMMA FileType ==
  ASSUME Types, NEW t \in Transfers
  PROVE  NameOf[t] \in Names /\ File(t) \in Seq(OnDisk) /\ Len(File(t)) \in Nat
BY TransferAssumption DEF Types, File

\* A step of one transfer writes to no other's file.
LEMMA OtherFiles ==
  ASSUME NamesApart, Types, NEW t \in Transfers, Step(t), NEW u \in Transfers \ {t}
  PROVE  File(u)' = File(u)
<1>1. NameOf[u] # NameOf[t] /\ NameOf[u] \in Names /\ DOMAIN disk = Names
  BY TransferAssumption DEF NamesApart, Types
<1>2. disk' = disk \/ \E f : disk' = [disk EXCEPT ![NameOf[t]] = f]
  BY DEF Step, InitiateSend, Recv, KillCli, SenderStep, StatSource, HashSource, SendManifest,
         SendChunk, Report, Finish, ReportFailure, ReceiverStep, ReadManifest, Allocate,
         ReadChunk, LoseFraming, StreamEnds, Flush, FlushFails, EditSource, receiverVars
<1> QED BY <1>1, <1>2 DEF File

\* The steps of the sending side and of the world.
LEMMA Untouched ==
  ASSUME Types, NEW t \in Transfers, Sending(t), Streaming(t), Step(t), ~Elsewhere(t)
  PROVE  /\ UNCHANGED <<rcv, disk>>
         /\ rcv[t].at # "none" => Taken(t)' = Taken(t)
<1>1. CASE SenderStep(t)
  BY <1>1, StreamingSender
<1>2. CASE InitiateSend(t)
  <2>1. UNCHANGED <<wire, snd[t].next>>
    BY <1>2, TypesOf DEF InitiateSend, SenderState
  <2> QED BY <1>2, <2>1 DEF InitiateSend, Taken, receiverVars
<1>3. CASE Recv(t) \/ KillCli(t) \/ EditSource(t)
  BY <1>3 DEF Recv, KillCli, EditSource, Taken, senderVars, receiverVars
<1> QED BY <1>1, <1>2, <1>3 DEF Step, Elsewhere

\* What a write that reaches the disk does.
LEMMA FlushEffect ==
  ASSUME Types, NEW t \in Transfers, Sending(t), Streaming(t), Flush(t)
  PROVE  LET w == rcv[t].pending
             file == File(t)
         IN
         /\ w = End => File(t)' = Allocated(file, rcv[t].total)
         /\ w \in Buffered =>
              /\ File(t)' \in Seq(OnDisk)
              /\ Len(File(t)') = IF Len(file) > w.index THEN Len(file) ELSE w.index + 1
              /\ File(t)'[w.index + 1] = w.data
              /\ \A k \in 1 .. Len(file) : k # w.index + 1 => File(t)'[k] = file[k]
         /\ w = End \/ w \in Buffered
         /\ w \in Buffered => w.index \in Nat
<1> DEFINE w == rcv[t].pending
           file == File(t)
<1>1. w = End \/ w \in Buffered
  BY Buffers, TypesOf DEF Flush, ReceiverState
<1>2. File(t)' = IF w.what = "chunk" THEN WriteAt(file, w.index, w.data)
                 ELSE Allocated(file, rcv[t].total)
  BY FileType DEF Flush, File, Types
<1> HIDE DEF w
<1>3. w = End => w.what # "chunk"
  BY DEF End
<1>4. w \in Buffered => w.what = "chunk" /\ w.index \in Nat /\ w.data \in OnDisk
  BY Contents DEF Buffered
<1>5. file \in Seq(OnDisk) /\ Zero \in OnDisk
  BY FileType, Contents
<1> HIDE DEF file
<1>6. ASSUME w \in Buffered
      PROVE  /\ File(t)' \in Seq(OnDisk)
             /\ Len(File(t)') = IF Len(file) > w.index THEN Len(file) ELSE w.index + 1
             /\ File(t)'[w.index + 1] = w.data
             /\ \A k \in 1 .. Len(file) : k # w.index + 1 => File(t)'[k] = file[k]
  <2>1. File(t)' = WriteAt(file, w.index, w.data)
    BY <1>2, <1>4, <1>6
  <2> DEFINE i == w.index
             c == w.data
             v == WriteAt(file, i, c)
  <2>2. i \in Nat /\ c \in OnDisk
    BY <1>4, <1>6
  <2> HIDE DEF i, c
  <2>3. /\ v \in Seq(OnDisk)
        /\ Len(v) = IF Len(file) > i THEN Len(file) ELSE i + 1
        /\ v[i + 1] = c
        /\ \A k \in 1 .. Len(file) : k # i + 1 => v[k] = file[k]
    BY <1>5, <2>2, WriteAtProperties
  <2> HIDE DEF v
  <2>4. File(t)' = v
    BY <2>1 DEF v, i, c
  <2> QED BY <2>3, <2>4 DEF i, c
<1>7. w = End => File(t)' = Allocated(file, rcv[t].total)
  BY <1>2, <1>3
<1> QED BY <1>1, <1>4, <1>6, <1>7 DEF w, file

LEMMA StoringStep ==
  ASSUME Types, NEW t \in Transfers, Sending(t), Streaming(t), Streaming(t)', Storing(t),
         Step(t)
  PROVE  Storing(t)'
<1> DEFINE r == rcv[t]
           q == rcv'[t]
<1>1. CASE ~Elsewhere(t)
  <2>1. UNCHANGED <<rcv, disk>> /\ (r.at # "none" => Taken(t)' = Taken(t))
    BY <1>1, Untouched
  <2>2. CASE r.at = "none"
    BY <2>1, <2>2, Buffers DEF Streaming, Phases, NewReceiver, Storing
  <2>3. CASE r.at # "none"
    BY <2>1, <2>3 DEF Storing, Accounted, Holds, File
  <2> QED BY <2>2, <2>3
<1>2. CASE ReadManifest(t)
  <2>1. /\ q.received = {} /\ q.pending = None
        /\ q.at = "allocate" => File(t)' = <<>>
    BY <1>2, StreamingManifest
  <2> QED BY <2>1, Buffers DEF Storing
<1>3. CASE Allocate(t)
  <2>1. q.pending = End /\ r.at = "allocate" /\ UNCHANGED disk
    BY <1>3, TypesOf DEF Allocate, ReceiverState, End
  <2>2. q.received = {}
    <3>1. q.received \subseteq 0 .. Taken(t)' - 1 /\ Taken(t)' = 0
      BY <2>1 DEF Streaming, Receiving
    <3> QED BY <3>1
  <2>3. File(t)' = <<>>
    BY <2>1 DEF Storing, File
  <2> QED BY <2>2, <2>3 DEF Storing
<1>4. CASE ReadChunk(t)
  <2> PICK n \in Int : n = Taken(t)
    BY TypesOf
  <2>1. /\ wire[t] # <<>> /\ wire' = [wire EXCEPT ![t] = Tail(@)]
        /\ UNCHANGED <<source, snd, disk>>
        /\ r.at = "reading" /\ r.pending = None /\ q.at = r.at
        /\ n \notin r.received
        /\ ~r.failed => q.received = r.received \cup {n} /\ q.pending \in Buffered
        /\ r.failed => q.received = r.received /\ q.pending = None
    BY <1>4, ReadChunkEffect
  <2>2. Taken(t)' = n + 1
    BY <2>1, FramesMoveUp
  <2>3. r.received \subseteq 0 .. n - 1
    BY DEF Streaming, Receiving
  <2> HIDE DEF r, q
  <2>4. ASSUME NEW i \in r.received
        PROVE  Accounted(t, i)'
    <3>2. i \in Int /\ i < n
      BY <2>3
    <3>3. Accounted(t, i)
      BY DEF Storing, r
    <3>4. CASE Holds(t, i)
      BY <2>1, <3>4 DEF Holds, File, Accounted
    <3>5. CASE r.failed /\ i = n - 1
      <4>1. i + 1 < Taken(t)' /\ i + 1 \notin q.received
        BY <2>1, <2>2, <3>2, <3>5
      <4> QED BY <4>1 DEF Accounted, q
    <3>6. CASE i + 1 < n /\ i + 1 \notin r.received
      <4>1. i + 1 < Taken(t)' /\ i + 1 \notin q.received
        BY <2>1, <2>2, <3>2, <3>6
      <4> QED BY <4>1 DEF Accounted, q
    <3> QED BY <2>1, <3>3, <3>4, <3>5, <3>6, Buffers DEF Accounted, r
  <2>5. ASSUME ~r.failed PROVE Accounted(t, n)'
    <3>1. n = (n + 1) - 1
      OBVIOUS
    <3> QED BY <2>1, <2>2, <2>5, <3>1 DEF Accounted, q
  <2>6. \A i \in q.received : Accounted(t, i)'
    BY <2>1, <2>4, <2>5
  <2>7. q.at # "allocate" /\ q.pending # End
    BY <2>1, Buffers
  <2> QED BY <2>6, <2>7 DEF Storing, q
<1>5. CASE LoseFraming(t) \/ StreamEnds(t)
  <2>1. q.at = "ended" /\ UNCHANGED <<rcv[t].received, rcv[t].pending, rcv[t].failed>>
    <3>1. CASE LoseFraming(t)
      BY <3>1, TypesOf DEF LoseFraming, ReceiverState
    <3>2. CASE StreamEnds(t)
      BY <3>2, TypesOf DEF StreamEnds, ReceiverState
    <3> QED BY <1>5, <3>1, <3>2
  <2>2. UNCHANGED <<disk, snd, wire>>
    BY <1>5 DEF LoseFraming, StreamEnds, senderVars
  <2> QED BY <2>1, <2>2 DEF Storing, Accounted, Holds, File, Taken
<1>6. CASE Flush(t)
  <2>1. /\ q.pending = None /\ r.pending # None
        /\ UNCHANGED <<rcv[t].received, rcv[t].failed, rcv[t].at, snd, wire>>
    BY <1>6, TypesOf DEF Flush, ReceiverState, senderVars
  <2>2. r.at # "allocate" /\ Taken(t)' = Taken(t)
    BY <2>1 DEF Streaming, Receiving, Taken
  <2>3. CASE r.pending = End
    <3>1. r.received \subseteq 0 .. Taken(t) - 1 /\ Taken(t) = 0
      BY <2>3 DEF Streaming, Receiving
    <3>2. r.received = {}
      BY <3>1
    <3> QED BY <2>1, <2>2, <3>2, Buffers DEF Storing
  <2>4. CASE r.pending \in Buffered
    <3> PICK k \in Nat : k = r.pending.index
      BY <2>4 DEF Buffered
    <3>1. /\ Len(File(t)') = IF Len(File(t)) > k THEN Len(File(t)) ELSE k + 1
          /\ File(t)'[k + 1] = r.pending.data
          /\ \A j \in 1 .. Len(File(t)) : j # k + 1 => File(t)'[j] = File(t)[j]
      BY <1>6, <2>4, FlushEffect
    <3>2. k = Taken(t) - 1 /\ r.pending.data \in Versions(t) /\ r.received \subseteq Nat
      BY <2>4, TypesOf DEF Streaming, Receiving
    <3>3. Holds(t, k)'
      BY <3>1, <3>2, FileType DEF Holds
    <3>4. ASSUME NEW i \in r.received PROVE Accounted(t, i)'
      <4>1. Accounted(t, i) /\ i \in Nat
        BY <3>2 DEF Storing
      <4>2. CASE i = k
        BY <3>3, <4>2 DEF Accounted
      <4>3. CASE i # k /\ Holds(t, i)
        <5>1. i + 1 \in 1 .. Len(File(t)) /\ i + 1 # k + 1 /\ i < Len(File(t)')
          BY <3>1, <4>1, <4>3, FileType DEF Holds
        <5> QED BY <3>1, <4>3, <5>1 DEF Accounted, Holds
      <4>4. CASE i # k /\ ~Holds(t, i)
        BY <2>1, <2>2, <3>2, <4>1, <4>4 DEF Accounted
      <4> QED BY <4>2, <4>3, <4>4
    <3> QED BY <2>1, <2>2, <3>4, Buffers DEF Storing
  <2> QED BY <1>6, <2>3, <2>4, FlushEffect
<1>7. CASE FlushFails(t)
  <2>1. /\ q.pending = None /\ r.pending # None /\ q.failed
        /\ UNCHANGED <<rcv[t].received, rcv[t].at, snd, wire, disk>>
    BY <1>7, TypesOf DEF FlushFails, ReceiverState, senderVars
  <2>2. r.at # "allocate" /\ Taken(t)' = Taken(t)
    BY <2>1 DEF Streaming, Receiving, Taken
  <2>3. ASSUME NEW i \in r.received PROVE Accounted(t, i)'
    BY <2>1, <2>2 DEF Storing, Accounted, Holds, File
  <2> QED BY <2>1, <2>2, <2>3, Buffers DEF Storing
<1> QED BY <1>1, <1>2, <1>3, <1>4, <1>5, <1>6, <1>7 DEF Elsewhere, ReceiverStep

\* All of the invariant, where names are apart.
Stored == Inductive /\ \A t \in Transfers : Storing(t)

LEMMA StoredInit == Init => Stored
<1>1. Init => \A t \in Transfers : Storing(t)
  BY TransferAssumption, Buffers DEF Init, Storing, NewReceiver
<1> QED BY <1>1, InductiveInit DEF Stored

LEMMA StoredStep ==
  ASSUME NamesApart, Stored, [Next]_vars
  PROVE  Stored'
<1>1. Inductive'
  BY InductiveStep DEF Stored
<1>2. ASSUME NEW u \in Transfers, UNCHANGED <<snd[u], wire[u], rcv[u], File(u)>>
      PROVE  Storing(u)'
  BY <1>2 DEF Stored, Storing, Accounted, Holds, Taken
<1>3. ASSUME NEW t \in Transfers, Step(t), NEW u \in Transfers
      PROVE  Storing(u)'
  <2>1. CASE u = t
    BY <1>1, <1>3, <2>1, StoringStep DEF Stored, Inductive
  <2>2. CASE u # t
    BY <1>2, <1>3, <2>2, Local, OtherFiles DEF Stored, Inductive
  <2> QED BY <2>1, <2>2
<1>4. CASE CloseConn \/ UNCHANGED vars
  <2>1. UNCHANGED <<snd, wire, rcv, disk>>
    BY <1>4 DEF CloseConn, vars, senderVars, receiverVars
  <2> QED BY <1>1, <1>2, <2>1 DEF Stored, File
<1>5. (\E t \in Transfers : Step(t)) \/ CloseConn \/ UNCHANGED vars
  BY DEF Next, Step
<1> QED BY <1>1, <1>3, <1>4, <1>5 DEF Stored

\* A verified file has every bit, and its last chunk is the last one taken.
LEMMA Verified ==
  ASSUME Types, NEW t \in Transfers, Sending(t), Streaming(t), rcv[t].verified
  PROVE  /\ rcv[t].writer /\ rcv[t].total > 0
         /\ rcv[t].total = snd[t].total /\ rcv[t].hash = snd[t].hash
         /\ rcv[t].received = 0 .. rcv[t].total - 1
         /\ Taken(t) = rcv[t].total
<1>1. /\ rcv[t].writer /\ rcv[t].total > 0
      /\ rcv[t].total = snd[t].total /\ rcv[t].hash = snd[t].hash
      /\ rcv[t].received = 0 .. rcv[t].total - 1
      /\ rcv[t].received \subseteq 0 .. Taken(t) - 1
  BY DEF Streaming, Receiving
<1>2. rcv[t].total - 1 \in rcv[t].received
  BY <1>1, TypesOf
<1>3. rcv[t].total - 1 \in 0 .. Taken(t) - 1
  BY <1>1, <1>2
<1>4. Taken(t) <= rcv[t].total
  BY <1>1, TakenSoFar
<1> QED BY <1>1, <1>3, <1>4, TypesOf

(* Whatever write fails, a file logged as verified misses its last chunk   *)
(* at most: for files of any size and any number of transfers whose names  *)
(* differ, with or without edits, disk errors and lost connections         *)
(* (DiskWriter::write_chunk and is_complete over tokio's deferred writes). *)
THEOREM VerifiedMissesAtMostOne ==
  ASSUME NamesApart
  PROVE  Spec => []VerifiedMissesOnlyTheLast
<1>1. Stored => VerifiedMissesOnlyTheLast
  <2> SUFFICES ASSUME Stored, NEW t \in Transfers, rcv[t].verified,
                      NEW i \in 0 .. rcv[t].total - 2
               PROVE  /\ i < Len(disk[NameOf[t]])
                      /\ disk[NameOf[t]][i + 1] \in {Original(t), Edited(t)}
    BY DEF VerifiedMissesOnlyTheLast
  <2>1. Types /\ Sending(t) /\ Streaming(t) /\ Storing(t)
    BY DEF Stored, Inductive
  <2>2. rcv[t].received = 0 .. rcv[t].total - 1 /\ Taken(t) = rcv[t].total /\ rcv[t].total \in Nat
    BY <2>1, Verified, TypesOf
  <2>3. i \in rcv[t].received /\ i + 1 \in rcv[t].received /\ i # Taken(t) - 1
    BY <2>2
  <2>4. Accounted(t, i)
    BY <2>1, <2>3 DEF Storing
  <2>5. Holds(t, i)
    BY <2>3, <2>4 DEF Accounted
  <2> QED BY <2>5 DEF Holds, File, Versions
<1>2. Spec => []Stored
  <2>1. Stored /\ [Next]_vars => Stored'
    BY StoredStep
  <2> QED BY StoredInit, <2>1, PTL DEF Spec
<1> QED BY <1>1, <1>2, PTL

-----------------------------------------------------------------------------
(* When nobody edits and the disk works.                                   *)

LEMMA AnnouncedStep ==
  ASSUME ~Edits, Types, NEW t \in Transfers, Announced(t), Step(t)
  PROVE  Announced(t)'
<1>1. source'[t] = source[t]
  BY DEF Step, InitiateSend, Recv, KillCli, SenderStep, StatSource, HashSource, SendManifest,
         SendChunk, Report, Finish, ReportFailure, ReceiverStep, ReadManifest, Allocate,
         ReadChunk, LoseFraming, StreamEnds, Flush, FlushFails, EditSource, senderVars
<1>2. Len(source[t]) = Size[t]
  <2>1. Size[t] \in Nat
    BY TransferAssumption
  <2> QED BY <2>1 DEF Announced
<1>3. CASE StatSource(t)
  <2>1. snd'[t].at = "hash" /\ snd'[t].total = Size[t]
    BY <1>2, <1>3, TypesOf DEF StatSource, SenderState
  <2> QED BY <1>1, <2>1 DEF Announced
<1>4. CASE HashSource(t)
  <2>1. snd'[t].at = "open" /\ snd'[t].hash = source[t] /\ snd'[t].total = snd[t].total
    BY <1>4, TypesOf DEF HashSource, SenderState
  <2>2. snd[t].at = "hash"
    BY <1>4 DEF HashSource
  <2> QED BY <1>1, <2>1, <2>2 DEF Announced
<1>5. ASSUME NEW a, snd' = [snd EXCEPT ![t].at = a],
             a \in {"idle", "stat"} \/ snd[t].at \notin {"idle", "stat", "hash"}
      PROVE  Announced(t)'
  <2>1. snd'[t].at = a /\ UNCHANGED <<snd[t].total, snd[t].hash>>
    BY <1>5, TypesOf DEF SenderState
  <2> QED BY <1>1, <1>5, <2>1 DEF Announced
<1>6. CASE InitiateSend(t)
  BY <1>5, <1>6 DEF InitiateSend
<1>7. CASE SendManifest(t)
  <2>1. \E a : snd' = [snd EXCEPT ![t].at = a] /\ snd[t].at = "open"
    BY <1>7 DEF SendManifest, FailAt
  <2> QED BY <1>5, <2>1
<1>8. CASE SendChunk(t)
  <2>1. CASE FailAt(t)
    BY <1>5, <1>8, <2>1 DEF SendChunk, FailAt
  <2>2. ASSUME NEW a, snd' = [snd EXCEPT ![t].at = a, ![t].next = snd[t].next + 1]
        PROVE  Announced(t)'
    <3>1. UNCHANGED <<snd[t].total, snd[t].hash>>
      BY <2>2, TypesOf DEF SenderState
    <3>2. snd[t].at = "chunk"
      BY <1>8 DEF SendChunk
    <3> QED BY <1>1, <3>1, <3>2 DEF Announced
  <2> QED BY <1>8, <2>1, <2>2 DEF SendChunk
<1>9. CASE Report(t) \/ Finish(t) \/ ReportFailure(t)
  <2>1. \E a : snd' = [snd EXCEPT ![t].at = a] /\ snd[t].at \in {"report", "finish", "fail"}
    BY <1>9 DEF Report, Finish, ReportFailure
  <2> QED BY <1>5, <2>1
<1>10. CASE Recv(t) \/ KillCli(t) \/ Elsewhere(t) \/ EditSource(t)
  <2>1. snd' = snd
    BY <1>10, ElsewhereKeeps DEF Recv, KillCli, EditSource, senderVars
  <2> QED BY <1>1, <2>1 DEF Announced
<1> QED BY <1>3, <1>4, <1>6, <1>7, <1>8, <1>9, <1>10 DEF Step, SenderStep, Elsewhere

LEMMA AllottedStep ==
  ASSUME ~DiskErrors, Types, NEW t \in Transfers, Sending(t), Streaming(t), Storing(t),
         Allotted(t), Step(t)
  PROVE  Allotted(t)'
<1> DEFINE r == rcv[t]
           q == rcv'[t]
<1>1. CASE ~Elsewhere(t)
  BY <1>1, Untouched DEF Allotted, File
<1>2. CASE ReadManifest(t)
  BY <1>2, StreamingManifest DEF Allotted
<1>3. CASE Allocate(t)
  <2>1. q.pending = End
    BY <1>3, TypesOf DEF Allocate, ReceiverState, End
  <2> QED BY <2>1 DEF Allotted
<1>4. CASE ReadChunk(t)
  <2>1. /\ r.at = "reading" /\ r.writer /\ r.pending = None /\ UNCHANGED disk
        /\ q.total = r.total
    BY <1>4, ReadChunkEffect
  <2> QED BY <2>1, Buffers DEF Allotted, File
<1>5. CASE LoseFraming(t) \/ StreamEnds(t)
  <2>1. r.at = "reading" /\ UNCHANGED <<disk, rcv[t].writer, rcv[t].total, rcv[t].pending>>
    <3>1. CASE LoseFraming(t)
      BY <3>1, TypesOf DEF LoseFraming, ReceiverState
    <3>2. CASE StreamEnds(t)
      BY <3>2, TypesOf DEF StreamEnds, ReceiverState
    <3> QED BY <1>5, <3>1, <3>2
  <2> QED BY <2>1 DEF Allotted, File
<1>6. CASE Flush(t)
  <2>1. /\ r.pending # None
        /\ UNCHANGED <<rcv[t].writer, rcv[t].total>>
    BY <1>6, TypesOf DEF Flush, ReceiverState
  <2>2. /\ r.at # "allocate" /\ r.writer /\ r.total = snd[t].total /\ r.total \in Nat
        /\ r.pending = End => r.total > 0
    BY <2>1, TypesOf DEF Streaming, Receiving
  <2>3. CASE r.pending = End
    <3> DEFINE n == r.total
               file == File(t)
               z == IF Len(file) < n \/ file[n] = Zero THEN Zero ELSE Torn
    <3>1. Len(file) = 0 /\ File(t)' = WriteAt(file, n - 1, z)
      <4>1. file = <<>> /\ File(t)' = Allocated(file, n)
        BY <1>6, <2>3, FlushEffect DEF Storing
      <4> QED BY <4>1 DEF Allocated
    <3>2. z \in OnDisk /\ n - 1 \in Nat /\ (n - 1) + 1 = n /\ file \in Seq(OnDisk)
      BY <2>2, <2>3, Contents, FileType
    <3> HIDE DEF z, file
    <3>3. Len(File(t)') = IF Len(file) > n - 1 THEN Len(file) ELSE (n - 1) + 1
      <4> PICK k \in Nat : k = n - 1
        BY <3>2
      <4>1. file \in Seq(OnDisk) /\ z \in OnDisk
        BY <3>2
      <4>2. Len(WriteAt(file, k, z)) = IF Len(file) > k THEN Len(file) ELSE k + 1
        BY <4>1, WriteAtProperties
      <4> QED BY <3>1, <4>2
    <3>4. Len(File(t)') = n
      BY <3>1, <3>2, <3>3
    <3> QED BY <2>1, <3>4 DEF Allotted
  <2>4. CASE r.pending \in Buffered
    <3> PICK k \in Nat : k = r.pending.index
      BY <2>4 DEF Buffered
    <3>1. Len(File(t)') = IF Len(File(t)) > k THEN Len(File(t)) ELSE k + 1
      BY <1>6, <2>4, FlushEffect
    <3>2. k = Taken(t) - 1 /\ Taken(t) <= r.total
      BY <2>2, <2>4, TakenSoFar DEF Streaming, Receiving
    <3>3. k < r.total
      BY <2>2, <3>2, TypesOf
    <3>4. Len(File(t)) = r.total
      BY <2>2, <2>4, <3>3, Buffers DEF Allotted
    <3>5. Len(File(t)') = r.total
      BY <2>2, <3>1, <3>3, <3>4
    <3> QED BY <2>1, <3>5 DEF Allotted
  <2> QED BY <1>6, <2>3, <2>4, FlushEffect
<1>7. CASE FlushFails(t)
  BY <1>7 DEF FlushFails
<1> QED BY <1>1, <1>2, <1>3, <1>4, <1>5, <1>6, <1>7 DEF Elsewhere, ReceiverStep

Undisturbed == Stored /\ \A t \in Transfers : Announced(t) /\ Allotted(t)

LEMMA UndisturbedInit == Init => Undisturbed
<1>1. Init => \A t \in Transfers : Announced(t) /\ Allotted(t)
  BY DEF Init, Announced, Allotted, NewSender, NewReceiver
<1> QED BY <1>1, StoredInit DEF Undisturbed

LEMMA UndisturbedStep ==
  ASSUME NamesApart, ~Edits, ~DiskErrors, Undisturbed, [Next]_vars
  PROVE  Undisturbed'
<1>1. Stored'
  BY StoredStep DEF Undisturbed
<1>2. ASSUME NEW u \in Transfers, UNCHANGED <<source[u], snd[u], rcv[u], File(u)>>
      PROVE  Announced(u)' /\ Allotted(u)'
  BY <1>2 DEF Undisturbed, Announced, Allotted
<1>3. ASSUME NEW t \in Transfers, Step(t), NEW u \in Transfers
      PROVE  Announced(u)' /\ Allotted(u)'
  <2>1. CASE u = t
    BY <1>3, <2>1, AnnouncedStep, AllottedStep DEF Undisturbed, Stored, Inductive
  <2>2. CASE u # t
    BY <1>2, <1>3, <2>2, Local, OtherFiles DEF Undisturbed, Stored, Inductive
  <2> QED BY <2>1, <2>2
<1>4. CASE CloseConn \/ UNCHANGED vars
  <2>1. UNCHANGED <<source, snd, rcv, disk>>
    BY <1>4 DEF CloseConn, vars, senderVars, receiverVars
  <2> QED BY <1>1, <1>2, <2>1 DEF Undisturbed, File
<1>5. (\E t \in Transfers : Step(t)) \/ CloseConn \/ UNCHANGED vars
  BY DEF Next, Step
<1> QED BY <1>1, <1>3, <1>4, <1>5 DEF Undisturbed

(* A file logged as verified is, once its last write is done, the one the  *)
(* manifest's hash was computed from: for any number of transfers with     *)
(* names of their own and files of any size, provided that nobody edits a  *)
(* source and no write fails, and although the hash is never compared      *)
(* (stream.rs:176, DiskWriter).                                            *)
THEOREM VerifiedIsIntact ==
  ASSUME NamesApart, ~Edits, ~DiskErrors
  PROVE  Spec => []VerifiedMeansIntact
<1>1. Undisturbed => VerifiedMeansIntact
  <2> SUFFICES ASSUME Undisturbed, NEW t \in Transfers,
                      rcv[t].verified, rcv[t].pending = None
               PROVE  File(t) = rcv[t].hash
    BY DEF VerifiedMeansIntact, File
  <2> PICK n \in Nat : n = rcv[t].total
    BY TypesOf DEF Undisturbed, Stored, Inductive
  <2>1. Types /\ Sending(t) /\ Streaming(t) /\ Storing(t) /\ Announced(t) /\ Allotted(t)
    BY DEF Undisturbed, Stored, Inductive
  <2>2. /\ rcv[t].writer /\ n > 0 /\ n = snd[t].total /\ rcv[t].hash = snd[t].hash
        /\ rcv[t].received = 0 .. n - 1 /\ Taken(t) = n
    BY <2>1, Verified
  <2>3. rcv[t].at # "none" /\ rcv[t].at # "allocate" /\ ~rcv[t].failed
    BY <2>1, <2>2 DEF Streaming, Phases, Receiving, NewReceiver
  <2>4. snd[t].at \notin {"idle", "stat", "hash"}
    BY <2>1, <2>3 DEF Streaming, Phases, Early
  <2>5. rcv[t].hash = [i \in 1 .. n |-> Original(t)]
    BY <2>1, <2>2, <2>4 DEF Announced
  <2>6. Len(File(t)) = n
    BY <2>1, <2>2, <2>3, Buffers DEF Allotted
  <2>7. ASSUME NEW k \in 1 .. n PROVE File(t)[k] = Original(t)
    <3> PICK i \in 0 .. n - 1 : k = i + 1
      <4>1. k - 1 \in 0 .. n - 1 /\ k = (k - 1) + 1
        OBVIOUS
      <4> QED BY <4>1
    <3>1. Accounted(t, i)
      BY <2>1, <2>2 DEF Storing
    <3>2. ~(i + 1 < Taken(t) /\ i + 1 \notin rcv[t].received)
      BY <2>2
    <3>3. Holds(t, i)
      BY <2>3, <3>1, <3>2, Buffers DEF Accounted
    <3> QED BY <3>3 DEF Holds, Versions
  <2>8. File(t) \in Seq(OnDisk)
    BY <2>1, FileType
  <2>9. File(t) = [i \in 1 .. n |-> File(t)[i]]
    BY <2>6, <2>8
  <2> QED BY <2>5, <2>7, <2>9
<1>2. Spec => []Undisturbed
  <2>1. Undisturbed /\ [Next]_vars => Undisturbed'
    BY UndisturbedStep
  <2> QED BY UndisturbedInit, <2>1, PTL DEF Spec
<1> QED BY <1>1, <1>2, PTL
=============================================================================
