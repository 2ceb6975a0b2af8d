---------------------------- MODULE ReplayProofs ----------------------------
(***************************************************************************)
(* The anti-replay filter is correct for every window width and every set  *)
(* of sequence numbers.  The two lemmas are about the pure operators, so   *)
(* they serve every module that owns filters.                              *)
(***************************************************************************)
EXTENDS ReplaySession, TLAPS

(* check_and_mark answers yes to exactly the numbers that are new and      *)
(* within Window of everything accepted, as long as the filter tracks the  *)
(* accepted numbers.                                                       *)
LEMMA AcceptsIffFresh ==
  ASSUME NEW f \in Filter, NEW acc \in SUBSET Nat, NEW seq \in Nat,
         Tracks(f, acc)
  PROVE  Accepts(f, seq) <=> /\ seq \notin acc
                             /\ \A a \in acc : a - seq < Window
<1> USE WindowAssumption DEF Filter, Bits
<1>1. CASE ~f.started
  BY <1>1 DEF Accepts, Tracks
<1>2. CASE f.started /\ seq > f.highest_seq
  <2>1. \A a \in acc : a \in Nat /\ a <= f.highest_seq
    BY <1>2 DEF Tracks
  <2>2. f.highest_seq \in Nat
    OBVIOUS
  <2>3. seq \notin acc
    BY <1>2, <2>1, <2>2
  <2>4. \A a \in acc : a - seq < Window
    BY <1>2, <2>1, <2>2
  <2> QED BY <1>2, <2>3, <2>4 DEF Accepts
<1>3. CASE f.started /\ ~(seq > f.highest_seq)
  <2>1. f.highest_seq \in Nat
    OBVIOUS
  <2>2. DEFINE d == f.highest_seq - seq
  <2>3. d \in Nat /\ f.highest_seq - d = seq
    BY <1>3, <2>1
  <2>4. f.highest_seq \in acc /\ \A a \in acc : a \in Nat /\ a <= f.highest_seq
    BY <1>3 DEF Tracks
  <2>5. (\A a \in acc : a - seq < Window) <=> d < Window
    BY <2>1, <2>4
  <2>6. d < Window => (d \in f.bitmap <=> seq \in acc)
    BY <2>3 DEF Tracks
  <2>7. Accepts(f, seq) <=> d < Window /\ d \notin f.bitmap
    BY <1>3, <2>1 DEF Accepts
  <2> QED BY <2>5, <2>6, <2>7
<1> QED BY <1>1, <1>2, <1>3

(* Marking an accepted number, whether it moves the window, wipes it or    *)
(* fills a gap, leaves a filter that tracks the enlarged set.              *)
LEMMA MarkTracks ==
  ASSUME NEW f \in Filter, NEW acc \in SUBSET Nat, NEW seq \in Nat,
         Tracks(f, acc), Accepts(f, seq)
  PROVE  /\ Mark(f, seq) \in Filter
         /\ Tracks(Mark(f, seq), acc \cup {seq})
<1> USE WindowAssumption DEF Filter, Bits
<1>0. f.highest_seq \in Nat /\ f.bitmap \in SUBSET Bits /\ f.started \in BOOLEAN
  OBVIOUS
<1>1. CASE ~f.started
  <2>1. acc = {}
    BY <1>1 DEF Tracks
  <2>2. Mark(f, seq) = [highest_seq |-> seq, bitmap |-> {0}, started |-> TRUE]
    BY <1>1 DEF Mark
  <2>3. {d \in Bits : seq - d \in {seq}} = {0}
    OBVIOUS
  <2> QED BY <2>1, <2>2, <2>3 DEF Tracks
<1>2. CASE f.started /\ seq <= f.highest_seq
  <2> DEFINE d0 == f.highest_seq - seq
  <2>1. d0 \in Bits /\ d0 = -(seq - f.highest_seq)
    BY <1>0, <1>2 DEF Accepts
  <2>2. Mark(f, seq) = [f EXCEPT !.bitmap = @ \cup {d0}]
    BY <1>2, <2>1 DEF Mark
  <2>3. \A d \in Bits : f.highest_seq - d = seq <=> d = d0
    BY <1>0, <1>2
  <2>4. f.bitmap \cup {d0} = {d \in Bits : f.highest_seq - d \in acc \cup {seq}}
    BY <2>1, <2>3 DEF Tracks
  <2>5. /\ Mark(f, seq).started = f.started
        /\ Mark(f, seq).highest_seq = f.highest_seq
        /\ Mark(f, seq).bitmap = f.bitmap \cup {d0}
    BY <2>2
  <2>6. Mark(f, seq) \in Filter
    BY <2>1, <2>2
  <2>7. /\ f.highest_seq \in acc \cup {seq}
        /\ \A s \in acc \cup {seq} : s <= f.highest_seq
    BY <1>2 DEF Tracks
  <2> QED BY <1>2, <2>4, <2>5, <2>6, <2>7 DEF Tracks
<1>3. CASE f.started /\ ~(seq <= f.highest_seq)
  <2> DEFINE diff == seq - f.highest_seq
             bm == IF diff >= Window THEN {0} ELSE ShiftLeft(f.bitmap, diff) \cup {0}
  <2>1. diff \in Nat \ {0} /\ seq - diff = f.highest_seq
    BY <1>0, <1>3
  <2>2. Mark(f, seq) = [f EXCEPT !.highest_seq = seq, !.bitmap = bm]
    BY <1>3 DEF Mark
  <2>3. \A a \in acc : a \in Nat /\ a <= f.highest_seq
    BY <1>3 DEF Tracks
  <2>4. bm = {d \in Bits : seq - d \in acc \cup {seq}}
    <3>1. ASSUME NEW d \in Bits
          PROVE  d \in bm <=> seq - d \in acc \cup {seq}
      <4>1. CASE d = 0
        BY <4>1 DEF ShiftLeft
      <4>2. CASE d # 0 /\ diff >= Window
        BY <2>1, <2>3, <4>2, <1>0
      <4>3. CASE d # 0 /\ ~(diff >= Window)
        <5>1. d \in bm <=> d - diff \in f.bitmap
          BY <4>3 DEF ShiftLeft
        <5>2. seq - d \in acc \cup {seq} <=> f.highest_seq - (d - diff) \in acc
          BY <4>3, <2>1, <1>0
        <5>3. CASE d - diff \in Bits
          BY <5>1, <5>2, <5>3 DEF Tracks
        <5>4. CASE d - diff \notin Bits
          <6>1. d - diff < 0
            BY <5>4, <2>1
          <6>2. f.highest_seq - (d - diff) > f.highest_seq
            BY <6>1, <2>1, <1>0
          <6> QED BY <5>1, <5>2, <5>4, <6>2, <2>3, <1>0
        <5> QED BY <5>3, <5>4
      <4> QED BY <4>1, <4>2, <4>3
    <3>2. bm \subseteq Bits
      BY DEF ShiftLeft
    <3> QED BY <3>1, <3>2
  <2>5. Mark(f, seq) \in Filter
    BY <2>2, <2>4
  <2>6. /\ Mark(f, seq).started = f.started
        /\ Mark(f, seq).highest_seq = seq
        /\ Mark(f, seq).bitmap = bm
    BY <2>2
  <2>7. /\ seq \in acc \cup {seq}
        /\ \A s \in acc \cup {seq} : s <= seq
    BY <2>1, <2>3, <1>0
  <2> HIDE DEF diff, bm
  <2>8. Tracks(Mark(f, seq), acc \cup {seq})
    BY <1>3, <2>4, <2>6, <2>7 DEF Tracks
  <2> QED BY <2>5, <2>8
<1> QED BY <1>0, <1>1, <1>2, <1>3

-----------------------------------------------------------------------------

(* The state of the filter, its history and the relation between them are  *)
(* kept by every step.                                                     *)
ReplayInv == TypeOK /\ FilterTracksHistory

LEMMA ReplayInvInit == Init => ReplayInv
  BY WindowAssumption DEF Init, ReplayInv, TypeOK, FilterTracksHistory, Tracks,
     NewFilter, Filter, Bits

LEMMA ReplayInvStep == ReplayInv /\ [Next]_vars => ReplayInv'
<1> SUFFICES ASSUME ReplayInv, [Next]_vars PROVE ReplayInv'
  OBVIOUS
<1> USE SeqNumsAssumption DEF ReplayInv, FilterTracksHistory
<1>1. ASSUME NEW seq \in SeqNums, Offer(seq) PROVE ReplayInv'
  <2>1. seq \in Nat /\ accepted \in SUBSET Nat /\ filter \in Filter
    BY DEF TypeOK
  <2>2. verdict' \in BOOLEAN
    BY <1>1 DEF Offer, Accepts
  <2>3. CASE Accepts(filter, seq)
    <3>1. filter' = Mark(filter, seq) /\ accepted' = accepted \cup {seq}
      BY <1>1, <2>3 DEF Offer, CheckAndMark
    <3>2. filter' \in Filter /\ Tracks(filter', accepted')
      BY <2>1, <2>3, <3>1, MarkTracks
    <3> QED BY <2>2, <3>1, <3>2 DEF TypeOK
  <2>4. CASE ~Accepts(filter, seq)
    <3>1. filter' = filter /\ accepted' = accepted
      BY <1>1, <2>4 DEF Offer, CheckAndMark
    <3> QED BY <2>2, <3>1 DEF TypeOK
  <2> QED BY <2>3, <2>4
<1>2. CASE UNCHANGED vars
  BY <1>2 DEF vars, TypeOK
<1> QED BY <1>1, <1>2 DEF Next

(* The filter's fields keep their types and the bitmap stays the exact     *)
(* image of what was accepted in the last Window numbers (replay.rs).      *)
THEOREM FilterCorrect == Spec => [](TypeOK /\ FilterTracksHistory)
<1>1. ReplayInv => TypeOK /\ FilterTracksHistory
  BY DEF ReplayInv
<1> QED BY <1>1, ReplayInvInit, ReplayInvStep, PTL DEF Spec

(* check_and_mark implements the abstract window for every width: no       *)
(* sequence number is ever accepted twice, and none is refused unless it   *)
(* was accepted before or is at least Window behind.                       *)
THEOREM FilterImplementsWindow == Spec => KeepsPromise
<1>1. Init => Promise!Init
  BY DEF Init, Promise!Init
<1>2. ReplayInv /\ [Next]_vars => [Promise!Next]_<<accepted, verdict>>
  <2> SUFFICES ASSUME ReplayInv, [Next]_vars
               PROVE  [Promise!Next]_<<accepted, verdict>>
    OBVIOUS
  <2>1. ASSUME NEW seq \in SeqNums, Offer(seq) PROVE Promise!Offer(seq)
    <3>1. seq \in Nat /\ accepted \in SUBSET Nat /\ filter \in Filter
      BY SeqNumsAssumption DEF ReplayInv, TypeOK
    <3>2. Accepts(filter, seq) <=> Promise!Fresh(seq)
      BY <3>1, AcceptsIffFresh DEF ReplayInv, FilterTracksHistory, Promise!Fresh
    <3>3. Accepts(filter, seq) \in BOOLEAN /\ Promise!Fresh(seq) \in BOOLEAN
      BY DEF Accepts, Promise!Fresh
    <3>4. Accepts(filter, seq) = Promise!Fresh(seq)
      BY <3>2, <3>3
    <3> QED BY <2>1, <3>4 DEF Offer, Promise!Offer
  <2>2. CASE UNCHANGED vars
    BY <2>2 DEF vars
  <2> QED BY <2>1, <2>2 DEF Next, Promise!Next
<1> QED BY <1>1, <1>2, ReplayInvInit, ReplayInvStep, PTL
    DEF Spec, Promise!Spec, KeepsPromise
=============================================================================
