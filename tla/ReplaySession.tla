---------------------------- MODULE ReplaySession ---------------------------
(***************************************************************************)
(* A receiving session's filter offered sequence numbers in any order, any *)
(* number of times, as the network may present them.                       *)
(***************************************************************************)
EXTENDS ReplayFilter

CONSTANT SeqNums  \* u32 sequence numbers read from frame headers

ASSUME SeqNumsAssumption == SeqNums \subseteq Nat

VARIABLES filter,    \* SessionRx.replay_filter
          verdict,   \* the last value check_and_mark returned
          accepted   \* history: every sequence number it accepted

vars == <<filter, verdict, accepted>>

TypeOK ==
  /\ filter \in Filter
  /\ verdict \in BOOLEAN
  /\ accepted \in SUBSET SeqNums

Init ==
  /\ filter = NewFilter
  /\ verdict = TRUE
  /\ accepted = {}

\* One call of check_and_mark.
Offer(seq) ==
  /\ verdict' = Accepts(filter, seq)
  /\ filter' = CheckAndMark(filter, seq)
  /\ accepted' = IF Accepts(filter, seq) THEN accepted \cup {seq} ELSE accepted

Next == \E seq \in SeqNums : Offer(seq)

Spec == Init /\ [][Next]_vars

-----------------------------------------------------------------------------
(* The window is the history: at any moment bit d of the bitmap is set     *)
(* exactly when highest_seq - d has been accepted, and highest_seq is the  *)
(* greatest number accepted (replay.rs check_and_mark keeps this through   *)
(* every shift, wipe and out-of-order mark).                               *)
FilterTracksHistory == Tracks(filter, accepted)

(* The filter keeps the promise of ReplayWindow: it accepts exactly the    *)
(* fresh numbers within the window, although it has forgotten everything   *)
(* older than one word.                                                    *)
Promise == INSTANCE ReplayWindow WITH accepted <- accepted, verdict <- verdict
KeepsPromise == Promise!Spec
=============================================================================
