---------------------------- MODULE ReplayFilter ----------------------------
(***************************************************************************)
(* The anti-replay filter of one receiving session                         *)
(* (daemon/src/crypto/replay.rs), as operators on a filter value.          *)
(*                                                                         *)
(* The u128 bitmap is the set of its one bits: bit d stands for sequence   *)
(* number highest_seq - d.  Shifting left drops the bits that leave the    *)
(* word.  Window is the width of the word, 128 in the code.                *)
(***************************************************************************)
EXTENDS Integers

CONSTANT Window

ASSUME WindowAssumption == Window \in Nat \ {0}

Bits == 0 .. Window - 1

Filter == [highest_seq : Nat, bitmap : SUBSET Bits, started : BOOLEAN]

NewFilter == [highest_seq |-> 0, bitmap |-> {}, started |-> FALSE]

\* bitmap << diff
ShiftLeft(bitmap, diff) == {b \in Bits : b - diff \in bitmap}

\* The bit not tested, used to test the properties.
AcceptsAnyInWindow(f, seq) == ~f.started \/ f.highest_seq - seq < Window

\* What check_and_mark returns.
Accepts(f, seq) ==
  \/ ~f.started
  \/ seq > f.highest_seq
  \/ /\ f.highest_seq - seq < Window
     /\ f.highest_seq - seq \notin f.bitmap

\* A slip in the marking: the bitmap is not shifted.
MarkNoShift(f, seq) ==
  [f EXCEPT !.started = TRUE,
            !.highest_seq = IF seq > @ THEN seq ELSE @,
            !.bitmap = @ \cup {IF seq > f.highest_seq THEN 0 ELSE f.highest_seq - seq}]

\* The filter after check_and_mark has accepted seq.
Mark(f, seq) ==
  LET diff == seq - f.highest_seq
  IN  IF ~f.started THEN [highest_seq |-> seq, bitmap |-> {0}, started |-> TRUE]
      ELSE IF seq <= f.highest_seq
           THEN [f EXCEPT !.bitmap = @ \cup {-diff}]
           ELSE [f EXCEPT !.highest_seq = seq,
                          !.bitmap = IF diff >= Window THEN {0}
                                     ELSE ShiftLeft(@, diff) \cup {0}]

\* check_and_mark as a whole: a refused sequence number changes nothing.
CheckAndMark(f, seq) == IF Accepts(f, seq) THEN Mark(f, seq) ELSE f

-----------------------------------------------------------------------------
(* What the filter's three fields have to say about the set of all the     *)
(* sequence numbers it has accepted so far.                                *)

Tracks(f, accepted) ==
  /\ f.started <=> accepted # {}
  /\ f.started => /\ f.highest_seq \in accepted
                  /\ \A s \in accepted : s <= f.highest_seq
  /\ f.bitmap = {d \in Bits : f.highest_seq - d \in accepted}
=============================================================================
