---------------------------- MODULE ReplayWindow ----------------------------
(***************************************************************************)
(* What a receiving session promises about sequence numbers, without       *)
(* saying how: a number is accepted when it was never accepted before and  *)
(* fewer than Window numbers separate it from every accepted one.          *)
(* It remembers everything, where the code remembers one 128-bit word.     *)
(***************************************************************************)
EXTENDS Integers

CONSTANTS Window, SeqNums

VARIABLES accepted,  \* every sequence number accepted so far
          verdict    \* the last answer: accepted or refused

Fresh(seq) ==
  /\ seq \notin accepted
  /\ \A a \in accepted : a - seq < Window

Init == accepted = {} /\ verdict = TRUE

Offer(seq) ==
  /\ verdict' = Fresh(seq)
  /\ accepted' = IF Fresh(seq) THEN accepted \cup {seq} ELSE accepted

Next == \E seq \in SeqNums : Offer(seq)

Spec == Init /\ [][Next]_<<accepted, verdict>>
=============================================================================
