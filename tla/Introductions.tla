---------------------------- MODULE Introductions ---------------------------
(***************************************************************************)
(* What the rendezvous server promises, whatever it keeps in maps and      *)
(* channels (proto/signaling.proto: "dial a peer", "a server-push stream   *)
(* for peer events").  A daemon may ask for one meeting.  The server picks *)
(* a life of the daemon's own node and a life of the node it wants to      *)
(* meet, tells the first of the second and then the second of the first,   *)
(* once each; and every daemon hears what it was told in order, without    *)
(* gaps, although it may stop hearing.                                     *)
(***************************************************************************)
EXTENDS Naturals, Sequences

CONSTANTS
  Daemons,   \* process lives
  NodeOf,    \* the node each daemon is a life of
  PeerPub,   \* the node each daemon wants to meet, or None
  None

VARIABLES
  meeting,   \* how far each daemon's meeting has come, and between whom
  told,      \* what each daemon has been told
  heard      \* what each daemon has heard

vars == <<meeting, told, heard>>

NoMeeting == [at |-> "none", caller |-> None, target |-> None]

Init ==
  /\ meeting = [d \in Daemons |-> NoMeeting]
  /\ told = [d \in Daemons |-> <<>>]
  /\ heard = [d \in Daemons |-> <<>>]

Choose(d, caller, target) ==
  /\ meeting[d] = NoMeeting
  /\ NodeOf[caller] = NodeOf[d]
  /\ NodeOf[target] = PeerPub[d]
  /\ meeting' = [meeting EXCEPT ![d] = [at |-> "chosen", caller |-> caller, target |-> target]]
  /\ UNCHANGED <<told, heard>>

Tell(d, from, to, s, other) ==
  /\ meeting[d].at = from
  /\ meeting' = [meeting EXCEPT ![d].at = to]
  /\ told' = [told EXCEPT ![s] = Append(@, [about |-> other, by |-> d])]
  /\ UNCHANGED heard

TellCaller(d) == Tell(d, "chosen", "halfway", meeting[d].caller, meeting[d].target)
TellTarget(d) == Tell(d, "halfway", "made", meeting[d].target, meeting[d].caller)

Hear(d) ==
  /\ Len(heard[d]) < Len(told[d])
  /\ heard' = [heard EXCEPT ![d] = Append(@, told[d][Len(@) + 1])]
  /\ UNCHANGED <<meeting, told>>

Next ==
  \E d \in Daemons :
    \/ \E caller, target \in Daemons : Choose(d, caller, target)
    \/ TellCaller(d) \/ TellTarget(d) \/ Hear(d)

Spec == Init /\ [][Next]_vars
=============================================================================
