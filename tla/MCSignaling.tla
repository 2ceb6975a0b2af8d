----------------------------- MODULE MCSignaling ----------------------------
(***************************************************************************)
(* Two small worlds for the rendezvous server.                             *)
(*   Restart: daemons a1 and a2 are two lives of node a, and b1, a life of *)
(*   node b, dials a.                                                      *)
(*   Mutual: daemons a1 and b1 of two nodes dial each other.               *)
(***************************************************************************)
EXTENDS Signaling

CONSTANTS a, b, a1, a2, b1

MCNodes == {a, b}

Restart == {a1, a2, b1}
RestartNodeOf == [d \in Restart |-> IF d = b1 THEN b ELSE a]
RestartPeerPub == [d \in Restart |-> IF d = b1 THEN a ELSE None]

Mutual == {a1, b1}
MutualNodeOf == [d \in Mutual |-> IF d = b1 THEN b ELSE a]
MutualPeerPub == [d \in Mutual |-> IF d = b1 THEN a ELSE b]
=============================================================================
