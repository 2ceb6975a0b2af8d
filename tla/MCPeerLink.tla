----------------------------- MODULE MCPeerLink -----------------------------
(***************************************************************************)
(* Three daemons.  a and b, on two machines and both on the default port,  *)
(* are started to dial each other.  d, on a's machine and on another port, *)
(* is started to dial a, which does not expect it.  The LAN address leads  *)
(* a and b to themselves and d to a; a public address may lead to a or b   *)
(* alike.  The keys of a and d give one virtual address.                   *)
(***************************************************************************)
EXTENDS PeerLink

CONSTANTS a, b, d

MCNodes == {a, b, d}
MCPeerPub == [n \in MCNodes |-> IF n = a THEN b ELSE a]
MCHostOf == [n \in MCNodes |-> IF n = b THEN "second" ELSE "first"]
MCPortOf == [n \in MCNodes |-> IF n = d THEN 51821 ELSE 51820]
MCKeyOf == [n \in MCNodes |-> CASE n = a -> <<0, 7>> [] n = b -> <<1, 255>> [] n = d -> <<1, 7>>]
=============================================================================
