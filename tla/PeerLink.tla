------------------------------ MODULE PeerLink ------------------------------
(***************************************************************************)
(* How daemons link up (daemon/src/main.rs, transport/handshake.rs).  The  *)
(* signaling stream puts a PeerFound event into each daemon's channel.     *)
(* One task, the rendezvous listener, takes the events in turn: it dials   *)
(* the peer over QUIC, by its LAN address and else by its public one, runs *)
(* the Noise_IK handshake and enters the connection into the registry.     *)
(* Every inbound connection gets a task of its own that answers the        *)
(* handshake, compares the key it has learnt with PEER_PUB, and enters the *)
(* connection into its own registry or closes it.                          *)
(*                                                                         *)
(* QUIC accepts any certificate, so a dial links with whoever listens at   *)
(* the address; only the handshake tells whether it is the peer.           *)
(***************************************************************************)
EXTENDS Naturals, Sequences, FiniteSets, VirtualIp

CONSTANTS
  Nodes,     \* daemons, named by their public keys
  PeerPub,   \* the node each is started to dial and to accept, or None
  HostOf,    \* the machine each runs on
  PortOf,    \* the UDP port each listens on
  KeyOf,     \* the first bytes of each node's public key
  Found,     \* bound: how many events one node is sent
  FoundAll,  \* bound: how many events are sent in all
  EventCap,  \* capacity of the event channel, 16 in the code
  None       \* no node, no connection

VipOf == [n \in Nodes |-> DeriveVirtualIp(KeyOf[n])]
Vips == {VipOf[n] : n \in Nodes}

\* The connections: the k-th event of node n may cause the dial <<n, k>>.
Conn == Nodes \X (1 .. Found)

ASSUME PeerLinkAssumption ==
  /\ PeerPub \in [Nodes -> Nodes \cup {None}]
  /\ Found \in Nat
  /\ FoundAll \in Nat
  /\ EventCap \in Nat \ {0}
  /\ None \notin Nodes
  /\ None \notin Conn
  /\ \A m, n \in Nodes : HostOf[m] = HostOf[n] /\ PortOf[m] = PortOf[n] => m = n

VARIABLES
  found,     \* how many events each node has been sent
  events,    \* the peers named by the events in each node's channel
  dial,      \* where each rendezvous listener is
  conn,      \* each connection and the handshake message it carries
  accept,    \* where the task of each inbound connection is
  registry   \* each node's PeerRegistry

vars == <<found, events, dial, conn, accept, registry>>

\* end: who has answered.  at: whether the connection works.  msg: the last
\* handshake message sent, "read" when the dialler has read the reply.
Connection == [end : Nodes \cup {None}, at : {"unused", "open", "closed"},
               msg : {"none", "init", "reply", "read"}]

TypeOK ==
  /\ found \in [Nodes -> 0 .. Found]
  /\ events \in [Nodes -> Seq(Nodes)]
  /\ \A n \in Nodes : Len(events[n]) <= EventCap
  /\ dial \in [Nodes -> {"idle", "lan", "public", "init", "reply"}]
  /\ conn \in [Conn -> Connection]
  /\ accept \in [Conn -> {"none", "await", "check", "linked", "failed", "rejected"}]
  /\ registry \in [Nodes -> [Vips -> Conn \cup {None}]]

Init ==
  /\ found = [n \in Nodes |-> 0]
  /\ events = [n \in Nodes |-> <<>>]
  /\ dial = [n \in Nodes |-> "idle"]
  /\ conn = [c \in Conn |-> [end |-> None, at |-> "unused", msg |-> "none"]]
  /\ accept = [c \in Conn |-> "none"]
  /\ registry = [n \in Nodes |-> [v \in Vips |-> None]]

Dialler(c) == c[1]
Acceptor(c) == conn[c].end

\* The connection of the event that the listener is handling.
Current(n) == <<n, found[n] - Len(events[n])>>

-----------------------------------------------------------------------------
(* Signaling events.                                                       *)

\* A channel without a limit, used to test the properties.
PeerFoundUnbounded(n, p) ==
  /\ PeerPub[n] = p \/ PeerPub[p] = n
  /\ found[n] < Found
  /\ found' = [found EXCEPT ![n] = @ + 1]
  /\ events' = [events EXCEPT ![n] = Append(@, p)]
  /\ UNCHANGED <<dial, conn, accept, registry>>

\* The server tells both nodes of a rendezvous that one of them asked for.
\* The stream task waits while the channel is full.
PeerFound(n, p) ==
  /\ PeerPub[n] = p \/ PeerPub[p] = n
  /\ found[n] < Found
  /\ Cardinality({c \in Conn : c[2] <= found[c[1]]}) < FoundAll
  /\ Len(events[n]) < EventCap
  /\ found' = [found EXCEPT ![n] = @ + 1]
  /\ events' = [events EXCEPT ![n] = Append(@, p)]
  /\ UNCHANGED <<dial, conn, accept, registry>>

\* The listener takes the next event and dials only the node of PEER_PUB.
TakeEvent(n) ==
  /\ dial[n] = "idle"
  /\ events[n] # <<>>
  /\ events' = [events EXCEPT ![n] = Tail(@)]
  /\ dial' = [dial EXCEPT ![n] = IF PeerPub[n] = Head(events[n]) THEN "lan" ELSE "idle"]
  /\ UNCHANGED <<found, conn, accept, registry>>

-----------------------------------------------------------------------------
(* The dialling end.                                                       *)

\* A QUIC handshake with node q succeeds.
Connect(n, q) ==
  /\ conn' = [conn EXCEPT ![Current(n)] = [end |-> q, at |-> "open", msg |-> "none"]]
  /\ accept' = [accept EXCEPT ![Current(n)] = "await"]
  /\ dial' = [dial EXCEPT ![n] = "init"]

\* Every node registers 127.0.0.1 as its LAN address, so the first attempt goes
\* to the peer's port on the dialler's own machine, whoever listens there.
ConnectLan(n) ==
  /\ dial[n] = "lan"
  /\ \E q \in Nodes :
       /\ HostOf[q] = HostOf[n]
       /\ PortOf[q] = PortOf[PeerPub[n]]
       /\ Connect(n, q)
  /\ UNCHANGED <<found, events, registry>>

LanFails(n) ==
  /\ dial[n] = "lan"
  /\ dial' = [dial EXCEPT ![n] = "public"]
  /\ UNCHANGED <<found, events, conn, accept, registry>>

\* The peer's public address leads to a node with the peer's port: the peer, or
\* the one its router forwards that port to.
ConnectPublic(n) ==
  /\ dial[n] = "public"
  /\ \E q \in Nodes :
       /\ PortOf[q] = PortOf[PeerPub[n]]
       /\ Connect(n, q)
  /\ UNCHANGED <<found, events, registry>>

PublicFails(n) ==
  /\ dial[n] = "public"
  /\ dial' = [dial EXCEPT ![n] = "idle"]
  /\ UNCHANGED <<found, events, conn, accept, registry>>

\* initiate_noise_handshake writes its message, for the key of PEER_PUB.
SendInit(n) ==
  /\ dial[n] = "init"
  /\ conn[Current(n)].at = "open"
  /\ conn' = [conn EXCEPT ![Current(n)].msg = "init"]
  /\ dial' = [dial EXCEPT ![n] = "reply"]
  /\ UNCHANGED <<found, events, accept, registry>>

\* The reply has arrived: the connection becomes the way to the peer's virtual
\* address, even if it has been closed since.
ReadReply(n) ==
  LET c == Current(n)
  IN  /\ dial[n] = "reply"
      /\ conn[c].msg = "reply"
      /\ conn' = [conn EXCEPT ![c].msg = "read"]
      /\ registry' = [registry EXCEPT ![n][VipOf[PeerPub[n]]] = c]
      /\ dial' = [dial EXCEPT ![n] = "idle"]
      /\ UNCHANGED <<found, events, accept>>

\* A stream operation of the handshake fails, and the listener goes on to the
\* next event: another address is not tried.
DialFails(n) ==
  /\ dial[n] \in {"init", "reply"}
  /\ conn[Current(n)].at = "closed"
  /\ dial' = [dial EXCEPT ![n] = "idle"]
  /\ UNCHANGED <<found, events, conn, accept, registry>>

-----------------------------------------------------------------------------
(* The accepting end.                                                      *)

\* Slips at the accepting end, used to test the properties.
AnswerAnyone(c) ==
  /\ accept[c] = "await"
  /\ conn[c].msg = "init"
  /\ accept' = [accept EXCEPT ![c] = "check"]
  /\ conn' = [conn EXCEPT ![c].msg = "reply"]
  /\ UNCHANGED <<found, events, dial, registry>>

RefuseInitAndKeep(c) ==
  /\ accept[c] = "await"
  /\ conn[c].msg = "init"
  /\ PeerPub[Dialler(c)] # Acceptor(c)
  /\ accept' = [accept EXCEPT ![c] = "failed"]
  /\ UNCHANGED <<found, events, dial, conn, registry>>

RejectAndKeep(c) ==
  /\ accept[c] = "check"
  /\ PeerPub[Acceptor(c)] \notin {None, Dialler(c)}
  /\ accept' = [accept EXCEPT ![c] = "rejected"]
  /\ UNCHANGED <<found, events, dial, conn, registry>>

LinkAnyone(c) ==
  /\ accept[c] = "check"
  /\ accept' = [accept EXCEPT ![c] = "linked"]
  /\ registry' = [registry EXCEPT ![Acceptor(c)][VipOf[Dialler(c)]] = c]
  /\ UNCHANGED <<found, events, dial, conn>>

\* respond_noise_handshake reads a message meant for its key and replies; the
\* reply is lost if the dialler has closed the connection.
AnswerInit(c) ==
  /\ accept[c] = "await"
  /\ conn[c].msg = "init"
  /\ PeerPub[Dialler(c)] = Acceptor(c)
  /\ accept' = [accept EXCEPT ![c] = "check"]
  /\ conn' = [conn EXCEPT ![c].msg = IF conn[c].at = "open" THEN "reply" ELSE "init"]
  /\ UNCHANGED <<found, events, dial, registry>>

\* A message meant for another key cannot be read: the task ends, and dropping
\* its handle closes the connection.
RefuseInit(c) ==
  /\ accept[c] = "await"
  /\ conn[c].msg = "init"
  /\ PeerPub[Dialler(c)] # Acceptor(c)
  /\ accept' = [accept EXCEPT ![c] = "failed"]
  /\ conn' = [conn EXCEPT ![c].at = "closed"]
  /\ UNCHANGED <<found, events, dial, registry>>

\* The connection is gone before the handshake is.
AcceptFails(c) ==
  /\ accept[c] = "await"
  /\ conn[c].at = "closed"
  /\ accept' = [accept EXCEPT ![c] = "failed"]
  /\ UNCHANGED <<found, events, dial, conn, registry>>

\* PEER_PUB, if it is set, must be the key the handshake has shown.
Authorised(c) == PeerPub[Acceptor(c)] \in {None, Dialler(c)}

\* The connection is registered, open or not, in the place of an earlier one.
Link(c) ==
  /\ accept[c] = "check"
  /\ Authorised(c)
  /\ accept' = [accept EXCEPT ![c] = "linked"]
  /\ registry' = [registry EXCEPT ![Acceptor(c)][VipOf[Dialler(c)]] = c]
  /\ UNCHANGED <<found, events, dial, conn>>

Reject(c) ==
  /\ accept[c] = "check"
  /\ ~Authorised(c)
  /\ accept' = [accept EXCEPT ![c] = "rejected"]
  /\ conn' = [conn EXCEPT ![c].at = "closed"]
  /\ UNCHANGED <<found, events, dial, registry>>

\* The connection times out or one end dies.  No code removes its entry from
\* a registry.
LoseConn(c) ==
  /\ conn[c].at = "open"
  /\ conn' = [conn EXCEPT ![c].at = "closed"]
  /\ UNCHANGED <<found, events, dial, accept, registry>>

-----------------------------------------------------------------------------
Listener(n) ==
  \/ TakeEvent(n)
  \/ ConnectLan(n) \/ LanFails(n) \/ ConnectPublic(n) \/ PublicFails(n)
  \/ SendInit(n) \/ ReadReply(n) \/ DialFails(n)

Inbound(c) ==
  AnswerInit(c) \/ RefuseInit(c) \/ AcceptFails(c) \/ Link(c) \/ Reject(c)

Next ==
  \/ \E n, p \in Nodes : PeerFound(n, p)
  \/ \E n \in Nodes : Listener(n)
  \/ \E c \in Conn : Inbound(c) \/ LoseConn(c)

Spec == Init /\ [][Next]_vars

\* tokio runs every task that can run, and a QUIC dial ends one way or the
\* other.  Nobody has to be found, and no connection has to be lost.
Fairness ==
  /\ \A n \in Nodes : WF_vars(Listener(n))
  /\ \A c \in Conn : WF_vars(Inbound(c))

FairSpec == Spec /\ Fairness

-----------------------------------------------------------------------------
(* What holds.                                                             *)

\* The node at the other end of a connection, seen from n.
Remote(n, c) == IF n = Dialler(c) THEN Acceptor(c) ELSE Dialler(c)

(* Whoever the LAN or the public address led to, a connection is entered   *)
(* into a registry (main.rs:412, :490) only under the virtual address of   *)
(* the node that really is at its other end.                               *)
RegistryIsAuthentic ==
  \A n \in Nodes : \A v \in Vips :
    LET c == registry[n][v]
    IN  c # None => n \in {Dialler(c), Acceptor(c)} /\ v = VipOf[Remote(n, c)]

(* A node started with PEER_PUB never registers any other node, dialled or *)
(* dialling (main.rs:468), although its dialler registers first.           *)
FilterIsRespected ==
  \A n \in Nodes : \A v \in Vips :
    registry[n][v] # None => PeerPub[n] \in {None, Remote(n, registry[n][v])}

(* A link does not stay known at one end only: when one end has completed  *)
(* the handshake and registered, the other does so too, or the connection  *)
(* is closed (main.rs:474 closes what the filter rejects).                 *)
LinkedAtBothEnds ==
  \A c \in Conn :
    conn[c].msg = "read" \/ accept[c] = "linked" ~>
      conn[c].at = "closed" \/ (conn[c].msg = "read" /\ accept[c] = "linked")

(* The listener comes back for its next event however a dial ends, even    *)
(* one that reached the wrong node: the handshake has no timeout of its    *)
(* own (handshake.rs:29) and relies on the other end to answer or to drop  *)
(* the connection.                                                         *)
DialEnds == \A n \in Nodes : dial[n] # "idle" ~> dial[n] = "idle"

=============================================================================
