--------------------------- MODULE DatagramBridge ---------------------------
(***************************************************************************)
(* The secure datagram bridges of one node (transport/datagram.rs,         *)
(* crypto/session.rs): one bridge per connected peer, all of them reading  *)
(* the node's one TUN device.  A bridge's egress task takes a packet,      *)
(* seals it under the session's next sequence number and sends it as a     *)
(* QUIC datagram; the ingress task at the other end passes what it gets    *)
(* through the session's replay filter and injects it into its own TUN.    *)
(*                                                                         *)
(* Only this node's packets are modelled; the other direction of a bridge  *)
(* is the same code with a session state of its own.                       *)
(***************************************************************************)
EXTENDS Integers, FiniteSets

CONSTANTS
  Peers,       \* the peers of this node's bridges
  Traffic,     \* bound: how many packets the kernel routes into the TUN
  SeqModulus,  \* sequence numbers are counted modulo this, 2^32 in the code
  Window,      \* width of the replay filter's bitmap, 128 in the code
  None         \* no packet

ASSUME BridgeAssumption ==
  /\ Traffic \in Nat
  /\ SeqModulus \in Nat \ {0}
  /\ Window \in Nat \ {0}

INSTANCE ReplayFilter

\* Packets in the order in which they leave the TUN.
Packets == 1 .. Traffic
ASSUME NoneAssumption == None \notin Packets

\* index: how many packets the session had sealed before this one.  The u32 in
\* the frame header, which is also the Noise nonce, is what tx_seq held.
Datagram == [packet : Packets, index : Nat, seq : 0 .. SeqModulus - 1]

VARIABLES
  taken,     \* how many packets have been read from the TUN
  dest,      \* the peer each packet taken is addressed to
  conn,      \* each peer's QUIC connection
  egress,    \* each bridge's TUN -> QUIC task
  holding,   \* the packet it has read and not yet sent
  tx_seq,    \* SessionTx.tx_seq
  sealed,    \* history: how many packets the session has sealed
  net,       \* datagrams sent; any of them may arrive late, often or never
  ingress,   \* the QUIC -> TUN task at the peer
  rx,        \* the peer's SessionRx.replay_filter
  injected   \* history: how often each packet went into the peer's TUN

vars == <<taken, dest, conn, egress, holding, tx_seq, sealed, net, ingress, rx, injected>>
egressVars == <<taken, dest, egress, holding, tx_seq, sealed, net>>
ingressVars == <<ingress, rx, injected>>

TypeOK ==
  /\ taken \in 0 .. Traffic
  /\ dest \in [Packets -> Peers \cup {None}]
  /\ conn \in [Peers -> {"open", "closed"}]
  /\ egress \in [Peers -> {"running", "ended"}]
  /\ holding \in [Peers -> Packets \cup {None}]
  /\ tx_seq \in [Peers -> 0 .. SeqModulus - 1]
  /\ sealed \in [Peers -> Nat]
  /\ net \in [Peers -> SUBSET Datagram]
  /\ ingress \in [Peers -> {"running", "ended"}]
  /\ rx \in [Peers -> Filter]
  /\ injected \in [Peers -> [Packets -> Nat]]

Init ==
  /\ taken = 0
  /\ dest = [k \in Packets |-> None]
  /\ conn = [p \in Peers |-> "open"]
  /\ egress = [p \in Peers |-> "running"]
  /\ holding = [p \in Peers |-> None]
  /\ tx_seq = [p \in Peers |-> 0]
  /\ sealed = [p \in Peers |-> 0]
  /\ net = [p \in Peers |-> {}]
  /\ ingress = [p \in Peers |-> "running"]
  /\ rx = [p \in Peers |-> NewFilter]
  /\ injected = [p \in Peers |-> [k \in Packets |-> 0]]

-----------------------------------------------------------------------------
(* The egress task.                                                        *)

\* A TUN that gives every reader its own copy, used to test the properties.
ReadTunShared(p) ==
  /\ egress[p] = "running"
  /\ holding[p] = None
  /\ taken < Traffic
  /\ taken' \in {taken, taken + 1}
  /\ holding' = [holding EXCEPT ![p] = taken + 1]
  /\ \E q \in Peers : dest' = [dest EXCEPT ![taken + 1] = q]
  /\ UNCHANGED <<conn, egress, tx_seq, sealed, net, ingressVars>>

\* tun_read.recv: whichever bridge asks gets the next packet, wherever the
\* packet is addressed to.
ReadTun(p) ==
  /\ egress[p] = "running"
  /\ holding[p] = None
  /\ taken < Traffic
  /\ taken' = taken + 1
  /\ holding' = [holding EXCEPT ![p] = taken + 1]
  /\ \E q \in Peers : dest' = [dest EXCEPT ![taken + 1] = q]
  /\ UNCHANGED <<conn, egress, tx_seq, sealed, net, ingressVars>>

\* A slip in the egress task, used to test the properties.
SealKeepsSeq(p) ==
  /\ tx_seq' = tx_seq
  /\ sealed' = [sealed EXCEPT ![p] = @ + 1]

\* SessionTx.encrypt: the sequence number is spent whatever happens next.
Seal(p) ==
  /\ tx_seq' = [tx_seq EXCEPT ![p] = (@ + 1) % SeqModulus]
  /\ sealed' = [sealed EXCEPT ![p] = @ + 1]

\* The packet is sealed and send_datagram takes it.
Transmit(p) ==
  /\ egress[p] = "running"
  /\ holding[p] # None
  /\ conn[p] = "open"
  /\ Seal(p)
  /\ net' = [net EXCEPT ![p] =
       @ \cup {[packet |-> holding[p], index |-> sealed[p], seq |-> tx_seq[p]]}]
  /\ holding' = [holding EXCEPT ![p] = None]
  /\ UNCHANGED <<taken, dest, conn, egress, ingressVars>>

TransmitFailsAndContinues(p) ==
  /\ egress[p] = "running"
  /\ holding[p] # None
  /\ Seal(p)
  /\ holding' = [holding EXCEPT ![p] = None]
  /\ UNCHANGED <<taken, dest, conn, egress, net, ingressVars>>

\* The packet is sealed and send_datagram refuses it, because the connection
\* is closed or the datagram is larger than the path carries: the task ends.
TransmitFails(p) ==
  /\ egress[p] = "running"
  /\ holding[p] # None
  /\ Seal(p)
  /\ holding' = [holding EXCEPT ![p] = None]
  /\ egress' = [egress EXCEPT ![p] = "ended"]
  /\ UNCHANGED <<taken, dest, conn, net, ingressVars>>

-----------------------------------------------------------------------------
(* The ingress task at the peer.                                           *)

\* A datagram arrives: the filter marks its number before it is decrypted.
\* What the filter refuses is dropped and changes nothing.
Deliver(p) ==
  /\ conn[p] = "open"
  /\ ingress[p] = "running"
  /\ \E d \in net[p] :
       /\ Accepts(rx[p], d.seq)
       /\ rx' = [rx EXCEPT ![p] = CheckAndMark(@, d.seq)]
       /\ \/ /\ injected' = [injected EXCEPT ![p][d.packet] = @ + 1]
             /\ UNCHANGED ingress
          \/ /\ ingress' = [ingress EXCEPT ![p] = "ended"]  \* tun_write.send fails
             /\ UNCHANGED injected
  /\ UNCHANGED <<conn, egressVars>>

\* read_datagram fails.
IngressEnds(p) ==
  /\ conn[p] = "closed"
  /\ ingress[p] = "running"
  /\ ingress' = [ingress EXCEPT ![p] = "ended"]
  /\ UNCHANGED <<conn, egressVars, rx, injected>>

\* The connection times out or either side closes it.
CloseConn(p) ==
  /\ conn[p] = "open"
  /\ conn' = [conn EXCEPT ![p] = "closed"]
  /\ UNCHANGED <<egressVars, ingressVars>>

-----------------------------------------------------------------------------
Next ==
  \E p \in Peers :
    \/ ReadTun(p) \/ Transmit(p) \/ TransmitFails(p)
    \/ Deliver(p) \/ IngressEnds(p) \/ CloseConn(p)

Spec == Init /\ [][Next]_vars

-----------------------------------------------------------------------------
(* What holds.                                                             *)

(* However often the network repeats a datagram, and even after the        *)
(* sequence numbers have wrapped, a packet enters one peer's TUN at most   *)
(* once (SessionRx.decrypt drops what check_and_mark refuses).             *)
InjectedOnce ==
  \A k \in Packets :
    \A p, q \in Peers :
      injected[p][k] > 0 /\ injected[q][k] > 0 => p = q /\ injected[p][k] = 1

(* No packet is lost inside the node except the one with which an egress   *)
(* task ends: the packets taken from the shared TUN are those sent, those  *)
(* a task still holds, and one for every task that has ended.  A bridge    *)
(* whose connection is gone thus takes one packet from the others at most. *)
PacketsAccountedFor ==
  LET sent == UNION {{d.packet : d \in net[p]} : p \in Peers}
      held == {p \in Peers : holding[p] # None}
      ended == {p \in Peers : egress[p] = "ended"}
  IN  taken = Cardinality(sent) + Cardinality(held) + Cardinality(ended)

(* Until a session's sequence numbers wrap, check_and_mark refuses a       *)
(* datagram only when it is a replay or at least Window later ones have    *)
(* overtaken it (replay.rs:21, "`false` if it is a replay or too old");    *)
(* any other gap or reordering lets it through.                            *)
RefusedOnlyIfReplayOrTooOld ==
  \A p \in Peers : sealed[p] <= SeqModulus =>
    \A d \in net[p] :
      ~Accepts(rx[p], d.seq) /\ ingress[p] = "running" =>
        \/ injected[p][d.packet] > 0
        \/ \E late \in net[p] : /\ injected[p][late.packet] > 0
                                /\ late.index - d.index >= Window

(* Every session keeps the promise of ReplayWindow, in the company of the  *)
(* others and of the tasks around it: whatever enters the peer's TUN does  *)
(* so under a number that is fresh, and within the window of all those     *)
(* that have entered it before, whether or not the numbers have wrapped,   *)
(* and although a number is marked before its datagram is decrypted and    *)
(* injected (session.rs:46, datagram.rs:93).                               *)
Passed(p) == {d.seq : d \in {e \in net[p] : injected[p][e.packet] > 0}}
Promise(p) ==
  INSTANCE ReplayWindow WITH SeqNums <- 0 .. SeqModulus - 1,
                             accepted <- Passed(p), verdict <- TRUE
SessionsKeepThePromise ==
  /\ \A p \in Peers : Promise(p)!Init
  /\ [][\A p \in Peers : [Promise(p)!Next]_<<Passed(p), injected[p]>>]_vars

-----------------------------------------------------------------------------
(* What the code or its documentation says and the code does not do.       *)

(* main.rs:487: a connected peer is registered "in secure routing table",  *)
(* so a packet goes to the peer it is addressed to.                        *)
PacketsFollowTheirRoute ==
  \A p \in Peers : \A d \in net[p] : dest[d.packet] = p
=============================================================================
