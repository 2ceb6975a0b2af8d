--------------------------- MODULE PeerLinkProofs ---------------------------
(***************************************************************************)
(* For any number of nodes, any addresses and any loss of connections: the *)
(* registries of PeerLink hold each connection under the name of the node  *)
(* at its other end, and only of nodes that PEER_PUB allows.               *)
(***************************************************************************)
EXTENDS PeerLink, TLAPS

\* Events are taken after they are found, and only a node with a PEER_PUB dials.
EventsCounted ==
  \A n \in Nodes :
    /\ Len(events[n]) <= found[n]
    /\ dial[n] # "idle" => Len(events[n]) < found[n] /\ PeerPub[n] \in Nodes

\* A dial never meets a connection that was used before, nor uses one that it
\* has not made.
FreshDials ==
  /\ \A c \in Conn : c[2] > found[c[1]] - Len(events[c[1]]) => accept[c] = "none"
  /\ \A n \in Nodes : dial[n] \in {"lan", "public"} => accept[Current(n)] = "none"
  /\ \A n \in Nodes : dial[n] \in {"init", "reply"} => accept[Current(n)] # "none"

\* A connection that was made has somebody at its other end.
HasAcceptor == \A c \in Conn : accept[c] # "none" => Acceptor(c) \in Nodes

\* A handshake gets past its first message only with the right node, since no
\* other can read that message.
Authentic ==
  \A c \in Conn :
    /\ conn[c].msg # "none" => accept[c] # "none"
    /\ accept[c] \in {"check", "linked", "rejected"} \/ conn[c].msg \in {"reply", "read"}
         => Acceptor(c) = PeerPub[Dialler(c)]

\* An entry was made by one of the two ends, each under its own conditions.
RightEntry(n, v, c) ==
  /\ accept[c] # "none"
  /\ \/ n = Dialler(c) /\ Acceptor(c) = PeerPub[n] /\ v = VipOf[Acceptor(c)]
     \/ n = Acceptor(c) /\ Authorised(c) /\ v = VipOf[Dialler(c)]

Registered ==
  \A n \in Nodes : \A v \in Vips :
    registry[n][v] # None => RightEntry(n, v, registry[n][v])

Inv == TypeOK /\ EventsCounted /\ FreshDials /\ HasAcceptor /\ Authentic /\ Registered

-----------------------------------------------------------------------------
USE PeerLinkAssumption

LEMMA CurrentIsConn ==
  ASSUME TypeOK, EventsCounted, NEW n \in Nodes, dial[n] # "idle"
  PROVE  Current(n) \in Conn /\ Dialler(Current(n)) = n /\ PeerPub[n] \in Nodes
<1>1. found[n] \in 0 .. Found /\ Len(events[n]) \in Nat /\ Len(events[n]) < found[n]
  BY DEF TypeOK, EventsCounted
<1>2. found[n] - Len(events[n]) \in 1 .. Found
  BY <1>1
<1> QED
  BY <1>2 DEF Current, Conn, Dialler, EventsCounted

LEMMA Initially == Init => Inv
<1> SUFFICES ASSUME Init PROVE Inv
  OBVIOUS
<1>1. TypeOK
  BY DEF Init, TypeOK, Connection
<1>2. EventsCounted /\ HasAcceptor /\ Authentic /\ Registered
  BY DEF Init, EventsCounted, HasAcceptor, Authentic, Registered
<1>3. FreshDials
  BY DEF Init, FreshDials
<1> QED
  BY <1>1, <1>2, <1>3 DEF Inv

-----------------------------------------------------------------------------
(* What each kind of step keeps.                                           *)

LEMMA FindingKeepsInv ==
  ASSUME Inv, NEW n \in Nodes, NEW p \in Nodes, PeerFound(n, p)
  PROVE  Inv'
<1> USE DEF Inv, PeerFound
<1>0. /\ events[n] \in Seq(Nodes) /\ Len(events'[n]) = Len(events[n]) + 1
      /\ found'[n] = found[n] + 1
      /\ \A m \in Nodes : m # n => events'[m] = events[m] /\ found'[m] = found[m]
  BY DEF TypeOK
<1>1. TypeOK'
  <2>1. found' \in [Nodes -> 0 .. Found] /\ events' \in [Nodes -> Seq(Nodes)]
    BY DEF TypeOK
  <2>2. \A m \in Nodes : Len(events'[m]) <= EventCap
    BY <1>0 DEF TypeOK
  <2> QED
    BY <2>1, <2>2 DEF TypeOK
<1>2. EventsCounted'
  BY <1>0 DEF TypeOK, EventsCounted
<1>3. \A m \in Nodes : found'[m] - Len(events'[m]) = found[m] - Len(events[m])
  BY <1>0 DEF TypeOK
<1>4. FreshDials'
  <2>1. \A c \in Conn : c[1] \in Nodes
    BY DEF Conn
  <2> QED
    BY <1>3, <2>1 DEF FreshDials, Current
<1>5. (HasAcceptor /\ Authentic /\ Registered)'
  BY DEF HasAcceptor, Authentic, Registered, RightEntry, Acceptor, Dialler, Authorised
<1> QED
  BY <1>1, <1>2, <1>4, <1>5

LEMMA TakingKeepsInv ==
  ASSUME Inv, NEW n \in Nodes, TakeEvent(n)
  PROVE  Inv'
<1> USE DEF Inv, TakeEvent
<1>0. /\ events[n] \in Seq(Nodes) /\ Len(events[n]) \in Nat \ {0} /\ Head(events[n]) \in Nodes
      /\ Tail(events[n]) \in Seq(Nodes) /\ Len(events'[n]) = Len(events[n]) - 1
      /\ \A m \in Nodes : m # n => events'[m] = events[m] /\ dial'[m] = dial[m]
  BY DEF TypeOK
<1>1. TypeOK'
  <2>1. events' \in [Nodes -> Seq(Nodes)]
    BY <1>0 DEF TypeOK
  <2>2. \A m \in Nodes : Len(events'[m]) <= EventCap
    BY <1>0 DEF TypeOK
  <2> QED
    BY <2>1, <2>2 DEF TypeOK
<1>2. EventsCounted'
  BY <1>0 DEF TypeOK, EventsCounted
<1>3. FreshDials'
  <2>1. ASSUME NEW c \in Conn, c[2] > found[c[1]] - Len(events'[c[1]])
        PROVE  accept[c] = "none"
    <3>1. c[1] \in Nodes /\ c[2] \in Nat
      BY DEF Conn
    <3>2. c[2] > found[c[1]] - Len(events[c[1]])
      BY <1>0, <2>1, <3>1 DEF TypeOK
    <3> QED
      BY <3>2 DEF FreshDials
  <2>2. accept[<<n, found[n] - Len(events'[n])>>] = "none"
    <3> DEFINE c == <<n, found[n] - Len(events[n]) + 1>>
    <3>1. found[n] \in 0 .. Found /\ Len(events[n]) <= found[n]
      BY DEF TypeOK, EventsCounted
    <3>2. found[n] - Len(events[n]) + 1 \in 1 .. Found
      BY <1>0, <3>1
    <3>3. c \in Conn
      BY <3>2 DEF Conn
    <3>4. c[2] > found[c[1]] - Len(events[c[1]])
      BY <1>0, <3>1
    <3>5. accept[c] = "none"
      BY <3>3, <3>4 DEF FreshDials
    <3>6. found[n] - Len(events'[n]) = found[n] - Len(events[n]) + 1
      BY <1>0, <3>1
    <3> QED
      BY <3>5, <3>6
  <2>3. \A m \in Nodes : dial'[m] \in {"lan", "public"} =>
          accept[<<m, found[m] - Len(events'[m])>>] = "none"
    BY <1>0, <2>2 DEF FreshDials, Current
  <2>4. \A m \in Nodes : dial'[m] \in {"init", "reply"} =>
          accept[<<m, found[m] - Len(events'[m])>>] # "none"
    BY <1>0 DEF FreshDials, Current, TypeOK
  <2> QED
    BY <2>1, <2>3, <2>4 DEF FreshDials, Current
<1>4. (HasAcceptor /\ Authentic /\ Registered)'
  BY DEF HasAcceptor, Authentic, Registered, RightEntry, Acceptor, Dialler, Authorised
<1> QED
  BY <1>1, <1>2, <1>3, <1>4

LEMMA FailingKeepsInv ==
  ASSUME Inv, NEW n \in Nodes, LanFails(n) \/ PublicFails(n) \/ DialFails(n)
  PROVE  Inv'
<1> USE DEF Inv, LanFails, PublicFails, DialFails
<1>0. dial[n] # "idle" /\ \A m \in Nodes : m # n => dial'[m] = dial[m]
  BY DEF TypeOK
<1>1. TypeOK'
  BY DEF TypeOK
<1>2. EventsCounted'
  BY <1>0 DEF EventsCounted
<1>3. FreshDials'
  <2>1. dial'[n] = "public" => dial[n] = "lan"
    BY DEF TypeOK
  <2>2. dial'[n] \notin {"lan", "init", "reply"}
    BY DEF TypeOK
  <2> QED
    BY <1>0, <2>1, <2>2 DEF FreshDials, Current
<1>4. (HasAcceptor /\ Authentic /\ Registered)'
  BY DEF HasAcceptor, Authentic, Registered, RightEntry, Acceptor, Dialler, Authorised
<1> QED
  BY <1>1, <1>2, <1>3, <1>4

LEMMA ConnectingKeepsInv ==
  ASSUME Inv, NEW n \in Nodes, ConnectLan(n) \/ ConnectPublic(n)
  PROVE  Inv'
<1> DEFINE c == Current(n)
<1> USE DEF Inv
<1>0. dial[n] \in {"lan", "public"} /\ UNCHANGED <<found, events, registry>>
  BY DEF ConnectLan, ConnectPublic
<1>1. PICK q \in Nodes : Connect(n, q)
  BY DEF ConnectLan, ConnectPublic
<1>2. c \in Conn /\ Dialler(c) = n /\ PeerPub[n] \in Nodes /\ accept[c] = "none"
  BY <1>0, CurrentIsConn DEF FreshDials
<1>3. /\ conn'[c] = [end |-> q, at |-> "open", msg |-> "none"]
      /\ accept'[c] = "await"
      /\ dial'[n] = "init"
      /\ \A d \in Conn : d # c => conn'[d] = conn[d] /\ accept'[d] = accept[d]
      /\ \A m \in Nodes : m # n => dial'[m] = dial[m]
  BY <1>1, <1>2 DEF Connect, TypeOK
<1>4. TypeOK'
  BY <1>0, <1>1 DEF TypeOK, Connect, Connection
<1>5. EventsCounted'
  BY <1>0, <1>3 DEF EventsCounted
<1>6. FreshDials'
  <2>1. c[1] = n /\ c[2] = found[n] - Len(events[n])
    BY DEF Current
  <2>2. found[n] \in Nat /\ Len(events[n]) \in Nat
    BY DEF TypeOK
  <2>3. ~(c[2] > found[c[1]] - Len(events[c[1]]))
    BY <2>1, <2>2
  <2>4. \A d \in Conn : d[2] > found[d[1]] - Len(events[d[1]]) => accept'[d] = "none"
    BY <1>3, <2>3 DEF FreshDials
  <2>5. ASSUME NEW m \in Nodes, dial'[m] \in {"lan", "public"}
        PROVE  accept'[Current(m)] = "none"
    <3>1. m # n /\ dial[m] \in {"lan", "public"}
      BY <1>3, <2>5
    <3>2. Current(m) \in Conn /\ Current(m) # c /\ accept[Current(m)] = "none"
      BY <1>2, <3>1, CurrentIsConn DEF FreshDials, Dialler
    <3> QED
      BY <1>3, <3>2
  <2>6. ASSUME NEW m \in Nodes, dial'[m] \in {"init", "reply"}
        PROVE  accept'[Current(m)] # "none"
    <3>1. CASE m = n
      BY <1>3, <3>1
    <3>2. CASE m # n
      <4>1. dial[m] \in {"init", "reply"}
        BY <1>3, <2>6, <3>2
      <4>2. Current(m) \in Conn /\ Current(m) # c /\ accept[Current(m)] # "none"
        BY <1>2, <3>2, <4>1, CurrentIsConn DEF FreshDials, Dialler
      <4> QED
        BY <1>3, <4>2
    <3> QED
      BY <3>1, <3>2
  <2> QED
    BY <1>0, <2>4, <2>5, <2>6 DEF FreshDials, Current
<1>7. (HasAcceptor /\ Authentic)'
  BY <1>3 DEF HasAcceptor, Authentic, Acceptor, Dialler
<1>8. Registered'
  <2> SUFFICES ASSUME NEW m \in Nodes, NEW v \in Vips, registry[m][v] # None
               PROVE  RightEntry(m, v, registry[m][v])'
    BY <1>0 DEF Registered
  <2>1. registry[m][v] \in Conn /\ registry[m][v] # c
    BY <1>2 DEF TypeOK, Registered, RightEntry
  <2> QED
    BY <1>0, <1>3, <2>1 DEF Registered, RightEntry, Acceptor, Dialler, Authorised
<1> QED
  BY <1>4, <1>5, <1>6, <1>7, <1>8

LEMMA SendingKeepsInv ==
  ASSUME Inv, NEW n \in Nodes, SendInit(n)
  PROVE  Inv'
<1> DEFINE c == Current(n)
<1> USE DEF Inv, SendInit
<1>1. c \in Conn /\ Dialler(c) = n
  BY CurrentIsConn
<1>2. conn[c] \in Connection /\ conn[c].at = "open"
  BY <1>1 DEF TypeOK
<1>3. accept[c] # "none"
  BY DEF FreshDials
<1>4. /\ conn'[c] = [conn[c] EXCEPT !.msg = "init"]
      /\ \A d \in Conn : d # c => conn'[d] = conn[d]
      /\ dial'[n] = "reply" /\ \A m \in Nodes : m # n => dial'[m] = dial[m]
  BY <1>1 DEF TypeOK
<1>5. TypeOK'
  BY <1>2, <1>4 DEF TypeOK, Connection
<1>6. (EventsCounted /\ FreshDials)'
  BY <1>4 DEF EventsCounted, FreshDials, Current
<1>7. \A d \in Conn : conn'[d].end = conn[d].end
  BY <1>2, <1>4 DEF Connection
<1>8. (HasAcceptor /\ Registered)'
  BY <1>7 DEF HasAcceptor, Registered, RightEntry, Acceptor, Dialler, Authorised, TypeOK
<1>9. Authentic'
  BY <1>2, <1>3, <1>4, <1>7 DEF Authentic, Acceptor, Dialler, Connection
<1> QED
  BY <1>5, <1>6, <1>8, <1>9

LEMMA LinkingKeepsInv ==
  ASSUME Inv, NEW n \in Nodes, ReadReply(n)
  PROVE  Inv'
<1> DEFINE c == Current(n)
<1> DEFINE w == VipOf[PeerPub[n]]
<1> USE DEF Inv, ReadReply
<1>1. c \in Conn /\ Dialler(c) = n /\ PeerPub[n] \in Nodes /\ w \in Vips
  BY CurrentIsConn DEF Vips
<1>2. conn[c] \in Connection /\ conn[c].msg = "reply"
  BY <1>1 DEF TypeOK
<1>3. accept[c] # "none" /\ Acceptor(c) = PeerPub[n]
  BY <1>1, <1>2 DEF Authentic
<1>4. /\ conn'[c] = [conn[c] EXCEPT !.msg = "read"]
      /\ \A d \in Conn : d # c => conn'[d] = conn[d]
      /\ dial'[n] = "idle" /\ \A m \in Nodes : m # n => dial'[m] = dial[m]
  BY <1>1 DEF TypeOK
<1>5. TypeOK'
  BY <1>1, <1>2, <1>4 DEF TypeOK, Connection
<1>6. (EventsCounted /\ FreshDials)'
  BY <1>4 DEF EventsCounted, FreshDials, Current
<1>7. \A d \in Conn : conn'[d].end = conn[d].end
  BY <1>2, <1>4 DEF Connection
<1>8. (HasAcceptor /\ Authentic)'
  BY <1>1, <1>2, <1>3, <1>4, <1>7 DEF HasAcceptor, Authentic, Acceptor, Dialler, Connection
<1>9. Registered'
  <2> SUFFICES ASSUME NEW m \in Nodes, NEW v \in Vips, NEW d, d = registry'[m][v], d # None
               PROVE  RightEntry(m, v, d)'
    BY DEF Registered
  <2>1. CASE m = n /\ v = w
    <3>1. d = c
      BY <1>1, <2>1 DEF TypeOK
    <3> QED
      BY <1>1, <1>3, <1>7, <2>1, <3>1 DEF RightEntry, Acceptor, Dialler
  <2>2. CASE ~(m = n /\ v = w)
    <3>1. d = registry[m][v] /\ d \in Conn
      BY <2>2 DEF TypeOK
    <3> QED
      BY <1>7, <3>1 DEF Registered, RightEntry, Acceptor, Dialler, Authorised
  <2> QED
    BY <2>1, <2>2
<1> QED
  BY <1>5, <1>6, <1>8, <1>9

-----------------------------------------------------------------------------
(* The accepting end.                                                      *)

LEMMA InboundKeepsInv ==
  ASSUME Inv, NEW c \in Conn, Inbound(c) \/ LoseConn(c)
  PROVE  Inv'
<1> USE DEF Inv
<1>1. conn[c] \in Connection /\ Dialler(c) \in Nodes
  BY DEF TypeOK, Conn, Dialler
<1>2. UNCHANGED <<found, events, dial>>
  BY DEF Inbound, AnswerInit, RefuseInit, AcceptFails, Link, Reject, LoseConn
<1>3. /\ accept'[c] \in {accept[c], "check", "linked", "failed", "rejected"}
      /\ accept'[c] # accept[c] => accept[c] # "none"
      /\ \A d \in Conn : d # c => accept'[d] = accept[d] /\ conn'[d] = conn[d]
      /\ accept' \in [Conn -> {"none", "await", "check", "linked", "failed", "rejected"}]
  BY DEF TypeOK, Inbound, AnswerInit, RefuseInit, AcceptFails, Link, Reject, LoseConn
<1>4. /\ conn'[c] \in Connection
      /\ conn'[c].end = conn[c].end
      /\ conn'[c].msg # conn[c].msg => conn'[c].msg = "reply" /\ accept'[c] = "check"
      /\ conn' \in [Conn -> Connection]
  <2>1. CASE AnswerInit(c)
    <3>1. PICK m \in {"init", "reply"} :
            /\ conn' = [conn EXCEPT ![c].msg = m]
            /\ m # conn[c].msg => m = "reply"
      BY <2>1 DEF AnswerInit
    <3>2. accept'[c] = "check"
      BY <2>1 DEF AnswerInit, TypeOK
    <3>3. conn'[c] = [conn[c] EXCEPT !.msg = m]
      BY <3>1 DEF TypeOK
    <3> QED
      BY <1>1, <3>1, <3>2, <3>3 DEF TypeOK, Connection
  <2>2. CASE RefuseInit(c) \/ Reject(c) \/ LoseConn(c)
    <3>1. conn' = [conn EXCEPT ![c].at = "closed"]
      BY <2>2 DEF RefuseInit, Reject, LoseConn
    <3>2. conn'[c] = [conn[c] EXCEPT !.at = "closed"]
      BY <3>1 DEF TypeOK
    <3> QED
      BY <1>1, <3>1, <3>2 DEF TypeOK, Connection
  <2>3. CASE AcceptFails(c) \/ Link(c)
    BY <1>1, <2>3 DEF TypeOK, AcceptFails, Link
  <2> QED
    BY <2>1, <2>2, <2>3 DEF Inbound
<1>5. accept'[c] \in {"check", "linked", "rejected"} => Acceptor(c) = PeerPub[Dialler(c)]
  BY <1>3 DEF TypeOK, Authentic, Inbound, AnswerInit, RefuseInit, AcceptFails, Link, Reject, LoseConn
<1>6. EventsCounted'
  BY <1>2 DEF EventsCounted
<1>7. FreshDials'
  <2>1. \A d \in Conn : (accept'[d] = "none") = (accept[d] = "none")
    BY <1>3
  <2>2. \A n \in Nodes : dial[n] # "idle" => Current(n) \in Conn
    BY CurrentIsConn
  <2> QED
    BY <1>2, <2>1, <2>2 DEF FreshDials, Current
<1>8. \A d \in Conn : conn'[d].end = conn[d].end
  BY <1>3, <1>4
<1>9. HasAcceptor'
  BY <1>3, <1>8 DEF HasAcceptor, Acceptor
<1>10. Authentic'
  BY <1>3, <1>4, <1>5, <1>8 DEF Authentic, Acceptor, Dialler
<1>11. TypeOK' /\ Registered'
  <2>1. CASE Link(c)
    <3> DEFINE r == Acceptor(c)
    <3> DEFINE w == VipOf[Dialler(c)]
    <3>1. r \in Nodes /\ w \in Vips
      BY <1>1, <2>1 DEF HasAcceptor, Link, Vips
    <3>2. TypeOK'
      BY <1>2, <1>3, <1>4, <2>1, <3>1 DEF TypeOK, Link
    <3>3. ASSUME NEW m \in Nodes, NEW v \in Vips, NEW d, d = registry'[m][v], d # None
          PROVE  RightEntry(m, v, d)'
      <4>1. CASE m = r /\ v = w
        <5>1. d = c
          BY <2>1, <3>1, <3>3, <4>1 DEF Link, TypeOK
        <5>2. Authorised(c) /\ accept'[c] # "none"
          BY <2>1 DEF Link, TypeOK
        <5> QED
          BY <1>8, <4>1, <5>1, <5>2 DEF RightEntry, Authorised, Acceptor, Dialler
      <4>2. CASE ~(m = r /\ v = w)
        <5>1. d = registry[m][v] /\ d \in Conn
          BY <2>1, <3>3, <4>2 DEF Link, TypeOK
        <5>2. RightEntry(m, v, d)
          BY <3>3, <5>1 DEF Registered
        <5> QED
          BY <1>3, <1>8, <5>1, <5>2 DEF RightEntry, Authorised, Acceptor, Dialler
      <4> QED
        BY <4>1, <4>2
    <3> QED
      BY <3>2, <3>3 DEF Registered
  <2>2. CASE ~Link(c)
    <3>1. UNCHANGED registry
      BY <2>2 DEF Inbound, AnswerInit, RefuseInit, AcceptFails, Reject, LoseConn
    <3>2. TypeOK'
      BY <1>2, <1>3, <1>4, <3>1 DEF TypeOK
    <3>3. ASSUME NEW m \in Nodes, NEW v \in Vips, registry[m][v] # None
          PROVE  RightEntry(m, v, registry[m][v])'
      <4>1. registry[m][v] \in Conn /\ RightEntry(m, v, registry[m][v])
        BY <3>3 DEF TypeOK, Registered
      <4> QED
        BY <1>3, <1>8, <3>1, <4>1 DEF RightEntry, Authorised, Acceptor, Dialler
    <3> QED
      BY <3>1, <3>2, <3>3 DEF Registered
  <2> QED
    BY <2>1, <2>2
<1> QED
  BY <1>6, <1>7, <1>9, <1>10, <1>11

-----------------------------------------------------------------------------
(* The theorems.                                                           *)

LEMMA Stepwise == Inv /\ [Next]_vars => Inv'
<1> SUFFICES ASSUME Inv, [Next]_vars PROVE Inv'
  OBVIOUS
<1>1. CASE \E n, p \in Nodes : PeerFound(n, p)
  BY <1>1, FindingKeepsInv
<1>2. CASE \E n \in Nodes : Listener(n)
  BY <1>2, TakingKeepsInv, FailingKeepsInv, ConnectingKeepsInv, SendingKeepsInv, LinkingKeepsInv
     DEF Listener
<1>3. CASE \E c \in Conn : Inbound(c) \/ LoseConn(c)
  BY <1>3, InboundKeepsInv
<1>4. CASE UNCHANGED vars
  BY <1>4 DEF vars, Inv, TypeOK, EventsCounted, FreshDials, HasAcceptor, Authentic, Registered,
              RightEntry, Current, Acceptor, Dialler, Authorised
<1> QED
  BY <1>1, <1>2, <1>3, <1>4 DEF Next

(* The variables keep their types and the event channel its capacity.      *)
THEOREM PeerLinkTypes == Spec => []TypeOK
<1>1. Inv => TypeOK
  BY DEF Inv
<1> QED
  BY <1>1, Initially, Stepwise, PTL DEF Spec

(* Whatever addresses lead where, every registry holds a connection under  *)
(* the virtual address of the node at its other end.                       *)
THEOREM RegistriesAreAuthentic == Spec => []RegistryIsAuthentic
<1>1. Inv => RegistryIsAuthentic
  <2> SUFFICES ASSUME Inv, NEW n \in Nodes, NEW v \in Vips, registry[n][v] # None
               PROVE  /\ n \in {Dialler(registry[n][v]), Acceptor(registry[n][v])}
                      /\ v = VipOf[Remote(n, registry[n][v])]
    BY DEF RegistryIsAuthentic
  <2>1. RightEntry(n, v, registry[n][v])
    BY DEF Inv, Registered
  <2> QED
    BY <2>1 DEF RightEntry, Remote
<1> QED
  BY <1>1, Initially, Stepwise, PTL DEF Spec

(* A node with a PEER_PUB registers no other node, at either end.          *)
THEOREM FiltersAreRespected == Spec => []FilterIsRespected
<1>1. Inv => FilterIsRespected
  <2> SUFFICES ASSUME Inv, NEW n \in Nodes, NEW v \in Vips, registry[n][v] # None
               PROVE  PeerPub[n] \in {None, Remote(n, registry[n][v])}
    BY DEF FilterIsRespected
  <2>1. RightEntry(n, v, registry[n][v])
    BY DEF Inv, Registered
  <2> QED
    BY <2>1 DEF RightEntry, Remote, Authorised
<1> QED
  BY <1>1, Initially, Stepwise, PTL DEF Spec
=============================================================================
