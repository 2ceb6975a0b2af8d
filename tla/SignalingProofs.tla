--------------------------- MODULE SignalingProofs --------------------------
(***************************************************************************)
(* The server's map and channels, for any number of nodes and process      *)
(* lives and any channel capacity.                                         *)
(***************************************************************************)
EXTENDS Signaling, TLAPS

-----------------------------------------------------------------------------
(* Types.  A goroutine that is in stream.Send has a message to send.       *)

SendingHasMessage == \A d \in Daemons : stream[d] = "sending" => outgoing[d] # Nil

Types == TypeOK /\ SendingHasMessage

\* The steps of one stream, of its goroutine and of the daemon's end of it.
StreamStep(d) ==
  \/ Register(d) \/ Receive(d) \/ SendOk(d) \/ SendFails(d)
  \/ Unregister(d) \/ CloseChan(d) \/ LoseLink(d) \/ NoticeLoss(d)

LEMMA TypesInit == Init => Types
BY SignalingAssumption
   DEF Init, Types, TypeOK, SendingHasMessage, Session, NoDial, NoDisc

LEMMA TypesStream ==
  ASSUME Types, NEW d \in Daemons, StreamStep(d)
  PROVE  Types'
<1> USE DEF Types
<1>1. CASE Register(d)
  BY <1>1, SignalingAssumption DEF TypeOK, SendingHasMessage, Register, Session, callVars
<1>2. CASE Receive(d)
  <2>1. /\ queue[d] \in Seq(Message \cup {Nil}) /\ queue[d] # <<>>
        /\ Len(queue[d]) \in Nat /\ Len(queue[d]) <= ChanCap
    BY <1>2 DEF TypeOK, Receive
  <2>2. /\ Head(queue[d]) \in Message \cup {Nil}
        /\ Tail(queue[d]) \in Seq(Message \cup {Nil})
        /\ Len(Tail(queue[d])) <= ChanCap
    BY <2>1, SignalingAssumption
  <2>3. queue' = [queue EXCEPT ![d] = Tail(queue[d])]
    BY <1>2 DEF Receive
  <2>4. /\ queue' \in [Daemons -> Seq(Message \cup {Nil})]
        /\ \A e \in Daemons : Len(queue'[e]) <= ChanCap
    BY <2>2, <2>3 DEF TypeOK
  <2>5. /\ stream' \in [Daemons -> {"idle", "serving", "sending", "leaving", "closing", "closed"}]
        /\ outgoing' \in [Daemons -> Message \cup {Nil}]
    BY <1>2, <2>2 DEF TypeOK, Receive
  <2>6. SendingHasMessage'
    BY <1>2 DEF TypeOK, SendingHasMessage, Receive
  <2> QED BY <1>2, <2>4, <2>5, <2>6 DEF TypeOK, Receive, callVars
<1>3. CASE SendOk(d)
  <2>1. outgoing[d] \in Message
    BY <1>3 DEF TypeOK, SendingHasMessage, SendOk
  <2>2. sent' \in [Daemons -> Seq(Message)]
    BY <1>3, <2>1 DEF TypeOK, SendOk
  <2> QED BY <1>3, <2>2 DEF TypeOK, SendingHasMessage, SendOk, callVars
<1>4. CASE SendFails(d)
  BY <1>4 DEF TypeOK, SendingHasMessage, SendFails, callVars
<1>5. CASE Unregister(d)
  BY <1>5, SignalingAssumption DEF TypeOK, SendingHasMessage, Unregister, Session, callVars
<1>6. CASE CloseChan(d)
  BY <1>6 DEF TypeOK, SendingHasMessage, CloseChan, callVars
<1>7. CASE LoseLink(d)
  BY <1>7 DEF TypeOK, SendingHasMessage, LoseLink, callVars
<1>8. CASE NoticeLoss(d)
  BY <1>8 DEF TypeOK, SendingHasMessage, NoticeLoss, callVars
<1> QED BY <1>1, <1>2, <1>3, <1>4, <1>5, <1>6, <1>7, <1>8 DEF StreamStep

\* A write to a channel with room leaves one that fits.
LEMMA AppendFits ==
  ASSUME TypeOK, NEW s \in Daemons, HasRoom(s), NEW m \in Message \cup {Nil},
         queue' = [queue EXCEPT ![s] = Append(@, m)]
  PROVE  /\ queue' \in [Daemons -> Seq(Message \cup {Nil})]
         /\ \A e \in Daemons : Len(queue'[e]) <= ChanCap
<1>1. queue[s] \in Seq(Message \cup {Nil}) /\ Len(queue[s]) \in Nat /\ Len(queue[s]) < ChanCap
  BY DEF TypeOK, HasRoom
<1>2. Append(queue[s], m) \in Seq(Message \cup {Nil}) /\ Len(Append(queue[s], m)) <= ChanCap
  BY <1>1, SignalingAssumption
<1> QED BY <1>2 DEF TypeOK

LEMMA TypesDisconnect ==
  ASSUME Types, NEW d \in Daemons, Disconnect(d) \/ Notify(d)
  PROVE  Types'
<1> USE DEF Types
<1>1. CASE Disconnect(d)
  <2>1. NodeOf[d] \in Nodes /\ nodes[NodeOf[d]] \in Session /\ None \in Session
    BY SignalingAssumption DEF TypeOK, Session
  <2>2. nodes' \in [Nodes -> Session]
    BY <1>1, <2>1 DEF TypeOK, Disconnect
  <2>3. disc' \in [Daemons -> [at : {"idle", "notify", "done"}, session : Session]]
    <3>1. \/ disc' = [disc EXCEPT ![d].at = "done"]
          \/ disc' = [disc EXCEPT ![d] = [at |-> "notify", session |-> nodes[NodeOf[d]]]]
      BY <1>1 DEF Disconnect
    <3>2. disc \in [Daemons -> [at : {"idle", "notify", "done"}, session : Session]]
      BY DEF TypeOK
    <3>3. CASE disc' = [disc EXCEPT ![d].at = "done"]
      BY <3>2, <3>3
    <3>4. CASE disc' = [disc EXCEPT ![d] = [at |-> "notify", session |-> nodes[NodeOf[d]]]]
      BY <2>1, <3>2, <3>4
    <3> QED BY <3>1, <3>3, <3>4
  <2> QED BY <1>1, <2>2, <2>3 DEF TypeOK, SendingHasMessage, Disconnect
<1>2. CASE Notify(d)
  <2>1. disc' \in [Daemons -> [at : {"idle", "notify", "done"}, session : Session]]
    <3>1. \/ disc' = disc
          \/ disc' = [disc EXCEPT ![d].at = "done"]
      BY <1>2 DEF Notify
    <3>2. disc \in [Daemons -> [at : {"idle", "notify", "done"}, session : Session]]
      BY DEF TypeOK
    <3>3. CASE disc' = [disc EXCEPT ![d].at = "done"]
      BY <3>2, <3>3
    <3> QED BY <3>1, <3>2, <3>3
  <2>2. running' \in BOOLEAN
    <3>1. running' = FALSE \/ running' = running
      BY <1>2 DEF Notify, Panic
    <3> QED BY <3>1 DEF TypeOK
  <2>3. /\ queue' \in [Daemons -> Seq(Message \cup {Nil})]
        /\ \A e \in Daemons : Len(queue'[e]) <= ChanCap
    <3> DEFINE s == disc[d].session
    <3>1. CASE UNCHANGED queue
      BY <3>1 DEF TypeOK
    <3>2. CASE HasRoom(s) /\ queue' = [queue EXCEPT ![s] = Append(@, Nil)]
      <4>1. CASE s \in Daemons
        BY <3>2, <4>1, AppendFits
      <4>2. CASE s \notin Daemons
        <5>1. queue' = queue
          BY <3>2, <4>2 DEF TypeOK
        <5> QED BY <5>1 DEF TypeOK
      <4> QED BY <4>1, <4>2
    <3> QED BY <1>2, <3>1, <3>2 DEF Notify
  <2> QED BY <1>2, <2>1, <2>2, <2>3 DEF TypeOK, SendingHasMessage, Notify
<1> QED BY <1>1, <1>2

-----------------------------------------------------------------------------
(* The map.                                                                *)

LEMMA LookupsInit == Init => LookupsAreOpen
BY SignalingAssumption DEF Init, LookupsAreOpen

\* Only Register puts a session into the map, only Unregister lets a stream
\* leave it for good, and it removes its node id first.
LEMMA LookupsStep ==
  ASSUME Types, LookupsAreOpen, [Next]_vars
  PROVE  LookupsAreOpen'
<1> USE DEF Types
<1> SUFFICES ASSUME NEW n \in Nodes, nodes'[n] # None
             PROVE  /\ NodeOf[nodes'[n]] = n
                    /\ stream'[nodes'[n]] \in {"serving", "sending", "leaving"}
  BY DEF LookupsAreOpen
<1>1. nodes \in [Nodes -> Session]
      /\ stream \in [Daemons -> {"idle", "serving", "sending", "leaving", "closing", "closed"}]
  BY DEF TypeOK
<1>2. ASSUME UNCHANGED nodes,
             \A e \in Daemons : \/ stream'[e] = stream[e]
                                \/ stream'[e] \in {"serving", "sending", "leaving"}
                                \/ stream[e] \in {"closing"}
      PROVE  /\ NodeOf[nodes'[n]] = n
             /\ stream'[nodes'[n]] \in {"serving", "sending", "leaving"}
  <2>1. nodes[n] \in Daemons
    BY <1>1, <1>2 DEF Session
  <2> QED BY <1>2, <2>1 DEF LookupsAreOpen
<1>3. ASSUME NEW d \in Daemons, Register(d)
      PROVE  /\ NodeOf[nodes'[n]] = n
             /\ stream'[nodes'[n]] \in {"serving", "sending", "leaving"}
  <2>1. nodes' = [nodes EXCEPT ![NodeOf[d]] = d] /\ stream' = [stream EXCEPT ![d] = "serving"]
    BY <1>3 DEF Register
  <2>2. CASE n = NodeOf[d]
    BY <1>1, <2>1, <2>2
  <2>3. CASE n # NodeOf[d]
    <3>1. nodes'[n] = nodes[n] /\ nodes[n] \in Daemons
      BY <1>1, <2>1, <2>3 DEF Session
    <3> QED BY <1>1, <2>1, <3>1 DEF LookupsAreOpen
  <2> QED BY <2>2, <2>3
<1>4. ASSUME NEW d \in Daemons, Unregister(d)
      PROVE  /\ NodeOf[nodes'[n]] = n
             /\ stream'[nodes'[n]] \in {"serving", "sending", "leaving"}
  <2>1. nodes' = [nodes EXCEPT ![NodeOf[d]] = None] /\ stream' = [stream EXCEPT ![d] = "closing"]
    BY <1>4 DEF Unregister
  <2>2. n # NodeOf[d] /\ nodes'[n] = nodes[n] /\ nodes[n] \in Daemons
    BY <1>1, <2>1 DEF Session
  <2>3. nodes[n] # d
    BY <2>2 DEF LookupsAreOpen
  <2> QED BY <1>1, <2>1, <2>2, <2>3 DEF LookupsAreOpen
<1>5. ASSUME NEW d \in Daemons, Disconnect(d)
      PROVE  /\ NodeOf[nodes'[n]] = n
             /\ stream'[nodes'[n]] \in {"serving", "sending", "leaving"}
  <2>1. stream' = stream /\ nodes'[n] = nodes[n]
    BY <1>1, <1>5 DEF Disconnect
  <2> QED BY <2>1 DEF LookupsAreOpen
<1>6. ASSUME NEW d \in Daemons,
             Receive(d) \/ SendOk(d) \/ SendFails(d) \/ CloseChan(d)
      PROVE  /\ NodeOf[nodes'[n]] = n
             /\ stream'[nodes'[n]] \in {"serving", "sending", "leaving"}
  <2>1. UNCHANGED nodes
    BY <1>6 DEF Receive, SendOk, SendFails, CloseChan
  <2>2. \A e \in Daemons : \/ stream'[e] = stream[e]
                           \/ stream'[e] \in {"serving", "sending", "leaving"}
                           \/ stream[e] \in {"closing"}
    BY <1>1, <1>6 DEF Receive, SendOk, SendFails, CloseChan
  <2> QED BY <1>2, <2>1, <2>2
<1>7. ASSUME UNCHANGED <<nodes, stream>>
      PROVE  /\ NodeOf[nodes'[n]] = n
             /\ stream'[nodes'[n]] \in {"serving", "sending", "leaving"}
  BY <1>7 DEF LookupsAreOpen
<1>8. ASSUME NEW d \in Daemons,
             \/ LoseLink(d) \/ NoticeLoss(d) \/ Notify(d)
             \/ Dial(d) \/ TellCaller(d) \/ TellTarget(d)
      PROVE  UNCHANGED <<nodes, stream>>
  BY <1>8 DEF LoseLink, NoticeLoss, Notify, Dial, TellCaller, TellTarget, Tell
<1> QED BY <1>3, <1>4, <1>5, <1>6, <1>7, <1>8 DEF Next, vars

-----------------------------------------------------------------------------
(* The Dial calls.                                                         *)

\* A call that got past its lookups holds two sessions, the first a life of
\* the node that dials.
CallsHoldSessions ==
  \A d \in Daemons : dial[d].at \in {"tellCaller", "tellTarget", "ok"} =>
    /\ dial[d].caller \in Daemons
    /\ dial[d].target \in Daemons
    /\ NodeOf[dial[d].caller] = NodeOf[d]

\* A message is in some channel's history only when its call has told the
\* caller.
ToldByCalls ==
  \A s \in Daemons : \A i \in DOMAIN told[s] :
    dial[told[s][i].by].at \in {"tellTarget", "ok"}

CallerMessage(d) == [about |-> dial[d].target, by |-> d]
TargetMessage(d) == [about |-> dial[d].caller, by |-> d]

CallerWasTold ==
  \A d \in Daemons : dial[d].at \in {"tellTarget", "ok"} =>
    \E j \in DOMAIN told[dial[d].caller] : told[dial[d].caller][j] = CallerMessage(d)

Calls == CallsHoldSessions /\ ToldByCalls /\ CallerWasTold /\ RendezvousPairs

LEMMA CallsInit == Init => Calls
<1> SUFFICES ASSUME Init PROVE Calls
  OBVIOUS
<1>1. \A d \in Daemons : dial[d].at = "idle" /\ told[d] = <<>>
  BY DEF Init, NoDial
<1> QED BY <1>1 DEF Calls, CallsHoldSessions, ToldByCalls, CallerWasTold, RendezvousPairs

LEMMA DialKeepsTypesAndCalls ==
  ASSUME Types, LookupsAreOpen, Calls, NEW d \in Daemons, Dial(d)
  PROVE  Types' /\ Calls'
<1> DEFINE mine == nodes[NodeOf[d]]
           target == nodes[PeerPub[d]]
<1> USE DEF Types, Calls
<1>1. /\ dial[d].at = "idle"
      /\ dial' = [dial EXCEPT ![d] =
           IF target # None /\ mine # None
           THEN [at |-> "tellCaller", caller |-> mine, target |-> target]
           ELSE [NoDial EXCEPT !.at = "rejected"]]
      /\ UNCHANGED <<running, nodes, stream, queue, outgoing, link, disc, told, sent>>
  BY DEF Dial
<1>2. NodeOf[d] \in Nodes /\ PeerPub[d] \in Nodes /\ mine \in Session /\ target \in Session
  BY SignalingAssumption DEF Dial, TypeOK
<1>3. mine # None => mine \in Daemons /\ NodeOf[mine] = NodeOf[d]
  BY <1>2 DEF Session, LookupsAreOpen
<1>4. target # None => target \in Daemons
  BY <1>2 DEF Session
<1>5. dial \in [Daemons -> [at : {"idle", "tellCaller", "tellTarget", "ok", "rejected"},
                           caller : Session, target : Session]]
  BY DEF TypeOK
<1>6. \/ dial' = [dial EXCEPT ![d] = [at |-> "tellCaller", caller |-> mine, target |-> target]]
         /\ target # None /\ mine # None
      \/ dial' = [dial EXCEPT ![d] = [at |-> "rejected", caller |-> None, target |-> None]]
  <2>1. [NoDial EXCEPT !.at = "rejected"] = [at |-> "rejected", caller |-> None, target |-> None]
    BY DEF NoDial
  <2>2. CASE target # None /\ mine # None
    BY <1>1, <2>2
  <2>3. CASE ~(target # None /\ mine # None)
    BY <1>1, <2>1, <2>3
  <2> QED BY <2>2, <2>3
<1> HIDE DEF mine, target
<1>7. dial' \in [Daemons -> [at : {"idle", "tellCaller", "tellTarget", "ok", "rejected"},
                            caller : Session, target : Session]]
  BY <1>2, <1>5, <1>6 DEF Session
<1>8. Types'
  BY <1>1, <1>7 DEF TypeOK, SendingHasMessage
<1>9. \A e \in Daemons : e # d => dial'[e] = dial[e]
  BY <1>5, <1>6
<1>10. dial'[d].at \in {"tellCaller", "rejected"}
  BY <1>5, <1>6
<1>11. CallsHoldSessions'
  <2>1. dial'[d].at = "tellCaller" =>
          dial'[d].caller = mine /\ dial'[d].target = target /\ target # None /\ mine # None
    BY <1>5, <1>6
  <2>2. dial'[d].at \in {"tellCaller", "tellTarget", "ok"} =>
          /\ dial'[d].caller \in Daemons
          /\ dial'[d].target \in Daemons
          /\ NodeOf[dial'[d].caller] = NodeOf[d]
    BY <1>3, <1>4, <1>10, <2>1
  <2> QED BY <1>9, <2>2 DEF CallsHoldSessions
\* No message of d's call exists yet.
<1>12. \A s \in Daemons : \A i \in DOMAIN told[s] :
         told[s][i].by \in Daemons /\ told[s][i].by # d
  <2> TAKE s \in Daemons
  <2> TAKE i \in DOMAIN told[s]
  <2>1. told[s] \in Seq(Message)
    BY DEF TypeOK
  <2>2. told[s][i] \in Message
    BY <2>1
  <2>3. told[s][i].by \in Daemons
    BY <2>2 DEF Message
  <2>4. dial[told[s][i].by].at \in {"tellTarget", "ok"}
    BY DEF ToldByCalls
  <2> QED BY <1>1, <2>3, <2>4
<1>13. ToldByCalls'
  BY <1>1, <1>9, <1>12 DEF ToldByCalls
<1>14. CallerWasTold'
  BY <1>1, <1>9, <1>10 DEF CallerWasTold, CallerMessage
<1>15. RendezvousPairs'
  BY <1>1, <1>9, <1>12 DEF RendezvousPairs
<1> QED BY <1>8, <1>11, <1>13, <1>14, <1>15

-----------------------------------------------------------------------------
(* The two blocking sends of a call.                                       *)

LEMMA TellKeepsTypes ==
  ASSUME Types, NEW d \in Daemons, NEW s \in Daemons, NEW m \in Message,
         NEW from, NEW to \in {"tellTarget", "ok"}, Tell(d, from, to, s, m)
  PROVE  Types'
<1> USE DEF Types
<1>1. CASE Panic(s) /\ UNCHANGED <<queue, dial, told>>
  BY <1>1 DEF Tell, Panic, TypeOK, SendingHasMessage
<1>2. CASE Push(s, m) /\ dial' = [dial EXCEPT ![d].at = to] /\ UNCHANGED running
  <2>1. /\ queue' \in [Daemons -> Seq(Message \cup {Nil})]
        /\ \A e \in Daemons : Len(queue'[e]) <= ChanCap
    BY <1>2, AppendFits DEF Push
  <2>2. told' \in [Daemons -> Seq(Message)]
    BY <1>2 DEF Push, TypeOK
  <2>3. dial' \in [Daemons -> [at : {"idle", "tellCaller", "tellTarget", "ok", "rejected"},
                              caller : Session, target : Session]]
    BY <1>2 DEF TypeOK
  <2> QED BY <1>2, <2>1, <2>2, <2>3 DEF Tell, TypeOK, SendingHasMessage
<1> QED BY <1>1, <1>2 DEF Tell

\* A write adds one message to one history and touches no other.
Adds(s, m) ==
  /\ \A e \in Daemons : \A i \in DOMAIN told'[e] :
       \/ i \in DOMAIN told[e] /\ told'[e][i] = told[e][i]
       \/ e = s /\ told'[e][i] = m
  /\ \A e \in Daemons : \A i \in DOMAIN told[e] :
       i \in DOMAIN told'[e] /\ told'[e][i] = told[e][i]
  /\ \E j \in DOMAIN told'[s] : told'[s][j] = m

LEMMA PushAdds ==
  ASSUME TypeOK, NEW s \in Daemons, NEW m \in Message, Push(s, m)
  PROVE  Adds(s, m)
<1>1. told[s] \in Seq(Message) /\ told'[s] = Append(told[s], m)
      /\ \A e \in Daemons : e # s => told'[e] = told[e]
  BY DEF TypeOK, Push
<1>2. \A i \in DOMAIN told'[s] :
        \/ i \in DOMAIN told[s] /\ told'[s][i] = told[s][i]
        \/ told'[s][i] = m
  BY <1>1
<1>3. \A i \in DOMAIN told[s] : i \in DOMAIN told'[s] /\ told'[s][i] = told[s][i]
  BY <1>1
<1>4. Len(told[s]) + 1 \in DOMAIN told'[s] /\ told'[s][Len(told[s]) + 1] = m
  BY <1>1
<1> QED BY <1>1, <1>2, <1>3, <1>4 DEF Adds

LEMMA CallsUnchanged ==
  ASSUME Calls, UNCHANGED <<dial, told>>
  PROVE  Calls'
BY DEF Calls, CallsHoldSessions, ToldByCalls, CallerWasTold, RendezvousPairs, CallerMessage

\* Who a message of some history was written by.
LEMMA WrittenByDaemons ==
  ASSUME TypeOK, NEW e \in Daemons, NEW i \in DOMAIN told[e]
  PROVE  told[e][i].by \in Daemons
<1>1. told[e] \in Seq(Message)
  BY DEF TypeOK
<1>2. told[e][i] \in Message
  BY <1>1
<1> QED BY <1>2 DEF Message

\* Call d moves on and keeps its two sessions.
Advances(d, to) ==
  /\ dial'[d].at = to
  /\ \A e \in Daemons : dial'[e].caller = dial[e].caller /\ dial'[e].target = dial[e].target
  /\ \A e \in Daemons \ {d} : dial'[e] = dial[e]

LEMMA TellSteps ==
  ASSUME TypeOK, Calls, NEW d \in Daemons,
         NEW from \in {"tellCaller", "tellTarget"}, NEW to \in {"tellTarget", "ok"},
         NEW s \in Daemons, NEW m \in Message, m.by = d,
         dial[d].at = from, Adds(s, m), Advances(d, to),
         {s, m.about} = {dial[d].caller, dial[d].target},
         from = "tellCaller" => s = dial[d].caller /\ m = CallerMessage(d)
  PROVE  Calls'
<1>1. /\ dial[d].caller \in Daemons /\ dial[d].target \in Daemons
      /\ NodeOf[dial[d].caller] = NodeOf[d]
  BY DEF Calls, CallsHoldSessions
<1>2. CallsHoldSessions'
  <2> SUFFICES ASSUME NEW e \in Daemons, dial'[e].at \in {"tellCaller", "tellTarget", "ok"}
               PROVE  /\ dial'[e].caller \in Daemons
                      /\ dial'[e].target \in Daemons
                      /\ NodeOf[dial'[e].caller] = NodeOf[e]
    BY DEF CallsHoldSessions
  <2>1. CASE e = d
    BY <1>1, <2>1 DEF Advances
  <2>2. CASE e # d
    <3>1. dial'[e] = dial[e]
      BY <2>2 DEF Advances
    <3> QED BY <3>1 DEF Calls, CallsHoldSessions
  <2> QED BY <2>1, <2>2
<1>3. ToldByCalls'
  <2> SUFFICES ASSUME NEW e \in Daemons, NEW i \in DOMAIN told'[e]
               PROVE  dial'[told'[e][i].by].at \in {"tellTarget", "ok"}
    BY DEF ToldByCalls
  <2>1. CASE told'[e][i] = m
    BY <2>1 DEF Advances
  <2>2. CASE i \in DOMAIN told[e] /\ told'[e][i] = told[e][i]
    <3>1. told[e][i].by \in Daemons
      BY <2>2, WrittenByDaemons
    <3>2. dial[told[e][i].by].at \in {"tellTarget", "ok"}
      BY <2>2 DEF Calls, ToldByCalls
    <3>3. CASE told[e][i].by = d
      BY <2>2, <3>3 DEF Advances
    <3>4. CASE told[e][i].by # d
      BY <2>2, <3>1, <3>2, <3>4 DEF Advances
    <3> QED BY <3>3, <3>4
  <2> QED BY <2>1, <2>2 DEF Adds
<1>4. CallerWasTold'
  <2> SUFFICES ASSUME NEW e \in Daemons, dial'[e].at \in {"tellTarget", "ok"}
               PROVE  \E j \in DOMAIN told'[dial'[e].caller] :
                        told'[dial'[e].caller][j] = [about |-> dial'[e].target, by |-> e]
    BY DEF CallerWasTold, CallerMessage
  <2>1. dial'[e].caller = dial[e].caller /\ dial'[e].target = dial[e].target
    BY DEF Advances
  <2>2. CASE dial[e].at \in {"tellTarget", "ok"}
    <3>1. dial[e].caller \in Daemons
      BY <2>2 DEF Calls, CallsHoldSessions
    <3>2. PICK j \in DOMAIN told[dial[e].caller] :
            told[dial[e].caller][j] = [about |-> dial[e].target, by |-> e]
      BY <2>2 DEF Calls, CallerWasTold, CallerMessage
    <3>3. j \in DOMAIN told'[dial[e].caller]
          /\ told'[dial[e].caller][j] = told[dial[e].caller][j]
      BY <3>1, <3>2 DEF Adds
    <3> QED BY <2>1, <3>2, <3>3
  <2>3. CASE dial[e].at \notin {"tellTarget", "ok"}
    <3>1. e = d
      BY <2>3 DEF Advances
    <3>2. s = dial[d].caller /\ m = [about |-> dial[d].target, by |-> d]
      BY <2>3, <3>1 DEF CallerMessage
    <3>3. PICK j \in DOMAIN told'[s] : told'[s][j] = m
      BY DEF Adds
    <3> QED BY <2>1, <3>1, <3>2, <3>3
  <2> QED BY <2>2, <2>3
<1>5. RendezvousPairs'
  <2> SUFFICES ASSUME NEW e \in Daemons, NEW i \in DOMAIN told'[e]
               PROVE  /\ {e, told'[e][i].about} =
                           {dial'[told'[e][i].by].caller, dial'[told'[e][i].by].target}
                      /\ NodeOf[dial'[told'[e][i].by].caller] = NodeOf[told'[e][i].by]
    BY DEF RendezvousPairs
  <2>1. CASE i \in DOMAIN told[e] /\ told'[e][i] = told[e][i]
    <3> DEFINE w == told[e][i].by
    <3>1. w \in Daemons
      BY <2>1, WrittenByDaemons
    <3>2. {e, told[e][i].about} = {dial[w].caller, dial[w].target}
          /\ NodeOf[dial[w].caller] = NodeOf[w]
      BY <2>1 DEF Calls, RendezvousPairs
    <3>3. dial'[w].caller = dial[w].caller /\ dial'[w].target = dial[w].target
      BY <3>1 DEF Advances
    <3> QED BY <2>1, <3>2, <3>3
  <2>2. CASE e = s /\ told'[e][i] = m
    <3>1. dial'[d].caller = dial[d].caller /\ dial'[d].target = dial[d].target
      BY DEF Advances
    <3> QED BY <1>1, <2>2, <3>1
  <2> QED BY <2>1, <2>2 DEF Adds
<1> QED BY <1>2, <1>3, <1>4, <1>5 DEF Calls

\* A step of a call that moves it forward and writes the message due.
LEMMA TellKeepsTypesAndCalls ==
  ASSUME Types, Calls, NEW d \in Daemons, TellCaller(d) \/ TellTarget(d)
  PROVE  Types' /\ Calls'
<1>1. TypeOK
  BY DEF Types
<1>2. /\ dial[d].caller \in Daemons /\ dial[d].target \in Daemons
      /\ NodeOf[dial[d].caller] = NodeOf[d]
  BY DEF TellCaller, TellTarget, Tell, Calls, CallsHoldSessions
<1>3. CallerMessage(d) \in Message /\ TargetMessage(d) \in Message
  BY <1>2 DEF CallerMessage, TargetMessage, Message
<1>4. PICK s \in Daemons, m \in Message, from \in {"tellCaller", "tellTarget"},
           to \in {"tellTarget", "ok"} :
        /\ Tell(d, from, to, s, m)
        /\ \/ s = dial[d].caller /\ m = CallerMessage(d) /\ from = "tellCaller"
           \/ s = dial[d].target /\ m = TargetMessage(d) /\ from = "tellTarget"
  <2>1. CASE TellCaller(d)
    BY <1>2, <1>3, <2>1 DEF TellCaller, CallerMessage
  <2>2. CASE TellTarget(d)
    BY <1>2, <1>3, <2>2 DEF TellTarget, TargetMessage
  <2> QED BY <2>1, <2>2
<1>5. Types'
  BY <1>4, TellKeepsTypes
<1>6. CASE UNCHANGED <<dial, told>>
  BY <1>5, <1>6, CallsUnchanged
<1>7. CASE Push(s, m) /\ dial' = [dial EXCEPT ![d].at = to]
  <2>1. Adds(s, m)
    BY <1>1, <1>7, PushAdds
  <2>2. Advances(d, to)
    BY <1>1, <1>7 DEF TypeOK, Advances
  <2>3. m.by = d /\ {s, m.about} = {dial[d].caller, dial[d].target}
    BY <1>4 DEF CallerMessage, TargetMessage
  <2>4. from = "tellCaller" => s = dial[d].caller /\ m = CallerMessage(d)
    BY <1>4
  <2>5. dial[d].at = from
    BY <1>4 DEF Tell
  <2>6. Calls'
    BY <1>1, <2>1, <2>2, <2>3, <2>4, <2>5, TellSteps
  <2> QED BY <1>5, <2>6
<1> QED BY <1>4, <1>6, <1>7 DEF Tell

-----------------------------------------------------------------------------
(* The order of what is told.                                              *)

\* Only a goroutine that is in stream.Send holds a message.
HeldOnlyToSend == \A d \in Daemons : stream[d] # "sending" => outgoing[d] = Nil

Order == HeldOnlyToSend /\ NothingLostWhileServing

LEMMA OrderInit == Init => Order
BY DEF Init, Order, HeldOnlyToSend, NothingLostWhileServing, InStep, Taken

\* Taking the head of the queue makes it the message that is being sent.
LEMMA InStepReceive ==
  ASSUME NEW s \in Seq(Message), NEW q \in Seq(Message \cup {Nil}), NEW t \in Seq(Message),
         q # <<>>, Head(q) # Nil, InStep(s, Nil, q, t)
  PROVE  InStep(s, Head(q), Tail(q), t)
<1> DEFINE r == Tail(q)
           n == Len(s)
<1>1. /\ Len(q) \in Nat \ {0} /\ Len(r) = Len(q) - 1 /\ Head(q) = q[1]
      /\ \A i \in 1..Len(r) : r[i] = q[i + 1]
      /\ Len(t) \in Nat /\ n \in Nat
  OBVIOUS
<1>2. Taken(s, Nil) = n /\ Taken(s, Head(q)) = n + 1
  BY <1>1 DEF Taken
<1>3. n + 1 <= Len(t) /\ Head(q) = t[n + 1]
  BY <1>1, <1>2 DEF InStep
<1> HIDE DEF r, n
<1>4. ASSUME NEW i \in 1..Len(r), \A j \in 1..i : r[j] # Nil
      PROVE  (n + 1) + i <= Len(t) /\ r[i] = t[(n + 1) + i]
  <2>1. i + 1 \in 1..Len(q)
    BY <1>1
  <2>2. \A j \in 1..(i + 1) : q[j] # Nil
    <3> TAKE j \in 1..(i + 1)
    <3>1. CASE j = 1
      BY <1>1, <3>1
    <3>2. CASE j # 1
      <4>1. j - 1 \in 1..i /\ j - 1 \in 1..Len(r) /\ (j - 1) + 1 = j
        BY <1>1, <3>2
      <4>2. r[j - 1] = q[j]
        BY <1>1, <4>1
      <4> QED BY <1>4, <4>1, <4>2
    <3> QED BY <3>1, <3>2
  <2>3. n + (i + 1) <= Len(t) /\ q[i + 1] = t[n + (i + 1)]
    BY <1>2, <2>1, <2>2 DEF InStep
  <2>4. n + (i + 1) = (n + 1) + i
    BY <1>1
  <2> QED BY <1>1, <2>3, <2>4
<1>5. ASSUME \A i \in 1..Len(r) : r[i] # Nil
      PROVE  Len(t) = (n + 1) + Len(r)
  <2>1. ASSUME NEW i \in 1..Len(q) PROVE q[i] # Nil
    <3>1. CASE i = 1
      BY <1>1, <3>1
    <3>2. CASE i # 1
      <4>1. i - 1 \in 1..Len(r) /\ (i - 1) + 1 = i
        BY <1>1, <3>2
      <4> QED BY <1>1, <1>5, <4>1
    <3> QED BY <3>1, <3>2
  <2>2. Len(t) = n + Len(q)
    BY <1>2, <2>1 DEF InStep
  <2> QED BY <1>1, <2>2
<1> QED BY <1>2, <1>3, <1>4, <1>5 DEF InStep, r

\* What is appended to queue and history at once keeps them in step.
LEMMA InStepPush ==
  ASSUME NEW s \in Seq(Message), NEW out \in Message \cup {Nil},
         NEW q \in Seq(Message \cup {Nil}), NEW t \in Seq(Message),
         NEW m \in Message, InStep(s, out, q, t)
  PROVE  InStep(s, out, Append(q, m), Append(t, m))
<1> DEFINE r == Append(q, m)
           u == Append(t, m)
           n == Taken(s, out)
<1>1. /\ Len(q) \in Nat /\ Len(t) \in Nat /\ Len(r) = Len(q) + 1 /\ Len(u) = Len(t) + 1
      /\ r[Len(q) + 1] = m /\ u[Len(t) + 1] = m /\ m # Nil
      /\ \A i \in 1..Len(q) : r[i] = q[i]
      /\ \A i \in 1..Len(t) : u[i] = t[i]
  BY NilAssumption
<1>2. n \in Nat /\ (out # Nil => n \in Nat \ {0})
  BY DEF Taken
<1> HIDE DEF r, u, n
<1>3. out # Nil => n <= Len(u) /\ out = u[n]
  BY <1>1, <1>2 DEF InStep, n
<1>4. ASSUME NEW i \in 1..Len(r), \A j \in 1..i : r[j] # Nil
      PROVE  n + i <= Len(u) /\ r[i] = u[n + i]
  <2>1. CASE i \in 1..Len(q)
    <3>1. \A j \in 1..i : q[j] # Nil
      BY <1>1, <1>4, <2>1
    <3>2. n + i <= Len(t) /\ q[i] = t[n + i]
      BY <2>1, <3>1 DEF InStep, n
    <3> QED BY <1>1, <1>2, <2>1, <3>2
  <2>2. CASE i = Len(q) + 1
    <3>1. \A j \in 1..Len(q) : q[j] # Nil
      BY <1>1, <1>4, <2>2
    <3>2. Len(t) = n + Len(q)
      BY <3>1 DEF InStep, n
    <3> QED BY <1>1, <1>2, <2>2, <3>2
  <2> QED BY <1>1, <2>1, <2>2
<1>5. ASSUME \A i \in 1..Len(r) : r[i] # Nil
      PROVE  Len(u) = n + Len(r)
  <2>1. \A i \in 1..Len(q) : q[i] # Nil
    BY <1>1, <1>5
  <2>2. Len(t) = n + Len(q)
    BY <2>1 DEF InStep, n
  <2> QED BY <1>1, <1>2, <2>2
<1> QED BY <1>3, <1>4, <1>5 DEF InStep, r, u, n

\* A nil ends the part of the queue that is promised to be sent.
LEMMA InStepNil ==
  ASSUME NEW s, NEW out, NEW q \in Seq(Message \cup {Nil}), NEW t, InStep(s, out, q, t)
  PROVE  InStep(s, out, Append(q, Nil), t)
<1> DEFINE r == Append(q, Nil)
<1>1. /\ Len(q) \in Nat /\ Len(r) = Len(q) + 1 /\ r[Len(q) + 1] = Nil
      /\ \A i \in 1..Len(q) : r[i] = q[i]
  OBVIOUS
<1> HIDE DEF r
<1>2. ASSUME NEW i \in 1..Len(r), \A j \in 1..i : r[j] # Nil
      PROVE  Taken(s, out) + i <= Len(t) /\ r[i] = t[Taken(s, out) + i]
  <2>1. i \in 1..Len(q)
    BY <1>1, <1>2
  <2>2. \A j \in 1..i : q[j] # Nil
    BY <1>1, <1>2, <2>1
  <2> QED BY <1>1, <2>1, <2>2 DEF InStep
<1>3. ~ \A i \in 1..Len(r) : r[i] # Nil
  BY <1>1
<1> QED BY <1>2, <1>3 DEF InStep, r

\* What a stream has not begun to leave must keep in step.
Kept(d) == stream[d] \in {"idle", "serving", "sending"} =>
             InStep(sent[d], outgoing[d], queue[d], told[d])

LEMMA OrderReceive ==
  ASSUME Types, Order, NEW e \in Daemons, Receive(e), NEW d \in Daemons
  PROVE  Kept(d)' /\ (stream'[d] # "sending" => outgoing'[d] = Nil)
<1>1. /\ queue[e] \in Seq(Message \cup {Nil}) /\ queue[e] # <<>>
      /\ told[e] \in Seq(Message) /\ sent[e] \in Seq(Message)
      /\ outgoing[e] = Nil /\ InStep(sent[e], Nil, queue[e], told[e])
  BY DEF Types, TypeOK, Receive, Order, HeldOnlyToSend, NothingLostWhileServing
<1>2. CASE d # e
  <2>1. /\ stream'[d] = stream[d] /\ outgoing'[d] = outgoing[d] /\ queue'[d] = queue[d]
        /\ told'[d] = told[d] /\ sent'[d] = sent[d]
    BY <1>2 DEF Receive, Types, TypeOK
  <2> QED BY <2>1 DEF Kept, Order, HeldOnlyToSend, NothingLostWhileServing
<1>3. CASE d = e /\ Head(queue[e]) = Nil
  <2>1. stream'[d] = "leaving" /\ outgoing'[d] = Nil
    BY <1>1, <1>3 DEF Receive, Types, TypeOK
  <2> QED BY <2>1 DEF Kept
<1>4. CASE d = e /\ Head(queue[e]) # Nil
  <2>1. InStep(sent[e], Head(queue[e]), Tail(queue[e]), told[e])
    BY <1>1, <1>4, InStepReceive
  <2>2. /\ stream'[d] = "sending" /\ outgoing'[d] = Head(queue[e]) /\ queue'[d] = Tail(queue[e])
        /\ told'[d] = told[e] /\ sent'[d] = sent[e]
    BY <1>4 DEF Receive, Types, TypeOK
  <2> QED BY <2>1, <2>2 DEF Kept
<1> QED BY <1>2, <1>3, <1>4

\* A message accepted by the stream is the next one that was told.
LEMMA SendsTheNext ==
  ASSUME Types, Order, NEW e \in Daemons, SendOk(e)
  PROVE  /\ sent[e] \in Seq(Message) /\ told[e] \in Seq(Message)
         /\ Len(sent[e]) < Len(told[e])
         /\ outgoing[e] = told[e][Len(sent[e]) + 1]
         /\ sent' = [sent EXCEPT ![e] = Append(@, told[e][Len(sent[e]) + 1])]
<1>1. sent[e] \in Seq(Message) /\ told[e] \in Seq(Message)
  BY DEF Types, TypeOK
<1>2. outgoing[e] # Nil /\ InStep(sent[e], outgoing[e], queue[e], told[e])
  BY DEF Types, SendingHasMessage, SendOk, Order, NothingLostWhileServing
<1>3. Len(sent[e]) \in Nat /\ Len(told[e]) \in Nat
  BY <1>1
<1>4. Taken(sent[e], outgoing[e]) = Len(sent[e]) + 1
  BY <1>2 DEF Taken
<1>5. Len(sent[e]) + 1 <= Len(told[e]) /\ outgoing[e] = told[e][Len(sent[e]) + 1]
  BY <1>2, <1>4 DEF InStep
<1>6. sent' = [sent EXCEPT ![e] = Append(@, outgoing[e])]
  BY DEF SendOk
<1> QED BY <1>1, <1>3, <1>5, <1>6

LEMMA OrderSend ==
  ASSUME Types, Order, NEW e \in Daemons, SendOk(e), NEW d \in Daemons
  PROVE  Kept(d)' /\ (stream'[d] # "sending" => outgoing'[d] = Nil)
<1>1. CASE d # e
  <2>1. /\ stream'[d] = stream[d] /\ outgoing'[d] = outgoing[d] /\ queue'[d] = queue[d]
        /\ told'[d] = told[d] /\ sent'[d] = sent[d]
    BY <1>1 DEF SendOk, Types, TypeOK
  <2> QED BY <2>1 DEF Kept, Order, HeldOnlyToSend, NothingLostWhileServing
<1>2. CASE d = e
  <2>1. /\ outgoing[d] # Nil /\ InStep(sent[d], outgoing[d], queue[d], told[d])
        /\ sent[d] \in Seq(Message) /\ outgoing[d] \in Message
    BY <1>2 DEF Types, TypeOK, SendingHasMessage, SendOk, Order, NothingLostWhileServing
  <2>2. /\ outgoing'[d] = Nil /\ queue'[d] = queue[d] /\ told'[d] = told[d]
        /\ sent'[d] = Append(sent[d], outgoing[d])
    BY <1>2 DEF SendOk, Types, TypeOK
  <2>3. Taken(Append(sent[d], outgoing[d]), Nil) = Taken(sent[d], outgoing[d])
    BY <2>1 DEF Taken
  <2>4. InStep(Append(sent[d], outgoing[d]), Nil, queue[d], told[d])
    BY <2>1, <2>3 DEF InStep
  <2> QED BY <2>2, <2>4 DEF Kept
<1> QED BY <1>1, <1>2

LEMMA OrderTell ==
  ASSUME Types, Calls, Order, NEW e \in Daemons, TellCaller(e) \/ TellTarget(e), NEW d \in Daemons
  PROVE  Kept(d)' /\ (stream'[d] # "sending" => outgoing'[d] = Nil)
<1>1. /\ dial[e].caller \in Daemons /\ dial[e].target \in Daemons
      /\ UNCHANGED <<stream, outgoing, sent>>
  BY DEF TellCaller, TellTarget, Tell, Calls, CallsHoldSessions
<1>2. PICK s \in Daemons, m \in Message : Push(s, m) \/ UNCHANGED <<queue, told>>
  <2>1. CallerMessage(e) \in Message /\ TargetMessage(e) \in Message
    BY <1>1 DEF CallerMessage, TargetMessage, Message
  <2>2. \/ Push(dial[e].caller, CallerMessage(e)) \/ UNCHANGED <<queue, told>>
        \/ Push(dial[e].target, TargetMessage(e))
    BY DEF TellCaller, TellTarget, Tell, CallerMessage, TargetMessage
  <2> QED BY <1>1, <2>1, <2>2
<1>3. CASE UNCHANGED <<queue, told>>
  BY <1>1, <1>3 DEF Kept, Order, HeldOnlyToSend, NothingLostWhileServing
<1>4. CASE Push(s, m) /\ d = s
  <2>1. /\ queue[d] \in Seq(Message \cup {Nil}) /\ told[d] \in Seq(Message)
        /\ sent[d] \in Seq(Message) /\ outgoing[d] \in Message \cup {Nil}
        /\ queue'[d] = Append(queue[d], m) /\ told'[d] = Append(told[d], m)
    BY <1>4 DEF Types, TypeOK, Push
  <2>2. InStep(sent[d], outgoing[d], queue[d], told[d]) =>
          InStep(sent[d], outgoing[d], queue'[d], told'[d])
    BY <2>1, InStepPush
  <2> QED BY <1>1, <2>2 DEF Kept, Order, HeldOnlyToSend, NothingLostWhileServing
<1>5. CASE Push(s, m) /\ d # s
  <2>1. queue'[d] = queue[d] /\ told'[d] = told[d]
    BY <1>5 DEF Types, TypeOK, Push
  <2> QED BY <1>1, <2>1 DEF Kept, Order, HeldOnlyToSend, NothingLostWhileServing
<1> QED BY <1>2, <1>3, <1>4, <1>5

LEMMA OrderNotify ==
  ASSUME Types, Order, NEW e \in Daemons, Notify(e), NEW d \in Daemons
  PROVE  Kept(d)' /\ (stream'[d] # "sending" => outgoing'[d] = Nil)
<1>1. UNCHANGED <<stream, outgoing, told, sent>>
  BY DEF Notify
<1>2. queue[d] \in Seq(Message \cup {Nil})
  BY DEF Types, TypeOK
<1>3. queue'[d] = queue[d] \/ queue'[d] = Append(queue[d], Nil)
  <2> DEFINE s == disc[e].session
  <2>1. queue' = queue \/ queue' = [queue EXCEPT ![s] = Append(queue[s], Nil)]
    BY DEF Notify
  <2>2. queue \in [Daemons -> Seq(Message \cup {Nil})]
    BY DEF Types, TypeOK
  <2> HIDE DEF s
  <2>3. CASE queue' = [queue EXCEPT ![s] = Append(queue[s], Nil)]
    BY <2>2, <2>3
  <2> QED BY <2>1, <2>3
<1>4. InStep(sent[d], outgoing[d], queue[d], told[d]) =>
        InStep(sent[d], outgoing[d], queue'[d], told[d])
  BY <1>2, <1>3, InStepNil
<1> QED BY <1>1, <1>4 DEF Kept, Order, HeldOnlyToSend, NothingLostWhileServing

LEMMA OrderStep ==
  ASSUME Types, Calls, Order, [Next]_vars
  PROVE  Order'
<1> SUFFICES ASSUME NEW d \in Daemons
             PROVE  Kept(d)' /\ (stream'[d] # "sending" => outgoing'[d] = Nil)
  BY DEF Order, HeldOnlyToSend, NothingLostWhileServing, Kept
<1> DEFINE Frame == /\ UNCHANGED <<queue, told, sent>> /\ outgoing'[d] \in {outgoing[d], Nil}
                    /\ \/ stream'[d] = stream[d] /\ outgoing'[d] = outgoing[d]
                       \/ stream[d] = "idle" /\ stream'[d] = "serving" /\ outgoing'[d] = outgoing[d]
                       \/ stream'[d] \in {"leaving", "closing", "closed"} /\ outgoing'[d] = Nil
<1>1. ASSUME Frame PROVE Kept(d)' /\ (stream'[d] # "sending" => outgoing'[d] = Nil)
  BY <1>1 DEF Kept, Order, HeldOnlyToSend, NothingLostWhileServing
<1>2. ASSUME NEW e \in Daemons, Register(e) \/ SendFails(e) \/ Unregister(e) \/ CloseChan(e)
      PROVE  Frame
  BY <1>2 DEF Register, SendFails, Unregister, CloseChan, callVars, Types, TypeOK,
              Order, HeldOnlyToSend
<1>3. ASSUME NEW e \in Daemons, Disconnect(e) \/ Dial(e) \/ LoseLink(e) \/ NoticeLoss(e)
      PROVE  Frame
  BY <1>3 DEF Disconnect, Dial, LoseLink, NoticeLoss
<1>4. CASE UNCHANGED vars
  <2>1. Frame
    BY <1>4 DEF vars
  <2> QED BY <1>1, <2>1
<1> HIDE DEF Frame
<1> QED BY <1>1, <1>2, <1>3, <1>4, OrderReceive, OrderSend, OrderTell, OrderNotify DEF Next

-----------------------------------------------------------------------------
(* The invariant, and what follows from it.                                *)

IInv == Types /\ LookupsAreOpen /\ Calls /\ Order

LEMMA IInvInit == Init => IInv
BY TypesInit, LookupsInit, CallsInit, OrderInit DEF IInv

LEMMA IInvStep == IInv /\ [Next]_vars => IInv'
<1> SUFFICES ASSUME IInv, [Next]_vars PROVE IInv'
  OBVIOUS
<1> USE DEF IInv
<1>1. LookupsAreOpen' /\ Order'
  BY LookupsStep, OrderStep
<1>2. ASSUME UNCHANGED <<dial, told>> PROVE Calls'
  BY <1>2, CallsUnchanged
<1>3. ASSUME NEW d \in Daemons, StreamStep(d) PROVE Types' /\ Calls'
  <2>1. UNCHANGED <<dial, told>>
    BY <1>3 DEF StreamStep, Register, Receive, SendOk, SendFails, Unregister,
                CloseChan, LoseLink, NoticeLoss, callVars
  <2> QED BY <1>2, <1>3, <2>1, TypesStream
<1>4. ASSUME NEW d \in Daemons, Disconnect(d) \/ Notify(d) PROVE Types' /\ Calls'
  <2>1. UNCHANGED <<dial, told>>
    BY <1>4 DEF Disconnect, Notify
  <2> QED BY <1>2, <1>4, <2>1, TypesDisconnect
<1>5. ASSUME NEW d \in Daemons, Dial(d) PROVE Types' /\ Calls'
  BY <1>5, DialKeepsTypesAndCalls
<1>6. ASSUME NEW d \in Daemons, TellCaller(d) \/ TellTarget(d) PROVE Types' /\ Calls'
  BY <1>6, TellKeepsTypesAndCalls
<1>7. CASE UNCHANGED vars
  <2>1. Types'
    BY <1>7 DEF vars, Types, TypeOK, SendingHasMessage
  <2>2. Calls'
    BY <1>2, <1>7 DEF vars
  <2> QED BY <1>1, <2>1, <2>2
<1> QED BY <1>1, <1>3, <1>4, <1>5, <1>6, <1>7 DEF Next, StreamStep

LEMMA Always == Spec => []IInv
BY IInvInit, IInvStep, PTL DEF Spec

\* Every variable of the server keeps its type and no EventChan ever holds
\* more than its capacity, for any number of nodes, lives and calls
\* (server/main.go's blocking and selecting channel sends).
THEOREM SignalingTypes == Spec => []TypeOK
<1>1. IInv => TypeOK
  BY DEF IInv, Types
<1> QED BY <1>1, Always, PTL

\* SendSignal never takes a session out of the map whose goroutine has gone
\* past its deferred delete (StartConnection's defer, SendSignal's lookups).
THEOREM LookupsStayOpen == Spec => []LookupsAreOpen
<1>1. IInv => LookupsAreOpen
  BY DEF IInv
<1> QED BY <1>1, Always, PTL

\* Every PeerFound names the other side of the rendezvous that caused it
\* (the two sends of SendSignal's Dial branch).
THEOREM PairsMatch == Spec => []RendezvousPairs
<1>1. IInv => RendezvousPairs
  BY DEF IInv, Calls
<1> QED BY <1>1, Always, PTL

\* Once the target of a Dial has been told, so has its caller (the order of
\* the two sends of SendSignal's Dial branch).
THEOREM CallerFirst == Spec => []CallerToldFirst
<1>1. IInv => CallerToldFirst
  <2> SUFFICES ASSUME IInv, NEW s \in Daemons, NEW i \in DOMAIN told[s]
               PROVE  \E j \in DOMAIN told[dial[told[s][i].by].caller] :
                        told[dial[told[s][i].by].caller][j]
                          = [about |-> dial[told[s][i].by].target, by |-> told[s][i].by]
    BY DEF CallerToldFirst
  <2>1. told[s] \in Seq(Message)
    BY DEF IInv, Types, TypeOK
  <2>2. told[s][i] \in Message
    BY <2>1
  <2>3. told[s][i].by \in Daemons
    BY <2>2 DEF Message
  <2>4. dial[told[s][i].by].at \in {"tellTarget", "ok"}
    BY DEF IInv, Calls, ToldByCalls
  <2> QED BY <2>3, <2>4 DEF IInv, Calls, CallerWasTold, CallerMessage
<1> QED BY <1>1, Always, PTL

\* What is put into the channel of a stream that has not begun to leave is
\* sent or waits, in order (StartConnection's loop and SendSignal's writers).
THEOREM NothingLost == Spec => []NothingLostWhileServing
<1>1. IInv => NothingLostWhileServing
  BY DEF IInv, Order
<1> QED BY <1>1, Always, PTL

-----------------------------------------------------------------------------
(* Who a node id finds.                                                    *)

\* A Disconnect call that has not run holds no session.
HoldsNothingYet == \A e \in Daemons : disc[e].at = "idle" => disc[e].session = None

LEMMA FoundInit == Init => FoundUnlessCleanedUp /\ HoldsNothingYet
BY DEF Init, FoundUnlessCleanedUp, HoldsNothingYet, NoDisc

LEMMA HoldsNothingStep ==
  ASSUME Types, HoldsNothingYet, [Next]_vars
  PROVE  HoldsNothingYet'
<1>1. disc \in [Daemons -> [at : {"idle", "notify", "done"}, session : Session]]
  BY DEF Types, TypeOK
<1>2. ASSUME NEW e \in Daemons, Disconnect(e) \/ Notify(e) PROVE HoldsNothingYet'
  <2>1. \/ disc' = disc \/ disc' = [disc EXCEPT ![e].at = "done"]
        \/ disc' = [disc EXCEPT ![e] = [at |-> "notify", session |-> nodes[NodeOf[e]]]]
    BY <1>2 DEF Disconnect, Notify
  <2> QED BY <1>1, <2>1 DEF HoldsNothingYet
<1>3. ASSUME NEW e \in Daemons,
             \/ Register(e) \/ Receive(e) \/ SendOk(e) \/ SendFails(e) \/ Unregister(e) \/ CloseChan(e)
             \/ LoseLink(e) \/ NoticeLoss(e) \/ Dial(e) \/ TellCaller(e) \/ TellTarget(e)
      PROVE  disc' = disc
  BY <1>3 DEF Register, Receive, SendOk, SendFails, Unregister, CloseChan, LoseLink, NoticeLoss,
              Dial, TellCaller, TellTarget, Tell, callVars
<1> QED BY <1>2, <1>3 DEF Next, vars, HoldsNothingYet

LEMMA FoundStep ==
  ASSUME Types, FoundUnlessCleanedUp, HoldsNothingYet, [Next]_vars
  PROVE  FoundUnlessCleanedUp'
<1> SUFFICES ASSUME NEW d \in Daemons,
                    stream'[d] \in {"serving", "sending"}, link'[d] = "up",
                    \A f \in Daemons : disc'[f].session # d,
                    \A f \in Daemons : NodeOf[f] = NodeOf[d] => stream'[f] \notin {"closing", "closed"}
             PROVE  nodes'[NodeOf[d]] = d
  BY DEF FoundUnlessCleanedUp
<1>1. /\ nodes \in [Nodes -> Session] /\ NodeOf \in [Daemons -> Nodes]
      /\ stream \in [Daemons -> {"idle", "serving", "sending", "leaving", "closing", "closed"}]
      /\ link \in [Daemons -> {"off", "up", "lost", "broken"}]
      /\ disc \in [Daemons -> [at : {"idle", "notify", "done"}, session : Session]]
  BY SignalingAssumption DEF Types, TypeOK
\* Nothing that keeps d from being found is undone, so it was found before.
<1>2. ASSUME stream[d] \in {"serving", "sending"}, link[d] = "up",
             \A f \in Daemons : disc[f].session \in {None, disc'[f].session},
             \A f \in Daemons : stream[f] \in {"closing", "closed"} => stream'[f] \in {"closing", "closed"}
      PROVE  nodes[NodeOf[d]] = d
  BY <1>2, SignalingAssumption DEF FoundUnlessCleanedUp
<1>3. ASSUME NEW e \in Daemons, Register(e) PROVE nodes'[NodeOf[d]] = d
  <2>1. CASE NodeOf[e] = NodeOf[d]
    <3>1. e = d
      BY <1>1, <1>3, <2>1 DEF Register
    <3> QED BY <1>1, <1>3, <3>1 DEF Register
  <2>2. CASE NodeOf[e] # NodeOf[d]
    <3>1. e # d /\ nodes'[NodeOf[d]] = nodes[NodeOf[d]] /\ disc' = disc
          /\ stream'[d] = stream[d] /\ link'[d] = link[d]
          /\ \A f \in Daemons : stream'[f] = stream[f] \/ stream[f] = "idle"
      BY <1>1, <1>3, <2>2 DEF Register, callVars
    <3> QED BY <1>2, <3>1
  <2> QED BY <2>1, <2>2
<1>4. ASSUME NEW e \in Daemons, Unregister(e) PROVE nodes'[NodeOf[d]] = d
  <2>1. NodeOf[e] # NodeOf[d] /\ e # d
    BY <1>1, <1>4 DEF Unregister
  <2>2. /\ nodes'[NodeOf[d]] = nodes[NodeOf[d]] /\ disc' = disc /\ link' = link
        /\ stream'[d] = stream[d]
        /\ \A f \in Daemons : stream'[f] = stream[f] \/ stream[f] = "leaving"
    BY <1>1, <1>4, <2>1 DEF Unregister, callVars
  <2> QED BY <1>2, <2>2
<1>5. ASSUME NEW e \in Daemons, Disconnect(e) PROVE nodes'[NodeOf[d]] = d
  <2> DEFINE n == NodeOf[e]
  <2>1. UNCHANGED <<stream, link>>
    BY <1>5 DEF Disconnect
  <2>2. \/ nodes' = nodes /\ disc' = [disc EXCEPT ![e].at = "done"]
        \/ /\ nodes' = [nodes EXCEPT ![n] = None]
           /\ disc' = [disc EXCEPT ![e] = [at |-> "notify", session |-> nodes[n]]]
    BY <1>5 DEF Disconnect
  <2>3. CASE nodes' = nodes /\ disc' = [disc EXCEPT ![e].at = "done"]
    <3>1. \A f \in Daemons : disc'[f].session = disc[f].session
      BY <1>1, <2>3
    <3> QED BY <1>2, <2>1, <2>3, <3>1
  <2>4. CASE /\ nodes' = [nodes EXCEPT ![n] = None]
             /\ disc' = [disc EXCEPT ![e] = [at |-> "notify", session |-> nodes[n]]]
    <3>1. \A f \in Daemons \ {e} : disc'[f].session = disc[f].session
      BY <1>1, <2>4
    <3>2. disc'[e].session = nodes[n]
      BY <1>1, <2>4
    <3>3. \A f \in Daemons : disc[f].session # d
      BY <3>1, <1>5, SignalingAssumption DEF Disconnect, HoldsNothingYet
    <3>4. nodes[NodeOf[d]] = d
      BY <2>1, <3>3 DEF FoundUnlessCleanedUp
    <3>5. NodeOf[e] # NodeOf[d]
      BY <3>2, <3>4
    <3> QED BY <1>1, <2>4, <3>4, <3>5
  <2> QED BY <2>2, <2>3, <2>4
<1>6. ASSUME NEW e \in Daemons,
             \/ Receive(e) \/ SendOk(e) \/ SendFails(e) \/ CloseChan(e)
             \/ LoseLink(e) \/ NoticeLoss(e) \/ Dial(e) \/ TellCaller(e) \/ TellTarget(e)
      PROVE  nodes'[NodeOf[d]] = d
  <2>1. nodes' = nodes /\ disc' = disc /\ link[d] = "up"
    BY <1>1, <1>6 DEF Receive, SendOk, SendFails, CloseChan, LoseLink, NoticeLoss, Dial,
                     TellCaller, TellTarget, Tell, callVars
  <2>2. /\ stream[d] \in {"serving", "sending"}
        /\ \A f \in Daemons : stream[f] \in {"closing", "closed"} => stream'[f] \in {"closing", "closed"}
    BY <1>1, <1>6 DEF Receive, SendOk, SendFails, CloseChan, LoseLink, NoticeLoss, Dial,
                     TellCaller, TellTarget, Tell
  <2> QED BY <1>2, <2>1, <2>2
<1>7. ASSUME NEW e \in Daemons, Notify(e) PROVE nodes'[NodeOf[d]] = d
  <2>1. UNCHANGED <<nodes, stream, link>>
    BY <1>7 DEF Notify
  <2>2. disc' = disc \/ disc' = [disc EXCEPT ![e].at = "done"]
    BY <1>7 DEF Notify
  <2>3. \A f \in Daemons : disc'[f].session = disc[f].session
    BY <1>1, <2>2
  <2> QED BY <1>2, <2>1, <2>3
<1>8. CASE UNCHANGED vars
  BY <1>2, <1>8 DEF vars
<1> QED BY <1>3, <1>4, <1>5, <1>6, <1>7, <1>8 DEF Next

\* A daemon with an open stream can be dialled unless its node was
\* disconnected while it was the one registered, or an earlier life's
\* goroutine has run its deferred delete (StartConnection, SendSignal).
THEOREM FoundStays == Spec => []FoundUnlessCleanedUp
<1>1. IInv /\ FoundUnlessCleanedUp /\ HoldsNothingYet /\ [Next]_vars
        => FoundUnlessCleanedUp' /\ HoldsNothingYet'
  BY FoundStep, HoldsNothingStep DEF IInv
<1> QED BY <1>1, FoundInit, Always, PTL DEF Spec

-----------------------------------------------------------------------------
(* A registered node is found until somebody asks for its removal, and a   *)
(* dial comes after the registration: a second rejected dial of a pair     *)
(* would have missed a registered node.                                    *)

RegisteredUntilLeft ==
  \A d \in Daemons :
    /\ link[d] = "off" => dial[d].at = "idle"
    /\ link[d] # "off" => nodes[NodeOf[d]] # None \/ Left(NodeOf[d])

LEMMA PairsInit == Init => RegisteredUntilLeft /\ OneDialGetsThrough
BY DEF Init, RegisteredUntilLeft, OneDialGetsThrough, NoDial

LEMMA LeftStays ==
  ASSUME Types, [Next]_vars, NEW n \in Nodes, Left(n)
  PROVE  Left(n)'
<1> USE DEF Types, TypeOK
<1>1. PICK f \in Daemons :
        NodeOf[f] = n /\ (disc[f].at # "idle" \/ stream[f] \in {"closing", "closed"})
  BY DEF Left
<1>2. SUFFICES ASSUME disc'[f].at # "idle" \/ stream'[f] \in {"closing", "closed"}
               PROVE  Left(n)'
  <2>1. CASE UNCHANGED vars BY <1>1, <2>1 DEF vars
  <2>2. ASSUME NEW e \in Daemons, StreamStep(e) \/ LoseLink(e) \/ NoticeLoss(e)
        PROVE  disc'[f].at # "idle" \/ stream'[f] \in {"closing", "closed"}
    BY <1>1, <2>2 DEF StreamStep, Register, Receive, SendOk, SendFails, Unregister, CloseChan,
                      LoseLink, NoticeLoss, callVars
  <2>3. ASSUME NEW e \in Daemons, Dial(e) \/ TellCaller(e) \/ TellTarget(e)
        PROVE  disc'[f].at # "idle" \/ stream'[f] \in {"closing", "closed"}
    BY <1>1, <2>3 DEF Dial, TellCaller, TellTarget, Tell
  <2>4. ASSUME NEW e \in Daemons, Disconnect(e) \/ Notify(e)
        PROVE  disc'[f].at # "idle" \/ stream'[f] \in {"closing", "closed"}
    <3>1. stream' = stream BY <2>4 DEF Disconnect, Notify
    <3>2. disc' = disc \/ disc' = [disc EXCEPT ![e].at = "done"]
          \/ disc' = [disc EXCEPT ![e] = [at |-> "notify", session |-> nodes[NodeOf[e]]]]
      BY <2>4 DEF Disconnect, Notify
    <3>3. CASE disc' = disc BY <1>1, <3>1, <3>3
    <3>4. CASE disc' = [disc EXCEPT ![e].at = "done"]
      <4>1. disc'[f].at \in {disc[f].at, "done"} BY <3>4
      <4> QED BY <1>1, <3>1, <4>1
    <3>5. CASE disc' = [disc EXCEPT ![e] = [at |-> "notify", session |-> nodes[NodeOf[e]]]]
      <4>1. disc'[f].at \in {disc[f].at, "notify"} BY <3>5
      <4> QED BY <1>1, <3>1, <4>1
    <3> QED BY <3>2, <3>3, <3>4, <3>5
  <2> QED BY <1>2, <2>1, <2>2, <2>3, <2>4 DEF Next, StreamStep
<1> QED BY <1>1, <1>2 DEF Left

LEMMA PairsStep ==
  ASSUME Types, RegisteredUntilLeft, OneDialGetsThrough, [Next]_vars
  PROVE  RegisteredUntilLeft' /\ OneDialGetsThrough'
<1> USE SignalingAssumption DEF Types, TypeOK
<1>1. ASSUME NEW d \in Daemons
      PROVE  /\ link'[d] = "off" => dial'[d].at = "idle"
             /\ link'[d] # "off" => nodes'[NodeOf[d]] # None \/ Left(NodeOf[d])'
  <2>1. /\ link[d] = "off" => dial[d].at = "idle"
        /\ link[d] # "off" => nodes[NodeOf[d]] # None \/ Left(NodeOf[d])'
    BY <1>1, LeftStays DEF RegisteredUntilLeft
  <2>2. CASE UNCHANGED vars BY <2>1, <2>2 DEF vars
  <2>3. ASSUME NEW e \in Daemons, Register(e)
        PROVE  /\ link'[d] = "off" => dial'[d].at = "idle"
               /\ link'[d] # "off" => nodes'[NodeOf[d]] # None \/ Left(NodeOf[d])'
    <3>1. /\ nodes' = [nodes EXCEPT ![NodeOf[e]] = e]
          /\ link' = [link EXCEPT ![e] = "up"]
          /\ dial' = dial
      BY <2>3 DEF Register, callVars
    <3>2. NodeOf[d] \in Nodes /\ NodeOf[e] \in Nodes /\ e # None OBVIOUS
    <3>3. CASE d = e BY <3>1, <3>2, <3>3
    <3>4. CASE d # e
      <4>1. link'[d] = link[d] BY <3>1, <3>4
      <4>2. nodes[NodeOf[d]] # None => nodes'[NodeOf[d]] # None
        BY <3>1, <3>2
      <4> QED BY <2>1, <3>1, <4>1, <4>2
    <3> QED BY <3>3, <3>4
  <2>4. ASSUME NEW e \in Daemons, Unregister(e)
        PROVE  /\ link'[d] = "off" => dial'[d].at = "idle"
               /\ link'[d] # "off" => nodes'[NodeOf[d]] # None \/ Left(NodeOf[d])'
    <3>1. /\ nodes' = [nodes EXCEPT ![NodeOf[e]] = None]
          /\ stream' = [stream EXCEPT ![e] = "closing"]
          /\ UNCHANGED <<link, dial>>
      BY <2>4 DEF Unregister, callVars
    <3>2. CASE NodeOf[e] = NodeOf[d]
      <4>1. stream'[e] \in {"closing", "closed"} BY <3>1
      <4>2. Left(NodeOf[d])' BY <3>2, <4>1 DEF Left
      <4> QED BY <2>1, <3>1, <4>2
    <3>3. CASE NodeOf[e] # NodeOf[d] BY <2>1, <3>1, <3>3
    <3> QED BY <3>2, <3>3
  <2>5. ASSUME NEW e \in Daemons, Disconnect(e)
        PROVE  /\ link'[d] = "off" => dial'[d].at = "idle"
               /\ link'[d] # "off" => nodes'[NodeOf[d]] # None \/ Left(NodeOf[d])'
    <3>1. /\ UNCHANGED <<link, dial>>
          /\ nodes' = nodes \/ nodes' = [nodes EXCEPT ![NodeOf[e]] = None]
          /\ \/ disc' = [disc EXCEPT ![e].at = "done"]
             \/ disc' = [disc EXCEPT ![e] = [at |-> "notify", session |-> nodes[NodeOf[e]]]]
      BY <2>5 DEF Disconnect
    <3>2. CASE NodeOf[e] = NodeOf[d]
      <4>1. disc'[e].at # "idle" BY <3>1
      <4>2. Left(NodeOf[d])' BY <3>2, <4>1 DEF Left
      <4> QED BY <2>1, <3>1, <4>2
    <3>3. CASE NodeOf[e] # NodeOf[d] BY <2>1, <3>1, <3>3
    <3> QED BY <3>2, <3>3
  <2>6. ASSUME NEW e \in Daemons, Dial(e)
        PROVE  /\ link'[d] = "off" => dial'[d].at = "idle"
               /\ link'[d] # "off" => nodes'[NodeOf[d]] # None \/ Left(NodeOf[d])'
    <3>1. link[e] # "off" /\ UNCHANGED <<link, nodes>> BY <2>6 DEF Dial
    <3>2. d # e => dial'[d] = dial[d] BY <2>6 DEF Dial
    <3> QED BY <2>1, <3>1, <3>2
  <2>7. ASSUME NEW e \in Daemons, TellCaller(e) \/ TellTarget(e)
        PROVE  /\ link'[d] = "off" => dial'[d].at = "idle"
               /\ link'[d] # "off" => nodes'[NodeOf[d]] # None \/ Left(NodeOf[d])'
    <3>1. /\ dial[e].at # "idle"
          /\ UNCHANGED <<link, nodes>>
      BY <2>7 DEF TellCaller, TellTarget, Tell
    <3>2. d # e => dial'[d] = dial[d]
      BY <2>7 DEF TellCaller, TellTarget, Tell
    <3> QED BY <2>1, <3>1, <3>2 DEF RegisteredUntilLeft
  <2>8. ASSUME NEW e \in Daemons,
               \/ Receive(e) \/ SendOk(e) \/ SendFails(e) \/ CloseChan(e)
               \/ LoseLink(e) \/ NoticeLoss(e) \/ Notify(e)
        PROVE  /\ link'[d] = "off" => dial'[d].at = "idle"
               /\ link'[d] # "off" => nodes'[NodeOf[d]] # None \/ Left(NodeOf[d])'
    <3>1. nodes' = nodes /\ dial' = dial
      BY <2>8 DEF Receive, SendOk, SendFails, CloseChan, LoseLink, NoticeLoss, Notify, callVars
    <3>2. link'[d] = "off" <=> link[d] = "off"
      BY <2>8 DEF Receive, SendOk, SendFails, CloseChan, LoseLink, NoticeLoss, Notify
    <3> QED BY <2>1, <3>1, <3>2
  <2> QED BY <2>2, <2>3, <2>4, <2>5, <2>6, <2>7, <2>8 DEF Next
<1>2. ASSUME NEW d \in Daemons, NEW e \in Daemons,
             PeerPub[d] = NodeOf[e], PeerPub[e] = NodeOf[d],
             dial'[d].at = "rejected", dial'[e].at = "rejected",
             ~Left(NodeOf[d])', ~Left(NodeOf[e])'
      PROVE  FALSE
  <2>1. ~Left(NodeOf[d]) /\ ~Left(NodeOf[e])
    BY <1>2, LeftStays
  <2>2. PICK f \in {d, e} : dial[f].at # "rejected"
    BY <1>2, <2>1 DEF OneDialGetsThrough
  <2>3. dial'[f].at = "rejected" BY <1>2
  <2>4. Dial(f)
    <3>1. CASE UNCHANGED vars BY <2>2, <2>3, <3>1 DEF vars
    <3>2. ASSUME NEW g \in Daemons,
                 \/ StreamStep(g) \/ LoseLink(g) \/ NoticeLoss(g) \/ Disconnect(g) \/ Notify(g)
          PROVE  dial' = dial
      BY <3>2 DEF StreamStep, Register, Receive, SendOk, SendFails, Unregister, CloseChan,
                  LoseLink, NoticeLoss, Disconnect, Notify, callVars
    <3>3. ASSUME NEW g \in Daemons, TellCaller(g) \/ TellTarget(g)
          PROVE  dial'[f].at # "rejected"
      BY <2>2, <3>3 DEF TellCaller, TellTarget, Tell
    <3>4. ASSUME NEW g \in Daemons, Dial(g) PROVE g = f
      <4>1. g # f => dial'[f] = dial[f] BY <3>4 DEF Dial
      <4> QED BY <2>2, <2>3, <4>1
    <3> QED BY <2>2, <2>3, <3>1, <3>2, <3>3, <3>4 DEF Next, StreamStep
  <2>5. /\ link[f] # "off"
        /\ dial[f].at = "idle"
        /\ nodes[NodeOf[f]] = None \/ nodes[PeerPub[f]] = None
    BY <2>3, <2>4 DEF Dial
  <2>6. nodes[NodeOf[f]] # None
    BY <2>1, <2>5 DEF RegisteredUntilLeft
  <2>7. PICK g \in {d, e} : NodeOf[g] = PeerPub[f] BY <1>2
  <2>8. g # f BY <2>5, <2>6, <2>7
  <2>9. dial[g].at = "rejected"
    BY <1>2, <2>4, <2>8 DEF Dial
  <2>10. link[g] # "off"
    BY <2>9 DEF RegisteredUntilLeft
  <2> QED BY <2>1, <2>5, <2>6, <2>7, <2>10 DEF RegisteredUntilLeft
<1> QED BY <1>1, <1>2 DEF RegisteredUntilLeft, OneDialGetsThrough

\* Of two daemons that dial each other, one at least is not rejected, unless
\* a life of one of their nodes was disconnected or cleaned up (SendSignal
\* against the order of start_registration and dial_peer).
THEOREM OneOfTwoDials == Spec => []OneDialGetsThrough
<1>1. Init => RegisteredUntilLeft /\ OneDialGetsThrough BY PairsInit
<1>2. IInv /\ RegisteredUntilLeft /\ OneDialGetsThrough /\ [Next]_vars
        => RegisteredUntilLeft' /\ OneDialGetsThrough'
  BY PairsStep DEF IInv
<1> QED BY <1>1, <1>2, Always, PTL DEF Spec

-----------------------------------------------------------------------------
(* The refinement.                                                         *)

CallType == [at : {"idle", "tellCaller", "tellTarget", "ok", "rejected"},
             caller : Session, target : Session]

\* A call as the meeting it stands for.
LEMMA MeetingFields ==
  ASSUME NEW c \in CallType
  PROVE  MeetingOf(c) = [at |-> Stage[c.at], caller |-> c.caller, target |-> c.target]
BY DEF CallType, MeetingOf

LEMMA Stages ==
  /\ Stage["idle"] = "none" /\ Stage["rejected"] = "none" /\ Stage["tellCaller"] = "chosen"
  /\ Stage["tellTarget"] = "halfway" /\ Stage["ok"] = "made"
BY DEF Stage

\* A Dial call that has not run holds no sessions.
NoCallYet == \A d \in Daemons : dial[d].at = "idle" =>
               dial[d].caller = None /\ dial[d].target = None

LEMMA NoCallInit == Init => NoCallYet
BY DEF Init, NoCallYet, NoDial

\* A step of a daemon's call changes that call only, and its other steps none.
LEMMA CallSteps ==
  ASSUME Types, NEW d \in Daemons, TellCaller(d) \/ TellTarget(d)
  PROVE  \/ UNCHANGED <<dial, told, sent>>
         \/ /\ dial[d].at = "tellCaller"
            /\ dial' = [dial EXCEPT ![d].at = "tellTarget"]
            /\ told' = [told EXCEPT ![dial[d].caller] = Append(@, CallerMessage(d))]
            /\ sent' = sent
         \/ /\ dial[d].at = "tellTarget"
            /\ dial' = [dial EXCEPT ![d].at = "ok"]
            /\ told' = [told EXCEPT ![dial[d].target] = Append(@, TargetMessage(d))]
            /\ sent' = sent
BY DEF TellCaller, TellTarget, Tell, Push, CallerMessage, TargetMessage

LEMMA OtherSteps ==
  ASSUME NEW d \in Daemons,
         \/ Register(d) \/ Receive(d) \/ SendFails(d) \/ Unregister(d) \/ CloseChan(d)
         \/ LoseLink(d) \/ NoticeLoss(d) \/ Disconnect(d) \/ Notify(d)
  PROVE  UNCHANGED <<dial, told, sent>>
BY DEF Register, Receive, SendFails, Unregister, CloseChan, LoseLink, NoticeLoss,
       Disconnect, Notify, callVars

LEMMA NoCallStep ==
  ASSUME Types, NoCallYet, [Next]_vars
  PROVE  NoCallYet'
<1>1. dial \in [Daemons -> CallType]
  BY DEF Types, TypeOK, CallType
<1>2. ASSUME NEW d \in Daemons, Dial(d) PROVE NoCallYet'
  <2>1. dial' = [dial EXCEPT ![d] =
          IF nodes[PeerPub[d]] # None /\ nodes[NodeOf[d]] # None
          THEN [at |-> "tellCaller", caller |-> nodes[NodeOf[d]], target |-> nodes[PeerPub[d]]]
          ELSE [NoDial EXCEPT !.at = "rejected"]]
    BY <1>2 DEF Dial
  <2>2. \A e \in Daemons : e # d => dial'[e] = dial[e]
    BY <1>1, <2>1
  <2>3. dial'[d].at # "idle"
    BY <1>1, <2>1 DEF NoDial
  <2> QED BY <2>2, <2>3 DEF NoCallYet
<1>3. ASSUME NEW d \in Daemons, TellCaller(d) \/ TellTarget(d) PROVE NoCallYet'
  <2>1. \/ dial' = dial \/ dial' = [dial EXCEPT ![d].at = "tellTarget"]
        \/ dial' = [dial EXCEPT ![d].at = "ok"]
    BY <1>3, CallSteps
  <2> QED BY <1>1, <2>1 DEF NoCallYet, CallType
<1>4. ASSUME UNCHANGED dial PROVE NoCallYet'
  BY <1>4 DEF NoCallYet
<1>5. ASSUME NEW d \in Daemons, SendOk(d) PROVE UNCHANGED dial
  BY <1>5 DEF SendOk, callVars
<1> QED BY <1>2, <1>3, <1>4, <1>5, OtherSteps DEF Next, vars

LEMMA PromiseInit == Init => Promise!Init
<1> SUFFICES ASSUME Init PROVE Promise!Init
  OBVIOUS
<1>1. NoDial \in CallType
  BY DEF NoDial, CallType, Session
<1>2. MeetingOf(NoDial) = [at |-> "none", caller |-> None, target |-> None]
  BY <1>1, MeetingFields, Stages DEF NoDial
<1> QED BY <1>2 DEF Init, Promise!Init, Promise!NoMeeting, Meeting

LEMMA PromiseDial ==
  ASSUME Types, LookupsAreOpen, NoCallYet, NEW d \in Daemons, Dial(d)
  PROVE  Promise!Next \/ UNCHANGED <<Meeting, told, sent>>
<1> DEFINE mine == nodes[NodeOf[d]]
           target == nodes[PeerPub[d]]
<1>1. /\ dial[d].at = "idle" /\ UNCHANGED <<told, sent>>
      /\ dial' = [dial EXCEPT ![d] =
           IF target # None /\ mine # None
           THEN [at |-> "tellCaller", caller |-> mine, target |-> target]
           ELSE [NoDial EXCEPT !.at = "rejected"]]
  BY DEF Dial
<1>2. NodeOf[d] \in Nodes /\ PeerPub[d] \in Nodes /\ mine \in Session /\ target \in Session
  BY SignalingAssumption DEF Dial, Types, TypeOK
<1>3. /\ mine # None => mine \in Daemons /\ NodeOf[mine] = NodeOf[d]
      /\ target # None => target \in Daemons /\ NodeOf[target] = PeerPub[d]
  BY <1>2 DEF Session, LookupsAreOpen
<1>4. dial \in [Daemons -> CallType] /\ dial[d] \in CallType
  BY DEF Types, TypeOK, CallType
<1>5. MeetingOf(dial[d]) = [at |-> "none", caller |-> None, target |-> None]
  BY <1>1, <1>4, MeetingFields, Stages DEF NoCallYet
<1> HIDE DEF mine, target
<1>6. CASE target # None /\ mine # None
  <2> DEFINE call == [at |-> "tellCaller", caller |-> mine, target |-> target]
             met == [at |-> "chosen", caller |-> mine, target |-> target]
  <2>1. call \in CallType
    BY <1>2 DEF CallType
  <2>2. MeetingOf(call) = met
    BY <2>1, MeetingFields, Stages
  <2>3. dial' = [dial EXCEPT ![d] = call]
    BY <1>1, <1>6
  <2> HIDE DEF call, met
  <2>4. Meeting' = [Meeting EXCEPT ![d] = met]
    BY <1>4, <2>2, <2>3 DEF Meeting
  <2>5. Meeting[d] = [at |-> "none", caller |-> None, target |-> None]
    BY <1>5 DEF Meeting
  <2>6. Promise!Choose(d, mine, target)
    BY <1>1, <1>3, <1>6, <2>4, <2>5 DEF Promise!Choose, Promise!NoMeeting, met
  <2> QED BY <1>3, <1>6, <2>6 DEF Promise!Next
<1>7. CASE ~(target # None /\ mine # None)
  <2> DEFINE call == [at |-> "rejected", caller |-> None, target |-> None]
  <2>1. call \in CallType
    BY DEF CallType, Session
  <2>2. MeetingOf(call) = MeetingOf(dial[d])
    BY <1>5, <2>1, MeetingFields, Stages
  <2>3. dial' = [dial EXCEPT ![d] = call]
    <3>1. [NoDial EXCEPT !.at = "rejected"] = call
      BY DEF NoDial
    <3> QED BY <1>1, <1>7, <3>1
  <2> HIDE DEF call
  <2>4. \A e \in Daemons : MeetingOf(dial'[e]) = MeetingOf(dial[e])
    BY <1>4, <2>2, <2>3
  <2>5. Meeting' = Meeting
    BY <2>4 DEF Meeting
  <2> QED BY <1>1, <2>5
<1> QED BY <1>6, <1>7

LEMMA PromiseTell ==
  ASSUME Types, Calls, NEW d \in Daemons, TellCaller(d) \/ TellTarget(d)
  PROVE  Promise!Next \/ UNCHANGED <<Meeting, told, sent>>
<1>1. dial \in [Daemons -> CallType] /\ dial[d] \in CallType
  BY DEF Types, TypeOK, CallType
<1>2. ASSUME NEW to \in {"tellTarget", "ok"}, dial' = [dial EXCEPT ![d].at = to]
      PROVE  Meeting' = [Meeting EXCEPT ![d].at = Stage[to]]
  <2> DEFINE call == [at |-> to, caller |-> dial[d].caller, target |-> dial[d].target]
             met == [at |-> Stage[to], caller |-> dial[d].caller, target |-> dial[d].target]
  <2>1. dial' = [dial EXCEPT ![d] = call] /\ call \in CallType
    <3>1. [dial[d] EXCEPT !.at = to] = call /\ call \in CallType
      BY <1>1 DEF CallType
    <3>2. dial' = [dial EXCEPT ![d] = [dial[d] EXCEPT !.at = to]]
      BY <1>1, <1>2
    <3> QED BY <3>1, <3>2
  <2>2. MeetingOf(call) = met
    BY <2>1, MeetingFields
  <2>3. MeetingOf(dial[d]) = [at |-> Stage[dial[d].at], caller |-> dial[d].caller,
                              target |-> dial[d].target]
    BY <1>1, MeetingFields
  <2>4. [MeetingOf(dial[d]) EXCEPT !.at = Stage[to]] = met
    BY <2>3
  <2> HIDE DEF call, met
  <2>5. Meeting' = [Meeting EXCEPT ![d] = met]
    BY <1>1, <2>1, <2>2 DEF Meeting
  <2> QED BY <2>4, <2>5 DEF Meeting
<1>3. /\ Meeting[d].at = Stage[dial[d].at] /\ Meeting[d].caller = dial[d].caller
      /\ Meeting[d].target = dial[d].target
  BY <1>1, MeetingFields DEF Meeting
<1>4. CASE UNCHANGED <<dial, told, sent>>
  BY <1>4 DEF Meeting
<1>5. CASE /\ dial[d].at = "tellCaller"
           /\ dial' = [dial EXCEPT ![d].at = "tellTarget"]
           /\ told' = [told EXCEPT ![dial[d].caller] = Append(@, CallerMessage(d))]
           /\ sent' = sent
  <2>1. Promise!TellCaller(d)
    BY <1>2, <1>3, <1>5, Stages DEF Promise!TellCaller, Promise!Tell, CallerMessage
  <2> QED BY <2>1 DEF Promise!Next
<1>6. CASE /\ dial[d].at = "tellTarget"
           /\ dial' = [dial EXCEPT ![d].at = "ok"]
           /\ told' = [told EXCEPT ![dial[d].target] = Append(@, TargetMessage(d))]
           /\ sent' = sent
  <2>1. Promise!TellTarget(d)
    BY <1>2, <1>3, <1>6, Stages DEF Promise!TellTarget, Promise!Tell, TargetMessage
  <2> QED BY <2>1 DEF Promise!Next
<1> QED BY <1>4, <1>5, <1>6, CallSteps

LEMMA PromiseHear ==
  ASSUME Types, Order, NEW d \in Daemons, SendOk(d)
  PROVE  Promise!Next
<1>1. UNCHANGED <<dial, told>>
  BY DEF SendOk, callVars
<1>2. Promise!Hear(d)
  BY <1>1, SendsTheNext DEF Promise!Hear, Meeting
<1> QED BY <1>2 DEF Promise!Next

\* The map, the channels and the goroutines implement Introductions, for any
\* number of nodes, lives and calls and any channel capacity: a meeting is
\* between a life of the caller's node and a life of the node it asked for,
\* each is told once, the caller first, and hears in order without gaps.
THEOREM Refinement == Spec => KeepsThePromise
<1>1. Init => Promise!Init
  BY PromiseInit
<1>2. ASSUME IInv, NoCallYet, [Next]_vars
      PROVE  [Promise!Next]_(Promise!vars)
  <2>1. CASE UNCHANGED <<dial, told, sent>>
    BY <2>1 DEF Promise!vars, Meeting
  <2>2. CASE \E d \in Daemons : Dial(d)
    BY <1>2, <2>2, PromiseDial DEF IInv, Promise!vars
  <2>3. CASE \E d \in Daemons : TellCaller(d) \/ TellTarget(d)
    BY <1>2, <2>3, PromiseTell DEF IInv, Promise!vars
  <2>4. CASE \E d \in Daemons : SendOk(d)
    BY <1>2, <2>4, PromiseHear DEF IInv
  <2> QED BY <1>2, <2>1, <2>2, <2>3, <2>4, OtherSteps DEF Next, vars
<1>3. IInv /\ NoCallYet /\ [Next]_vars => NoCallYet'
  BY NoCallStep DEF IInv
<1> QED BY <1>1, <1>2, <1>3, NoCallInit, Always, PTL DEF Spec, KeepsThePromise, Promise!Spec
=============================================================================
