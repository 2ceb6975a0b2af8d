------------------------------ MODULE Signaling -----------------------------
(***************************************************************************)
(* The rendezvous server (server/main.go): a map from node ids to          *)
(* sessions guarded by one lock, a goroutine per StartConnection stream    *)
(* that forwards the session's event channel to its daemon, and the        *)
(* goroutines of the unary SendSignal calls, which write to the channels   *)
(* of sessions they looked up earlier.                                     *)
(*                                                                         *)
(* A daemon is one process life of a node: a restart of the node is        *)
(* another daemon with the same node id.  As the daemon's code does, each  *)
(* registers at most once, then dials at most once, and disconnects at     *)
(* most once (daemon/src/main.rs); its session is named after it.          *)
(***************************************************************************)
EXTENDS Naturals, Sequences

CONSTANTS
  Nodes,     \* node ids: base64 public keys
  Daemons,   \* process lives
  NodeOf,    \* the node each daemon is a life of
  PeerPub,   \* the node each daemon is started to dial, or None
  ChanCap,   \* capacity of an EventChan, 32 in the code
  None,      \* no session
  Nil        \* the nil message that ends a stream

ASSUME SignalingAssumption ==
  /\ NodeOf \in [Daemons -> Nodes]
  /\ PeerPub \in [Daemons -> Nodes \cup {None}]
  /\ None \notin Nodes
  /\ ChanCap \in Nat \ {0}
  /\ None \notin Daemons

\* PeerFound: the session whose id and addresses it carries, and whose call
\* caused it.
Message == [about : Daemons, by : Daemons]
ASSUME NilAssumption == Nil \notin Message

VARIABLES
  running,   \* the server process is alive
  nodes,     \* SignalingServer.nodes
  stream,    \* where each StartConnection goroutine is
  queue,     \* each session's EventChan
  outgoing,  \* the message each goroutine has taken and is sending
  link,      \* the daemon's end of its stream
  dial,      \* where each daemon's Dial call is, and the sessions it holds
  disc,      \* where each daemon's Disconnect call is, and its session
  told,      \* history: the messages put into each channel, in order
  sent       \* history: the messages each stream.Send has accepted

vars == <<running, nodes, stream, queue, outgoing, link, dial, disc, told, sent>>

Session == Daemons \cup {None}
NoDial == [at |-> "idle", caller |-> None, target |-> None]
NoDisc == [at |-> "idle", session |-> None]

TypeOK ==
  /\ running \in BOOLEAN
  /\ nodes \in [Nodes -> Session]
  /\ stream \in [Daemons -> {"idle", "serving", "sending", "leaving", "closing", "closed"}]
  /\ queue \in [Daemons -> Seq(Message \cup {Nil})]
  /\ outgoing \in [Daemons -> Message \cup {Nil}]
  /\ link \in [Daemons -> {"off", "up", "lost", "broken"}]
  /\ dial \in [Daemons -> [at : {"idle", "tellCaller", "tellTarget", "ok", "rejected"},
                           caller : Session, target : Session]]
  /\ disc \in [Daemons -> [at : {"idle", "notify", "done"}, session : Session]]
  /\ told \in [Daemons -> Seq(Message)]
  /\ sent \in [Daemons -> Seq(Message)]
  /\ \A d \in Daemons : Len(queue[d]) <= ChanCap

Init ==
  /\ running = TRUE
  /\ nodes = [n \in Nodes |-> None]
  /\ stream = [d \in Daemons |-> "idle"]
  /\ queue = [d \in Daemons |-> <<>>]
  /\ outgoing = [d \in Daemons |-> Nil]
  /\ link = [d \in Daemons |-> "off"]
  /\ dial = [d \in Daemons |-> NoDial]
  /\ disc = [d \in Daemons |-> NoDisc]
  /\ told = [d \in Daemons |-> <<>>]
  /\ sent = [d \in Daemons |-> <<>>]

callVars == <<dial, disc>>

-----------------------------------------------------------------------------
(* StartConnection, the goroutine of daemon d's stream.                    *)

\* The session enters the map, replacing whatever the id mapped to, and the
\* headers are flushed.  A node's next life registers only after its last
\* one has lost its connection.
Register(d) ==
  /\ running
  /\ stream[d] = "idle"
  /\ \A e \in Daemons : NodeOf[e] = NodeOf[d] => link[e] # "up"
  /\ nodes' = [nodes EXCEPT ![NodeOf[d]] = d]
  /\ stream' = [stream EXCEPT ![d] = "serving"]
  /\ link' = [link EXCEPT ![d] = "up"]
  /\ UNCHANGED <<running, queue, outgoing, callVars, told, sent>>

\* Slips in the loop and in the deferred cleanup, used to test the properties.
ReceiveSkipsNil(d) ==
  /\ running
  /\ stream[d] = "serving"
  /\ queue[d] # <<>>
  /\ queue' = [queue EXCEPT ![d] = Tail(@)]
  /\ IF Head(queue[d]) = Nil
     THEN UNCHANGED <<stream, outgoing>>
     ELSE /\ stream' = [stream EXCEPT ![d] = "sending"]
          /\ outgoing' = [outgoing EXCEPT ![d] = Head(queue[d])]
  /\ UNCHANGED <<running, nodes, link, callVars, told, sent>>

\* for msg := range eventChan: take the next event; nil leaves the loop.
Receive(d) ==
  /\ running
  /\ stream[d] = "serving"
  /\ queue[d] # <<>>
  /\ queue' = [queue EXCEPT ![d] = Tail(@)]
  /\ IF Head(queue[d]) = Nil
     THEN /\ stream' = [stream EXCEPT ![d] = "leaving"]
          /\ UNCHANGED outgoing
     ELSE /\ stream' = [stream EXCEPT ![d] = "sending"]
          /\ outgoing' = [outgoing EXCEPT ![d] = Head(queue[d])]
  /\ UNCHANGED <<running, nodes, link, callVars, told, sent>>

\* stream.Send returns nil, also for a dead daemon until the transport knows.
SendOk(d) ==
  /\ running
  /\ stream[d] = "sending"
  /\ link[d] # "broken"
  /\ stream' = [stream EXCEPT ![d] = "serving"]
  /\ sent' = [sent EXCEPT ![d] = Append(@, outgoing[d])]
  /\ outgoing' = [outgoing EXCEPT ![d] = Nil]
  /\ UNCHANGED <<running, nodes, queue, link, callVars, told>>

SendFailsAndRetries(d) ==
  /\ running
  /\ stream[d] = "sending"
  /\ link[d] = "broken"
  /\ stream' = [stream EXCEPT ![d] = "serving"]
  /\ outgoing' = [outgoing EXCEPT ![d] = Nil]
  /\ UNCHANGED <<running, nodes, queue, link, callVars, told, sent>>

\* stream.Send returns an error and so does the handler.
SendFails(d) ==
  /\ running
  /\ stream[d] = "sending"
  /\ link[d] = "broken"
  /\ stream' = [stream EXCEPT ![d] = "leaving"]
  /\ outgoing' = [outgoing EXCEPT ![d] = Nil]
  /\ UNCHANGED <<running, nodes, queue, link, callVars, told, sent>>

UnregisterKeepsId(d) ==
  /\ running
  /\ stream[d] = "leaving"
  /\ stream' = [stream EXCEPT ![d] = "closing"]
  /\ UNCHANGED <<running, nodes, queue, outgoing, link, callVars, told, sent>>

\* The deferred function, first half: under the lock, forget the node id.
Unregister(d) ==
  /\ running
  /\ stream[d] = "leaving"
  /\ nodes' = [nodes EXCEPT ![NodeOf[d]] = None]
  /\ stream' = [stream EXCEPT ![d] = "closing"]
  /\ UNCHANGED <<running, queue, outgoing, link, callVars, told, sent>>

CloseChanForgotten(d) ==
  /\ running
  /\ stream[d] = "closing"
  /\ UNCHANGED vars

\* The deferred function, second half: close(eventChan).
CloseChan(d) ==
  /\ running
  /\ stream[d] = "closing"
  /\ stream' = [stream EXCEPT ![d] = "closed"]
  /\ UNCHANGED <<running, nodes, queue, outgoing, link, callVars, told, sent>>

-----------------------------------------------------------------------------
(* Writes to a channel.  A write to a closed channel panics, and a panic   *)
(* in a handler goroutine ends the process.                                *)

Closed(s) == stream[s] = "closed"

\* A channel that never fills, used to test the properties.
HasRoomUnbounded(s) == ~Closed(s)

HasRoom(s) == ~Closed(s) /\ Len(queue[s]) < ChanCap

Push(s, m) ==
  /\ HasRoom(s)
  /\ queue' = [queue EXCEPT ![s] = Append(@, m)]
  /\ told' = [told EXCEPT ![s] = Append(@, m)]

Panic(s) ==
  /\ Closed(s)
  /\ running' = FALSE

-----------------------------------------------------------------------------
(* SendSignal with a Disconnect payload, called by daemon d.               *)

\* The lookup and the deletion, under the lock.
Disconnect(d) ==
  LET n == NodeOf[d] IN
  /\ running
  /\ disc[d].at = "idle"
  /\ \/ /\ nodes[n] = None
        /\ disc' = [disc EXCEPT ![d].at = "done"]
        /\ UNCHANGED nodes
     \/ /\ nodes[n] # None
        /\ disc' = [disc EXCEPT ![d] = [at |-> "notify", session |-> nodes[n]]]
        /\ nodes' = [nodes EXCEPT ![n] = None]
  /\ UNCHANGED <<running, stream, queue, outgoing, link, dial, told, sent>>

\* The entry is deleted only once the stream has been notified.
NotifyDeletesAgain(d) ==
  LET s == disc[d].session IN
  /\ running
  /\ disc[d].at = "notify"
  /\ ~Closed(s)
  /\ queue' = IF HasRoom(s) THEN [queue EXCEPT ![s] = Append(@, Nil)] ELSE queue
  /\ disc' = [disc EXCEPT ![d].at = "done"]
  /\ nodes' = [nodes EXCEPT ![NodeOf[d]] = None]
  /\ UNCHANGED <<running, stream, outgoing, link, dial, told, sent>>

\* The select: a full channel takes the default branch and drops the nil.
Notify(d) ==
  LET s == disc[d].session IN
  /\ running
  /\ disc[d].at = "notify"
  /\ \/ /\ Panic(s)
        /\ UNCHANGED <<queue, disc>>
     \/ /\ ~Closed(s)
        /\ queue' = IF HasRoom(s) THEN [queue EXCEPT ![s] = Append(@, Nil)] ELSE queue
        /\ disc' = [disc EXCEPT ![d].at = "done"]
        /\ UNCHANGED running
  /\ UNCHANGED <<nodes, stream, outgoing, link, dial, told, sent>>

-----------------------------------------------------------------------------
(* SendSignal with a Dial payload, called by a daemon started with         *)
(* PEER_PUB after it registered.                                           *)

\* The two lookups swapped.
DialSwapped(d) ==
  LET mine == nodes[PeerPub[d]]
      target == nodes[NodeOf[d]]
  IN
  /\ running
  /\ PeerPub[d] # None
  /\ link[d] # "off"
  /\ dial[d].at = "idle"
  /\ dial' = [dial EXCEPT ![d] =
       IF target # None /\ mine # None
       THEN [at |-> "tellCaller", caller |-> mine, target |-> target]
       ELSE [NoDial EXCEPT !.at = "rejected"]]
  /\ UNCHANGED <<running, nodes, stream, queue, outgoing, link, disc, told, sent>>

\* The call made beside the registration instead of after it.
DialBeforeRegistering(d) ==
  LET mine == nodes[NodeOf[d]]
      target == nodes[PeerPub[d]]
  IN
  /\ running
  /\ PeerPub[d] # None
  /\ dial[d].at = "idle"
  /\ dial' = [dial EXCEPT ![d] =
       IF target # None /\ mine # None
       THEN [at |-> "tellCaller", caller |-> mine, target |-> target]
       ELSE [NoDial EXCEPT !.at = "rejected"]]
  /\ UNCHANGED <<running, nodes, stream, queue, outgoing, link, disc, told, sent>>

\* Both lookups, under the read lock.
Dial(d) ==
  LET mine == nodes[NodeOf[d]]
      target == nodes[PeerPub[d]]
  IN
  /\ running
  /\ PeerPub[d] # None
  /\ link[d] # "off"
  /\ dial[d].at = "idle"
  /\ dial' = [dial EXCEPT ![d] =
       IF target # None /\ mine # None
       THEN [at |-> "tellCaller", caller |-> mine, target |-> target]
       ELSE [NoDial EXCEPT !.at = "rejected"]]
  /\ UNCHANGED <<running, nodes, stream, queue, outgoing, link, disc, told, sent>>

\* A blocking send of m to session s.
Tell(d, from, to, s, m) ==
  /\ running
  /\ dial[d].at = from
  /\ \/ /\ Panic(s)
        /\ UNCHANGED <<queue, dial, told>>
     \/ /\ Push(s, m)
        /\ dial' = [dial EXCEPT ![d].at = to]
        /\ UNCHANGED running
  /\ UNCHANGED <<nodes, stream, outgoing, link, disc, sent>>

TellTargetFirst(d) ==
  Tell(d, "tellCaller", "tellTarget", dial[d].target, [about |-> dial[d].caller, by |-> d])

\* Send target details to initiator.
TellCaller(d) ==
  Tell(d, "tellCaller", "tellTarget", dial[d].caller, [about |-> dial[d].target, by |-> d])

TellTargetAboutItself(d) ==
  Tell(d, "tellTarget", "ok", dial[d].target, [about |-> dial[d].target, by |-> d])

\* Send initiator details to target.
TellTarget(d) ==
  Tell(d, "tellTarget", "ok", dial[d].target, [about |-> dial[d].caller, by |-> d])

-----------------------------------------------------------------------------
(* The daemon's end of the stream, and the transport's knowledge of it.    *)

\* The daemon exits, crashes or is cut off.
LoseLink(d) ==
  /\ running
  /\ link[d] = "up"
  /\ link' = [link EXCEPT ![d] = "lost"]
  /\ UNCHANGED <<running, nodes, stream, queue, outgoing, callVars, told, sent>>

\* The server's transport finds out: from now on Send fails.
NoticeLoss(d) ==
  /\ running
  /\ link[d] = "lost"
  /\ link' = [link EXCEPT ![d] = "broken"]
  /\ UNCHANGED <<running, nodes, stream, queue, outgoing, callVars, told, sent>>

-----------------------------------------------------------------------------
Next ==
  \E d \in Daemons :
    \/ Register(d) \/ Receive(d) \/ SendOk(d) \/ SendFails(d)
    \/ Unregister(d) \/ CloseChan(d)
    \/ Disconnect(d) \/ Notify(d)
    \/ Dial(d) \/ TellCaller(d) \/ TellTarget(d)
    \/ LoseLink(d) \/ NoticeLoss(d)

Spec == Init /\ [][Next]_vars

\* The scheduler runs every goroutine that can run, Send returns because a
\* live daemon reads its stream, a dead connection is found out, and a daemon
\* whose Disconnect has returned exits.  No daemon has to call or crash.
Fairness ==
  \A d \in Daemons :
    /\ WF_vars(Receive(d))
    /\ WF_vars(SendOk(d) \/ SendFails(d))
    /\ WF_vars(Unregister(d))
    /\ WF_vars(CloseChan(d))
    /\ WF_vars(Notify(d))
    /\ WF_vars(TellCaller(d))
    /\ WF_vars(TellTarget(d))
    /\ WF_vars(NoticeLoss(d))
    /\ WF_vars(disc[d].at = "done" /\ LoseLink(d))

FairSpec == Spec /\ Fairness

-----------------------------------------------------------------------------
(* What holds.                                                             *)

(* A node id never resolves to a session whose goroutine has gone past its *)
(* deferred delete: SendSignal can take a session out of the map only      *)
(* while its channel is open, whatever restarts, disconnects and failed    *)
(* sends the map has been through (server/main.go StartConnection's defer  *)
(* and SendSignal).                                                        *)
LookupsAreOpen ==
  \A n \in Nodes :
    nodes[n] # None => /\ NodeOf[nodes[n]] = n
                       /\ stream[nodes[n]] \in {"serving", "sending", "leaving"}

(* Every PeerFound put on a stream names the other side of the rendezvous  *)
(* that caused it, and its caller is a life of the dialling node           *)
(* (SendSignal fills two messages from two sessions held across two        *)
(* blocking sends).                                                        *)
RendezvousPairs ==
  \A s \in Daemons : \A i \in DOMAIN told[s] :
    LET m == told[s][i]
        call == dial[m.by]
    IN  /\ {s, m.about} = {call.caller, call.target}
        /\ NodeOf[call.caller] = NodeOf[m.by]

(* Nobody starts punching towards a dialler that has not been told where   *)
(* to punch back: when the target has been told, so has the caller         *)
(* (SendSignal writes to the initiator's channel first).                   *)
CallerToldFirst ==
  \A s \in Daemons : \A i \in DOMAIN told[s] :
    LET m == told[s][i]
        call == dial[m.by]
    IN  s = call.target =>
          \E j \in DOMAIN told[call.caller] :
            told[call.caller][j] = [about |-> call.target, by |-> m.by]

(* As long as a stream has not begun to leave, what was put into its       *)
(* channel is, in order, what was sent, what is being sent and what waits  *)
(* before the nil of a Disconnect: nothing is lost, doubled or overtaken   *)
(* (the send loop of StartConnection against the writers of SendSignal).   *)
Taken(sentTo, out) == Len(sentTo) + IF out = Nil THEN 0 ELSE 1
InStep(sentTo, out, q, toldTo) ==
  /\ out # Nil =>
       Taken(sentTo, out) <= Len(toldTo) /\ out = toldTo[Taken(sentTo, out)]
  /\ \A i \in 1..Len(q) : (\A j \in 1..i : q[j] # Nil) =>
       Taken(sentTo, out) + i <= Len(toldTo) /\ q[i] = toldTo[Taken(sentTo, out) + i]
  /\ (\A i \in 1..Len(q) : q[i] # Nil) =>
       Len(toldTo) = Taken(sentTo, out) + Len(q)
NothingLostWhileServing ==
  \A d \in Daemons : stream[d] \in {"idle", "serving", "sending"} =>
    InStep(sent[d], outgoing[d], queue[d], told[d])

(* A daemon with an open stream is the one its node id finds, unless its   *)
(* own node was disconnected while it was, or an earlier life's goroutine  *)
(* has run the deferred delete, which goes by the node id and not by the   *)
(* session (server/main.go:66).                                            *)
FoundUnlessCleanedUp ==
  \A d \in Daemons :
    /\ stream[d] \in {"serving", "sending"}
    /\ link[d] = "up"
    /\ \A e \in Daemons : disc[e].session # d
    /\ \A e \in Daemons : NodeOf[e] = NodeOf[d] => stream[e] \notin {"closing", "closed"}
    => nodes[NodeOf[d]] = d

(* Of two daemons that dial each other, one at least gets through, in      *)
(* whatever order they register, although each dials only once, unless a   *)
(* life of one of the two nodes was disconnected or cleaned up             *)
(* (daemon/src/main.rs:274-282 dials after it has registered).             *)
Left(n) ==
  \E f \in Daemons : NodeOf[f] = n /\ (disc[f].at # "idle" \/ stream[f] \in {"closing", "closed"})
OneDialGetsThrough ==
  \A d, e \in Daemons :
    /\ PeerPub[d] = NodeOf[e] /\ PeerPub[e] = NodeOf[d]
    /\ dial[d].at = "rejected" /\ dial[e].at = "rejected"
    => Left(NodeOf[d]) \/ Left(NodeOf[e])

(* The server keeps the promise of Introductions: the two lookups pick the *)
(* meeting, the two blocking sends tell its two sides, stream.Send lets a  *)
(* daemon hear, and nothing else it does shows.                            *)
Stage == [idle |-> "none", rejected |-> "none", tellCaller |-> "chosen",
          tellTarget |-> "halfway", ok |-> "made"]
MeetingOf(call) == [call EXCEPT !.at = Stage[@]]
Meeting == [d \in Daemons |-> MeetingOf(dial[d])]
Promise == INSTANCE Introductions WITH meeting <- Meeting, heard <- sent
KeepsThePromise == Promise!Spec

(* A Dial call that has found both sessions returns, even when it is       *)
(* blocked on a full channel and the receiving goroutine ends, unless the  *)
(* server itself goes down.                                                *)
DialReturns ==
  \A d \in Daemons :
    dial[d].at \in {"tellCaller", "tellTarget"} ~> dial[d].at = "ok" \/ ~running

(* A stream with something to send to a daemon known to be dead is cleaned *)
(* up: its goroutine closes its channel.                                   *)
BrokenStreamEnds ==
  \A d \in Daemons :
    link[d] = "broken" /\ (queue[d] # <<>> \/ stream[d] = "sending")
      ~> Closed(d) \/ ~running

(* A nil that made it into the channel ends the stream.                    *)
NilEndsStream ==
  \A d \in Daemons :
    (\E i \in DOMAIN queue[d] : queue[d][i] = Nil) ~> Closed(d) \/ ~running

-----------------------------------------------------------------------------
(* What the code or its documentation says and the code does not do.       *)

(* server/main.go:74: a nil message makes the server "Gracefully finish    *)
(* the RPC method stream handler", that is, without taking the server      *)
(* process down.                                                           *)
ServerKeepsRunning == running
=============================================================================
