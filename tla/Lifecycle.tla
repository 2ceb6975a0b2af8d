------------------------------ MODULE Lifecycle -----------------------------
(***************************************************************************)
(* The life of a daemon from start to exit (daemon/src/main.rs, main and   *)
(* shutdown_signal) beside the task that makes it reachable: a UPnP port   *)
(* mapping or a STUN query, then the registration with the signaling       *)
(* server (nat/upnp.rs, nat/stun.rs, nat/signaling.rs).  Lives are started *)
(* with one PORT and one identity: they share the UDP port, the control    *)
(* socket's path, the router's mapping and the node id, each of which a    *)
(* killed life leaves as it was.                                           *)
(*                                                                         *)
(* What happens between daemons and at the server is in PeerLink and       *)
(* Signaling; a call to the server or to the router takes effect, if it    *)
(* does, while its caller is alive.                                        *)
(***************************************************************************)
EXTENDS Naturals

CONSTANTS
  Lives,      \* processes
  MaxCalls,   \* bound on InitiateSend calls in progress
  None

ASSUME LifecycleAssumption == None \notin Lives /\ MaxCalls \in Nat

VARIABLES
  main,      \* where each process's main is
  nat,       \* where its NAT task is
  flag,      \* its upnp_mapped
  calls,     \* its control calls in progress
  socket,    \* the life that bound the file at the socket path
  mapping,   \* the life that last mapped the port on the router
  listed,    \* the life the server's map holds under the node id
  missed     \* history: what went wrong for each life

vars == <<main, nat, flag, calls, socket, mapping, listed, missed>>
shared == <<socket, mapping, listed>>

TypeOK ==
  /\ main \in [Lives -> {"off", "bound", "serving", "draining", "disconnecting", "closing",
                         "releasing", "unmapping", "exiting", "done",
                         "aborting", "failed", "killed"}]
  /\ nat \in [Lives -> {"none", "searching", "adding", "fetching", "stun", "registering", "ended"}]
  /\ flag \in [Lives -> BOOLEAN]
  /\ calls \in [Lives -> 0..MaxCalls]
  /\ {socket, mapping, listed} \subseteq Lives \cup {None}
  /\ missed \in [Lives -> SUBSET {"early", "mapping", "disconnect", "socket", "unmap"}]

Init ==
  /\ main = [d \in Lives |-> "off"]
  /\ nat = [d \in Lives |-> "none"]
  /\ flag = [d \in Lives |-> FALSE]
  /\ calls = [d \in Lives |-> 0]
  /\ socket = None /\ mapping = None /\ listed = None
  /\ missed = [d \in Lives |-> {}]

Running(d) == main[d] \notin {"off", "done", "failed", "killed"}

\* The endpoint dropped when it is closed.
HoldsPortUntilClosed(d) ==
  main[d] \in {"bound", "serving", "draining", "disconnecting", "aborting"}

\* The endpoint's UDP socket has no SO_REUSEPORT, and tasks hold clones of the
\* endpoint until the process ends.
HoldsPort(d) == Running(d)

Goes(d, from, to) == main[d] = from /\ main' = [main EXCEPT ![d] = to]
Misses(d, what) == missed' = [missed EXCEPT ![d] = @ \cup {what}]

-----------------------------------------------------------------------------
(* Starting and serving.                                                   *)

\* Identity, TUN, the bind of the UDP port, and the spawn of the NAT task.
Start(d) ==
  /\ \/ /\ \A e \in Lives : ~HoldsPort(e)
        /\ Goes(d, "off", "bound")
        /\ nat' = [nat EXCEPT ![d] = "searching"]
     \/ /\ Goes(d, "off", "failed")
        /\ UNCHANGED nat
  /\ UNCHANGED <<flag, calls, shared, missed>>

\* A bind that does not first remove what is at the path.
OpenSocketOverStale(d) ==
  /\ \/ /\ Goes(d, "bound", "serving")
        /\ socket = None
        /\ socket' = d
     \/ /\ Goes(d, "bound", "aborting")
        /\ socket # None
        /\ UNCHANGED socket
  /\ UNCHANGED <<nat, flag, calls, mapping, listed, missed>>

\* The file at the path is removed, whoever made it; an error leaves main.
OpenSocket(d) ==
  /\ \/ /\ Goes(d, "bound", "serving")
        /\ socket' = d
        /\ UNCHANGED missed
     \/ /\ Goes(d, "bound", "aborting")
        /\ socket' \in {socket, None}
        /\ Misses(d, "socket")
  /\ UNCHANGED <<nat, flag, calls, mapping, listed>>

AcceptCallAlways(d) ==
  /\ main[d] \in {"serving", "draining"}
  /\ calls[d] < MaxCalls
  /\ calls' = [calls EXCEPT ![d] = @ + 1]
  /\ UNCHANGED <<main, nat, flag, shared, missed>>

AcceptCall(d) ==
  /\ main[d] = "serving"
  /\ calls[d] < MaxCalls
  /\ calls' = [calls EXCEPT ![d] = @ + 1]
  /\ UNCHANGED <<main, nat, flag, shared, missed>>

EndCallTwice(d) ==
  /\ calls[d] > 0
  /\ \E n \in 1..2 : calls' = [calls EXCEPT ![d] = @ - n]
  /\ UNCHANGED <<main, nat, flag, shared, missed>>

EndCall(d) ==
  /\ calls[d] > 0
  /\ calls' = [calls EXCEPT ![d] = @ - 1]
  /\ UNCHANGED <<main, nat, flag, shared, missed>>

-----------------------------------------------------------------------------
(* The teardown sequence.                                                  *)

\* Ctrl-C or SIGTERM: no new calls, those in progress go on.
Signal(d) ==
  /\ Goes(d, "serving", "draining")
  /\ IF nat[d] = "ended" THEN UNCHANGED missed ELSE Misses(d, "early")
  /\ UNCHANGED <<nat, flag, calls, shared>>

Drained(d) ==
  /\ calls[d] = 0
  /\ Goes(d, "draining", "disconnecting")
  /\ UNCHANGED <<nat, flag, calls, shared, missed>>

\* The server forgets the node id; an error is logged.
Disconnect(d) ==
  /\ Goes(d, "disconnecting", "closing")
  /\ \/ listed' = None /\ UNCHANGED missed
     \/ Misses(d, "disconnect") /\ UNCHANGED listed
  /\ UNCHANGED <<nat, flag, calls, socket, mapping>>

\* The connections are closed (PeerLink) and the file at the path removed.
RemoveSocket(d) ==
  /\ Goes(d, "closing", "releasing")
  /\ \/ socket' = None /\ UNCHANGED missed
     \/ socket # None /\ Misses(d, "socket") /\ UNCHANGED socket
  /\ UNCHANGED <<nat, flag, calls, mapping, listed>>

ReadFlag(d) ==
  /\ Goes(d, "releasing", IF flag[d] THEN "unmapping" ELSE "exiting")
  /\ UNCHANGED <<nat, flag, calls, shared, missed>>

Unmap(d) ==
  /\ Goes(d, "unmapping", "exiting")
  /\ \/ mapping' = None /\ UNCHANGED missed
     \/ Misses(d, "unmap") /\ UNCHANGED mapping
  /\ UNCHANGED <<nat, flag, calls, socket, listed>>

\* The runtime is dropped: tasks end where they are, a blocking call is
\* waited for.
Exit(d) ==
  /\ nat[d] # "adding"
  /\ Goes(d, "exiting", "done") \/ Goes(d, "aborting", "failed")
  /\ nat' = [nat EXCEPT ![d] = "ended"]
  /\ calls' = [calls EXCEPT ![d] = 0]
  /\ UNCHANGED <<flag, shared, missed>>

\* A signal before the handlers are there, a SIGKILL, a crash.
Kill(d) ==
  /\ Running(d)
  /\ main' = [main EXCEPT ![d] = "killed"]
  /\ mapping' \in IF nat[d] = "adding" THEN {mapping, d} ELSE {mapping}
  /\ nat' = [nat EXCEPT ![d] = "ended"]
  /\ calls' = [calls EXCEPT ![d] = 0]
  /\ UNCHANGED <<flag, socket, listed, missed>>

-----------------------------------------------------------------------------
(* The NAT task.                                                           *)

NatGoes(d, from, to) ==
  /\ Running(d)
  /\ nat[d] = from
  /\ nat' = [nat EXCEPT ![d] = to]

\* search_gateway and the local address.
FindGateway(d) ==
  /\ NatGoes(d, "searching", "adding") \/ NatGoes(d, "searching", "stun")
  /\ UNCHANGED <<main, flag, calls, shared, missed>>

\* add_port: the router maps the port, or refuses, or maps it and its answer
\* is lost.
AddPort(d) ==
  /\ \/ /\ NatGoes(d, "adding", "fetching")
        /\ mapping' = d
        /\ UNCHANGED missed
     \/ /\ NatGoes(d, "adding", "stun")
        /\ \/ UNCHANGED <<mapping, missed>>
           \/ mapping' = d /\ Misses(d, "mapping")
  /\ UNCHANGED <<main, flag, calls, socket, listed>>

\* The flag stored once the registration has been answered.
FetchIpWithoutFlag(d) ==
  /\ NatGoes(d, "fetching", "registering")
  /\ UNCHANGED <<main, flag, calls, shared, missed>>

\* get_external_ip; with its answer map_external_port returns Ok and the flag
\* is set, without one it returns Err.
FetchIp(d) ==
  /\ \/ /\ NatGoes(d, "fetching", "registering")
        /\ flag' = [flag EXCEPT ![d] = TRUE]
        /\ UNCHANGED missed
     \/ /\ NatGoes(d, "fetching", "stun")
        /\ Misses(d, "mapping")
        /\ UNCHANGED flag
  /\ UNCHANGED <<main, calls, shared>>

\* discover_public_ip: an address; or a timeout, a malformed answer or a panic
\* on one, and the task ends.
DiscoverPublicIp(d) ==
  /\ NatGoes(d, "stun", "registering") \/ NatGoes(d, "stun", "ended")
  /\ UNCHANGED <<main, flag, calls, shared, missed>>

\* start_registration; the dial that may follow is in Signaling.
Register(d) ==
  /\ NatGoes(d, "registering", "ended")
  /\ listed' \in {listed, d}
  /\ UNCHANGED <<main, flag, calls, socket, mapping, missed>>

\* The server drops a session, whosever stream has ended (Signaling).
ServerForgets ==
  /\ listed' = None
  /\ UNCHANGED <<main, nat, flag, calls, socket, mapping, missed>>

-----------------------------------------------------------------------------
MainStep(d) ==
  \/ Start(d) \/ OpenSocket(d) \/ AcceptCall(d) \/ EndCall(d)
  \/ Signal(d) \/ Drained(d) \/ Disconnect(d) \/ RemoveSocket(d)
  \/ ReadFlag(d) \/ Unmap(d) \/ Exit(d) \/ Kill(d)

NatStep(d) ==
  \/ FindGateway(d) \/ AddPort(d) \/ FetchIp(d) \/ DiscoverPublicIp(d) \/ Register(d)

Next == (\E d \in Lives : MainStep(d) \/ NatStep(d)) \/ ServerForgets

Spec == Init /\ [][Next]_vars

\* Tasks run, calls to the server and the router return or fail, and transfers
\* end (FileTransfer).  Nobody has to start, signal or kill a daemon.
Fairness ==
  \A d \in Lives :
    /\ WF_vars(OpenSocket(d))
    /\ WF_vars(EndCall(d))
    /\ WF_vars(Drained(d) \/ Disconnect(d) \/ RemoveSocket(d) \/ ReadFlag(d) \/ Unmap(d))
    /\ WF_vars(AddPort(d))
    /\ WF_vars(Exit(d))

FairSpec == Spec /\ Fairness

-----------------------------------------------------------------------------
(* What holds.                                                             *)

(* The control socket of a daemon that serves is its own, whatever others  *)
(* are started, shut down or killed meanwhile: starting and leaving daemons *)
(* remove whatever is at the path (main.rs:514, :560), and only the UDP    *)
(* port keeps them apart.                                                  *)
SocketServes == \A d \in Lives : main[d] \in {"serving", "draining"} => socket = d

(* A daemon that is shut down after its NAT task has ended, and whose calls *)
(* are answered, leaves no socket file, no session at the server and no    *)
(* mapping of its own, and takes the file and the session of killed        *)
(* daemons with it (main.rs:547-576 against :239-293 and upnp.rs).         *)
LeavesNothing ==
  \A d \in Lives :
    /\ main[d] = "exiting" /\ socket # None => "socket" \in missed[d]
    /\ main[d] = "exiting" /\ listed # None => missed[d] \cap {"early", "disconnect"} # {}
    /\ main[d] \in {"exiting", "done"} /\ mapping = d =>
         missed[d] \cap {"early", "mapping", "unmap"} # {}

(* A signal ends a daemon, also with transfers in progress                 *)
(* (serve_with_incoming_shutdown waits for them) and whatever the NAT task *)
(* is in.                                                                  *)
ShutdownEnds == \A d \in Lives : main[d] = "draining" ~> main[d] \in {"done", "killed"}

(* A daemon that got the port comes to serve, whatever a killed one has    *)
(* left behind, unless the file system refuses (main.rs:514-517).          *)
EveryStartServes ==
  \A d \in Lives :
    main[d] = "bound" ~> main[d] \in {"serving", "killed"} \/ "socket" \in missed[d]
=============================================================================
