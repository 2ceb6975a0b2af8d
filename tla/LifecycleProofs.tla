--------------------------- MODULE LifecycleProofs --------------------------
(***************************************************************************)
(* Proofs about Lifecycle, for any number of lives and calls.  At most one *)
(* life holds the UDP port, so that whatever a running life finds at the   *)
(* socket path, at the server and on the router was left by one that no    *)
(* longer runs; and what its own NAT task may still do is bounded by where *)
(* the task was when the signal came.                                      *)
(***************************************************************************)
EXTENDS Lifecycle, TLAPS

OnePort == \A d, e \in Lives : Running(d) /\ Running(e) => d = e

NatRuns(d) == nat[d] \notin {"none", "ended"} => Running(d)
OwnsSocket(d) == main[d] \in {"serving", "draining", "disconnecting", "closing"} => socket = d
SocketGone(d) ==
  main[d] \in {"releasing", "unmapping", "exiting"} /\ socket # None => "socket" \in missed[d]
NatKnown(d) ==
  main[d] \in {"draining", "disconnecting", "closing", "releasing", "unmapping", "exiting", "done"}
    => nat[d] = "ended" \/ "early" \in missed[d]
Unlisted(d) ==
  main[d] \in {"closing", "releasing", "unmapping", "exiting"} /\ listed # None
    => missed[d] \cap {"early", "disconnect"} # {}
MappingKnown(d) ==
  mapping = d => \/ flag[d] \/ nat[d] = "fetching"
                 \/ missed[d] \cap {"early", "mapping"} # {}
                 \/ main[d] \in {"killed", "failed"}
Unmapped(d) ==
  main[d] \in {"exiting", "done"} /\ mapping = d
    => missed[d] \cap {"early", "mapping", "unmap"} # {}

Tidy(d) ==
  /\ NatRuns(d) /\ OwnsSocket(d) /\ SocketGone(d) /\ NatKnown(d)
  /\ Unlisted(d) /\ MappingKnown(d) /\ Unmapped(d)

IInv == TypeOK /\ OnePort /\ \A d \in Lives : Tidy(d)

Step(e) == MainStep(e) \/ NatStep(e)

-----------------------------------------------------------------------------
LEMMA TypesInit == Init => TypeOK
BY LifecycleAssumption DEF Init, TypeOK

LEMMA TypesStep == TypeOK /\ [Next]_vars => TypeOK'
<1> SUFFICES ASSUME TypeOK, [Next]_vars PROVE TypeOK'
  OBVIOUS
<1> USE LifecycleAssumption DEF TypeOK, Goes, Misses, shared
<1>1. CASE UNCHANGED vars BY <1>1 DEF vars
<1>2. CASE ServerForgets BY <1>2 DEF ServerForgets
<1>3. ASSUME NEW e \in Lives, Start(e) PROVE TypeOK' BY <1>3 DEF Start
<1>4. ASSUME NEW e \in Lives, OpenSocket(e) PROVE TypeOK' BY <1>4 DEF OpenSocket
<1>5. ASSUME NEW e \in Lives, AcceptCall(e) PROVE TypeOK' BY <1>5 DEF AcceptCall
<1>6. ASSUME NEW e \in Lives, EndCall(e) PROVE TypeOK' BY <1>6 DEF EndCall
<1>7. ASSUME NEW e \in Lives, Signal(e) PROVE TypeOK' BY <1>7 DEF Signal
<1>8. ASSUME NEW e \in Lives, Drained(e) PROVE TypeOK' BY <1>8 DEF Drained
<1>9. ASSUME NEW e \in Lives, Disconnect(e) PROVE TypeOK' BY <1>9 DEF Disconnect
<1>10. ASSUME NEW e \in Lives, RemoveSocket(e) PROVE TypeOK' BY <1>10 DEF RemoveSocket
<1>11. ASSUME NEW e \in Lives, ReadFlag(e) PROVE TypeOK' BY <1>11 DEF ReadFlag
<1>12. ASSUME NEW e \in Lives, Unmap(e) PROVE TypeOK' BY <1>12 DEF Unmap
<1>13. ASSUME NEW e \in Lives, Exit(e) PROVE TypeOK' BY <1>13 DEF Exit
<1>14. ASSUME NEW e \in Lives, Kill(e) PROVE TypeOK' BY <1>14 DEF Kill
<1>15. ASSUME NEW e \in Lives, FindGateway(e) PROVE TypeOK' BY <1>15 DEF FindGateway, NatGoes
<1>16. ASSUME NEW e \in Lives, AddPort(e) PROVE TypeOK' BY <1>16 DEF AddPort, NatGoes
<1>17. ASSUME NEW e \in Lives, FetchIp(e) PROVE TypeOK'
  <2>1. UNCHANGED <<main, calls, shared>> /\ (missed' = missed \/ Misses(e, "mapping"))
    BY <1>17 DEF FetchIp
  <2>2. nat' \in [Lives -> {"none", "searching", "adding", "fetching", "stun", "registering", "ended"}]
    BY <1>17 DEF FetchIp, NatGoes
  <2>3. flag' \in [Lives -> BOOLEAN] BY <1>17 DEF FetchIp
  <2> QED BY <2>1, <2>2, <2>3
<1>18. ASSUME NEW e \in Lives, DiscoverPublicIp(e) PROVE TypeOK' BY <1>18 DEF DiscoverPublicIp, NatGoes
<1>19. ASSUME NEW e \in Lives, Register(e) PROVE TypeOK' BY <1>19 DEF Register, NatGoes
<1> QED
  BY <1>1, <1>2, <1>3, <1>4, <1>5, <1>6, <1>7, <1>8, <1>9, <1>10, <1>11, <1>12, <1>13, <1>14,
     <1>15, <1>16, <1>17, <1>18, <1>19 DEF Next, MainStep, NatStep

-----------------------------------------------------------------------------
(* What a step of one life may do to the others.                           *)

\* It is a step of a running life, or a start when none runs, and touches its
\* own fields and the mapping of nobody else.
LEMMA StepIsLocal ==
  ASSUME TypeOK, NEW e \in Lives, Step(e)
  PROVE  /\ \A d \in Lives \ {e} : /\ main'[d] = main[d] /\ nat'[d] = nat[d]
                                   /\ flag'[d] = flag[d] /\ missed'[d] = missed[d]
         /\ mapping' \in {mapping, e, None}
         /\ \/ Running(e)
            \/ UNCHANGED shared /\ (Running(e)' => \A d \in Lives : ~Running(d))
<1> USE DEF TypeOK, Goes, Misses, shared
<1>1. CASE Start(e) BY <1>1 DEF Start, HoldsPort, Running
<1>2. CASE OpenSocket(e) \/ AcceptCall(e) BY <1>2 DEF OpenSocket, AcceptCall, Running
<1>3. CASE EndCall(e) BY <1>3 DEF EndCall, Running
<1>4. CASE Signal(e) \/ Drained(e) \/ Disconnect(e) BY <1>4 DEF Signal, Drained, Disconnect, Running
<1>5. CASE RemoveSocket(e) \/ ReadFlag(e) \/ Unmap(e) BY <1>5 DEF RemoveSocket, ReadFlag, Unmap, Running
<1>6. CASE Exit(e) BY <1>6 DEF Exit, Running
<1>7. CASE Kill(e) BY <1>7 DEF Kill, Running
<1>8. CASE NatStep(e)
  BY <1>8 DEF NatStep, NatGoes, FindGateway, AddPort, FetchIp, DiscoverPublicIp, Register, Running
<1> QED BY <1>1, <1>2, <1>3, <1>4, <1>5, <1>6, <1>7, <1>8 DEF Step, MainStep

LEMMA OnePortStep ==
  ASSUME TypeOK, OnePort, NEW e \in Lives, Step(e)
  PROVE  OnePort'
<1> SUFFICES ASSUME NEW c \in Lives, NEW d \in Lives, Running(c)', Running(d)', c # d
             PROVE  FALSE
  BY DEF OnePort
<1>1. \A f \in Lives \ {e} : Running(f)' <=> Running(f)
  BY StepIsLocal DEF Running
<1>2. CASE Running(e) BY <1>1, <1>2 DEF OnePort
<1>3. CASE ~Running(e)
  <2>1. Running(e)' => \A f \in Lives : ~Running(f) BY <1>3, StepIsLocal
  <2> QED BY <1>1, <1>3, <2>1 DEF OnePort
<1> QED BY <1>2, <1>3

\* A life that runs is not disturbed, as no other runs; of one that does not
\* only the mapping matters.
LEMMA OthersStayTidy ==
  ASSUME TypeOK, OnePort, NEW e \in Lives, Step(e), NEW d \in Lives \ {e}, Tidy(d)
  PROVE  Tidy(d)'
<1>1. /\ main'[d] = main[d] /\ nat'[d] = nat[d] /\ flag'[d] = flag[d] /\ missed'[d] = missed[d]
      /\ mapping' = d => mapping = d
      /\ Running(e) \/ UNCHANGED shared
  BY StepIsLocal, LifecycleAssumption
<1>2. CASE Running(d)
  <2>1. UNCHANGED shared BY <1>1, <1>2 DEF OnePort
  <2> QED BY <1>1, <2>1 DEF Tidy, NatRuns, OwnsSocket, SocketGone, NatKnown, Unlisted,
                            MappingKnown, Unmapped, Running, shared
<1>3. CASE ~Running(d)
  BY <1>1, <1>3 DEF Tidy, NatRuns, OwnsSocket, SocketGone, NatKnown, Unlisted, MappingKnown,
                    Unmapped, Running
<1> QED BY <1>2, <1>3

-----------------------------------------------------------------------------
LEMMA TidyStep ==
  ASSUME TypeOK, NEW d \in Lives, Tidy(d), Step(d)
  PROVE  Tidy(d)'
<1> USE LifecycleAssumption
    DEF TypeOK, Goes, Misses, shared, Tidy, NatRuns, OwnsSocket, SocketGone, NatKnown, Unlisted,
        MappingKnown, Unmapped, Running
<1>1. CASE Start(d) BY <1>1 DEF Start
<1>2. CASE OpenSocket(d) BY <1>2 DEF OpenSocket
<1>3. CASE AcceptCall(d) \/ EndCall(d) BY <1>3 DEF AcceptCall, EndCall
<1>4. CASE Signal(d) BY <1>4 DEF Signal
<1>5. CASE Drained(d) BY <1>5 DEF Drained
<1>6. CASE Disconnect(d) BY <1>6 DEF Disconnect
<1>7. CASE RemoveSocket(d) BY <1>7 DEF RemoveSocket
<1>8. CASE ReadFlag(d) BY <1>8 DEF ReadFlag
<1>9. CASE Unmap(d) BY <1>9 DEF Unmap
<1>10. CASE Exit(d) BY <1>10 DEF Exit
<1>11. CASE Kill(d) BY <1>11 DEF Kill
<1>12. CASE FindGateway(d) BY <1>12 DEF FindGateway, NatGoes
<1>13. CASE AddPort(d) BY <1>13 DEF AddPort, NatGoes
<1>14. CASE FetchIp(d) BY <1>14 DEF FetchIp, NatGoes
<1>15. CASE DiscoverPublicIp(d) BY <1>15 DEF DiscoverPublicIp, NatGoes
<1>16. CASE Register(d) BY <1>16 DEF Register, NatGoes
<1> QED
  BY <1>1, <1>2, <1>3, <1>4, <1>5, <1>6, <1>7, <1>8, <1>9, <1>10, <1>11, <1>12, <1>13, <1>14,
     <1>15, <1>16 DEF Step, MainStep, NatStep

LEMMA IInvInit == Init => IInv
<1> SUFFICES ASSUME Init PROVE IInv
  OBVIOUS
<1>1. TypeOK BY TypesInit
<1>2. OnePort BY DEF Init, OnePort, Running
<1>3. \A d \in Lives : Tidy(d)
  <2>1. TAKE d \in Lives
  <2>2. main[d] = "off" /\ nat[d] = "none" /\ mapping # d
    BY LifecycleAssumption DEF Init
  <2> QED BY <2>2, Zenon DEF Tidy, NatRuns, OwnsSocket, SocketGone, NatKnown, Unlisted, MappingKnown, Unmapped
<1> QED BY <1>1, <1>2, <1>3 DEF IInv

LEMMA IInvStep == IInv /\ [Next]_vars => IInv'
<1> SUFFICES ASSUME IInv, [Next]_vars PROVE IInv'
  OBVIOUS
<1>1. TypeOK' BY TypesStep DEF IInv
<1>2. CASE UNCHANGED vars
  BY <1>1, <1>2 DEF IInv, vars, OnePort, Running, Tidy, NatRuns, OwnsSocket, SocketGone, NatKnown,
                    Unlisted, MappingKnown, Unmapped
<1>3. CASE ServerForgets
  BY <1>1, <1>3 DEF IInv, ServerForgets, OnePort, Running, Tidy, NatRuns, OwnsSocket, SocketGone,
                    NatKnown, Unlisted, MappingKnown, Unmapped
<1>4. ASSUME NEW e \in Lives, Step(e) PROVE IInv'
  <2>1. OnePort' BY <1>4, OnePortStep DEF IInv
  <2>2. \A d \in Lives : Tidy(d)'
    <3>1. TAKE d \in Lives
    <3>2. CASE d = e BY <1>4, <3>2, TidyStep DEF IInv
    <3>3. CASE d # e BY <1>4, <3>3, OthersStayTidy DEF IInv
    <3> QED BY <3>2, <3>3
  <2> QED BY <1>1, <2>1, <2>2 DEF IInv
<1> QED BY <1>2, <1>3, <1>4 DEF Next, Step

LEMMA Always == Spec => []IInv
<1>1. Init => IInv BY IInvInit
<1>2. IInv /\ [Next]_vars => IInv' BY IInvStep
<1> QED BY <1>1, <1>2, PTL DEF Spec

-----------------------------------------------------------------------------
\* The variables of main.rs's main and NAT task keep their types.
THEOREM LifecycleTypes == Spec => []TypeOK
<1>1. IInv => TypeOK BY DEF IInv
<1> QED BY <1>1, Always, PTL

\* However many daemons are started, shut down and killed, the control socket
\* of one that serves is its own (main.rs:514, :560 against the UDP port).
THEOREM SocketIsOwn == Spec => []SocketServes
<1>1. IInv => SocketServes BY DEF IInv, Tidy, OwnsSocket, SocketServes
<1> QED BY <1>1, Always, PTL

\* What a daemon may leave at the socket path, at the server and on the router
\* is what an early signal or a failed call explains (main.rs:547-576).
THEOREM TeardownIsComplete == Spec => []LeavesNothing
<1>1. ASSUME IInv, NEW d \in Lives PROVE SocketGone(d) /\ Unlisted(d) /\ Unmapped(d)
  BY <1>1 DEF IInv, Tidy
<1>2. IInv => LeavesNothing BY <1>1, Zenon DEF SocketGone, Unlisted, Unmapped, LeavesNothing
<1> QED BY <1>2, Always, PTL
=============================================================================
