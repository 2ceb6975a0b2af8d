---------------------------- MODULE BridgeProofs ----------------------------
(***************************************************************************)
(* No packet is injected twice, none is lost inside the node, and a        *)
(* datagram is refused for a reason, for any number of bridges, any window *)
(* and any width of the sequence numbers.                                  *)
(***************************************************************************)
EXTENDS DatagramBridge, FiniteSetTheorems, TLAPS

(* The filter's answer is final: a number it has accepted, and a number it *)
(* refuses, are refused from then on, however the window moves.            *)
LEMMA RefusalIsFinal ==
  ASSUME NEW f \in Filter, NEW t \in Nat, Accepts(f, t)
  PROVE  /\ CheckAndMark(f, t) \in Filter
         /\ ~Accepts(CheckAndMark(f, t), t)
         /\ \A s \in Nat : ~Accepts(f, s) => ~Accepts(CheckAndMark(f, t), s)
<1> DEFINE g == CheckAndMark(f, t)
<1> USE BridgeAssumption DEF Filter, Bits
<1>0. /\ f.highest_seq \in Nat /\ f.bitmap \in SUBSET Bits /\ f.started \in BOOLEAN
      /\ g = Mark(f, t)
  BY DEF CheckAndMark
<1>1. CASE ~f.started
  <2>1. g = [highest_seq |-> t, bitmap |-> {0}, started |-> TRUE]
    BY <1>0, <1>1 DEF Mark
  <2>2. \A s \in Nat : Accepts(f, s)
    BY <1>1 DEF Accepts
  <2>3. g \in Filter
    BY <2>1
  <2>4. ~Accepts(g, t)
    BY <2>1 DEF Accepts
  <2> HIDE DEF g
  <2> QED BY <2>2, <2>3, <2>4 DEF g
<1>2. CASE f.started /\ t <= f.highest_seq
  <2>1. g = [f EXCEPT !.bitmap = @ \cup {-(t - f.highest_seq)}]
    BY <1>0, <1>2 DEF Mark
  <2>2. f.highest_seq - t \in Bits
    BY <1>0, <1>2 DEF Accepts
  <2>3. /\ g.highest_seq = f.highest_seq /\ g.started
        /\ g.bitmap = f.bitmap \cup {f.highest_seq - t}
    BY <1>0, <1>2, <2>1
  <2>4. g \in Filter
    BY <1>0, <1>2, <2>1, <2>2, <2>3
  <2> HIDE DEF g
  <2>5. ~Accepts(g, t)
    BY <1>0, <1>2, <2>3 DEF Accepts
  <2>6. ASSUME NEW s \in Nat, ~Accepts(f, s) PROVE ~Accepts(g, s)
    BY <1>0, <1>2, <2>3, <2>6 DEF Accepts
  <2> QED BY <2>4, <2>5, <2>6 DEF g
<1>3. CASE f.started /\ ~(t <= f.highest_seq)
  <2> DEFINE diff == t - f.highest_seq
  <2>1. g = [f EXCEPT !.highest_seq = t,
                      !.bitmap = IF diff >= Window THEN {0}
                                 ELSE ShiftLeft(@, diff) \cup {0}]
    BY <1>0, <1>3 DEF Mark
  <2>2. /\ g.highest_seq = t /\ g.started
        /\ g.bitmap = IF diff >= Window THEN {0} ELSE ShiftLeft(f.bitmap, diff) \cup {0}
    BY <1>0, <1>3, <2>1
  <2>3. ShiftLeft(f.bitmap, diff) \subseteq Bits /\ 0 \in Bits
    BY DEF ShiftLeft
  <2>4. g \in Filter
    BY <1>0, <1>3, <2>1, <2>2, <2>3
  <2> HIDE DEF g
  <2>5. ~Accepts(g, t)
    BY <1>0, <1>3, <2>2 DEF Accepts
  <2>6. ASSUME NEW s \in Nat, ~Accepts(f, s) PROVE ~Accepts(g, s)
    <3>1. /\ s <= f.highest_seq
          /\ f.highest_seq - s >= Window \/ f.highest_seq - s \in f.bitmap
      BY <1>0, <1>3, <2>6 DEF Accepts
    <3>2. t - s = (f.highest_seq - s) + diff /\ t - s \in Nat /\ diff \in Nat /\ s <= t
      BY <1>0, <1>3, <3>1
    <3>3. t - s >= Window \/ t - s \in g.bitmap
      <4> SUFFICES ASSUME t - s < Window PROVE t - s \in g.bitmap
        BY <3>2
      <4>1. f.highest_seq - s \in f.bitmap /\ ~(diff >= Window)
        BY <1>0, <3>1, <3>2
      <4>2. t - s \in Bits /\ (t - s) - diff \in f.bitmap
        BY <1>0, <3>1, <3>2, <4>1
      <4> QED BY <2>2, <4>1, <4>2 DEF ShiftLeft
    <3>4. ~(s > t)
      BY <1>0, <3>2
    <3>5. t - s \in Nat
      BY <3>2
    <3> QED BY <2>2, <3>3, <3>4, <3>5 DEF Accepts
  <2> QED BY <2>4, <2>5, <2>6 DEF g
<1> QED BY <1>0, <1>1, <1>2, <1>3

-----------------------------------------------------------------------------
(* The inductive invariant.                                                *)

\* Only packets that have been taken are held or sent.
KnownPackets ==
  /\ \A p \in Peers : holding[p] # None => holding[p] <= taken
  /\ \A p \in Peers : \A d \in net[p] : d.packet <= taken

\* A packet is in one datagram of one bridge at most.
OneDatagramEach ==
  \A p, q \in Peers : \A d \in net[p], e \in net[q] :
    d.packet = e.packet => p = q /\ d = e

\* A packet still held is in no datagram and in no other bridge's hands.
HeldApart ==
  \A p \in Peers : holding[p] # None =>
    /\ \A q \in Peers : \A d \in net[q] : d.packet # holding[p]
    /\ \A q \in Peers : q # p => holding[q] # holding[p]

\* A packet that has been injected came in a datagram the filter refuses now.
SpentIsRefused ==
  \A p \in Peers : \A k \in Packets : injected[p][k] > 0 =>
    /\ injected[p][k] = 1
    /\ \E d \in net[p] : d.packet = k /\ ~Accepts(rx[p], d.seq)

IInv == TypeOK /\ KnownPackets /\ OneDatagramEach /\ HeldApart /\ SpentIsRefused

LEMMA IInvInit == Init => IInv
<1> SUFFICES ASSUME Init PROVE IInv
  OBVIOUS
<1>1. NewFilter \in Filter
  BY BridgeAssumption DEF NewFilter, Filter, Bits
<1>2. TypeOK
  BY <1>1, BridgeAssumption DEF Init, TypeOK
<1>3. KnownPackets /\ OneDatagramEach /\ HeldApart /\ SpentIsRefused
  BY DEF Init, KnownPackets, OneDatagramEach, HeldApart, SpentIsRefused
<1> QED BY <1>2, <1>3 DEF IInv

LEMMA ReadTunKeepsIInv ==
  ASSUME IInv, NEW p \in Peers, ReadTun(p)
  PROVE  IInv'
<1> USE DEF IInv
<1>1. /\ taken \in Nat /\ taken + 1 \in Packets /\ taken + 1 # None
      /\ taken' = taken + 1
      /\ holding' = [holding EXCEPT ![p] = taken + 1]
      /\ UNCHANGED <<conn, egress, tx_seq, sealed, net, ingress, rx, injected>>
  BY NoneAssumption, BridgeAssumption DEF ReadTun, TypeOK, Packets, ingressVars
<1>2. PICK o \in Peers : dest' = [dest EXCEPT ![taken + 1] = o]
  BY DEF ReadTun
<1>3. /\ holding \in [Peers -> Packets \cup {None}]
      /\ \A q \in Peers : holding'[q] = IF q = p THEN taken + 1 ELSE holding[q]
  BY <1>1 DEF TypeOK
<1>4. \A q \in Peers : holding[q] # None => holding[q] \in Nat /\ holding[q] <= taken
  BY <1>3 DEF KnownPackets, Packets
<1>5. \A q \in Peers : \A d \in net[q] : d.packet \in Nat /\ d.packet <= taken
  BY DEF KnownPackets, TypeOK, Datagram, Packets
<1>6. TypeOK'
  <2>1. taken' \in 0 .. Traffic
    BY <1>1, BridgeAssumption DEF Packets
  <2>2. dest' \in [Packets -> Peers \cup {None}]
    BY <1>2 DEF TypeOK
  <2>3. holding' \in [Peers -> Packets \cup {None}]
    BY <1>1 DEF TypeOK
  <2> QED BY <1>1, <2>1, <2>2, <2>3 DEF TypeOK
<1>7. KnownPackets'
  BY <1>1, <1>3, <1>4, <1>5 DEF KnownPackets
<1>8. OneDatagramEach'
  BY <1>1 DEF OneDatagramEach
<1>9. HeldApart'
  <2> SUFFICES ASSUME NEW q \in Peers, holding'[q] # None
               PROVE  /\ \A r \in Peers : \A d \in net[r] : d.packet # holding'[q]
                      /\ \A r \in Peers : r # q => holding'[r] # holding'[q]
    BY <1>1 DEF HeldApart
  <2>1. CASE q = p
    BY <1>1, <1>3, <1>4, <1>5, <2>1
  <2>2. CASE q # p
    <3>1. holding'[q] = holding[q] /\ holding[q] # taken + 1
      BY <1>1, <1>3, <1>4, <2>2
    <3> QED BY <1>3, <3>1 DEF HeldApart
  <2> QED BY <2>1, <2>2
<1>10. SpentIsRefused'
  BY <1>1 DEF SpentIsRefused
<1> QED BY <1>6, <1>7, <1>8, <1>9, <1>10

(* What a sealing step leaves, whether the datagram is sent or not.        *)
LEMMA SealKeepsTypes ==
  ASSUME TypeOK, NEW p \in Peers, Seal(p)
  PROVE  /\ tx_seq' \in [Peers -> 0 .. SeqModulus - 1]
         /\ sealed' \in [Peers -> Nat]
<1>1. \A n \in Nat : (n + 1) % SeqModulus \in 0 .. SeqModulus - 1
  BY BridgeAssumption
<1>2. tx_seq[p] \in Nat
  BY BridgeAssumption DEF TypeOK
<1> QED BY <1>1, <1>2 DEF Seal, TypeOK

LEMMA TransmitKeepsIInv ==
  ASSUME IInv, NEW p \in Peers, Transmit(p)
  PROVE  IInv'
<1> USE DEF IInv
<1> DEFINE new == [packet |-> holding[p], index |-> sealed[p], seq |-> tx_seq[p]]
<1>1. /\ holding[p] # None
      /\ Seal(p)
      /\ net' = [net EXCEPT ![p] = @ \cup {new}]
      /\ holding' = [holding EXCEPT ![p] = None]
      /\ UNCHANGED <<taken, dest, conn, egress, ingress, rx, injected>>
  BY DEF Transmit, ingressVars
<1>2. new \in Datagram
  BY <1>1 DEF TypeOK, Datagram
<1>3. \A q \in Peers : net'[q] = IF q = p THEN net[q] \cup {new} ELSE net[q]
  BY <1>1 DEF TypeOK
<1>4. \A q \in Peers : holding'[q] = IF q = p THEN None ELSE holding[q]
  BY <1>1 DEF TypeOK
<1>5. new.packet = holding[p]
  OBVIOUS
<1> HIDE DEF new
<1>6. TypeOK'
  <2>1. net' \in [Peers -> SUBSET Datagram]
    BY <1>1, <1>2 DEF TypeOK
  <2>2. holding' \in [Peers -> Packets \cup {None}]
    BY <1>1 DEF TypeOK
  <2> QED BY <1>1, <2>1, <2>2, SealKeepsTypes DEF TypeOK
<1>7. KnownPackets'
  BY <1>1, <1>3, <1>4, <1>5 DEF KnownPackets
<1>8. OneDatagramEach'
  <2>1. \A q \in Peers : \A d \in net[q] : d.packet # new.packet
    BY <1>1, <1>5 DEF HeldApart
  <2> SUFFICES ASSUME NEW q \in Peers, NEW r \in Peers,
                      NEW d \in net'[q], NEW e \in net'[r], d.packet = e.packet
               PROVE  q = r /\ d = e
    BY DEF OneDatagramEach
  <2>2. CASE d \in net[q] /\ e \in net[r]
    BY <2>2 DEF OneDatagramEach
  <2>3. CASE d \notin net[q] \/ e \notin net[r]
    <3>1. d \in net[q] \/ (q = p /\ d = new)
      BY <1>3
    <3>2. e \in net[r] \/ (r = p /\ e = new)
      BY <1>3
    <3> QED BY <2>1, <2>3, <3>1, <3>2
  <2> QED BY <2>2, <2>3
<1>9. HeldApart'
  <2> SUFFICES ASSUME NEW q \in Peers, holding'[q] # None
               PROVE  /\ \A r \in Peers : \A d \in net'[r] : d.packet # holding'[q]
                      /\ \A r \in Peers : r # q => holding'[r] # holding'[q]
    BY DEF HeldApart
  <2>1. q # p /\ holding'[q] = holding[q] /\ holding[q] # holding[p]
    BY <1>1, <1>4 DEF HeldApart
  <2>2. \A r \in Peers : \A d \in net'[r] : d \in net[r] \/ d = new
    BY <1>3
  <2> QED BY <1>4, <1>5, <2>1, <2>2 DEF HeldApart
<1>10. SpentIsRefused'
  BY <1>1, <1>3 DEF SpentIsRefused
<1> QED BY <1>6, <1>7, <1>8, <1>9, <1>10

LEMMA TransmitFailsKeepsIInv ==
  ASSUME IInv, NEW p \in Peers, TransmitFails(p)
  PROVE  IInv'
<1> USE DEF IInv
<1>1. /\ Seal(p)
      /\ holding' = [holding EXCEPT ![p] = None]
      /\ egress' = [egress EXCEPT ![p] = "ended"]
      /\ UNCHANGED <<taken, dest, conn, net, ingress, rx, injected>>
  BY DEF TransmitFails, ingressVars
<1>2. \A q \in Peers : holding'[q] = IF q = p THEN None ELSE holding[q]
  BY <1>1 DEF TypeOK
<1>3. TypeOK'
  <2>1. holding' \in [Peers -> Packets \cup {None}]
    BY <1>1 DEF TypeOK
  <2>2. egress' \in [Peers -> {"running", "ended"}]
    BY <1>1 DEF TypeOK
  <2> QED BY <1>1, <2>1, <2>2, SealKeepsTypes DEF TypeOK
<1>4. KnownPackets' /\ OneDatagramEach' /\ HeldApart'
  BY <1>1, <1>2 DEF KnownPackets, OneDatagramEach, HeldApart
<1>5. SpentIsRefused'
  BY <1>1 DEF SpentIsRefused
<1> QED BY <1>3, <1>4, <1>5

LEMMA DeliverKeepsIInv ==
  ASSUME IInv, NEW p \in Peers, Deliver(p)
  PROVE  IInv'
<1> USE DEF IInv
<1>1. UNCHANGED <<conn, taken, dest, egress, holding, tx_seq, sealed, net>>
  BY DEF Deliver, egressVars
<1>2. PICK d \in net[p] :
        /\ Accepts(rx[p], d.seq)
        /\ rx' = [rx EXCEPT ![p] = CheckAndMark(@, d.seq)]
        /\ \/ /\ injected' = [injected EXCEPT ![p][d.packet] = @ + 1]
              /\ UNCHANGED ingress
           \/ /\ ingress' = [ingress EXCEPT ![p] = "ended"]
              /\ UNCHANGED injected
  BY DEF Deliver
<1>3. d \in Datagram /\ d.packet \in Packets /\ d.seq \in Nat /\ rx[p] \in Filter
  BY BridgeAssumption DEF TypeOK, Datagram
<1>4. /\ CheckAndMark(rx[p], d.seq) \in Filter
      /\ ~Accepts(CheckAndMark(rx[p], d.seq), d.seq)
      /\ \A s \in Nat : ~Accepts(rx[p], s) => ~Accepts(CheckAndMark(rx[p], d.seq), s)
  BY <1>2, <1>3, RefusalIsFinal
<1>5. \A q \in Peers : rx'[q] = IF q = p THEN CheckAndMark(rx[p], d.seq) ELSE rx[q]
  BY <1>2 DEF TypeOK
<1>6. \A q \in Peers, k \in Packets :
        \/ injected'[q][k] = injected[q][k]
        \/ q = p /\ k = d.packet /\ injected'[q][k] = injected[q][k] + 1
  BY <1>2 DEF TypeOK
<1>7. injected[p][d.packet] = 0
  <2>1. ~(injected[p][d.packet] > 0)
    BY <1>2, <1>3 DEF SpentIsRefused, OneDatagramEach
  <2>2. injected[p][d.packet] \in Nat
    BY <1>3 DEF TypeOK
  <2> QED BY <2>1, <2>2
<1>8. TypeOK'
  <2>1. rx' \in [Peers -> Filter]
    BY <1>2, <1>4 DEF TypeOK
  <2>2. ingress' \in [Peers -> {"running", "ended"}]
    BY <1>2 DEF TypeOK
  <2>3. injected' \in [Peers -> [Packets -> Nat]]
    <3>1. CASE UNCHANGED injected
      BY <3>1 DEF TypeOK
    <3>2. CASE injected' = [injected EXCEPT ![p][d.packet] = @ + 1]
      <4>1. injected[p][d.packet] + 1 \in Nat
        BY <1>7
      <4> QED BY <3>2, <4>1, <1>3 DEF TypeOK
    <3> QED BY <1>2, <3>1, <3>2
  <2> QED BY <1>1, <2>1, <2>2, <2>3 DEF TypeOK
<1>9. KnownPackets' /\ OneDatagramEach' /\ HeldApart'
  BY <1>1 DEF KnownPackets, OneDatagramEach, HeldApart
<1>10. SpentIsRefused'
  <2> SUFFICES ASSUME NEW q \in Peers, NEW k \in Packets, injected'[q][k] > 0
               PROVE  /\ injected'[q][k] = 1
                      /\ \E e \in net[q] : e.packet = k /\ ~Accepts(rx'[q], e.seq)
    BY <1>1 DEF SpentIsRefused
  <2>1. CASE injected'[q][k] = injected[q][k]
    <3>1. PICK e \in net[q] : e.packet = k /\ ~Accepts(rx[q], e.seq)
      BY <2>1 DEF SpentIsRefused
    <3>2. e.seq \in Nat
      BY BridgeAssumption DEF TypeOK, Datagram
    <3>3. ~Accepts(rx'[q], e.seq)
      BY <1>4, <1>5, <3>1, <3>2
    <3> QED BY <2>1, <3>1, <3>3 DEF SpentIsRefused
  <2>2. CASE q = p /\ k = d.packet /\ injected'[q][k] = injected[q][k] + 1
    BY <1>4, <1>5, <1>7, <2>2
  <2> QED BY <1>6, <2>1, <2>2
<1> QED BY <1>8, <1>9, <1>10

LEMMA IInvStep == IInv /\ [Next]_vars => IInv'
<1> SUFFICES ASSUME IInv, [Next]_vars PROVE IInv'
  OBVIOUS
<1>1. ASSUME NEW p \in Peers, IngressEnds(p) PROVE IInv'
  <2>1. /\ ingress' = [ingress EXCEPT ![p] = "ended"]
        /\ UNCHANGED <<conn, taken, dest, egress, holding, tx_seq, sealed, net, rx, injected>>
    BY <1>1 DEF IngressEnds, egressVars
  <2>2. TypeOK'
    BY <2>1 DEF IInv, TypeOK
  <2> QED BY <2>1, <2>2 DEF IInv, KnownPackets, OneDatagramEach, HeldApart, SpentIsRefused
<1>2. ASSUME NEW p \in Peers, CloseConn(p) PROVE IInv'
  <2>1. /\ conn' = [conn EXCEPT ![p] = "closed"]
        /\ UNCHANGED <<taken, dest, egress, holding, tx_seq, sealed, net, ingress, rx, injected>>
    BY <1>2 DEF CloseConn, egressVars, ingressVars
  <2>2. TypeOK'
    BY <2>1 DEF IInv, TypeOK
  <2> QED BY <2>1, <2>2 DEF IInv, KnownPackets, OneDatagramEach, HeldApart, SpentIsRefused
<1>3. CASE UNCHANGED vars
  BY <1>3 DEF vars, IInv, TypeOK, KnownPackets, OneDatagramEach, HeldApart, SpentIsRefused
<1> QED BY <1>1, <1>2, <1>3, ReadTunKeepsIInv, TransmitKeepsIInv,
           TransmitFailsKeepsIInv, DeliverKeepsIInv DEF Next

(* However many bridges share the TUN, whatever the network repeats,       *)
(* reorders or loses, and whether or not the sequence numbers wrap: a      *)
(* packet enters at most one peer's TUN and enters it at most once.        *)
THEOREM NoPacketTwice == Spec => []InjectedOnce
<1>1. IInv => InjectedOnce
  <2> SUFFICES ASSUME IInv, NEW k \in Packets, NEW p \in Peers, NEW q \in Peers,
                      injected[p][k] > 0, injected[q][k] > 0
               PROVE  p = q /\ injected[p][k] = 1
    BY DEF InjectedOnce
  <2>1. PICK d \in net[p] : d.packet = k
    BY DEF IInv, SpentIsRefused
  <2>2. PICK e \in net[q] : e.packet = k
    BY DEF IInv, SpentIsRefused
  <2>3. p = q
    BY <2>1, <2>2 DEF IInv, OneDatagramEach
  <2>4. injected[p][k] = 1
    BY DEF IInv, SpentIsRefused
  <2> QED BY <2>3, <2>4
<1> QED BY IInvInit, IInvStep, <1>1, PTL DEF Spec

(* The types the module declares, for every value of the constants.        *)
THEOREM BridgeTypes == Spec => []TypeOK
<1>1. IInv => TypeOK
  BY DEF IInv
<1> QED BY IInvInit, IInvStep, <1>1, PTL DEF Spec

-----------------------------------------------------------------------------
(* Where the packets are.                                                  *)

Sent == UNION {{d.packet : d \in net[p]} : p \in Peers}
Held == {p \in Peers : holding[p] # None}
Ended == {p \in Peers : egress[p] = "ended"}

\* Peers may be infinite, but what has happened to them is not.
Accounting ==
  /\ IsFiniteSet(Sent) /\ IsFiniteSet(Held) /\ IsFiniteSet(Ended)
  /\ taken = Cardinality(Sent) + Cardinality(Held) + Cardinality(Ended)

LEMMA AccountingInit == Init => Accounting
<1> SUFFICES ASSUME Init PROVE Accounting
  OBVIOUS
<1>1. Sent = {} /\ Held = {} /\ Ended = {}
  BY DEF Init, Sent, Held, Ended
<1>2. taken = 0
  BY DEF Init
<1> QED BY <1>1, <1>2, FS_EmptySet DEF Accounting

(* A task that lets go of its packet leaves the set of holders by one.     *)
LEMMA LettingGo ==
  ASSUME TypeOK, Accounting, NEW p \in Peers, holding[p] # None,
         holding' = [holding EXCEPT ![p] = None]
  PROVE  /\ IsFiniteSet(Held')
         /\ Cardinality(Held) \in Nat
         /\ Cardinality(Held') = Cardinality(Held) - 1
<1>1. Held' = Held \ {p} /\ p \in Held
  BY DEF Held, TypeOK
<1>2. IsFiniteSet(Held)
  BY DEF Accounting
<1> QED BY <1>1, <1>2, FS_RemoveElement, FS_CardinalityType

LEMMA AccountingStep == IInv /\ Accounting /\ [Next]_vars => Accounting'
<1> SUFFICES ASSUME IInv, Accounting, [Next]_vars PROVE Accounting'
  OBVIOUS
<1>1. TypeOK
  BY DEF IInv
<1>2. /\ IsFiniteSet(Sent) /\ IsFiniteSet(Held) /\ IsFiniteSet(Ended)
      /\ Cardinality(Sent) \in Nat /\ Cardinality(Held) \in Nat /\ Cardinality(Ended) \in Nat
      /\ taken = Cardinality(Sent) + Cardinality(Held) + Cardinality(Ended)
  BY FS_CardinalityType DEF Accounting
<1>3. ASSUME NEW p \in Peers, ReadTun(p) PROVE Accounting'
  <2>1. /\ taken' = taken + 1 /\ taken + 1 # None
        /\ holding[p] = None
        /\ holding' = [holding EXCEPT ![p] = taken + 1]
        /\ UNCHANGED <<egress, net>>
    BY <1>1, <1>3, NoneAssumption, BridgeAssumption DEF ReadTun, Packets, TypeOK
  <2>2. Held' = Held \cup {p} /\ p \notin Held
    BY <1>1, <2>1 DEF Held, TypeOK
  <2>3. IsFiniteSet(Held') /\ Cardinality(Held') = Cardinality(Held) + 1
    BY <1>2, <2>2, FS_AddElement
  <2>4. Sent' = Sent /\ Ended' = Ended
    BY <2>1 DEF Sent, Ended
  <2> QED BY <1>2, <2>1, <2>3, <2>4 DEF Accounting
<1>4. ASSUME NEW p \in Peers, Transmit(p) PROVE Accounting'
  <2> DEFINE new == [packet |-> holding[p], index |-> sealed[p], seq |-> tx_seq[p]]
  <2>1. /\ holding[p] # None
        /\ net' = [net EXCEPT ![p] = @ \cup {new}]
        /\ holding' = [holding EXCEPT ![p] = None]
        /\ UNCHANGED <<taken, egress>>
    BY <1>4 DEF Transmit
  <2>2. IsFiniteSet(Held') /\ Cardinality(Held') = Cardinality(Held) - 1
    BY <1>1, <2>1, LettingGo
  <2>3. Sent' = Sent \cup {holding[p]}
    <3>1. new.packet = holding[p]
      OBVIOUS
    <3> HIDE DEF new
    <3>2. \A q \in Peers : net'[q] = IF q = p THEN net[q] \cup {new} ELSE net[q]
      BY <1>1, <2>1 DEF TypeOK
    <3>3. \A k : k \in Sent' <=> \E q \in Peers : \E d \in net'[q] : k = d.packet
      BY DEF Sent
    <3>4. \A k : k \in Sent <=> \E q \in Peers : \E d \in net[q] : k = d.packet
      BY DEF Sent
    <3>5. ASSUME NEW k \in Sent' PROVE k \in Sent \/ k = holding[p]
      <4>1. PICK q \in Peers : \E d \in net'[q] : k = d.packet
        BY <3>3
      <4> QED BY <3>1, <3>2, <3>4, <4>1
    <3>6. ASSUME NEW k \in Sent PROVE k \in Sent'
      <4>1. PICK q \in Peers : \E d \in net[q] : k = d.packet
        BY <3>4
      <4> QED BY <3>2, <3>3, <4>1
    <3>7. holding[p] \in Sent'
      BY <3>1, <3>2, <3>3
    <3> QED BY <3>5, <3>6, <3>7
  <2>4. holding[p] \notin Sent
    BY <2>1 DEF IInv, HeldApart, Sent
  <2>5. IsFiniteSet(Sent') /\ Cardinality(Sent') = Cardinality(Sent) + 1
    BY <1>2, <2>3, <2>4, FS_AddElement
  <2>6. Ended' = Ended
    BY <2>1 DEF Ended
  <2> QED BY <1>2, <2>1, <2>2, <2>5, <2>6 DEF Accounting
<1>5. ASSUME NEW p \in Peers, TransmitFails(p) PROVE Accounting'
  <2>1. /\ holding[p] # None
        /\ egress[p] = "running"
        /\ holding' = [holding EXCEPT ![p] = None]
        /\ egress' = [egress EXCEPT ![p] = "ended"]
        /\ UNCHANGED <<taken, net>>
    BY <1>5 DEF TransmitFails
  <2>2. IsFiniteSet(Held') /\ Cardinality(Held') = Cardinality(Held) - 1
    BY <1>1, <2>1, LettingGo
  <2>3. Ended' = Ended \cup {p} /\ p \notin Ended
    BY <1>1, <2>1 DEF Ended, TypeOK
  <2>4. IsFiniteSet(Ended') /\ Cardinality(Ended') = Cardinality(Ended) + 1
    BY <1>2, <2>3, FS_AddElement
  <2>5. Sent' = Sent
    BY <2>1 DEF Sent
  <2> QED BY <1>2, <2>1, <2>2, <2>4, <2>5 DEF Accounting
<1>6. ASSUME UNCHANGED <<taken, holding, egress, net>> PROVE Accounting'
  BY <1>6 DEF Accounting, Sent, Held, Ended
<1>7. ASSUME NEW p \in Peers, Deliver(p) \/ IngressEnds(p) \/ CloseConn(p) PROVE Accounting'
  BY <1>6, <1>7 DEF Deliver, IngressEnds, CloseConn, egressVars
<1>8. CASE UNCHANGED vars
  BY <1>6, <1>8 DEF vars
<1> QED BY <1>3, <1>4, <1>5, <1>7, <1>8 DEF Next

(* No packet is lost inside the node except the one with which an egress   *)
(* task ends, however many bridges compete for the one TUN.                *)
THEOREM NoPacketLost == Spec => []PacketsAccountedFor
<1>1. Accounting => PacketsAccountedFor
  BY DEF Accounting, PacketsAccountedFor, Sent, Held, Ended
<1> QED BY IInvInit, IInvStep, AccountingInit, AccountingStep, <1>1, PTL DEF Spec

-----------------------------------------------------------------------------
(* What the filters remember, and what went through them.                  *)

\* The lemmas about a filter hold whatever a session's variables are.
Replay == INSTANCE ReplayProofs WITH SeqNums <- 0 .. SeqModulus - 1, filter <- NewFilter,
                                     verdict <- TRUE, accepted <- {}

\* The instance's operators are this module's.
LEMMA SameFilter ==
  /\ Window \in Nat \ {0} /\ 0 .. SeqModulus - 1 \subseteq Nat
  /\ Replay!Filter = Filter
  /\ \A f, acc : Replay!Tracks(f, acc) <=> Tracks(f, acc)
  /\ \A f, seq : Replay!Accepts(f, seq) <=> Accepts(f, seq)
  /\ \A f, seq : Replay!Mark(f, seq) = Mark(f, seq)
BY BridgeAssumption DEF Filter, Replay!Filter, Tracks, Replay!Tracks, Accepts, Replay!Accepts,
   Mark, Replay!Mark, ShiftLeft, Replay!ShiftLeft, Bits, Replay!Bits

LEMMA AcceptsNew ==
  ASSUME NEW f \in Filter, NEW acc \in SUBSET Nat, NEW seq \in Nat, Tracks(f, acc)
  PROVE  Accepts(f, seq) <=> /\ seq \notin acc
                             /\ \A a \in acc : a - seq < Window
BY SameFilter, Replay!AcceptsIffFresh

LEMMA CheckTracks ==
  ASSUME NEW f \in Filter, NEW acc \in SUBSET Nat, NEW seq \in Nat, Tracks(f, acc),
         Accepts(f, seq)
  PROVE  Tracks(CheckAndMark(f, seq), acc \cup {seq})
<1>1. Replay!Tracks(Replay!Mark(f, seq), acc \cup {seq})
  BY SameFilter, Replay!MarkTracks
<1> QED BY <1>1, SameFilter DEF CheckAndMark

\* Before its numbers wrap, a session's sequence number is its index.
Numbered(p) ==
  /\ sealed[p] < SeqModulus => tx_seq[p] = sealed[p]
  /\ \A d \in net[p] : /\ d.index < sealed[p]
                       /\ d.index < SeqModulus => d.seq = d.index
  /\ \A d, e \in net[p] : d.index = e.index => d = e

\* The filter is the history of what went through, until a datagram it has
\* marked could not be injected, and with that the ingress task ended.
Remembers(p) == ingress[p] = "running" => Tracks(rx[p], Passed(p))

Sessions == \A p \in Peers : Numbered(p) /\ Remembers(p)

LEMMA PassedIsNat ==
  ASSUME TypeOK, NEW p \in Peers
  PROVE  Passed(p) \in SUBSET (0 .. SeqModulus - 1) /\ Passed(p) \in SUBSET Nat
BY BridgeAssumption DEF TypeOK, Passed, Datagram

LEMMA SessionsInit == Init => Sessions
<1> SUFFICES ASSUME Init, NEW p \in Peers PROVE Numbered(p) /\ Remembers(p)
  BY DEF Sessions
<1>1. /\ net[p] = {} /\ rx[p] = NewFilter /\ sealed[p] = 0 /\ tx_seq[p] = 0
  BY DEF Init
<1>2. Passed(p) = {}
  BY <1>1 DEF Passed
<1> QED BY <1>1, <1>2 DEF Numbered, Remembers, Tracks, NewFilter

\* A session whose numbers, datagrams and filter stay, or whose task has ended.
LEMMA SessionUnchanged ==
  ASSUME NEW p \in Peers, Numbered(p), Remembers(p),
         UNCHANGED <<tx_seq[p], sealed[p], net[p]>>,
         ingress'[p] = "ended" \/ UNCHANGED <<ingress[p], rx[p], injected[p]>>
  PROVE  Numbered(p)' /\ Remembers(p)'
BY DEF Numbered, Remembers, Passed

\* The effect of sealing on a session's count.
LEMMA SealCounts ==
  ASSUME TypeOK, NEW p \in Peers, Seal(p), Numbered(p)
  PROVE  /\ sealed'[p] = sealed[p] + 1 /\ sealed[p] \in Nat
         /\ sealed'[p] < SeqModulus => tx_seq'[p] = sealed'[p]
<1>1. sealed'[p] = sealed[p] + 1 /\ tx_seq'[p] = (tx_seq[p] + 1) % SeqModulus
  BY DEF Seal, TypeOK
<1>2. sealed[p] \in Nat
  BY DEF TypeOK
<1>3. \A n \in Nat : n < SeqModulus => n % SeqModulus = n
  BY BridgeAssumption
<1>4. sealed[p] + 1 < SeqModulus => tx_seq[p] = sealed[p]
  BY <1>2, BridgeAssumption DEF Numbered
<1> QED BY <1>1, <1>2, <1>3, <1>4

LEMMA TransmitPassesNothing ==
  ASSUME IInv, NEW p \in Peers, Transmit(p), NEW q \in Peers
  PROVE  Passed(q)' = Passed(q)
<1> DEFINE new == [packet |-> holding[p], index |-> sealed[p], seq |-> tx_seq[p]]
<1>1. /\ holding[p] \in Packets /\ holding[p] # None
      /\ net'[q] = IF q = p THEN net[q] \cup {new} ELSE net[q]
      /\ UNCHANGED injected
  BY DEF IInv, Transmit, ingressVars, TypeOK
<1>2. ~(injected[p][holding[p]] > 0)
  BY <1>1 DEF IInv, SpentIsRefused, HeldApart
<1>3. new.packet = holding[p]
  OBVIOUS
<1> HIDE DEF new
<1>4. {e \in net'[q] : injected'[q][e.packet] > 0} = {e \in net[q] : injected[q][e.packet] > 0}
  BY <1>1, <1>2, <1>3
<1> QED BY <1>4 DEF Passed

LEMMA TransmitKeepsSessions ==
  ASSUME IInv, Sessions, NEW p \in Peers, Transmit(p)
  PROVE  Numbered(p)' /\ Remembers(p)'
<1> DEFINE new == [packet |-> holding[p], index |-> sealed[p], seq |-> tx_seq[p]]
<1>1. TypeOK /\ Numbered(p) /\ Remembers(p)
  BY DEF IInv, Sessions
<1>2. /\ holding[p] # None
      /\ Seal(p)
      /\ net'[p] = net[p] \cup {new}
      /\ UNCHANGED <<ingress, rx, injected>>
  BY <1>1 DEF Transmit, ingressVars, TypeOK
<1>3. new.packet = holding[p] /\ new.index = sealed[p] /\ new.seq = tx_seq[p]
  OBVIOUS
<1> HIDE DEF new
<1>4. /\ sealed'[p] = sealed[p] + 1 /\ sealed[p] \in Nat
      /\ sealed'[p] < SeqModulus => tx_seq'[p] = sealed'[p]
  BY <1>1, <1>2, SealCounts
<1>5. Numbered(p)'
  <2>1. \A d \in net[p] : d.index \in Nat /\ d.index < sealed[p]
    BY <1>1 DEF TypeOK, Datagram, Numbered
  <2>2. ASSUME NEW d \in net'[p]
        PROVE  d.index < sealed'[p] /\ (d.index < SeqModulus => d.seq = d.index)
    BY <1>1, <1>2, <1>3, <1>4, <2>1 DEF Numbered
  <2>3. ASSUME NEW d \in net'[p], NEW e \in net'[p], d.index = e.index PROVE d = e
    BY <1>1, <1>2, <1>3, <1>4, <2>1, <2>3 DEF Numbered
  <2> QED BY <1>4, <2>2, <2>3 DEF Numbered
<1>6. Passed(p)' = Passed(p)
  BY TransmitPassesNothing
<1>7. Remembers(p)'
  BY <1>1, <1>2, <1>6 DEF Remembers
<1> QED BY <1>5, <1>7

\* A delivery adds one number to what has passed, or ends the task.
LEMMA DeliverPasses ==
  ASSUME IInv, NEW p \in Peers, Deliver(p)
  PROVE  \/ ingress'[p] = "ended" /\ UNCHANGED <<Passed(p), injected[p]>>
         \/ \E d \in net[p] :
              /\ Accepts(rx[p], d.seq)
              /\ rx'[p] = CheckAndMark(rx[p], d.seq)
              /\ Passed(p)' = Passed(p) \cup {d.seq}
<1>1. TypeOK /\ net' = net /\ ingress[p] = "running"
  BY DEF IInv, Deliver, egressVars
<1>2. PICK d \in net[p] :
        /\ Accepts(rx[p], d.seq)
        /\ rx' = [rx EXCEPT ![p] = CheckAndMark(@, d.seq)]
        /\ \/ /\ injected' = [injected EXCEPT ![p][d.packet] = @ + 1]
              /\ UNCHANGED ingress
           \/ /\ ingress' = [ingress EXCEPT ![p] = "ended"]
              /\ UNCHANGED injected
  BY DEF Deliver
<1>3. CASE ingress' = [ingress EXCEPT ![p] = "ended"] /\ UNCHANGED injected
  BY <1>1, <1>3 DEF TypeOK, Passed
<1>4. CASE injected' = [injected EXCEPT ![p][d.packet] = @ + 1]
  <2>1. d.packet \in Packets /\ injected[p][d.packet] \in Nat
    BY <1>1 DEF TypeOK, Datagram
  <2>2. /\ injected'[p][d.packet] > 0
        /\ \A k \in Packets : k # d.packet => injected'[p][k] = injected[p][k]
    BY <1>1, <1>4, <2>1 DEF TypeOK
  <2>3. \A e \in net[p] : e.packet \in Packets /\ (e.packet = d.packet => e = d)
    BY <1>1 DEF IInv, OneDatagramEach, TypeOK, Datagram
  <2>4. {e \in net'[p] : injected'[p][e.packet] > 0}
          = {e \in net[p] : injected[p][e.packet] > 0} \cup {d}
    BY <1>1, <2>2, <2>3
  <2>5. Passed(p)' = Passed(p) \cup {d.seq}
    BY <2>4 DEF Passed
  <2> QED BY <1>1, <1>2, <2>5 DEF TypeOK
<1> QED BY <1>2, <1>3, <1>4

LEMMA DeliverKeepsSessions ==
  ASSUME IInv, Sessions, NEW p \in Peers, Deliver(p)
  PROVE  Numbered(p)' /\ Remembers(p)'
<1>1. TypeOK /\ Numbered(p) /\ Remembers(p) /\ ingress[p] = "running"
  BY DEF IInv, Sessions, Deliver
<1>2. UNCHANGED <<tx_seq, sealed, net>>
  BY DEF Deliver, egressVars
<1>3. Numbered(p)'
  BY <1>1, <1>2 DEF Numbered
<1>4. CASE ingress'[p] = "ended"
  BY <1>3, <1>4 DEF Remembers
<1>5. ASSUME NEW d \in net[p], Accepts(rx[p], d.seq),
             rx'[p] = CheckAndMark(rx[p], d.seq), Passed(p)' = Passed(p) \cup {d.seq}
      PROVE  Remembers(p)'
  <2>1. d.seq \in Nat /\ rx[p] \in Filter /\ Passed(p) \in SUBSET Nat
    BY <1>1, PassedIsNat, BridgeAssumption DEF TypeOK, Datagram
  <2>2. Tracks(CheckAndMark(rx[p], d.seq), Passed(p) \cup {d.seq})
    BY <1>1, <1>5, <2>1, CheckTracks DEF Remembers
  <2> QED BY <1>5, <2>2 DEF Remembers
<1> QED BY <1>3, <1>4, <1>5, DeliverPasses

LEMMA SessionsStep == IInv /\ Sessions /\ [Next]_vars => Sessions'
<1> SUFFICES ASSUME IInv, Sessions, [Next]_vars, NEW q \in Peers
             PROVE  Numbered(q)' /\ Remembers(q)'
  BY DEF Sessions
<1>1. TypeOK /\ Numbered(q) /\ Remembers(q)
  BY DEF IInv, Sessions
<1>2. CASE UNCHANGED vars
  BY <1>1, <1>2, SessionUnchanged DEF vars
<1>3. ASSUME NEW p \in Peers, ReadTun(p) \/ CloseConn(p) PROVE Numbered(q)' /\ Remembers(q)'
  BY <1>1, <1>3, SessionUnchanged DEF ReadTun, CloseConn, egressVars, ingressVars
<1>4. ASSUME NEW p \in Peers, IngressEnds(p) PROVE Numbered(q)' /\ Remembers(q)'
  <2>1. ingress'[q] = "ended" \/ UNCHANGED ingress[q]
    BY <1>1, <1>4 DEF IngressEnds, TypeOK
  <2> QED BY <1>1, <1>4, <2>1, SessionUnchanged DEF IngressEnds, egressVars
<1>5. ASSUME NEW p \in Peers, Transmit(p) \/ TransmitFails(p) \/ Deliver(p), p # q
      PROVE  Numbered(q)' /\ Remembers(q)'
  <2>1. UNCHANGED <<tx_seq[q], sealed[q], net[q], ingress[q], rx[q], injected[q]>>
    BY <1>1, <1>5 DEF Transmit, TransmitFails, Deliver, Seal, TypeOK, egressVars, ingressVars
  <2> QED BY <1>1, <2>1, SessionUnchanged
<1>6. CASE TransmitFails(q)
  <2>1. Seal(q) /\ UNCHANGED <<net, ingress, rx, injected>>
    BY <1>6 DEF TransmitFails, ingressVars
  <2>2. /\ sealed'[q] = sealed[q] + 1 /\ sealed[q] \in Nat
        /\ sealed'[q] < SeqModulus => tx_seq'[q] = sealed'[q]
    BY <1>1, <2>1, SealCounts
  <2>3. \A d \in net[q] : d.index \in Nat
    BY <1>1 DEF TypeOK, Datagram
  <2>4. Numbered(q)'
    BY <1>1, <2>1, <2>2, <2>3 DEF Numbered
  <2> QED BY <1>1, <2>1, <2>4 DEF Remembers, Passed
<1> QED BY <1>2, <1>3, <1>4, <1>5, <1>6, TransmitKeepsSessions, DeliverKeepsSessions DEF Next

(* Before the sequence numbers wrap, a refused datagram is a replay or at  *)
(* least Window later ones have overtaken it, for every window.            *)
THEOREM RefusalsAreJustified == Spec => []RefusedOnlyIfReplayOrTooOld
<1>1. IInv /\ Sessions => RefusedOnlyIfReplayOrTooOld
  <2> SUFFICES ASSUME IInv, Sessions, NEW p \in Peers, sealed[p] <= SeqModulus,
                      NEW d \in net[p], ~Accepts(rx[p], d.seq), ingress[p] = "running"
               PROVE  \/ injected[p][d.packet] > 0
                      \/ \E late \in net[p] : /\ injected[p][late.packet] > 0
                                              /\ late.index - d.index >= Window
    BY DEF RefusedOnlyIfReplayOrTooOld
  <2>1. TypeOK /\ Numbered(p) /\ Tracks(rx[p], Passed(p))
    BY DEF IInv, Sessions, Remembers
  <2>2. \A e \in net[p] : e.index \in Nat /\ e.seq = e.index
    BY <2>1, BridgeAssumption DEF Numbered, TypeOK, Datagram
  <2>3. d.seq \in Passed(p) \/ \E a \in Passed(p) : ~(a - d.seq < Window)
    <3>1. rx[p] \in Filter /\ d.seq \in Nat /\ Passed(p) \in SUBSET Nat
      BY <2>1, <2>2, PassedIsNat DEF TypeOK
    <3>2. Accepts(rx[p], d.seq) <=> /\ d.seq \notin Passed(p)
                                    /\ \A a \in Passed(p) : a - d.seq < Window
      BY <2>1, <3>1, AcceptsNew
    <3> QED BY <3>2
  <2>4. CASE d.seq \in Passed(p)
    BY <2>1, <2>2, <2>4 DEF Passed, Numbered
  <2>5. ASSUME NEW a \in Passed(p), ~(a - d.seq < Window)
        PROVE  \E late \in net[p] : /\ injected[p][late.packet] > 0
                                    /\ late.index - d.index >= Window
    <3>1. PICK late \in net[p] : injected[p][late.packet] > 0 /\ a = late.seq
      BY DEF Passed
    <3> QED BY <2>2, <2>5, <3>1, BridgeAssumption
  <2> QED BY <2>3, <2>4, <2>5
<1> QED BY IInvInit, IInvStep, SessionsInit, SessionsStep, <1>1, PTL DEF Spec

(* Every session of every bridge implements the abstract window, before    *)
(* and after its numbers wrap: each step is a fresh number or a stutter.   *)
THEOREM SessionsImplementWindow == Spec => SessionsKeepThePromise
<1>1. Init => \A p \in Peers : Promise(p)!Init
  BY DEF Init, Promise!Init, Passed
<1>2. IInv /\ Sessions /\ [Next]_vars => [\A p \in Peers : [Promise(p)!Next]_<<Passed(p), injected[p]>>]_vars
  <2> SUFFICES ASSUME IInv, Sessions, [Next]_vars, NEW q \in Peers
               PROVE  Promise(q)!Next \/ UNCHANGED <<Passed(q), injected[q]>>
    OBVIOUS
  <2>1. TypeOK
    BY DEF IInv
  <2>2. CASE UNCHANGED vars
    BY <2>2 DEF vars, Passed
  <2>3. ASSUME NEW p \in Peers, ~Deliver(q),
               ReadTun(p) \/ TransmitFails(p) \/ Deliver(p) \/ IngressEnds(p) \/ CloseConn(p)
        PROVE  UNCHANGED <<Passed(q), injected[q]>>
    <3>1. UNCHANGED <<net[q], injected[q]>>
      BY <2>1, <2>3 DEF ReadTun, TransmitFails, Deliver, IngressEnds, CloseConn, TypeOK,
                        egressVars, ingressVars
    <3> QED BY <3>1 DEF Passed
  <2>4. ASSUME NEW p \in Peers, Transmit(p) PROVE UNCHANGED <<Passed(q), injected[q]>>
    BY <2>4, TransmitPassesNothing DEF Transmit, ingressVars
  <2>5. ASSUME NEW d \in net[q], ingress[q] = "running", Accepts(rx[q], d.seq),
               Passed(q)' = Passed(q) \cup {d.seq}
        PROVE  Promise(q)!Next
    <3>1. /\ d.seq \in 0 .. SeqModulus - 1 /\ d.seq \in Nat
          /\ rx[q] \in Filter /\ Tracks(rx[q], Passed(q))
      BY <2>1, <2>5, BridgeAssumption DEF TypeOK, Datagram, Sessions, Remembers
    <3>2. Passed(q) \in SUBSET Nat
      BY <2>1, PassedIsNat
    <3>3. Accepts(rx[q], d.seq) <=> /\ d.seq \notin Passed(q)
                                    /\ \A a \in Passed(q) : a - d.seq < Window
      BY <3>1, <3>2, AcceptsNew
    <3>4. Promise(q)!Fresh(d.seq)
      BY <2>5, <3>3 DEF Promise!Fresh
    <3>5. Promise(q)!Offer(d.seq)
      BY <2>5, <3>4 DEF Promise!Offer
    <3> QED BY <3>1, <3>5 DEF Promise!Next
  <2>6. CASE Deliver(q)
    <3>1. ingress[q] = "running"
      BY <2>6 DEF Deliver
    <3> QED BY <2>5, <2>6, <3>1, DeliverPasses
  <2> QED BY <2>2, <2>3, <2>4, <2>6 DEF Next
<1> QED BY IInvInit, IInvStep, SessionsInit, SessionsStep, <1>1, <1>2, PTL
    DEF Spec, SessionsKeepThePromise
=============================================================================
