--------------------------- MODULE ConnectionProofs ---------------------------
(* Theorems about Connection for any hosts, numbers of slots, calls and       *)
(* bounds, from four inductive invariants: of the hosts (types, the counter   *)
(* of connected peers, the dispatch queue) and, on top of it, of every slot   *)
(* (what the program knows of it, what it owes the program and what it waits  *)
(* for), of the connect identifiers drawn, asked for and kept, and of the     *)
(* handshakes and of what is said of them in the network.                     *)
EXTENDS Connection, HostOpsProofs

(* The inductive invariant.  Beyond what the theorems state it says that no   *)
(* datagram is empty and that a host handling a datagram has a command left:  *)
(* without it the head of the list would be undefined.                        *)
HostsOK ==
    /\ IsPerHost(host)
    /\ \A h \in Hosts : HostOK(PeerCount[h], host[h])

ControlOK(h, c) ==
    /\ c \in Controls(h)
    /\ c.phase = "commands" => c.commands # <<>>

ControlsOK ==
    /\ IsPerHost(control)
    /\ \A h \in Hosts : ControlOK(h, control[h])

NetOK ==
    /\ net \subseteq Datagrams
    /\ \A d \in net : d.commands # <<>>

ViewsOK ==
    /\ IsPerHost(view)
    /\ \A h \in Hosts : view[h] \in [Slots(h) -> Views]

ReceivedOK ==
    /\ IsPerHost(received)
    /\ \A h \in Hosts : received[h] \in [Slots(h) -> Nat]

AcceptedOK == accepted \in [Hosts -> Nat]

IInv == HostsOK /\ ControlsOK /\ NetOK /\ ViewsOK /\ ReceivedOK /\ AcceptedOK

\* The slots of a host.
LEMMA SlotCount ==
    ASSUME NEW h \in Hosts
    PROVE  PeerCount[h] \in Nat /\ PeerCount[h] >= 1 /\ Slots(h) = 1 .. PeerCount[h]
  BY PeerCountAssumption DEF Slots

\* The invariant gives what the theorems state.
LEMMA IInvImplies == IInv => TypeOK /\ ConnectedPeersExact /\ DispatchQueueExact
<1> SUFFICES ASSUME IInv PROVE TypeOK /\ ConnectedPeersExact /\ DispatchQueueExact
  OBVIOUS
<1>1. TypeOK
  BY DEF IInv, TypeOK, HostsOK, ControlsOK, ControlOK, NetOK, ViewsOK,
         ReceivedOK, AcceptedOK, HostOK
<1>2. ConnectedPeersExact /\ DispatchQueueExact
  BY DEF IInv, HostsOK, HostOK, ConnectedPeersExact, DispatchQueueExact
<1> QED
  BY <1>1, <1>2

---------------------------------------------------------------------------
(* Updates of one host's part of a variable                                   *)

\* A host replaced by one that is in order.
LEMMA HostSet ==
    ASSUME HostsOK, NEW h \in Hosts, NEW H, HostOK(PeerCount[h], H), SetHost(h, H)
    PROVE  HostsOK'
<1>1. host' = [g \in Hosts |-> IF g = h THEN H ELSE host[g]]
  BY DEF HostsOK, IsPerHost, SetHost
<1> QED
  BY <1>1 DEF HostsOK, IsPerHost

\* The control of one host replaced.
LEMMA ControlSet ==
    ASSUME ControlsOK, NEW h \in Hosts, NEW c, ControlOK(h, c), SetControl(h, c)
    PROVE  ControlsOK'
<1>1. control' = [g \in Hosts |-> IF g = h THEN c ELSE control[g]]
  BY DEF ControlsOK, IsPerHost, SetControl
<1> QED
  BY <1>1 DEF ControlsOK, IsPerHost, ControlOK, Controls

\* What a program knows of one slot replaced.
LEMMA ViewSet ==
    ASSUME ViewsOK, NEW h \in Hosts, NEW s \in Slots(h), NEW v \in Views,
           SetView(h, s, v)
    PROVE  ViewsOK'
<1>1. view' = [g \in Hosts |-> IF g = h THEN [view[h] EXCEPT ![s] = v] ELSE view[g]]
  BY DEF ViewsOK, IsPerHost, SetView
<1> QED
  BY <1>1 DEF ViewsOK, IsPerHost

\* The packets delivered from one slot replaced.
LEMMA ReceivedSet ==
    ASSUME ReceivedOK, NEW h \in Hosts, NEW s \in Slots(h), NEW m \in Nat,
           received' = [received EXCEPT ![h][s] = m]
    PROVE  ReceivedOK'
<1>1. received' = [g \in Hosts |-> IF g = h THEN [received[h] EXCEPT ![s] = m]
                                   ELSE received[g]]
  BY DEF ReceivedOK, IsPerHost
<1>2. [received[h] EXCEPT ![s] = m] \in [Slots(h) -> Nat]
  BY DEF ReceivedOK
<1>3. \A g \in Hosts : received'[g] \in [Slots(g) -> Nat]
  BY <1>1, <1>2 DEF ReceivedOK
<1>4. IsPerHost(received')
  BY <1>1 DEF IsPerHost
<1> QED
  BY <1>3, <1>4 DEF ReceivedOK, IsPerHost

\* A part of the invariant about a variable that does not change.
LEMMA Unchanged ==
    /\ HostsOK /\ UNCHANGED host => HostsOK'
    /\ ControlsOK /\ UNCHANGED control => ControlsOK'
    /\ NetOK /\ UNCHANGED net => NetOK'
    /\ ViewsOK /\ UNCHANGED view => ViewsOK'
    /\ ReceivedOK /\ UNCHANGED received => ReceivedOK'
    /\ AcceptedOK /\ UNCHANGED accepted => AcceptedOK'
  BY DEF HostsOK, ControlsOK, ControlOK, NetOK, ViewsOK, ReceivedOK,
         AcceptedOK, IsPerHost

\* The controls a host takes.
LEMMA IdleOK ==
    ASSUME NEW h \in Hosts
    PROVE  /\ ControlOK(h, Idle)
           /\ \A s \in 0 .. PeerCount[h] : ControlOK(h, FlushThenReset(s))
<1>1. PeerCount[h] \in Nat /\ PeerCount[h] >= 1
  BY SlotCount
<1>2. <<>> \in Seq(Commands)
  OBVIOUS
<1>3. ControlOK(h, Idle)
  BY <1>1, <1>2 DEF ControlOK, Controls, Idle, Phases, NoPeer
<1>4. ASSUME NEW s \in 0 .. PeerCount[h]
      PROVE  ControlOK(h, FlushThenReset(s))
  <2>1. Idle \in Controls(h) /\ "flush" \in Phases
    BY <1>3 DEF ControlOK, Phases
  <2>2. FlushThenReset(s) \in Controls(h) /\ FlushThenReset(s).phase = "flush"
    BY <2>1 DEF FlushThenReset, Controls
  <2> QED
    BY <2>2 DEF ControlOK
<1> QED
  BY <1>3, <1>4

---------------------------------------------------------------------------

\* The peer enet_host_create leaves in every slot.
LEMMA FreePeerType == FreePeer \in Peers
<1>1. <<>> \in Seq(Commands) /\ <<>> \in Seq(Nat) /\ {} \in Arrivals
  BY FS_EmptySet DEF Arrivals
<1> QED
  BY <1>1 DEF FreePeer, Peers, PeerStates, DISCONNECTED, NoPeer

\* The invariant holds of hosts just created.
LEMMA InitIInv == Init => IInv
<1> SUFFICES ASSUME Init PROVE IInv
  OBVIOUS
<1>1. HostsOK
  <2>1. IsPerHost(host)
    BY DEF Init, IsPerHost
  <2>2. ASSUME NEW h \in Hosts
        PROVE  HostOK(PeerCount[h], host[h])
    <3>1. /\ host[h].peers = [s \in 1 .. PeerCount[h] |-> FreePeer]
          /\ host[h].dispatchQueue = <<>> /\ host[h].connectedPeers = 0
      BY DEF Init, Slots
    <3>2. host[h] \in HostRecords(PeerCount[h])
      BY FreePeerType, SeedAssumption DEF Init, HostRecords, Slots
    <3>3. CountedSlots(host[h]) = {}
      BY <3>1 DEF CountedSlots, FreePeer, Counted, DISCONNECTED, CONNECTED, DISCONNECT_LATER
    <3>4. CountExact(host[h])
      BY <3>1, <3>3, FS_EmptySet DEF CountExact
    <3>5. QueueExact(host[h])
      BY <3>1 DEF QueueExact, FreePeer
    <3> QED
      BY <3>2, <3>4, <3>5 DEF HostOK
  <2> QED
    BY <2>1, <2>2 DEF HostsOK
<1>2. ControlsOK
  BY IdleOK DEF Init, ControlsOK, IsPerHost
<1>3. NetOK
  BY DEF Init, NetOK
<1>4. ViewsOK
  BY DEF Init, ViewsOK, IsPerHost, Views
<1>5. ReceivedOK
  BY DEF Init, ReceivedOK, IsPerHost
<1>6. AcceptedOK
  BY DEF Init, AcceptedOK
<1> QED
  BY <1>1, <1>2, <1>3, <1>4, <1>5, <1>6 DEF IInv

---------------------------------------------------------------------------
(* Calls of the program                                                       *)

\* The host and the peer a step is about.
LEMMA HostHere ==
    ASSUME IInv, NEW h \in Hosts, NEW s \in Slots(h)
    PROVE  /\ PeerCount[h] \in Nat /\ s \in 1 .. PeerCount[h]
           /\ HostOK(PeerCount[h], host[h])
           /\ Peer(h, s) \in Peers /\ Peer(h, s) = host[h].peers[s]
           /\ host[h].randomSeed \in Nat
<1>1. /\ PeerCount[h] \in Nat /\ s \in 1 .. PeerCount[h]
      /\ HostOK(PeerCount[h], host[h])
  BY SlotCount DEF IInv, HostsOK
<1> QED
  BY <1>1, HostShape DEF Peer

\* The commands of a handshake.
LEMMA HandshakeCommandType ==
    ASSUME NEW c \in Commands, NEW id \in Nat, NEW slot \in Nat,
           NEW in \in SessionIDs \cup {NoSession},
           NEW out \in SessionIDs \cup {NoSession}
    PROVE  [c EXCEPT !.connectID = id, !.peerID = slot,
                     !.incoming = in, !.outgoing = out] \in Commands
  BY DEF Commands

\* enet_host_connect takes a free slot, which is not counted.
LEMMA ConnectKeeps ==
    ASSUME IInv, NEW h \in Hosts, NEW s \in Slots(h), NEW address \in Hosts,
           Connect(h, s, address)
    PROVE  IInv'
<1> DEFINE n == PeerCount[h]
           id == host[h].randomSeed + 1
           peer == [Peer(h, s) EXCEPT !.state = CONNECTING, !.channelCount = 1,
                                      !.address = address, !.connectID = id]
           D == [host[h] EXCEPT !.randomSeed = id]
           H == [D EXCEPT !.peers[s] = peer]
           c == ConnectCommand(H, s)
<1>1. /\ n \in Nat /\ s \in 1 .. n /\ HostOK(n, host[h])
      /\ Peer(h, s) \in Peers /\ Peer(h, s) = host[h].peers[s]
      /\ id \in Nat /\ host[h] \in HostRecords(n)
  BY HostHere DEF HostOK
<1>2. /\ SetHost(h, QueueOutgoing(H, s, c)) /\ SetView(h, s, "pending")
      /\ received' = [received EXCEPT ![h][s] = 0]
      /\ UNCHANGED <<control, net, accepted>>
  BY DEF Connect, Peer
<1>3. Peer(h, s).state = DISCONNECTED
  BY DEF Connect, IsFirstFree, FreeSlots
<1>4. /\ D \in HostRecords(n) /\ D.peers = host[h].peers
      /\ D.dispatchQueue = host[h].dispatchQueue
      /\ D.connectedPeers = host[h].connectedPeers
  BY <1>1 DEF HostRecords
<1> HIDE DEF D, id
<1>5. HostOK(n, D)
  BY <1>1, <1>4 DEF HostOK, CountExact, CountedSlots, QueueExact
<1>6. CONNECTING \in PeerStates
  BY DEF CONNECTING, PeerStates
<1>7. /\ peer \in Peers /\ peer.state = CONNECTING
      /\ peer.needsDispatch = Peer(h, s).needsDispatch /\ peer.connectID = id
  BY <1>1, <1>6 DEF Peers
<1>8. peer.state \in Counted <=> Peer(h, s).state \in Counted
  BY <1>3, <1>7 DEF Counted, CONNECTING, DISCONNECTED, CONNECTED, DISCONNECT_LATER
<1> HIDE DEF peer
<1>9. HostOK(n, H)
  BY <1>1, <1>4, <1>5, <1>7, <1>8, PeerUpdated
<1>10. H.peers[s] \in Peers
  BY <1>1, <1>9, HostShape
<1>11. c \in Commands
  <2>1. Command("CONNECT", ControlChannel, TRUE) \in Commands
    BY CommandType DEF CommandTypes
  <2> HIDE DEF H
  <2>2. /\ H.peers[s].connectID \in Nat
        /\ H.peers[s].incomingSessionID \in SessionIDs \cup {NoSession}
        /\ H.peers[s].outgoingSessionID \in SessionIDs \cup {NoSession}
    BY <1>10 DEF Peers
  <2>3. s \in Nat
    BY <1>1
  <2> QED
    BY <2>1, <2>2, <2>3, HandshakeCommandType DEF ConnectCommand
<1> HIDE DEF c, H
<1>12. HostsOK'
  <2>1. HostOK(n, QueueOutgoing(H, s, c))
    BY <1>1, <1>9, <1>11, QueueOutgoingOK
  <2> QED
    BY <2>1, <1>2, HostSet DEF IInv
<1>13. ViewsOK' /\ ReceivedOK'
  BY <1>2, ViewSet, ReceivedSet DEF IInv, Views
<1> QED
  BY <1>2, <1>12, <1>13, Unchanged DEF IInv

\* enet_peer_send of a reliable packet.
LEMMA SendReliableKeeps ==
    ASSUME IInv, NEW h \in Hosts, NEW s \in Slots(h), SendReliable(h, s)
    PROVE  IInv'
<1>1. Command("SEND_RELIABLE", DataChannel, TRUE) \in Commands
  BY CommandType DEF CommandTypes
<1>2. HostsOK'
  BY <1>1, HostHere, QueueOutgoingOK, HostSet DEF IInv, SendReliable
<1> QED
  BY <1>2, Unchanged DEF IInv, SendReliable, history

\* enet_peer_send of an unreliable packet.
LEMMA SendUnreliableKeeps ==
    ASSUME IInv, NEW h \in Hosts, NEW s \in Slots(h), SendUnreliable(h, s)
    PROVE  IInv'
<1>1. Command("SEND_UNRELIABLE", DataChannel, FALSE) \in Commands
  BY CommandType DEF CommandTypes
<1>2. HostsOK'
  BY <1>1, HostHere, QueueOutgoingOK, HostSet DEF IInv, SendUnreliable
<1> QED
  BY <1>2, Unchanged DEF IInv, SendUnreliable, history

\* What the program knows after it asked to close.
LEMMA ViewAfterDisconnectType ==
    ASSUME NEW v \in Views
    PROVE  ViewAfterDisconnect(v) \in Views
  BY DEF ViewAfterDisconnect, Views

\* What the program knows of one slot.
LEMMA ViewHere ==
    ASSUME IInv, NEW h \in Hosts, NEW s \in Slots(h)
    PROVE  view[h][s] \in Views
  BY DEF IInv, ViewsOK

\* A call of enet_peer_disconnect.
LEMMA DisconnectPeerKeeps ==
    ASSUME IInv, NEW h \in Hosts, NEW s \in Slots(h), DisconnectPeer(h, s)
    PROVE  IInv'
<1>1. HostsOK'
  BY HostHere, DisconnectOK, HostSet DEF IInv, DisconnectPeer
<1>2. ControlsOK'
  <2>1. s \in 0 .. PeerCount[h]
    BY HostHere
  <2> QED
    BY <2>1, IdleOK, ControlSet DEF IInv, DisconnectPeer
<1>3. ViewsOK'
  BY ViewHere, ViewAfterDisconnectType, ViewSet DEF IInv, DisconnectPeer
<1> QED
  BY <1>1, <1>2, <1>3, Unchanged DEF IInv, DisconnectPeer

\* A call of enet_peer_disconnect_later: both states are counted.
LEMMA DisconnectPeerLaterKeeps ==
    ASSUME IInv, NEW h \in Hosts, NEW s \in Slots(h), DisconnectPeerLater(h, s)
    PROVE  IInv'
<1> DEFINE peer == [Peer(h, s) EXCEPT !.state = DISCONNECT_LATER]
           H == [host[h] EXCEPT !.peers[s] = peer]
<1>1. /\ PeerCount[h] \in Nat /\ s \in 1 .. PeerCount[h]
      /\ HostOK(PeerCount[h], host[h])
      /\ Peer(h, s) \in Peers /\ Peer(h, s) = host[h].peers[s]
  BY HostHere
<1>2. SetHost(h, H)
  BY <1>1 DEF DisconnectPeerLater, SetHost
<1>3. DISCONNECT_LATER \in PeerStates /\ DISCONNECT_LATER \in Counted
  BY DEF DISCONNECT_LATER, PeerStates, Counted
<1>4. /\ peer \in Peers /\ peer.state = DISCONNECT_LATER
      /\ peer.needsDispatch = Peer(h, s).needsDispatch
  BY <1>1, <1>3 DEF Peers
<1>5. Peer(h, s).state \in Counted
  BY DEF DisconnectPeerLater
<1> HIDE DEF peer
<1>6. HostOK(PeerCount[h], H)
  BY <1>1, <1>3, <1>4, <1>5, PeerUpdated
<1> HIDE DEF H
<1>7. HostsOK'
  BY <1>2, <1>6, HostSet DEF IInv
<1>8. ViewsOK'
  BY ViewHere, ViewAfterDisconnectType, ViewSet DEF IInv, DisconnectPeerLater
<1> QED
  BY <1>7, <1>8, Unchanged DEF IInv, DisconnectPeerLater

\* A call of enet_peer_disconnect_now.
LEMMA DisconnectPeerNowKeeps ==
    ASSUME IInv, NEW h \in Hosts, NEW s \in Slots(h), DisconnectPeerNow(h, s)
    PROVE  IInv'
<1>1. /\ PeerCount[h] \in Nat /\ s \in 1 .. PeerCount[h]
      /\ HostOK(PeerCount[h], host[h]) /\ s \in 0 .. PeerCount[h]
  BY HostHere
<1>2. HostsOK'
  BY <1>1, ResetOK, DisconnectNowOK, HostSet DEF IInv, DisconnectPeerNow
<1>3. ControlsOK'
  BY <1>1, IdleOK, ControlSet, Unchanged DEF IInv, DisconnectPeerNow
<1>4. ViewsOK'
  BY ViewSet, Unchanged DEF IInv, DisconnectPeerNow, Views
<1> QED
  BY <1>2, <1>3, <1>4, Unchanged DEF IInv, DisconnectPeerNow

\* A call of enet_peer_reset.
LEMMA ResetPeerKeeps ==
    ASSUME IInv, NEW h \in Hosts, NEW s \in Slots(h), ResetPeer(h, s)
    PROVE  IInv'
<1>1. HostsOK'
  BY HostHere, ResetOK, HostSet DEF IInv, ResetPeer
<1>2. ViewsOK'
  BY ViewSet DEF IInv, ResetPeer, Views
<1> QED
  BY <1>1, <1>2, Unchanged DEF IInv, ResetPeer

\* A call of enet_host_flush.
LEMMA FlushKeeps ==
    ASSUME IInv, NEW h \in Hosts, Flush(h)
    PROVE  IInv'
<1>1. NoPeer \in 0 .. PeerCount[h]
  BY SlotCount DEF NoPeer
<1>2. ControlsOK'
  BY <1>1, IdleOK, ControlSet DEF IInv, Flush
<1> QED
  BY <1>2, Unchanged DEF IInv, Flush, history

\* Calls of enet_host_service and enet_host_check_events.
LEMMA ServiceKeeps ==
    ASSUME IInv, NEW h \in Hosts, Service(h) \/ CheckEvents(h)
    PROVE  IInv'
<1>1. ASSUME NEW phase \in {"dispatch", "send", "redispatch"}, NEW event \in BOOLEAN
      PROVE  ControlOK(h, [Idle EXCEPT !.phase = phase, !.event = event])
  <2>1. Idle \in Controls(h) /\ phase \in Phases /\ phase # "commands"
    BY IdleOK DEF ControlOK, Phases
  <2> HIDE DEF Idle
  <2>2. /\ [Idle EXCEPT !.phase = phase, !.event = event] \in Controls(h)
        /\ [Idle EXCEPT !.phase = phase, !.event = event].phase = phase
    BY <2>1 DEF Controls
  <2> QED
    BY <2>1, <2>2 DEF ControlOK
<1>2. CASE Service(h)
  <2>1. PICK event \in ServiceModes :
           SetControl(h, [Idle EXCEPT !.phase = IF event THEN "dispatch" ELSE "send",
                                      !.event = event])
    BY <1>2 DEF Service
  <2>2. ControlsOK'
    BY <2>1, <1>1, ModesAssumption, ControlSet DEF IInv
  <2> QED
    BY <2>2, <1>2, Unchanged DEF IInv, Service, history
<1>3. CASE CheckEvents(h)
  <2>1. ControlsOK'
    BY <1>1, <1>3, ControlSet DEF IInv, CheckEvents
  <2> QED
    BY <2>1, <1>3, Unchanged DEF IInv, CheckEvents, history
<1> QED
  BY <1>2, <1>3

---------------------------------------------------------------------------
(* Dispatch                                                                   *)

\* The host after the head of its dispatch queue left it, and the slot.
LEMMA HeadPopped ==
    ASSUME IInv, NEW h \in Hosts, NEW s \in Slots(h), NEW states, AtHead(h, s, states)
    PROVE  /\ PeerCount[h] \in Nat /\ s \in 1 .. PeerCount[h]
           /\ HostOK(PeerCount[h], Popped(host[h]))
           /\ Popped(host[h]).peers =
                 [host[h].peers EXCEPT ![s] = [@ EXCEPT !.needsDispatch = FALSE]]
  BY HostHere, PoppedOK DEF AtHead

\* Dispatch of a connection.
LEMMA DispatchConnectKeeps ==
    ASSUME IInv, NEW h \in Hosts, NEW s \in Slots(h), DispatchConnect(h, s)
    PROVE  IInv'
<1>1. /\ PeerCount[h] \in Nat /\ s \in 1 .. PeerCount[h]
      /\ HostOK(PeerCount[h], Popped(host[h]))
  BY HeadPopped DEF DispatchConnect
<1>2. CONNECTED \in PeerStates
  BY DEF CONNECTED, PeerStates
<1>3. HostsOK'
  BY <1>1, <1>2, ChangeStateOK, HostSet DEF IInv, DispatchConnect
<1>4. ControlsOK'
  BY IdleOK, ControlSet DEF IInv, DispatchConnect
<1>5. ViewsOK'
  BY ViewSet DEF IInv, DispatchConnect, Views
<1> QED
  BY <1>3, <1>4, <1>5, Unchanged DEF IInv, DispatchConnect

\* Dispatch of a zombie.
LEMMA DispatchDisconnectKeeps ==
    ASSUME IInv, NEW h \in Hosts, NEW s \in Slots(h), DispatchDisconnect(h, s)
    PROVE  IInv'
<1>1. /\ PeerCount[h] \in Nat /\ s \in 1 .. PeerCount[h]
      /\ HostOK(PeerCount[h], Popped(host[h]))
  BY HeadPopped DEF DispatchDisconnect
<1>2. HostsOK'
  BY <1>1, ResetOK, HostSet DEF IInv, DispatchDisconnect
<1>3. ControlsOK'
  BY IdleOK, ControlSet DEF IInv, DispatchDisconnect
<1>4. ViewsOK'
  BY ViewSet DEF IInv, DispatchDisconnect, Views
<1> QED
  BY <1>2, <1>3, <1>4, Unchanged DEF IInv, DispatchDisconnect

\* Dispatch of a packet; the peer is queued again if it has more.
LEMMA DispatchReceiveKeeps ==
    ASSUME IInv, NEW h \in Hosts, NEW s \in Slots(h), DispatchReceive(h, s)
    PROVE  IInv'
<1> DEFINE n == PeerCount[h]
           D == Popped(host[h])
           peer == [D.peers[s] EXCEPT !.dispatched = Tail(@)]
           H == [D EXCEPT !.peers[s] = peer]
<1>1. /\ n \in Nat /\ s \in 1 .. n /\ HostOK(n, D)
      /\ D.peers = [host[h].peers EXCEPT ![s] = [@ EXCEPT !.needsDispatch = FALSE]]
  BY HeadPopped DEF DispatchReceive
<1>2. /\ Peer(h, s) \in Peers /\ Peer(h, s) = host[h].peers[s]
      /\ host[h].peers \in [1 .. n -> Peers]
  BY <1>1, HostHere, HostShape
<1>3. Peer(h, s).dispatched # <<>>
  BY DEF DispatchReceive
<1>4. D.peers[s].dispatched = Peer(h, s).dispatched
  BY <1>1, <1>2 DEF Peers
<1>5. H = Taken(D, s)
  BY DEF Taken
<1> HIDE DEF D
<1>6. D.peers[s] \in Peers
  BY <1>1, HostShape
<1>7. Tail(D.peers[s].dispatched) \in Seq(Nat)
  <2>1. D.peers[s].dispatched \in Seq(Nat)
    BY <1>6 DEF Peers
  <2> QED
    BY <2>1, <1>3, <1>4, HeadTailProperties
<1>8. /\ peer \in Peers /\ peer.state = D.peers[s].state
      /\ peer.needsDispatch = D.peers[s].needsDispatch
  BY <1>6, <1>7 DEF Peers
<1> HIDE DEF peer
<1>9. HostOK(n, H)
  BY <1>1, <1>8, PeerUpdated
<1> HIDE DEF H
<1>10. HostsOK'
  <2>1. HostOK(n, EnterDispatchQueue(H, s))
    BY <1>1, <1>9, EnterDispatchQueueOK
  <2>2. SetHost(h, IF H.peers[s].dispatched = <<>> THEN H ELSE EnterDispatchQueue(H, s))
    BY <1>5 DEF DispatchReceive, D
  <2> QED
    BY <1>9, <2>1, <2>2, HostSet DEF IInv
<1>11. ControlsOK'
  BY IdleOK, ControlSet DEF IInv, DispatchReceive
<1>12. ReceivedOK'
  <2>1. received[h][s] + 1 \in Nat
    BY DEF IInv, ReceivedOK
  <2> QED
    BY <2>1, ReceivedSet, Unchanged DEF IInv, DispatchReceive
<1> QED
  BY <1>10, <1>11, <1>12, Unchanged DEF IInv, DispatchReceive

\* Dispatch of a peer with nothing to say.
LEMMA DispatchNothingKeeps ==
    ASSUME IInv, NEW h \in Hosts, NEW s \in Slots(h), DispatchNothing(h, s)
    PROVE  IInv'
<1>1. HostOK(PeerCount[h], Popped(host[h]))
  BY HeadPopped DEF DispatchNothing
<1>2. HostsOK'
  BY <1>1, HostSet DEF IInv, DispatchNothing
<1> QED
  BY <1>2, Unchanged DEF IInv, DispatchNothing, history

\* The end of a dispatch pass.
LEMMA DispatchDoneKeeps ==
    ASSUME IInv, NEW h \in Hosts, DispatchDone(h)
    PROVE  IInv'
<1>1. control[h] \in Controls(h) /\ "send" \in Phases
  BY DEF IInv, ControlsOK, ControlOK, Phases
<1>2. ControlOK(h, [control[h] EXCEPT !.phase = "send"])
  BY <1>1 DEF ControlOK, Controls
<1>3. ControlsOK'
  BY <1>2, IdleOK, ControlSet DEF IInv, DispatchDone
<1> QED
  BY <1>3, Unchanged DEF IInv, DispatchDone, history

---------------------------------------------------------------------------
(* Sending                                                                    *)

\* A send pass goes on with the next slot or ends.
LEMMA NextSlotOK ==
    ASSUME IInv, NEW h \in Hosts, NextSlot(h)
    PROVE  ControlsOK'
<1> DEFINE c == control[h]
           phase == AfterPass(c)
           onward == [c EXCEPT !.slot = @ + 1]
           after == [c EXCEPT !.slot = 1, !.phase = phase]
<1>1. /\ c \in Controls(h) /\ ControlOK(h, c)
      /\ PeerCount[h] \in Nat /\ PeerCount[h] >= 1 /\ c.slot \in 1 .. PeerCount[h]
  BY SlotCount DEF IInv, ControlsOK, ControlOK, Controls
<1>2. phase \in Phases /\ phase # "commands"
  BY DEF AfterPass, Phases
<1>3. ControlOK(h, after)
  <2> HIDE DEF phase, c
  <2>1. 1 \in 1 .. PeerCount[h]
    BY <1>1
  <2>2. after \in Controls(h)
    BY <1>1, <1>2, <2>1 DEF Controls
  <2>3. after.phase = phase
    BY <1>1 DEF Controls
  <2> QED
    BY <2>2, <2>3, <1>2 DEF ControlOK
<1>4. ASSUME c.slot < PeerCount[h]
      PROVE  ControlOK(h, onward)
  <2> DEFINE next == c.slot + 1
  <2>1. next \in 1 .. PeerCount[h]
    BY <1>1, <1>4
  <2> HIDE DEF next
  <2>2. [c EXCEPT !.slot = next] \in Controls(h)
    BY <1>1, <2>1 DEF Controls
  <2>3. /\ [c EXCEPT !.slot = next].phase = c.phase
        /\ [c EXCEPT !.slot = next].commands = c.commands
    BY <1>1 DEF Controls
  <2>4. ControlOK(h, [c EXCEPT !.slot = next])
    BY <1>1, <2>2, <2>3 DEF ControlOK
  <2> QED
    BY <2>4 DEF next
<1>5. \/ c.slot < PeerCount[h] /\ SetControl(h, onward)
      \/ SetControl(h, Idle)
      \/ SetControl(h, after)
  BY <1>1 DEF NextSlot
<1> HIDE DEF onward, after
<1> QED
  BY <1>3, <1>4, <1>5, IdleOK, ControlSet DEF IInv

\* The reset that follows the flush of a disconnection.
LEMMA FlushDoneKeeps ==
    ASSUME IInv, NEW h \in Hosts, FlushDone(h)
    PROVE  IInv'
<1> DEFINE s == control[h].reset
<1>1. ControlsOK'
  BY IdleOK, ControlSet DEF IInv, FlushDone
<1>2. CASE s = NoPeer
  BY <1>1, <1>2, Unchanged DEF IInv, FlushDone
<1>3. CASE s # NoPeer
  <2>1. s \in Slots(h)
    BY <1>3, SlotCount DEF IInv, ControlsOK, ControlOK, Controls, NoPeer
  <2> HIDE DEF s
  <2>2. HostOK(PeerCount[h], Reset(host[h], s))
    BY <2>1, HostHere, ResetOK
  <2>3. SetHost(h, Reset(host[h], s))
    BY <1>3 DEF FlushDone, s
  <2>4. \E v \in Views : SetView(h, s, v)
    BY <1>3 DEF FlushDone, Views, s
  <2>5. HostsOK' /\ ViewsOK'
    BY <2>1, <2>2, <2>3, <2>4, HostSet, ViewSet DEF IInv
  <2> QED
    BY <1>1, <2>5, Unchanged DEF IInv, FlushDone
<1> QED
  BY <1>2, <1>3

\* A slot a send pass skips.
LEMMA SendNothingKeeps ==
    ASSUME IInv, NEW h \in Hosts, NEW s \in Slots(h), SendNothing(h, s)
    PROVE  IInv'
<1>1. ControlsOK'
  BY NextSlotOK DEF SendNothing
<1> QED
  BY <1>1, Unchanged DEF IInv, SendNothing, history

\* EnterDispatchQueue changes nothing of a peer but its flag.
LEMMA EnterDispatchQueuePeer ==
    ASSUME NEW n \in Nat, NEW H \in HostRecords(n), NEW s \in 1 .. n
    PROVE  EnterDispatchQueue(H, s).peers[s].sentReliable = H.peers[s].sentReliable
<1>1. H.peers \in [1 .. n -> Peers] /\ H.peers[s] \in Peers
  BY DEF HostRecords
<1> QED
  BY <1>1 DEF EnterDispatchQueue, HostRecords, Peers

\* enet_protocol_send_acknowledgements, which may make a zombie.
LEMMA SendAcknowledgementsOK ==
    ASSUME NEW n \in Nat, NEW H, HostOK(n, H), NEW s \in 1 .. n
    PROVE  /\ HostOK(n, SendAcknowledgements(H, s))
           /\ SendAcknowledgements(H, s).peers[s].sentReliable = H.peers[s].sentReliable
<1> DEFINE peer == [H.peers[s] EXCEPT !.acknowledgements = <<>>]
           sent == [H EXCEPT !.peers[s] = peer]
<1>1. H \in HostRecords(n) /\ H.peers[s] \in Peers
  BY HostShape
<1>2. <<>> \in Seq(Commands) /\ ZOMBIE \in PeerStates
  BY DEF ZOMBIE, PeerStates
<1>3. /\ peer \in Peers /\ peer.state = H.peers[s].state
      /\ peer.needsDispatch = H.peers[s].needsDispatch
      /\ peer.sentReliable = H.peers[s].sentReliable
  BY <1>1, <1>2 DEF Peers
<1>4. SendAcknowledgements(H, s) =
         IF AcksADisconnect(H.peers[s]) THEN DispatchState(sent, s, ZOMBIE) ELSE sent
  BY DEF SendAcknowledgements
<1> HIDE DEF peer
<1>5. HostOK(n, sent)
  BY <1>3, PeerUpdated
<1>6. sent.peers[s] = peer
  BY <1>1 DEF HostRecords
<1> HIDE DEF sent
<1>7. /\ HostOK(n, ChangeState(sent, s, ZOMBIE))
      /\ HostOK(n, DispatchState(sent, s, ZOMBIE))
      /\ ChangeState(sent, s, ZOMBIE).peers =
            [sent.peers EXCEPT ![s] = [@ EXCEPT !.state = ZOMBIE]]
  <2>1. /\ HostOK(n, ChangeState(sent, s, ZOMBIE))
        /\ ChangeState(sent, s, ZOMBIE).peers =
              [sent.peers EXCEPT ![s] = [@ EXCEPT !.state = ZOMBIE]]
    BY <1>2, <1>5, ChangeStateOK
  <2>2. HostOK(n, DispatchState(sent, s, ZOMBIE))
    BY <1>2, <1>5, DispatchStateOK
  <2> QED
    BY <2>1, <2>2
<1>8. ChangeState(sent, s, ZOMBIE).peers[s].sentReliable = peer.sentReliable
  <2>1. sent.peers \in [1 .. n -> Peers] /\ sent.peers[s] \in Peers
    BY <1>5, HostShape
  <2> QED
    BY <2>1, <1>6, <1>7 DEF Peers
<1>9. DispatchState(sent, s, ZOMBIE).peers[s].sentReliable = peer.sentReliable
  BY <1>7, <1>8, EnterDispatchQueuePeer DEF DispatchState, HostOK
<1> QED
  BY <1>3, <1>4, <1>5, <1>6, <1>7, <1>9

\* enet_protocol_check_timeouts giving a peer up.
LEMMA GiveUpKeeps ==
    ASSUME IInv, NEW h \in Hosts, NEW s \in Slots(h), GiveUp(h, s)
    PROVE  IInv'
<1>1. /\ PeerCount[h] \in Nat /\ s \in 1 .. PeerCount[h]
      /\ HostOK(PeerCount[h], host[h])
  BY HostHere
<1>2. HostOK(PeerCount[h], SendAcknowledgements(host[h], s))
  BY <1>1, SendAcknowledgementsOK
<1>3. control[h].event \in BOOLEAN
  BY DEF IInv, ControlsOK, ControlOK, Controls
<1>4. HostsOK'
  BY <1>1, <1>2, <1>3, NotifyDisconnectOK, HostSet DEF IInv, GiveUp
<1>5. ControlsOK'
  BY IdleOK, ControlSet, NextSlotOK DEF IInv, GiveUp
<1>6. ViewsOK'
  BY ViewSet, Unchanged DEF IInv, GiveUp, Views
<1> QED
  BY <1>4, <1>5, <1>6, Unchanged DEF IInv, GiveUp

\* Commands picked from those in flight, in some order, are commands.
LEMMA PickedType ==
    ASSUME NEW T, NEW q \in Seq(T), NEW S \in SUBSET (1 .. Len(q)), NEW f \in InOrder(S)
    PROVE  Picked(q, f) \in Seq(T)
<1>1. Len(q) \in Nat /\ \A i \in 1 .. Len(q) : q[i] \in T
  BY LenProperties, ElementOfSeq
<1>2. Cardinality(S) \in Nat
  <2>1. IsFiniteSet(1 .. Len(q))
    BY <1>1, FS_Interval
  <2>2. IsFiniteSet(S)
    BY <2>1, FS_Subset
  <2> QED
    BY <2>2, FS_CardinalityType
<1> DEFINE m == Cardinality(S)
<1>3. f \in [1 .. m -> S]
  BY DEF InOrder
<1> HIDE DEF m
<1>4. Picked(q, f) \in [1 .. m -> T]
  BY <1>1, <1>3 DEF Picked
<1> QED
  BY <1>2, <1>4, SeqDef DEF m

\* Moving the commands of a peer between its queues keeps the host in order.
LEMMA SendReliableCommandsOK ==
    ASSUME NEW n \in Nat, NEW H, HostOK(n, H), NEW s \in 1 .. n,
           NEW kept \in Seq(Commands), NEW expired \in Seq(Commands)
    PROVE  HostOK(n, SendReliableCommands(H, s, kept, expired))
<1> DEFINE old == H.peers[s]
           sent == kept \o expired \o old.outgoingReliable
           peer == [old EXCEPT !.outgoingReliable = <<>>, !.sentReliable = sent]
<1>1. old \in Peers
  BY HostShape
<1>2. old.sentReliable \in Seq(Commands) /\ old.outgoingReliable \in Seq(Commands)
  BY <1>1 DEF Peers
<1>3. kept \o expired \in Seq(Commands)
  BY ConcatProperties
<1>4. sent \in Seq(Commands)
  BY <1>2, <1>3, ConcatProperties
<1>5. SendReliableCommands(H, s, kept, expired) = [H EXCEPT !.peers[s] = peer]
  BY DEF SendReliableCommands
<1> HIDE DEF sent
<1>6. <<>> \in Seq(Commands)
  OBVIOUS
<1>7. /\ peer \in Peers /\ peer.state = old.state
      /\ peer.needsDispatch = old.needsDispatch
  BY <1>1, <1>4, <1>6 DEF Peers
<1> HIDE DEF peer
<1> QED
  BY <1>5, <1>7, PeerUpdated

\* A ping is a command.
LEMMA PingCommandType ==
    ASSUME NEW seq \in Nat
    PROVE  PingCommand(seq) \in Commands
<1>1. Command("PING", ControlChannel, TRUE) \in Commands
  BY CommandType DEF CommandTypes
<1> QED
  BY <1>1 DEF PingCommand, Commands

\* A ping put in flight keeps the host in order.
LEMMA PingOK ==
    ASSUME NEW n \in Nat, NEW H, HostOK(n, H), NEW s \in 1 .. n
    PROVE  HostOK(n, Ping(H, s))
<1> DEFINE old == H.peers[s]
           next == old.outgoingSeq + 1
           sent == Append(old.sentReliable, PingCommand(next))
           peer == [old EXCEPT !.outgoingSeq = next, !.sentReliable = sent]
<1>1. old \in Peers
  BY HostShape
<1>2. old.sentReliable \in Seq(Commands) /\ next \in Nat
  <2>1. old.sentReliable \in Seq(Commands) /\ old.outgoingSeq \in Nat
    BY <1>1 DEF Peers
  <2> QED
    BY <2>1
<1>3. Ping(H, s) = [H EXCEPT !.peers[s] = peer]
  BY DEF Ping
<1> HIDE DEF next
<1>4. sent \in Seq(Commands)
  BY <1>2, PingCommandType, AppendProperties
<1> HIDE DEF sent
<1>5. /\ peer \in Peers /\ peer.state = old.state
      /\ peer.needsDispatch = old.needsDispatch
  BY <1>1, <1>2, <1>4 DEF Peers
<1> HIDE DEF peer
<1> QED
  BY <1>3, <1>5, PeerUpdated

\* The unreliable queue emptied, and a disconnection that was due.
LEMMA SendUnreliableCommandsOK ==
    ASSUME NEW n \in Nat, NEW H, HostOK(n, H), NEW s \in 1 .. n
    PROVE  HostOK(n, SendUnreliableCommands(H, s))
<1> DEFINE old == H.peers[s]
           peer == [old EXCEPT !.outgoingUnreliable = <<>>]
           sent == [H EXCEPT !.peers[s] = peer]
<1>1. old \in Peers
  BY HostShape
<1>2. <<>> \in Seq(Commands)
  OBVIOUS
<1>3. /\ peer \in Peers /\ peer.state = old.state
      /\ peer.needsDispatch = old.needsDispatch
  BY <1>1, <1>2 DEF Peers
<1>4. SendUnreliableCommands(H, s) \in {sent, Disconnect(sent, s)}
  BY DEF SendUnreliableCommands
<1> HIDE DEF peer
<1>5. HostOK(n, sent)
  BY <1>3, PeerUpdated
<1> HIDE DEF sent
<1>6. HostOK(n, Disconnect(sent, s))
  BY <1>5, DisconnectOK
<1> QED
  BY <1>4, <1>5, <1>6

\* What a peer puts into the buffers for its unreliable queue.
LEMMA UnreliableCommandsType ==
    ASSUME NEW n \in Nat, NEW H, HostOK(n, H), NEW s \in 1 .. n
    PROVE  UnreliableCommands(H, s) \in Seq(Commands)
<1> DEFINE q == H.peers[s].outgoingUnreliable
           due == LaterIsDue(H.peers[s], H.peers[s])
           out == [i \in 1 .. Len(q) |->
                     IF due /\ q[i].type = "SEND_UNRELIABLE"
                     THEN [q[i] EXCEPT !.type = "FREED"] ELSE q[i]]
<1>1. q \in Seq(Commands)
  <2>1. H.peers[s] \in Peers
    BY HostShape
  <2> QED
    BY <2>1 DEF Peers
<1>2. UnreliableCommands(H, s) = out
  BY DEF UnreliableCommands
<1> HIDE DEF q, due
<1>3. ASSUME NEW i \in 1 .. Len(q)
      PROVE  q[i] \in Commands /\ [q[i] EXCEPT !.type = "FREED"] \in Commands
  <2>1. q[i] \in Commands /\ "FREED" \in CommandTypes
    BY <1>1, ElementOfSeq DEF CommandTypes
  <2> QED
    BY <2>1 DEF Commands
<1>4. out \in [1 .. Len(q) -> Commands] /\ Len(q) \in Nat
  BY <1>1, <1>3, LenProperties
<1> QED
  BY <1>2, <1>4, SeqDef

\* What a peer puts into the buffers for its acknowledgements.
LEMMA AckCommandsType ==
    ASSUME NEW peer \in Peers
    PROVE  AckCommands(peer) \in Seq(Commands)
<1> DEFINE q == peer.acknowledgements
           ack(i) == [Command("ACKNOWLEDGE", q[i].channel, FALSE)
                        EXCEPT !.seq = q[i].seq]
           out == [i \in 1 .. Len(q) |-> ack(i)]
<1>1. q \in Seq(Commands)
  BY DEF Peers
<1>2. AckCommands(peer) = out
  BY DEF AckCommands
<1> HIDE DEF q
<1>3. ASSUME NEW i \in 1 .. Len(q)
      PROVE  ack(i) \in Commands
  <2>1. q[i] \in Commands
    BY <1>1, ElementOfSeq
  <2>2. q[i].channel \in {ControlChannel, DataChannel} /\ q[i].seq \in Nat
    BY <2>1 DEF Commands
  <2>3. Command("ACKNOWLEDGE", q[i].channel, FALSE) \in Commands
    BY <2>2, CommandType DEF CommandTypes
  <2> QED
    BY <2>2, <2>3 DEF Commands
<1> HIDE DEF ack
<1>4. out \in [1 .. Len(q) -> Commands] /\ Len(q) \in Nat
  BY <1>1, <1>3, LenProperties
<1> QED
  BY <1>2, <1>4, SeqDef

\* The commands of one datagram.
LEMMA OutgoingType ==
    ASSUME NEW n \in Nat, NEW s \in 1 .. n, NEW ping \in BOOLEAN,
           NEW H, HostOK(n, H), NEW acked, HostOK(n, acked),
           NEW pinged, HostOK(n, pinged),
           NEW expired \in Seq(Commands)
    PROVE  Outgoing(H, acked, pinged, s, expired, ping) \in Seq(Commands)
<1>1. /\ H.peers[s] \in Peers /\ acked.peers[s] \in Peers
      /\ pinged.peers[s] \in Peers
  BY HostShape
<1> DEFINE a == AckCommands(H.peers[s])
           b == expired
           c == acked.peers[s].outgoingReliable
           d == IF ping THEN <<PingCommand(pinged.peers[s].outgoingSeq)>> ELSE <<>>
           e == UnreliableCommands(pinged, s)
<1>2. a \in Seq(Commands) /\ e \in Seq(Commands)
  BY <1>1, AckCommandsType, UnreliableCommandsType
<1>3. c \in Seq(Commands) /\ acked.peers[s].sentReliable \in Seq(Commands)
      /\ pinged.peers[s].outgoingSeq \in Nat
  BY <1>1 DEF Peers
<1>4. b \in Seq(Commands)
  OBVIOUS
<1>5. d \in Seq(Commands)
  <2> DEFINE p == PingCommand(pinged.peers[s].outgoingSeq)
  <2>1. p \in Commands
    BY <1>3, PingCommandType
  <2> HIDE DEF p
  <2>2. <<p>> \in Seq(Commands) /\ <<>> \in Seq(Commands)
    BY <2>1
  <2> QED
    BY <2>2 DEF p
<1>6. Outgoing(H, acked, pinged, s, expired, ping) = a \o b \o c \o d \o e
  BY DEF Outgoing
<1> HIDE DEF a, b, c, d, e
<1>7. a \o b \in Seq(Commands)
  BY <1>2, <1>4, ConcatProperties
<1>8. a \o b \o c \in Seq(Commands)
  BY <1>3, <1>7, ConcatProperties
<1>9. a \o b \o c \o d \in Seq(Commands)
  BY <1>5, <1>8, ConcatProperties
<1> QED
  BY <1>2, <1>6, <1>9, ConcatProperties

\* What a peer sends is a datagram.
LEMMA DatagramType ==
    ASSUME NEW h \in Hosts, NEW peer \in Peers, NEW commands \in Seq(Commands)
    PROVE  /\ Datagram(h, peer, commands) \in Datagrams
           /\ Datagram(h, peer, commands).commands = commands
<1> DEFINE session == IF peer.outgoingPeerID # NoPeer
                      THEN peer.outgoingSessionID ELSE 0
<1>1. session \in SessionIDs \cup {NoSession}
  BY DEF Peers, SessionIDs
<1>2. /\ peer.address \in Hosts \cup {NoHost} /\ peer.outgoingPeerID \in Nat
      /\ peer.connectID \in Nat
  BY DEF Peers
<1> HIDE DEF session
<1> QED
  BY <1>1, <1>2 DEF Datagram, Datagrams, session

\* A send pass over an active peer.
LEMMA SendPeerKeeps ==
    ASSUME IInv, NEW h \in Hosts, NEW s \in Slots(h), SendPeer(h, s)
    PROVE  IInv'
<1> DEFINE n == PeerCount[h]
           acked == SendAcknowledgements(host[h], s)
<1>1. n \in Nat /\ s \in 1 .. n /\ HostOK(n, host[h]) /\ Peer(h, s) = host[h].peers[s]
  BY HostHere
<1> DEFINE sent == Peer(h, s).sentReliable
<1>a. PICK due \in SUBSET (1 .. Len(sent)), ping \in BOOLEAN :
          \E left \in InOrder((1 .. Len(sent)) \ due), again \in InOrder(due) :
              FillBuffers(h, s, Picked(sent, left), Picked(sent, again), ping)
  BY DEF SendPeer
<1>b. PICK left \in InOrder((1 .. Len(sent)) \ due), again \in InOrder(due) :
          FillBuffers(h, s, Picked(sent, left), Picked(sent, again), ping)
  BY <1>a
<1> DEFINE kept == Picked(sent, left)
           expired == Picked(sent, again)
<1>2. FillBuffers(h, s, kept, expired, ping)
  BY <1>b
<1>c. sent \in Seq(Commands)
  BY <1>1, HostShape DEF Peers
<1>d. kept \in Seq(Commands) /\ expired \in Seq(Commands)
  <2> HIDE DEF sent
  <2>1. (1 .. Len(sent)) \ due \in SUBSET (1 .. Len(sent))
    OBVIOUS
  <2> QED
    BY <1>c, <2>1, PickedType
<1> HIDE DEF sent, kept, expired
<1> DEFINE reliable == SendReliableCommands(acked, s, kept, expired)
           pinged == IF ping THEN Ping(reliable, s) ELSE reliable
           ready == pinged.peers[s]
           commands == Outgoing(host[h], acked, pinged, s, expired, ping)
<1>3. /\ SetHost(h, SendUnreliableCommands(pinged, s))
      /\ net' = IF commands = <<>> \/ Cardinality(net) >= MaxDatagrams
                THEN net ELSE net \cup {Datagram(h, ready, commands)}
  BY <1>2 DEF FillBuffers
<1>4. HostOK(n, acked)
  BY <1>1, SendAcknowledgementsOK
<1> HIDE DEF acked
<1>5. HostOK(n, reliable)
  BY <1>1, <1>4, <1>d, SendReliableCommandsOK
<1> HIDE DEF reliable
<1>6. HostOK(n, pinged)
  BY <1>1, <1>5, PingOK
<1> HIDE DEF pinged
<1>7. ready \in Peers
  BY <1>1, <1>6, HostShape
<1>8. commands \in Seq(Commands)
  BY <1>1, <1>4, <1>6, <1>d, OutgoingType
<1> HIDE DEF commands, ready
<1>9. HostsOK'
  <2>1. HostOK(n, SendUnreliableCommands(pinged, s))
    BY <1>1, <1>6, SendUnreliableCommandsOK
  <2> QED
    BY <2>1, <1>3, HostSet DEF IInv
<1>10. NetOK'
  <2> DEFINE c == commands
             d == Datagram(h, ready, c)
  <2>1. d \in Datagrams /\ d.commands = c
    BY <1>7, <1>8, DatagramType
  <2>2. net' = IF c = <<>> \/ Cardinality(net) >= MaxDatagrams
               THEN net ELSE net \cup {d}
    BY <1>3
  <2> HIDE DEF c, d
  <2> QED
    BY <2>1, <2>2 DEF IInv, NetOK
<1>11. ControlsOK'
  BY NextSlotOK DEF SendPeer
<1>12. ViewsOK' /\ ReceivedOK' /\ AcceptedOK'
  BY Unchanged DEF IInv, SendPeer
<1> QED
  BY <1>9, <1>10, <1>11, <1>12 DEF IInv

---------------------------------------------------------------------------
(* Receiving                                                                  *)

\* A datagram that passes the checks of its header.
LEMMA ReceiveKeeps ==
    ASSUME IInv, NEW h \in Hosts, NEW d \in net, Receive(h, d)
    PROVE  IInv'
<1> DEFINE c == control[h]
           to == d.peerID
           from == d.from
           commands == d.commands
           G == [c EXCEPT !.phase = "commands", !.peer = to, !.from = from,
                          !.commands = commands]
<1>1. d \in Datagrams /\ commands # <<>>
  BY DEF IInv, NetOK
<1>2. /\ from \in Hosts \cup {NoHost} /\ commands \in Seq(Commands)
  BY <1>1 DEF Datagrams
<1>3. to \in 0 .. PeerCount[h]
  BY SlotCount DEF Receive, NoPeer
<1>4. c \in Controls(h) /\ "commands" \in Phases
  BY DEF IInv, ControlsOK, ControlOK, Phases
<1>5. SetControl(h, G) /\ UNCHANGED <<host, net, history>>
  BY DEF Receive
<1> HIDE DEF to, from, commands, c
<1>6. G \in Controls(h) /\ G.commands = commands
  BY <1>2, <1>3, <1>4 DEF Controls
<1> HIDE DEF G
<1>7. ControlsOK'
  BY <1>1, <1>5, <1>6, ControlSet DEF IInv, ControlOK
<1> QED
  BY <1>5, <1>7, Unchanged DEF IInv, history

\* The end of a receive pass.
LEMMA ReceiveNothingKeeps ==
    ASSUME IInv, NEW h \in Hosts, ReceiveNothing(h)
    PROVE  IInv'
<1> DEFINE G == [control[h] EXCEPT !.phase = "resend", !.slot = 1]
<1>1. /\ control[h] \in Controls(h) /\ "resend" \in Phases
      /\ 1 \in 1 .. PeerCount[h]
  BY SlotCount DEF IInv, ControlsOK, ControlOK, Phases
<1>2. G \in Controls(h) /\ G.phase = "resend"
  BY <1>1 DEF Controls
<1>3. SetControl(h, G)
  BY DEF ReceiveNothing
<1> HIDE DEF G
<1>4. ControlsOK'
  BY <1>2, <1>3, ControlSet DEF IInv, ControlOK
<1> QED
  BY <1>4, Unchanged DEF IInv, ReceiveNothing, history

---------------------------------------------------------------------------
(* The handlers                                                               *)

\* A host inside a datagram has a command.
LEMMA CommandHere ==
    ASSUME IInv, NEW h \in Hosts, control[h].phase = "commands"
    PROVE  /\ TheCommand(h) \in Commands
           /\ ControlOK(h, control[h]) /\ control[h].commands # <<>>
           /\ control[h].event \in BOOLEAN
<1>1. /\ ControlOK(h, control[h]) /\ control[h].commands # <<>>
      /\ control[h] \in Controls(h)
  BY DEF IInv, ControlsOK, ControlOK
<1>2. control[h].commands \in Seq(Commands) /\ control[h].event \in BOOLEAN
  BY <1>1 DEF Controls
<1> QED
  BY <1>1, <1>2, HeadTailProperties DEF TheCommand

\* What is left of a datagram with more than one command.
LEMMA TailType ==
    ASSUME NEW q \in Seq(Commands), Len(q) > 1
    PROVE  Tail(q) # <<>>
<1>1. Len(q) \in Nat
  BY LenProperties
<1>2. q # <<>>
  BY <1>1, EmptySeq
<1> DEFINE rest == Tail(q)
<1>3. Len(rest) = Len(q) - 1 /\ rest \in Seq(Commands)
  BY <1>2, HeadTailProperties
<1> HIDE DEF rest
<1>4. Len(rest) # 0
  BY <1>1, <1>3
<1>5. rest # <<>>
  BY <1>4, EmptySeq
<1> QED
  BY <1>5 DEF rest

\* Going on with the next command, the next datagram or the program.
LEMMA AfterCommandOK ==
    ASSUME NEW h \in Hosts, NEW c, ControlOK(h, c), c.commands # <<>>,
           NEW s \in 0 .. PeerCount[h], NEW failed, NEW raises \in BOOLEAN
    PROVE  ControlOK(h, AfterCommand(c, failed, raises, s))
<1> DEFINE raised == c.raised \/ raises
           rest == Tail(c.commands)
           next == [c EXCEPT !.commands = rest, !.raised = raised, !.peer = s]
           last == [c EXCEPT !.phase = "receive", !.commands = <<>>,
                             !.peer = NoPeer, !.from = NoHost]
<1>1. c \in Controls(h)
  BY DEF ControlOK
<1>2. /\ c.commands \in Seq(Commands) /\ c.raised \in BOOLEAN
  BY <1>1 DEF Controls
<1>3. rest \in Seq(Commands)
  BY <1>2, HeadTailProperties
<1>4. raised \in BOOLEAN
  BY <1>2
<1>5. /\ NoPeer \in 0 .. PeerCount[h] /\ "receive" \in Phases
      /\ <<>> \in Seq(Commands)
  BY SlotCount DEF NoPeer, Phases
<1>6. CASE ~ failed /\ Len(c.commands) > 1
  <2>1. AfterCommand(c, failed, raises, s) = next
    BY <1>6 DEF AfterCommand
  <2> HIDE DEF rest, raised
  <2>2. rest # <<>>
    BY <1>2, <1>6, TailType DEF rest
  <2>3. next \in Controls(h) /\ next.commands = rest
    BY <1>1, <1>3, <1>4 DEF Controls
  <2> QED
    BY <2>1, <2>2, <2>3 DEF ControlOK
<1>7. CASE ~ (~ failed /\ Len(c.commands) > 1)
  <2>1. AfterCommand(c, failed, raises, s) = IF raised THEN Idle ELSE last
    BY <1>7 DEF AfterCommand
  <2>2. last \in Controls(h) /\ last.phase = "receive"
    BY <1>1, <1>5 DEF Controls
  <2> HIDE DEF last, raised
  <2>3. ControlOK(h, last) /\ ControlOK(h, Idle)
    BY <2>2, IdleOK DEF ControlOK
  <2> QED
    BY <2>1, <2>3
<1> QED
  BY <1>6, <1>7

\* What every handler of a command for a slot does.
LEMMA HandledOK ==
    ASSUME IInv, NEW h \in Hosts, NEW s \in Slots(h),
           control[h].phase = "commands",
           NEW H, HostOK(PeerCount[h], H), NEW failed, NEW raises \in BOOLEAN,
           Handled(h, H, s, failed, raises)
    PROVE  HostsOK' /\ ControlsOK' /\ NetOK'
<1>1. /\ PeerCount[h] \in Nat /\ s \in 1 .. PeerCount[h]
      /\ s \in 0 .. PeerCount[h]
  BY SlotCount
<1>2. HostOK(PeerCount[h], QueueAcknowledgement(H, s, TheCommand(h)))
  BY <1>1, CommandHere, QueueAcknowledgementOK
<1>3. HostsOK'
  BY <1>2, HostSet DEF IInv, Handled
<1>4. ControlOK(h, AfterCommand(control[h], failed, raises, s))
  BY <1>1, CommandHere, AfterCommandOK
<1>5. ControlsOK'
  BY <1>4, ControlSet DEF IInv, Handled
<1> QED
  BY <1>3, <1>5, Unchanged DEF IInv, Handled

\* enet_protocol_handle_ping.
LEMMA HandlePingKeeps ==
    ASSUME IInv, NEW h \in Hosts, NEW s \in Slots(h), HandlePing(h, s)
    PROVE  IInv'
<1>1. HostsOK' /\ ControlsOK' /\ NetOK'
  BY HostHere, HandledOK DEF HandlePing, At
<1> QED
  BY <1>1, Unchanged DEF IInv, HandlePing, history

\* enet_protocol_handle_send_reliable.
LEMMA HandleSendReliableKeeps ==
    ASSUME IInv, NEW h \in Hosts, NEW s \in Slots(h), HandleSendReliable(h, s)
    PROVE  IInv'
<1> DEFINE n == PeerCount[h]
           seq == TheCommand(h).seq
           H == IF TakesData(Peer(h, s))
                THEN QueueIncomingReliable(host[h], s, seq) ELSE host[h]
<1>1. n \in Nat /\ s \in 1 .. n /\ HostOK(n, host[h])
  BY HostHere
<1>2. control[h].phase = "commands"
  BY DEF HandleSendReliable, At
<1>3. seq \in Nat
  BY <1>2, CommandHere DEF Commands
<1> HIDE DEF seq
<1>4. HostOK(n, QueueIncomingReliable(host[h], s, seq))
  BY <1>1, <1>3, QueueIncomingReliableOK
<1>5. HostOK(n, H)
  BY <1>1, <1>4
<1>6. Handled(h, H, s, ~ TakesData(Peer(h, s)), FALSE)
  BY DEF HandleSendReliable, seq
<1> HIDE DEF H
<1>7. HostsOK' /\ ControlsOK' /\ NetOK'
  BY <1>2, <1>5, <1>6, HandledOK
<1> QED
  BY <1>7, Unchanged DEF IInv, HandleSendReliable, history

\* A delivered unreliable packet queues the peer for dispatch.
LEMMA UnreliableDeliveredOK ==
    ASSUME NEW n \in Nat, NEW H, HostOK(n, H), NEW s \in 1 .. n
    PROVE  HostOK(n, UnreliableDelivered(H, s))
<1> DEFINE old == H.peers[s]
           dispatched == Append(old.dispatched, 0)
           peer == [old EXCEPT !.dispatched = dispatched]
           taken == [H EXCEPT !.peers[s] = peer]
<1>1. old \in Peers /\ H \in HostRecords(n)
  BY HostShape
<1>2. dispatched \in Seq(Nat)
  <2>1. old.dispatched \in Seq(Nat)
    BY <1>1 DEF Peers
  <2> QED
    BY <2>1, AppendProperties
<1>3. UnreliableDelivered(H, s) = EnterDispatchQueue(taken, s)
  BY <1>1 DEF UnreliableDelivered, HostRecords
<1> HIDE DEF dispatched
<1>4. /\ peer \in Peers /\ peer.state = old.state
      /\ peer.needsDispatch = old.needsDispatch
  BY <1>1, <1>2 DEF Peers
<1> HIDE DEF peer
<1>5. HostOK(n, taken)
  BY <1>4, PeerUpdated
<1> HIDE DEF taken
<1> QED
  BY <1>3, <1>5, EnterDispatchQueueOK

\* enet_protocol_handle_send_unreliable.
LEMMA HandleSendUnreliableKeeps ==
    ASSUME IInv, NEW h \in Hosts, NEW s \in Slots(h), HandleSendUnreliable(h, s)
    PROVE  IInv'
<1>1. /\ PeerCount[h] \in Nat /\ s \in 1 .. PeerCount[h]
      /\ HostOK(PeerCount[h], host[h])
  BY HostHere
<1>2. control[h].phase = "commands"
  BY DEF HandleSendUnreliable, At
<1>3. PICK H \in {host[h], UnreliableDelivered(host[h], s)} :
          Handled(h, H, s, ~ TakesData(Peer(h, s)), FALSE)
  BY DEF HandleSendUnreliable
<1>4. HostOK(PeerCount[h], H)
  BY <1>1, <1>3, UnreliableDeliveredOK
<1>5. HostsOK' /\ ControlsOK' /\ NetOK'
  BY <1>2, <1>3, <1>4, HandledOK
<1> QED
  BY <1>5, Unchanged DEF IInv, HandleSendUnreliable, history

\* What a DISCONNECT makes of a host.
LEMMA DisconnectedOK ==
    ASSUME NEW n \in Nat, NEW H, HostOK(n, H), NEW s \in 1 .. n, NEW c
    PROVE  HostOK(n, Disconnected(H, s, c))
<1> DEFINE emptied == ResetQueues(H, s)
<1>1. HostOK(n, emptied)
  BY ResetQueuesOK
<1>2. ZOMBIE \in PeerStates /\ ACKNOWLEDGING_DISCONNECT \in PeerStates
  BY DEF ZOMBIE, ACKNOWLEDGING_DISCONNECT, PeerStates
<1>3. Disconnected(H, s, c) \in
         {DispatchState(emptied, s, ZOMBIE),
          ChangeState(emptied, s, ACKNOWLEDGING_DISCONNECT), Reset(emptied, s)}
  BY DEF Disconnected
<1> HIDE DEF emptied
<1>4. /\ HostOK(n, DispatchState(emptied, s, ZOMBIE))
      /\ HostOK(n, ChangeState(emptied, s, ACKNOWLEDGING_DISCONNECT))
  BY <1>1, <1>2, DispatchStateOK, ChangeStateOK
<1>5. HostOK(n, Reset(emptied, s))
  BY <1>1, ResetOK
<1> QED
  BY <1>3, <1>4, <1>5

\* enet_protocol_handle_disconnect.
LEMMA HandleDisconnectKeeps ==
    ASSUME IInv, NEW h \in Hosts, NEW s \in Slots(h), HandleDisconnect(h, s)
    PROVE  IInv'
<1>1. /\ PeerCount[h] \in Nat /\ s \in 1 .. PeerCount[h]
      /\ HostOK(PeerCount[h], host[h])
  BY HostHere
<1>2. control[h].phase = "commands"
  BY DEF HandleDisconnect, At
<1>3. PICK H \in {host[h], Disconnected(host[h], s, TheCommand(h))} :
          Handled(h, H, s, FALSE, FALSE)
  BY DEF HandleDisconnect
<1>4. HostOK(PeerCount[h], H)
  BY <1>1, <1>3, DisconnectedOK
<1>5. HostsOK' /\ ControlsOK' /\ NetOK'
  BY <1>2, <1>3, <1>4, HandledOK
<1> QED
  BY <1>5, Unchanged DEF IInv, HandleDisconnect, history

\* enet_protocol_handle_verify_connect.
LEMMA HandleVerifyConnectKeeps ==
    ASSUME IInv, NEW h \in Hosts, NEW s \in Slots(h), HandleVerifyConnect(h, s)
    PROVE  IInv'
<1> DEFINE n == PeerCount[h]
           c == TheCommand(h)
           event == control[h].event
           G == RemoveSentReliable(host[h], s,
                    [Command("ACKNOWLEDGE", ControlChannel, FALSE) EXCEPT !.seq = 1])
           peer == [G.peers[s] EXCEPT !.outgoingPeerID = c.peerID,
                                      !.incomingSessionID = c.incoming,
                                      !.outgoingSessionID = c.outgoing]
           linked == [G EXCEPT !.peers[s] = peer]
           dropped == DispatchState(host[h], s, ZOMBIE)
           notified == NotifyConnect(linked, s, event)
<1>1. n \in Nat /\ s \in 1 .. n /\ HostOK(n, host[h])
  BY HostHere
<1>2. control[h].phase = "commands"
  BY DEF HandleVerifyConnect, At
<1>3. c \in Commands /\ event \in BOOLEAN
  BY <1>2, CommandHere
<1>4. /\ \/ Handled(h, host[h], s, FALSE, FALSE)
         \/ Handled(h, dropped, s, TRUE, FALSE)
         \/ Handled(h, notified, s, FALSE, event)
      /\ view' = [view EXCEPT ![h][s] = "open"] \/ UNCHANGED view
      /\ UNCHANGED <<received, accepted>>
  BY DEF HandleVerifyConnect, history
<1> HIDE DEF c, event
<1>5. HostOK(n, G)
  BY <1>1, RemoveSentReliableOK
<1> HIDE DEF G
<1>6. G.peers[s] \in Peers
  BY <1>1, <1>5, HostShape
<1>7. /\ c.peerID \in Nat /\ c.incoming \in SessionIDs \cup {NoSession}
      /\ c.outgoing \in SessionIDs \cup {NoSession}
  BY <1>3 DEF Commands
<1>8. /\ peer \in Peers /\ peer.state = G.peers[s].state
      /\ peer.needsDispatch = G.peers[s].needsDispatch
  BY <1>6, <1>7 DEF Peers
<1> HIDE DEF peer
<1>9. HostOK(n, linked)
  BY <1>1, <1>5, <1>8, PeerUpdated
<1> HIDE DEF linked
<1>10. HostOK(n, notified)
  BY <1>1, <1>3, <1>9, NotifyConnectOK
<1>11. HostOK(n, dropped)
  BY <1>1, DispatchStateOK DEF ZOMBIE, PeerStates
<1> HIDE DEF dropped, notified
<1>12. HostsOK' /\ ControlsOK' /\ NetOK'
  BY <1>1, <1>2, <1>3, <1>4, <1>10, <1>11, HandledOK
<1>13. ViewsOK'
  BY <1>4, ViewSet, Unchanged DEF IInv, SetView, Views
<1> QED
  BY <1>4, <1>12, <1>13, Unchanged DEF IInv

\* enet_protocol_handle_acknowledge.
LEMMA HandleAcknowledgeKeeps ==
    ASSUME IInv, NEW h \in Hosts, NEW s \in Slots(h), HandleAcknowledge(h, s)
    PROVE  IInv'
<1> DEFINE n == PeerCount[h]
           event == control[h].event
           G == RemoveSentReliable(host[h], s, TheCommand(h))
           later == IF LaterIsDone(G.peers[s]) THEN Disconnect(G, s) ELSE G
<1>1. n \in Nat /\ s \in 1 .. n /\ HostOK(n, host[h])
  BY HostHere
<1>2. control[h].phase = "commands"
  BY DEF HandleAcknowledge, At
<1>3. event \in BOOLEAN
  BY <1>2, CommandHere
<1>4. /\ \/ Handled(h, host[h], s, FALSE, FALSE)
         \/ Handled(h, G, s, TRUE, FALSE)
         \/ Handled(h, NotifyConnect(G, s, event), s, FALSE, event)
         \/ Handled(h, NotifyDisconnect(G, s, event), s, FALSE, event)
         \/ Handled(h, later, s, FALSE, FALSE)
      /\ \/ view' = [view EXCEPT ![h][s] = "open"]
         \/ view' = [view EXCEPT ![h][s] = "free"]
         \/ UNCHANGED view
      /\ UNCHANGED <<received, accepted>>
  BY DEF HandleAcknowledge, history
<1> HIDE DEF event
<1>5. HostOK(n, G)
  BY <1>1, RemoveSentReliableOK
<1> HIDE DEF G
<1>6. /\ HostOK(n, NotifyConnect(G, s, event))
      /\ HostOK(n, NotifyDisconnect(G, s, event))
  BY <1>1, <1>3, <1>5, NotifyConnectOK, NotifyDisconnectOK
<1>7. HostOK(n, later)
  BY <1>1, <1>5, DisconnectOK
<1> HIDE DEF later
<1>8. HostsOK' /\ ControlsOK' /\ NetOK'
  BY <1>1, <1>2, <1>3, <1>4, <1>5, <1>6, <1>7, HandledOK
<1>9. ViewsOK'
  BY <1>4, ViewSet, Unchanged DEF IInv, SetView, Views
<1> QED
  BY <1>4, <1>8, <1>9, Unchanged DEF IInv

\* Session numbers stay within their two bits.
LEMMA NextSessionType ==
    ASSUME NEW theirs \in SessionIDs \cup {NoSession},
           NEW last \in SessionIDs \cup {NoSession}
    PROVE  NextSession(theirs, last) \in SessionIDs
  BY DEF NextSession, SessionIDs, NoSession

\* What an accepted CONNECT makes of a host.
LEMMA AcceptedType ==
    ASSUME NEW n \in Nat, NEW H, HostOK(n, H), NEW s \in 1 .. n,
           NEW address \in Hosts \cup {NoHost}, NEW c \in Commands,
           H.peers[s].state = DISCONNECTED
    PROVE  HostOK(n, Accepted(H, s, address, c))
<1> DEFINE old == H.peers[s]
           sessionIn == NextSession(c.incoming, old.outgoingSessionID)
           sessionOut == NextSession(c.outgoing, old.incomingSessionID)
           placed == [old EXCEPT !.state = ACKNOWLEDGING_CONNECT, !.channelCount = 1,
                                 !.connectID = c.connectID, !.address = address]
           peer == [placed EXCEPT !.outgoingPeerID = c.peerID,
                                  !.outgoingSessionID = sessionIn,
                                  !.incomingSessionID = sessionOut]
           taken == [H EXCEPT !.peers[s] = peer]
           reply == [Command("VERIFY_CONNECT", ControlChannel, TRUE) EXCEPT
                        !.connectID = c.connectID, !.peerID = s,
                        !.incoming = sessionIn, !.outgoing = sessionOut]
<1>1. old \in Peers /\ H \in HostRecords(n)
  BY HostShape
<1>2. /\ c.connectID \in Nat /\ c.peerID \in Nat /\ s \in Nat
      /\ c.incoming \in SessionIDs \cup {NoSession}
      /\ c.outgoing \in SessionIDs \cup {NoSession}
  BY DEF Commands
<1>3. /\ old.outgoingSessionID \in SessionIDs \cup {NoSession}
      /\ old.incomingSessionID \in SessionIDs \cup {NoSession}
  BY <1>1 DEF Peers
<1>4. sessionIn \in SessionIDs /\ sessionOut \in SessionIDs
  BY <1>2, <1>3, NextSessionType
<1>5. Accepted(H, s, address, c) = QueueOutgoing(taken, s, reply)
  <2>1. peer = [old EXCEPT !.state = ACKNOWLEDGING_CONNECT, !.channelCount = 1,
                           !.connectID = c.connectID, !.address = address,
                           !.outgoingPeerID = c.peerID,
                           !.outgoingSessionID = sessionIn,
                           !.incomingSessionID = sessionOut]
    OBVIOUS
  <2> HIDE DEF peer
  <2> QED
    BY <2>1 DEF Accepted
<1> HIDE DEF sessionIn, sessionOut
<1>6. ACKNOWLEDGING_CONNECT \in PeerStates /\ ACKNOWLEDGING_CONNECT \notin Counted
      /\ DISCONNECTED \notin Counted
  BY DEF ACKNOWLEDGING_CONNECT, PeerStates, Counted, CONNECTED, DISCONNECT_LATER,
         DISCONNECTED
<1>7. /\ placed \in Peers /\ placed.state = ACKNOWLEDGING_CONNECT
      /\ placed.needsDispatch = old.needsDispatch
  BY <1>1, <1>2, <1>6 DEF Peers
<1> HIDE DEF placed
<1>8. /\ peer \in Peers /\ peer.state = ACKNOWLEDGING_CONNECT
      /\ peer.needsDispatch = old.needsDispatch
  BY <1>2, <1>4, <1>7 DEF Peers
<1> HIDE DEF peer
<1>9. HostOK(n, taken)
  BY <1>6, <1>8, PeerUpdated
<1>10. reply \in Commands
  <2>1. Command("VERIFY_CONNECT", ControlChannel, TRUE) \in Commands
    BY CommandType DEF CommandTypes
  <2> QED
    BY <2>1, <1>2, <1>4, HandshakeCommandType
<1> HIDE DEF reply, taken
<1>11. HostOK(n, QueueOutgoing(taken, s, reply))
  BY <1>9, <1>10, QueueOutgoingOK
<1> QED
  BY <1>5, <1>11

\* enet_protocol_handle_connect.
LEMMA HandleConnectKeeps ==
    ASSUME IInv, NEW h \in Hosts, HandleConnect(h)
    PROVE  IInv'
<1> DEFINE c == TheCommand(h)
<1>1. control[h].phase = "commands"
  BY DEF HandleConnect, At
<1>2. c \in Commands /\ ControlOK(h, control[h]) /\ control[h].commands # <<>>
      /\ control[h] \in Controls(h)
  BY <1>1, CommandHere DEF ControlOK
<1>3. CASE IsKnown(h, c) \/ FreeSlots(h) = {}
  <2>1. /\ SetControl(h, AfterCommand(control[h], TRUE, FALSE, NoPeer))
        /\ UNCHANGED <<host, net, history>>
    BY <1>3 DEF HandleConnect
  <2>2. NoPeer \in 0 .. PeerCount[h]
    BY SlotCount DEF NoPeer
  <2>3. ControlsOK'
    BY <1>2, <2>1, <2>2, AfterCommandOK, ControlSet DEF IInv
  <2> QED
    BY <2>1, <2>3, Unchanged DEF IInv, history
<1>4. CASE ~ (IsKnown(h, c) \/ FreeSlots(h) = {})
  <2>1. PICK s \in Slots(h) :
           /\ IsFirstFree(h, s)
           /\ Handled(h, Accepted(host[h], s, control[h].from, c), s, FALSE, FALSE)
           /\ received' = [received EXCEPT ![h][s] = 0]
           /\ accepted' = [accepted EXCEPT ![h] = @ + 1]
           /\ UNCHANGED <<view, verified, flushed>>
    BY <1>4 DEF HandleConnect
  <2>2. /\ PeerCount[h] \in Nat /\ s \in 1 .. PeerCount[h]
        /\ HostOK(PeerCount[h], host[h])
        /\ host[h].peers[s].state = DISCONNECTED
    BY <2>1, HostHere DEF IsFirstFree, FreeSlots
  <2>3. HostOK(PeerCount[h], Accepted(host[h], s, control[h].from, c))
    <3>1. control[h].from \in Hosts \cup {NoHost}
      BY <1>2 DEF Controls
    <3> HIDE DEF c
    <3> QED
      BY <1>2, <2>2, <3>1, AcceptedType
  <2>4. HostsOK' /\ ControlsOK' /\ NetOK'
    BY <1>1, <2>1, <2>3, HandledOK
  <2>5. ReceivedOK'
    BY <2>1, ReceivedSet DEF IInv
  <2>6. AcceptedOK'
    BY <2>1 DEF IInv, AcceptedOK
  <2> QED
    BY <2>1, <2>4, <2>5, <2>6, Unchanged DEF IInv
<1> QED
  BY <1>3, <1>4

---------------------------------------------------------------------------
(* The theorems                                                               *)

\* Every call of a program.
LEMMA AppStepKeeps ==
    ASSUME IInv, NEW h \in Hosts, AppStep(h)
    PROVE  IInv'
<1>1. CASE Flush(h)
  BY <1>1, FlushKeeps
<1>2. CASE Service(h)
  BY <1>2, ServiceKeeps
<1>3. CASE CheckEvents(h)
  BY <1>3, ServiceKeeps
<1>4. ASSUME NEW s \in Slots(h), NEW address \in Hosts, Connect(h, s, address)
      PROVE  IInv'
  BY <1>4, ConnectKeeps
<1>5. ASSUME NEW s \in Slots(h), SendReliable(h, s)
      PROVE  IInv'
  BY <1>5, SendReliableKeeps
<1>6. ASSUME NEW s \in Slots(h), SendUnreliable(h, s)
      PROVE  IInv'
  BY <1>6, SendUnreliableKeeps
<1>7. ASSUME NEW s \in Slots(h), DisconnectPeer(h, s)
      PROVE  IInv'
  BY <1>7, DisconnectPeerKeeps
<1>8. ASSUME NEW s \in Slots(h), DisconnectPeerLater(h, s)
      PROVE  IInv'
  BY <1>8, DisconnectPeerLaterKeeps
<1>9. ASSUME NEW s \in Slots(h), DisconnectPeerNow(h, s)
      PROVE  IInv'
  BY <1>9, DisconnectPeerNowKeeps
<1>10. ASSUME NEW s \in Slots(h), ResetPeer(h, s)
       PROVE  IInv'
  BY <1>10, ResetPeerKeeps
<1> QED
  BY <1>1, <1>2, <1>3, <1>4, <1>5, <1>6, <1>7, <1>8, <1>9, <1>10 DEF AppStep

\* Every step of a dispatch pass.
LEMMA DispatchStepKeeps ==
    ASSUME IInv, NEW h \in Hosts, DispatchStep(h)
    PROVE  IInv'
<1>1. CASE DispatchDone(h)
  BY <1>1, DispatchDoneKeeps
<1>2. ASSUME NEW s \in Slots(h), DispatchConnect(h, s)
      PROVE  IInv'
  BY <1>2, DispatchConnectKeeps
<1>3. ASSUME NEW s \in Slots(h), DispatchDisconnect(h, s)
      PROVE  IInv'
  BY <1>3, DispatchDisconnectKeeps
<1>4. ASSUME NEW s \in Slots(h), DispatchReceive(h, s)
      PROVE  IInv'
  BY <1>4, DispatchReceiveKeeps
<1>5. ASSUME NEW s \in Slots(h), DispatchNothing(h, s)
      PROVE  IInv'
  BY <1>5, DispatchNothingKeeps
<1> QED
  BY <1>1, <1>2, <1>3, <1>4, <1>5 DEF DispatchStep

\* Every step of a send pass.
LEMMA SendStepKeeps ==
    ASSUME IInv, NEW h \in Hosts, SendStep(h)
    PROVE  IInv'
<1>1. CASE FlushDone(h)
  BY <1>1, FlushDoneKeeps
<1>2. ASSUME NEW s \in Slots(h), SendNothing(h, s)
      PROVE  IInv'
  BY <1>2, SendNothingKeeps
<1>3. ASSUME NEW s \in Slots(h), SendPeer(h, s)
      PROVE  IInv'
  BY <1>3, SendPeerKeeps
<1>4. ASSUME NEW s \in Slots(h), GiveUp(h, s)
      PROVE  IInv'
  BY <1>4, GiveUpKeeps
<1> QED
  BY <1>1, <1>2, <1>3, <1>4 DEF SendStep

\* Every step of a receive pass.
LEMMA ReceiveStepKeeps ==
    ASSUME IInv, NEW h \in Hosts, ReceiveStep(h)
    PROVE  IInv'
  BY ReceiveNothingKeeps, ReceiveKeeps DEF ReceiveStep

\* Every handler of a command.
LEMMA CommandStepKeeps ==
    ASSUME IInv, NEW h \in Hosts, CommandStep(h)
    PROVE  IInv'
<1>1. CASE HandleConnect(h)
  BY <1>1, HandleConnectKeeps
<1>2. ASSUME NEW s \in Slots(h), HandleAcknowledge(h, s)
      PROVE  IInv'
  BY <1>2, HandleAcknowledgeKeeps
<1>3. ASSUME NEW s \in Slots(h), HandleVerifyConnect(h, s)
      PROVE  IInv'
  BY <1>3, HandleVerifyConnectKeeps
<1>4. ASSUME NEW s \in Slots(h), HandleDisconnect(h, s)
      PROVE  IInv'
  BY <1>4, HandleDisconnectKeeps
<1>5. ASSUME NEW s \in Slots(h), HandlePing(h, s)
      PROVE  IInv'
  BY <1>5, HandlePingKeeps
<1>6. ASSUME NEW s \in Slots(h), HandleSendReliable(h, s)
      PROVE  IInv'
  BY <1>6, HandleSendReliableKeeps
<1>7. ASSUME NEW s \in Slots(h), HandleSendUnreliable(h, s)
      PROVE  IInv'
  BY <1>7, HandleSendUnreliableKeeps
<1> QED
  BY <1>1, <1>2, <1>3, <1>4, <1>5, <1>6, <1>7 DEF CommandStep

\* The invariant is inductive: every action of every host keeps it.
LEMMA NextKeeps == IInv /\ [Next]_vars => IInv'
<1> SUFFICES ASSUME IInv, [Next]_vars
             PROVE  IInv'
  OBVIOUS
<1>1. CASE UNCHANGED vars
  BY <1>1, Unchanged DEF IInv, vars
<1>2. CASE Next
  <2>1. PICK h \in Hosts : HostStep(h)
    BY <1>2 DEF Next
  <2> QED
    BY <2>1, AppStepKeeps, DispatchStepKeeps, SendStepKeeps, ReceiveStepKeeps,
       CommandStepKeeps DEF HostStep
<1> QED
  BY <1>1, <1>2

\* The inductive invariant holds in every reachable state.
THEOREM Invariance == Spec => []IInv
<1>1. Init => IInv
  BY InitIInv
<1>2. IInv /\ [Next]_vars => IInv'
  BY NextKeeps
<1> QED
  BY <1>1, <1>2, PTL DEF Spec

(* Every variable keeps its type, whatever is lost, repeated or reordered: no *)
(* handler reads the head of an empty list, links a peer that has no slot or  *)
(* numbers a session outside its two bits.                                    *)
THEOREM TypeCorrect == Spec => []TypeOK
<1>1. IInv => TypeOK
  BY IInvImplies
<1> QED
  BY <1>1, Invariance, PTL

(* host.connectedPeers counts exactly the peers CONNECTED or DISCONNECT_LATER *)
(* in every reachable state of every instance.                                *)
THEOREM CounterCorrect == Spec => []ConnectedPeersExact
<1>1. IInv => ConnectedPeersExact
  BY IInvImplies
<1> QED
  BY <1>1, Invariance, PTL

(* The dispatch queue of a host holds each peer whose needsDispatch is set    *)
(* once and no other, in every reachable state of every instance.             *)
THEOREM DispatchQueueCorrect == Spec => []DispatchQueueExact
<1>1. IInv => DispatchQueueExact
  BY IInvImplies
<1> QED
  BY <1>1, Invariance, PTL

---------------------------------------------------------------------------
(* The invariant of a slot: what its peer has queued and whether it waits for *)
(* dispatch, by the state of the peer and by what the program knows of it.    *)

\* What the program knows of a slot fits the state of its peer.
Informed(state, v) ==
    /\ v = "open" => state \in {CONNECTED, ACKNOWLEDGING_DISCONNECT, ZOMBIE}
    /\ v = "closing" => state \in {DISCONNECT_LATER, DISCONNECTING,
                                   ACKNOWLEDGING_DISCONNECT, ZOMBIE}
    /\ state \in Counted \cup {DISCONNECTING, ACKNOWLEDGING_DISCONNECT} =>
          v \in {"open", "closing"}

(* A peer that owes an event waits for dispatch, unless its reset is under    *)
(* way; nothing is queued for the program before a connection is up.          *)
Owed(peer, resetting) ==
    /\ \/ peer.state \in {CONNECTION_PENDING, CONNECTION_SUCCEEDED, ZOMBIE}
       \/ peer.state = CONNECTED /\ peer.dispatched # <<>>
       => peer.needsDispatch \/ resetting
    /\ peer.state <= CONNECTION_SUCCEEDED => peer.dispatched = <<>>

(* A free peer has nothing to send.  A peer that waits for an acknowledgement *)
(* has nothing but the commands whose acknowledgement it waits for: none of   *)
(* an earlier state is left that could be acknowledged in their place.        *)
Armed(peer, resetting) ==
    /\ peer.state = DISCONNECTED =>
          peer.outgoingReliable = <<>> /\ peer.sentReliable = <<>>
    /\ \/ resetting
       \/ /\ peer.state = ACKNOWLEDGING_CONNECT => OnlyOf(peer, "VERIFY_CONNECT")
          /\ peer.state = DISCONNECTING => OnlyOf(peer, "DISCONNECT")
          /\ peer.state = DISCONNECT_LATER => ~ NothingQueued(peer)
          /\ peer.state = ACKNOWLEDGING_DISCONNECT => AcksADisconnect(peer)

SlotOK(peer, v, resetting) ==
    Informed(peer.state, v) /\ Owed(peer, resetting) /\ Armed(peer, resetting)

SlotsOK ==
    \A h \in Hosts : \A s \in Slots(h) :
        SlotOK(Peer(h, s), view[h][s], BeingReset(h, s))

\* Only a flush ends with the reset of a peer.
Resets(c) == c.reset # NoPeer => c.phase \in {"flush", "flushed"}

ResetOnly == \A h \in Hosts : Resets(control[h])

CInv == IInv /\ SlotsOK /\ ResetOnly

\* The peer pointer keeps its meaning from p to q, v and w being what the program knows.
Means(p, q, v, w) == v \in {"open", "closing"} /\ w # "free" => SameLink(p, q)

MeaningKept ==
    \A h \in Hosts : \A s \in Slots(h) :
        view[h][s] \in {"open", "closing"} /\ view'[h][s] # "free"
            => /\ Peer(h, s)'.connectID = Peer(h, s).connectID
               /\ Peer(h, s)'.address = Peer(h, s).address

\* A slot that is free, and what is known of it.
LEMMA SlotHere ==
    ASSUME CInv, NEW h \in Hosts, NEW s \in Slots(h)
    PROVE  /\ PeerCount[h] \in Nat /\ s \in 1 .. PeerCount[h] /\ s # NoPeer
           /\ HostOK(PeerCount[h], host[h])
           /\ Peer(h, s) \in Peers /\ Peer(h, s) = host[h].peers[s]
           /\ view[h][s] \in Views
           /\ SlotOK(Peer(h, s), view[h][s], BeingReset(h, s))
           /\ Resets(control[h]) /\ IsPerHost(host) /\ IsPerHost(control)
           /\ IsPerHost(view)
  BY HostHere, ViewHere DEF CInv, SlotsOK, ResetOnly, IInv, HostsOK, ControlsOK, ViewsOK,
     NoPeer

\* A step changes one slot of one host, and leaves that slot in order.
LEMMA SlotStep ==
    ASSUME CInv, NEW h \in Hosts, NEW s \in Slots(h), NEW G, NEW c, NEW v,
           SetHost(h, G), SetControl(h, c), SetView(h, s, v),
           Elsewhere(host[h], G, s),
           c.reset = control[h].reset
             \/ (c.reset \in {NoPeer, s} /\ control[h].reset \in {NoPeer, s}),
           Resets(c), SlotOK(G.peers[s], v, c.reset = s),
           Means(Peer(h, s), G.peers[s], view[h][s], v)
    PROVE  SlotsOK' /\ ResetOnly' /\ MeaningKept
<1>1. /\ PeerCount[h] \in Nat /\ s \in 1 .. PeerCount[h]
      /\ host[h].peers \in [1 .. PeerCount[h] -> Peers]
      /\ view[h] \in [Slots(h) -> Views]
      /\ IsPerHost(host) /\ IsPerHost(control) /\ IsPerHost(view)
  BY SlotHere, HostShape DEF CInv, IInv, ViewsOK
<1>2. /\ host' = [g \in Hosts |-> IF g = h THEN G ELSE host[g]]
      /\ control' = [g \in Hosts |-> IF g = h THEN c ELSE control[g]]
      /\ view' = [g \in Hosts |-> IF g = h THEN [view[h] EXCEPT ![s] = v] ELSE view[g]]
  BY <1>1 DEF IsPerHost, SetHost, SetControl, SetView
<1>3. ResetOnly'
  BY <1>2 DEF ResetOnly, CInv, Resets
<1>4. ASSUME NEW g \in Hosts, NEW t \in Slots(g)
      PROVE  /\ SlotOK(Peer(g, t)', view'[g][t], BeingReset(g, t)')
             /\ Means(Peer(g, t), Peer(g, t)', view[g][t], view'[g][t])
  <2>1. /\ SlotOK(Peer(g, t), view[g][t], BeingReset(g, t)) /\ t # NoPeer
        /\ t \in 1 .. PeerCount[g]
    BY <1>4, SlotHere
  <2>2. CASE g # h
    BY <1>2, <2>1, <2>2 DEF Peer, BeingReset, Means, SameLink
  <2>3. CASE g = h /\ t # s
    <3>1. Peer(g, t)' = Peer(g, t) /\ view'[g][t] = view[g][t]
      BY <1>1, <1>2, <2>1, <2>3 DEF Peer, Elsewhere
    <3>2. BeingReset(g, t)' = BeingReset(g, t)
      BY <1>2, <2>1, <2>3 DEF BeingReset
    <3> QED BY <2>1, <3>1, <3>2 DEF Means, SameLink
  <2>4. CASE g = h /\ t = s
    <3>1. /\ Peer(g, t)' = G.peers[s] /\ view'[g][t] = v
          /\ BeingReset(g, t)' = (c.reset = s)
      BY <1>1, <1>2, <2>4 DEF Peer, BeingReset
    <3> QED BY <2>4, <3>1
  <2> QED BY <2>2, <2>3, <2>4
<1>5. SlotsOK'
  BY <1>4 DEF SlotsOK, Slots
<1>6. MeaningKept
  BY <1>4 DEF MeaningKept, Means, SameLink
<1> QED BY <1>3, <1>5, <1>6

\* A variable that does not change is set to what it was.
LEMMA StaysSet ==
    ASSUME CInv, NEW h \in Hosts, NEW s \in Slots(h)
    PROVE  /\ UNCHANGED host => SetHost(h, host[h])
           /\ UNCHANGED control => SetControl(h, control[h])
           /\ UNCHANGED view => SetView(h, s, view[h][s])
<1>1. /\ IsPerHost(host) /\ IsPerHost(control) /\ IsPerHost(view)
      /\ view[h] \in [Slots(h) -> Views]
  BY SlotHere DEF CInv, IInv, ViewsOK
<1>2. [view[h] EXCEPT ![s] = view[h][s]] = view[h]
  BY <1>1
<1> QED BY <1>1, <1>2 DEF IsPerHost, SetHost, SetControl, SetView

---------------------------------------------------------------------------
(* The peers a step leaves                                                    *)

\* A zombie that waits for dispatch.
LEMMA ZombiePeer ==
    ASSUME NEW peer, peer.state = ZOMBIE, peer.needsDispatch, NEW v, NEW r
    PROVE  SlotOK(peer, v, r)
  BY DEF SlotOK, Informed, Owed, Armed, DISCONNECTED, CONNECTING, ACKNOWLEDGING_CONNECT,
     CONNECTION_PENDING, CONNECTION_SUCCEEDED, CONNECTED, DISCONNECT_LATER, DISCONNECTING,
     ACKNOWLEDGING_DISCONNECT, ZOMBIE, Counted

\* A peer that was reset.
LEMMA FreedPeer ==
    ASSUME NEW peer, peer.state = DISCONNECTED, Bare(peer), NEW r,
           NEW v, v \notin {"open", "closing"}
    PROVE  SlotOK(peer, v, r)
  BY DEF SlotOK, Informed, Owed, Armed, Bare, DISCONNECTED, CONNECTING, ACKNOWLEDGING_CONNECT,
     CONNECTION_PENDING, CONNECTION_SUCCEEDED, CONNECTED, DISCONNECT_LATER, DISCONNECTING,
     ACKNOWLEDGING_DISCONNECT, ZOMBIE, Counted

\* A peer that is up, as its program knows.
LEMMA ConnectedPeer ==
    ASSUME NEW peer, peer.state = CONNECTED, NEW r,
           peer.dispatched = <<>> \/ peer.needsDispatch
    PROVE  SlotOK(peer, "open", r)
  BY DEF SlotOK, Informed, Owed, Armed, DISCONNECTED, CONNECTING, ACKNOWLEDGING_CONNECT,
     CONNECTION_PENDING, CONNECTION_SUCCEEDED, CONNECTED, DISCONNECT_LATER, DISCONNECTING,
     ACKNOWLEDGING_DISCONNECT, ZOMBIE, Counted

\* A peer on its way up that the program will be told of.
LEMMA PendingPeer ==
    ASSUME NEW peer, peer.state \in {CONNECTION_PENDING, CONNECTION_SUCCEEDED},
           peer.needsDispatch, peer.dispatched = <<>>, NEW r,
           NEW v, v \notin {"open", "closing"}
    PROVE  SlotOK(peer, v, r)
  BY DEF SlotOK, Informed, Owed, Armed, DISCONNECTED, CONNECTING, ACKNOWLEDGING_CONNECT,
     CONNECTION_PENDING, CONNECTION_SUCCEEDED, CONNECTED, DISCONNECT_LATER, DISCONNECTING,
     ACKNOWLEDGING_DISCONNECT, ZOMBIE, Counted

\* A peer that has sent its DISCONNECT.
LEMMA ClosingPeer ==
    ASSUME NEW peer, peer.state = DISCONNECTING, OnlyOf(peer, "DISCONNECT"), NEW r
    PROVE  SlotOK(peer, "closing", r)
  BY DEF SlotOK, Informed, Owed, Armed, DISCONNECTED, CONNECTING, ACKNOWLEDGING_CONNECT,
     CONNECTION_PENDING, CONNECTION_SUCCEEDED, CONNECTED, DISCONNECT_LATER, DISCONNECTING,
     ACKNOWLEDGING_DISCONNECT, ZOMBIE, Counted

\* A peer that is shaking hands, from one side or the other.
LEMMA ShakingPeer ==
    ASSUME NEW peer, peer.state \in {CONNECTING, ACKNOWLEDGING_CONNECT},
           peer.state = ACKNOWLEDGING_CONNECT => OnlyOf(peer, "VERIFY_CONNECT"),
           peer.dispatched = <<>>, NEW r,
           NEW v, v \notin {"open", "closing"}
    PROVE  SlotOK(peer, v, r)
  BY DEF SlotOK, Informed, Owed, Armed, DISCONNECTED, CONNECTING, ACKNOWLEDGING_CONNECT,
     CONNECTION_PENDING, CONNECTION_SUCCEEDED, CONNECTED, DISCONNECT_LATER, DISCONNECTING,
     ACKNOWLEDGING_DISCONNECT, ZOMBIE, Counted

\* A peer whose queues were emptied for a DISCONNECT and that is being reset.
LEMMA ResettingPeer ==
    ASSUME NEW old, NEW v, NEW w, NEW r, SlotOK(old, v, r), old.state # DISCONNECTED,
           w = v \/ (v \notin {"open", "closing"} /\ w \notin {"open", "closing"}),
           NEW peer, peer.state = old.state, peer.dispatched = <<>>
    PROVE  SlotOK(peer, w, TRUE)
  BY DEF SlotOK, Informed, Owed, Armed

\* A peer in order is in order while it is being reset.
LEMMA Weaker ==
    ASSUME NEW peer, NEW v, NEW r, SlotOK(peer, v, FALSE)
    PROVE  SlotOK(peer, v, r)
  BY DEF SlotOK, Owed, Armed

\* What the program knows, by the state of the peer.
LEMMA KnownByState ==
    ASSUME NEW peer, NEW v, NEW r, SlotOK(peer, v, r)
    PROVE  /\ peer.state \in {DISCONNECTED, CONNECTING, ACKNOWLEDGING_CONNECT,
                              CONNECTION_PENDING, CONNECTION_SUCCEEDED}
              => v \notin {"open", "closing"} /\ peer.dispatched = <<>>
           /\ peer.state = CONNECTED => v = "open"
           /\ peer.state \in {DISCONNECT_LATER, DISCONNECTING} => v = "closing"
           /\ peer.state = ACKNOWLEDGING_DISCONNECT => v \in {"open", "closing"}
           /\ peer.state = DISCONNECTED => peer.outgoingReliable = <<>>
                                           /\ peer.sentReliable = <<>>
  BY DEF SlotOK, Informed, Owed, Armed, DISCONNECTED, CONNECTING, ACKNOWLEDGING_CONNECT,
     CONNECTION_PENDING, CONNECTION_SUCCEEDED, CONNECTED, DISCONNECT_LATER, DISCONNECTING,
     ACKNOWLEDGING_DISCONNECT, ZOMBIE, Counted

\* What a peer that waits for the other side has queued, unless it is being reset.
LEMMA QueuedByState ==
    ASSUME NEW peer, NEW v, NEW r, SlotOK(peer, v, r), ~ r
    PROVE  /\ peer.state = ACKNOWLEDGING_CONNECT => OnlyOf(peer, "VERIFY_CONNECT")
           /\ peer.state = DISCONNECTING => OnlyOf(peer, "DISCONNECT")
           /\ peer.state = DISCONNECT_LATER => ~ NothingQueued(peer)
           /\ peer.state = ACKNOWLEDGING_DISCONNECT => AcksADisconnect(peer)
           /\ peer.state \in {CONNECTION_PENDING, CONNECTION_SUCCEEDED, ZOMBIE}
                 => peer.needsDispatch
           /\ peer.state = CONNECTED /\ peer.dispatched # <<>> => peer.needsDispatch
  BY DEF SlotOK, Owed, Armed

\* A peer that keeps its state and the queues that matter in it.
LEMMA SamePeer ==
    ASSUME NEW old, NEW v, NEW r, SlotOK(old, v, r),
           NEW peer, peer.state = old.state,
           \/ peer.dispatched = old.dispatched /\ peer.needsDispatch = old.needsDispatch
           \/ peer.needsDispatch /\ old.state \in Counted,
           peer.state = DISCONNECTED =>
              peer.outgoingReliable = <<>> /\ peer.sentReliable = <<>>,
           peer.state = ACKNOWLEDGING_CONNECT /\ OnlyOf(old, "VERIFY_CONNECT")
              => OnlyOf(peer, "VERIFY_CONNECT"),
           peer.state = DISCONNECTING /\ OnlyOf(old, "DISCONNECT")
              => OnlyOf(peer, "DISCONNECT"),
           ~ r /\ peer.state = DISCONNECT_LATER /\ ~ NothingQueued(old)
              => ~ NothingQueued(peer),
           ~ r /\ peer.state = ACKNOWLEDGING_DISCONNECT /\ AcksADisconnect(old)
              => AcksADisconnect(peer)
    PROVE  SlotOK(peer, v, r)
<1>1. Informed(peer.state, v)
  BY DEF SlotOK
<1>2. Owed(peer, r)
  BY DEF SlotOK, Owed, DISCONNECTED, CONNECTING, ACKNOWLEDGING_CONNECT,
     CONNECTION_PENDING, CONNECTION_SUCCEEDED, CONNECTED, DISCONNECT_LATER, DISCONNECTING,
     ACKNOWLEDGING_DISCONNECT, ZOMBIE, Counted
<1>3. Armed(peer, r)
  BY DEF SlotOK, Armed
<1> QED BY <1>1, <1>2, <1>3 DEF SlotOK

---------------------------------------------------------------------------
(* The calls of the program                                                   *)

SlotsKept == SlotsOK' /\ ResetOnly' /\ MeaningKept

\* The controls a call leaves.
LEMMA ResetsOf ==
    /\ Idle.reset = NoPeer /\ Idle.phase = "app" /\ Resets(Idle)
    /\ \A s : FlushThenReset(s).reset = s /\ Resets(FlushThenReset(s))
  BY DEF Idle, FlushThenReset, Resets

\* Outside a flush no peer is being reset.
LEMMA NotResetting ==
    ASSUME CInv, NEW h \in Hosts, NEW s \in Slots(h),
           control[h].phase \notin {"flush", "flushed"}
    PROVE  control[h].reset = NoPeer /\ ~ BeingReset(h, s)
  BY SlotHere DEF Resets, BeingReset

\* A step that leaves the peers and what is known of them alone.
LEMMA HostStays ==
    ASSUME CInv, NEW h \in Hosts, UNCHANGED <<host, view>>, NEW c, SetControl(h, c),
           c.reset = control[h].reset, Resets(c)
    PROVE  SlotsKept
<1>1. 1 \in Slots(h)
  BY SlotCount
<1>2. /\ SetHost(h, host[h]) /\ SetView(h, 1, view[h][1])
      /\ SlotOK(Peer(h, 1), view[h][1], BeingReset(h, 1))
      /\ Peer(h, 1) = host[h].peers[1]
  BY <1>1, StaysSet, SlotHere
<1>3. Elsewhere(host[h], host[h], 1) /\ Means(Peer(h, 1), Peer(h, 1), view[h][1], view[h][1])
  BY DEF Elsewhere, Means, SameLink
<1>4. BeingReset(h, 1) = (c.reset = 1)
  BY DEF BeingReset
<1> QED BY <1>1, <1>2, <1>3, <1>4, SlotStep DEF SlotsKept

\* A step that changes a peer and leaves the control and what is known alone.
LEMMA PeerChanges ==
    ASSUME CInv, NEW h \in Hosts, NEW s \in Slots(h), UNCHANGED <<control, view>>,
           NEW G, SetHost(h, G), Elsewhere(host[h], G, s),
           SlotOK(G.peers[s], view[h][s], BeingReset(h, s)),
           SameLink(Peer(h, s), G.peers[s])
    PROVE  SlotsKept
<1>1. SetControl(h, control[h]) /\ SetView(h, s, view[h][s]) /\ Resets(control[h])
  BY StaysSet, SlotHere
<1>2. BeingReset(h, s) = (control[h].reset = s)
  BY DEF BeingReset
<1>3. Means(Peer(h, s), G.peers[s], view[h][s], view[h][s])
  BY DEF Means
<1> QED BY <1>1, <1>2, <1>3, SlotStep DEF SlotsKept

\* A reset gives the slot back, and the program knows.
LEMMA ResetFits ==
    ASSUME CInv, NEW h \in Hosts, NEW s \in Slots(h), NEW H, HostOK(PeerCount[h], H),
           Elsewhere(host[h], H, s), SetHost(h, Reset(H, s)),
           NEW c, SetControl(h, c), c.reset = NoPeer, control[h].reset \in {NoPeer, s},
           NEW v, SetView(h, s, v), v \notin {"open", "closing"},
           v = "free" \/ view[h][s] \notin {"open", "closing"}
    PROVE  SlotsKept
<1>1. /\ PeerCount[h] \in Nat /\ s \in 1 .. PeerCount[h] /\ HostOK(PeerCount[h], host[h])
      /\ H.peers[s] \in Peers
  BY SlotHere, HostShape
<1> DEFINE G == Reset(H, s)
<1>2. /\ HostOK(PeerCount[h], G) /\ Elsewhere(H, G, s)
      /\ G.peers[s] = Freed(H.peers[s]) /\ G.peers[s].state = DISCONNECTED
  BY <1>1, ResetEffect
<1> HIDE DEF G
<1>3. Elsewhere(host[h], G, s)
  BY <1>1, <1>2, ElsewhereTwice
<1>4. Bare(G.peers[s])
  BY <1>1, <1>2, BareAfterReset
<1>5. SlotOK(G.peers[s], v, c.reset = s)
  BY <1>2, <1>4, FreedPeer
<1>6. Means(Peer(h, s), G.peers[s], view[h][s], v) /\ Resets(c)
  BY DEF Means, Resets
<1>7. SetHost(h, G)
  BY DEF G
<1> QED BY <1>3, <1>5, <1>6, <1>7, SlotStep DEF SlotsKept

\* A new request takes a free slot, in whose queues nothing is left.
LEMMA ConnectFits ==
    ASSUME CInv, NEW h \in Hosts, NEW s \in Slots(h), NEW address \in Hosts,
           Connect(h, s, address)
    PROVE  SlotsKept
<1> DEFINE n == PeerCount[h]
           id == host[h].randomSeed + 1
           peer == [Peer(h, s) EXCEPT !.state = CONNECTING, !.channelCount = 1,
                                      !.address = address, !.connectID = id]
           D == [host[h] EXCEPT !.randomSeed = id]
           H == [D EXCEPT !.peers[s] = peer]
           c == ConnectCommand(H, s)
<1>1. /\ n \in Nat /\ s \in 1 .. n /\ HostOK(n, host[h])
      /\ Peer(h, s) \in Peers /\ Peer(h, s) = host[h].peers[s]
      /\ id \in Nat /\ host[h] \in HostRecords(n)
  BY HostHere DEF HostOK, CInv
<1>2. /\ SetHost(h, QueueOutgoing(H, s, c)) /\ SetView(h, s, "pending")
      /\ UNCHANGED control /\ InApp(h)
  BY DEF Connect, Peer, MayCall
<1>3. Peer(h, s).state = DISCONNECTED
  BY DEF Connect, IsFirstFree, FreeSlots
<1>4. /\ D \in HostRecords(n) /\ D.peers = host[h].peers
      /\ D.dispatchQueue = host[h].dispatchQueue
      /\ D.connectedPeers = host[h].connectedPeers
  BY <1>1 DEF HostRecords
<1> HIDE DEF D, id
<1>5. HostOK(n, D)
  BY <1>1, <1>4 DEF HostOK, CountExact, CountedSlots, QueueExact
<1>6. CONNECTING \in PeerStates
  BY DEF CONNECTING, PeerStates
<1>7. /\ peer \in Peers /\ peer.state = CONNECTING
      /\ peer.needsDispatch = Peer(h, s).needsDispatch
      /\ peer.dispatched = Peer(h, s).dispatched
  BY <1>1, <1>6 DEF Peers
<1>8. peer.state \in Counted <=> Peer(h, s).state \in Counted
  BY <1>3, <1>7 DEF Counted, CONNECTING, DISCONNECTED, CONNECTED, DISCONNECT_LATER
<1> HIDE DEF peer
<1>9. HostOK(n, H) /\ H.peers = [D.peers EXCEPT ![s] = peer]
  <2>1. HostOK(n, H)
    BY <1>1, <1>4, <1>5, <1>7, <1>8, PeerUpdated
  <2>2. H.peers = [D.peers EXCEPT ![s] = peer]
    BY <1>4 DEF HostRecords
  <2> QED BY <2>1, <2>2
<1>10. H.peers[s] = peer /\ Elsewhere(host[h], H, s)
  <2> HIDE DEF H
  <2>1. H.peers[s] = peer /\ Elsewhere(D, H, s)
    BY <1>1, <1>4, <1>9, ElsewhereOf
  <2> QED BY <1>4, <2>1 DEF Elsewhere
<1>11. c \in Commands
  <2>1. Command("CONNECT", ControlChannel, TRUE) \in Commands
    BY CommandType DEF CommandTypes
  <2> HIDE DEF H
  <2>2. /\ H.peers[s].connectID \in Nat
        /\ H.peers[s].incomingSessionID \in SessionIDs \cup {NoSession}
        /\ H.peers[s].outgoingSessionID \in SessionIDs \cup {NoSession}
    BY <1>7, <1>10 DEF Peers
  <2>3. s \in Nat
    BY <1>1
  <2> QED
    BY <2>1, <2>2, <2>3, HandshakeCommandType DEF ConnectCommand
<1> HIDE DEF c, H
<1> DEFINE G == QueueOutgoing(H, s, c)
<1>12. Elsewhere(H, G, s) /\ HostOK(n, G)
  BY <1>1, <1>9, <1>11, QueueOutgoingEffect, QueueOutgoingOK
<1>13. Elsewhere(host[h], G, s)
  BY <1>1, <1>9, <1>10, <1>12, ElsewhereTwice
<1>14. G.peers[s].state = CONNECTING /\ G.peers[s].dispatched = Peer(h, s).dispatched
  <2> DEFINE old == H.peers[s]
             new == G.peers[s]
  <2>0. HostOK(n, H) /\ old = H.peers[s] /\ new = QueueOutgoing(H, s, c).peers[s]
    BY <1>9
  <2> HIDE DEF old, new, n
  <2>1. new.state = old.state /\ new.dispatched = old.dispatched
    BY <1>1, <1>11, <2>0, QueueOutgoingPeer
  <2> QED BY <1>7, <1>10, <2>1 DEF old, new
<1>15. /\ Peer(h, s).dispatched = <<>> /\ view[h][s] \notin {"open", "closing"}
       /\ SetControl(h, control[h]) /\ Resets(control[h])
  BY <1>2, <1>3, SlotHere, KnownByState, StaysSet
<1> HIDE DEF G
<1>16. SlotOK(G.peers[s], "pending", control[h].reset = s)
  BY <1>14, <1>15, ShakingPeer DEF CONNECTING, ACKNOWLEDGING_CONNECT
<1>17. Means(Peer(h, s), G.peers[s], view[h][s], "pending")
  BY <1>15 DEF Means
<1>18. SetHost(h, G)
  BY <1>2 DEF G
<1> QED BY <1>2, <1>13, <1>15, <1>16, <1>17, <1>18, SlotStep DEF SlotsKept

\* A packet sent to a connected peer.
LEMMA SendFits ==
    ASSUME CInv, NEW h \in Hosts, NEW s \in Slots(h),
           SendReliable(h, s) \/ SendUnreliable(h, s)
    PROVE  SlotsKept
<1>1. PICK c \in Commands : SetHost(h, QueueOutgoing(host[h], s, c))
  BY CommandType DEF CommandTypes, SendReliable, SendUnreliable
<1>2. Peer(h, s).state = CONNECTED /\ UNCHANGED <<control, view>>
  BY DEF SendReliable, SendUnreliable, history
<1>3. /\ PeerCount[h] \in Nat /\ s \in 1 .. PeerCount[h] /\ HostOK(PeerCount[h], host[h])
      /\ Peer(h, s) = host[h].peers[s]
      /\ SlotOK(Peer(h, s), view[h][s], BeingReset(h, s))
  BY SlotHere
<1> DEFINE G == QueueOutgoing(host[h], s, c)
           new == G.peers[s]
<1>4. Elsewhere(host[h], G, s)
  BY <1>3, QueueOutgoingEffect
<1>5. /\ new.state = Peer(h, s).state /\ SameLink(Peer(h, s), new)
      /\ new.needsDispatch = Peer(h, s).needsDispatch
      /\ new.dispatched = Peer(h, s).dispatched
  BY <1>3, QueueOutgoingPeer
<1>6. SetHost(h, G)
  BY <1>1
<1> HIDE DEF G
<1>7. SlotOK(new, view[h][s], BeingReset(h, s))
  BY <1>2, <1>3, <1>5, SamePeer DEF DISCONNECTED, CONNECTED, ACKNOWLEDGING_CONNECT,
     DISCONNECTING, DISCONNECT_LATER, ACKNOWLEDGING_DISCONNECT
<1> QED BY <1>2, <1>4, <1>5, <1>6, <1>7, PeerChanges

\* A call of enet_peer_disconnect.
LEMMA DisconnectFits ==
    ASSUME CInv, NEW h \in Hosts, NEW s \in Slots(h), DisconnectPeer(h, s)
    PROVE  SlotsKept
<1> DEFINE old == Peer(h, s)
           G == Disconnect(host[h], s)
           new == G.peers[s]
           counted == old.state \in Counted
           v == ViewAfterDisconnect(view[h][s])
           c == IF counted THEN Idle ELSE FlushThenReset(s)
<1>1. /\ old.state \notin NoDisconnectFrom /\ SetHost(h, G) /\ SetControl(h, c)
      /\ SetView(h, s, v) /\ control[h].phase = "app"
  BY DEF DisconnectPeer, MayCall, InApp
<1>2. /\ PeerCount[h] \in Nat /\ s \in 1 .. PeerCount[h] /\ HostOK(PeerCount[h], host[h])
      /\ old = host[h].peers[s] /\ old \in Peers /\ view[h][s] \in Views
      /\ SlotOK(old, view[h][s], BeingReset(h, s)) /\ s # NoPeer
  BY SlotHere
<1>3. /\ Elsewhere(host[h], G, s)
      /\ new.state = IF counted THEN DISCONNECTING ELSE old.state
  BY <1>2, DisconnectEffect
<1>4. /\ SameLink(old, new) /\ new.dispatched = <<>>
      /\ counted => OnlyOf(new, "DISCONNECT")
  BY <1>1, <1>2, DisconnectPeerEffect
<1>5. control[h].reset = NoPeer
  BY <1>1, NotResetting
<1>6. c.reset \in {NoPeer, s} /\ Resets(c) /\ (~ counted => c.reset = s)
  BY ResetsOf
<1> HIDE DEF G, c
<1>7. CASE counted
  <2>1. v = "closing"
    <3>1. view[h][s] \in {"open", "closing"}
      BY <1>2, <1>7, KnownByState DEF Counted
    <3> QED BY <3>1 DEF ViewAfterDisconnect
  <2>2. SlotOK(new, v, c.reset = s)
    BY <1>3, <1>4, <1>7, <2>1, ClosingPeer
  <2>3. Means(old, new, view[h][s], v)
    BY <1>4 DEF Means
  <2> QED BY <1>1, <1>3, <1>5, <1>6, <2>2, <2>3, SlotStep DEF SlotsKept
<1>8. CASE ~ counted
  <2>1. /\ v = view[h][s] \/ (view[h][s] \notin {"open", "closing"}
                             /\ v \notin {"open", "closing"})
        /\ old.state # DISCONNECTED
    <3>1. old.state # DISCONNECTED
      BY <1>1 DEF NoDisconnectFrom
    <3>2. old.state \in {CONNECTING, ACKNOWLEDGING_CONNECT,
                         CONNECTION_PENDING, CONNECTION_SUCCEEDED}
      BY <1>1, <1>2, <1>8 DEF NoDisconnectFrom, Counted, Peers, PeerStates, DISCONNECTED,
         CONNECTING, ACKNOWLEDGING_CONNECT, CONNECTION_PENDING, CONNECTION_SUCCEEDED,
         CONNECTED, DISCONNECT_LATER, DISCONNECTING, ACKNOWLEDGING_DISCONNECT, ZOMBIE
    <3>3. view[h][s] \notin {"open", "closing"}
      BY <1>2, <3>2, KnownByState
    <3> QED BY <1>2, <3>1, <3>3 DEF ViewAfterDisconnect, Views
  <2>2. new.state = old.state
    BY <1>3, <1>8
  <2> HIDE DEF new, v, old
  <2>3. SlotOK(new, v, TRUE)
    BY <1>2, <1>4, <2>1, <2>2, ResettingPeer
  <2>4. Means(old, new, view[h][s], v)
    BY <1>4 DEF Means
  <2>5. SlotOK(new, v, c.reset = s)
    BY <1>6, <1>8, <2>3
  <2> QED BY <1>1, <1>3, <1>5, <1>6, <2>4, <2>5, SlotStep DEF SlotsKept, new, v, old
<1> QED BY <1>7, <1>8

\* A peer that is to be disconnected later has something to send first.
LEMMA DisconnectLaterFits ==
    ASSUME CInv, NEW h \in Hosts, NEW s \in Slots(h), DisconnectPeerLater(h, s)
    PROVE  SlotsKept
<1> DEFINE old == Peer(h, s)
           new == [old EXCEPT !.state = DISCONNECT_LATER]
           G == [host[h] EXCEPT !.peers[s] = new]
           v == ViewAfterDisconnect(view[h][s])
<1>1. /\ PeerCount[h] \in Nat /\ s \in 1 .. PeerCount[h] /\ HostOK(PeerCount[h], host[h])
      /\ old = host[h].peers[s] /\ old \in Peers /\ IsPerHost(host)
      /\ SlotOK(old, view[h][s], BeingReset(h, s)) /\ Resets(control[h])
  BY SlotHere
<1>2. /\ old.state \in Counted /\ ~ NothingQueued(old) /\ SetView(h, s, v)
      /\ UNCHANGED control /\ InApp(h)
  BY DEF DisconnectPeerLater, MayCall
<1>3. SetHost(h, G)
  BY <1>1 DEF DisconnectPeerLater, IsPerHost, SetHost, Peer
<1>4. /\ new.state = DISCONNECT_LATER /\ SameLink(old, new)
      /\ ~ NothingQueued(new)
  BY <1>1, <1>2 DEF Peers, SameLink, NothingQueued
<1>5. G.peers = [host[h].peers EXCEPT ![s] = new] /\ host[h] \in HostRecords(PeerCount[h])
  BY <1>1, HostShape DEF HostRecords
<1> HIDE DEF G, new, old
<1>6. Elsewhere(host[h], G, s) /\ G.peers[s] = new
  <2>1. PeerCount[h] \in Nat /\ s \in 1 .. PeerCount[h]
    BY <1>1
  <2> QED BY <1>5, <2>1, ElsewhereOf, SMTT(30)
<1>7. view[h][s] \in {"open", "closing"}
  BY <1>1, <1>2, KnownByState DEF Counted
<1>8. v = "closing"
  BY <1>7 DEF ViewAfterDisconnect
<1>9. SetControl(h, control[h]) /\ Means(old, new, view[h][s], v)
  BY <1>2, <1>4, StaysSet DEF Means
<1>10. SlotOK(new, v, control[h].reset = s)
  BY <1>4, <1>8 DEF SlotOK, Informed, Owed, Armed, DISCONNECTED, CONNECTING,
     ACKNOWLEDGING_CONNECT, CONNECTION_PENDING, CONNECTION_SUCCEEDED, CONNECTED,
     DISCONNECT_LATER, DISCONNECTING, ACKNOWLEDGING_DISCONNECT, ZOMBIE, Counted
<1> QED BY <1>1, <1>2, <1>3, <1>6, <1>9, <1>10, SlotStep DEF SlotsKept, old

\* A call of enet_peer_reset.
LEMMA ResetCallFits ==
    ASSUME CInv, NEW h \in Hosts, NEW s \in Slots(h), InApp(h), UNCHANGED control,
           SetHost(h, Reset(host[h], s)), SetView(h, s, "free")
    PROVE  SlotsKept
<1>1. HostOK(PeerCount[h], host[h]) /\ control[h].reset = NoPeer
      /\ SetControl(h, control[h])
  BY SlotHere, NotResetting, StaysSet DEF InApp
<1>2. Elsewhere(host[h], host[h], s)
  BY DEF Elsewhere
<1> QED BY <1>1, <1>2, ResetFits

\* A call of enet_peer_disconnect_now: the peer is reset now or after the flush.
LEMMA DisconnectNowFits ==
    ASSUME CInv, NEW h \in Hosts, NEW s \in Slots(h), DisconnectPeerNow(h, s)
    PROVE  SlotsKept
<1>1. CASE Peer(h, s).state \in {ZOMBIE, DISCONNECTING}
  BY <1>1, ResetCallFits DEF DisconnectPeerNow, MayCall
<1>2. CASE Peer(h, s).state \notin {ZOMBIE, DISCONNECTING}
  <2> DEFINE old == Peer(h, s)
             G == DisconnectNow(host[h], s)
             new == G.peers[s]
             c == FlushThenReset(s)
  <2>1. /\ old.state # DISCONNECTED /\ SetHost(h, G) /\ SetControl(h, c)
        /\ UNCHANGED view /\ control[h].phase = "app"
    BY <1>2 DEF DisconnectPeerNow, MayCall, InApp
  <2>2. /\ PeerCount[h] \in Nat /\ s \in 1 .. PeerCount[h] /\ HostOK(PeerCount[h], host[h])
        /\ old = host[h].peers[s] /\ SlotOK(old, view[h][s], BeingReset(h, s))
    BY SlotHere
  <2> DEFINE reliable == FALSE
  <2>a. /\ G = QueueOutgoing(ResetQueues(host[h], s), s,
                   Command("DISCONNECT", ControlChannel, reliable))
        /\ reliable \in BOOLEAN
    BY DEF DisconnectNow
  <2> HIDE DEF G, reliable
  <2>b. new = G.peers[s]
    OBVIOUS
  <2> HIDE DEF new, old
  <2>3. /\ Elsewhere(host[h], G, s) /\ new.state = old.state
        /\ SameLink(old, new) /\ new.dispatched = <<>>
    BY <2>2, <2>a, <2>b, DisconnectQueued
  <2>4. c.reset = s /\ Resets(c) /\ control[h].reset = NoPeer
    BY <2>1, ResetsOf, NotResetting
  <2>5. SetView(h, s, view[h][s])
    BY <2>1, StaysSet
  <2> HIDE DEF c
  <2>6. SlotOK(new, view[h][s], TRUE)
    BY <2>1, <2>2, <2>3 DEF SlotOK, Informed, Owed, Armed
  <2>7. SlotOK(new, view[h][s], c.reset = s)
    BY <2>4, <2>6
  <2>8. Means(old, new, view[h][s], view[h][s])
    BY <2>3 DEF Means
  <2> QED BY <2>1, <2>3, <2>4, <2>5, <2>7, <2>8, <2>b, SlotStep DEF SlotsKept, old
<1> QED BY <1>1, <1>2

\* The calls that change no peer.
LEMMA OtherCallsFit ==
    ASSUME CInv, NEW h \in Hosts, Flush(h) \/ Service(h) \/ CheckEvents(h)
    PROVE  SlotsKept
<1>1. UNCHANGED <<host, view>> /\ control[h].phase = "app"
  BY DEF Flush, Service, CheckEvents, MayCall, InApp, history
<1>2. control[h].reset = NoPeer
  <2>1. 1 \in Slots(h)
    BY SlotCount
  <2> QED BY <1>1, <2>1, NotResetting
<1>3. PICK c : SetControl(h, c) /\ c.reset = NoPeer
  <2>1. CASE Flush(h)
    BY <2>1, ResetsOf DEF Flush
  <2>2. CASE Service(h)
    <3>1. PICK event \in ServiceModes :
             SetControl(h, [Idle EXCEPT !.phase = IF event THEN "dispatch" ELSE "send",
                                        !.event = event])
      BY <2>2 DEF Service
    <3> DEFINE c == [Idle EXCEPT !.phase = IF event THEN "dispatch" ELSE "send",
                                 !.event = event]
    <3>2. c.reset = NoPeer
      BY DEF Idle
    <3>3. SetControl(h, c)
      BY <3>1
    <3> HIDE DEF c
    <3> QED BY <3>2, <3>3
  <2>3. CASE CheckEvents(h)
    <3> DEFINE c == [Idle EXCEPT !.phase = "redispatch", !.event = TRUE]
    <3>1. SetControl(h, c)
      BY <2>3 DEF CheckEvents
    <3>2. c.reset = NoPeer
      BY DEF Idle
    <3> HIDE DEF c
    <3> QED BY <3>1, <3>2
  <2> QED BY <2>1, <2>2, <2>3
<1> QED BY <1>1, <1>2, <1>3, HostStays DEF Resets

---------------------------------------------------------------------------
(* The dispatch pass                                                          *)

\* The peer that left the head of the dispatch queue.
LEMMA PoppedPeer ==
    ASSUME CInv, NEW h \in Hosts, NEW s \in Slots(h), NEW states, AtHead(h, s, states),
           NEW old, old = Peer(h, s), NEW P, P = Popped(host[h]), NEW new, new = P.peers[s]
    PROVE  /\ PeerCount[h] \in Nat /\ s \in 1 .. PeerCount[h]
           /\ HostOK(PeerCount[h], host[h]) /\ HostOK(PeerCount[h], P)
           /\ Elsewhere(host[h], P, s) /\ control[h].reset = NoPeer
           /\ ~ BeingReset(h, s)
           /\ old.state \in states /\ new.state = old.state /\ SameLink(old, new)
           /\ new.dispatched = old.dispatched /\ new \in Peers
           /\ new.outgoingReliable = old.outgoingReliable
           /\ new.outgoingUnreliable = old.outgoingUnreliable
           /\ new.sentReliable = old.sentReliable
           /\ new.acknowledgements = old.acknowledgements
<1> DEFINE peer == [old EXCEPT !.needsDispatch = FALSE]
<1>1. /\ PeerCount[h] \in Nat /\ s \in 1 .. PeerCount[h]
      /\ HostOK(PeerCount[h], host[h]) /\ old \in Peers /\ old = host[h].peers[s]
      /\ host[h] \in HostRecords(PeerCount[h])
  BY SlotHere, HostShape
<1>2. /\ HostOK(PeerCount[h], P) /\ P.peers = [host[h].peers EXCEPT ![s] = peer]
  BY <1>1, HeadPopped DEF CInv
<1>3. /\ peer.state = old.state /\ SameLink(old, peer)
      /\ peer.dispatched = old.dispatched /\ peer \in Peers
      /\ peer.outgoingReliable = old.outgoingReliable
      /\ peer.outgoingUnreliable = old.outgoingUnreliable
      /\ peer.sentReliable = old.sentReliable
      /\ peer.acknowledgements = old.acknowledgements
  BY <1>1 DEF Peers, SameLink
<1> HIDE DEF peer
<1>4. Elsewhere(host[h], P, s) /\ new = peer
  BY <1>1, <1>2, ElsewhereOf
<1>5. /\ old.state \in states /\ control[h].phase \notin {"flush", "flushed"}
  BY DEF AtHead, Dispatching
<1>6. control[h].reset = NoPeer /\ ~ BeingReset(h, s)
  BY <1>5, NotResetting
<1> QED BY <1>1, <1>2, <1>3, <1>4, <1>5, <1>6

\* The program is told of a connection: nothing was delivered before.
LEMMA DispatchConnectFits ==
    ASSUME CInv, NEW h \in Hosts, NEW s \in Slots(h), DispatchConnect(h, s)
    PROVE  SlotsKept
<1> DEFINE old == Peer(h, s)
           P == Popped(host[h])
           mid == P.peers[s]
           G == ChangeState(P, s, CONNECTED)
           new == G.peers[s]
<1>1. /\ AtHead(h, s, {CONNECTION_PENDING, CONNECTION_SUCCEEDED})
      /\ SetHost(h, G) /\ SetControl(h, Idle) /\ SetView(h, s, "open")
  BY DEF DispatchConnect
<1>a. /\ AtHead(h, s, {CONNECTION_PENDING, CONNECTION_SUCCEEDED})
      /\ old = Peer(h, s) /\ P = Popped(host[h]) /\ mid = P.peers[s]
  BY <1>1
<1> HIDE DEF P, mid, old
<1>2. /\ PeerCount[h] \in Nat /\ s \in 1 .. PeerCount[h] /\ mid \in Peers
      /\ HostOK(PeerCount[h], host[h]) /\ HostOK(PeerCount[h], P)
      /\ Elsewhere(host[h], P, s) /\ control[h].reset = NoPeer
      /\ old.state \in {CONNECTION_PENDING, CONNECTION_SUCCEEDED}
      /\ mid.dispatched = old.dispatched
  BY <1>a, PoppedPeer
<1>3. SlotOK(old, view[h][s], BeingReset(h, s))
  BY <1>a, SlotHere
<1>4. old.dispatched = <<>> /\ view[h][s] \notin {"open", "closing"}
  BY <1>2, <1>3, KnownByState
<1>5. /\ Elsewhere(P, G, s) /\ new.state = CONNECTED
      /\ new = [mid EXCEPT !.state = CONNECTED]
  <2>1. CONNECTED \in PeerStates
    BY DEF CONNECTED, PeerStates
  <2> QED BY <1>2, <2>1, ChangeStateEffect DEF mid
<1> HIDE DEF G, new
<1>6. Elsewhere(host[h], G, s)
  BY <1>2, <1>5, ElsewhereTwice
<1>7. new.dispatched = <<>>
  BY <1>2, <1>4, <1>5 DEF Peers
<1>8. SlotOK(new, "open", FALSE)
  BY <1>5, <1>7, ConnectedPeer
<1>9. Means(old, new, view[h][s], "open")
  BY <1>4 DEF Means
<1>10. Idle.reset = NoPeer /\ Resets(Idle) /\ (Idle.reset = s) = FALSE
  BY ResetsOf, SlotHere
<1> QED BY <1>1, <1>2, <1>6, <1>8, <1>9, <1>10, SlotStep DEF SlotsKept, new, old

\* The program is told that a connection is gone.
LEMMA DispatchDisconnectFits ==
    ASSUME CInv, NEW h \in Hosts, NEW s \in Slots(h), DispatchDisconnect(h, s)
    PROVE  SlotsKept
<1> DEFINE P == Popped(host[h])
<1>1. /\ AtHead(h, s, {ZOMBIE}) /\ SetHost(h, Reset(P, s)) /\ SetControl(h, Idle)
      /\ SetView(h, s, "free")
  BY DEF DispatchDisconnect
<1>2. HostOK(PeerCount[h], P) /\ Elsewhere(host[h], P, s) /\ control[h].reset = NoPeer
  BY <1>1, PoppedPeer
<1> HIDE DEF P
<1> QED BY <1>1, <1>2, ResetFits, ResetsOf

\* A packet is delivered; a peer with more of them waits again.
LEMMA DispatchReceiveFits ==
    ASSUME CInv, NEW h \in Hosts, NEW s \in Slots(h), DispatchReceive(h, s)
    PROVE  SlotsKept
<1> DEFINE n == PeerCount[h]
           old == Peer(h, s)
           P == Popped(host[h])
           mid == P.peers[s]
           rest == Tail(mid.dispatched)
           peer == [mid EXCEPT !.dispatched = rest]
           T == [P EXCEPT !.peers[s] = peer]
           G == IF T.peers[s].dispatched = <<>> THEN T ELSE EnterDispatchQueue(T, s)
           new == G.peers[s]
<1>1. /\ AtHead(h, s, {CONNECTED}) /\ SetControl(h, Idle) /\ UNCHANGED view
      /\ old.dispatched # <<>> /\ SetHost(h, G)
  BY DEF DispatchReceive, Taken
<1>a. /\ AtHead(h, s, {CONNECTED})
      /\ old = Peer(h, s) /\ P = Popped(host[h]) /\ mid = P.peers[s]
  BY <1>1
<1> HIDE DEF P, mid, old
<1>2. /\ n \in Nat /\ s \in 1 .. n /\ mid \in Peers
      /\ HostOK(n, host[h]) /\ HostOK(n, P)
      /\ Elsewhere(host[h], P, s) /\ control[h].reset = NoPeer
      /\ old.state \in {CONNECTED} /\ mid.state = old.state /\ SameLink(old, mid)
      /\ mid.dispatched = old.dispatched
  BY <1>a, PoppedPeer
<1>3. rest \in Seq(Nat)
  <2>1. mid.dispatched \in Seq(Nat)
    BY <1>2 DEF Peers
  <2> QED BY <2>1, <1>1, <1>2, HeadTailProperties
<1> HIDE DEF rest
<1>4. /\ peer \in Peers /\ peer.state = CONNECTED /\ SameLink(old, peer)
      /\ peer.needsDispatch = mid.needsDispatch /\ peer.state = mid.state
  BY <1>2, <1>3 DEF Peers, SameLink
<1> HIDE DEF peer
<1>5. HostOK(n, T)
  BY <1>2, <1>4, PeerUpdated DEF mid
<1>6. Elsewhere(P, T, s) /\ T.peers[s] = peer
  <2>1. T.peers = [P.peers EXCEPT ![s] = peer] /\ P \in HostRecords(n)
    BY <1>2, HostShape DEF HostRecords
  <2> HIDE DEF T
  <2> QED BY <1>2, <2>1, ElsewhereOf, SMTT(30)
<1> HIDE DEF T
<1>7. Elsewhere(host[h], T, s)
  BY <1>2, <1>6, ElsewhereTwice
<1> DEFINE E == EnterDispatchQueue(T, s)
<1>8. /\ Elsewhere(T, E, s) /\ E.peers[s] = [peer EXCEPT !.needsDispatch = TRUE]
      /\ E.peers[s].needsDispatch = TRUE /\ E.peers[s].state = CONNECTED
  <2>0. n \in Nat /\ s \in 1 .. n
    BY <1>2
  <2>1. /\ Elsewhere(T, EnterDispatchQueue(T, s), s)
        /\ EnterDispatchQueue(T, s).peers[s] = [T.peers[s] EXCEPT !.needsDispatch = TRUE]
        /\ EnterDispatchQueue(T, s).peers[s].state = T.peers[s].state
        /\ EnterDispatchQueue(T, s).peers[s].needsDispatch = TRUE
    BY <2>0, <1>5, EnterDispatchQueueEffect
  <2> QED BY <1>4, <1>6, <2>1
<1>9. Elsewhere(host[h], E, s)
  BY <1>2, <1>5, <1>7, <1>8, ElsewhereTwice
<1> HIDE DEF E
<1>10. SameLink(old, E.peers[s])
  BY <1>4, <1>8 DEF Peers, SameLink
<1>11. G = IF peer.dispatched = <<>> THEN T ELSE E
  BY <1>6 DEF E
<1> HIDE DEF G
<1>12. /\ Elsewhere(host[h], G, s) /\ new.state = CONNECTED /\ SameLink(old, new)
       /\ new.dispatched = <<>> \/ new.needsDispatch
  BY <1>4, <1>6, <1>7, <1>8, <1>9, <1>10, <1>11
<1>13. view[h][s] = "open" /\ SetView(h, s, view[h][s])
  <2>1. SlotOK(old, view[h][s], BeingReset(h, s)) /\ SetView(h, s, view[h][s])
    BY <1>a, <1>1, SlotHere, StaysSet
  <2> QED BY <1>2, <2>1, KnownByState
<1> HIDE DEF new
<1>14. SlotOK(new, view[h][s], Idle.reset = s)
  BY <1>12, <1>13, ConnectedPeer
<1>15. Means(old, new, view[h][s], view[h][s]) /\ Idle.reset = NoPeer /\ Resets(Idle)
  BY <1>12, ResetsOf DEF Means
<1> QED BY <1>1, <1>2, <1>12, <1>13, <1>14, <1>15, SlotStep DEF SlotsKept, new, old

\* A peer with nothing to say leaves the queue: it owes no event.
LEMMA DispatchNothingFits ==
    ASSUME CInv, NEW h \in Hosts, NEW s \in Slots(h), DispatchNothing(h, s)
    PROVE  SlotsKept
<1> DEFINE old == Peer(h, s)
           P == Popped(host[h])
           new == P.peers[s]
           idle == PeerStates \ {CONNECTION_PENDING, CONNECTION_SUCCEEDED, ZOMBIE}
<1>1. /\ AtHead(h, s, idle) /\ SetHost(h, P) /\ UNCHANGED <<control, view>>
      /\ old.state = CONNECTED => old.dispatched = <<>>
  BY DEF DispatchNothing, history
<1>a. old = Peer(h, s) /\ P = Popped(host[h]) /\ new = P.peers[s] /\ AtHead(h, s, idle)
  BY <1>1
<1> HIDE DEF P, new, old, idle
<1>2. /\ Elsewhere(host[h], P, s) /\ ~ BeingReset(h, s)
      /\ old.state \in idle /\ new.state = old.state /\ SameLink(old, new)
      /\ new.dispatched = old.dispatched
      /\ new.outgoingReliable = old.outgoingReliable
      /\ new.outgoingUnreliable = old.outgoingUnreliable
      /\ new.sentReliable = old.sentReliable
      /\ new.acknowledgements = old.acknowledgements
  BY <1>a, PoppedPeer
<1>3. SlotOK(old, view[h][s], BeingReset(h, s))
  BY <1>a, SlotHere
<1>4. Informed(new.state, view[h][s]) /\ Armed(new, FALSE)
  <2> DEFINE r == BeingReset(h, s)
  <2>1. SlotOK(old, view[h][s], r) /\ ~ r
    BY <1>2, <1>3
  <2> HIDE DEF r
  <2> QED BY <1>2, <2>1 DEF SlotOK, Armed, OnlyOf, NothingQueued, AcksADisconnect
<1>5. Owed(new, FALSE)
  <2> DEFINE r == BeingReset(h, s)
  <2>1. SlotOK(old, view[h][s], r)
    BY <1>3
  <2> HIDE DEF r
  <2> QED BY <1>1, <1>2, <2>1 DEF SlotOK, Owed, idle
<1>6. SlotOK(new, view[h][s], FALSE)
  BY <1>4, <1>5 DEF SlotOK
<1>7. SlotOK(new, view[h][s], BeingReset(h, s))
  BY <1>6, Weaker
<1> QED BY <1>1, <1>2, <1>7, PeerChanges DEF new, old

\* The dispatch pass ends.
LEMMA DispatchDoneFits ==
    ASSUME CInv, NEW h \in Hosts, DispatchDone(h)
    PROVE  SlotsKept
<1> DEFINE c == IF control[h].phase = "dispatch" THEN [control[h] EXCEPT !.phase = "send"]
                ELSE Idle
<1>1. UNCHANGED <<host, view>> /\ SetControl(h, c) /\ Dispatching(h)
  BY DEF DispatchDone, history
<1>2. control[h] \in Controls(h) /\ 1 \in Slots(h)
  BY SlotCount DEF CInv, IInv, ControlsOK, ControlOK
<1>3. control[h].reset = NoPeer
  BY <1>1, <1>2, NotResetting DEF Dispatching
<1>4. c.reset = NoPeer
  BY <1>2, <1>3, ResetsOf DEF Controls
<1> HIDE DEF c
<1> QED BY <1>1, <1>3, <1>4, HostStays DEF Resets

---------------------------------------------------------------------------
(* The send pass                                                              *)

\* The send pass goes on: the peer that is being reset stays the same.
LEMMA NextSlotFits ==
    ASSUME CInv, NEW h \in Hosts, Sending(h), NextSlot(h)
    PROVE  \E c : SetControl(h, c) /\ c.reset = control[h].reset /\ Resets(c)
<1> DEFINE c == control[h]
           phase == AfterPass(c)
           onward == [c EXCEPT !.slot = @ + 1]
           after == [c EXCEPT !.slot = 1, !.phase = phase]
<1>1. c \in Controls(h) /\ Resets(c) /\ c.phase \in {"send", "resend", "flush"}
      /\ c.slot \in Nat /\ PeerCount[h] \in Nat
  <2>1. c \in Controls(h) /\ PeerCount[h] \in Nat
    BY SlotCount DEF CInv, IInv, ControlsOK, ControlOK
  <2>2. c.slot \in 1 .. PeerCount[h]
    BY <2>1 DEF Controls
  <2> QED BY <2>1, <2>2 DEF CInv, ResetOnly, Sending
<1>2. /\ c.phase = "flush" => phase = "flushed"
      /\ c.phase # "flush" => c.reset = NoPeer
  BY <1>1 DEF AfterPass, Resets
<1>3. \/ SetControl(h, onward)
      \/ SetControl(h, Idle) /\ phase = "app"
      \/ SetControl(h, after)
  BY <1>1 DEF NextSlot
<1> HIDE DEF phase
<1>4. /\ onward.reset = c.reset /\ onward.phase = c.phase
      /\ after.reset = c.reset /\ after.phase = phase
  BY <1>1 DEF Controls
<1>5. Resets(onward) /\ Resets(after)
  BY <1>1, <1>2, <1>4 DEF Resets
<1> HIDE DEF onward, after
<1>6. CASE SetControl(h, onward)
  BY <1>4, <1>5, <1>6
<1>7. CASE SetControl(h, after)
  BY <1>4, <1>5, <1>7
<1>8. CASE SetControl(h, Idle) /\ phase = "app"
  <2>1. c.reset = NoPeer
    BY <1>2, <1>8
  <2> QED BY <1>8, <2>1, ResetsOf
<1> QED BY <1>3, <1>6, <1>7, <1>8

\* The reset that follows the flush of a disconnection.
LEMMA FlushDoneFits ==
    ASSUME CInv, NEW h \in Hosts, FlushDone(h)
    PROVE  SlotsKept
<1> DEFINE s == control[h].reset
           v == IF view[h][s] = "aborting" THEN "aborting" ELSE "free"
<1>1. SetControl(h, Idle)
  BY DEF FlushDone
<1>2. CASE s = NoPeer
  <2>1. UNCHANGED <<host, view>>
    BY <1>2 DEF FlushDone
  <2> QED BY <1>1, <1>2, <2>1, HostStays, ResetsOf
<1>3. CASE s # NoPeer
  <2>1. s \in Slots(h)
    BY <1>3, SlotCount DEF CInv, IInv, ControlsOK, ControlOK, Controls, NoPeer
  <2>2. SetHost(h, Reset(host[h], s)) /\ SetView(h, s, v)
    BY <1>3 DEF FlushDone
  <2>3. v \notin {"open", "closing"} /\ (v = "free" \/ view[h][s] \notin {"open", "closing"})
    OBVIOUS
  <2>a. s = control[h].reset
    OBVIOUS
  <2> HIDE DEF v, s
  <2>4. HostOK(PeerCount[h], host[h]) /\ Elsewhere(host[h], host[h], s)
    BY <2>1, SlotHere DEF Elsewhere
  <2>5. control[h].reset \in {NoPeer, s} /\ Idle.reset = NoPeer
    BY <2>a, ResetsOf
  <2> QED BY <1>1, <2>1, <2>2, <2>3, <2>4, <2>5, ResetFits
<1> QED BY <1>2, <1>3

\* A slot the send pass skips.
LEMMA SendNothingFits ==
    ASSUME CInv, NEW h \in Hosts, NEW s \in Slots(h), SendNothing(h, s)
    PROVE  SlotsKept
<1>1. Sending(h) /\ NextSlot(h) /\ UNCHANGED <<host, view>>
  BY DEF SendNothing, history
<1>2. PICK c : SetControl(h, c) /\ c.reset = control[h].reset /\ Resets(c)
  BY <1>1, NextSlotFits
<1> QED BY <1>1, <1>2, HostStays

\* The acknowledgements leave their queue; that of a DISCONNECT makes a zombie.
LEMMA SendAcknowledgementsPeer ==
    ASSUME NEW n \in Nat, NEW H, HostOK(n, H), NEW s \in 1 .. n,
           NEW old, old = H.peers[s], NEW G, G = SendAcknowledgements(H, s),
           NEW new, new = G.peers[s]
    PROVE  /\ HostOK(n, G) /\ Elsewhere(H, G, s) /\ SameLink(old, new)
           /\ \/ AcksADisconnect(old) /\ new.state = ZOMBIE /\ new.needsDispatch
              \/ /\ ~ AcksADisconnect(old) /\ new.state = old.state
                 /\ new.needsDispatch = old.needsDispatch
           /\ new.dispatched = old.dispatched
           /\ new.outgoingReliable = old.outgoingReliable
           /\ new.outgoingUnreliable = old.outgoingUnreliable
           /\ new.sentReliable = old.sentReliable
<1> DEFINE peer == [old EXCEPT !.acknowledgements = <<>>]
           sent == [H EXCEPT !.peers[s] = peer]
           Z == DispatchState(sent, s, ZOMBIE)
           zombie == [peer EXCEPT !.state = ZOMBIE, !.needsDispatch = TRUE]
<1>1. H \in HostRecords(n) /\ old \in Peers
  BY HostShape
<1>2. <<>> \in Seq(Commands) /\ ZOMBIE \in PeerStates
  BY DEF ZOMBIE, PeerStates
<1>3. /\ peer \in Peers /\ peer.state = old.state /\ SameLink(old, peer)
      /\ peer.needsDispatch = old.needsDispatch
      /\ peer.dispatched = old.dispatched
      /\ peer.outgoingReliable = old.outgoingReliable
      /\ peer.outgoingUnreliable = old.outgoingUnreliable
      /\ peer.sentReliable = old.sentReliable
  BY <1>1, <1>2 DEF Peers, SameLink
<1>4. G = IF AcksADisconnect(old) THEN Z ELSE sent
  BY DEF SendAcknowledgements
<1> HIDE DEF peer
<1>5. HostOK(n, sent)
  BY <1>3, PeerUpdated
<1>6. Elsewhere(H, sent, s) /\ sent.peers[s] = peer
  <2>1. sent.peers = [H.peers EXCEPT ![s] = peer]
    BY <1>1 DEF HostRecords
  <2> HIDE DEF sent
  <2> QED BY <1>1, <2>1, ElsewhereOf
<1> HIDE DEF sent
<1>7. /\ HostOK(n, Z) /\ Elsewhere(sent, Z, s)
      /\ Z.peers[s] = [sent.peers[s] EXCEPT !.state = ZOMBIE, !.needsDispatch = TRUE]
  <2>1. HostOK(n, DispatchState(sent, s, ZOMBIE))
    BY <1>2, <1>5, DispatchStateOK
  <2>2. /\ Elsewhere(sent, DispatchState(sent, s, ZOMBIE), s)
        /\ DispatchState(sent, s, ZOMBIE).peers[s]
              = [sent.peers[s] EXCEPT !.state = ZOMBIE, !.needsDispatch = TRUE]
        /\ DispatchState(sent, s, ZOMBIE).peers[s].state = ZOMBIE
        /\ DispatchState(sent, s, ZOMBIE).peers[s].needsDispatch = TRUE
    BY <1>2, <1>5, DispatchStateEffect
  <2> QED BY <2>1, <2>2
<1> HIDE DEF Z
<1>8. Elsewhere(H, Z, s) /\ Z.peers[s] = zombie
  BY <1>5, <1>6, <1>7, ElsewhereTwice
<1>9. /\ zombie.state = ZOMBIE /\ zombie.needsDispatch /\ SameLink(peer, zombie)
      /\ zombie.dispatched = peer.dispatched
      /\ zombie.outgoingReliable = peer.outgoingReliable
      /\ zombie.outgoingUnreliable = peer.outgoingUnreliable
      /\ zombie.sentReliable = peer.sentReliable
  BY <1>3 DEF Peers, SameLink
<1> HIDE DEF zombie
<1>10. CASE AcksADisconnect(old)
  BY <1>3, <1>4, <1>7, <1>8, <1>9, <1>10 DEF SameLink
<1>11. CASE ~ AcksADisconnect(old)
  BY <1>3, <1>4, <1>5, <1>6, <1>11
<1> QED BY <1>10, <1>11

\* A peer made a zombie waits for dispatch, whatever it was and whatever is known of it.
LEMMA ZombieMade ==
    ASSUME NEW n \in Nat, NEW H, HostOK(n, H), NEW s \in 1 .. n, NEW v, NEW r,
           NEW G, G = DispatchState(H, s, ZOMBIE)
    PROVE  /\ HostOK(n, G) /\ Elsewhere(H, G, s) /\ SlotOK(G.peers[s], v, r)
           /\ SameLink(H.peers[s], G.peers[s])
<1>1. ZOMBIE \in PeerStates /\ H.peers[s] \in Peers
  BY HostShape DEF ZOMBIE, PeerStates
<1>2. HostOK(n, DispatchState(H, s, ZOMBIE))
  BY <1>1, DispatchStateOK
<1>3. /\ Elsewhere(H, DispatchState(H, s, ZOMBIE), s)
      /\ DispatchState(H, s, ZOMBIE).peers[s]
            = [H.peers[s] EXCEPT !.state = ZOMBIE, !.needsDispatch = TRUE]
      /\ DispatchState(H, s, ZOMBIE).peers[s].state = ZOMBIE
      /\ DispatchState(H, s, ZOMBIE).peers[s].needsDispatch = TRUE
  BY <1>1, DispatchStateEffect
<1> DEFINE new == G.peers[s]
<1>4. /\ new.state = ZOMBIE /\ new.needsDispatch
      /\ new = [H.peers[s] EXCEPT !.state = ZOMBIE, !.needsDispatch = TRUE]
  BY <1>3
<1> HIDE DEF new
<1>5. SlotOK(new, v, r)
  BY <1>4, ZombiePeer
<1>6. SameLink(H.peers[s], new)
  BY <1>1, <1>4 DEF Peers, SameLink
<1> QED BY <1>2, <1>3, <1>5, <1>6 DEF new

\* A peer is given up: the program is told now, later, or never knew of it.
LEMMA GiveUpFits ==
    ASSUME CInv, NEW h \in Hosts, NEW s \in Slots(h), GiveUp(h, s)
    PROVE  SlotsKept
<1> DEFINE n == PeerCount[h]
           old == Peer(h, s)
           H == SendAcknowledgements(host[h], s)
           mid == H.peers[s]
           event == control[h].event
           G == NotifyDisconnect(H, s, event)
           reported == event /\ ~ LostSilently(mid)
<1>1. /\ Sending(h) /\ control[h].phase # "flush" /\ SetHost(h, G)
      /\ IF reported THEN SetControl(h, Idle) /\ SetView(h, s, "free")
         ELSE NextSlot(h) /\ UNCHANGED view
  BY DEF GiveUp
<1>2. /\ n \in Nat /\ s \in 1 .. n /\ HostOK(n, host[h]) /\ old = host[h].peers[s]
      /\ SlotOK(old, view[h][s], BeingReset(h, s)) /\ old \in Peers
  BY SlotHere
<1>3. control[h].reset = NoPeer
  BY <1>1, NotResetting DEF Sending
<1>4. /\ HostOK(n, H) /\ Elsewhere(host[h], H, s) /\ SameLink(old, mid)
      /\ mid.state = ZOMBIE \/ mid.state = old.state
  BY <1>2, SendAcknowledgementsPeer
<1>5. G = IF LostSilently(mid) \/ event THEN Reset(H, s) ELSE DispatchState(H, s, ZOMBIE)
  BY DEF NotifyDisconnect
<1> HIDE DEF H, event, n
<1>6. CASE reported
  <2>1. SetHost(h, Reset(H, s)) /\ SetControl(h, Idle) /\ SetView(h, s, "free")
    BY <1>1, <1>5, <1>6
  <2> QED BY <1>3, <1>4, <2>1, ResetFits, ResetsOf DEF n
<1>7. CASE ~ reported
  <2>1. PICK c : SetControl(h, c) /\ c.reset = NoPeer /\ Resets(c)
    BY <1>1, <1>3, <1>7, NextSlotFits
  <2>2. SetView(h, s, view[h][s])
    BY <1>1, <1>7, StaysSet
  <2>3. CASE LostSilently(mid)
    <3>1. SetHost(h, Reset(H, s))
      BY <1>1, <1>5, <2>3
    <3>2. view[h][s] \notin {"open", "closing"}
      <4>1. old.state \in {DISCONNECTED, ACKNOWLEDGING_CONNECT, CONNECTION_PENDING}
        <5>1. old.state \in 0 .. 9
          BY <1>2 DEF Peers, PeerStates
        <5>2. mid.state # CONNECTING /\ mid.state < CONNECTION_SUCCEEDED
          BY <2>3 DEF LostSilently
        <5> HIDE DEF mid, old
        <5> QED BY <1>4, <5>1, <5>2 DEF DISCONNECTED, CONNECTING,
             ACKNOWLEDGING_CONNECT, CONNECTION_PENDING, CONNECTION_SUCCEEDED, ZOMBIE
      <4> QED BY <1>2, <4>1, KnownByState
    <3> QED BY <1>3, <1>4, <2>1, <2>2, <3>1, <3>2, ResetFits DEF n
  <2>4. CASE ~ LostSilently(mid)
    <3> DEFINE Z == DispatchState(H, s, ZOMBIE)
    <3>1. SetHost(h, Z)
      BY <1>1, <1>5, <1>7, <2>4
    <3>2. /\ Elsewhere(H, Z, s) /\ SameLink(mid, Z.peers[s])
          /\ SlotOK(Z.peers[s], view[h][s], c.reset = s)
      BY <1>2, <1>4, ZombieMade
    <3> HIDE DEF Z, mid, old
    <3>3. Elsewhere(host[h], Z, s)
      BY <1>2, <1>4, <3>2, ElsewhereTwice
    <3>4. Means(old, Z.peers[s], view[h][s], view[h][s])
      BY <1>4, <3>2 DEF Means, SameLink
    <3> QED BY <1>3, <2>1, <2>2, <3>1, <3>2, <3>3, <3>4, SlotStep DEF SlotsKept, old
  <2> QED BY <2>3, <2>4
<1> QED BY <1>6, <1>7

\* Every command of the queue is of the type.
AllOf(q, type) == \A i \in 1 .. Len(q) : q[i].type = type

\* Two queues of commands of one type, one after the other.
LEMMA AllOfBoth ==
    ASSUME NEW p \in Seq(Commands), NEW q \in Seq(Commands), NEW type,
           AllOf(p, type), AllOf(q, type)
    PROVE  AllOf(p \o q, type)
<1> DEFINE r == p \o q
<1>1. /\ Len(p) \in Nat /\ Len(q) \in Nat /\ Len(r) = Len(p) + Len(q)
      /\ \A i \in 1 .. Len(p) + Len(q) : r[i] = IF i <= Len(p) THEN p[i] ELSE q[i - Len(p)]
  BY ConcatProperties, LenProperties
<1> HIDE DEF r
<1>2. ASSUME NEW i \in 1 .. Len(r)
      PROVE  r[i].type = type
  <2>1. CASE i <= Len(p)
    BY <1>1, <2>1 DEF AllOf
  <2>2. CASE i > Len(p)
    <3>1. i - Len(p) \in 1 .. Len(q) /\ r[i] = q[i - Len(p)]
      BY <1>1, <2>2
    <3> QED BY <3>1 DEF AllOf
  <2> QED BY <1>1, <2>1, <2>2
<1> QED BY <1>2 DEF AllOf, r

\* Two queues are empty if the one after the other is.
LEMMA NoneOfBoth ==
    ASSUME NEW p \in Seq(Commands), NEW q \in Seq(Commands), p \o q = <<>>
    PROVE  p = <<>> /\ q = <<>>
<1>1. Len(p) \in Nat /\ Len(q) \in Nat /\ Len(p \o q) = Len(p) + Len(q)
  BY ConcatProperties, LenProperties
<1>2. Len(p \o q) = 0
  BY ConcatProperties, EmptySeq
<1>3. Len(p) = 0 /\ Len(q) = 0
  BY <1>1, <1>2
<1> QED BY <1>3, EmptySeq

\* The commands picked from a queue are of its type; some are picked if some are due.
LEMMA PickedSome ==
    ASSUME NEW q \in Seq(Commands), NEW S \in SUBSET (1 .. Len(q)), NEW f \in InOrder(S)
    PROVE  /\ \A type : AllOf(q, type) => AllOf(Picked(q, f), type)
           /\ Picked(q, f) = <<>> => S = {}
<1>1. Len(q) \in Nat
  BY LenProperties
<1>2. IsFiniteSet(S) /\ Cardinality(S) \in Nat
  <2>1. IsFiniteSet(1 .. Len(q))
    BY <1>1, FS_Interval
  <2>2. IsFiniteSet(S)
    BY <2>1, FS_Subset
  <2> QED BY <2>2, FS_CardinalityType
<1> DEFINE m == Cardinality(S)
<1>3. f \in [1 .. m -> S]
  BY DEF InOrder
<1>4. Picked(q, f) = [i \in 1 .. m |-> q[f[i]]]
  BY <1>3 DEF Picked
<1>5. Picked(q, f) \in Seq(Commands)
  BY PickedType
<1>6. Len(Picked(q, f)) = m
  <2>1. DOMAIN Picked(q, f) = 1 .. m
    BY <1>4
  <2>2. DOMAIN Picked(q, f) = 1 .. Len(Picked(q, f)) /\ Len(Picked(q, f)) \in Nat
    BY <1>5, LenProperties
  <2> HIDE DEF m
  <2>3. m \in Nat
    BY <1>2 DEF m
  <2> QED BY <2>1, <2>2, <2>3
<1>7. ASSUME NEW type, AllOf(q, type) PROVE AllOf(Picked(q, f), type)
  <2> HIDE DEF m
  <2> SUFFICES ASSUME NEW i \in 1 .. m PROVE q[f[i]].type = type
    BY <1>4, <1>6 DEF AllOf
  <2>1. f[i] \in 1 .. Len(q)
    BY <1>3
  <2> QED BY <1>7, <2>1 DEF AllOf
<1>8. ASSUME Picked(q, f) = <<>> PROVE S = {}
  <2>1. m = 0
    BY <1>5, <1>6, <1>8, EmptySeq
  <2> QED BY <1>2, <2>1, FS_EmptySet
<1> QED BY <1>7, <1>8

\* Commands due and commands kept are all that were sent: none gets lost.
LEMMA PickedAll ==
    ASSUME NEW q \in Seq(Commands), NEW due \in SUBSET (1 .. Len(q)),
           NEW left \in InOrder((1 .. Len(q)) \ due), NEW again \in InOrder(due),
           Picked(q, left) = <<>>, Picked(q, again) = <<>>
    PROVE  q = <<>>
<1>1. due = {} /\ (1 .. Len(q)) \ due = {}
  <2>1. (1 .. Len(q)) \ due \in SUBSET (1 .. Len(q))
    OBVIOUS
  <2> QED BY <2>1, PickedSome
<1>2. Len(q) \in Nat /\ 1 .. Len(q) = {}
  BY <1>1, LenProperties
<1>3. Len(q) = 0
  <2>1. 1 \notin 1 .. Len(q)
    BY <1>2
  <2> DEFINE m == Len(q)
  <2>2. m \in Nat /\ 1 \notin 1 .. m
    BY <1>2, <2>1
  <2> HIDE DEF m
  <2>3. m = 0
    BY <2>2
  <2> QED BY <2>3 DEF m
<1> QED BY <1>3, EmptySeq

\* The commands a pass leaves and the ones it sends again are those that were sent.
SplitInto(q, kept, expired) ==
    \E due \in SUBSET (1 .. Len(q)) :
        \E left \in InOrder((1 .. Len(q)) \ due), again \in InOrder(due) :
            kept = Picked(q, left) /\ expired = Picked(q, again)

\* Such commands have their type, and there are none only if none was sent.
LEMMA SplitParts ==
    ASSUME NEW q \in Seq(Commands), NEW kept, NEW expired, SplitInto(q, kept, expired)
    PROVE  /\ kept \in Seq(Commands) /\ expired \in Seq(Commands)
           /\ \A type : AllOf(q, type) => AllOf(kept, type) /\ AllOf(expired, type)
           /\ kept = <<>> /\ expired = <<>> => q = <<>>
<1>1. PICK due \in SUBSET (1 .. Len(q)) :
          \E left \in InOrder((1 .. Len(q)) \ due), again \in InOrder(due) :
              kept = Picked(q, left) /\ expired = Picked(q, again)
  BY DEF SplitInto
<1>2. PICK left \in InOrder((1 .. Len(q)) \ due), again \in InOrder(due) :
          kept = Picked(q, left) /\ expired = Picked(q, again)
  BY <1>1
<1>3. (1 .. Len(q)) \ due \in SUBSET (1 .. Len(q))
  OBVIOUS
<1>4. kept \in Seq(Commands) /\ expired \in Seq(Commands)
  BY <1>2, <1>3, PickedType
<1>5. \A type : AllOf(q, type) => AllOf(kept, type) /\ AllOf(expired, type)
  BY <1>2, <1>3, PickedSome
<1>6. kept = <<>> /\ expired = <<>> => q = <<>>
  BY <1>2, PickedAll
<1> QED BY <1>4, <1>5, <1>6

\* A peer with all its reliable commands in flight: of one type if they were before.
AllSent(old, new) ==
    /\ new.state = old.state
    /\ new.needsDispatch = old.needsDispatch
    /\ new.dispatched = old.dispatched
    /\ new.acknowledgements = old.acknowledgements
    /\ new.outgoingUnreliable = old.outgoingUnreliable
    /\ \A type : OnlyOf(old, type) => OnlyOf(new, type)
    /\ ~ NothingQueued(old) => ~ NothingQueued(new)
    /\ new.sentReliable = <<>> =>
          old.sentReliable = <<>> /\ old.outgoingReliable = <<>>

\* What is in flight after a pass: all that was queued and sent.
LEMMA SendReliableCommandsPeer ==
    ASSUME NEW n \in Nat, NEW H, HostOK(n, H), NEW s \in 1 .. n,
           NEW old, old = H.peers[s],
           NEW kept, NEW expired, SplitInto(old.sentReliable, kept, expired),
           NEW G, G = SendReliableCommands(H, s, kept, expired), NEW new, new = G.peers[s]
    PROVE  /\ HostOK(n, G) /\ Elsewhere(H, G, s) /\ SameLink(old, new)
           /\ AllSent(old, new)
<1> DEFINE out == old.outgoingReliable
           sent == old.sentReliable
           now == kept \o expired \o out
           peer == [old EXCEPT !.outgoingReliable = <<>>, !.sentReliable = now]
<1>1. H \in HostRecords(n) /\ old \in Peers
  BY HostShape
<1>2. sent \in Seq(Commands) /\ out \in Seq(Commands)
  BY <1>1 DEF Peers
<1>3. kept \in Seq(Commands) /\ expired \in Seq(Commands)
  BY <1>2, SplitParts
<1>4. \A type : AllOf(sent, type) => AllOf(kept, type) /\ AllOf(expired, type)
  BY <1>2, SplitParts
<1>5. kept = <<>> /\ expired = <<>> => sent = <<>>
  BY <1>2, SplitParts
<1>6. G = [H EXCEPT !.peers[s] = peer] /\ HostOK(n, G)
  BY <1>3, SendReliableCommandsOK DEF SendReliableCommands
<1>7. kept \o expired \in Seq(Commands)
  BY <1>3, ConcatProperties
<1>8. now \in Seq(Commands) /\ <<>> \in Seq(Commands)
  BY <1>2, <1>7, ConcatProperties
<1>9. now = <<>> => sent = <<>> /\ out = <<>>
  BY <1>2, <1>3, <1>5, <1>7, NoneOfBoth
<1>10. ASSUME NEW type, AllOf(sent, type), AllOf(out, type) PROVE AllOf(now, type)
  <2>1. AllOf(kept \o expired, type)
    BY <1>3, <1>4, <1>10, AllOfBoth
  <2> QED BY <1>2, <1>7, <1>10, <2>1, AllOfBoth
<1> HIDE DEF now
<1>11. /\ SameLink(old, peer) /\ peer.state = old.state
       /\ peer.needsDispatch = old.needsDispatch
       /\ peer.dispatched = old.dispatched
       /\ peer.acknowledgements = old.acknowledgements
       /\ peer.outgoingUnreliable = old.outgoingUnreliable
       /\ peer.outgoingReliable = <<>> /\ peer.sentReliable = now
  BY <1>1, <1>8 DEF Peers, SameLink
<1> HIDE DEF peer
<1>12. Elsewhere(H, G, s) /\ new = peer
  <2>1. G.peers = [H.peers EXCEPT ![s] = peer]
    BY <1>1, <1>6 DEF HostRecords
  <2>2. Elsewhere(H, G, s) /\ G.peers[s] = peer
    BY <1>1, <2>1 DEF Elsewhere, HostRecords
  <2> QED BY <2>2
<1>13. ASSUME NEW type, OnlyOf(old, type) PROVE OnlyOf(new, type)
  <2>1. AllOf(sent, type) /\ AllOf(out, type) /\ (sent # <<>> \/ out # <<>>)
    BY <1>13 DEF OnlyOf, AllOf
  <2>2. AllOf(now, type) /\ now # <<>>
    BY <1>9, <1>10, <2>1
  <2>3. Len(<<>>) = 0
    OBVIOUS
  <2>4. \A i \in 1 .. Len(new.outgoingReliable) : new.outgoingReliable[i].type = type
    BY <1>11, <1>12, <2>3
  <2> QED BY <1>11, <1>12, <2>2, <2>4 DEF OnlyOf, AllOf
<1>14. /\ ~ NothingQueued(old) => ~ NothingQueued(new)
       /\ new.sentReliable = <<>> => sent = <<>> /\ out = <<>>
  BY <1>9, <1>11, <1>12 DEF NothingQueued
<1> QED BY <1>6, <1>11, <1>12, <1>13, <1>14 DEF AllSent

\* A ping changes only what a connected peer has in flight.
LEMMA PingPeer ==
    ASSUME NEW n \in Nat, NEW H, HostOK(n, H), NEW s \in 1 .. n,
           NEW old, old = H.peers[s], NEW v, NEW r, SlotOK(old, v, r),
           old.state = CONNECTED, NEW G, G = Ping(H, s)
    PROVE  /\ HostOK(n, G) /\ Elsewhere(H, G, s) /\ SameLink(old, G.peers[s])
           /\ SlotOK(G.peers[s], v, r)
<1> DEFINE sent == Append(old.sentReliable, PingCommand(old.outgoingSeq + 1))
           peer == [old EXCEPT !.outgoingSeq = old.outgoingSeq + 1, !.sentReliable = sent]
<1>1. H \in HostRecords(n) /\ old \in Peers
  BY HostShape
<1>2. G = [H EXCEPT !.peers[s] = peer] /\ HostOK(n, G)
  BY PingOK DEF Ping
<1> HIDE DEF sent
<1>3. /\ SameLink(old, peer) /\ peer.state = old.state
      /\ peer.needsDispatch = old.needsDispatch
      /\ peer.dispatched = old.dispatched
  BY <1>1 DEF Peers, SameLink
<1> HIDE DEF peer
<1>4. Elsewhere(H, G, s) /\ G.peers[s] = peer
  <2>1. G.peers = [H.peers EXCEPT ![s] = peer]
    BY <1>1, <1>2 DEF HostRecords
  <2> QED BY <1>1, <2>1 DEF Elsewhere, HostRecords
<1>5. SlotOK(peer, v, r)
  BY <1>3, SamePeer DEF DISCONNECTED, CONNECTED, ACKNOWLEDGING_CONNECT,
     DISCONNECTING, DISCONNECT_LATER, ACKNOWLEDGING_DISCONNECT
<1> QED BY <1>2, <1>3, <1>4, <1>5

\* The unreliable queue is emptied; a peer that disconnects later does so when it is
\* the last, and still has something in flight when it is not.
LEMMA SendUnreliableCommandsPeer ==
    ASSUME NEW n \in Nat, NEW H, HostOK(n, H), NEW s \in 1 .. n,
           NEW old, old = H.peers[s], NEW v, NEW r, SlotOK(old, v, r),
           NEW G, G = SendUnreliableCommands(H, s)
    PROVE  /\ HostOK(n, G) /\ Elsewhere(H, G, s) /\ SameLink(old, G.peers[s])
           /\ SlotOK(G.peers[s], v, r)
<1> DEFINE peer == [old EXCEPT !.outgoingUnreliable = <<>>]
           sent == [H EXCEPT !.peers[s] = peer]
           D == Disconnect(sent, s)
<1>1. H \in HostRecords(n) /\ old \in Peers /\ <<>> \in Seq(Commands)
  BY HostShape
<1>2. /\ SameLink(old, peer) /\ peer.state = old.state /\ peer \in Peers
      /\ peer.needsDispatch = old.needsDispatch
      /\ peer.dispatched = old.dispatched
      /\ peer.acknowledgements = old.acknowledgements
      /\ peer.outgoingReliable = old.outgoingReliable
      /\ peer.sentReliable = old.sentReliable
      /\ peer.outgoingUnreliable = <<>>
  BY <1>1 DEF Peers, SameLink
<1>3. HostOK(n, sent)
  BY <1>2, PeerUpdated
<1>4. Elsewhere(H, sent, s) /\ sent.peers[s] = peer
  BY <1>1 DEF Elsewhere, HostRecords
<1>5. G = IF LaterIsDue(old, peer) THEN D ELSE sent
  BY <1>4 DEF SendUnreliableCommands
<1> HIDE DEF peer, sent
<1>6. CASE LaterIsDue(old, peer)
  <2>1. peer.state = DISCONNECT_LATER
    BY <1>6 DEF LaterIsDue
  <2>2. /\ peer.state \notin NoDisconnectFrom /\ peer.state \in Counted
    BY <2>1 DEF NoDisconnectFrom, Counted, DISCONNECTED, CONNECTED, DISCONNECT_LATER,
       DISCONNECTING, ACKNOWLEDGING_DISCONNECT, ZOMBIE
  <2>3. HostOK(n, D) /\ Elsewhere(sent, D, s) /\ D.peers[s].state = DISCONNECTING
    BY <1>3, <1>4, <2>2, DisconnectOK, DisconnectEffect
  <2>4. SameLink(peer, D.peers[s]) /\ OnlyOf(D.peers[s], "DISCONNECT")
    BY <1>3, <1>4, <2>2, DisconnectPeerEffect
  <2> HIDE DEF D
  <2>5. Elsewhere(H, D, s)
    BY <1>3, <1>4, <2>3, ElsewhereTwice
  <2>6. v = "closing"
    BY <1>2, <2>1, KnownByState
  <2>7. SlotOK(D.peers[s], v, r)
    BY <2>3, <2>4, <2>6, ClosingPeer
  <2> QED BY <1>2, <1>5, <1>6, <2>3, <2>4, <2>5, <2>7 DEF SameLink
<1>7. CASE ~ LaterIsDue(old, peer)
  <2>1. ~ r /\ peer.state = DISCONNECT_LATER /\ ~ NothingQueued(old) => ~ NothingQueued(peer)
    BY <1>2, <1>7 DEF LaterIsDue, NothingQueued
  <2>2. /\ \A type : OnlyOf(old, type) => OnlyOf(peer, type)
        /\ AcksADisconnect(old) => AcksADisconnect(peer)
        /\ peer.state = DISCONNECTED =>
              peer.outgoingReliable = <<>> /\ peer.sentReliable = <<>>
    BY <1>2, KnownByState DEF OnlyOf, AcksADisconnect
  <2>3. SlotOK(peer, v, r)
    BY <1>2, <2>1, <2>2, SamePeer
  <2> QED BY <1>2, <1>3, <1>4, <1>5, <1>7, <2>3
<1> QED BY <1>6, <1>7

\* A send pass over an active peer.
LEMMA SendPeerFits ==
    ASSUME CInv, NEW h \in Hosts, NEW s \in Slots(h), SendPeer(h, s)
    PROVE  SlotsKept
<1> DEFINE n == PeerCount[h]
           old == Peer(h, s)
           sent == old.sentReliable
           A == SendAcknowledgements(host[h], s)
           acked == A.peers[s]
           v == view[h][s]
           r == BeingReset(h, s)
<1>1. /\ Sending(h) /\ Active(old) /\ NextSlot(h) /\ UNCHANGED view
  BY DEF SendPeer
<1>2. /\ n \in Nat /\ s \in 1 .. n /\ HostOK(n, host[h]) /\ old = host[h].peers[s]
      /\ SlotOK(old, v, r)
  BY SlotHere
<1>3. PICK due \in SUBSET (1 .. Len(sent)), ping \in BOOLEAN :
          \E left \in InOrder((1 .. Len(sent)) \ due), again \in InOrder(due) :
              FillBuffers(h, s, Picked(sent, left), Picked(sent, again), ping)
  BY DEF SendPeer
<1>4. PICK left \in InOrder((1 .. Len(sent)) \ due), again \in InOrder(due) :
          FillBuffers(h, s, Picked(sent, left), Picked(sent, again), ping)
  BY <1>3
<1> DEFINE kept == Picked(sent, left)
           expired == Picked(sent, again)
           R == SendReliableCommands(A, s, kept, expired)
           reliable == R.peers[s]
           P == IF ping THEN Ping(R, s) ELSE R
           pinged == P.peers[s]
           G == SendUnreliableCommands(P, s)
<1>5. SetHost(h, G) /\ (ping => MayPing(reliable))
  BY <1>4 DEF FillBuffers
<1>6. /\ HostOK(n, A) /\ Elsewhere(host[h], A, s) /\ SameLink(old, acked)
      /\ acked.sentReliable = sent
      /\ SlotOK(acked, v, r) /\ (acked.state # ZOMBIE => acked.state = old.state)
  <2>1. /\ HostOK(n, A) /\ Elsewhere(host[h], A, s) /\ SameLink(old, acked)
        /\ \/ AcksADisconnect(old) /\ acked.state = ZOMBIE /\ acked.needsDispatch
           \/ /\ ~ AcksADisconnect(old) /\ acked.state = old.state
              /\ acked.needsDispatch = old.needsDispatch
        /\ acked.dispatched = old.dispatched
        /\ acked.outgoingReliable = old.outgoingReliable
        /\ acked.outgoingUnreliable = old.outgoingUnreliable
        /\ acked.sentReliable = old.sentReliable
    BY <1>2, SendAcknowledgementsPeer
  <2> HIDE DEF acked, old
  <2>2. CASE acked.state = ZOMBIE /\ acked.needsDispatch
    BY <2>1, <2>2, ZombiePeer DEF sent
  <2>3. CASE ~ AcksADisconnect(old) /\ acked.state = old.state
             /\ acked.needsDispatch = old.needsDispatch
    <3>1. /\ \A type : OnlyOf(old, type) => OnlyOf(acked, type)
          /\ ~ NothingQueued(old) => ~ NothingQueued(acked)
          /\ acked.state = DISCONNECTED =>
                acked.outgoingReliable = <<>> /\ acked.sentReliable = <<>>
      BY <1>2, <2>1, <2>3, KnownByState, ZenonT(60) DEF OnlyOf, NothingQueued
    <3>2. SlotOK(acked, v, r)
      BY <1>2, <2>1, <2>3, <3>1, SamePeer
    <3> QED BY <2>1, <2>3, <3>2 DEF sent
  <2> QED BY <2>1, <2>2, <2>3
<1>7. /\ HostOK(n, R) /\ Elsewhere(A, R, s) /\ SameLink(acked, reliable)
      /\ SlotOK(reliable, v, r)
  <2>0. SplitInto(acked.sentReliable, kept, expired)
    BY <1>4, <1>6 DEF SplitInto
  <2>1. /\ SplitInto(acked.sentReliable, kept, expired)
        /\ n \in Nat /\ s \in 1 .. n /\ HostOK(n, A) /\ acked = A.peers[s]
        /\ R = SendReliableCommands(A, s, kept, expired) /\ reliable = R.peers[s]
    BY <1>2, <1>6, <2>0
  <2> HIDE DEF n, sent, A, acked, kept, expired, R, reliable
  <2>2. /\ HostOK(n, R) /\ Elsewhere(A, R, s) /\ SameLink(acked, reliable)
        /\ AllSent(acked, reliable)
    BY <2>1, SendReliableCommandsPeer
  <2>3. reliable.state # DISCONNECTED
    BY <1>1, <1>6, <2>2 DEF AllSent, Active, DISCONNECTED, ZOMBIE
  <2>4. AcksADisconnect(acked) => AcksADisconnect(reliable)
    BY <2>2 DEF AllSent, AcksADisconnect
  <2>5. SlotOK(reliable, v, r)
    BY <1>6, <2>2, <2>3, <2>4, SamePeer DEF AllSent
  <2> QED BY <2>2, <2>5
<1> HIDE DEF R
<1>8. /\ HostOK(n, P) /\ Elsewhere(R, P, s) /\ SameLink(reliable, pinged)
      /\ SlotOK(pinged, v, r)
  <2>1. CASE ping
    <3>1. reliable.state = CONNECTED
      BY <1>5, <2>1 DEF MayPing
    <3> QED BY <1>2, <1>7, <2>1, <3>1, PingPeer
  <2>2. CASE ~ ping
    BY <1>7, <2>2 DEF Elsewhere, SameLink
  <2> QED BY <2>1, <2>2
<1> HIDE DEF P
<1>9. /\ HostOK(n, G) /\ Elsewhere(P, G, s) /\ SameLink(pinged, G.peers[s])
      /\ SlotOK(G.peers[s], v, r)
  BY <1>2, <1>8, SendUnreliableCommandsPeer
<1> HIDE DEF G, A
<1>10. Elsewhere(host[h], G, s)
  <2>1. Elsewhere(host[h], R, s)
    BY <1>2, <1>6, <1>7, ElsewhereTwice
  <2>2. Elsewhere(host[h], P, s)
    BY <1>2, <1>7, <1>8, <2>1, ElsewhereTwice
  <2> QED BY <1>2, <1>8, <1>9, <2>2, ElsewhereTwice
<1>11. PICK c : SetControl(h, c) /\ c.reset = control[h].reset /\ Resets(c)
  BY <1>1, NextSlotFits
<1>12. /\ SetView(h, s, view[h][s]) /\ Means(old, G.peers[s], v, v)
       /\ r = (c.reset = s)
  BY <1>1, <1>6, <1>7, <1>8, <1>9, <1>11, StaysSet DEF Means, SameLink, BeingReset
<1>13. SlotOK(G.peers[s], v, c.reset = s)
  BY <1>9, <1>12
<1> QED BY <1>5, <1>10, <1>11, <1>12, <1>13, SlotStep DEF SlotsKept

---------------------------------------------------------------------------
(* The receive pass and the handlers                                          *)

\* A datagram taken from the network, or none: no peer changes.
LEMMA ReceiveFits ==
    ASSUME CInv, NEW h \in Hosts, ReceiveStep(h)
    PROVE  SlotsKept
<1> DEFINE c == control[h]
<1>1. c \in Controls(h) /\ Resets(c)
  BY DEF CInv, IInv, ControlsOK, ControlOK, ResetOnly
<1>2. c.phase = "receive" /\ UNCHANGED <<host, view>>
  BY DEF ReceiveStep, ReceiveNothing, Receive, history
<1>3. c.reset = NoPeer
  BY <1>1, <1>2 DEF Resets
<1>4. \/ SetControl(h, [c EXCEPT !.phase = "resend", !.slot = 1])
      \/ \E to, from, commands :
            SetControl(h, [c EXCEPT !.phase = "commands", !.peer = to, !.from = from,
                                    !.commands = commands])
  BY DEF ReceiveStep, ReceiveNothing, Receive
<1> HIDE DEF c
<1>5. PICK d : SetControl(h, d) /\ d.reset = c.reset
  <2>1. CASE SetControl(h, [c EXCEPT !.phase = "resend", !.slot = 1])
    <3> DEFINE d == [c EXCEPT !.phase = "resend", !.slot = 1]
    <3>1. d.reset = c.reset
      BY <1>1 DEF Controls
    <3> HIDE DEF d
    <3> QED BY <2>1, <3>1 DEF d
  <2>2. ASSUME NEW to, NEW from, NEW commands,
               SetControl(h, [c EXCEPT !.phase = "commands", !.peer = to, !.from = from,
                                       !.commands = commands])
        PROVE  \E d : SetControl(h, d) /\ d.reset = c.reset
    <3> DEFINE d == [c EXCEPT !.phase = "commands", !.peer = to, !.from = from,
                              !.commands = commands]
    <3>1. d.reset = c.reset
      BY <1>1 DEF Controls
    <3>2. SetControl(h, d)
      BY <2>2
    <3> HIDE DEF d
    <3> QED BY <3>1, <3>2
  <2> QED BY <1>4, <2>1, <2>2
<1> QED BY <1>2, <1>3, <1>5, HostStays DEF c, Resets

\* While commands are handled no peer is being reset.
LEMMA AfterCommandFits ==
    ASSUME CInv, NEW h \in Hosts, control[h].phase = "commands",
           NEW s, NEW failed, NEW raises,
           NEW c, c = AfterCommand(control[h], failed, raises, s)
    PROVE  control[h].reset = NoPeer /\ c.reset = NoPeer /\ Resets(c)
<1> DEFINE old == control[h]
           raised == old.raised \/ raises
           rest == Tail(old.commands)
           next == [old EXCEPT !.commands = rest, !.raised = raised, !.peer = s]
           last == [old EXCEPT !.phase = "receive", !.commands = <<>>,
                               !.peer = NoPeer, !.from = NoHost]
<1>1. old \in Controls(h) /\ Resets(old)
  BY DEF CInv, IInv, ControlsOK, ControlOK, ResetOnly
<1>2. old.reset = NoPeer
  BY <1>1 DEF Resets
<1>3. c \in {next, Idle, last}
  BY DEF AfterCommand
<1> HIDE DEF rest, raised
<1>4. next.reset = old.reset /\ last.reset = old.reset
  BY <1>1 DEF Controls
<1> HIDE DEF next, last
<1>5. c.reset = NoPeer
  BY <1>2, <1>3, <1>4, ResetsOf
<1> QED BY <1>2, <1>5 DEF Resets

\* The peer of a handled command: the one the handler left, perhaps with one more
\* acknowledgement to send.
Answered(old, new) ==
    /\ SameLink(old, new) /\ new.state = old.state
    /\ new.needsDispatch = old.needsDispatch /\ new.dispatched = old.dispatched
    /\ new.outgoingReliable = old.outgoingReliable
    /\ new.sentReliable = old.sentReliable
    /\ new.outgoingUnreliable = old.outgoingUnreliable
    /\ AcksADisconnect(old) => AcksADisconnect(new)

\* An acknowledgement appended to the queue of a peer.
LEMMA AnsweredPeer ==
    ASSUME NEW n \in Nat, NEW H, HostOK(n, H), NEW s \in 1 .. n, NEW c \in Commands,
           NEW G, G = QueueAcknowledgement(H, s, c)
    PROVE  /\ Elsewhere(H, G, s) /\ Answered(H.peers[s], G.peers[s])
           /\ c.type = "DISCONNECT" => AcksADisconnect(G.peers[s])
<1> DEFINE old == H.peers[s]
           new == G.peers[s]
           q == old.acknowledgements
           acks == Append(q, c)
<1>1. old = H.peers[s] /\ new = QueueAcknowledgement(H, s, c).peers[s]
  OBVIOUS
<1> HIDE DEF old, new, q
<1>2. /\ Elsewhere(H, QueueAcknowledgement(H, s, c), s)
      /\ old.acknowledgements \in Seq(Commands)
      /\ new.acknowledgements = Append(old.acknowledgements, c)
      /\ SameLink(old, new) /\ new.state = old.state
      /\ new.needsDispatch = old.needsDispatch /\ new.dispatched = old.dispatched
      /\ new.outgoingReliable = old.outgoingReliable
      /\ new.sentReliable = old.sentReliable
      /\ new.outgoingUnreliable = old.outgoingUnreliable
  <2>1. /\ Elsewhere(H, QueueAcknowledgement(H, s, c), s)
        /\ Owes(old, new, c)
    BY <1>1, QueueAcknowledgementPeer
  <2> QED BY <2>1 DEF Owes
<1>4. q \in Seq(Commands) /\ q = old.acknowledgements
  BY <1>2 DEF q
<1>3. /\ Len(q) \in Nat /\ Len(acks) = Len(q) + 1 /\ acks[Len(q) + 1] = c
      /\ \A i \in 1 .. Len(q) : acks[i] = q[i]
  BY <1>4, AppendProperties, LenProperties
<1>7. new.acknowledgements = acks
  BY <1>2, <1>4
<1> HIDE DEF acks
<1>5. AcksADisconnect(old) => AcksADisconnect(new)
  <2> SUFFICES ASSUME NEW i \in 1 .. Len(q), q[i].type = "DISCONNECT"
               PROVE  AcksADisconnect(new)
    BY <1>4 DEF AcksADisconnect
  <2>1. i \in 1 .. Len(acks) /\ acks[i].type = "DISCONNECT"
    BY <1>3
  <2> QED BY <1>7, <2>1 DEF AcksADisconnect
<1>6. c.type = "DISCONNECT" => AcksADisconnect(new)
  <2>1. Len(q) + 1 \in 1 .. Len(acks)
    BY <1>3
  <2> QED BY <1>3, <1>7, <2>1 DEF AcksADisconnect
<1> QED BY <1>2, <1>5, <1>6 DEF Answered, new, old

\* A handled command: the host the handler left, and an acknowledgement if it asks for one.
LEMMA HandledPeer ==
    ASSUME CInv, NEW h \in Hosts, NEW s \in Slots(h), control[h].phase = "commands",
           NEW H, HostOK(PeerCount[h], H), Elsewhere(host[h], H, s),
           NEW failed \in BOOLEAN, NEW raises, Handled(h, H, s, failed, raises)
    PROVE  \E G, c :
              /\ SetHost(h, G) /\ Elsewhere(host[h], G, s)
              /\ Answered(H.peers[s], G.peers[s])
              /\ ~ failed /\ Acknowledges(H.peers[s].state, TheCommand(h))
                    /\ TheCommand(h).type = "DISCONNECT" => AcksADisconnect(G.peers[s])
              /\ SetControl(h, c) /\ control[h].reset = NoPeer /\ c.reset = NoPeer
              /\ Resets(c)
<1> DEFINE n == PeerCount[h]
           command == TheCommand(h)
           answers == ~ failed /\ Acknowledges(H.peers[s].state, command)
           A == QueueAcknowledgement(H, s, command)
           c == AfterCommand(control[h], failed, raises, s)
<1>1. /\ n \in Nat /\ s \in 1 .. n /\ HostOK(n, host[h]) /\ HostOK(n, H)
  BY SlotHere
<1>2. command \in Commands
  BY CommandHere DEF CInv
<1>3. SetControl(h, c) /\ control[h].reset = NoPeer /\ c.reset = NoPeer /\ Resets(c)
  BY AfterCommandFits DEF Handled
<1>4. SetHost(h, IF answers THEN A ELSE H)
  BY DEF Handled
<1> HIDE DEF n, command, c
<1>5. CASE answers
  <2>1. /\ Elsewhere(H, A, s) /\ Answered(H.peers[s], A.peers[s])
        /\ command.type = "DISCONNECT" => AcksADisconnect(A.peers[s])
    BY <1>1, <1>2, AnsweredPeer
  <2>2. HostOK(n, A)
    BY <1>1, <1>2, QueueAcknowledgementOK
  <2> HIDE DEF A
  <2>3. Elsewhere(host[h], A, s)
    BY <1>1, <2>1, <2>2, ElsewhereTwice
  <2>4. SetHost(h, A)
    BY <1>4, <1>5
  <2> QED BY <1>3, <2>1, <2>3, <2>4 DEF command
<1>6. CASE ~ answers
  <2>1. SetHost(h, H)
    BY <1>4, <1>6
  <2>2. Answered(H.peers[s], H.peers[s])
    BY DEF Answered, SameLink
  <2> QED BY <1>3, <1>6, <2>1, <2>2 DEF command
<1> QED BY <1>5, <1>6

\* An acknowledgement more to send leaves a peer in order.
LEMMA AnsweredSlot ==
    ASSUME NEW old, NEW new, Answered(old, new), NEW v, NEW r, SlotOK(old, v, r)
    PROVE  SlotOK(new, v, r)
<1>1. new.state = old.state /\ new.needsDispatch = old.needsDispatch
      /\ new.dispatched = old.dispatched
      /\ (\A type : OnlyOf(old, type) => OnlyOf(new, type))
      /\ (~ NothingQueued(old) => ~ NothingQueued(new))
      /\ (AcksADisconnect(old) => AcksADisconnect(new))
  BY DEF Answered, OnlyOf, NothingQueued
<1>2. new.state = DISCONNECTED => new.outgoingReliable = <<>> /\ new.sentReliable = <<>>
  BY KnownByState DEF Answered
<1> QED BY <1>1, <1>2, SamePeer

\* A handler that leaves its peer in order.
LEMMA HandledFits ==
    ASSUME CInv, NEW h \in Hosts, NEW s \in Slots(h), control[h].phase = "commands",
           NEW H, HostOK(PeerCount[h], H), Elsewhere(host[h], H, s),
           NEW failed \in BOOLEAN, NEW raises, Handled(h, H, s, failed, raises),
           NEW v, SetView(h, s, v), SlotOK(H.peers[s], v, FALSE),
           Means(Peer(h, s), H.peers[s], view[h][s], v)
    PROVE  SlotsKept
<1>1. PICK G, c :
              /\ SetHost(h, G) /\ Elsewhere(host[h], G, s)
              /\ Answered(H.peers[s], G.peers[s])
              /\ SetControl(h, c) /\ control[h].reset = NoPeer /\ c.reset = NoPeer
              /\ Resets(c)
  BY HandledPeer
<1>2. SlotOK(G.peers[s], v, c.reset = s)
  BY <1>1, AnsweredSlot, Weaker
<1>3. Means(Peer(h, s), G.peers[s], view[h][s], v)
  BY <1>1 DEF Means, Answered, SameLink
<1>4. c.reset \in {NoPeer, s} /\ control[h].reset \in {NoPeer, s}
  BY <1>1
<1> QED BY <1>1, <1>2, <1>3, <1>4, SlotStep DEF SlotsKept

\* A handler that keeps the peer it finds.
LEMMA HandledSame ==
    ASSUME CInv, NEW h \in Hosts, NEW s \in Slots(h), control[h].phase = "commands",
           NEW failed \in BOOLEAN, NEW raises, Handled(h, host[h], s, failed, raises),
           UNCHANGED view
    PROVE  SlotsKept
<1>1. /\ HostOK(PeerCount[h], host[h]) /\ Peer(h, s) = host[h].peers[s]
      /\ SlotOK(host[h].peers[s], view[h][s], BeingReset(h, s))
      /\ SetView(h, s, view[h][s])
  BY SlotHere, StaysSet
<1>2. ~ BeingReset(h, s)
  BY NotResetting
<1>3. SlotOK(host[h].peers[s], view[h][s], FALSE)
  BY <1>1, <1>2 DEF SlotOK, Owed, Armed
<1>4. Elsewhere(host[h], host[h], s) /\ Means(Peer(h, s), host[h].peers[s], view[h][s], view[h][s])
  BY <1>1 DEF Elsewhere, Means, SameLink
<1> QED BY <1>1, <1>3, <1>4, HandledFits

\* A ping.
LEMMA HandlePingFits ==
    ASSUME CInv, NEW h \in Hosts, NEW s \in Slots(h), HandlePing(h, s)
    PROVE  SlotsKept
<1> DEFINE failed == Peer(h, s).state \notin Counted
<1>1. /\ control[h].phase = "commands" /\ UNCHANGED view
      /\ Handled(h, host[h], s, failed, FALSE)
  BY DEF HandlePing, At, history
<1>2. failed \in BOOLEAN
  OBVIOUS
<1> HIDE DEF failed
<1> QED BY <1>1, <1>2, HandledSame

\* A reliable packet.
LEMMA HandleSendReliableFits ==
    ASSUME CInv, NEW h \in Hosts, NEW s \in Slots(h), HandleSendReliable(h, s)
    PROVE  SlotsKept
<1> DEFINE n == PeerCount[h]
           old == Peer(h, s)
           m == TheCommand(h).seq
           G == QueueIncomingReliable(host[h], s, m)
           new == G.peers[s]
           failed == ~ TakesData(old)
           v == view[h][s]
<1>1. /\ control[h].phase = "commands" /\ UNCHANGED view
      /\ Handled(h, IF TakesData(old) THEN G ELSE host[h], s, failed, FALSE)
  BY DEF HandleSendReliable, At, history
<1>2. failed \in BOOLEAN
  OBVIOUS
<1>3. /\ n \in Nat /\ s \in 1 .. n /\ HostOK(n, host[h]) /\ old = host[h].peers[s]
      /\ SlotOK(old, v, BeingReset(h, s))
  BY SlotHere
<1>4. m \in Nat
  BY <1>1, CommandHere DEF CInv, Commands
<1> HIDE DEF failed, m
<1>5. CASE ~ TakesData(old)
  BY <1>1, <1>2, <1>5, HandledSame
<1>6. CASE TakesData(old)
  <2>1. HostOK(n, G) /\ Elsewhere(host[h], G, s) /\ new.state = old.state
    BY <1>3, <1>4, QueueIncomingReliableOK, QueueIncomingReliableEffect
  <2>a. new = QueueIncomingReliable(host[h], s, m).peers[s] /\ old = host[h].peers[s]
    BY <1>3
  <2> HIDE DEF G, new, old
  <2>2. /\ SameLink(old, new)
        /\ new.outgoingReliable = old.outgoingReliable
        /\ new.sentReliable = old.sentReliable
        /\ new.outgoingUnreliable = old.outgoingUnreliable
        /\ new.acknowledgements = old.acknowledgements
        /\ \/ new.needsDispatch
           \/ new.needsDispatch = old.needsDispatch /\ new.dispatched = old.dispatched
    BY <1>3, <1>4, <2>a, QueueIncomingReliablePeer
  <2>3. old.state \in Counted
    BY <1>6 DEF TakesData
  <2>4. /\ \A type : OnlyOf(old, type) => OnlyOf(new, type)
        /\ ~ NothingQueued(old) => ~ NothingQueued(new)
        /\ AcksADisconnect(old) => AcksADisconnect(new)
        /\ new.state # DISCONNECTED
    BY <2>1, <2>2, <2>3 DEF OnlyOf, NothingQueued, AcksADisconnect, Counted, DISCONNECTED,
       CONNECTED, DISCONNECT_LATER
  <2>5. SlotOK(old, v, FALSE)
    BY <1>1, <1>3, NotResetting DEF SlotOK, Owed, Armed
  <2>6. SlotOK(new, v, FALSE)
    BY <2>1, <2>2, <2>3, <2>4, <2>5, SamePeer
  <2>7. /\ SetView(h, s, v) /\ Means(Peer(h, s), new, view[h][s], v)
        /\ Handled(h, G, s, failed, FALSE)
    BY <1>1, <1>6, <2>2, StaysSet DEF Means, old
  <2> HIDE DEF v
  <2> QED BY <1>1, <1>2, <2>1, <2>6, <2>7, HandledFits DEF new, n
<1> QED BY <1>5, <1>6

\* The peer an unreliable packet was delivered to waits for dispatch.
LEMMA UnreliableDeliveredPeer ==
    ASSUME NEW n \in Nat, NEW H, HostOK(n, H), NEW s \in 1 .. n,
           NEW G, G = UnreliableDelivered(H, s)
    PROVE  /\ HostOK(n, G) /\ Elsewhere(H, G, s) /\ SameLink(H.peers[s], G.peers[s])
           /\ G.peers[s].state = H.peers[s].state /\ G.peers[s].needsDispatch
<1> DEFINE old == H.peers[s]
           dispatched == Append(old.dispatched, 0)
           peer == [old EXCEPT !.dispatched = dispatched]
           taken == [H EXCEPT !.peers[s] = peer]
<1>1. old \in Peers /\ H \in HostRecords(n)
  BY HostShape
<1>2. dispatched \in Seq(Nat)
  <2>1. old.dispatched \in Seq(Nat)
    BY <1>1 DEF Peers
  <2> QED BY <2>1, AppendProperties
<1>3. UnreliableDelivered(H, s) = EnterDispatchQueue(taken, s)
  BY <1>1 DEF UnreliableDelivered, HostRecords
<1> HIDE DEF dispatched
<1>4. /\ peer \in Peers /\ peer.state = old.state
      /\ peer.needsDispatch = old.needsDispatch /\ SameLink(old, peer)
  BY <1>1, <1>2 DEF Peers, SameLink
<1> HIDE DEF peer
<1>5. HostOK(n, taken) /\ taken.peers = [H.peers EXCEPT ![s] = peer]
  BY <1>1, <1>4, PeerUpdated, SetPeer
<1> HIDE DEF taken
<1>6. Elsewhere(H, taken, s) /\ taken.peers[s] = peer
  BY <1>1, <1>5, ElsewhereOf
<1> DEFINE F == EnterDispatchQueue(taken, s)
           entered == [peer EXCEPT !.needsDispatch = TRUE]
<1>7. /\ HostOK(n, F) /\ Elsewhere(taken, F, s) /\ F.peers[s] = entered
  <2>0. HostOK(n, taken)
    BY <1>5
  <2>1. HostOK(n, EnterDispatchQueue(taken, s))
    BY <2>0, EnterDispatchQueueOK
  <2>2. /\ Elsewhere(taken, EnterDispatchQueue(taken, s), s)
        /\ EnterDispatchQueue(taken, s).peers[s] = [taken.peers[s] EXCEPT !.needsDispatch = TRUE]
        /\ EnterDispatchQueue(taken, s).peers[s].state = taken.peers[s].state
        /\ EnterDispatchQueue(taken, s).peers[s].needsDispatch = TRUE
    BY <2>0, EnterDispatchQueueEffect
  <2> QED BY <1>6, <2>1, <2>2
<1>8. /\ entered.state = peer.state /\ entered.needsDispatch /\ SameLink(peer, entered)
  BY <1>4 DEF Peers, SameLink
<1> HIDE DEF entered, F
<1>9. Elsewhere(H, F, s)
  BY <1>5, <1>6, <1>7, ElsewhereTwice
<1> QED BY <1>3, <1>4, <1>7, <1>8, <1>9 DEF F, SameLink

\* An unreliable packet, delivered or dropped.
LEMMA HandleSendUnreliableFits ==
    ASSUME CInv, NEW h \in Hosts, NEW s \in Slots(h), HandleSendUnreliable(h, s)
    PROVE  SlotsKept
<1> DEFINE n == PeerCount[h]
           old == Peer(h, s)
           G == UnreliableDelivered(host[h], s)
           failed == ~ TakesData(old)
           v == view[h][s]
<1>1. /\ control[h].phase = "commands" /\ UNCHANGED view
      /\ \/ Handled(h, host[h], s, failed, FALSE)
         \/ Handled(h, G, s, failed, FALSE) /\ old.state = CONNECTED
  BY DEF HandleSendUnreliable, At, history
<1>2. failed \in BOOLEAN
  OBVIOUS
<1>3. /\ n \in Nat /\ s \in 1 .. n /\ HostOK(n, host[h]) /\ old = host[h].peers[s]
      /\ SlotOK(old, v, BeingReset(h, s)) /\ SetView(h, s, v)
  BY <1>1, SlotHere, StaysSet
<1> HIDE DEF failed
<1>4. CASE Handled(h, host[h], s, failed, FALSE)
  BY <1>1, <1>2, <1>4, HandledSame
<1>5. CASE Handled(h, G, s, failed, FALSE) /\ old.state = CONNECTED
  <2>1. /\ HostOK(n, G) /\ Elsewhere(host[h], G, s) /\ SameLink(old, G.peers[s])
        /\ G.peers[s].state = CONNECTED /\ G.peers[s].needsDispatch
    BY <1>3, <1>5, UnreliableDeliveredPeer
  <2>2. v = "open"
    BY <1>3, <1>5, KnownByState
  <2> HIDE DEF G
  <2> DEFINE no == FALSE
  <2>a. no = FALSE
    OBVIOUS
  <2> HIDE DEF no
  <2>3. SlotOK(G.peers[s], v, no)
    BY <2>1, <2>2, ConnectedPeer
  <2>4. Means(old, G.peers[s], view[h][s], v)
    BY <2>1 DEF Means
  <2> QED BY <1>1, <1>2, <1>3, <1>5, <2>a, <2>1, <2>3, <2>4, HandledFits DEF n
<1> QED BY <1>1, <1>4, <1>5

\* The queues emptied: what the peer was connected to stays.
LEMMA EmptiedPeer ==
    ASSUME NEW n \in Nat, NEW H, HostOK(n, H), NEW s \in 1 .. n,
           NEW G, G = ResetQueues(H, s)
    PROVE  /\ HostOK(n, G) /\ Elsewhere(H, G, s) /\ SameLink(H.peers[s], G.peers[s])
           /\ Bare(G.peers[s])
<1>1. H.peers[s] \in Peers
  BY HostShape
<1>2. HostOK(n, ResetQueues(H, s))
  BY ResetQueuesOK
<1>3. /\ Elsewhere(H, ResetQueues(H, s), s)
      /\ ResetQueues(H, s).peers[s] = EmptyQueues(H.peers[s])
      /\ ResetQueues(H, s).peers[s].state = H.peers[s].state
      /\ ResetQueues(H, s).peers[s].needsDispatch = FALSE
  BY ResetQueuesEffect
<1>4. Bare(EmptyQueues(H.peers[s])) /\ SameLink(H.peers[s], EmptyQueues(H.peers[s]))
  BY <1>1, BareAfterReset
<1> QED BY <1>2, <1>3, <1>4

\* A change of state changes nothing else of a peer.
LEMMA ChangedPeer ==
    ASSUME NEW n \in Nat, NEW H, HostOK(n, H), NEW s \in 1 .. n, NEW state \in PeerStates,
           NEW G, G = ChangeState(H, s, state)
    PROVE  /\ HostOK(n, G) /\ Elsewhere(H, G, s) /\ SameLink(H.peers[s], G.peers[s])
           /\ G.peers[s].state = state /\ G.peers[s].dispatched = H.peers[s].dispatched
<1> DEFINE old == H.peers[s]
           new == [old EXCEPT !.state = state]
<1>1. old \in Peers
  BY HostShape
<1>2. /\ HostOK(n, ChangeState(H, s, state)) /\ Elsewhere(H, ChangeState(H, s, state), s)
      /\ ChangeState(H, s, state).peers[s] = new
  <2>1. HostOK(n, ChangeState(H, s, state))
    BY ChangeStateOK
  <2>2. /\ Elsewhere(H, ChangeState(H, s, state), s)
        /\ ChangeState(H, s, state).peers[s] = [H.peers[s] EXCEPT !.state = state]
        /\ ChangeState(H, s, state).peers[s].state = state
    BY ChangeStateEffect
  <2> QED BY <2>1, <2>2
<1>3. new.state = state /\ new.dispatched = old.dispatched /\ SameLink(old, new)
  BY <1>1 DEF Peers, SameLink
<1> QED BY <1>2, <1>3

\* A peer queued for dispatch in a new state.
LEMMA DispatchedPeer ==
    ASSUME NEW n \in Nat, NEW H, HostOK(n, H), NEW s \in 1 .. n, NEW state \in PeerStates,
           NEW G, G = DispatchState(H, s, state)
    PROVE  /\ HostOK(n, G) /\ Elsewhere(H, G, s) /\ SameLink(H.peers[s], G.peers[s])
           /\ G.peers[s].state = state /\ G.peers[s].dispatched = H.peers[s].dispatched
           /\ G.peers[s].needsDispatch
<1> DEFINE old == H.peers[s]
           new == [old EXCEPT !.state = state, !.needsDispatch = TRUE]
<1>1. old \in Peers
  BY HostShape
<1>2. HostOK(n, DispatchState(H, s, state))
  BY DispatchStateOK
<1>3. /\ Elsewhere(H, DispatchState(H, s, state), s)
      /\ DispatchState(H, s, state).peers[s]
            = [H.peers[s] EXCEPT !.state = state, !.needsDispatch = TRUE]
      /\ DispatchState(H, s, state).peers[s].state = state
      /\ DispatchState(H, s, state).peers[s].needsDispatch = TRUE
  BY DispatchStateEffect
<1>4. /\ new.state = state /\ new.dispatched = old.dispatched /\ SameLink(old, new)
      /\ new.needsDispatch
  BY <1>1 DEF Peers, SameLink
<1> QED BY <1>2, <1>3, <1>4

\* A handler that makes the peer a zombie.
LEMMA HandledZombie ==
    ASSUME CInv, NEW h \in Hosts, NEW s \in Slots(h), control[h].phase = "commands",
           NEW H, HostOK(PeerCount[h], H), Elsewhere(host[h], H, s),
           SameLink(Peer(h, s), H.peers[s]), UNCHANGED view,
           NEW failed \in BOOLEAN, NEW raises,
           Handled(h, DispatchState(H, s, ZOMBIE), s, failed, raises)
    PROVE  SlotsKept
<1> DEFINE n == PeerCount[h]
           G == DispatchState(H, s, ZOMBIE)
           no == FALSE
           v == view[h][s]
<1>1. n \in Nat /\ s \in 1 .. n /\ HostOK(n, host[h]) /\ HostOK(n, H)
  BY SlotHere
<1>2. no = FALSE
  OBVIOUS
<1>3. SetView(h, s, v) /\ Handled(h, G, s, failed, raises)
  BY StaysSet
<1> HIDE DEF n, no
<1>4. /\ HostOK(n, G) /\ Elsewhere(H, G, s) /\ SlotOK(G.peers[s], v, no)
      /\ SameLink(H.peers[s], G.peers[s])
  BY <1>1, ZombieMade
<1> HIDE DEF G
<1>5. Elsewhere(host[h], G, s)
  BY <1>1, <1>4, ElsewhereTwice
<1>6. Means(Peer(h, s), G.peers[s], view[h][s], v)
  BY <1>4 DEF Means, SameLink
<1> QED BY <1>2, <1>3, <1>4, <1>5, <1>6, HandledFits DEF n

\* A handler that resets the peer.
LEMMA HandledReset ==
    ASSUME CInv, NEW h \in Hosts, NEW s \in Slots(h), control[h].phase = "commands",
           NEW H, HostOK(PeerCount[h], H), Elsewhere(host[h], H, s),
           NEW failed \in BOOLEAN, NEW raises,
           Handled(h, Reset(H, s), s, failed, raises),
           NEW v, SetView(h, s, v), v \notin {"open", "closing"},
           v = "free" \/ view[h][s] \notin {"open", "closing"}
    PROVE  SlotsKept
<1> DEFINE n == PeerCount[h]
           G == Reset(H, s)
           no == FALSE
<1>1. n \in Nat /\ s \in 1 .. n /\ HostOK(n, host[h]) /\ HostOK(n, H) /\ H.peers[s] \in Peers
  BY SlotHere, HostShape
<1>2. no = FALSE /\ Handled(h, G, s, failed, raises)
  OBVIOUS
<1> HIDE DEF n, no
<1>3. /\ HostOK(n, G) /\ Elsewhere(H, G, s)
      /\ G.peers[s] = Freed(H.peers[s]) /\ G.peers[s].state = DISCONNECTED
  BY <1>1, ResetEffect
<1> HIDE DEF G
<1>4. Elsewhere(host[h], G, s)
  BY <1>1, <1>3, ElsewhereTwice
<1>5. Bare(G.peers[s])
  BY <1>1, <1>3, BareAfterReset
<1>6. SlotOK(G.peers[s], v, no)
  BY <1>3, <1>5, FreedPeer
<1>7. Means(Peer(h, s), G.peers[s], view[h][s], v)
  BY DEF Means
<1> QED BY <1>2, <1>3, <1>4, <1>6, <1>7, HandledFits DEF n

\* A peer that owes the acknowledgement of a DISCONNECT and has it queued.
LEMMA AcknowledgingPeer ==
    ASSUME NEW peer, peer.state = ACKNOWLEDGING_DISCONNECT, AcksADisconnect(peer),
           NEW v, v \in {"open", "closing"}, NEW r
    PROVE  SlotOK(peer, v, r)
  BY DEF SlotOK, Informed, Owed, Armed, DISCONNECTED, CONNECTING, ACKNOWLEDGING_CONNECT,
     CONNECTION_PENDING, CONNECTION_SUCCEEDED, CONNECTED, DISCONNECT_LATER, DISCONNECTING,
     ACKNOWLEDGING_DISCONNECT, ZOMBIE, Counted

\* A DISCONNECT: the program will be told, if it knew of the connection.
LEMMA HandleDisconnectFits ==
    ASSUME CInv, NEW h \in Hosts, NEW s \in Slots(h), HandleDisconnect(h, s)
    PROVE  SlotsKept
<1> DEFINE n == PeerCount[h]
           old == Peer(h, s)
           c == TheCommand(h)
           v == view[h][s]
           E == ResetQueues(host[h], s)
           closed == ChangeState(E, s, ACKNOWLEDGING_DISCONNECT)
           no == FALSE
           H == Disconnected(host[h], s, c)
<1>1. /\ control[h].phase = "commands" /\ UNCHANGED view /\ c.type = "DISCONNECT"
      /\ Handled(h, IF old.state \in {DISCONNECTED, ZOMBIE, ACKNOWLEDGING_DISCONNECT}
                    THEN host[h] ELSE H, s, no, no)
  BY DEF HandleDisconnect, At, TheCommand, history
<1>2. /\ n \in Nat /\ s \in 1 .. n /\ HostOK(n, host[h]) /\ old = host[h].peers[s]
      /\ SlotOK(old, v, BeingReset(h, s)) /\ SetView(h, s, v) /\ old.state \in PeerStates
  BY <1>1, SlotHere, StaysSet DEF Peers
<1>3. no \in BOOLEAN /\ no = FALSE
  OBVIOUS
<1>4. \/ H = DispatchState(E, s, ZOMBIE)
      \/ H = closed /\ old.state \in Counted /\ c.reliable
      \/ H = Reset(E, s) /\ old.state \notin Counted \cup {CONNECTION_SUCCEEDED, DISCONNECTING}
  BY <1>2 DEF Disconnected
<1> HIDE DEF no, H, n
<1>5. /\ HostOK(n, E) /\ Elsewhere(host[h], E, s) /\ SameLink(old, E.peers[s])
      /\ Bare(E.peers[s])
  BY <1>2, EmptiedPeer
<1> HIDE DEF E, c
<1>6. CASE old.state \in {DISCONNECTED, ZOMBIE, ACKNOWLEDGING_DISCONNECT}
  BY <1>1, <1>3, <1>6, HandledSame
<1>7. CASE /\ old.state \notin {DISCONNECTED, ZOMBIE, ACKNOWLEDGING_DISCONNECT}
           /\ H = DispatchState(E, s, ZOMBIE)
  <2>1. Handled(h, DispatchState(E, s, ZOMBIE), s, no, no)
    BY <1>1, <1>7
  <2> QED BY <1>1, <1>3, <1>5, <2>1, HandledZombie DEF n
<1>8. CASE /\ old.state \notin {DISCONNECTED, ZOMBIE, ACKNOWLEDGING_DISCONNECT}
           /\ H = closed /\ old.state \in Counted /\ c.reliable
  <2>1. Handled(h, closed, s, no, no)
    BY <1>1, <1>8
  <2>2. ACKNOWLEDGING_DISCONNECT \in PeerStates
    BY DEF ACKNOWLEDGING_DISCONNECT, PeerStates
  <2>3. /\ HostOK(n, closed) /\ Elsewhere(E, closed, s)
        /\ SameLink(E.peers[s], closed.peers[s])
        /\ closed.peers[s].state = ACKNOWLEDGING_DISCONNECT
    BY <1>2, <1>5, <2>2, ChangedPeer
  <2> HIDE DEF closed
  <2>4. Elsewhere(host[h], closed, s)
    BY <1>2, <1>5, <2>3, ElsewhereTwice
  <2>5. Acknowledges(closed.peers[s].state, c)
    BY <1>1, <1>8, <2>3 DEF Acknowledges, DISCONNECTED, ACKNOWLEDGING_CONNECT, DISCONNECTING,
       ACKNOWLEDGING_DISCONNECT, ZOMBIE
  <2>6. PICK G, d :
              /\ SetHost(h, G) /\ Elsewhere(host[h], G, s)
              /\ Answered(closed.peers[s], G.peers[s])
              /\ ~ no /\ Acknowledges(closed.peers[s].state, TheCommand(h))
                    /\ TheCommand(h).type = "DISCONNECT" => AcksADisconnect(G.peers[s])
              /\ SetControl(h, d) /\ control[h].reset = NoPeer /\ d.reset = NoPeer
              /\ Resets(d)
    BY <1>1, <1>3, <2>1, <2>3, <2>4, HandledPeer DEF n
  <2>7. AcksADisconnect(G.peers[s])
    BY <1>1, <1>3, <2>5, <2>6 DEF c
  <2>8. v \in {"open", "closing"}
    <3>1. old.state \in {CONNECTED, DISCONNECT_LATER}
      BY <1>8 DEF Counted
    <3> QED BY <1>2, <3>1, KnownByState
  <2>9. G.peers[s].state = ACKNOWLEDGING_DISCONNECT
    BY <2>3, <2>6 DEF Answered
  <2>10. SlotOK(G.peers[s], v, d.reset = s)
    BY <2>7, <2>8, <2>9, AcknowledgingPeer
  <2>11. Means(old, G.peers[s], v, v)
    BY <1>5, <2>3, <2>6 DEF Means, Answered, SameLink
  <2>12. d.reset \in {NoPeer, s} /\ control[h].reset \in {NoPeer, s}
    BY <2>6
  <2> HIDE DEF old
  <2> QED BY <1>2, <2>6, <2>10, <2>11, <2>12, SlotStep DEF SlotsKept, old
<1>9. CASE /\ old.state \notin {DISCONNECTED, ZOMBIE, ACKNOWLEDGING_DISCONNECT}
           /\ H = Reset(E, s)
           /\ old.state \notin Counted \cup {CONNECTION_SUCCEEDED, DISCONNECTING}
  <2>1. Handled(h, Reset(E, s), s, no, no)
    BY <1>1, <1>9
  <2>2. v \notin {"open", "closing"}
    <3>1. old.state \in {CONNECTING, ACKNOWLEDGING_CONNECT, CONNECTION_PENDING}
      <4> HIDE DEF old
      <4> QED BY <1>2, <1>9 DEF PeerStates, Counted, DISCONNECTED, CONNECTING,
           ACKNOWLEDGING_CONNECT, CONNECTION_PENDING, CONNECTION_SUCCEEDED, CONNECTED,
           DISCONNECT_LATER, DISCONNECTING, ACKNOWLEDGING_DISCONNECT, ZOMBIE
    <3> QED BY <1>2, <3>1, KnownByState
  <2> QED BY <1>1, <1>2, <1>3, <1>5, <2>1, <2>2, HandledReset DEF n
<1> QED BY <1>4, <1>6, <1>7, <1>8, <1>9

\* A peer that is shaking hands becomes connected, or pending without an event.
LEMMA NotifiedPeer ==
    ASSUME NEW n \in Nat, NEW H, HostOK(n, H), NEW s \in 1 .. n,
           NEW old, old = H.peers[s], old.dispatched = <<>>,
           NEW event \in BOOLEAN, NEW v, v \notin {"open", "closing"}, NEW r,
           NEW G, G = NotifyConnect(H, s, event)
    PROVE  /\ HostOK(n, G) /\ Elsewhere(H, G, s)
           /\ SlotOK(G.peers[s], IF event THEN "open" ELSE v, r)
<1> DEFINE next == IF old.state = CONNECTING THEN CONNECTION_SUCCEEDED ELSE CONNECTION_PENDING
           new == G.peers[s]
<1>1. CONNECTED \in PeerStates /\ next \in PeerStates
      /\ next \in {CONNECTION_PENDING, CONNECTION_SUCCEEDED}
  BY DEF PeerStates, CONNECTED, CONNECTION_SUCCEEDED, CONNECTION_PENDING
<1>2. CASE event
  <2>1. G = ChangeState(H, s, CONNECTED)
    BY <1>2 DEF NotifyConnect
  <2>2. /\ HostOK(n, G) /\ Elsewhere(H, G, s)
        /\ new.state = CONNECTED /\ new.dispatched = old.dispatched
    BY <1>1, <2>1, ChangedPeer
  <2> HIDE DEF new
  <2>3. SlotOK(new, "open", r)
    BY <2>2, ConnectedPeer
  <2> QED BY <1>2, <2>2, <2>3 DEF new
<1>3. CASE ~ event
  <2>1. G = DispatchState(H, s, next)
    BY <1>3 DEF NotifyConnect
  <2> HIDE DEF next
  <2>2. /\ HostOK(n, G) /\ Elsewhere(H, G, s) /\ new.needsDispatch
        /\ new.state = next /\ new.dispatched = old.dispatched
    BY <1>1, <2>1, DispatchedPeer
  <2> HIDE DEF new
  <2>3. SlotOK(new, v, r)
    BY <1>1, <2>2, PendingPeer
  <2> QED BY <1>3, <2>2, <2>3 DEF new
<1> QED BY <1>2, <1>3

\* A handler that completes a handshake.
LEMMA HandledConnected ==
    ASSUME CInv, NEW h \in Hosts, NEW s \in Slots(h), control[h].phase = "commands",
           NEW H, HostOK(PeerCount[h], H), Elsewhere(host[h], H, s),
           H.peers[s].dispatched = <<>>, view[h][s] \notin {"open", "closing"},
           NEW event \in BOOLEAN, NEW raises,
           Handled(h, NotifyConnect(H, s, event), s, FALSE, raises),
           view' = IF event THEN [view EXCEPT ![h][s] = "open"] ELSE view
    PROVE  SlotsKept
<1> DEFINE n == PeerCount[h]
           G == NotifyConnect(H, s, event)
           no == FALSE
           v == view[h][s]
           w == IF event THEN "open" ELSE v
           old == H.peers[s]
<1>1. n \in Nat /\ s \in 1 .. n /\ HostOK(n, host[h]) /\ HostOK(n, H)
  BY SlotHere
<1>2. no = FALSE /\ no \in BOOLEAN /\ Handled(h, G, s, no, raises)
  OBVIOUS
<1>3. SetView(h, s, w)
  BY StaysSet DEF SetView
<1>a. old = H.peers[s] /\ G = NotifyConnect(H, s, event) /\ v \notin {"open", "closing"}
      /\ old.dispatched = <<>>
  OBVIOUS
<1> HIDE DEF n, no, G, v, old
<1>4. HostOK(n, G) /\ Elsewhere(H, G, s) /\ SlotOK(G.peers[s], w, no)
  BY <1>1, <1>a, NotifiedPeer
<1>5. Elsewhere(host[h], G, s)
  BY <1>1, <1>4, ElsewhereTwice
<1>6. Means(Peer(h, s), G.peers[s], view[h][s], w)
  BY <1>a DEF Means, v
<1> HIDE DEF w
<1> QED BY <1>2, <1>3, <1>4, <1>5, <1>6, HandledFits DEF n

\* A VERIFY_CONNECT.
LEMMA HandleVerifyConnectFits ==
    ASSUME CInv, NEW h \in Hosts, NEW s \in Slots(h), HandleVerifyConnect(h, s)
    PROVE  SlotsKept
<1> DEFINE n == PeerCount[h]
           old == Peer(h, s)
           c == TheCommand(h)
           event == control[h].event
           ack == [Command("ACKNOWLEDGE", ControlChannel, FALSE) EXCEPT !.seq = 1]
           G == RemoveSentReliable(host[h], s, ack)
           mid == G.peers[s]
           peer == [mid EXCEPT !.outgoingPeerID = c.peerID,
                               !.incomingSessionID = c.incoming,
                               !.outgoingSessionID = c.outgoing]
           linked == [G EXCEPT !.peers[s] = peer]
           no == FALSE
           yes == TRUE
<1>1. control[h].phase = "commands"
  BY DEF HandleVerifyConnect, At
<1>2. \/ Handled(h, host[h], s, no, no) /\ UNCHANGED view
      \/ Handled(h, DispatchState(host[h], s, ZOMBIE), s, yes, no) /\ UNCHANGED view
      \/ /\ old.state = CONNECTING
         /\ Handled(h, NotifyConnect(linked, s, event), s, FALSE, event)
         /\ view' = IF event THEN [view EXCEPT ![h][s] = "open"] ELSE view
  BY DEF HandleVerifyConnect, history
<1>3. /\ n \in Nat /\ s \in 1 .. n /\ HostOK(n, host[h]) /\ old = host[h].peers[s]
      /\ SlotOK(old, view[h][s], BeingReset(h, s))
  BY SlotHere
<1>4. c \in Commands /\ event \in BOOLEAN
  BY <1>1, CommandHere DEF CInv
<1>5. no \in BOOLEAN /\ yes \in BOOLEAN
  OBVIOUS
<1> HIDE DEF c, event, n, no, yes, ack
<1>6. CASE Handled(h, host[h], s, no, no) /\ UNCHANGED view
  BY <1>1, <1>5, <1>6, HandledSame
<1>7. CASE Handled(h, DispatchState(host[h], s, ZOMBIE), s, yes, no) /\ UNCHANGED view
  <2>1. Elsewhere(host[h], host[h], s) /\ SameLink(old, host[h].peers[s])
    BY <1>3 DEF Elsewhere, SameLink
  <2> QED BY <1>1, <1>3, <1>5, <1>7, <2>1, HandledZombie DEF n
<1>8. CASE /\ old.state = CONNECTING
           /\ Handled(h, NotifyConnect(linked, s, event), s, FALSE, event)
           /\ view' = IF event THEN [view EXCEPT ![h][s] = "open"] ELSE view
  <2>1. view[h][s] \notin {"open", "closing"} /\ old.dispatched = <<>>
    BY <1>3, <1>8, KnownByState
  <2>2. HostOK(n, G)
    BY <1>3, RemoveSentReliableOK
  <2>3. Elsewhere(host[h], G, s) /\ mid.dispatched = old.dispatched
    BY <1>3, RemoveSentReliablePeer
  <2> HIDE DEF G
  <2>4. mid \in Peers /\ G \in HostRecords(n)
    BY <1>3, <2>2, HostShape
  <2> HIDE DEF mid
  <2>5. /\ c.peerID \in Nat /\ c.incoming \in SessionIDs \cup {NoSession}
        /\ c.outgoing \in SessionIDs \cup {NoSession}
    BY <1>4 DEF Commands
  <2>6. /\ peer \in Peers /\ peer.state = mid.state
        /\ peer.needsDispatch = mid.needsDispatch /\ peer.dispatched = mid.dispatched
    BY <2>4, <2>5 DEF Peers
  <2> HIDE DEF peer
  <2>7. HostOK(n, linked)
    BY <1>3, <2>2, <2>6, PeerUpdated DEF mid
  <2>8. linked.peers = [G.peers EXCEPT ![s] = peer]
    BY <1>3, <2>4 DEF HostRecords
  <2> HIDE DEF linked
  <2>9. Elsewhere(G, linked, s) /\ linked.peers[s] = peer
    BY <1>3, <2>4, <2>8, ElsewhereOf
  <2>10. Elsewhere(host[h], linked, s)
    BY <1>3, <2>2, <2>3, <2>9, ElsewhereTwice
  <2>11. linked.peers[s].dispatched = <<>>
    BY <2>1, <2>3, <2>6, <2>9
  <2> QED BY <1>1, <1>4, <1>8, <2>1, <2>7, <2>10, <2>11, HandledConnected DEF n
<1> QED BY <1>2, <1>6, <1>7, <1>8

\* Among commands of one type none of another is acknowledged.
LEMMA NoneOfAnother ==
    ASSUME NEW peer, NEW type, OnlyOf(peer, type), NEW ack,
           AckedType(peer.sentReliable, ack) # type
    PROVE  ~ HasAcked(peer.sentReliable, ack)
<1> DEFINE q == peer.sentReliable
           k == AckedAt(q, ack)
<1> SUFFICES ASSUME HasAcked(q, ack) PROVE FALSE
  OBVIOUS
<1>1. AckedType(q, ack) = q[k].type
  BY DEF AckedType
<1>2. k \in 1 .. Len(q)
  BY DEF AckedAt, HasAcked
<1> HIDE DEF k
<1>3. q[k].type = type
  BY <1>2 DEF OnlyOf
<1> QED BY <1>1, <1>3

\* An acknowledgement that no state waits for takes a command from those in flight; the
\* last one starts the disconnection that was asked for.
LEMMA AcknowledgedPeer ==
    ASSUME NEW n \in Nat, NEW H, HostOK(n, H), NEW s \in 1 .. n,
           NEW old, old = H.peers[s], NEW v, NEW r, SlotOK(old, v, r),
           old.state \notin {ACKNOWLEDGING_CONNECT, DISCONNECTING, DISCONNECTED, ZOMBIE},
           NEW ack, NEW R, R = RemoveSentReliable(H, s, ack),
           NEW G, G = IF LaterIsDone(R.peers[s]) THEN Disconnect(R, s) ELSE R
    PROVE  /\ HostOK(n, G) /\ Elsewhere(H, G, s) /\ SameLink(old, G.peers[s])
           /\ SlotOK(G.peers[s], v, r)
<1> DEFINE mid == R.peers[s]
           D == Disconnect(R, s)
<1>0. mid = RemoveSentReliable(H, s, ack).peers[s]
  OBVIOUS
<1> HIDE DEF mid
<1>1. HostOK(n, R) /\ Elsewhere(H, R, s)
  BY RemoveSentReliableOK, RemoveSentReliablePeer
<1>2. /\ mid.state = old.state /\ SameLink(old, mid)
      /\ mid.needsDispatch = old.needsDispatch
      /\ mid.dispatched = old.dispatched
      /\ mid.acknowledgements = old.acknowledgements
  BY <1>0, RemoveSentReliablePeer
<1>3. G = IF LaterIsDone(mid) THEN D ELSE R
  BY DEF mid
<1>4. CASE LaterIsDone(mid)
  <2>1. mid.state = DISCONNECT_LATER
    BY <1>4 DEF LaterIsDone
  <2>2. /\ mid.state \notin NoDisconnectFrom /\ mid.state \in Counted
    BY <2>1 DEF NoDisconnectFrom, Counted, DISCONNECTED, CONNECTED, DISCONNECT_LATER,
       DISCONNECTING, ACKNOWLEDGING_DISCONNECT, ZOMBIE
  <2>3. HostOK(n, D) /\ Elsewhere(R, D, s) /\ D.peers[s].state = DISCONNECTING
    BY <1>1, <2>2, DisconnectOK, DisconnectEffect DEF mid
  <2>4. SameLink(mid, D.peers[s]) /\ OnlyOf(D.peers[s], "DISCONNECT")
    BY <1>1, <2>2, DisconnectPeerEffect DEF mid
  <2> HIDE DEF D
  <2>5. Elsewhere(H, D, s)
    BY <1>1, <2>3, ElsewhereTwice
  <2>6. v = "closing"
    BY <1>2, <2>1, KnownByState
  <2>7. SlotOK(D.peers[s], v, r)
    BY <2>3, <2>4, <2>6, ClosingPeer
  <2> QED BY <1>2, <1>3, <1>4, <2>3, <2>4, <2>5, <2>7 DEF SameLink
<1>5. CASE ~ LaterIsDone(mid)
  <2>1. ~ r /\ mid.state = DISCONNECT_LATER /\ ~ NothingQueued(old) => ~ NothingQueued(mid)
    BY <1>5 DEF LaterIsDone
  <2>2. AcksADisconnect(old) => AcksADisconnect(mid)
    BY <1>2 DEF AcksADisconnect
  <2>3. mid.state \notin {ACKNOWLEDGING_CONNECT, DISCONNECTING, DISCONNECTED}
    BY <1>2
  <2>4. SlotOK(mid, v, r)
    BY <1>2, <2>1, <2>2, <2>3, SamePeer
  <2> QED BY <1>1, <1>2, <1>3, <1>5, <2>4 DEF mid
<1> QED BY <1>4, <1>5

\* An acknowledgement.
LEMMA HandleAcknowledgeFits ==
    ASSUME CInv, NEW h \in Hosts, NEW s \in Slots(h), HandleAcknowledge(h, s)
    PROVE  SlotsKept
<1> DEFINE n == PeerCount[h]
           old == Peer(h, s)
           v == view[h][s]
           ack == TheCommand(h)
           removed == AckedType(old.sentReliable, ack)
           R == RemoveSentReliable(host[h], s, ack)
           event == control[h].event
           G == IF LaterIsDone(R.peers[s]) THEN Disconnect(R, s) ELSE R
           no == FALSE
           yes == TRUE
<1>1. control[h].phase = "commands"
  BY DEF HandleAcknowledge, At
<1>2. \/ Handled(h, host[h], s, no, no) /\ UNCHANGED view
      \/ Handled(h, R, s, yes, no) /\ UNCHANGED view /\ IsUnexpected(old.state, removed)
      \/ /\ old.state = ACKNOWLEDGING_CONNECT
         /\ Handled(h, NotifyConnect(R, s, event), s, FALSE, event)
         /\ view' = IF event THEN [view EXCEPT ![h][s] = "open"] ELSE view
      \/ /\ old.state = DISCONNECTING
         /\ Handled(h, NotifyDisconnect(R, s, event), s, no, event)
         /\ view' = IF event THEN [view EXCEPT ![h][s] = "free"] ELSE view
      \/ /\ old.state \notin {DISCONNECTED, ZOMBIE}
         /\ ~ IsUnexpected(old.state, removed)
         /\ ~ (old.state = ACKNOWLEDGING_CONNECT /\ removed = "VERIFY_CONNECT")
         /\ ~ (old.state = DISCONNECTING /\ removed = "DISCONNECT")
         /\ Handled(h, G, s, no, no) /\ UNCHANGED view
  BY DEF HandleAcknowledge, history
<1>3. /\ n \in Nat /\ s \in 1 .. n /\ HostOK(n, host[h]) /\ old = host[h].peers[s]
      /\ SlotOK(old, v, BeingReset(h, s)) /\ ~ BeingReset(h, s)
  BY <1>1, SlotHere, NotResetting
<1>4. event \in BOOLEAN
  BY <1>1, CommandHere DEF CInv
<1>5. no \in BOOLEAN /\ yes \in BOOLEAN /\ no = FALSE
  OBVIOUS
<1> HIDE DEF event, n, no, yes, ack
<1>6. /\ HostOK(n, R) /\ Elsewhere(host[h], R, s)
      /\ ~ HasAcked(old.sentReliable, ack) => R = host[h]
  BY <1>3, RemoveSentReliableOK, RemoveSentReliablePeer
<1>7. SameLink(old, R.peers[s]) /\ R.peers[s].dispatched = old.dispatched
      /\ R.peers[s].state = old.state
  BY <1>3, RemoveSentReliablePeer
<1>8. CASE Handled(h, host[h], s, no, no) /\ UNCHANGED view
  BY <1>1, <1>5, <1>8, HandledSame
<1>9. CASE Handled(h, R, s, yes, no) /\ UNCHANGED view /\ IsUnexpected(old.state, removed)
  <2>1. \/ OnlyOf(old, "VERIFY_CONNECT") /\ removed # "VERIFY_CONNECT"
        \/ OnlyOf(old, "DISCONNECT") /\ removed # "DISCONNECT"
    BY <1>3, <1>9, QueuedByState DEF IsUnexpected
  <2>2. ~ HasAcked(old.sentReliable, ack)
    BY <2>1, NoneOfAnother
  <2>3. Handled(h, host[h], s, yes, no)
    BY <1>6, <1>9, <2>2
  <2> QED BY <1>1, <1>5, <1>9, <2>3, HandledSame
<1>10. CASE /\ old.state = ACKNOWLEDGING_CONNECT
            /\ Handled(h, NotifyConnect(R, s, event), s, FALSE, event)
            /\ view' = IF event THEN [view EXCEPT ![h][s] = "open"] ELSE view
  <2>1. v \notin {"open", "closing"} /\ old.dispatched = <<>>
    BY <1>3, <1>10, KnownByState
  <2>2. R.peers[s].dispatched = <<>>
    BY <1>7, <2>1
  <2> HIDE DEF R
  <2> QED BY <1>1, <1>4, <1>6, <1>10, <2>1, <2>2, HandledConnected DEF n
<1>11. CASE /\ old.state = DISCONNECTING
            /\ Handled(h, NotifyDisconnect(R, s, event), s, no, event)
            /\ view' = IF event THEN [view EXCEPT ![h][s] = "free"] ELSE view
  <2>1. ~ LostSilently(R.peers[s])
    BY <1>7, <1>11 DEF LostSilently, DISCONNECTING, CONNECTION_SUCCEEDED
  <2>2. NotifyDisconnect(R, s, event)
          = IF event THEN Reset(R, s) ELSE DispatchState(R, s, ZOMBIE)
    BY <2>1 DEF NotifyDisconnect
  <2>3. CASE event
    <3>1. SetView(h, s, "free") /\ Handled(h, Reset(R, s), s, no, event)
      BY <1>11, <2>2, <2>3 DEF SetView
    <3> HIDE DEF R
    <3> DEFINE w == "free"
    <3>2. w = "free" /\ w \notin {"open", "closing"} /\ SetView(h, s, w)
      BY <3>1
    <3> HIDE DEF w
    <3> QED BY <1>1, <1>5, <1>6, <3>1, <3>2, HandledReset DEF n
  <2>4. CASE ~ event
    <3>1. UNCHANGED view /\ Handled(h, DispatchState(R, s, ZOMBIE), s, no, event)
      BY <1>11, <2>2, <2>4
    <3> HIDE DEF R
    <3> QED BY <1>1, <1>5, <1>6, <1>7, <3>1, HandledZombie DEF n
  <2> QED BY <1>4, <2>3, <2>4
<1>12. CASE /\ old.state \notin {DISCONNECTED, ZOMBIE}
            /\ ~ IsUnexpected(old.state, removed)
            /\ ~ (old.state = ACKNOWLEDGING_CONNECT /\ removed = "VERIFY_CONNECT")
            /\ ~ (old.state = DISCONNECTING /\ removed = "DISCONNECT")
            /\ Handled(h, G, s, no, no) /\ UNCHANGED view
  <2>1. old.state \notin {ACKNOWLEDGING_CONNECT, DISCONNECTING, DISCONNECTED, ZOMBIE}
    BY <1>12 DEF IsUnexpected
  <2>2. SlotOK(old, v, no)
    BY <1>3, <1>5 DEF SlotOK, Owed, Armed
  <2>3. /\ HostOK(n, G) /\ Elsewhere(host[h], G, s) /\ SameLink(old, G.peers[s])
        /\ SlotOK(G.peers[s], v, no)
    BY <1>3, <2>1, <2>2, AcknowledgedPeer
  <2> HIDE DEF G
  <2>4. SetView(h, s, v) /\ Means(old, G.peers[s], view[h][s], v)
    BY <1>12, <2>3, StaysSet DEF Means
  <2> QED BY <1>1, <1>5, <1>12, <2>3, <2>4, HandledFits DEF n
<1> QED BY <1>2, <1>8, <1>9, <1>10, <1>11, <1>12

\* The slot an accepted CONNECT takes has its VERIFY_CONNECT to send and nothing else.
LEMMA AcceptedPeer ==
    ASSUME NEW n \in Nat, NEW H, HostOK(n, H), NEW s \in 1 .. n,
           NEW address \in Hosts \cup {NoHost}, NEW c \in Commands,
           NEW old, old = H.peers[s], old.state = DISCONNECTED,
           NEW v, NEW r, SlotOK(old, v, r),
           NEW G, G = Accepted(H, s, address, c)
    PROVE  /\ HostOK(n, G) /\ Elsewhere(H, G, s) /\ SlotOK(G.peers[s], v, r)
           /\ v \notin {"open", "closing"}
<1> DEFINE sessionIn == NextSession(c.incoming, old.outgoingSessionID)
           sessionOut == NextSession(c.outgoing, old.incomingSessionID)
           id == c.connectID
           to == c.peerID
           peer == [old EXCEPT !.state = ACKNOWLEDGING_CONNECT, !.channelCount = 1,
                               !.connectID = id, !.address = address,
                               !.outgoingPeerID = to,
                               !.outgoingSessionID = sessionIn,
                               !.incomingSessionID = sessionOut]
           taken == [H EXCEPT !.peers[s] = peer]
           reply == [Command("VERIFY_CONNECT", ControlChannel, TRUE) EXCEPT
                        !.connectID = id, !.peerID = s,
                        !.incoming = sessionIn, !.outgoing = sessionOut]
<1>1. old \in Peers /\ H \in HostRecords(n)
  BY HostShape
<1>2. /\ id \in Nat /\ to \in Nat /\ s \in Nat
      /\ c.incoming \in SessionIDs \cup {NoSession}
      /\ c.outgoing \in SessionIDs \cup {NoSession}
  BY DEF Commands
<1>3. /\ old.outgoingSessionID \in SessionIDs \cup {NoSession}
      /\ old.incomingSessionID \in SessionIDs \cup {NoSession}
  BY <1>1 DEF Peers
<1>4. sessionIn \in SessionIDs /\ sessionOut \in SessionIDs
  BY <1>2, <1>3, NextSessionType
<1>5. G = QueueOutgoing(taken, s, reply)
  BY DEF Accepted
<1> HIDE DEF sessionIn, sessionOut, id, to
<1>6. /\ v \notin {"open", "closing"} /\ old.dispatched = <<>>
      /\ old.outgoingReliable = <<>> /\ old.sentReliable = <<>>
  BY KnownByState
<1>7. ACKNOWLEDGING_CONNECT \in PeerStates /\ ACKNOWLEDGING_CONNECT \notin Counted
      /\ DISCONNECTED \notin Counted
  BY DEF ACKNOWLEDGING_CONNECT, PeerStates, Counted, CONNECTED, DISCONNECT_LATER,
         DISCONNECTED
<1>8. /\ peer \in Peers /\ peer.state = ACKNOWLEDGING_CONNECT
      /\ peer.needsDispatch = old.needsDispatch /\ peer.dispatched = <<>>
      /\ peer.outgoingReliable = <<>> /\ peer.sentReliable = <<>>
  <2> DEFINE placed == [old EXCEPT !.state = ACKNOWLEDGING_CONNECT, !.channelCount = 1,
                                   !.connectID = id, !.address = address]
  <2>1. peer = [placed EXCEPT !.outgoingPeerID = to, !.outgoingSessionID = sessionIn,
                              !.incomingSessionID = sessionOut]
    OBVIOUS
  <2>2. /\ placed \in Peers /\ placed.state = ACKNOWLEDGING_CONNECT
        /\ placed.needsDispatch = old.needsDispatch /\ placed.dispatched = <<>>
        /\ placed.outgoingReliable = <<>> /\ placed.sentReliable = <<>>
    BY <1>1, <1>2, <1>6, <1>7 DEF Peers
  <2> HIDE DEF placed, peer
  <2> QED BY <1>2, <1>4, <2>1, <2>2 DEF Peers
<1> HIDE DEF peer
<1>9. HostOK(n, taken) /\ taken.peers = [H.peers EXCEPT ![s] = peer]
  BY <1>1, <1>7, <1>8, PeerUpdated, SetPeer
<1> HIDE DEF taken
<1>10. Elsewhere(H, taken, s) /\ taken.peers[s] = peer
  BY <1>1, <1>9, ElsewhereOf
<1>11. reply \in Commands /\ reply.reliable = TRUE /\ reply.type = "VERIFY_CONNECT"
  <2>1. Command("VERIFY_CONNECT", ControlChannel, TRUE) \in Commands
    BY CommandType DEF CommandTypes
  <2>2. reply \in Commands
    BY <2>1, <1>2, <1>4, HandshakeCommandType
  <2>3. reply.reliable = TRUE /\ reply.type = "VERIFY_CONNECT"
    BY DEF Command
  <2> QED BY <2>2, <2>3
<1> HIDE DEF reply
<1>12. HostOK(n, G) /\ Elsewhere(taken, G, s)
  BY <1>5, <1>9, <1>11, QueueOutgoingOK, QueueOutgoingEffect
<1>13. Elsewhere(H, G, s)
  BY <1>9, <1>10, <1>12, ElsewhereTwice
<1> DEFINE new == G.peers[s]
           stamped == Stamped(peer, reply)
<1>14. HostOK(n, taken) /\ peer = taken.peers[s] /\ new = QueueOutgoing(taken, s, reply).peers[s]
  BY <1>5, <1>9, <1>10
<1> HIDE DEF new
<1>15. /\ new.state = peer.state /\ new.dispatched = peer.dispatched
       /\ new.sentReliable = peer.sentReliable
  BY <1>11, <1>14, QueueOutgoingPeer
<1>16. /\ Stamped(peer, reply) \in Commands /\ Stamped(peer, reply).type = reply.type
  BY <1>11, <1>14, QueueOutgoingPeer
<1>17. new.outgoingReliable
         = IF reply.reliable THEN Append(peer.outgoingReliable, Stamped(peer, reply))
           ELSE peer.outgoingReliable
  BY <1>11, <1>14, QueueOutgoingPeer
<1> HIDE DEF stamped
<1>18. OnlyOf(new, "VERIFY_CONNECT")
  <2>1. stamped \in Commands /\ stamped.type = "VERIFY_CONNECT"
    BY <1>11, <1>16 DEF stamped
  <2>2. new.outgoingReliable = Append(<<>>, stamped) /\ new.sentReliable = <<>>
    BY <1>8, <1>11, <1>15, <1>17 DEF stamped
  <2> QED BY <2>1, <2>2, AloneInQueue
<1>19. SlotOK(new, v, r)
  BY <1>6, <1>8, <1>15, <1>18, ShakingPeer
<1> QED BY <1>6, <1>12, <1>13, <1>19 DEF new

\* A CONNECT: it is known, there is no room for it, or it takes a slot.
LEMMA HandleConnectFits ==
    ASSUME CInv, NEW h \in Hosts, HandleConnect(h)
    PROVE  SlotsKept
<1> DEFINE c == TheCommand(h)
           n == PeerCount[h]
<1>1. control[h].phase = "commands" /\ UNCHANGED view
  BY DEF HandleConnect, At, history
<1>2. c \in Commands
  BY <1>1, CommandHere DEF CInv
<1>3. CASE IsKnown(h, c) \/ FreeSlots(h) = {}
  <2> DEFINE d == AfterCommand(control[h], TRUE, FALSE, NoPeer)
  <2>1. SetControl(h, d) /\ UNCHANGED <<host, view>>
    BY <1>3 DEF HandleConnect, history
  <2>2. control[h].reset = NoPeer /\ d.reset = NoPeer /\ Resets(d)
    BY <1>1, AfterCommandFits
  <2> HIDE DEF d
  <2> QED BY <2>1, <2>2, HostStays
<1>4. CASE ~ (IsKnown(h, c) \/ FreeSlots(h) = {})
  <2> DEFINE no == FALSE
             from == control[h].from
  <2>1. PICK s \in Slots(h) :
           /\ IsFirstFree(h, s)
           /\ Handled(h, Accepted(host[h], s, from, c), s, no, no)
    BY <1>4 DEF HandleConnect
  <2> DEFINE G == Accepted(host[h], s, from, c)
             old == Peer(h, s)
             v == view[h][s]
  <2>2. /\ n \in Nat /\ s \in 1 .. n /\ HostOK(n, host[h]) /\ old = host[h].peers[s]
        /\ old.state = DISCONNECTED /\ SlotOK(old, v, BeingReset(h, s))
        /\ ~ BeingReset(h, s)
    BY <1>1, <2>1, SlotHere, NotResetting DEF IsFirstFree, FreeSlots
  <2>3. from \in Hosts \cup {NoHost}
    BY DEF CInv, IInv, ControlsOK, ControlOK, Controls
  <2>4. no \in BOOLEAN /\ no = FALSE
    OBVIOUS
  <2> HIDE DEF c, from, no, n, old
  <2>5. SlotOK(old, v, no)
    BY <2>2, <2>4 DEF SlotOK, Owed, Armed
  <2>6. /\ HostOK(n, G) /\ Elsewhere(host[h], G, s) /\ SlotOK(G.peers[s], v, no)
        /\ v \notin {"open", "closing"}
    BY <1>2, <2>2, <2>3, <2>5, AcceptedPeer
  <2>7. SetView(h, s, v) /\ Handled(h, G, s, no, no)
    BY <1>1, <2>1, StaysSet
  <2>8. Means(Peer(h, s), G.peers[s], view[h][s], v)
    BY <2>6 DEF Means
  <2> HIDE DEF G, v
  <2> QED BY <1>1, <2>4, <2>6, <2>7, <2>8, HandledFits DEF n
<1> QED BY <1>3, <1>4

---------------------------------------------------------------------------

\* A slot of a host just created is in order.
LEMMA InitSlots == Init => SlotsOK /\ ResetOnly
<1> SUFFICES ASSUME Init PROVE SlotsOK /\ ResetOnly
  OBVIOUS
<1>1. ResetOnly
  BY ResetsOf DEF Init, ResetOnly
<1>2. ASSUME NEW h \in Hosts, NEW s \in Slots(h)
      PROVE  SlotOK(Peer(h, s), view[h][s], BeingReset(h, s))
  <2>1. Peer(h, s) = FreePeer /\ view[h][s] = "free"
    BY DEF Init, Peer
  <2>2. FreePeer.state = DISCONNECTED /\ Bare(FreePeer)
    BY DEF FreePeer, Bare
  <2> QED BY <2>1, <2>2, FreedPeer
<1> QED BY <1>1, <1>2 DEF SlotsOK

\* A step that changes none of the variables.
LEMMA NothingFits ==
    ASSUME CInv, UNCHANGED vars
    PROVE  SlotsKept
<1>1. ResetOnly' /\ SlotsOK'
  BY DEF CInv, ResetOnly, SlotsOK, Slots, Peer, BeingReset, vars
<1>2. MeaningKept
  BY DEF MeaningKept, Peer, vars
<1> QED BY <1>1, <1>2 DEF SlotsKept

\* Every step of a host keeps its slots in order.
LEMMA HostStepFits ==
    ASSUME CInv, NEW h \in Hosts, HostStep(h)
    PROVE  SlotsKept
<1>1. CASE AppStep(h)
  <2>1. ASSUME NEW s \in Slots(h), ResetPeer(h, s) PROVE SlotsKept
    BY <2>1, ResetCallFits DEF ResetPeer, MayCall
  <2>2. CASE Flush(h) \/ Service(h) \/ CheckEvents(h)
    BY <2>2, OtherCallsFit
  <2>3. ASSUME NEW s \in Slots(h), NEW address \in Hosts, Connect(h, s, address)
        PROVE  SlotsKept
    BY <2>3, ConnectFits
  <2>4. ASSUME NEW s \in Slots(h), SendReliable(h, s) \/ SendUnreliable(h, s)
        PROVE  SlotsKept
    BY <2>4, SendFits
  <2>5. ASSUME NEW s \in Slots(h), DisconnectPeer(h, s) PROVE SlotsKept
    BY <2>5, DisconnectFits
  <2>6. ASSUME NEW s \in Slots(h), DisconnectPeerLater(h, s) PROVE SlotsKept
    BY <2>6, DisconnectLaterFits
  <2>7. ASSUME NEW s \in Slots(h), DisconnectPeerNow(h, s) PROVE SlotsKept
    BY <2>7, DisconnectNowFits
  <2> QED BY <1>1, <2>1, <2>2, <2>3, <2>4, <2>5, <2>6, <2>7 DEF AppStep
<1>2. CASE DispatchStep(h)
  BY <1>2, DispatchDoneFits, DispatchConnectFits, DispatchDisconnectFits,
     DispatchReceiveFits, DispatchNothingFits DEF DispatchStep
<1>3. CASE SendStep(h)
  BY <1>3, FlushDoneFits, SendNothingFits, SendPeerFits, GiveUpFits DEF SendStep
<1>4. CASE ReceiveStep(h)
  BY <1>4, ReceiveFits
<1>5. CASE CommandStep(h)
  BY <1>5, HandleConnectFits, HandleAcknowledgeFits, HandleVerifyConnectFits,
     HandleDisconnectFits, HandlePingFits, HandleSendReliableFits, HandleSendUnreliableFits
     DEF CommandStep
<1> QED BY <1>1, <1>2, <1>3, <1>4, <1>5 DEF HostStep

\* The invariant with the slots is inductive.
LEMMA SlotsInductive == CInv /\ [Next]_vars => CInv' /\ SlotsKept
<1> SUFFICES ASSUME CInv, [Next]_vars PROVE CInv' /\ SlotsKept
  OBVIOUS
<1>1. IInv'
  BY NextKeeps DEF CInv
<1>2. CASE UNCHANGED vars
  BY <1>1, <1>2, NothingFits DEF CInv, SlotsKept
<1>3. CASE Next
  <2>1. PICK h \in Hosts : HostStep(h)
    BY <1>3 DEF Next
  <2> QED BY <1>1, <2>1, HostStepFits DEF CInv, SlotsKept
<1> QED BY <1>2, <1>3

\* The slots of every host are in order in every reachable state.
THEOREM SlotInvariance == Spec => []CInv
<1>1. Init => CInv
  BY InitIInv, InitSlots DEF CInv
<1>2. CInv /\ [Next]_vars => CInv'
  BY SlotsInductive
<1> QED
  BY <1>1, <1>2, PTL DEF Spec

(* A connection the program knows of is not lost behind its back, and every   *)
(* peer that is up or being closed was announced: for any hosts, any calls    *)
(* and whatever the network does.                                             *)
THEOREM InformedCorrect == Spec => []ProgramInformed
<1>1. CInv => ProgramInformed
  BY DEF CInv, SlotsOK, SlotOK, Informed, ProgramInformed
<1> QED
  BY <1>1, SlotInvariance, PTL

(* A peer that owes the program an event is in the dispatch queue, unless the *)
(* program's own call is about to reset it.                                   *)
THEOREM EventsCorrect == Spec => []EventsPending
<1>1. CInv => EventsPending
  BY DEF CInv, SlotsOK, SlotOK, Owed, EventsPending
<1> QED
  BY <1>1, SlotInvariance, PTL

(* A peer that waits for the other side has something in flight that is       *)
(* acknowledged or times out.                                                 *)
THEOREM TimersCorrect == Spec => []TimerArmed
<1>1. CInv => TimerArmed
  <2> SUFFICES ASSUME CInv, NEW h \in Hosts, NEW s \in Slots(h), ~ BeingReset(h, s)
               PROVE  LET peer == Peer(h, s)
                      IN  /\ peer.state \in {ACKNOWLEDGING_CONNECT, DISCONNECTING}
                             => peer.outgoingReliable \o peer.sentReliable # <<>>
                          /\ peer.state = DISCONNECT_LATER => ~ NothingQueued(peer)
                          /\ peer.state = ACKNOWLEDGING_DISCONNECT => AcksADisconnect(peer)
    BY DEF TimerArmed
  <2> DEFINE peer == Peer(h, s)
  <2>1. SlotOK(peer, view[h][s], BeingReset(h, s)) /\ peer \in Peers
    BY SlotHere
  <2> HIDE DEF peer
  <2>2. ASSUME NEW type, OnlyOf(peer, type)
        PROVE  peer.outgoingReliable \o peer.sentReliable # <<>>
    <3>1. peer.outgoingReliable \in Seq(Commands) /\ peer.sentReliable \in Seq(Commands)
      BY <2>1 DEF Peers
    <3> QED BY <2>2, <3>1, NoneOfBoth DEF OnlyOf
  <2>3. /\ peer.state \in {ACKNOWLEDGING_CONNECT, DISCONNECTING}
           => peer.outgoingReliable \o peer.sentReliable # <<>>
        /\ peer.state = DISCONNECT_LATER => ~ NothingQueued(peer)
        /\ peer.state = ACKNOWLEDGING_DISCONNECT => AcksADisconnect(peer)
    BY <2>1, <2>2, QueuedByState
  <2> QED BY <2>3 DEF peer
<1> QED
  BY <1>1, SlotInvariance, PTL

(* The peer pointer of a connection the program knows of means that very      *)
(* connection until the program is told that it is gone.                      *)
THEOREM MeaningCorrect == Spec => PeerKeepsMeaning
<1>1. CInv /\ [Next]_vars =>
        [\A h \in Hosts : \A s \in Slots(h) :
            view[h][s] \in {"open", "closing"} /\ view'[h][s] # "free"
              => /\ Peer(h, s)'.connectID = Peer(h, s).connectID
                 /\ Peer(h, s)'.address = Peer(h, s).address]_vars
  BY SlotsInductive DEF SlotsKept, MeaningKept
<1> QED
  BY <1>1, SlotInvariance, PTL DEF PeerKeepsMeaning, Spec

---------------------------------------------------------------------------
(* One slot for each connection.  Connect identifiers are drawn from the      *)
(* seeds of the hosts; a CONNECT carries the one its sender drew, and a slot  *)
(* keeps the one it was given for as long as it is used.                      *)

\* The commands that shake no hands and acknowledge nothing.
Quiet == {c \in Commands : c.type \notin {"CONNECT", "VERIFY_CONNECT", "ACKNOWLEDGE"}}

\* The acknowledgements; none asks to be acknowledged.
Acks == {c \in Commands : c.type = "ACKNOWLEDGE" /\ ~ c.reliable}

\* The commands whose CONNECTs ask for a connection of D.
Drawing(D) == {c \in Commands : /\ c.type = "CONNECT" => c.connectID \in D
                                /\ c.type = "ACKNOWLEDGE" => c \in Acks}

\* What the peer has to send, acknowledgements apart, is all of T.
Requests(peer, T) ==
    /\ peer.outgoingReliable \in Seq(T)
    /\ peer.sentReliable \in Seq(T)
    /\ peer.outgoingUnreliable \in Seq(T)

\* Peer q is what is left of peer p: of the same connection, or free, and all it has to
\* send besides is quiet.
Heir(p, q) ==
    /\ q.state # DISCONNECTED => p.state # DISCONNECTED /\ SameLink(p, q)
    /\ \A T : Quiet \subseteq T /\ Requests(p, T) => Requests(q, T)

\* Host G is host H with an heir in slot s.
Inherits(H, G, s) ==
    G.randomSeed = H.randomSeed /\ Elsewhere(H, G, s) /\ Heir(H.peers[s], G.peers[s])

\* The states of a peer whose handshake is over and that no one gave up.
Established ==
    Counted \cup {CONNECTION_PENDING, CONNECTION_SUCCEEDED, ACKNOWLEDGING_DISCONNECT}

\* The states of a peer that shakes hands.
Asking == {CONNECTING, ACKNOWLEDGING_CONNECT}

\* Peer q goes no further with the handshake than peer p did, and owes acknowledgements
\* only if its handshake is over.
Calm(p, q) ==
    /\ q.state # DISCONNECTED =>
          p.state # DISCONNECTED /\ q.outgoingPeerID = p.outgoingPeerID
    /\ q.state \in Established => p.state \in Established
    /\ q.state \in Asking => q.state = p.state
    /\ q.acknowledgements # <<>> =>
          q.state \in Established \/ (p.acknowledgements # <<>> /\ p.state \notin Established)

\* Host G is host H with a calm heir in slot s.
Settles(H, G, s) == Inherits(H, G, s) /\ Calm(H.peers[s], G.peers[s])

\* A peer that is bound to the same remote slot and owes the same acknowledgements.
SameTalk(p, q) ==
    q.outgoingPeerID = p.outgoingPeerID /\ q.acknowledgements = p.acknowledgements

\* A change of state that does not complete a handshake is calm.
LEMMA CalmMove ==
    ASSUME NEW p, NEW q, SameTalk(p, q), p.state # DISCONNECTED, q.state \notin Asking,
           q.state \in Established => p.state \in Established,
           p.acknowledgements = <<>> \/ p.state \notin Established \/ q.state \in Established
    PROVE  Calm(p, q)
BY DEF Calm, SameTalk

\* So is none.
LEMMA CalmSame ==
    ASSUME NEW p, NEW q, SameTalk(p, q), q.state = p.state
    PROVE  Calm(p, q)
BY DEF Calm, SameTalk

\* So is the loss of the acknowledgements.
LEMMA CalmBare ==
    ASSUME NEW p, NEW q, q.outgoingPeerID = p.outgoingPeerID, q.acknowledgements = <<>>,
           q.state = p.state
    PROVE  Calm(p, q)
BY DEF Calm

\* So is the end of the peer.
LEMMA CalmFreed ==
    ASSUME NEW p, NEW q, q.acknowledgements = <<>>, q.state = DISCONNECTED
    PROVE  Calm(p, q)
BY DEF Calm, Established, Asking, Counted, CONNECTED, DISCONNECT_LATER, CONNECTION_PENDING,
   CONNECTION_SUCCEEDED, ACKNOWLEDGING_DISCONNECT, CONNECTING, ACKNOWLEDGING_CONNECT,
   DISCONNECTED

\* Steps that settle follow each other.
LEMMA SettlesTwice ==
    ASSUME NEW n \in Nat, NEW H, HostOK(n, H), NEW s \in 1 .. n,
           NEW G, HostOK(n, G), NEW F, Settles(H, G, s), Settles(G, F, s)
    PROVE  Settles(H, F, s)
<1>1. Elsewhere(H, F, s)
  BY ElsewhereTwice DEF Inherits, Settles
<1>2. Heir(H.peers[s], F.peers[s])
  BY DEF Settles, Inherits, Heir, SameLink
<1>3. Calm(H.peers[s], F.peers[s])
  BY DEF Settles, Calm
<1> QED BY <1>1, <1>2, <1>3 DEF Settles, Inherits

\* A slot left alone settles.
LEMMA SettlesSame ==
    ASSUME NEW H, NEW s
    PROVE  Settles(H, H, s)
BY DEF Settles, Inherits, Heir, SameLink, Elsewhere, Calm

\* The heir of an heir is an heir.
LEMMA InheritsTwice ==
    ASSUME NEW n \in Nat, NEW H, HostOK(n, H), NEW s \in 1 .. n,
           NEW G, HostOK(n, G), NEW F, Inherits(H, G, s), Inherits(G, F, s)
    PROVE  Inherits(H, F, s)
<1>1. Elsewhere(H, F, s)
  BY ElsewhereTwice DEF Inherits
<1> QED BY <1>1 DEF Inherits, Heir, SameLink

\* A slot left alone is its own heir.
LEMMA InheritsSame ==
    ASSUME NEW H, NEW s
    PROVE  Inherits(H, H, s)
BY DEF Inherits, Heir, SameLink, Elsewhere

\* A peer that keeps its link and the queues of its commands.
SameQueues(p, q) ==
    /\ q.outgoingReliable = p.outgoingReliable
    /\ q.sentReliable = p.sentReliable
    /\ q.outgoingUnreliable = p.outgoingUnreliable

\* Such a peer is an heir.
LEMMA SameQueuesHeir ==
    ASSUME NEW p, NEW q, SameQueues(p, q), SameLink(p, q),
           q.state # DISCONNECTED => p.state # DISCONNECTED
    PROVE  Heir(p, q)
BY DEF SameQueues, Heir, Requests

\* A peer with nothing to send asks for nothing.
LEMMA BareRequests ==
    ASSUME NEW q, Bare(q)
    PROVE  \A T : Requests(q, T)
<1> SUFFICES ASSUME NEW T PROVE Requests(q, T)
  OBVIOUS
<1>1. <<>> \in Seq(T)
  OBVIOUS
<1> QED BY <1>1 DEF Bare, Requests

\* A host with one peer changed.
LEMMA PeerInherits ==
    ASSUME NEW n \in Nat, NEW H, HostOK(n, H), NEW s \in 1 .. n, NEW peer \in Peers,
           peer.needsDispatch = H.peers[s].needsDispatch,
           peer.state \in Counted <=> H.peers[s].state \in Counted,
           Heir(H.peers[s], peer), NEW G, G = [H EXCEPT !.peers[s] = peer]
    PROVE  /\ HostOK(n, G) /\ Inherits(H, G, s) /\ G.peers[s] = peer
           /\ Calm(H.peers[s], peer) => Settles(H, G, s)
<1>1. H \in HostRecords(n)
  BY HostShape
<1>2. HostOK(n, G)
  <2>1. HostOK(n, [H EXCEPT !.peers[s] = peer])
    BY PeerUpdated
  <2> QED BY <2>1
<1>3. G.peers = [H.peers EXCEPT ![s] = peer] /\ G.randomSeed = H.randomSeed
  BY <1>1 DEF HostRecords
<1>4. ASSUME NEW F, F.peers = [H.peers EXCEPT ![s] = peer]
      PROVE  Elsewhere(H, F, s) /\ F.peers[s] = peer
  BY <1>1, <1>4, ElsewhereOf
<1>5. Elsewhere(H, G, s) /\ G.peers[s] = peer
  BY <1>3, <1>4
<1> QED BY <1>2, <1>3, <1>5 DEF Inherits, Settles

\* enet_protocol_change_state.
LEMMA ChangeStateInherits ==
    ASSUME NEW n \in Nat, NEW H, HostOK(n, H), NEW s \in 1 .. n, NEW state \in PeerStates,
           H.peers[s].state # DISCONNECTED, NEW G, G = ChangeState(H, s, state)
    PROVE  /\ HostOK(n, G) /\ Inherits(H, G, s) /\ G.peers[s].state = state
           /\ SameTalk(H.peers[s], G.peers[s])
<1> DEFINE old == H.peers[s]
           new == [old EXCEPT !.state = state]
<1>1. /\ HostOK(n, G) /\ Elsewhere(H, G, s) /\ G.peers[s] = new /\ G.peers[s].state = state
  <2>1. HostOK(n, ChangeState(H, s, state))
    BY ChangeStateOK
  <2>2. /\ Elsewhere(H, ChangeState(H, s, state), s)
        /\ ChangeState(H, s, state).peers[s] = [H.peers[s] EXCEPT !.state = state]
        /\ ChangeState(H, s, state).peers[s].state = state
    BY ChangeStateEffect
  <2> QED BY <2>1, <2>2
<1>2. old \in Peers /\ H \in HostRecords(n)
  BY HostShape
<1>3. SameLink(old, new) /\ SameQueues(old, new) /\ SameTalk(old, new)
  BY <1>2 DEF Peers, SameLink, SameQueues, SameTalk
<1>4. Heir(old, new)
  BY <1>3, SameQueuesHeir
<1>5. G.randomSeed = H.randomSeed
  <2> DEFINE C == IF state \in Counted THEN OnConnect(H, s) ELSE OnDisconnect(H, s)
  <2>1. C \in HostRecords(n) /\ C.randomSeed = H.randomSeed
    BY <1>2, CounterMoves
  <2>2. G = [C EXCEPT !.peers[s].state = state]
    BY DEF ChangeState
  <2> HIDE DEF C
  <2> QED BY <2>1, <2>2 DEF HostRecords
<1> QED BY <1>1, <1>3, <1>4, <1>5 DEF Inherits

\* The peer enters the dispatch queue.
LEMMA EnterDispatchQueueInherits ==
    ASSUME NEW n \in Nat, NEW H, HostOK(n, H), NEW s \in 1 .. n,
           NEW G, G = EnterDispatchQueue(H, s)
    PROVE  /\ HostOK(n, G) /\ Settles(H, G, s) /\ G.peers[s].state = H.peers[s].state
           /\ SameTalk(H.peers[s], G.peers[s])
<1> DEFINE old == H.peers[s]
           new == [old EXCEPT !.needsDispatch = TRUE]
<1>1. /\ HostOK(n, G) /\ Elsewhere(H, G, s) /\ G.peers[s] = new
      /\ G.peers[s].state = old.state
  <2>1. HostOK(n, EnterDispatchQueue(H, s))
    BY EnterDispatchQueueOK
  <2>2. /\ Elsewhere(H, EnterDispatchQueue(H, s), s)
        /\ EnterDispatchQueue(H, s).peers[s] = [H.peers[s] EXCEPT !.needsDispatch = TRUE]
        /\ EnterDispatchQueue(H, s).peers[s].state = H.peers[s].state
        /\ EnterDispatchQueue(H, s).peers[s].needsDispatch = TRUE
    BY EnterDispatchQueueEffect
  <2> QED BY <2>1, <2>2
<1>2. old \in Peers /\ H \in HostRecords(n)
  BY HostShape
<1>3. /\ SameLink(old, new) /\ SameQueues(old, new) /\ SameTalk(old, new)
      /\ new.state = old.state
  BY <1>2 DEF Peers, SameLink, SameQueues, SameTalk
<1>4. Heir(old, new) /\ Calm(old, new)
  BY <1>3, SameQueuesHeir, CalmSame
<1>5. G.randomSeed = H.randomSeed
  BY <1>2 DEF EnterDispatchQueue, HostRecords
<1> QED BY <1>1, <1>3, <1>4, <1>5 DEF Inherits, Settles

\* enet_protocol_dispatch_state.
LEMMA DispatchStateInherits ==
    ASSUME NEW n \in Nat, NEW H, HostOK(n, H), NEW s \in 1 .. n, NEW state \in PeerStates,
           H.peers[s].state # DISCONNECTED, NEW G, G = DispatchState(H, s, state)
    PROVE  /\ HostOK(n, G) /\ Inherits(H, G, s) /\ G.peers[s].state = state
           /\ SameTalk(H.peers[s], G.peers[s])
<1> DEFINE F == ChangeState(H, s, state)
<1>1. /\ HostOK(n, F) /\ Inherits(H, F, s) /\ F.peers[s].state = state
      /\ SameTalk(H.peers[s], F.peers[s])
  BY ChangeStateInherits
<1>2. G = EnterDispatchQueue(F, s)
  BY DEF DispatchState
<1> HIDE DEF F
<1>3. /\ HostOK(n, G) /\ Inherits(F, G, s) /\ G.peers[s].state = state
      /\ SameTalk(F.peers[s], G.peers[s])
  BY <1>1, <1>2, EnterDispatchQueueInherits DEF Settles
<1>4. Inherits(H, G, s)
  BY <1>1, <1>3, InheritsTwice
<1> QED BY <1>1, <1>3, <1>4 DEF SameTalk

\* enet_peer_reset_queues.
LEMMA ResetQueuesInherits ==
    ASSUME NEW n \in Nat, NEW H, HostOK(n, H), NEW s \in 1 .. n, NEW G, G = ResetQueues(H, s)
    PROVE  /\ HostOK(n, G) /\ Settles(H, G, s) /\ G.peers[s].state = H.peers[s].state
           /\ G.peers[s].acknowledgements = <<>>
<1>1. /\ HostOK(n, G) /\ Elsewhere(H, G, s) /\ SameLink(H.peers[s], G.peers[s])
      /\ Bare(G.peers[s])
  BY EmptiedPeer
<1>2. G.peers[s].state = H.peers[s].state
  BY ResetQueuesEffect
<1>3. Heir(H.peers[s], G.peers[s])
  BY <1>1, <1>2, BareRequests DEF Heir
<1>4. H \in HostRecords(n) /\ H.peers[s] \in Peers
  BY HostShape
<1>5. G.randomSeed = H.randomSeed
  BY <1>4 DEF ResetQueues, HostRecords
<1>6. G.peers[s].outgoingPeerID = H.peers[s].outgoingPeerID
  <2>1. G.peers[s] = EmptyQueues(H.peers[s])
    BY ResetQueuesEffect
  <2> QED BY <1>4, <2>1 DEF EmptyQueues, Peers
<1>7. G.peers[s].acknowledgements = <<>>
  BY <1>1 DEF Bare
<1>8. Calm(H.peers[s], G.peers[s])
  BY <1>2, <1>6, <1>7, CalmBare
<1> QED BY <1>1, <1>2, <1>3, <1>5, <1>7, <1>8 DEF Inherits, Settles

\* enet_peer_reset.
LEMMA ResetInherits ==
    ASSUME NEW n \in Nat, NEW H, HostOK(n, H), NEW s \in 1 .. n,
           NEW G, G = Reset(H, s)
    PROVE  HostOK(n, G) /\ Settles(H, G, s)
<1>1. /\ HostOK(n, G) /\ Elsewhere(H, G, s)
      /\ G.peers[s] = Freed(H.peers[s]) /\ G.peers[s].state = DISCONNECTED
  BY ResetEffect
<1>2. H \in HostRecords(n) /\ H.peers[s] \in Peers
  BY HostShape
<1>3. Bare(G.peers[s])
  BY <1>1, <1>2, BareAfterReset
<1>4. Heir(H.peers[s], G.peers[s])
  BY <1>1, <1>3, BareRequests DEF Heir
<1>5. G.randomSeed = H.randomSeed
  <2> DEFINE C == OnDisconnect(H, s)
             F == [C EXCEPT !.peers[s] = [@ EXCEPT !.outgoingPeerID = NoPeer,
                                                   !.connectID = 0,
                                                   !.state = DISCONNECTED,
                                                   !.address = NoHost,
                                                   !.outgoingSeq = 0]]
  <2>1. C \in HostRecords(n) /\ C.randomSeed = H.randomSeed
    BY <1>2, CounterMoves
  <2>2. G = ResetQueues(F, s)
    BY DEF Reset
  <2> HIDE DEF C
  <2>3. /\ F.randomSeed = C.randomSeed
        /\ [F EXCEPT !.dispatchQueue = Unlink(@, s)].randomSeed = C.randomSeed
    BY <2>1 DEF HostRecords
  <2> HIDE DEF F
  <2>4. ResetQueues(F, s).randomSeed = F.randomSeed
    BY DEF ResetQueues
  <2> QED BY <2>1, <2>2, <2>3, <2>4
<1>6. Calm(H.peers[s], G.peers[s])
  BY <1>1, <1>3, CalmFreed DEF Bare
<1> QED BY <1>1, <1>4, <1>5, <1>6 DEF Inherits, Settles

\* T holds command c whatever its number is.
Numbering(T, c) == \A k \in Nat : [c EXCEPT !.seq = k] \in T

\* Peer q has to send what peer p had to send, and command c.
AsksAlso(p, q, c) ==
    \A T : Numbering(T, c) /\ Requests(p, T) => Requests(q, T)

\* A queue grows by one command.
LEMMA QueueOutgoingAsks ==
    ASSUME NEW n \in Nat, NEW H, HostOK(n, H), NEW s \in 1 .. n, NEW c \in Commands,
           NEW G, G = QueueOutgoing(H, s, c)
    PROVE  /\ HostOK(n, G) /\ Elsewhere(H, G, s) /\ G.randomSeed = H.randomSeed
           /\ SameLink(H.peers[s], G.peers[s])
           /\ G.peers[s].state = H.peers[s].state
           /\ SameTalk(H.peers[s], G.peers[s])
           /\ AsksAlso(H.peers[s], G.peers[s], c)
<1> DEFINE old == H.peers[s]
           peer == Numbered(old, c)
           command == [c EXCEPT !.seq = NumberOf(peer, c)]
           queued == IF c.reliable
                     THEN [peer EXCEPT !.outgoingReliable = Append(@, command)]
                     ELSE [peer EXCEPT !.outgoingUnreliable = Append(@, command)]
<1>1. H \in HostRecords(n) /\ old \in Peers
  BY HostShape
<1>2. peer \in Peers /\ NumberOf(peer, c) \in Nat
  BY <1>1, NumberedType
<1>3. /\ SameLink(old, peer) /\ peer.state = old.state /\ SameQueues(old, peer)
      /\ SameTalk(old, peer)
  BY <1>1 DEF Numbered, Peers, SameLink, SameQueues, SameTalk
<1>4. \A T : Numbering(T, c) => command \in T
  BY <1>2 DEF Numbering
<1>5. G = [H EXCEPT !.peers[s] = queued]
  BY DEF QueueOutgoing
<1> HIDE DEF peer, command
<1>6. SameLink(peer, queued) /\ queued.state = peer.state /\ SameTalk(peer, queued)
  BY <1>2 DEF Peers, SameLink, SameTalk
<1>7. ASSUME NEW T, Numbering(T, c), Requests(peer, T) PROVE Requests(queued, T)
  <2>1. command \in T
    BY <1>4, <1>7
  <2>2. /\ Append(peer.outgoingReliable, command) \in Seq(T)
        /\ Append(peer.outgoingUnreliable, command) \in Seq(T)
    BY <1>7, <2>1, AppendProperties DEF Requests
  <2>3. CASE c.reliable
    <3>1. /\ queued.outgoingReliable = Append(peer.outgoingReliable, command)
          /\ queued.sentReliable = peer.sentReliable
          /\ queued.outgoingUnreliable = peer.outgoingUnreliable
      BY <1>2, <2>3 DEF Peers
    <3> QED BY <1>7, <2>2, <3>1 DEF Requests
  <2>4. CASE ~ c.reliable
    <3>1. /\ queued.outgoingReliable = peer.outgoingReliable
          /\ queued.sentReliable = peer.sentReliable
          /\ queued.outgoingUnreliable = Append(peer.outgoingUnreliable, command)
      BY <1>2, <2>4 DEF Peers
    <3> QED BY <1>7, <2>2, <3>1 DEF Requests
  <2> QED BY <2>3, <2>4
<1> HIDE DEF queued
<1>8. /\ SameLink(old, queued) /\ queued.state = old.state /\ SameTalk(old, queued)
      /\ AsksAlso(old, queued, c)
  BY <1>3, <1>6, <1>7 DEF SameLink, SameQueues, Requests, AsksAlso, SameTalk
<1>9. HostOK(n, G)
  BY QueueOutgoingOK
<1>10. G.peers = [H.peers EXCEPT ![s] = queued] /\ G.randomSeed = H.randomSeed
  BY <1>1, <1>5 DEF HostRecords
<1>11. ASSUME NEW F, F.peers = [H.peers EXCEPT ![s] = queued]
       PROVE  Elsewhere(H, F, s) /\ F.peers[s] = queued
  BY <1>1, <1>11, ElsewhereOf
<1> QED BY <1>8, <1>9, <1>10, <1>11

\* One that is quiet.
LEMMA QueueOutgoingInherits ==
    ASSUME NEW n \in Nat, NEW H, HostOK(n, H), NEW s \in 1 .. n, NEW c \in Quiet,
           NEW G, G = QueueOutgoing(H, s, c)
    PROVE  /\ HostOK(n, G) /\ Settles(H, G, s) /\ G.peers[s].state = H.peers[s].state
           /\ SameTalk(H.peers[s], G.peers[s])
<1>1. c \in Commands /\ \A T : Quiet \subseteq T => Numbering(T, c)
  BY DEF Quiet, Numbering, Commands
<1>2. /\ HostOK(n, G) /\ Elsewhere(H, G, s) /\ G.randomSeed = H.randomSeed
      /\ SameLink(H.peers[s], G.peers[s])
      /\ G.peers[s].state = H.peers[s].state
      /\ SameTalk(H.peers[s], G.peers[s])
      /\ AsksAlso(H.peers[s], G.peers[s], c)
  BY <1>1, QueueOutgoingAsks
<1>3. Heir(H.peers[s], G.peers[s])
  BY <1>1, <1>2 DEF Heir, AsksAlso
<1> QED BY <1>2, <1>3, CalmSame DEF Inherits, Settles

\* A peer of an established connection may owe another acknowledgement.
LEMMA QueueAcknowledgementInherits ==
    ASSUME NEW n \in Nat, NEW H, HostOK(n, H), NEW s \in 1 .. n, NEW c \in Commands,
           NEW G, G = QueueAcknowledgement(H, s, c)
    PROVE  /\ HostOK(n, G) /\ Inherits(H, G, s) /\ G.peers[s].state = H.peers[s].state
           /\ H.peers[s].state \in Established => Settles(H, G, s)
<1> DEFINE old == H.peers[s]
           new == G.peers[s]
<1>1. Elsewhere(H, G, s) /\ Owes(old, new, c)
  BY QueueAcknowledgementPeer
<1>2. HostOK(n, G)
  BY QueueAcknowledgementOK
<1>3. H \in HostRecords(n) /\ old \in Peers
  BY HostShape
<1>4. /\ G.randomSeed = H.randomSeed
      /\ new.outgoingPeerID = old.outgoingPeerID
  BY <1>3 DEF QueueAcknowledgement, HostRecords, Peers
<1> HIDE DEF old, new
<1>5. Heir(old, new) /\ new.state = old.state
  BY <1>1, SameQueuesHeir DEF Owes, SameQueues
<1>6. old.state \in Established => Calm(old, new)
  BY <1>4, <1>5 DEF Calm, Established, Counted, CONNECTED, DISCONNECT_LATER,
     CONNECTION_PENDING, CONNECTION_SUCCEEDED, ACKNOWLEDGING_DISCONNECT, DISCONNECTED
<1> QED BY <1>1, <1>2, <1>4, <1>5, <1>6 DEF Inherits, Settles, old, new

\* An acknowledgement takes a command from the peer.
LEMMA RemoveSentReliableInherits ==
    ASSUME NEW n \in Nat, NEW H, HostOK(n, H), NEW s \in 1 .. n, NEW ack,
           NEW G, G = RemoveSentReliable(H, s, ack)
    PROVE  /\ HostOK(n, G) /\ Settles(H, G, s) /\ G.peers[s].state = H.peers[s].state
           /\ SameTalk(H.peers[s], G.peers[s])
<1> DEFINE old == H.peers[s]
           new == G.peers[s]
           sent == old.sentReliable
           k == AckedAt(sent, ack)
           rest == RemoveAt(sent, k)
           peer == [old EXCEPT !.sentReliable = rest]
<1>1. /\ Elsewhere(H, G, s) /\ new.state = old.state /\ SameLink(old, new)
      /\ new.outgoingReliable = old.outgoingReliable
      /\ new.outgoingUnreliable = old.outgoingUnreliable
      /\ new.acknowledgements = old.acknowledgements
  BY RemoveSentReliablePeer
<1>2. HostOK(n, G)
  BY RemoveSentReliableOK
<1>3. H \in HostRecords(n) /\ old \in Peers
  BY HostShape
<1>4. G.randomSeed = H.randomSeed
  BY <1>3 DEF RemoveSentReliable, HostRecords
<1>5. /\ new.sentReliable = sent \/ (HasAcked(sent, ack) /\ new.sentReliable = rest)
      /\ new.outgoingPeerID = old.outgoingPeerID
  <2>1. CASE HasAcked(sent, ack)
    <3>1. G = [H EXCEPT !.peers[s] = peer]
      BY <2>1 DEF RemoveSentReliable
    <3> HIDE DEF rest
    <3>2. peer.sentReliable = rest /\ peer.outgoingPeerID = old.outgoingPeerID
      BY <1>3 DEF Peers
    <3> HIDE DEF peer
    <3>3. G.peers[s] = peer
      BY <1>3, <3>1 DEF HostRecords
    <3> QED BY <2>1, <3>2, <3>3
  <2>2. CASE ~ HasAcked(sent, ack)
    BY <2>2 DEF RemoveSentReliable
  <2> QED BY <2>1, <2>2
<1>6. ASSUME NEW T, Requests(old, T), HasAcked(sent, ack) PROVE rest \in Seq(T)
  <2>1. k \in 1 .. Len(sent)
    BY <1>6 DEF HasAcked, AckedAt
  <2>2. sent \in Seq(T)
    BY <1>6 DEF Requests
  <2> HIDE DEF k, sent
  <2> QED BY <2>1, <2>2, RemoveAtProperties
<1> HIDE DEF old, new, rest
<1>7. Heir(old, new)
  BY <1>1, <1>5, <1>6 DEF Heir, Requests
<1>8. SameTalk(old, new)
  BY <1>1, <1>5 DEF SameTalk
<1>9. Calm(old, new)
  BY <1>1, <1>8, CalmSame
<1> QED BY <1>1, <1>2, <1>4, <1>7, <1>8, <1>9 DEF Inherits, Settles, old, new

\* The DISCONNECT of a peer takes the place of all it had to send.
LEMMA DisconnectNowInherits ==
    ASSUME NEW n \in Nat, NEW H, HostOK(n, H), NEW s \in 1 .. n, NEW reliable \in BOOLEAN,
           NEW G, G = QueueOutgoing(ResetQueues(H, s), s,
                          Command("DISCONNECT", ControlChannel, reliable))
    PROVE  /\ HostOK(n, G) /\ Settles(H, G, s) /\ G.peers[s].state = H.peers[s].state
           /\ G.peers[s].acknowledgements = <<>>
<1> DEFINE F == ResetQueues(H, s)
           c == Command("DISCONNECT", ControlChannel, reliable)
<1>1. /\ HostOK(n, F) /\ Settles(H, F, s) /\ F.peers[s].state = H.peers[s].state
      /\ F.peers[s].acknowledgements = <<>>
  BY ResetQueuesInherits
<1>2. c \in Commands
  BY CommandType DEF CommandTypes
<1>3. c.type = "DISCONNECT"
  BY DEF Command
<1>4. G = QueueOutgoing(F, s, c)
  OBVIOUS
<1> HIDE DEF F, c
<1>5. c \in Quiet
  BY <1>2, <1>3 DEF Quiet
<1>6. /\ HostOK(n, G) /\ Settles(F, G, s) /\ G.peers[s].state = F.peers[s].state
      /\ SameTalk(F.peers[s], G.peers[s])
  BY <1>1, <1>4, <1>5, QueueOutgoingInherits
<1>7. Settles(H, G, s)
  BY <1>1, <1>6, SettlesTwice
<1> QED BY <1>1, <1>6, <1>7 DEF SameTalk

\* enet_peer_disconnect.
LEMMA DisconnectInherits ==
    ASSUME NEW n \in Nat, NEW H, HostOK(n, H), NEW s \in 1 .. n, NEW G, G = Disconnect(H, s)
    PROVE  HostOK(n, G) /\ Settles(H, G, s)
<1> DEFINE counted == H.peers[s].state \in Counted
           F == QueueOutgoing(ResetQueues(H, s), s,
                    Command("DISCONNECT", ControlChannel, counted))
           closing == [OnDisconnect(F, s) EXCEPT !.peers[s].state = DISCONNECTING]
<1>1. G = IF H.peers[s].state \in NoDisconnectFrom THEN H
          ELSE IF counted THEN closing ELSE F
  BY DEF Disconnect
<1>2. counted \in BOOLEAN /\ (counted => H.peers[s].state # DISCONNECTED)
  BY DEF Counted, CONNECTED, DISCONNECT_LATER, DISCONNECTED
<1> HIDE DEF counted
<1>3. /\ HostOK(n, F) /\ Settles(H, F, s) /\ F.peers[s].state = H.peers[s].state
      /\ F.peers[s].acknowledgements = <<>>
  BY <1>2, DisconnectNowInherits
<1> HIDE DEF F
<1>4. closing = ChangeState(F, s, DISCONNECTING)
  BY DEF ChangeState, DISCONNECTING, Counted, CONNECTED, DISCONNECT_LATER
<1> HIDE DEF closing
<1>5. /\ DISCONNECTING \in PeerStates /\ DISCONNECTING \notin Asking
      /\ DISCONNECTING \notin Established
  BY DEF DISCONNECTING, PeerStates, Asking, Established, Counted, CONNECTED,
         DISCONNECT_LATER, CONNECTION_PENDING, CONNECTION_SUCCEEDED,
         ACKNOWLEDGING_DISCONNECT, CONNECTING, ACKNOWLEDGING_CONNECT
<1>6. counted => /\ HostOK(n, closing) /\ Inherits(F, closing, s)
                 /\ closing.peers[s].state = DISCONNECTING
                 /\ SameTalk(F.peers[s], closing.peers[s])
  <2> SUFFICES ASSUME counted
               PROVE  /\ HostOK(n, closing) /\ Inherits(F, closing, s)
                      /\ closing.peers[s].state = DISCONNECTING
                      /\ SameTalk(F.peers[s], closing.peers[s])
    OBVIOUS
  <2>1. F.peers[s].state # DISCONNECTED
    BY <1>2, <1>3
  <2> QED BY <1>3, <1>4, <1>5, <2>1, ChangeStateInherits
<1>7. counted => Settles(F, closing, s)
  BY <1>2, <1>3, <1>5, <1>6, CalmMove DEF Settles
<1>8. counted => Settles(H, closing, s)
  BY <1>3, <1>6, <1>7, SettlesTwice
<1> QED BY <1>1, <1>3, <1>6, <1>8, SettlesSame

\* enet_protocol_notify_connect.
LEMMA NotifyConnectInherits ==
    ASSUME NEW n \in Nat, NEW H, HostOK(n, H), NEW s \in 1 .. n, NEW event \in BOOLEAN,
           H.peers[s].state # DISCONNECTED, NEW G, G = NotifyConnect(H, s, event)
    PROVE  /\ HostOK(n, G) /\ Inherits(H, G, s) /\ SameTalk(H.peers[s], G.peers[s])
           /\ G.peers[s].state \in Established
<1>1. {CONNECTED, CONNECTION_SUCCEEDED, CONNECTION_PENDING} \subseteq PeerStates \cap Established
  BY DEF CONNECTED, CONNECTION_SUCCEEDED, CONNECTION_PENDING, PeerStates, Established, Counted
<1>2. CASE event
  BY <1>1, <1>2, ChangeStateInherits DEF NotifyConnect
<1>3. CASE ~ event
  <2>1. PICK state \in {CONNECTION_SUCCEEDED, CONNECTION_PENDING} :
            G = DispatchState(H, s, state)
    BY <1>3 DEF NotifyConnect
  <2> QED BY <1>1, <2>1, DispatchStateInherits
<1> QED BY <1>2, <1>3

\* A peer that owes nothing, or whose handshake is not over, becomes a zombie.
LEMMA ZombieSettles ==
    ASSUME NEW n \in Nat, NEW H, HostOK(n, H), NEW s \in 1 .. n,
           H.peers[s].state # DISCONNECTED,
           H.peers[s].acknowledgements = <<>> \/ H.peers[s].state \notin Established,
           NEW G, G = DispatchState(H, s, ZOMBIE)
    PROVE  /\ HostOK(n, G) /\ Settles(H, G, s) /\ G.peers[s].state # DISCONNECTED
           /\ SameTalk(H.peers[s], G.peers[s])
<1>1. /\ ZOMBIE \in PeerStates /\ ZOMBIE \notin Asking /\ ZOMBIE \notin Established
      /\ ZOMBIE # DISCONNECTED
  BY DEF ZOMBIE, PeerStates, Asking, Established, Counted, CONNECTED, DISCONNECT_LATER,
         CONNECTION_PENDING, CONNECTION_SUCCEEDED, ACKNOWLEDGING_DISCONNECT, CONNECTING,
         ACKNOWLEDGING_CONNECT, DISCONNECTED
<1>2. /\ HostOK(n, G) /\ Inherits(H, G, s) /\ G.peers[s].state = ZOMBIE
      /\ SameTalk(H.peers[s], G.peers[s])
  BY <1>1, DispatchStateInherits
<1>3. Calm(H.peers[s], G.peers[s])
  BY <1>1, <1>2, CalmMove
<1> QED BY <1>1, <1>2, <1>3 DEF Settles

\* enet_protocol_notify_disconnect.
LEMMA NotifyDisconnectInherits ==
    ASSUME NEW n \in Nat, NEW H, HostOK(n, H), NEW s \in 1 .. n, NEW event \in BOOLEAN,
           H.peers[s].state # DISCONNECTED,
           H.peers[s].acknowledgements = <<>> \/ H.peers[s].state \notin Established,
           NEW G, G = NotifyDisconnect(H, s, event)
    PROVE  HostOK(n, G) /\ Settles(H, G, s)
<1>2. G = Reset(H, s) \/ G = DispatchState(H, s, ZOMBIE)
  BY DEF NotifyDisconnect
<1>3. G = Reset(H, s) => HostOK(n, G) /\ Settles(H, G, s)
  BY ResetInherits
<1>4. G = DispatchState(H, s, ZOMBIE) => HostOK(n, G) /\ Settles(H, G, s)
  BY ZombieSettles
<1> QED BY <1>2, <1>3, <1>4

\* enet_peer_queue_incoming_command of a reliable packet.
LEMMA QueueIncomingReliableInherits ==
    ASSUME NEW n \in Nat, NEW H, HostOK(n, H), NEW s \in 1 .. n, NEW m \in Nat,
           NEW G, G = QueueIncomingReliable(H, s, m)
    PROVE  HostOK(n, G) /\ Settles(H, G, s)
<1> DEFINE old == H.peers[s]
           new == G.peers[s]
<1>1. HostOK(n, G)
  BY QueueIncomingReliableOK
<1>2. Elsewhere(H, G, s) /\ new.state = old.state
  BY QueueIncomingReliableEffect
<1>3. /\ SameLink(old, new)
      /\ new.outgoingReliable = old.outgoingReliable
      /\ new.sentReliable = old.sentReliable
      /\ new.outgoingUnreliable = old.outgoingUnreliable
      /\ new.acknowledgements = old.acknowledgements
  BY QueueIncomingReliablePeer
<1>4. H \in HostRecords(n) /\ old \in Peers
  BY HostShape
<1>5. /\ G.randomSeed = H.randomSeed
      /\ new.outgoingPeerID = old.outgoingPeerID
  BY <1>4 DEF QueueIncomingReliable, EnterDispatchQueue, HostRecords, Peers
<1> HIDE DEF old, new
<1>6. Heir(old, new)
  BY <1>2, <1>3, SameQueuesHeir DEF SameQueues
<1>7. Calm(old, new)
  BY <1>2, <1>3, <1>5, CalmSame DEF SameTalk
<1> QED BY <1>1, <1>2, <1>5, <1>6, <1>7 DEF Inherits, Settles, old, new

\* An unreliable packet is delivered.
LEMMA UnreliableDeliveredInherits ==
    ASSUME NEW n \in Nat, NEW H, HostOK(n, H), NEW s \in 1 .. n,
           NEW G, G = UnreliableDelivered(H, s)
    PROVE  HostOK(n, G) /\ Settles(H, G, s)
<1> DEFINE old == H.peers[s]
           packets == Append(old.dispatched, 0)
           peer == [old EXCEPT !.dispatched = packets]
           F == [H EXCEPT !.peers[s] = peer]
<1>1. H \in HostRecords(n) /\ old \in Peers
  BY HostShape
<1>2. G = EnterDispatchQueue(F, s)
  BY <1>1 DEF UnreliableDelivered, HostRecords
<1>3. packets \in Seq(Nat)
  BY <1>1, AppendProperties DEF Peers
<1> HIDE DEF packets
<1>4. /\ peer \in Peers /\ peer.state = old.state
      /\ peer.needsDispatch = old.needsDispatch
      /\ SameLink(old, peer) /\ SameQueues(old, peer) /\ SameTalk(old, peer)
  BY <1>1, <1>3 DEF Peers, SameLink, SameQueues, SameTalk
<1> HIDE DEF peer
<1>5. Heir(old, peer) /\ Calm(old, peer)
  BY <1>4, SameQueuesHeir, CalmSame
<1>6. HostOK(n, F) /\ Settles(H, F, s)
  BY <1>4, <1>5, PeerInherits
<1> HIDE DEF F
<1>7. HostOK(n, G) /\ Settles(F, G, s)
  BY <1>2, <1>6, EnterDispatchQueueInherits
<1> QED BY <1>6, <1>7, SettlesTwice

\* The head of the dispatch queue leaves it.
LEMMA PoppedInherits ==
    ASSUME NEW n \in Nat, NEW H, HostOK(n, H), NEW s \in 1 .. n,
           H.dispatchQueue # <<>>, s = Head(H.dispatchQueue), NEW G, G = Popped(H)
    PROVE  /\ HostOK(n, G) /\ Settles(H, G, s)
           /\ G.peers[s].state = H.peers[s].state
<1> DEFINE old == H.peers[s]
           peer == [old EXCEPT !.needsDispatch = FALSE]
<1>1. H \in HostRecords(n) /\ old \in Peers
  BY HostShape
<1>2. HostOK(n, G) /\ G.peers = [H.peers EXCEPT ![s] = peer]
  BY PoppedOK
<1>3. /\ peer.state = old.state /\ SameLink(old, peer) /\ SameQueues(old, peer)
      /\ SameTalk(old, peer)
  BY <1>1 DEF Peers, SameLink, SameQueues, SameTalk
<1>4. G.randomSeed = H.randomSeed
  BY <1>1 DEF Popped, HostRecords
<1> HIDE DEF peer
<1>5. Heir(old, peer) /\ Calm(old, peer)
  BY <1>3, SameQueuesHeir, CalmSame
<1>6. ASSUME NEW F, F.peers = [H.peers EXCEPT ![s] = peer]
      PROVE  Elsewhere(H, F, s) /\ F.peers[s] = peer
  BY <1>1, <1>6 DEF Elsewhere, HostRecords
<1>7. Elsewhere(H, G, s) /\ G.peers[s] = peer
  BY <1>2, <1>6
<1> QED BY <1>2, <1>3, <1>4, <1>5, <1>7 DEF Inherits, Settles

\* The program takes a packet.
LEMMA TakenInherits ==
    ASSUME NEW n \in Nat, NEW H, HostOK(n, H), NEW s \in 1 .. n,
           H.peers[s].dispatched # <<>>, NEW G, G = Taken(H, s)
    PROVE  HostOK(n, G) /\ Settles(H, G, s)
<1> DEFINE old == H.peers[s]
           packets == Tail(old.dispatched)
           peer == [old EXCEPT !.dispatched = packets]
<1>1. H \in HostRecords(n) /\ old \in Peers
  BY HostShape
<1>2. packets \in Seq(Nat)
  <2>1. old.dispatched \in Seq(Nat)
    BY <1>1 DEF Peers
  <2> QED BY <2>1, HeadTailProperties
<1>3. G = [H EXCEPT !.peers[s] = peer]
  BY DEF Taken
<1> HIDE DEF packets
<1>4. /\ peer \in Peers /\ peer.state = old.state
      /\ peer.needsDispatch = old.needsDispatch
      /\ SameLink(old, peer) /\ SameQueues(old, peer) /\ SameTalk(old, peer)
  BY <1>1, <1>2 DEF Peers, SameLink, SameQueues, SameTalk
<1> HIDE DEF peer
<1>5. Heir(old, peer) /\ Calm(old, peer)
  BY <1>4, SameQueuesHeir, CalmSame
<1> QED BY <1>3, <1>4, <1>5, PeerInherits

\* enet_protocol_send_acknowledgements.
LEMMA SendAcknowledgementsInherits ==
    ASSUME NEW n \in Nat, NEW H, HostOK(n, H), NEW s \in 1 .. n,
           H.peers[s].state # DISCONNECTED, NEW G, G = SendAcknowledgements(H, s)
    PROVE  /\ HostOK(n, G) /\ Settles(H, G, s) /\ G.peers[s].state # DISCONNECTED
           /\ G.peers[s].acknowledgements = <<>>
<1> DEFINE old == H.peers[s]
           peer == [old EXCEPT !.acknowledgements = <<>>]
           F == [H EXCEPT !.peers[s] = peer]
<1>1. H \in HostRecords(n) /\ old \in Peers
  BY HostShape
<1>2. G = IF AcksADisconnect(old) THEN DispatchState(F, s, ZOMBIE) ELSE F
  BY DEF SendAcknowledgements
<1>3. /\ peer \in Peers /\ peer.state = old.state
      /\ peer.needsDispatch = old.needsDispatch
      /\ SameLink(old, peer) /\ SameQueues(old, peer)
      /\ peer.outgoingPeerID = old.outgoingPeerID /\ peer.acknowledgements = <<>>
  <2>1. <<>> \in Seq(Commands)
    OBVIOUS
  <2> QED BY <1>1, <2>1 DEF Peers, SameLink, SameQueues
<1> HIDE DEF peer
<1>4. Heir(old, peer) /\ Calm(old, peer)
  BY <1>3, SameQueuesHeir, CalmBare
<1>5. /\ HostOK(n, F) /\ Settles(H, F, s) /\ F.peers[s].state # DISCONNECTED
      /\ F.peers[s].acknowledgements = <<>>
  <2>1. HostOK(n, F) /\ Settles(H, F, s)
    BY <1>3, <1>4, PeerInherits
  <2>2. F.peers[s] = peer
    BY <1>1 DEF HostRecords
  <2> HIDE DEF F
  <2> QED BY <1>3, <2>1, <2>2
<1> HIDE DEF F
<1>6. G = DispatchState(F, s, ZOMBIE) =>
         /\ HostOK(n, G) /\ Settles(F, G, s) /\ G.peers[s].state # DISCONNECTED
         /\ SameTalk(F.peers[s], G.peers[s])
  BY <1>5, ZombieSettles
<1>7. G = DispatchState(F, s, ZOMBIE) => Settles(H, G, s)
  BY <1>5, <1>6, SettlesTwice
<1>8. G.peers[s].acknowledgements = <<>>
  BY <1>2, <1>5, <1>6 DEF SameTalk
<1> QED BY <1>2, <1>5, <1>6, <1>7, <1>8

\* Commands picked from those that were sent ask for no other connection.
LEMMA SplitDrawn ==
    ASSUME NEW T, NEW q \in Seq(T), NEW kept, NEW expired, SplitInto(q, kept, expired)
    PROVE  kept \in Seq(T) /\ expired \in Seq(T)
<1>1. PICK due \in SUBSET (1 .. Len(q)) :
          \E left \in InOrder((1 .. Len(q)) \ due), again \in InOrder(due) :
              kept = Picked(q, left) /\ expired = Picked(q, again)
  BY DEF SplitInto
<1>2. PICK left \in InOrder((1 .. Len(q)) \ due), again \in InOrder(due) :
          kept = Picked(q, left) /\ expired = Picked(q, again)
  BY <1>1
<1>3. (1 .. Len(q)) \ due \in SUBSET (1 .. Len(q))
  OBVIOUS
<1> QED BY <1>2, <1>3, PickedType

\* The commands of a peer move from one of its queues to another.
LEMMA SendReliableCommandsInherits ==
    ASSUME NEW n \in Nat, NEW H, HostOK(n, H), NEW s \in 1 .. n,
           NEW kept, NEW expired, SplitInto(H.peers[s].sentReliable, kept, expired),
           NEW G, G = SendReliableCommands(H, s, kept, expired)
    PROVE  /\ HostOK(n, G) /\ Settles(H, G, s)
           /\ G.peers[s].state = H.peers[s].state
           /\ SameTalk(H.peers[s], G.peers[s])
<1> DEFINE old == H.peers[s]
           sent == kept \o expired \o old.outgoingReliable
           peer == [old EXCEPT !.outgoingReliable = <<>>, !.sentReliable = sent]
<1>1. H \in HostRecords(n) /\ old \in Peers
  BY HostShape
<1>2. /\ HostOK(n, G) /\ Elsewhere(H, G, s) /\ SameLink(old, G.peers[s])
      /\ G.peers[s].state = old.state
  BY SendReliableCommandsPeer DEF AllSent
<1>3. G = [H EXCEPT !.peers[s] = peer]
  BY DEF SendReliableCommands
<1>4. ASSUME NEW T, Requests(old, T) PROVE sent \in Seq(T)
  <2>1. /\ old.sentReliable \in Seq(T)
        /\ old.outgoingReliable \in Seq(T)
    BY <1>4 DEF Requests
  <2>2. kept \in Seq(T) /\ expired \in Seq(T)
    BY <2>1, SplitDrawn
  <2>3. kept \o expired \in Seq(T)
    BY <2>2, ConcatProperties
  <2> QED BY <2>1, <2>3, ConcatProperties
<1> HIDE DEF sent
<1>5. /\ peer.outgoingReliable = <<>> /\ peer.sentReliable = sent
      /\ peer.outgoingUnreliable = old.outgoingUnreliable
      /\ SameTalk(old, peer)
  BY <1>1 DEF Peers, SameTalk
<1> HIDE DEF peer
<1>6. G.peers[s] = peer /\ G.randomSeed = H.randomSeed
  BY <1>1, <1>3 DEF HostRecords
<1>7. ASSUME NEW T, Requests(old, T) PROVE Requests(peer, T)
  <2>1. <<>> \in Seq(T)
    OBVIOUS
  <2> QED BY <1>4, <1>5, <1>7, <2>1 DEF Requests
<1>8. Calm(old, peer)
  BY <1>2, <1>5, <1>6, CalmSame
<1> QED BY <1>2, <1>5, <1>6, <1>7, <1>8 DEF Inherits, Settles, Heir

\* A ping asks for nothing.
LEMMA PingInherits ==
    ASSUME NEW n \in Nat, NEW H, HostOK(n, H), NEW s \in 1 .. n, NEW G, G = Ping(H, s)
    PROVE  /\ HostOK(n, G) /\ Settles(H, G, s)
           /\ G.peers[s].state = H.peers[s].state
           /\ SameTalk(H.peers[s], G.peers[s])
<1> DEFINE old == H.peers[s]
           next == old.outgoingSeq + 1
           command == PingCommand(next)
           sent == Append(old.sentReliable, command)
           peer == [old EXCEPT !.outgoingSeq = next, !.sentReliable = sent]
<1>1. H \in HostRecords(n) /\ old \in Peers
  BY HostShape
<1>2. next \in Nat
  <2>1. old.outgoingSeq \in Nat
    BY <1>1 DEF Peers
  <2> QED BY <2>1
<1>3. G = [H EXCEPT !.peers[s] = peer]
  BY DEF Ping
<1>4. command \in Quiet
  <2> HIDE DEF next
  <2>1. command.type = "PING"
    BY DEF PingCommand, Command
  <2> QED BY <1>2, <2>1, PingCommandType DEF Quiet
<1>5. HostOK(n, G)
  BY PingOK
<1> HIDE DEF next, command
<1>6. /\ SameLink(old, peer) /\ peer.state = old.state
      /\ peer.sentReliable = sent
      /\ peer.outgoingReliable = old.outgoingReliable
      /\ peer.outgoingUnreliable = old.outgoingUnreliable
      /\ SameTalk(old, peer)
  BY <1>1 DEF Peers, SameLink, SameTalk
<1>7. ASSUME NEW T, Quiet \subseteq T, Requests(old, T) PROVE Requests(peer, T)
  <2>1. command \in T
    BY <1>4, <1>7
  <2>2. sent \in Seq(T)
    BY <1>7, <2>1, AppendProperties DEF Requests
  <2> HIDE DEF sent, peer
  <2> QED BY <1>6, <1>7, <2>2 DEF Requests
<1> HIDE DEF peer, sent
<1>8. G.peers = [H.peers EXCEPT ![s] = peer] /\ G.randomSeed = H.randomSeed
  BY <1>1, <1>3 DEF HostRecords
<1>9. ASSUME NEW F, F.peers = [H.peers EXCEPT ![s] = peer]
      PROVE  Elsewhere(H, F, s) /\ F.peers[s] = peer
  BY <1>1, <1>9, ElsewhereOf
<1>10. Elsewhere(H, G, s) /\ G.peers[s] = peer
  BY <1>8, <1>9
<1>11. Calm(old, peer)
  BY <1>6, CalmSame
<1> QED BY <1>5, <1>6, <1>7, <1>8, <1>10, <1>11 DEF Inherits, Settles, Heir

\* The unreliable queue is emptied; a disconnection may be due.
LEMMA SendUnreliableCommandsInherits ==
    ASSUME NEW n \in Nat, NEW H, HostOK(n, H), NEW s \in 1 .. n,
           NEW G, G = SendUnreliableCommands(H, s)
    PROVE  HostOK(n, G) /\ Settles(H, G, s)
<1> DEFINE old == H.peers[s]
           peer == [old EXCEPT !.outgoingUnreliable = <<>>]
           F == [H EXCEPT !.peers[s] = peer]
<1>1. H \in HostRecords(n) /\ old \in Peers
  BY HostShape
<1>2. G = F \/ G = Disconnect(F, s)
  BY DEF SendUnreliableCommands
<1>3. /\ peer \in Peers /\ peer.state = old.state
      /\ peer.needsDispatch = old.needsDispatch
      /\ SameLink(old, peer)
      /\ peer.sentReliable = old.sentReliable
      /\ peer.outgoingReliable = old.outgoingReliable
      /\ peer.outgoingUnreliable = <<>> /\ SameTalk(old, peer)
  <2>1. <<>> \in Seq(Commands)
    OBVIOUS
  <2> QED BY <1>1, <2>1 DEF Peers, SameLink, SameTalk
<1> HIDE DEF peer
<1>4. ASSUME NEW T, Requests(old, T) PROVE Requests(peer, T)
  <2>1. <<>> \in Seq(T)
    OBVIOUS
  <2> QED BY <1>3, <1>4, <2>1 DEF Requests
<1>5. Heir(old, peer) /\ Calm(old, peer)
  BY <1>3, <1>4, CalmSame DEF Heir
<1>6. HostOK(n, F) /\ Settles(H, F, s)
  BY <1>3, <1>5, PeerInherits
<1> HIDE DEF F
<1>7. G = Disconnect(F, s) => HostOK(n, G) /\ Settles(F, G, s)
  BY <1>6, DisconnectInherits
<1>8. G = Disconnect(F, s) => Settles(H, G, s)
  BY <1>6, <1>7, SettlesTwice
<1> QED BY <1>2, <1>6, <1>7, <1>8

\* Whatever its queues hold, a peer sends that and quiet commands, and acknowledgements
\* if it owes any.
LEMMA OutgoingWithin ==
    ASSUME NEW n \in Nat, NEW s \in 1 .. n, NEW ping \in BOOLEAN,
           NEW H, HostOK(n, H), NEW acked, HostOK(n, acked),
           NEW pinged, HostOK(n, pinged), NEW T, T \subseteq Commands, Quiet \subseteq T,
           H.peers[s].acknowledgements = <<>> \/ Acks \subseteq T,
           Requests(acked.peers[s], T), Requests(pinged.peers[s], T),
           NEW expired \in Seq(T)
    PROVE  Outgoing(H, acked, pinged, s, expired, ping) \in Seq(T)
<1> DEFINE acks == H.peers[s].acknowledgements
           a == AckCommands(H.peers[s])
           b == acked.peers[s].outgoingReliable
           d == IF ping THEN <<PingCommand(pinged.peers[s].outgoingSeq)>> ELSE <<>>
           e == UnreliableCommands(pinged, s)
<1>1. H.peers[s] \in Peers /\ pinged.peers[s] \in Peers
  BY HostShape
<1>2. ASSUME NEW q \in Seq(Commands), \A i \in 1 .. Len(q) : q[i] \in T
      PROVE  q \in Seq(T)
  <2>1. Len(q) \in Nat /\ q \in [1 .. Len(q) -> Commands]
    BY LenProperties, SeqDef
  <2>2. q \in [1 .. Len(q) -> T]
    BY <1>2, <2>1
  <2> QED BY <2>1, <2>2, SeqDef
<1>3. a \in Seq(T)
  <2>1. a \in Seq(Commands)
    BY <1>1, AckCommandsType
  <2>2. DOMAIN a = 1 .. Len(a) /\ DOMAIN a = 1 .. Len(acks)
    BY <2>1, LenProperties DEF AckCommands
  <2>3. \A i \in 1 .. Len(a) : a[i].type = "ACKNOWLEDGE" /\ ~ a[i].reliable
    BY <2>2 DEF AckCommands, Command
  <2> HIDE DEF a
  <2>4. \A i \in 1 .. Len(a) : a[i] \in Acks
    BY <2>1, <2>3, ElementOfSeq DEF Acks
  <2>5. acks = <<>> => 1 .. Len(a) = {}
    BY <2>2
  <2>6. \A i \in 1 .. Len(a) : a[i] \in T
    BY <2>4, <2>5
  <2> QED BY <1>2, <2>1, <2>6
<1>4. e \in Seq(T)
  <2> DEFINE q == pinged.peers[s].outgoingUnreliable
  <2>1. e \in Seq(Commands) /\ q \in Seq(T)
    BY <1>1, UnreliableCommandsType DEF Requests
  <2>2. \A i \in 1 .. Len(e) : i \in 1 .. Len(q) /\ (e[i].type # "FREED" => e[i] = q[i])
    <3>1. DOMAIN e = 1 .. Len(e) /\ DOMAIN e = 1 .. Len(q)
      BY <2>1, LenProperties DEF UnreliableCommands
    <3>2. ASSUME NEW i \in 1 .. Len(q)
          PROVE  e[i] = q[i] \/ e[i] = [q[i] EXCEPT !.type = "FREED"]
      BY DEF UnreliableCommands
    <3>3. ASSUME NEW i \in 1 .. Len(q) PROVE [q[i] EXCEPT !.type = "FREED"].type = "FREED"
      <4>1. q[i] \in Commands
        BY <2>1, ElementOfSeq
      <4> HIDE DEF q
      <4> QED BY <4>1 DEF Commands
    <3> HIDE DEF e, q
    <3> QED BY <3>1, <3>2, <3>3
  <2> HIDE DEF e, q
  <2>3. \A i \in 1 .. Len(e) : e[i] \in T
    <3> SUFFICES ASSUME NEW i \in 1 .. Len(e) PROVE e[i] \in T
      OBVIOUS
    <3>1. e[i] \in Commands /\ i \in 1 .. Len(q) /\ q[i] \in T
      BY <2>1, <2>2, ElementOfSeq
    <3>2. e[i].type = "FREED" => e[i] \in Quiet
      BY <3>1 DEF Quiet
    <3> QED BY <2>2, <3>1, <3>2
  <2> QED BY <1>2, <2>1, <2>3
<1>5. d \in Seq(T)
  <2> DEFINE c == PingCommand(pinged.peers[s].outgoingSeq)
  <2>1. pinged.peers[s].outgoingSeq \in Nat
    BY <1>1 DEF Peers
  <2>2. c \in Commands
    BY <2>1, PingCommandType
  <2>3. c.type = "PING"
    BY DEF PingCommand, Command
  <2> HIDE DEF c
  <2>4. c \in T
    BY <2>2, <2>3 DEF Quiet
  <2>5. <<c>> \in Seq(T) /\ <<>> \in Seq(T)
    BY <2>4
  <2> QED BY <2>5 DEF c
<1>6. Outgoing(H, acked, pinged, s, expired, ping) = a \o expired \o b \o d \o e
  BY DEF Outgoing
<1>7. b \in Seq(T) /\ expired \in Seq(T)
  BY DEF Requests
<1> HIDE DEF a, b, d, e
<1>8. a \o expired \in Seq(T)
  BY <1>3, <1>7, ConcatProperties
<1>9. a \o expired \o b \in Seq(T)
  BY <1>7, <1>8, ConcatProperties
<1>10. a \o expired \o b \o d \in Seq(T)
  BY <1>5, <1>9, ConcatProperties
<1>11. a \o expired \o b \o d \o e \in Seq(T)
  BY <1>4, <1>10, ConcatProperties
<1> QED BY <1>6, <1>11

---------------------------------------------------------------------------
(* The invariant                                                              *)

\* The identifiers host h drew until now.
Drawn(h) == FirstSeed[h] + 1 .. host[h].randomSeed

\* The commands ask for connections that host h drew.
Carries(h, commands) == commands \in Seq(Drawing(Drawn(h)))

\* A peer of host h asks for what the host drew; its own identifier was drawn
\* by one of the two ends.
PeerDrawn(h, peer) ==
    /\ Requests(peer, Drawing(Drawn(h)))
    /\ peer.state # DISCONNECTED =>
          peer.address \in Hosts /\ peer.connectID \in Drawn(h) \cup Drawn(peer.address)

\* Two peers are not of one connection.
Distinct(p, q) ==
    p.state # DISCONNECTED /\ q.state # DISCONNECTED => ~ SameLink(p, q)

\* The datagram a host is at asks for what its sender drew.
ControlDrawn(c) == c.phase = "commands" => c.from \in Hosts /\ Carries(c.from, c.commands)

SeedsDrawn ==
    \A h \in Hosts : host[h].randomSeed \in FirstSeed[h] .. FirstSeed[h] + MaxConnects

PeersDrawn == \A h \in Hosts : \A s \in Slots(h) : PeerDrawn(h, Peer(h, s))

PeersDistinct ==
    \A h \in Hosts : \A s, t \in Slots(h) : s # t => Distinct(Peer(h, s), Peer(h, t))

NetDrawn == \A d \in net : Carries(d.from, d.commands)

ControlsDrawn == \A h \in Hosts : ControlDrawn(control[h])

DrawnInv == SeedsDrawn /\ PeersDrawn /\ PeersDistinct /\ NetDrawn /\ ControlsDrawn

\* The identifiers of a host stay drawn.
DrawnGrows == \A g \in Hosts : Drawn(g) \subseteq Drawn(g)'

\* A queue of commands of T is one of a larger set.
LEMMA WiderQueues ==
    ASSUME NEW T, NEW U, T \subseteq U
    PROVE  /\ Seq(T) \subseteq Seq(U)
           /\ \A peer : Requests(peer, T) => Requests(peer, U)
<1>1. Seq(T) \subseteq Seq(U)
  <2> SUFFICES ASSUME NEW q \in Seq(T) PROVE q \in Seq(U)
    OBVIOUS
  <2>1. Len(q) \in Nat /\ q \in [1 .. Len(q) -> T]
    BY LenProperties, SeqDef
  <2>2. q \in [1 .. Len(q) -> U]
    BY <2>1
  <2> QED BY <2>1, <2>2, SeqDef
<1> QED BY <1>1 DEF Requests

\* One of commands of two sets is one of those in both.
LEMMA CommonQueues ==
    ASSUME NEW T, NEW U, NEW W, T \cap U \subseteq W
    PROVE  /\ \A q : q \in Seq(T) /\ q \in Seq(U) => q \in Seq(W)
           /\ \A peer : Requests(peer, T) /\ Requests(peer, U) => Requests(peer, W)
<1>1. ASSUME NEW q \in Seq(T), q \in Seq(U) PROVE q \in Seq(W)
  <2>1. Len(q) \in Nat /\ q \in [1 .. Len(q) -> T] /\ q \in [1 .. Len(q) -> U]
    BY <1>1, LenProperties, SeqDef
  <2>2. q \in [1 .. Len(q) -> W]
    BY <2>1
  <2> QED BY <2>1, <2>2, SeqDef
<1> QED BY <1>1 DEF Requests

\* With more identifiers drawn, what was asked for may still be asked for.
LEMMA RequestsMore ==
    ASSUME NEW D, NEW E, D \subseteq E
    PROVE  /\ Seq(Drawing(D)) \subseteq Seq(Drawing(E))
           /\ \A peer : Requests(peer, Drawing(D)) => Requests(peer, Drawing(E))
<1>1. Drawing(D) \subseteq Drawing(E)
  BY DEF Drawing
<1> QED BY <1>1, WiderQueues

\* Whoever draws may be quiet, and acknowledge.
LEMMA DrawingHolds ==
    ASSUME NEW D
    PROVE  Drawing(D) \subseteq Commands /\ Quiet \subseteq Drawing(D) /\ Acks \subseteq Drawing(D)
BY DEF Drawing, Quiet, Acks

\* What was sent asks for what is drawn.
LEMMA NetStays ==
    ASSUME IInv, NetDrawn, DrawnGrows, UNCHANGED net
    PROVE  NetDrawn'
<1> SUFFICES ASSUME NEW d \in net PROVE Carries(d.from, d.commands)'
  BY DEF NetDrawn
<1>1. d.from \in Hosts
  BY DEF IInv, NetOK, Datagrams
<1>2. Seq(Drawing(Drawn(d.from))) \subseteq Seq(Drawing(Drawn(d.from)'))
  BY <1>1, RequestsMore DEF DrawnGrows
<1> QED BY <1>2 DEF NetDrawn, Carries

\* So does one datagram more.
LEMMA NetAdds ==
    ASSUME IInv, NetDrawn, DrawnGrows, NEW d, d.from \in Hosts,
           Carries(d.from, d.commands), net' = net \cup {d}
    PROVE  NetDrawn'
<1> SUFFICES ASSUME NEW e \in net \cup {d} PROVE Carries(e.from, e.commands)'
  BY DEF NetDrawn
<1>1. e.from \in Hosts /\ Carries(e.from, e.commands)
  BY DEF IInv, NetOK, Datagrams, NetDrawn
<1>2. Seq(Drawing(Drawn(e.from))) \subseteq Seq(Drawing(Drawn(e.from)'))
  BY <1>1, RequestsMore DEF DrawnGrows
<1> QED BY <1>1, <1>2 DEF Carries

\* The control of one host replaced.
LEMMA ControlDrawnSet ==
    ASSUME IInv, ControlsDrawn, DrawnGrows, NEW h \in Hosts, NEW c, ControlDrawn(c),
           SetControl(h, c)
    PROVE  ControlsDrawn'
<1>1. control' = [g \in Hosts |-> IF g = h THEN c ELSE control[g]]
  BY DEF IInv, ControlsOK, IsPerHost, SetControl
<1>2. ASSUME NEW d, ControlDrawn(d) PROVE ControlDrawn(d)'
  <2> SUFFICES ASSUME d.phase = "commands" PROVE Carries(d.from, d.commands)'
    BY <1>2 DEF ControlDrawn
  <2>1. d.from \in Hosts /\ Carries(d.from, d.commands)
    BY <1>2 DEF ControlDrawn
  <2>2. Seq(Drawing(Drawn(d.from))) \subseteq Seq(Drawing(Drawn(d.from)'))
    BY <2>1, RequestsMore DEF DrawnGrows
  <2> QED BY <2>1, <2>2 DEF Carries
<1>3. \A g \in Hosts : control'[g] = c \/ control'[g] = control[g]
  BY <1>1
<1> SUFFICES ASSUME NEW g \in Hosts PROVE ControlDrawn(control[g])'
  BY DEF ControlsDrawn
<1>4. CASE control'[g] = c
  BY <1>2, <1>4 DEF ControlDrawn, Carries
<1>5. CASE control'[g] = control[g]
  <2>1. ControlDrawn(control[g])
    BY DEF ControlsDrawn
  <2>2. PICK d : d = control[g]
    OBVIOUS
  <2>3. ControlDrawn(d)'
    BY <1>2, <2>1, <2>2
  <2> QED BY <1>5, <2>2, <2>3 DEF ControlDrawn, Carries
<1> QED BY <1>3, <1>4, <1>5

---------------------------------------------------------------------------
(* The handshakes.  A connection identifier tells which host drew it and, by  *)
(* an owner function, for which slot: the other end knows it as the remote    *)
(* slot, and both ends of a finished handshake are in the record of those     *)
(* their initiators completed.                                                *)

\* The identifiers host h may ever draw.
Seeded(h) == FirstSeed[h] + 1 .. FirstSeed[h] + MaxConnects

\* The slot each identifier was drawn for.
Owners == [Nat -> Nat \ {0}]

\* The commands whose handshakes name the slots they are of.
Heard(o) ==
    {c \in Commands : /\ c.type = "CONNECT" => c.peerID = o[c.connectID]
                      /\ c.type = "VERIFY_CONNECT" => c.peerID # NoPeer}

\* Those that acknowledge nothing.
Spoken(o) == {c \in Heard(o) : c.type # "ACKNOWLEDGE"}

HasAck(q) == \E i \in 1 .. Len(q) : q[i].type = "ACKNOWLEDGE"

\* The handshake of peer p of slot s of host h, when h asked for the connection.
InitiatorOf(h, s, p) ==
    [initiator |-> h, slot |-> s, acceptor |-> p.address, peer |-> p.outgoingPeerID,
     id |-> p.connectID]

\* The same when the other side asked.
AcceptorOf(h, s, p) ==
    [initiator |-> p.address, slot |-> p.outgoingPeerID, acceptor |-> h, peer |-> s,
     id |-> p.connectID]

\* The end of a connection host h asked for; V are the handshakes completed.
NearEnd(o, V, h, s, p) ==
    /\ s = o[p.connectID]
    /\ p.state # ACKNOWLEDGING_CONNECT
    /\ p.state \in Established => InitiatorOf(h, s, p) \in V

\* The end of one it was asked for.
FarEnd(o, V, h, s, p) ==
    /\ p.outgoingPeerID = o[p.connectID]
    /\ p.state # CONNECTING
    /\ p.state \in Established => AcceptorOf(h, s, p) \in V

Shakes(o, V, h, s, p) ==
    /\ Requests(p, Spoken(o))
    /\ p.acknowledgements # <<>> => p.state \in Established
    /\ p.state # DISCONNECTED =>
          /\ p.address # h
          /\ p.connectID \in Seeded(h) => NearEnd(o, V, h, s, p)
          /\ p.connectID \notin Seeded(h) => FarEnd(o, V, h, s, p)

\* A datagram with an acknowledgement comes from a peer whose handshake is over.
DatagramShakes(o, V, d) ==
    /\ d.commands \in Seq(Heard(o))
    /\ d.to # d.from
    /\ HasAck(d.commands) =>
          /\ d.peerID # NoPeer
          /\ d.id \in Seeded(d.from) =>
                \E k : [initiator |-> d.from, slot |-> k, acceptor |-> d.to,
                        peer |-> d.peerID, id |-> d.id] \in V

\* A host at an acknowledgement for a connection it was asked for is at one of the
\* side that asked.
ControlShakes(o, V, h, c, H) ==
    c.phase = "commands" =>
        /\ c.commands \in Seq(Heard(o))
        /\ c.from # h
        /\ HasAck(c.commands) =>
              /\ c.peer # NoPeer
              /\ H.peers[c.peer].state = ACKNOWLEDGING_CONNECT =>
                    AcceptorOf(h, c.peer, H.peers[c.peer]) \in V

VerifiedOwned(o) ==
    \A r \in verified : /\ r.initiator \in Hosts /\ r.id \in Drawn(r.initiator)
                        /\ r.slot = o[r.id] /\ r.peer # NoPeer

PeersShake(o) == \A h \in Hosts : \A s \in Slots(h) : Shakes(o, verified, h, s, Peer(h, s))

NetShakes(o) == \A d \in net : DatagramShakes(o, verified, d)

ControlsShake(o) == \A h \in Hosts : ControlShakes(o, verified, h, control[h], host[h])

Agreed(o) == VerifiedOwned(o) /\ PeersShake(o) /\ NetShakes(o) /\ ControlsShake(o)

HandshakeInv == \E o \in Owners : Agreed(o)

\* What SessionFence says of a step.
Fenced ==
    \A h \in Hosts, d \in net :
        Receive(h, d) /\ d.peerID # NoPeer
          => \/ Peer(h, d.peerID).outgoingPeerID = NoPeer
             \/ d.id = Peer(h, d.peerID).connectID

\* A step keeps to the identifiers drawn and, behind the fence, to the handshakes.
Onward == DrawnInv' /\ (HandshakeInv /\ Fenced => HandshakeInv')

\* The quiet commands shake no hands; to hear is to speak or to acknowledge.
LEMMA HeardHolds ==
    ASSUME NEW o
    PROVE  /\ Heard(o) \subseteq Commands /\ Quiet \subseteq Heard(o) /\ Acks \subseteq Heard(o)
           /\ Spoken(o) \subseteq Heard(o) /\ Quiet \subseteq Spoken(o)
BY DEF Heard, Spoken, Quiet, Acks

\* Whatever is left of a peer by a step that shakes no hands, shakes them as before.
LEMMA ShakesOn ==
    ASSUME NEW o, NEW V, NEW W, V \subseteq W, NEW h, NEW s, NEW p, NEW q,
           Shakes(o, V, h, s, p), Heir(p, q), Calm(p, q)
    PROVE  Shakes(o, W, h, s, q)
<1>1. Requests(q, Spoken(o))
  BY HeardHolds DEF Shakes, Heir
<1>2. q.acknowledgements # <<>> => q.state \in Established
  BY DEF Shakes, Calm
<1>3. ASSUME q.state # DISCONNECTED
      PROVE  /\ p.state # DISCONNECTED /\ q.address = p.address
             /\ q.connectID = p.connectID /\ q.outgoingPeerID = p.outgoingPeerID
             /\ InitiatorOf(h, s, q) = InitiatorOf(h, s, p)
             /\ AcceptorOf(h, s, q) = AcceptorOf(h, s, p)
  <2>1. /\ p.state # DISCONNECTED /\ q.address = p.address
        /\ q.connectID = p.connectID /\ q.outgoingPeerID = p.outgoingPeerID
    BY <1>3 DEF Heir, Calm, SameLink
  <2> QED BY <2>1 DEF InitiatorOf, AcceptorOf
<1>4. q.state # DISCONNECTED /\ q.connectID \in Seeded(h) => NearEnd(o, W, h, s, q)
  <2> SUFFICES ASSUME q.state # DISCONNECTED, q.connectID \in Seeded(h)
               PROVE  NearEnd(o, W, h, s, q)
    OBVIOUS
  <2>1. NearEnd(o, V, h, s, p)
    BY <1>3 DEF Shakes
  <2>2. q.state # ACKNOWLEDGING_CONNECT
    BY <2>1 DEF NearEnd, Calm, Asking
  <2> QED BY <1>3, <2>1, <2>2 DEF NearEnd, Calm
<1>5. q.state # DISCONNECTED /\ q.connectID \notin Seeded(h) => FarEnd(o, W, h, s, q)
  <2> SUFFICES ASSUME q.state # DISCONNECTED, q.connectID \notin Seeded(h)
               PROVE  FarEnd(o, W, h, s, q)
    OBVIOUS
  <2>1. FarEnd(o, V, h, s, p)
    BY <1>3 DEF Shakes
  <2>2. q.state # CONNECTING
    BY <2>1 DEF FarEnd, Calm, Asking
  <2> QED BY <1>3, <2>1, <2>2 DEF FarEnd, Calm
<1> QED BY <1>1, <1>2, <1>3, <1>4, <1>5 DEF Shakes

\* A peer left alone does.
LEMMA ShakesSame ==
    ASSUME NEW o, NEW V, NEW W, V \subseteq W, NEW h, NEW s, NEW p, Shakes(o, V, h, s, p)
    PROVE  Shakes(o, W, h, s, p)
BY DEF Shakes, NearEnd, FarEnd

\* A host at the same command, with more handshakes completed.
LEMMA ControlShakesSame ==
    ASSUME NEW o, NEW V, NEW W, V \subseteq W, NEW h, NEW c, NEW H, ControlShakes(o, V, h, c, H)
    PROVE  ControlShakes(o, W, h, c, H)
BY DEF ControlShakes

\* The same datagrams, with more handshakes completed.
LEMMA NetShakesOn ==
    ASSUME NEW o, NetShakes(o), verified \subseteq verified', UNCHANGED net
    PROVE  NetShakes(o)'
BY DEF NetShakes, DatagramShakes

\* A step of one host, of one slot of it, that keeps the owners of the identifiers.
LEMMA AgreedStep ==
    ASSUME IInv, NEW h \in Hosts, NEW s \in Slots(h),
           NEW G, SetHost(h, G), Elsewhere(host[h], G, s), NEW c, SetControl(h, c),
           NEW o, Agreed(o), verified \subseteq verified', VerifiedOwned(o)', NetShakes(o)',
           Shakes(o, verified', h, s, G.peers[s]), ControlShakes(o, verified', h, c, G)
    PROVE  Agreed(o)'
<1>1. host' = [g \in Hosts |-> IF g = h THEN G ELSE host[g]]
  BY DEF IInv, HostsOK, IsPerHost, SetHost
<1>2. control' = [g \in Hosts |-> IF g = h THEN c ELSE control[g]]
  BY DEF IInv, ControlsOK, IsPerHost, SetControl
<1>3. host[h].peers \in [1 .. PeerCount[h] -> Peers] /\ Slots(h) = 1 .. PeerCount[h]
  BY HostHere, HostShape DEF Slots
<1>4. PeersShake(o)'
  <2> SUFFICES ASSUME NEW g \in Hosts, NEW t \in Slots(g)
               PROVE  Shakes(o, verified', g, t, Peer(g, t)')
    BY DEF PeersShake, Slots
  <2>1. CASE g = h /\ t = s
    <3>1. Peer(g, t)' = G.peers[s]
      BY <1>1, <2>1 DEF Peer
    <3> QED BY <2>1, <3>1
  <2>2. CASE ~ (g = h /\ t = s)
    <3>1. Peer(g, t)' = Peer(g, t)
      BY <1>1, <1>3, <2>2 DEF Peer, Elsewhere
    <3>2. Shakes(o, verified, g, t, Peer(g, t))
      BY DEF Agreed, PeersShake
    <3>3. Shakes(o, verified', g, t, Peer(g, t))
      BY <3>2, ShakesSame
    <3> QED BY <3>1, <3>3
  <2> QED BY <2>1, <2>2
<1>5. ControlsShake(o)'
  <2> SUFFICES ASSUME NEW g \in Hosts
               PROVE  ControlShakes(o, verified', g, control'[g], host'[g])
    BY DEF ControlsShake
  <2>1. CASE g = h
    BY <1>1, <1>2, <2>1
  <2>2. CASE g # h
    <3>1. ControlShakes(o, verified, g, control[g], host[g])
      BY DEF Agreed, ControlsShake
    <3>2. ControlShakes(o, verified', g, control[g], host[g])
      BY <3>1, ControlShakesSame
    <3> QED BY <1>1, <1>2, <2>2, <3>2
  <2> QED BY <2>1, <2>2
<1> QED BY <1>4, <1>5 DEF Agreed

\* The handshakes completed keep their owners.
LEMMA VerifiedStays ==
    ASSUME NEW o, VerifiedOwned(o), DrawnGrows, UNCHANGED verified
    PROVE  VerifiedOwned(o)'
<1> SUFFICES ASSUME NEW r \in verified
             PROVE  /\ r.initiator \in Hosts /\ r.id \in Drawn(r.initiator)'
                    /\ r.slot = o[r.id] /\ r.peer # NoPeer
  BY DEF VerifiedOwned, Drawn
<1> QED BY DEF VerifiedOwned, DrawnGrows

\* A host drew some of what it may draw.
LEMMA DrawnSeeded ==
    ASSUME SeedsDrawn, SeedsApart, NEW h \in Hosts
    PROVE  Drawn(h) \subseteq Seeded(h)
<1>1. /\ FirstSeed[h] \in Nat /\ MaxConnects \in Nat
      /\ host[h].randomSeed \in FirstSeed[h] .. FirstSeed[h] + MaxConnects
  BY SeedAssumption DEF SeedsDrawn, SeedsApart
<1> QED BY <1>1 DEF Drawn, Seeded

\* An identifier nobody drew may be given any owner.
LEMMA OwnerFresh ==
    ASSUME IInv, DrawnInv, NEW o \in Owners, Agreed(o), NEW id \in Nat, NEW s \in Nat \ {0},
           \A g \in Hosts : id \notin Drawn(g), NEW p, p = [o EXCEPT ![id] = s]
    PROVE  p \in Owners /\ p[id] = s /\ Agreed(p)
<1>1. p \in Owners /\ p[id] = s /\ \A k \in Nat : k # id => p[k] = o[k]
  BY DEF Owners
<1>2. ASSUME NEW g \in Hosts, NEW k \in Drawn(g) PROVE p[k] = o[k] /\ k # id
  <2>1. k \in Nat
    BY SeedAssumption DEF Drawn
  <2> QED BY <1>1, <2>1
<1>3. ASSUME NEW g \in Hosts
      PROVE  /\ Drawing(Drawn(g)) \cap Heard(o) \subseteq Heard(p)
             /\ Drawing(Drawn(g)) \cap Spoken(o) \subseteq Spoken(p)
  BY <1>2 DEF Drawing, Heard, Spoken
<1>4. VerifiedOwned(p)
  BY <1>2 DEF Agreed, VerifiedOwned
<1>5. PeersShake(p)
  <2> SUFFICES ASSUME NEW h \in Hosts, NEW t \in Slots(h)
               PROVE  Shakes(p, verified, h, t, Peer(h, t))
    BY DEF PeersShake
  <2>1. PICK q : q = Peer(h, t)
    OBVIOUS
  <2>2. Shakes(o, verified, h, t, q) /\ PeerDrawn(h, q)
    BY <2>1 DEF Agreed, PeersShake, DrawnInv, PeersDrawn
  <2>3. Requests(q, Spoken(p))
    <3>1. Requests(q, Spoken(o)) /\ Requests(q, Drawing(Drawn(h)))
      BY <2>2 DEF Shakes, PeerDrawn
    <3> QED BY <1>3, <3>1, CommonQueues
  <2>4. q.state # DISCONNECTED => p[q.connectID] = o[q.connectID]
    BY <1>2, <2>2 DEF PeerDrawn
  <2>5. Shakes(p, verified, h, t, q)
    BY <2>2, <2>3, <2>4 DEF Shakes, NearEnd, FarEnd
  <2> QED BY <2>1, <2>5
<1>6. NetShakes(p)
  <2> SUFFICES ASSUME NEW d \in net PROVE DatagramShakes(p, verified, d)
    BY DEF NetShakes
  <2>1. d.from \in Hosts /\ d.commands \in Seq(Drawing(Drawn(d.from)))
    BY DEF IInv, NetOK, Datagrams, DrawnInv, NetDrawn, Carries
  <2>2. DatagramShakes(o, verified, d)
    BY DEF Agreed, NetShakes
  <2>3. d.commands \in Seq(Heard(p))
    BY <1>3, <2>1, <2>2, CommonQueues DEF DatagramShakes
  <2> QED BY <2>2, <2>3 DEF DatagramShakes
<1>7. ControlsShake(p)
  <2> SUFFICES ASSUME NEW h \in Hosts
               PROVE  ControlShakes(p, verified, h, control[h], host[h])
    BY DEF ControlsShake
  <2>1. ControlShakes(o, verified, h, control[h], host[h])
    BY DEF Agreed, ControlsShake
  <2>2. CASE control[h].phase # "commands"
    BY <2>2 DEF ControlShakes
  <2>3. CASE control[h].phase = "commands"
    <3>1. /\ control[h].from \in Hosts
          /\ control[h].commands \in Seq(Drawing(Drawn(control[h].from)))
      BY <2>3 DEF DrawnInv, ControlsDrawn, ControlDrawn, Carries
    <3>2. control[h].commands \in Seq(Heard(o))
      BY <2>1, <2>3 DEF ControlShakes
    <3>3. Drawing(Drawn(control[h].from)) \cap Heard(o) \subseteq Heard(p)
      BY <1>3, <3>1
    <3>4. ASSUME NEW q, NEW T, q \in Seq(T), q \in Seq(Heard(o)), T \cap Heard(o) \subseteq Heard(p)
          PROVE  q \in Seq(Heard(p))
      BY <3>4, CommonQueues
    <3>5. control[h].commands \in Seq(Heard(p))
      BY <3>1, <3>2, <3>3, <3>4
    <3> QED BY <2>1, <3>5 DEF ControlShakes
  <2> QED BY <2>2, <2>3
<1> QED BY <1>1, <1>4, <1>5, <1>6, <1>7 DEF Agreed

---------------------------------------------------------------------------
(* Steps that leave a slot to its heir                                        *)

\* The hosts after a step of one of them.
LEMMA HeirStep ==
    ASSUME IInv, DrawnInv, NEW h \in Hosts, NEW s \in Slots(h), NEW G,
           SetHost(h, G), Inherits(host[h], G, s)
    PROVE  /\ SeedsDrawn' /\ PeersDrawn' /\ PeersDistinct'
           /\ \A g \in Hosts : Drawn(g)' = Drawn(g)
<1>1. host' = [g \in Hosts |-> IF g = h THEN G ELSE host[g]]
  BY DEF IInv, HostsOK, IsPerHost, SetHost
<1>2. host[h].peers \in [1 .. PeerCount[h] -> Peers] /\ Slots(h) = 1 .. PeerCount[h]
  BY HostHere, HostShape DEF Slots
<1>3. \A g \in Hosts : host'[g].randomSeed = host[g].randomSeed
  BY <1>1 DEF Inherits
<1>4. \A g \in Hosts : Drawn(g)' = Drawn(g)
  BY <1>3 DEF Drawn
<1>5. SeedsDrawn'
  BY <1>3 DEF DrawnInv, SeedsDrawn
<1>6. ASSUME NEW g \in Hosts, NEW t \in Slots(g)
      PROVE  Heir(Peer(g, t), Peer(g, t)')
  <2>1. CASE g = h /\ t = s
    BY <1>1, <2>1 DEF Peer, Inherits
  <2>2. CASE ~ (g = h /\ t = s)
    <3>1. Peer(g, t)' = Peer(g, t)
      BY <1>1, <1>2, <2>2 DEF Peer, Inherits, Elsewhere
    <3> QED BY <3>1 DEF Heir, SameLink
  <2> QED BY <2>1, <2>2
<1>7. PeersDrawn'
  <2> SUFFICES ASSUME NEW g \in Hosts, NEW t \in Slots(g) PROVE PeerDrawn(g, Peer(g, t))'
    BY DEF PeersDrawn, Slots
  <2>1. PICK p : p = Peer(g, t)
    OBVIOUS
  <2>2. PICK q : q = Peer(g, t)'
    OBVIOUS
  <2>3. PeerDrawn(g, p) /\ Heir(p, q)
    BY <1>6, <2>1, <2>2 DEF DrawnInv, PeersDrawn
  <2>4. PeerDrawn(g, q)
    BY <2>3, DrawingHolds DEF PeerDrawn, Heir, SameLink
  <2> QED BY <1>4, <2>2, <2>4 DEF PeerDrawn
<1>8. PeersDistinct'
  <2> SUFFICES ASSUME NEW g \in Hosts, NEW t \in Slots(g), NEW u \in Slots(g), t # u
               PROVE  Distinct(Peer(g, t)', Peer(g, u)')
    BY DEF PeersDistinct, Slots
  <2>1. Distinct(Peer(g, t), Peer(g, u))
    BY DEF DrawnInv, PeersDistinct
  <2>2. Heir(Peer(g, t), Peer(g, t)') /\ Heir(Peer(g, u), Peer(g, u)')
    BY <1>6
  <2> QED BY <2>1, <2>2 DEF Distinct, Heir, SameLink
<1> QED BY <1>4, <1>5, <1>7, <1>8

\* The control of a host is out of the datagram, or on to the next command for slot s.
Steady(h, c, s) ==
    c.phase = "commands" =>
        /\ control[h].phase = "commands" /\ control[h].peer = s /\ c.peer = s
        /\ c.from = control[h].from /\ c.commands = Tail(control[h].commands)

\* What is left of a datagram asks for no other connection and acknowledges no more.
LEMMA RestShakes ==
    ASSUME IInv, NEW h \in Hosts, control[h].phase = "commands",
           NEW c, c.from = control[h].from, c.commands = Tail(control[h].commands)
    PROVE  /\ DrawnInv => ControlDrawn(c)
           /\ \A o : Agreed(o) => c.commands \in Seq(Heard(o)) /\ c.from # h
           /\ HasAck(c.commands) => HasAck(control[h].commands)
<1> DEFINE q == control[h].commands
<1>1. c.from = control[h].from /\ c.commands = Tail(q)
  OBVIOUS
<1>2. q # <<>> /\ q \in Seq(Commands)
  BY CommandHere DEF ControlOK, Controls
<1> HIDE DEF q
<1>3. ASSUME NEW T, q \in Seq(T) PROVE Tail(q) \in Seq(T)
  BY <1>2, <1>3, HeadTailProperties
<1>4. DrawnInv => ControlDrawn(c)
  <2> SUFFICES ASSUME DrawnInv PROVE ControlDrawn(c)
    OBVIOUS
  <2>1. c.from \in Hosts /\ q \in Seq(Drawing(Drawn(c.from)))
    BY <1>1 DEF DrawnInv, ControlsDrawn, ControlDrawn, Carries, q
  <2> QED BY <1>1, <1>3, <2>1 DEF ControlDrawn, Carries
<1>5. HasAck(Tail(q)) => HasAck(q)
  <2>1. /\ Len(q) \in Nat /\ Len(Tail(q)) = Len(q) - 1
        /\ \A i \in 1 .. Len(Tail(q)) : Tail(q)[i] = q[i + 1]
    BY <1>2, HeadTailProperties, LenProperties
  <2> SUFFICES ASSUME NEW i \in 1 .. Len(Tail(q)), Tail(q)[i].type = "ACKNOWLEDGE"
               PROVE  HasAck(q)
    BY DEF HasAck
  <2>2. i + 1 \in 1 .. Len(q) /\ q[i + 1].type = "ACKNOWLEDGE"
    BY <2>1
  <2> QED BY <2>2 DEF HasAck
<1>6. ASSUME NEW o, Agreed(o) PROVE q \in Seq(Heard(o)) /\ control[h].from # h
  BY <1>6 DEF Agreed, ControlsShake, ControlShakes, q
<1> QED BY <1>1, <1>3, <1>4, <1>5, <1>6 DEF q

\* So is what is left for the slot the datagram is for.
LEMMA SteadyShakes ==
    ASSUME IInv, NEW h \in Hosts, NEW s, NEW c, Steady(h, c, s), c.phase = "commands"
    PROVE  /\ DrawnInv => ControlDrawn(c)
           /\ \A o : Agreed(o) =>
                 /\ c.commands \in Seq(Heard(o)) /\ c.from # h
                 /\ HasAck(c.commands) =>
                       /\ s # NoPeer /\ c.peer = s
                       /\ host[h].peers[s].state = ACKNOWLEDGING_CONNECT =>
                             AcceptorOf(h, s, host[h].peers[s]) \in verified
<1>1. /\ control[h].phase = "commands" /\ control[h].peer = s /\ c.peer = s
      /\ c.from = control[h].from /\ c.commands = Tail(control[h].commands)
  BY DEF Steady
<1>2. /\ DrawnInv => ControlDrawn(c)
      /\ \A o : Agreed(o) => c.commands \in Seq(Heard(o)) /\ c.from # h
      /\ HasAck(c.commands) => HasAck(control[h].commands)
  BY <1>1, RestShakes
<1>3. ASSUME NEW o, Agreed(o), HasAck(control[h].commands)
      PROVE  /\ s # NoPeer
             /\ host[h].peers[s].state = ACKNOWLEDGING_CONNECT =>
                   AcceptorOf(h, s, host[h].peers[s]) \in verified
  <2>1. ControlShakes(o, verified, h, control[h], host[h])
    BY <1>3 DEF Agreed, ControlsShake
  <2> QED BY <1>1, <1>3, <2>1 DEF ControlShakes
<1> QED BY <1>1, <1>2, <1>3

\* A step of one slot of one host that sends nothing and completes no handshake.
LEMMA SlotInherited ==
    ASSUME IInv, DrawnInv, NEW h \in Hosts, NEW s \in Slots(h),
           NEW G, SetHost(h, G), Settles(host[h], G, s),
           NEW c, SetControl(h, c), Steady(h, c, s), UNCHANGED <<net, verified>>
    PROVE  Onward
<1>1. Inherits(host[h], G, s) /\ Elsewhere(host[h], G, s)
  BY DEF Settles, Inherits
<1>2. SeedsDrawn' /\ PeersDrawn' /\ PeersDistinct' /\ DrawnGrows
  BY <1>1, HeirStep DEF DrawnGrows
<1>3. ControlDrawn(c)
  BY SteadyShakes DEF ControlDrawn
<1>4. NetDrawn' /\ ControlsDrawn'
  BY <1>2, <1>3, NetStays, ControlDrawnSet DEF DrawnInv
<1>5. DrawnInv'
  BY <1>2, <1>4 DEF DrawnInv
<1>6. ASSUME NEW o \in Owners, Agreed(o) PROVE Agreed(o)'
  <2> DEFINE p == host[h].peers[s]
             q == G.peers[s]
  <2>1. verified \subseteq verified' /\ VerifiedOwned(o)' /\ NetShakes(o)'
    BY <1>2, <1>6, VerifiedStays, NetShakesOn DEF Agreed
  <2>2. Shakes(o, verified, h, s, p)
    BY <1>6 DEF Agreed, PeersShake, Peer
  <2>3. Heir(p, q) /\ Calm(p, q)
    BY DEF Settles, Inherits
  <2> HIDE DEF p, q
  <2>4. Shakes(o, verified', h, s, q)
    BY <2>1, <2>2, <2>3, ShakesOn
  <2>5. ASSUME c.phase = "commands" PROVE ControlShakes(o, verified', h, c, G)
    <3>1. /\ c.commands \in Seq(Heard(o)) /\ c.from # h
          /\ HasAck(c.commands) =>
                /\ s # NoPeer /\ c.peer = s
                /\ p.state = ACKNOWLEDGING_CONNECT => AcceptorOf(h, s, p) \in verified
      BY <1>6, <2>5, SteadyShakes DEF p
    <3>2. q.state = ACKNOWLEDGING_CONNECT =>
             p.state = ACKNOWLEDGING_CONNECT /\ AcceptorOf(h, s, q) = AcceptorOf(h, s, p)
      BY <2>3 DEF Heir, Calm, SameLink, AcceptorOf, Asking, ACKNOWLEDGING_CONNECT,
         DISCONNECTED
    <3> QED BY <2>1, <3>1, <3>2 DEF ControlShakes, q
  <2>6. ControlShakes(o, verified', h, c, G)
    BY <2>5 DEF ControlShakes
  <2> QED BY <1>1, <1>6, <2>1, <2>4, <2>6, AgreedStep DEF q
<1>7. HandshakeInv => HandshakeInv'
  BY <1>6 DEF HandshakeInv, Owners
<1> QED BY <1>5, <1>7 DEF Onward

\* A step that only moves the control of a host, out of the datagram.
LEMMA ControlMoved ==
    ASSUME IInv, DrawnInv, NEW h \in Hosts, UNCHANGED <<host, net, verified>>,
           NEW c, SetControl(h, c), c.phase # "commands"
    PROVE  Onward
<1>1. 1 \in Slots(h)
  BY SlotCount
<1>2. SetHost(h, host[h])
  BY DEF IInv, HostsOK, IsPerHost, SetHost
<1>3. Steady(h, c, 1)
  BY DEF Steady
<1> QED BY <1>1, <1>2, <1>3, SettlesSame, SlotInherited

\* A step that leaves the control alone.
LEMMA ControlKept ==
    ASSUME IInv, NEW h \in Hosts, UNCHANGED control, control[h].phase # "commands", NEW s
    PROVE  SetControl(h, control[h]) /\ Steady(h, control[h], s)
BY DEF IInv, ControlsOK, IsPerHost, SetControl, Steady

\* Outside a datagram a host asks for nothing.
LEMMA IdleDrawn ==
    /\ ControlDrawn(Idle) /\ Idle.phase # "commands"
    /\ \A h, s : Steady(h, Idle, s)
    /\ \A h, s, t : Steady(h, FlushThenReset(t), s)
    /\ \A t : FlushThenReset(t).phase # "commands"
BY DEF Idle, ControlDrawn, FlushThenReset, Steady

\* The sending of a packet.
LEMMA SendDrawn ==
    ASSUME IInv, DrawnInv, NEW h \in Hosts, NEW s \in Slots(h),
           SendReliable(h, s) \/ SendUnreliable(h, s)
    PROVE  Onward
<1>1. PICK c \in {Command("SEND_RELIABLE", DataChannel, TRUE),
                  Command("SEND_UNRELIABLE", DataChannel, FALSE)} :
          /\ SetHost(h, QueueOutgoing(host[h], s, c))
          /\ UNCHANGED <<control, net, verified>> /\ control[h].phase # "commands"
  BY DEF SendReliable, SendUnreliable, MayCall, InApp, history
<1>2. c \in Commands
  BY <1>1, CommandType DEF CommandTypes
<1>3. c \in Quiet
  <2>1. c.type \in {"SEND_RELIABLE", "SEND_UNRELIABLE"}
    BY <1>1 DEF Command
  <2> QED BY <1>2, <2>1 DEF Quiet
<1>4. Settles(host[h], QueueOutgoing(host[h], s, c), s)
  BY <1>3, HostHere, QueueOutgoingInherits
<1> QED BY <1>1, <1>4, ControlKept, SlotInherited

\* enet_peer_disconnect.
LEMMA DisconnectPeerDrawn ==
    ASSUME IInv, DrawnInv, NEW h \in Hosts, NEW s \in Slots(h), DisconnectPeer(h, s)
    PROVE  Onward
<1>1. PICK c \in {Idle, FlushThenReset(s)} :
          SetHost(h, Disconnect(host[h], s)) /\ SetControl(h, c) /\ UNCHANGED <<net, verified>>
  BY DEF DisconnectPeer
<1>2. Settles(host[h], Disconnect(host[h], s), s)
  BY HostHere, DisconnectInherits
<1>3. Steady(h, c, s)
  BY <1>1, IdleDrawn
<1> QED BY <1>1, <1>2, <1>3, SlotInherited

\* enet_peer_disconnect_later.
LEMMA DisconnectPeerLaterDrawn ==
    ASSUME IInv, DrawnInv, NEW h \in Hosts, NEW s \in Slots(h), DisconnectPeerLater(h, s)
    PROVE  Onward
<1> DEFINE n == PeerCount[h]
           old == Peer(h, s)
           peer == [old EXCEPT !.state = DISCONNECT_LATER]
           G == [host[h] EXCEPT !.peers[s] = peer]
<1>1. /\ n \in Nat /\ s \in 1 .. n /\ HostOK(n, host[h])
      /\ old \in Peers /\ old = host[h].peers[s]
  BY HostHere
<1>2. /\ SetHost(h, G) /\ UNCHANGED <<control, net, verified>> /\ old.state \in Counted
      /\ control[h].phase # "commands"
  BY <1>1 DEF DisconnectPeerLater, SetHost, MayCall, InApp
<1>3. /\ peer \in Peers /\ peer.state \in Counted
      /\ peer.needsDispatch = old.needsDispatch
      /\ SameLink(old, peer) /\ SameQueues(old, peer) /\ SameTalk(old, peer)
  <2>1. DISCONNECT_LATER \in PeerStates /\ DISCONNECT_LATER \in Counted
    BY DEF DISCONNECT_LATER, PeerStates, Counted
  <2> QED BY <1>1, <2>1 DEF Peers, SameLink, SameQueues, SameTalk
<1>4. old.state # DISCONNECTED
  BY <1>2 DEF Counted, CONNECTED, DISCONNECT_LATER, DISCONNECTED
<1> HIDE DEF peer
<1>5. Heir(old, peer) /\ Calm(old, peer)
  <2>1. \A state \in Counted : state \in Established /\ state \notin Asking
    BY DEF Counted, Established, Asking, CONNECTED, DISCONNECT_LATER, CONNECTING,
       ACKNOWLEDGING_CONNECT
  <2> QED BY <1>2, <1>3, <1>4, <2>1, SameQueuesHeir, CalmMove
<1>6. Settles(host[h], G, s)
  BY <1>1, <1>2, <1>3, <1>5, PeerInherits
<1> HIDE DEF G
<1> QED BY <1>2, <1>6, ControlKept, SlotInherited

\* enet_peer_disconnect_now.
LEMMA DisconnectPeerNowDrawn ==
    ASSUME IInv, DrawnInv, NEW h \in Hosts, NEW s \in Slots(h), DisconnectPeerNow(h, s)
    PROVE  Onward
<1>1. UNCHANGED <<net, verified>> /\ control[h].phase # "commands"
  BY DEF DisconnectPeerNow, MayCall, InApp
<1>2. CASE Peer(h, s).state \in {ZOMBIE, DISCONNECTING}
  <2>1. SetHost(h, Reset(host[h], s)) /\ UNCHANGED control
    BY <1>2 DEF DisconnectPeerNow
  <2>2. Settles(host[h], Reset(host[h], s), s)
    BY HostHere, ResetInherits
  <2> QED BY <1>1, <2>1, <2>2, ControlKept, SlotInherited
<1>3. CASE Peer(h, s).state \notin {ZOMBIE, DISCONNECTING}
  <2>1. /\ SetHost(h, DisconnectNow(host[h], s))
        /\ SetControl(h, FlushThenReset(s))
    BY <1>3 DEF DisconnectPeerNow
  <2>2. Settles(host[h], DisconnectNow(host[h], s), s)
    BY HostHere, DisconnectNowInherits DEF DisconnectNow
  <2> QED BY <1>1, <2>1, <2>2, IdleDrawn, SlotInherited
<1> QED BY <1>2, <1>3

\* enet_peer_reset.
LEMMA ResetPeerDrawn ==
    ASSUME IInv, DrawnInv, NEW h \in Hosts, NEW s \in Slots(h), ResetPeer(h, s)
    PROVE  Onward
<1>1. /\ SetHost(h, Reset(host[h], s)) /\ UNCHANGED <<control, net, verified>>
      /\ control[h].phase # "commands"
  BY DEF ResetPeer, MayCall, InApp
<1>2. Settles(host[h], Reset(host[h], s), s)
  BY HostHere, ResetInherits
<1> QED BY <1>1, <1>2, ControlKept, SlotInherited

\* The calls that only start a pass.
LEMMA OtherCallsDrawn ==
    ASSUME IInv, DrawnInv, NEW h \in Hosts, Flush(h) \/ Service(h) \/ CheckEvents(h)
    PROVE  Onward
<1>1. CASE Flush(h)
  <2>1. SetControl(h, FlushThenReset(NoPeer)) /\ UNCHANGED <<host, net, verified>>
    BY <1>1 DEF Flush, history
  <2> QED BY <2>1, IdleDrawn, ControlMoved
<1>2. CASE Service(h)
  <2>1. PICK event \in ServiceModes :
            SetControl(h, [Idle EXCEPT !.phase = IF event THEN "dispatch" ELSE "send",
                                       !.event = event])
    BY <1>2 DEF Service
  <2> DEFINE c == [Idle EXCEPT !.phase = IF event THEN "dispatch" ELSE "send",
                               !.event = event]
  <2>2. c.phase # "commands"
    BY DEF Idle
  <2>3. UNCHANGED <<host, net, verified>>
    BY <1>2 DEF Service, history
  <2> HIDE DEF c
  <2>4. SetControl(h, c)
    BY <2>1 DEF c
  <2> QED BY <2>2, <2>3, <2>4, ControlMoved
<1>3. CASE CheckEvents(h)
  <2> DEFINE c == [Idle EXCEPT !.phase = "redispatch", !.event = TRUE]
  <2>1. SetControl(h, c) /\ UNCHANGED <<host, net, verified>>
    BY <1>3 DEF CheckEvents, history
  <2>2. c.phase # "commands"
    BY DEF Idle
  <2> HIDE DEF c
  <2> QED BY <2>1, <2>2, ControlMoved
<1> QED BY <1>1, <1>2, <1>3

\* The head of the dispatch queue leaves it.
LEMMA HeadInherits ==
    ASSUME IInv, NEW h \in Hosts, NEW s \in Slots(h), NEW states, AtHead(h, s, states),
           NEW P, P = Popped(host[h])
    PROVE  /\ PeerCount[h] \in Nat /\ s \in 1 .. PeerCount[h]
           /\ HostOK(PeerCount[h], host[h])
           /\ HostOK(PeerCount[h], P) /\ Settles(host[h], P, s)
           /\ P.peers[s].state = Peer(h, s).state /\ Peer(h, s).state \in states
<1>1. /\ PeerCount[h] \in Nat /\ s \in 1 .. PeerCount[h]
      /\ HostOK(PeerCount[h], host[h]) /\ Peer(h, s) = host[h].peers[s]
  BY HostHere
<1>2. /\ host[h].dispatchQueue # <<>> /\ s = Head(host[h].dispatchQueue)
      /\ Peer(h, s).state \in states
  BY DEF AtHead
<1> QED BY <1>1, <1>2, PoppedInherits

\* The dispatch of the peers that are queued.
LEMMA DispatchDrawn ==
    ASSUME IInv, DrawnInv, NEW h \in Hosts, NEW s \in Slots(h),
           \/ DispatchConnect(h, s) \/ DispatchDisconnect(h, s)
           \/ DispatchReceive(h, s) \/ DispatchNothing(h, s)
    PROVE  Onward
<1> DEFINE n == PeerCount[h]
           P == Popped(host[h])
<1>1. PICK states : AtHead(h, s, states)
  BY DEF DispatchConnect, DispatchDisconnect, DispatchReceive, DispatchNothing
<1>2. /\ n \in Nat /\ s \in 1 .. n /\ HostOK(n, host[h])
      /\ HostOK(n, P) /\ Settles(host[h], P, s)
      /\ P.peers[s].state = Peer(h, s).state
  BY <1>1, HeadInherits
<1>3. CASE DispatchConnect(h, s)
  <2> DEFINE G == ChangeState(P, s, CONNECTED)
  <2>1. /\ SetHost(h, G) /\ SetControl(h, Idle) /\ UNCHANGED <<net, verified>>
        /\ Peer(h, s).state \in {CONNECTION_PENDING, CONNECTION_SUCCEEDED}
    BY <1>3 DEF DispatchConnect, AtHead
  <2>2. /\ CONNECTED \in PeerStates /\ CONNECTED \in Established /\ CONNECTED \notin Asking
        /\ {CONNECTION_PENDING, CONNECTION_SUCCEEDED} \subseteq Established \ {DISCONNECTED}
    BY DEF CONNECTED, PeerStates, Established, Asking, Counted, CONNECTING,
       ACKNOWLEDGING_CONNECT, DISCONNECTED, CONNECTION_PENDING, CONNECTION_SUCCEEDED
  <2> HIDE DEF P
  <2>3. P.peers[s].state \in Established /\ P.peers[s].state # DISCONNECTED
    BY <1>2, <2>1, <2>2
  <2>4. /\ HostOK(n, G) /\ Inherits(P, G, s) /\ G.peers[s].state = CONNECTED
        /\ SameTalk(P.peers[s], G.peers[s])
    BY <1>2, <2>2, <2>3, ChangeStateInherits
  <2> HIDE DEF G
  <2>5. Settles(P, G, s)
    BY <2>2, <2>3, <2>4, CalmMove DEF Settles
  <2>6. Settles(host[h], G, s)
    BY <1>2, <2>4, <2>5, SettlesTwice
  <2> QED BY <2>1, <2>6, IdleDrawn, SlotInherited
<1>4. CASE DispatchDisconnect(h, s)
  <2>1. SetHost(h, Reset(P, s)) /\ SetControl(h, Idle) /\ UNCHANGED <<net, verified>>
    BY <1>4 DEF DispatchDisconnect
  <2> HIDE DEF P
  <2>2. HostOK(n, Reset(P, s)) /\ Settles(P, Reset(P, s), s)
    BY <1>2, ResetInherits
  <2>3. Settles(host[h], Reset(P, s), s)
    BY <1>2, <2>2, SettlesTwice
  <2> QED BY <2>1, <2>3, IdleDrawn, SlotInherited
<1>5. CASE DispatchReceive(h, s)
  <2> DEFINE H == Taken(P, s)
  <2>1. /\ \/ SetHost(h, H)
           \/ SetHost(h, EnterDispatchQueue(H, s))
        /\ SetControl(h, Idle) /\ UNCHANGED <<net, verified>>
        /\ Peer(h, s).dispatched # <<>>
    BY <1>5 DEF DispatchReceive
  <2>2. P.peers[s].dispatched # <<>>
    <3>1. P.peers = [host[h].peers EXCEPT ![s] = [@ EXCEPT !.needsDispatch = FALSE]]
      BY <1>1, HeadPopped
    <3>2. host[h].peers \in [1 .. n -> Peers] /\ Peer(h, s) \in Peers
      BY <1>2, HostShape, HostHere
    <3> QED BY <1>2, <2>1, <3>1, <3>2 DEF Peer, Peers
  <2> HIDE DEF P
  <2>3. HostOK(n, H) /\ Settles(P, H, s)
    BY <1>2, <2>2, TakenInherits
  <2>4. Settles(host[h], H, s)
    BY <1>2, <2>3, SettlesTwice
  <2> HIDE DEF H
  <2>5. HostOK(n, EnterDispatchQueue(H, s)) /\ Settles(H, EnterDispatchQueue(H, s), s)
    BY <1>2, <2>3, EnterDispatchQueueInherits
  <2>6. Settles(host[h], EnterDispatchQueue(H, s), s)
    BY <1>2, <2>3, <2>4, <2>5, SettlesTwice
  <2> QED BY <2>1, <2>4, <2>6, IdleDrawn, SlotInherited
<1>6. CASE DispatchNothing(h, s)
  <2>1. /\ SetHost(h, P) /\ UNCHANGED <<control, net, verified>>
        /\ control[h].phase # "commands"
    BY <1>6 DEF DispatchNothing, AtHead, Dispatching, history
  <2> HIDE DEF P
  <2> QED BY <1>2, <2>1, ControlKept, SlotInherited
<1> QED BY <1>3, <1>4, <1>5, <1>6

\* The end of a dispatch pass.
LEMMA DispatchDoneDrawn ==
    ASSUME IInv, DrawnInv, NEW h \in Hosts, DispatchDone(h)
    PROVE  Onward
<1> DEFINE c == [control[h] EXCEPT !.phase = "send"]
<1>1. UNCHANGED <<host, net, verified>> /\ (SetControl(h, c) \/ SetControl(h, Idle))
  BY DEF DispatchDone, history
<1>2. control[h] \in Controls(h)
  BY DEF IInv, ControlsOK, ControlOK
<1>3. c.phase # "commands"
  BY <1>2 DEF Controls
<1> QED BY <1>1, <1>3, IdleDrawn, ControlMoved

---------------------------------------------------------------------------
(* The send passes                                                            *)

\* A send pass goes on with the next slot or ends.
LEMMA NextSlotDrawn ==
    ASSUME IInv, NEW h \in Hosts, Sending(h), NextSlot(h)
    PROVE  \E c : SetControl(h, c) /\ c.phase # "commands"
<1> DEFINE c == control[h]
           phase == AfterPass(c)
           onward == [c EXCEPT !.slot = @ + 1]
           after == [c EXCEPT !.slot = 1, !.phase = phase]
<1>1. /\ c \in Controls(h) /\ c.phase \in {"send", "resend", "flush"}
      /\ c.slot \in Nat /\ PeerCount[h] \in Nat
  <2>1. c \in Controls(h) /\ PeerCount[h] \in Nat
    BY SlotCount DEF IInv, ControlsOK, ControlOK
  <2>2. c.slot \in 1 .. PeerCount[h]
    BY <2>1 DEF Controls
  <2> QED BY <2>1, <2>2 DEF Sending
<1>2. phase # "commands"
  BY DEF AfterPass
<1>3. SetControl(h, onward) \/ SetControl(h, Idle) \/ SetControl(h, after)
  BY <1>1 DEF NextSlot
<1> HIDE DEF phase
<1>4. onward.phase = c.phase /\ after.phase = phase
  BY <1>1 DEF Controls
<1>5. onward.phase # "commands" /\ after.phase # "commands"
  BY <1>1, <1>2, <1>4
<1> HIDE DEF onward, after
<1> QED BY <1>3, <1>5, IdleDrawn

\* A slot the send pass skips.
LEMMA SendNothingDrawn ==
    ASSUME IInv, DrawnInv, NEW h \in Hosts, NEW s \in Slots(h), SendNothing(h, s)
    PROVE  Onward
<1>1. Sending(h) /\ NextSlot(h) /\ UNCHANGED <<host, net, verified>>
  BY DEF SendNothing, history
<1>2. PICK c : SetControl(h, c) /\ c.phase # "commands"
  BY <1>1, NextSlotDrawn
<1> QED BY <1>1, <1>2, ControlMoved

\* The end of a flush.
LEMMA FlushDoneDrawn ==
    ASSUME IInv, DrawnInv, NEW h \in Hosts, FlushDone(h)
    PROVE  Onward
<1> DEFINE s == control[h].reset
<1>1. SetControl(h, Idle) /\ UNCHANGED <<net, verified>>
  BY DEF FlushDone
<1>2. CASE s = NoPeer
  <2>1. UNCHANGED host
    BY <1>2 DEF FlushDone
  <2> QED BY <1>1, <2>1, IdleDrawn, ControlMoved
<1>3. CASE s # NoPeer
  <2>1. s \in Slots(h)
    BY <1>3, SlotCount DEF IInv, ControlsOK, ControlOK, Controls, NoPeer
  <2>2. SetHost(h, Reset(host[h], s))
    BY <1>3 DEF FlushDone
  <2> HIDE DEF s
  <2>3. Settles(host[h], Reset(host[h], s), s)
    BY <2>1, HostHere, ResetInherits
  <2> QED BY <1>1, <2>1, <2>2, <2>3, IdleDrawn, SlotInherited
<1> QED BY <1>2, <1>3

\* A peer that does not answer is given up.
LEMMA GiveUpDrawn ==
    ASSUME IInv, DrawnInv, NEW h \in Hosts, NEW s \in Slots(h), GiveUp(h, s)
    PROVE  Onward
<1> DEFINE n == PeerCount[h]
           H == SendAcknowledgements(host[h], s)
           event == control[h].event
           G == NotifyDisconnect(H, s, event)
<1>1. /\ n \in Nat /\ s \in 1 .. n /\ HostOK(n, host[h]) /\ Peer(h, s) = host[h].peers[s]
  BY HostHere
<1>2. /\ Sending(h) /\ Active(Peer(h, s)) /\ SetHost(h, G) /\ UNCHANGED <<net, verified>>
      /\ SetControl(h, Idle) \/ NextSlot(h)
  BY DEF GiveUp
<1>3. event \in BOOLEAN
  BY DEF IInv, ControlsOK, ControlOK, Controls
<1>4. host[h].peers[s].state # DISCONNECTED
  BY <1>1, <1>2 DEF Active
<1> HIDE DEF event
<1>5. /\ HostOK(n, H) /\ Settles(host[h], H, s) /\ H.peers[s].state # DISCONNECTED
      /\ H.peers[s].acknowledgements = <<>>
  BY <1>1, <1>4, SendAcknowledgementsInherits
<1> HIDE DEF H
<1>6. HostOK(n, G) /\ Settles(H, G, s)
  BY <1>1, <1>3, <1>5, NotifyDisconnectInherits
<1> HIDE DEF G
<1>7. Settles(host[h], G, s)
  BY <1>1, <1>5, <1>6, SettlesTwice
<1>8. PICK c : SetControl(h, c) /\ c.phase # "commands"
  BY <1>2, IdleDrawn, NextSlotDrawn
<1> QED BY <1>2, <1>7, <1>8, SlotInherited DEF Steady

\* What goes out of a slot that has shaken hands may acknowledge, of another it may not.
LEMMA DatagramOfPeer ==
    ASSUME NEW o \in Owners, NEW V, \A r \in V : r.peer # NoPeer,
           NEW h \in Hosts, NEW s, NEW p, Shakes(o, V, h, s, p), p.state # DISCONNECTED,
           p.connectID \in Nat,
           NEW commands, commands \in Seq(Heard(o)),
           p.acknowledgements = <<>> => commands \in Seq(Spoken(o)),
           NEW q, q.address = p.address, q.connectID = p.connectID,
           q.outgoingPeerID = p.outgoingPeerID
    PROVE  DatagramShakes(o, V, Datagram(h, q, commands))
<1> DEFINE d == Datagram(h, q, commands)
<1>1. /\ d.to = p.address /\ d.from = h /\ d.peerID = p.outgoingPeerID
      /\ d.commands = commands /\ d.id = p.connectID
  BY DEF Datagram
<1> HIDE DEF d
<1>2. ASSUME HasAck(commands) PROVE p.state \in Established
  <2>1. commands \notin Seq(Spoken(o))
    BY <1>2, ElementOfSeq DEF HasAck, Spoken
  <2> QED BY <2>1 DEF Shakes
<1>3. ASSUME HasAck(commands), p.connectID \in Seeded(h)
      PROVE  /\ p.outgoingPeerID # NoPeer
             /\ \E k : [initiator |-> h, slot |-> k, acceptor |-> p.address,
                        peer |-> p.outgoingPeerID, id |-> p.connectID] \in V
  <2>1. InitiatorOf(h, s, p) \in V
    BY <1>2, <1>3 DEF Shakes, NearEnd
  <2>2. InitiatorOf(h, s, p).peer = p.outgoingPeerID
    BY DEF InitiatorOf
  <2> QED BY <2>1, <2>2 DEF InitiatorOf
<1>4. ASSUME HasAck(commands), p.connectID \notin Seeded(h) PROVE p.outgoingPeerID # NoPeer
  <2>1. p.outgoingPeerID = o[p.connectID]
    BY <1>4 DEF Shakes, FarEnd
  <2> QED BY <2>1 DEF Owners, NoPeer
<1>5. p.address # h
  BY DEF Shakes
<1> QED BY <1>1, <1>3, <1>4, <1>5 DEF DatagramShakes, d

\* A pass over a slot: what goes out asks for what the host drew.
LEMMA SendPeerDrawn ==
    ASSUME IInv, DrawnInv, NEW h \in Hosts, NEW s \in Slots(h), SendPeer(h, s)
    PROVE  Onward
<1> DEFINE n == PeerCount[h]
           old == Peer(h, s)
           sent == old.sentReliable
<1>1. /\ n \in Nat /\ s \in 1 .. n /\ HostOK(n, host[h]) /\ old = host[h].peers[s]
      /\ old \in Peers
  BY HostHere
<1>2. Sending(h) /\ Active(old) /\ NextSlot(h) /\ UNCHANGED verified
  BY DEF SendPeer
<1>3. PICK due \in SUBSET (1 .. Len(sent)), ping \in BOOLEAN :
          \E left \in InOrder((1 .. Len(sent)) \ due), again \in InOrder(due) :
              FillBuffers(h, s, Picked(sent, left), Picked(sent, again), ping)
  BY DEF SendPeer
<1>4. PICK left \in InOrder((1 .. Len(sent)) \ due), again \in InOrder(due) :
          FillBuffers(h, s, Picked(sent, left), Picked(sent, again), ping)
  BY <1>3
<1> DEFINE kept == Picked(sent, left)
           expired == Picked(sent, again)
           A == SendAcknowledgements(host[h], s)
           R == SendReliableCommands(A, s, kept, expired)
           P == IF ping THEN Ping(R, s) ELSE R
           G == SendUnreliableCommands(P, s)
           commands == Outgoing(host[h], A, P, s, expired, ping)
           d == Datagram(h, P.peers[s], commands)
<1>5. SetHost(h, G) /\ (net' = net \/ net' = net \cup {d})
  BY <1>4 DEF FillBuffers
<1>6. SplitInto(sent, kept, expired)
  BY <1>3, <1>4 DEF SplitInto
<1>7. old.state # DISCONNECTED
  BY <1>2 DEF Active
<1>8. d.from = h /\ d.commands = commands
  BY DEF Datagram
<1>9. ASSUME NEW T, Requests(old, T)
      PROVE  kept \in Seq(T) /\ expired \in Seq(T)
  <2>1. sent \in Seq(T)
    BY <1>9 DEF Requests
  <2> HIDE DEF sent, kept, expired
  <2> QED BY <1>6, <2>1, SplitDrawn
<1> HIDE DEF kept, expired
<1>10. /\ HostOK(n, A) /\ Settles(host[h], A, s) /\ A.peers[s].sentReliable = sent
       /\ A.peers[s].state # DISCONNECTED
  <2>1. /\ HostOK(n, SendAcknowledgements(host[h], s))
        /\ Settles(host[h], SendAcknowledgements(host[h], s), s)
        /\ SendAcknowledgements(host[h], s).peers[s].state # DISCONNECTED
    BY <1>1, <1>7, SendAcknowledgementsInherits
  <2>2. SendAcknowledgements(host[h], s).peers[s].sentReliable = host[h].peers[s].sentReliable
    BY <1>1, SendAcknowledgementsOK
  <2> QED BY <1>1, <2>1, <2>2
<1> HIDE DEF A
<1>11. /\ HostOK(n, R) /\ Settles(A, R, s) /\ R.peers[s].state = A.peers[s].state
  BY <1>1, <1>6, <1>10, SendReliableCommandsInherits
<1> HIDE DEF R
<1>12. HostOK(n, P) /\ Settles(R, P, s) /\ P.peers[s].state = R.peers[s].state
  BY <1>1, <1>11, PingInherits, SettlesSame
<1> HIDE DEF P
<1>13. HostOK(n, G) /\ Settles(P, G, s)
  BY <1>1, <1>12, SendUnreliableCommandsInherits
<1> HIDE DEF G
<1>14. Settles(host[h], R, s)
  BY <1>1, <1>10, <1>11, SettlesTwice
<1>15. Settles(host[h], P, s)
  BY <1>1, <1>11, <1>12, <1>14, SettlesTwice
<1>16. Settles(host[h], G, s)
  BY <1>1, <1>12, <1>13, <1>15, SettlesTwice
<1>17. ASSUME NEW T, T \subseteq Commands, Quiet \subseteq T, Requests(old, T),
              old.acknowledgements = <<>> \/ Acks \subseteq T
       PROVE  commands \in Seq(T)
  <2>1. Requests(A.peers[s], T) /\ Requests(P.peers[s], T) /\ expired \in Seq(T)
    BY <1>1, <1>9, <1>10, <1>15, <1>17 DEF Settles, Inherits, Heir
  <2> QED BY <1>1, <1>10, <1>12, <1>17, <2>1, OutgoingWithin
<1>18. Carries(h, commands)
  <2>1. Requests(old, Drawing(Drawn(h)))
    BY DEF DrawnInv, PeersDrawn, PeerDrawn
  <2> HIDE DEF commands
  <2> QED BY <1>17, <2>1, DrawingHolds DEF Carries
<1>19. ASSUME NEW o \in Owners, Agreed(o) PROVE DatagramShakes(o, verified, d)
  <2>1. Shakes(o, verified, h, s, old) /\ \A r \in verified : r.peer # NoPeer
    BY <1>19 DEF Agreed, PeersShake, VerifiedOwned
  <2>2. Requests(old, Spoken(o)) /\ Requests(old, Heard(o))
    BY <2>1, HeardHolds, WiderQueues DEF Shakes
  <2>3. /\ P.peers[s].address = old.address /\ P.peers[s].connectID = old.connectID
        /\ P.peers[s].outgoingPeerID = old.outgoingPeerID
    BY <1>1, <1>10, <1>11, <1>12, <1>15 DEF Settles, Inherits, Heir, SameLink, Calm
  <2>4. old.connectID \in Nat
    BY <1>1 DEF Peers
  <2> HIDE DEF commands
  <2>5. commands \in Seq(Heard(o))
    BY <1>17, <2>2, HeardHolds
  <2>6. old.acknowledgements = <<>> => commands \in Seq(Spoken(o))
    BY <1>17, <2>2, HeardHolds
  <2> HIDE DEF old
  <2> QED BY <1>7, <2>1, <2>3, <2>4, <2>5, <2>6, DatagramOfPeer
<1> HIDE DEF commands, d
<1>20. PICK c : SetControl(h, c) /\ c.phase # "commands"
  BY <1>2, NextSlotDrawn
<1>21. Inherits(host[h], G, s) /\ Elsewhere(host[h], G, s)
  BY <1>16 DEF Settles, Inherits
<1>22. SeedsDrawn' /\ PeersDrawn' /\ PeersDistinct' /\ DrawnGrows
  BY <1>5, <1>21, HeirStep DEF DrawnGrows
<1>23. NetDrawn'
  BY <1>5, <1>8, <1>18, <1>22, NetStays, NetAdds DEF DrawnInv
<1>24. ControlsDrawn'
  BY <1>20, <1>22, ControlDrawnSet DEF DrawnInv, ControlDrawn
<1>25. DrawnInv'
  BY <1>22, <1>23, <1>24 DEF DrawnInv
<1>26. ASSUME NEW o \in Owners, Agreed(o) PROVE Agreed(o)'
  <2>1. verified \subseteq verified' /\ VerifiedOwned(o)'
    BY <1>2, <1>22, <1>26, VerifiedStays DEF Agreed
  <2>2. NetShakes(o)'
    <3> SUFFICES ASSUME NEW e \in net \cup {d} PROVE DatagramShakes(o, verified', e)
      BY <1>5 DEF NetShakes
    <3>1. DatagramShakes(o, verified, e)
      BY <1>19, <1>26 DEF Agreed, NetShakes
    <3> QED BY <1>2, <3>1
  <2>3. Shakes(o, verified', h, s, G.peers[s])
    <3>1. Shakes(o, verified, h, s, host[h].peers[s])
      BY <1>26 DEF Agreed, PeersShake, Peer
    <3>2. Heir(host[h].peers[s], G.peers[s]) /\ Calm(host[h].peers[s], G.peers[s])
      BY <1>16 DEF Settles, Inherits
    <3> QED BY <2>1, <3>1, <3>2, ShakesOn
  <2>4. ControlShakes(o, verified', h, c, G)
    BY <1>20 DEF ControlShakes
  <2> QED BY <1>5, <1>20, <1>21, <1>26, <2>1, <2>2, <2>3, <2>4, AgreedStep
<1>27. HandshakeInv => HandshakeInv'
  BY <1>26 DEF HandshakeInv, Owners
<1> QED BY <1>25, <1>27 DEF Onward

---------------------------------------------------------------------------
(* Receiving                                                                  *)

\* A datagram that acknowledges, accepted for a slot that waits to hear that its own
\* handshake is over, comes of the handshake's other end.
LEMMA AcknowledgedHandshake ==
    ASSUME IInv, DrawnInv, SeedsApart, Fenced, NEW o \in Owners, Agreed(o),
           NEW h \in Hosts, NEW d \in net, Receive(h, d), HasAck(d.commands),
           NEW p, p = host[h].peers[d.peerID], p.state = ACKNOWLEDGING_CONNECT
    PROVE  d.peerID # NoPeer /\ AcceptorOf(h, d.peerID, p) \in verified
<1> DEFINE s == d.peerID
<1>1. /\ d.peerID # NoPeer
      /\ d.id \in Seeded(d.from) =>
            \E k : [initiator |-> d.from, slot |-> k, acceptor |-> d.to,
                    peer |-> d.peerID, id |-> d.id] \in verified
  BY DEF Agreed, NetShakes, DatagramShakes
<1>2. s \in Slots(h) /\ Accepts(p, d) /\ p = Peer(h, s) /\ d.to = h
  BY <1>1 DEF Receive, Peer
<1>3. p \in Peers /\ p.state # DISCONNECTED /\ d.from = p.address
  BY <1>2, HostHere DEF Accepts
<1>4. /\ p.address \in Hosts
      /\ p.connectID \in Drawn(h) \cup Drawn(p.address)
  BY <1>2, <1>3 DEF DrawnInv, PeersDrawn, PeerDrawn
<1>5. Shakes(o, verified, h, s, p)
  BY <1>2 DEF Agreed, PeersShake
<1>6. p.connectID \notin Seeded(h)
  BY <1>3, <1>5 DEF Shakes, NearEnd
<1>7. p.outgoingPeerID = o[p.connectID]
  BY <1>3, <1>5, <1>6 DEF Shakes, FarEnd
<1>8. p.outgoingPeerID # NoPeer
  BY <1>3, <1>7 DEF Peers, Owners, NoPeer
<1>9. d.id = p.connectID
  BY <1>1, <1>2, <1>8 DEF Fenced
<1>10. d.id \in Seeded(d.from)
  BY <1>3, <1>4, <1>6, <1>9, DrawnSeeded DEF DrawnInv
<1>11. PICK k : [initiator |-> d.from, slot |-> k, acceptor |-> d.to,
                 peer |-> d.peerID, id |-> d.id] \in verified
  BY <1>1, <1>10
<1>12. k = o[d.id]
  BY <1>11 DEF Agreed, VerifiedOwned
<1>13. [initiator |-> d.from, slot |-> k, acceptor |-> d.to, peer |-> d.peerID, id |-> d.id]
          = AcceptorOf(h, s, p)
  BY <1>2, <1>3, <1>7, <1>9, <1>12 DEF AcceptorOf
<1> QED BY <1>1, <1>11, <1>13

\* A datagram of the network asks for what its sender drew.
LEMMA ReceiveDrawn ==
    ASSUME IInv, DrawnInv, SeedsApart, NEW h \in Hosts, NEW d \in net, Receive(h, d)
    PROVE  Onward
<1> DEFINE from == d.from
           commands == d.commands
           to == d.peerID
           c == [control[h] EXCEPT !.phase = "commands", !.peer = to, !.from = from,
                                   !.commands = commands]
<1>1. SetControl(h, c) /\ UNCHANGED <<host, net, verified>>
  BY DEF Receive, history
<1>2. from \in Hosts /\ Carries(from, commands)
  BY DEF IInv, NetOK, Datagrams, DrawnInv, NetDrawn
<1>3. control[h] \in Controls(h)
  BY DEF IInv, ControlsOK, ControlOK
<1>4. 1 \in Slots(h)
  BY SlotCount
<1>5. SetHost(h, host[h])
  BY <1>1 DEF IInv, HostsOK, IsPerHost, SetHost
<1>6. ASSUME NEW o \in Owners, Agreed(o), Fenced, HasAck(commands)
      PROVE  /\ to # NoPeer
             /\ host[h].peers[to].state = ACKNOWLEDGING_CONNECT =>
                   AcceptorOf(h, to, host[h].peers[to]) \in verified
  <2>1. to # NoPeer
    BY <1>6 DEF Agreed, NetShakes, DatagramShakes
  <2>2. ASSUME host[h].peers[d.peerID].state = ACKNOWLEDGING_CONNECT
        PROVE  AcceptorOf(h, d.peerID, host[h].peers[d.peerID]) \in verified
    BY <1>6, <2>2, AcknowledgedHandshake
  <2> QED BY <2>1, <2>2
<1>7. ASSUME NEW o \in Owners, Agreed(o) PROVE commands \in Seq(Heard(o)) /\ from # h
  BY <1>7 DEF Agreed, NetShakes, DatagramShakes, Receive
<1> HIDE DEF from, commands, to
<1>8. c.phase = "commands" /\ c.from = from /\ c.commands = commands /\ c.peer = to
  BY <1>3 DEF Controls
<1> HIDE DEF c
<1>9. ControlDrawn(c)
  BY <1>2, <1>8 DEF ControlDrawn
<1>10. SeedsDrawn' /\ PeersDrawn' /\ PeersDistinct' /\ DrawnGrows
  BY <1>4, <1>5, InheritsSame, HeirStep DEF DrawnGrows
<1>11. NetDrawn' /\ ControlsDrawn'
  BY <1>1, <1>9, <1>10, NetStays, ControlDrawnSet DEF DrawnInv
<1>12. ASSUME NEW o \in Owners, Agreed(o), Fenced PROVE Agreed(o)'
  <2>1. verified \subseteq verified' /\ VerifiedOwned(o)' /\ NetShakes(o)'
    BY <1>1, <1>10, <1>12, VerifiedStays, NetShakesOn DEF Agreed
  <2>2. Shakes(o, verified', h, 1, host[h].peers[1])
    BY <1>1, <1>4, <1>12 DEF Agreed, PeersShake, Peer
  <2>3. ControlShakes(o, verified', h, c, host[h])
    BY <1>1, <1>6, <1>7, <1>8, <1>12 DEF ControlShakes
  <2>4. Elsewhere(host[h], host[h], 1)
    BY DEF Elsewhere
  <2> QED BY <1>1, <1>4, <1>5, <1>12, <2>1, <2>2, <2>3, <2>4, AgreedStep
<1>13. HandshakeInv /\ Fenced => HandshakeInv'
  BY <1>12 DEF HandshakeInv, Owners
<1> QED BY <1>10, <1>11, <1>13 DEF Onward, DrawnInv

\* The end of a receive pass.
LEMMA ReceiveNothingDrawn ==
    ASSUME IInv, DrawnInv, NEW h \in Hosts, ReceiveNothing(h)
    PROVE  Onward
<1> DEFINE c == [control[h] EXCEPT !.phase = "resend", !.slot = 1]
<1>1. SetControl(h, c) /\ UNCHANGED <<host, net, verified>>
  BY DEF ReceiveNothing, history
<1>2. control[h] \in Controls(h)
  BY DEF IInv, ControlsOK, ControlOK
<1>3. c.phase # "commands"
  BY <1>2 DEF Controls
<1> HIDE DEF c
<1> QED BY <1>1, <1>3, ControlMoved

---------------------------------------------------------------------------
(* The handlers                                                               *)

\* What is left of a datagram after a command.
LEMMA AfterCommandSteady ==
    ASSUME IInv, NEW h \in Hosts, control[h].phase = "commands",
           NEW failed \in BOOLEAN, NEW raises, NEW s,
           NEW c, c = AfterCommand(control[h], failed, raises, s)
    PROVE  /\ failed => c.phase # "commands"
           /\ c.phase = "commands" =>
                 c.peer = s /\ c.from = control[h].from /\ c.commands = Tail(control[h].commands)
<1> DEFINE b == control[h]
           raised == b.raised \/ raises
           rest == Tail(b.commands)
           next == [b EXCEPT !.commands = rest, !.raised = raised, !.peer = s]
           last == [b EXCEPT !.phase = "receive", !.commands = <<>>,
                             !.peer = NoPeer, !.from = NoHost]
<1>1. b \in Controls(h)
  BY CommandHere DEF ControlOK
<1>2. c \in {next, Idle, last}
  BY DEF AfterCommand
<1>3. failed => c \in {Idle, last}
  BY DEF AfterCommand
<1> HIDE DEF rest, raised
<1>4. /\ next.peer = s /\ next.from = b.from /\ next.commands = rest
      /\ last.phase = "receive"
  BY <1>1 DEF Controls
<1> HIDE DEF next, last, b
<1>5. Idle.phase # "commands" /\ last.phase # "commands"
  BY <1>4, IdleDrawn
<1> QED BY <1>2, <1>3, <1>4, <1>5 DEF rest, b

\* A handler's step: the peer it leaves is acknowledged to only if its handshake is over.
LEMMA HandledStep ==
    ASSUME IInv, DrawnInv, NEW h \in Hosts, NEW s \in Slots(h),
           control[h].phase = "commands", control[h].peer = s,
           NEW H, HostOK(PeerCount[h], H), Inherits(host[h], H, s),
           NEW failed \in BOOLEAN, NEW raises, Handled(h, H, s, failed, raises),
           H.peers[s].state = CONNECTING => failed \/ TheCommand(h).type = "ACKNOWLEDGE",
           verified \subseteq verified',
           \A o \in Owners : Agreed(o) =>
               /\ \A r \in verified' : /\ r.initiator \in Hosts /\ r.id \in Drawn(r.initiator)
                                       /\ r.slot = o[r.id] /\ r.peer # NoPeer
               /\ Shakes(o, verified', h, s, H.peers[s])
               /\ ~ failed /\ H.peers[s].state = ACKNOWLEDGING_CONNECT =>
                     /\ host[h].peers[s].state = ACKNOWLEDGING_CONNECT
                     /\ AcceptorOf(h, s, H.peers[s]) = AcceptorOf(h, s, host[h].peers[s])
    PROVE  Onward
<1> DEFINE n == PeerCount[h]
           command == TheCommand(h)
           acks == ~ failed /\ Acknowledges(H.peers[s].state, command)
           A == QueueAcknowledgement(H, s, command)
           G == IF acks THEN A ELSE H
           c == AfterCommand(control[h], failed, raises, s)
<1>1. n \in Nat /\ s \in 1 .. n /\ HostOK(n, host[h]) /\ HostOK(n, H)
  BY HostHere
<1>2. command \in Commands
  BY CommandHere
<1>3. SetControl(h, c) /\ UNCHANGED net /\ SetHost(h, G)
  BY DEF Handled
<1>4. (failed => c.phase # "commands") /\ Steady(h, c, s)
  BY AfterCommandSteady DEF Steady
<1>5. command.type = "ACKNOWLEDGE" => ~ command.reliable
  <2>1. /\ control[h].from \in Hosts
        /\ control[h].commands \in Seq(Drawing(Drawn(control[h].from)))
        /\ control[h].commands # <<>>
    BY CommandHere DEF DrawnInv, ControlsDrawn, ControlDrawn, Carries
  <2>2. command \in Drawing(Drawn(control[h].from))
    BY <2>1, HeadTailProperties DEF TheCommand
  <2> QED BY <2>2 DEF Drawing, Acks
<1>6. H.peers[s].state \in PeerStates
  BY <1>1, HostShape DEF Peers
<1>7. acks => /\ H.peers[s].state \in Established
              /\ H.peers[s].state # ACKNOWLEDGING_CONNECT
  BY <1>5, <1>6 DEF Acknowledges, PeerStates, Established, Counted, DISCONNECTED, CONNECTING,
     ACKNOWLEDGING_CONNECT, CONNECTION_PENDING, CONNECTION_SUCCEEDED, CONNECTED,
     DISCONNECT_LATER, DISCONNECTING, ACKNOWLEDGING_DISCONNECT, ZOMBIE
<1> HIDE DEF n, command, c, acks
<1>8. HostOK(n, A) /\ Inherits(H, A, s)
      /\ (H.peers[s].state \in Established => Settles(H, A, s))
      /\ A.peers[s].state = H.peers[s].state
  BY <1>1, <1>2, QueueAcknowledgementInherits
<1> HIDE DEF A
<1>9. HostOK(n, G) /\ Settles(H, G, s) /\ (G.peers[s] = H.peers[s] \/ acks)
      /\ G.peers[s].state = H.peers[s].state
  BY <1>1, <1>7, <1>8, SettlesSame
<1> HIDE DEF G
<1>10. Inherits(host[h], G, s) /\ Elsewhere(host[h], G, s)
  <2>1. Inherits(H, G, s)
    BY <1>9 DEF Settles
  <2>2. Inherits(host[h], G, s)
    BY <1>1, <1>9, <2>1, InheritsTwice
  <2> QED BY <2>2 DEF Inherits
<1>11. SeedsDrawn' /\ PeersDrawn' /\ PeersDistinct' /\ \A g \in Hosts : Drawn(g)' = Drawn(g)
  BY <1>3, <1>10, HeirStep
<1>12. ControlDrawn(c)
  BY <1>4, SteadyShakes DEF ControlDrawn
<1>13. NetDrawn' /\ ControlsDrawn'
  BY <1>3, <1>11, <1>12, NetStays, ControlDrawnSet DEF DrawnInv, DrawnGrows
<1>14. ASSUME NEW o \in Owners, Agreed(o) PROVE Agreed(o)'
  <2>1. NetShakes(o)'
    BY <1>3, <1>14, NetShakesOn DEF Agreed
  <2>2. VerifiedOwned(o)'
    <3> SUFFICES ASSUME NEW r \in verified'
                 PROVE  /\ r.initiator \in Hosts /\ r.id \in Drawn(r.initiator)'
                        /\ r.slot = o[r.id] /\ r.peer # NoPeer
      BY DEF VerifiedOwned, Drawn
    <3> QED BY <1>11, <1>14
  <2>3. Shakes(o, verified', h, s, H.peers[s])
    BY <1>14
  <2>4. Shakes(o, verified', h, s, G.peers[s])
    <3>1. Heir(H.peers[s], G.peers[s]) /\ Calm(H.peers[s], G.peers[s])
      BY <1>9 DEF Settles, Inherits
    <3> QED BY <2>3, <3>1, ShakesOn
  <2>5. ASSUME c.phase = "commands" PROVE ControlShakes(o, verified', h, c, G)
    <3>1. /\ c.commands \in Seq(Heard(o)) /\ c.from # h
          /\ HasAck(c.commands) =>
                /\ s # NoPeer /\ c.peer = s
                /\ host[h].peers[s].state = ACKNOWLEDGING_CONNECT =>
                      AcceptorOf(h, s, host[h].peers[s]) \in verified
      BY <1>4, <1>14, <2>5, SteadyShakes
    <3>2. ASSUME G.peers[s].state = ACKNOWLEDGING_CONNECT, HasAck(c.commands)
          PROVE  AcceptorOf(h, s, G.peers[s]) \in verified'
      <4>1. G.peers[s] = H.peers[s]
        BY <1>7, <1>9, <3>2
      <4>2. ~ failed /\ H.peers[s].state = ACKNOWLEDGING_CONNECT
        BY <1>4, <2>5, <3>2, <4>1
      <4>3. /\ host[h].peers[s].state = ACKNOWLEDGING_CONNECT
            /\ AcceptorOf(h, s, H.peers[s]) = AcceptorOf(h, s, host[h].peers[s])
        BY <1>14, <4>2
      <4> QED BY <3>1, <3>2, <4>1, <4>3
    <3> QED BY <3>1, <3>2 DEF ControlShakes
  <2>6. ControlShakes(o, verified', h, c, G)
    BY <2>5 DEF ControlShakes
  <2> QED BY <1>3, <1>10, <1>14, <2>1, <2>2, <2>4, <2>6, AgreedStep
<1>15. HandshakeInv => HandshakeInv'
  BY <1>14 DEF HandshakeInv, Owners
<1> QED BY <1>11, <1>13, <1>15 DEF Onward, DrawnInv

\* A handler that completes no handshake.
LEMMA HandledDrawn ==
    ASSUME IInv, DrawnInv, NEW h \in Hosts, NEW s \in Slots(h),
           control[h].phase = "commands", control[h].peer = s,
           NEW H, HostOK(PeerCount[h], H), Settles(host[h], H, s),
           NEW failed \in BOOLEAN, NEW raises, Handled(h, H, s, failed, raises),
           H.peers[s].state = CONNECTING => failed \/ TheCommand(h).type = "ACKNOWLEDGE",
           UNCHANGED verified
    PROVE  Onward
<1> DEFINE p == host[h].peers[s]
           q == H.peers[s]
<1>1. Heir(p, q) /\ Calm(p, q) /\ Inherits(host[h], H, s)
  BY DEF Settles, Inherits
<1>2. q.state = ACKNOWLEDGING_CONNECT =>
         p.state = ACKNOWLEDGING_CONNECT /\ AcceptorOf(h, s, q) = AcceptorOf(h, s, p)
  <2> HIDE DEF p, q
  <2> QED BY <1>1 DEF Heir, Calm, SameLink, AcceptorOf, Asking, ACKNOWLEDGING_CONNECT,
       DISCONNECTED
<1>3. ASSUME NEW o \in Owners, Agreed(o)
      PROVE  /\ \A r \in verified' : /\ r.initiator \in Hosts /\ r.id \in Drawn(r.initiator)
                                     /\ r.slot = o[r.id] /\ r.peer # NoPeer
             /\ Shakes(o, verified', h, s, q)
  <2>1. Shakes(o, verified, h, s, p)
    BY <1>3 DEF Agreed, PeersShake, Peer
  <2> HIDE DEF p, q
  <2>2. Shakes(o, verified, h, s, q)
    BY <1>1, <2>1, ShakesOn
  <2> QED BY <1>3, <2>2 DEF Agreed, VerifiedOwned
<1> QED BY <1>1, <1>2, <1>3, HandledStep

\* A ping.
LEMMA HandlePingDrawn ==
    ASSUME IInv, DrawnInv, NEW h \in Hosts, NEW s \in Slots(h), HandlePing(h, s)
    PROVE  Onward
<1> DEFINE failed == Peer(h, s).state \notin Counted
<1>1. /\ control[h].phase = "commands" /\ control[h].peer = s
      /\ Handled(h, host[h], s, failed, FALSE) /\ UNCHANGED verified
  BY DEF HandlePing, At, history
<1>2. HostOK(PeerCount[h], host[h]) /\ Peer(h, s) = host[h].peers[s]
  BY HostHere
<1>3. host[h].peers[s].state = CONNECTING => failed
  BY <1>2 DEF Counted, CONNECTING, CONNECTED, DISCONNECT_LATER
<1> HIDE DEF failed
<1>4. PICK f \in BOOLEAN : f = failed
  BY DEF failed
<1> QED BY <1>1, <1>2, <1>3, <1>4, SettlesSame, HandledDrawn

\* A packet.
LEMMA HandleSendDrawn ==
    ASSUME IInv, DrawnInv, NEW h \in Hosts, NEW s \in Slots(h),
           HandleSendReliable(h, s) \/ HandleSendUnreliable(h, s)
    PROVE  Onward
<1> DEFINE n == PeerCount[h]
           m == TheCommand(h).seq
           R == QueueIncomingReliable(host[h], s, m)
           U == UnreliableDelivered(host[h], s)
           failed == ~ TakesData(Peer(h, s))
<1>1. n \in Nat /\ s \in 1 .. n /\ HostOK(n, host[h]) /\ Peer(h, s) = host[h].peers[s]
  BY HostHere
<1>2. control[h].phase = "commands" /\ control[h].peer = s /\ UNCHANGED verified
  BY DEF HandleSendReliable, HandleSendUnreliable, At, history
<1>3. m \in Nat
  BY <1>2, CommandHere DEF Commands
<1>4. PICK H \in {host[h], R, U} : Handled(h, H, s, failed, FALSE)
  BY DEF HandleSendReliable, HandleSendUnreliable
<1> HIDE DEF m
<1>5. HostOK(n, R) /\ Settles(host[h], R, s)
  BY <1>1, <1>3, QueueIncomingReliableInherits
<1>6. HostOK(n, U) /\ Settles(host[h], U, s)
  BY <1>1, UnreliableDeliveredInherits
<1>7. HostOK(n, H) /\ Settles(host[h], H, s)
  BY <1>1, <1>4, <1>5, <1>6, SettlesSame
<1>8. H.peers[s].state = CONNECTING => failed
  <2>1. H.peers[s].state = CONNECTING => Peer(h, s).state = CONNECTING
    BY <1>1, <1>7 DEF Settles, Calm, Asking
  <2> QED BY <2>1 DEF TakesData, Counted, CONNECTING, CONNECTED, DISCONNECT_LATER
<1>9. PICK f \in BOOLEAN : f = failed
  OBVIOUS
<1> HIDE DEF failed
<1> QED BY <1>2, <1>4, <1>7, <1>8, <1>9, HandledDrawn

\* What a DISCONNECT leaves of a peer.
LEMMA DisconnectedInherits ==
    ASSUME NEW n \in Nat, NEW H, HostOK(n, H), NEW s \in 1 .. n, NEW c,
           H.peers[s].state # DISCONNECTED, NEW G, G = Disconnected(H, s, c)
    PROVE  HostOK(n, G) /\ Settles(H, G, s) /\ G.peers[s].state # CONNECTING
<1> DEFINE E == ResetQueues(H, s)
<1>1. /\ HostOK(n, E) /\ Settles(H, E, s) /\ E.peers[s].state = H.peers[s].state
      /\ E.peers[s].acknowledgements = <<>>
  BY ResetQueuesInherits
<1>2. /\ ZOMBIE \in PeerStates /\ ACKNOWLEDGING_DISCONNECT \in PeerStates
      /\ ACKNOWLEDGING_DISCONNECT \notin Asking /\ Counted \subseteq Established
      /\ CONNECTING \notin {ZOMBIE, ACKNOWLEDGING_DISCONNECT, DISCONNECTED}
  BY DEF ZOMBIE, ACKNOWLEDGING_DISCONNECT, PeerStates, CONNECTING, DISCONNECTED, Asking,
     ACKNOWLEDGING_CONNECT, Established
<1>3. \/ G = DispatchState(E, s, ZOMBIE)
      \/ E.peers[s].state \in Counted /\ G = ChangeState(E, s, ACKNOWLEDGING_DISCONNECT)
      \/ G = Reset(E, s)
  BY <1>1 DEF Disconnected
<1> HIDE DEF E
<1>4. CASE G = DispatchState(E, s, ZOMBIE)
  <2>1. HostOK(n, G) /\ Settles(E, G, s)
    BY <1>1, <1>4, ZombieSettles
  <2>2. G.peers[s].state = ZOMBIE
    BY <1>1, <1>2, <1>4, DispatchStateInherits
  <2> QED BY <1>1, <1>2, <2>1, <2>2, SettlesTwice
<1>5. CASE E.peers[s].state \in Counted /\ G = ChangeState(E, s, ACKNOWLEDGING_DISCONNECT)
  <2>1. /\ HostOK(n, G) /\ Inherits(E, G, s) /\ SameTalk(E.peers[s], G.peers[s])
        /\ G.peers[s].state = ACKNOWLEDGING_DISCONNECT
    BY <1>1, <1>2, <1>5, ChangeStateInherits
  <2>2. Calm(E.peers[s], G.peers[s])
    BY <1>1, <1>2, <1>5, <2>1, CalmMove
  <2>3. Settles(E, G, s)
    BY <2>1, <2>2 DEF Settles
  <2> QED BY <1>1, <1>2, <2>1, <2>3, SettlesTwice
<1>6. CASE G = Reset(E, s)
  <2>1. HostOK(n, G) /\ Settles(E, G, s)
    BY <1>1, <1>6, ResetInherits
  <2>2. Reset(E, s).peers[s].state = DISCONNECTED
    BY <1>1, ResetEffect
  <2> QED BY <1>1, <1>2, <1>6, <2>1, <2>2, SettlesTwice
<1> QED BY <1>3, <1>4, <1>5, <1>6

\* A DISCONNECT.
LEMMA HandleDisconnectDrawn ==
    ASSUME IInv, DrawnInv, NEW h \in Hosts, NEW s \in Slots(h), HandleDisconnect(h, s)
    PROVE  Onward
<1> DEFINE n == PeerCount[h]
           c == TheCommand(h)
           D == Disconnected(host[h], s, c)
           over == {DISCONNECTED, ZOMBIE, ACKNOWLEDGING_DISCONNECT}
<1>1. n \in Nat /\ s \in 1 .. n /\ HostOK(n, host[h]) /\ Peer(h, s) = host[h].peers[s]
  BY HostHere
<1>2. control[h].phase = "commands" /\ control[h].peer = s /\ UNCHANGED verified
  BY DEF HandleDisconnect, At, history
<1>3. CASE Peer(h, s).state \in over
  <2>1. Handled(h, host[h], s, FALSE, FALSE)
    BY <1>3 DEF HandleDisconnect
  <2>2. host[h].peers[s].state # CONNECTING
    BY <1>1, <1>3 DEF CONNECTING, DISCONNECTED, ZOMBIE, ACKNOWLEDGING_DISCONNECT
  <2> QED BY <1>1, <1>2, <2>1, <2>2, SettlesSame, HandledDrawn
<1>4. CASE Peer(h, s).state \notin over
  <2>1. Handled(h, D, s, FALSE, FALSE)
    BY <1>4 DEF HandleDisconnect
  <2> HIDE DEF c
  <2>2. HostOK(n, D) /\ Settles(host[h], D, s) /\ D.peers[s].state # CONNECTING
    BY <1>1, <1>4, DisconnectedInherits
  <2> QED BY <1>2, <2>1, <2>2, HandledDrawn
<1> QED BY <1>3, <1>4

\* The initiator's end of a handshake VERIFY_CONNECT completes.
LEMMA VerifiedShakes ==
    ASSUME IInv, DrawnInv, SeedsApart, NEW o \in Owners, Agreed(o),
           NEW h \in Hosts, NEW s \in Slots(h),
           control[h].phase = "commands", TheCommand(h).type = "VERIFY_CONNECT",
           NEW p, p = Peer(h, s), p.state = CONNECTING,
           NEW q, Heir(p, q), q.state \in Established,
           q.outgoingPeerID = TheCommand(h).peerID,
           verified' = verified \cup {InitiatorOf(h, s, q)}
    PROVE  /\ \A r \in verified' : /\ r.initiator \in Hosts /\ r.id \in Drawn(r.initiator)
                                   /\ r.slot = o[r.id] /\ r.peer # NoPeer
           /\ Shakes(o, verified', h, s, q)
<1> DEFINE c == TheCommand(h)
           r == InitiatorOf(h, s, q)
<1>1. /\ CONNECTING # DISCONNECTED /\ DISCONNECTED \notin Established
      /\ ACKNOWLEDGING_CONNECT \notin Established
  BY DEF CONNECTING, DISCONNECTED, Established, Counted, CONNECTED, DISCONNECT_LATER,
     CONNECTION_PENDING, CONNECTION_SUCCEEDED, ACKNOWLEDGING_DISCONNECT,
     ACKNOWLEDGING_CONNECT
<1>2. c.peerID # NoPeer
  <2>1. control[h].commands \in Seq(Heard(o)) /\ control[h].commands # <<>>
    BY CommandHere DEF Agreed, ControlsShake, ControlShakes
  <2>2. c \in Heard(o)
    BY <2>1, HeadTailProperties DEF TheCommand
  <2> QED BY <2>2 DEF Heard
<1>3. Shakes(o, verified, h, s, p)
  BY DEF Agreed, PeersShake
<1>4. /\ p.address # h /\ p.connectID \in Seeded(h) /\ s = o[p.connectID]
  BY <1>1, <1>3 DEF Shakes, NearEnd, FarEnd
<1>5. /\ p.address \in Hosts /\ p.connectID \in Drawn(h) \cup Drawn(p.address)
  BY <1>1 DEF DrawnInv, PeersDrawn, PeerDrawn
<1>6. p.connectID \in Drawn(h)
  <2>1. Drawn(p.address) \subseteq Seeded(p.address)
    BY <1>5, DrawnSeeded DEF DrawnInv
  <2>2. Seeded(p.address) \cap Seeded(h) = {}
    BY <1>4, <1>5 DEF SeedsApart, Seeded
  <2> QED BY <1>4, <1>5, <2>1, <2>2
<1>7. q.state # DISCONNECTED /\ q.address = p.address /\ q.connectID = p.connectID
  BY <1>1 DEF Heir, SameLink
<1>8. r.initiator = h /\ r.id = p.connectID /\ r.slot = s /\ r.peer = c.peerID
  BY <1>7 DEF InitiatorOf
<1>9. r \in verified'
  OBVIOUS
<1> HIDE DEF r, c
<1>10. \A t \in verified' : /\ t.initiator \in Hosts /\ t.id \in Drawn(t.initiator)
                            /\ t.slot = o[t.id] /\ t.peer # NoPeer
  <2>1. \A t \in verified : /\ t.initiator \in Hosts /\ t.id \in Drawn(t.initiator)
                            /\ t.slot = o[t.id] /\ t.peer # NoPeer
    BY DEF Agreed, VerifiedOwned
  <2>2. verified' = verified \cup {r}
    BY DEF r
  <2> QED BY <1>2, <1>4, <1>6, <1>8, <2>1, <2>2
<1>11. NearEnd(o, verified', h, s, q)
  BY <1>1, <1>4, <1>7, <1>9 DEF NearEnd, r
<1>12. Requests(q, Spoken(o))
  BY <1>3, HeardHolds DEF Shakes, Heir
<1> QED BY <1>4, <1>7, <1>10, <1>11, <1>12 DEF Shakes

\* The answer to a CONNECT.
LEMMA HandleVerifyConnectDrawn ==
    ASSUME IInv, DrawnInv, SeedsApart, NEW h \in Hosts, NEW s \in Slots(h),
           HandleVerifyConnect(h, s)
    PROVE  Onward
<1> DEFINE n == PeerCount[h]
           c == TheCommand(h)
           event == control[h].event
           ack == [Command("ACKNOWLEDGE", ControlChannel, FALSE) EXCEPT !.seq = 1]
           G == RemoveSentReliable(host[h], s, ack)
           old == G.peers[s]
           peer == [old EXCEPT !.outgoingPeerID = c.peerID,
                               !.incomingSessionID = c.incoming,
                               !.outgoingSessionID = c.outgoing]
           L == [G EXCEPT !.peers[s] = peer]
           Z == DispatchState(host[h], s, ZOMBIE)
           N == NotifyConnect(L, s, event)
           done == [initiator |-> h, slot |-> s, acceptor |-> Peer(h, s).address,
                    peer |-> c.peerID, id |-> c.connectID]
<1>1. n \in Nat /\ s \in 1 .. n /\ HostOK(n, host[h]) /\ Peer(h, s) = host[h].peers[s]
  BY HostHere
<1>2. control[h].phase = "commands" /\ control[h].peer = s /\ c.type = "VERIFY_CONNECT"
  BY DEF HandleVerifyConnect, At, TheCommand
<1>3. c \in Commands /\ event \in BOOLEAN
  BY <1>2, CommandHere
<1>4. \/ /\ Peer(h, s).state # CONNECTING /\ Handled(h, host[h], s, FALSE, FALSE)
         /\ UNCHANGED verified
      \/ /\ Peer(h, s).state = CONNECTING /\ Handled(h, Z, s, TRUE, FALSE)
         /\ UNCHANGED verified
      \/ /\ Peer(h, s).state = CONNECTING /\ c.connectID = Peer(h, s).connectID
         /\ Handled(h, N, s, FALSE, event) /\ verified' = verified \cup {done}
  BY DEF HandleVerifyConnect, history
<1>5. CASE Handled(h, host[h], s, FALSE, FALSE) /\ Peer(h, s).state # CONNECTING
           /\ UNCHANGED verified
  BY <1>1, <1>2, <1>5, SettlesSame, HandledDrawn
<1>6. CASE Peer(h, s).state = CONNECTING
  <2>1. host[h].peers[s].state # DISCONNECTED /\ host[h].peers[s].state \notin Established
    BY <1>1, <1>6 DEF CONNECTING, DISCONNECTED, Established, Counted, CONNECTED,
       DISCONNECT_LATER, CONNECTION_PENDING, CONNECTION_SUCCEEDED, ACKNOWLEDGING_DISCONNECT
  <2>2. HostOK(n, Z) /\ Settles(host[h], Z, s)
    BY <1>1, <2>1, ZombieSettles
  <2> HIDE DEF c, event, ack
  <2>3. HostOK(n, G) /\ Inherits(host[h], G, s) /\ old.state # DISCONNECTED
    BY <1>1, <2>1, RemoveSentReliableInherits DEF Settles
  <2> HIDE DEF G
  <2>4. old \in Peers /\ old = G.peers[s]
    BY <1>1, <2>3, HostShape
  <2>5. /\ c.peerID \in Nat /\ c.incoming \in SessionIDs \cup {NoSession}
        /\ c.outgoing \in SessionIDs \cup {NoSession}
    BY <1>3 DEF Commands
  <2> HIDE DEF old
  <2>6. /\ peer \in Peers /\ peer.state = old.state
        /\ peer.needsDispatch = old.needsDispatch /\ peer.outgoingPeerID = c.peerID
        /\ SameLink(old, peer) /\ SameQueues(old, peer)
    BY <2>4, <2>5 DEF Peers, SameLink, SameQueues
  <2> HIDE DEF peer
  <2>7. Heir(old, peer)
    BY <2>6, SameQueuesHeir
  <2>8. HostOK(n, L) /\ Inherits(G, L, s) /\ L.peers[s] = peer
    <3>1. /\ peer.needsDispatch = G.peers[s].needsDispatch
          /\ peer.state \in Counted <=> G.peers[s].state \in Counted
          /\ Heir(G.peers[s], peer)
      BY <2>4, <2>6, <2>7
    <3>2. HostOK(n, L) /\ Inherits(G, L, s)
      BY <1>1, <2>3, <2>6, <3>1, PeerInherits
    <3>3. L.peers[s] = peer
      BY <1>1, <2>3, HostShape DEF HostRecords
    <3> QED BY <3>2, <3>3
  <2> HIDE DEF L
  <2>9. /\ HostOK(n, N) /\ Inherits(L, N, s) /\ SameTalk(L.peers[s], N.peers[s])
        /\ N.peers[s].state \in Established
    BY <1>1, <1>3, <2>3, <2>6, <2>8, NotifyConnectInherits
  <2> HIDE DEF N, Z
  <2>10. Inherits(host[h], L, s)
    BY <1>1, <2>3, <2>8, InheritsTwice
  <2>11. Inherits(host[h], N, s)
    BY <1>1, <2>8, <2>9, <2>10, InheritsTwice
  <2>12. CASE Handled(h, Z, s, TRUE, FALSE) /\ UNCHANGED verified
    BY <1>2, <2>2, <2>12, HandledDrawn
  <2>13. CASE Handled(h, N, s, FALSE, event) /\ verified' = verified \cup {done}
              /\ c.connectID = Peer(h, s).connectID
    <3> DEFINE q == N.peers[s]
               p == Peer(h, s)
    <3>1. Heir(p, q) /\ q.outgoingPeerID = c.peerID /\ q.state \in Established
      BY <1>1, <2>6, <2>8, <2>9, <2>11 DEF Inherits, SameTalk
    <3>2. q.state \notin {DISCONNECTED, CONNECTING, ACKNOWLEDGING_CONNECT}
      BY <3>1 DEF CONNECTING, DISCONNECTED, Established, Counted, CONNECTED, DISCONNECT_LATER,
         CONNECTION_PENDING, CONNECTION_SUCCEEDED, ACKNOWLEDGING_DISCONNECT,
         ACKNOWLEDGING_CONNECT
    <3>3. q.address = p.address /\ q.connectID = p.connectID
      BY <3>1, <3>2 DEF Heir, SameLink
    <3> HIDE DEF q
    <3>4. done = InitiatorOf(h, s, q)
      BY <2>13, <3>1, <3>3 DEF InitiatorOf
    <3>5. verified' = verified \cup {InitiatorOf(h, s, q)} /\ verified \subseteq verified'
      BY <2>13, <3>4
    <3> HIDE DEF p
    <3>6. ASSUME NEW o \in Owners, Agreed(o)
          PROVE  /\ \A r \in verified' : /\ r.initiator \in Hosts /\ r.id \in Drawn(r.initiator)
                                         /\ r.slot = o[r.id] /\ r.peer # NoPeer
                 /\ Shakes(o, verified', h, s, q)
      BY <1>2, <1>6, <3>1, <3>5, <3>6, VerifiedShakes DEF p, c
    <3> QED BY <1>2, <1>3, <2>9, <2>11, <2>13, <3>2, <3>5, <3>6, HandledStep DEF q
  <2> QED BY <1>4, <1>6, <2>12, <2>13
<1> QED BY <1>4, <1>5, <1>6

\* The acceptor's end of a handshake an acknowledgement completes.
LEMMA AcceptedShakes ==
    ASSUME IInv, NEW o \in Owners, Agreed(o), NEW h \in Hosts, NEW s \in Slots(h),
           control[h].phase = "commands", control[h].peer = s,
           TheCommand(h).type = "ACKNOWLEDGE",
           NEW p, p = Peer(h, s), p.state = ACKNOWLEDGING_CONNECT,
           NEW q, Heir(p, q), q.state \in Established, q.outgoingPeerID = p.outgoingPeerID
    PROVE  Shakes(o, verified, h, s, q)
<1>1. /\ ACKNOWLEDGING_CONNECT # DISCONNECTED /\ DISCONNECTED \notin Established
      /\ CONNECTING \notin Established
  BY DEF CONNECTING, DISCONNECTED, Established, Counted, CONNECTED, DISCONNECT_LATER,
     CONNECTION_PENDING, CONNECTION_SUCCEEDED, ACKNOWLEDGING_DISCONNECT,
     ACKNOWLEDGING_CONNECT
<1>2. HasAck(control[h].commands)
  <2>1. control[h].commands \in Seq(Commands) /\ control[h].commands # <<>>
    BY CommandHere DEF ControlOK, Controls
  <2>2. 1 \in 1 .. Len(control[h].commands)
    BY <2>1, EmptySeq, LenProperties
  <2>3. control[h].commands[1] = TheCommand(h)
    BY <2>1 DEF TheCommand
  <2> QED BY <2>2, <2>3 DEF HasAck
<1>3. AcceptorOf(h, s, p) \in verified
  <2>1. ControlShakes(o, verified, h, control[h], host[h])
    BY DEF Agreed, ControlsShake
  <2> QED BY <1>2, <2>1 DEF ControlShakes, Peer
<1>4. Shakes(o, verified, h, s, p)
  BY DEF Agreed, PeersShake
<1>5. q.state # DISCONNECTED /\ q.address = p.address /\ q.connectID = p.connectID
  BY <1>1 DEF Heir, SameLink
<1>6. /\ p.address # h /\ p.connectID \notin Seeded(h)
      /\ p.outgoingPeerID = o[p.connectID]
  BY <1>1, <1>4 DEF Shakes, NearEnd, FarEnd
<1>7. AcceptorOf(h, s, q) = AcceptorOf(h, s, p)
  BY <1>5 DEF AcceptorOf
<1>8. FarEnd(o, verified, h, s, q)
  BY <1>1, <1>3, <1>5, <1>6, <1>7 DEF FarEnd
<1>9. Requests(q, Spoken(o))
  BY <1>4, HeardHolds DEF Shakes, Heir
<1> QED BY <1>5, <1>6, <1>8, <1>9 DEF Shakes

\* An acknowledgement.
LEMMA HandleAcknowledgeDrawn ==
    ASSUME IInv, DrawnInv, NEW h \in Hosts, NEW s \in Slots(h), HandleAcknowledge(h, s)
    PROVE  Onward
<1> DEFINE n == PeerCount[h]
           c == TheCommand(h)
           event == control[h].event
           state == Peer(h, s).state
           G == RemoveSentReliable(host[h], s, c)
           C == NotifyConnect(G, s, event)
           D == NotifyDisconnect(G, s, event)
           L == IF LaterIsDone(G.peers[s]) THEN Disconnect(G, s) ELSE G
<1>1. n \in Nat /\ s \in 1 .. n /\ HostOK(n, host[h]) /\ Peer(h, s) = host[h].peers[s]
  BY HostHere
<1>2. /\ control[h].phase = "commands" /\ control[h].peer = s /\ c.type = "ACKNOWLEDGE"
      /\ UNCHANGED verified
  <2>1. UNCHANGED verified
    BY DEF HandleAcknowledge, history
  <2> QED BY <2>1 DEF HandleAcknowledge, At, TheCommand
<1>3. event \in BOOLEAN
  BY <1>2, CommandHere
<1>4. \/ \E H \in {host[h], G, L}, failed \in BOOLEAN : Handled(h, H, s, failed, FALSE)
      \/ state = ACKNOWLEDGING_CONNECT /\ Handled(h, C, s, FALSE, event)
      \/ state = DISCONNECTING /\ Handled(h, D, s, FALSE, event)
  <2>1. \/ \E failed \in BOOLEAN : \/ Handled(h, host[h], s, failed, FALSE)
                                   \/ Handled(h, G, s, failed, FALSE)
                                   \/ Handled(h, L, s, failed, FALSE)
        \/ state = ACKNOWLEDGING_CONNECT /\ Handled(h, C, s, FALSE, event)
        \/ state = DISCONNECTING /\ Handled(h, D, s, FALSE, event)
    BY DEF HandleAcknowledge
  <2> HIDE DEF L, G, C, D, c, event, state
  <2> QED BY <2>1
<1>5. /\ state = ACKNOWLEDGING_CONNECT => state # DISCONNECTED
      /\ state = DISCONNECTING => state # DISCONNECTED /\ state \notin Established
  BY DEF DISCONNECTED, ACKNOWLEDGING_CONNECT, DISCONNECTING, Established, Counted, CONNECTED,
     DISCONNECT_LATER, CONNECTION_PENDING, CONNECTION_SUCCEEDED, ACKNOWLEDGING_DISCONNECT
<1> HIDE DEF event, c
<1>6. /\ HostOK(n, G) /\ Settles(host[h], G, s) /\ G.peers[s].state = state
      /\ SameTalk(host[h].peers[s], G.peers[s])
  BY <1>1, RemoveSentReliableInherits
<1> HIDE DEF G
<1>7. CASE \E H \in {host[h], G, L}, failed \in BOOLEAN : Handled(h, H, s, failed, FALSE)
  <2>1. PICK H \in {host[h], G, L}, failed \in BOOLEAN : Handled(h, H, s, failed, FALSE)
    BY <1>7
  <2> DEFINE E == Disconnect(G, s)
  <2>2. HostOK(n, E) /\ Settles(G, E, s)
    BY <1>1, <1>6, DisconnectInherits
  <2>3. H \in {host[h], G, E}
    BY <2>1
  <2> HIDE DEF E, L
  <2>4. Settles(host[h], E, s)
    BY <1>1, <1>6, <2>2, SettlesTwice
  <2>5. HostOK(n, H) /\ Settles(host[h], H, s)
    BY <1>1, <1>6, <2>2, <2>3, <2>4, SettlesSame
  <2> QED BY <1>2, <2>1, <2>5, HandledDrawn DEF c
<1> HIDE DEF L
<1>8. CASE state = ACKNOWLEDGING_CONNECT /\ Handled(h, C, s, FALSE, event)
  <2>1. /\ HostOK(n, C) /\ Inherits(G, C, s) /\ SameTalk(G.peers[s], C.peers[s])
        /\ C.peers[s].state \in Established
    BY <1>1, <1>3, <1>5, <1>6, <1>8, NotifyConnectInherits
  <2> HIDE DEF C
  <2>2. Inherits(host[h], G, s)
    BY <1>6 DEF Settles
  <2>3. Inherits(host[h], C, s)
    BY <1>1, <1>6, <2>1, <2>2, InheritsTwice
  <2> DEFINE p == Peer(h, s)
             q == C.peers[s]
  <2>4. Heir(p, q) /\ q.outgoingPeerID = p.outgoingPeerID /\ p.state = ACKNOWLEDGING_CONNECT
    BY <1>1, <1>6, <1>8, <2>1, <2>3 DEF Inherits, SameTalk
  <2>5. q.state \notin {CONNECTING, ACKNOWLEDGING_CONNECT}
    BY <2>1 DEF CONNECTING, Established, Counted, CONNECTED, DISCONNECT_LATER,
       CONNECTION_PENDING, CONNECTION_SUCCEEDED, ACKNOWLEDGING_DISCONNECT,
       ACKNOWLEDGING_CONNECT
  <2> HIDE DEF p, q, state
  <2>6. ASSUME NEW o \in Owners, Agreed(o)
        PROVE  /\ \A r \in verified' : /\ r.initiator \in Hosts /\ r.id \in Drawn(r.initiator)
                                       /\ r.slot = o[r.id] /\ r.peer # NoPeer
               /\ Shakes(o, verified', h, s, q)
    <3>1. \A r \in verified : /\ r.initiator \in Hosts /\ r.id \in Drawn(r.initiator)
                              /\ r.slot = o[r.id] /\ r.peer # NoPeer
      BY <2>6 DEF Agreed, VerifiedOwned
    <3>2. Shakes(o, verified, h, s, q)
      BY <1>2, <2>1, <2>4, <2>6, AcceptedShakes DEF p, q, c
    <3> QED BY <1>2, <3>1, <3>2
  <2> QED BY <1>2, <1>3, <1>8, <2>1, <2>3, <2>5, <2>6, HandledStep DEF q
<1>9. CASE state = DISCONNECTING /\ Handled(h, D, s, FALSE, event)
  <2>1. HostOK(n, D) /\ Settles(G, D, s)
    BY <1>1, <1>3, <1>5, <1>6, <1>9, NotifyDisconnectInherits
  <2> HIDE DEF D
  <2>2. Settles(host[h], D, s)
    BY <1>1, <1>6, <2>1, SettlesTwice
  <2> QED BY <1>2, <1>9, <2>1, <2>2, HandledDrawn DEF c
<1> QED BY <1>4, <1>7, <1>8, <1>9

---------------------------------------------------------------------------
(* Steps that take a slot                                                     *)

\* A free slot is taken for a connection no other slot of the host is of.
LEMMA NewcomerStep ==
    ASSUME IInv, DrawnInv, SeedsApart, NEW h \in Hosts, NEW s \in Slots(h),
           NEW G, SetHost(h, G), Elsewhere(host[h], G, s),
           G.randomSeed \in host[h].randomSeed .. FirstSeed[h] + MaxConnects,
           NEW E, E = FirstSeed[h] + 1 .. G.randomSeed,
           NEW new, new = G.peers[s], Requests(new, Drawing(E)), new.address \in Hosts,
           new.connectID \in E \cup Drawn(new.address),
           \A t \in Slots(h) : t # s => Distinct(Peer(h, t), new)
    PROVE  SeedsDrawn' /\ PeersDrawn' /\ PeersDistinct' /\ DrawnGrows
<1>1. host' = [g \in Hosts |-> IF g = h THEN G ELSE host[g]]
  BY DEF IInv, HostsOK, IsPerHost, SetHost
<1>2. host[h].peers \in [1 .. PeerCount[h] -> Peers] /\ Slots(h) = 1 .. PeerCount[h]
  BY HostHere, HostShape DEF Slots
<1>3. /\ FirstSeed[h] \in Nat /\ MaxConnects \in Nat
      /\ host[h].randomSeed \in FirstSeed[h] .. FirstSeed[h] + MaxConnects
  BY SeedAssumption DEF DrawnInv, SeedsDrawn, SeedsApart
<1>4. /\ G.randomSeed \in FirstSeed[h] .. FirstSeed[h] + MaxConnects
      /\ Drawn(h) \subseteq E
  BY <1>3 DEF Drawn
<1>5. Drawn(h)' = E /\ \A g \in Hosts \ {h} : Drawn(g)' = Drawn(g)
  BY <1>1 DEF Drawn
<1>6. DrawnGrows
  BY <1>4, <1>5 DEF DrawnGrows
<1>7. SeedsDrawn'
  BY <1>1, <1>4 DEF DrawnInv, SeedsDrawn
<1>8. ASSUME NEW g \in Hosts, NEW t \in Slots(g)
      PROVE  \/ g = h /\ t = s /\ Peer(g, t)' = new
             \/ ~ (g = h /\ t = s) /\ Peer(g, t)' = Peer(g, t)
  <2>1. CASE g = h /\ t = s
    BY <1>1, <2>1 DEF Peer
  <2>2. CASE ~ (g = h /\ t = s)
    BY <1>1, <1>2, <2>2 DEF Peer, Elsewhere
  <2> QED BY <2>1, <2>2
<1>9. PeersDrawn'
  <2> SUFFICES ASSUME NEW g \in Hosts, NEW t \in Slots(g) PROVE PeerDrawn(g, Peer(g, t))'
    BY DEF PeersDrawn, Slots
  <2>1. PICK q : q = Peer(g, t)'
    OBVIOUS
  <2>2. CASE g = h /\ t = s /\ q = new
    <3>1. q.connectID \in Drawn(h)' \cup Drawn(q.address)' /\ q.address \in Hosts
      BY <1>5, <1>6, <2>2 DEF DrawnGrows
    <3> QED BY <1>5, <2>1, <2>2, <3>1 DEF PeerDrawn
  <2>3. CASE q = Peer(g, t)
    <3>1. PICK p : p = Peer(g, t)
      OBVIOUS
    <3>2. PeerDrawn(g, p)
      BY <3>1 DEF DrawnInv, PeersDrawn
    <3>3. Requests(p, Drawing(Drawn(g)'))
      BY <1>6, <3>2, RequestsMore DEF DrawnGrows, PeerDrawn
    <3>4. p.state # DISCONNECTED =>
             p.address \in Hosts /\ p.connectID \in Drawn(g)' \cup Drawn(p.address)'
      BY <1>6, <3>2 DEF DrawnGrows, PeerDrawn
    <3> QED BY <2>1, <2>3, <3>1, <3>3, <3>4 DEF PeerDrawn
  <2> QED BY <1>8, <2>1, <2>2, <2>3
<1>10. PeersDistinct'
  <2> SUFFICES ASSUME NEW g \in Hosts, NEW t \in Slots(g), NEW u \in Slots(g), t # u
               PROVE  Distinct(Peer(g, t)', Peer(g, u)')
    BY DEF PeersDistinct, Slots
  <2>1. Distinct(Peer(g, t), Peer(g, u))
    BY DEF DrawnInv, PeersDistinct
  <2>2. ASSUME NEW p, NEW q, Distinct(p, q) PROVE Distinct(q, p)
    BY <2>2 DEF Distinct, SameLink
  <2>3. CASE g = h /\ t = s
    <3>1. Peer(g, t)' = new /\ Peer(g, u)' = Peer(g, u) /\ Distinct(Peer(g, u), new)
      BY <1>8, <2>3
    <3> QED BY <2>2, <3>1
  <2>4. CASE g = h /\ u = s
    <3>1. Peer(g, u)' = new /\ Peer(g, t)' = Peer(g, t) /\ Distinct(Peer(g, t), new)
      BY <1>8, <2>4
    <3> QED BY <3>1
  <2>5. CASE g # h \/ (t # s /\ u # s)
    <3>1. Peer(g, t)' = Peer(g, t) /\ Peer(g, u)' = Peer(g, u)
      BY <1>8, <2>5
    <3> QED BY <2>1, <3>1
  <2> QED BY <2>3, <2>4, <2>5
<1> QED BY <1>6, <1>7, <1>9, <1>10

\* enet_host_connect: the identifier it draws is of no connection yet.
LEMMA ConnectDrawn ==
    ASSUME IInv, DrawnInv, SeedsApart, NEW h \in Hosts, NEW s \in Slots(h),
           NEW address \in Hosts, Connect(h, s, address)
    PROVE  Onward
<1> DEFINE n == PeerCount[h]
           id == host[h].randomSeed + 1
           old == Peer(h, s)
           peer == [old EXCEPT !.state = CONNECTING, !.channelCount = 1,
                               !.address = address, !.connectID = id]
           D == [host[h] EXCEPT !.randomSeed = id]
           H == [D EXCEPT !.peers[s] = peer]
           c == ConnectCommand(H, s)
           E == FirstSeed[h] + 1 .. id
           G == QueueOutgoing(H, s, c)
<1>1. /\ n \in Nat /\ s \in 1 .. n /\ HostOK(n, host[h])
      /\ old \in Peers /\ old = host[h].peers[s]
      /\ id \in Nat /\ host[h] \in HostRecords(n)
  BY HostHere DEF HostOK
<1>2. /\ SetHost(h, G) /\ UNCHANGED <<control, net, verified>>
      /\ address # h /\ host[h].randomSeed < FirstSeed[h] + MaxConnects
      /\ control[h].phase # "commands"
  BY DEF Connect, Peer, MayCall, InApp
<1>3. old.state = DISCONNECTED
  BY DEF Connect, IsFirstFree, FreeSlots
<1>4. /\ D \in HostRecords(n) /\ D.peers = host[h].peers /\ D.randomSeed = id
      /\ D.dispatchQueue = host[h].dispatchQueue
      /\ D.connectedPeers = host[h].connectedPeers
  BY <1>1 DEF HostRecords
<1>5. /\ FirstSeed[h] \in Nat /\ MaxConnects \in Nat
      /\ host[h].randomSeed \in FirstSeed[h] .. FirstSeed[h] + MaxConnects
  BY SeedAssumption DEF DrawnInv, SeedsDrawn, SeedsApart
<1>6. /\ id \in host[h].randomSeed .. FirstSeed[h] + MaxConnects
      /\ id \in E /\ id \notin Drawn(h) /\ Drawn(h) \subseteq E
      /\ id \in Seeded(h)
  BY <1>2, <1>5 DEF Drawn, Seeded
<1>7. \A g \in Hosts : id \notin Drawn(g)
  <2>1. \A g \in Hosts : Drawn(g) \subseteq Seeded(g)
    BY DrawnSeeded DEF DrawnInv
  <2>2. \A g \in Hosts : g # h => Seeded(g) \cap Seeded(h) = {}
    BY DEF SeedsApart, Seeded
  <2> HIDE DEF id
  <2> QED BY <1>6, <2>1, <2>2
<1> HIDE DEF D, id, E
<1>8. HostOK(n, D)
  BY <1>1, <1>4 DEF HostOK, CountExact, CountedSlots, QueueExact
<1>9. CONNECTING \in PeerStates
  BY DEF CONNECTING, PeerStates
<1>10. /\ peer \in Peers /\ peer.state = CONNECTING /\ peer.connectID = id
       /\ peer.address = address /\ peer.needsDispatch = old.needsDispatch
       /\ peer.acknowledgements = old.acknowledgements
       /\ SameQueues(old, peer)
  BY <1>1, <1>9 DEF Peers, SameQueues
<1>11. peer.state \in Counted <=> old.state \in Counted
  BY <1>3, <1>10 DEF Counted, CONNECTING, DISCONNECTED, CONNECTED, DISCONNECT_LATER
<1> HIDE DEF peer
<1>12. /\ HostOK(n, H) /\ H.peers = [D.peers EXCEPT ![s] = peer]
       /\ H.randomSeed = D.randomSeed
  <2>1. HostOK(n, H)
    BY <1>1, <1>4, <1>8, <1>10, <1>11, PeerUpdated
  <2>2. H.peers = [D.peers EXCEPT ![s] = peer] /\ H.randomSeed = D.randomSeed
    BY <1>4 DEF HostRecords
  <2> QED BY <2>1, <2>2
<1>13. H.peers[s] = peer /\ Elsewhere(host[h], H, s)
  <2> HIDE DEF H
  <2>1. H.peers[s] = peer /\ Elsewhere(D, H, s)
    BY <1>1, <1>4, <1>12, ElsewhereOf
  <2> QED BY <1>4, <2>1 DEF Elsewhere
<1>14. /\ c \in Commands /\ c.connectID = id /\ c.peerID = s
       /\ c.type = "CONNECT"
  <2> DEFINE blank == Command("CONNECT", ControlChannel, TRUE)
  <2>1. blank \in Commands /\ blank.type = "CONNECT"
    BY CommandType DEF CommandTypes, Command
  <2> HIDE DEF H
  <2>2. /\ H.peers[s].connectID \in Nat /\ H.peers[s].connectID = id
        /\ H.peers[s].incomingSessionID \in SessionIDs \cup {NoSession}
        /\ H.peers[s].outgoingSessionID \in SessionIDs \cup {NoSession}
    BY <1>10, <1>13 DEF Peers
  <2>3. s \in Nat
    BY <1>1
  <2>4. c \in Commands
    BY <2>1, <2>2, <2>3, HandshakeCommandType DEF ConnectCommand
  <2>5. c.connectID = H.peers[s].connectID /\ c.peerID = s /\ c.type = "CONNECT"
    <3>1. c = [blank EXCEPT !.connectID = H.peers[s].connectID, !.peerID = s,
                            !.incoming = H.peers[s].incomingSessionID,
                            !.outgoing = H.peers[s].outgoingSessionID]
      BY DEF ConnectCommand
    <3> HIDE DEF blank, c
    <3> QED BY <2>1, <3>1 DEF Commands
  <2> QED BY <2>2, <2>4, <2>5
<1> HIDE DEF c, H
<1>15. ASSUME NEW k \in Nat, NEW d, d = [c EXCEPT !.seq = k]
       PROVE  /\ d \in Commands /\ d.connectID = id /\ d.peerID = s /\ d.type = "CONNECT"
  BY <1>14, <1>15 DEF Commands
<1>16. /\ HostOK(n, G) /\ Elsewhere(H, G, s) /\ G.randomSeed = H.randomSeed
       /\ SameLink(H.peers[s], G.peers[s]) /\ SameTalk(H.peers[s], G.peers[s])
       /\ G.peers[s].state = H.peers[s].state
       /\ AsksAlso(H.peers[s], G.peers[s], c)
  <2>1. HostOK(n, H) /\ c \in Commands /\ n \in Nat /\ s \in 1 .. n
    BY <1>1, <1>12, <1>14
  <2>2. G = QueueOutgoing(H, s, c)
    OBVIOUS
  <2> HIDE DEF G, n
  <2> QED BY <2>1, <2>2, QueueOutgoingAsks
<1> HIDE DEF G
<1>17. Elsewhere(host[h], G, s) /\ G.randomSeed = id
  BY <1>1, <1>4, <1>12, <1>13, <1>16, ElsewhereTwice
<1> DEFINE new == G.peers[s]
<1>18. ASSUME NEW T, Requests(old, T),
              \A d \in Commands : d.connectID = id /\ d.peerID = s /\ d.type = "CONNECT" => d \in T
       PROVE  Requests(new, T)
  <2>1. Numbering(T, c)
    BY <1>15, <1>18 DEF Numbering
  <2>2. Requests(peer, T)
    BY <1>10, <1>18 DEF SameQueues, Requests
  <2> QED BY <1>13, <1>16, <2>1, <2>2 DEF AsksAlso
<1>19. Requests(new, Drawing(E))
  <2>1. Requests(old, Drawing(Drawn(h)))
    BY DEF DrawnInv, PeersDrawn, PeerDrawn
  <2>2. Requests(old, Drawing(E))
    BY <1>6, <2>1, RequestsMore
  <2>3. \A d \in Commands : d.connectID = id /\ d.peerID = s /\ d.type = "CONNECT"
            => d \in Drawing(E)
    BY <1>6 DEF Drawing
  <2> HIDE DEF new, old
  <2> QED BY <1>18, <2>2, <2>3
<1>20. /\ new.address = address /\ new.connectID = id /\ new.state = CONNECTING
       /\ new.acknowledgements = old.acknowledgements
       /\ E = FirstSeed[h] + 1 .. G.randomSeed
       /\ G.randomSeed \in host[h].randomSeed .. FirstSeed[h] + MaxConnects
  BY <1>6, <1>10, <1>13, <1>16, <1>17 DEF SameLink, SameTalk, E
<1> HIDE DEF new
<1>21. ASSUME NEW t \in Slots(h), t # s PROVE Distinct(Peer(h, t), new)
  <2>1. PeerDrawn(h, Peer(h, t))
    BY DEF DrawnInv, PeersDrawn
  <2> QED BY <1>7, <1>20, <2>1 DEF PeerDrawn, Distinct, SameLink
<1>22. SeedsDrawn' /\ PeersDrawn' /\ PeersDistinct' /\ DrawnGrows
  <2>1. /\ SetHost(h, G) /\ Elsewhere(host[h], G, s) /\ new = G.peers[s]
        /\ new.address \in Hosts /\ new.connectID \in E \cup Drawn(new.address)
    BY <1>2, <1>6, <1>17, <1>20 DEF new
  <2> QED BY <1>19, <1>20, <1>21, <2>1, NewcomerStep
<1>23. NetDrawn'
  BY <1>2, <1>22, NetStays DEF DrawnInv
<1>24. SetControl(h, control[h])
  BY <1>2, ControlKept
<1>25. ControlDrawn(control[h])
  BY <1>2 DEF ControlDrawn
<1>26. ControlsDrawn'
  BY <1>22, <1>24, <1>25, ControlDrawnSet DEF DrawnInv
<1>27. DrawnInv'
  BY <1>22, <1>23, <1>26 DEF DrawnInv
<1>28. ASSUME HandshakeInv PROVE HandshakeInv'
  <2>1. PICK owner \in Owners : Agreed(owner)
    BY <1>28 DEF HandshakeInv
  <2>2. s \in Nat \ {0}
    BY <1>1
  <2>3. PICK o : o \in Owners /\ o[id] = s /\ Agreed(o)
    <3> HIDE DEF id
    <3>1. id \in Nat
      BY <1>1
    <3>2. \A p : p = [owner EXCEPT ![id] = s] => p \in Owners /\ p[id] = s /\ Agreed(p)
      BY <1>7, <2>1, <2>2, <3>1, OwnerFresh
    <3> QED BY <3>2
  <2>4. verified \subseteq verified' /\ VerifiedOwned(o)' /\ NetShakes(o)'
    BY <1>2, <1>22, <2>3, VerifiedStays, NetShakesOn DEF Agreed
  <2>5. Shakes(o, verified, h, s, old)
    BY <2>3 DEF Agreed, PeersShake
  <2>6. /\ CONNECTING \notin Established /\ DISCONNECTED \notin Established
        /\ CONNECTING # ACKNOWLEDGING_CONNECT
    BY DEF CONNECTING, ACKNOWLEDGING_CONNECT, DISCONNECTED, Established, Counted, CONNECTED,
       DISCONNECT_LATER, CONNECTION_PENDING, CONNECTION_SUCCEEDED, ACKNOWLEDGING_DISCONNECT
  <2>7. Requests(new, Spoken(o))
    <3>1. Requests(old, Spoken(o))
      BY <2>5 DEF Shakes
    <3>2. \A d \in Commands : d.connectID = id /\ d.peerID = s /\ d.type = "CONNECT"
              => d \in Spoken(o)
      BY <2>3 DEF Spoken, Heard
    <3> HIDE DEF old
    <3> QED BY <1>18, <3>1, <3>2
  <2>8. new.acknowledgements = <<>>
    BY <1>3, <1>20, <2>5, <2>6 DEF Shakes
  <2>9. Shakes(o, verified', h, s, new)
    BY <1>2, <1>6, <1>20, <2>3, <2>6, <2>7, <2>8 DEF Shakes, NearEnd
  <2>10. ControlShakes(o, verified', h, control[h], G)
    BY <1>2 DEF ControlShakes
  <2>11. Agreed(o)'
    BY <1>2, <1>17, <1>24, <2>3, <2>4, <2>9, <2>10, AgreedStep DEF new
  <2> QED BY <2>3, <2>11 DEF HandshakeInv, Owners
<1> QED BY <1>27, <1>28 DEF Onward

\* The answers to a CONNECT that was given slot s.
Answers(s) == {c \in Commands : c.type = "VERIFY_CONNECT" /\ c.peerID = s}

\* Peer q of slot s has to send what peer p had to send, and such answers.
Answering(p, q, s) ==
    \A T : Answers(s) \subseteq T /\ Requests(p, T) => Requests(q, T)

\* The peer of an accepted CONNECT is of the connection that was asked for, and its
\* answer asks for none.
LEMMA AcceptedAsks ==
    ASSUME NEW n \in Nat, NEW H, HostOK(n, H), NEW s \in 1 .. n,
           NEW address \in Hosts, NEW c \in Commands,
           H.peers[s].state = DISCONNECTED, NEW G, G = Accepted(H, s, address, c)
    PROVE  /\ HostOK(n, G) /\ Elsewhere(H, G, s) /\ G.randomSeed = H.randomSeed
           /\ G.peers[s].state = ACKNOWLEDGING_CONNECT
           /\ G.peers[s].address = address /\ G.peers[s].connectID = c.connectID
           /\ G.peers[s].outgoingPeerID = c.peerID
           /\ G.peers[s].acknowledgements = H.peers[s].acknowledgements
           /\ Answering(H.peers[s], G.peers[s], s)
<1> DEFINE old == H.peers[s]
           sessionIn == NextSession(c.incoming, old.outgoingSessionID)
           sessionOut == NextSession(c.outgoing, old.incomingSessionID)
           id == c.connectID
           to == c.peerID
           placed == [old EXCEPT !.state = ACKNOWLEDGING_CONNECT, !.channelCount = 1,
                                 !.connectID = id, !.address = address]
           peer == [placed EXCEPT !.outgoingPeerID = to,
                                  !.outgoingSessionID = sessionIn,
                                  !.incomingSessionID = sessionOut]
           taken == [H EXCEPT !.peers[s] = peer]
           reply == [Command("VERIFY_CONNECT", ControlChannel, TRUE) EXCEPT
                        !.connectID = id, !.peerID = s,
                        !.incoming = sessionIn, !.outgoing = sessionOut]
<1>1. old \in Peers /\ H \in HostRecords(n)
  BY HostShape
<1>2. /\ id \in Nat /\ to \in Nat /\ s \in Nat
      /\ c.incoming \in SessionIDs \cup {NoSession}
      /\ c.outgoing \in SessionIDs \cup {NoSession}
  BY DEF Commands
<1>3. /\ old.outgoingSessionID \in SessionIDs \cup {NoSession}
      /\ old.incomingSessionID \in SessionIDs \cup {NoSession}
  BY <1>1 DEF Peers
<1>4. sessionIn \in SessionIDs /\ sessionOut \in SessionIDs
  BY <1>2, <1>3, NextSessionType
<1>5. G = QueueOutgoing(taken, s, reply)
  <2>1. peer = [old EXCEPT !.state = ACKNOWLEDGING_CONNECT, !.channelCount = 1,
                           !.connectID = c.connectID, !.address = address,
                           !.outgoingPeerID = c.peerID,
                           !.outgoingSessionID = sessionIn,
                           !.incomingSessionID = sessionOut]
    OBVIOUS
  <2> HIDE DEF peer
  <2> QED BY <2>1 DEF Accepted
<1>6. HostOK(n, G)
  BY AcceptedType
<1> HIDE DEF sessionIn, sessionOut, id, to
<1>7. ACKNOWLEDGING_CONNECT \in PeerStates /\ ACKNOWLEDGING_CONNECT \notin Counted
      /\ DISCONNECTED \notin Counted
  BY DEF ACKNOWLEDGING_CONNECT, PeerStates, Counted, CONNECTED, DISCONNECT_LATER,
         DISCONNECTED
<1>8. /\ placed \in Peers /\ placed.state = ACKNOWLEDGING_CONNECT
      /\ placed.needsDispatch = old.needsDispatch
      /\ placed.connectID = id /\ placed.address = address
      /\ placed.acknowledgements = old.acknowledgements
      /\ SameQueues(old, placed)
  BY <1>1, <1>2, <1>7 DEF Peers, SameQueues
<1> HIDE DEF placed
<1>9. /\ peer \in Peers /\ peer.state = ACKNOWLEDGING_CONNECT
      /\ peer.needsDispatch = old.needsDispatch
      /\ peer.connectID = id /\ peer.address = address /\ peer.outgoingPeerID = to
      /\ peer.acknowledgements = old.acknowledgements
      /\ SameQueues(old, peer)
  BY <1>2, <1>4, <1>8 DEF Peers, SameQueues
<1> HIDE DEF peer
<1>10. /\ HostOK(n, taken) /\ taken.peers = [H.peers EXCEPT ![s] = peer]
       /\ taken.randomSeed = H.randomSeed
  <2>1. HostOK(n, taken)
    BY <1>7, <1>9, PeerUpdated
  <2>2. taken.peers = [H.peers EXCEPT ![s] = peer] /\ taken.randomSeed = H.randomSeed
    BY <1>1 DEF HostRecords
  <2> QED BY <2>1, <2>2
<1> HIDE DEF taken
<1>11. Elsewhere(H, taken, s) /\ taken.peers[s] = peer
  BY <1>1, <1>10, ElsewhereOf
<1>12. reply \in Commands /\ reply.type = "VERIFY_CONNECT" /\ reply.peerID = s
  <2> DEFINE blank == Command("VERIFY_CONNECT", ControlChannel, TRUE)
  <2>1. blank \in Commands /\ blank.type = "VERIFY_CONNECT"
    BY CommandType DEF CommandTypes, Command
  <2>2. reply \in Commands
    BY <2>1, <1>2, <1>4, HandshakeCommandType
  <2>3. reply.type = "VERIFY_CONNECT" /\ reply.peerID = s
    <3>1. reply = [blank EXCEPT !.connectID = id, !.peerID = s,
                                !.incoming = sessionIn, !.outgoing = sessionOut]
      OBVIOUS
    <3> HIDE DEF blank, reply
    <3> QED BY <2>1, <3>1 DEF Commands
  <2> QED BY <2>2, <2>3
<1> HIDE DEF reply
<1>13. /\ Elsewhere(taken, G, s) /\ G.randomSeed = taken.randomSeed
       /\ SameLink(taken.peers[s], G.peers[s])
       /\ G.peers[s].state = taken.peers[s].state
       /\ SameTalk(taken.peers[s], G.peers[s])
       /\ AsksAlso(taken.peers[s], G.peers[s], reply)
  <2>1. HostOK(n, taken) /\ reply \in Commands
    BY <1>10, <1>12
  <2> QED BY <1>5, <2>1, QueueOutgoingAsks
<1>14. ASSUME NEW T, Answers(s) \subseteq T PROVE Numbering(T, reply)
  <2>1. \A k \in Nat : [reply EXCEPT !.seq = k] \in Answers(s)
    BY <1>12 DEF Answers, Commands
  <2> QED BY <1>14, <2>1 DEF Numbering
<1>15. ASSUME NEW T, Requests(old, T) PROVE Requests(peer, T)
  BY <1>9, <1>15 DEF SameQueues, Requests
<1>16. Elsewhere(H, G, s)
  BY <1>6, <1>10, <1>11, <1>13, ElsewhereTwice
<1>17. ASSUME NEW T, Answers(s) \subseteq T, Requests(old, T) PROVE Requests(G.peers[s], T)
  <2>1. Requests(taken.peers[s], T) /\ Numbering(T, reply)
    BY <1>11, <1>14, <1>15, <1>17
  <2> QED BY <1>13, <2>1 DEF AsksAlso
<1>18. /\ G.peers[s].state = ACKNOWLEDGING_CONNECT
       /\ G.peers[s].address = address /\ G.peers[s].connectID = id
       /\ G.peers[s].outgoingPeerID = to
       /\ G.peers[s].acknowledgements = old.acknowledgements
  BY <1>9, <1>11, <1>13 DEF SameLink, SameTalk
<1>19. G.randomSeed = H.randomSeed
  BY <1>10, <1>13
<1> QED BY <1>6, <1>16, <1>17, <1>18, <1>19 DEF id, to, Answering

\* A CONNECT: one whose connection has a slot is not given another one.
LEMMA HandleConnectDrawn ==
    ASSUME IInv, DrawnInv, SeedsApart, NEW h \in Hosts, HandleConnect(h)
    PROVE  Onward
<1> DEFINE n == PeerCount[h]
           c == TheCommand(h)
           from == control[h].from
<1>1. control[h].phase = "commands" /\ control[h].peer = NoPeer
  BY DEF HandleConnect, At
<1>2. c \in Commands /\ control[h].commands # <<>> /\ c = Head(control[h].commands)
  BY <1>1, CommandHere DEF TheCommand
<1>3. /\ from \in Hosts /\ c.connectID \in Drawn(from) /\ c.type = "CONNECT"
  <2>1. from \in Hosts /\ control[h].commands \in Seq(Drawing(Drawn(from)))
    BY <1>1 DEF DrawnInv, ControlsDrawn, ControlDrawn, Carries
  <2>2. c \in Drawing(Drawn(from))
    BY <1>2, <2>1, HeadTailProperties
  <2>3. c.type = "CONNECT"
    BY <1>2 DEF HandleConnect, At
  <2> QED BY <2>1, <2>2, <2>3 DEF Drawing
<1>4. CASE IsKnown(h, c) \/ FreeSlots(h) = {}
  <2> DEFINE d == AfterCommand(control[h], TRUE, FALSE, NoPeer)
  <2>1. SetControl(h, d) /\ UNCHANGED <<host, net, verified>>
    BY <1>4 DEF HandleConnect, history
  <2>2. d.phase # "commands"
    <3> DEFINE last == [control[h] EXCEPT !.phase = "receive", !.commands = <<>>,
                                          !.peer = NoPeer, !.from = NoHost]
    <3>1. d \in {Idle, last}
      BY DEF AfterCommand
    <3>2. last.phase = "receive"
      BY <1>1, CommandHere DEF ControlOK, Controls
    <3> HIDE DEF d, last
    <3> QED BY <3>1, <3>2, IdleDrawn
  <2> HIDE DEF d
  <2> QED BY <2>1, <2>2, ControlMoved
<1>5. CASE ~ (IsKnown(h, c) \/ FreeSlots(h) = {})
  <2>1. PICK s \in Slots(h) :
           /\ IsFirstFree(h, s)
           /\ Handled(h, Accepted(host[h], s, from, c), s, FALSE, FALSE)
           /\ UNCHANGED verified
    BY <1>5 DEF HandleConnect
  <2> DEFINE G == Accepted(host[h], s, from, c)
             E == Drawn(h)
             old == host[h].peers[s]
             new == G.peers[s]
             d == AfterCommand(control[h], FALSE, FALSE, s)
  <2>2. /\ n \in Nat /\ s \in 1 .. n /\ HostOK(n, host[h])
        /\ host[h].peers[s].state = DISCONNECTED /\ Peer(h, s) = host[h].peers[s]
    BY <2>1, HostHere DEF IsFirstFree, FreeSlots
  <2>3. \A t \in Slots(h) : Peer(h, t).state # DISCONNECTED =>
           ~ (Peer(h, t).address = from /\ Peer(h, t).connectID = c.connectID)
    BY <1>5 DEF IsKnown
  <2>4. /\ SetHost(h, IF ~ FALSE /\ Acknowledges(G.peers[s].state, c)
                      THEN QueueAcknowledgement(G, s, c) ELSE G)
        /\ SetControl(h, d) /\ UNCHANGED net
    BY <2>1 DEF Handled
  <2>5. d.phase = "commands" =>
           d.peer = s /\ d.from = control[h].from /\ d.commands = Tail(control[h].commands)
    <3>1. PICK f \in BOOLEAN : f = FALSE
      OBVIOUS
    <3>2. d = AfterCommand(control[h], f, f, s)
      BY <3>1
    <3> HIDE DEF d
    <3> QED BY <1>1, <3>2, AfterCommandSteady
  <2> HIDE DEF c, from, n, d
  <2>6. /\ HostOK(n, G) /\ Elsewhere(host[h], G, s) /\ G.randomSeed = host[h].randomSeed
        /\ G.peers[s].state = ACKNOWLEDGING_CONNECT
        /\ G.peers[s].address = from /\ G.peers[s].connectID = c.connectID
        /\ G.peers[s].outgoingPeerID = c.peerID
        /\ G.peers[s].acknowledgements = host[h].peers[s].acknowledgements
        /\ Answering(host[h].peers[s], G.peers[s], s)
    BY <1>2, <1>3, <2>2, AcceptedAsks
  <2> HIDE DEF G
  <2>7. SetHost(h, G)
    BY <2>4, <2>6 DEF Acknowledges
  <2>8. /\ G.randomSeed \in host[h].randomSeed .. FirstSeed[h] + MaxConnects
        /\ E = FirstSeed[h] + 1 .. G.randomSeed
    <3>1. /\ FirstSeed[h] \in Nat /\ MaxConnects \in Nat
          /\ host[h].randomSeed \in FirstSeed[h] .. FirstSeed[h] + MaxConnects
      BY SeedAssumption DEF DrawnInv, SeedsDrawn, SeedsApart
    <3> QED BY <2>6, <3>1 DEF Drawn
  <2>9. Requests(new, Drawing(E))
    <3>1. Requests(old, Drawing(E))
      BY <2>2 DEF DrawnInv, PeersDrawn, PeerDrawn
    <3>2. Answers(s) \subseteq Drawing(E)
      BY DEF Answers, Drawing
    <3> HIDE DEF E
    <3> QED BY <2>6, <3>1, <3>2 DEF Answering
  <2>10. new.address \in Hosts /\ new.connectID \in E \cup Drawn(new.address)
    BY <1>3, <2>6
  <2>11. \A t \in Slots(h) : t # s => Distinct(Peer(h, t), new)
    BY <2>3, <2>6 DEF Distinct, SameLink
  <2>12. new = G.peers[s]
    OBVIOUS
  <2> HIDE DEF E, new
  <2>13. SeedsDrawn' /\ PeersDrawn' /\ PeersDistinct' /\ DrawnGrows
    BY <2>6, <2>7, <2>8, <2>9, <2>10, <2>11, <2>12, NewcomerStep
  <2>14. ControlDrawn(d)
    <3>1. CASE d.phase = "commands"
      BY <1>1, <2>5, <3>1, RestShakes
    <3> QED BY <3>1 DEF ControlDrawn
  <2>15. NetDrawn' /\ ControlsDrawn'
    BY <2>4, <2>13, <2>14, NetStays, ControlDrawnSet DEF DrawnInv
  <2>16. ASSUME NEW o \in Owners, Agreed(o) PROVE Agreed(o)'
    <3>1. verified \subseteq verified' /\ VerifiedOwned(o)' /\ NetShakes(o)'
      BY <2>1, <2>4, <2>13, <2>16, VerifiedStays, NetShakesOn DEF Agreed
    <3>2. ControlShakes(o, verified, h, control[h], host[h])
      BY <2>16 DEF Agreed, ControlsShake
    <3>3. /\ control[h].commands \in Seq(Heard(o)) /\ from # h
          /\ ~ HasAck(control[h].commands)
      BY <1>1, <3>2 DEF ControlShakes, from
    <3>4. c.peerID = o[c.connectID]
      <4>1. c \in Heard(o)
        BY <1>2, <3>3, HeadTailProperties
      <4> QED BY <1>3, <4>1 DEF Heard
    <3>5. c.connectID \notin Seeded(h)
      <4>1. c.connectID \in Seeded(from)
        BY <1>3, DrawnSeeded DEF DrawnInv
      <4>2. Seeded(from) \cap Seeded(h) = {}
        BY <1>3, <3>3 DEF SeedsApart, Seeded
      <4> QED BY <4>1, <4>2
    <3>6. Shakes(o, verified, h, s, old)
      BY <2>2, <2>16 DEF Agreed, PeersShake
    <3>7. /\ ACKNOWLEDGING_CONNECT \notin Established /\ DISCONNECTED \notin Established
          /\ CONNECTING # ACKNOWLEDGING_CONNECT
      BY DEF CONNECTING, ACKNOWLEDGING_CONNECT, DISCONNECTED, Established, Counted, CONNECTED,
         DISCONNECT_LATER, CONNECTION_PENDING, CONNECTION_SUCCEEDED, ACKNOWLEDGING_DISCONNECT
    <3>8. Requests(new, Spoken(o))
      <4>1. Answers(s) \subseteq Spoken(o)
        BY <2>2 DEF Answers, Spoken, Heard, NoPeer
      <4>2. Requests(old, Spoken(o))
        BY <3>6 DEF Shakes
      <4> QED BY <2>6, <2>12, <4>1, <4>2 DEF Answering
    <3>9. new.acknowledgements = <<>>
      BY <2>2, <2>6, <2>12, <3>6, <3>7 DEF Shakes
    <3>10. Shakes(o, verified', h, s, new)
      BY <2>6, <2>12, <3>3, <3>4, <3>5, <3>7, <3>8, <3>9 DEF Shakes, FarEnd
    <3>11. ControlShakes(o, verified', h, d, G)
      <4>1. CASE d.phase = "commands"
        <5>1. /\ d.commands \in Seq(Heard(o)) /\ d.from # h
              /\ ~ HasAck(d.commands)
          BY <1>1, <2>5, <2>16, <3>3, <4>1, RestShakes
        <5> QED BY <5>1 DEF ControlShakes
      <4> QED BY <4>1 DEF ControlShakes
    <3> QED BY <2>4, <2>6, <2>7, <2>12, <2>16, <3>1, <3>10, <3>11, AgreedStep
  <2>17. HandshakeInv => HandshakeInv'
    BY <2>16 DEF HandshakeInv, Owners
  <2> QED BY <2>13, <2>15, <2>17 DEF Onward, DrawnInv
<1> QED BY <1>4, <1>5

---------------------------------------------------------------------------

\* A host just created drew nothing and asks for nothing.
LEMMA InitDrawn == SeedsApart /\ Init => DrawnInv
<1> SUFFICES ASSUME SeedsApart, Init PROVE DrawnInv
  OBVIOUS
<1>1. SeedsDrawn
  <2> SUFFICES ASSUME NEW h \in Hosts
               PROVE  host[h].randomSeed \in FirstSeed[h] .. FirstSeed[h] + MaxConnects
    BY DEF SeedsDrawn
  <2>1. host[h].randomSeed = FirstSeed[h] /\ FirstSeed[h] \in Nat /\ MaxConnects \in Nat
    BY SeedAssumption DEF Init, SeedsApart
  <2> QED BY <2>1
<1>2. \A h \in Hosts : \A s \in Slots(h) : Peer(h, s) = FreePeer
  BY DEF Init, Peer
<1>3. /\ FreePeer.state = DISCONNECTED /\ FreePeer.outgoingReliable = <<>>
      /\ FreePeer.sentReliable = <<>> /\ FreePeer.outgoingUnreliable = <<>>
  BY DEF FreePeer
<1>4. PeersDrawn
  <2> SUFFICES ASSUME NEW h \in Hosts PROVE PeerDrawn(h, FreePeer)
    BY <1>2 DEF PeersDrawn
  <2>1. <<>> \in Seq(Drawing(Drawn(h)))
    OBVIOUS
  <2> QED BY <1>3, <2>1 DEF PeerDrawn, Requests
<1>5. PeersDistinct
  BY <1>2, <1>3 DEF PeersDistinct, Distinct
<1>6. NetDrawn /\ ControlsDrawn
  BY IdleDrawn DEF Init, NetDrawn, ControlsDrawn
<1> QED BY <1>1, <1>4, <1>5, <1>6 DEF DrawnInv

\* Hosts just created have shaken no hands.
LEMMA InitHandshake == Init => HandshakeInv
<1> SUFFICES ASSUME Init PROVE HandshakeInv
  OBVIOUS
<1> DEFINE o == [id \in Nat |-> 1]
<1>1. o \in Owners
  BY DEF Owners
<1> HIDE DEF o
<1>2. \A h \in Hosts : \A s \in Slots(h) : Peer(h, s) = FreePeer
  BY DEF Init, Peer
<1>3. /\ FreePeer.state = DISCONNECTED /\ FreePeer.outgoingReliable = <<>>
      /\ FreePeer.sentReliable = <<>> /\ FreePeer.outgoingUnreliable = <<>>
      /\ FreePeer.acknowledgements = <<>>
  BY DEF FreePeer
<1>4. Requests(FreePeer, Spoken(o))
  <2>1. <<>> \in Seq(Spoken(o))
    OBVIOUS
  <2> QED BY <1>3, <2>1 DEF Requests
<1>5. PeersShake(o)
  BY <1>2, <1>3, <1>4 DEF PeersShake, Shakes
<1>6. VerifiedOwned(o) /\ NetShakes(o)
  BY DEF Init, VerifiedOwned, NetShakes
<1>7. ControlsShake(o)
  BY IdleDrawn DEF Init, ControlsShake, ControlShakes
<1> QED BY <1>1, <1>5, <1>6, <1>7 DEF HandshakeInv, Agreed

\* Every step of a host keeps to the identifiers drawn, and to the handshakes.
LEMMA HostStepDrawn ==
    ASSUME IInv, DrawnInv, SeedsApart, NEW h \in Hosts, HostStep(h)
    PROVE  Onward
<1>1. CASE AppStep(h)
  BY <1>1, OtherCallsDrawn, ConnectDrawn, SendDrawn, DisconnectPeerDrawn,
     DisconnectPeerLaterDrawn, DisconnectPeerNowDrawn, ResetPeerDrawn DEF AppStep
<1>2. CASE DispatchStep(h)
  BY <1>2, DispatchDoneDrawn, DispatchDrawn DEF DispatchStep
<1>3. CASE SendStep(h)
  BY <1>3, FlushDoneDrawn, SendNothingDrawn, SendPeerDrawn, GiveUpDrawn DEF SendStep
<1>4. CASE ReceiveStep(h)
  BY <1>4, ReceiveNothingDrawn, ReceiveDrawn DEF ReceiveStep
<1>5. CASE CommandStep(h)
  BY <1>5, HandleConnectDrawn, HandleAcknowledgeDrawn, HandleVerifyConnectDrawn,
     HandleDisconnectDrawn, HandlePingDrawn, HandleSendDrawn DEF CommandStep
<1> QED BY <1>1, <1>2, <1>3, <1>4, <1>5 DEF HostStep

\* So does every step of the system.
LEMMA DrawnInductive == SeedsApart /\ IInv /\ DrawnInv /\ [Next]_vars => DrawnInv'
<1> SUFFICES ASSUME SeedsApart, IInv, DrawnInv, [Next]_vars PROVE DrawnInv'
  OBVIOUS
<1>1. CASE Next
  <2>1. PICK h \in Hosts : HostStep(h)
    BY <1>1 DEF Next
  <2> QED BY <2>1, HostStepDrawn DEF Onward
<1>2. CASE UNCHANGED vars
  BY <1>2 DEF vars, DrawnInv, SeedsDrawn, PeersDrawn, PeersDistinct, NetDrawn,
     ControlsDrawn, Peer, PeerDrawn, Drawn, ControlDrawn, Carries
<1> QED BY <1>1, <1>2

\* And, behind the fence, to the handshakes.
LEMMA HandshakeInductive ==
    SeedsApart /\ IInv /\ DrawnInv /\ HandshakeInv /\ [Next]_vars /\ [Fenced]_vars
        => HandshakeInv'
<1> SUFFICES ASSUME SeedsApart, IInv, DrawnInv, HandshakeInv, [Next]_vars, [Fenced]_vars
             PROVE  HandshakeInv'
  OBVIOUS
<1>1. CASE Next /\ Fenced
  <2>1. PICK h \in Hosts : HostStep(h)
    BY <1>1 DEF Next
  <2> QED BY <1>1, <2>1, HostStepDrawn DEF Onward
<1>2. CASE UNCHANGED vars
  <2>1. PICK o \in Owners : Agreed(o)
    BY DEF HandshakeInv
  <2>2. Agreed(o)'
    BY <1>2, <2>1 DEF vars, Agreed, VerifiedOwned, PeersShake, NetShakes, ControlsShake, Peer,
       Drawn
  <2> QED BY <2>1, <2>2 DEF HandshakeInv, Owners
<1> QED BY <1>1, <1>2

\* Two peers that are not of one connection differ in their pair of address and identifier.
LEMMA DistinctSlots == DrawnInv => OneSlotPerConnection
BY DEF DrawnInv, PeersDistinct, Distinct, SameLink, OneSlotPerConnection

\* Either end of a connection that is up is in the record.
LEMMA AgreedComplete == HandshakeInv => HandshakeComplete
<1> SUFFICES ASSUME NEW o \in Owners, Agreed(o), NEW h \in Hosts, NEW s \in Slots(h),
                    Peer(h, s).state \in Counted
             PROVE  AsInitiator(h, s) \in verified \/ AsAcceptor(h, s) \in verified
  BY DEF HandshakeInv, HandshakeComplete
<1>1. Shakes(o, verified, h, s, Peer(h, s))
  BY DEF Agreed, PeersShake
<1>2. Peer(h, s).state \in Established /\ Peer(h, s).state # DISCONNECTED
  BY DEF Established, Counted, CONNECTED, DISCONNECT_LATER, DISCONNECTED
<1>3. /\ InitiatorOf(h, s, Peer(h, s)) = AsInitiator(h, s)
      /\ AcceptorOf(h, s, Peer(h, s)) = AsAcceptor(h, s)
  BY DEF InitiatorOf, AcceptorOf, AsInitiator, AsAcceptor
<1> QED BY <1>1, <1>2, <1>3 DEF Shakes, NearEnd, FarEnd

\* The identifiers of the slots stay drawn.
LEMMA DrawnInvariance ==
    ASSUME SeedsApart
    PROVE  Spec => []DrawnInv
<1>1. Init => DrawnInv
  BY InitDrawn
<1>2. IInv /\ DrawnInv /\ [Next]_vars => DrawnInv'
  BY DrawnInductive
<1>3. Spec => []IInv
  BY Invariance
<1> QED BY <1>1, <1>2, <1>3, PTL DEF Spec

(* No two slots of a host serve the same connection, for every number of      *)
(* hosts and slots and whatever the network does: enet_host_connect draws an  *)
(* identifier no slot has, and enet_protocol_handle_connect recognises a      *)
(* CONNECT that comes again.  The seeds of two hosts lie apart.               *)
THEOREM OneSlotCorrect ==
    ASSUME SeedsApart
    PROVE  Spec => []OneSlotPerConnection
<1>1. DrawnInv => OneSlotPerConnection
  BY DistinctSlots
<1> QED BY <1>1, DrawnInvariance, PTL

(* As long as the session numbers of the headers keep the late datagrams of   *)
(* earlier connections out (SessionFence; they are two bits wide and come     *)
(* round again), a connection is up only if the side that asked for it        *)
(* accepted a VERIFY_CONNECT for its very identifier and its two slots: no    *)
(* acknowledgement that comes late, twice or of another connection completes  *)
(* a handshake in enet_protocol_handle_acknowledge.                           *)
THEOREM HandshakeCorrect ==
    ASSUME SeedsApart
    PROVE  Spec /\ SessionFence => []HandshakeComplete
<1>1. Init => HandshakeInv
  BY InitHandshake
<1>2. IInv /\ DrawnInv /\ HandshakeInv /\ [Next]_vars /\ [Fenced]_vars => HandshakeInv'
  BY HandshakeInductive
<1>3. HandshakeInv => HandshakeComplete
  BY AgreedComplete
<1>4. Spec => []IInv
  BY Invariance
<1>5. SessionFence => [][Fenced]_vars
  BY PTL DEF SessionFence, Fenced
<1> QED BY <1>1, <1>2, <1>3, <1>4, <1>5, DrawnInvariance, PTL DEF Spec
=============================================================================
