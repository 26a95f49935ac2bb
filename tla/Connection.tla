------------------------------ MODULE Connection ------------------------------
(* Connections between ENet hosts over a network that loses, duplicates,      *)
(* delays and reorders datagrams.                                             *)
(*                                                                            *)
(* Every host runs one thread.  Between calls into the library its control is *)
(* at "app", where the program may call the API; enet_host_service walks the  *)
(* control through dispatch, send, receive, send and dispatch again, one peer *)
(* or one command a step, and goes back to "app" as soon as it has an event.  *)
(* Hosts share nothing but the network, which only grows: a step that reads   *)
(* a datagram can be moved after the steps of other hosts, one that sends can *)
(* be moved before them.  So a host need only give way where it is about to   *)
(* read the network or is not in a call; Preemptive lets it give way anywhere.*)
(*                                                                            *)
(* Time is left out: a round trip timer may expire at any send pass, and so   *)
(* may the limit after which the peer is given up.  A datagram carries all a  *)
(* peer has to send (no MTU, no congestion window).                           *)
EXTENDS HostOps

CONSTANTS PeerCount,     \* [Hosts -> Nat]: the slots of each host
          FirstSeed,     \* [Hosts -> Nat]: randomSeed at creation
          Calls,         \* [Hosts -> SUBSET ApiCalls]: what each program calls
          MaxConnects,   \* bound: calls of enet_host_connect by one host
          MaxAccepts,    \* bound: connections one host accepts
          MaxControl,    \* bound: pings stop at this control sequence number
          MaxReliable,   \* bound: reliable packets a peer sends
          MaxUnreliable, \* bound: unreliable packets queued at a peer
          MaxDatagrams,  \* bound: distinct datagrams; the network loses the rest
          MaxAcks,       \* bound: acknowledgements queued at a peer
          ServiceModes,  \* does enet_host_service get an event: TRUE, FALSE
          Preemptive     \* may a host give way anywhere in a call

ASSUME PeerCountAssumption == PeerCount \in [Hosts -> Nat \ {0}]
ASSUME SeedAssumption == FirstSeed \in [Hosts -> Nat]
ASSUME NoHostAssumption == NoHost \notin Hosts

(* No two hosts draw one connect identifier in the calls they make: the       *)
(* hypothesis of a theorem, not of the model.                                 *)
SeedsApart ==
    /\ MaxConnects \in Nat
    /\ \A g, h \in Hosts : g # h =>
          (FirstSeed[g] + 1 .. FirstSeed[g] + MaxConnects)
             \cap (FirstSeed[h] + 1 .. FirstSeed[h] + MaxConnects) = {}

ApiCalls == {"connect", "send", "send unreliable", "disconnect",
             "disconnect later", "disconnect now", "reset", "flush"}

ASSUME CallsAssumption == Calls \in [Hosts -> SUBSET ApiCalls]
ASSUME ModesAssumption == ServiceModes \subseteq BOOLEAN

VARIABLES
    host,     \* [Hosts -> host record]
    control,  \* [Hosts -> where the thread of the host is]
    net,      \* every datagram ever sent: any may arrive, again and again
    view,     \* history: what the program knows of each of its slots
    received, \* history: reliable packets delivered to the program, by slot
    accepted, \* history: connections accepted, by host
    verified, \* history: handshakes an initiator completed
    flushed   \* history: what a peer that disconnects later has delivered

vars == <<host, control, net, view, received, accepted, verified, flushed>>
history == <<view, received, accepted, verified, flushed>>

Slots(h) == 1 .. PeerCount[h]

Phases == {"app", "dispatch", "send", "receive", "commands", "resend",
           "redispatch", "flush", "flushed"}

(* What the program knows of a slot: nothing; that it asked for a connection; *)
(* that the connection is up; that it asked to close one that was up, or to   *)
(* give up one that was not.                                                  *)
Views == {"free", "pending", "open", "closing", "aborting"}

Idle == [phase |-> "app", slot |-> 1, event |-> FALSE, raised |-> FALSE,
         peer |-> NoPeer, from |-> NoHost, commands |-> <<>>, reset |-> NoPeer]

Datagrams == [to : Hosts \cup {NoHost}, from : Hosts, peerID : Nat,
              session : SessionIDs \cup {NoSession}, commands : Seq(Commands),
              id : Nat]   \* history: connectID of the sender

Controls(h) ==
    [phase : Phases, slot : 1 .. PeerCount[h], event : BOOLEAN,
     raised : BOOLEAN, peer : 0 .. PeerCount[h], from : Hosts \cup {NoHost},
     commands : Seq(Commands), reset : 0 .. PeerCount[h]]

Init ==
    /\ host = [h \in Hosts |->
                 [peers |-> [s \in Slots(h) |-> FreePeer],
                  dispatchQueue |-> <<>>, connectedPeers |-> 0,
                  randomSeed |-> FirstSeed[h]]]
    /\ control = [h \in Hosts |-> Idle]
    /\ net = {}
    /\ view = [h \in Hosts |-> [s \in Slots(h) |-> "free"]]
    /\ received = [h \in Hosts |-> [s \in Slots(h) |-> 0]]
    /\ accepted = [h \in Hosts |-> 0]
    /\ verified = {}
    /\ flushed = {}

Peer(h, s) == host[h].peers[s]
InApp(h) == control[h].phase = "app"
MayCall(h, call) == InApp(h) /\ call \in Calls[h]

SetHost(h, H) == host' = [host EXCEPT ![h] = H]
SetControl(h, c) == control' = [control EXCEPT ![h] = c]
SetView(h, s, v) == view' = [view EXCEPT ![h][s] = v]

---------------------------------------------------------------------------
(* Calls of the program                                                       *)

\* Faulty variant: a zombie's slot counts as free before its event is taken.
FreeSlotsEarly(h) == {s \in Slots(h) : Peer(h, s).state \in {DISCONNECTED, ZOMBIE}}

FreeSlots(h) == {s \in Slots(h) : Peer(h, s).state = DISCONNECTED}

IsFirstFree(h, s) == s \in FreeSlots(h) /\ \A t \in FreeSlots(h) : s <= t

ConnectCommand(H, s) ==
    [Command("CONNECT", ControlChannel, TRUE) EXCEPT
        !.connectID = H.peers[s].connectID, !.peerID = s,
        !.incoming = H.peers[s].incomingSessionID,
        !.outgoing = H.peers[s].outgoingSessionID]

Connect(h, s, address) ==
    LET H == [host[h] EXCEPT
                !.randomSeed = @ + 1,
                !.peers[s] = [@ EXCEPT !.state = CONNECTING,
                                       !.channelCount = 1,
                                       !.address = address,
                                       !.connectID = host[h].randomSeed + 1]]
    IN  /\ MayCall(h, "connect")
        /\ address # h
        /\ host[h].randomSeed < FirstSeed[h] + MaxConnects
        /\ IsFirstFree(h, s)
        /\ SetHost(h, QueueOutgoing(H, s, ConnectCommand(H, s)))
        /\ SetView(h, s, "pending")
        /\ received' = [received EXCEPT ![h][s] = 0]
        /\ UNCHANGED <<control, net, accepted, verified, flushed>>

SendReliable(h, s) ==
    /\ MayCall(h, "send")
    /\ Peer(h, s).state = CONNECTED /\ Peer(h, s).channelCount > 0
    /\ Peer(h, s).channelOut < MaxReliable
    /\ SetHost(h, QueueOutgoing(host[h], s,
                      Command("SEND_RELIABLE", DataChannel, TRUE)))
    /\ UNCHANGED <<control, net, history>>

SendUnreliable(h, s) ==
    /\ MayCall(h, "send unreliable")
    /\ Peer(h, s).state = CONNECTED /\ Peer(h, s).channelCount > 0
    /\ Len(Peer(h, s).outgoingUnreliable) < MaxUnreliable
    /\ SetHost(h, QueueOutgoing(host[h], s,
                      Command("SEND_UNRELIABLE", DataChannel, FALSE)))
    /\ UNCHANGED <<control, net, history>>

\* Start an enet_host_flush, after which slot s, if not NoPeer, is reset.
FlushThenReset(s) == [Idle EXCEPT !.phase = "flush", !.reset = s]

ViewAfterDisconnect(v) ==
    CASE v = "open" -> "closing" [] v = "pending" -> "aborting" [] OTHER -> v

DisconnectPeer(h, s) ==
    /\ MayCall(h, "disconnect")
    /\ Peer(h, s).state \notin NoDisconnectFrom
    /\ SetHost(h, Disconnect(host[h], s))
    /\ SetControl(h, IF Peer(h, s).state \in Counted THEN Idle
                     ELSE FlushThenReset(s))
    /\ SetView(h, s, ViewAfterDisconnect(view[h][s]))
    /\ UNCHANGED <<net, received, accepted, verified, flushed>>

\* With nothing left to send enet_peer_disconnect_later is enet_peer_disconnect.
DisconnectPeerLater(h, s) ==
    /\ MayCall(h, "disconnect later")
    /\ Peer(h, s).state \in Counted
    /\ ~ NothingQueued(Peer(h, s))
    /\ host' = [host EXCEPT ![h].peers[s].state = DISCONNECT_LATER]
    /\ SetView(h, s, ViewAfterDisconnect(view[h][s]))
    /\ UNCHANGED <<control, net, received, accepted, verified, flushed>>

DisconnectPeerNow(h, s) ==
    /\ MayCall(h, "disconnect now")
    /\ Peer(h, s).state # DISCONNECTED
    /\ IF Peer(h, s).state \in {ZOMBIE, DISCONNECTING}
       THEN /\ SetHost(h, Reset(host[h], s))
            /\ SetView(h, s, "free")
            /\ UNCHANGED control
       ELSE /\ SetHost(h, DisconnectNow(host[h], s))
            /\ SetControl(h, FlushThenReset(s))
            /\ UNCHANGED view
    /\ UNCHANGED <<net, received, accepted, verified, flushed>>

ResetPeer(h, s) ==
    /\ MayCall(h, "reset")
    /\ Peer(h, s).state # DISCONNECTED
    /\ SetHost(h, Reset(host[h], s))
    /\ SetView(h, s, "free")
    /\ UNCHANGED <<control, net, received, accepted, verified, flushed>>

Flush(h) ==
    /\ MayCall(h, "flush")
    /\ SetControl(h, FlushThenReset(NoPeer))
    /\ UNCHANGED <<host, net, history>>

\* enet_host_service dispatches first when it has an event to fill.
Service(h) ==
    /\ InApp(h)
    /\ \E event \in ServiceModes :
          SetControl(h, [Idle EXCEPT !.phase = IF event THEN "dispatch" ELSE "send",
                                     !.event = event])
    /\ UNCHANGED <<host, net, history>>

CheckEvents(h) ==
    /\ InApp(h) /\ FALSE \in ServiceModes
    /\ SetControl(h, [Idle EXCEPT !.phase = "redispatch", !.event = TRUE])
    /\ UNCHANGED <<host, net, history>>

---------------------------------------------------------------------------
(* enet_protocol_dispatch_incoming_commands                                   *)

Dispatching(h) == control[h].phase \in {"dispatch", "redispatch"}

\* The slot at the head of the queue, in one of the states given.
AtHead(h, s, states) ==
    /\ Dispatching(h)
    /\ host[h].dispatchQueue # <<>>
    /\ s = Head(host[h].dispatchQueue)
    /\ Peer(h, s).state \in states

DispatchConnect(h, s) ==
    /\ AtHead(h, s, {CONNECTION_PENDING, CONNECTION_SUCCEEDED})
    /\ SetHost(h, ChangeState(Popped(host[h]), s, CONNECTED))
    /\ SetControl(h, Idle)
    /\ SetView(h, s, "open")
    /\ UNCHANGED <<net, received, accepted, verified, flushed>>

DispatchDisconnect(h, s) ==
    /\ AtHead(h, s, {ZOMBIE})
    /\ SetHost(h, Reset(Popped(host[h]), s))
    /\ SetControl(h, Idle)
    /\ SetView(h, s, "free")
    /\ UNCHANGED <<net, received, accepted, verified, flushed>>

Taken(H, s) == [H EXCEPT !.peers[s].dispatched = Tail(@)]

DispatchReceive(h, s) ==
    LET H == Taken(Popped(host[h]), s)
        packet == Head(Peer(h, s).dispatched)
    IN  /\ AtHead(h, s, {CONNECTED})
        /\ Peer(h, s).dispatched # <<>>
        /\ SetHost(h, IF H.peers[s].dispatched = <<>> THEN H
                      ELSE EnterDispatchQueue(H, s))
        /\ SetControl(h, Idle)
        /\ received' = IF packet = 0 THEN received
                       ELSE [received EXCEPT ![h][s] = @ + 1]
        /\ UNCHANGED <<net, view, accepted, verified, flushed>>

\* A peer that left the state it was queued for only leaves the queue.
DispatchNothing(h, s) ==
    /\ AtHead(h, s, PeerStates \ {CONNECTION_PENDING, CONNECTION_SUCCEEDED, ZOMBIE})
    /\ Peer(h, s).state = CONNECTED => Peer(h, s).dispatched = <<>>
    /\ SetHost(h, Popped(host[h]))
    /\ UNCHANGED <<control, net, history>>

(* The queue is empty: go on sending, or, after the last pass, wait for the   *)
(* socket; a wait that ends in another round is the same as a return followed *)
(* by the next call.                                                          *)
DispatchDone(h) ==
    /\ Dispatching(h)
    /\ host[h].dispatchQueue = <<>>
    /\ SetControl(h, IF control[h].phase = "dispatch"
                     THEN [control[h] EXCEPT !.phase = "send"]
                     ELSE Idle)
    /\ UNCHANGED <<host, net, history>>

---------------------------------------------------------------------------
(* enet_protocol_send_outgoing_commands, one peer a step                      *)

Sending(h) == control[h].phase \in {"send", "resend", "flush"}

Active(peer) == peer.state \notin {DISCONNECTED, ZOMBIE}

\* The phase after a send pass.
AfterPass(c) ==
    CASE c.phase = "send" -> "receive"
      [] c.phase = "resend" /\ c.event -> "redispatch"
      [] c.phase = "flush" -> "flushed"
      [] OTHER -> "app"

NextSlot(h) ==
    LET c == control[h]
    IN  SetControl(h,
          CASE c.slot < PeerCount[h] -> [c EXCEPT !.slot = @ + 1]
            [] c.slot >= PeerCount[h] /\ AfterPass(c) = "app" -> Idle
            [] OTHER -> [c EXCEPT !.slot = 1, !.phase = AfterPass(c)])

(* A flush made on behalf of a disconnection ends with the reset of the peer. *)
(* The program gave it up for good, or waits for an event (aborting).         *)
FlushDone(h) ==
    LET s == control[h].reset
    IN  /\ control[h].phase = "flushed"
        /\ SetControl(h, Idle)
        /\ IF s = NoPeer
           THEN UNCHANGED <<host, view>>
           ELSE /\ SetHost(h, Reset(host[h], s))
                /\ SetView(h, s, IF view[h][s] = "aborting" THEN "aborting" ELSE "free")
        /\ UNCHANGED <<net, received, accepted, verified, flushed>>

SendNothing(h, s) ==
    /\ Sending(h) /\ s = control[h].slot
    /\ ~ Active(Peer(h, s))
    /\ NextSlot(h)
    /\ UNCHANGED <<host, net, history>>

\* Acknowledging a DISCONNECT makes the peer a zombie.
AcksADisconnect(peer) ==
    \E i \in 1 .. Len(peer.acknowledgements) :
        peer.acknowledgements[i].type = "DISCONNECT"

SendAcknowledgements(H, s) ==
    LET sent == [H EXCEPT !.peers[s].acknowledgements = <<>>]
    IN  IF AcksADisconnect(H.peers[s]) THEN DispatchState(sent, s, ZOMBIE)
        ELSE sent

AckCommands(peer) ==
    [i \in 1 .. Len(peer.acknowledgements) |->
        [Command("ACKNOWLEDGE", peer.acknowledgements[i].channel, FALSE)
            EXCEPT !.seq = peer.acknowledgements[i].seq]]

(* enet_protocol_check_timeouts gives the peer up.  The acknowledgements have *)
(* left their queue by then; they are never sent.                             *)
GiveUp(h, s) ==
    LET H == SendAcknowledgements(host[h], s)
        reported == control[h].event /\ ~ LostSilently(H.peers[s])
    IN  /\ Sending(h) /\ s = control[h].slot
        /\ control[h].phase # "flush"
        /\ Active(Peer(h, s))
        /\ Peer(h, s).sentReliable # <<>>
        /\ SetHost(h, NotifyDisconnect(H, s, control[h].event))
        /\ IF reported THEN SetControl(h, Idle) /\ SetView(h, s, "free")
           ELSE NextSlot(h) /\ UNCHANGED view
        /\ UNCHANGED <<net, received, accepted, verified, flushed>>

(* enet_protocol_check_timeouts takes the commands whose timers ran out from  *)
(* the list of those sent; both parts keep their order.  It only looks once   *)
(* the timer of the first one, nextTimeout, ran out; a command sent again has *)
(* a longer timer than one sent after it.                                     *)
InOrder(S) ==
    {f \in [1 .. Cardinality(S) -> S] : \A i, j \in DOMAIN f : i < j => f[i] < f[j]}

Picked(q, f) == [i \in DOMAIN f |-> q[f[i]]]

\* The expired commands are sent again, ahead of the new ones.
SendReliableCommands(H, s, kept, expired) ==
    [H EXCEPT !.peers[s] =
        [@ EXCEPT !.outgoingReliable = <<>>,
                  !.sentReliable = kept \o expired \o H.peers[s].outgoingReliable]]

PingCommand(seq) == [Command("PING", ControlChannel, TRUE) EXCEPT !.seq = seq]

Ping(H, s) ==
    LET peer == H.peers[s]
        command == PingCommand(peer.outgoingSeq + 1)
    IN  [H EXCEPT !.peers[s] =
            [peer EXCEPT !.outgoingSeq = @ + 1, !.sentReliable = Append(@, command)]]

\* A peer with nothing in flight is pinged once it has been silent for a while.
MayPing(peer) ==
    /\ peer.state = CONNECTED
    /\ peer.sentReliable = <<>>
    /\ peer.outgoingSeq < MaxControl

(* enet_protocol_send_unreliable_outgoing_commands: once the last queue is    *)
(* empty a peer that disconnects later does so, still inside the loop.        *)
LaterIsDue(before, after) ==
    /\ before.outgoingUnreliable # <<>>
    /\ after.state = DISCONNECT_LATER
    /\ after.outgoingReliable = <<>> /\ after.sentReliable = <<>>

SendUnreliableCommands(H, s) ==
    LET sent == [H EXCEPT !.peers[s].outgoingUnreliable = <<>>]
    IN  IF LaterIsDue(H.peers[s], sent.peers[s]) THEN Disconnect(sent, s)
        ELSE sent

(* The disconnection frees the packets just put in the buffers, before the    *)
(* socket reads them: what goes out for such a packet is not its data.  A     *)
(* command without a packet was copied.                                       *)
UnreliableCommands(H, s) ==
    LET peer == H.peers[s]
        freed(c) == LaterIsDue(peer, peer) /\ c.type = "SEND_UNRELIABLE"
    IN  [i \in 1 .. Len(peer.outgoingUnreliable) |->
            IF freed(peer.outgoingUnreliable[i])
            THEN [peer.outgoingUnreliable[i] EXCEPT !.type = "FREED"]
            ELSE peer.outgoingUnreliable[i]]

Datagram(h, peer, commands) ==
    [to |-> peer.address, from |-> h, peerID |-> peer.outgoingPeerID,
     session |-> IF peer.outgoingPeerID # NoPeer
                 THEN peer.outgoingSessionID ELSE 0,
     commands |-> commands, id |-> peer.connectID]

FlushRecord(h, peer) ==
    [from |-> h, to |-> peer.address, id |-> peer.connectID,
     count |-> peer.channelOut]

\* What slot s has to say, in the order the buffers are filled.
Outgoing(H, acked, pinged, s, expired, ping) ==
    AckCommands(H.peers[s])
      \o expired
      \o acked.peers[s].outgoingReliable
      \o (IF ping THEN <<PingCommand(pinged.peers[s].outgoingSeq)>> ELSE <<>>)
      \o UnreliableCommands(pinged, s)

\* One pass over slot s, with the commands kept, sent again, and a ping if it is sent.
FillBuffers(h, s, kept, expired, ping) ==
    LET acked == SendAcknowledgements(host[h], s)
        reliable == SendReliableCommands(acked, s, kept, expired)
        pinged == IF ping THEN Ping(reliable, s) ELSE reliable
        ready == pinged.peers[s]
        commands == Outgoing(host[h], acked, pinged, s, expired, ping)
    IN  /\ ping => MayPing(reliable.peers[s])
        /\ SetHost(h, SendUnreliableCommands(pinged, s))
        /\ net' = IF commands = <<>> \/ Cardinality(net) >= MaxDatagrams
                  THEN net ELSE net \cup {Datagram(h, ready, commands)}
        /\ flushed' = IF LaterIsDue(ready, ready)
                      THEN flushed \cup {FlushRecord(h, ready)} ELSE flushed

SendPeer(h, s) ==
    LET sent == Peer(h, s).sentReliable
    IN  /\ Sending(h) /\ s = control[h].slot
        /\ Active(Peer(h, s))
        /\ \E due \in SUBSET (1 .. Len(sent)), ping \in BOOLEAN :
              /\ due # {} => 1 \in due /\ control[h].phase # "flush"
              /\ \E left \in InOrder((1 .. Len(sent)) \ due), again \in InOrder(due) :
                    FillBuffers(h, s, Picked(sent, left), Picked(sent, again), ping)
        /\ NextSlot(h)
        /\ UNCHANGED <<view, received, accepted, verified>>

---------------------------------------------------------------------------
(* enet_protocol_receive_incoming_commands and the header checks of           *)
(* enet_protocol_handle_incoming_commands                                     *)

\* Faulty variant: the session number of the header is not compared.
AcceptsAnySession(peer, d) ==
    peer.state \notin {DISCONNECTED, ZOMBIE} /\ d.from = peer.address

\* The checks a datagram for slot s passes before its commands are looked at.
Accepts(peer, d) ==
    /\ peer.state \notin {DISCONNECTED, ZOMBIE}
    /\ d.from = peer.address
    /\ peer.outgoingPeerID # NoPeer => d.session = peer.incomingSessionID

(* Room for the acknowledgements the datagram may queue (a bound, not code);  *)
(* one datagram always fits.                                                  *)
AckRoom(h, d) ==
    d.peerID # NoPeer =>
        LET acks == Peer(h, d.peerID).acknowledgements
        IN  \/ acks = <<>>
            \/ Len(acks) + Len(SelectSeq(d.commands, LAMBDA c : c.reliable)) <= MaxAcks

\* Room for one more accepted connection (a bound, not code).
AcceptRoom(h, d) == d.peerID = NoPeer => accepted[h] < MaxAccepts

\* Datagrams that fail a check change nothing: they are as good as lost.
Receive(h, d) ==
    /\ control[h].phase = "receive"
    /\ d \in net /\ d.to = h
    /\ IF d.peerID = NoPeer
       THEN Head(d.commands).type = "CONNECT"
       ELSE d.peerID \in Slots(h) /\ Accepts(Peer(h, d.peerID), d)
    /\ AckRoom(h, d) /\ AcceptRoom(h, d)
    /\ SetControl(h, [control[h] EXCEPT !.phase = "commands", !.peer = d.peerID,
                                        !.from = d.from, !.commands = d.commands])
    /\ UNCHANGED <<host, net, history>>

ReceiveNothing(h) ==
    /\ control[h].phase = "receive"
    /\ SetControl(h, [control[h] EXCEPT !.phase = "resend", !.slot = 1])
    /\ UNCHANGED <<host, net, history>>

---------------------------------------------------------------------------
(* The handlers of one command                                                *)

\* The command host h is at, for slot s (NoPeer before CONNECT chose one).
At(h, s, type) ==
    /\ control[h].phase = "commands"
    /\ control[h].peer = s
    /\ Head(control[h].commands).type = type

TheCommand(h) == Head(control[h].commands)

(* A failing handler drops the rest of the datagram.  After the last command  *)
(* the service call returns if a handler filled the event.                    *)
AfterCommand(c, failed, raises, s) ==
    LET raised == c.raised \/ raises
    IN  IF ~ failed /\ Len(c.commands) > 1
        THEN [c EXCEPT !.commands = Tail(@), !.raised = raised, !.peer = s]
        ELSE IF raised THEN Idle
        ELSE [c EXCEPT !.phase = "receive", !.commands = <<>>,
                       !.peer = NoPeer, !.from = NoHost]

\* Faulty variant: the CONNECT is acknowledged as well as answered.
AcknowledgesConnect(state, c) ==
    /\ c.reliable
    /\ state \notin {DISCONNECTING, DISCONNECTED, ZOMBIE}
    /\ state = ACKNOWLEDGING_DISCONNECT => c.type = "DISCONNECT"

(* A command that asks for it is acknowledged, in most states.  The window    *)
(* test of enet_peer_queue_acknowledgement never bites within MaxReliable.    *)
Acknowledges(state, c) ==
    /\ c.reliable
    /\ state \notin {DISCONNECTING, ACKNOWLEDGING_CONNECT, DISCONNECTED, ZOMBIE}
    /\ state = ACKNOWLEDGING_DISCONNECT => c.type = "DISCONNECT"

(* The step of a handler that left H: queue the acknowledgement it asks for   *)
(* and go on with the next command.                                           *)
Handled(h, H, s, failed, raises) ==
    /\ SetHost(h, IF ~ failed /\ Acknowledges(H.peers[s].state, TheCommand(h))
                  THEN QueueAcknowledgement(H, s, TheCommand(h)) ELSE H)
    /\ SetControl(h, AfterCommand(control[h], failed, raises, s))
    /\ UNCHANGED net

\* An acknowledgement that is not the one the state waits for.
IsUnexpected(state, removed) ==
    \/ state = ACKNOWLEDGING_CONNECT /\ removed # "VERIFY_CONNECT"
    \/ state = DISCONNECTING /\ removed # "DISCONNECT"

\* Faulty variant: the last acknowledgement does not end a later disconnection.
LaterIsNeverDone(peer) == FALSE

LaterIsDone(peer) == peer.state = DISCONNECT_LATER /\ NothingQueued(peer)

HandleAcknowledge(h, s) ==
    LET peer == Peer(h, s)
        ack == TheCommand(h)
        removed == AckedType(peer.sentReliable, ack)
        H == RemoveSentReliable(host[h], s, ack)
        event == control[h].event
    IN  /\ At(h, s, "ACKNOWLEDGE")
        /\ CASE peer.state \in {DISCONNECTED, ZOMBIE} ->
                  /\ Handled(h, host[h], s, FALSE, FALSE)
                  /\ UNCHANGED history
             [] IsUnexpected(peer.state, removed) ->
                  /\ Handled(h, H, s, TRUE, FALSE)
                  /\ UNCHANGED history
             [] peer.state = ACKNOWLEDGING_CONNECT /\ removed = "VERIFY_CONNECT" ->
                  /\ Handled(h, NotifyConnect(H, s, event), s, FALSE, event)
                  /\ view' = IF event THEN [view EXCEPT ![h][s] = "open"] ELSE view
                  /\ UNCHANGED <<received, accepted, verified, flushed>>
             [] peer.state = DISCONNECTING /\ removed = "DISCONNECT" ->
                  /\ Handled(h, NotifyDisconnect(H, s, event), s, FALSE, event)
                  /\ view' = IF event THEN [view EXCEPT ![h][s] = "free"] ELSE view
                  /\ UNCHANGED <<received, accepted, verified, flushed>>
             [] OTHER ->
                  /\ Handled(h, IF LaterIsDone(H.peers[s]) THEN Disconnect(H, s) ELSE H,
                             s, FALSE, FALSE)
                  /\ flushed' = IF LaterIsDone(H.peers[s])
                                THEN flushed \cup {FlushRecord(h, peer)} ELSE flushed
                  /\ UNCHANGED <<view, received, accepted, verified>>

\* Faulty variant: the mask of the session number is forgotten.
NextSessionUnmasked(theirs, last) ==
    LET next == (IF theirs = NoSession THEN last ELSE theirs) + 1
    IN  IF next = last THEN next + 1 ELSE next

\* The next session number after the one the other side or the slot last used.
NextSession(theirs, last) ==
    LET next == ((IF theirs = NoSession THEN last ELSE theirs) + 1) % 4
    IN  IF next = last THEN (next + 1) % 4 ELSE next

\* Slot s set up by CONNECT command c from address.
Accepted(H, s, address, c) ==
    LET sessionIn == NextSession(c.incoming, H.peers[s].outgoingSessionID)
        sessionOut == NextSession(c.outgoing, H.peers[s].incomingSessionID)
        taken == [H EXCEPT !.peers[s] =
            [@ EXCEPT !.state = ACKNOWLEDGING_CONNECT, !.channelCount = 1,
                      !.connectID = c.connectID, !.address = address,
                      !.outgoingPeerID = c.peerID,
                      !.outgoingSessionID = sessionIn,
                      !.incomingSessionID = sessionOut]]
    IN  QueueOutgoing(taken, s,
            [Command("VERIFY_CONNECT", ControlChannel, TRUE) EXCEPT
                !.connectID = c.connectID, !.peerID = s,
                !.incoming = sessionIn, !.outgoing = sessionOut])

\* Faulty variant: a repeated CONNECT is not recognised.
IsNeverKnown(h, c) == FALSE

\* The connection the command asks for already has a slot.
IsKnown(h, c) ==
    \E s \in Slots(h) : /\ Peer(h, s).state # DISCONNECTED
                        /\ Peer(h, s).address = control[h].from
                        /\ Peer(h, s).connectID = c.connectID

HandleConnect(h) ==
    /\ At(h, NoPeer, "CONNECT")
    /\ IF IsKnown(h, TheCommand(h)) \/ FreeSlots(h) = {}
       THEN /\ SetControl(h, AfterCommand(control[h], TRUE, FALSE, NoPeer))
            /\ UNCHANGED <<host, net, history>>
       ELSE \E s \in Slots(h) :
                /\ IsFirstFree(h, s)
                /\ Handled(h, Accepted(host[h], s, control[h].from, TheCommand(h)),
                           s, FALSE, FALSE)
                /\ received' = [received EXCEPT ![h][s] = 0]
                /\ accepted' = [accepted EXCEPT ![h] = @ + 1]
                /\ UNCHANGED <<view, verified, flushed>>

HandleVerifyConnect(h, s) ==
    LET c == TheCommand(h)
        H == RemoveSentReliable(host[h], s,
                 [Command("ACKNOWLEDGE", ControlChannel, FALSE) EXCEPT !.seq = 1])
        linked == [H EXCEPT !.peers[s] =
                      [@ EXCEPT !.outgoingPeerID = c.peerID,
                                !.incomingSessionID = c.incoming,
                                !.outgoingSessionID = c.outgoing]]
        event == control[h].event
    IN  /\ At(h, s, "VERIFY_CONNECT")
        /\ CASE Peer(h, s).state # CONNECTING ->
                  Handled(h, host[h], s, FALSE, FALSE) /\ UNCHANGED history
             [] Peer(h, s).state = CONNECTING /\ c.connectID # Peer(h, s).connectID ->
                  /\ Handled(h, DispatchState(host[h], s, ZOMBIE), s, TRUE, FALSE)
                  /\ UNCHANGED history
             [] OTHER ->
                  /\ Handled(h, NotifyConnect(linked, s, event), s, FALSE, event)
                  /\ view' = IF event THEN [view EXCEPT ![h][s] = "open"] ELSE view
                  /\ verified' = verified \cup
                        {[initiator |-> h, slot |-> s, acceptor |-> Peer(h, s).address,
                          peer |-> c.peerID, id |-> c.connectID]}
                  /\ UNCHANGED <<received, accepted, flushed>>

\* The state a DISCONNECT leaves a peer in, its queues gone.
Disconnected(H, s, c) ==
    LET state == H.peers[s].state
        emptied == ResetQueues(H, s)
    IN  CASE state \in {CONNECTION_SUCCEEDED, DISCONNECTING} ->
               DispatchState(emptied, s, ZOMBIE)
          [] state \in Counted /\ c.reliable ->
               ChangeState(emptied, s, ACKNOWLEDGING_DISCONNECT)
          [] state \in Counted /\ ~ c.reliable ->
               DispatchState(emptied, s, ZOMBIE)
          [] OTHER -> Reset(emptied, s)

HandleDisconnect(h, s) ==
    /\ At(h, s, "DISCONNECT")
    /\ Handled(h, IF Peer(h, s).state \in {DISCONNECTED, ZOMBIE, ACKNOWLEDGING_DISCONNECT}
                  THEN host[h] ELSE Disconnected(host[h], s, TheCommand(h)),
               s, FALSE, FALSE)
    /\ UNCHANGED history

HandlePing(h, s) ==
    /\ At(h, s, "PING")
    /\ Handled(h, host[h], s, Peer(h, s).state \notin Counted, FALSE)
    /\ UNCHANGED history

TakesData(peer) == peer.channelCount > 0 /\ peer.state \in Counted

HandleSendReliable(h, s) ==
    /\ At(h, s, "SEND_RELIABLE")
    /\ Handled(h, IF TakesData(Peer(h, s))
                  THEN QueueIncomingReliable(host[h], s, TheCommand(h).seq)
                  ELSE host[h],
               s, ~ TakesData(Peer(h, s)), FALSE)
    /\ UNCHANGED history

(* The sequencing of unreliable packets is not modelled here: one that a      *)
(* connected peer gets is delivered or dropped.                               *)
UnreliableDelivered(H, s) ==
    EnterDispatchQueue([H EXCEPT !.peers[s].dispatched = Append(@, 0)], s)

HandleSendUnreliable(h, s) ==
    /\ At(h, s, "SEND_UNRELIABLE") \/ At(h, s, "FREED")
    /\ \E H \in {host[h]} \cup
          (IF TakesData(Peer(h, s)) /\ Peer(h, s).state = CONNECTED
              /\ Len(Peer(h, s).dispatched) < MaxReliable + MaxUnreliable
           THEN {UnreliableDelivered(host[h], s)} ELSE {}) :
          Handled(h, H, s, ~ TakesData(Peer(h, s)), FALSE)
    /\ UNCHANGED history

---------------------------------------------------------------------------

AppStep(h) ==
    \/ Flush(h)
    \/ Service(h)
    \/ CheckEvents(h)
    \/ \E s \in Slots(h) : \/ \E address \in Hosts : Connect(h, s, address)
                           \/ SendReliable(h, s)
                           \/ SendUnreliable(h, s)
                           \/ DisconnectPeer(h, s)
                           \/ DisconnectPeerLater(h, s)
                           \/ DisconnectPeerNow(h, s)
                           \/ ResetPeer(h, s)

DispatchStep(h) ==
    \/ DispatchDone(h)
    \/ \E s \in Slots(h) : \/ DispatchConnect(h, s)
                           \/ DispatchDisconnect(h, s)
                           \/ DispatchReceive(h, s)
                           \/ DispatchNothing(h, s)

SendStep(h) ==
    \/ FlushDone(h)
    \/ \E s \in Slots(h) : \/ SendNothing(h, s)
                           \/ SendPeer(h, s)
                           \/ GiveUp(h, s)

ReceiveStep(h) ==
    \/ ReceiveNothing(h)
    \/ \E d \in net : Receive(h, d)

CommandStep(h) ==
    \/ HandleConnect(h)
    \/ \E s \in Slots(h) : \/ HandleAcknowledge(h, s)
                           \/ HandleVerifyConnect(h, s)
                           \/ HandleDisconnect(h, s)
                           \/ HandlePing(h, s)
                           \/ HandleSendReliable(h, s)
                           \/ HandleSendUnreliable(h, s)

HostStep(h) == \/ AppStep(h) \/ DispatchStep(h) \/ SendStep(h)
               \/ ReceiveStep(h) \/ CommandStep(h)

\* No other host is inside a call, except where it is about to receive.
MayRun(h) ==
    \A g \in Hosts \ {h} : control[g].phase \in {"app", "receive"}

Next == \E h \in Hosts : (Preemptive \/ MayRun(h)) /\ HostStep(h)

Spec == Init /\ [][Next]_vars

(* Fairness.  Programs call enet_host_service again and again (its comment    *)
(* asks for it), a call goes on to its end, a socket is empty at some point,  *)
(* and unacknowledged commands reach timeoutMaximum.                          *)
LibraryStep(h) == DispatchStep(h) \/ SendStep(h) \/ ReceiveStep(h) \/ CommandStep(h)

Fairness ==
    \A h \in Hosts :
        /\ WF_vars(MayRun(h) /\ LibraryStep(h))
        /\ SF_vars(MayRun(h) /\ Service(h))
        /\ SF_vars(MayRun(h) /\ ReceiveNothing(h))
        /\ \A s \in Slots(h) : SF_vars(MayRun(h) /\ GiveUp(h, s))

FairSpec == Spec /\ Fairness

---------------------------------------------------------------------------
(* Properties                                                                 *)

IsPerHost(f) == f = [h \in Hosts |-> f[h]]

\* Every variable has its type: the shape of what a host keeps and sends.
TypeOK ==
    /\ IsPerHost(host) /\ IsPerHost(control) /\ IsPerHost(view)
    /\ IsPerHost(received) /\ accepted \in [Hosts -> Nat]
    /\ \A h \in Hosts : /\ host[h] \in HostRecords(PeerCount[h])
                       /\ control[h] \in Controls(h)
                       /\ view[h] \in [Slots(h) -> Views]
                       /\ received[h] \in [Slots(h) -> Nat]
    /\ net \subseteq Datagrams

(* host.connectedPeers is the number of peers CONNECTED or DISCONNECT_LATER,  *)
(* however connections come and go: enet_peer_on_connect and                  *)
(* enet_peer_on_disconnect are called once on every way in and out of these   *)
(* states (it decides when the bandwidth throttle runs).                      *)
ConnectedPeersExact == \A h \in Hosts : CountExact(host[h])

(* A peer is linked into its host's dispatch queue exactly once if its        *)
(* needsDispatch is set and not at all otherwise: no path that frees or       *)
(* requeues a peer leaves a dangling or a doubled node in the list.           *)
DispatchQueueExact == \A h \in Hosts : QueueExact(host[h])

\* The DISCONNECT of the program's own call is on its way out.
BeingReset(h, s) == control[h].reset = s

(* What the program must still be told is in the dispatch queue: a peer that  *)
(* became connected or a zombie under a call without event, and one with      *)
(* packets to deliver, is never left out of it.                               *)
EventsPending ==
    \A h \in Hosts : \A s \in Slots(h) :
        \/ Peer(h, s).state \in {CONNECTION_PENDING, CONNECTION_SUCCEEDED, ZOMBIE}
        \/ Peer(h, s).state = CONNECTED /\ Peer(h, s).dispatched # <<>>
        => Peer(h, s).needsDispatch \/ BeingReset(h, s)

(* A peer that waits for the other side has something in flight that is       *)
(* acknowledged or times out, and one that owes the acknowledgement of a      *)
(* DISCONNECT has it queued: no peer is stuck in a state nothing ends.  A     *)
(* connected peer with nothing in flight is pinged; RequestTimesOut is the    *)
(* same of a peer that asked for a connection.                                *)
TimerArmed ==
    \A h \in Hosts : \A s \in Slots(h) :
        LET peer == Peer(h, s)
        IN  \/ BeingReset(h, s)
            \/ /\ peer.state \in {ACKNOWLEDGING_CONNECT, DISCONNECTING}
                  => peer.outgoingReliable \o peer.sentReliable # <<>>
               /\ peer.state = DISCONNECT_LATER => ~ NothingQueued(peer)
               /\ peer.state = ACKNOWLEDGING_DISCONNECT => AcksADisconnect(peer)

\* The two ends of a handshake, seen from slot s of host h.
AsInitiator(h, s) ==
    [initiator |-> h, slot |-> s, acceptor |-> Peer(h, s).address,
     peer |-> Peer(h, s).outgoingPeerID, id |-> Peer(h, s).connectID]
AsAcceptor(h, s) ==
    [initiator |-> Peer(h, s).address, slot |-> Peer(h, s).outgoingPeerID,
     acceptor |-> h, peer |-> s, id |-> Peer(h, s).connectID]

(* A connection is up only after the initiator accepted VERIFY_CONNECT for    *)
(* this very connectID and these two slots: late acknowledgements of an       *)
(* earlier connection of the slot never complete a new one.                   *)
HandshakeComplete ==
    \A h \in Hosts : \A s \in Slots(h) :
        Peer(h, s).state \in Counted =>
            AsInitiator(h, s) \in verified \/ AsAcceptor(h, s) \in verified

(* A connection the program was told of is not lost behind its back: until    *)
(* it gets a DISCONNECT event (or resets the peer itself) the slot is kept,   *)
(* and every peer that is up was announced.                                   *)
ProgramInformed ==
    \A h \in Hosts : \A s \in Slots(h) :
        /\ view[h][s] = "open" =>
              Peer(h, s).state \in {CONNECTED, ACKNOWLEDGING_DISCONNECT, ZOMBIE}
        /\ view[h][s] = "closing" =>
              Peer(h, s).state \in {DISCONNECT_LATER, DISCONNECTING,
                                    ACKNOWLEDGING_DISCONNECT, ZOMBIE}
        /\ Peer(h, s).state \in Counted \cup {DISCONNECTING, ACKNOWLEDGING_DISCONNECT} =>
              view[h][s] \in {"open", "closing"}

(* enet_peer_disconnect_later loses nothing: when its DISCONNECT reaches a    *)
(* program that had not asked to close, every reliable packet queued before   *)
(* was already delivered to that program, not merely acknowledged.            *)
LaterDeliversFirst ==
    \A h \in Hosts : \A s \in Slots(h) : \A f \in flushed :
        /\ view[h][s] = "open"
        /\ Peer(h, s).state = ACKNOWLEDGING_DISCONNECT
        /\ f.to = h /\ f.from = Peer(h, s).address /\ f.id = Peer(h, s).connectID
        => received[h][s] = f.count

\* No two slots of a host serve the same connection: a repeated CONNECT is
\* recognised by address and connectID.
OneSlotPerConnection ==
    \A h \in Hosts : \A s, t \in Slots(h) :
        /\ s # t
        /\ Peer(h, s).state # DISCONNECTED /\ Peer(h, t).state # DISCONNECTED
        => <<Peer(h, s).address, Peer(h, s).connectID>>
             # <<Peer(h, t).address, Peer(h, t).connectID>>

(* A peer that knows the other side's slot takes only datagrams sent for its  *)
(* own connection: the session number in the header keeps the late datagrams  *)
(* of earlier connections of the slot out.                                    *)
SessionFence ==
    [][\A h \in Hosts, d \in net :
          Receive(h, d) /\ d.peerID # NoPeer
            => \/ Peer(h, d.peerID).outgoingPeerID = NoPeer
               \/ d.id = Peer(h, d.peerID).connectID]_vars

(* A peer pointer the program was given keeps meaning the same connection     *)
(* until the program is told that the connection is gone.                     *)
PeerKeepsMeaning ==
    [][\A h \in Hosts : \A s \in Slots(h) :
          view[h][s] \in {"open", "closing"} /\ view'[h][s] # "free"
            => /\ Peer(h, s)'.connectID = Peer(h, s).connectID
               /\ Peer(h, s)'.address = Peer(h, s).address]_vars

\* A connection the program asked to close ends with a DISCONNECT event.
CloseConcludes ==
    \A h \in Hosts : \A s \in Slots(h) :
        view[h][s] = "closing" ~> view[h][s] = "free"

\* A zombie's slot is given back.
ZombieReaped ==
    \A h \in Hosts : \A s \in Slots(h) :
        Peer(h, s).state = ZOMBIE ~> Peer(h, s).state # ZOMBIE

(* What enet.h says of the events: a connection request ends in a CONNECT or, *)
(* when it times out, in a DISCONNECT event; so while it is unanswered its    *)
(* CONNECT is waiting to be sent or acknowledged, for only that times out.    *)
RequestTimesOut ==
    \A h \in Hosts : \A s \in Slots(h) :
        Peer(h, s).state = CONNECTING /\ ~ BeingReset(h, s) =>
            Peer(h, s).outgoingReliable \o Peer(h, s).sentReliable # <<>>
=============================================================================
