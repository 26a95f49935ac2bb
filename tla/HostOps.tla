------------------------------- MODULE HostOps -------------------------------
(* What one ENet host keeps and the functions of src/enet/peer.c and of the  *)
(* head of src/enet/protocol.c that change it.                                *)
(*                                                                            *)
(* A host is a record H: its peer slots, the queue of the slots waiting for   *)
(* dispatch, the counter of connected peers and the seed connect identifiers  *)
(* come from.  Each C function that updates a host through a peer pointer is  *)
(* an operator from the host before the call to the host after it, so a       *)
(* handler that makes several calls is their composition.                     *)
(*                                                                            *)
(* Left out: time, round trip statistics, bandwidth, throttling, allocation   *)
(* failure.  A peer has one data channel.  Fields the code stops reading once *)
(* a slot is free (address) or its channels are freed are given a fixed value *)
(* there, so that states that differ only in dead data are one.               *)
EXTENDS Integers, Sequences, FiniteSets, SequencesExt

CONSTANTS Hosts,   \* the addresses that exchange datagrams
          NoHost   \* the address of a free slot

---------------------------------------------------------------------------
(* ENetPeerState: the numbers matter, the code compares them.                 *)
DISCONNECTED == 0
CONNECTING == 1
ACKNOWLEDGING_CONNECT == 2
CONNECTION_PENDING == 3
CONNECTION_SUCCEEDED == 4
CONNECTED == 5
DISCONNECT_LATER == 6
DISCONNECTING == 7
ACKNOWLEDGING_DISCONNECT == 8
ZOMBIE == 9

PeerStates == 0 .. 9

\* The states in which host.connectedPeers counts the peer.
Counted == {CONNECTED, DISCONNECT_LATER}

NoPeer == 0          \* ENET_PROTOCOL_MAXIMUM_PEER_ID: the remote slot is unknown
SessionIDs == 0 .. 3 \* two bits of the datagram header
NoSession == 255     \* 0xFF: the slot never took part in a connection

ControlChannel == 255
DataChannel == 0

CommandTypes == {"CONNECT", "VERIFY_CONNECT", "DISCONNECT", "PING",
                 "SEND_RELIABLE", "SEND_UNRELIABLE", "FREED", "ACKNOWLEDGE"}

(* A protocol command.  reliable is ENET_PROTOCOL_COMMAND_FLAG_ACKNOWLEDGE;   *)
(* the last four fields are those of CONNECT and VERIFY_CONNECT.              *)
Commands ==
    [type : CommandTypes, channel : {ControlChannel, DataChannel}, seq : Nat,
     reliable : BOOLEAN, connectID : Nat, peerID : Nat,
     incoming : SessionIDs \cup {NoSession},
     outgoing : SessionIDs \cup {NoSession}]

Command(type, channel, reliable) ==
    [type |-> type, channel |-> channel, seq |-> 0, reliable |-> reliable,
     connectID |-> 0, peerID |-> NoPeer,
     incoming |-> NoSession, outgoing |-> NoSession]

\* What a channel holds back: the numbers of finitely many packets.
Arrivals == {q \in SUBSET Nat : IsFiniteSet(q)}

Peers ==
    [state : PeerStates, connectID : Nat, address : Hosts \cup {NoHost},
     outgoingPeerID : Nat,
     incomingSessionID : SessionIDs \cup {NoSession},
     outgoingSessionID : SessionIDs \cup {NoSession},
     needsDispatch : BOOLEAN,
     acknowledgements : Seq(Commands),
     outgoingReliable : Seq(Commands), sentReliable : Seq(Commands),
     outgoingUnreliable : Seq(Commands),
     outgoingSeq : Nat,           \* outgoingReliableSequenceNumber of the peer
     channelCount : Nat,
     channelOut : Nat,            \* the channel's outgoing and
     channelIn : Nat,             \* incomingReliableSequenceNumber
     channelQueue : Arrivals,     \* incomingReliableCommands, out of order
     dispatched : Seq(Nat)]       \* dispatchedCommands, ready for the program

FreePeer ==
    [state |-> DISCONNECTED, connectID |-> 0, address |-> NoHost,
     outgoingPeerID |-> NoPeer, incomingSessionID |-> NoSession,
     outgoingSessionID |-> NoSession, needsDispatch |-> FALSE,
     acknowledgements |-> <<>>, outgoingReliable |-> <<>>,
     sentReliable |-> <<>>, outgoingUnreliable |-> <<>>, outgoingSeq |-> 0,
     channelCount |-> 0, channelOut |-> 0, channelIn |-> 0,
     channelQueue |-> {}, dispatched |-> <<>>]

\* The host records with n peer slots.
HostRecords(n) ==
    [peers : [1 .. n -> Peers], dispatchQueue : Seq(1 .. n),
     connectedPeers : Int, randomSeed : Nat]

---------------------------------------------------------------------------
(* peer.c: counters and queues                                                *)

OnConnect(H, s) ==
    IF H.peers[s].state \in Counted
    THEN H
    ELSE [H EXCEPT !.connectedPeers = @ + 1]

OnDisconnect(H, s) ==
    IF H.peers[s].state \in Counted
    THEN [H EXCEPT !.connectedPeers = @ - 1]
    ELSE H

\* enet_list_remove on the peer's node of the dispatch queue.
Unlink(queue, s) ==
    RemoveAt(queue, CHOOSE i \in 1 .. Len(queue) : queue[i] = s)

\* The peer with its queues and channels freed.
EmptyQueues(peer) ==
    [peer EXCEPT !.needsDispatch = FALSE, !.acknowledgements = <<>>,
                 !.sentReliable = <<>>, !.outgoingReliable = <<>>,
                 !.outgoingUnreliable = <<>>, !.dispatched = <<>>,
                 !.channelQueue = {}, !.channelCount = 0,
                 !.channelOut = 0, !.channelIn = 0]

\* Faulty variant: the peer stays linked in the dispatch queue.
ResetQueuesStillLinked(H, s) == [H EXCEPT !.peers[s] = EmptyQueues(@)]

ResetQueues(H, s) ==
    [H EXCEPT !.dispatchQueue = IF H.peers[s].needsDispatch
                                THEN Unlink(@, s) ELSE @,
              !.peers[s] = EmptyQueues(@)]

\* Faulty variant: enet_peer_on_disconnect is not called.
ResetUncounted(H, s) ==
    ResetQueues([H EXCEPT !.peers[s] = [@ EXCEPT !.outgoingPeerID = NoPeer,
                                                 !.connectID = 0,
                                                 !.state = DISCONNECTED,
                                                 !.address = NoHost,
                                                 !.outgoingSeq = 0]],
                s)

\* The session identifiers survive: the next connection is numbered after them.
Reset(H, s) ==
    ResetQueues([OnDisconnect(H, s) EXCEPT
                   !.peers[s] = [@ EXCEPT !.outgoingPeerID = NoPeer,
                                          !.connectID = 0,
                                          !.state = DISCONNECTED,
                                          !.address = NoHost,
                                          !.outgoingSeq = 0]],
                s)

(* enet_peer_queue_outgoing_command with enet_peer_setup_outgoing_command:    *)
(* number the command, then append it to the queue its flag selects.  An      *)
(* unreliable packet carries the channel's reliable number.                   *)
Numbered(peer, c) ==
    IF c.channel = ControlChannel
    THEN [peer EXCEPT !.outgoingSeq = @ + 1]
    ELSE IF c.reliable
    THEN [peer EXCEPT !.channelOut = @ + 1]
    ELSE peer

NumberOf(peer, c) ==
    IF c.channel = ControlChannel THEN peer.outgoingSeq ELSE peer.channelOut

QueueOutgoing(H, s, c) ==
    LET peer == Numbered(H.peers[s], c)
        command == [c EXCEPT !.seq = NumberOf(peer, c)]
    IN  [H EXCEPT !.peers[s] =
            IF c.reliable
            THEN [peer EXCEPT !.outgoingReliable = Append(@, command)]
            ELSE [peer EXCEPT !.outgoingUnreliable = Append(@, command)]]

QueueAcknowledgement(H, s, c) ==
    [H EXCEPT !.peers[s].acknowledgements = Append(@, c)]

\* Faulty variant: commands sent and not yet acknowledged are forgotten.
NothingUnsent(peer) ==
    /\ peer.outgoingReliable = <<>>
    /\ peer.outgoingUnreliable = <<>>

NothingQueued(peer) ==
    /\ peer.outgoingReliable = <<>>
    /\ peer.outgoingUnreliable = <<>>
    /\ peer.sentReliable = <<>>

---------------------------------------------------------------------------
(* protocol.c: state changes and the dispatch queue                           *)

ChangeState(H, s, state) ==
    [ (IF state \in Counted THEN OnConnect(H, s) ELSE OnDisconnect(H, s))
      EXCEPT !.peers[s].state = state]

EnterDispatchQueue(H, s) ==
    IF H.peers[s].needsDispatch
    THEN H
    ELSE [H EXCEPT !.dispatchQueue = Append(@, s),
                   !.peers[s].needsDispatch = TRUE]

\* The host once the head of its dispatch queue has left it.
Popped(H) ==
    [H EXCEPT !.dispatchQueue = Tail(@),
              !.peers[Head(H.dispatchQueue)].needsDispatch = FALSE]

\* Faulty variant: the state changes and the peer is not queued for dispatch.
ChangeStateOnly(H, s, state) == ChangeState(H, s, state)

DispatchState(H, s, state) == EnterDispatchQueue(ChangeState(H, s, state), s)

\* Faulty variant: without an event the peer is just made CONNECTED.
NotifyConnectUnqueued(H, s, event) == ChangeState(H, s, CONNECTED)

\* event is whether enet_host_service was given an event to fill.
NotifyConnect(H, s, event) ==
    IF event
    THEN ChangeState(H, s, CONNECTED)
    ELSE DispatchState(H, s, IF H.peers[s].state = CONNECTING
                             THEN CONNECTION_SUCCEEDED
                             ELSE CONNECTION_PENDING)

\* Faulty variant: the loss of a peer being disconnected is not reported.
LostSilentlyWhenClosing(peer) == peer.state = DISCONNECTING

\* Faulty variant: every loss is reported.
LostSilentlyNever(peer) == FALSE

\* The peers whose loss is not reported: the program never heard of them.
LostSilently(peer) ==
    /\ peer.state # CONNECTING
    /\ peer.state < CONNECTION_SUCCEEDED

NotifyDisconnect(H, s, event) ==
    IF LostSilently(H.peers[s]) \/ event
    THEN Reset(H, s)
    ELSE DispatchState(H, s, ZOMBIE)

---------------------------------------------------------------------------
(* peer.c: disconnection                                                      *)

NoDisconnectFrom == {DISCONNECTING, DISCONNECTED, ACKNOWLEDGING_DISCONNECT,
                     ZOMBIE}

(* enet_peer_disconnect up to the flush it makes for a peer that is still     *)
(* shaking hands; the caller flushes and resets such a peer.                  *)
Disconnect(H, s) ==
    LET wasCounted == H.peers[s].state \in Counted
        queued == QueueOutgoing(ResetQueues(H, s), s,
                      Command("DISCONNECT", ControlChannel, wasCounted))
    IN  IF H.peers[s].state \in NoDisconnectFrom THEN H
        ELSE IF wasCounted
        THEN [OnDisconnect(queued, s) EXCEPT !.peers[s].state = DISCONNECTING]
        ELSE queued

\* The DISCONNECT enet_peer_disconnect_now leaves behind.
DisconnectNow(H, s) ==
    QueueOutgoing(ResetQueues(H, s), s,
                  Command("DISCONNECT", ControlChannel, FALSE))

(* Acknowledged commands leave the list of those sent; a number occurs once   *)
(* in a channel.                                                              *)
IsAcked(c, ack) == c.seq = ack.seq /\ c.channel = ack.channel

AckedAt(sent, ack) == CHOOSE i \in 1 .. Len(sent) : IsAcked(sent[i], ack)

HasAcked(sent, ack) == \E i \in 1 .. Len(sent) : IsAcked(sent[i], ack)

RemoveSentReliable(H, s, ack) ==
    IF HasAcked(H.peers[s].sentReliable, ack)
    THEN [H EXCEPT !.peers[s].sentReliable = RemoveAt(@, AckedAt(@, ack))]
    ELSE H

\* The type of the command an acknowledgement removes.
AckedType(sent, ack) ==
    IF HasAcked(sent, ack) THEN sent[AckedAt(sent, ack)].type ELSE "NONE"

---------------------------------------------------------------------------
(* peer.c: incoming packets of the data channel                               *)

\* How many packets become deliverable, in order, once number n has arrived.
Deliverable(peer, n) ==
    LET have == peer.channelQueue \cup {n}
    IN  Cardinality({m \in have : /\ m > peer.channelIn
                                  /\ peer.channelIn + 1 .. m \subseteq have})

QueueIncomingReliable(H, s, n) ==
    LET peer == H.peers[s]
        count == Deliverable(peer, n)
        ready == [i \in 1 .. count |-> peer.channelIn + i]
        held == {m \in peer.channelQueue \cup {n} : m > peer.channelIn + count}
        taken == [H EXCEPT !.peers[s] =
            [peer EXCEPT !.channelQueue = held,
                         !.channelIn = @ + count,
                         !.dispatched = @ \o ready]]
    IN  IF peer.state = DISCONNECT_LATER \/ n <= peer.channelIn
        THEN H
        ELSE IF count = 0 THEN taken ELSE EnterDispatchQueue(taken, s)

---------------------------------------------------------------------------
(* What holds of a host between two steps                                     *)

CountedSlots(H) == {s \in DOMAIN H.peers : H.peers[s].state \in Counted}

CountExact(H) == H.connectedPeers = Cardinality(CountedSlots(H))

QueueExact(H) ==
    /\ \A i, j \in 1 .. Len(H.dispatchQueue) :
          H.dispatchQueue[i] = H.dispatchQueue[j] => i = j
    /\ \A s \in DOMAIN H.peers :
          H.peers[s].needsDispatch
            <=> \E i \in 1 .. Len(H.dispatchQueue) : H.dispatchQueue[i] = s
=============================================================================
