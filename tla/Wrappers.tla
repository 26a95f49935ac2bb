------------------------------- MODULE Wrappers -------------------------------
(* The three wrappers around one ENet host: the server SESrv, the client of   *)
(* one peer SECln and the client of many SECln2.  The program calls them from *)
(* one thread; Process calls enet_host_service and hands its event to a       *)
(* callback, which may call the wrapper again.                                *)
(*                                                                            *)
(* What other hosts do shows in the commands they send: a step of the receive *)
(* phase handles those of one datagram.  Connection has the handshake and the *)
(* network in detail; here a datagram that changes the state of a peer may    *)
(* come whenever the peer is in a state to take it.  A command stays in       *)
(* outgoingReliable until it is acknowledged.                                 *)
EXTENDS HostOps

CONSTANTS Apis,          \* the wrappers: a subset of {"SESrv", "SECln", "SECln2"}
          MaxPeers,      \* max_peers; SECln has one
          CallbackCalls, \* what each callback of the program may call
          MaxSessions,   \* bound: connections accepted or asked for
          MaxPackets,    \* bound: packets of a connection, each way
          MaxDepth       \* bound: frames of calls

Callbacks == {"on_connect", "on_recv", "on_disconnect"}
CallsFromCallbacks == {"connect", "disconnect", "force", "send", "process"}

ASSUME ApisAssumption == Apis \subseteq {"SESrv", "SECln", "SECln2"}
ASSUME MaxPeersAssumption == MaxPeers \in Nat \ {0}

ASSUME BoundAssumption ==
    MaxSessions \in Nat /\ MaxPackets \in Nat /\ MaxDepth \in Nat

\* Process uses its event again when on_recv or on_disconnect returns, and the
\* event of a Process called from there would be in its place.
ASSUME CallbackAssumption ==
    /\ CallbackCalls \in [Callbacks -> SUBSET CallsFromCallbacks]
    /\ "process" \notin CallbackCalls["on_recv"] \cup CallbackCalls["on_disconnect"]

VARIABLES
    api,        \* which wrapper it is
    started,    \* e_host is not NULL
    immediatly, \* send_immediatly
    host,       \* e_host
    pointer,    \* e_peer of SECln: NoPeer or its slot
    event,      \* e_event: what enet_host_service returned last
    calls,      \* the calls in progress, the outermost first
    handed,     \* history: the peers the program has, and was not told the end of
    sessions    \* history: how many connections there were

vars == <<api, started, immediatly, host, pointer, event, calls, handed, sessions>>

Slots == 1 .. IF api = "SECln" THEN 1 ELSE MaxPeers

ServicePhases == {"dispatch", "send", "receive", "resend", "redispatch"}
Frames == Callbacks \cup ServicePhases \cup {"Process", "SECln_Connect"}

NewHost(slots) ==
    [peers |-> [s \in slots |-> FreePeer], dispatchQueue |-> <<>>,
     connectedPeers |-> 0, randomSeed |-> 0]

NoEvent == [type |-> "none", slot |-> NoPeer]

Init ==
    /\ api \in Apis
    /\ started = (api # "SESrv")
    /\ immediatly = FALSE
    /\ host = NewHost(Slots)
    /\ pointer = NoPeer
    /\ event = NoEvent
    /\ calls = <<>>
    /\ handed = {}
    /\ sessions = 0

State(s) == host.peers[s].state

\* The program runs: between calls, or in a callback, which may make this call.
InProgram == calls # <<>> => Last(calls) \in Callbacks
MayCall(call) ==
    /\ started
    /\ InProgram
    /\ calls # <<>> => call \in CallbackCalls[Last(calls)]

\* enet_host_service goes to its next phase.
GoTo(phase) == calls' = Append(Front(calls), phase)
At(phase) == calls # <<>> /\ Last(calls) = phase

IsFirstFree(s) ==
    /\ State(s) = DISCONNECTED
    /\ \A t \in Slots : State(t) = DISCONNECTED => s <= t

---------------------------------------------------------------------------
(* What the wrappers call.                                                    *)

\* enet_host_flush sends what is queued.  A peer whose DISCONNECT is acknowledged
\* becomes a zombie; up to slot s only, as when a later one is given up.
FlushTo(H, s) ==
    LET pass[i \in 0 .. s] ==
            IF i = 0 THEN H
            ELSE IF pass[i - 1].peers[i].state = ACKNOWLEDGING_DISCONNECT
            THEN DispatchState(pass[i - 1], i, ZOMBIE)
            ELSE pass[i - 1]
    IN pass[s]

Flush(H) == FlushTo(H, Cardinality(DOMAIN H.peers))

\* enet_peer_disconnect.
PeerDisconnect(H, s) ==
    IF H.peers[s].state \in NoDisconnectFrom \cup Counted THEN Disconnect(H, s)
    ELSE Reset(Flush(Disconnect(H, s)), s)

\* enet_peer_disconnect_later.
PeerDisconnectLater(H, s) ==
    IF H.peers[s].state \in Counted /\ ~NothingQueued(H.peers[s])
    THEN [H EXCEPT !.peers[s].state = DISCONNECT_LATER]
    ELSE PeerDisconnect(H, s)

\* A peer as SESrv_Disconnect, SECln_Disconnect and SECln2_PeerDisconnect leave it.
Disconnected(H, s, force) ==
    IF force THEN Reset(H, s)
    ELSE IF immediatly THEN Flush(PeerDisconnect(H, s))
    ELSE PeerDisconnectLater(H, s)

\* SESrv_DisconnectAll and SECln2_PeersDisconnectAll: the flush comes last.
AllDisconnected(H, force) ==
    LET all[i \in 0 .. Cardinality(DOMAIN H.peers)] ==
            IF i = 0 THEN H
            ELSE IF force THEN Reset(all[i - 1], i)
            ELSE IF immediatly THEN PeerDisconnect(all[i - 1], i)
            ELSE PeerDisconnectLater(all[i - 1], i)
        last == all[Cardinality(DOMAIN H.peers)]
    IN IF immediatly /\ ~force THEN Flush(last) ELSE last

\* The peers that a call of the program ended, and it needs no callback to know.
Ended(H) == {s \in DOMAIN H.peers : H.peers[s].state = DISCONNECTED}

---------------------------------------------------------------------------
(* Calls of the program.                                                      *)

Start ==
    /\ api = "SESrv"
    /\ ~started
    /\ started' = TRUE
    /\ host' = NewHost(Slots)
    /\ UNCHANGED <<api, immediatly, pointer, event, calls, handed, sessions>>

\* SESrv_Stop, SESrv_Destroy: what DisconnectAll has queued goes with the host.
Stop ==
    /\ api = "SESrv"
    /\ started
    /\ calls = <<>>
    /\ started' = FALSE
    /\ host' = NewHost(Slots)
    /\ handed' = {}
    /\ UNCHANGED <<api, immediatly, pointer, event, calls, sessions>>

SetSendImmediatly ==
    /\ InProgram
    /\ immediatly' = ~immediatly
    /\ UNCHANGED <<api, started, host, pointer, event, calls, handed, sessions>>

\* SECln2_Connect.  The program has the peer before it is connected.
ConnectMany(s) ==
    /\ api = "SECln2"
    /\ MayCall("connect")
    /\ sessions < MaxSessions
    /\ IsFirstFree(s)
    /\ host' = [host EXCEPT !.peers[s].state = CONNECTING]
    /\ handed' = handed \cup {s}
    /\ sessions' = sessions + 1
    /\ UNCHANGED <<api, started, immediatly, pointer, event, calls>>

\* SECln_Connect, as far as its call of enet_host_service.
ConnectOne(s) ==
    /\ api = "SECln"
    /\ MayCall("connect")
    /\ pointer = NoPeer
    /\ sessions < MaxSessions
    /\ Len(calls) + 2 <= MaxDepth
    /\ IsFirstFree(s)
    /\ host' = [host EXCEPT !.peers[s].state = CONNECTING]
    /\ pointer' = s
    /\ event' = NoEvent
    /\ calls' = calls \o <<"SECln_Connect", "dispatch">>
    /\ sessions' = sessions + 1
    /\ UNCHANGED <<api, started, immediatly, handed>>

\* The program disconnects a peer it has, or the one it is just told the end of.
DisconnectPeer(s, force) ==
    LET H == Disconnected(host, s, force) IN
    /\ MayCall(IF force THEN "force" ELSE "disconnect")
    /\ s \in handed \/ (At("on_disconnect") /\ s = event.slot)
    /\ api = "SECln" => s = pointer
    /\ host' = H
    /\ handed' = handed \ ({s} \cap Ended(H))
    /\ pointer' = IF force THEN NoPeer ELSE pointer
    /\ UNCHANGED <<api, started, immediatly, event, calls, sessions>>

DisconnectAll(force) ==
    LET H == AllDisconnected(host, force) IN
    /\ api # "SECln"
    /\ MayCall(IF force THEN "force" ELSE "disconnect")
    /\ host' = H
    /\ handed' = handed \ Ended(H)
    /\ UNCHANGED <<api, started, immediatly, pointer, event, calls, sessions>>

\* A packet for a peer that is not connected is refused by enet_peer_send.
PeerSend(H, s) ==
    IF H.peers[s].state = CONNECTED
    THEN QueueOutgoing(H, s, Command("SEND_RELIABLE", DataChannel, TRUE))
    ELSE H

Send(s) ==
    LET sent == PeerSend(host, s)
    IN /\ MayCall("send")
       /\ s \in handed
       /\ api = "SECln" => s = pointer
       /\ host.peers[s].channelOut < MaxPackets
       /\ host' = IF immediatly THEN Flush(sent) ELSE sent
       /\ UNCHANGED <<api, started, immediatly, pointer, event, calls, handed, sessions>>

\* SESrv_Broadcast and SECln2_Broadcast: to every peer that is connected.
Broadcast ==
    LET sent[i \in 0 .. Cardinality(Slots)] ==
            IF i = 0 THEN host ELSE PeerSend(sent[i - 1], i)
        H == sent[Cardinality(Slots)]
    IN /\ api # "SECln"
       /\ MayCall("send")
       /\ api = "SECln2" => host.connectedPeers # 0
       /\ \A s \in Slots : host.peers[s].channelOut < MaxPackets
       /\ host' = IF immediatly THEN Flush(H) ELSE H
       /\ UNCHANGED <<api, started, immediatly, pointer, event, calls, handed, sessions>>

Process ==
    /\ MayCall("process")
    /\ api = "SECln" => pointer # NoPeer
    /\ Len(calls) + 2 <= MaxDepth
    /\ event' = NoEvent
    /\ calls' = calls \o <<"Process", "dispatch">>
    /\ UNCHANGED <<api, started, immediatly, host, pointer, handed, sessions>>

---------------------------------------------------------------------------
(* enet_host_service returns.                                                 *)

CallbackOf(type) ==
    CASE type = "connect" -> "on_connect"
      [] type = "receive" -> "on_recv"
      [] type = "disconnect" -> "on_disconnect"

\* SECln has no callback for a connection.
HasCallback(type) == ~(api = "SECln" /\ type = "connect")

\* Faulty variant: the peer stays when the request fails.
FailedKept(H) == /\ host' = Reset(H, pointer)
                 /\ UNCHANGED pointer

\* SECln_Connect gives the request up.
Failed(H) == /\ host' = Reset(H, pointer)
             /\ pointer' = NoPeer

\* The host is H, and the event is this one of slot s.
Raise(H, type, s) ==
    LET outer == Front(calls) IN
    /\ event' = [type |-> type, slot |-> s]
    /\ IF Last(outer) = "SECln_Connect"
       THEN /\ calls' = Front(outer)
            /\ IF type = "connect" /\ s = pointer
               THEN /\ host' = H
                    /\ handed' = handed \cup {s}
                    /\ UNCHANGED pointer
               ELSE Failed(H) /\ UNCHANGED handed
       ELSE /\ host' = H
            /\ calls' = IF HasCallback(type) THEN Append(outer, CallbackOf(type))
                        ELSE Front(outer)
            /\ handed' = CASE type = "connect" -> handed \cup {s}
                           [] type = "receive" -> handed
                           [] type = "disconnect" -> handed \ {s}
            /\ UNCHANGED pointer

\* No event came before the timeout.
ReturnNone ==
    /\ At("redispatch")
    /\ host.dispatchQueue = <<>>
    /\ calls' = Front(Front(calls))
    /\ IF Last(Front(calls)) = "SECln_Connect" THEN Failed(host)
       ELSE UNCHANGED <<host, pointer>>
    /\ UNCHANGED <<api, started, immediatly, event, handed, sessions>>

\* Process goes on when the callback returns.  ENet has freed the slot of a
\* disconnected peer already.
Return ==
    /\ calls # <<>>
    /\ Last(calls) \in Callbacks
    /\ calls' = Front(Front(calls))
    /\ host' = IF At("on_disconnect") /\ api # "SECln" THEN Reset(host, event.slot)
               ELSE host
    /\ pointer' = IF At("on_disconnect") THEN NoPeer ELSE pointer
    /\ UNCHANGED <<api, started, immediatly, event, handed, sessions>>

---------------------------------------------------------------------------
(* The phases of enet_host_service.                                           *)

\* enet_protocol_dispatch_incoming_commands for the peer at the head.
Dispatch ==
    LET s == Head(host.dispatchQueue)
        H == Popped(host)
        taken == [H EXCEPT !.peers[s].dispatched = Tail(@)]
        more == taken.peers[s].dispatched # <<>>
    IN /\ At("dispatch") \/ At("redispatch")
       /\ host.dispatchQueue # <<>>
       /\ \/ /\ State(s) = ZOMBIE
             /\ Raise(Reset(H, s), "disconnect", s)
          \/ /\ State(s) = CONNECTED
             /\ host.peers[s].dispatched # <<>>
             /\ Raise(IF more THEN EnterDispatchQueue(taken, s) ELSE taken, "receive", s)
          \/ /\ State(s) # ZOMBIE
             /\ State(s) = CONNECTED => host.peers[s].dispatched = <<>>
             /\ host' = H
             /\ UNCHANGED <<pointer, event, calls, handed>>
       /\ UNCHANGED <<api, started, immediatly, sessions>>

NextPhase ==
    /\ \/ /\ At("dispatch") \/ At("redispatch")
          /\ host.dispatchQueue = <<>>
          /\ GoTo("send")
          /\ UNCHANGED host
       \/ /\ At("send") \/ At("resend")
          /\ GoTo(IF At("send") THEN "receive" ELSE "redispatch")
          /\ host' = Flush(host)
       \/ At("receive") /\ GoTo("resend") /\ UNCHANGED host
    /\ UNCHANGED <<api, started, immediatly, pointer, event, handed, sessions>>

\* Faulty variant: a disconnection does not time out.
WaitingUnlessClosing(peer) ==
    peer.state \in {CONNECTING, ACKNOWLEDGING_CONNECT} \cup Counted

\* The peers that have something unacknowledged: a request, its answer, a packet or
\* a ping, a disconnection.
Waiting(peer) ==
    peer.state \in {CONNECTING, ACKNOWLEDGING_CONNECT, DISCONNECTING} \cup Counted

\* enet_protocol_check_timeouts: a peer stays unacknowledged too long.
GiveUp(s) ==
    LET H == FlushTo(host, s) IN
    /\ At("send") \/ At("resend")
    /\ Waiting(host.peers[s])
    /\ IF LostSilently(host.peers[s])
       THEN /\ host' = NotifyDisconnect(H, s, TRUE)
            /\ UNCHANGED <<pointer, event, calls, handed>>
       ELSE Raise(NotifyDisconnect(H, s, TRUE), "disconnect", s)
    /\ UNCHANGED <<api, started, immediatly, sessions>>

\* enet_protocol_handle_connect: only a server has a known port.
HandleConnect(s) ==
    /\ At("receive")
    /\ api = "SESrv"
    /\ sessions < MaxSessions
    /\ IsFirstFree(s)
    /\ host' = [host EXCEPT !.peers[s].state = ACKNOWLEDGING_CONNECT]
    /\ sessions' = sessions + 1
    /\ UNCHANGED <<api, started, immediatly, pointer, event, calls, handed>>

\* Faulty variant: a DISCONNECT that comes again is handled again.
DeafWhenFree == {DISCONNECTED}

\* The states in which a DISCONNECT means nothing.
DeafToDisconnect == {DISCONNECTED, ZOMBIE, ACKNOWLEDGING_DISCONNECT}

\* enet_protocol_handle_disconnect; acknowledged unless it is a farewell.
AfterDisconnect(H, s, acknowledged) ==
    LET quiet == ResetQueues(H, s)
        state == H.peers[s].state
    IN IF state \in DeafToDisconnect THEN H
       ELSE IF state \in {CONNECTION_SUCCEEDED, DISCONNECTING}
       THEN DispatchState(quiet, s, ZOMBIE)
       ELSE IF state \notin Counted THEN Reset(quiet, s)
       ELSE IF acknowledged THEN ChangeState(quiet, s, ACKNOWLEDGING_DISCONNECT)
       ELSE DispatchState(quiet, s, ZOMBIE)

\* A request of SECln2_Connect that is refused ends without a word.
HandleDisconnect(s, acknowledged) ==
    LET H == AfterDisconnect(host, s, acknowledged) IN
    /\ At("receive")
    /\ State(s) # DISCONNECTED
    /\ host' = H
    /\ handed' = IF State(s) = CONNECTING THEN handed \ {s} ELSE handed
    /\ UNCHANGED <<api, started, immediatly, pointer, event, calls, sessions>>

\* The last step of a handshake: the VERIFY_CONNECT, or its acknowledgement.  The
\* rest of the datagram may be a DISCONNECT already.
HandleHandshake(s) ==
    LET up == NotifyConnect(host, s, TRUE) IN
    /\ At("receive")
    /\ State(s) \in {CONNECTING, ACKNOWLEDGING_CONNECT}
    /\ \E H \in {up} \cup {AfterDisconnect(up, s, acknowledged) : acknowledged \in BOOLEAN} :
          Raise(H, "connect", s)
    /\ UNCHANGED <<api, started, immediatly, sessions>>

\* enet_protocol_handle_acknowledge, of a packet or of a disconnection.
HandleAcknowledge(s) ==
    LET H == [host EXCEPT !.peers[s].outgoingReliable = Tail(@)] IN
    /\ At("receive")
    /\ State(s) \in Counted \cup {DISCONNECTING}
    /\ host.peers[s].outgoingReliable # <<>>
    /\ IF State(s) = DISCONNECTING
       THEN Raise(NotifyDisconnect(H, s, TRUE), "disconnect", s)
       ELSE /\ host' = IF State(s) = DISCONNECT_LATER /\ NothingQueued(H.peers[s])
                       THEN PeerDisconnect(H, s) ELSE H
            /\ UNCHANGED <<pointer, event, calls, handed>>
    /\ UNCHANGED <<api, started, immediatly, sessions>>

\* enet_protocol_handle_send_reliable, of the next packet.
HandleSendReliable(s) ==
    LET n == host.peers[s].channelIn + 1 IN
    /\ At("receive")
    /\ State(s) \in Counted
    /\ n <= MaxPackets
    /\ host' = QueueIncomingReliable(host, s, n)
    /\ UNCHANGED <<api, started, immediatly, pointer, event, calls, handed, sessions>>

---------------------------------------------------------------------------
Next ==
    \/ Start \/ Stop \/ SetSendImmediatly \/ Broadcast \/ Process
    \/ \E force \in BOOLEAN : DisconnectAll(force)
    \/ \E s \in Slots :
          \/ ConnectMany(s) \/ ConnectOne(s) \/ Send(s)
          \/ \E force \in BOOLEAN : DisconnectPeer(s, force)
          \/ GiveUp(s)
          \/ HandleConnect(s) \/ HandleHandshake(s) \/ HandleAcknowledge(s)
          \/ HandleSendReliable(s)
          \/ \E acknowledged \in BOOLEAN : HandleDisconnect(s, acknowledged)
    \/ Dispatch \/ NextPhase \/ ReturnNone \/ Return

Spec == Init /\ [][Next]_vars

\* The program calls Process again and again and its callbacks return; a service
\* call goes on and its socket is empty at some point; what stays unacknowledged
\* is given up.
FairSpec ==
    /\ Spec
    /\ SF_vars(Process)
    /\ WF_vars(Dispatch \/ NextPhase \/ Return)
    /\ SF_vars(ReturnNone)
    /\ SF_vars(\E s \in Slots : State(s) = DISCONNECTING /\ GiveUp(s))

---------------------------------------------------------------------------
(* Properties.                                                                *)

\* Every variable keeps its type (server_t, client_t and client2_t).
TypeOK ==
    /\ api \in Apis
    /\ started \in BOOLEAN /\ immediatly \in BOOLEAN
    /\ host.peers \in [Slots -> Peers]
    /\ host.connectedPeers \in 0 .. Cardinality(Slots)
    /\ pointer \in Slots \cup {NoPeer}
    /\ event \in [type : {"none", "connect", "receive", "disconnect"},
                  slot : Slots \cup {NoPeer}]
    /\ calls \in Seq(Frames) /\ Len(calls) <= MaxDepth
    /\ handed \subseteq Slots
    /\ sessions \in 0 .. MaxSessions

\* The program is not one that connects when it is told the end of a peer.
Careful == "connect" \notin CallbackCalls["on_disconnect"]

\* A peer that the program was given is "a peer representing the foreign host"
\* (host.c:171) until the program is told of its end or ends it, except a request
\* that is refused (protocol.c:824-829).
PeersHeld == \A s \in handed : State(s) # DISCONNECTED

\* The peers of a program whose on_disconnect does not connect keep their slots: no
\* other callback, no failed call and no other peer's event frees one
\* (s_enet_server.c:538-576, s_enet_client.c:112).  The reset after on_disconnect
\* finds its slot free then, as it is not if on_disconnect has connected
\* (s_enet_server.c:560, s_enet_client2.c:283).
PeersStay == Careful => PeersHeld

\* A callback is about a peer that the program has, or for on_connect of a server
\* does not have yet: the end of a peer is told once, and never of a peer that the
\* program never got (s_enet_server.c:538-576).
Entered(callback) ==
    /\ Len(calls') = Len(calls)
    /\ calls # <<>>
    /\ Last(calls) \in ServicePhases
    /\ Last(calls') = callback
CallbacksFit ==
    [][/\ Entered("on_connect") => (event'.slot \in handed <=> api = "SECln2")
       /\ Entered("on_recv") \/ Entered("on_disconnect") => event'.slot \in handed]_vars

\* Between calls e_peer is NULL exactly when the slot of the client is free: the
\* client is neither stuck with a peer it does not know nor calls for one that is
\* gone (s_enet_client.c:105-144, 362-371).
PointerExact ==
    api = "SECln" /\ calls = <<>> => (pointer = NoPeer <=> State(1) = DISCONNECTED)

\* Faulty variant: any peer that is not free is listed.
ListedInUse(s) == State(s) # DISCONNECTED
Listed(s) == State(s) = CONNECTED

\* SESrv_PeersGetAll and SECln2_PeersGetAll: the array they write.
GetAll(size) ==
    LET peers[i \in 0 .. Cardinality(Slots)] ==
            IF i = 0 THEN <<>>
            ELSE IF Listed(i) /\ (Len(peers[i - 1]) < size \/ i = 1)
            THEN Append(peers[i - 1], i)
            ELSE peers[i - 1]
    IN IF host.connectedPeers = 0 THEN <<>> ELSE peers[Cardinality(Slots)]

\* Between the phases of a service call PeersGetAll writes no more than the array
\* holds, leaves out nobody who is connected while there is room, and lists only
\* peers that the program has (s_enet_server.c:346-366).
ListsPeers ==
    \A size \in 1 .. Cardinality(Slots) :
        LET list == GetAll(size) IN
        /\ Len(list) <= size
        /\ Len(list) < size => {s \in Slots : State(s) = CONNECTED} = ToSet(list)
        /\ ToSet(list) \subseteq handed

\* The end of a peer that is being closed, by either end, is told to the program
\* unless it ends the peer itself: Process does not stop serving a host whose
\* disconnections are on their way (s_enet_server.c:538-576, s_enet_client.c:350).
EventuallyTold ==
    \A s \in 1 .. MaxPeers :
        (s \in handed /\ State(s) \in {DISCONNECTING, ACKNOWLEDGING_DISCONNECT, ZOMBIE})
            ~> s \notin handed
=============================================================================
