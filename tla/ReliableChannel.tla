--------------------------- MODULE ReliableChannel ---------------------------
(* One direction of one channel of a connection that stays up: the reliable   *)
(* packets of a program, the commands that carry them, the sequence number    *)
(* windows at both ends and the acknowledgements that come back.              *)
(*                                                                            *)
(* Command n is the n-th reliable command of the channel; on the wire it has  *)
(* only its sequence number, Wire(n).  The number itself stands for the data, *)
(* so that a command taken for another can be told from it.                   *)
(*                                                                            *)
(* The network loses, duplicates, delays and reorders.  A command in flight   *)
(* is sent again until it is acknowledged, so a copy of it may arrive at any  *)
(* time; a copy of an acknowledged one may still arrive for a while.  The     *)
(* congestion window and the MTU only delay a transmission, which any step    *)
(* here may be anyway.                                                        *)
EXTENDS Integers, Sequences, FiniteSets

CONSTANTS Windows,    \* ENET_PEER_RELIABLE_WINDOWS, 16
          WindowSize, \* ENET_PEER_RELIABLE_WINDOW_SIZE, 4096
          FreeWindows,\* ENET_PEER_FREE_RELIABLE_WINDOWS, 8
          Fragments,  \* the packets the program sends: the fragments of each
          MaxAhead,   \* bound: commands first sent while one is in flight
          MaxDelay,   \* bound: commands first sent while a datagram is under way
          MaxBacklog  \* bound: packets queued and not yet sent

ASSUME WindowsAssumption == /\ Windows \in Nat \ {0}
                            /\ WindowSize \in Nat \ {0}
                            /\ FreeWindows \in 3 .. Windows - 1
ASSUME FragmentsAssumption == Fragments \in Seq(Nat \ {0})
ASSUME BoundsAssumption == {MaxAhead, MaxDelay, MaxBacklog} \subseteq Nat

VARIABLES
    queued,    \* packets the program has sent
    sent,      \* commands transmitted at least once
    inFlight,  \* those not acknowledged: sentReliableCommands, and what waits
               \* in outgoingReliableCommands to be sent again
    counts,    \* reliableWindows: commands in flight, by window
    used,      \* usedReliableWindows: the bit of each window
    incoming,  \* incomingReliableSequenceNumber of the receiver
    held,      \* its incomingReliableCommands
    delivered, \* what it moved to dispatchedCommands, for the program to take
    acks       \* acknowledgements under way, by the command they are for

sender == <<queued, sent, inFlight, counts, used>>
receiver == <<incoming, held, delivered>>
vars == <<sender, receiver, acks>>

Space == Windows * WindowSize
WindowNumbers == 0 .. Windows - 1

\* The sequence number of a command: a counter of 16 bits.
Wire(n) == n % Space
Window(wire) == wire \div WindowSize

-----------------------------------------------------------------------------
(* Packets and the commands that carry them.  A packet too large for the MTU  *)
(* is cut into fragments, which get consecutive numbers.                      *)

First[p \in 1 .. Len(Fragments) + 1] ==
    IF p = 1 THEN 1 ELSE First[p - 1] + Fragments[p - 1]

Numbers == 1 .. First[Len(Fragments) + 1] - 1

PacketOf == [n \in Numbers |->
                CHOOSE p \in DOMAIN Fragments : n \in First[p] .. First[p + 1] - 1]

Start(n) == First[PacketOf[n]]
Count(n) == Fragments[PacketOf[n]]

\* A packet, as the commands whose data it holds.
Packets == [p \in DOMAIN Fragments |-> First[p] .. First[p + 1] - 1]

Init == /\ queued = 0
        /\ sent = 0
        /\ inFlight = {}
        /\ counts = [w \in WindowNumbers |-> 0]
        /\ used = {}
        /\ incoming = 0
        /\ held = {}
        /\ delivered = <<>>
        /\ acks = {}

-----------------------------------------------------------------------------
(* The sender.                                                                *)

\* enet_peer_send: the commands of a packet get their numbers and are queued.
Send == /\ queued < Len(Fragments)
        /\ First[queued + 1] - 1 <= sent + MaxBacklog
        /\ queued' = queued + 1
        /\ UNCHANGED <<sent, inFlight, counts, used, receiver, acks>>

\* The windows looked at before one is entered.  The mask is meant to go
\* around, but its second half is shifted by ENET_PEER_RELIABLE_WINDOW_SIZE less
\* the window rather than by ENET_PEER_RELIABLE_WINDOWS less it: more than the
\* width of an int.  The processors ENet runs on shift by that modulo 32, which
\* leaves no bit, so the windows beyond the last are not looked at.
Guarded(w) == (w .. w + FreeWindows - 1) \cap WindowNumbers

\* Faulty variant: only the windows of the mask are looked at.
BlockedByMask(n) == /\ Wire(n) % WindowSize = 0
                    /\ used \cap Guarded(Window(Wire(n))) # {}

\* The first command of a window waits while the window before it is full of
\* unacknowledged commands, or a window of its own mask is in use.
Blocked(n) ==
    LET w == Window(Wire(n)) IN
    /\ Wire(n) % WindowSize = 0
    /\ \/ counts[(w + Windows - 1) % Windows] >= WindowSize
       \/ used \cap Guarded(w) # {}

\* enet_protocol_send_reliable_outgoing_commands, for a first transmission.
Transmit ==
    LET n == sent + 1
        w == Window(Wire(n))
    IN /\ n < First[queued + 1]
       /\ \A m \in inFlight : n - m <= MaxAhead
       /\ ~Blocked(n)
       /\ sent' = n
       /\ inFlight' = inFlight \cup {n}
       /\ used' = used \cup {w}
       /\ counts' = [counts EXCEPT ![w] = @ + 1]
       /\ acks' = {m \in acks : n - m < MaxDelay}
       /\ UNCHANGED <<queued, receiver>>

\* Faulty variants: the bit of an empty window stays set; the count stays.
LeaveWindowMarked(w) ==
    /\ counts' = IF counts[w] > 0 THEN [counts EXCEPT ![w] = @ - 1] ELSE counts
    /\ used' = used
LeaveWindowCounted(w) == UNCHANGED <<counts, used>>

\* What enet_protocol_remove_sent_reliable_command does to the windows.
LeaveWindow(w) ==
    /\ counts' = IF counts[w] > 0 THEN [counts EXCEPT ![w] = @ - 1] ELSE counts
    /\ used' = IF counts[w] = 1 THEN used \ {w} ELSE used

\* The sender handles an acknowledgement: it names a sequence number, and the
\* command in flight with that number leaves.
HandleAcknowledge(n) ==
    /\ n \in acks
    /\ \E m \in inFlight : /\ Wire(m) = Wire(n)
                           /\ inFlight' = inFlight \ {m}
                           /\ LeaveWindow(Window(Wire(m)))
    /\ UNCHANGED <<queued, sent, receiver, acks>>

-----------------------------------------------------------------------------
(* The receiver.                                                              *)

\* A copy of command n may arrive.
UnderWay(n) == n \in inFlight \/ (n <= sent /\ sent - n < MaxDelay)

\* The window of a sequence number as the receiver counts: a number lower than
\* the last one delivered is taken for one of the next lap.
WindowSeen(wire, last) == Window(wire) + IF wire < last THEN Windows ELSE 0

InWindow(wire) ==
    WindowSeen(wire, incoming) \in
        Window(incoming) .. Window(incoming) + FreeWindows - 2

\* Faulty variants: every command is acknowledged; one window too many is not.
AcknowledgedAlways(wire, last) == TRUE
AcknowledgedTooFew(wire, last) ==
    WindowSeen(wire, last) \notin
        Window(last) + FreeWindows - 1 .. Window(last) + FreeWindows + 1

\* enet_peer_queue_acknowledgement, once the command was handled: none for a
\* command of the two windows after those accepted.
Acknowledged(wire, last) ==
    WindowSeen(wire, last) \notin
        Window(last) + FreeWindows - 1 .. Window(last) + FreeWindows

Acknowledge(n) ==
    acks' = IF Acknowledged(Wire(n), incoming') THEN acks \cup {n} ELSE acks

\* Faulty variant: a packet passes for complete one fragment early.
CompleteEarly(e) == Cardinality(e.data) >= e.count - 1

Complete(e) == Cardinality(e.data) = e.count

\* Faulty variant: the counter does not wrap.
LastOfWide(e) == e.start + e.count - 1

\* The sequence number of the last command of a packet.
LastOf(e) == (e.start + e.count - 1) % Space

\* The packet after the last one delivered, once it is complete.
NextOf(r) == {e \in r.held : /\ e.start = (r.incoming + 1) % Space
                             /\ Complete(e)}

\* One round of the loop below.
DispatchNext(r) ==
    IF NextOf(r) = {} THEN r
    ELSE LET e == CHOOSE e \in NextOf(r) : TRUE IN
         [incoming |-> LastOf(e),
          held |-> r.held \ {e},
          delivered |-> Append(r.delivered, e.data)]

\* enet_peer_dispatch_incoming_reliable_commands: while the packet after the
\* last one delivered is complete, it is the next delivered.
Dispatch(entries) ==
    LET after[k \in 0 .. Cardinality(entries)] ==
            IF k = 0
            THEN [incoming |-> incoming, held |-> entries, delivered |-> delivered]
            ELSE DispatchNext(after[k - 1])
        final == after[Cardinality(entries)]
    IN /\ incoming' = final.incoming
       /\ held' = final.held
       /\ delivered' = final.delivered

\* The entry of a packet that is queued at this sequence number.
HeldAt(wire) == {e \in held : e.start = wire}

\* enet_protocol_handle_send_reliable: a packet in one command.
HandleSendReliable(n) ==
    LET wire == Wire(n)
        isNew == InWindow(wire) /\ wire # incoming /\ HeldAt(wire) = {}
    IN /\ UnderWay(n)
       /\ Count(n) = 1
       /\ \/ /\ ~isNew
             /\ UNCHANGED receiver
          \/ /\ isNew
             /\ Dispatch(held \cup {[start |-> wire, count |-> 1, data |-> {n}]})
       /\ Acknowledge(n)
       /\ UNCHANGED sender

\* enet_protocol_handle_send_fragment: the window and the entry are those of
\* the first fragment.  A fragment that does not fit the entry it finds is
\* dropped with the rest of its datagram, unacknowledged.
HandleSendFragment(n) ==
    LET wire == Wire(Start(n))
        fragment == n - Start(n)
        Has(e) == \E m \in e.data : m - Start(m) = fragment
    IN /\ UnderWay(n)
       /\ Count(n) > 1
       /\ \/ /\ ~InWindow(wire)
             /\ UNCHANGED receiver
          \/ /\ InWindow(wire)
             /\ HeldAt(wire) = {}
             /\ wire # incoming
             /\ Dispatch(held \cup {[start |-> wire, count |-> Count(n), data |-> {n}]})
          \/ /\ InWindow(wire)
             /\ \E e \in HeldAt(wire) :
                   /\ e.count = Count(n)
                   /\ IF Has(e) THEN UNCHANGED receiver
                      ELSE Dispatch((held \ {e}) \cup {[e EXCEPT !.data = @ \cup {n}]})
       /\ Acknowledge(n)
       /\ UNCHANGED sender

HandleCommand(n) == HandleSendReliable(n) \/ HandleSendFragment(n)

-----------------------------------------------------------------------------
Next == \/ Send
        \/ Transmit
        \/ \E n \in Numbers : \/ HandleAcknowledge(n)
                              \/ HandleSendReliable(n)
                              \/ HandleSendFragment(n)

Spec == Init /\ [][Next]_vars

\* The library keeps sending, and the network does not lose every copy of every
\* command, nor every acknowledgement.  The numbers never repeat and nothing is
\* undone, so this is as much as fairness to each command would be.
FairSpec == /\ Spec
            /\ WF_vars(Transmit)
            /\ WF_vars(\E n \in Numbers : HandleCommand(n))
            /\ WF_vars(\E n \in Numbers : HandleAcknowledge(n))

-----------------------------------------------------------------------------
(* Properties.                                                                *)

Entries == [start : 0 .. Space - 1, count : Nat \ {0}, data : SUBSET Numbers]

\* Every variable keeps its type (ENetChannel, enet.h:237-247).
TypeOK == /\ queued \in 0 .. Len(Fragments)
          /\ sent \in 0 .. First[queued + 1] - 1
          /\ inFlight \subseteq 1 .. sent
          /\ counts \in [WindowNumbers -> Nat]
          /\ used \subseteq WindowNumbers
          /\ incoming \in 0 .. Space - 1
          /\ held \subseteq Entries
          /\ delivered \in Seq(SUBSET Numbers)
          /\ acks \subseteq 1 .. sent

\* reliableWindows[w] is the number of commands of window w in flight, and the
\* bit of w in usedReliableWindows says whether there are any: a count that
\* drifts blocks a window for ever or opens it too early (protocol.c:1537-1541
\* against protocol.c:233-243).
WindowsCountInFlight ==
    /\ \A w \in WindowNumbers :
          counts[w] = Cardinality({n \in inFlight : Window(Wire(n)) = w})
    /\ used = {w \in WindowNumbers : counts[w] > 0}

\* What the sender stops sending is not lost: a command that was acknowledged
\* was delivered or is held by the receiver, which acknowledges by window and
\* not by what it kept (peer.c:581-611 against peer.c:834-845).
AckedIsKept ==
    \A n \in 1 .. sent \ inFlight :
        \/ \E i \in DOMAIN delivered : n \in delivered[i]
        \/ \E e \in held : n \in e.data

\* The sender never enters the window that is FreeWindows ahead of what was
\* delivered: the receiver refuses, unacknowledged, what is one window nearer,
\* so it stops there (protocol.c:1501-1509).  Further ahead a command would be
\* acknowledged as if it were an old one and lost.
SenderStaysClose ==
    LET last == First[Len(delivered) + 1] - 1 IN
    sent \div WindowSize <= last \div WindowSize + FreeWindows - 1

Fifo == INSTANCE FifoChannel WITH sent <- queued

\* Packets reach the other program once each, in order, whole and unchanged,
\* over a network that keeps none of it (enet.h:108-109).
InOrder == Fifo!Spec

\* And every packet that was sent reaches it.
EventuallyDelivered == Fifo!FairSpec

\* Every command is acknowledged in the end: else the sender gives the peer up
\* (protocol.c:1450-1457) although the other end got everything.
EventuallyAcknowledged ==
    \A n \in Numbers : n \in inFlight ~> n \notin inFlight
=============================================================================
