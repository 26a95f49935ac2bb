-------------------------- MODULE UnreliableChannel --------------------------
(* One channel of a connection that stays up, one direction, for packets of   *)
(* every kind: unreliable ones are numbered after the last reliable packet    *)
(* sent before them and wait for it at the receiver; an unreliable packet     *)
(* larger than the MTU goes in fragments; packets that are not sequenced      *)
(* belong to numbered groups, one packet each.                                *)
(*                                                                            *)
(* The network loses, duplicates, delays and reorders.  A reliable packet is  *)
(* sent again until it arrives (ReliableChannel has the details): here it     *)
(* arrives whole, in one step, any time after it was sent.                    *)
EXTENDS Integers, Sequences, FiniteSets

CONSTANTS
    ReliableWindows,        \* ENET_PEER_RELIABLE_WINDOWS, 16
    ReliableWindowSize,     \* ENET_PEER_RELIABLE_WINDOW_SIZE, 4096
    FreeReliableWindows,    \* ENET_PEER_FREE_RELIABLE_WINDOWS, 8
    UnsequencedWindows,     \* ENET_PEER_UNSEQUENCED_WINDOWS, 64
    UnsequencedWindowSize,  \* ENET_PEER_UNSEQUENCED_WINDOW_SIZE, 1024
    FreeUnsequencedWindows, \* ENET_PEER_FREE_UNSEQUENCED_WINDOWS, 32
    LastUnreliable,         \* the last unreliable number, 0xFFFF
    Fragments,              \* the fragments of a packet larger than the MTU
    Scenarios,              \* what the program sends, and where the numbers start
    MaxDelay                \* bound: packets sent while a command is under way

Kinds == {"reliable", "unreliable", "fragmented", "unsequenced"}

ASSUME WindowsAssumption ==
    /\ {ReliableWindows, ReliableWindowSize, UnsequencedWindows,
        UnsequencedWindowSize, LastUnreliable} \subseteq Nat \ {0}
    /\ FreeReliableWindows \in 1 .. ReliableWindows
    /\ FreeUnsequencedWindows \in 1 .. UnsequencedWindows
ASSUME FragmentsAssumption == Fragments \in Nat \ {0, 1}
ASSUME ScenariosAssumption ==
    Scenarios \subseteq [packets : Seq(Kinds), reliable : Nat, group : Nat]

Space == ReliableWindows * ReliableWindowSize
GroupSpace == UnsequencedWindows * UnsequencedWindowSize

\* A group sent so long ago that its number would pass for that of a later one
\* is not under way any more.
ASSUME DelayAssumption ==
    /\ MaxDelay \in Nat
    /\ MaxDelay <= GroupSpace - FreeUnsequencedWindows * UnsequencedWindowSize

VARIABLES
    packets,       \* what the program sends
    queued,        \* how many packets it has sent
    reliable,      \* outgoingReliableSequenceNumber, not cut to 16 bits
    unreliable,    \* outgoingUnreliableSequenceNumber
    group,         \* outgoingUnsequencedGroup, not cut to 16 bits
    outgoing,      \* outgoingUnreliableCommands
    net,          \* commands transmitted
    incoming,      \* incomingReliableSequenceNumber
    incomingUnreliable, \* incomingUnreliableSequenceNumber
    heldReliable,  \* incomingReliableCommands
    entries,       \* incomingUnreliableCommands
    incomingGroup, \* incomingUnsequencedGroup
    window,        \* unsequencedWindow: the bits that are set
    dispatched,    \* what was moved to dispatchedCommands, as packets
    times,         \* how often each packet that is not sequenced was queued there
    dangling       \* the handler wrote to a command that was freed

numbers == <<reliable, unreliable, group>>
sender == <<packets, queued, numbers, outgoing, net>>
groups == <<incomingGroup, window, times>>
channel == <<incoming, incomingUnreliable, heldReliable, entries>>
vars == <<sender, groups, channel, dispatched, dangling>>

\* Faulty variant: the number does not wrap.
WireWide(n) == n

Wire(n) == n % Space
GroupWire(g) == g % GroupSpace

\* All earlier reliable packets and groups were sent and received.
Init ==
    \E s \in Scenarios :
        /\ packets = s.packets
        /\ queued = 0
        /\ reliable = s.reliable
        /\ unreliable = 0
        /\ group = s.group
        /\ outgoing = <<>>
        /\ net = {}
        /\ incoming = Wire(s.reliable)
        /\ incomingUnreliable = 0
        /\ heldReliable = {}
        /\ entries = <<>>
        /\ incomingGroup = GroupWire(s.group - (s.group % UnsequencedWindowSize))
        /\ window = {i \in 0 .. s.group % UnsequencedWindowSize :
                        s.group + i > s.group % UnsequencedWindowSize}
        /\ dispatched = <<>>
        /\ times = [p \in DOMAIN s.packets |-> 0]
        /\ dangling = FALSE

-----------------------------------------------------------------------------
(* The sender: enet_peer_send and enet_peer_setup_outgoing_command.           *)

\* Faulty variant: one number more, which 16 bits do not hold.
PastLastUnreliable(u) == u > LastUnreliable
\* No unreliable number is left before the next reliable packet.
NoNumberLeft(u) == u >= LastUnreliable

Command(kind, first, last, u, fragment) ==
    [packet |-> queued + 1, kind |-> kind, reliable |-> first, last |-> last,
     unreliable |-> u, group |-> group, fragment |-> fragment]

\* A packet of several fragments takes as many reliable numbers.
SendReliable(count) ==
    /\ net' = net \cup {Command("reliable", reliable + 1, reliable + count, 0, 0)}
    /\ reliable' = reliable + count
    /\ unreliable' = 0
    /\ UNCHANGED <<group, outgoing>>

SendUnsequenced ==
    /\ group' = group + 1
    /\ outgoing' = Append(outgoing,
                          [Command("unsequenced", 0, 0, 0, 0) EXCEPT !.group = group + 1])
    /\ UNCHANGED <<reliable, unreliable, net>>

SendUnreliable(kind, count) ==
    LET u == (unreliable + 1) % (LastUnreliable + 1) IN
    /\ unreliable' = u
    /\ outgoing' = outgoing \o [f \in 1 .. count |->
                                   Command(kind, reliable, reliable, u, f)]
    /\ UNCHANGED <<reliable, group, net>>

Send ==
    /\ queued < Len(packets)
    /\ queued' = queued + 1
    /\ LET kind == packets[queued + 1] IN
       \/ kind = "reliable" /\ SendReliable(1)
       \/ kind = "unsequenced" /\ SendUnsequenced
       \/ /\ kind \in {"unreliable", "fragmented"}
          /\ LET count == IF kind = "fragmented" THEN Fragments ELSE 1 IN
             IF NoNumberLeft(unreliable) THEN SendReliable(count)
             ELSE SendUnreliable(kind, count)
    /\ UNCHANGED <<packets, groups, channel, dispatched, dangling>>

\* enet_protocol_send_unreliable_outgoing_commands.
Transmit == /\ outgoing # <<>>
            /\ net' = net \cup {Head(outgoing)}
            /\ outgoing' = Tail(outgoing)
            /\ UNCHANGED <<packets, queued, numbers, groups, channel, dispatched, dangling>>

\* The first k commands, and no more, have the numbers of the first.
SameNumbers(k) ==
    LET IsSame(i) == /\ outgoing[i].reliable = outgoing[1].reliable
                     /\ outgoing[i].unreliable = outgoing[1].unreliable
    IN /\ \A i \in 1 .. k : IsSame(i)
       /\ k < Len(outgoing) => ~IsSame(k + 1)

\* The packet throttle may drop a packet of which nothing was transmitted.
Drop == /\ outgoing # <<>>
        /\ Head(outgoing).fragment <= 1
        /\ \E k \in 1 .. Len(outgoing) :
              /\ SameNumbers(k)
              /\ outgoing' = SubSeq(outgoing, k + 1, Len(outgoing))
        /\ UNCHANGED <<packets, queued, numbers, net, groups, channel, dispatched, dangling>>

\* A copy of the command may arrive.  A reliable packet is sent again until it
\* does; once it was delivered its copies change nothing.
UnderWay(c) ==
    /\ c \in net
    /\ IF c.kind = "reliable" THEN \A i \in DOMAIN dispatched : dispatched[i] # {<<c.packet, 0>>}
       ELSE queued - c.packet < MaxDelay

-----------------------------------------------------------------------------
(* The receiver.  List is incomingUnreliableCommands as it is handled.        *)

Lap(r, last) == r + IF r < last THEN Space ELSE 0

\* A number lower than the last one delivered is one of the next lap.
InWindow(r, last) ==
    Lap(r, last) \div ReliableWindowSize \in
        last \div ReliableWindowSize
          .. last \div ReliableWindowSize + FreeReliableWindows - 2

Complete(e) == Cardinality(e.data) = e.count

\* A packet that waits for a reliable one.
Waits(e, last) ==
    /\ e.kind # "unsequenced"
    /\ e.reliable # last
    /\ InWindow(e.reliable, last)

Ready(e, last) == e.kind = "unsequenced" \/ (e.reliable = last /\ Complete(e))
Unfinished(e, last) ==
    e.kind # "unsequenced" /\ e.reliable = last /\ ~Complete(e)

\* Faulty variants: one unfinished packet stays; all of the list stays.
KeptFromLast(list, stop, last) ==
    IF stop > 1 /\ Unfinished(list[stop - 1], last) THEN stop - 1 ELSE stop
KeptFromFirst(list, stop, last) == 1

\* What was not moved goes, except the last one or two unfinished packets if no
\* later one was ready.
KeptFrom(list, stop, last) ==
    LET IsUnfinished(i) == i >= 1 /\ Unfinished(list[i], last) IN
    IF ~IsUnfinished(stop - 1) THEN stop
    ELSE IF ~IsUnfinished(stop - 2) THEN stop - 1 ELSE stop - 2

\* The first packet that waits for a reliable one, or the end.
StopAt(list, last) ==
    CHOOSE i \in 1 .. Len(list) + 1 :
        /\ i <= Len(list) => Waits(list[i], last)
        /\ \A j \in 1 .. i - 1 : ~Waits(list[j], last)

\* A packet that is ready is moved; one with a number leaves its number.
NextMoved(so, e, last) ==
    IF ~Ready(e, last) THEN so
    ELSE [moved |-> Append(so.moved, e.data),
          unreliable |-> IF e.kind = "unsequenced" THEN so.unreliable
                         ELSE e.unreliable]

Moved(list, stop, last, lastUnreliable) ==
    LET after[i \in 0 .. stop - 1] ==
            IF i = 0 THEN [moved |-> <<>>, unreliable |-> lastUnreliable]
            ELSE NextMoved(after[i - 1], list[i], last)
    IN after[stop - 1]

\* enet_peer_dispatch_incoming_unreliable_commands: up to the first packet that
\* waits for a reliable one, those that are ready are moved.
DispatchUnreliable(list, last, lastUnreliable) ==
    LET stop == StopAt(list, last)
        ready == Moved(list, stop, last, lastUnreliable)
    IN [list |-> SubSeq(list, KeptFrom(list, stop, last), Len(list)),
        moved |-> ready.moved,
        unreliable |-> ready.unreliable]

DispatchFrom(list) ==
    LET result == DispatchUnreliable(list, incoming, incomingUnreliable)
    IN /\ entries' = result.list
       /\ incomingUnreliable' = result.unreliable
       /\ dispatched' = dispatched \o result.moved

\* The order of the list: by the numbers, counted from the last reliable one.
Sooner(e, r, u) ==
    \/ Lap(e.reliable, incoming) < Lap(r, incoming)
    \/ e.reliable = r /\ e.unreliable < u

Same(e, r, u) == e.reliable = r /\ e.unreliable = u

\* Faulty variant: a new entry goes to the end.
PlaceLast(r, u) == Len(entries)

\* The entry after which a new one goes, or the one it is a copy of.
Place(r, u) ==
    CHOOSE i \in 0 .. Len(entries) :
        /\ i > 0 => Sooner(entries[i], r, u) \/ Same(entries[i], r, u)
        /\ \A j \in i + 1 .. Len(entries) :
              ~Sooner(entries[j], r, u) /\ ~Same(entries[j], r, u)

Found(r, u) ==
    LET i == Place(r, u) IN i > 0 /\ Same(entries[i], r, u)

Inserted(e) ==
    LET i == Place(e.reliable, e.unreliable)
    IN SubSeq(entries, 1, i) \o <<e>> \o SubSeq(entries, i + 1, Len(entries))

Entry(c, count) ==
    [kind |-> c.kind, reliable |-> Wire(c.reliable), unreliable |-> c.unreliable,
     count |-> count, data |-> {<<c.packet, c.fragment>>}]

\* Faulty variant: packets delivered before are not told.
NotTooOld(r, u) == InWindow(r, incoming)
\* Neither outside the window nor delivered or overtaken.
Expected(r, u) ==
    InWindow(r, incoming) /\ (r = incoming => u > incomingUnreliable)

\* enet_protocol_handle_send_unreliable.
HandleSendUnreliable(c) ==
    /\ UnderWay(c)
    /\ c.kind = "unreliable"
    /\ IF Expected(Wire(c.reliable), c.unreliable)
            /\ ~Found(Wire(c.reliable), c.unreliable)
       THEN DispatchFrom(Inserted(Entry(c, 1)))
       ELSE UNCHANGED <<entries, incomingUnreliable, dispatched>>
    /\ UNCHANGED <<sender, groups, incoming, heldReliable, dangling>>

\* enet_protocol_handle_send_unreliable_fragment.  The command that
\* enet_peer_queue_incoming_command returns for the first fragment may be one
\* that the dispatch in it has freed; the fragment is then written there.
HandleSendUnreliableFragment(c) ==
    LET r == Wire(c.reliable)
        i == Place(r, c.unreliable)
        new == Entry(c, Fragments)
    IN /\ UnderWay(c)
       /\ c.kind = "fragmented"
       /\ \/ /\ ~Expected(r, c.unreliable)
             /\ UNCHANGED <<entries, incomingUnreliable, dispatched, dangling>>
          \/ /\ Expected(r, c.unreliable)
             /\ ~Found(r, c.unreliable)
             /\ DispatchFrom(Inserted(new))
             /\ dangling' = (dangling \/ \A j \in DOMAIN entries' : entries'[j] # new)
          \/ /\ Expected(r, c.unreliable)
             /\ Found(r, c.unreliable)
             /\ LET e == [entries[i] EXCEPT !.data = @ \cup new.data]
                    list == [entries EXCEPT ![i] = e]
                IN IF /\ entries[i].kind = "fragmented"
                      /\ e # entries[i]
                      /\ Complete(e)
                   THEN DispatchFrom(list)
                   ELSE /\ entries' = IF entries[i].kind = "fragmented" THEN list
                                      ELSE entries
                        /\ UNCHANGED <<incomingUnreliable, dispatched>>
             /\ UNCHANGED dangling
    /\ UNCHANGED <<sender, groups, incoming, heldReliable>>

\* The reliable packet after the last one delivered.
NextOf(so) == {h \in so.held : Wire(h.reliable) = (so.incoming + 1) % Space}

\* One round of enet_peer_dispatch_incoming_reliable_commands, and all of them.
NextGiven(so) ==
    IF NextOf(so) = {} THEN so
    ELSE LET h == CHOOSE h \in NextOf(so) : TRUE IN
         [incoming |-> Wire(h.last),
          given |-> Append(so.given, {<<h.packet, 0>>}),
          held |-> so.held \ {h}]

Given(held) ==
    LET after[k \in 0 .. Cardinality(held)] ==
            IF k = 0 THEN [incoming |-> incoming, given |-> <<>>, held |-> held]
            ELSE NextGiven(after[k - 1])
    IN after[Cardinality(held)]

\* enet_protocol_handle_send_reliable and, for the last fragment missing,
\* enet_protocol_handle_send_fragment.
HandleReliable(c) ==
    LET final == Given(heldReliable \cup {c})
        result == DispatchUnreliable(entries, final.incoming, 0)
    IN /\ UnderWay(c)
       /\ c.kind = "reliable"
       /\ InWindow(Wire(c.reliable), incoming)
       /\ Wire(c.reliable) # incoming
       /\ \A h \in heldReliable : Wire(h.reliable) # Wire(c.reliable)
       /\ heldReliable' = final.held
       /\ incoming' = final.incoming
       /\ IF final.given = <<>>
          THEN UNCHANGED <<entries, incomingUnreliable, dispatched>>
          ELSE /\ entries' = result.list
               /\ incomingUnreliable' = result.unreliable
               /\ dispatched' = dispatched \o final.given \o result.moved
       /\ UNCHANGED <<sender, groups, dangling>>

\* Faulty variants: an old group passes for a new one; the window that moves
\* keeps its bits.
AheadAnyhow(w) == TRUE
WindowAtKept(base) == window

\* The group is of the window, or of one of those after it.
Ahead(w) ==
    w + (IF w < incomingGroup THEN GroupSpace ELSE 0)
        < incomingGroup + FreeUnsequencedWindows * UnsequencedWindowSize

\* The bits of the window that starts at base: the window moves on to it.
WindowAt(base) == IF base = incomingGroup THEN window ELSE {}

\* enet_protocol_handle_send_unsequenced.  A packet that is not sequenced goes
\* to the head of the list.
HandleSendUnsequenced(c) ==
    LET w == GroupWire(c.group)
        index == w % UnsequencedWindowSize
        base == w - index
    IN /\ UnderWay(c)
       /\ c.kind = "unsequenced"
       /\ IF Ahead(w) /\ index \notin WindowAt(base)
          THEN /\ incomingGroup' = base
               /\ window' = WindowAt(base) \cup {index}
               /\ times' = [times EXCEPT ![c.packet] = @ + 1]
               /\ DispatchFrom(<<Entry(c, 0)>> \o entries)
          ELSE UNCHANGED <<groups, entries, incomingUnreliable, dispatched>>
       /\ UNCHANGED <<sender, incoming, heldReliable, dangling>>

-----------------------------------------------------------------------------
AnyStep == \/ Send
        \/ Transmit
        \/ Drop
        \/ \E c \in net : \/ HandleReliable(c)
                           \/ HandleSendUnreliable(c)
                           \/ HandleSendUnreliableFragment(c)
                           \/ HandleSendUnsequenced(c)

\* What follows a write to freed memory is not defined: nothing is said of it.
Next == ~dangling /\ AnyStep

Spec == Init /\ [][Next]_vars

-----------------------------------------------------------------------------
(* Properties.                                                                *)

Parts == Nat \X Nat
Commands == [packet : Nat \ {0}, kind : Kinds, reliable : Nat, last : Nat,
             unreliable : Nat, group : Nat, fragment : Nat]

\* Every variable keeps its type (ENetChannel, enet.h:237-247; ENetPeer,
\* enet.h:311-313).
TypeOK ==
    /\ packets \in Seq(Kinds)
    /\ queued \in 0 .. Len(packets)
    /\ <<reliable, group>> \in Nat \X Nat
    /\ unreliable \in 0 .. LastUnreliable
    /\ outgoing \in Seq(Commands)
    /\ net \subseteq Commands
    /\ incoming \in 0 .. Space - 1
    /\ incomingUnreliable \in 0 .. LastUnreliable
    /\ heldReliable \subseteq Commands
    /\ entries \in Seq([kind : Kinds, reliable : 0 .. Space - 1,
                        unreliable : 0 .. LastUnreliable,
                        count : Nat, data : SUBSET Parts])
    /\ incomingGroup \in 0 .. GroupSpace - 1
    /\ window \subseteq 0 .. UnsequencedWindowSize - 1
    /\ dispatched \in Seq(SUBSET Parts)
    /\ times \in [DOMAIN packets -> Nat]
    /\ dangling \in BOOLEAN

\* The packet whose data, all of it and nothing else, this is.
PacketGiven(data) ==
    LET Whole(p) ==
            data \in {{<<p, 0>>},
                      {<<p, f>> : f \in 1 .. IF packets[p] = "fragmented"
                                             THEN Fragments ELSE 1}}
    IN IF \E p \in 1 .. queued : Whole(p)
       THEN CHOOSE p \in 1 .. queued : Whole(p)
       ELSE 0

Lossy == INSTANCE LossyChannel
           WITH sent <- queued,
                delivered <- [i \in DOMAIN dispatched |-> PacketGiven(dispatched[i])]

\* Packets of every kind share a channel and come in the order they were sent,
\* each at most once and whole; only those that are not sequenced may overtake,
\* and no packet is given out before a reliable one sent earlier
\* (peer.c:698-779, peer.c:820-987 and protocol.c:449-759 together).
DeliversInSequence == Lossy!Spec

\* A packet that is not sequenced is queued once, however often, late or out of
\* order its command arrives, although its number and the window of groups wrap
\* (protocol.c:467-491).
UnsequencedOnce == \A p \in DOMAIN times : times[p] <= 1

\* A packet that is newer than all those queued, not too far ahead of one of them
\* and not a whole lap of groups after another, is queued when it arrives: no bit
\* of an earlier window stands for it (protocol.c:477-484).
NewGroupTaken ==
    LET taken == {c.group : c \in {d \in net : d.kind = "unsequenced"
                                              /\ times[d.packet] > 0}}
    IN \A c \in net :
          LET w == GroupWire(c.group)
              index == w % UnsequencedWindowSize
          IN /\ c.kind = "unsequenced"
             /\ \A g \in taken : /\ g < c.group
                                 /\ c.group - g <= GroupSpace - UnsequencedWindowSize
             /\ \E g \in taken :
                   c.group - g <= (FreeUnsequencedWindows - 1) * UnsequencedWindowSize
             => Ahead(w) /\ index \notin WindowAt(w - index)

\* What is kept waits for something: it can still be completed or its reliable
\* packet can still come.  A packet that is ready, or that was overtaken, is not
\* left in the list (peer.c:711-778).
EntriesAwaited ==
    \A i \in DOMAIN entries :
        \/ Waits(entries[i], incoming)
        \/ /\ Unfinished(entries[i], incoming)
           /\ entries[i].unreliable > incomingUnreliable

\* The list is in the order of the numbers, with no number twice: the search for
\* the entry of a fragment stops at the first lower one (protocol.c:695-722).
EntriesSorted ==
    \A i, j \in DOMAIN entries :
        i < j => Sooner(entries[i], entries[j].reliable, entries[j].unreliable)

\* A fragment is never written to a command that was freed: a packet is freed
\* "when the packet is no longer in use" (enet.h:152), and the caller uses any
\* command it is returned but NULL (protocol.c:730-747, peer.c:963-969).
FragmentKept == ~dangling

\* The packets after this one, of those that can be completed now, that are not.
UnfinishedAfter(c) ==
    {i \in DOMAIN entries : /\ Unfinished(entries[i], incoming)
                            /\ c.unreliable < entries[i].unreliable}

\* The dispatch that removes what was overtaken spares the new entry of a fragment
\* unless two later packets are unfinished already (peer.c:738-740, 778): however
\* fragments are lost, repeated or reordered, two unfinished packets do no harm.
FreedBehindTwo ==
    [][\A c \in net :
          HandleSendUnreliableFragment(c) /\ dangling'
            => Cardinality(UnfinishedAfter(c)) >= 2]_vars
=============================================================================
