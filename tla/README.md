# A formal model of simple-enet

simple-enet is a C library: a fork of the ENet reliable-UDP library
(`src/enet/`) and three thin wrappers around it (`src/s_enet_server.c`,
`src/s_enet_client.c`, `src/s_enet_client2.c`). This directory holds a TLA+
model of its protocol core, the TLC configurations that check it and proofs
checked by TLAPS.

## 1. Inventory

| component | state it keeps | operations | what makes it hard |
|---|---|---|---|
| connection state machine, `protocol.c`, `peer.c` | per peer: one of ten states, connectID, remote slot, two session numbers, five command queues; per host: dispatch queue, `connectedPeers`, `randomSeed` | `enet_host_service`, `enet_host_flush`, `enet_host_check_events`, the handlers of CONNECT, VERIFY_CONNECT, ACKNOWLEDGE, DISCONNECT, PING, `enet_peer_disconnect[_now/_later]`, `enet_peer_reset` | datagrams lost, repeated, late; both sides closing; slots reused; timers against late answers; service calls with and without an event |
| host, `host.c` | the array of peers, limits, bandwidth | create, destroy, connect, broadcast, channel and bandwidth limits, bandwidth throttle | slots are reused; integer divisions over bandwidth |
| reliable delivery, `peer.c`, `protocol.c` | per channel: sequence numbers, sixteen counted windows, queue of early arrivals | `enet_peer_send`, queue, dispatch, resend, acknowledge | 16 bit numbers wrap; windows; repeated and reordered arrivals |
| unreliable, unsequenced, fragments | unreliable numbers, a 1024 bit map of groups, fragment bit maps | handlers of the four other SEND commands | wraparound, repeated fragments, partial packets dropped |
| packets, `packet.c` | reference count, flags, data | create, destroy, resize | one packet in many queues; who frees it |
| throttles, `host.c`, `peer.c` | packet throttle, bandwidth epochs | `enet_peer_throttle`, `enet_host_bandwidth_throttle` | arithmetic |
| time, `time.h` | none | comparison of wrapped times | wraparound at one day |
| lists, `list.c` | doubly linked lists | insert, remove, move | removal of a node that is not linked |
| server and client wrappers | host, event, callbacks | Start, Stop, Process, Send, Broadcast, iterate, Connect, Disconnect | callbacks that call back; slots reset after the callback |
| start-up, allocators, sockets, compression | function pointers, sockets, coder tables | forwarding | none modelled, see section 8 |

How they interact: a program calls the library from one thread per host. All
protocol work happens inside `enet_host_service` (and `enet_host_flush`), which
dispatches queued events, lets every peer fill a datagram, reads datagrams and
runs a handler per command, and sends again. A call that has an event to fill
returns as soon as it is filled; a call without one puts the peer into
`host.dispatchQueue` for a later call. Hosts meet only through UDP datagrams.
The wrappers own one host each, call `enet_host_service` and pass the event to
callbacks of the program.

What makes each component correct:

* connection: a connection is up at one end only after a handshake for this
  connectID and these slots; datagrams of an earlier connection never act on a
  later one; a counted peer is counted once; what the program must be told is
  queued exactly once; a connection the program holds is not lost or exchanged
  behind its back; closing ends; nothing waits for something that cannot come;
* reliable delivery: what the program gets is a prefix of what was sent, in
  order, without repetition, and everything is acknowledged in the end;
* unreliable, unsequenced, fragments: what comes is in order, whole and once; what is
  kept can still be completed; no number or group is taken for one of another lap;
* throttles: the counter that switches the rounds on is exact, the throttle stays
  within its limit, what a round lets through fits what each end can take, and the
  shares told to the peers do not add up to more than the host can receive;
* wrappers: a peer handed to the program keeps its slot until its end is told, once,
  and what the program asked for ends in a callback;
* packets: freed once, after the last use (not modelled, section 8).

## 2. Modules

| module | models |
|---|---|
| `HostOps` | the record of one host and the functions of `peer.c` and of the head of `protocol.c` that change it, as operators from host to host: `enet_peer_on_connect`, `enet_peer_reset_queues`, `enet_peer_reset`, `enet_protocol_change_state`, `enet_protocol_dispatch_state`, `enet_protocol_notify_connect`/`_disconnect`, queueing, numbering, acknowledging, in-order delivery |
| `Connection` | hosts, their threads and the network: one action per API call and per step of `enet_host_service`; the properties |
| `MCConnection` | instances of `Connection` for TLC |
| `ReliableChannel` | one direction of one channel of an established connection: numbering with wraparound, fragments, the sequence windows of the sender, what the receiver accepts, holds, dispatches and acknowledges; the properties |
| `FifoChannel` | what such a channel promises: packets delivered in order, once, whole. `ReliableChannel` is shown to implement it (`Fifo`) |
| `MCReliableChannel` | instances of `ReliableChannel` for TLC |
| `UnreliableChannel` | one direction of one channel for packets of every kind: numbering, the sorted list of what was received, unreliable fragments, the window of unsequenced groups |
| `LossyChannel` | what such a channel promises: order, at most once, whole, nothing before an earlier reliable packet. `UnreliableChannel` is shown to implement it (`DeliversInSequence`) |
| `Wrappers` | the server and the two clients on the operators of `HostOps`: the program's calls, `Process` as a stack of calls with `enet_host_service` in its phases, the callbacks and what they call |
| `Throttle` | the bandwidth of one host's peers: the counter of limited peers, `enet_host_bandwidth_throttle`, `enet_peer_throttle`, limits set by either side, on words of a small width |
| `MCUnreliableChannel`, `MCWrappers`, `MCThrottle` | instances of these for TLC |
| `NumberLemmas`, `SumLemmas` | what several proofs need of natural numbers (induction, loops written as recursive functions, division) and of sums over finite sets |
| `HostOpsProofs` | what each operator of `HostOps` preserves, and what it does to the slot it is about |
| `ConnectionProofs` | the four inductive invariants of `Connection` and eleven theorems |
| `ReliableChannelProofs` | the sender's windows; the invariant of both ends and the network; the refinement of `FifoChannel` |
| `UnreliableChannelProofs` | remainders, the window of groups, the types through the loops of the receiver, the order of the receiver's list and the refinement of `LossyChannel` |
| `ThrottleProofs` | the counter of limited peers, the limits, the rounds of the throttle and the shares |
| `WrappersProofs` | the invariant of a host below the program's calls and callbacks, and its theorems |

State and code correspond like this. `host[h].peers[s]` is `host->peers[s-1]`
with the fields the connection logic reads; `ENET_PROTOCOL_MAXIMUM_PEER_ID` is
`NoPeer`. The lists `acknowledgements`, `outgoingReliableCommands`,
`sentReliableCommands`, `outgoingUnreliableCommands` and `dispatchedCommands`
are sequences. `control[h]` is the program counter of the host's thread:
`"app"` between calls, then `"dispatch"`, `"send"`, `"receive"`,
`"commands"`, `"resend"`, `"redispatch"` inside `enet_host_service`,
`"flush"` and `"flushed"` inside the flush that a disconnection makes. `net` is
the set of all datagrams ever sent: any of them may arrive, any number of times,
in any order, or never. `view`, `received`, `accepted`, `verified` and
`flushed` are history variables that the code does not have; no guard that
models code reads them (`accepted` only bounds the run).

Abstractions. Time is left out: at a send pass any set of commands that contains
the first one sent may have run out of time, and the peer may be given up
whenever something is unacknowledged. A datagram carries everything a peer has to
send. A peer has one data channel. Allocation and socket errors do not happen.
When `enet_protocol_check_timeouts` gives a peer up without an event, the code may
have moved some commands of the zombie from one queue to another; nobody reads
these queues again, and the model leaves them.

`ReliableChannel` looks at what `Connection` leaves out: there commands are numbered
without end, here they wrap. Command `n` is the n-th reliable command of the
channel and `Wire(n)` its sequence number; the receiver's definitions read only
`Wire(n)`, and `n` stands for the data, so that a command taken for another shows
in `delivered`. `inFlight` is what is in `sentReliableCommands` or waits in
`outgoingReliableCommands` to be sent again (a retransmission changes nothing that
is modelled), `counts` is `reliableWindows`, `used` the bits of
`usedReliableWindows`, `held` the list `incomingReliableCommands` (a set: the list is
sorted by distance from `incoming`, and only its head is dispatched), `delivered`
what went to `dispatchedCommands`. A reliable packet in one command is
`HandleSendReliable`, a fragment `HandleSendFragment`; both end with the dispatch of
what became ready and the acknowledgement, which looks at `incoming` as it is then.
A fragment of another packet than the entry at its number holds is refused by its
number of fragments; the code also compares the total length. The congestion window
and the MTU only delay a transmission. The shift in the mask of windows
(`protocol.c:1507`) is by more than the width of an `int`; x86 and ARM64 shift modulo
32 and 32 bit ARM by the low byte, and all get the same mask: no bit from the
second half, except for window 0 where it repeats the first. `Guarded` is that.

In `UnreliableChannel` a reliable packet arrives whole, in one step, any time after it
was sent, because `ReliableChannel` has the details; an unreliable one is dropped by the
throttle or not as the model likes (`Drop`), with all the commands that have its
numbers, as the loop at `protocol.c:1361-1384` does. `entries` is
`incomingUnreliableCommands`; the three positions of the loop in
`enet_peer_dispatch_incoming_unreliable_commands` are `stop` (the first packet that waits
for a reliable one), the packets that are `Ready`, and `KeptFrom`. `dangling` records that
a fragment was written to an entry that the dispatch had removed (`protocol.c:737`): the
code's behaviour is undefined from there on, so that `Next` takes no further step.
A first fragment is put into the entry before the dispatch and not after it; with at least
two fragments nothing in the dispatch tells the difference. `reliable` and `group` are
not cut to 16 bits; what is sent is.

`Wrappers` has one host and no other end: a step of the receive phase handles the
commands of one datagram, and a datagram that changes the state of a peer may come
whenever the peer is in a state to take it. That is more than `Connection` allows, so
that an invariant that holds here holds there. `calls` is the C stack: `Process` or `SECln_Connect`, the
phase of `enet_host_service` above it, replaced by the callback when it returns an event.
`on_recv` and `on_disconnect` must not call `Process` (`CallbackAssumption`): `Process`
reads `e_event` again when they return, and the inner call has overwritten it.
`handed` is the set of peers a program can have: it got them from `on_connect`, from
`SECln2_Connect` or a successful `SECln_Connect`, and has neither been told their end nor
ended them itself.

`Throttle` works on unsigned integers modulo `Modulus`, as the fields are. The two
loops of `enet_host_bandwidth_throttle` are functions over the number of rounds; the last
of them changes nothing, and the code stops there. When a peer's throttle goes up or down
depends on round trip times, which is a choice (`PeerThrottle`); by how much is a rate that
the other end sets and that may be any word. A reset by the library asks for new shares,
one by the program does not (`byLibrary`). A connection found by a call without an event
is counted only when it is dispatched.

A host may be interrupted between any two of its steps. Only reading a datagram
depends on other hosts and sending only adds datagrams, so a step of a call
commutes with the steps of other hosts except where the call is about to
receive. `MayRun` therefore lets a host run only while the others are between
calls or about to receive; the run `polling` sets `Preemptive` and drops even this
restriction, as a check of the argument.

## 3. Runs

The instances of `Connection` have two hosts, client `a` and server `b`. Deadlock is
checked in every run but `kinds` and `fragments`, which end when their packets are sent
and the commands are no longer under way.

| run | instance | shows |
|---|---|---|
| `lifecycle` | two connections one after the other in the same slots; all the ways to close one, service calls with and without an event | `TypeOK`, `ConnectedPeersExact`, `HandshakeComplete`, `SessionFence`, `PeerKeepsMeaning` |
| `polling` | service with and without event, flush, unreliable packet, fully preemptive | `DispatchQueueExact`, `EventsPending`, `ProgramInformed` |
| `later` | a server with two slots, two reliable packets, disconnect later, CONNECTs repeated and late | `TimerArmed`, `RequestTimesOut`, `LaterDeliversFirst`, `OneSlotPerConnection` |
| `progress` | fair service loops, one connection closed by either or both sides | `CloseConcludes`, `ZombieReaped` |
| `order` | `ReliableChannel`, 26 commands (more than two laps of 12 numbers) in packets of 1 to 4 fragments, one of them over the end of the numbers; a command left behind by up to 5 others | `TypeOK`, `WindowsCountInFlight`, `AckedIsKept`, `SenderStaysClose`, `InOrder` |
| `fair` | 18 commands, fair, a command left behind by up to 4 others | `EventuallyDelivered`, `EventuallyAcknowledged` |
| `kinds` | `UnreliableChannel`, seven sequences of packets: every kind between reliable ones, over the end of the reliable numbers, more unreliable packets than numbers, groups over windows, over the end of their space and for more than a lap, three unfinished packets at once | `TypeOK`, `DeliversInSequence`, `UnsequencedOnce`, `NewGroupTaken`, `EntriesAwaited`, `EntriesSorted`, `FreedBehindTwo` |
| `callbacks` | `Wrappers`, all three, two slots, three connections, callbacks that disconnect, send, connect (`on_disconnect` does not, see `Careful`) and (`on_connect`) process | `TypeOK`, `PeersStay`, `PointerExact`, `ListsPeers`, `CallbacksFit`, `EventuallyTold` |
| `shares` | `Throttle`, two peers that come, go and change limits, a host that does | `TypeOK`, `LimitedExact`, `ThrottleWithinLimit`, `ToldFits`, `AllowedFits` |
| `mutual`, `stale`, `fragments` | one property each, taken from a comment of the code | TLC finds it violated, section 6 |

Bounds. `MaxConnects` and `MaxAccepts` 2 give a slot a past and a present, which
is what late datagrams need; more connections only repeat this until the session
number wraps, and `SessionFence` is not claimed beyond four connections.
`MaxControl` lets a connected peer ping once, `MaxReliable` 2 lets packets
overtake one another, `MaxAcks` 1 bounds how many acknowledgements pile up (one
datagram always fits), `MaxDatagrams` makes the network lose what exceeds it (50
in `lifecycle` is never reached, 5 to 7 elsewhere covers a handshake, a packet and
a disconnection). None of the bounds occurs in a definition that models a
decision of the code.

The windows of `ReliableChannel` are 6 of 2 numbers with 3 free, for 16 of 4096 with 8
free: every distance the code tells apart exists (accepted, refused and not
acknowledged, old and acknowledged, old and taken for new). Two bounds are
assumptions on the traffic. `MaxAhead` is how many commands are sent for the first
time while one stays unacknowledged. In `order` it is 5, which with a packet of four
fragments is the largest value for which the proofs hold (`DelaysFit`, section 5: 8
commands, `Windows - FreeWindows + 1` windows); past it the code goes wrong (run
`stale`). In `fair` it is 4, `FreeWindows - 1` windows, past which the code stalls
(section 6). With the real sizes these limits are 36864 commands, less the fragments of
the largest packet, and 28672 commands on one channel, within the time after which an
unacknowledged command ends the connection (5 to 30 seconds by default).
`MaxDelay` is how long a datagram can be under way, in commands. `MaxBacklog` only
bounds how far the program is ahead of the library.

`UnreliableChannel` has the same 6 windows of 2, four windows of 2 groups of which two lie
ahead, and unreliable numbers 0 to 3: every comparison has its two sides, and a packet of
two fragments can be unfinished, finished, overtaken and dropped. One
sequence of `kinds` has three packets of fragments, the one of `fragments`: the fewest with
which the dispatch can remove a new entry, as `KeptFrom` spares two. `MaxDelay` is an
assumption, named `DelayAssumption`: a group is not under way while half the space of
groups is sent (32768 packets with the real sizes), after which its number passes for a
new one. The proof of `UnsequencedOnce` needs just that.

In `Wrappers` two slots are enough for a callback to disturb a peer that is not its own,
and three connections for a slot to be used again; `MaxDepth` 4 is a `Process` within a
callback of a `Process`. Slots of `Throttle` are alike and are reduced by symmetry; a
scale of 8 and words below 512 let a product of 3 milliseconds, 8 bytes and the scale
fit and one of 70 bytes and the scale not. `MaxChanges` 3 lets two peers connect and one of
them leave or either end change a limit after the shares were told.

`LaterDeliversFirst` is checked for programs that take events. A program that calls
`enet_host_service` without one lets acknowledged packets wait in
`dispatchedCommands`, where a DISCONNECT discards them (`protocol.c:819`).

With two slots at the server `SessionFence` does not hold and is not claimed: both
fresh slots number their session 0, so a client that was answered by the second
slot accepts the datagrams the first one sends it for an earlier request.

## 4. Fairness

`FairSpec` assumes that a call that was made goes on (`WF` of the library's
steps), that the program calls `enet_host_service` again and again (the comment of
`enet_host_service` asks for it, `protocol.c:1808`; the wrappers' `Process` is
meant to be called in the program's loop), that the socket is found empty at some
point (`enet_protocol_receive_incoming_commands` reads at most 256 datagrams a
call), and that a command that stays unacknowledged reaches `timeoutMaximum`
(`GiveUp`). Nothing is assumed of the network: everything may be lost.

`Wrappers!FairSpec` assumes the same of one host: the program calls `Process` again and
again (strongly, because a callback or `SECln_Connect` may be in progress), a service call
goes on and finds its socket empty at some point, callbacks return, and a disconnection
that stays unacknowledged is given up. `EventuallyTold` is then a property of the
wrappers: `SECln_Process`, which returns at once when `e_peer` is `NULL`, never stops
serving a disconnection that the program is to hear of.

`ReliableChannel!FairSpec` is about a connection that stays up, so there the network
must let something through: a command sent again and again arrives in the end, and so
does an acknowledgement of it (`enet_protocol_check_timeouts` puts back whatever is not
acknowledged in time). Weak fairness of the three kinds of step is enough
because numbers never repeat and no step undoes another.

## 5. Proofs

All theorems are about `Spec` for every value of the constants, from the assumptions
named in the modules. Some theorems need one more hypothesis, which stands in their
statement: on the constants, as `ASSUME`, `SeedsApart`, `DelaysFit`, `Careful` (for
`PeersStay` a condition of the property itself), `StartsLater` and `FewNumbers`; on the behaviour, `[]WithinLap` and `SessionFence`. They are explained
below. The instances TLC checks satisfy those on the constants, except that `FewNumbers` asks
for fewer packets than the run `kinds` sends and that `stale` violates `DelaysFit`;
`WithinLap` holds in all states of `kinds`, and
`SessionFence` is a property of the run `lifecycle`.

**Loops.** Dispatch, the rounds of the throttle and the scan of the unreliable list are
recursive functions, and the library's induction principles take a predicate as a
parameter. `NumberLemmas` states induction of a *set* (`SetInduction`, from the
well-foundedness of `<`) and derives from it that a loop has a value (`Iteration`,
`Repetition`) and keeps what each round keeps (`LoopInvariant`). `SumLemmas` does the same
for sums over finite sets: what they are when one element comes, goes or changes, and
that a sum of smaller terms is smaller.

**One host.** `HostOpsProofs` shows that every operator of `HostOps` takes a host in order
to a host in order: `HostOK(n, H)` says that H has its type, that `connectedPeers`
equals the number of counted slots and that `dispatchQueue` holds exactly the
slots with `needsDispatch`, once each. The counter needs the cardinality of the
counted slots before and after one slot changes; the queue needs that removing
the one occurrence of a slot leaves a sequence without it. A second set of lemmas says
what an operator does to the slot it is about and that it leaves the others alone
(`Elsewhere`).

**Connections.** `IInv` lifts `HostOK` to the system. The properties are not inductive
alone: that `connectedPeers` stays exact needs the queue's exactness and the types
(a slot popped from the queue must be a slot), and the types of what is received
need the types of what was sent. It is the conjunction of: every host in
order (`HostsOK`), every control well typed and, in phase `"commands"`, with at
least one command (`ControlsOK`), every datagram well typed and not empty
(`NetOK`), and the types of the histories (`ViewsOK`, `ReceivedOK`, `AcceptedOK`).
`TypeCorrect`, `CounterCorrect` and `DispatchQueueCorrect` follow.

`CInv` adds, for each slot, what relates it to the program and to the other end:
`Informed` (what the program believes of the slot fits its state), `Owed` (a slot with
something to tell is linked in the dispatch queue) and `Armed` (a slot that waits for the
other end has a command in its queues that is acknowledged or times out, and one that
owes the acknowledgement of a DISCONNECT has it queued). The last is not inductive without
knowing *which* commands are left: an acknowledgement that arrives late removes whatever
command has its number, so the invariant says that a slot that shakes hands has only the
command of the handshake and one that disconnects only DISCONNECTs (`OnlyOf`). All three
have an exception for a slot that the flush of `enet_peer_disconnect_now` is about to
reset, so that `ResetOnly` has to say that nothing but a flush resets. One lemma for each
handler says what it does to its slot (`HandledFits`), one for each action that the
others stay (`SlotStep`). `InformedCorrect`, `EventsCorrect`, `TimersCorrect` and the
action property `MeaningCorrect` follow.

`DrawnInv` follows the connect identifiers. Every CONNECT in a queue, in a datagram or in the
hands of a host carries an identifier that its sender drew (`NetDrawn`, `ControlsDrawn`, and
`Requests` for the queues); the identifier of a slot was drawn by one of its two ends
(`PeersDrawn`); and no two slots of a host agree in address and identifier
(`PeersDistinct`), which is `OneSlotCorrect`. Nearly all operators leave a slot free or of
the connection it was (`Heir`, `Inherits`), which one lemma for each operator says. Only
two steps give a slot a new connection. `enet_host_connect` draws an identifier above all
that the host drew; `enet_protocol_handle_connect` looks through the slots for the address
and the identifier of the request (`protocol.c:290-307`) before it takes a free one. That a
drawn identifier is also none that another host drew is the hypothesis `SeedsApart`: the
ranges of the identifiers of two hosts are disjoint. Without it the property is false: a host
that accepted a request may draw the same identifier for its own request to the same host.
The seed of the code is the address of the host in memory plus the time, its halves swapped
(`host.c:78-84`), which makes that unlikely and does not exclude it. `MCConnection` assumes
`SeedsApart` of the seeds it chooses, so that TLC evaluates it.

`HandshakeInv` says what the two ends of a connection know of each other. There is a function
from identifiers to slots, the slot each was drawn for (`Owners`), such that a peer whose
identifier its own host drew is in that slot (`NearEnd`) and one whose identifier the other
side drew has it as its `outgoingPeerID` (`FarEnd`); every CONNECT and its answer name the slots
accordingly (`Heard`). A peer whose handshake is over has it in `verified`, the history of the
VERIFY_CONNECTs that initiators accepted. A peer owes acknowledgements only after that, so
a datagram that carries one comes from an end whose handshake is over (`DatagramShakes`), and
so does one that a host is about to hand to a slot in `ACKNOWLEDGING_CONNECT`
(`ControlShakes`). `enet_host_connect` extends the function at an identifier nobody
used (`OwnerFresh`). Only `enet_protocol_handle_verify_connect` and
`enet_protocol_handle_acknowledge` complete a handshake; of every other operator a lemma says
that it advances none. `HandshakeCorrect` follows, under the hypothesis `SessionFence`: a
datagram that passes the session number is of the connection of its slot. Two bits cannot
guarantee that: after four connections of one slot, or when the slots of a host with several
are taken in turn, a late acknowledgement of an earlier connection may be accepted as that of
the present VERIFY_CONNECT. TLC checks the fence itself on `lifecycle`.

**Reliable channel.** `WindowsCorrect` needs only the sender: `reliableWindows` counts
exactly the commands in flight of each window and `usedReliableWindows` marks exactly the
windows that have any. `ChannelInv` relates both ends: the receiver has delivered whole
packets in order and holds fragments of later ones, under their own numbers
(`ReceiverInv`); the sender is at most `FreeWindows - 1` windows ahead of it (`CloseBy`);
what was acknowledged, or is going to be, was kept (`AckedBy`); what is in flight or under
way is at most `LateBy` commands old (`NothingLate`). The core is arithmetic: two commands
with one number are a whole `Space` apart, and a number the receiver accepts or
acknowledges lies in a range that is short enough, together with `LateBy`, for the command
to be the only one. That is the hypothesis

    DelaysFit: LateBy + Fragments[p] - 1 <= (Windows - FreeWindows + 1) * WindowSize

for every packet p: the commands first sent while a command, its copies or its
acknowledgement are under way, and the fragments of a packet, fit the windows in which
the receiver neither accepts nor acknowledges. With the sizes of the code that is 36864
commands. The runs `order` and `fair` satisfy it (with equality in `order`) and `stale`
violates it, so it cannot be dropped. Then `ChannelTypes`, `NothingLost`, `SenderClose`,
and `DeliversInOrder`: every step maps to a delivery of `FifoChannel` or to a stutter,
because one dispatch delivers the next packets in order (a loop, see above).

**Unreliable channel.** `OnceCorrect`: a packet that is not sequenced is queued at
most once. The invariant says that every packet
queued so far is either below the window of groups, far enough to be refused for as
long as its command can be under way, or has its bit set. Its core is a lemma on
numbers cut to a space (`LapBehind`): a group that is behind the base of the window
and not more than `MaxDelay` behind the newest one is `FreeUnsequencedWindows`
windows or more ahead when it is counted modulo the space, where `Ahead` refuses it.
`UnreliableTypes` follows the loop over the list, the insertion at its place and the
batch of reliable packets that a missing one releases.

`NewGroupsTaken` is the converse of `OnceCorrect`: no bit stands for a group that was
never queued. A whole lap of groups may be lost, and then the window that the next group
opens has the number of the old one and keeps its bits. The invariant says of every bit
that its group was queued or overtaken, or came almost a lap after one that was, or was
not sent by this program, and that then all lower bits are set too (`BitsMean`). When a
lap passes unseen, a bit left above the new one would contradict the last part, and all
others are overtaken. `StartsLater` excludes scenarios that begin within the first window
of groups but not at 0: `Init` says there that groups were queued and not which ones.

`LooseCorrect` is the invariant of both ends for what is sequenced (`LooseInv`). There is
a number n such that the receiver has given out every reliable packet up to n and no other
(`ReceiverAt(n)`); what it gave out comes before what is still to come; and each entry of
its list has its number, its kind and its fragments from a command that was sent, is still
to come, and stands in the list in the order of the packets. A batch of reliable packets
moves n by any number of steps, followed by induction over the rounds of the loop. The list
is kept by comparing numbers that wrap, and these compare as the counts they stand for
only if the counts are near each other. That is the hypothesis on the behaviour

    WithinLap: reliable - c.reliable < (ReliableWindows - FreeReliableWindows) * ReliableWindowSize

for every sequenced command c that is still under way: 32768 reliable numbers with the
sizes of the code. For reliable commands the sender's windows see to it (`SenderStaysClose`
of `ReliableChannel`); for unreliable ones it says that none arrives half a lap late,
which nothing in the code excludes and without which its order is lost. It holds in all
states of the run `kinds`. Then the list is sorted (`SortedEntries`), nothing that is ready
or was overtaken is left in it (`AwaitedEntries`), and each step maps to a `Send` or
`Deliver` of `LossyChannel` or to a stutter (`DeliversLossy`). `TwoSpared` says when an
entry is removed by the very dispatch that its own insertion calls. Before that dispatch
every packet in front of its stop is unfinished, because none was ready or overtaken and the
new one has at least one fragment to come; so the dispatch moves nothing, and what
it removes ends two entries before the stop. As the list is sorted, the two it spares are later
ones (`FreedBehindTwo`). `FewPackets` draws the
conclusion that needs no hypothesis on the network: a program whose packets have fewer
fragments in all than the lap has numbers gets them in sequence, and `FreedBehindTwo`.

**Throttle.** `LimitedCorrect`: `bandwidthLimitedPeers` counts the connected peers
that have a limit; each action changes at most one peer, and a counter moved by what this
peer counts for before and after stays exact. `LimitsCorrect` and `SharesCorrect` come
from `ThrottleInv`, which adds that the fields are words, that a throttle is within its
limit, and that who is not connected was told nothing. A round of the throttle limits
only peers that have more data than they may be sent (`CorrectRounds`), which is why the
quotient of the two is below the scale even when a product was cut. A round of the shares
takes from the bandwidth just what the peers it passes over send (`ShareRounds`), and the
rest is divided. `AllowedCorrect` needs more: each round but the last limits another
peer, so there are never more rounds than peers and the last one leaves nobody above its
budget (`Settled`); and total and bandwidth have both been reduced by what the limited
peers may be sent (`Balanced`). It holds where `RoundFits` says that no product and no sum
is cut to a word, a condition of the property itself.

**Wrappers.** `WrappersInv` says how the four parts of the state fit at every point of
the call stack: the states of the slots fall in classes, `handed` is exactly the set of
slots in the classes that the program has (`HandedExact`); an event that is being told
belongs to the callback on the stack (`EndTold`); the stack alternates calls, phases of
the service and callbacks (`StackOK`); and the client's pointer is exact whenever no
callback is in progress (`ClientExact`). `Idle` says that without a host nothing is left.
`PeersKept`, `PointerCorrect`, `CallbacksCorrect`, `ListsCorrect` and `WrappersTypes`
follow. The invariant needs `Careful`, that `on_disconnect` does not connect: without it the
wrapper resets the connection that took the slot (section 6). `PeersStay` says so
itself, so that `PeersKept` has no hypothesis; the other theorems assume `Careful`.

**Only model-checked.** Liveness under fairness (`CloseConcludes`, `ZombieReaped`,
`EventuallyDelivered`, `EventuallyAcknowledged`, `EventuallyTold`), which is out of the
prover's reach. Properties that hold in the instances and not for all constants:
`SessionFence`, `LaterDeliversFirst` and `RequestTimesOut` (session numbers have two bits, and
a stale datagram of the same number is accepted).

## 6. Where the code and its comments disagree

* `mutual`: a late acknowledgement of an earlier connection removes the CONNECT of
  a new request, because the session number is not compared before the remote slot
  is known; the request is never sent again and never times out.
* `stale`: the mask of windows in use forgets the windows past the last one
  (`protocol.c:1507` shifts by `ENET_PEER_RELIABLE_WINDOW_SIZE` instead of
  `ENET_PEER_RELIABLE_WINDOWS`). A command of the first window can then be left ten
  windows behind; its retransmission is taken for a command of the next lap, the
  real one is dropped as a duplicate, acknowledged and lost.
* `fragments`: with three unfinished unreliable packets, of which the first fragment of the
  oldest comes last, the dispatch inside `enet_peer_queue_incoming_command` removes the
  entry whose address it then returns (`peer.c:957-969`) and frees its packet. The fragment
  is written there (`protocol.c:737-747`), although a packet is freed "when the packet is
  no longer in use" (`enet.h:152`). `FragmentKept` is violated. How far the hazard reaches is
  `FreedBehindTwo`, checked in `kinds` and proved: fewer than two later packets that are
  unfinished do no harm.

What the models show as well, or show with another choice of constants, and what no
run is kept for:

* `enet_peer_disconnect` promises a DISCONNECT event (`peer.c:520`), but resets a peer that
  is still shaking hands at once, and no event follows.
* `enet.h:404` promises that a connection request ends in an event; one that is answered
  by a DISCONNECT is reset silently (`protocol.c:824-829`). `PeersStay` excepts it.
* A later disconnection that completes with unreliable packets frees them between filling
  the buffers and the socket call (`protocol.c:1424`, `1750`), although `peer.c:560` says
  that the packets are sent first.
* A reliable packet whose fragments reach the window `ENET_PEER_FREE_RELIABLE_WINDOWS - 1`
  after the last delivered packet and fill it is accepted by `enet_peer_send` but never
  delivered: the receiver acknowledges none of that window (`peer.c:595`), the sender does
  not go past it (`protocol.c:1505`).
* Even with the mask right a command may be left `ENET_PEER_FREE_RELIABLE_WINDOWS` windows
  behind, where it is never acknowledged again (`peer.c:595`): with `MaxAhead` 8 instead of
  4 TLC finds `EventuallyAcknowledged` violated, and the code gives up a live peer.
* The comment of `SESrv_Destroy` asks to wait for the notifications "until
  SESrv_PeersCount() returns 0" (`s_enet_server.c:80-81`). The count is
  `connectedPeers`, which a peer leaves as soon as its disconnection starts, so it is 0
  before any notification. The comment also offers `SESrv_Stop`, which destroys the host
  at once: after it no notification can come, and what `SESrv_DisconnectAll` has only
  queued is not sent (`s_enet_server.c:128-130`).
* `SESrv_Process` and `SECln2_Process` reset the peer of a DISCONNECT after the callback,
  although ENet has freed it before (`s_enet_server.c:560`, `s_enet_client2.c:283`). A
  server has no call that connects, so there the reset finds a free slot. If `on_disconnect`
  of a client calls `SECln2_Connect`, the new peer takes the slot and is destroyed, and
  nobody is told: `SECln2_Connect` has returned "a peer representing the foreign host"
  (`host.c:171`) that represents nothing. With `"connect"` among the calls of
  `on_disconnect`, one slot and two connections TLC finds `PeersHeld` violated, in the step
  that returns from the callback. Hence the condition `Careful` of `PeersStay`, which says
  that no program loses a peer otherwise.
* `SECln` has no reset after the callback. But an `on_disconnect` that calls
  `SECln_Disconnect` with force and then `SECln_Connect` gets a new peer, and `e_peer`
  is set to `NULL` after the callback (`s_enet_client.c:372`): nobody serves the new peer
  any more, and `PointerExact` is violated.
* The condition of `SESrv_PeersIterate` (`s_enet_server.c:381`) compares an address with a
  state and is always true: "each connected peer" (`:366`) is every slot.
* A peer without a limit is told that its share is 0, which means no limit
  (`host.c:460-466`; "0 means unlimited", `s_enet_server.c:38`), so that `ToldFits` counts only
  what was told; and a connection that is counted when its event is taken asks for no new
  shares then (`protocol.c:69-77`), so that `ToldFits` is about those who were told.

## 7. Plan

In this order, each with its run, its abstract specification where one is named,
and proofs of its invariants:

1. done: `HostOps`, `Connection`, and the proofs of type, counter, queue, of what the
   program is told, of the timers, of `PeerKeepsMeaning`, of `OneSlotPerConnection` and, behind the
   session numbers, of `HandshakeComplete`.
2. done: `ReliableChannel`, and the proofs of all its invariants and of the refinement of
   `FifoChannel`.
3. done: `UnreliableChannel` with unreliable fragments and unsequenced groups, which refines
   `LossyChannel`, and the proofs of its types, of the window of groups, of the order of
   the receiver's list, of what it frees too early and of the refinement.
4. done: `Wrappers`, server and clients with callbacks, on the operators of `HostOps`, and
   the proofs of all its safety properties.
5. done: `Throttle`, and the proofs of all its properties.
6. open: `Packets`, reference counts over send, broadcast, acknowledgement and reset.

## 8. Not modelled

* `compress.c`: a byte-level codec over large tables, out of TLC's reach at any size that
  means something.
* `unix.c`, `win32.c`: system calls; the network is `net`.
* `callbacks.c`, `s_enet.c`: forwarding of function pointers.
* `packet.c`: who frees a packet is a count over all the lists of all peers; the models
  follow commands and not memory. A failed send leaves its packet to the caller, which the
  wrappers forget (`s_enet_server.c:487`).
* `time.h`: five macros; what a timer decides is a choice in every model. With it the
  measured round trip times, packet loss and the congestion window are left out, and the
  smallest window (`protocol.c:786-797`).
* Of the wrappers: `Destroy`, user data, addresses and ports, unreliable sends,
  `PeersIterate`, a `Process` from `on_recv` or `on_disconnect`, and `Stop` from a callback,
  after which `Process` would go on with a host that is gone.
* Checksums, the contents and lengths of packets, statistics, failed allocations.
