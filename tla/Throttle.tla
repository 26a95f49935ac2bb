------------------------------- MODULE Throttle -------------------------------
(* The bandwidth of one host: what share of the host's bandwidth every peer   *)
(* gets, and the throttle of its unreliable packets.  All of it is arithmetic *)
(* on unsigned integers of 32 bits.                                           *)
EXTENDS Integers, FiniteSets, Functions

CONSTANTS
    Peers,         \* the slots of the host
    Scale,         \* ENET_PEER_PACKET_THROTTLE_SCALE, 32
    Second,        \* milliseconds in a second, 1000
    Modulus,       \* 2^32
    HostLimits,    \* what the host may be limited to: <<incoming, outgoing>>
    PeerLimits,    \* the same, of the peers; 0 is no limit
    Amounts,       \* how much is sent to a peer between two rounds
    Elapsed,       \* the time between two rounds, Second at least
    Rates,         \* packetThrottleAcceleration and packetThrottleDeceleration
    MaxChanges     \* bound: connections, disconnections and new limits

ASSUME PeersAssumption == IsFiniteSet(Peers)
ASSUME ScaleAssumption == Scale \in Nat \ {0} /\ Second \in Nat \ {0}
ASSUME WordAssumption == /\ Modulus \in Nat /\ Scale < Modulus
                         /\ HostLimits \cup PeerLimits \subseteq (0 .. Modulus - 1) \X (0 .. Modulus - 1)
                         /\ Amounts \subseteq Nat
                         /\ Elapsed \subseteq Nat
                         /\ Rates \subseteq 0 .. Modulus - 1
ASSUME BoundAssumption == MaxChanges \in Nat

VARIABLES
    state,         \* [Peers -> "free", "pending", "open" or "closing"]
    incoming,      \* incomingBandwidth of the peers: what they can receive
    outgoing,      \* outgoingBandwidth of the peers: what they can send
    data,          \* outgoingDataTotal of the peers
    throttle,      \* packetThrottle of the peers
    limit,         \* packetThrottleLimit of the peers
    hostIncoming,  \* incomingBandwidth of the host
    hostOutgoing,  \* outgoingBandwidth of the host
    limitedPeers,  \* bandwidthLimitedPeers
    recalculate,   \* recalculateBandwidthLimits
    told,          \* history: the share of hostIncoming a peer was told
    changes        \* history: how often anything changed

peers == <<state, incoming, outgoing, data, throttle, limit>>
hosts == <<hostIncoming, hostOutgoing, limitedPeers, recalculate>>
vars == <<peers, hosts, told, changes>>

Word == 0 .. Modulus - 1

\* The peers that are connected, until they disconnect.
Open == {p \in Peers : state[p] = "open"}

Init ==
    /\ state = [p \in Peers |-> "free"]
    /\ incoming = [p \in Peers |-> 0]
    /\ outgoing = [p \in Peers |-> 0]
    /\ data = [p \in Peers |-> 0]
    /\ throttle = [p \in Peers |-> Scale]
    /\ limit = [p \in Peers |-> Scale]
    /\ \E l \in HostLimits : hostIncoming = l[1] /\ hostOutgoing = l[2]
    /\ limitedPeers = 0
    /\ recalculate = FALSE
    /\ told = [p \in Peers |-> 0]
    /\ changes = 0

Change == changes < MaxChanges /\ changes' = changes + 1

-----------------------------------------------------------------------------
(* Connections.                                                               *)

\* How much a peer counts for in bandwidthLimitedPeers.
Weight(bandwidth) == IF bandwidth # 0 THEN 1 ELSE 0

\* enet_protocol_notify_connect: the other end has said its limits.  Without an
\* event to fill, the peer is counted only when the program takes the event.
NotifyConnect(p, in, out, event) ==
    /\ Change
    /\ state[p] = "free"
    /\ state' = [state EXCEPT ![p] = IF event THEN "open" ELSE "pending"]
    /\ incoming' = [incoming EXCEPT ![p] = in]
    /\ outgoing' = [outgoing EXCEPT ![p] = out]
    /\ limitedPeers' = limitedPeers + IF event THEN Weight(in) ELSE 0
    /\ recalculate' = TRUE
    /\ UNCHANGED <<data, throttle, limit, hostIncoming, hostOutgoing, told>>

\* enet_protocol_dispatch_incoming_commands, of a connection: no new shares.
Dispatch(p) ==
    /\ state[p] = "pending"
    /\ state' = [state EXCEPT ![p] = "open"]
    /\ limitedPeers' = limitedPeers + Weight(incoming[p])
    /\ UNCHANGED <<incoming, outgoing, data, throttle, limit, hostIncoming,
                   hostOutgoing, recalculate, told, changes>>

\* enet_peer_on_disconnect, of a peer that starts to disconnect: new shares are asked
\* for when the library gives it up, not when the program or the other end ends it.
StartDisconnect(p, byLibrary) ==
    /\ Change
    /\ state[p] = "open"
    /\ state' = [state EXCEPT ![p] = "closing"]
    /\ limitedPeers' = limitedPeers - Weight(incoming[p])
    /\ recalculate' = (recalculate \/ byLibrary)
    /\ UNCHANGED <<incoming, outgoing, data, throttle, limit, hostIncoming,
                   hostOutgoing, told>>

\* Faulty variant: a peer is not counted out when it is reset.
LeftByNobody(p) == 0
\* Faulty variant: a peer that disconnects is counted out once more.
LeftByAll(p) == Weight(incoming[p])
\* How much bandwidthLimitedPeers loses with the peer.
LeftBy(p) == IF state[p] = "open" THEN Weight(incoming[p]) ELSE 0

\* enet_peer_reset, by the library, which asks for new shares, or by the program.
Reset(p, byLibrary) ==
    /\ state[p] # "free"
    /\ state' = [state EXCEPT ![p] = "free"]
    /\ incoming' = [incoming EXCEPT ![p] = 0]
    /\ outgoing' = [outgoing EXCEPT ![p] = 0]
    /\ data' = [data EXCEPT ![p] = 0]
    /\ throttle' = [throttle EXCEPT ![p] = Scale]
    /\ limit' = [limit EXCEPT ![p] = Scale]
    /\ limitedPeers' = limitedPeers - LeftBy(p)
    /\ recalculate' = (recalculate \/ byLibrary)
    /\ told' = [told EXCEPT ![p] = 0]
    /\ UNCHANGED <<hostIncoming, hostOutgoing, changes>>

\* enet_protocol_handle_bandwidth_limit: the shares are not calculated again.
HandleBandwidthLimit(p, in, out) ==
    /\ Change
    /\ state[p] = "open"
    /\ incoming' = [incoming EXCEPT ![p] = in]
    /\ outgoing' = [outgoing EXCEPT ![p] = out]
    /\ limitedPeers' = limitedPeers - Weight(incoming[p]) + Weight(in)
    /\ UNCHANGED <<state, data, throttle, limit, hostIncoming, hostOutgoing,
                   recalculate, told>>

\* enet_host_bandwidth_limit.
BandwidthLimit(in, out) ==
    /\ Change
    /\ hostIncoming' = in
    /\ hostOutgoing' = out
    /\ recalculate' = TRUE
    /\ UNCHANGED <<peers, limitedPeers, told>>

\* Commands of n bytes are queued (enet_peer_setup_outgoing_command).
Send(p, n) ==
    /\ state[p] # "free"
    /\ data[p] = 0
    /\ data' = [data EXCEPT ![p] = n % Modulus]
    /\ UNCHANGED <<state, incoming, outgoing, throttle, limit, hosts, told, changes>>

-----------------------------------------------------------------------------
(* The throttle of unreliable packets.                                        *)

\* Faulty variant: the limit does not hold the throttle down.
LoweredNever(t, most) == t

Lowered(t, most) == IF t > most THEN most ELSE t

\* enet_peer_throttle, for an acknowledgement that came sooner than usual, later,
\* or in time, or when round trip times vary too much to tell.  Each end sets the
\* rates of the other (enet_peer_throttle_configure).
PeerThrottle(p, rate) ==
    /\ state[p] # "free"
    /\ \E t \in {limit[p],
                 Lowered((throttle[p] + rate) % Modulus, limit[p]),
                 IF throttle[p] > rate THEN throttle[p] - rate ELSE 0} :
          throttle' = [throttle EXCEPT ![p] = t]
    /\ UNCHANGED <<state, incoming, outgoing, data, limit, hosts, told, changes>>

-----------------------------------------------------------------------------
(* enet_host_bandwidth_throttle.                                              *)

\* What may be sent in this time.
Budget(bandwidth, elapsed) == ((bandwidth * elapsed) % Modulus) \div Second

\* The part of the data, of Scale, that the bandwidth allows.
Part(bandwidth, total) ==
    IF total <= bandwidth THEN Scale
    ELSE ((bandwidth * Scale) % Modulus) \div total

\* Faulty variant: no peer is limited while the host can send everything.
OverWhenShort(round, elapsed) ==
    {p \in Open \ round.limited :
        /\ incoming[p] # 0 /\ round.total > round.bandwidth
        /\ ((Part(round.bandwidth, round.total) * data[p]) % Modulus) \div Scale
               > Budget(incoming[p], elapsed)}

\* The peers that would be sent more than they can receive.
Over(round, elapsed) ==
    {p \in Open \ round.limited :
        /\ incoming[p] # 0
        /\ ((Part(round.bandwidth, round.total) * data[p]) % Modulus) \div Scale
               > Budget(incoming[p], elapsed)}

\* What the host may send, and what there is to send.
FirstRound(elapsed) ==
    [limited |-> {},
     bandwidth |-> IF hostOutgoing = 0 THEN Modulus - 1 ELSE Budget(hostOutgoing, elapsed),
     total |-> IF hostOutgoing = 0 THEN Modulus - 1
               ELSE SumFunctionOnSet(data, Open) % Modulus]

\* A round limits peers, and what they may be sent is out of the others' reach.
NextRound(last, elapsed) ==
    LET over == Over(last, elapsed)
        used == SumFunctionOnSet([p \in Peers |-> Budget(incoming[p], elapsed)], over)
    IN [limited |-> last.limited \cup over,
        bandwidth |-> (last.bandwidth - used) % Modulus,
        total |-> (last.total - used) % Modulus]

\* The rounds that limit peers; the last one limits nobody.
Rounds(elapsed) ==
    LET round[i \in 0 .. Cardinality(Peers)] ==
            IF i = 0 THEN FirstRound(elapsed) ELSE NextRound(round[i - 1], elapsed)
    IN IF limitedPeers > 0 THEN round[Cardinality(Peers)] ELSE FirstRound(elapsed)

\* packetThrottleLimit of a peer, when the others have this part.
NewLimit(p, limited, part, elapsed) ==
    IF p \notin limited THEN part
    ELSE LET own == ((Budget(incoming[p], elapsed) * Scale) % Modulus) \div data[p]
         IN IF own = 0 THEN 1 ELSE own

\* Faulty variant: the comparison lets a peer send a little more than its share.
ModestAlmost(p, share) == outgoing[p] <= share + 1

\* A peer that cannot send its share, or that has no limit.
Modest(p, share) == outgoing[p] = 0 \/ outgoing[p] < share

\* An equal share, for those who can send it, of what is left for them.
Share(round) == IF Open = round.modest THEN 0
                ELSE round.bandwidth \div Cardinality(Open \ round.modest)

NextShare(last) ==
    LET more == {p \in Open \ last.modest : Modest(p, Share(last))}
    IN [modest |-> last.modest \cup more,
        bandwidth |-> last.bandwidth - SumFunctionOnSet(outgoing, more)]

\* What the peers are told: what they can send, or an equal share of the rest.
Shares ==
    LET round[i \in 0 .. Cardinality(Peers)] ==
            IF i = 0 THEN [modest |-> {}, bandwidth |-> hostIncoming]
            ELSE NextShare(round[i - 1])
        final == round[Cardinality(Peers)]
    IN [p \in Open |-> IF hostIncoming = 0 THEN 0
                       ELSE IF p \in final.modest THEN outgoing[p]
                       ELSE Share(final)]

\* One round of the throttle, Second at the soonest after the last one; it leaves
\* everything alone when nobody is connected.
Throttled(elapsed) ==
    /\ Open # {}
    /\ LET round == Rounds(elapsed)
           part == Part(round.bandwidth, round.total)
       IN limit' = [p \in Peers |->
                       IF p \in Open THEN NewLimit(p, round.limited, part, elapsed)
                       ELSE limit[p]]
    /\ throttle' = [p \in Peers |-> IF p \in Open THEN Lowered(throttle[p], limit'[p])
                                    ELSE throttle[p]]
    /\ data' = [p \in Peers |-> IF p \in Open THEN 0 ELSE data[p]]
    /\ recalculate' = FALSE
    /\ told' = [p \in Peers |-> IF p \in Open /\ recalculate THEN Shares[p] ELSE told[p]]
    /\ UNCHANGED <<state, incoming, outgoing, hostIncoming, hostOutgoing,
                   limitedPeers, changes>>

BandwidthThrottle(elapsed) ==
    \/ Open = {} /\ UNCHANGED vars
    \/ Throttled(elapsed)

-----------------------------------------------------------------------------
Next ==
    \/ \E p \in Peers :
          \/ \E l \in PeerLimits :
                \/ \E event \in BOOLEAN : NotifyConnect(p, l[1], l[2], event)
                \/ HandleBandwidthLimit(p, l[1], l[2])
          \/ Dispatch(p)
          \/ \E byLibrary \in BOOLEAN : StartDisconnect(p, byLibrary) \/ Reset(p, byLibrary)
          \/ \E n \in Amounts : Send(p, n)
          \/ \E rate \in Rates : PeerThrottle(p, rate)
    \/ \E l \in HostLimits : BandwidthLimit(l[1], l[2])
    \/ \E elapsed \in Elapsed : BandwidthThrottle(elapsed)

Spec == Init /\ [][Next]_vars

-----------------------------------------------------------------------------
(* Properties.                                                                *)

\* Every variable keeps its type: nothing but a word is ever in a field.
TypeOK ==
    /\ state \in [Peers -> {"free", "pending", "open", "closing"}]
    /\ {incoming, outgoing, data, throttle, limit, told} \subseteq [Peers -> Word]
    /\ hostIncoming \in Word /\ hostOutgoing \in Word
    /\ limitedPeers \in Nat
    /\ recalculate \in BOOLEAN
    /\ changes \in 0 .. MaxChanges

\* bandwidthLimitedPeers is the number of connected peers that have a limit, so
\* that the rounds are skipped only when nobody has one (host.c:339, peer.c:340-362,
\* protocol.c:776-783).
LimitedExact == limitedPeers = Cardinality({p \in Open : incoming[p] # 0})

\* Whatever the rates, the limits and the traffic, products cut to 32 bits
\* included, the throttle of a peer is not above its limit and the limit not above
\* the scale (peer.c:61-90, host.c:370-435).
ThrottleWithinLimit ==
    \A p \in Peers : throttle[p] <= limit[p] /\ limit[p] <= Scale

\* What a round of the throttle lets through of the last interval, where no product
\* and no sum exceeds 32 bits.
RoundFits(elapsed) ==
    LET Short(x) == x < Modulus
        passes == [p \in Peers |-> (data[p] * limit'[p]) \div Scale]
    IN /\ Throttled(elapsed)
       /\ \A p \in Open : Short(incoming[p] * elapsed * Scale) /\ Short(data[p] * Scale)
       /\ Short(hostOutgoing * elapsed * Scale) /\ Short(SumFunctionOnSet(data, Open))
       => /\ \A p \in Open : incoming[p] # 0 /\ limit'[p] # 1 =>
                passes[p] <= Budget(incoming[p], elapsed)
          /\ hostOutgoing # 0 /\ (\A p \in Open : limit'[p] # 1) =>
                SumFunctionOnSet(passes, Open) <= Budget(hostOutgoing, elapsed)

\* Then it is no more than each peer can receive and the host can send, except that
\* a peer is never limited to nothing (host.c:354-435).
AllowedFits == [][\A elapsed \in Elapsed : RoundFits(elapsed)]_vars

\* Once the shares are calculated, those the peers were told are together no more
\* than the host can receive, whoever has left or has changed its limit since; 0 is
\* no share but no limit (host.c:437-490).
ToldFits ==
    ~recalculate /\ hostIncoming # 0 =>
        SumFunctionOnSet(told, Open) <= hostIncoming
=============================================================================
