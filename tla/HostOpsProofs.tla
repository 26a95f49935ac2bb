----------------------------- MODULE HostOpsProofs -----------------------------
(* What the functions of HostOps preserve: the types, the counter of          *)
(* connected peers and the dispatch queue of a host.                          *)
EXTENDS HostOps, TLAPS, FiniteSetTheorems, SequenceTheorems

HostOK(n, H) == H \in HostRecords(n) /\ CountExact(H) /\ QueueExact(H)

\* What slot s adds to the counter of connected peers.
Weight(H, s) == IF H.peers[s].state \in Counted THEN 1 ELSE 0

\* H and G agree on the states of the slots other than s.
SameStates(H, G, s) ==
    \A t \in DOMAIN H.peers \ {s} : G.peers[t].state = H.peers[t].state

\* A function that changes the state of one slot and moves the counter by the
\* difference keeps it exact.
LEMMA CountStep ==
    ASSUME NEW n \in Nat, NEW H \in HostRecords(n), NEW G \in HostRecords(n),
           NEW s \in 1 .. n, CountExact(H), SameStates(H, G, s),
           G.connectedPeers = H.connectedPeers + Weight(G, s) - Weight(H, s)
    PROVE  CountExact(G)
<1> DEFINE before == CountedSlots(H)
           after == CountedSlots(G)
<1>1. /\ DOMAIN H.peers = 1 .. n /\ DOMAIN G.peers = 1 .. n
      /\ before \subseteq 1 .. n
  BY DEF HostRecords, CountedSlots
<1>2. IsFiniteSet(before) /\ Cardinality(before) \in Nat
  <2>1. IsFiniteSet(1 .. n)
    BY FS_Interval
  <2>2. IsFiniteSet(before)
    BY <1>1, <2>1, FS_Subset
  <2> QED
    BY <2>2, FS_CardinalityType
<1>3. \A t \in 1 .. n \ {s} : t \in after <=> t \in before
  BY <1>1 DEF SameStates, CountedSlots
<1>4. s \in before <=> H.peers[s].state \in Counted
  BY <1>1 DEF CountedSlots
<1>5. s \in after <=> G.peers[s].state \in Counted
  BY <1>1 DEF CountedSlots
<1>6. CASE s \in before /\ s \in after
  <2>1. after = before
    BY <1>1, <1>3, <1>6 DEF CountedSlots
  <2> QED
    BY <2>1, <1>2, <1>4, <1>5, <1>6 DEF CountExact, Weight
<1>7. CASE s \notin before /\ s \notin after
  <2>1. after = before
    BY <1>1, <1>3, <1>7 DEF CountedSlots
  <2> QED
    BY <2>1, <1>2, <1>4, <1>5, <1>7 DEF CountExact, Weight
<1>8. CASE s \notin before /\ s \in after
  <2>1. after = before \cup {s}
    BY <1>1, <1>3, <1>8 DEF CountedSlots
  <2>2. Cardinality(after) = Cardinality(before) + 1
    BY <2>1, <1>2, <1>8, FS_AddElement
  <2> QED
    BY <2>2, <1>2, <1>4, <1>5, <1>8 DEF CountExact, Weight
<1>9. CASE s \in before /\ s \notin after
  <2>1. after = before \ {s}
    BY <1>1, <1>3, <1>9 DEF CountedSlots
  <2>2. Cardinality(after) = Cardinality(before) - 1
    BY <2>1, <1>2, <1>9, FS_RemoveElement
  <2> QED
    BY <2>2, <1>2, <1>4, <1>5, <1>9 DEF CountExact, Weight
<1> QED
  BY <1>6, <1>7, <1>8, <1>9

\* RemoveAt drops the element at i and keeps the order of the others.
LEMMA RemoveAtProperties ==
    ASSUME NEW S, NEW q \in Seq(S), NEW i \in 1 .. Len(q)
    PROVE  /\ RemoveAt(q, i) \in Seq(S)
           /\ Len(RemoveAt(q, i)) = Len(q) - 1
           /\ \A j \in 1 .. Len(q) - 1 :
                 RemoveAt(q, i)[j] = IF j < i THEN q[j] ELSE q[j + 1]
<1> DEFINE left == SubSeq(q, 1, i - 1)
           right == SubSeq(q, i + 1, Len(q))
<1>1. Len(q) \in Nat /\ \A j \in 1 .. Len(q) : q[j] \in S
  BY ElementOfSeq, LenProperties
<1>2. /\ left \in Seq(S) /\ Len(left) = i - 1
      /\ \A j \in 1 .. i - 1 : left[j] = q[j]
  BY <1>1, SubSeqProperties
<1>3. /\ right \in Seq(S) /\ Len(right) = Len(q) - i
      /\ \A j \in 1 .. Len(q) - i : right[j] = q[j + i]
  BY <1>1, SubSeqProperties
<1>4. RemoveAt(q, i) = left \o right
  BY DEF RemoveAt
<1>5. /\ left \o right \in Seq(S)
      /\ Len(left \o right) = Len(left) + Len(right)
      /\ \A j \in 1 .. Len(left) + Len(right) : (left \o right)[j] =
             IF j <= Len(left) THEN left[j] ELSE right[j - Len(left)]
  BY <1>2, <1>3, ConcatProperties
<1> HIDE DEF left, right
<1>6. Len(left) + Len(right) = Len(q) - 1
  BY <1>1, <1>2, <1>3
<1>7. ASSUME NEW j \in 1 .. Len(q) - 1
      PROVE  (left \o right)[j] = IF j < i THEN q[j] ELSE q[j + 1]
  <2>1. CASE j < i
    BY <2>1, <1>1, <1>2, <1>5, <1>6
  <2>2. CASE ~ (j < i)
    <3>1. /\ (left \o right)[j] = right[j - Len(left)]
          /\ j - Len(left) \in 1 .. Len(q) - i
          /\ j - Len(left) + i = j + 1
      BY <2>2, <1>1, <1>2, <1>5, <1>6
    <3> QED
      BY <3>1, <2>2, <1>3
  <2> QED
    BY <2>1, <2>2
<1> QED
  BY <1>4, <1>5, <1>6, <1>7

---------------------------------------------------------------------------
(* The dispatch queue                                                         *)

\* H and G agree on which of the slots other than s are waiting for dispatch.
SameFlags(H, G, s) ==
    \A t \in DOMAIN H.peers \ {s} :
        G.peers[t].needsDispatch = H.peers[t].needsDispatch

\* A queue neither touched nor disagreeing with the flags stays exact.
LEMMA QueueUntouched ==
    ASSUME NEW n \in Nat, NEW H \in HostRecords(n), NEW G \in HostRecords(n),
           NEW s \in 1 .. n, QueueExact(H), SameFlags(H, G, s),
           G.peers[s].needsDispatch = H.peers[s].needsDispatch,
           G.dispatchQueue = H.dispatchQueue
    PROVE  QueueExact(G)
<1>1. DOMAIN H.peers = 1 .. n /\ DOMAIN G.peers = 1 .. n
  BY DEF HostRecords
<1>2. \A t \in 1 .. n : G.peers[t].needsDispatch = H.peers[t].needsDispatch
  BY <1>1 DEF SameFlags
<1> QED
  BY <1>1, <1>2 DEF QueueExact

\* A slot that was not waiting enters at the end.
LEMMA QueueAppended ==
    ASSUME NEW n \in Nat, NEW H \in HostRecords(n), NEW G \in HostRecords(n),
           NEW s \in 1 .. n, QueueExact(H), SameFlags(H, G, s),
           ~ H.peers[s].needsDispatch, G.peers[s].needsDispatch,
           G.dispatchQueue = Append(H.dispatchQueue, s)
    PROVE  QueueExact(G)
<1> DEFINE q == H.dispatchQueue
           r == G.dispatchQueue
<1>1. DOMAIN H.peers = 1 .. n /\ DOMAIN G.peers = 1 .. n /\ q \in Seq(1 .. n)
  BY DEF HostRecords
<1>2. /\ Len(q) \in Nat /\ Len(r) = Len(q) + 1
      /\ \A i \in 1 .. Len(q) : r[i] = q[i]
      /\ r[Len(q) + 1] = s
  BY <1>1, LenProperties, AppendProperties
<1>3. \A i \in 1 .. Len(q) : q[i] # s
  BY <1>1 DEF QueueExact
<1>4. \A i, j \in 1 .. Len(r) : r[i] = r[j] => i = j
  BY <1>2, <1>3 DEF QueueExact
<1>5. ASSUME NEW t \in 1 .. n
      PROVE  G.peers[t].needsDispatch <=> \E i \in 1 .. Len(r) : r[i] = t
  <2>1. CASE t = s
    BY <2>1, <1>2
  <2>2. CASE t # s
    <3>1. G.peers[t].needsDispatch <=> \E i \in 1 .. Len(q) : q[i] = t
      BY <2>2, <1>1 DEF QueueExact, SameFlags
    <3> QED
      BY <3>1, <2>2, <1>2
  <2> QED
    BY <2>1, <2>2
<1> QED
  BY <1>1, <1>4, <1>5 DEF QueueExact

NoRepeat(q) == \A i, j \in 1 .. Len(q) : q[i] = q[j] => i = j

\* r is q without its element at k.
Without(r, q, k) ==
    /\ Len(r) = Len(q) - 1
    /\ \A j \in 1 .. Len(q) - 1 :
          (j < k => r[j] = q[j]) /\ (j >= k => r[j] = q[j + 1])

\* What q without its element at k holds, and that it holds nothing twice.
LEMMA Shortened ==
    ASSUME NEW S, NEW q \in Seq(S), NEW r \in Seq(S), NEW k \in 1 .. Len(q),
           NoRepeat(q), Without(r, q, k)
    PROVE  /\ NoRepeat(r)
           /\ \A i \in 1 .. Len(r) : r[i] # q[k]
           /\ \A i \in 1 .. Len(r) : \E j \in 1 .. Len(q) : q[j] = r[i]
           /\ \A j \in 1 .. Len(q) : j # k => \E i \in 1 .. Len(r) : r[i] = q[j]
<1>1. Len(q) \in Nat /\ Len(r) \in Nat /\ Len(r) = Len(q) - 1 /\ k \in Int
  BY LenProperties DEF Without
<1>2. ASSUME NEW j \in 1 .. Len(r)
      PROVE  \/ j < k /\ r[j] = q[j] /\ j \in 1 .. Len(q)
             \/ j >= k /\ r[j] = q[j + 1] /\ j + 1 \in 1 .. Len(q)
  <2>1. j \in 1 .. Len(q) - 1 /\ j \in Int
    BY <1>1
  <2>2. CASE j < k
    BY <2>1, <2>2, <1>1 DEF Without
  <2>3. CASE j >= k
    BY <2>1, <2>3, <1>1 DEF Without
  <2> QED
    BY <2>1, <2>2, <2>3, <1>1
<1>3. NoRepeat(r)
  BY <1>1, <1>2 DEF NoRepeat
<1>4. \A i \in 1 .. Len(r) : r[i] # q[k]
  BY <1>1, <1>2 DEF NoRepeat
<1>5. \A i \in 1 .. Len(r) : \E j \in 1 .. Len(q) : q[j] = r[i]
  BY <1>2
<1>6. ASSUME NEW j \in 1 .. Len(q), j # k
      PROVE  \E i \in 1 .. Len(r) : r[i] = q[j]
  <2>1. CASE j < k
    <3>1. j \in 1 .. Len(r) /\ r[j] = q[j]
      BY <2>1, <1>1 DEF Without
    <3> QED
      BY <3>1
  <2>2. CASE j > k
    <3>1. j - 1 \in 1 .. Len(r) /\ j - 1 >= k /\ (j - 1) + 1 = j
      BY <2>2, <1>1
    <3>2. r[j - 1] = q[(j - 1) + 1]
      BY <3>1, <1>1 DEF Without
    <3> QED
      BY <3>1, <3>2
  <2> QED
    BY <2>1, <2>2, <1>1, <1>6
<1> QED
  BY <1>3, <1>4, <1>5, <1>6

\* A waiting slot leaves, wherever it stood.
LEMMA QueueRemoved ==
    ASSUME NEW n \in Nat, NEW H \in HostRecords(n), NEW G \in HostRecords(n),
           NEW s \in 1 .. n, QueueExact(H), SameFlags(H, G, s),
           NEW k \in 1 .. Len(H.dispatchQueue), H.dispatchQueue[k] = s,
           ~ G.peers[s].needsDispatch,
           Without(G.dispatchQueue, H.dispatchQueue, k)
    PROVE  QueueExact(G)
<1> DEFINE q == H.dispatchQueue
           r == G.dispatchQueue
<1>1. /\ DOMAIN H.peers = 1 .. n /\ DOMAIN G.peers = 1 .. n
      /\ q \in Seq(1 .. n) /\ r \in Seq(1 .. n)
  BY DEF HostRecords
<1>2. NoRepeat(q) /\ Without(r, q, k) /\ k \in 1 .. Len(q) /\ q[k] = s
  BY DEF QueueExact, NoRepeat
<1>3. \A t \in 1 .. n \ {s} :
         G.peers[t].needsDispatch <=> \E i \in 1 .. Len(q) : q[i] = t
  BY <1>1 DEF QueueExact, SameFlags
<1> HIDE DEF q, r
<1>4. /\ NoRepeat(r)
      /\ \A i \in 1 .. Len(r) : r[i] # q[k]
      /\ \A i \in 1 .. Len(r) : \E j \in 1 .. Len(q) : q[j] = r[i]
      /\ \A j \in 1 .. Len(q) : j # k => \E i \in 1 .. Len(r) : r[i] = q[j]
  BY ONLY <1>1, <1>2, Shortened, SMTT(30)
<1>5. ASSUME NEW t \in 1 .. n
      PROVE  G.peers[t].needsDispatch <=> \E i \in 1 .. Len(r) : r[i] = t
  <2>1. CASE t = s
    BY <2>1, <1>2, <1>4
  <2>2. CASE t # s
    <3>1. G.peers[t].needsDispatch <=> \E i \in 1 .. Len(q) : q[i] = t
      BY <2>2, <1>3
    <3>2. ASSUME NEW i \in 1 .. Len(q), q[i] = t
          PROVE  \E j \in 1 .. Len(r) : r[j] = t
      BY <3>2, <2>2, <1>2, <1>4
    <3>3. ASSUME NEW j \in 1 .. Len(r), r[j] = t
          PROVE  \E i \in 1 .. Len(q) : q[i] = t
      BY <3>3, <1>4
    <3> QED
      BY <3>1, <3>2, <3>3
  <2> QED
    BY <2>1, <2>2
<1> QED
  BY <1>1, <1>4, <1>5 DEF QueueExact, NoRepeat, r

---------------------------------------------------------------------------
(* What the functions preserve                                                *)

\* Setting one peer.
LEMMA SetPeer ==
    ASSUME NEW n \in Nat, NEW H \in HostRecords(n), NEW s \in 1 .. n,
           NEW peer \in Peers
    PROVE  /\ [H EXCEPT !.peers[s] = peer] \in HostRecords(n)
           /\ [H EXCEPT !.peers[s] = peer].peers = [H.peers EXCEPT ![s] = peer]
           /\ [H EXCEPT !.peers[s] = peer].dispatchQueue = H.dispatchQueue
           /\ [H EXCEPT !.peers[s] = peer].connectedPeers = H.connectedPeers
           /\ [H EXCEPT !.peers[s] = peer].peers[s] = peer
  BY DEF HostRecords

\* A function that changes one peer without touching the dispatch queue, its
\* flag for it, or the counter more than the peer's state asks for.
LEMMA PeerStep ==
    ASSUME NEW n \in Nat, NEW H, HostOK(n, H), NEW s \in 1 .. n,
           NEW G \in HostRecords(n),
           \A t \in 1 .. n \ {s} : G.peers[t] = H.peers[t],
           G.peers[s].needsDispatch = H.peers[s].needsDispatch,
           G.dispatchQueue = H.dispatchQueue,
           G.connectedPeers = H.connectedPeers + Weight(G, s) - Weight(H, s)
    PROVE  HostOK(n, G)
<1>1. H \in HostRecords(n) /\ DOMAIN H.peers = 1 .. n
  BY DEF HostOK, HostRecords
<1>2. SameStates(H, G, s) /\ SameFlags(H, G, s)
  BY <1>1 DEF SameStates, SameFlags
<1>3. CountExact(G)
  BY <1>1, <1>2, CountStep DEF HostOK
<1>4. QueueExact(G)
  BY <1>1, <1>2, QueueUntouched DEF HostOK
<1> QED
  BY <1>3, <1>4 DEF HostOK

\* The counter moves and nothing else does.
LEMMA CounterMoves ==
    ASSUME NEW n \in Nat, NEW H \in HostRecords(n), NEW s \in 1 .. n,
           NEW G \in {OnConnect(H, s), OnDisconnect(H, s)}
    PROVE  /\ G \in HostRecords(n)
           /\ G.peers = H.peers /\ G.dispatchQueue = H.dispatchQueue
           /\ G.randomSeed = H.randomSeed
           /\ G = OnConnect(H, s) =>
                 G.connectedPeers = H.connectedPeers + 1 - Weight(H, s)
           /\ G = OnDisconnect(H, s) =>
                 G.connectedPeers = H.connectedPeers - Weight(H, s)
  BY DEF OnConnect, OnDisconnect, HostRecords, Weight

\* A peer replaced by one that counts as much and waits for dispatch as much.
LEMMA PeerUpdated ==
    ASSUME NEW n \in Nat, NEW H, HostOK(n, H), NEW s \in 1 .. n,
           NEW peer \in Peers,
           peer.needsDispatch = H.peers[s].needsDispatch,
           peer.state \in Counted <=> H.peers[s].state \in Counted
    PROVE  HostOK(n, [H EXCEPT !.peers[s] = peer])
<1> DEFINE G == [H EXCEPT !.peers[s] = peer]
<1>1. H \in HostRecords(n) /\ H.peers \in [1 .. n -> Peers] /\ H.connectedPeers \in Int
  BY DEF HostOK, HostRecords
<1>2. /\ G \in HostRecords(n) /\ G.peers = [H.peers EXCEPT ![s] = peer]
      /\ G.dispatchQueue = H.dispatchQueue /\ G.peers[s] = peer
      /\ G.connectedPeers = H.connectedPeers
  BY <1>1, SetPeer
<1> HIDE DEF G
<1>3. G.connectedPeers = H.connectedPeers + Weight(G, s) - Weight(H, s)
  BY <1>1, <1>2 DEF Weight
<1>4. HostOK(n, G)
  BY <1>1, <1>2, <1>3, PeerStep
<1> QED
  BY <1>4 DEF G

\* enet_protocol_change_state moves the counter with the state.
LEMMA ChangeStateOK ==
    ASSUME NEW n \in Nat, NEW H, HostOK(n, H), NEW s \in 1 .. n,
           NEW state \in PeerStates
    PROVE  /\ HostOK(n, ChangeState(H, s, state))
           /\ ChangeState(H, s, state).peers =
                 [H.peers EXCEPT ![s] = [@ EXCEPT !.state = state]]
<1> DEFINE D == IF state \in Counted THEN OnConnect(H, s) ELSE OnDisconnect(H, s)
           peer == [D.peers[s] EXCEPT !.state = state]
           G == [D EXCEPT !.peers[s] = peer]
<1>1. H \in HostRecords(n) /\ H.peers \in [1 .. n -> Peers] /\ H.connectedPeers \in Int
  BY DEF HostOK, HostRecords
<1>2. /\ D \in HostRecords(n)
      /\ D.peers = H.peers /\ D.dispatchQueue = H.dispatchQueue
      /\ D.connectedPeers = H.connectedPeers
            + (IF state \in Counted THEN 1 ELSE 0) - Weight(H, s)
  <2>1. Weight(H, s) \in Int
    BY DEF Weight
  <2>2. CASE state \in Counted
    BY <1>1, <2>1, <2>2, CounterMoves
  <2>3. CASE state \notin Counted
    BY <1>1, <2>1, <2>3, CounterMoves
  <2> QED
    BY <2>2, <2>3
<1>3. ChangeState(H, s, state) = G
  BY DEF ChangeState
<1> HIDE DEF D
<1>4. H.peers[s] \in Peers /\ D.peers[s] = H.peers[s]
  BY <1>1, <1>2
<1>5. /\ peer \in Peers /\ peer.state = state
      /\ peer.needsDispatch = H.peers[s].needsDispatch
  BY <1>4 DEF Peers
<1>6. /\ G \in HostRecords(n) /\ G.peers = [H.peers EXCEPT ![s] = peer]
      /\ G.dispatchQueue = H.dispatchQueue /\ G.peers[s] = peer
      /\ G.connectedPeers = D.connectedPeers
  BY <1>2, <1>5, SetPeer
<1>7. [H.peers EXCEPT ![s] = peer] = [H.peers EXCEPT ![s] = [@ EXCEPT !.state = state]]
  BY <1>4
<1> HIDE DEF G, peer
<1>8. G.connectedPeers = H.connectedPeers + Weight(G, s) - Weight(H, s)
  BY <1>1, <1>2, <1>5, <1>6 DEF Weight
<1>9. HostOK(n, G)
  BY <1>1, <1>5, <1>6, <1>8, PeerStep
<1> QED
  BY <1>3, <1>6, <1>7, <1>9

\* What a host that is in order is made of.
LEMMA HostShape ==
    ASSUME NEW n \in Nat, NEW H, HostOK(n, H), NEW s \in 1 .. n
    PROVE  /\ H \in HostRecords(n) /\ H.peers \in [1 .. n -> Peers]
           /\ H.dispatchQueue \in Seq(1 .. n) /\ H.connectedPeers \in Int
           /\ H.randomSeed \in Nat
           /\ H.peers[s] \in Peers
           /\ H.peers[s].state \in PeerStates
           /\ H.peers[s].needsDispatch \in BOOLEAN
  BY DEF HostOK, HostRecords, Peers

\* A peer is appended to the dispatch queue only when it is not in it.
LEMMA EnterDispatchQueueOK ==
    ASSUME NEW n \in Nat, NEW H, HostOK(n, H), NEW s \in 1 .. n
    PROVE  HostOK(n, EnterDispatchQueue(H, s))
<1> DEFINE peer == [H.peers[s] EXCEPT !.needsDispatch = TRUE]
           D == [H EXCEPT !.dispatchQueue = Append(@, s)]
           G == [D EXCEPT !.peers[s] = peer]
<1>1. CASE H.peers[s].needsDispatch
  BY <1>1 DEF EnterDispatchQueue
<1>2. CASE ~ H.peers[s].needsDispatch
  <2>1. EnterDispatchQueue(H, s) = G
    BY <1>2 DEF EnterDispatchQueue
  <2>2. /\ H \in HostRecords(n) /\ H.peers \in [1 .. n -> Peers]
        /\ H.peers[s] \in Peers /\ H.dispatchQueue \in Seq(1 .. n)
        /\ H.connectedPeers \in Int
    BY HostShape
  <2>3. peer \in Peers /\ peer.state = H.peers[s].state /\ peer.needsDispatch
    BY <2>2 DEF Peers
  <2>4. Append(H.dispatchQueue, s) \in Seq(1 .. n)
    BY <2>2, AppendProperties
  <2>5. /\ D \in HostRecords(n) /\ D.peers = H.peers
        /\ D.dispatchQueue = Append(H.dispatchQueue, s)
        /\ D.connectedPeers = H.connectedPeers
    BY <2>2, <2>4 DEF HostRecords
  <2> HIDE DEF D, peer
  <2>6. /\ G \in HostRecords(n) /\ G.peers = [H.peers EXCEPT ![s] = peer]
        /\ G.dispatchQueue = Append(H.dispatchQueue, s) /\ G.peers[s] = peer
        /\ G.connectedPeers = H.connectedPeers
    BY <2>3, <2>5, SetPeer
  <2> HIDE DEF G
  <2>7. SameStates(H, G, s) /\ SameFlags(H, G, s)
    BY <2>2, <2>6 DEF SameStates, SameFlags
  <2>8. G.connectedPeers = H.connectedPeers + Weight(G, s) - Weight(H, s)
    BY <2>2, <2>3, <2>6, SMTT(30) DEF Weight
  <2>9. CountExact(G)
    BY <2>2, <2>6, <2>7, <2>8, CountStep DEF HostOK
  <2>10. QueueExact(G)
    BY <1>2, <2>2, <2>3, <2>6, <2>7, QueueAppended DEF HostOK
  <2> QED
    BY <2>1, <2>6, <2>9, <2>10 DEF HostOK
<1> QED
  BY <1>1, <1>2

\* enet_protocol_dispatch_state keeps the host in order.
LEMMA DispatchStateOK ==
    ASSUME NEW n \in Nat, NEW H, HostOK(n, H), NEW s \in 1 .. n,
           NEW state \in PeerStates
    PROVE  HostOK(n, DispatchState(H, s, state))
  BY ChangeStateOK, EnterDispatchQueueOK DEF DispatchState

\* enet_protocol_notify_connect keeps the host in order.
LEMMA NotifyConnectOK ==
    ASSUME NEW n \in Nat, NEW H, HostOK(n, H), NEW s \in 1 .. n,
           NEW event \in BOOLEAN
    PROVE  HostOK(n, NotifyConnect(H, s, event))
<1>1. {CONNECTED, CONNECTION_SUCCEEDED, CONNECTION_PENDING} \subseteq PeerStates
  BY DEF CONNECTED, CONNECTION_SUCCEEDED, CONNECTION_PENDING, PeerStates
<1> QED
  BY <1>1, ChangeStateOK, DispatchStateOK DEF NotifyConnect

---------------------------------------------------------------------------
(* Resets                                                                     *)

\* The peer enet_peer_reset_queues leaves.
LEMMA EmptyQueuesType ==
    ASSUME NEW peer \in Peers
    PROVE  /\ EmptyQueues(peer) \in Peers
           /\ EmptyQueues(peer).state = peer.state
           /\ EmptyQueues(peer).needsDispatch = FALSE
<1> DEFINE half == [peer EXCEPT !.needsDispatch = FALSE, !.acknowledgements = <<>>,
                                !.sentReliable = <<>>, !.outgoingReliable = <<>>,
                                !.outgoingUnreliable = <<>>]
           empty == [half EXCEPT !.dispatched = <<>>, !.channelQueue = {},
                                 !.channelCount = 0, !.channelOut = 0,
                                 !.channelIn = 0]
<1>1. <<>> \in Seq(Commands) /\ <<>> \in Seq(Nat) /\ {} \in Arrivals
  BY FS_EmptySet DEF Arrivals
<1>2. half \in Peers /\ half.state = peer.state /\ half.needsDispatch = FALSE
  BY <1>1 DEF Peers
<1>3. EmptyQueues(peer) = empty
  BY DEF EmptyQueues
<1> HIDE DEF half
<1>4. empty \in Peers /\ empty.state = half.state
      /\ empty.needsDispatch = half.needsDispatch
  BY <1>1, <1>2 DEF Peers
<1> QED
  BY <1>2, <1>3, <1>4

\* enet_peer_reset_queues takes the peer out of the dispatch queue.
LEMMA ResetQueuesOK ==
    ASSUME NEW n \in Nat, NEW H, HostOK(n, H), NEW s \in 1 .. n
    PROVE  /\ HostOK(n, ResetQueues(H, s))
           /\ ResetQueues(H, s).peers = [H.peers EXCEPT ![s] = EmptyQueues(@)]
<1> DEFINE q == H.dispatchQueue
           peer == EmptyQueues(H.peers[s])
<1>1. /\ H \in HostRecords(n) /\ H.peers \in [1 .. n -> Peers]
      /\ H.peers[s] \in Peers /\ q \in Seq(1 .. n)
      /\ H.connectedPeers \in Int /\ H.peers[s].needsDispatch \in BOOLEAN
  BY HostShape
<1>2. peer \in Peers /\ peer.state = H.peers[s].state
      /\ peer.needsDispatch = FALSE
  BY <1>1, EmptyQueuesType
<1>3. CASE ~ H.peers[s].needsDispatch
  <2>1. ResetQueues(H, s) = [H EXCEPT !.peers[s] = peer]
    BY <1>1, <1>3 DEF ResetQueues, HostRecords
  <2>2. peer.needsDispatch = H.peers[s].needsDispatch
    BY <1>1, <1>2, <1>3
  <2>3. HostOK(n, [H EXCEPT !.peers[s] = peer])
    BY <1>2, <2>2, PeerUpdated
  <2>4. [H EXCEPT !.peers[s] = peer].peers = [H.peers EXCEPT ![s] = peer]
    BY <1>1, <1>2, SetPeer
  <2> QED
    BY <2>1, <2>3, <2>4
<1>4. CASE H.peers[s].needsDispatch
  <2> DEFINE k == CHOOSE i \in 1 .. Len(q) : q[i] = s
             D == [H EXCEPT !.dispatchQueue = RemoveAt(q, k)]
             G == [D EXCEPT !.peers[s] = peer]
  <2>1. \E i \in 1 .. Len(q) : q[i] = s
    BY <1>1, <1>4 DEF HostOK, QueueExact
  <2>2. k \in 1 .. Len(q) /\ q[k] = s
    BY <2>1
  <2>3. ResetQueues(H, s) = G
    BY <1>4 DEF ResetQueues, Unlink
  <2> HIDE DEF k
  <2>4. RemoveAt(q, k) \in Seq(1 .. n) /\ Without(RemoveAt(q, k), q, k)
    <3>1. /\ RemoveAt(q, k) \in Seq(1 .. n)
          /\ Len(RemoveAt(q, k)) = Len(q) - 1
          /\ \A j \in 1 .. Len(q) - 1 :
                RemoveAt(q, k)[j] = IF j < k THEN q[j] ELSE q[j + 1]
      BY <1>1, <2>2, RemoveAtProperties
    <3>2. Len(q) \in Nat
      BY <1>1, LenProperties
    <3> QED
      BY <3>1, <3>2, <2>2 DEF Without
  <2>5. /\ D \in HostRecords(n) /\ D.peers = H.peers
        /\ D.dispatchQueue = RemoveAt(q, k)
        /\ D.connectedPeers = H.connectedPeers
    BY <1>1, <2>4 DEF HostRecords
  <2> HIDE DEF D, peer
  <2>6. /\ G \in HostRecords(n) /\ G.peers = [H.peers EXCEPT ![s] = peer]
        /\ G.dispatchQueue = RemoveAt(q, k) /\ G.peers[s] = peer
        /\ G.connectedPeers = H.connectedPeers
    BY <1>2, <2>5, SetPeer
  <2> HIDE DEF G
  <2>7. SameStates(H, G, s) /\ SameFlags(H, G, s)
    BY <1>1, <2>6 DEF SameStates, SameFlags
  <2>8. G.connectedPeers = H.connectedPeers + Weight(G, s) - Weight(H, s)
    <3>1. Weight(G, s) = Weight(H, s) /\ Weight(H, s) \in Int
      BY <1>2, <2>6 DEF Weight
    <3> QED
      BY <3>1, <1>1, <2>6
  <2>9. CountExact(G)
    BY <1>1, <2>6, <2>7, <2>8, CountStep DEF HostOK
  <2>10. QueueExact(G)
    BY <1>1, <1>2, <2>2, <2>4, <2>6, <2>7, QueueRemoved DEF HostOK
  <2> QED
    BY <2>3, <2>6, <2>9, <2>10 DEF HostOK, peer
<1> QED
  BY <1>1, <1>3, <1>4

\* The counter drops for a peer that was counted, and the peer no longer is.
LEMMA UncountedOK ==
    ASSUME NEW n \in Nat, NEW H, HostOK(n, H), NEW s \in 1 .. n,
           NEW peer \in Peers, peer.state \notin Counted,
           peer.needsDispatch = H.peers[s].needsDispatch
    PROVE  /\ HostOK(n, [OnDisconnect(H, s) EXCEPT !.peers[s] = peer])
           /\ [OnDisconnect(H, s) EXCEPT !.peers[s] = peer].peers =
                 [H.peers EXCEPT ![s] = peer]
<1> DEFINE D == OnDisconnect(H, s)
           G == [D EXCEPT !.peers[s] = peer]
<1>1. H \in HostRecords(n) /\ H.peers \in [1 .. n -> Peers] /\ H.connectedPeers \in Int
  BY HostShape
<1>2. /\ D \in HostRecords(n) /\ D.peers = H.peers
      /\ D.dispatchQueue = H.dispatchQueue
      /\ D.connectedPeers = H.connectedPeers - Weight(H, s)
  BY <1>1, CounterMoves
<1> HIDE DEF D
<1>3. /\ G \in HostRecords(n) /\ G.peers = [H.peers EXCEPT ![s] = peer]
      /\ G.dispatchQueue = H.dispatchQueue /\ G.peers[s] = peer
      /\ G.connectedPeers = H.connectedPeers - Weight(H, s)
  BY <1>2, SetPeer
<1> HIDE DEF G
<1>4. G.connectedPeers = H.connectedPeers + Weight(G, s) - Weight(H, s)
  <2>1. Weight(G, s) = 0 /\ Weight(H, s) \in Int
    BY <1>3 DEF Weight
  <2> QED
    BY <2>1, <1>1, <1>3
<1>5. HostOK(n, G)
  BY <1>1, <1>3, <1>4, PeerStep
<1> QED
  BY <1>3, <1>5 DEF G, D

\* enet_peer_reset keeps the host in order, whatever the state of the peer.
LEMMA ResetOK ==
    ASSUME NEW n \in Nat, NEW H, HostOK(n, H), NEW s \in 1 .. n
    PROVE  HostOK(n, Reset(H, s))
<1> DEFINE peer == [H.peers[s] EXCEPT !.outgoingPeerID = NoPeer, !.connectID = 0,
                                      !.state = DISCONNECTED, !.address = NoHost,
                                      !.outgoingSeq = 0]
           G == [OnDisconnect(H, s) EXCEPT !.peers[s] = peer]
<1>1. H \in HostRecords(n) /\ H.peers[s] \in Peers
  BY HostShape
<1>2. OnDisconnect(H, s).peers = H.peers
  BY <1>1, CounterMoves
<1>3. Reset(H, s) = ResetQueues(G, s)
  BY <1>2 DEF Reset
<1>4. DISCONNECTED \in PeerStates /\ DISCONNECTED \notin Counted
      /\ NoPeer \in Nat
  BY DEF DISCONNECTED, PeerStates, Counted, CONNECTED, DISCONNECT_LATER, NoPeer
<1>5. peer \in Peers /\ peer.state = DISCONNECTED
      /\ peer.needsDispatch = H.peers[s].needsDispatch
  BY <1>1, <1>4 DEF Peers
<1> HIDE DEF peer
<1>6. HostOK(n, G)
  BY <1>4, <1>5, UncountedOK
<1> HIDE DEF G
<1>7. HostOK(n, ResetQueues(G, s))
  BY <1>6, ResetQueuesOK
<1> QED
  BY <1>3, <1>7

\* enet_protocol_notify_disconnect keeps the host in order.
LEMMA NotifyDisconnectOK ==
    ASSUME NEW n \in Nat, NEW H, HostOK(n, H), NEW s \in 1 .. n,
           NEW event \in BOOLEAN
    PROVE  HostOK(n, NotifyDisconnect(H, s, event))
<1>1. ZOMBIE \in PeerStates
  BY DEF ZOMBIE, PeerStates
<1> QED
  BY <1>1, ResetOK, DispatchStateOK DEF NotifyDisconnect

---------------------------------------------------------------------------
(* Commands                                                                   *)

\* A fresh command.
LEMMA CommandType ==
    ASSUME NEW type \in CommandTypes, NEW channel \in {ControlChannel, DataChannel},
           NEW reliable \in BOOLEAN
    PROVE  Command(type, channel, reliable) \in Commands
  BY DEF Command, Commands, NoPeer

\* Numbering a command keeps the peer and gives the command a number.
LEMMA NumberedType ==
    ASSUME NEW peer \in Peers, NEW c \in Commands
    PROVE  /\ Numbered(peer, c) \in Peers
           /\ Numbered(peer, c).state = peer.state
           /\ Numbered(peer, c).needsDispatch = peer.needsDispatch
           /\ NumberOf(Numbered(peer, c), c) \in Nat
<1>1. /\ Numbered(peer, c) \in Peers
      /\ Numbered(peer, c).state = peer.state
      /\ Numbered(peer, c).needsDispatch = peer.needsDispatch
  <2> DEFINE next == peer.outgoingSeq + 1
             nextOut == peer.channelOut + 1
  <2>1. next \in Nat /\ nextOut \in Nat
    BY DEF Peers
  <2>2. /\ c.channel = ControlChannel =>
             Numbered(peer, c) = [peer EXCEPT !.outgoingSeq = next]
        /\ c.channel # ControlChannel /\ c.reliable =>
             Numbered(peer, c) = [peer EXCEPT !.channelOut = nextOut]
    BY DEF Numbered
  <2> HIDE DEF next, nextOut
  <2>3. CASE c.channel = ControlChannel
    <3>1. [peer EXCEPT !.outgoingSeq = next] \in Peers
      BY <2>1 DEF Peers
    <3>2. /\ [peer EXCEPT !.outgoingSeq = next].state = peer.state
          /\ [peer EXCEPT !.outgoingSeq = next].needsDispatch = peer.needsDispatch
      BY DEF Peers
    <3> QED
      BY <2>3, <2>2, <3>1, <3>2
  <2>4. CASE c.channel # ControlChannel /\ c.reliable
    <3>1. [peer EXCEPT !.channelOut = nextOut] \in Peers
      BY <2>1 DEF Peers
    <3>2. /\ [peer EXCEPT !.channelOut = nextOut].state = peer.state
          /\ [peer EXCEPT !.channelOut = nextOut].needsDispatch = peer.needsDispatch
      BY DEF Peers
    <3> QED
      BY <2>4, <2>2, <3>1, <3>2
  <2>5. CASE c.channel # ControlChannel /\ ~ c.reliable
    BY <2>5 DEF Numbered
  <2> QED
    BY <2>3, <2>4, <2>5
<1>2. NumberOf(Numbered(peer, c), c) \in Nat
  BY <1>1 DEF NumberOf, Peers
<1> QED
  BY <1>1, <1>2

\* enet_peer_queue_outgoing_command keeps the host in order.
LEMMA QueueOutgoingOK ==
    ASSUME NEW n \in Nat, NEW H, HostOK(n, H), NEW s \in 1 .. n,
           NEW c \in Commands
    PROVE  /\ HostOK(n, QueueOutgoing(H, s, c))
           /\ QueueOutgoing(H, s, c).peers[s].state = H.peers[s].state
<1> DEFINE peer == Numbered(H.peers[s], c)
           command == [c EXCEPT !.seq = NumberOf(peer, c)]
           queued == IF c.reliable
                     THEN [peer EXCEPT !.outgoingReliable = Append(@, command)]
                     ELSE [peer EXCEPT !.outgoingUnreliable = Append(@, command)]
<1>1. H \in HostRecords(n) /\ H.peers[s] \in Peers
  BY HostShape
<1>2. /\ peer \in Peers /\ NumberOf(peer, c) \in Nat
      /\ peer.state = H.peers[s].state
      /\ peer.needsDispatch = H.peers[s].needsDispatch
  BY <1>1, NumberedType
<1>3. QueueOutgoing(H, s, c) = [H EXCEPT !.peers[s] = queued]
  BY DEF QueueOutgoing
<1> HIDE DEF peer
<1>4. command \in Commands
  BY <1>2 DEF Commands
<1> HIDE DEF command
<1>5. /\ Append(peer.outgoingReliable, command) \in Seq(Commands)
      /\ Append(peer.outgoingUnreliable, command) \in Seq(Commands)
  <2>1. peer.outgoingReliable \in Seq(Commands) /\ peer.outgoingUnreliable \in Seq(Commands)
    BY <1>2 DEF Peers
  <2> QED
    BY <2>1, <1>4, AppendProperties
<1>6. /\ queued \in Peers /\ queued.state = H.peers[s].state
      /\ queued.needsDispatch = H.peers[s].needsDispatch
  BY <1>2, <1>5 DEF Peers
<1> HIDE DEF queued
<1>7. HostOK(n, [H EXCEPT !.peers[s] = queued])
  BY <1>6, PeerUpdated
<1>8. [H EXCEPT !.peers[s] = queued].peers[s] = queued
  BY <1>1 DEF HostRecords
<1> QED
  BY <1>3, <1>6, <1>7, <1>8

\* enet_peer_queue_acknowledgement keeps the host in order.
LEMMA QueueAcknowledgementOK ==
    ASSUME NEW n \in Nat, NEW H, HostOK(n, H), NEW s \in 1 .. n,
           NEW c \in Commands
    PROVE  HostOK(n, QueueAcknowledgement(H, s, c))
<1> DEFINE peer == [H.peers[s] EXCEPT !.acknowledgements = Append(@, c)]
<1>1. H \in HostRecords(n) /\ H.peers[s] \in Peers
  BY HostShape
<1>2. QueueAcknowledgement(H, s, c) = [H EXCEPT !.peers[s] = peer]
  BY DEF QueueAcknowledgement
<1>3. Append(H.peers[s].acknowledgements, c) \in Seq(Commands)
  <2>1. H.peers[s].acknowledgements \in Seq(Commands)
    BY <1>1 DEF Peers
  <2> QED
    BY <2>1, AppendProperties
<1>4. /\ peer \in Peers /\ peer.state = H.peers[s].state
      /\ peer.needsDispatch = H.peers[s].needsDispatch
  BY <1>1, <1>3 DEF Peers
<1> HIDE DEF peer
<1> QED
  BY <1>2, <1>4, PeerUpdated

\* Sequences lose an element to RemoveSentReliable and keep their type.
LEMMA RemoveSentReliableOK ==
    ASSUME NEW n \in Nat, NEW H, HostOK(n, H), NEW s \in 1 .. n, NEW ack
    PROVE  /\ HostOK(n, RemoveSentReliable(H, s, ack))
           /\ RemoveSentReliable(H, s, ack).peers[s].state = H.peers[s].state
<1> DEFINE sent == H.peers[s].sentReliable
           k == AckedAt(sent, ack)
           peer == [H.peers[s] EXCEPT !.sentReliable = RemoveAt(@, k)]
<1>1. CASE ~ HasAcked(sent, ack)
  BY <1>1 DEF RemoveSentReliable
<1>2. CASE HasAcked(sent, ack)
  <2>1. H \in HostRecords(n) /\ H.peers[s] \in Peers /\ sent \in Seq(Commands)
    BY HostShape DEF Peers
  <2>2. k \in 1 .. Len(sent)
    BY <1>2 DEF HasAcked, AckedAt
  <2>3. RemoveSentReliable(H, s, ack) = [H EXCEPT !.peers[s] = peer]
    BY <1>2 DEF RemoveSentReliable
  <2> HIDE DEF k
  <2>4. RemoveAt(sent, k) \in Seq(Commands)
    BY <2>1, <2>2, RemoveAtProperties
  <2>5. /\ peer \in Peers /\ peer.state = H.peers[s].state
        /\ peer.needsDispatch = H.peers[s].needsDispatch
    BY <2>1, <2>4 DEF Peers
  <2> HIDE DEF peer
  <2>6. HostOK(n, [H EXCEPT !.peers[s] = peer])
    BY <2>5, PeerUpdated
  <2>7. [H EXCEPT !.peers[s] = peer].peers[s] = peer
    BY <2>1 DEF HostRecords
  <2> QED
    BY <2>3, <2>5, <2>6, <2>7
<1> QED
  BY <1>1, <1>2

\* enet_peer_disconnect_now keeps the host in order.
LEMMA DisconnectNowOK ==
    ASSUME NEW n \in Nat, NEW H, HostOK(n, H), NEW s \in 1 .. n
    PROVE  HostOK(n, DisconnectNow(H, s))
<1>1. Command("DISCONNECT", ControlChannel, FALSE) \in Commands
  BY CommandType DEF CommandTypes
<1>2. HostOK(n, ResetQueues(H, s))
  BY ResetQueuesOK
<1> QED
  BY <1>1, <1>2, QueueOutgoingOK DEF DisconnectNow

\* enet_peer_disconnect keeps the host in order.
LEMMA DisconnectOK ==
    ASSUME NEW n \in Nat, NEW H, HostOK(n, H), NEW s \in 1 .. n
    PROVE  HostOK(n, Disconnect(H, s))
<1> DEFINE wasCounted == H.peers[s].state \in Counted
           c == Command("DISCONNECT", ControlChannel, wasCounted)
           queued == QueueOutgoing(ResetQueues(H, s), s, c)
           peer == [queued.peers[s] EXCEPT !.state = DISCONNECTING]
           closing == [OnDisconnect(queued, s) EXCEPT !.peers[s] = peer]
<1>1. c \in Commands
  <2>1. wasCounted \in BOOLEAN /\ "DISCONNECT" \in CommandTypes
    BY DEF CommandTypes
  <2> HIDE DEF wasCounted
  <2> QED
    BY <2>1, CommandType
<1>2. HostOK(n, ResetQueues(H, s))
  BY ResetQueuesOK
<1> HIDE DEF c
<1>3. HostOK(n, queued)
  BY <1>1, <1>2, QueueOutgoingOK
<1> HIDE DEF queued
<1>4. queued.peers[s] \in Peers /\ queued \in HostRecords(n)
  BY <1>3, HostShape
<1>5. DISCONNECTING \in PeerStates /\ DISCONNECTING \notin Counted
  BY DEF DISCONNECTING, PeerStates, Counted, CONNECTED, DISCONNECT_LATER
<1>6. /\ peer \in Peers /\ peer.state = DISCONNECTING
      /\ peer.needsDispatch = queued.peers[s].needsDispatch
  BY <1>4, <1>5 DEF Peers
<1>7. OnDisconnect(queued, s).peers = queued.peers
  BY <1>4, CounterMoves
<1>8. Disconnect(H, s) \in {H, closing, queued}
  BY <1>7 DEF Disconnect, queued, c
<1> HIDE DEF peer
<1>9. HostOK(n, closing)
  BY <1>3, <1>5, <1>6, UncountedOK
<1> QED
  BY <1>3, <1>8, <1>9

---------------------------------------------------------------------------
(* Incoming packets                                                           *)

\* The packets that become deliverable are finitely many.
LEMMA DeliverableType ==
    ASSUME NEW peer \in Peers, NEW m \in Nat
    PROVE  Deliverable(peer, m) \in Nat
<1> DEFINE have == peer.channelQueue \cup {m}
           run == {k \in have : /\ k > peer.channelIn
                                /\ peer.channelIn + 1 .. k \subseteq have}
<1>1. IsFiniteSet(peer.channelQueue)
  BY DEF Peers, Arrivals
<1>2. IsFiniteSet(have)
  BY <1>1, FS_AddElement
<1>3. IsFiniteSet(run)
  BY <1>2, FS_Subset
<1>4. Cardinality(run) \in Nat
  BY <1>3, FS_CardinalityType
<1> QED
  BY <1>4 DEF Deliverable

\* enet_peer_queue_incoming_command keeps the host in order.
LEMMA QueueIncomingReliableOK ==
    ASSUME NEW n \in Nat, NEW H, HostOK(n, H), NEW s \in 1 .. n,
           NEW m \in Nat
    PROVE  HostOK(n, QueueIncomingReliable(H, s, m))
<1> DEFINE old == H.peers[s]
           count == Deliverable(old, m)
           ready == [i \in 1 .. count |-> old.channelIn + i]
           held == {k \in old.channelQueue \cup {m} : k > old.channelIn + count}
           in == old.channelIn + count
           delivered == old.dispatched \o ready
           peer == [old EXCEPT !.channelQueue = held, !.channelIn = in,
                               !.dispatched = delivered]
           taken == [H EXCEPT !.peers[s] = peer]
<1>1. H \in HostRecords(n) /\ old \in Peers
  BY HostShape
<1>2. QueueIncomingReliable(H, s, m) \in {H, taken, EnterDispatchQueue(taken, s)}
  BY DEF QueueIncomingReliable
<1>3. old.channelIn \in Nat /\ old.channelQueue \in Arrivals /\ old.dispatched \in Seq(Nat)
  BY <1>1 DEF Peers
<1>4. count \in Nat
  BY <1>1, DeliverableType
<1> HIDE DEF count
<1>5. ready \in Seq(Nat)
  <2>1. ready \in [1 .. count -> Nat]
    BY <1>3, <1>4
  <2> QED
    BY <2>1, <1>4, SeqDef
<1>6. delivered \in Seq(Nat)
  BY <1>3, <1>5, ConcatProperties
<1>7. in \in Nat
  BY <1>3, <1>4
<1>8. held \in Arrivals
  <2>1. IsFiniteSet(old.channelQueue \cup {m})
    BY <1>3, FS_AddElement DEF Arrivals
  <2>2. IsFiniteSet(held)
    BY <2>1, FS_Subset
  <2> QED
    BY <2>2, <1>3 DEF Arrivals
<1> HIDE DEF held, in, delivered
<1>9. /\ peer \in Peers /\ peer.state = old.state
      /\ peer.needsDispatch = old.needsDispatch
  BY <1>1, <1>6, <1>7, <1>8 DEF Peers
<1> HIDE DEF peer
<1>10. HostOK(n, taken)
  BY <1>9, PeerUpdated
<1> HIDE DEF taken
<1>11. HostOK(n, EnterDispatchQueue(taken, s))
  BY <1>10, EnterDispatchQueueOK
<1> QED
  BY <1>2, <1>10, <1>11

\* Taking the head off the dispatch queue and clearing its flag.
LEMMA PoppedOK ==
    ASSUME NEW n \in Nat, NEW H, HostOK(n, H), H.dispatchQueue # <<>>
    PROVE  /\ Head(H.dispatchQueue) \in 1 .. n
           /\ HostOK(n, Popped(H))
           /\ Popped(H).peers = [H.peers EXCEPT ![Head(H.dispatchQueue)] =
                                    [@ EXCEPT !.needsDispatch = FALSE]]
<1> DEFINE q == H.dispatchQueue
           s == Head(q)
           peer == [H.peers[s] EXCEPT !.needsDispatch = FALSE]
           D == [H EXCEPT !.dispatchQueue = Tail(@)]
           G == [D EXCEPT !.peers[s] = peer]
<1>1. H \in HostRecords(n) /\ q \in Seq(1 .. n) /\ q # <<>>
  BY DEF HostOK, HostRecords
<1>2. /\ s \in 1 .. n /\ Tail(q) \in Seq(1 .. n) /\ Len(q) \in Nat \ {0}
      /\ q[1] = s
      /\ Len(Tail(q)) = Len(q) - 1
      /\ \A j \in 1 .. Len(Tail(q)) : Tail(q)[j] = q[j + 1]
  <2> HIDE DEF q
  <2>1. /\ s \in 1 .. n /\ Tail(q) \in Seq(1 .. n)
        /\ Len(Tail(q)) = Len(q) - 1
        /\ \A j \in 1 .. Len(Tail(q)) : Tail(q)[j] = q[j + 1]
    BY <1>1, HeadTailProperties
  <2>2. Len(q) \in Nat \ {0}
    BY <1>1, EmptySeq
  <2>3. q[1] = s
    BY <1>1
  <2> QED
    BY <2>1, <2>2, <2>3
<1>3. Without(Tail(q), q, 1)
  BY <1>2 DEF Without
<1>4. /\ H.peers[s] \in Peers /\ H.connectedPeers \in Int
      /\ H.peers \in [1 .. n -> Peers]
  BY <1>2, HostShape
<1>5. /\ D \in HostRecords(n) /\ D.peers = H.peers
      /\ D.dispatchQueue = Tail(q) /\ D.connectedPeers = H.connectedPeers
  BY <1>1, <1>2 DEF HostRecords
<1>6. Popped(H) = G
  BY <1>5 DEF Popped
<1>7. peer \in Peers /\ peer.state = H.peers[s].state /\ peer.needsDispatch = FALSE
  BY <1>4 DEF Peers
<1>8. G.peers = [H.peers EXCEPT ![s] = [@ EXCEPT !.needsDispatch = FALSE]]
  BY <1>4, <1>5
<1> HIDE DEF D, peer
<1>9. /\ G \in HostRecords(n) /\ G.peers = [H.peers EXCEPT ![s] = peer]
      /\ G.dispatchQueue = Tail(q) /\ G.peers[s] = peer
      /\ G.connectedPeers = H.connectedPeers
  BY <1>2, <1>5, <1>7, SetPeer
<1> HIDE DEF G
<1>10. SameStates(H, G, s) /\ SameFlags(H, G, s)
  BY <1>2, <1>4, <1>9 DEF SameStates, SameFlags
<1>11. G.connectedPeers = H.connectedPeers + Weight(G, s) - Weight(H, s)
  <2>1. Weight(G, s) = Weight(H, s) /\ Weight(H, s) \in Int
    BY <1>7, <1>9 DEF Weight
  <2> QED
    BY <2>1, <1>4, <1>9
<1>12. CountExact(G)
  BY <1>1, <1>2, <1>9, <1>10, <1>11, CountStep DEF HostOK
<1>13. QueueExact(G)
  <2>1. 1 \in 1 .. Len(q)
    BY <1>2
  <2>2. /\ Without(G.dispatchQueue, H.dispatchQueue, 1)
        /\ H.dispatchQueue[1] = s /\ ~ G.peers[s].needsDispatch
        /\ QueueExact(H)
    BY <1>2, <1>3, <1>7, <1>9 DEF HostOK
  <2> HIDE DEF q, s
  <2> QED
    BY <2>1, <2>2, <1>1, <1>2, <1>9, <1>10, QueueRemoved DEF q
<1> QED
  BY <1>2, <1>6, <1>8, <1>9, <1>12, <1>13 DEF HostOK

---------------------------------------------------------------------------
(* What the functions do to the state of a peer, and what they leave alone    *)

\* H and G agree on the peers other than s.
Elsewhere(H, G, s) == \A t \in DOMAIN H.peers \ {s} : G.peers[t] = H.peers[t]

\* A host with one peer replaced agrees with the old one on the others.
LEMMA ElsewhereOf ==
    ASSUME NEW n \in Nat, NEW H \in HostRecords(n), NEW G, NEW s \in 1 .. n, NEW peer,
           G.peers = [H.peers EXCEPT ![s] = peer]
    PROVE  Elsewhere(H, G, s) /\ G.peers[s] = peer
BY DEF Elsewhere, HostRecords

\* Two steps that touch the same peer alone touch that peer alone.
LEMMA ElsewhereTwice ==
    ASSUME NEW n \in Nat, NEW H, HostOK(n, H), NEW G, HostOK(n, G), NEW F, NEW s,
           Elsewhere(H, G, s), Elsewhere(G, F, s)
    PROVE  Elsewhere(H, F, s)
BY DEF Elsewhere, HostOK, HostRecords

\* enet_protocol_change_state writes the state of one peer and nothing else of it.
LEMMA ChangeStateEffect ==
    ASSUME NEW n \in Nat, NEW H, HostOK(n, H), NEW s \in 1 .. n, NEW state \in PeerStates
    PROVE  /\ Elsewhere(H, ChangeState(H, s, state), s)
           /\ ChangeState(H, s, state).peers[s] = [H.peers[s] EXCEPT !.state = state]
           /\ ChangeState(H, s, state).peers[s].state = state
<1>1. H \in HostRecords(n) /\ H.peers[s] \in Peers
  BY HostShape
<1>2. ChangeState(H, s, state).peers = [H.peers EXCEPT ![s] = [H.peers[s] EXCEPT !.state = state]]
  BY <1>1, ChangeStateOK, SMTT(30) DEF HostRecords
<1>3. [H.peers[s] EXCEPT !.state = state].state = state
  BY <1>1 DEF Peers
<1> QED BY <1>1, <1>2, <1>3, ElsewhereOf

\* Entering the dispatch queue marks one peer and changes nothing else of it.
LEMMA EnterDispatchQueueEffect ==
    ASSUME NEW n \in Nat, NEW H, HostOK(n, H), NEW s \in 1 .. n
    PROVE  /\ Elsewhere(H, EnterDispatchQueue(H, s), s)
           /\ EnterDispatchQueue(H, s).peers[s] = [H.peers[s] EXCEPT !.needsDispatch = TRUE]
           /\ EnterDispatchQueue(H, s).peers[s].state = H.peers[s].state
           /\ EnterDispatchQueue(H, s).peers[s].needsDispatch = TRUE
<1> DEFINE peer == [H.peers[s] EXCEPT !.needsDispatch = TRUE]
<1>1. H \in HostRecords(n) /\ H.peers[s] \in Peers /\ H.peers[s].needsDispatch \in BOOLEAN
  BY HostShape
<1>2. peer.state = H.peers[s].state /\ peer.needsDispatch = TRUE
  BY <1>1 DEF Peers
<1>3. EnterDispatchQueue(H, s).peers = [H.peers EXCEPT ![s] = peer]
  <2>1. CASE H.peers[s].needsDispatch
    <3>1. peer = H.peers[s]
      BY <1>1, <2>1 DEF Peers
    <3> HIDE DEF peer
    <3>2. EnterDispatchQueue(H, s) = H
      BY <2>1 DEF EnterDispatchQueue
    <3> QED BY <1>1, <3>1, <3>2 DEF HostRecords
  <2>2. CASE ~ H.peers[s].needsDispatch
    BY <1>1, <2>2 DEF EnterDispatchQueue, HostRecords
  <2> QED BY <2>1, <2>2
<1> HIDE DEF peer
<1>4. Elsewhere(H, EnterDispatchQueue(H, s), s) /\ EnterDispatchQueue(H, s).peers[s] = peer
  BY <1>1, <1>3, ElsewhereOf
<1> QED BY <1>2, <1>4 DEF peer

\* enet_protocol_dispatch_state leaves a peer of the new state, marked for dispatch.
LEMMA DispatchStateEffect ==
    ASSUME NEW n \in Nat, NEW H, HostOK(n, H), NEW s \in 1 .. n, NEW state \in PeerStates
    PROVE  /\ Elsewhere(H, DispatchState(H, s, state), s)
           /\ DispatchState(H, s, state).peers[s]
                 = [H.peers[s] EXCEPT !.state = state, !.needsDispatch = TRUE]
           /\ DispatchState(H, s, state).peers[s].state = state
           /\ DispatchState(H, s, state).peers[s].needsDispatch = TRUE
<1> DEFINE G == ChangeState(H, s, state)
<1>0. HostOK(n, ChangeState(H, s, state))
  BY ChangeStateOK
<1>1. /\ HostOK(n, G) /\ Elsewhere(H, G, s) /\ G.peers[s].state = state
      /\ G.peers[s] = [H.peers[s] EXCEPT !.state = state]
  BY <1>0, ChangeStateEffect
<1>2. DispatchState(H, s, state) = EnterDispatchQueue(G, s)
  BY DEF DispatchState
<1> HIDE DEF G
<1> DEFINE F == EnterDispatchQueue(G, s)
<1>3. /\ HostOK(n, F) /\ Elsewhere(G, F, s) /\ F.peers[s].state = state
      /\ F.peers[s] = [G.peers[s] EXCEPT !.needsDispatch = TRUE]
      /\ F.peers[s].needsDispatch = TRUE
  <2>1. HostOK(n, EnterDispatchQueue(G, s))
    BY <1>1, EnterDispatchQueueOK
  <2>2. /\ Elsewhere(G, EnterDispatchQueue(G, s), s)
        /\ EnterDispatchQueue(G, s).peers[s] = [G.peers[s] EXCEPT !.needsDispatch = TRUE]
        /\ EnterDispatchQueue(G, s).peers[s].state = G.peers[s].state
        /\ EnterDispatchQueue(G, s).peers[s].needsDispatch = TRUE
    BY <1>1, EnterDispatchQueueEffect
  <2> QED BY <1>1, <2>1, <2>2
<1> HIDE DEF F
<1>4. Elsewhere(H, F, s)
  BY <1>1, <1>3, ElsewhereTwice
<1>5. F.peers[s] = [H.peers[s] EXCEPT !.state = state, !.needsDispatch = TRUE]
  BY <1>1, <1>3
<1> QED BY <1>2, <1>3, <1>4, <1>5 DEF F

\* enet_peer_reset_queues empties the queues of one peer and keeps its state.
LEMMA ResetQueuesEffect ==
    ASSUME NEW n \in Nat, NEW H, HostOK(n, H), NEW s \in 1 .. n
    PROVE  /\ Elsewhere(H, ResetQueues(H, s), s)
           /\ ResetQueues(H, s).peers[s] = EmptyQueues(H.peers[s])
           /\ ResetQueues(H, s).peers[s].state = H.peers[s].state
           /\ ResetQueues(H, s).peers[s].needsDispatch = FALSE
<1>1. H \in HostRecords(n) /\ H.peers[s] \in Peers
  BY HostShape
<1>2. ResetQueues(H, s).peers = [H.peers EXCEPT ![s] = EmptyQueues(H.peers[s])]
  BY <1>1, ResetQueuesOK DEF HostRecords
<1>3. /\ EmptyQueues(H.peers[s]).state = H.peers[s].state
      /\ EmptyQueues(H.peers[s]).needsDispatch = FALSE
  BY <1>1, EmptyQueuesType
<1> QED BY <1>1, <1>2, <1>3, ElsewhereOf, SMTT(30)

\* The peer that enet_peer_reset leaves.
Freed(peer) ==
    EmptyQueues([peer EXCEPT !.outgoingPeerID = NoPeer, !.connectID = 0,
                             !.state = DISCONNECTED, !.address = NoHost,
                             !.outgoingSeq = 0])

\* enet_peer_reset frees one slot and leaves the other peers alone.
LEMMA ResetEffect ==
    ASSUME NEW n \in Nat, NEW H, HostOK(n, H), NEW s \in 1 .. n
    PROVE  /\ HostOK(n, Reset(H, s))
           /\ Elsewhere(H, Reset(H, s), s)
           /\ Reset(H, s).peers[s] = Freed(H.peers[s])
           /\ Reset(H, s).peers[s].state = DISCONNECTED
           /\ Reset(H, s).peers[s].needsDispatch = FALSE
<1> DEFINE peer == [H.peers[s] EXCEPT !.outgoingPeerID = NoPeer, !.connectID = 0,
                                      !.state = DISCONNECTED, !.address = NoHost,
                                      !.outgoingSeq = 0]
           G == [OnDisconnect(H, s) EXCEPT !.peers[s] = peer]
<1>1. H \in HostRecords(n) /\ H.peers[s] \in Peers
  BY HostShape
<1>2. OnDisconnect(H, s).peers = H.peers
  BY <1>1, CounterMoves
<1>3. Reset(H, s) = ResetQueues(G, s)
  BY <1>2 DEF Reset
<1>4. DISCONNECTED \in PeerStates /\ DISCONNECTED \notin Counted
      /\ NoPeer \in Nat
  BY DEF DISCONNECTED, PeerStates, Counted, CONNECTED, DISCONNECT_LATER, NoPeer
<1>5. peer \in Peers /\ peer.state = DISCONNECTED
      /\ peer.needsDispatch = H.peers[s].needsDispatch
  BY <1>1, <1>4 DEF Peers
<1>6. Freed(H.peers[s]) = EmptyQueues(peer)
  BY DEF Freed
<1> HIDE DEF peer
<1>7. HostOK(n, G) /\ G.peers = [H.peers EXCEPT ![s] = peer]
  BY <1>4, <1>5, UncountedOK
<1> HIDE DEF G
<1>8. Elsewhere(H, G, s) /\ G.peers[s] = peer
  BY <1>1, <1>7, ElsewhereOf
<1> DEFINE F == ResetQueues(G, s)
<1>9. /\ HostOK(n, F) /\ Elsewhere(G, F, s) /\ F.peers[s] = EmptyQueues(peer)
      /\ F.peers[s].state = DISCONNECTED /\ F.peers[s].needsDispatch = FALSE
  <2>0. HostOK(n, G)
    BY <1>7
  <2>1. HostOK(n, ResetQueues(G, s))
    BY <2>0, ResetQueuesOK
  <2>2. /\ Elsewhere(G, ResetQueues(G, s), s)
        /\ ResetQueues(G, s).peers[s] = EmptyQueues(G.peers[s])
        /\ ResetQueues(G, s).peers[s].state = G.peers[s].state
        /\ ResetQueues(G, s).peers[s].needsDispatch = FALSE
    BY <2>0, ResetQueuesEffect
  <2> QED BY <1>5, <1>8, <2>1, <2>2
<1> HIDE DEF F
<1>10. Elsewhere(H, F, s)
  BY <1>7, <1>8, <1>9, ElsewhereTwice
<1> QED BY <1>3, <1>6, <1>9, <1>10 DEF F

\* Queuing a command keeps the state of its peer and the other peers.
LEMMA QueueOutgoingEffect ==
    ASSUME NEW n \in Nat, NEW H, HostOK(n, H), NEW s \in 1 .. n, NEW c \in Commands
    PROVE  /\ Elsewhere(H, QueueOutgoing(H, s, c), s)
           /\ QueueOutgoing(H, s, c).peers[s].state = H.peers[s].state
<1>1. H \in HostRecords(n)
  BY HostShape
<1>2. QueueOutgoing(H, s, c).peers[s].state = H.peers[s].state
  BY QueueOutgoingOK
<1> DEFINE peer == Numbered(H.peers[s], c)
           command == [c EXCEPT !.seq = NumberOf(peer, c)]
           queued == IF c.reliable
                     THEN [peer EXCEPT !.outgoingReliable = Append(@, command)]
                     ELSE [peer EXCEPT !.outgoingUnreliable = Append(@, command)]
<1>3. QueueOutgoing(H, s, c) = [H EXCEPT !.peers[s] = queued]
  BY DEF QueueOutgoing
<1> HIDE DEF queued
<1>4. [H EXCEPT !.peers[s] = queued].peers = [H.peers EXCEPT ![s] = queued]
  BY <1>1 DEF HostRecords
<1> QED BY <1>1, <1>2, <1>3, <1>4, ElsewhereOf

\* enet_peer_disconnect changes the state of a connected peer only, before what its
\* caller does to a peer that is still shaking hands.
LEMMA DisconnectEffect ==
    ASSUME NEW n \in Nat, NEW H, HostOK(n, H), NEW s \in 1 .. n
    PROVE  /\ Elsewhere(H, Disconnect(H, s), s)
           /\ Disconnect(H, s).peers[s].state
                 = IF H.peers[s].state \in Counted THEN DISCONNECTING ELSE H.peers[s].state
<1> DEFINE wasCounted == H.peers[s].state \in Counted
           c == Command("DISCONNECT", ControlChannel, wasCounted)
           G == ResetQueues(H, s)
           queued == QueueOutgoing(G, s, c)
           peer == [queued.peers[s] EXCEPT !.state = DISCONNECTING]
           closing == [OnDisconnect(queued, s) EXCEPT !.peers[s] = peer]
<1>1. c \in Commands
  <2>1. wasCounted \in BOOLEAN /\ "DISCONNECT" \in CommandTypes
    BY DEF CommandTypes
  <2> HIDE DEF wasCounted
  <2> QED BY <2>1, CommandType
<1>2. HostOK(n, G) /\ Elsewhere(H, G, s) /\ G.peers[s].state = H.peers[s].state
  <2>1. HostOK(n, ResetQueues(H, s))
    BY ResetQueuesOK
  <2>2. /\ Elsewhere(H, ResetQueues(H, s), s)
        /\ ResetQueues(H, s).peers[s].state = H.peers[s].state
    BY ResetQueuesEffect
  <2> QED BY <2>1, <2>2
<1>3. H.peers[s].state \in NoDisconnectFrom => ~wasCounted
  BY DEF NoDisconnectFrom, Counted, DISCONNECTING, DISCONNECTED, ACKNOWLEDGING_DISCONNECT,
     ZOMBIE, CONNECTED, DISCONNECT_LATER
<1>4. Disconnect(H, s) = IF H.peers[s].state \in NoDisconnectFrom THEN H
                         ELSE IF wasCounted
                         THEN [OnDisconnect(queued, s) EXCEPT !.peers[s].state = DISCONNECTING]
                         ELSE queued
  BY DEF Disconnect
<1> HIDE DEF c, G
<1>5. HostOK(n, queued) /\ Elsewhere(G, queued, s) /\ queued.peers[s].state = H.peers[s].state
  BY <1>1, <1>2, QueueOutgoingOK, QueueOutgoingEffect
<1> HIDE DEF queued
<1>6. Elsewhere(H, queued, s)
  BY <1>2, <1>5, ElsewhereTwice
<1>7. queued.peers[s] \in Peers /\ queued \in HostRecords(n)
  BY <1>5, HostShape
<1>8. DISCONNECTING \in PeerStates /\ DISCONNECTING \notin Counted
  BY DEF DISCONNECTING, PeerStates, Counted, CONNECTED, DISCONNECT_LATER
<1>9. /\ peer \in Peers /\ peer.state = DISCONNECTING
      /\ peer.needsDispatch = queued.peers[s].needsDispatch
  BY <1>7, <1>8 DEF Peers
<1>10. OnDisconnect(queued, s).peers = queued.peers
  BY <1>7, CounterMoves
<1>11. [OnDisconnect(queued, s) EXCEPT !.peers[s].state = DISCONNECTING] = closing
  BY <1>10
<1> HIDE DEF peer
<1>12. HostOK(n, closing) /\ closing.peers = [queued.peers EXCEPT ![s] = peer]
  BY <1>5, <1>8, <1>9, UncountedOK
<1> HIDE DEF closing
<1>13. Elsewhere(queued, closing, s) /\ closing.peers[s] = peer
  BY <1>7, <1>12, ElsewhereOf
<1>14. Elsewhere(H, closing, s)
  BY <1>5, <1>6, <1>12, <1>13, ElsewhereTwice
<1>15. Elsewhere(H, H, s)
  BY DEF Elsewhere
<1> QED BY <1>3, <1>4, <1>5, <1>6, <1>9, <1>11, <1>13, <1>14, <1>15

\* Queuing a received packet keeps the state of its peer and the other peers.
LEMMA QueueIncomingReliableEffect ==
    ASSUME NEW n \in Nat, NEW H, HostOK(n, H), NEW s \in 1 .. n, NEW m \in Nat
    PROVE  /\ Elsewhere(H, QueueIncomingReliable(H, s, m), s)
           /\ QueueIncomingReliable(H, s, m).peers[s].state = H.peers[s].state
<1> DEFINE old == H.peers[s]
           count == Deliverable(old, m)
           ready == [i \in 1 .. count |-> old.channelIn + i]
           held == {k \in old.channelQueue \cup {m} : k > old.channelIn + count}
           in == old.channelIn + count
           delivered == old.dispatched \o ready
           peer == [old EXCEPT !.channelQueue = held, !.channelIn = in,
                               !.dispatched = delivered]
           taken == [H EXCEPT !.peers[s] = peer]
<1>1. H \in HostRecords(n) /\ old \in Peers
  BY HostShape
<1>2. QueueIncomingReliable(H, s, m) \in {H, taken, EnterDispatchQueue(taken, s)}
  BY DEF QueueIncomingReliable
<1>3. old.channelIn \in Nat /\ old.channelQueue \in Arrivals /\ old.dispatched \in Seq(Nat)
  BY <1>1 DEF Peers
<1>4. count \in Nat
  BY <1>1, DeliverableType
<1> HIDE DEF count
<1>5. ready \in Seq(Nat)
  <2>1. ready \in [1 .. count -> Nat]
    BY <1>3, <1>4
  <2> QED BY <2>1, <1>4, SeqDef
<1>6. delivered \in Seq(Nat)
  BY <1>3, <1>5, ConcatProperties
<1>7. in \in Nat
  BY <1>3, <1>4
<1>8. held \in Arrivals
  <2>1. IsFiniteSet(old.channelQueue \cup {m})
    BY <1>3, FS_AddElement DEF Arrivals
  <2>2. IsFiniteSet(held)
    BY <2>1, FS_Subset
  <2> QED BY <2>2, <1>3 DEF Arrivals
<1> HIDE DEF held, in, delivered
<1>9. /\ peer \in Peers /\ peer.state = old.state
      /\ peer.needsDispatch = old.needsDispatch
  BY <1>1, <1>6, <1>7, <1>8 DEF Peers
<1> HIDE DEF peer
<1>10. HostOK(n, taken) /\ taken.peers = [H.peers EXCEPT ![s] = peer]
  BY <1>1, <1>9, PeerUpdated, SetPeer
<1> HIDE DEF taken
<1>11. Elsewhere(H, taken, s) /\ taken.peers[s] = peer
  BY <1>1, <1>10, ElsewhereOf
<1>12. /\ HostOK(n, EnterDispatchQueue(taken, s))
       /\ Elsewhere(taken, EnterDispatchQueue(taken, s), s)
       /\ EnterDispatchQueue(taken, s).peers[s].state = old.state
  <2>0. HostOK(n, taken)
    BY <1>10
  <2>1. HostOK(n, EnterDispatchQueue(taken, s))
    BY <2>0, EnterDispatchQueueOK
  <2>2. /\ Elsewhere(taken, EnterDispatchQueue(taken, s), s)
        /\ EnterDispatchQueue(taken, s).peers[s] = [taken.peers[s] EXCEPT !.needsDispatch = TRUE]
        /\ EnterDispatchQueue(taken, s).peers[s].state = taken.peers[s].state
        /\ EnterDispatchQueue(taken, s).peers[s].needsDispatch = TRUE
    BY <2>0, EnterDispatchQueueEffect
  <2> QED BY <1>9, <1>11, <2>1, <2>2
<1>13. Elsewhere(H, EnterDispatchQueue(taken, s), s)
  BY <1>10, <1>11, <1>12, ElsewhereTwice
<1>14. Elsewhere(H, H, s)
  BY DEF Elsewhere
<1> HIDE DEF old
<1> QED BY <1>2, <1>9, <1>11, <1>12, <1>13, <1>14 DEF old

---------------------------------------------------------------------------
(* What the functions do to the queues of a peer                              *)

\* Both are one connection with the same host.
SameLink(p, q) == q.connectID = p.connectID /\ q.address = p.address

\* The peer has nothing to send and nothing to deliver.
Bare(peer) ==
    /\ peer.outgoingReliable = <<>> /\ peer.sentReliable = <<>>
    /\ peer.outgoingUnreliable = <<>> /\ peer.acknowledgements = <<>>
    /\ peer.dispatched = <<>>

\* enet_peer_reset_queues and enet_peer_reset leave nothing behind.
LEMMA BareAfterReset ==
    ASSUME NEW peer \in Peers
    PROVE  /\ Bare(EmptyQueues(peer)) /\ SameLink(peer, EmptyQueues(peer))
           /\ Bare(Freed(peer)) /\ Freed(peer).state = DISCONNECTED
<1>1. ASSUME NEW p \in Peers PROVE Bare(EmptyQueues(p)) /\ SameLink(p, EmptyQueues(p))
  BY <1>1 DEF EmptyQueues, Bare, SameLink, Peers
<1> DEFINE p == [peer EXCEPT !.outgoingPeerID = NoPeer, !.connectID = 0,
                             !.state = DISCONNECTED, !.address = NoHost,
                             !.outgoingSeq = 0]
<1>2. p \in Peers /\ p.state = DISCONNECTED
  <2>1. DISCONNECTED \in PeerStates /\ NoPeer \in Nat
    BY DEF DISCONNECTED, PeerStates, NoPeer
  <2> QED BY <2>1 DEF Peers
<1>3. Freed(peer) = EmptyQueues(p)
  BY DEF Freed
<1> HIDE DEF p
<1> QED BY <1>1, <1>2, <1>3, EmptyQueuesType

\* The command as it is queued.
Stamped(peer, c) == [c EXCEPT !.seq = NumberOf(Numbered(peer, c), c)]

\* A queued command is the last of its queue; nothing else of the peer changes.
LEMMA QueueOutgoingPeer ==
    ASSUME NEW n \in Nat, NEW H, HostOK(n, H), NEW s \in 1 .. n, NEW c \in Commands,
           NEW old, old = H.peers[s], NEW new, new = QueueOutgoing(H, s, c).peers[s]
    PROVE  /\ new.state = old.state /\ SameLink(old, new)
           /\ new.needsDispatch = old.needsDispatch
           /\ new.dispatched = old.dispatched
           /\ new.acknowledgements = old.acknowledgements
           /\ new.sentReliable = old.sentReliable
           /\ Stamped(old, c) \in Commands /\ Stamped(old, c).type = c.type
           /\ new.outgoingReliable
                 = IF c.reliable THEN Append(old.outgoingReliable, Stamped(old, c))
                   ELSE old.outgoingReliable
<1> DEFINE peer == Numbered(old, c)
           command == [c EXCEPT !.seq = NumberOf(peer, c)]
           queued == IF c.reliable
                     THEN [peer EXCEPT !.outgoingReliable = Append(@, command)]
                     ELSE [peer EXCEPT !.outgoingUnreliable = Append(@, command)]
<1>1. H \in HostRecords(n) /\ old \in Peers
  BY HostShape
<1>2. peer \in Peers /\ NumberOf(peer, c) \in Nat
  BY <1>1, NumberedType
<1>3. /\ peer.state = old.state /\ SameLink(old, peer)
      /\ peer.needsDispatch = old.needsDispatch /\ peer.dispatched = old.dispatched
      /\ peer.acknowledgements = old.acknowledgements
      /\ peer.sentReliable = old.sentReliable
      /\ peer.outgoingReliable = old.outgoingReliable
  BY <1>1 DEF Numbered, Peers, SameLink
<1>4. QueueOutgoing(H, s, c) = [H EXCEPT !.peers[s] = queued]
  BY DEF QueueOutgoing
<1> HIDE DEF peer
<1>5. command \in Commands /\ command.type = c.type
  BY <1>2 DEF Commands
<1>a. command = Stamped(old, c)
  BY DEF Stamped, peer
<1> HIDE DEF command
<1>6. new = queued
  BY <1>1, <1>4 DEF HostRecords
<1>7. CASE c.reliable
  <2>1. new = [peer EXCEPT !.outgoingReliable = Append(peer.outgoingReliable, command)]
    BY <1>6, <1>7
  <2>2. /\ new.state = old.state /\ SameLink(old, new)
        /\ new.needsDispatch = old.needsDispatch
        /\ new.dispatched = old.dispatched
        /\ new.acknowledgements = old.acknowledgements
        /\ new.sentReliable = old.sentReliable
        /\ new.outgoingReliable = Append(old.outgoingReliable, command)
    BY <1>2, <1>3, <2>1 DEF Peers, SameLink
  <2> QED BY <1>5, <1>a, <1>7, <2>2
<1>8. CASE ~ c.reliable
  <2>1. new = [peer EXCEPT !.outgoingUnreliable = Append(peer.outgoingUnreliable, command)]
    BY <1>6, <1>8
  <2>2. /\ new.state = old.state /\ SameLink(old, new)
        /\ new.needsDispatch = old.needsDispatch
        /\ new.dispatched = old.dispatched
        /\ new.acknowledgements = old.acknowledgements
        /\ new.sentReliable = old.sentReliable
        /\ new.outgoingReliable = old.outgoingReliable
    BY <1>2, <1>3, <2>1 DEF Peers, SameLink
  <2> QED BY <1>5, <1>a, <1>8, <2>2
<1> QED BY <1>7, <1>8

\* The peer has one more command to acknowledge; nothing else of it changes.
Owes(old, new, c) ==
    /\ old.acknowledgements \in Seq(Commands)
    /\ new.acknowledgements = Append(old.acknowledgements, c)
    /\ SameLink(old, new) /\ new.state = old.state
    /\ new.needsDispatch = old.needsDispatch /\ new.dispatched = old.dispatched
    /\ new.outgoingReliable = old.outgoingReliable
    /\ new.sentReliable = old.sentReliable
    /\ new.outgoingUnreliable = old.outgoingUnreliable

\* A queued acknowledgement is the last of its queue.
LEMMA QueueAcknowledgementPeer ==
    ASSUME NEW n \in Nat, NEW H, HostOK(n, H), NEW s \in 1 .. n, NEW c \in Commands,
           NEW old, old = H.peers[s], NEW new, new = QueueAcknowledgement(H, s, c).peers[s]
    PROVE  /\ Elsewhere(H, QueueAcknowledgement(H, s, c), s)
           /\ Owes(old, new, c)
<1> DEFINE peer == [old EXCEPT !.acknowledgements = Append(old.acknowledgements, c)]
<1>1. H \in HostRecords(n) /\ old \in Peers
  BY HostShape
<1>2. peer \in Peers
  <2>1. old.acknowledgements \in Seq(Commands)
    BY <1>1 DEF Peers
  <2>2. Append(old.acknowledgements, c) \in Seq(Commands)
    BY <2>1, AppendProperties
  <2> QED BY <1>1, <2>2 DEF Peers
<1>3. QueueAcknowledgement(H, s, c) = [H EXCEPT !.peers[s] = peer]
  BY DEF QueueAcknowledgement
<1>a. /\ peer.acknowledgements = Append(old.acknowledgements, c)
      /\ SameLink(old, peer) /\ peer.state = old.state
      /\ peer.needsDispatch = old.needsDispatch /\ peer.dispatched = old.dispatched
      /\ peer.outgoingReliable = old.outgoingReliable
      /\ peer.sentReliable = old.sentReliable
      /\ peer.outgoingUnreliable = old.outgoingUnreliable
  BY <1>1 DEF Peers, SameLink
<1>b. old.acknowledgements \in Seq(Commands)
  BY <1>1 DEF Peers
<1> HIDE DEF peer
<1>4. QueueAcknowledgement(H, s, c).peers = [H.peers EXCEPT ![s] = peer]
  BY <1>1, <1>3 DEF HostRecords
<1>5. Elsewhere(H, QueueAcknowledgement(H, s, c), s) /\ new = peer
  BY <1>1, <1>4, ElsewhereOf
<1> QED BY <1>a, <1>b, <1>5 DEF Owes

\* An acknowledgement takes at most a command in flight.
LEMMA RemoveSentReliablePeer ==
    ASSUME NEW n \in Nat, NEW H, HostOK(n, H), NEW s \in 1 .. n, NEW ack,
           NEW old, old = H.peers[s], NEW new, new = RemoveSentReliable(H, s, ack).peers[s]
    PROVE  /\ Elsewhere(H, RemoveSentReliable(H, s, ack), s)
           /\ ~ HasAcked(old.sentReliable, ack) => RemoveSentReliable(H, s, ack) = H
           /\ new.state = old.state /\ SameLink(old, new)
           /\ new.needsDispatch = old.needsDispatch
           /\ new.dispatched = old.dispatched
           /\ new.acknowledgements = old.acknowledgements
           /\ new.outgoingReliable = old.outgoingReliable
           /\ new.outgoingUnreliable = old.outgoingUnreliable
<1> DEFINE k == AckedAt(old.sentReliable, ack)
           rest == RemoveAt(old.sentReliable, k)
           peer == [old EXCEPT !.sentReliable = rest]
<1>1. H \in HostRecords(n) /\ old \in Peers
  BY HostShape
<1>2. CASE ~ HasAcked(old.sentReliable, ack)
  <2>1. RemoveSentReliable(H, s, ack) = H
    BY <1>2 DEF RemoveSentReliable
  <2> QED BY <2>1 DEF Elsewhere, SameLink
<1>3. CASE HasAcked(old.sentReliable, ack)
  <2>1. RemoveSentReliable(H, s, ack) = [H EXCEPT !.peers[s] = peer]
    BY <1>3 DEF RemoveSentReliable
  <2> HIDE DEF rest
  <2>2. /\ peer.state = old.state /\ SameLink(old, peer)
        /\ peer.needsDispatch = old.needsDispatch
        /\ peer.dispatched = old.dispatched
        /\ peer.acknowledgements = old.acknowledgements
        /\ peer.outgoingReliable = old.outgoingReliable
        /\ peer.outgoingUnreliable = old.outgoingUnreliable
    BY <1>1 DEF Peers, SameLink
  <2> HIDE DEF peer
  <2>3. RemoveSentReliable(H, s, ack).peers = [H.peers EXCEPT ![s] = peer]
    BY <1>1, <2>1 DEF HostRecords
  <2>4. Elsewhere(H, RemoveSentReliable(H, s, ack), s) /\ new = peer
    BY <1>1, <2>3, ElsewhereOf
  <2> QED BY <1>3, <2>2, <2>4
<1> QED BY <1>2, <1>3

\* The reliable commands of a peer are all of one type, and there is at least one.
OnlyOf(peer, type) ==
    /\ peer.outgoingReliable # <<>> \/ peer.sentReliable # <<>>
    /\ \A i \in 1 .. Len(peer.outgoingReliable) : peer.outgoingReliable[i].type = type
    /\ \A i \in 1 .. Len(peer.sentReliable) : peer.sentReliable[i].type = type

\* A command appended to empty queues is alone there.
LEMMA AloneInQueue ==
    ASSUME NEW peer, NEW command \in Commands, peer.sentReliable = <<>>,
           peer.outgoingReliable = Append(<<>>, command)
    PROVE  OnlyOf(peer, command.type)
<1>1. peer.outgoingReliable = <<command>>
  OBVIOUS
<1> QED BY <1>1 DEF OnlyOf

\* A DISCONNECT queued by the program or the library follows a reset of the queues.
LEMMA DisconnectQueued ==
    ASSUME NEW n \in Nat, NEW H, HostOK(n, H), NEW s \in 1 .. n, NEW reliable \in BOOLEAN,
           NEW old, old = H.peers[s], NEW G,
           G = QueueOutgoing(ResetQueues(H, s), s,
                   Command("DISCONNECT", ControlChannel, reliable)),
           NEW new, new = G.peers[s]
    PROVE  /\ HostOK(n, G) /\ Elsewhere(H, G, s)
           /\ new.state = old.state /\ SameLink(old, new)
           /\ new.dispatched = <<>> /\ ~ new.needsDispatch
           /\ reliable => OnlyOf(new, "DISCONNECT")
<1> DEFINE F == ResetQueues(H, s)
           c == Command("DISCONNECT", ControlChannel, reliable)
<1>1. old \in Peers
  BY HostShape
<1>2. HostOK(n, F) /\ Elsewhere(H, F, s) /\ F.peers[s] = EmptyQueues(old)
  <2>1. HostOK(n, ResetQueues(H, s))
    BY ResetQueuesOK
  <2>2. /\ Elsewhere(H, ResetQueues(H, s), s)
        /\ ResetQueues(H, s).peers[s] = EmptyQueues(H.peers[s])
    BY ResetQueuesEffect
  <2> QED BY <2>1, <2>2
<1>3. c \in Commands
  BY CommandType DEF CommandTypes
<1>4. c.reliable = reliable /\ c.type = "DISCONNECT"
  BY DEF Command
<1>5. Bare(F.peers[s]) /\ SameLink(old, F.peers[s]) /\ ~ F.peers[s].needsDispatch
      /\ F.peers[s].state = old.state
  BY <1>1, <1>2, BareAfterReset, EmptyQueuesType
<1> HIDE DEF F, c
<1>6. G = QueueOutgoing(F, s, c)
  BY DEF F, c
<1>7. HostOK(n, G) /\ Elsewhere(F, G, s)
  BY <1>2, <1>3, <1>6, QueueOutgoingOK, QueueOutgoingEffect
<1>8. Elsewhere(H, G, s)
  BY <1>2, <1>7, ElsewhereTwice
<1> DEFINE mid == F.peers[s]
<1>a. mid = F.peers[s] /\ new = QueueOutgoing(F, s, c).peers[s] /\ HostOK(n, F)
  BY <1>2, <1>6
<1> HIDE DEF mid
<1>b. /\ new.state = mid.state /\ SameLink(mid, new)
      /\ new.needsDispatch = mid.needsDispatch
  BY <1>3, <1>a, QueueOutgoingPeer
<1>c. /\ new.dispatched = mid.dispatched
      /\ new.sentReliable = mid.sentReliable
  BY <1>3, <1>a, QueueOutgoingPeer
<1> DEFINE stamped == Stamped(mid, c)
<1>d. /\ stamped \in Commands /\ stamped.type = c.type
  BY <1>3, <1>a, QueueOutgoingPeer
<1>9. new.outgoingReliable
        = IF c.reliable THEN Append(mid.outgoingReliable, stamped) ELSE mid.outgoingReliable
  BY <1>3, <1>a, QueueOutgoingPeer
<1> HIDE DEF stamped
<1>10. /\ Bare(mid) /\ SameLink(old, mid) /\ ~ mid.needsDispatch /\ mid.state = old.state
  BY <1>5 DEF mid
<1>11. ASSUME reliable PROVE OnlyOf(new, "DISCONNECT")
  <2>1. new.outgoingReliable = Append(<<>>, stamped)
    BY <1>4, <1>9, <1>10, <1>11 DEF Bare
  <2>2. new.sentReliable = <<>>
    BY <1>c, <1>10 DEF Bare
  <2> QED BY <1>4, <1>d, <2>1, <2>2, AloneInQueue
<1> QED BY <1>7, <1>8, <1>b, <1>c, <1>10, <1>11 DEF SameLink, Bare

\* enet_peer_disconnect leaves a connected peer with a DISCONNECT in its queue and one
\* that is still shaking hands with nothing to deliver.
LEMMA DisconnectPeerEffect ==
    ASSUME NEW n \in Nat, NEW H, HostOK(n, H), NEW s \in 1 .. n,
           NEW old, old = H.peers[s], old.state \notin NoDisconnectFrom,
           NEW new, new = Disconnect(H, s).peers[s]
    PROVE  /\ SameLink(old, new) /\ new.dispatched = <<>>
           /\ old.state \in Counted => OnlyOf(new, "DISCONNECT")
<1> DEFINE counted == old.state \in Counted
           c == Command("DISCONNECT", ControlChannel, counted)
           G == QueueOutgoing(ResetQueues(H, s), s, c)
           closing == [OnDisconnect(G, s) EXCEPT !.peers[s].state = DISCONNECTING]
           mid == G.peers[s]
<1>1. Disconnect(H, s) = IF counted THEN closing ELSE G
  BY DEF Disconnect
<1>2. counted \in BOOLEAN
  OBVIOUS
<1> HIDE DEF counted
<1>3. /\ HostOK(n, G) /\ Elsewhere(H, G, s)
      /\ mid.state = old.state /\ SameLink(old, mid)
      /\ mid.dispatched = <<>> /\ ~ mid.needsDispatch
      /\ counted => OnlyOf(mid, "DISCONNECT")
  BY <1>2, DisconnectQueued
<1> HIDE DEF G
<1>4. G \in HostRecords(n) /\ mid \in Peers
  BY <1>3, HostShape
<1> DEFINE peer == [mid EXCEPT !.state = DISCONNECTING]
<1>5. /\ SameLink(mid, peer) /\ peer.dispatched = mid.dispatched
      /\ peer.outgoingReliable = mid.outgoingReliable
      /\ peer.sentReliable = mid.sentReliable
  BY <1>4 DEF Peers, SameLink
<1>6. OnDisconnect(G, s).peers = G.peers /\ OnDisconnect(G, s) \in HostRecords(n)
  <2>1. OnDisconnect(G, s).peers = G.peers
    BY <1>4, CounterMoves
  <2> QED BY <1>4, <2>1 DEF OnDisconnect, HostRecords
<1>7. closing.peers[s] = peer
  BY <1>4, <1>6 DEF HostRecords
<1> HIDE DEF peer, closing, mid
<1>8. CASE counted
  BY <1>1, <1>3, <1>5, <1>7, <1>8 DEF SameLink, OnlyOf, counted
<1>9. CASE ~ counted
  BY <1>1, <1>3, <1>9 DEF mid, counted
<1> QED BY <1>8, <1>9

\* A reliable packet taken in: what is queued for the program is queued for dispatch.
LEMMA QueueIncomingReliablePeer ==
    ASSUME NEW n \in Nat, NEW H, HostOK(n, H), NEW s \in 1 .. n, NEW m \in Nat,
           NEW old, old = H.peers[s], NEW new, new = QueueIncomingReliable(H, s, m).peers[s]
    PROVE  /\ SameLink(old, new)
           /\ new.outgoingReliable = old.outgoingReliable
           /\ new.sentReliable = old.sentReliable
           /\ new.outgoingUnreliable = old.outgoingUnreliable
           /\ new.acknowledgements = old.acknowledgements
           /\ \/ new.needsDispatch
              \/ new.needsDispatch = old.needsDispatch /\ new.dispatched = old.dispatched
<1> DEFINE count == Deliverable(old, m)
           ready == [i \in 1 .. count |-> old.channelIn + i]
           held == {k \in old.channelQueue \cup {m} : k > old.channelIn + count}
           in == old.channelIn + count
           delivered == old.dispatched \o ready
           peer == [old EXCEPT !.channelQueue = held, !.channelIn = in,
                               !.dispatched = delivered]
           taken == [H EXCEPT !.peers[s] = peer]
<1>1. H \in HostRecords(n) /\ old \in Peers
  BY HostShape
<1>2. QueueIncomingReliable(H, s, m)
         \in {H, EnterDispatchQueue(taken, s)} \cup (IF count = 0 THEN {taken} ELSE {})
  BY DEF QueueIncomingReliable
<1>3. old.channelIn \in Nat /\ old.channelQueue \in Arrivals /\ old.dispatched \in Seq(Nat)
  BY <1>1 DEF Peers
<1>4. count \in Nat
  BY <1>1, DeliverableType
<1> HIDE DEF count
<1>5. ready \in Seq(Nat) /\ (count = 0 => ready = <<>>)
  <2>1. ready \in [1 .. count -> Nat]
    BY <1>3, <1>4, SMTT(30)
  <2>2. count = 0 => 1 .. count = {}
    OBVIOUS
  <2>3. count = 0 => ready = <<>>
    BY <2>1, <2>2
  <2> QED BY <2>1, <2>3, <1>4, SeqDef
<1>6. delivered \in Seq(Nat) /\ (count = 0 => delivered = old.dispatched)
  BY <1>3, <1>5, ConcatProperties, ConcatEmptySeq
<1>7. in \in Nat
  BY <1>3, <1>4
<1>8. held \in Arrivals
  <2>1. IsFiniteSet(old.channelQueue \cup {m})
    BY <1>3, FS_AddElement DEF Arrivals
  <2>2. IsFiniteSet(held)
    BY <2>1, FS_Subset
  <2> QED BY <2>2, <1>3 DEF Arrivals
<1> HIDE DEF held, in, delivered
<1>9. /\ peer \in Peers /\ peer.state = old.state
      /\ peer.needsDispatch = old.needsDispatch
      /\ SameLink(old, peer) /\ peer.dispatched = delivered
      /\ peer.outgoingReliable = old.outgoingReliable
      /\ peer.sentReliable = old.sentReliable
      /\ peer.outgoingUnreliable = old.outgoingUnreliable
      /\ peer.acknowledgements = old.acknowledgements
  BY <1>1, <1>6, <1>7, <1>8 DEF Peers, SameLink
<1> HIDE DEF peer
<1>10. HostOK(n, taken) /\ taken.peers = [H.peers EXCEPT ![s] = peer]
  BY <1>1, <1>9, PeerUpdated, SetPeer
<1> HIDE DEF taken
<1>11. taken.peers[s] = peer
  BY <1>1, <1>10, ElsewhereOf
<1>12. EnterDispatchQueue(taken, s).peers[s] = [peer EXCEPT !.needsDispatch = TRUE]
  <2>1. HostOK(n, taken)
    BY <1>10
  <2>2. /\ Elsewhere(taken, EnterDispatchQueue(taken, s), s)
        /\ EnterDispatchQueue(taken, s).peers[s] = [taken.peers[s] EXCEPT !.needsDispatch = TRUE]
        /\ EnterDispatchQueue(taken, s).peers[s].state = taken.peers[s].state
        /\ EnterDispatchQueue(taken, s).peers[s].needsDispatch = TRUE
    BY <2>1, EnterDispatchQueueEffect
  <2> QED BY <1>11, <2>2
<1> DEFINE entered == [peer EXCEPT !.needsDispatch = TRUE]
<1>13. /\ SameLink(peer, entered) /\ entered.needsDispatch
       /\ entered.outgoingReliable = peer.outgoingReliable
       /\ entered.sentReliable = peer.sentReliable
       /\ entered.outgoingUnreliable = peer.outgoingUnreliable
       /\ entered.acknowledgements = peer.acknowledgements
  BY <1>9 DEF Peers, SameLink
<1>14. \/ new = old
       \/ new = peer /\ count = 0
       \/ new = entered
  BY <1>2, <1>11, <1>12
<1> HIDE DEF entered
<1> QED BY <1>6, <1>9, <1>13, <1>14 DEF SameLink
=============================================================================
