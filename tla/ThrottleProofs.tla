---------------------------- MODULE ThrottleProofs ----------------------------
(* Proofs about Throttle for all values of its constants: the counter that    *)
(* decides whether the rounds of the throttle run at all is exact, no peer is *)
(* throttled past its limit, and what the rounds share out fits what there is *)
(* to share.                                                                  *)
EXTENDS Throttle, NumberLemmas, SumLemmas, FiniteSetTheorems, TLAPS

\* The connected peers that have a limit.
Limited == {p \in Open : incoming[p] # 0}

\* What peer p counts for.
Counts(p) == IF p \in Limited THEN 1 ELSE 0

\* Types that the counter depends on.
CountType ==
    /\ state \in [Peers -> {"free", "pending", "open", "closing"}]
    /\ incoming \in [Peers -> Word]

CountInv == CountType /\ LimitedExact

\* There is a word.
LEMMA ZeroIsWord == 0 \in Word
BY ScaleAssumption, WordAssumption DEF Word

\* The cardinality of a set of which one element comes or goes.
LEMMA OneElement ==
    ASSUME NEW S, NEW T, NEW x, IsFiniteSet(S), T \ {x} = S \ {x}
    PROVE  /\ Cardinality(S) \in Nat
           /\ Cardinality(T) = Cardinality(S) - (IF x \in S THEN 1 ELSE 0)
                                              + (IF x \in T THEN 1 ELSE 0)
<1>1. Cardinality(S) \in Nat
  BY FS_CardinalityType
<1>2. CASE x \in S <=> x \in T
  <2>1. S = T
    BY <1>2
  <2> QED
    BY <2>1, <1>1, <1>2
<1>3. CASE x \in S /\ x \notin T
  <2>1. T = S \ {x}
    BY <1>3
  <2>2. Cardinality(T) = Cardinality(S) - 1
    BY <2>1, <1>3, FS_RemoveElement
  <2> QED
    BY <2>2, <1>1, <1>3
<1>4. CASE x \notin S /\ x \in T
  <2>1. T = S \cup {x}
    BY <1>4
  <2>2. Cardinality(T) = Cardinality(S) + 1
    BY <2>1, <1>4, FS_AddElement
  <2> QED
    BY <2>2, <1>1, <1>4
<1> QED
  BY <1>2, <1>3, <1>4

\* A step that changes one peer and moves the counter by what this peer counts for
\* keeps it exact.
LEMMA CountStep ==
    ASSUME CountInv, NEW p \in Peers, CountType',
           \A q \in Peers \ {p} : state'[q] = state[q] /\ incoming'[q] = incoming[q],
           limitedPeers' = limitedPeers - Counts(p) + Counts(p)'
    PROVE  CountInv'
<1>1. Limited' \ {p} = Limited \ {p}
  BY DEF Limited, Open
<1>2. IsFiniteSet(Limited)
  <2>1. Limited \in SUBSET Peers
    BY DEF Limited, Open
  <2> QED
    BY <2>1, PeersAssumption, FS_Subset
<1> DEFINE S == Limited
           T == Limited'
<1>3. Cardinality(T) = Cardinality(S) - (IF p \in S THEN 1 ELSE 0)
                                      + (IF p \in T THEN 1 ELSE 0)
  <2> HIDE DEF S, T
  <2>1. IsFiniteSet(S) /\ T \ {p} = S \ {p}
    BY <1>1, <1>2 DEF S, T
  <2> QED
    BY <2>1, OneElement
<1>4. limitedPeers = Cardinality(S)
  BY DEF CountInv, LimitedExact, Limited
<1>5. limitedPeers' = Cardinality(T)
  BY <1>3, <1>4 DEF Counts
<1> QED
  BY <1>5 DEF CountInv, LimitedExact, Limited

\* The counter is a natural number.
LEMMA LimitedNat == ASSUME CountInv PROVE limitedPeers \in Nat
<1>1. Limited \in SUBSET Peers
  BY DEF Limited, Open
<1>2. IsFiniteSet(Limited)
  BY <1>1, PeersAssumption, FS_Subset
<1> QED
  BY <1>2, FS_CardinalityType DEF CountInv, LimitedExact, Limited

\* What LeftBy and Weight say is what a peer counts for.
LEMMA WeightCounts ==
    ASSUME CountType, NEW p \in Peers
    PROVE  /\ Counts(p) = LeftBy(p)
           /\ state[p] = "open" => Counts(p) = Weight(incoming[p])
BY DEF CountType, Counts, LeftBy, Weight, Limited, Open

-----------------------------------------------------------------------------
(* The actions.                                                               *)

\* Nobody is connected at first.
LEMMA InitCounts == Init => CountInv
<1> SUFFICES ASSUME Init PROVE CountInv
  OBVIOUS
<1>1. 0 \in Word
  BY ZeroIsWord
<1>2. CountType
  BY <1>1 DEF Init, CountType
<1>3. Limited = {}
  BY DEF Init, Limited, Open
<1>4. Cardinality({}) = 0
  BY FS_EmptySet
<1> QED
  BY <1>2, <1>3, <1>4 DEF Init, CountInv, LimitedExact, Limited

\* A new connection counts at once, if it was reported at once.
LEMMA NotifyConnectCounts ==
    ASSUME CountInv, NEW p \in Peers, NEW in \in Word, NEW out, NEW event \in BOOLEAN,
           NotifyConnect(p, in, out, event)
    PROVE  CountInv'
<1>1. CountType'
  BY DEF NotifyConnect, CountInv, CountType
<1>2. \A q \in Peers \ {p} : state'[q] = state[q] /\ incoming'[q] = incoming[q]
  BY DEF NotifyConnect, CountInv, CountType
<1>3. Counts(p) = 0
  BY DEF NotifyConnect, Counts, Limited, Open
<1>4. Counts(p)' = IF event THEN Weight(in) ELSE 0
  BY DEF NotifyConnect, Counts, Limited, Open, Weight, CountInv, CountType
<1>5. limitedPeers \in Nat
  BY LimitedNat
<1>6. limitedPeers' = limitedPeers - Counts(p) + Counts(p)'
  BY <1>3, <1>4, <1>5 DEF NotifyConnect, Weight
<1> QED
  BY <1>1, <1>2, <1>6, CountStep

\* Any other connection counts when it is taken.
LEMMA DispatchCounts ==
    ASSUME CountInv, NEW p \in Peers, Dispatch(p)
    PROVE  CountInv'
<1>1. CountType'
  BY DEF Dispatch, CountInv, CountType
<1>2. \A q \in Peers \ {p} : state'[q] = state[q] /\ incoming'[q] = incoming[q]
  BY DEF Dispatch, CountInv, CountType
<1>3. Counts(p) = 0 /\ Counts(p)' = Weight(incoming[p])
  BY DEF Dispatch, Counts, Limited, Open, Weight, CountInv, CountType
<1>4. limitedPeers \in Nat
  BY LimitedNat
<1>5. limitedPeers' = limitedPeers - Counts(p) + Counts(p)'
  BY <1>3, <1>4 DEF Dispatch, Weight
<1> QED
  BY <1>1, <1>2, <1>5, CountStep

\* A peer that starts to disconnect is not counted again when it is reset.
LEMMA StartDisconnectCounts ==
    ASSUME CountInv, NEW p \in Peers, NEW byLibrary \in BOOLEAN, StartDisconnect(p, byLibrary)
    PROVE  CountInv'
<1>1. CountType'
  BY DEF StartDisconnect, CountInv, CountType
<1>2. \A q \in Peers \ {p} : state'[q] = state[q] /\ incoming'[q] = incoming[q]
  BY DEF StartDisconnect, CountInv, CountType
<1>3. Counts(p) = Weight(incoming[p]) /\ Counts(p)' = 0
  BY DEF StartDisconnect, Counts, Limited, Open, Weight, CountInv, CountType
<1>4. limitedPeers \in Nat
  BY LimitedNat
<1>5. limitedPeers' = limitedPeers - Counts(p) + Counts(p)'
  BY <1>3, <1>4 DEF StartDisconnect, Weight
<1> QED
  BY <1>1, <1>2, <1>5, CountStep

\* A peer that is reset while it is connected is counted out.
LEMMA ResetCounts ==
    ASSUME CountInv, NEW p \in Peers, NEW byLibrary \in BOOLEAN, Reset(p, byLibrary)
    PROVE  CountInv'
<1>0. 0 \in Word
  BY ZeroIsWord
<1>1. CountType'
  BY <1>0 DEF Reset, CountInv, CountType
<1>2. \A q \in Peers \ {p} : state'[q] = state[q] /\ incoming'[q] = incoming[q]
  BY DEF Reset, CountInv, CountType
<1>3. Counts(p) = LeftBy(p)
  BY WeightCounts DEF CountInv
<1>4. Counts(p)' = 0
  BY DEF Reset, Counts, Limited, Open, CountInv, CountType
<1>5. limitedPeers \in Nat /\ LeftBy(p) \in Nat
  BY LimitedNat, <1>3 DEF Counts
<1>6. limitedPeers' = limitedPeers - Counts(p) + Counts(p)'
  BY <1>3, <1>4, <1>5 DEF Reset
<1> QED
  BY <1>1, <1>2, <1>6, CountStep

\* A peer may get a limit, lose it or change it.
LEMMA HandleBandwidthLimitCounts ==
    ASSUME CountInv, NEW p \in Peers, NEW in \in Word, NEW out,
           HandleBandwidthLimit(p, in, out)
    PROVE  CountInv'
<1>1. CountType'
  BY DEF HandleBandwidthLimit, CountInv, CountType
<1>2. \A q \in Peers \ {p} : state'[q] = state[q] /\ incoming'[q] = incoming[q]
  BY DEF HandleBandwidthLimit, CountInv, CountType
<1>3. Counts(p) = Weight(incoming[p]) /\ Counts(p)' = Weight(in)
  BY DEF HandleBandwidthLimit, Counts, Limited, Open, Weight, CountInv, CountType
<1>4. limitedPeers \in Nat
  BY LimitedNat
<1>5. limitedPeers' = limitedPeers - Counts(p) + Counts(p)'
  BY <1>3, <1>4 DEF HandleBandwidthLimit, Weight
<1> QED
  BY <1>1, <1>2, <1>5, CountStep

\* Everything else leaves the peers' states, their limits and the counter alone.
LEMMA OtherStepsCount ==
    ASSUME CountInv, UNCHANGED <<state, incoming, limitedPeers>>
    PROVE  CountInv'
BY DEF CountInv, CountType, LimitedExact, Open

-----------------------------------------------------------------------------
(* The theorem.                                                               *)

\* Every step keeps the count of peers with a limit.
LEMMA NextCounts == CountInv /\ [Next]_vars => CountInv'
<1> SUFFICES ASSUME CountInv, [Next]_vars
             PROVE  CountInv'
  OBVIOUS
<1>1. \A l \in PeerLimits : l[1] \in Word
  BY WordAssumption DEF Word
<1>2. ASSUME NEW p \in Peers, NEW l \in PeerLimits, NEW event \in BOOLEAN,
             NotifyConnect(p, l[1], l[2], event)
      PROVE  CountInv'
  BY <1>1, <1>2, NotifyConnectCounts
<1>3. ASSUME NEW p \in Peers, NEW l \in PeerLimits, HandleBandwidthLimit(p, l[1], l[2])
      PROVE  CountInv'
  BY <1>1, <1>3, HandleBandwidthLimitCounts
<1>4. ASSUME NEW p \in Peers, Dispatch(p) PROVE CountInv'
  BY <1>4, DispatchCounts
<1>5. ASSUME NEW p \in Peers, NEW byLibrary \in BOOLEAN, StartDisconnect(p, byLibrary)
      PROVE  CountInv'
  BY <1>5, StartDisconnectCounts
<1>6. ASSUME NEW p \in Peers, NEW byLibrary \in BOOLEAN, Reset(p, byLibrary)
      PROVE  CountInv'
  BY <1>6, ResetCounts
<1>7. ASSUME NEW p \in Peers, NEW n \in Amounts, Send(p, n) PROVE CountInv'
  BY <1>7, OtherStepsCount DEF Send, hosts
<1>8. ASSUME NEW p \in Peers, NEW rate \in Rates, PeerThrottle(p, rate) PROVE CountInv'
  BY <1>8, OtherStepsCount DEF PeerThrottle, hosts
<1>9. ASSUME NEW l \in HostLimits, BandwidthLimit(l[1], l[2]) PROVE CountInv'
  BY <1>9, OtherStepsCount DEF BandwidthLimit, peers
<1>10. ASSUME NEW elapsed \in Elapsed, Throttled(elapsed) PROVE CountInv'
  BY <1>10, OtherStepsCount DEF Throttled
<1>11. CASE UNCHANGED vars
  BY <1>11, OtherStepsCount DEF vars, peers, hosts
<1> QED
  BY <1>2, <1>3, <1>4, <1>5, <1>6, <1>7, <1>8, <1>9, <1>10, <1>11
     DEF Next, BandwidthThrottle

\* bandwidthLimitedPeers is the number of connected peers with a limit, for every
\* number of peers and whatever limits they and the host are given: it can never
\* keep the rounds of the throttle from a peer that needs them, nor fall below 0
\* and keep them running (host.c:339, peer.c:340-362, protocol.c:776-783).
THEOREM LimitedCorrect == Spec => []LimitedExact
<1>1. CountInv => LimitedExact
  BY DEF CountInv
<1> QED
  BY InitCounts, NextCounts, <1>1, PTL DEF Spec

-----------------------------------------------------------------------------
(* A round of the throttle.                                                   *)

\* Types that the rounds depend on.
Fields ==
    /\ state \in [Peers -> {"free", "pending", "open", "closing"}]
    /\ incoming \in [Peers -> Word] /\ outgoing \in [Peers -> Word]
    /\ data \in [Peers -> Word]
    /\ throttle \in [Peers -> Word] /\ limit \in [Peers -> Word]
    /\ told \in [Peers -> Word]
    /\ hostIncoming \in Word /\ hostOutgoing \in Word

\* What every peer may be sent.
Budgets(elapsed) == [p \in Peers |-> Budget(incoming[p], elapsed)]

\* The words, and what is cut to one.
LEMMA Words ==
    /\ Modulus \in Nat \ {0}
    /\ \A w : w \in Word <=> w \in Nat /\ w < Modulus
    /\ Scale \in Nat \ {0} /\ Scale \in Word
    /\ \A n \in Int : n % Modulus \in Word
BY ScaleAssumption, WordAssumption DEF Word

\* What is cut to a word is a word no greater, and the same if it was one.
LEMMA Cut ==
    ASSUME NEW n \in Nat
    PROVE  n % Modulus \in Word /\ n % Modulus <= n /\ (n < Modulus => n % Modulus = n)
BY Words, QuotientBounds

\* There are finitely many peers, connected ones and others.
LEMMA OpenFinite ==
    ASSUME NEW S, S \subseteq Open
    PROVE  IsFiniteSet(S) /\ Cardinality(S) \in Nat
<1>1. S \in SUBSET Peers
  BY DEF Open
<1> QED BY <1>1, PeersAssumption, FS_Subset, FS_CardinalityType

\* What may be sent in some time is a word, and no more than the product.
LEMMA BudgetBounds ==
    ASSUME NEW b \in Nat, NEW e \in Nat
    PROVE  Budget(b, e) \in Word /\ Budget(b, e) <= b * e
<1>1. b * e \in Nat
  BY SMT
<1> DEFINE x == (b * e) % Modulus
<1>2. x \in Nat /\ x < Modulus /\ x <= b * e
  BY <1>1, Cut, Words
<1> HIDE DEF x
<1>3. x \div Second \in Nat /\ x \div Second <= x
  BY <1>2, ScaleAssumption, QuotientBounds
<1> QED BY <1>1, <1>2, <1>3, Words DEF Budget, x

\* The part is no more than all, and no more than the bandwidth allows.
LEMMA PartBounds ==
    ASSUME NEW b \in Word, NEW t \in Word
    PROVE  Part(b, t) \in 0 .. Scale /\ t * Part(b, t) <= b * Scale
<1>0. b \in Nat /\ t \in Nat /\ Scale \in Nat
  BY Words
<1>1. CASE t <= b
  <2>1. Scale * t <= Scale * b
    BY <1>0, <1>1, ProductGrows
  <2>2. t * Scale = Scale * t /\ b * Scale = Scale * b
    BY <1>0, SMT
  <2> QED BY <1>0, <1>1, <2>1, <2>2 DEF Part
<1>2. CASE ~(t <= b)
  <2> DEFINE n == b * Scale
             m == n % Modulus
             q == m \div t
  <2>1. n \in Nat
    BY <1>0, SMT
  <2>2. m \in Nat /\ m <= n
    BY <2>1, Cut, Words
  <2>3. t \in Nat \ {0}
    BY <1>0, <1>2
  <2>4. n <= t * Scale
    <3>1. Scale * b <= Scale * t
      BY <1>0, <1>2, ProductGrows
    <3>2. t * Scale = Scale * t /\ b * Scale = Scale * b
      BY <1>0, SMT
    <3> QED BY <3>1, <3>2
  <2>5. t * Scale \in Nat
    BY <1>0, SMT
  <2> HIDE DEF n, m
  <2>6. m <= t * Scale
    BY <2>1, <2>2, <2>4, <2>5
  <2>7. q \in Nat /\ t * q <= m /\ q <= Scale
    BY <1>0, <2>2, <2>3, <2>6, QuotientBounds
  <2>8. t * q \in Nat
    BY <1>0, <2>7, SMT
  <2>9. Part(b, t) = q
    BY <1>2 DEF Part, n, m
  <2> HIDE DEF q
  <2>10. q \in 0 .. Scale /\ t * q <= n
    BY <1>0, <2>1, <2>2, <2>7, <2>8
  <2> QED BY <2>9, <2>10 DEF n
<1> QED BY <1>1, <1>2

\* The rounds that say of every limited peer that it has a limit and would be
\* sent more than that.
CorrectRounds(elapsed) ==
    {r \in [limited : SUBSET Open, bandwidth : Word, total : Word] :
        \A p \in r.limited : /\ incoming[p] # 0
                             /\ Budget(incoming[p], elapsed) < data[p]}

\* A peer that is limited has more data than it can receive.
LEMMA OverHasData ==
    ASSUME Fields, NEW elapsed \in Nat, NEW r \in CorrectRounds(elapsed),
           NEW p \in Over(r, elapsed)
    PROVE  p \in Open /\ incoming[p] # 0 /\ Budget(incoming[p], elapsed) < data[p]
<1> DEFINE part == Part(r.bandwidth, r.total)
           n == part * data[p]
<1>1. part \in 0 .. Scale /\ data[p] \in Word /\ incoming[p] \in Word /\ p \in Open
  BY PartBounds DEF CorrectRounds, Over, Open, Fields
<1>2. (n % Modulus) \div Scale > Budget(incoming[p], elapsed) /\ incoming[p] # 0
  BY DEF Over
<1> HIDE DEF part
<1>3. part \in Nat /\ data[p] \in Nat /\ incoming[p] \in Nat /\ Scale \in Nat \ {0}
  BY <1>1, Words
<1>4. n \in Nat /\ n <= Scale * data[p] /\ Scale * data[p] \in Nat
  <2>1. data[p] * part <= data[p] * Scale /\ data[p] * part \in Nat /\ data[p] * Scale \in Nat
    BY <1>1, <1>3, ProductGrows
  <2>2. data[p] * part = n /\ data[p] * Scale = Scale * data[p]
    BY <1>3, SMT
  <2> QED BY <2>1, <2>2
<1> HIDE DEF n
<1>5. n % Modulus \in Nat /\ n % Modulus <= Scale * data[p]
  <2>1. Modulus \in Nat \ {0}
    BY Words
  <2>2. n % Modulus \in Nat /\ n % Modulus <= n
    BY <1>4, <2>1, QuotientBounds
  <2> DEFINE m == n % Modulus
  <2> SUFFICES m \in Nat /\ m <= Scale * data[p]
    OBVIOUS
  <2>3. m \in Nat /\ m <= n
    BY <2>2
  <2> HIDE DEF m
  <2> QED BY <1>4, <2>3
<1>6. (n % Modulus) \div Scale <= data[p] /\ (n % Modulus) \div Scale \in Nat
  BY <1>3, <1>5, QuotientBounds
<1>7. Budget(incoming[p], elapsed) \in Nat
  BY <1>3, BudgetBounds, Words
<1> QED BY <1>1, <1>2, <1>3, <1>6, <1>7

\* The first round is one, and a round makes one of one.
LEMMA FirstRoundCorrect ==
    ASSUME Fields, NEW elapsed \in Nat
    PROVE  FirstRound(elapsed) \in CorrectRounds(elapsed)
<1>1. Modulus - 1 \in Word
  BY Words
<1>2. Budget(hostOutgoing, elapsed) \in Word
  BY BudgetBounds, Words DEF Fields
<1>3. SumFunctionOnSet(data, Open) % Modulus \in Word
  <2>1. \A p \in Open : data[p] \in Int
    BY Words DEF Fields, Open
  <2>2. SumFunctionOnSet(data, Open) \in Int
    BY <2>1, OpenFinite, SumInt
  <2> QED BY <2>2, Words
<1> QED BY <1>1, <1>2, <1>3 DEF FirstRound, CorrectRounds

\* A round of the loop that limits peers leaves a correct round.
LEMMA NextRoundCorrect ==
    ASSUME Fields, NEW elapsed \in Nat, NEW r \in CorrectRounds(elapsed)
    PROVE  NextRound(r, elapsed) \in CorrectRounds(elapsed)
<1> DEFINE over == Over(r, elapsed)
           used == SumFunctionOnSet(Budgets(elapsed), over)
<1>1. over \subseteq Open
  BY DEF Over
<1>2. \A p \in over : Budgets(elapsed)[p] \in Nat
  BY <1>1, BudgetBounds, Words DEF Budgets, Open, Fields
<1>3. used \in Nat
  BY <1>1, <1>2, OpenFinite, SumNat
<1>4. \A p \in over : incoming[p] # 0 /\ Budget(incoming[p], elapsed) < data[p]
  BY OverHasData
<1>5. NextRound(r, elapsed) = [limited |-> r.limited \cup over,
                               bandwidth |-> (r.bandwidth - used) % Modulus,
                               total |-> (r.total - used) % Modulus]
  BY DEF NextRound, Budgets
<1> HIDE DEF over, used
<1>6. r.bandwidth \in Word /\ r.total \in Word /\ r.limited \in SUBSET Open
  BY DEF CorrectRounds
<1>7. r.bandwidth - used \in Int /\ r.total - used \in Int
  BY <1>3, <1>6, Words
<1>8. (r.bandwidth - used) % Modulus \in Word /\ (r.total - used) % Modulus \in Word
  BY <1>7, Words
<1> QED BY <1>1, <1>4, <1>5, <1>6, <1>8 DEF CorrectRounds

\* The rounds that a call of the throttle goes through, and the one it ends with.
RoundsOf(round, elapsed) ==
    LET n == Cardinality(Peers)
    IN /\ round \in [0 .. n -> CorrectRounds(elapsed)]
       /\ round[0] = FirstRound(elapsed)
       /\ \A i \in 1 .. n : round[i] = NextRound(round[i - 1], elapsed)
       /\ Rounds(elapsed) = IF limitedPeers > 0 THEN round[n] ELSE FirstRound(elapsed)

\* The rounds of the loop exist, each correct and each made from the last.
LEMMA RoundsAre ==
    ASSUME Fields, NEW elapsed \in Nat
    PROVE  \E round : RoundsOf(round, elapsed)
<1> DEFINE n == Cardinality(Peers)
           Good == CorrectRounds(elapsed)
           first == FirstRound(elapsed)
           next == [r \in Good |-> NextRound(r, elapsed)]
           round[i \in 0 .. n] ==
               IF i = 0 THEN FirstRound(elapsed) ELSE NextRound(round[i - 1], elapsed)
<1>1. n \in Nat
  BY PeersAssumption, FS_CardinalityType
<1>2. first \in Good /\ next \in [Good -> Good]
  BY FirstRoundCorrect, NextRoundCorrect
<1>3. PICK f : Repeats(f, Good, n, next, first)
  <2> HIDE DEF n, Good, first, next
  <2> QED BY <1>1, <1>2, Repetition
<1>4. \A i \in 1 .. n : f[i] = NextRound(f[i - 1], elapsed)
  <2> TAKE i \in 1 .. n
  <2>1. f[i - 1] \in Good
    BY <1>1, <1>3 DEF Repeats
  <2> QED BY <1>3, <2>1 DEF Repeats
<1>5. f = [i \in 0 .. n |->
              IF i = 0 THEN FirstRound(elapsed) ELSE NextRound(f[i - 1], elapsed)]
  <2> HIDE DEF n, Good
  <2>1. \A i \in 0 .. n : i = 0 \/ i \in 1 .. n
    BY <1>1
  <2> QED BY <1>3, <1>4, <2>1 DEF Repeats
<1>6. round = [i \in 0 .. n |->
                  IF i = 0 THEN FirstRound(elapsed) ELSE NextRound(round[i - 1], elapsed)]
  <2> HIDE DEF n
  <2> QED BY <1>5, Zenon DEF round
<1>7. \A i \in 0 .. n : round[i] \in Good
  <2>1. round[0] \in Good
    <3>1. 0 \in 0 .. n
      BY <1>1
    <3> HIDE DEF round, Good
    <3> QED BY <1>2, <1>6, <3>1
  <2>2. \A i \in 1 .. n : round[i - 1] \in Good => round[i] \in Good
    <3> TAKE i \in 1 .. n
    <3>1. round[i] = NextRound(round[i - 1], elapsed)
      <4> HIDE DEF round
      <4>1. i \in 0 .. n /\ i # 0
        BY <1>1
      <4> QED BY <1>6, <4>1
    <3> HIDE DEF round
    <3> QED BY <3>1, NextRoundCorrect
  <2> HIDE DEF round, n, Good
  <2> QED BY <1>1, <2>1, <2>2, LoopInvariant
<1>8. Rounds(elapsed) = IF limitedPeers > 0 THEN round[n] ELSE FirstRound(elapsed)
  BY Zenon DEF Rounds
<1> HIDE DEF round
<1>9. round \in [0 .. n -> Good] /\ round[0] = FirstRound(elapsed)
  <2> HIDE DEF n, Good
  <2>1. 0 \in 0 .. n
    BY <1>1
  <2> QED BY <1>6, <1>7, <2>1
<1>10. \A i \in 1 .. n : round[i] = NextRound(round[i - 1], elapsed)
  <2> HIDE DEF n, Good
  <2>1. \A i \in 1 .. n : i \in 0 .. n /\ i # 0
    BY <1>1
  <2> QED BY <1>6, <2>1
<1>11. RoundsOf(round, elapsed)
  BY <1>8, <1>9, <1>10 DEF RoundsOf
<1> QED BY <1>11

-----------------------------------------------------------------------------
(* The limits that come out of the rounds.                                    *)

\* The last round of a call is correct, and so is the part it gives the others.
LEMMA LastRound ==
    ASSUME Fields, NEW elapsed \in Nat
    PROVE  /\ Rounds(elapsed) \in CorrectRounds(elapsed)
           /\ Part(Rounds(elapsed).bandwidth, Rounds(elapsed).total) \in 0 .. Scale
<1>1. PICK round : RoundsOf(round, elapsed)
  BY RoundsAre
<1>2. Cardinality(Peers) \in Nat
  BY PeersAssumption, FS_CardinalityType
<1>3. Rounds(elapsed) \in CorrectRounds(elapsed)
  BY <1>1, <1>2, FirstRoundCorrect DEF RoundsOf
<1>4. Rounds(elapsed).bandwidth \in Word /\ Rounds(elapsed).total \in Word
  BY <1>3 DEF CorrectRounds
<1> QED BY <1>3, <1>4, PartBounds

\* The new limit of a peer is never above the scale, not even where a product has
\* been cut: what a limited peer may receive is less than its data.
LEMMA NewLimitBounds ==
    ASSUME Fields, NEW elapsed \in Nat, NEW r \in CorrectRounds(elapsed), NEW p \in Open,
           NEW part \in 0 .. Scale
    PROVE  NewLimit(p, r.limited, part, elapsed) \in 0 .. Scale
<1>1. CASE p \notin r.limited
  BY <1>1 DEF NewLimit
<1>2. CASE p \in r.limited
  <2> DEFINE b == Budget(incoming[p], elapsed)
             n == b * Scale
             own == (n % Modulus) \div data[p]
  <2>1. p \in Peers
    BY DEF Open
  <2>2. incoming[p] \in Nat /\ data[p] \in Nat
    BY <2>1, Words DEF Fields
  <2>3. b \in Nat /\ b < data[p] /\ Scale \in Nat \ {0}
    BY <1>2, <2>2, BudgetBounds, Words DEF CorrectRounds
  <2> HIDE DEF b
  <2>4. n \in Nat /\ n <= data[p] * Scale
    <3>1. Scale * b \in Nat /\ Scale * b <= Scale * data[p]
      BY <2>2, <2>3, ProductGrows
    <3>2. n = Scale * b /\ data[p] * Scale = Scale * data[p]
      BY <2>2, <2>3, SMT
    <3> QED BY <3>1, <3>2
  <2> HIDE DEF n
  <2>5. n % Modulus \in Nat /\ n % Modulus <= data[p] * Scale
    <3>1. data[p] * Scale \in Nat
      BY <2>2, <2>3, SMT
    <3> QED BY <2>4, <3>1, Cut, Words
  <2>6. own \in 0 .. Scale
    BY <2>2, <2>3, <2>5, QuotientBounds
  <2>7. NewLimit(p, r.limited, part, elapsed) = IF own = 0 THEN 1 ELSE own
    BY <1>2 DEF NewLimit, n, b
  <2> HIDE DEF own
  <2> QED BY <2>3, <2>6, <2>7
<1> QED BY <1>1, <1>2

-----------------------------------------------------------------------------
(* The shares.                                                                *)

\* The rounds that have taken from the bandwidth what the modest peers can send.
ShareRounds ==
    {r \in [modest : SUBSET Open, bandwidth : Word] :
        r.bandwidth + SumFunctionOnSet(outgoing, r.modest) = hostIncoming}

\* All of the sums are of numbers.
LEMMA OutgoingSums ==
    ASSUME Fields, NEW S, S \subseteq Open
    PROVE  /\ IsFiniteSet(S) /\ Cardinality(S) \in Nat
           /\ \A p \in S : outgoing[p] \in Nat
           /\ SumFunctionOnSet(outgoing, S) \in Nat
<1>1. \A p \in S : outgoing[p] \in Nat
  BY Words DEF Fields, Open
<1> QED BY <1>1, OpenFinite, SumNat

\* As many shares as there are peers to take them are no more than the bandwidth.
LEMMA ShareBounds ==
    ASSUME Fields, NEW r \in ShareRounds
    PROVE  /\ Share(r) \in Word
           /\ Cardinality(Open \ r.modest) \in Nat
           /\ Cardinality(Open \ r.modest) * Share(r) <= r.bandwidth
<1> DEFINE n == Cardinality(Open \ r.modest)
<1>1. n \in Nat /\ r.bandwidth \in Nat /\ r.bandwidth \in Word /\ r.modest \in SUBSET Open
  BY OpenFinite, Words DEF ShareRounds
<1>2. CASE Open = r.modest
  <2>1. n = 0
    BY <1>2, NoElements
  <2>2. Share(r) = 0 /\ 0 \in Word
    BY <1>2, ZeroIsWord DEF Share
  <2> HIDE DEF n
  <2>3. n * Share(r) = 0
    BY <2>1, <2>2
  <2> QED BY <1>1, <2>2, <2>3 DEF n
<1>3. CASE Open # r.modest
  <2>1. n # 0
    <3>1. Open \ r.modest # {} /\ IsFiniteSet(Open \ r.modest)
      BY <1>1, <1>3, OpenFinite
    <3> QED BY <3>1, FS_EmptySet
  <2>2. Share(r) = r.bandwidth \div n
    BY <1>3 DEF Share
  <2> HIDE DEF n
  <2>3. Share(r) \in Nat /\ n * Share(r) <= r.bandwidth /\ Share(r) <= r.bandwidth
    BY <1>1, <2>1, <2>2, QuotientBounds, SMTT(30)
  <2> QED BY <1>1, <2>3, Words DEF n
<1> QED BY <1>2, <1>3

\* A round never gives away more than is left.
LEMMA NextShareCorrect ==
    ASSUME Fields, NEW r \in ShareRounds
    PROVE  NextShare(r) \in ShareRounds
<1> DEFINE share == Share(r)
           rest == Open \ r.modest
           more == {p \in rest : Modest(p, share)}
           f == [p \in Peers |-> share]
<1>1. share \in Nat /\ Cardinality(rest) * share <= r.bandwidth
  BY ShareBounds, Words
<1>2. r.bandwidth \in Nat /\ r.modest \in SUBSET Open /\ hostIncoming \in Nat /\ hostIncoming < Modulus
  BY Words DEF ShareRounds, Fields
<1>3. /\ more \subseteq Open /\ IsFiniteSet(more) /\ Cardinality(more) \in Nat
      /\ SumFunctionOnSet(outgoing, more) \in Nat /\ \A p \in more : outgoing[p] \in Nat
  <2>1. more \subseteq Open
    OBVIOUS
  <2> QED BY <2>1, OutgoingSums
<1>4. IsFiniteSet(rest) /\ Cardinality(more) <= Cardinality(rest) /\ Cardinality(rest) \in Nat
  <2>1. more \subseteq rest /\ rest \subseteq Open
    OBVIOUS
  <2> HIDE DEF more, rest
  <2> QED BY <2>1, OpenFinite, FS_Subset
<1>5. SumFunctionOnSet(outgoing, more) <= share * Cardinality(more)
  <2>1. \A p \in more : outgoing[p] <= f[p] /\ f[p] = share
    <3> TAKE p \in more
    <3>1. p \in Peers /\ outgoing[p] \in Nat /\ Modest(p, share)
      BY <1>3 DEF Open
    <3> HIDE DEF share
    <3> QED BY <1>1, <3>1 DEF Modest
  <2> HIDE DEF more, f, share
  <2>2. SumFunctionOnSet(f, more) = share * Cardinality(more)
    BY <1>1, <1>3, <2>1, SumEqual
  <2>3. SumFunctionOnSet(outgoing, more) <= SumFunctionOnSet(f, more)
    BY <1>1, <1>3, <2>1, SumLess
  <2> QED BY <2>2, <2>3
<1>6. SumFunctionOnSet(outgoing, more) <= r.bandwidth
  <2> HIDE DEF share, more, rest
  <2>1. share * Cardinality(more) <= share * Cardinality(rest)
        /\ share * Cardinality(more) \in Nat /\ share * Cardinality(rest) \in Nat
    BY <1>1, <1>3, <1>4, ProductGrows
  <2>2. share * Cardinality(rest) = Cardinality(rest) * share
    BY <1>1, <1>4, SMT
  <2> QED BY <1>1, <1>2, <1>3, <1>5, <2>1, <2>2
<1>7. SumFunctionOnSet(outgoing, r.modest \cup more)
         = SumFunctionOnSet(outgoing, r.modest) + SumFunctionOnSet(outgoing, more)
  <2>1. r.modest \cap more = {} /\ r.modest \cup more \subseteq Open
    BY <1>2
  <2> HIDE DEF more
  <2>2. /\ IsFiniteSet(r.modest) /\ IsFiniteSet(more)
        /\ \A p \in r.modest \cup more : outgoing[p] \in Int
    BY <1>2, <1>3, <2>1, OutgoingSums
  <2> QED BY <2>1, <2>2, SumUnion
<1>8. NextShare(r) = [modest |-> r.modest \cup more,
                      bandwidth |-> r.bandwidth - SumFunctionOnSet(outgoing, more)]
  BY DEF NextShare
<1>9. r.bandwidth + SumFunctionOnSet(outgoing, r.modest) = hostIncoming
      /\ SumFunctionOnSet(outgoing, r.modest) \in Nat
  BY <1>2, OutgoingSums DEF ShareRounds
<1> HIDE DEF more
<1>10. r.bandwidth - SumFunctionOnSet(outgoing, more) \in Word
  <2> DEFINE left == r.bandwidth - SumFunctionOnSet(outgoing, more)
  <2>1. left \in Nat /\ left < Modulus
    BY <1>2, <1>3, <1>6, <1>9, Words
  <2> HIDE DEF left
  <2>2. left \in Word
    BY <2>1, Words
  <2> QED BY <2>2 DEF left
<1>11. r.modest \cup more \in SUBSET Open
  BY <1>2, <1>3
<1>12. (r.bandwidth - SumFunctionOnSet(outgoing, more))
          + SumFunctionOnSet(outgoing, r.modest \cup more) = hostIncoming
  BY <1>2, <1>3, <1>7, <1>9
<1> QED BY <1>8, <1>10, <1>11, <1>12 DEF ShareRounds

\* The round that the shares are taken from.
SharesOf(r) ==
    /\ r \in ShareRounds
    /\ Shares = [p \in Open |-> IF hostIncoming = 0 THEN 0
                                ELSE IF p \in r.modest THEN outgoing[p]
                                ELSE Share(r)]

\* The rounds of the loop that shares the bandwidth end in a correct one.
LEMMA SharesAre ==
    ASSUME Fields
    PROVE  \E r : SharesOf(r)
<1> DEFINE n == Cardinality(Peers)
           first == [modest |-> {}, bandwidth |-> hostIncoming]
           next == [r \in ShareRounds |-> NextShare(r)]
           round[i \in 0 .. n] ==
               IF i = 0 THEN [modest |-> {}, bandwidth |-> hostIncoming]
               ELSE NextShare(round[i - 1])
<1>1. n \in Nat
  BY PeersAssumption, FS_CardinalityType
<1>2. first \in ShareRounds
  <2>1. SumFunctionOnSet(outgoing, {}) = 0
    BY SumNothing
  <2>2. hostIncoming \in Word /\ hostIncoming + 0 = hostIncoming
    BY Words DEF Fields
  <2> QED BY <2>1, <2>2 DEF ShareRounds
<1>3. next \in [ShareRounds -> ShareRounds]
  BY NextShareCorrect
<1>4. PICK f : Repeats(f, ShareRounds, n, next, first)
  <2> HIDE DEF n, first, next
  <2> QED BY <1>1, <1>2, <1>3, Repetition
<1>5. \A i \in 1 .. n : f[i] = NextShare(f[i - 1])
  <2> TAKE i \in 1 .. n
  <2>1. f[i - 1] \in ShareRounds
    BY <1>1, <1>4 DEF Repeats
  <2> QED BY <1>4, <2>1 DEF Repeats
<1>6. f = [i \in 0 .. n |-> IF i = 0 THEN [modest |-> {}, bandwidth |-> hostIncoming]
                            ELSE NextShare(f[i - 1])]
  <2> HIDE DEF n
  <2>1. \A i \in 0 .. n : i = 0 \/ i \in 1 .. n
    BY <1>1
  <2> QED BY <1>4, <1>5, <2>1 DEF Repeats
<1>7. round = [i \in 0 .. n |-> IF i = 0 THEN [modest |-> {}, bandwidth |-> hostIncoming]
                                ELSE NextShare(round[i - 1])]
  <2> HIDE DEF n
  <2> QED BY <1>6, Zenon DEF round
<1>8. Shares = [p \in Open |-> IF hostIncoming = 0 THEN 0
                               ELSE IF p \in round[n].modest THEN outgoing[p]
                               ELSE Share(round[n])]
  BY Zenon DEF Shares
<1>9. \A i \in 0 .. n : round[i] \in ShareRounds
  <2> HIDE DEF round, n
  <2>1. round[0] \in ShareRounds
    BY <1>1, <1>2, <1>7
  <2>2. \A i \in 1 .. n : round[i - 1] \in ShareRounds => round[i] \in ShareRounds
    <3> TAKE i \in 1 .. n
    <3>1. round[i] = NextShare(round[i - 1])
      <4>1. i \in 0 .. n /\ i # 0
        BY <1>1
      <4> QED BY <1>7, <4>1
    <3> QED BY <3>1, NextShareCorrect
  <2> QED BY <1>1, <2>1, <2>2, LoopInvariant
<1> HIDE DEF round
<1>10. round[n] \in ShareRounds
  <2> HIDE DEF n
  <2> QED BY <1>1, <1>9
<1>11. SharesOf(round[n])
  BY <1>8, <1>10 DEF SharesOf
<1> QED BY <1>11

\* The shares are words, and together no more than the host can receive.
LEMMA SharesFit ==
    ASSUME Fields
    PROVE  /\ \A p \in Open : Shares[p] \in Word
           /\ hostIncoming # 0 => SumFunctionOnSet(Shares, Open) <= hostIncoming
<1>1. PICK r : SharesOf(r)
  BY SharesAre
<1> DEFINE rest == Open \ r.modest
           share == Share(r)
<1>2. r \in ShareRounds /\ r.modest \in SUBSET Open
  BY <1>1 DEF SharesOf, ShareRounds
<1>3. share \in Word /\ Cardinality(rest) \in Nat /\ Cardinality(rest) * share <= r.bandwidth
  BY <1>2, ShareBounds
<1>4. \A p \in Open : Shares[p] \in Word
  BY <1>1, <1>3, ZeroIsWord DEF SharesOf, Fields, Open
<1>5. ASSUME hostIncoming # 0
      PROVE  SumFunctionOnSet(Shares, Open) <= hostIncoming
  <2>1. \A p \in r.modest : Shares[p] = outgoing[p] /\ outgoing[p] \in Int
    BY <1>1, <1>2, <1>5, OutgoingSums DEF SharesOf
  <2>2. \A p \in rest : Shares[p] = share
    BY <1>1, <1>5 DEF SharesOf
  <2>3. IsFiniteSet(r.modest) /\ IsFiniteSet(rest) /\ r.modest \cap rest = {}
        /\ r.modest \cup rest = Open
    BY <1>2, OpenFinite
  <2>4. share \in Int /\ \A p \in Open : Shares[p] \in Int
    BY <1>3, <1>4, Words
  <2> HIDE DEF rest, share
  <2>5. SumFunctionOnSet(Shares, r.modest) = SumFunctionOnSet(outgoing, r.modest)
    BY <2>1, <2>3, SumSame
  <2>6. SumFunctionOnSet(Shares, rest) = share * Cardinality(rest)
    BY <2>2, <2>3, <2>4, SumEqual
  <2>7. SumFunctionOnSet(Shares, Open)
           = SumFunctionOnSet(Shares, r.modest) + SumFunctionOnSet(Shares, rest)
    BY <2>3, <2>4, SumUnion
  <2>8. share * Cardinality(rest) = Cardinality(rest) * share
        /\ Cardinality(rest) * share \in Int
    BY <1>3, <2>4, SMT
  <2>9. /\ r.bandwidth + SumFunctionOnSet(outgoing, r.modest) = hostIncoming
        /\ r.bandwidth \in Int /\ SumFunctionOnSet(outgoing, r.modest) \in Int
    BY <1>2, OutgoingSums, Words DEF ShareRounds
  <2> QED BY <1>3, <2>5, <2>6, <2>7, <2>8, <2>9
<1> QED BY <1>4, <1>5

-----------------------------------------------------------------------------
(* The invariant.                                                             *)

\* Who is not connected yet has been told nothing.
Untold == \A p \in Peers : state[p] \in {"free", "pending"} => told[p] = 0

Flags == recalculate \in BOOLEAN /\ changes \in 0 .. MaxChanges

\* The fields are words, a throttle is within its limit.
LimitInv == Fields /\ Flags /\ ThrottleWithinLimit

ThrottleInv == CountInv /\ LimitInv /\ Untold /\ ToldFits

\* At first nobody is connected, and nothing is limited.
LEMMA InitLimits == ASSUME Init PROVE LimitInv
<1>1. 0 \in Word /\ Scale \in Word /\ Scale <= Scale
  BY ZeroIsWord, Words
<1>2. hostIncoming \in Word /\ hostOutgoing \in Word
  BY WordAssumption DEF Init, Word
<1>3. Fields
  BY <1>1, <1>2 DEF Init, Fields
<1>4. Flags
  <2>1. recalculate \in BOOLEAN
    BY DEF Init
  <2>2. changes \in 0 .. MaxChanges
    BY BoundAssumption DEF Init
  <2> QED BY <2>1, <2>2 DEF Flags
<1>5. ThrottleWithinLimit
  BY <1>1 DEF Init, ThrottleWithinLimit
<1> QED BY <1>3, <1>4, <1>5 DEF LimitInv

\* A new host has told nobody anything.
LEMMA InitTold == ASSUME Init PROVE Untold /\ ToldFits
<1>1. Untold
  BY DEF Init, Untold
<1>2. Open = {}
  BY DEF Init, Open
<1>3. SumFunctionOnSet(told, {}) = 0
  BY SumNothing
<1>4. hostIncoming \in Nat
  BY WordAssumption DEF Init
<1>5. ToldFits
  BY <1>2, <1>3, <1>4 DEF ToldFits
<1> QED BY <1>1, <1>5

\* What the program and the other end do leaves the fields words.
LEMMA ChangesLimits ==
    ASSUME LimitInv, NEW p \in Peers, NEW in \in Word, NEW out \in Word,
           \/ \E event \in BOOLEAN : NotifyConnect(p, in, out, event)
           \/ HandleBandwidthLimit(p, in, out)
           \/ BandwidthLimit(in, out)
           \/ \E byLibrary \in BOOLEAN : StartDisconnect(p, byLibrary)
    PROVE  LimitInv'
<1>1. changes' \in 0 .. MaxChanges
  BY BoundAssumption DEF LimitInv, Flags, NotifyConnect, HandleBandwidthLimit, BandwidthLimit,
     StartDisconnect, Change
<1>2. recalculate' \in BOOLEAN
  BY DEF LimitInv, Flags, NotifyConnect, HandleBandwidthLimit, BandwidthLimit, StartDisconnect
<1>3. /\ throttle' = throttle /\ limit' = limit /\ data' = data /\ told' = told
      /\ incoming' \in [Peers -> Word] /\ outgoing' \in [Peers -> Word]
      /\ hostIncoming' \in Word /\ hostOutgoing' \in Word
      /\ state' \in [Peers -> {"free", "pending", "open", "closing"}]
  BY DEF LimitInv, Fields, NotifyConnect, HandleBandwidthLimit, BandwidthLimit, StartDisconnect,
     peers
<1>4. Fields' /\ ThrottleWithinLimit'
  BY <1>3 DEF LimitInv, Fields, ThrottleWithinLimit
<1> QED BY <1>1, <1>2, <1>4 DEF LimitInv, Flags

\* Dispatching a connection changes no throttle.
LEMMA DispatchLimits ==
    ASSUME LimitInv, NEW p \in Peers, Dispatch(p)
    PROVE  LimitInv'
BY DEF LimitInv, Fields, Flags, ThrottleWithinLimit, Dispatch

\* A peer that is reset is not throttled.
LEMMA ResetLimits ==
    ASSUME LimitInv, NEW p \in Peers, NEW byLibrary \in BOOLEAN, Reset(p, byLibrary)
    PROVE  LimitInv'
<1>1. 0 \in Word /\ Scale \in Word /\ Scale <= Scale
  BY ZeroIsWord, Words
<1>2. Fields'
  BY <1>1 DEF LimitInv, Fields, Reset
<1>3. ThrottleWithinLimit'
  BY <1>1 DEF LimitInv, Fields, ThrottleWithinLimit, Reset
<1>4. Flags'
  BY DEF LimitInv, Flags, Reset
<1> QED BY <1>2, <1>3, <1>4 DEF LimitInv

\* Sending changes no throttle and keeps the counters of data words.
LEMMA SendLimits ==
    ASSUME LimitInv, NEW p \in Peers, NEW n \in Nat, Send(p, n)
    PROVE  LimitInv'
<1>1. n % Modulus \in Word
  BY Cut
<1>2. /\ data' \in [Peers -> Word]
      /\ UNCHANGED <<state, incoming, outgoing, throttle, limit, told, hostIncoming,
                     hostOutgoing, recalculate, changes>>
  BY <1>1 DEF LimitInv, Fields, Send, hosts
<1> QED BY <1>2 DEF LimitInv, Fields, Flags, ThrottleWithinLimit

\* The throttle moves up and down below its limit, even when it wraps around.
LEMMA PeerThrottleLimits ==
    ASSUME LimitInv, NEW p \in Peers, NEW rate \in Word, PeerThrottle(p, rate)
    PROVE  LimitInv'
<1> DEFINE up == (throttle[p] + rate) % Modulus
           down == IF throttle[p] > rate THEN throttle[p] - rate ELSE 0
<1>1. /\ throttle[p] \in Word /\ limit[p] \in Word
      /\ throttle[p] \in Nat /\ limit[p] \in Nat /\ rate \in Nat
      /\ throttle[p] < Modulus /\ throttle[p] <= limit[p]
  BY Words DEF LimitInv, Fields, ThrottleWithinLimit
<1>2. up \in Word /\ up \in Nat
  BY <1>1, Words
<1>3. Lowered(up, limit[p]) \in Word /\ Lowered(up, limit[p]) <= limit[p]
  <2> HIDE DEF up
  <2> QED BY <1>1, <1>2 DEF Lowered
<1>4. down \in Word /\ down <= limit[p]
  <2>1. down \in Nat /\ down < Modulus /\ down <= limit[p]
    BY <1>1, Words, SMTT(30)
  <2> HIDE DEF down
  <2> QED BY <2>1, Words
<1>5. limit[p] <= limit[p]
  BY <1>1
<1>6. PICK t \in {limit[p], Lowered(up, limit[p]), down} :
         throttle' = [throttle EXCEPT ![p] = t]
  BY DEF PeerThrottle
<1> HIDE DEF up, down
<1>7. t \in Word /\ t <= limit[p]
  BY <1>1, <1>3, <1>4, <1>5, <1>6
<1>8. UNCHANGED <<state, incoming, outgoing, data, limit, told, hostIncoming, hostOutgoing,
                  recalculate, changes>>
  BY DEF PeerThrottle, hosts
<1>9. Fields'
  BY <1>6, <1>7, <1>8 DEF LimitInv, Fields
<1>10. ThrottleWithinLimit'
  BY <1>6, <1>7, <1>8 DEF LimitInv, Fields, ThrottleWithinLimit
<1> QED BY <1>8, <1>9, <1>10 DEF LimitInv, Flags

\* The throttle is lowered to the limit that a round gives.
LEMMA ThrottledLimits ==
    ASSUME LimitInv, NEW elapsed \in Nat, Throttled(elapsed)
    PROVE  LimitInv'
<1> DEFINE round == Rounds(elapsed)
           part == Part(round.bandwidth, round.total)
           New(p) == NewLimit(p, round.limited, part, elapsed)
<1>1. Fields
  BY DEF LimitInv
<1>2. \A p \in Open : New(p) \in 0 .. Scale
  <2>1. round \in CorrectRounds(elapsed) /\ part \in 0 .. Scale
    BY <1>1, LastRound
  <2> HIDE DEF round, part
  <2> QED BY <1>1, <2>1, NewLimitBounds
<1>3. limit' = [p \in Peers |-> IF p \in Open THEN New(p) ELSE limit[p]]
  BY DEF Throttled
<1>4. throttle' = [p \in Peers |-> IF p \in Open THEN Lowered(throttle[p], limit'[p])
                                   ELSE throttle[p]]
  BY DEF Throttled
<1>5. 0 .. Scale \subseteq Word
  BY Words
<1> HIDE DEF New
<1>6. \A p \in Peers : /\ limit'[p] \in Word /\ limit'[p] <= Scale
                       /\ throttle'[p] \in Word /\ throttle'[p] <= limit'[p]
  <2> TAKE p \in Peers
  <2>1. /\ throttle[p] \in Word /\ limit[p] \in Word /\ throttle[p] <= limit[p]
        /\ limit[p] <= Scale /\ throttle[p] \in Nat
    BY Words DEF LimitInv, Fields, ThrottleWithinLimit
  <2>2. CASE p \in Open
    <3>1. limit'[p] \in 0 .. Scale
      BY <1>2, <1>3, <2>2
    <3>2. limit'[p] \in Nat /\ limit'[p] <= Scale /\ limit'[p] \in Word
      BY <1>5, <3>1, Words
    <3>3. throttle'[p] = Lowered(throttle[p], limit'[p])
      BY <1>4, <2>2
    <3> HIDE DEF Lowered
    <3>4. /\ Lowered(throttle[p], limit'[p]) \in Word
          /\ Lowered(throttle[p], limit'[p]) <= limit'[p]
      BY <2>1, <3>2 DEF Lowered
    <3> QED BY <3>2, <3>3, <3>4
  <2>3. CASE p \notin Open
    BY <1>3, <1>4, <2>1, <2>3
  <2> QED BY <2>2, <2>3
<1>7. throttle' \in [Peers -> Word] /\ limit' \in [Peers -> Word]
  BY <1>3, <1>4, <1>6
<1>8. data' \in [Peers -> Word]
  BY <1>1, ZeroIsWord DEF Throttled, Fields
<1>9. told' \in [Peers -> Word]
  <2>1. \A p \in Open : Shares[p] \in Word
    BY <1>1, SharesFit
  <2> QED BY <1>1, <2>1 DEF Throttled, Fields
<1>10. Fields'
  BY <1>1, <1>7, <1>8, <1>9 DEF Throttled, Fields
<1>11. ThrottleWithinLimit'
  BY <1>6 DEF ThrottleWithinLimit
<1>12. Flags'
  BY DEF Throttled, LimitInv, Flags
<1> QED BY <1>10, <1>11, <1>12 DEF LimitInv

\* Every step keeps the throttles within their limits.
LEMMA NextLimits == ASSUME LimitInv, [Next]_vars PROVE LimitInv'
<1>1. /\ \A l \in PeerLimits \cup HostLimits : l[1] \in Word /\ l[2] \in Word
      /\ \A n \in Amounts : n \in Nat
      /\ \A e \in Elapsed : e \in Nat
      /\ \A rate \in Rates : rate \in Word
  BY WordAssumption DEF Word
<1>2. ASSUME NEW p \in Peers, NEW l \in PeerLimits, NEW event \in BOOLEAN,
             NotifyConnect(p, l[1], l[2], event)
      PROVE  LimitInv'
  BY <1>1, <1>2, ChangesLimits
<1>3. ASSUME NEW p \in Peers, NEW l \in PeerLimits, HandleBandwidthLimit(p, l[1], l[2])
      PROVE  LimitInv'
  BY <1>1, <1>3, ChangesLimits
<1>4. ASSUME NEW p \in Peers, Dispatch(p) PROVE LimitInv'
  BY <1>4, DispatchLimits
<1>5. ASSUME NEW p \in Peers, NEW byLibrary \in BOOLEAN, StartDisconnect(p, byLibrary)
      PROVE  LimitInv'
  BY <1>5, ChangesLimits, ZeroIsWord
<1>6. ASSUME NEW p \in Peers, NEW byLibrary \in BOOLEAN, Reset(p, byLibrary)
      PROVE  LimitInv'
  BY <1>6, ResetLimits
<1>7. ASSUME NEW p \in Peers, NEW n \in Amounts, Send(p, n) PROVE LimitInv'
  BY <1>1, <1>7, SendLimits
<1>8. ASSUME NEW p \in Peers, NEW rate \in Rates, PeerThrottle(p, rate) PROVE LimitInv'
  BY <1>1, <1>8, PeerThrottleLimits
<1>9. ASSUME NEW l \in HostLimits, BandwidthLimit(l[1], l[2]) PROVE LimitInv'
  <2>1. /\ UNCHANGED peers /\ told' = told /\ recalculate' = TRUE
        /\ hostIncoming' \in Word /\ hostOutgoing' \in Word
    BY <1>1, <1>9 DEF BandwidthLimit
  <2>2. changes' \in 0 .. MaxChanges
    BY <1>9, BoundAssumption DEF BandwidthLimit, Change, LimitInv, Flags
  <2> QED BY <2>1, <2>2 DEF LimitInv, Fields, Flags, ThrottleWithinLimit, peers
<1>10. ASSUME NEW elapsed \in Elapsed, Throttled(elapsed) PROVE LimitInv'
  BY <1>1, <1>10, ThrottledLimits
<1>11. CASE UNCHANGED vars
  BY <1>11 DEF vars, peers, hosts, LimitInv, Fields, Flags, ThrottleWithinLimit
<1> QED
  BY <1>2, <1>3, <1>4, <1>5, <1>6, <1>7, <1>8, <1>9, <1>10, <1>11
     DEF Next, BandwidthThrottle

\* What the connected peers were told.
ToldSum == SumFunctionOnSet(told, Open)

\* Sums of what was told.
LEMMA ToldSums ==
    ASSUME Fields, NEW S, S \subseteq Open
    PROVE  /\ SumFunctionOnSet(told, S) \in Nat
           /\ SumFunctionOnSet(told, S) <= ToldSum
<1>1. \A p \in Open : told[p] \in Nat
  BY Words DEF Fields, Open
<1> QED BY <1>1, OpenFinite, SumNat, SumPart DEF ToldSum

\* A peer that leaves, or that comes without a share, takes nothing.
LEMMA PeerTold ==
    ASSUME Fields, Fields', Untold, ToldFits, NEW p \in Peers,
           hostIncoming' = hostIncoming, ~recalculate' => ~recalculate,
           \/ Open' \subseteq Open
           \/ state[p] = "pending" /\ Open' \subseteq Open \cup {p},
           \A q \in Open' : told'[q] = told[q]
    PROVE  ToldFits'
<1>1. SUFFICES ASSUME ~recalculate, hostIncoming # 0
               PROVE  SumFunctionOnSet(told', Open') <= hostIncoming
  BY DEF ToldFits
<1>2. ToldSum <= hostIncoming /\ hostIncoming \in Nat
  BY <1>1, Words DEF ToldFits, ToldSum, Fields
<1> DEFINE after == SumFunctionOnSet(told', Open')
           S == Open' \cap Open
<1>3. Open' \subseteq Peers
  BY DEF Open
<1>4. IsFiniteSet(Open') /\ \A q \in Open' : told[q] \in Int /\ told'[q] = told[q]
  BY <1>3, PeersAssumption, FS_Subset, Words DEF Fields
<1>5. after = SumFunctionOnSet(told, Open')
  BY <1>4, SumSame
<1>6. SumFunctionOnSet(told, S) \in Nat /\ SumFunctionOnSet(told, S) <= ToldSum
  BY ToldSums
<1>7. SumFunctionOnSet(told, Open') = SumFunctionOnSet(told, S)
  <2>1. CASE Open' \subseteq Open
    <3>1. S = Open'
      BY <2>1
    <3> QED BY <3>1
  <2>2. CASE p \in Open' /\ state[p] = "pending" /\ Open' \subseteq Open \cup {p}
    <3>1. p \notin Open
      BY <2>2 DEF Open
    <3>2. Open' = S \cup {p} /\ p \notin S /\ IsFiniteSet(S)
      BY <2>2, <3>1, OpenFinite
    <3>3. told[p] = 0
      BY <2>2 DEF Untold
    <3>4. \A q \in S \cup {p} : told[q] \in Int
      BY <1>4, <3>2
    <3> HIDE DEF S
    <3>5. SumFunctionOnSet(told, S \cup {p}) = told[p] + SumFunctionOnSet(told, S)
      BY <3>2, <3>4, SumMore
    <3> QED BY <1>6, <3>2, <3>3, <3>5
  <2>3. p \in Open' \/ ~(p \in Open')
    OBVIOUS
  <2> QED BY <2>1, <2>2, <2>3
<1>8. ToldSum \in Nat
  BY ToldSums DEF ToldSum
<1> HIDE DEF after
<1>9. after <= hostIncoming
  BY <1>2, <1>5, <1>6, <1>7, <1>8
<1> QED BY <1>9 DEF after

\* The shares that a round gives fit, and others are left alone.
LEMMA ThrottledTold ==
    ASSUME Fields, Untold, ToldFits, NEW elapsed \in Nat, Throttled(elapsed)
    PROVE  Untold' /\ ToldFits'
<1>1. /\ UNCHANGED <<state, hostIncoming>>
      /\ told' = [p \in Peers |-> IF p \in Open /\ recalculate THEN Shares[p] ELSE told[p]]
  BY DEF Throttled
<1>2. Open' = Open
  BY <1>1 DEF Open
<1>3. Untold'
  <2> SUFFICES ASSUME NEW p \in Peers, state[p] \in {"free", "pending"}
               PROVE  told'[p] = 0
    BY <1>1 DEF Untold
  <2>1. p \notin Open
    BY DEF Open
  <2> QED BY <1>1, <2>1 DEF Untold
<1>4. ToldFits'
  <2> SUFFICES ASSUME hostIncoming # 0
               PROVE  SumFunctionOnSet(told', Open) <= hostIncoming
    BY <1>1, <1>2 DEF ToldFits
  <2>1. \A p \in Open : Shares[p] \in Int /\ told[p] \in Int
    BY SharesFit, Words DEF Fields, Open
  <2>2. CASE recalculate
    <3>1. \A p \in Open : told'[p] = Shares[p]
      BY <1>1, <2>2 DEF Open
    <3>2. SumFunctionOnSet(Shares, Open) = SumFunctionOnSet(told', Open)
      BY <2>1, <3>1, OpenFinite, SumSame
    <3>3. SumFunctionOnSet(Shares, Open) <= hostIncoming
      BY SharesFit
    <3> QED BY <3>2, <3>3
  <2>3. CASE ~recalculate
    <3>1. \A p \in Open : told'[p] = told[p]
      BY <1>1, <2>3 DEF Open
    <3>2. SumFunctionOnSet(told, Open) = SumFunctionOnSet(told', Open)
      BY <2>1, <3>1, OpenFinite, SumSame
    <3>3. SumFunctionOnSet(told, Open) <= hostIncoming
      BY <2>3 DEF ToldFits
    <3> QED BY <3>2, <3>3
  <2> QED BY <2>2, <2>3
<1> QED BY <1>3, <1>4

\* Every step keeps what was told within what the host can receive.
LEMMA NextTold ==
    ASSUME LimitInv, LimitInv', Untold, ToldFits, [Next]_vars
    PROVE  Untold' /\ ToldFits'
<1>0. Fields /\ Fields'
  BY DEF LimitInv
<1>1. \A e \in Elapsed : e \in Nat
  BY WordAssumption
<1>2. ASSUME NEW p \in Peers, NEW l \in PeerLimits, NEW event \in BOOLEAN,
             NotifyConnect(p, l[1], l[2], event)
      PROVE  Untold' /\ ToldFits'
  <2>1. recalculate' /\ told' = told /\ state[p] = "free"
        /\ \A q \in Peers \ {p} : state'[q] = state[q]
    BY <1>0, <1>2 DEF NotifyConnect, Fields
  <2> QED BY <2>1 DEF Untold, ToldFits
<1>3. ASSUME NEW p \in Peers, NEW l \in PeerLimits, HandleBandwidthLimit(p, l[1], l[2])
      PROVE  Untold' /\ ToldFits'
  BY <1>3 DEF HandleBandwidthLimit, Untold, ToldFits, Open
<1>4. ASSUME NEW p \in Peers, Dispatch(p) PROVE Untold' /\ ToldFits'
  <2>1. /\ state[p] = "pending" /\ Open' \subseteq Open \cup {p} /\ told' = told
        /\ hostIncoming' = hostIncoming /\ recalculate' = recalculate
    BY <1>0, <1>4 DEF Dispatch, Open, Fields
  <2>2. ToldFits'
    BY <1>0, <2>1, PeerTold
  <2>3. Untold'
    BY <1>0, <1>4 DEF Dispatch, Untold, Fields
  <2> QED BY <2>2, <2>3
<1>5. ASSUME NEW p \in Peers, NEW byLibrary \in BOOLEAN, StartDisconnect(p, byLibrary)
      PROVE  Untold' /\ ToldFits'
  <2>1. /\ Open' \subseteq Open /\ told' = told
        /\ hostIncoming' = hostIncoming /\ (~recalculate' => ~recalculate)
    BY <1>0, <1>5 DEF StartDisconnect, Open, Fields
  <2>2. ToldFits'
    BY <1>0, <2>1, PeerTold
  <2>3. Untold'
    BY <1>0, <1>5 DEF StartDisconnect, Untold, Fields
  <2> QED BY <2>2, <2>3
<1>6. ASSUME NEW p \in Peers, NEW byLibrary \in BOOLEAN, Reset(p, byLibrary)
      PROVE  Untold' /\ ToldFits'
  <2>1. /\ Open' \subseteq Open /\ (\A q \in Open' : told'[q] = told[q])
        /\ hostIncoming' = hostIncoming /\ (~recalculate' => ~recalculate)
    BY <1>0, <1>6 DEF Reset, Open, Fields
  <2>2. ToldFits'
    BY <1>0, <2>1, PeerTold
  <2>3. Untold'
    BY <1>0, <1>6 DEF Reset, Untold, Fields
  <2> QED BY <2>2, <2>3
<1>7. ASSUME NEW p \in Peers, NEW n \in Amounts, Send(p, n) PROVE Untold' /\ ToldFits'
  BY <1>7 DEF Send, hosts, Untold, ToldFits, Open
<1>8. ASSUME NEW p \in Peers, NEW rate \in Rates, PeerThrottle(p, rate)
      PROVE  Untold' /\ ToldFits'
  BY <1>8 DEF PeerThrottle, hosts, Untold, ToldFits, Open
<1>9. ASSUME NEW l \in HostLimits, BandwidthLimit(l[1], l[2]) PROVE Untold' /\ ToldFits'
  BY <1>9 DEF BandwidthLimit, peers, Untold, ToldFits, Open
<1>10. ASSUME NEW elapsed \in Elapsed, Throttled(elapsed) PROVE Untold' /\ ToldFits'
  BY <1>0, <1>1, <1>10, ThrottledTold
<1>11. CASE UNCHANGED vars
  BY <1>11 DEF vars, peers, hosts, Untold, ToldFits, Open
<1> QED
  BY <1>2, <1>3, <1>4, <1>5, <1>6, <1>7, <1>8, <1>9, <1>10, <1>11
     DEF Next, BandwidthThrottle

\* A new host satisfies the invariant.
LEMMA InitInv == Init => ThrottleInv
BY InitCounts, InitLimits, InitTold DEF ThrottleInv

\* Every step keeps the invariant.
LEMMA NextInv == ThrottleInv /\ [Next]_vars => ThrottleInv'
<1> SUFFICES ASSUME ThrottleInv, [Next]_vars PROVE ThrottleInv'
  OBVIOUS
<1>1. CountInv'
  BY NextCounts DEF ThrottleInv
<1>2. LimitInv'
  BY NextLimits DEF ThrottleInv
<1>3. Untold' /\ ToldFits'
  BY <1>2, NextTold DEF ThrottleInv
<1> QED BY <1>1, <1>2, <1>3 DEF ThrottleInv

\* So it holds all along.
LEMMA SpecInv == Spec => []ThrottleInv
BY InitInv, NextInv, PTL DEF Spec

\* Nothing but a word is ever in a field of a peer or of the host: no difference
\* that the rounds and the shares are calculated from falls below 0.
THEOREM ThrottleTypes == Spec => []TypeOK
<1>1. ThrottleInv => TypeOK
  <2> SUFFICES ASSUME ThrottleInv PROVE TypeOK
    OBVIOUS
  <2>1. limitedPeers \in Nat
    BY LimitedNat DEF ThrottleInv
  <2>2. Fields /\ Flags
    BY DEF ThrottleInv, LimitInv
  <2> QED BY <2>1, <2>2 DEF Fields, Flags, TypeOK
<1> QED BY <1>1, SpecInv, PTL

\* The throttle of a peer is not above its limit, nor the limit above the scale,
\* for every bandwidth, every traffic and every rate the other end asks for, those
\* included whose products and sums are cut to 32 bits (peer.c:61-90,
\* host.c:370-435).
THEOREM LimitsCorrect == Spec => []ThrottleWithinLimit
<1>1. ThrottleInv => ThrottleWithinLimit
  BY DEF ThrottleInv, LimitInv
<1> QED BY <1>1, SpecInv, PTL

\* The shares that the connected peers were told are together no more than the
\* host can receive, for every number of peers and every limit, whoever leaves,
\* comes or changes its limit after they were calculated (host.c:437-490).
THEOREM SharesCorrect == Spec => []ToldFits
<1>1. ThrottleInv => ToldFits
  BY DEF ThrottleInv
<1> QED BY <1>1, SpecInv, PTL

-----------------------------------------------------------------------------
(* What the limits let through.                                               *)

\* A round that limits nobody changes nothing.
LEMMA SettledRound ==
    ASSUME Fields, NEW elapsed \in Nat, NEW r \in CorrectRounds(elapsed), Over(r, elapsed) = {}
    PROVE  NextRound(r, elapsed) = r
<1>1. SumFunctionOnSet(Budgets(elapsed), {}) = 0
  BY SumNothing
<1>2. r.bandwidth \in Word /\ r.total \in Word
  BY DEF CorrectRounds
<1>3. (r.bandwidth - 0) % Modulus = r.bandwidth /\ (r.total - 0) % Modulus = r.total
  <2>1. \A w \in Word : w \in Nat /\ w < Modulus /\ w - 0 = w
    BY Words
  <2> QED BY <1>2, <2>1, Cut
<1>4. NextRound(r, elapsed) = [limited |-> r.limited \cup {},
                               bandwidth |-> (r.bandwidth - 0) % Modulus,
                               total |-> (r.total - 0) % Modulus]
  BY <1>1 DEF NextRound, Budgets
<1>5. r = [limited |-> r.limited, bandwidth |-> r.bandwidth, total |-> r.total]
  BY DEF CorrectRounds
<1> QED BY <1>3, <1>4, <1>5

\* Any other one limits a peer more, so that there are never more rounds than
\* peers: the last round leaves nobody above its budget.
LEMMA Settled ==
    ASSUME Fields, CountInv, NEW elapsed \in Nat
    PROVE  Over(Rounds(elapsed), elapsed) = {}
<1>1. CASE ~(limitedPeers > 0)
  <2>1. Limited \subseteq Open /\ limitedPeers \in Nat /\ limitedPeers = Cardinality(Limited)
    BY LimitedNat DEF CountInv, LimitedExact, Limited
  <2>2. Limited = {}
    BY <1>1, <2>1, OpenFinite, FS_EmptySet
  <2> QED BY <2>2 DEF Over, Limited
<1>2. CASE limitedPeers > 0
  <2>1. PICK round : RoundsOf(round, elapsed)
    BY RoundsAre
  <2> DEFINE n == Cardinality(Peers)
             T == {k \in Nat : k <= n => \/ Over(round[k], elapsed) = {}
                                         \/ Cardinality(round[k].limited) >= k}
  <2>2. n \in Nat
    BY PeersAssumption, FS_CardinalityType
  <2>3. \A k \in 0 .. n : /\ round[k] \in CorrectRounds(elapsed)
                          /\ round[k].limited \in SUBSET Open
                          /\ IsFiniteSet(round[k].limited)
                          /\ Cardinality(round[k].limited) \in Nat
    <3> TAKE k \in 0 .. n
    <3>1. round[k] \in CorrectRounds(elapsed)
      BY <2>1 DEF RoundsOf
    <3>2. round[k].limited \in SUBSET Open
      BY <3>1 DEF CorrectRounds
    <3> QED BY <3>1, <3>2, OpenFinite
  <2>4. 0 \in T
    BY <2>2, <2>3
  <2>5. ASSUME NEW k \in Nat, k \in T
        PROVE  k + 1 \in T
    <3>1. SUFFICES ASSUME k + 1 <= n
                   PROVE  \/ Over(round[k + 1], elapsed) = {}
                          \/ Cardinality(round[k + 1].limited) >= k + 1
      OBVIOUS
    <3>2. k \in 0 .. n /\ k + 1 \in 0 .. n /\ k + 1 \in 1 .. n /\ (k + 1) - 1 = k
      BY <2>2, <3>1
    <3>3. round[k + 1] = NextRound(round[k], elapsed)
      BY <2>1, <3>2 DEF RoundsOf
    <3>4. CASE Over(round[k], elapsed) = {}
      <4>1. round[k + 1] = round[k]
        BY <2>3, <3>2, <3>3, <3>4, SettledRound
      <4> QED BY <3>4, <4>1
    <3>5. CASE Over(round[k], elapsed) # {}
      <4> DEFINE before == round[k].limited
                 after == round[k + 1].limited
      <4>1. Cardinality(before) >= k
        <5>1. k <= n
          BY <2>2, <3>1
        <5> HIDE DEF n
        <5> QED BY <2>5, <3>5, <5>1
      <4>2. PICK p \in Over(round[k], elapsed) : TRUE
        BY <3>5
      <4>3. after = before \cup Over(round[k], elapsed)
        BY <3>3 DEF NextRound
      <4>4. p \notin before /\ before \cup {p} \subseteq after
        BY <4>2, <4>3 DEF Over
      <4>5. /\ IsFiniteSet(before) /\ IsFiniteSet(after)
            /\ Cardinality(before) \in Nat /\ Cardinality(after) \in Nat
        BY <2>3, <3>2
      <4> HIDE DEF before, after
      <4>6. Cardinality(before \cup {p}) = Cardinality(before) + 1
        BY <4>4, <4>5, FS_AddElement
      <4>7. Cardinality(before \cup {p}) <= Cardinality(after)
        BY <4>4, <4>5, FS_Subset
      <4>8. Cardinality(after) >= k + 1
        BY <4>1, <4>5, <4>6, <4>7
      <4> QED BY <4>8 DEF after
    <3> QED BY <3>4, <3>5
  <2>6. n \in T
    <3> HIDE DEF T, n
    <3> QED BY <2>2, <2>4, <2>5, SetInduction
  <2>7. n \in 0 .. n /\ n <= n
    BY <2>2
  <2>8. CASE Cardinality(round[n].limited) >= n
    <3>1. round[n].limited \subseteq Open /\ Open \subseteq Peers
      BY <2>3, <2>7 DEF Open
    <3>2. Cardinality(round[n].limited) <= n /\ Cardinality(round[n].limited) \in Nat
      BY <2>3, <2>7, <3>1, PeersAssumption, FS_Subset
    <3>3. Cardinality(round[n].limited) = n
      BY <2>2, <2>8, <3>2
    <3>4. round[n].limited = Peers
      BY <3>1, <3>3, PeersAssumption, FS_Subset
    <3>5. Open \ round[n].limited = {}
      BY <3>1, <3>4
    <3> QED BY <1>2, <2>1, <3>5 DEF Over, RoundsOf
  <2>9. CASE Over(round[n], elapsed) = {}
    BY <1>2, <2>1, <2>9 DEF RoundsOf
  <2> QED BY <2>6, <2>7, <2>8, <2>9
<1> QED BY <1>1, <1>2

\* Nothing is cut to 32 bits.
Uncut(elapsed) ==
    /\ \A p \in Open : incoming[p] * elapsed * Scale < Modulus /\ data[p] * Scale < Modulus
    /\ SumFunctionOnSet(data, Open) < Modulus

\* What the limited peers may be sent has been taken from both.
Balanced(r, elapsed) ==
    LET used == SumFunctionOnSet(Budgets(elapsed), r.limited)
    IN /\ r.bandwidth + used = Budget(hostOutgoing, elapsed)
       /\ r.total + used = SumFunctionOnSet(data, Open)

\* Sums of data and of budgets.
LEMMA DataSums ==
    ASSUME Fields, NEW elapsed \in Nat, NEW S, S \subseteq Open
    PROVE  /\ IsFiniteSet(S)
           /\ \A p \in S : /\ p \in Peers /\ data[p] \in Nat /\ incoming[p] \in Nat
                           /\ Budgets(elapsed)[p] = Budget(incoming[p], elapsed)
                           /\ Budgets(elapsed)[p] \in Nat
           /\ SumFunctionOnSet(data, S) \in Nat
           /\ SumFunctionOnSet(Budgets(elapsed), S) \in Nat
<1>1. IsFiniteSet(S)
  BY OpenFinite
<1>2. \A p \in S : /\ p \in Peers /\ data[p] \in Nat /\ incoming[p] \in Nat
                   /\ Budgets(elapsed)[p] = Budget(incoming[p], elapsed)
                   /\ Budgets(elapsed)[p] \in Nat
  BY Words, BudgetBounds DEF Fields, Open, Budgets
<1> QED BY <1>1, <1>2, SumNat

\* What is left to be sent is at least what the others have.
LEMMA RestTotal ==
    ASSUME Fields, NEW elapsed \in Nat, NEW r \in CorrectRounds(elapsed), Balanced(r, elapsed),
           NEW S, S \subseteq Open \ r.limited
    PROVE  SumFunctionOnSet(data, S) <= r.total
<1> DEFINE rest == Open \ r.limited
           used == SumFunctionOnSet(Budgets(elapsed), r.limited)
           D(s) == SumFunctionOnSet(data, s)
<1>1. r.limited \subseteq Open /\ rest \subseteq Open /\ r.total \in Nat /\ S \subseteq Open
  BY Words DEF CorrectRounds
<1>2. D(Open) = D(r.limited) + D(rest)
  <2>1. r.limited \cup rest = Open /\ r.limited \cap rest = {}
    BY <1>1
  <2>2. IsFiniteSet(r.limited) /\ IsFiniteSet(rest) /\ \A p \in Open : data[p] \in Int
    BY <1>1, DataSums, SMTT(30)
  <2> HIDE DEF rest
  <2> QED BY <2>1, <2>2, SumUnion
<1>3. D(S) <= D(rest)
  BY <1>1, DataSums, SumPart
<1>4. used <= D(r.limited)
  <2>1. \A p \in r.limited : /\ Budgets(elapsed)[p] \in Int /\ data[p] \in Int
                             /\ Budgets(elapsed)[p] <= data[p]
    BY <1>1, DataSums DEF CorrectRounds
  <2> QED BY <1>1, <2>1, DataSums, SumLess
<1>5. D(S) \in Nat /\ D(rest) \in Nat /\ D(r.limited) \in Nat /\ used \in Nat
  BY <1>1, DataSums
<1>6. r.total + used = D(Open)
  BY DEF Balanced
<1> HIDE DEF D, used, rest
<1>7. D(S) <= r.total
  BY <1>1, <1>2, <1>3, <1>4, <1>5, <1>6
<1> QED BY <1>7 DEF D

\* What is no more than the part of the others' data is no more than what is left.
LEMMA PartFits ==
    ASSUME Fields, NEW elapsed \in Nat, NEW r \in CorrectRounds(elapsed), Balanced(r, elapsed),
           NEW S, S \subseteq Open \ r.limited, NEW f,
           \A p \in S : /\ f[p] \in Nat /\ f[p] <= data[p]
                        /\ Scale * f[p] <= Part(r.bandwidth, r.total) * data[p]
    PROVE  /\ SumFunctionOnSet(f, S) \in Nat
           /\ SumFunctionOnSet(f, S) <= r.total
           /\ SumFunctionOnSet(f, S) <= r.bandwidth
<1> DEFINE part == Part(r.bandwidth, r.total)
           F == SumFunctionOnSet(f, S)
           D == SumFunctionOnSet(data, S)
           g == [p \in S |-> Scale * f[p]]
           h == [p \in S |-> part * data[p]]
<1>1. S \subseteq Open /\ IsFiniteSet(S) /\ D \in Nat /\ \A p \in S : data[p] \in Nat
  BY DataSums DEF CorrectRounds
<1>2. D <= r.total
  BY RestTotal
<1>3. r.bandwidth \in Word /\ r.total \in Word /\ r.bandwidth \in Nat /\ r.total \in Nat
  BY Words DEF CorrectRounds
<1>4. part \in Nat /\ r.total * part <= r.bandwidth * Scale /\ Scale \in Nat \ {0}
  <2>1. part \in 0 .. Scale /\ r.total * part <= r.bandwidth * Scale
    BY <1>3, PartBounds
  <2> HIDE DEF part
  <2>2. Scale \in Nat \ {0}
    BY Words
  <2> QED BY <2>1, <2>2
<1>5. F \in Nat
  BY <1>1, SumNat
<1>6. F <= D
  BY <1>1, SumLess
<1> HIDE DEF part
<1>7. /\ \A p \in S : g[p] = Scale * f[p] /\ g[p] \in Int
      /\ \A p \in S : h[p] = part * data[p] /\ h[p] \in Int
      /\ \A p \in S : g[p] <= h[p]
  <2>1. \A a, b \in Nat : a * b \in Int
    BY SMT
  <2> QED BY <1>1, <1>4, <2>1 DEF part
<1> HIDE DEF g, h
<1>8. SumFunctionOnSet(g, S) = Scale * F
  BY <1>1, <1>4, <1>7, SumTimes
<1>9. SumFunctionOnSet(h, S) = part * D
  BY <1>1, <1>4, <1>7, SumTimes
<1>10. SumFunctionOnSet(g, S) <= SumFunctionOnSet(h, S)
  BY <1>1, <1>7, SumLess
<1> HIDE DEF F, D
<1>11. part * D \in Nat /\ part * D <= part * r.total /\ part * r.total \in Nat
  BY <1>1, <1>2, <1>3, <1>4, ProductGrows
<1>12. part * r.total = r.total * part /\ r.bandwidth * Scale = Scale * r.bandwidth
       /\ Scale * r.bandwidth \in Nat /\ Scale * F \in Nat
  BY <1>3, <1>4, <1>5, SMT
<1>13. Scale * F <= Scale * r.bandwidth
  BY <1>4, <1>8, <1>9, <1>10, <1>11, <1>12
<1>14. ~(F > r.bandwidth)
  <2>1. SUFFICES ASSUME F > r.bandwidth PROVE FALSE
    OBVIOUS
  <2>2. Scale * F >= Scale * r.bandwidth + Scale
    BY <1>3, <1>4, <1>5, <2>1, Multiples
  <2> QED BY <1>4, <1>12, <1>13, <2>2
<1>15. F \in Nat /\ F <= r.total /\ F <= r.bandwidth
  BY <1>1, <1>2, <1>3, <1>5, <1>6, <1>14
<1> QED BY <1>15 DEF F

\* The rounds take no more than there is: whatever a round takes from the bandwidth
\* and from what is to be sent, neither falls below 0.
LEMMA NextRoundBalanced ==
    ASSUME Fields, NEW elapsed \in Nat, NEW r \in CorrectRounds(elapsed), Balanced(r, elapsed),
           Uncut(elapsed)
    PROVE  Balanced(NextRound(r, elapsed), elapsed)
<1> DEFINE over == Over(r, elapsed)
           part == Part(r.bandwidth, r.total)
           B(s) == SumFunctionOnSet(Budgets(elapsed), s)
           next == NextRound(r, elapsed)
<1>1. over \subseteq Open \ r.limited /\ over \subseteq Open /\ r.limited \subseteq Open
  BY DEF Over, CorrectRounds
<1>2. r.bandwidth \in Nat /\ r.total \in Nat /\ part \in 0 .. Scale
      /\ r.bandwidth < Modulus /\ r.total < Modulus
  BY PartBounds, Words DEF CorrectRounds
<1>3. \A p \in over : /\ Budgets(elapsed)[p] \in Nat
                      /\ Budgets(elapsed)[p] <= data[p]
                      /\ Scale * Budgets(elapsed)[p] <= part * data[p]
  <2> TAKE p \in over
  <2>1. p \in Open /\ data[p] \in Nat /\ Budgets(elapsed)[p] \in Nat
        /\ Budgets(elapsed)[p] = Budget(incoming[p], elapsed)
    BY <1>1, DataSums
  <2>2. Budgets(elapsed)[p] <= data[p]
    BY <2>1, OverHasData
  <2> DEFINE n == part * data[p]
             q == n \div Scale
  <2>3. (n % Modulus) \div Scale > Budgets(elapsed)[p]
    BY <2>1 DEF Over
  <2> HIDE DEF part
  <2>4. n \in Nat /\ n < Modulus
    <3>1. data[p] * part <= data[p] * Scale /\ data[p] * part \in Nat
          /\ data[p] * Scale \in Nat
      <4>1. part \in Nat /\ part <= Scale /\ Scale \in Nat
        BY <1>2, Words
      <4> QED BY <2>1, <4>1, ProductGrows
    <3>2. data[p] * part = n
      BY <1>2, <2>1, SMT
    <3>3. data[p] * Scale < Modulus
      BY <2>1 DEF Uncut
    <3> QED BY <3>1, <3>2, <3>3, Words
  <2> HIDE DEF n
  <2>5. q > Budgets(elapsed)[p] /\ q \in Nat /\ Scale * q <= n
    <3>1. Modulus \in Nat \ {0} /\ Scale \in Nat \ {0}
      BY Words
    <3>2. n % Modulus = n
      BY <2>4, <3>1, QuotientBounds
    <3>3. q \in Nat /\ Scale * q <= n
      BY <2>4, <3>1, QuotientBounds
    <3> QED BY <2>3, <3>2, <3>3
  <2> HIDE DEF q
  <2>6. Scale * Budgets(elapsed)[p] \in Nat /\ Scale * q \in Nat
        /\ Scale * Budgets(elapsed)[p] <= Scale * q
    <3> DEFINE m == Budgets(elapsed)[p]
    <3>1. m \in Nat /\ q \in Nat /\ m <= q /\ Scale \in Nat
      BY <2>1, <2>5, Words
    <3> HIDE DEF m
    <3>2. Scale * m \in Nat /\ Scale * q \in Nat /\ Scale * m <= Scale * q
      BY <3>1, ProductGrows
    <3> QED BY <3>2 DEF m
  <2>7. Scale * Budgets(elapsed)[p] <= n
    BY <2>4, <2>5, <2>6
  <2> QED BY <2>1, <2>2, <2>7 DEF n
<1>4. B(over) \in Nat /\ B(over) <= r.total /\ B(over) <= r.bandwidth
  <2> HIDE DEF over
  <2> QED BY <1>1, <1>3, PartFits
<1>5. B(r.limited \cup over) = B(r.limited) + B(over) /\ B(r.limited) \in Nat
  <2>1. r.limited \cap over = {} /\ IsFiniteSet(r.limited) /\ IsFiniteSet(over)
    BY <1>1, OpenFinite
  <2>2. \A p \in r.limited \cup over : Budgets(elapsed)[p] \in Int
    BY <1>1, DataSums
  <2> HIDE DEF over
  <2> QED BY <1>1, <2>1, <2>2, SumUnion, DataSums
<1> HIDE DEF over, part
<1>6. next = [limited |-> r.limited \cup over,
              bandwidth |-> (r.bandwidth - B(over)) % Modulus,
              total |-> (r.total - B(over)) % Modulus]
  BY DEF NextRound, Budgets, over
<1>7. r.bandwidth + B(r.limited) = Budget(hostOutgoing, elapsed)
      /\ r.total + B(r.limited) = SumFunctionOnSet(data, Open)
  BY DEF Balanced
<1> HIDE DEF B
<1>8. /\ r.bandwidth - B(over) \in Nat /\ r.bandwidth - B(over) < Modulus
      /\ r.total - B(over) \in Nat /\ r.total - B(over) < Modulus
  BY <1>2, <1>4, Words
<1>9. /\ (r.bandwidth - B(over)) % Modulus = r.bandwidth - B(over)
      /\ (r.total - B(over)) % Modulus = r.total - B(over)
  BY <1>8, Cut
<1>10. /\ next.limited = r.limited \cup over
       /\ next.bandwidth = r.bandwidth - B(over)
       /\ next.total = r.total - B(over)
  BY <1>6, <1>9
<1> HIDE DEF next
<1>11. /\ next.bandwidth + B(next.limited) = Budget(hostOutgoing, elapsed)
       /\ next.total + B(next.limited) = SumFunctionOnSet(data, Open)
  BY <1>2, <1>4, <1>5, <1>7, <1>10
<1> QED BY <1>11 DEF Balanced, B, next

\* So the last round is balanced.
LEMMA RoundsBalanced ==
    ASSUME Fields, NEW elapsed \in Nat, Uncut(elapsed), hostOutgoing # 0
    PROVE  Balanced(Rounds(elapsed), elapsed)
<1>1. PICK round : RoundsOf(round, elapsed)
  BY RoundsAre
<1> DEFINE n == Cardinality(Peers)
           Good == {r \in CorrectRounds(elapsed) : Balanced(r, elapsed)}
<1>2. n \in Nat
  BY PeersAssumption, FS_CardinalityType
<1>3. Balanced(FirstRound(elapsed), elapsed)
  <2> DEFINE f == FirstRound(elapsed)
             D == SumFunctionOnSet(data, Open)
  <2>1. D \in Nat /\ D < Modulus
    BY DataSums DEF Uncut
  <2> HIDE DEF D
  <2>2. D % Modulus = D
    BY <2>1, Cut
  <2>3. f.limited = {} /\ f.bandwidth = Budget(hostOutgoing, elapsed) /\ f.total = D
    BY <2>2 DEF FirstRound, D
  <2>4. SumFunctionOnSet(Budgets(elapsed), {}) = 0
    BY SumNothing
  <2>5. Budget(hostOutgoing, elapsed) \in Nat
    BY BudgetBounds, Words DEF Fields
  <2> HIDE DEF f
  <2>6. Balanced(f, elapsed)
    BY <2>1, <2>3, <2>4, <2>5 DEF Balanced, D
  <2> QED BY <2>6 DEF f
<1>4. \A i \in 0 .. n : round[i] \in Good
  <2>1. round[0] \in Good
    BY <1>1, <1>3, FirstRoundCorrect DEF RoundsOf
  <2>2. \A i \in 1 .. n : round[i - 1] \in Good => round[i] \in Good
    <3> TAKE i \in 1 .. n
    <3>1. round[i] = NextRound(round[i - 1], elapsed)
      BY <1>1 DEF RoundsOf
    <3> QED BY <3>1, NextRoundCorrect, NextRoundBalanced
  <2> HIDE DEF Good, n
  <2> QED BY <1>2, <2>1, <2>2, LoopInvariant
<1>5. n \in 0 .. n
  BY <1>2
<1> QED BY <1>1, <1>3, <1>4, <1>5 DEF RoundsOf

\* What a limited peer is let through is no more than it can receive.
LEMMA LimitedFits ==
    ASSUME Fields, NEW elapsed \in Nat, Uncut(elapsed), NEW r \in CorrectRounds(elapsed),
           NEW p \in r.limited, NEW part,
           NewLimit(p, r.limited, part, elapsed) # 1
    PROVE  LET new == NewLimit(p, r.limited, part, elapsed)
           IN (data[p] * new) \div Scale <= Budget(incoming[p], elapsed)
<1> DEFINE b == Budget(incoming[p], elapsed)
           n == b * Scale
           own == n \div data[p]
           x == incoming[p] * elapsed
<1>1. p \in Open /\ data[p] \in Nat /\ incoming[p] \in Nat /\ Scale \in Nat \ {0}
  BY DataSums, Words DEF CorrectRounds
<1>2. b \in Nat /\ b < data[p] /\ b <= x /\ x \in Nat
  <2>1. x \in Nat
    BY <1>1, SMT
  <2> QED BY <1>1, <2>1, BudgetBounds, Words DEF CorrectRounds
<1>3. x * Scale < Modulus
  BY <1>1 DEF Uncut
<1> HIDE DEF x
<1>4. n \in Nat /\ n < Modulus
  <2> HIDE DEF b
  <2>1. Scale * b <= Scale * x /\ Scale * b \in Nat /\ Scale * x \in Nat
    BY <1>1, <1>2, ProductGrows
  <2>2. n = Scale * b /\ x * Scale = Scale * x
    BY <1>1, <1>2, SMT
  <2> QED BY <1>3, <2>1, <2>2, Words
<1>5. NewLimit(p, r.limited, part, elapsed)
         = LET o == (n % Modulus) \div data[p] IN IF o = 0 THEN 1 ELSE o
  BY DEF NewLimit
<1> HIDE DEF n
<1>6. n % Modulus = n
  BY <1>4, Cut
<1>7. NewLimit(p, r.limited, part, elapsed) = own
  BY <1>5, <1>6
<1> HIDE DEF b
<1>8. own \in Nat /\ data[p] * own <= n
  <2>1. data[p] \in Nat \ {0}
    BY <1>1, <1>2
  <2> QED BY <1>4, <2>1, QuotientBounds
<1> HIDE DEF own
<1>9. data[p] * own \in Nat /\ n = Scale * b
  BY <1>1, <1>2, <1>8, SMT DEF n
<1>10. (data[p] * own) \div Scale <= b
  BY <1>1, <1>2, <1>8, <1>9, QuotientBounds
<1> QED BY <1>7, <1>10 DEF b

\* What another one is let through is no more than it can receive, if it has a limit.
LEMMA OthersFit ==
    ASSUME Fields, NEW elapsed \in Nat, Uncut(elapsed), NEW r \in CorrectRounds(elapsed),
           Over(r, elapsed) = {}, NEW p \in Open \ r.limited
    PROVE  LET part == Part(r.bandwidth, r.total)
               passes == (data[p] * part) \div Scale
           IN /\ passes \in Nat /\ passes <= data[p] /\ Scale * passes <= part * data[p]
              /\ incoming[p] # 0 => passes <= Budget(incoming[p], elapsed)
<1> DEFINE part == Part(r.bandwidth, r.total)
           n == part * data[p]
           q == n \div Scale
<1>1. data[p] \in Nat /\ incoming[p] \in Nat /\ Scale \in Nat \ {0}
  BY DataSums, Words
<1>2. part \in 0 .. Scale /\ part \in Nat
  <2>1. part \in 0 .. Scale
    BY PartBounds DEF CorrectRounds
  <2> HIDE DEF part
  <2> QED BY <2>1
<1>3. incoming[p] # 0 => ~((n % Modulus) \div Scale > Budget(incoming[p], elapsed))
  BY DEF Over
<1> HIDE DEF part
<1>4. n \in Nat /\ n < Modulus /\ n = data[p] * part /\ n <= data[p] * Scale
      /\ data[p] * Scale = Scale * data[p] /\ Scale * data[p] \in Nat
  <2>1. data[p] * part <= data[p] * Scale /\ data[p] * part \in Nat /\ data[p] * Scale \in Nat
    BY <1>1, <1>2, ProductGrows
  <2>2. data[p] * part = n /\ data[p] * Scale = Scale * data[p]
    BY <1>1, <1>2, SMT
  <2>3. data[p] * Scale < Modulus
    BY DEF Uncut
  <2> QED BY <2>1, <2>2, <2>3, Words
<1> HIDE DEF n
<1>5. n % Modulus = n
  BY <1>4, Cut
<1>6. q \in Nat /\ Scale * q <= n /\ q <= data[p]
  BY <1>1, <1>4, QuotientBounds
<1>7. Budget(incoming[p], elapsed) \in Nat
  BY <1>1, BudgetBounds, Words
<1>8. incoming[p] # 0 => q <= Budget(incoming[p], elapsed)
  BY <1>3, <1>5, <1>6, <1>7
<1>9. q = (data[p] * part) \div Scale
  BY <1>4
<1> HIDE DEF q
<1> QED BY <1>6, <1>8, <1>9 DEF part, n

\* What the model's property says of one call of the throttle.
PassesFit(elapsed) ==
    LET passes == [p \in Peers |-> (data[p] * limit'[p]) \div Scale]
    IN /\ \A p \in Open : incoming[p] # 0 /\ limit'[p] # 1 =>
             passes[p] <= Budget(incoming[p], elapsed)
       /\ hostOutgoing # 0 /\ (\A p \in Open : limit'[p] # 1) =>
             SumFunctionOnSet(passes, Open) <= Budget(hostOutgoing, elapsed)

\* A call of the throttle that cuts nothing lets through what the peers and the host allow.
LEMMA ThrottledFits ==
    ASSUME Fields, CountInv, NEW elapsed \in Nat, Uncut(elapsed), Throttled(elapsed)
    PROVE  PassesFit(elapsed)
<1> DEFINE r == Rounds(elapsed)
           part == Part(r.bandwidth, r.total)
           passes == [p \in Peers |-> (data[p] * limit'[p]) \div Scale]
           rest == Open \ r.limited
           B(p) == Budget(incoming[p], elapsed)
<1>1. r \in CorrectRounds(elapsed) /\ Over(r, elapsed) = {}
  BY LastRound, Settled
<1>2. r.limited \subseteq Open /\ Open \subseteq Peers
  BY <1>1 DEF CorrectRounds, Open
<1>3. \A p \in Open : limit'[p] = NewLimit(p, r.limited, part, elapsed)
  BY <1>2 DEF Throttled
<1>4. \A p \in Open : passes[p] = (data[p] * limit'[p]) \div Scale
  BY <1>2
<1> HIDE DEF r, passes
<1>5. \A p \in r.limited : limit'[p] # 1 => passes[p] <= B(p)
  BY <1>1, <1>2, <1>3, <1>4, LimitedFits
<1>6. \A p \in rest : /\ passes[p] \in Nat /\ passes[p] <= data[p]
                      /\ Scale * passes[p] <= part * data[p]
                      /\ incoming[p] # 0 => passes[p] <= B(p)
  <2> TAKE p \in rest
  <2>1. limit'[p] = part
    BY <1>3 DEF NewLimit
  <2>2. passes[p] = (data[p] * part) \div Scale
    BY <1>4, <2>1
  <2> QED BY <1>1, <2>2, OthersFit
<1>7. \A p \in Open : incoming[p] # 0 /\ limit'[p] # 1 => passes[p] <= B(p)
  BY <1>5, <1>6
<1>8. ASSUME hostOutgoing # 0, \A p \in Open : limit'[p] # 1
      PROVE  SumFunctionOnSet(passes, Open) <= Budget(hostOutgoing, elapsed)
  <2> DEFINE P(s) == SumFunctionOnSet(passes, s)
             used == SumFunctionOnSet(Budgets(elapsed), r.limited)
  <2>1. Balanced(r, elapsed)
    BY <1>8, RoundsBalanced DEF r
  <2>2. P(rest) \in Nat /\ P(rest) <= r.bandwidth
    BY <1>1, <1>6, <2>1, PartFits
  <2>3. \A p \in r.limited : /\ passes[p] \in Int /\ Budgets(elapsed)[p] \in Int
                             /\ passes[p] <= Budgets(elapsed)[p]
    <3> TAKE p \in r.limited
    <3>1. p \in Open /\ data[p] \in Nat /\ Budgets(elapsed)[p] = B(p) /\ B(p) \in Nat
      BY <1>2, DataSums
    <3>2. limit'[p] \in 0 .. Scale
      <4>1. part \in 0 .. Scale
        BY LastRound DEF r
      <4> HIDE DEF part
      <4>2. limit'[p] = NewLimit(p, r.limited, part, elapsed)
        BY <1>3, <3>1 DEF part
      <4> QED BY <1>1, <3>1, <4>1, <4>2, NewLimitBounds
    <3>3. data[p] * limit'[p] \in Nat
      <4>1. \A a, b \in Nat : a * b \in Nat
        BY SMT
      <4>2. limit'[p] \in Nat
        BY <3>2
      <4> QED BY <3>1, <4>1, <4>2
    <3>4. passes[p] \in Nat
      <4> DEFINE x == data[p] * limit'[p]
      <4>1. x \in Nat /\ passes[p] = x \div Scale /\ Scale \in Nat \ {0}
        BY <1>4, <3>1, <3>3, Words
      <4> HIDE DEF x
      <4> QED BY <4>1, QuotientBounds
    <3> HIDE DEF B
    <3> QED BY <1>5, <1>8, <3>1, <3>4
  <2>4. P(r.limited) <= used /\ P(r.limited) \in Int /\ used \in Int
    BY <1>2, <2>3, OpenFinite, SumLess, SumInt
  <2>5. P(Open) = P(r.limited) + P(rest)
    <3>1. r.limited \cup rest = Open /\ r.limited \cap rest = {}
      BY <1>2
    <3>2. IsFiniteSet(r.limited) /\ IsFiniteSet(rest)
          /\ \A p \in r.limited \cup rest : passes[p] \in Int
      BY <1>2, <1>6, <2>3, OpenFinite
    <3> HIDE DEF rest
    <3>3. SumFunctionOnSet(passes, r.limited \cup rest) = P(r.limited) + P(rest)
      BY <3>1, <3>2, SumUnion
    <3> QED BY <3>1, <3>3
  <2>6. r.bandwidth + used = Budget(hostOutgoing, elapsed) /\ r.bandwidth \in Int
    BY <1>1, <2>1, Words DEF Balanced, CorrectRounds
  <2> HIDE DEF P, used, rest
  <2>7. P(Open) <= Budget(hostOutgoing, elapsed)
    BY <2>2, <2>4, <2>5, <2>6
  <2> QED BY <2>7 DEF P
<1> QED BY <1>7, <1>8 DEF PassesFit, passes

\* While no product and no sum is cut to 32 bits, what a call of the throttle lets
\* through of the last interval is no more than every peer can receive and the host
\* can send, for every number of peers: the rounds come to their end within the
\* number of peers, and what they take from the bandwidth never exceeds it
\* (host.c:354-435).
THEOREM AllowedCorrect == Spec => AllowedFits
<1> DEFINE A == \A elapsed \in Elapsed : RoundFits(elapsed)
<1>1. ThrottleInv => A
  <2>1. SUFFICES ASSUME ThrottleInv, NEW elapsed \in Elapsed,
                        Throttled(elapsed), Uncut(elapsed)
                 PROVE  PassesFit(elapsed)
    BY DEF RoundFits, Uncut, PassesFit
  <2>2. elapsed \in Nat
    BY WordAssumption
  <2> QED BY <2>1, <2>2, ThrottledFits DEF ThrottleInv, LimitInv
<1>2. ThrottleInv => [A]_vars
  BY <1>1
<1> QED BY <1>2, SpecInv, PTL DEF AllowedFits
=============================================================================
