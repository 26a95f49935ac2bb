------------------------ MODULE ReliableChannelProofs ------------------------
(* Proofs about ReliableChannel, for every size of the windows and whatever   *)
(* the program sends: first the sender alone, whose windows count what is in  *)
(* flight; then both ends, which do what FifoChannel promises as long as      *)
(* nothing arrives so late that its number passes for a new one.              *)
EXTENDS ReliableChannel, NumberLemmas, FiniteSetTheorems, SequenceTheorems, TLAPS

InWindowOf(flight, w) == {n \in flight : Window(Wire(n)) = w}

SenderType == /\ sent \in Nat
              /\ inFlight \subseteq 1 .. sent
              /\ counts \in [WindowNumbers -> Nat]
              /\ used \subseteq WindowNumbers

SenderInv == SenderType /\ WindowsCountInFlight

\* The window of a command is one of the windows: its sequence number is below
\* Windows * WindowSize (protocol.c:1498, protocol.c:235).
LEMMA WindowType ==
    ASSUME NEW n \in Nat
    PROVE  Window(Wire(n)) \in WindowNumbers
<1> DEFINE x == n % Space
           q == x \div WindowSize
<1>1. /\ Windows \in Nat /\ Windows > 0
      /\ WindowSize \in Nat /\ WindowSize > 0
  BY WindowsAssumption
<1>2. Space \in Nat /\ Space > 0
  BY <1>1, SMT DEF Space
<1>3. x \in Nat /\ x < Windows * WindowSize
  BY <1>2, SMT DEF Space
<1>4. q \in Int /\ q >= 0 /\ q * WindowSize <= x
  BY <1>1, <1>3, SMT
<1>5. q < Windows
  <2> HIDE DEF x, q
  <2>1. SUFFICES ASSUME q >= Windows PROVE FALSE
    BY <1>1, <1>4
  <2>2. q * WindowSize >= Windows * WindowSize
    BY <1>1, <1>4, <2>1, SMT
  <2> QED BY <1>1, <1>3, <1>4, <2>2, SMT
<1> QED BY <1>1, <1>4, <1>5 DEF Window, Wire, WindowNumbers

\* What is in flight is finite, and so is what is in flight of one window.
LEMMA InFlightFinite ==
    ASSUME SenderType, NEW w
    PROVE  IsFiniteSet(InWindowOf(inFlight, w))
<1>1. IsFiniteSet(1 .. sent)
  BY FS_Interval DEF SenderType
<1>2. InWindowOf(inFlight, w) \subseteq 1 .. sent
  BY DEF SenderType, InWindowOf
<1> QED BY <1>1, <1>2, FS_Subset

\* A transmission counts its command in the window it belongs to.
LEMMA TransmitCounts ==
    ASSUME SenderInv, Transmit
    PROVE  SenderInv'
<1> DEFINE n == sent + 1
           v == Window(Wire(n))
<1>1. /\ sent \in Nat /\ n \in Nat
      /\ inFlight \subseteq 1 .. sent
      /\ n \notin inFlight
  BY DEF SenderInv, SenderType
<1>2. v \in WindowNumbers
  BY <1>1, WindowType
<1>3. /\ sent' = n
      /\ inFlight' = inFlight \cup {n}
      /\ used' = used \cup {v}
      /\ counts' = [counts EXCEPT ![v] = @ + 1]
  BY DEF Transmit
<1>4. SenderType'
  <2>1. sent' \in Nat /\ inFlight' \subseteq 1 .. sent'
    BY <1>1, <1>3
  <2>2. counts' \in [WindowNumbers -> Nat] /\ used' \subseteq WindowNumbers
    <3> HIDE DEF v
    <3> QED BY <1>2, <1>3 DEF SenderInv, SenderType
  <2> QED BY <2>1, <2>2 DEF SenderType
<1>5. ASSUME NEW w \in WindowNumbers
      PROVE  /\ counts'[w] = Cardinality(InWindowOf(inFlight', w))
             /\ w \in used' <=> counts'[w] > 0
  <2>1. /\ counts[w] = Cardinality(InWindowOf(inFlight, w))
        /\ counts[w] \in Nat
        /\ w \in used <=> counts[w] > 0
    BY DEF SenderInv, SenderType, WindowsCountInFlight, InWindowOf
  <2>2. CASE w = v
    <3>1. InWindowOf(inFlight', w) = InWindowOf(inFlight, w) \cup {n}
      BY <1>3, <2>2 DEF InWindowOf
    <3>2. Cardinality(InWindowOf(inFlight', w)) = counts[w] + 1
      <4>1. IsFiniteSet(InWindowOf(inFlight, w))
        BY InFlightFinite DEF SenderInv
      <4>2. n \notin InWindowOf(inFlight, w)
        BY <1>1 DEF InWindowOf
      <4> HIDE DEF n, v
      <4>3. Cardinality(InWindowOf(inFlight, w) \cup {n})
              = Cardinality(InWindowOf(inFlight, w)) + 1
        BY <4>1, <4>2, FS_AddElement
      <4> QED BY <2>1, <3>1, <4>3
    <3>3. counts'[w] = counts[w] + 1
      <4> HIDE DEF v
      <4> QED BY <1>3, <2>2 DEF SenderInv, SenderType
    <3>4. w \in used'
      BY <1>3, <2>2
    <3> QED BY <2>1, <3>2, <3>3, <3>4
  <2>3. CASE w # v
    <3>1. InWindowOf(inFlight', w) = InWindowOf(inFlight, w)
      BY <1>3, <2>3 DEF InWindowOf
    <3> HIDE DEF v
    <3>2. counts'[w] = counts[w] /\ (w \in used' <=> w \in used)
      BY <1>3, <2>3 DEF SenderInv, SenderType
    <3> QED BY <2>1, <3>1, <3>2
  <2> QED BY <2>2, <2>3
<1> QED BY <1>4, <1>5 DEF SenderInv, SenderType, WindowsCountInFlight, InWindowOf

\* An acknowledgement takes its command out of the count of its window, and
\* clears the bit of the window with the last one.
LEMMA AcknowledgeCounts ==
    ASSUME SenderInv, NEW n \in Numbers, HandleAcknowledge(n)
    PROVE  SenderInv'
<1>1. PICK m \in inFlight : /\ inFlight' = inFlight \ {m}
                            /\ LeaveWindow(Window(Wire(m)))
  BY DEF HandleAcknowledge
<1> DEFINE v == Window(Wire(m))
<1>2. sent \in Nat /\ inFlight \subseteq 1 .. sent /\ m \in Nat /\ sent' = sent
  BY DEF SenderInv, SenderType, HandleAcknowledge
<1>3. v \in WindowNumbers
  BY <1>2, WindowType
<1>4. InWindowOf(inFlight', v) = InWindowOf(inFlight, v) \ {m}
  BY <1>1 DEF InWindowOf
<1>5. m \in InWindowOf(inFlight, v)
  BY DEF InWindowOf
<1>6. /\ Cardinality(InWindowOf(inFlight', v)) = Cardinality(InWindowOf(inFlight, v)) - 1
      /\ Cardinality(InWindowOf(inFlight', v)) \in Nat
  <2>1. IsFiniteSet(InWindowOf(inFlight, v))
    BY InFlightFinite DEF SenderInv
  <2>2. IsFiniteSet(InWindowOf(inFlight', v))
    BY <1>4, <2>1, FS_RemoveElement
  <2> QED BY <1>4, <1>5, <2>1, <2>2, FS_RemoveElement, FS_CardinalityType
<1>7. counts[v] \in Nat /\ counts[v] = Cardinality(InWindowOf(inFlight, v))
  BY <1>3 DEF SenderInv, SenderType, WindowsCountInFlight, InWindowOf
<1>8. counts[v] > 0
  <2> HIDE DEF v
  <2> QED BY <1>6, <1>7
<1>9. /\ counts' = [counts EXCEPT ![v] = @ - 1]
      /\ used' = IF counts[v] = 1 THEN used \ {v} ELSE used
  BY <1>1, <1>8 DEF LeaveWindow
<1>10. SenderType'
  <2>1. inFlight' \subseteq 1 .. sent'
    BY <1>1, <1>2
  <2> HIDE DEF v
  <2>2. counts' \in [WindowNumbers -> Nat] /\ used' \subseteq WindowNumbers
    BY <1>3, <1>7, <1>8, <1>9 DEF SenderInv, SenderType
  <2> QED BY <1>2, <2>1, <2>2 DEF SenderType
<1>11. ASSUME NEW w \in WindowNumbers
       PROVE  /\ counts'[w] = Cardinality(InWindowOf(inFlight', w))
              /\ w \in used' <=> counts'[w] > 0
  <2>1. /\ counts[w] = Cardinality(InWindowOf(inFlight, w))
        /\ counts[w] \in Nat
        /\ w \in used <=> counts[w] > 0
    BY DEF SenderInv, SenderType, WindowsCountInFlight, InWindowOf
  <2>2. CASE w = v
    <3> HIDE DEF v
    <3>1. counts'[w] = counts[w] - 1
      BY <1>3, <1>9, <2>2 DEF SenderInv, SenderType
    <3>2. w \in used' <=> counts[w] # 1
      BY <1>8, <1>9, <2>1, <2>2
    <3> QED BY <1>6, <1>8, <2>1, <2>2, <3>1, <3>2
  <2>3. CASE w # v
    <3>1. InWindowOf(inFlight', w) = InWindowOf(inFlight, w)
      BY <1>1, <2>3 DEF InWindowOf
    <3> HIDE DEF v
    <3>2. counts'[w] = counts[w] /\ (w \in used' <=> w \in used)
      BY <1>9, <2>3 DEF SenderInv, SenderType
    <3> QED BY <2>1, <3>1, <3>2
  <2> QED BY <2>2, <2>3
<1> QED BY <1>10, <1>11 DEF SenderInv, SenderType, WindowsCountInFlight, InWindowOf

\* The windows of a channel just opened are empty and nothing is in flight.
LEMMA SenderInit == Init => SenderInv
<1> SUFFICES ASSUME Init PROVE SenderInv
  OBVIOUS
<1>1. SenderType
  BY DEF Init, SenderType
<1>2. ASSUME NEW w \in WindowNumbers
      PROVE  counts[w] = Cardinality({n \in inFlight : Window(Wire(n)) = w})
  <2>1. {n \in inFlight : Window(Wire(n)) = w} = {}
    BY DEF Init
  <2> QED BY <2>1, FS_EmptySet DEF Init
<1>3. used = {w \in WindowNumbers : counts[w] > 0}
  BY DEF Init
<1> QED BY <1>1, <1>2, <1>3 DEF SenderInv, WindowsCountInFlight

\* Every step keeps the sender's invariant; only two touch what it is about.
LEMMA SenderStep == SenderInv /\ [Next]_vars => SenderInv'
<1> SUFFICES ASSUME SenderInv, [Next]_vars PROVE SenderInv'
  OBVIOUS
<1>1. ASSUME UNCHANGED <<sent, inFlight, counts, used>> PROVE SenderInv'
  BY <1>1 DEF SenderInv, SenderType, WindowsCountInFlight
<1>2. CASE Send
  BY <1>1, <1>2 DEF Send
<1>3. CASE Transmit
  BY <1>3, TransmitCounts
<1>4. ASSUME NEW n \in Numbers, HandleAcknowledge(n) PROVE SenderInv'
  BY <1>4, AcknowledgeCounts
<1>5. ASSUME NEW n \in Numbers, HandleSendReliable(n) PROVE SenderInv'
  BY <1>1, <1>5 DEF HandleSendReliable, sender
<1>6. ASSUME NEW n \in Numbers, HandleSendFragment(n) PROVE SenderInv'
  BY <1>1, <1>6 DEF HandleSendFragment, sender
<1>7. CASE UNCHANGED vars
  BY <1>1, <1>7 DEF vars, sender
<1> QED BY <1>2, <1>3, <1>4, <1>5, <1>6, <1>7 DEF Next

\* For any size of the windows, any packets and any losses, the counts of the
\* windows are the commands in flight, and the bits say which are not zero.
THEOREM WindowsCorrect == Spec => []WindowsCountInFlight
<1>1. SenderInv => WindowsCountInFlight
  BY DEF SenderInv
<1> QED BY <1>1, SenderInit, SenderStep, PTL DEF Spec

-----------------------------------------------------------------------------
(* Packets and the numbers of their commands.                                 *)

\* First is the function its definition describes.
LEMMA FirstDefined ==
    First = [p \in 1 .. Len(Fragments) + 1 |->
                IF p = 1 THEN 1 ELSE First[p - 1] + Fragments[p - 1]]
<1> DEFINE n == Len(Fragments)
           Values == Nat
           first == 1
           next == [i \in 1 .. n |-> [v \in Values |-> v + Fragments[i]]]
<1>1. n \in Nat /\ (\A i \in 1 .. n : Fragments[i] \in Nat) /\ first \in Values
  BY FragmentsAssumption
<1>2. next \in StepsOn(Values, n)
  BY <1>1 DEF StepsOn
<1> HIDE DEF n
<1>3. PICK f : Iterates(f, Values, n, next, first)
  <2> HIDE DEF next, first, Values
  <2> QED BY <1>1, <1>2, Iteration
<1> USE DEF Iterates
<1> DEFINE g == [p \in 1 .. n + 1 |-> f[p - 1]]
<1>4. g = [p \in 1 .. n + 1 |-> IF p = 1 THEN 1 ELSE g[p - 1] + Fragments[p - 1]]
  <2>1. ASSUME NEW p \in 1 .. n + 1, p # 1
        PROVE  f[p - 1] = g[p - 1] + Fragments[p - 1]
    <3>1. p - 1 \in 1 .. n /\ (p - 1) - 1 \in 0 .. n /\ p - 1 \in 1 .. n + 1
      BY <1>1, <2>1
    <3>2. g[p - 1] = f[(p - 1) - 1]
      BY <3>1
    <3>3. f[p - 1] = next[p - 1][f[(p - 1) - 1]] /\ f[(p - 1) - 1] \in Values
      BY <1>3, <3>1
    <3>4. \A v \in Values : next[p - 1][v] = v + Fragments[p - 1]
      BY <3>1
    <3> QED BY <3>2, <3>3, <3>4, Zenon
  <2>2. f[1 - 1] = 1
    BY <1>3
  <2> QED BY <2>1, <2>2
<1> HIDE DEF g
<1> QED BY <1>4, Zenon DEF First, n

\* Every packet starts where the one before it ends.
LEMMA FirstSteps ==
    /\ Len(Fragments) \in Nat
    /\ First[1] = 1
    /\ \A p \in 1 .. Len(Fragments) + 1 : First[p] \in Nat \ {0}
    /\ \A p \in 1 .. Len(Fragments) : /\ Fragments[p] \in Nat \ {0}
                                      /\ First[p + 1] = First[p] + Fragments[p]
<1> DEFINE n == Len(Fragments)
           f == [i \in 0 .. n |-> First[i + 1]]
           Positive == Nat \ {0}
<1>1. n \in Nat /\ \A p \in 1 .. n : Fragments[p] \in Positive
  BY FragmentsAssumption
<1>2. First[1] = 1
  BY <1>1, FirstDefined
<1>3. \A p \in 1 .. n : First[p + 1] = First[p] + Fragments[p]
  <2> TAKE p \in 1 .. n
  <2>1. p + 1 \in 1 .. n + 1 /\ p + 1 # 1 /\ (p + 1) - 1 = p
    BY <1>1
  <2> QED BY <2>1, FirstDefined
<1>4. f[0] \in Positive
  BY <1>1, <1>2
<1>5. \A i \in 1 .. n : f[i - 1] \in Positive => f[i] \in Positive
  <2> TAKE i \in 1 .. n
  <2>1. f[i] = First[i + 1] /\ f[i - 1] = First[i]
    BY <1>1
  <2> QED BY <1>1, <1>3, <2>1
<1>6. \A i \in 0 .. n : f[i] \in Positive
  <2> HIDE DEF f, n, Positive
  <2> QED BY <1>1, <1>4, <1>5, LoopInvariant
<1>7. \A p \in 1 .. n + 1 : First[p] \in Positive
  <2> TAKE p \in 1 .. n + 1
  <2>1. p - 1 \in 0 .. n /\ (p - 1) + 1 = p
    BY <1>1
  <2>2. f[p - 1] \in Positive
    BY <1>6, <2>1
  <2> QED BY <2>1, <2>2
<1> QED BY <1>1, <1>2, <1>3, <1>7

\* A later packet has higher numbers.
LEMMA FirstGrows ==
    ASSUME NEW p \in 1 .. Len(Fragments) + 1, NEW q \in p .. Len(Fragments) + 1
    PROVE  First[p] <= First[q] /\ (p < q => First[p + 1] <= First[q])
<1> DEFINE n == Len(Fragments)
           T == {k \in Nat : \A i \in 1 .. n + 1 : i + k <= n + 1 => First[i] <= First[i + k]}
<1>1. n \in Nat
  BY FirstSteps
<1>2. 0 \in T
  BY FirstSteps
<1>3. ASSUME NEW k \in Nat, k \in T
      PROVE  k + 1 \in T
  <2>1. SUFFICES ASSUME NEW i \in 1 .. n + 1, i + (k + 1) <= n + 1
                 PROVE  First[i] <= First[i + (k + 1)]
    OBVIOUS
  <2>2. i + k \in 1 .. n /\ i + (k + 1) = (i + k) + 1 /\ i + k <= n + 1
    BY <1>1, <2>1
  <2>3. First[i] <= First[i + k]
    BY <1>3, <2>2
  <2>4. First[(i + k) + 1] = First[i + k] + Fragments[i + k]
    BY <2>2, FirstSteps
  <2>5. First[i] \in Nat /\ First[i + k] \in Nat /\ Fragments[i + k] \in Nat
    BY <2>2, FirstSteps
  <2> QED BY <2>2, <2>3, <2>4, <2>5
<1>4. Nat \subseteq T
  <2> HIDE DEF T
  <2> QED BY <1>2, <1>3, SetInduction
<1>5. q - p \in Nat /\ p + (q - p) = q
  BY <1>1
<1>6. First[p] <= First[q]
  <2>1. q - p \in T
    BY <1>4, <1>5
  <2> QED BY <1>1, <1>5, <2>1
<1>7. ASSUME p < q PROVE First[p + 1] <= First[q]
  <2>1. p + 1 \in 1 .. n + 1 /\ q - (p + 1) \in Nat /\ (p + 1) + (q - (p + 1)) = q
    BY <1>1, <1>7
  <2>2. q - (p + 1) \in T
    BY <1>4, <2>1
  <2> QED BY <1>1, <2>1, <2>2
<1> QED BY <1>6, <1>7

\* A number between the first of a packet and that of the next belongs to it.
LEMMA PacketUnique ==
    ASSUME NEW p \in DOMAIN Fragments, NEW x \in First[p] .. First[p + 1] - 1
    PROVE  /\ x \in Numbers
           /\ PacketOf[x] = p
           /\ Start(x) = First[p]
           /\ Count(x) = Fragments[p]
<1> DEFINE n == Len(Fragments)
<1>1. n \in Nat /\ DOMAIN Fragments = 1 .. n
  BY FragmentsAssumption
<1>2. /\ p \in 1 .. n + 1 /\ p + 1 \in 1 .. n + 1 /\ n + 1 \in p + 1 .. n + 1
      /\ First[p] \in Nat \ {0} /\ First[p + 1] \in Nat /\ First[n + 1] \in Nat
  BY <1>1, FirstSteps
<1>3. First[p + 1] <= First[n + 1]
  BY <1>2, FirstGrows
<1>4. x \in Numbers
  BY <1>2, <1>3 DEF Numbers
<1>5. ASSUME NEW q \in DOMAIN Fragments, x \in First[q] .. First[q + 1] - 1
      PROVE  q = p
  <2>1. /\ q \in 1 .. n + 1 /\ q + 1 \in 1 .. n + 1
        /\ First[q] \in Nat /\ First[q + 1] \in Nat
    BY <1>1, FirstSteps
  <2>2. ~(q < p)
    <3>1. SUFFICES ASSUME q < p PROVE FALSE
      OBVIOUS
    <3>2. p \in q .. n + 1
      BY <1>1, <1>2, <3>1
    <3>3. First[q + 1] <= First[p]
      BY <2>1, <3>1, <3>2, FirstGrows
    <3> QED BY <1>2, <1>5, <2>1, <3>3
  <2>3. ~(p < q)
    <3>1. SUFFICES ASSUME p < q PROVE FALSE
      OBVIOUS
    <3>2. q \in p .. n + 1
      BY <1>1, <1>2, <3>1
    <3>3. First[p + 1] <= First[q]
      BY <1>2, <3>1, <3>2, FirstGrows
    <3> QED BY <1>2, <1>5, <2>1, <3>3
  <2> QED BY <1>1, <2>2, <2>3
<1>6. PacketOf[x] = p
  BY <1>4, <1>5 DEF PacketOf
<1> QED BY <1>4, <1>6 DEF Start, Count

\* Every number belongs to a packet.
LEMMA PacketExists ==
    ASSUME NEW x \in Numbers
    PROVE  \E p \in DOMAIN Fragments : x \in First[p] .. First[p + 1] - 1
<1> DEFINE n == Len(Fragments)
           Has(k) == \A y \in 1 .. First[k + 1] - 1 :
                        \E p \in 1 .. k : y \in First[p] .. First[p + 1] - 1
           T == {k \in Nat : k <= n => Has(k)}
<1>1. n \in Nat /\ DOMAIN Fragments = 1 .. n
  BY FragmentsAssumption
<1>2. 0 \in T
  BY FirstSteps
<1>3. ASSUME NEW k \in Nat, k \in T
      PROVE  k + 1 \in T
  <2>1. SUFFICES ASSUME k + 1 <= n, NEW y \in 1 .. First[(k + 1) + 1] - 1
                 PROVE  \E p \in 1 .. k + 1 : y \in First[p] .. First[p + 1] - 1
    OBVIOUS
  <2>2. k + 1 \in 1 .. n + 1 /\ (k + 1) + 1 \in 1 .. n + 1 /\ k <= n
    BY <1>1, <2>1
  <2>3. First[k + 1] \in Nat /\ First[(k + 1) + 1] \in Nat
    BY <2>2, FirstSteps
  <2>4. CASE y < First[k + 1]
    <3>1. y \in 1 .. First[k + 1] - 1
      BY <2>3, <2>4
    <3>2. PICK p \in 1 .. k : y \in First[p] .. First[p + 1] - 1
      BY <1>3, <2>2, <3>1
    <3> QED BY <3>2
  <2>5. CASE y >= First[k + 1]
    <3>1. y \in First[k + 1] .. First[(k + 1) + 1] - 1
      BY <2>3, <2>5
    <3> QED BY <3>1
  <2> QED BY <2>3, <2>4, <2>5
<1>4. n \in T
  <2> HIDE DEF T
  <2> QED BY <1>1, <1>2, <1>3, SetInduction
<1> QED BY <1>1, <1>4 DEF Numbers

-----------------------------------------------------------------------------
(* Both ends.  The theorems at the end of the module hold if nothing arrives  *)
(* too late: LateBy commands at most are first sent between a command and the *)
(* last copy of it, or its acknowledgement, and LateBy commands and a packet  *)
(* fit the windows that the receiver neither accepts nor may be told of.      *)

LateBy == IF MaxDelay > MaxAhead THEN MaxDelay - 1 ELSE MaxAhead

DelaysFit == \A p \in DOMAIN Fragments :
                LateBy + Fragments[p] - 1 <= (Windows - FreeWindows + 1) * WindowSize

\* The last command of the first k packets, and the window of a command when
\* windows do not come around.
LastNumber(k) == First[k + 1] - 1
Lane(n) == n \div WindowSize

\* The part of a packet that has arrived.
EntryOf(e, p) == /\ e.start = Wire(First[p])
                 /\ e.count = Fragments[p]
                 /\ e.data # {}
                 /\ e.data \subseteq (First[p] .. First[p + 1] - 1) \cap 1 .. sent

\* The receiver's half: it was given the first packets, and holds parts of
\* later ones, each at most once.
ReceiverStates == [incoming : 0 .. Space - 1,
                   held : SUBSET Entries,
                   delivered : Seq(SUBSET Numbers)]
ReceiverInv(r) ==
    LET k == Len(r.delivered) IN
    /\ r \in ReceiverStates
    /\ k <= Len(Fragments)
    /\ \A i \in 1 .. k : r.delivered[i] = Packets[i]
    /\ LastNumber(k) <= sent
    /\ r.incoming = Wire(LastNumber(k))
    /\ IsFiniteSet(r.held)
    /\ \A e \in r.held : \E p \in k + 1 .. Len(Fragments) : EntryOf(e, p)
    /\ \A e, f \in r.held : e.start = f.start => e = f

Receiver == [incoming |-> incoming, held |-> held, delivered |-> delivered]

\* The other end has command n.
Kept(r, n) == \/ n <= LastNumber(Len(r.delivered))
              \/ \E e \in r.held : n \in e.data

\* The sender is never more windows ahead than it may be.
CloseBy(r) == Lane(sent) <= Lane(LastNumber(Len(r.delivered))) + FreeWindows - 1

\* What was acknowledged, or is going to be, was kept, and is not in the last of
\* these windows.
AckedBy(r, n) ==
    /\ Kept(r, n)
    /\ Lane(n) <= Lane(LastNumber(Len(r.delivered))) + FreeWindows - 2

NothingLate == \A n \in inFlight \cup acks : n \in 1 .. sent /\ sent - n <= LateBy

ChannelInv ==
    /\ queued \in 0 .. Len(Fragments)
    /\ sent \in 0 .. First[queued + 1] - 1
    /\ SenderInv
    /\ NothingLate
    /\ ReceiverInv(Receiver)
    /\ CloseBy(Receiver)
    /\ \A n \in acks \cup (1 .. sent \ inFlight) : AckedBy(Receiver, n)

-----------------------------------------------------------------------------
(* Sequence numbers.                                                          *)

\* The sizes, as the provers need them.
LEMMA Sizes ==
    /\ Windows \in Nat \ {0} /\ WindowSize \in Nat \ {0} /\ Space \in Nat \ {0}
    /\ Space = WindowSize * Windows
    /\ FreeWindows \in Nat /\ 3 <= FreeWindows /\ FreeWindows <= Windows - 1
    /\ MaxAhead \in Nat /\ MaxDelay \in Nat /\ LateBy \in Nat
BY WindowsAssumption, BoundsAssumption, SMT DEF Space, LateBy

\* The window of a sequence number is that of the command, modulo the number of
\* windows, and so is its place in the window.
LEMMA WireShape ==
    ASSUME NEW n \in Nat
    PROVE  /\ Lane(n) \in Nat
           /\ Wire(n) \in 0 .. Space - 1
           /\ Window(Wire(n)) = Lane(n) % Windows
           /\ Wire(n) = WindowSize * Window(Wire(n)) + (n % WindowSize)
<1> DEFINE a == Lane(n)
           r == (n % WindowSize)
           q == a \div Windows
           b == a % Windows
           x == WindowSize * b + r
<1>1. /\ a \in Nat /\ r \in 0 .. WindowSize - 1 /\ n = WindowSize * a + r
  BY Sizes, Remainder DEF Lane
<1>2. q \in Nat /\ b \in 0 .. Windows - 1 /\ a = Windows * q + b
  BY <1>1, Sizes, Remainder
<1>3. x \in 0 .. Space - 1
  <2> HIDE DEF a, r, q, b
  <2>1. WindowSize * b \in Nat /\ WindowSize * b + WindowSize <= WindowSize * Windows
    <3>1. b \in Nat /\ Windows \in Nat /\ Windows > b
      BY <1>2, Sizes
    <3> QED BY <3>1, Sizes, Multiples
  <2> QED BY <1>1, <2>1, Sizes, SMT
<1>4. n = Space * q + x
  <2> HIDE DEF a, r, q, b
  <2>1. WindowSize * (Windows * q + b) = (WindowSize * Windows) * q + WindowSize * b
    BY <1>2, Sizes, SMT
  <2>2. (WindowSize * Windows) * q \in Nat /\ WindowSize * b \in Nat
    BY <1>2, Sizes, SMT
  <2> QED BY <1>1, <1>2, <2>1, <2>2, Sizes, SMT
<1>5. Wire(n) = x
  <2> HIDE DEF x, q
  <2> QED BY <1>2, <1>3, <1>4, Sizes, QuotientUnique DEF Wire
<1>6. x \div WindowSize = b
  <2> HIDE DEF b, r
  <2>1. b \in Nat
    BY <1>2
  <2> QED BY <1>1, <2>1, Sizes, QuotientUnique
<1> HIDE DEF x
<1> QED BY <1>1, <1>3, <1>5, <1>6 DEF Window, x

\* Two numbers have the same sequence number only a whole lap apart.
LEMMA WireSame ==
    ASSUME NEW n \in Nat, NEW m \in Nat, n <= m, m - n < Space, Wire(n) = Wire(m)
    PROVE  n = m
<1> DEFINE p == n \div Space
           q == m \div Space
           r == n % Space
<1>1. p \in Nat /\ q \in Nat /\ r \in Nat /\ n = Space * p + r /\ m = Space * q + r
  <2>1. p \in Nat /\ r \in 0 .. Space - 1 /\ n = Space * p + r
    BY Sizes, Remainder
  <2>2. q \in Nat /\ m = Space * q + (m % Space)
    BY Sizes, Remainder
  <2>3. m % Space = r
    BY DEF Wire
  <2> HIDE DEF p, q, r
  <2> QED BY <2>1, <2>2, <2>3, Sizes
<1> HIDE DEF p, q, r
<1>2. ~(p > q)
  BY <1>1, Sizes, Multiples, SMT
<1>3. ~(q > p)
  BY <1>1, Sizes, Multiples, SMT
<1> QED BY <1>1, <1>2, <1>3, SMT

\* The number after a sequence number.
LEMMA WireNext ==
    ASSUME NEW n \in Nat, NEW k \in Nat
    PROVE  (Wire(n) + k) % Space = Wire(n + k)
<1> DEFINE p == n \div Space
           r == n % Space
           q == (r + k) \div Space
           x == (r + k) % Space
<1>1. p \in Nat /\ r \in 0 .. Space - 1 /\ n = Space * p + r
  BY Sizes, Remainder
<1>2. q \in Nat /\ x \in 0 .. Space - 1 /\ r + k = Space * q + x
  <2> HIDE DEF p, r
  <2>1. r + k \in Nat
    BY <1>1, Sizes
  <2> QED BY <2>1, Sizes, Remainder
<1>3. n + k = Space * (p + q) + x /\ p + q \in Nat
  <2> HIDE DEF p, q, r, x
  <2> QED BY <1>1, <1>2, Sizes, SMT
<1>4. (n + k) % Space = x
  <2> HIDE DEF p, q, x
  <2> QED BY <1>2, <1>3, Sizes, QuotientUnique, SMTT(30)
<1> QED BY <1>4 DEF Wire

\* The windows around the lap: of two numbers, less than a lap apart.
LEMMA LanesAround ==
    ASSUME NEW n \in Nat, NEW m \in Nat, Lane(n) <= Lane(m), Lane(m) - Lane(n) < Windows
    PROVE  LET d == Lane(m) - Lane(n)
               v == Window(Wire(n))
           IN /\ v \in 0 .. Windows - 1
              /\ Window(Wire(m)) = IF v + d < Windows THEN v + d ELSE v + d - Windows
<1> DEFINE a == Lane(n)
           c == Lane(m)
           q == a \div Windows
           v == a % Windows
           d == c - a
<1>1. /\ a \in Nat /\ c \in Nat /\ a <= c /\ c - a < Windows
      /\ Window(Wire(n)) = v /\ Window(Wire(m)) = c % Windows
  BY WireShape
<1>2. q \in Nat /\ v \in 0 .. Windows - 1 /\ a = Windows * q + v
  BY <1>1, Sizes, Remainder
<1>3. c = Windows * q + (v + d) /\ c = Windows * (q + 1) + (v + d - Windows) /\ d \in Nat
  <2> HIDE DEF a, c, q, v
  <2> QED BY <1>1, <1>2, Sizes, SMT
<1>4. CASE v + d < Windows
  <2> HIDE DEF a, c, q, v, d
  <2>1. v + d \in 0 .. Windows - 1
    BY <1>2, <1>3, <1>4, Sizes
  <2>2. c % Windows = v + d
    BY <1>2, <1>3, <2>1, Sizes, QuotientUnique
  <2> QED BY <1>1, <1>2, <1>4, <2>2 DEF a, c, v, d
<1>5. CASE ~(v + d < Windows)
  <2> DEFINE q1 == q + 1
             v1 == v + d - Windows
  <2> HIDE DEF a, c, q, v
  <2>1. v1 \in 0 .. Windows - 1 /\ q1 \in Nat /\ c = Windows * q1 + v1
    BY <1>1, <1>2, <1>3, <1>5, Sizes
  <2> HIDE DEF d, q1, v1
  <2>2. c % Windows = v1
    BY <2>1, Sizes, QuotientUnique
  <2> QED BY <1>1, <1>2, <1>5, <2>2 DEF a, c, v, d, v1
<1> QED BY <1>4, <1>5

\* Which of two sequence numbers is the lower: the one in the lower window, or
\* the earlier one of the same.
LEMMA WireOrder ==
    ASSUME NEW n \in Nat, NEW m \in Nat
    PROVE  /\ Window(Wire(n)) < Window(Wire(m)) => Wire(n) < Wire(m)
           /\ Lane(n) = Lane(m) /\ n < m => Wire(n) < Wire(m)
<1> DEFINE v == Window(Wire(n))
           w == Window(Wire(m))
<1>1. /\ v \in Nat /\ w \in Nat
      /\ Wire(n) = WindowSize * v + (n % WindowSize)
      /\ Wire(m) = WindowSize * w + (m % WindowSize)
      /\ Wire(n) \in Nat /\ Wire(m) \in Nat
      /\ Lane(n) = Lane(m) => v = w
  <2>1. v \in WindowNumbers /\ w \in WindowNumbers
    BY WindowType
  <2> QED BY <2>1, WireShape DEF WindowNumbers
<1>2. /\ n % WindowSize \in 0 .. WindowSize - 1 /\ n = WindowSize * Lane(n) + (n % WindowSize)
      /\ m % WindowSize \in 0 .. WindowSize - 1 /\ m = WindowSize * Lane(m) + (m % WindowSize)
      /\ Lane(n) \in Nat
  BY Sizes, Remainder DEF Lane
<1> HIDE DEF v, w
<1>3. ASSUME v < w PROVE Wire(n) < Wire(m)
  <2>1. WindowSize * w \in Nat /\ WindowSize * v \in Nat
        /\ WindowSize * w >= WindowSize * v + WindowSize
    BY <1>1, <1>3, Sizes, Multiples
  <2> QED BY <1>1, <1>2, <2>1, Sizes
<1>4. ASSUME Lane(n) = Lane(m), n < m PROVE Wire(n) < Wire(m)
  <2>1. n % WindowSize < m % WindowSize
    <3>1. WindowSize * Lane(n) \in Nat
      BY <1>2, Sizes, SMT
    <3> QED BY <1>2, <1>4, <3>1, SMT
  <2>2. WindowSize * v \in Nat
    BY <1>1, Sizes, SMT
  <2> QED BY <1>1, <1>2, <1>4, <2>1, <2>2, SMT
<1> QED BY <1>3, <1>4 DEF v, w

\* What the receiver, at command n, makes of a later command: it counts its
\* window right.
LEMMA SeenAhead ==
    ASSUME NEW n \in Nat, NEW m \in Nat, n < m, Lane(m) - Lane(n) < Windows
    PROVE  WindowSeen(Wire(m), Wire(n)) = Window(Wire(n)) + (Lane(m) - Lane(n))
<1> DEFINE v == Window(Wire(n))
           w == Window(Wire(m))
           d == Lane(m) - Lane(n)
<1>1. Lane(n) <= Lane(m)
  BY QuotientGrows, Sizes DEF Lane
<1>2. v \in 0 .. Windows - 1 /\ w = IF v + d < Windows THEN v + d ELSE v + d - Windows
  BY <1>1, LanesAround
<1>3. Lane(n) \in Nat /\ Lane(m) \in Nat /\ Wire(n) \in Nat /\ Wire(m) \in Nat
  BY WireShape
<1>4. /\ v < w => Wire(n) < Wire(m)
      /\ w < v => Wire(m) < Wire(n)
      /\ Lane(n) = Lane(m) => Wire(n) < Wire(m)
  BY WireOrder
<1> HIDE DEF v, w
<1> QED BY <1>1, <1>2, <1>3, <1>4, Sizes DEF WindowSeen, v, w

\* And of an earlier one: it seems to be of the lap to come.
LEMMA SeenBehind ==
    ASSUME NEW n \in Nat, NEW m \in Nat, m < n, Lane(n) - Lane(m) < Windows
    PROVE  WindowSeen(Wire(m), Wire(n)) = Window(Wire(n)) + Windows - (Lane(n) - Lane(m))
<1> DEFINE v == Window(Wire(n))
           w == Window(Wire(m))
           d == Lane(n) - Lane(m)
<1>1. Lane(m) <= Lane(n)
  BY QuotientGrows, Sizes DEF Lane
<1>2. w \in 0 .. Windows - 1 /\ v = IF w + d < Windows THEN w + d ELSE w + d - Windows
  BY <1>1, LanesAround
<1>3. Lane(n) \in Nat /\ Lane(m) \in Nat /\ Wire(n) \in Nat /\ Wire(m) \in Nat
  BY WireShape
<1>4. /\ v < w => Wire(n) < Wire(m)
      /\ w < v => Wire(m) < Wire(n)
      /\ Lane(n) = Lane(m) => Wire(m) < Wire(n)
  BY WireOrder
<1> HIDE DEF v, w
<1> QED BY <1>1, <1>2, <1>3, <1>4, Sizes DEF WindowSeen, v, w

-----------------------------------------------------------------------------
(* The receiver's loop.                                                       *)

\* Where the first packets end and the next begin.
LEMMA LastNumbers ==
    ASSUME NEW k \in 0 .. Len(Fragments)
    PROVE  /\ LastNumber(k) \in Nat
           /\ k = 0 => LastNumber(k) = 0
           /\ \A p \in 1 .. k : /\ First[p] <= First[p + 1] - 1
                                /\ First[p + 1] - 1 <= LastNumber(k)
           /\ \A p \in k + 1 .. Len(Fragments) : LastNumber(k) < First[p]
           /\ \A j \in 0 .. k : LastNumber(j) <= LastNumber(k)
<1> DEFINE n == Len(Fragments)
<1>1. n \in Nat /\ k + 1 \in 1 .. n + 1 /\ First[k + 1] \in Nat \ {0} /\ First[1] = 1
  BY FirstSteps
<1>2. ASSUME NEW p \in 1 .. k
      PROVE  First[p] <= First[p + 1] - 1 /\ First[p + 1] - 1 <= LastNumber(k)
  <2>1. p \in 1 .. n /\ p + 1 \in 1 .. n + 1 /\ k + 1 \in p + 1 .. n + 1
    BY <1>1
  <2>2. First[p + 1] <= First[k + 1]
    BY <2>1, FirstGrows
  <2>3. First[p + 1] = First[p] + Fragments[p] /\ Fragments[p] \in Nat \ {0}
        /\ First[p] \in Nat /\ First[p + 1] \in Nat
    BY <2>1, FirstSteps
  <2> QED BY <1>1, <2>2, <2>3 DEF LastNumber
<1>3. ASSUME NEW p \in k + 1 .. n
      PROVE  LastNumber(k) < First[p]
  <2>1. p \in 1 .. n + 1 /\ p \in k + 1 .. n + 1 /\ First[p] \in Nat
    BY <1>1, FirstSteps
  <2>2. First[k + 1] <= First[p]
    BY <1>1, <2>1, FirstGrows
  <2> QED BY <1>1, <2>1, <2>2 DEF LastNumber
<1>4. ASSUME NEW j \in 0 .. k
      PROVE  LastNumber(j) <= LastNumber(k)
  <2>1. j + 1 \in 1 .. n + 1 /\ k + 1 \in j + 1 .. n + 1 /\ First[j + 1] \in Nat
    BY <1>1, FirstSteps
  <2>2. First[j + 1] <= First[k + 1]
    BY <2>1, FirstGrows
  <2> QED BY <1>1, <2>1, <2>2 DEF LastNumber
<1> QED BY <1>1, <1>2, <1>3, <1>4 DEF LastNumber

\* What was sent is less than a lap ahead of what was delivered.
LEMMA NearSent ==
    ASSUME NEW l \in Nat, NEW m \in Nat, NEW x \in l .. m,
           Lane(m) <= Lane(l) + FreeWindows - 1
    PROVE  /\ x \in Nat /\ x - l < Space
           /\ Lane(x) \in Nat /\ Lane(l) \in Nat
           /\ Lane(l) <= Lane(x)
           /\ Lane(x) <= Lane(l) + FreeWindows - 1
           /\ Lane(x) - Lane(l) < Windows
<1>1. x \in Nat /\ Lane(x) \in Nat /\ Lane(l) \in Nat /\ Lane(m) \in Nat
  BY WireShape
<1>2. Lane(l) <= Lane(x) /\ Lane(x) <= Lane(m)
  <2>1. l <= x /\ x <= m
    OBVIOUS
  <2> QED BY <1>1, <2>1, QuotientGrows, Sizes, Zenon DEF Lane
<1>3. Lane(x) - Lane(l) < FreeWindows
  BY <1>1, <1>2, Sizes
<1>4. x - l < FreeWindows * WindowSize
  BY <1>1, <1>3, NumbersNear, Sizes DEF Lane
<1>5. FreeWindows * WindowSize <= Space
  <2>1. /\ WindowSize * Windows >= WindowSize * FreeWindows + WindowSize
        /\ WindowSize * FreeWindows \in Nat
    BY Sizes, Multiples
  <2>2. WindowSize * FreeWindows = FreeWindows * WindowSize
    BY Sizes, SMT
  <2> QED BY <2>1, <2>2, Sizes
<1>6. x - l < Space
  BY <1>1, <1>4, <1>5, Sizes, SMT
<1> QED BY <1>1, <1>2, <1>3, <1>6, Sizes

\* A packet with a part at the receiver starts less than a lap ahead of what was
\* delivered.
LEMMA EntryPlace ==
    ASSUME sent \in Nat, NEW r, ReceiverInv(r), CloseBy(r),
           NEW p \in Len(r.delivered) + 1 .. Len(Fragments), NEW e, EntryOf(e, p)
    PROVE  LET l == LastNumber(Len(r.delivered)) IN
           /\ l \in Nat
           /\ First[p] \in l + 1 .. sent
           /\ First[p] - l < Space
<1> DEFINE k == Len(r.delivered)
           l == LastNumber(k)
<1>1. k \in 0 .. Len(Fragments)
  BY LenProperties DEF ReceiverInv, ReceiverStates
<1>2. l \in Nat /\ l < First[p] /\ First[p] \in Nat
  BY <1>1, LastNumbers, FirstSteps
<1>3. PICK m \in e.data : m \in First[p] .. First[p + 1] - 1 /\ m \in 1 .. sent
  BY DEF EntryOf
<1>4. p + 1 \in 1 .. Len(Fragments) + 1 /\ First[p + 1] \in Nat
  BY <1>1, FirstSteps
<1>5. First[p] \in l + 1 .. sent /\ First[p] \in l .. sent
  BY <1>2, <1>3, <1>4
<1>6. First[p] - l < Space
  BY <1>2, <1>5, NearSent DEF CloseBy
<1> QED BY <1>2, <1>5, <1>6

\* A complete packet is all there.
LEMMA CompleteWhole ==
    ASSUME NEW p \in DOMAIN Fragments, NEW e, EntryOf(e, p), Complete(e)
    PROVE  e.data = Packets[p]
<1>1. /\ First[p] \in Nat /\ First[p + 1] = First[p] + Fragments[p]
      /\ Fragments[p] \in Nat \ {0}
  <2>1. p \in 1 .. Len(Fragments)
    BY FragmentsAssumption
  <2> QED BY <2>1, FirstSteps
<1>2. /\ IsFiniteSet(First[p] .. First[p + 1] - 1)
      /\ Cardinality(First[p] .. First[p + 1] - 1) = Fragments[p]
  <2>1. First[p] \in Int /\ First[p + 1] - 1 \in Int
        /\ ~(First[p] > First[p + 1] - 1) /\ (First[p + 1] - 1) - First[p] + 1 = Fragments[p]
    BY <1>1
  <2> QED BY <2>1, FS_Interval
<1>3. e.data \in SUBSET (First[p] .. First[p + 1] - 1) /\ Cardinality(e.data) = Fragments[p]
  BY DEF EntryOf, Complete
<1>4. e.data = First[p] .. First[p + 1] - 1
  BY <1>2, <1>3, FS_Subset
<1> QED BY <1>4 DEF Packets

\* One state of the receiver comes after another: it has all that the other had.
Onward(r, q) == /\ Len(r.delivered) <= Len(q.delivered)
                /\ \A n \in Nat : Kept(r, n) => Kept(q, n)

\* A round of the loop hands over the next packet, whole.
LEMMA DispatchNextKeeps ==
    ASSUME sent \in Nat, NEW r, ReceiverInv(r), CloseBy(r)
    PROVE  /\ ReceiverInv(DispatchNext(r))
           /\ CloseBy(DispatchNext(r))
           /\ Onward(r, DispatchNext(r))
<1>1. CASE NextOf(r) = {}
  <2>1. Len(r.delivered) \in Nat
    BY LenProperties DEF ReceiverInv, ReceiverStates
  <2> QED BY <1>1, <2>1 DEF DispatchNext, Onward
<1>2. CASE NextOf(r) # {}
  <2> DEFINE k == Len(r.delivered)
             n == Len(Fragments)
             l == LastNumber(k)
             q == DispatchNext(r)
  <2>1. PICK e \in NextOf(r) : q = [incoming |-> LastOf(e),
                                    held |-> r.held \ {e},
                                    delivered |-> Append(r.delivered, e.data)]
    <3> DEFINE f == CHOOSE f \in NextOf(r) : TRUE
    <3>1. f \in NextOf(r)
      BY <1>2
    <3> QED BY <1>2, <3>1, Zenon DEF DispatchNext
  <2>2. /\ e \in r.held /\ Complete(e) /\ e.start = (r.incoming + 1) % Space
        /\ r \in ReceiverStates /\ r.delivered \in Seq(SUBSET Numbers)
        /\ r.held \subseteq Entries
    BY DEF NextOf, ReceiverInv, ReceiverStates
  <2>3. k \in 0 .. n /\ n \in Nat
    BY <2>2, LenProperties, FirstSteps DEF ReceiverInv
  <2>4. PICK p \in k + 1 .. n : EntryOf(e, p)
    BY <2>2 DEF ReceiverInv
  <2>5. l \in Nat /\ First[p] \in l + 1 .. sent /\ First[p] - l < Space
    BY <2>4, EntryPlace
  <2>6. /\ k + 1 \in 1 .. n /\ k + 1 \in 1 .. n + 1 /\ (k + 1) + 1 \in 1 .. n + 1
        /\ First[k + 1] \in Nat /\ First[k + 1] = l + 1
        /\ Fragments[k + 1] \in Nat \ {0}
        /\ First[(k + 1) + 1] = First[k + 1] + Fragments[k + 1]
        /\ First[(k + 1) + 1] \in Nat
    <3>1. k + 1 \in 1 .. n /\ k + 1 \in 1 .. n + 1 /\ (k + 1) + 1 \in 1 .. n + 1
      <4> HIDE DEF k, n
      <4> QED BY <2>3, <2>4
    <3>2. l = First[k + 1] - 1
      BY DEF LastNumber
    <3> HIDE DEF k, l
    <3> QED BY <3>1, <3>2, FirstSteps, SMTT(30)
  <2>7. First[p] = l + 1
    <3>1. Wire(First[p]) = Wire(l + 1)
      <4>1. r.incoming = Wire(l)
        BY DEF ReceiverInv
      <4>2. e.start = Wire(l + 1)
        BY <2>2, <2>5, <4>1, WireNext
      <4> QED BY <2>4, <4>2 DEF EntryOf
    <3>2. l + 1 <= First[p] /\ First[p] - (l + 1) < Space /\ l + 1 \in Nat /\ First[p] \in Nat
      BY <2>5, Sizes
    <3> QED BY <3>1, <3>2, WireSame
  <2>8. p = k + 1
    <3>1. SUFFICES ASSUME k + 1 < p PROVE FALSE
      BY <2>3, <2>4
    <3>2. First[(k + 1) + 1] <= First[p]
      <4>1. p \in k + 1 .. n + 1
        BY <2>3, <2>4
      <4> QED BY <2>6, <3>1, <4>1, FirstGrows
    <3> QED BY <2>6, <2>7, <3>2
  <2>9. e.data = Packets[k + 1] /\ Packets[k + 1] = First[k + 1] .. First[(k + 1) + 1] - 1
    <3>1. k + 1 \in DOMAIN Fragments
      BY <2>6, FragmentsAssumption
    <3>2. EntryOf(e, k + 1) /\ Complete(e)
      BY <2>2, <2>4, <2>8
    <3>3. e.data = Packets[k + 1]
      BY <3>1, <3>2, CompleteWhole
    <3> QED BY <3>1, <3>3 DEF Packets
  <2>10. /\ Len(q.delivered) = k + 1
         /\ q.delivered \in Seq(SUBSET Numbers)
         /\ \A i \in 1 .. k + 1 : q.delivered[i] = Packets[i]
    <3>1. e.data \in SUBSET Numbers
      BY <2>2 DEF Entries
    <3>2. \A i \in 1 .. k : r.delivered[i] = Packets[i]
      BY DEF ReceiverInv
    <3>3. q.delivered = Append(r.delivered, e.data)
      BY <2>1
    <3> HIDE DEF q
    <3>4. Len(q.delivered) = k + 1 /\ q.delivered \in Seq(SUBSET Numbers)
      BY <2>2, <3>1, <3>3
    <3>5. \A i \in 1 .. k : q.delivered[i] = r.delivered[i]
      BY <2>2, <3>1, <3>3
    <3>6. q.delivered[k + 1] = e.data
      BY <2>2, <3>1, <3>3
    <3> QED BY <2>3, <2>9, <3>2, <3>4, <3>5, <3>6, SMTT(30)
  <2>11. /\ LastNumber(k + 1) = First[(k + 1) + 1] - 1 /\ LastNumber(k + 1) \in Nat
         /\ LastNumber(k + 1) <= sent /\ l <= LastNumber(k + 1)
    <3>1. First[(k + 1) + 1] - 1 \in e.data
      BY <2>6, <2>9, SMTT(30)
    <3>2. First[(k + 1) + 1] - 1 \in 1 .. sent
      BY <2>4, <3>1 DEF EntryOf
    <3>3. LastNumber(k + 1) = First[(k + 1) + 1] - 1
      BY DEF LastNumber
    <3> HIDE DEF k, l
    <3> QED BY <2>5, <2>6, <3>2, <3>3, SMTT(30)
  <2>12. q.incoming = Wire(LastNumber(k + 1))
    <3>1. e.start = Wire(l + 1) /\ e.count = Fragments[k + 1]
      BY <2>4, <2>7, <2>8 DEF EntryOf
    <3>2. (Wire(l + 1) + (Fragments[k + 1] - 1)) % Space = Wire((l + 1) + (Fragments[k + 1] - 1))
      <4> DEFINE c == Fragments[k + 1] - 1
      <4>1. c \in Nat /\ l + 1 \in Nat
        BY <2>5, <2>6, SMTT(30)
      <4> HIDE DEF c, l
      <4>2. (Wire(l + 1) + c) % Space = Wire((l + 1) + c)
        BY <4>1, WireNext
      <4> QED BY <4>2 DEF c
    <3>3. Wire(l + 1) \in Nat
      <4>1. l + 1 \in Nat
        BY <2>5
      <4> HIDE DEF l
      <4>2. Wire(l + 1) \in 0 .. Space - 1
        BY <4>1, WireShape
      <4> QED BY <4>2, Sizes
    <3>4. Wire(l + 1) + Fragments[k + 1] - 1 = Wire(l + 1) + (Fragments[k + 1] - 1)
      BY <2>6, <3>3
    <3>5. LastNumber(k + 1) = (l + 1) + (Fragments[k + 1] - 1)
      BY <2>5, <2>6, <2>11, SMTT(30)
    <3>6. q.incoming = LastOf(e)
      BY <2>1
    <3> HIDE DEF q, l
    <3> QED BY <3>1, <3>2, <3>4, <3>5, <3>6 DEF LastOf
  <2>13. q.held = r.held \ {e}
    BY <2>1
  <2>14. q \in ReceiverStates
    <3>1. q.incoming \in 0 .. Space - 1
      BY <2>11, <2>12, WireShape
    <3>2. q = [incoming |-> q.incoming, held |-> q.held, delivered |-> q.delivered]
      BY <2>1
    <3> HIDE DEF q
    <3> QED BY <2>2, <2>10, <2>13, <3>1, <3>2 DEF ReceiverStates
  <2>15. \A f \in q.held : \E o \in (k + 1) + 1 .. n : EntryOf(f, o)
    <3> TAKE f \in q.held
    <3>1. f \in r.held /\ f # e
      BY <2>13
    <3>2. PICK o \in k + 1 .. n : EntryOf(f, o)
      BY <3>1 DEF ReceiverInv
    <3>3. o # k + 1
      <4>1. SUFFICES ASSUME o = k + 1 PROVE FALSE
        OBVIOUS
      <4>2. f.start = e.start
        BY <2>4, <2>8, <3>2, <4>1 DEF EntryOf
      <4> QED BY <2>2, <3>1, <4>2 DEF ReceiverInv
    <3>4. o \in (k + 1) + 1 .. n
      BY <2>3, <3>2, <3>3
    <3> QED BY <3>2, <3>4
  <2>16. IsFiniteSet(q.held) /\ \A f, g \in q.held : f.start = g.start => f = g
    <3>1. IsFiniteSet(r.held)
      BY DEF ReceiverInv
    <3>2. IsFiniteSet(r.held \ {e})
      BY <3>1, FS_RemoveElement
    <3> QED BY <2>13, <3>2 DEF ReceiverInv
  <2>17. ReceiverInv(q)
    <3> HIDE DEF q
    <3> QED BY <2>3, <2>6, <2>10, <2>11, <2>12, <2>14, <2>15, <2>16, SMTT(30) DEF ReceiverInv
  <2>18. Lane(l) <= Lane(LastNumber(k + 1)) /\ Lane(l) \in Nat /\ Lane(LastNumber(k + 1)) \in Nat
    <3> HIDE DEF l
    <3> QED BY <2>5, <2>11, WireShape, QuotientGrows, Sizes DEF Lane
  <2>19. CloseBy(q)
    <3>1. Lane(sent) \in Nat /\ Lane(sent) <= Lane(l) + FreeWindows - 1
      BY WireShape DEF CloseBy
    <3> HIDE DEF q, l
    <3> QED BY <2>10, <2>18, <3>1, Sizes DEF CloseBy
  <2>20. ASSUME NEW m \in Nat, Kept(r, m)
         PROVE  Kept(q, m)
    <3>1. CASE m <= l
      <4> HIDE DEF q, l
      <4> QED BY <2>5, <2>10, <2>11, <3>1 DEF Kept
    <3>2. CASE m \in e.data
      <4>1. m <= LastNumber(k + 1)
        BY <2>6, <2>9, <2>11, <3>2
      <4> HIDE DEF q
      <4> QED BY <2>10, <4>1 DEF Kept
    <3>3. CASE \E f \in r.held : f # e /\ m \in f.data
      <4> HIDE DEF q
      <4> QED BY <2>13, <3>3 DEF Kept
    <3> QED BY <2>20, <3>1, <3>2, <3>3 DEF Kept
  <2> HIDE DEF q
  <2> QED BY <2>3, <2>10, <2>17, <2>19, <2>20 DEF Onward, q
<1> QED BY <1>1, <1>2

\* The receiver with these entries, before the loop; and after the step.
Holding(entries) == [incoming |-> incoming, held |-> entries, delivered |-> delivered]
ReceiverNext == [incoming |-> incoming', held |-> held', delivered |-> delivered']

\* The loop keeps the receiver in order, and loses nothing.
LEMMA DispatchKeeps ==
    ASSUME sent \in Nat, NEW entries, Dispatch(entries),
           ReceiverInv(Holding(entries)), CloseBy(Holding(entries))
    PROVE  /\ ReceiverInv(ReceiverNext)
           /\ CloseBy(ReceiverNext)
           /\ Onward(Holding(entries), ReceiverNext)
<1> DEFINE n == Cardinality(entries)
           first == Holding(entries)
           Good == {r \in ReceiverStates : /\ ReceiverInv(r)
                                           /\ CloseBy(r)
                                           /\ Onward(first, r)}
           next == [i \in 1 .. n |-> [r \in Good |-> DispatchNext(r)]]
           after[k \in 0 .. n] ==
              IF k = 0
              THEN [incoming |-> incoming, held |-> entries, delivered |-> delivered]
              ELSE DispatchNext(after[k - 1])
<1>1. n \in Nat
  BY FS_CardinalityType DEF ReceiverInv, Holding
<1>2. first \in Good
  <2>1. first \in ReceiverStates
    BY DEF ReceiverInv
  <2>2. Len(first.delivered) \in Nat
    BY <2>1, LenProperties DEF ReceiverStates
  <2> QED BY <2>1, <2>2 DEF Onward
<1>3. ASSUME NEW r \in Good
      PROVE  DispatchNext(r) \in Good
  <2>1. /\ ReceiverInv(DispatchNext(r))
        /\ CloseBy(DispatchNext(r))
        /\ Onward(r, DispatchNext(r))
    BY <1>3, DispatchNextKeeps
  <2>2. DispatchNext(r) \in ReceiverStates
    BY <2>1 DEF ReceiverInv
  <2>3. Onward(first, DispatchNext(r))
    <3>1. /\ Len(first.delivered) \in Nat /\ Len(r.delivered) \in Nat
          /\ Len(DispatchNext(r).delivered) \in Nat
      BY <1>2, <1>3, <2>2, LenProperties DEF ReceiverStates
    <3>2. Onward(first, r)
      BY <1>3
    <3> HIDE DEF first
    <3> QED BY <2>1, <3>1, <3>2 DEF Onward
  <2> QED BY <2>1, <2>2, <2>3
<1>4. next \in StepsOn(Good, n)
  <2> HIDE DEF Good
  <2> QED BY <1>3 DEF StepsOn
<1>5. PICK f : Iterates(f, Good, n, next, first)
  <2> HIDE DEF Good, next, n, first
  <2> QED BY <1>1, <1>2, <1>4, Iteration
<1>6. f = [k \in 0 .. n |->
              IF k = 0
              THEN [incoming |-> incoming, held |-> entries, delivered |-> delivered]
              ELSE DispatchNext(f[k - 1])]
  <2> HIDE DEF Good, n
  <2>1. f \in [0 .. n -> Good] /\ f[0] = Holding(entries)
    BY <1>5 DEF Iterates
  <2>2. ASSUME NEW k \in 1 .. n
        PROVE  f[k] = DispatchNext(f[k - 1])
    <3>1. f[k] = next[k][f[k - 1]] /\ f[k - 1] \in Good
      BY <1>1, <1>5 DEF Iterates
    <3>2. \A r \in Good : next[k][r] = DispatchNext(r)
      OBVIOUS
    <3> HIDE DEF next
    <3> QED BY <3>1, <3>2
  <2>3. \A k \in 0 .. n : k = 0 \/ k \in 1 .. n
    BY <1>1
  <2> QED BY <2>1, <2>2, <2>3 DEF Holding
<1>7. after = [k \in 0 .. n |->
                  IF k = 0
                  THEN [incoming |-> incoming, held |-> entries, delivered |-> delivered]
                  ELSE DispatchNext(after[k - 1])]
  <2> HIDE DEF n
  <2> QED BY <1>6, Zenon DEF after
<1>8. after[0] = first /\ \A i \in 1 .. n : after[i] = DispatchNext(after[i - 1])
  <2> HIDE DEF after, n
  <2>1. \A i \in 1 .. n : i \in 0 .. n /\ i # 0
    BY <1>1
  <2>2. 0 \in 0 .. n
    BY <1>1
  <2> QED BY <1>7, <2>1, <2>2, Zenon DEF Holding
<1>9. after[n] \in Good
  <2> HIDE DEF after, n, Good, first
  <2>1. \A i \in 0 .. n : after[i] \in Good
    <3>1. after[0] \in Good
      BY <1>2, <1>8
    <3>2. \A i \in 1 .. n : after[i - 1] \in Good => after[i] \in Good
      BY <1>3, <1>8
    <3> QED BY <1>1, <3>1, <3>2, LoopInvariant
  <2> QED BY <1>1, <2>1
<1>10. ReceiverNext = after[n]
  <2>1. /\ incoming' = after[n].incoming
        /\ held' = after[n].held
        /\ delivered' = after[n].delivered
    BY Zenon DEF Dispatch
  <2> HIDE DEF after, n
  <2>2. after[n] = [incoming |-> after[n].incoming, held |-> after[n].held,
                    delivered |-> after[n].delivered]
    BY <1>9 DEF ReceiverStates
  <2> QED BY <2>1, <2>2 DEF ReceiverNext
<1> HIDE DEF after, n, first
<1> QED BY <1>9, <1>10 DEF first

-----------------------------------------------------------------------------
(* The arrival of a command.                                                  *)

Given == LastNumber(Len(delivered))

\* What the invariant says of the receiver.
LEMMA GivenType ==
    ASSUME ChannelInv
    PROVE  /\ sent \in Nat /\ Len(delivered) \in 0 .. Len(Fragments)
           /\ Given \in Nat /\ Given <= sent
           /\ incoming = Wire(Given)
           /\ held \subseteq Entries /\ delivered \in Seq(SUBSET Numbers)
           /\ Lane(sent) <= Lane(Given) + FreeWindows - 1
<1>1. ReceiverInv(Receiver) /\ CloseBy(Receiver) /\ sent \in Nat
  BY DEF ChannelInv, SenderInv, SenderType
<1>2. /\ held \subseteq Entries /\ delivered \in Seq(SUBSET Numbers)
      /\ Given <= sent /\ incoming = Wire(Given) /\ Len(delivered) <= Len(Fragments)
  BY <1>1 DEF ReceiverInv, Receiver, ReceiverStates, Given
<1>3. Len(delivered) \in 0 .. Len(Fragments)
  BY <1>2, LenProperties, FirstSteps
<1>4. Given \in Nat
  BY <1>3, LastNumbers DEF Given
<1> QED BY <1>1, <1>2, <1>3, <1>4 DEF CloseBy, Receiver, Given

\* A command that arrives was sent, and not too long ago.
LEMMA UnderWayNear ==
    ASSUME ChannelInv, NEW n \in Numbers, UnderWay(n)
    PROVE  n \in 1 .. sent /\ sent - n <= LateBy
<1>1. sent \in Nat /\ n \in Nat \ {0}
  BY GivenType DEF Numbers
<1>2. CASE n \in inFlight
  BY <1>2 DEF ChannelInv, NothingLate
<1>3. CASE n <= sent /\ sent - n < MaxDelay
  BY <1>1, <1>3, Sizes DEF LateBy
<1> QED BY <1>2, <1>3 DEF UnderWay

\* A copy of what was already delivered is not taken for something new.
LEMMA OldArrival ==
    ASSUME DelaysFit, ChannelInv,
           NEW p \in DOMAIN Fragments, NEW n \in First[p] .. First[p + 1] - 1,
           n \in 1 .. sent, sent - n <= LateBy, n <= Given
    PROVE  \/ ~InWindow(Wire(First[p]))
           \/ First[p] = Given /\ Fragments[p] = 1
<1> DEFINE s == First[p]
           k == Len(delivered)
           c == Windows - FreeWindows + 1
           d == Lane(Given) - Lane(s)
<1>1. /\ sent \in Nat /\ Given \in Nat /\ Given <= sent /\ incoming = Wire(Given)
      /\ k \in 0 .. Len(Fragments)
  BY GivenType
<1>2. /\ p \in 1 .. Len(Fragments)
      /\ s \in Nat \ {0} /\ Fragments[p] \in Nat \ {0} /\ First[p + 1] = s + Fragments[p]
  <2>1. p \in 1 .. Len(Fragments) /\ p \in 1 .. Len(Fragments) + 1
    BY FragmentsAssumption, FirstSteps
  <2> QED BY <2>1, FirstSteps
<1>3. n \in Nat /\ s <= n /\ n - s <= Fragments[p] - 1
  BY <1>2
<1>4. p \in 1 .. k
  <2>1. SUFFICES ASSUME p \in k + 1 .. Len(Fragments) PROVE FALSE
    BY <1>1, <1>2
  <2>2. Given < s
    BY <1>1, <2>1, LastNumbers DEF Given
  <2> QED BY <1>1, <1>2, <1>3, <2>2
<1>5. First[p + 1] - 1 <= Given
  BY <1>1, <1>4, LastNumbers DEF Given
<1>6. CASE s = Given
  BY <1>1, <1>2, <1>5, <1>6
<1>7. CASE s < Given
  <2>1. Given - s <= c * WindowSize
    <3>1. LateBy + Fragments[p] - 1 <= c * WindowSize
      BY DEF DelaysFit
    <3>2. c * WindowSize \in Nat
      <4>1. c \in Nat
        BY Sizes
      <4> QED BY <4>1, Sizes, SMT
    <3>3. sent - n <= LateBy /\ LateBy \in Nat /\ n \in Nat /\ s \in Nat
      BY <1>2, Sizes
    <3>4. Given <= sent /\ Given \in Nat /\ sent \in Nat /\ Fragments[p] \in Nat
      BY <1>1, <1>2
    <3>5. n - s <= Fragments[p] - 1
      BY <1>3
    <3> HIDE DEF c, s
    <3> QED BY <3>1, <3>2, <3>3, <3>4, <3>5, SMT
  <2>2. d <= c
    <3>1. c \in Nat /\ s \in Nat
      BY <1>2, Sizes
    <3> HIDE DEF c, s
    <3> QED BY <1>1, <2>1, <3>1, QuotientsNear, Sizes DEF Lane
  <2>3. Lane(s) \in Nat /\ Lane(Given) \in Nat /\ d < Windows
    <3>1. s \in Nat
      BY <1>2
    <3>2. Lane(s) \in Nat /\ Lane(Given) \in Nat
      BY <1>1, <3>1, WireShape
    <3> HIDE DEF s
    <3> QED BY <2>2, <3>2, Sizes
  <2>4. WindowSeen(Wire(s), Wire(Given)) = Window(Wire(Given)) + Windows - d
    <3>1. s \in Nat
      BY <1>2
    <3> HIDE DEF s
    <3> QED BY <1>1, <1>7, <2>3, <3>1, SeenBehind
  <2>5. Window(Wire(Given)) \in Nat
    BY <1>1, WindowType DEF WindowNumbers
  <2> HIDE DEF s
  <2> QED BY <1>1, <2>2, <2>3, <2>4, <2>5, Sizes, SMTT(30) DEF InWindow, s
<1> QED BY <1>1, <1>2, <1>3, <1>6, <1>7

\* A command not yet delivered is seen where it belongs, and an entry at the
\* number of its packet is that of its packet.
LEMMA NewArrival ==
    ASSUME ChannelInv,
           NEW p \in DOMAIN Fragments, NEW n \in First[p] .. First[p + 1] - 1,
           n \in 1 .. sent, n > Given
    PROVE  /\ p \in Len(delivered) + 1 .. Len(Fragments)
           /\ First[p] \in Nat
           /\ Lane(First[p]) <= Lane(n)
           /\ Lane(First[p]) \in Nat /\ Lane(n) \in Nat /\ Lane(Given) \in Nat
           /\ InWindow(Wire(First[p])) <=> Lane(First[p]) <= Lane(Given) + FreeWindows - 2
           /\ Wire(First[p]) # incoming
           /\ \A e \in HeldAt(Wire(First[p])) : EntryOf(e, p)
<1> DEFINE s == First[p]
           k == Len(delivered)
<1>1. /\ sent \in Nat /\ Given \in Nat /\ Given <= sent /\ incoming = Wire(Given)
      /\ k \in 0 .. Len(Fragments)
      /\ Lane(sent) <= Lane(Given) + FreeWindows - 1
  BY GivenType
<1>2. /\ p \in 1 .. Len(Fragments) /\ s \in Nat \ {0}
      /\ First[p + 1] \in Nat /\ s <= First[p + 1] - 1
  <2>1. p \in 1 .. Len(Fragments) /\ p \in 1 .. Len(Fragments) + 1
    BY FragmentsAssumption, FirstSteps
  <2>2. Fragments[p] \in Nat \ {0} /\ First[p + 1] = s + Fragments[p] /\ s \in Nat \ {0}
    BY <2>1, FirstSteps
  <2> QED BY <2>1, <2>2
<1>3. p \in k + 1 .. Len(Fragments)
  <2>1. SUFFICES ASSUME p \in 1 .. k PROVE FALSE
    BY <1>1, <1>2
  <2>2. First[p + 1] - 1 <= Given
    BY <1>1, <2>1, LastNumbers DEF Given
  <2> QED BY <1>1, <1>2, <2>2
<1>4. Given < s /\ s <= n /\ s \in Given .. sent /\ n \in Given .. sent
  <2>1. Given < s
    BY <1>1, <1>3, LastNumbers DEF Given
  <2> QED BY <1>1, <1>2, <2>1
<1>5. /\ Lane(s) \in Nat /\ Lane(Given) \in Nat
      /\ Lane(Given) <= Lane(s) /\ Lane(s) - Lane(Given) < Windows
      /\ s - Given < Space
  <2> HIDE DEF s
  <2> QED BY <1>1, <1>4, NearSent
<1>6. Lane(s) <= Lane(n) /\ Lane(n) \in Nat
  <2>1. s \in Nat /\ n \in Nat
    BY <1>2, <1>4
  <2> HIDE DEF s
  <2> QED BY <1>4, <2>1, QuotientGrows, WireShape, Sizes DEF Lane
<1>7. InWindow(Wire(s)) <=> Lane(s) <= Lane(Given) + FreeWindows - 2
  <2>1. WindowSeen(Wire(s), Wire(Given)) = Window(Wire(Given)) + (Lane(s) - Lane(Given))
    <3>1. s \in Nat
      BY <1>2
    <3> HIDE DEF s
    <3> QED BY <1>1, <1>4, <1>5, <3>1, SeenAhead
  <2>2. Window(Wire(Given)) \in Nat
    BY <1>1, WindowType DEF WindowNumbers
  <2>3. InWindow(Wire(s)) <=>
           WindowSeen(Wire(s), Wire(Given)) \in
              Window(Wire(Given)) .. Window(Wire(Given)) + FreeWindows - 2
    BY <1>1 DEF InWindow
  <2> HIDE DEF s
  <2> QED BY <1>5, <2>1, <2>2, <2>3, Sizes
<1>8. Wire(s) # incoming
  <2>1. s \in Nat
    BY <1>2
  <2> HIDE DEF s
  <2> QED BY <1>1, <1>4, <1>5, <2>1, WireSame
<1>9. ASSUME NEW e \in HeldAt(Wire(s))
      PROVE  EntryOf(e, p)
  <2>1. e \in held /\ e.start = Wire(s)
    BY <1>9 DEF HeldAt
  <2>2. PICK o \in k + 1 .. Len(Fragments) : EntryOf(e, o)
    BY <2>1 DEF ChannelInv, ReceiverInv, Receiver
  <2>3. First[o] \in Given + 1 .. sent /\ First[o] - Given < Space
    <3>1. ReceiverInv(Receiver) /\ CloseBy(Receiver) /\ Len(Receiver.delivered) = k
      BY DEF ChannelInv, Receiver
    <3> HIDE DEF k
    <3> QED BY <1>1, <2>2, <3>1, EntryPlace DEF Given, Receiver, k
  <2>4. Wire(First[o]) = Wire(s)
    BY <2>1, <2>2 DEF EntryOf
  <2>5. First[o] = s
    <3>1. /\ s \in Nat /\ First[o] \in Nat
          /\ s - First[o] < Space /\ First[o] - s < Space
      <4> DEFINE x == First[o]
      <4>1. x \in Given + 1 .. sent /\ x - Given < Space
        BY <2>3
      <4>2. s \in Nat /\ Given < s /\ s - Given < Space
        BY <1>2, <1>4, <1>5
      <4> HIDE DEF s, x
      <4>3. x \in Nat /\ s - x < Space /\ x - s < Space
        BY <1>1, <4>1, <4>2, Sizes
      <4> QED BY <4>2, <4>3 DEF x
    <3> HIDE DEF s
    <3> QED BY <2>4, <3>1, WireSame
  <2>6. o \in DOMAIN Fragments /\ s \in First[o] .. First[o + 1] - 1
    <3>1. o \in 1 .. Len(Fragments) /\ DOMAIN Fragments = 1 .. Len(Fragments)
      BY <1>1, <2>2, FragmentsAssumption
    <3>2. First[o + 1] = First[o] + Fragments[o] /\ Fragments[o] \in Nat \ {0}
      BY <3>1, FirstSteps
    <3> QED BY <1>2, <2>5, <3>1, <3>2
  <2>7. s \in First[p] .. First[p + 1] - 1
    BY <1>2
  <2>8. o = p
    <3> HIDE DEF s
    <3>1. PacketOf[s] = p
      BY <2>7, PacketUnique
    <3>2. PacketOf[s] = o
      BY <2>6, PacketUnique
    <3> QED BY <3>1, <3>2
  <2> QED BY <2>2, <2>8
<1> QED BY <1>2, <1>3, <1>5, <1>6, <1>7, <1>8, <1>9

\* An acknowledgement is only queued for what was accepted.
LEMMA AcknowledgedClose ==
    ASSUME sent \in Nat, NEW r, ReceiverInv(r), CloseBy(r), NEW n \in 1 .. sent,
           Acknowledged(Wire(n), r.incoming)
    PROVE  Lane(n) <= Lane(LastNumber(Len(r.delivered))) + FreeWindows - 2
<1> DEFINE l == LastNumber(Len(r.delivered))
<1>1. /\ Len(r.delivered) \in 0 .. Len(Fragments)
      /\ r.incoming = Wire(l)
      /\ Lane(sent) <= Lane(l) + FreeWindows - 1
  BY LenProperties DEF ReceiverInv, ReceiverStates, CloseBy
<1>2. l \in Nat /\ n \in Nat
  BY <1>1, LastNumbers
<1> HIDE DEF l
<1>3. Lane(l) \in Nat /\ Lane(n) \in Nat
  BY <1>2, WireShape
<1>4. CASE n <= l
  <2>1. Lane(n) <= Lane(l)
    BY <1>2, <1>4, QuotientGrows, Sizes, Zenon DEF Lane
  <2> QED BY <1>3, <2>1, Sizes DEF l
<1>5. CASE l < n
  <2>1. n \in l .. sent
    BY <1>2, <1>5
  <2>2. /\ Lane(l) <= Lane(n) /\ Lane(n) <= Lane(l) + FreeWindows - 1
        /\ Lane(n) - Lane(l) < Windows
    BY <1>1, <1>2, <2>1, NearSent
  <2>3. WindowSeen(Wire(n), Wire(l)) = Window(Wire(l)) + (Lane(n) - Lane(l))
    BY <1>2, <1>5, <2>2, SeenAhead
  <2>4. Window(Wire(l)) \in Nat
    BY <1>2, WindowType DEF WindowNumbers
  <2> QED BY <1>1, <1>3, <2>2, <2>3, <2>4, Sizes, SMTT(30) DEF Acknowledged, l
<1> QED BY <1>2, <1>4, <1>5

\* An entry made or completed by the command that arrived.
LEMMA PutKeeps ==
    ASSUME ChannelInv, NEW p \in Len(delivered) + 1 .. Len(Fragments),
           NEW new \in Entries, EntryOf(new, p),
           \A e \in HeldAt(Wire(First[p])) : e.data \subseteq new.data,
           NEW entries, entries = (held \ HeldAt(Wire(First[p]))) \cup {new}
    PROVE  /\ ReceiverInv(Holding(entries))
           /\ CloseBy(Holding(entries))
           /\ Onward(Receiver, Holding(entries))
<1> DEFINE k == Len(delivered)
           q == Holding(entries)
           old == HeldAt(Wire(First[p]))
<1>1. /\ q.held = entries /\ q.delivered = delivered /\ q.incoming = incoming
      /\ Receiver.held = held /\ Receiver.delivered = delivered
      /\ Receiver.incoming = incoming
  BY DEF Holding, Receiver
<1>2. ReceiverInv(Receiver) /\ CloseBy(Receiver)
  BY DEF ChannelInv
<1>3. q \in ReceiverStates
  <2>1. entries \subseteq Entries /\ delivered \in Seq(SUBSET Numbers)
    BY GivenType
  <2>2. incoming \in 0 .. Space - 1
    BY <1>2 DEF ReceiverInv, ReceiverStates, Receiver
  <2> QED BY <2>1, <2>2 DEF ReceiverStates, Holding
<1>4. IsFiniteSet(entries)
  <2>1. IsFiniteSet(held)
    BY <1>2 DEF ReceiverInv, Receiver
  <2>2. IsFiniteSet(held \ old)
    BY <2>1, FS_Difference
  <2> QED BY <2>2, FS_AddElement
<1>5. \A e \in entries : \E o \in k + 1 .. Len(Fragments) : EntryOf(e, o)
  BY <1>1, <1>2 DEF ReceiverInv
<1>6. \A e, f \in entries : e.start = f.start => e = f
  <2>1. new.start = Wire(First[p])
    BY DEF EntryOf
  <2>2. \A e, f \in held : e.start = f.start => e = f
    BY <1>1, <1>2 DEF ReceiverInv
  <2> QED BY <2>1, <2>2 DEF HeldAt
<1>7. ReceiverInv(q)
  <2>1. /\ k <= Len(Fragments) /\ LastNumber(k) <= sent /\ incoming = Wire(LastNumber(k))
        /\ \A i \in 1 .. k : delivered[i] = Packets[i]
    BY <1>1, <1>2 DEF ReceiverInv
  <2> HIDE DEF q, k
  <2> QED BY <1>1, <1>3, <1>4, <1>5, <1>6, <2>1 DEF ReceiverInv, k
<1>8. CloseBy(q)
  BY <1>1, <1>2 DEF CloseBy
<1>9. ASSUME NEW m \in Nat, Kept(Receiver, m)
      PROVE  Kept(q, m)
  <2>1. CASE m <= LastNumber(k)
    BY <1>1, <2>1 DEF Kept
  <2>2. CASE \E e \in held : m \in e.data
    <3>1. PICK e \in held : m \in e.data
      BY <2>2
    <3>2. CASE e \in old
      BY <1>1, <3>1, <3>2 DEF Kept
    <3>3. CASE e \notin old
      BY <1>1, <3>1, <3>3 DEF Kept
    <3> QED BY <3>2, <3>3
  <2> QED BY <1>1, <1>9, <2>1, <2>2 DEF Kept
<1>10. Len(delivered) <= Len(delivered)
  BY GivenType
<1> QED BY <1>1, <1>7, <1>8, <1>9, <1>10 DEF Onward

\* Steps forward add up.
LEMMA OnwardAgain ==
    ASSUME NEW r, NEW q, NEW o, Onward(r, q), Onward(q, o),
           r \in ReceiverStates, q \in ReceiverStates, o \in ReceiverStates
    PROVE  Onward(r, o)
<1>1. Len(r.delivered) \in Nat /\ Len(q.delivered) \in Nat /\ Len(o.delivered) \in Nat
  BY LenProperties DEF ReceiverStates
<1> QED BY <1>1 DEF Onward

\* Entry and loop.
LEMMA PutAndDispatch ==
    ASSUME ChannelInv, NEW p \in Len(delivered) + 1 .. Len(Fragments),
           NEW new \in Entries, EntryOf(new, p), NEW n \in new.data,
           \A e \in HeldAt(Wire(First[p])) : e.data \subseteq new.data,
           NEW entries, entries = (held \ HeldAt(Wire(First[p]))) \cup {new},
           Dispatch(entries)
    PROVE  /\ ReceiverInv(ReceiverNext)
           /\ CloseBy(ReceiverNext)
           /\ Onward(Receiver, ReceiverNext)
           /\ Kept(ReceiverNext, n)
<1>1. /\ ReceiverInv(Holding(entries))
      /\ CloseBy(Holding(entries))
      /\ Onward(Receiver, Holding(entries))
  BY PutKeeps
<1>2. /\ ReceiverInv(ReceiverNext)
      /\ CloseBy(ReceiverNext)
      /\ Onward(Holding(entries), ReceiverNext)
  BY <1>1, DispatchKeeps, GivenType
<1>3. Onward(Receiver, ReceiverNext)
  BY <1>1, <1>2, OnwardAgain DEF ReceiverInv, ChannelInv
<1>4. Kept(ReceiverNext, n)
  <2>1. n \in Nat
    BY GivenType DEF EntryOf
  <2>2. Kept(Holding(entries), n)
    BY DEF Kept, Holding
  <2> QED BY <1>2, <2>1, <2>2 DEF Onward
<1> QED BY <1>2, <1>3, <1>4

\* The receiver that keeps what it has.
LEMMA ReceiverStays ==
    ASSUME ChannelInv, UNCHANGED receiver
    PROVE  /\ ReceiverNext = Receiver
           /\ ReceiverInv(ReceiverNext)
           /\ CloseBy(ReceiverNext)
           /\ Onward(Receiver, ReceiverNext)
<1>1. ReceiverNext = Receiver
  BY DEF receiver, ReceiverNext, Receiver
<1>2. Len(Receiver.delivered) \in Nat
  BY GivenType DEF Receiver
<1> QED BY <1>1, <1>2 DEF ChannelInv, Onward

\* A command that is not new: the receiver has it, or refuses to acknowledge it.
LEMMA NothingNew ==
    ASSUME ChannelInv, UNCHANGED receiver,
           NEW p \in DOMAIN Fragments, NEW n \in First[p] .. First[p + 1] - 1,
           n \in 1 .. sent, Acknowledged(Wire(n), incoming'),
           n > Given /\ InWindow(Wire(First[p])) => Kept(Receiver, n)
    PROVE  Kept(ReceiverNext, n)
<1>1. ReceiverNext = Receiver
  BY ReceiverStays
<1>2. CASE n <= Given
  BY <1>1, <1>2 DEF Kept, Receiver, Given
<1>3. CASE n > Given
  <2>1. Lane(n) <= Lane(Given) + FreeWindows - 2
    <3>1. ReceiverInv(Receiver) /\ CloseBy(Receiver) /\ sent \in Nat
      BY GivenType DEF ChannelInv
    <3>2. Acknowledged(Wire(n), Receiver.incoming)
      BY DEF receiver, Receiver
    <3> QED BY <3>1, <3>2, AcknowledgedClose DEF Receiver, Given
  <2>2. /\ Lane(First[p]) <= Lane(n)
        /\ Lane(First[p]) \in Nat /\ Lane(n) \in Nat /\ Lane(Given) \in Nat
        /\ InWindow(Wire(First[p])) <=> Lane(First[p]) <= Lane(Given) + FreeWindows - 2
    BY <1>3, NewArrival
  <2>3. InWindow(Wire(First[p]))
    BY <2>1, <2>2, Sizes
  <2> QED BY <1>1, <1>3, <2>3
<1> QED
  <2>1. Given \in Nat /\ n \in Nat
    BY GivenType
  <2> QED BY <1>2, <1>3, <2>1

\* A packet in one command arrives.
LEMMA SendReliableKeeps ==
    ASSUME DelaysFit, ChannelInv, NEW n \in Numbers, HandleSendReliable(n)
    PROVE  /\ ReceiverInv(ReceiverNext)
           /\ CloseBy(ReceiverNext)
           /\ Onward(Receiver, ReceiverNext)
           /\ Acknowledged(Wire(n), incoming') => Kept(ReceiverNext, n)
<1> DEFINE isNew == InWindow(Wire(n)) /\ Wire(n) # incoming /\ HeldAt(Wire(n)) = {}
           new == [start |-> Wire(n), count |-> 1, data |-> {n}]
<1>1. PICK p \in DOMAIN Fragments : n \in First[p] .. First[p + 1] - 1
  BY PacketExists
<1>2. n \in 1 .. sent /\ sent - n <= LateBy
  BY UnderWayNear DEF HandleSendReliable
<1>3. Count(n) = 1 /\ Count(n) = Fragments[p]
  BY <1>1, PacketUnique DEF HandleSendReliable
<1>4. /\ First[p] \in Nat /\ First[p + 1] = First[p] + Fragments[p]
      /\ Given \in Nat /\ sent \in Nat
  <2>1. p \in 1 .. Len(Fragments) /\ p \in 1 .. Len(Fragments) + 1
    BY FragmentsAssumption, FirstSteps
  <2> QED BY <2>1, FirstSteps, GivenType
<1>5. n = First[p]
  BY <1>1, <1>3, <1>4
<1>6. CASE ~isNew /\ UNCHANGED receiver
  <2>1. ASSUME n > Given, InWindow(Wire(First[p]))
        PROVE  Kept(Receiver, n)
    <3>1. Wire(First[p]) # incoming /\ \A e \in HeldAt(Wire(First[p])) : EntryOf(e, p)
      BY <1>1, <1>2, <2>1, NewArrival
    <3>2. PICK e \in HeldAt(Wire(n)) : TRUE
      BY <1>5, <1>6, <2>1, <3>1
    <3>3. e \in held /\ EntryOf(e, p)
      BY <1>5, <3>1, <3>2 DEF HeldAt
    <3>4. n \in e.data
      <4>1. PICK m \in e.data : m \in First[p] .. First[p + 1] - 1
        BY <3>3 DEF EntryOf
      <4> QED BY <1>3, <1>4, <1>5, <4>1
    <3> QED BY <3>3, <3>4 DEF Kept, Receiver
  <2> QED BY <1>1, <1>2, <1>6, <2>1, NothingNew, ReceiverStays
<1>7. CASE isNew /\ Dispatch(held \cup {new})
  <2>1. n > Given
    <3>1. SUFFICES ASSUME n <= Given PROVE FALSE
      BY <1>2, <1>4
    <3>2. First[p] = Given
      BY <1>1, <1>2, <1>5, <1>7, <3>1, OldArrival
    <3>3. incoming = Wire(Given)
      BY GivenType
    <3> QED BY <1>5, <1>7, <3>2, <3>3
  <2>2. p \in Len(delivered) + 1 .. Len(Fragments)
    BY <1>1, <1>2, <2>1, NewArrival
  <2>3. new \in Entries /\ EntryOf(new, p)
    <3>1. Wire(n) \in 0 .. Space - 1
      BY <1>4, <1>5, WireShape
    <3>2. new \in Entries
      BY <3>1 DEF Entries
    <3> QED BY <1>1, <1>2, <1>3, <1>5, <3>2 DEF EntryOf
  <2>4. /\ held \cup {new} = (held \ HeldAt(Wire(First[p]))) \cup {new}
        /\ \A e \in HeldAt(Wire(First[p])) : e.data \subseteq new.data
    BY <1>5, <1>7
  <2>5. n \in new.data /\ Dispatch(held \cup {new})
    BY <1>7
  <2> HIDE DEF new
  <2> QED BY <2>2, <2>3, <2>4, <2>5, PutAndDispatch
<1>8. (~isNew /\ UNCHANGED receiver) \/ (isNew /\ Dispatch(held \cup {new}))
  BY Zenon DEF HandleSendReliable
<1> QED BY <1>6, <1>7, <1>8

\* A fragment arrives.
LEMMA SendFragmentKeeps ==
    ASSUME DelaysFit, ChannelInv, NEW n \in Numbers, HandleSendFragment(n)
    PROVE  /\ ReceiverInv(ReceiverNext)
           /\ CloseBy(ReceiverNext)
           /\ Onward(Receiver, ReceiverNext)
           /\ Acknowledged(Wire(n), incoming') => Kept(ReceiverNext, n)
<1>1. PICK p \in DOMAIN Fragments : n \in First[p] .. First[p + 1] - 1
  BY PacketExists
<1> DEFINE wire == Wire(Start(n))
           Has(e) == \E m \in e.data : m - Start(m) = n - Start(n)
           new == [start |-> wire, count |-> Count(n), data |-> {n}]
           more(e) == [e EXCEPT !.data = @ \cup {n}]
<1>2. n \in 1 .. sent /\ sent - n <= LateBy
  BY UnderWayNear DEF HandleSendFragment
<1>3. Start(n) = First[p] /\ Count(n) = Fragments[p] /\ Count(n) > 1
  BY <1>1, PacketUnique DEF HandleSendFragment
<1>4. /\ First[p] \in Nat /\ First[p + 1] \in Nat /\ Fragments[p] \in Nat \ {0}
      /\ Given \in Nat /\ sent \in Nat
  <2>1. p \in 1 .. Len(Fragments) /\ p \in 1 .. Len(Fragments) + 1 /\ p + 1 \in 1 .. Len(Fragments) + 1
    BY FragmentsAssumption, FirstSteps
  <2> QED BY <2>1, FirstSteps, GivenType
<1>5. InWindow(wire) => n > Given
  <2>1. SUFFICES ASSUME InWindow(wire), n <= Given PROVE FALSE
    BY <1>2, <1>4
  <2>2. Fragments[p] = 1
    BY <1>1, <1>2, <1>3, <2>1, OldArrival
  <2> QED BY <1>3, <2>2
<1>6. n > Given => /\ p \in Len(delivered) + 1 .. Len(Fragments)
                   /\ \A e \in HeldAt(wire) : EntryOf(e, p)
  BY <1>1, <1>2, <1>3, NewArrival
<1>7. Wire(First[p]) \in 0 .. Space - 1
  BY <1>4, WireShape
<1>8. CASE ~InWindow(wire) /\ UNCHANGED receiver
  BY <1>1, <1>2, <1>3, <1>8, NothingNew, ReceiverStays
<1>9. CASE InWindow(wire) /\ HeldAt(wire) = {} /\ Dispatch(held \cup {new})
  <2>1. new \in Entries /\ EntryOf(new, p)
    <3>1. new \in Entries
      BY <1>3, <1>4, <1>7 DEF Entries
    <3> QED BY <1>1, <1>2, <1>3, <3>1 DEF EntryOf
  <2>2. /\ held \cup {new} = (held \ HeldAt(Wire(First[p]))) \cup {new}
        /\ \A e \in HeldAt(Wire(First[p])) : e.data \subseteq new.data
    BY <1>3, <1>9
  <2>3. n \in new.data /\ Dispatch(held \cup {new})
    BY <1>9
  <2> HIDE DEF new
  <2> QED BY <1>5, <1>6, <1>9, <2>1, <2>2, <2>3, PutAndDispatch
<1>10. ASSUME InWindow(wire), NEW e \in HeldAt(wire), Has(e), UNCHANGED receiver
       PROVE  /\ ReceiverInv(ReceiverNext)
              /\ CloseBy(ReceiverNext)
              /\ Onward(Receiver, ReceiverNext)
              /\ Acknowledged(Wire(n), incoming') => Kept(ReceiverNext, n)
  <2>1. EntryOf(e, p) /\ e \in held
    BY <1>5, <1>6, <1>10 DEF HeldAt
  <2>2. PICK m \in e.data : m - Start(m) = n - Start(n)
    BY <1>10
  <2>3. m \in First[p] .. First[p + 1] - 1
    BY <2>1 DEF EntryOf
  <2>4. Start(m) = First[p]
    BY <2>3, PacketUnique
  <2>5. m = n
    <3>1. m - First[p] = n - First[p]
      BY <1>3, <2>2, <2>4
    <3>2. m \in Nat /\ n \in Nat
      BY <1>2, <1>4, <2>3
    <3> QED BY <1>4, <3>1, <3>2
  <2>6. Kept(Receiver, n)
    BY <2>1, <2>2, <2>5 DEF Kept, Receiver
  <2> QED BY <1>1, <1>2, <1>10, <2>6, NothingNew, ReceiverStays
<1>11. ASSUME InWindow(wire), NEW e \in HeldAt(wire),
              Dispatch((held \ {e}) \cup {more(e)})
       PROVE  /\ ReceiverInv(ReceiverNext)
              /\ CloseBy(ReceiverNext)
              /\ Onward(Receiver, ReceiverNext)
              /\ Kept(ReceiverNext, n)
  <2>1. EntryOf(e, p) /\ e \in held /\ e.start = wire
    BY <1>5, <1>6, <1>11 DEF HeldAt
  <2>2. /\ e \in Entries /\ held \subseteq Entries
        /\ \A f, g \in held : f.start = g.start => f = g
    BY <2>1, GivenType DEF ChannelInv, ReceiverInv, Receiver
  <2>3. HeldAt(Wire(First[p])) = {e}
    BY <1>3, <2>1, <2>2 DEF HeldAt
  <2>4. more(e) = [start |-> e.start, count |-> e.count, data |-> e.data \cup {n}]
    <3>1. e \in [start : 0 .. Space - 1, count : Nat \ {0}, data : SUBSET Numbers]
      BY <2>2 DEF Entries
    <3> QED BY <3>1
  <2>5. more(e) \in Entries /\ EntryOf(more(e), p)
    <3>1. /\ e.start \in 0 .. Space - 1 /\ e.count \in Nat \ {0}
          /\ e.data \cup {n} \subseteq Numbers
      BY <2>2 DEF Entries
    <3>2. more(e) \in Entries
      BY <2>4, <3>1 DEF Entries
    <3>3. /\ more(e).start = e.start /\ more(e).count = e.count
          /\ more(e).data = e.data \cup {n}
      BY <2>4
    <3> HIDE DEF more
    <3> QED BY <1>1, <1>2, <2>1, <3>2, <3>3 DEF EntryOf
  <2>6. n \in more(e).data /\ e.data \subseteq more(e).data
    BY <2>4
  <2> HIDE DEF more
  <2> DEFINE entries == (held \ {e}) \cup {more(e)}
  <2>7. /\ entries = (held \ HeldAt(Wire(First[p]))) \cup {more(e)}
        /\ \A f \in HeldAt(Wire(First[p])) : f.data \subseteq more(e).data
        /\ Dispatch(entries)
    BY <1>11, <2>3, <2>6
  <2> HIDE DEF entries
  <2> QED BY <1>5, <1>6, <1>11, <2>5, <2>6, <2>7, PutAndDispatch
<1>12. \/ ~InWindow(wire) /\ UNCHANGED receiver
       \/ InWindow(wire) /\ HeldAt(wire) = {} /\ Dispatch(held \cup {new})
       \/ /\ InWindow(wire)
          /\ \E e \in HeldAt(wire) :
                IF Has(e) THEN UNCHANGED receiver
                ELSE Dispatch((held \ {e}) \cup {more(e)})
  BY Zenon DEF HandleSendFragment
<1> HIDE DEF wire, Has, new, more
<1> QED BY <1>8, <1>9, <1>10, <1>11, <1>12, Zenon

-----------------------------------------------------------------------------
(* The invariant of both ends.                                                *)

\* A channel just opened is in order at both ends.
LEMMA ChannelInit == Init => ChannelInv
<1> SUFFICES ASSUME Init PROVE ChannelInv
  OBVIOUS
<1>1. /\ queued = 0 /\ sent = 0 /\ inFlight = {} /\ acks = {}
      /\ incoming = 0 /\ held = {} /\ delivered = <<>>
  BY DEF Init
<1>2. Len(Fragments) \in Nat /\ First[1] = 1 /\ 0 + 1 = 1
  BY FirstSteps
<1>3. LastNumber(0) = 0
  BY <1>2 DEF LastNumber
<1>4. Wire(0) = 0 /\ Lane(0) = 0
  BY Sizes, SMT DEF Wire, Lane
<1>5. Len(Receiver.delivered) = 0 /\ Receiver.held = {} /\ Receiver.incoming = 0
      /\ Receiver.delivered = <<>>
  BY <1>1 DEF Receiver
<1>6. ReceiverInv(Receiver)
  <2>1. Receiver \in ReceiverStates
    BY <1>1, Sizes, EmptySeq DEF Receiver, ReceiverStates
  <2>2. IsFiniteSet(Receiver.held)
    BY <1>5, FS_EmptySet
  <2> QED BY <1>1, <1>2, <1>3, <1>4, <1>5, <2>1, <2>2 DEF ReceiverInv
<1>7. CloseBy(Receiver)
  BY <1>1, <1>3, <1>4, <1>5, Sizes DEF CloseBy
<1>8. queued \in 0 .. Len(Fragments) /\ sent \in 0 .. First[queued + 1] - 1
  BY <1>1, <1>2
<1> QED BY <1>1, <1>6, <1>7, <1>8, SenderInit DEF ChannelInv, NothingLate

\* A step that leaves the receiver and what was sent alone leaves its half.
LEMMA ReceiverSame ==
    ASSUME ChannelInv, UNCHANGED receiver, sent' = sent
    PROVE  ReceiverInv(Receiver)' /\ CloseBy(Receiver)'
<1>1. Receiver' = Receiver
  BY DEF receiver, Receiver
<1> QED BY <1>1 DEF ChannelInv, ReceiverInv, EntryOf, CloseBy

\* The program sends a packet.
LEMMA SendKeeps == ChannelInv /\ Send => ChannelInv'
<1> SUFFICES ASSUME ChannelInv, Send PROVE ChannelInv'
  OBVIOUS
<1>1. /\ queued < Len(Fragments) /\ queued' = queued + 1
      /\ UNCHANGED <<sent, inFlight, counts, used, receiver, acks>>
  BY DEF Send
<1>2. queued \in 0 .. Len(Fragments) /\ sent \in 0 .. First[queued + 1] - 1
  BY DEF ChannelInv
<1>3. queued' \in 0 .. Len(Fragments) /\ sent' \in 0 .. First[queued' + 1] - 1
  <2>1. /\ queued + 1 \in 1 .. Len(Fragments) /\ queued + 1 \in 1 .. Len(Fragments) + 1
        /\ (queued + 1) + 1 \in 1 .. Len(Fragments) + 1
    BY <1>1, <1>2, FirstSteps
  <2>2. First[(queued + 1) + 1] = First[queued + 1] + Fragments[queued + 1]
        /\ Fragments[queued + 1] \in Nat /\ First[queued + 1] \in Nat
    BY <2>1, FirstSteps
  <2> QED BY <1>1, <1>2, <2>1, <2>2
<1>4. SenderInv'
  BY <1>1 DEF ChannelInv, SenderInv, SenderType, WindowsCountInFlight
<1>5. ReceiverInv(Receiver)' /\ CloseBy(Receiver)' /\ Receiver' = Receiver
  BY <1>1, ReceiverSame DEF receiver, Receiver
<1> QED BY <1>1, <1>3, <1>4, <1>5 DEF ChannelInv, NothingLate, AckedBy, Kept

\* A window that nothing was acknowledged of, and that was sent to its end, is
\* full.
LEMMA WindowFull ==
    ASSUME SenderInv, NEW a \in Nat \ {0}, sent = WindowSize * a + (WindowSize - 1),
           \A n \in 1 .. sent \ inFlight : Lane(n) < a
    PROVE  counts[Window(Wire(sent))] >= WindowSize
<1> DEFINE v == Window(Wire(sent))
           low == WindowSize * a
           last == low .. sent
<1>1. /\ sent \in Nat /\ inFlight \subseteq 1 .. sent /\ low \in Nat \ {0}
      /\ sent = low + (WindowSize - 1) /\ WindowSize \in Nat \ {0}
  <2>1. low \in Nat \ {0}
    BY Sizes, SMT
  <2> QED BY <2>1, Sizes DEF SenderInv, SenderType
<1>2. ASSUME NEW n \in last
      PROVE  n \in inFlight /\ Window(Wire(n)) = v
  <2>1. Lane(n) = a /\ Lane(sent) = a
    <3>1. ASSUME NEW r \in 0 .. WindowSize - 1
          PROVE  Lane(low + r) = a
      BY <3>1, Sizes, QuotientUnique DEF Lane
    <3>2. n - low \in 0 .. WindowSize - 1 /\ low + (n - low) = n
          /\ sent - low \in 0 .. WindowSize - 1 /\ low + (sent - low) = sent
      <4> HIDE DEF low
      <4> QED BY <1>1, <1>2
    <3> HIDE DEF low
    <3>3. Lane(low + (n - low)) = a /\ Lane(low + (sent - low)) = a
      BY <3>1, <3>2, Zenon
    <3> QED BY <3>2, <3>3
  <2>2. n \in 1 .. sent /\ n \in Nat
    <3> HIDE DEF low
    <3> QED BY <1>1, <1>2
  <2>3. n \in inFlight
    BY <2>1, <2>2
  <2>4. Window(Wire(n)) = v
    BY <1>1, <2>1, <2>2, WireShape
  <2> QED BY <2>3, <2>4
<1>3. Cardinality(last) = WindowSize
  <2> HIDE DEF low
  <2>1. low \in Int /\ sent \in Int /\ ~(low > sent) /\ sent - low + 1 = WindowSize
    BY <1>1
  <2> QED BY <2>1, FS_Interval
<1>4. last \in SUBSET InWindowOf(inFlight, v)
  <2> HIDE DEF last, v
  <2> QED BY <1>2 DEF InWindowOf
<1>5. counts[v] = Cardinality(InWindowOf(inFlight, v))
  BY <1>1, WindowType DEF SenderInv, WindowsCountInFlight, InWindowOf
<1>6. IsFiniteSet(InWindowOf(inFlight, v))
  BY InFlightFinite DEF SenderInv
<1>7. Cardinality(last) <= Cardinality(InWindowOf(inFlight, v))
  <2> HIDE DEF last, v
  <2> QED BY <1>4, <1>6, FS_Subset
<1> HIDE DEF last, v
<1> QED BY <1>3, <1>5, <1>7 DEF v

\* The sender waits before it gets too far ahead.
LEMMA TransmitClose ==
    ASSUME ChannelInv, Transmit
    PROVE  Lane(sent + 1) <= Lane(Given) + FreeWindows - 1
<1> DEFINE n == sent + 1
           a == Lane(sent)
           v == Window(Wire(sent))
           w == Window(Wire(n))
<1>1. /\ sent \in Nat /\ Given \in Nat
      /\ Lane(sent) <= Lane(Given) + FreeWindows - 1
      /\ Lane(sent) \in Nat /\ Lane(Given) \in Nat /\ Lane(n) \in Nat
  <2>1. sent \in Nat /\ n \in Nat /\ Given \in Nat
    BY GivenType
  <2> HIDE DEF n
  <2> QED BY <2>1, GivenType, WireShape
<1>2. SUFFICES ASSUME Lane(n) > Lane(Given) + FreeWindows - 1 PROVE FALSE
  BY <1>1, Sizes
<1>3. Lane(n) - Lane(sent) <= 1
  <2>1. n - sent <= 1 * WindowSize /\ n \in Nat
    BY <1>1, Sizes
  <2> HIDE DEF n
  <2> QED BY <1>1, <2>1, QuotientsNear, Sizes DEF Lane
<1>4. Lane(n) = a + 1 /\ a = Lane(Given) + FreeWindows - 1 /\ a \in Nat \ {0}
  <2> HIDE DEF n
  <2> QED BY <1>1, <1>2, <1>3, Sizes
<1>5. sent = WindowSize * a + (WindowSize - 1) /\ n % WindowSize = 0
  <2> DEFINE q == sent % WindowSize
             r == n % WindowSize
             b == Lane(n)
  <2>1. q \in 0 .. WindowSize - 1 /\ sent = WindowSize * a + q
    BY <1>1, Sizes, Remainder DEF Lane
  <2>2. r \in 0 .. WindowSize - 1 /\ n = WindowSize * b + r
    BY <1>1, Sizes, Remainder DEF Lane
  <2>3. WindowSize * b = WindowSize * a + WindowSize /\ WindowSize * a \in Nat
    <3> HIDE DEF a, b
    <3>1. b = a + 1 /\ a \in Nat
      BY <1>4 DEF b
    <3> QED BY <3>1, Sizes, SMT
  <2> HIDE DEF q, r, a, b
  <2>4. sent = WindowSize * a + q /\ sent + 1 = WindowSize * a + WindowSize + r
    BY <2>1, <2>2, <2>3
  <2>5. q = WindowSize - 1 /\ r = 0
    <3>1. q + 1 = WindowSize + r
      BY <2>1, <2>2, <2>3, <2>4, Sizes
    <3> QED BY <2>1, <2>2, <3>1, Sizes
  <2> QED BY <2>4, <2>5 DEF r
<1>6. counts[v] >= WindowSize
  <2>1. \A m \in 1 .. sent \ inFlight : Lane(m) < a
    <3> TAKE m \in 1 .. sent \ inFlight
    <3>1. Lane(m) <= Lane(Given) + FreeWindows - 2
      BY DEF ChannelInv, AckedBy, Receiver, Given
    <3>2. Lane(m) \in Nat
      BY WireShape
    <3> HIDE DEF a
    <3> QED BY <1>1, <1>4, <3>1, <3>2, Sizes
  <2>2. SenderInv
    BY DEF ChannelInv
  <2> HIDE DEF a
  <2> QED BY <1>4, <1>5, <2>1, <2>2, WindowFull
<1>7. (w + Windows - 1) % Windows = v
  <2>1. /\ v \in 0 .. Windows - 1
        /\ w = IF v + 1 < Windows THEN v + 1 ELSE v + 1 - Windows
    <3>1. Lane(sent) <= Lane(n) /\ Lane(n) - Lane(sent) = 1 /\ Lane(n) - Lane(sent) < Windows
      BY <1>1, <1>4, Sizes
    <3>2. n \in Nat
      BY <1>1
    <3> HIDE DEF n
    <3> QED BY <1>1, <3>1, <3>2, LanesAround
  <2> HIDE DEF v, w
  <2>2. CASE v + 1 < Windows
    <3>1. w + Windows - 1 = Windows * 1 + v /\ v \in 0 .. Windows - 1
      BY <2>1, <2>2, Sizes
    <3>2. (Windows * 1 + v) % Windows = v
      BY <3>1, Sizes, RemainderUnique
    <3> QED BY <3>1, <3>2
  <2>3. CASE ~(v + 1 < Windows)
    <3>1. w + Windows - 1 = Windows * 0 + v /\ v \in 0 .. Windows - 1
      BY <2>1, <2>3, Sizes
    <3>2. (Windows * 0 + v) % Windows = v
      BY <3>1, Sizes, RemainderUnique
    <3> QED BY <3>1, <3>2
  <2> QED BY <2>2, <2>3
<1>8. Wire(n) % WindowSize = 0
  <2>1. Wire(n) = WindowSize * w + 0 /\ w \in Nat
    <3>1. n \in Nat
      BY <1>1
    <3>2. Wire(n) = WindowSize * w + (n % WindowSize) /\ w \in Nat
      BY <3>1, WireShape, WindowType DEF WindowNumbers
    <3> QED BY <1>5, <3>2
  <2> HIDE DEF w
  <2>2. 0 \in 0 .. WindowSize - 1
    BY Sizes
  <2>3. (WindowSize * w + 0) % WindowSize = 0
    BY <2>1, <2>2, Sizes, RemainderUnique
  <2> QED BY <2>1, <2>3
<1>9. Blocked(n)
  <2> HIDE DEF v
  <2> QED BY <1>6, <1>7, <1>8 DEF Blocked
<1> QED BY <1>9 DEF Transmit

\* A command is sent for the first time.
LEMMA TransmitKeeps == ChannelInv /\ Transmit => ChannelInv'
<1> SUFFICES ASSUME ChannelInv, Transmit PROVE ChannelInv'
  OBVIOUS
<1> DEFINE n == sent + 1
<1>1. /\ n < First[queued + 1]
      /\ \A m \in inFlight : n - m <= MaxAhead
      /\ sent' = n
      /\ inFlight' = inFlight \cup {n}
      /\ acks' = {m \in acks : n - m < MaxDelay}
      /\ queued' = queued /\ UNCHANGED receiver
  BY DEF Transmit
<1>2. sent \in Nat /\ queued \in 0 .. Len(Fragments) /\ First[queued + 1] \in Nat
  <2>1. queued \in 0 .. Len(Fragments)
    BY DEF ChannelInv
  <2>2. queued + 1 \in 1 .. Len(Fragments) + 1
    BY <2>1, FirstSteps
  <2> QED BY <2>1, <2>2, FirstSteps, GivenType
<1>3. SenderInv'
  BY TransmitCounts DEF ChannelInv
<1>4. NothingLate'
  <2> SUFFICES ASSUME NEW m \in inFlight' \cup acks'
               PROVE  m \in 1 .. sent' /\ sent' - m <= LateBy
    BY DEF NothingLate
  <2>1. CASE m = n
    BY <1>1, <1>2, <2>1, Sizes
  <2>2. CASE m \in inFlight
    <3>1. m \in 1 .. sent /\ n - m <= MaxAhead
      BY <1>1, <2>2 DEF ChannelInv, NothingLate
    <3> QED BY <1>1, <1>2, <3>1, Sizes DEF LateBy
  <2>3. CASE m \in acks /\ n - m < MaxDelay
    <3>1. m \in 1 .. sent
      BY <2>3 DEF ChannelInv, NothingLate
    <3> QED BY <1>1, <1>2, <2>3, <3>1, Sizes DEF LateBy
  <2> QED BY <1>1, <2>1, <2>2, <2>3
<1>5. Receiver' = Receiver
  BY <1>1 DEF receiver, Receiver
<1>6. ReceiverInv(Receiver)'
  <2>1. ReceiverInv(Receiver)
    BY DEF ChannelInv
  <2>2. \A e, p : EntryOf(e, p) => EntryOf(e, p)'
    BY <1>1, <1>2 DEF EntryOf
  <2>3. LastNumber(Len(Receiver.delivered)) <= sent'
    <3>1. Given <= sent /\ Given \in Nat
      BY GivenType
    <3>2. Given <= sent'
      BY <1>1, <1>2, <3>1
    <3> QED BY <3>2 DEF Given, Receiver
  <2> QED BY <1>5, <2>1, <2>2, <2>3 DEF ReceiverInv
<1>7. CloseBy(Receiver)'
  BY <1>1, <1>5, TransmitClose DEF CloseBy, Receiver, Given
<1>8. \A m \in acks' \cup (1 .. sent' \ inFlight') : AckedBy(Receiver, m)'
  <2> TAKE m \in acks' \cup (1 .. sent' \ inFlight')
  <2>1. m \in acks \cup (1 .. sent \ inFlight)
    BY <1>1, <1>2
  <2>2. AckedBy(Receiver, m)
    BY <2>1 DEF ChannelInv
  <2> QED BY <1>5, <2>2 DEF AckedBy, Kept
<1>9. queued' \in 0 .. Len(Fragments) /\ sent' \in 0 .. First[queued' + 1] - 1
  BY <1>1, <1>2
<1> QED BY <1>3, <1>4, <1>6, <1>7, <1>8, <1>9 DEF ChannelInv

\* Nothing is under way for a lap.
LEMMA LateFits ==
    ASSUME DelaysFit, NEW p \in DOMAIN Fragments
    PROVE  LateBy < Space
<1> DEFINE c == Windows - FreeWindows + 1
<1>1. Fragments[p] \in Nat \ {0}
  BY FragmentsAssumption
<1>2. LateBy + Fragments[p] - 1 <= c * WindowSize
  BY DEF DelaysFit
<1>3. c \in Nat /\ c < Windows
  BY Sizes
<1> HIDE DEF c
<1>4. WindowSize * c = c * WindowSize /\ WindowSize * c \in Nat
      /\ WindowSize * Windows >= WindowSize * c + WindowSize
  BY <1>3, Sizes, Multiples, SMT
<1> QED BY <1>1, <1>2, <1>3, <1>4, Sizes

\* An acknowledgement is handled: the command it takes out is the one it is for.
LEMMA HandleAcknowledgeKeeps ==
    ASSUME DelaysFit, ChannelInv, NEW n \in Numbers, HandleAcknowledge(n)
    PROVE  ChannelInv'
<1>1. PICK m \in inFlight : Wire(m) = Wire(n) /\ inFlight' = inFlight \ {m}
  BY DEF HandleAcknowledge
<1>2. n \in acks /\ UNCHANGED <<queued, sent, receiver, acks>>
  BY DEF HandleAcknowledge
<1>3. m \in 1 .. sent /\ n \in 1 .. sent /\ sent - m <= LateBy /\ sent - n <= LateBy
  BY <1>2 DEF ChannelInv, NothingLate
<1>4. m = n
  <2>1. LateBy < Space
    <3>1. PICK p \in DOMAIN Fragments : TRUE
      BY PacketExists
    <3> QED BY LateFits
  <2>2. sent \in Nat
    BY GivenType
  <2>3. m \in Nat /\ n \in Nat /\ m - n < Space /\ n - m < Space
    BY <1>3, <2>1, <2>2, Sizes
  <2> QED BY <1>1, <2>3, WireSame
<1>5. SenderInv'
  BY AcknowledgeCounts DEF ChannelInv
<1>6. ReceiverInv(Receiver)' /\ CloseBy(Receiver)' /\ Receiver' = Receiver
  BY <1>2, ReceiverSame DEF receiver, Receiver
<1>7. NothingLate'
  BY <1>1, <1>2 DEF ChannelInv, NothingLate
<1>8. \A x \in acks' \cup (1 .. sent' \ inFlight') : AckedBy(Receiver, x)'
  <2> TAKE x \in acks' \cup (1 .. sent' \ inFlight')
  <2>1. x \in acks \cup (1 .. sent \ inFlight)
    BY <1>1, <1>2, <1>4
  <2>2. AckedBy(Receiver, x)
    BY <2>1 DEF ChannelInv
  <2> QED BY <1>6, <2>2 DEF AckedBy, Kept
<1>9. queued' \in 0 .. Len(Fragments) /\ sent' \in 0 .. First[queued' + 1] - 1
  BY <1>2 DEF ChannelInv
<1> QED BY <1>5, <1>6, <1>7, <1>8, <1>9 DEF ChannelInv

\* A command arrives.
LEMMA HandleCommandKeeps ==
    ASSUME DelaysFit, ChannelInv, NEW n \in Numbers, HandleCommand(n)
    PROVE  ChannelInv' /\ Onward(Receiver, Receiver')
<1>1. UnderWay(n) /\ Acknowledge(n) /\ UNCHANGED sender
  BY DEF HandleCommand, HandleSendReliable, HandleSendFragment
<1>2. UNCHANGED <<queued, sent, inFlight, counts, used>>
  BY <1>1 DEF sender
<1>3. n \in 1 .. sent /\ sent - n <= LateBy /\ sent \in Nat
  BY <1>1, UnderWayNear, GivenType
<1>4. /\ ReceiverInv(ReceiverNext)
      /\ CloseBy(ReceiverNext)
      /\ Onward(Receiver, ReceiverNext)
      /\ Acknowledged(Wire(n), incoming') => Kept(ReceiverNext, n)
  BY SendReliableKeeps, SendFragmentKeeps DEF HandleCommand
<1>5. Receiver' = ReceiverNext
  BY DEF Receiver, ReceiverNext
<1>6. ReceiverInv(Receiver)' /\ CloseBy(Receiver)'
  BY <1>2, <1>4, <1>5 DEF ReceiverInv, EntryOf, CloseBy
<1>7. acks' \subseteq acks \cup {n} /\ (n \in acks' => n \in acks \/ Acknowledged(Wire(n), incoming'))
  BY <1>1 DEF Acknowledge
<1>8. NothingLate'
  <2> SUFFICES ASSUME NEW m \in inFlight' \cup acks'
               PROVE  m \in 1 .. sent' /\ sent' - m <= LateBy
    BY DEF NothingLate
  <2>1. m \in inFlight \cup acks \/ m = n
    BY <1>2, <1>7
  <2> QED BY <1>2, <1>3, <2>1 DEF ChannelInv, NothingLate
<1>9. SenderInv'
  BY <1>2 DEF ChannelInv, SenderInv, SenderType, WindowsCountInFlight
<1> DEFINE l == LastNumber(Len(Receiver.delivered))
           l2 == LastNumber(Len(ReceiverNext.delivered))
<1>10. l \in Nat /\ l2 \in Nat /\ Lane(l) <= Lane(l2) /\ Lane(l) \in Nat /\ Lane(l2) \in Nat
  <2>1. /\ Len(Receiver.delivered) \in Nat /\ Len(ReceiverNext.delivered) \in Nat
        /\ Len(ReceiverNext.delivered) <= Len(Fragments)
        /\ Len(Receiver.delivered) <= Len(ReceiverNext.delivered)
    BY <1>4, LenProperties DEF ChannelInv, ReceiverInv, ReceiverStates, Onward
  <2>2. /\ Len(ReceiverNext.delivered) \in 0 .. Len(Fragments)
        /\ Len(Receiver.delivered) \in 0 .. Len(Fragments)
        /\ Len(Receiver.delivered) \in 0 .. Len(ReceiverNext.delivered)
    BY <2>1, FirstSteps
  <2>3. l \in Nat /\ l2 \in Nat /\ l <= l2
    BY <2>2, LastNumbers
  <2> HIDE DEF l, l2
  <2> QED BY <2>3, QuotientGrows, WireShape, Sizes DEF Lane
<1>11. ASSUME NEW m \in acks' \cup (1 .. sent' \ inFlight')
       PROVE  AckedBy(ReceiverNext, m)
  <2>1. CASE m \in acks \cup (1 .. sent \ inFlight)
    <3>1. AckedBy(Receiver, m)
      BY <2>1 DEF ChannelInv
    <3>2. m \in Nat
      BY <1>2, <1>3, <1>7, <1>8, <1>11 DEF NothingLate
    <3>3. Kept(ReceiverNext, m)
      BY <1>4, <3>1, <3>2 DEF Onward, AckedBy
    <3>4. Lane(m) \in Nat /\ Lane(m) <= Lane(l) + FreeWindows - 2
      BY <3>1, <3>2, WireShape DEF AckedBy
    <3>5. Lane(m) <= Lane(l2) + FreeWindows - 2
      <4> HIDE DEF l, l2
      <4> QED BY <1>10, <3>4, Sizes
    <3> QED BY <3>3, <3>5 DEF AckedBy
  <2>2. CASE m = n /\ Acknowledged(Wire(n), incoming')
    <3>1. Acknowledged(Wire(n), ReceiverNext.incoming)
      BY <2>2 DEF ReceiverNext
    <3>2. Lane(n) <= Lane(l2) + FreeWindows - 2
      BY <1>3, <1>4, <3>1, AcknowledgedClose
    <3> QED BY <1>4, <2>2, <3>2 DEF AckedBy
  <2> QED BY <1>2, <1>7, <1>11, <2>1, <2>2
<1>12. \A m \in acks' \cup (1 .. sent' \ inFlight') : AckedBy(Receiver, m)'
  BY <1>5, <1>11 DEF AckedBy, Kept
<1>13. queued' \in 0 .. Len(Fragments) /\ sent' \in 0 .. First[queued' + 1] - 1
  BY <1>2 DEF ChannelInv
<1> QED BY <1>4, <1>5, <1>6, <1>8, <1>9, <1>12, <1>13 DEF ChannelInv

\* Every step keeps both ends in order, if nothing arrives too late.
LEMMA ChannelStep ==
    ASSUME DelaysFit
    PROVE  ChannelInv /\ [Next]_vars => ChannelInv'
<1> SUFFICES ASSUME ChannelInv, [Next]_vars PROVE ChannelInv'
  OBVIOUS
<1>1. CASE Send
  BY <1>1, SendKeeps
<1>2. CASE Transmit
  BY <1>2, TransmitKeeps
<1>3. ASSUME NEW n \in Numbers, HandleAcknowledge(n) PROVE ChannelInv'
  BY <1>3, HandleAcknowledgeKeeps
<1>4. ASSUME NEW n \in Numbers, HandleSendReliable(n) PROVE ChannelInv'
  BY <1>4, HandleCommandKeeps DEF HandleCommand
<1>5. ASSUME NEW n \in Numbers, HandleSendFragment(n) PROVE ChannelInv'
  BY <1>5, HandleCommandKeeps DEF HandleCommand
<1>6. CASE UNCHANGED vars
  <2>1. UNCHANGED receiver /\ UNCHANGED <<queued, sent, inFlight, counts, used, acks>>
    BY <1>6 DEF vars, sender
  <2>2. ReceiverInv(Receiver)' /\ CloseBy(Receiver)' /\ Receiver' = Receiver
    BY <2>1, ReceiverSame DEF receiver, Receiver
  <2>3. SenderInv'
    BY <2>1 DEF ChannelInv, SenderInv, SenderType, WindowsCountInFlight
  <2> QED BY <2>1, <2>2, <2>3 DEF ChannelInv, NothingLate, AckedBy, Kept
<1> QED BY <1>1, <1>2, <1>3, <1>4, <1>5, <1>6 DEF Next

-----------------------------------------------------------------------------
(* The theorems.                                                              *)

\* If nothing arrives too late, both ends are in order in every reachable state,
\* whatever the sizes of the windows and the packets: numbers that come around
\* are never taken for one another.
THEOREM ChannelCorrect ==
    ASSUME DelaysFit
    PROVE  Spec => []ChannelInv
<1>1. ChannelInv /\ [Next]_vars => ChannelInv'
  BY ChannelStep
<1> QED BY <1>1, ChannelInit, PTL DEF Spec

\* Every variable keeps its type.
THEOREM ChannelTypes ==
    ASSUME DelaysFit
    PROVE  Spec => []TypeOK
<1>1. ChannelInv => TypeOK
  <2>1. SUFFICES ASSUME ChannelInv PROVE TypeOK
    OBVIOUS
  <2>2. queued \in 0 .. Len(Fragments) /\ sent \in 0 .. First[queued + 1] - 1
    BY <2>1 DEF ChannelInv
  <2>3. /\ inFlight \subseteq 1 .. sent
        /\ counts \in [WindowNumbers -> Nat]
        /\ used \subseteq WindowNumbers
    BY <2>1 DEF ChannelInv, SenderInv, SenderType
  <2>4. incoming \in 0 .. Space - 1 /\ held \subseteq Entries /\ delivered \in Seq(SUBSET Numbers)
    BY <2>1 DEF ChannelInv, ReceiverInv, ReceiverStates, Receiver
  <2>5. acks \subseteq 1 .. sent
    BY <2>1 DEF ChannelInv, NothingLate
  <2> QED BY <2>2, <2>3, <2>4, <2>5 DEF TypeOK
<1> QED BY <1>1, ChannelCorrect, PTL

\* What was acknowledged, and is never sent again, was delivered or is held.
THEOREM NothingLost ==
    ASSUME DelaysFit
    PROVE  Spec => []AckedIsKept
<1>1. ChannelInv => AckedIsKept
  <2>1. SUFFICES ASSUME ChannelInv, NEW n \in 1 .. sent \ inFlight
                 PROVE  \/ \E i \in DOMAIN delivered : n \in delivered[i]
                        \/ \E e \in held : n \in e.data
    BY DEF AckedIsKept
  <2> DEFINE k == Len(delivered)
  <2>2. k \in 0 .. Len(Fragments) /\ delivered \in Seq(SUBSET Numbers)
    BY <2>1, GivenType
  <2>3. n <= LastNumber(k) \/ \E e \in held : n \in e.data
    BY <2>1 DEF ChannelInv, AckedBy, Kept, Receiver
  <2>4. ASSUME n <= LastNumber(k)
        PROVE  \E i \in DOMAIN delivered : n \in delivered[i]
    <3>1. n \in Numbers
      <4>1. /\ k + 1 \in 1 .. Len(Fragments) + 1
            /\ Len(Fragments) + 1 \in k + 1 .. Len(Fragments) + 1
        BY <2>2, FirstSteps
      <4>2. First[k + 1] <= First[Len(Fragments) + 1]
        BY <4>1, FirstGrows
      <4>3. First[k + 1] \in Nat /\ First[Len(Fragments) + 1] \in Nat
        BY <4>1, FirstSteps
      <4>4. n \in Nat \ {0} /\ n <= First[k + 1] - 1
        BY <2>1, <2>4, GivenType DEF LastNumber
      <4> HIDE DEF k
      <4> QED BY <4>2, <4>3, <4>4 DEF Numbers
    <3>2. PICK p \in DOMAIN Fragments : n \in First[p] .. First[p + 1] - 1
      BY <3>1, PacketExists
    <3>3. p \in 1 .. k
      <4>1. p \in 1 .. Len(Fragments) /\ p \in 1 .. Len(Fragments) + 1
        BY FragmentsAssumption, FirstSteps
      <4>2. SUFFICES ASSUME p \in k + 1 .. Len(Fragments) PROVE FALSE
        BY <2>2, <4>1
      <4>3. LastNumber(k) < First[p] /\ LastNumber(k) \in Nat /\ First[p] \in Nat
        BY <2>2, <4>1, <4>2, LastNumbers, FirstSteps
      <4> QED BY <2>4, <3>2, <4>3
    <3>4. delivered[p] = Packets[p]
      BY <2>1, <3>3 DEF ChannelInv, ReceiverInv, Receiver
    <3>5. n \in delivered[p] /\ p \in DOMAIN delivered
      BY <2>2, <3>2, <3>3, <3>4, LenProperties DEF Packets
    <3> QED BY <3>5
  <2> QED BY <2>3, <2>4
<1> QED BY <1>1, ChannelCorrect, PTL

\* The sender stays within the windows that the receiver accepts, and one more:
\* a command further ahead would be acknowledged and lost.
THEOREM SenderClose ==
    ASSUME DelaysFit
    PROVE  Spec => []SenderStaysClose
<1>1. ChannelInv => SenderStaysClose
  BY GivenType DEF SenderStaysClose, Given, LastNumber, Lane
<1> QED BY <1>1, ChannelCorrect, PTL

-----------------------------------------------------------------------------
(* The channel implements the one that FifoChannel specifies.                 *)

\* The packets are a sequence of sets of commands, one for each entry of Fragments.
LEMMA PacketsShape ==
    /\ Packets \in Seq(SUBSET Numbers)
    /\ Len(Packets) = Len(Fragments)
<1>1. Len(Fragments) \in Nat /\ DOMAIN Fragments = 1 .. Len(Fragments)
  BY FragmentsAssumption
<1>2. ASSUME NEW p \in DOMAIN Fragments
      PROVE  Packets[p] \in SUBSET Numbers
  BY PacketUnique DEF Packets
<1>3. DOMAIN Packets = 1 .. Len(Fragments)
  BY <1>1 DEF Packets
<1>4. Packets \in [1 .. Len(Fragments) -> SUBSET Numbers]
  BY <1>1, <1>2 DEF Packets
<1>5. Packets \in Seq(SUBSET Numbers)
  BY <1>1, <1>4, SeqDef
<1> QED BY <1>1, <1>3, <1>5, LenProperties

DeliveredPrefix == /\ Len(delivered) \in 0 .. queued
                   /\ delivered = SubSeq(Packets, 1, Len(delivered))

\* What was delivered is the first packets of those sent.
LEMMA DeliveredFirst == ChannelInv => DeliveredPrefix
<1> SUFFICES ASSUME ChannelInv PROVE DeliveredPrefix
  OBVIOUS
<1> DEFINE k == Len(delivered)
           s == SubSeq(Packets, 1, k)
<1>1. /\ k \in 0 .. Len(Fragments) /\ delivered \in Seq(SUBSET Numbers)
      /\ Given \in Nat /\ Given <= sent /\ sent \in Nat
  BY GivenType
<1>2. k <= queued
  <2>1. queued \in 0 .. Len(Fragments) /\ sent < First[queued + 1]
        /\ First[queued + 1] \in Nat
    <3>1. queued \in 0 .. Len(Fragments) /\ sent \in 0 .. First[queued + 1] - 1
      BY DEF ChannelInv
    <3>2. queued + 1 \in 1 .. Len(Fragments) + 1
      BY <3>1, FirstSteps
    <3> QED BY <1>1, <3>1, <3>2, FirstSteps
  <2>2. SUFFICES ASSUME queued + 1 <= k PROVE FALSE
    BY <1>1, <2>1
  <2>3. queued + 1 \in 1 .. k
    BY <1>1, <2>1, <2>2
  <2>4. First[queued + 1] <= First[(queued + 1) + 1] - 1 /\ First[(queued + 1) + 1] - 1 <= Given
    BY <1>1, <2>3, LastNumbers DEF Given
  <2>5. First[(queued + 1) + 1] \in Nat
    <3>1. (queued + 1) + 1 \in 1 .. Len(Fragments) + 1
      BY <1>1, <2>1, <2>3
    <3> QED BY <3>1, FirstSteps
  <2> QED BY <1>1, <2>1, <2>4, <2>5
<1>3. delivered = s
  <2>1. \A i \in 1 .. k : Packets[i] \in SUBSET Numbers
    BY <1>1, PacketsShape, ElementOfSeq
  <2>2. 1 \in Int /\ k \in Int /\ (IF 1 <= k THEN k - 1 + 1 ELSE 0) = k
    BY <1>1
  <2>3. /\ s \in Seq(SUBSET Numbers)
        /\ Len(s) = k
        /\ \A i \in 1 .. k - 1 + 1 : s[i] = Packets[1 + i - 1]
    <3> HIDE DEF k
    <3>1. /\ s \in Seq(SUBSET Numbers)
          /\ Len(s) = (IF 1 <= k THEN k - 1 + 1 ELSE 0)
          /\ \A i \in 1 .. k - 1 + 1 : s[i] = Packets[1 + i - 1]
      BY <2>1, <2>2, SubSeqProperties
    <3> QED BY <2>2, <3>1
  <2>4. \A i \in 1 .. k : s[i] = Packets[i]
    <3> HIDE DEF s, k
    <3> TAKE i \in 1 .. k
    <3>1. i \in 1 .. k - 1 + 1 /\ 1 + i - 1 = i
      BY <1>1
    <3> QED BY <2>3, <3>1
  <2>5. \A i \in 1 .. k : delivered[i] = Packets[i]
    BY DEF ChannelInv, ReceiverInv, Receiver
  <2> HIDE DEF s
  <2> QED BY <1>1, <2>3, <2>4, <2>5, SeqEqual
<1> HIDE DEF s
<1> QED BY <1>1, <1>2, <1>3 DEF DeliveredPrefix, s

\* And after a step.
LEMMA DeliveredFirstNext == ChannelInv' => DeliveredPrefix'
BY DeliveredFirst, PTL

\* An arrival delivers what FifoChannel may deliver then, or nothing.
LEMMA HandleCommandDelivers ==
    ASSUME DelaysFit, ChannelInv, NEW n \in Numbers, HandleCommand(n)
    PROVE  Fifo!Deliver \/ UNCHANGED Fifo!vars
<1>1. ChannelInv' /\ Onward(Receiver, Receiver')
  BY HandleCommandKeeps
<1>2. queued' = queued
  BY DEF HandleCommand, HandleSendReliable, HandleSendFragment, sender
<1> DEFINE k == Len(delivered)
           j == Len(delivered')
<1>3. k \in 0 .. queued /\ delivered = SubSeq(Packets, 1, k)
  BY DeliveredFirst DEF DeliveredPrefix
<1>4. j \in 0 .. queued /\ delivered' = SubSeq(Packets, 1, j)
  BY <1>1, <1>2, DeliveredFirstNext DEF DeliveredPrefix
<1>5. k <= j
  BY <1>1 DEF Onward, Receiver
<1>6. CASE j = k
  BY <1>2, <1>3, <1>4, <1>6 DEF Fifo!vars
<1>7. CASE j # k
  <2>1. j \in k + 1 .. queued
    <3>1. queued \in Nat
      BY FirstSteps DEF ChannelInv
    <3> HIDE DEF j, k
    <3> QED BY <1>3, <1>4, <1>5, <1>7, <3>1
  <2> HIDE DEF j
  <2> QED BY <1>2, <1>4, <2>1 DEF Fifo!Deliver
<1> QED BY <1>6, <1>7

\* A step of the channel is one of FifoChannel or none.
LEMMA ChannelRefines ==
    ASSUME DelaysFit
    PROVE  ChannelInv /\ [Next]_vars => [Fifo!Next]_(Fifo!vars)
<1> SUFFICES ASSUME ChannelInv, [Next]_vars PROVE Fifo!Next \/ UNCHANGED Fifo!vars
  BY Zenon
<1>1. CASE Send
  BY <1>1, PacketsShape DEF Send, receiver, Fifo!Next, Fifo!Send
<1>2. CASE Transmit
  BY <1>2 DEF Transmit, receiver, Fifo!vars
<1>3. ASSUME NEW n \in Numbers, HandleAcknowledge(n) PROVE UNCHANGED Fifo!vars
  BY <1>3 DEF HandleAcknowledge, receiver, Fifo!vars
<1>4. ASSUME NEW n \in Numbers, HandleCommand(n)
      PROVE  Fifo!Next \/ UNCHANGED Fifo!vars
  BY <1>4, HandleCommandDelivers DEF Fifo!Next
<1>5. CASE UNCHANGED vars
  BY <1>5 DEF vars, sender, receiver, Fifo!vars
<1> QED BY <1>1, <1>2, <1>3, <1>4, <1>5 DEF Next, HandleCommand

\* If nothing arrives too late, packets are handed over once each, in order, whole
\* and unchanged: for every size and number of windows, whatever the program sends
\* and however the network loses, repeats and reorders.
THEOREM DeliversInOrder ==
    ASSUME DelaysFit
    PROVE  Spec => InOrder
<1>1. Init => Fifo!Init
  BY DEF Init, Fifo!Init
<1>2. ChannelInv /\ [Next]_vars => [Fifo!Next]_(Fifo!vars)
  BY ChannelRefines
<1> QED BY <1>1, <1>2, ChannelCorrect, PTL DEF Spec, InOrder, Fifo!Spec
=============================================================================
