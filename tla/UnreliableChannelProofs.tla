----------------------- MODULE UnreliableChannelProofs -----------------------
(* Proofs about UnreliableChannel for all values of its constants: a packet   *)
(* that is not sequenced is queued at most once, whatever its number; every   *)
(* variable keeps its type, through the loops of the receiver; a new group is *)
(* taken, whatever bits are left in the window; and, as long as no number     *)
(* under way is a lap old, the receiver's list is sorted, what is in it waits *)
(* for something, and packets of every kind come as LossyChannel promises.    *)
EXTENDS UnreliableChannel, NumberLemmas, FiniteSetTheorems, SequenceTheorems, TLAPS
-----------------------------------------------------------------------------
(* Remainders.                                                                *)

\* The number of group g, counted from a base up to a space behind it.
LEMMA LapBehind ==
    ASSUME NEW s \in Nat \ {0}, NEW g \in Nat, NEW b \in Nat, g < b, b - g < s
    PROVE  (g % s) + (IF g % s < b % s THEN s ELSE 0) >= (b % s) + s - (b - g)
<1> DEFINE p == g \div s
           q == b \div s
           m == g % s
           n == b % s
<1>1. p \in Nat /\ m \in 0 .. s - 1 /\ g = s * p + m BY Remainder
<1>2. q \in Nat /\ n \in 0 .. s - 1 /\ b = s * q + n BY Remainder
<1> SUFFICES m + (IF m < n THEN s ELSE 0) >= n + s - (b - g) OBVIOUS
<1> HIDE DEF p, q, m, n
<1>3. CASE p = q BY <1>1, <1>2, <1>3, SMT
<1>4. CASE p > q BY <1>1, <1>2, <1>4, Multiples, SMT
<1>5. CASE q > p BY <1>1, <1>2, <1>5, Multiples, SMT
<1> QED BY <1>1, <1>2, <1>3, <1>4, <1>5, SMT

\* Windows divide the space: the place in the window and the start of the window
\* are those of the group, whether taken of the group or of its number.
LEMMA WindowOfNumber ==
    ASSUME NEW w \in Nat \ {0}, NEW k \in Nat \ {0}, NEW g \in Nat
    PROVE  /\ (g % (w * k)) % w = g % w
           /\ (g - (g % w)) % (w * k) = (g % (w * k)) - (g % w)
<1> DEFINE s == w * k
           n == g % s
           a == g \div s
           i == n % w
           c == n \div w
           t == k * a + c
<1>1. s \in Nat \ {0}
  <2>1. w * k >= w * 0 + w /\ w * k \in Nat BY Multiples, SMT
  <2> QED BY <2>1, SMT
<1> HIDE DEF s
<1>2. a \in Nat /\ n \in 0 .. s - 1 /\ g = s * a + n BY <1>1, Remainder
<1>n. n \in Nat BY <1>1, <1>2, SMT
<1>3. c \in Nat /\ i \in 0 .. w - 1 /\ n = w * c + i BY <1>n, Remainder
<1> HIDE DEF a, n, c, i
<1>4. t \in Nat /\ g = w * t + i
  <2>1. s * a = w * (k * a) /\ k * a \in Nat BY <1>2, SMT DEF s
  <2>2. w * t = w * (k * a) + w * c BY <1>2, <1>3, <2>1, SMT
  <2> QED BY <1>2, <1>3, <2>1, <2>2, SMT
<1> HIDE DEF t
<1>5. g % w = i BY <1>3, <1>4, RemainderUnique
<1>6. n - i \in 0 .. s - 1
  <2>1. w * c \in Nat BY <1>3, SMT
  <2>2. n - i = w * c BY <1>3, <2>1, SMT
  <2> QED BY <1>1, <1>2, <1>3, <2>1, <2>2, SMT
<1>7. g - i = s * a + (n - i) BY <1>1, <1>2, <1>3, SMT
<1>8. (g - i) % s = n - i BY <1>1, <1>2, <1>6, <1>7, RemainderUnique
<1> QED BY <1>5, <1>8 DEF s, n, i

\* Windows do not overlap.
LEMMA WindowsApart ==
    ASSUME NEW w \in Nat \ {0}, NEW g \in Nat, NEW b \in Nat, b % w = 0
    PROVE  LET base == g - (g % w) IN
           /\ base \in Nat
           /\ g - base \in 0 .. w - 1
           /\ base % w = 0
           /\ base = b \/ base >= b + w \/ base + w <= b
<1> DEFINE p == g \div w
           q == b \div w
           m == g % w
<1>1. p \in Nat /\ m \in 0 .. w - 1 /\ g = w * p + m BY Remainder
<1>2. q \in Nat /\ b = w * q + 0 BY Remainder
<1> HIDE DEF p, q, m
<1>3. w * p \in Nat /\ g - m = w * p + 0 /\ 0 \in 0 .. w - 1 BY <1>1, SMT
<1>4. (g - m) % w = 0 BY <1>1, <1>3, RemainderUnique
<1>5. CASE p = q BY <1>2, <1>3, <1>4, <1>5, <1>1, SMT DEF m
<1>6. CASE p > q BY <1>1, <1>2, <1>3, <1>4, <1>6, Multiples, SMT DEF m
<1>7. CASE q > p BY <1>1, <1>2, <1>3, <1>4, <1>7, Multiples, SMT DEF m
<1> QED BY <1>1, <1>2, <1>5, <1>6, <1>7, SMT

-----------------------------------------------------------------------------
(* A packet that is not sequenced is queued once.                             *)

\* The commands the sender made.
Known == net \cup {outgoing[i] : i \in DOMAIN outgoing}

Typed ==
    /\ packets \in Seq(Kinds)
    /\ queued \in 0 .. Len(packets)
    /\ reliable \in Nat
    /\ unreliable \in Nat
    /\ group \in Nat
    /\ outgoing \in Seq(Commands)
    /\ net \subseteq Commands
    /\ times \in [DOMAIN packets -> Nat]

\* Groups are sent one by one, at most one with each packet.
Numbered(c) ==
    c.kind = "unsequenced" =>
        /\ c.packet <= queued
        /\ c.group <= group
        /\ group - c.group <= queued - c.packet

\* The commands of a packet are of one group.
OneGroup ==
    \A c, d \in Known :
        /\ c.kind = "unsequenced"
        /\ d.kind = "unsequenced"
        /\ c.packet = d.packet
        => c.group = d.group

\* A packet is not queued before it was sent, nor twice.
AtMostOnce ==
    \A p \in DOMAIN times : times[p] <= 1 /\ (times[p] > 0 => p <= queued)

\* The receiver's window is the one that starts at group b, which was sent, and
\* what was queued lies before it or has its bit in it.
WindowFrom(b) ==
    /\ b <= group
    /\ b % UnsequencedWindowSize = 0
    /\ incomingGroup = GroupWire(b)
    /\ \A c \in Known :
          c.kind = "unsequenced" /\ times[c.packet] > 0 =>
              /\ c.group < b + UnsequencedWindowSize
              /\ c.group >= b => c.group - b \in window

OnceInv ==
    /\ Typed
    /\ \A c \in Known : Numbered(c)
    /\ OneGroup
    /\ AtMostOnce
    /\ \E b \in Nat : WindowFrom(b)

\* The sizes are positive, and so is their product.
LEMMA Sizes ==
    /\ UnsequencedWindowSize \in Nat \ {0}
    /\ UnsequencedWindows \in Nat \ {0}
    /\ GroupSpace \in Nat \ {0}
    /\ GroupSpace = UnsequencedWindowSize * UnsequencedWindows
    /\ FreeUnsequencedWindows * UnsequencedWindowSize \in Nat
    /\ MaxDelay \in Nat
    /\ MaxDelay <= GroupSpace - FreeUnsequencedWindows * UnsequencedWindowSize
    /\ LastUnreliable \in Nat
    /\ Fragments \in Nat
<1> DEFINE w == UnsequencedWindowSize
           k == UnsequencedWindows
           f == FreeUnsequencedWindows
<1>1. w \in Nat \ {0} /\ k \in Nat \ {0} /\ f \in Nat /\ LastUnreliable \in Nat
  <2>1. {w, k, LastUnreliable} \subseteq Nat \ {0} /\ f \in 1 .. k
    BY WindowsAssumption
  <2> QED BY <2>1, SMT
<1>2. MaxDelay \in Nat /\ MaxDelay <= GroupSpace - f * w BY DelayAssumption
<1>3. Fragments \in Nat BY FragmentsAssumption
<1>4. GroupSpace = k * w BY DEF GroupSpace
<1> HIDE DEF w, k, f
<1>5. w * k \in Nat /\ w * k = k * w /\ f * w \in Nat BY <1>1, SMT
<1>6. w * k >= w * 0 + w BY <1>1, Multiples, SMT
<1>7. GroupSpace \in Nat \ {0} BY <1>1, <1>4, <1>5, <1>6, SMT
<1> QED BY <1>1, <1>2, <1>3, <1>4, <1>5, <1>7 DEF w, k, f

\* It holds in the beginning: no command was made.
LEMMA OnceInit == Init => OnceInv
<1> SUFFICES ASSUME Init PROVE OnceInv OBVIOUS
<1> DEFINE w == UnsequencedWindowSize
<1>1. PICK s \in Scenarios :
        /\ packets = s.packets
        /\ queued = 0
        /\ reliable = s.reliable
        /\ unreliable = 0
        /\ group = s.group
        /\ outgoing = <<>>
        /\ net = {}
        /\ incomingGroup = GroupWire(s.group - (s.group % w))
        /\ times = [p \in DOMAIN s.packets |-> 0]
  BY DEF Init
<1>2. s.packets \in Seq(Kinds) /\ s.reliable \in Nat /\ s.group \in Nat
  BY ScenariosAssumption
<1>3. Known = {} BY <1>1 DEF Known
<1>4. Typed
  <2>1. Len(packets) \in Nat /\ queued \in 0 .. Len(packets) BY <1>1, <1>2, SMT
  <2>2. outgoing \in Seq(Commands) BY <1>1, SMT
  <2> QED BY <1>1, <1>2, <2>1, <2>2 DEF Typed
<1>5. AtMostOnce BY <1>1, SMT DEF AtMostOnce
<1>6. WindowFrom(group - (group % w)) /\ group - (group % w) \in Nat
  <2>1. /\ group - (group % w) \in Nat
        /\ (group - (group % w)) % w = 0
    <3>1. 0 \in Nat /\ 0 % w = 0 BY Sizes, SMT
    <3>2. group \in Nat /\ w \in Nat \ {0} BY <1>1, <1>2, Sizes
    <3> HIDE DEF w
    <3> QED BY <3>1, <3>2, WindowsApart
  <2>2. group % w \in 0 .. w - 1 BY <1>1, <1>2, Sizes, Remainder
  <2>3. group - (group % w) <= group BY <1>1, <1>2, <2>2, Sizes, SMT
  <2> QED BY <1>1, <1>3, <2>1, <2>3 DEF WindowFrom
<1> QED BY <1>3, <1>4, <1>5, <1>6 DEF OnceInv, OneGroup

\* A step that leaves the window where it is.
SameWindow == \A b \in Nat : WindowFrom(b) => WindowFrom(b)'

\* A step that only takes commands away, or hands them on, and leaves the groups
\* of the receiver alone.
LEMMA OnceKept ==
    ASSUME OnceInv, outgoing' \in Seq(Commands), net' \subseteq Commands,
           Known' \subseteq Known,
           UNCHANGED <<packets, queued, numbers, groups>>
    PROVE  OnceInv' /\ SameWindow
<1>1. Typed' BY DEF OnceInv, Typed, numbers, groups
<1>2. \A c \in Known' : Numbered(c)' BY DEF OnceInv, Numbered, numbers
<1>3. OneGroup' BY DEF OnceInv, OneGroup
<1>4. AtMostOnce' BY DEF OnceInv, AtMostOnce, groups
<1>5. \A b : WindowFrom(b) => WindowFrom(b)'
  BY DEF WindowFrom, GroupWire, numbers, groups
<1> QED BY <1>1, <1>2, <1>3, <1>4, <1>5 DEF OnceInv, SameWindow

\* A packet that is sent has a later number than those sent before, and if it is
\* not sequenced, so has its group.
LEMMA OnceSent ==
    ASSUME OnceInv, Typed', queued' = queued + 1, group' \in {group, group + 1},
           UNCHANGED groups,
           \A c \in Known' : \/ c \in Known
                             \/ c.kind # "unsequenced"
                             \/ c.packet = queued + 1 /\ c.group = group + 1
                                                      /\ group' = group + 1
    PROVE  OnceInv' /\ SameWindow
<1>1. /\ Typed
      /\ queued \in Nat /\ group \in Nat
      /\ \A c \in Known : c.packet \in Nat /\ c.group \in Nat /\ Numbered(c)
  <2>1. Typed /\ \A c \in Known : Numbered(c) BY DEF OnceInv
  <2>2. Known \subseteq Commands BY <2>1 DEF Known, Typed
  <2>3. Len(packets) \in Nat BY <2>1 DEF Typed
  <2> QED BY <2>1, <2>2, <2>3, SMTT(30) DEF Typed, Commands
<1>2. \A c \in Known' : Numbered(c)' BY <1>1, SMT DEF Numbered
<1>3. OneGroup' BY <1>1, SMT DEF OnceInv, OneGroup, Numbered
<1>4. times' = times /\ window' = window /\ incomingGroup' = incomingGroup
  BY DEF groups
<1>5. AtMostOnce'
  <2>1. \A p \in DOMAIN times : p \in Nat BY <1>1, SMT DEF Typed
  <2> QED BY <1>1, <1>4, <2>1, SMT DEF OnceInv, AtMostOnce
<1>6. ASSUME NEW b \in Nat, WindowFrom(b) PROVE WindowFrom(b)'
  <2>1. b <= group' BY <1>1, <1>6, SMT DEF WindowFrom
  <2>2. ASSUME NEW c \in Known', c.kind = "unsequenced", times[c.packet] > 0
        PROVE  c \in Known
    <3>1. c.packet \in DOMAIN times
      <4>1. c \in Commands BY <2>2 DEF Known, Typed
      <4>2. Numbered(c)' BY <1>2, <2>2
      <4>3. c.packet \in 1 .. Len(packets') /\ DOMAIN times' = 1 .. Len(packets')
        BY <2>2, <4>1, <4>2, SMTT(30) DEF Numbered, Commands, Typed
      <4> QED BY <1>4, <4>3
    <3>2. c.packet <= queued BY <2>2, <3>1 DEF OnceInv, AtMostOnce
    <3> QED BY <1>1, <2>2, <3>2, SMT
  <2> QED BY <1>4, <1>6, <2>1, <2>2 DEF WindowFrom, GroupWire
<1> QED BY <1>2, <1>3, <1>5, <1>6 DEF OnceInv, SameWindow

\* A command that arrives is one that was transmitted.
LEMMA Arrived ==
    ASSUME OnceInv, NEW c \in net
    PROVE  /\ c \in Known
           /\ c.packet \in Nat /\ c.group \in Nat
           /\ Numbered(c)
           /\ queued \in Nat /\ group \in Nat
           /\ c.kind = "unsequenced" => c.packet \in DOMAIN times \/ c.packet = 0
<1>1. c \in Known BY DEF Known
<1>2. Typed /\ Numbered(c) BY <1>1 DEF OnceInv
<1>3. c.packet \in Nat \ {0} /\ c.group \in Nat BY <1>2 DEF Typed, Commands
<1>4. Len(packets) \in Nat /\ queued \in Nat BY <1>2, SMT DEF Typed
<1>5. DOMAIN times = 1 .. Len(packets) BY <1>2, SMT DEF Typed
<1>6. c.kind = "unsequenced" => c.packet \in 1 .. Len(packets)
  BY <1>2, <1>3, <1>4, SMT DEF Typed, Numbered
<1> QED BY <1>1, <1>2, <1>3, <1>4, <1>5, <1>6 DEF Typed

\* A group that is taken is in the window or beyond it: one of an earlier window
\* would have been sent too long ago.
LEMMA NotBehind ==
    ASSUME OnceInv, NEW c \in net, UnderWay(c), c.kind = "unsequenced",
           Ahead(GroupWire(c.group)), NEW b \in Nat, WindowFrom(b)
    PROVE  c.group >= b
<1> DEFINE g == c.group
           s == GroupSpace
           f == FreeUnsequencedWindows * UnsequencedWindowSize
<1> SUFFICES ASSUME g < b PROVE FALSE
  BY Arrived, SMT
<1>1. g \in Nat /\ group - g <= queued - c.packet /\ b <= group
      /\ group \in Nat /\ queued \in Nat /\ c.packet \in Nat
  BY Arrived DEF Numbered, WindowFrom
<1>2. queued - c.packet < MaxDelay BY DEF UnderWay
<1>3. s \in Nat \ {0} /\ f \in Nat /\ MaxDelay \in Nat /\ MaxDelay <= s - f
  BY Sizes
<1>4. (g % s) + (IF g % s < incomingGroup THEN s ELSE 0) < incomingGroup + f
  BY DEF Ahead, GroupWire
<1>5. incomingGroup = b % s BY DEF WindowFrom, GroupWire
<1> HIDE DEF g, s, f
<1>6. b - g < s - f BY <1>1, <1>2, <1>3, SMT
<1>7. b - g < s BY <1>1, <1>3, <1>6, SMT
<1>8. (g % s) + (IF g % s < b % s THEN s ELSE 0) >= (b % s) + s - (b - g)
  BY <1>1, <1>3, <1>7, LapBehind
<1>9. b % s \in 0 .. s - 1 /\ g % s \in 0 .. s - 1 BY <1>1, <1>3, Remainder
<1> QED BY <1>1, <1>3, <1>4, <1>5, <1>6, <1>8, <1>9, SMT

\* A group that is taken was not taken before, and the window moves to its place.
LEMMA OnceTaken ==
    ASSUME OnceInv, NEW c \in net, UnderWay(c), c.kind = "unsequenced",
           Ahead(GroupWire(c.group)),
           LET index == GroupWire(c.group) % UnsequencedWindowSize
               base == GroupWire(c.group) - index
           IN /\ index \notin WindowAt(base)
              /\ incomingGroup' = base
              /\ window' = WindowAt(base) \cup {index},
           times' = [times EXCEPT ![c.packet] = @ + 1],
           UNCHANGED sender
    PROVE  OnceInv' /\ WindowFrom(c.group - (c.group % UnsequencedWindowSize))'
<1> DEFINE w == UnsequencedWindowSize
           g == c.group
           i == g % w
           start == g - (g % w)
<1>1. /\ c \in Known
      /\ c.packet \in Nat /\ g \in Nat
      /\ g <= group /\ c.packet <= queued
      /\ queued \in Nat /\ group \in Nat
      /\ Typed
  BY Arrived DEF Numbered, OnceInv
<1>2. UNCHANGED <<packets, queued, reliable, unreliable, group, outgoing, net>>
  BY DEF sender, numbers
<1>3. Known' = Known BY <1>2 DEF Known
<1>4. \A d \in Known : d.packet \in Nat \ {0} /\ d.group \in Nat
  <2>1. Known \subseteq Commands BY <1>1 DEF Known, Typed
  <2> QED BY <2>1 DEF Commands
<1>5. c.packet \in DOMAIN times BY <1>1, <1>4, Arrived
<1>6. PICK b \in Nat : WindowFrom(b) BY DEF OnceInv
<1>7. g >= b BY <1>6, NotBehind
<1>8. /\ start \in Nat /\ i \in 0 .. w - 1 /\ g - start = i
      /\ start % w = 0
      /\ start = b \/ start >= b + w \/ start + w <= b
  <2>1. b % w = 0 /\ w \in Nat \ {0} BY <1>6, Sizes DEF WindowFrom
  <2>2. g % w \in 0 .. w - 1 BY <1>1, <2>1, Remainder
  <2>3. g - start = i BY <1>1, <2>1, <2>2, SMT
  <2> HIDE DEF g, w
  <2> QED BY <1>1, <2>1, <2>2, <2>3, WindowsApart
<1>9. /\ GroupWire(g) % w = i
      /\ GroupWire(g) - i = GroupWire(start)
  <2>1. w \in Nat \ {0} /\ UnsequencedWindows \in Nat \ {0}
        /\ GroupSpace = w * UnsequencedWindows
    BY Sizes
  <2> HIDE DEF g, w
  <2> QED BY <1>1, <2>1, WindowOfNumber DEF GroupWire
<1>10. /\ incomingGroup' = GroupWire(start)
       /\ i \notin WindowAt(GroupWire(start))
       /\ window' = WindowAt(GroupWire(start)) \cup {i}
  BY <1>9
<1>11. start >= b
  BY <1>1, <1>7, <1>8, Sizes, SMT
<1>12. times[c.packet] = 0
  <2>1. SUFFICES ASSUME times[c.packet] > 0 PROVE FALSE
    BY <1>1, <1>5, SMT DEF Typed
  <2>2. g < b + w /\ g - b \in window
    BY <1>1, <1>6, <1>7, <2>1 DEF WindowFrom
  <2>3. start = b BY <1>1, <1>8, <1>11, <2>2, Sizes, SMT
  <2>4. WindowAt(GroupWire(start)) = window BY <1>6, <2>3 DEF WindowAt, WindowFrom
  <2> QED BY <1>8, <1>10, <2>2, <2>3, <2>4
<1>13. times' \in [DOMAIN packets' -> Nat] /\ DOMAIN times' = DOMAIN times
  BY <1>1, <1>2, <1>5, SMT DEF Typed
<1>14. Typed' BY <1>1, <1>2, <1>13 DEF Typed
<1>15. \A d \in Known' : Numbered(d)' BY <1>2, <1>3 DEF OnceInv, Numbered
<1>16. OneGroup' BY <1>3 DEF OnceInv, OneGroup
<1>17. times'[c.packet] = 1 /\ \A p \in DOMAIN times \ {c.packet} : times'[p] = times[p]
  BY <1>1, <1>5, <1>12 DEF Typed
<1>18. AtMostOnce' BY <1>1, <1>2, <1>5, <1>13, <1>17, SMT DEF OnceInv, AtMostOnce
<1>19. WindowFrom(start)'
  <2>1. start <= group' BY <1>1, <1>2, <1>8, Sizes, SMT
  <2>2. ASSUME NEW d \in Known, d.kind = "unsequenced", times'[d.packet] > 0
        PROVE  d.group < start + w /\ (d.group >= start => d.group - start \in window')
    <3>1. CASE d.packet = c.packet
      <4>1. d.group = g BY <1>1, <2>2, <3>1 DEF OnceInv, OneGroup
      <4>2. g < start + w BY <1>1, <1>8, Sizes, SMT
      <4> QED BY <1>8, <1>10, <4>1, <4>2
    <3>2. CASE d.packet # c.packet
      <4>1. d.packet \in DOMAIN times /\ times[d.packet] > 0
        <5>1. Numbered(d) BY <2>2 DEF OnceInv
        <5>2. d.packet \in 1 .. Len(packets) /\ DOMAIN times = 1 .. Len(packets)
          BY <1>1, <1>4, <2>2, <5>1, SMTT(30) DEF Typed, Numbered
        <5> QED BY <1>17, <2>2, <3>2, <5>2
      <4>2. d.group < b + w /\ (d.group >= b => d.group - b \in window)
        BY <1>6, <2>2, <4>1 DEF WindowFrom
      <4>3. CASE start = b
        <5>1. WindowAt(GroupWire(start)) = window
          BY <1>6, <4>3 DEF WindowAt, WindowFrom
        <5> QED BY <1>10, <4>2, <4>3, <5>1
      <4>4. CASE start >= b + w
        BY <1>1, <1>4, <1>8, <4>2, <4>4, Sizes, SMT
      <4>5. start = b \/ start >= b + w BY <1>8, <1>11, Sizes, SMT
      <4> QED BY <4>3, <4>4, <4>5
    <3> QED BY <3>1, <3>2
  <2> QED BY <1>2, <1>3, <1>8, <1>10, <2>1, <2>2 DEF WindowFrom, GroupWire
<1> QED BY <1>8, <1>14, <1>15, <1>16, <1>18, <1>19 DEF OnceInv

\* The steps that hand commands to the network, or drop them.
LEMMA OnceTransmit == OnceInv /\ Transmit => OnceInv' /\ SameWindow
<1> SUFFICES ASSUME OnceInv, Transmit PROVE OnceInv' /\ SameWindow OBVIOUS
<1>1. outgoing \in Seq(Commands) /\ net \subseteq Commands /\ outgoing # <<>>
  BY DEF OnceInv, Typed, Transmit
<1>2. net' = net \cup {Head(outgoing)} /\ outgoing' = Tail(outgoing) BY DEF Transmit
<1>3. /\ Head(outgoing) = outgoing[1] /\ 1 \in DOMAIN outgoing
      /\ Head(outgoing) \in Commands
      /\ Tail(outgoing) \in Seq(Commands)
  BY <1>1, SMT
<1>4. \A i \in DOMAIN outgoing' : i + 1 \in DOMAIN outgoing /\ outgoing'[i] = outgoing[i + 1]
  BY <1>1, <1>2, SMT
<1>5. Known' \subseteq Known BY <1>2, <1>3, <1>4 DEF Known
<1>6. UNCHANGED <<packets, queued, numbers, groups>> BY DEF Transmit
<1> QED BY <1>1, <1>2, <1>3, <1>5, <1>6, OnceKept

\* A command that is lost keeps the invariant.
LEMMA OnceDrop == OnceInv /\ Drop => OnceInv' /\ SameWindow
<1> SUFFICES ASSUME OnceInv, Drop PROVE OnceInv' /\ SameWindow OBVIOUS
<1>1. outgoing \in Seq(Commands) /\ net' = net /\ net \subseteq Commands
  BY DEF OnceInv, Typed, Drop
<1>2. PICK k \in 1 .. Len(outgoing) : outgoing' = SubSeq(outgoing, k + 1, Len(outgoing))
  BY DEF Drop
<1>3. /\ outgoing' \in Seq(Commands)
      /\ \A i \in DOMAIN outgoing' :
            k + i \in DOMAIN outgoing /\ outgoing'[i] = outgoing[k + i]
  BY <1>1, <1>2, SMT
<1>4. Known' \subseteq Known BY <1>1, <1>3 DEF Known
<1>5. UNCHANGED <<packets, queued, numbers, groups>> BY DEF Drop
<1> QED BY <1>1, <1>3, <1>4, <1>5, OnceKept

\* The step that sends, for each kind of packet.
LEMMA OnceSend == OnceInv /\ Send => OnceInv' /\ SameWindow
<1> SUFFICES ASSUME OnceInv, Send PROVE OnceInv' /\ SameWindow OBVIOUS
<1> DEFINE kind == packets[queued + 1]
<1>1. /\ Typed /\ queued \in Nat /\ group \in Nat /\ reliable \in Nat
      /\ Len(packets) \in Nat
      /\ Fragments \in Nat /\ LastUnreliable \in Nat
  BY Sizes, SMT DEF OnceInv, Typed
<1>2. queued < Len(packets) /\ queued' = queued + 1 /\ UNCHANGED <<packets, groups>>
  BY DEF Send
<1>3. kind \in Kinds BY <1>1, <1>2, SMT DEF Typed
<1>4. \A k \in Kinds, f, l, u, n \in Nat : Command(k, f, l, u, n) \in Commands
  BY <1>1, SMT DEF Command, Commands
<1>5. ASSUME NEW count \in Nat, SendReliable(count) PROVE OnceInv' /\ SameWindow
  <2> DEFINE new == Command("reliable", reliable + 1, reliable + count, 0, 0)
  <2>1. /\ net' = net \cup {new} /\ reliable' = reliable + count
        /\ unreliable' = 0 /\ group' = group /\ outgoing' = outgoing
    BY <1>5 DEF SendReliable
  <2>2. "reliable" \in Kinds /\ reliable + 1 \in Nat /\ reliable + count \in Nat
    BY <1>1, SMT DEF Kinds
  <2>3. new \in Commands /\ new.kind # "unsequenced"
    BY <1>4, <2>2 DEF Command
  <2> HIDE DEF new
  <2>4. Typed' BY <1>1, <1>2, <2>1, <2>2, <2>3, SMT DEF Typed, groups
  <2>5. \A c \in Known' : c \in Known \/ c = new BY <2>1 DEF Known
  <2> QED BY <1>2, <2>1, <2>3, <2>4, <2>5, OnceSent
<1>6. ASSUME kind = "unsequenced", SendUnsequenced PROVE OnceInv' /\ SameWindow
  <2> DEFINE new == [Command("unsequenced", 0, 0, 0, 0) EXCEPT !.group = group + 1]
  <2>1. /\ group' = group + 1 /\ outgoing' = Append(outgoing, new)
        /\ UNCHANGED <<reliable, unreliable, net>>
    BY <1>6 DEF SendUnsequenced
  <2>2. /\ new \in Commands /\ new.packet = queued + 1 /\ new.group = group + 1
    BY <1>1, SMT DEF Command, Commands, Kinds
  <2> HIDE DEF new
  <2>3. outgoing \in Seq(Commands) BY <1>1 DEF Typed
  <2>4. /\ outgoing' \in Seq(Commands)
        /\ \A i \in DOMAIN outgoing' : outgoing'[i] = new
                \/ (i \in DOMAIN outgoing /\ outgoing'[i] = outgoing[i])
    BY <2>1, <2>2, <2>3, SMT
  <2>5. Typed' BY <1>1, <1>2, <2>1, <2>4, SMT DEF Typed, groups
  <2>6. \A c \in Known' : c \in Known \/ c = new BY <2>1, <2>4 DEF Known
  <2> QED BY <1>2, <2>1, <2>2, <2>5, <2>6, OnceSent
<1>7. ASSUME NEW count \in Nat, kind \in {"unreliable", "fragmented"},
             SendUnreliable(kind, count)
      PROVE  OnceInv' /\ SameWindow
  <2> DEFINE u == (unreliable + 1) % (LastUnreliable + 1)
             more == [f \in 1 .. count |-> Command(kind, reliable, reliable, u, f)]
  <2>1. /\ unreliable' = u /\ outgoing' = outgoing \o more
        /\ UNCHANGED <<reliable, group, net>>
    BY <1>7 DEF SendUnreliable
  <2>2. u \in Nat BY <1>1, SMT DEF Typed
  <2> HIDE DEF u
  <2>3. \A f \in 1 .. count : f \in Nat /\ more[f] = Command(kind, reliable, reliable, u, f)
    BY SMT
  <2>4. \A f \in 1 .. count : more[f] \in Commands /\ more[f].kind = kind
    BY <1>1, <1>3, <1>4, <2>2, <2>3 DEF Command
  <2>5. more \in Seq(Commands) /\ Len(more) = count /\ DOMAIN more = 1 .. count
    BY <2>4, SMT
  <2> HIDE DEF more
  <2>6. outgoing \in Seq(Commands) BY <1>1 DEF Typed
  <2>7. /\ outgoing' \in Seq(Commands)
        /\ \A i \in DOMAIN outgoing' :
              \/ i \in DOMAIN outgoing /\ outgoing'[i] = outgoing[i]
              \/ i - Len(outgoing) \in 1 .. count
                 /\ outgoing'[i] = more[i - Len(outgoing)]
    BY <2>1, <2>5, <2>6, SMT
  <2>8. Typed' BY <1>1, <1>2, <2>1, <2>2, <2>7, SMT DEF Typed, groups
  <2>9. \A c \in Known' : c \in Known \/ c.kind # "unsequenced"
    BY <1>7, <2>1, <2>4, <2>7 DEF Known
  <2> QED BY <1>2, <2>1, <2>8, <2>9, OnceSent
<1>8. 1 \in Nat OBVIOUS
<1> QED BY <1>1, <1>5, <1>6, <1>7, <1>8 DEF Send

\* The steps of the receiver.  Only a packet that is not sequenced touches the
\* groups.
LEMMA OnceReceive ==
    ASSUME OnceInv, UNCHANGED sender, UNCHANGED groups
    PROVE  OnceInv' /\ SameWindow
<1>1. UNCHANGED <<packets, queued, numbers, outgoing, net>> BY DEF sender
<1>2. outgoing' \in Seq(Commands) /\ net' \subseteq Commands
  BY <1>1 DEF OnceInv, Typed
<1>3. Known' \subseteq Known BY <1>1 DEF Known
<1> QED BY <1>1, <1>2, <1>3, OnceKept

\* An unsequenced command that arrives is taken at most once.
LEMMA OnceHandle ==
    ASSUME OnceInv, NEW c \in net, HandleSendUnsequenced(c)
    PROVE  OnceInv'
<1> DEFINE index == GroupWire(c.group) % UnsequencedWindowSize
           base == GroupWire(c.group) - index
<1>1. UnderWay(c) /\ c.kind = "unsequenced" /\ UNCHANGED sender
  BY DEF HandleSendUnsequenced
<1>2. CASE Ahead(GroupWire(c.group)) /\ index \notin WindowAt(base)
  <2>1. /\ incomingGroup' = base
        /\ window' = WindowAt(base) \cup {index}
        /\ times' = [times EXCEPT ![c.packet] = @ + 1]
    BY <1>2 DEF HandleSendUnsequenced
  <2> QED BY <1>1, <1>2, <2>1, OnceTaken
<1>3. CASE ~(Ahead(GroupWire(c.group)) /\ index \notin WindowAt(base))
  <2>1. UNCHANGED groups BY <1>3 DEF HandleSendUnsequenced
  <2> QED BY <1>1, <2>1, OnceReceive
<1> QED BY <1>2, <1>3

\* OnceInv is an invariant.
LEMMA OnceNext == OnceInv /\ [Next]_vars => OnceInv'
<1> SUFFICES ASSUME OnceInv, [Next]_vars PROVE OnceInv' OBVIOUS
<1>1. CASE Send BY <1>1, OnceSend
<1>2. CASE Transmit BY <1>2, OnceTransmit
<1>3. CASE Drop BY <1>3, OnceDrop
<1>4. ASSUME NEW c \in net, HandleReliable(c) PROVE OnceInv'
  BY <1>4, OnceReceive DEF HandleReliable
<1>5. ASSUME NEW c \in net, HandleSendUnreliable(c) PROVE OnceInv'
  BY <1>5, OnceReceive DEF HandleSendUnreliable
<1>6. ASSUME NEW c \in net, HandleSendUnreliableFragment(c) PROVE OnceInv'
  BY <1>6, OnceReceive DEF HandleSendUnreliableFragment
<1>7. ASSUME NEW c \in net, HandleSendUnsequenced(c) PROVE OnceInv'
  BY <1>7, OnceHandle
<1>8. CASE UNCHANGED vars BY <1>8, OnceReceive DEF vars
<1> QED BY <1>1, <1>2, <1>3, <1>4, <1>5, <1>6, <1>7, <1>8 DEF Next, AnyStep

\* A packet that is not sequenced is queued at most once (protocol.c:467-491).
THEOREM OnceCorrect == Spec => []UnsequencedOnce
<1>1. OnceInv => UnsequencedOnce BY DEF OnceInv, AtMostOnce, UnsequencedOnce
<1> QED BY <1>1, OnceInit, OnceNext, PTL DEF Spec

\* The space of the reliable numbers is not empty.
LEMMA SpaceSize ==
    /\ ReliableWindowSize \in Nat \ {0} /\ ReliableWindows \in Nat \ {0}
    /\ Space \in Nat \ {0} /\ LastUnreliable \in Nat
    /\ Space = ReliableWindowSize * ReliableWindows
<1> DEFINE w == ReliableWindowSize
           k == ReliableWindows
<1>1. w \in Nat \ {0} /\ k \in Nat \ {0} /\ LastUnreliable \in Nat
  BY WindowsAssumption
<1>2. Space = k * w
  BY DEF Space
<1> HIDE DEF w, k
<1>3. w * k \in Nat /\ w * k = k * w
  BY <1>1, SMT
<1>4. w * k >= w * 0 + w
  BY <1>1, Multiples, SMT
<1>5. Space \in Nat \ {0}
  BY <1>1, <1>2, <1>3, <1>4, SMT
<1> QED BY <1>1, <1>2, <1>3, <1>5 DEF w, k

-----------------------------------------------------------------------------
(* The list of what was received.                                             *)

Entries == [kind : Kinds, reliable : 0 .. Space - 1, unreliable : 0 .. LastUnreliable,
            count : Nat, data : SUBSET Parts]

\* The loop stops at the first packet that waits, or at the end.
StopsAt(stop, list, last) ==
    /\ stop \in 1 .. Len(list) + 1
    /\ stop <= Len(list) => Waits(list[stop], last)
    /\ \A j \in 1 .. stop - 1 : ~ Waits(list[j], last)

\* There is such a place.
LEMMA StopExists ==
    ASSUME NEW S, NEW list \in Seq(S), NEW last
    PROVE  StopsAt(StopAt(list, last), list, last)
<1> DEFINE n == Len(list)
           T == {i \in 1 .. n + 1 : i <= n => Waits(list[i], last)}
<1>1. n \in Nat
  OBVIOUS
<1>2. T \subseteq Nat /\ n + 1 \in T
  BY <1>1
<1> HIDE DEF n
<1>3. PICK x \in T : \A y \in T : x <= y
  <2> HIDE DEF T
  <2> QED BY <1>2, Least
<1>4. x \in 1 .. n + 1 /\ (x <= n => Waits(list[x], last))
  OBVIOUS
<1>5. ASSUME NEW j \in 1 .. x - 1
      PROVE  ~ Waits(list[j], last)
  <2>1. j \in 1 .. n /\ j < x
    BY <1>1, <1>4
  <2>2. j \notin T
    <3> HIDE DEF T
    <3> QED BY <1>3, <2>1, <1>1, <1>4
  <2> QED BY <1>1, <2>1, <2>2
<1>6. \E i \in 1 .. n + 1 : /\ i <= n => Waits(list[i], last)
                            /\ \A j \in 1 .. i - 1 : ~ Waits(list[j], last)
  BY <1>4, <1>5
<1> QED BY <1>6 DEF StopAt, StopsAt, n

\* What the list keeps starts at one of its places, at the stop or up to two before;
\* what is kept before the stop is unfinished.
LEMMA KeptFromPlace ==
    ASSUME NEW list, NEW last, NEW stop \in Nat \ {0}
    PROVE  LET k == KeptFrom(list, stop, last) IN
           /\ k \in 1 .. stop
           /\ \A i \in k .. stop - 1 : Unfinished(list[i], last)
BY DEF KeptFrom

\* The packets moved by one call and the unreliable number they leave.
MovedStates == [moved : Seq(SUBSET Parts), unreliable : 0 .. LastUnreliable]

\* The rounds of the loop that moves packets.
MovedRounds(after, list, stop, last, lastUnreliable) ==
    /\ after[0] = [moved |-> <<>>, unreliable |-> lastUnreliable]
    /\ \A i \in 1 .. stop - 1 : after[i] = NextMoved(after[i - 1], list[i], last)
    /\ Moved(list, stop, last, lastUnreliable) = after[stop - 1]

\* A round keeps the types.
LEMMA NextMovedType ==
    ASSUME NEW so \in MovedStates, NEW e \in Entries, NEW last
    PROVE  NextMoved(so, e, last) \in MovedStates
<1>1. /\ so.moved \in Seq(SUBSET Parts) /\ so.unreliable \in 0 .. LastUnreliable
      /\ e.data \in SUBSET Parts /\ e.unreliable \in 0 .. LastUnreliable
  BY DEF MovedStates, Entries
<1>2. Append(so.moved, e.data) \in Seq(SUBSET Parts)
  BY <1>1
<1> QED BY <1>1, <1>2 DEF NextMoved, MovedStates

\* The loop goes through rounds of that type.
LEMMA MovedLoop ==
    ASSUME NEW list \in Seq(Entries), NEW stop \in 1 .. Len(list) + 1, NEW last,
           NEW lastUnreliable \in 0 .. LastUnreliable
    PROVE  \E after \in [0 .. stop - 1 -> MovedStates] :
              MovedRounds(after, list, stop, last, lastUnreliable)
<1> DEFINE n == stop - 1
           first == [moved |-> <<>>, unreliable |-> lastUnreliable]
           next == [i \in 1 .. n |-> [so \in MovedStates |-> NextMoved(so, list[i], last)]]
           after[i \in 0 .. n] ==
              IF i = 0 THEN [moved |-> <<>>, unreliable |-> lastUnreliable]
              ELSE NextMoved(after[i - 1], list[i], last)
<1>1. n \in Nat /\ \A i \in 1 .. n : list[i] \in Entries
  OBVIOUS
<1>2. first \in MovedStates
  BY DEF MovedStates
<1>3. next \in StepsOn(MovedStates, n)
  <2> HIDE DEF n
  <2> QED BY <1>1, NextMovedType DEF StepsOn
<1>4. PICK f : Iterates(f, MovedStates, n, next, first)
  <2> HIDE DEF next, n, first
  <2> QED BY <1>1, <1>2, <1>3, Iteration
<1>5. f \in [0 .. n -> MovedStates] /\ f[0] = first
  BY <1>4 DEF Iterates
<1>6. ASSUME NEW i \in 1 .. n
      PROVE  f[i] = NextMoved(f[i - 1], list[i], last)
  <2>1. f[i] = next[i][f[i - 1]] /\ f[i - 1] \in MovedStates
    BY <1>1, <1>4, <1>5 DEF Iterates
  <2>2. \A so \in MovedStates : next[i][so] = NextMoved(so, list[i], last)
    OBVIOUS
  <2> HIDE DEF next
  <2> QED BY <2>1, <2>2
<1>7. f = [i \in 0 .. n |->
              IF i = 0 THEN [moved |-> <<>>, unreliable |-> lastUnreliable]
              ELSE NextMoved(f[i - 1], list[i], last)]
  <2> HIDE DEF n
  <2>1. \A i \in 0 .. n : i = 0 \/ i \in 1 .. n
    BY <1>1
  <2> QED BY <1>5, <1>6, <2>1
<1>8. after = [i \in 0 .. n |->
                  IF i = 0 THEN [moved |-> <<>>, unreliable |-> lastUnreliable]
                  ELSE NextMoved(after[i - 1], list[i], last)]
  <2> HIDE DEF n
  <2> QED BY <1>7, Zenon DEF after
<1>9. /\ after[0] = first
      /\ \A i \in 1 .. n : after[i] = NextMoved(after[i - 1], list[i], last)
  <2> HIDE DEF after, n
  <2>1. \A i \in 1 .. n : i \in 0 .. n /\ i # 0
    BY <1>1
  <2>2. 0 \in 0 .. n
    BY <1>1
  <2> QED BY <1>8, <2>1, <2>2
<1>10. Moved(list, stop, last, lastUnreliable) = after[n]
  BY DEF Moved
<1>11. \A i \in 0 .. n : after[i] \in MovedStates
  <2> HIDE DEF after, n
  <2>1. \A i \in 1 .. n : after[i - 1] \in MovedStates => after[i] \in MovedStates
    BY <1>1, <1>9, NextMovedType
  <2> QED BY <1>1, <1>2, <1>9, <2>1, LoopInvariant
<1>12. after \in [0 .. n -> MovedStates]
  <2> HIDE DEF after, n
  <2> QED BY <1>8, <1>11
<1> HIDE DEF after
<1> QED BY <1>9, <1>10, <1>12 DEF MovedRounds

\* One call keeps the types of the list and of what it gives out.
LEMMA DispatchType ==
    ASSUME NEW list \in Seq(Entries), NEW last, NEW lastUnreliable \in 0 .. LastUnreliable
    PROVE  LET result == DispatchUnreliable(list, last, lastUnreliable) IN
           /\ result.list \in Seq(Entries)
           /\ result.moved \in Seq(SUBSET Parts)
           /\ result.unreliable \in 0 .. LastUnreliable
<1> DEFINE stop == StopAt(list, last)
           k == KeptFrom(list, stop, last)
           ready == Moved(list, stop, last, lastUnreliable)
<1>1. Len(list) \in Nat /\ stop \in 1 .. Len(list) + 1
  BY StopExists DEF StopsAt
<1> HIDE DEF stop
<1>2. k \in 1 .. stop
  <2>1. stop \in Nat \ {0}
    BY <1>1
  <2> QED BY <2>1, KeptFromPlace
<1> HIDE DEF k
<1>3. SubSeq(list, k, Len(list)) \in Seq(Entries)
  <2>1. k \in 1 .. Len(list) + 1
    BY <1>1, <1>2
  <2> QED BY <2>1
<1>4. ready \in MovedStates
  <2>1. PICK after \in [0 .. stop - 1 -> MovedStates] :
              MovedRounds(after, list, stop, last, lastUnreliable)
    BY <1>1, MovedLoop
  <2>2. stop - 1 \in 0 .. stop - 1
    BY <1>1
  <2> QED BY <2>1, <2>2 DEF MovedRounds
<1> HIDE DEF ready
<1>5. ready.moved \in Seq(SUBSET Parts) /\ ready.unreliable \in 0 .. LastUnreliable
  BY <1>4 DEF MovedStates
<1>6. DispatchUnreliable(list, last, lastUnreliable)
         = [list |-> SubSeq(list, k, Len(list)), moved |-> ready.moved,
            unreliable |-> ready.unreliable]
  BY DEF DispatchUnreliable, k, stop, ready
<1> QED BY <1>3, <1>5, <1>6

\* Where an entry goes, or the one it is a copy of.
PlacedAt(i, r, u) ==
    /\ i \in 0 .. Len(entries)
    /\ i > 0 => Sooner(entries[i], r, u) \/ Same(entries[i], r, u)
    /\ \A j \in i + 1 .. Len(entries) :
          ~Sooner(entries[j], r, u) /\ ~Same(entries[j], r, u)

\* There is such a place.
LEMMA PlaceExists ==
    ASSUME NEW S, entries \in Seq(S), NEW r, NEW u
    PROVE  PlacedAt(Place(r, u), r, u)
<1> DEFINE n == Len(entries)
           T == {i \in 0 .. n : i > 0 => Sooner(entries[i], r, u) \/ Same(entries[i], r, u)}
<1>1. n \in Nat
  OBVIOUS
<1>2. T \subseteq 0 .. n /\ 0 \in T
  BY <1>1
<1> HIDE DEF n
<1>3. PICK x \in T : \A y \in T : y <= x
  <2> HIDE DEF T
  <2> QED BY <1>1, <1>2, Greatest
<1>4. x \in 0 .. n /\ (x > 0 => Sooner(entries[x], r, u) \/ Same(entries[x], r, u))
  OBVIOUS
<1>5. ASSUME NEW j \in x + 1 .. n
      PROVE  ~Sooner(entries[j], r, u) /\ ~Same(entries[j], r, u)
  <2>1. j \in 0 .. n /\ j > x /\ j > 0
    BY <1>1, <1>4
  <2>2. j \notin T
    <3> HIDE DEF T
    <3> QED BY <1>3, <2>1, <1>1, <1>4
  <2> QED BY <2>1, <2>2
<1>6. \E i \in 0 .. n : /\ i > 0 => Sooner(entries[i], r, u) \/ Same(entries[i], r, u)
                        /\ \A j \in i + 1 .. n :
                              ~Sooner(entries[j], r, u) /\ ~Same(entries[j], r, u)
  BY <1>4, <1>5
<1> QED BY <1>6 DEF Place, PlacedAt, n

\* A new entry leaves the others in their order.
LEMMA InsertedType ==
    ASSUME entries \in Seq(Entries), NEW e \in Entries
    PROVE  Inserted(e) \in Seq(Entries)
<1> DEFINE i == Place(e.reliable, e.unreliable)
<1>1. Len(entries) \in Nat /\ i \in 0 .. Len(entries)
  BY PlaceExists DEF PlacedAt
<1> HIDE DEF i
<1>2. SubSeq(entries, 1, i) \in Seq(Entries) /\ SubSeq(entries, i + 1, Len(entries)) \in Seq(Entries)
  BY <1>1
<1>3. <<e>> \in Seq(Entries)
  OBVIOUS
<1>4. SubSeq(entries, 1, i) \o <<e>> \o SubSeq(entries, i + 1, Len(entries)) \in Seq(Entries)
  BY <1>2, <1>3
<1> QED BY <1>4 DEF Inserted, i

-----------------------------------------------------------------------------
(* The reliable packets that were received.                                   *)

\* The rounds of the loop that gives them out.
GivenStates == [incoming : 0 .. Space - 1, given : Seq(SUBSET Parts),
                held : {s \in SUBSET Commands : IsFiniteSet(s)}]

\* A round keeps the types.
LEMMA NextGivenType ==
    ASSUME NEW so \in GivenStates
    PROVE  NextGiven(so) \in GivenStates
<1>1. CASE NextOf(so) = {}
  BY <1>1 DEF NextGiven
<1>2. CASE NextOf(so) # {}
  <2> DEFINE h == CHOOSE h \in NextOf(so) : TRUE
  <2>1. h \in NextOf(so)
    BY <1>2
  <2>2. NextGiven(so) = [incoming |-> Wire(h.last),
                         given |-> Append(so.given, {<<h.packet, 0>>}),
                         held |-> so.held \ {h}]
    BY <1>2 DEF NextGiven
  <2> HIDE DEF h
  <2>3. /\ h \in Commands /\ so.given \in Seq(SUBSET Parts)
        /\ so.held \subseteq Commands /\ IsFiniteSet(so.held)
    BY <2>1 DEF NextOf, GivenStates
  <2>4. Wire(h.last) \in 0 .. Space - 1
    BY <2>3, SpaceSize, Remainder DEF Wire, Commands
  <2>5. {<<h.packet, 0>>} \in SUBSET Parts
    BY <2>3 DEF Commands, Parts
  <2>6. Append(so.given, {<<h.packet, 0>>}) \in Seq(SUBSET Parts)
    BY <2>3, <2>5
  <2>7. IsFiniteSet(so.held \ {h}) /\ so.held \ {h} \subseteq Commands
    BY <2>3, FS_RemoveElement
  <2> QED BY <2>2, <2>4, <2>6, <2>7 DEF GivenStates
<1> QED BY <1>1, <1>2

\* The receiver before the loop.
Holding(held) == [incoming |-> incoming, given |-> <<>>, held |-> held]

\* The rounds of the loop.
GivenRounds(after, held) ==
    /\ after[0] = Holding(held)
    /\ \A k \in 1 .. Cardinality(held) : after[k] = NextGiven(after[k - 1])
    /\ Given(held) = after[Cardinality(held)]

\* The loop goes through rounds of that type.
LEMMA GivenLoop ==
    ASSUME NEW held, Holding(held) \in GivenStates
    PROVE  /\ Cardinality(held) \in Nat
           /\ \E after \in [0 .. Cardinality(held) -> GivenStates] : GivenRounds(after, held)
<1> DEFINE n == Cardinality(held)
           first == Holding(held)
           next == [so \in GivenStates |-> NextGiven(so)]
           after[k \in 0 .. n] ==
              IF k = 0 THEN [incoming |-> incoming, given |-> <<>>, held |-> held]
              ELSE NextGiven(after[k - 1])
<1>1. n \in Nat
  <2>1. IsFiniteSet(held)
    BY DEF Holding, GivenStates
  <2> QED BY <2>1, FS_CardinalityType
<1>3. next \in [GivenStates -> GivenStates]
  BY NextGivenType
<1>4. PICK f : Repeats(f, GivenStates, n, next, first)
  <2> HIDE DEF next, n, first
  <2> QED BY <1>1, <1>3, Repetition DEF first
<1>5. f \in [0 .. n -> GivenStates] /\ f[0] = first
  BY <1>4 DEF Repeats
<1>6. ASSUME NEW k \in 1 .. n
      PROVE  f[k] = NextGiven(f[k - 1])
  <2>1. f[k] = next[f[k - 1]] /\ f[k - 1] \in GivenStates
    BY <1>1, <1>4, <1>5 DEF Repeats
  <2> QED BY <2>1
<1>7. f = [k \in 0 .. n |->
              IF k = 0 THEN [incoming |-> incoming, given |-> <<>>, held |-> held]
              ELSE NextGiven(f[k - 1])]
  <2> HIDE DEF n
  <2>1. \A k \in 0 .. n : k = 0 \/ k \in 1 .. n
    BY <1>1
  <2> QED BY <1>5, <1>6, <2>1 DEF Holding
<1>8. after = [k \in 0 .. n |->
                  IF k = 0 THEN [incoming |-> incoming, given |-> <<>>, held |-> held]
                  ELSE NextGiven(after[k - 1])]
  <2> HIDE DEF n
  <2> QED BY <1>7, Zenon DEF after
<1>9. /\ after[0] = first
      /\ \A k \in 1 .. n : after[k] = NextGiven(after[k - 1])
  <2> HIDE DEF after, n
  <2>1. \A k \in 1 .. n : k \in 0 .. n /\ k # 0
    BY <1>1
  <2>2. 0 \in 0 .. n
    BY <1>1
  <2> QED BY <1>8, <2>1, <2>2 DEF Holding
<1>10. Given(held) = after[n]
  BY DEF Given
<1>11. \A k \in 0 .. n : after[k] \in GivenStates
  <2> HIDE DEF after, n
  <2>1. \A k \in 1 .. n : after[k - 1] \in GivenStates => after[k] \in GivenStates
    BY <1>9, NextGivenType
  <2> QED BY <1>1, <1>9, <2>1, LoopInvariant
<1>12. after \in [0 .. n -> GivenStates]
  <2> HIDE DEF after, n
  <2> QED BY <1>8, <1>11
<1> HIDE DEF after
<1> QED BY <1>1, <1>9, <1>10, <1>12 DEF GivenRounds

-----------------------------------------------------------------------------
(* Every variable keeps its type.                                             *)

\* The unreliable numbers, made and received, are those of a field.
UnreliableNumbers ==
    /\ unreliable \in 0 .. LastUnreliable
    /\ \A c \in Known : c.unreliable \in 0 .. LastUnreliable

ReceiverTyped ==
    /\ incoming \in 0 .. Space - 1
    /\ incomingUnreliable \in 0 .. LastUnreliable
    /\ heldReliable \subseteq Commands /\ IsFiniteSet(heldReliable)
    /\ entries \in Seq(Entries)
    /\ dispatched \in Seq(SUBSET Parts)
    /\ dangling \in BOOLEAN

GroupsTyped ==
    /\ incomingGroup \in 0 .. GroupSpace - 1
    /\ window \subseteq 0 .. UnsequencedWindowSize - 1

TypeInv == OnceInv /\ UnreliableNumbers /\ ReceiverTyped /\ GroupsTyped

\* It says of every variable what TypeOK says.
LEMMA TypeInvTypes == TypeInv => TypeOK
<1> SUFFICES ASSUME TypeInv PROVE TypeOK
  OBVIOUS
<1>1. Typed /\ UnreliableNumbers /\ ReceiverTyped /\ GroupsTyped
  BY DEF TypeInv, OnceInv
<1>2. <<reliable, group>> \in Nat \X Nat
  BY <1>1 DEF Typed
<1> QED BY <1>1, <1>2 DEF TypeOK, Typed, UnreliableNumbers, ReceiverTyped, GroupsTyped, Entries

\* A channel just opened is of these types.
LEMMA TypeInit == Init => TypeInv
<1> SUFFICES ASSUME Init PROVE TypeInv
  OBVIOUS
<1> DEFINE w == UnsequencedWindowSize
<1>1. PICK s \in Scenarios :
        /\ unreliable = 0
        /\ outgoing = <<>>
        /\ net = {}
        /\ incoming = Wire(s.reliable)
        /\ incomingUnreliable = 0
        /\ heldReliable = {}
        /\ entries = <<>>
        /\ incomingGroup = GroupWire(s.group - (s.group % w))
        /\ window = {i \in 0 .. s.group % w : s.group + i > s.group % w}
        /\ dispatched = <<>>
        /\ dangling = FALSE
  BY DEF Init
<1>2. s.reliable \in Nat /\ s.group \in Nat
  BY ScenariosAssumption
<1>3. /\ w \in Nat \ {0} /\ GroupSpace \in Nat \ {0} /\ LastUnreliable \in Nat
      /\ Space \in Nat \ {0}
  BY Sizes, SpaceSize
<1> HIDE DEF w
<1>4. s.group % w \in 0 .. w - 1 /\ s.group - (s.group % w) \in Nat
  <2>1. s.group % w \in 0 .. w - 1 /\ s.group % w \in Nat /\ s.group % w <= s.group
    BY <1>2, <1>3, Remainder, QuotientBounds
  <2> QED BY <1>2, <2>1
<1>5. GroupsTyped
  <2>1. incomingGroup \in 0 .. GroupSpace - 1
    BY <1>1, <1>3, <1>4, Remainder DEF GroupWire
  <2>2. window \subseteq 0 .. w - 1
    BY <1>1, <1>3, <1>4
  <2> QED BY <2>1, <2>2 DEF GroupsTyped, w
<1>6. UnreliableNumbers
  BY <1>1, <1>3 DEF UnreliableNumbers, Known
<1>7. ReceiverTyped
  <2>1. incoming \in 0 .. Space - 1
    BY <1>1, <1>2, <1>3, Remainder DEF Wire
  <2>2. heldReliable \subseteq Commands /\ IsFiniteSet(heldReliable)
    BY <1>1, FS_EmptySet
  <2>3. entries \in Seq(Entries) /\ dispatched \in Seq(SUBSET Parts)
    BY <1>1
  <2>4. incomingUnreliable \in 0 .. LastUnreliable
    BY <1>1, <1>3
  <2>5. dangling \in BOOLEAN
    BY <1>1, Zenon
  <2> QED BY <2>1, <2>2, <2>3, <2>4, <2>5 DEF ReceiverTyped
<1> QED BY <1>5, <1>6, <1>7, OnceInit DEF TypeInv

\* What arrived as an entry of the list.
LEMMA EntryType ==
    ASSUME TypeInv, NEW c \in net, NEW count \in Nat
    PROVE  Entry(c, count) \in Entries
<1>1. c \in Commands /\ c \in Known /\ c.unreliable \in 0 .. LastUnreliable
  <2>1. c \in Known
    BY DEF Known
  <2> QED BY <2>1 DEF TypeInv, OnceInv, Typed, UnreliableNumbers
<1>2. Wire(c.reliable) \in 0 .. Space - 1
  BY <1>1, SpaceSize, Remainder DEF Wire, Commands
<1>3. {<<c.packet, c.fragment>>} \in SUBSET Parts
  BY <1>1 DEF Commands, Parts
<1> QED BY <1>1, <1>2, <1>3 DEF Entry, Entries, Commands

\* The dispatch leaves the receiver of its types.
LEMMA DispatchFromType ==
    ASSUME ReceiverTyped, NEW list \in Seq(Entries), DispatchFrom(list),
           UNCHANGED <<incoming, heldReliable>>, dangling' \in BOOLEAN
    PROVE  ReceiverTyped'
<1> DEFINE result == DispatchUnreliable(list, incoming, incomingUnreliable)
<1>1. /\ result.list \in Seq(Entries)
      /\ result.moved \in Seq(SUBSET Parts)
      /\ result.unreliable \in 0 .. LastUnreliable
  BY DispatchType DEF ReceiverTyped
<1>2. /\ entries' = result.list /\ incomingUnreliable' = result.unreliable
      /\ dispatched' = dispatched \o result.moved
  BY DEF DispatchFrom
<1> HIDE DEF result
<1>3. dispatched' \in Seq(SUBSET Parts)
  BY <1>1, <1>2 DEF ReceiverTyped
<1> QED BY <1>1, <1>2, <1>3 DEF ReceiverTyped

\* A step of the receiver makes no commands.
LEMMA NumbersKept ==
    ASSUME TypeInv, UNCHANGED sender
    PROVE  UnreliableNumbers'
BY DEF TypeInv, UnreliableNumbers, sender, numbers, Known

\* An unreliable packet that arrives.
LEMMA UnreliableType ==
    ASSUME TypeInv, NEW c \in net, HandleSendUnreliable(c)
    PROVE  ReceiverTyped' /\ GroupsTyped' /\ UNCHANGED sender
<1>1. /\ UNCHANGED sender /\ UNCHANGED groups
      /\ UNCHANGED <<incoming, heldReliable, dangling>>
      /\ ReceiverTyped /\ GroupsTyped
  BY DEF HandleSendUnreliable, TypeInv
<1>2. GroupsTyped'
  BY <1>1 DEF GroupsTyped, groups
<1>3. CASE Expected(Wire(c.reliable), c.unreliable) /\ ~Found(Wire(c.reliable), c.unreliable)
  <2>1. DispatchFrom(Inserted(Entry(c, 1)))
    BY <1>3 DEF HandleSendUnreliable
  <2>2. Inserted(Entry(c, 1)) \in Seq(Entries)
    BY <1>1, EntryType, InsertedType DEF ReceiverTyped
  <2>3. dangling' \in BOOLEAN
    BY <1>1 DEF ReceiverTyped
  <2> QED BY <1>1, <1>2, <2>1, <2>2, <2>3, DispatchFromType
<1>4. CASE ~ (Expected(Wire(c.reliable), c.unreliable) /\ ~Found(Wire(c.reliable), c.unreliable))
  <2>1. UNCHANGED <<entries, incomingUnreliable, dispatched>>
    BY <1>4 DEF HandleSendUnreliable
  <2> QED BY <1>1, <1>2, <2>1 DEF ReceiverTyped
<1> QED BY <1>3, <1>4

\* A fragment that arrives, of a packet that is new or found.
LEMMA FragmentType ==
    ASSUME TypeInv, NEW c \in net, HandleSendUnreliableFragment(c)
    PROVE  ReceiverTyped' /\ GroupsTyped' /\ UNCHANGED sender
<1> DEFINE r == Wire(c.reliable)
           u == c.unreliable
           i == Place(r, u)
           new == Entry(c, Fragments)
           e == [entries[i] EXCEPT !.data = @ \cup new.data]
           list == [entries EXCEPT ![i] = e]
<1>1. /\ UNCHANGED sender /\ UNCHANGED groups
      /\ UNCHANGED <<incoming, heldReliable>>
      /\ ReceiverTyped /\ GroupsTyped
  BY DEF HandleSendUnreliableFragment, TypeInv
<1>2. GroupsTyped'
  BY <1>1 DEF GroupsTyped, groups
<1>3. new \in Entries
  BY EntryType, Sizes
<1>4. CASE ~Expected(r, u)
  <2>1. UNCHANGED <<entries, incomingUnreliable, dispatched, dangling>>
    BY <1>4 DEF HandleSendUnreliableFragment
  <2> QED BY <1>1, <1>2, <2>1 DEF ReceiverTyped
<1>5. CASE Expected(r, u) /\ ~Found(r, u)
  <2>1. DispatchFrom(Inserted(new)) /\ dangling' \in BOOLEAN
    BY <1>1, <1>5 DEF HandleSendUnreliableFragment, ReceiverTyped
  <2>2. Inserted(new) \in Seq(Entries)
    BY <1>1, <1>3, InsertedType DEF ReceiverTyped
  <2> QED BY <1>1, <1>2, <2>1, <2>2, DispatchFromType
<1>6. CASE Expected(r, u) /\ Found(r, u)
  <2>1. i \in 1 .. Len(entries)
    <3>1. i > 0 /\ i \in 0 .. Len(entries) /\ Len(entries) \in Nat
      BY <1>1, <1>6, PlaceExists DEF Found, PlacedAt, ReceiverTyped
    <3> QED BY <3>1
  <2> HIDE DEF i
  <2>2. entries \in Seq(Entries) /\ entries[i] \in Entries
    BY <1>1, <2>1 DEF ReceiverTyped
  <2>3. e \in Entries
    <3>1. new.data \in SUBSET Parts
      BY <1>3 DEF Entries
    <3> HIDE DEF new
    <3> QED BY <2>2, <3>1 DEF Entries
  <2> HIDE DEF e
  <2>4. list \in Seq(Entries)
    BY <2>1, <2>2, <2>3
  <2> HIDE DEF list
  <2>5. dangling' \in BOOLEAN
    BY <1>1, <1>6 DEF HandleSendUnreliableFragment, ReceiverTyped, r, u
  <2>6. \/ DispatchFrom(list)
        \/ entries' \in {list, entries} /\ UNCHANGED <<incomingUnreliable, dispatched>>
    BY <1>6 DEF HandleSendUnreliableFragment, list, e, i, new, r, u
  <2>7. CASE DispatchFrom(list)
    BY <1>1, <1>2, <2>4, <2>5, <2>7, DispatchFromType
  <2>8. CASE entries' \in {list, entries} /\ UNCHANGED <<incomingUnreliable, dispatched>>
    BY <1>1, <1>2, <2>2, <2>4, <2>5, <2>8 DEF ReceiverTyped
  <2> QED BY <2>6, <2>7, <2>8
<1> QED BY <1>4, <1>5, <1>6

\* A reliable packet that arrives, with those it was waited for.
LEMMA ReliableType ==
    ASSUME TypeInv, NEW c \in net, HandleReliable(c)
    PROVE  ReceiverTyped' /\ GroupsTyped' /\ UNCHANGED sender
<1> DEFINE held == heldReliable \cup {c}
           final == Given(held)
           result == DispatchUnreliable(entries, final.incoming, 0)
<1>1. /\ UNCHANGED sender /\ UNCHANGED groups /\ dangling' = dangling
      /\ ReceiverTyped /\ GroupsTyped
      /\ heldReliable' = final.held /\ incoming' = final.incoming
      /\ \/ UNCHANGED <<entries, incomingUnreliable, dispatched>>
         \/ /\ entries' = result.list
            /\ incomingUnreliable' = result.unreliable
            /\ dispatched' = dispatched \o final.given \o result.moved
  BY DEF HandleReliable, TypeInv
<1>2. GroupsTyped'
  BY <1>1 DEF GroupsTyped, groups
<1>3. held \subseteq Commands /\ IsFiniteSet(held)
  BY <1>1, FS_AddElement DEF ReceiverTyped, TypeInv, OnceInv, Typed
<1>4. Holding(held) \in GivenStates
  <2>1. held \in {s \in SUBSET Commands : IsFiniteSet(s)}
    BY <1>3
  <2>2. <<>> \in Seq(SUBSET Parts) /\ incoming \in 0 .. Space - 1
    BY <1>1 DEF ReceiverTyped
  <2> HIDE DEF held
  <2> QED BY <2>1, <2>2 DEF Holding, GivenStates
<1> HIDE DEF held
<1>5. final \in GivenStates
  <2>1. Cardinality(held) \in Nat
    BY <1>4, GivenLoop
  <2>2. PICK after \in [0 .. Cardinality(held) -> GivenStates] : GivenRounds(after, held)
    BY <1>4, GivenLoop
  <2>3. Cardinality(held) \in 0 .. Cardinality(held)
    BY <2>1
  <2> QED BY <2>2, <2>3 DEF GivenRounds
<1>6. /\ final.incoming \in 0 .. Space - 1 /\ final.given \in Seq(SUBSET Parts)
      /\ final.held \subseteq Commands /\ IsFiniteSet(final.held)
  BY <1>5 DEF GivenStates
<1> HIDE DEF final
<1>7. /\ result.list \in Seq(Entries)
      /\ result.moved \in Seq(SUBSET Parts)
      /\ result.unreliable \in 0 .. LastUnreliable
  <2>1. 0 \in 0 .. LastUnreliable
    BY SpaceSize
  <2> QED BY <1>1, <2>1, DispatchType DEF ReceiverTyped
<1> HIDE DEF result
<1>8. dispatched \o final.given \o result.moved \in Seq(SUBSET Parts)
  BY <1>1, <1>6, <1>7 DEF ReceiverTyped
<1> QED BY <1>1, <1>2, <1>6, <1>7, <1>8 DEF ReceiverTyped

\* A packet that is not sequenced.
LEMMA UnsequencedType ==
    ASSUME TypeInv, NEW c \in net, HandleSendUnsequenced(c)
    PROVE  ReceiverTyped' /\ GroupsTyped' /\ UNCHANGED sender
<1> DEFINE v == GroupWire(c.group)
           index == v % UnsequencedWindowSize
           base == v - index
<1>1. /\ UNCHANGED sender /\ UNCHANGED <<incoming, heldReliable, dangling>>
      /\ ReceiverTyped /\ GroupsTyped
  BY DEF HandleSendUnsequenced, TypeInv
<1>2. CASE Ahead(v) /\ index \notin WindowAt(base)
  <2>1. /\ incomingGroup' = base
        /\ window' = WindowAt(base) \cup {index}
        /\ DispatchFrom(<<Entry(c, 0)>> \o entries)
    BY <1>2 DEF HandleSendUnsequenced
  <2>2. v \in 0 .. GroupSpace - 1 /\ v \in Nat
    <3>1. c.group \in Nat
      BY Arrived DEF TypeInv
    <3>2. v \in 0 .. GroupSpace - 1
      BY <3>1, Sizes, Remainder DEF GroupWire
    <3> QED BY <3>2, Sizes
  <2> HIDE DEF v
  <2>3. index \in 0 .. UnsequencedWindowSize - 1 /\ index <= v
    BY <2>2, Sizes, Remainder, QuotientBounds
  <2> HIDE DEF index
  <2>4. base \in 0 .. GroupSpace - 1
    BY <2>2, <2>3, Sizes
  <2>5. WindowAt(base) \subseteq 0 .. UnsequencedWindowSize - 1
    BY <1>1 DEF WindowAt, GroupsTyped
  <2>6. GroupsTyped'
    BY <2>1, <2>3, <2>4, <2>5 DEF GroupsTyped
  <2>7. <<Entry(c, 0)>> \o entries \in Seq(Entries)
    <3>1. Entry(c, 0) \in Entries
      BY EntryType
    <3> QED BY <1>1, <3>1 DEF ReceiverTyped
  <2>8. dangling' \in BOOLEAN
    BY <1>1 DEF ReceiverTyped
  <2> QED BY <1>1, <2>1, <2>6, <2>7, <2>8, DispatchFromType
<1>3. CASE ~ (Ahead(v) /\ index \notin WindowAt(base))
  <2>1. UNCHANGED <<groups, entries, incomingUnreliable, dispatched>>
    BY <1>3 DEF HandleSendUnsequenced
  <2> QED BY <1>1, <2>1 DEF ReceiverTyped, GroupsTyped, groups
<1> QED BY <1>2, <1>3

\* The steps of the sender.
LEMMA SendNumbers ==
    ASSUME TypeInv, Send
    PROVE  UnreliableNumbers'
<1> DEFINE kind == packets[queued + 1]
           Fits(n) == n \in 0 .. LastUnreliable
<1>1. /\ LastUnreliable \in Nat /\ Fits(0) /\ Fits(unreliable)
      /\ outgoing \in Seq(Commands)
      /\ \A c \in Known : Fits(c.unreliable)
  BY SpaceSize DEF TypeInv, UnreliableNumbers, OnceInv, Typed
<1>2. \A k, f, l, u, n : Command(k, f, l, u, n).unreliable = u
  BY DEF Command
<1>3. ASSUME NEW count \in Nat, SendReliable(count)
      PROVE  UnreliableNumbers'
  <2> DEFINE new == Command("reliable", reliable + 1, reliable + count, 0, 0)
  <2>1. net' = net \cup {new} /\ unreliable' = 0 /\ outgoing' = outgoing
    BY <1>3 DEF SendReliable
  <2>2. new.unreliable = 0
    BY <1>2
  <2> HIDE DEF new
  <2>3. \A c \in Known' : c \in Known \/ c = new
    BY <2>1 DEF Known
  <2> QED BY <1>1, <2>1, <2>2, <2>3 DEF UnreliableNumbers
<1>4. ASSUME SendUnsequenced
      PROVE  UnreliableNumbers'
  <2> DEFINE new == [Command("unsequenced", 0, 0, 0, 0) EXCEPT !.group = group + 1]
  <2>1. outgoing' = Append(outgoing, new) /\ net' = net /\ unreliable' = unreliable
    BY <1>4 DEF SendUnsequenced
  <2>2. new.unreliable = 0
    BY DEF Command
  <2> HIDE DEF new
  <2>3. \A i \in DOMAIN outgoing' : outgoing'[i] = new
                \/ (i \in DOMAIN outgoing /\ outgoing'[i] = outgoing[i])
    BY <1>1, <2>1
  <2>4. \A c \in Known' : c \in Known \/ c = new
    BY <2>1, <2>3 DEF Known
  <2> QED BY <1>1, <2>1, <2>2, <2>4 DEF UnreliableNumbers
<1>5. ASSUME NEW count \in Nat, SendUnreliable(kind, count)
      PROVE  UnreliableNumbers'
  <2> DEFINE u == (unreliable + 1) % (LastUnreliable + 1)
             more == [f \in 1 .. count |-> Command(kind, reliable, reliable, u, f)]
  <2>1. unreliable' = u /\ outgoing' = outgoing \o more /\ net' = net
    BY <1>5 DEF SendUnreliable
  <2>2. Fits(u)
    <3>1. unreliable + 1 \in Nat /\ LastUnreliable + 1 \in Nat \ {0}
      BY <1>1
    <3>2. u \in 0 .. (LastUnreliable + 1) - 1
      BY <3>1, Remainder
    <3> QED BY <1>1, <3>2
  <2> HIDE DEF u
  <2>3. more \in Seq({Command(kind, reliable, reliable, u, f) : f \in 1 .. count})
        /\ Len(more) = count /\ \A f \in 1 .. count : more[f].unreliable = u
    BY <1>2
  <2> HIDE DEF more
  <2>4. \A i \in DOMAIN outgoing' :
           \/ i \in DOMAIN outgoing /\ outgoing'[i] = outgoing[i]
           \/ i - Len(outgoing) \in 1 .. count /\ outgoing'[i] = more[i - Len(outgoing)]
    BY <1>1, <2>1, <2>3
  <2>5. \A c \in Known' : c \in Known \/ c.unreliable = u
    BY <2>1, <2>3, <2>4 DEF Known
  <2> QED BY <1>1, <2>1, <2>2, <2>5 DEF UnreliableNumbers
<1>6. Fragments \in Nat /\ 1 \in Nat
  BY Sizes
<1> QED BY <1>3, <1>4, <1>5, <1>6 DEF Send

\* The steps that hand commands on, or drop them, make none.
LEMMA HandedOn ==
    ASSUME OnceInv, Transmit \/ Drop
    PROVE  Known' \subseteq Known /\ UNCHANGED <<numbers, groups, channel, dispatched, dangling>>
<1>1. outgoing \in Seq(Commands)
  BY DEF OnceInv, Typed
<1>2. CASE Transmit
  <2>1. outgoing # <<>> /\ net' = net \cup {Head(outgoing)} /\ outgoing' = Tail(outgoing)
    BY <1>2 DEF Transmit
  <2>2. Head(outgoing) = outgoing[1] /\ 1 \in DOMAIN outgoing
    BY <1>1, <2>1
  <2>3. \A i \in DOMAIN outgoing' : i + 1 \in DOMAIN outgoing /\ outgoing'[i] = outgoing[i + 1]
    BY <1>1, <2>1
  <2> QED BY <1>2, <2>1, <2>2, <2>3 DEF Known, Transmit
<1>3. CASE Drop
  <2>1. PICK k \in 1 .. Len(outgoing) : outgoing' = SubSeq(outgoing, k + 1, Len(outgoing))
    BY <1>3 DEF Drop
  <2>2. \A i \in DOMAIN outgoing' : k + i \in DOMAIN outgoing /\ outgoing'[i] = outgoing[k + i]
    BY <1>1, <2>1
  <2> QED BY <1>3, <2>1, <2>2 DEF Known, Drop
<1> QED BY <1>2, <1>3

\* Every step keeps the types.
LEMMA TypeNext == TypeInv /\ [Next]_vars => TypeInv'
<1> SUFFICES ASSUME TypeInv, [Next]_vars PROVE TypeInv'
  OBVIOUS
<1>1. OnceInv'
  BY OnceNext DEF TypeInv
<1>2. ASSUME UNCHANGED <<groups, channel, dispatched, dangling>>
      PROVE  ReceiverTyped' /\ GroupsTyped'
  BY <1>2 DEF TypeInv, ReceiverTyped, GroupsTyped, groups, channel
<1>3. CASE Send
  <2>1. UNCHANGED <<groups, channel, dispatched, dangling>>
    BY <1>3 DEF Send
  <2> QED BY <1>1, <1>2, <1>3, <2>1, SendNumbers DEF TypeInv
<1>4. CASE Transmit \/ Drop
  <2>1. Known' \subseteq Known /\ UNCHANGED <<numbers, groups, channel, dispatched, dangling>>
    BY <1>4, HandedOn DEF TypeInv
  <2>2. UnreliableNumbers'
    BY <2>1 DEF TypeInv, UnreliableNumbers, numbers
  <2> QED BY <1>1, <1>2, <2>1, <2>2 DEF TypeInv
<1>5. ASSUME NEW c \in net,
             \/ HandleReliable(c)
             \/ HandleSendUnreliable(c)
             \/ HandleSendUnreliableFragment(c)
             \/ HandleSendUnsequenced(c)
      PROVE  TypeInv'
  <2>1. ReceiverTyped' /\ GroupsTyped' /\ UNCHANGED sender
    BY <1>5, UnreliableType, FragmentType, ReliableType, UnsequencedType
  <2> QED BY <1>1, <2>1, NumbersKept DEF TypeInv
<1>6. CASE UNCHANGED vars
  <2>1. UNCHANGED sender /\ UNCHANGED <<groups, channel, dispatched, dangling>>
    BY <1>6 DEF vars
  <2> QED BY <1>1, <1>2, <2>1, NumbersKept DEF TypeInv
<1> QED BY <1>3, <1>4, <1>5, <1>6 DEF Next, AnyStep

\* Every variable keeps its type, the numbers and groups that come around included,
\* for every size and number of windows and every list of packets.
THEOREM UnreliableTypes == Spec => []TypeOK
<1> QED BY TypeInit, TypeNext, TypeInvTypes, PTL DEF Spec

-----------------------------------------------------------------------------
(* A new group is taken.                                                      *)

\* What was sent begins with a new peer's numbers, or after the first window of
\* groups: in between, Init does not say which of the groups were queued.
StartsLater ==
    \A s \in Scenarios : s.group \notin 1 .. UnsequencedWindowSize - 1

\* The groups that were queued.
Taken == {c.group : c \in {d \in net : d.kind = "unsequenced" /\ times[d.packet] > 0}}

\* NewGroupTaken says nothing of group n: a later one was queued, or one of almost
\* a lap before.
Excused(n) ==
    \E g \in Taken : n <= g \/ n - g > GroupSpace - UnsequencedWindowSize

\* A bit of the window from b that stands for no group that was queued stands for
\* none that was sent by this program, and so do all those before it.
BitsMean(b) ==
    \A i \in window :
        \/ Excused(b + i)
        \/ /\ b + i <= group
           /\ \A c \in Known : c.kind = "unsequenced" => c.group # b + i
           /\ 0 .. i \subseteq window

\* The window from b is that of a group that was queued, if one was.
Based(b) == Taken # {} => \E g \in Taken : g >= b

\* The command of what was queued was transmitted.
Came ==
    \A p \in DOMAIN times : times[p] > 0 =>
        \E c \in net : c.kind = "unsequenced" /\ c.packet = p

GroupInv ==
    /\ TypeInv
    /\ Came
    /\ \E b \in Nat : WindowFrom(b) /\ BitsMean(b) /\ Based(b)

\* Commands of packets that are not sequenced are of packets of this program.
LEMMA OfPackets ==
    ASSUME OnceInv, NEW c \in Known, c.kind = "unsequenced"
    PROVE  c.packet \in DOMAIN times /\ c.packet \in Nat /\ c.group \in Nat
<1>1. Typed /\ Numbered(c) /\ Known \subseteq Commands
  BY DEF OnceInv, Typed, Known
<1>2. c.packet \in Nat \ {0} /\ c.group \in Nat
  BY <1>1 DEF Commands
<1>3. Len(packets) \in Nat /\ DOMAIN times = 1 .. Len(packets) /\ queued \in 0 .. Len(packets)
  BY <1>1, SMT DEF Typed
<1>4. c.packet <= queued
  BY <1>1 DEF Numbered
<1> QED BY <1>2, <1>3, <1>4, SMT

\* The groups queued are numbers of the window, or before it.
LEMMA TakenBefore ==
    ASSUME OnceInv, NEW b \in Nat, WindowFrom(b), NEW g \in Taken
    PROVE  g \in Nat /\ g < b + UnsequencedWindowSize
<1>1. PICK c \in net : c.kind = "unsequenced" /\ times[c.packet] > 0 /\ g = c.group
  BY DEF Taken
<1>2. c \in Known
  BY DEF Known
<1>3. c.group \in Nat
  BY <1>1, <1>2, OfPackets
<1> QED BY <1>1, <1>2, <1>3 DEF WindowFrom

\* What the steps of the sender, and those of the receiver that queue no packet
\* that is not sequenced, do to the groups and the commands.
Handed ==
    /\ UNCHANGED groups
    /\ group' \in {group, group + 1}
    /\ net \subseteq net'
    /\ \A c \in net' : c.kind = "unsequenced" => c \in Known
    /\ \A c \in Known' : \/ c \in Known
                         \/ c.kind # "unsequenced"
                         \/ c.group = group + 1

\* They keep the meaning of the bits.
LEMMA GroupKept ==
    ASSUME GroupInv, TypeInv', SameWindow, Handed
    PROVE  GroupInv'
<1>1. OnceInv /\ group \in Nat /\ window \subseteq Nat
  <2>1. OnceInv /\ Typed /\ GroupsTyped
    BY DEF GroupInv, TypeInv, OnceInv
  <2>2. window \subseteq 0 .. UnsequencedWindowSize - 1 /\ UnsequencedWindowSize \in Nat
    BY <2>1, Sizes DEF GroupsTyped
  <2> QED BY <2>1, <2>2 DEF Typed
<1>2. times' = times /\ window' = window /\ net \subseteq net'
  BY DEF Handed, groups
<1>3. Came'
  BY <1>2 DEF GroupInv, Came
<1>4. Taken' = Taken
  <2>1. Taken \subseteq Taken'
    BY <1>2 DEF Taken
  <2>2. ASSUME NEW c \in net', c.kind = "unsequenced", times'[c.packet] > 0
        PROVE  c.group \in Taken
    <3>1. c \in Known /\ c.packet \in DOMAIN times
      BY <1>1, <2>2, OfPackets DEF Handed
    <3>2. PICK d \in net : d.kind = "unsequenced" /\ d.packet = c.packet
      BY <1>2, <2>2, <3>1 DEF GroupInv, Came
    <3>3. d \in Known
      BY DEF Known
    <3>4. c.group = d.group
      BY <1>1, <2>2, <3>1, <3>2, <3>3 DEF OnceInv, OneGroup
    <3> QED BY <1>2, <2>2, <3>2, <3>4 DEF Taken
  <2> QED BY <2>1, <2>2 DEF Taken
<1>5. PICK b \in Nat : WindowFrom(b) /\ BitsMean(b) /\ Based(b)
  BY DEF GroupInv
<1>6. WindowFrom(b)' /\ Based(b)'
  BY <1>4, <1>5 DEF SameWindow, Based
<1>7. BitsMean(b)'
  <2>1. SUFFICES ASSUME NEW i \in window, ~ Excused(b + i)
                 PROVE  /\ b + i <= group'
                        /\ \A c \in Known' : c.kind = "unsequenced" => c.group # b + i
                        /\ 0 .. i \subseteq window
    BY <1>2, <1>4 DEF BitsMean, Excused
  <2>2. /\ b + i <= group
        /\ \A c \in Known : c.kind = "unsequenced" => c.group # b + i
        /\ 0 .. i \subseteq window
    BY <1>5, <2>1 DEF BitsMean
  <2>3. b + i \in Nat
    BY <1>1
  <2>4. b + i <= group' /\ b + i # group + 1
    BY <1>1, <2>2, <2>3 DEF Handed
  <2> QED BY <2>2, <2>4 DEF Handed
<1> QED BY <1>3, <1>6, <1>7 DEF GroupInv

\* The number of group g, counted from a base up to a space before it.
LEMMA LapAhead ==
    ASSUME NEW s \in Nat \ {0}, NEW g \in Nat, NEW b \in Nat, g >= b, g - b < s
    PROVE  (g % s) + (IF g % s < b % s THEN s ELSE 0) = (b % s) + (g - b)
<1> DEFINE p == g \div s
           q == b \div s
           m == g % s
           n == b % s
<1>1. p \in Nat /\ m \in 0 .. s - 1 /\ g = s * p + m BY Remainder
<1>2. q \in Nat /\ n \in 0 .. s - 1 /\ b = s * q + n BY Remainder
<1> SUFFICES m + (IF m < n THEN s ELSE 0) = n + (g - b) OBVIOUS
<1> HIDE DEF p, q, m, n
<1>3. CASE p = q BY <1>1, <1>2, <1>3, SMT
<1>4. CASE p > q
  <2>1. p = q + 1
    <3>1. SUFFICES ASSUME p > q + 1 PROVE FALSE
      BY <1>1, <1>2, <1>4, SMT
    <3>2. s * p >= s * (q + 1) + s /\ s * (q + 1) >= s * q + s
          /\ s * p \in Nat /\ s * (q + 1) \in Nat /\ s * q \in Nat
      <4>1. q + 1 \in Nat /\ q + 1 > q /\ p > q + 1
        BY <1>2, <3>1
      <4> QED BY <1>1, <1>2, <4>1, Multiples
    <3> QED BY <1>1, <1>2, <3>2, SMT
  <2>2. s * p = s * q + s /\ s * q \in Nat
    BY <1>1, <1>2, <2>1, SMT
  <2> QED BY <1>1, <1>2, <2>2, SMT
<1>5. CASE q > p BY <1>1, <1>2, <1>5, Multiples, SMT
<1> QED BY <1>1, <1>2, <1>3, <1>4, <1>5, SMT

\* Two groups of the same number are a lap apart.
LEMMA LapsApart ==
    ASSUME NEW s \in Nat \ {0}, NEW g \in Nat, NEW b \in Nat, g > b, g % s = b % s
    PROVE  g >= b + s
<1> SUFFICES ASSUME g < b + s PROVE FALSE
  OBVIOUS
<1> DEFINE n == b % s
<1>1. g >= b /\ g - b < s
  OBVIOUS
<1>2. (g % s) + (IF g % s < b % s THEN s ELSE 0) = (b % s) + (g - b)
  BY <1>1, LapAhead
<1>3. n \in 0 .. s - 1
  BY Remainder
<1>4. n + (IF n < n THEN s ELSE 0) = n + (g - b)
  BY <1>2
<1> HIDE DEF n
<1> QED BY <1>3, <1>4, SMT

\* The sender's step makes a later group, or none.
LEMMA HandedSend ==
    ASSUME OnceInv, Send
    PROVE  Handed
<1> DEFINE kind == packets[queued + 1]
<1>1. outgoing \in Seq(Commands) /\ UNCHANGED groups
  BY DEF OnceInv, Typed, Send
<1>2. \A k, f, l, u, n : Command(k, f, l, u, n).kind = k
  BY DEF Command
<1>3. ASSUME NEW count \in Nat, SendReliable(count)
      PROVE  Handed
  <2> DEFINE new == Command("reliable", reliable + 1, reliable + count, 0, 0)
  <2>1. net' = net \cup {new} /\ group' = group /\ outgoing' = outgoing
    BY <1>3 DEF SendReliable
  <2>2. new.kind # "unsequenced"
    BY <1>2
  <2> HIDE DEF new
  <2> QED BY <1>1, <2>1, <2>2 DEF Handed, Known
<1>4. ASSUME SendUnsequenced
      PROVE  Handed
  <2> DEFINE new == [Command("unsequenced", 0, 0, 0, 0) EXCEPT !.group = group + 1]
  <2>1. net' = net /\ group' = group + 1 /\ outgoing' = Append(outgoing, new)
    BY <1>4 DEF SendUnsequenced
  <2>2. new.group = group + 1
    BY DEF Command
  <2> HIDE DEF new
  <2>3. \A i \in DOMAIN outgoing' : \/ outgoing'[i] = new
                                    \/ i \in DOMAIN outgoing /\ outgoing'[i] = outgoing[i]
    BY <1>1, <2>1
  <2> QED BY <1>1, <2>1, <2>2, <2>3 DEF Handed, Known
<1>5. ASSUME NEW count \in Nat, kind \in {"unreliable", "fragmented"},
             SendUnreliable(kind, count)
      PROVE  Handed
  <2> DEFINE u == (unreliable + 1) % (LastUnreliable + 1)
             more == [f \in 1 .. count |-> Command(kind, reliable, reliable, u, f)]
             S == {Command(kind, reliable, reliable, u, f) : f \in 1 .. count}
  <2>1. net' = net /\ group' = group /\ outgoing' = outgoing \o more
    BY <1>5 DEF SendUnreliable
  <2> HIDE DEF u
  <2>2. \A f \in 1 .. count : more[f].kind = kind
    BY <1>2
  <2>3. more \in Seq(S) /\ Len(more) = count
    <3>1. \A f \in 1 .. count : Command(kind, reliable, reliable, u, f) \in S
      OBVIOUS
    <3> HIDE DEF S
    <3> QED BY <3>1
  <2> HIDE DEF more
  <2>4. \A i \in DOMAIN outgoing' :
           \/ i \in DOMAIN outgoing /\ outgoing'[i] = outgoing[i]
           \/ i - Len(outgoing) \in 1 .. count /\ outgoing'[i] = more[i - Len(outgoing)]
    BY <1>1, <2>1, <2>3
  <2>5. \A c \in Known' : c \in Known \/ c.kind # "unsequenced"
    BY <1>5, <2>1, <2>2, <2>4 DEF Known
  <2> QED BY <1>1, <2>1, <2>5 DEF Handed, Known
<1>6. 1 \in Nat /\ Fragments \in Nat
  BY Sizes
<1> QED BY <1>3, <1>4, <1>5, <1>6 DEF Send

\* What is handed to the network was made before.
LEMMA HandedTransmit ==
    ASSUME OnceInv, Transmit \/ Drop
    PROVE  Handed
<1>1. Known' \subseteq Known /\ group' = group /\ UNCHANGED groups
  BY HandedOn DEF numbers
<1>2. net \subseteq net'
  BY DEF Transmit, Drop
<1>3. \A c \in net' : c \in Known
  BY <1>1 DEF Known
<1> QED BY <1>1, <1>2, <1>3 DEF Handed

\* The receiver makes no command.
LEMMA HandedReceive ==
    ASSUME OnceInv, UNCHANGED sender, UNCHANGED groups
    PROVE  Handed
<1>1. Known' = Known /\ net' = net /\ group' = group
  BY DEF sender, numbers, Known
<1> QED BY <1>1 DEF Handed, Known

\* Where the window stands after a group is taken.
LEMMA TakenPlace ==
    ASSUME NEW g \in Nat, NEW b \in Nat, b <= g, b % UnsequencedWindowSize = 0
    PROVE  LET i == g % UnsequencedWindowSize
               start == g - i
           IN /\ i \in 0 .. UnsequencedWindowSize - 1
              /\ start \in Nat /\ start >= b
              /\ GroupWire(g) % UnsequencedWindowSize = i
              /\ GroupWire(g) - i = GroupWire(start)
              /\ GroupWire(start) = GroupWire(b) => start = b \/ start >= b + GroupSpace
<1> DEFINE w == UnsequencedWindowSize
           i == g % w
           start == g - i
<1>1. /\ w \in Nat \ {0} /\ UnsequencedWindows \in Nat \ {0} /\ GroupSpace \in Nat \ {0}
      /\ GroupSpace = w * UnsequencedWindows /\ b % w = 0
  BY Sizes
<1> SUFFICES /\ i \in 0 .. w - 1
             /\ start \in Nat /\ start >= b
             /\ GroupWire(g) % w = i
             /\ GroupWire(g) - i = GroupWire(start)
             /\ GroupWire(start) = GroupWire(b) => start = b \/ start >= b + GroupSpace
  OBVIOUS
<1> HIDE DEF w
<1>2. i \in 0 .. w - 1
  BY <1>1, Remainder
<1>3. start \in Nat /\ (start = b \/ start >= b + w \/ start + w <= b)
  BY <1>1, WindowsApart
<1>4. start >= b
  <2> HIDE DEF i
  <2> QED BY <1>1, <1>2, <1>3
<1>5. GroupWire(g) % w = i /\ GroupWire(g) - i = GroupWire(start)
  <2> DEFINE k == UnsequencedWindows
  <2>1. /\ (g % (w * k)) % w = g % w
        /\ (g - (g % w)) % (w * k) = (g % (w * k)) - (g % w)
    <3> HIDE DEF k
    <3> QED BY <1>1, WindowOfNumber DEF k
  <2>2. GroupWire(g) = g % (w * k) /\ GroupWire(start) = (g - (g % w)) % (w * k)
    BY <1>1, Zenon DEF GroupWire
  <2> QED BY <2>1, <2>2, Zenon
<1>6. GroupWire(start) = GroupWire(b) => start = b \/ start >= b + GroupSpace
  <2> HIDE DEF start
  <2>1. SUFFICES ASSUME GroupWire(start) = GroupWire(b), start # b
                 PROVE  start >= b + GroupSpace
    OBVIOUS
  <2>2. start > b /\ start % GroupSpace = b % GroupSpace
    BY <1>3, <1>4, <2>1 DEF GroupWire
  <2> QED BY <1>1, <1>3, <2>2, LapsApart
<1> QED BY <1>2, <1>3, <1>4, <1>5, <1>6

\* A group that is taken leaves the window's bits their meaning: a bit that stays
\* from a lap before stands for a number that is excused.
LEMMA GroupTaken ==
    ASSUME GroupInv, TypeInv', NEW c \in net, UnderWay(c), c.kind = "unsequenced",
           Ahead(GroupWire(c.group)),
           LET index == GroupWire(c.group) % UnsequencedWindowSize
               base == GroupWire(c.group) - index
           IN /\ index \notin WindowAt(base)
              /\ incomingGroup' = base
              /\ window' = WindowAt(base) \cup {index},
           times' = [times EXCEPT ![c.packet] = @ + 1],
           UNCHANGED sender
    PROVE  GroupInv'
<1> DEFINE w == UnsequencedWindowSize
           g == c.group
           i == g % w
           start == g - i
<1>1. /\ OnceInv /\ Typed /\ net' = net /\ Known' = Known /\ group' = group
      /\ c \in Known /\ g \in Nat /\ g <= group /\ group \in Nat
      /\ c.packet \in DOMAIN times
      /\ window \subseteq 0 .. w - 1
      /\ w \in Nat \ {0} /\ GroupSpace \in Nat \ {0}
  <2>1. OnceInv /\ Typed /\ GroupsTyped
    BY DEF GroupInv, TypeInv, OnceInv
  <2>2. net' = net /\ Known' = Known /\ group' = group
    BY DEF sender, numbers, Known
  <2>3. /\ c \in Known /\ g \in Nat /\ g <= group /\ group \in Nat
    BY <2>1, Arrived DEF Numbered
  <2> QED BY <2>1, <2>2, <2>3, OfPackets, Sizes DEF GroupsTyped
<1>2. PICK b \in Nat : WindowFrom(b) /\ BitsMean(b) /\ Based(b)
  BY DEF GroupInv
<1>3. b <= g /\ b % w = 0 /\ incomingGroup = GroupWire(b)
  <2>1. g >= b
    BY <1>1, <1>2, NotBehind
  <2> QED BY <1>1, <1>2, <2>1 DEF WindowFrom
<1>4. /\ i \in 0 .. w - 1
      /\ start \in Nat /\ start >= b
      /\ GroupWire(g) % w = i
      /\ GroupWire(g) - i = GroupWire(start)
      /\ GroupWire(start) = GroupWire(b) => start = b \/ start >= b + GroupSpace
  BY <1>1, <1>3, TakenPlace
<1>5. i \notin WindowAt(GroupWire(start)) /\ window' = WindowAt(GroupWire(start)) \cup {i}
  BY <1>4
<1>6. WindowFrom(start)'
  BY <1>1, OnceTaken
<1>7. /\ times'[c.packet] > 0
      /\ \A p \in DOMAIN times : p # c.packet => times'[p] = times[p]
      /\ DOMAIN times' = DOMAIN times
      /\ \A p \in DOMAIN times : times[p] > 0 => times'[p] > 0
  BY <1>1 DEF Typed
<1>8. Taken \subseteq Taken' /\ g \in Taken'
  <2>1. ASSUME NEW d \in net, d.kind = "unsequenced", times[d.packet] > 0
        PROVE  times'[d.packet] > 0
    <3>1. d \in Known
      BY DEF Known
    <3>2. d.packet \in DOMAIN times
      BY <1>1, <2>1, <3>1, OfPackets
    <3> QED BY <1>7, <2>1, <3>2
  <2> QED BY <1>1, <1>7, <2>1 DEF Taken
<1>9. Came'
  BY <1>1, <1>7 DEF GroupInv, Came
<1>10. Based(start)'
  <2>1. g >= start
    <3> HIDE DEF i
    <3> QED BY <1>1, <1>4
  <2> QED BY <1>8, <2>1 DEF Based
<1>11. \A n : Excused(n) => Excused(n)'
  BY <1>8 DEF Excused
<1>12. BitsMean(start)'
  <2> DEFINE Means(n, k) == \/ Excused(n + k)'
                            \/ /\ n + k <= group
                               /\ \A d \in Known : d.kind = "unsequenced" => d.group # n + k
                               /\ 0 .. k \subseteq window'
  <2>1. ASSUME NEW k \in window' PROVE Means(start, k)
    <3>1. CASE k = i
      <4>1. start + i = g
        <5> HIDE DEF i
        <5> QED BY <1>1, <1>4
      <4>2. Excused(start + i)'
        BY <1>1, <1>8, <4>1 DEF Excused
      <4> QED BY <3>1, <4>2
    <3>2. CASE k # i
      <4>1. /\ k \in WindowAt(GroupWire(start)) /\ k \in window
            /\ WindowAt(GroupWire(start)) = window
            /\ GroupWire(start) = GroupWire(b)
        BY <1>3, <1>5, <2>1, <3>2 DEF WindowAt
      <4>2. window \subseteq window' /\ i \notin window /\ k \in Nat
        BY <1>1, <1>5, <4>1
      <4>3. \/ Excused(b + k)
            \/ /\ b + k <= group
               /\ \A d \in Known : d.kind = "unsequenced" => d.group # b + k
               /\ 0 .. k \subseteq window
        BY <1>2, <4>1 DEF BitsMean
      <4>4. CASE start = b
        BY <1>11, <4>2, <4>3, <4>4
      <4>5. CASE start >= b + GroupSpace
        <5>1. CASE Excused(b + k)
          <6>1. PICK h \in Taken : b + k <= h \/ (b + k) - h > GroupSpace - w
            BY <5>1 DEF Excused
          <6>2. h \in Nat /\ h < b + w /\ h \in Taken'
            BY <1>1, <1>2, <1>8, <6>1, TakenBefore
          <6>3. (start + k) - h > GroupSpace - w
            <7> HIDE DEF start, w
            <7> QED BY <1>1, <1>4, <4>2, <4>5, <6>1, <6>2, SMT
          <6> QED BY <6>2, <6>3 DEF Excused
        <5>2. CASE 0 .. k \subseteq window
          <6>1. ~ (i <= k)
            <7> HIDE DEF i
            <7> QED BY <1>4, <4>2, <5>2
          <6>2. start + k <= g
            <7> HIDE DEF i
            <7> QED BY <1>1, <1>4, <4>2, <6>1
          <6> QED BY <1>8, <6>2 DEF Excused
        <5> QED BY <4>3, <5>1, <5>2
      <4> QED BY <1>4, <4>1, <4>4, <4>5
    <3> QED BY <3>1, <3>2
  <2> QED BY <1>1, <2>1 DEF BitsMean
<1> QED BY <1>4, <1>6, <1>9, <1>10, <1>12 DEF GroupInv

\* The bits of a new peer, or of one that sent a window of groups, stand for the
\* groups up to the last one sent.
LEMMA GroupInit == StartsLater /\ Init => GroupInv
<1> SUFFICES ASSUME StartsLater, Init PROVE GroupInv
  OBVIOUS
<1> DEFINE w == UnsequencedWindowSize
<1>1. PICK s \in Scenarios :
        /\ group = s.group
        /\ outgoing = <<>>
        /\ net = {}
        /\ incomingGroup = GroupWire(s.group - (s.group % w))
        /\ window = {i \in 0 .. s.group % w : s.group + i > s.group % w}
        /\ times = [p \in DOMAIN s.packets |-> 0]
  BY DEF Init
<1>2. s.group \in Nat /\ s.group \notin 1 .. w - 1
  BY ScenariosAssumption DEF StartsLater
<1> DEFINE r == s.group % w
           b == s.group - r
<1>3. w \in Nat \ {0} /\ 0 % w = 0
  BY Sizes
<1>4. r \in 0 .. w - 1 /\ b \in Nat /\ b % w = 0 /\ (s.group = 0 => r = 0)
  <2>1. r \in 0 .. w - 1 /\ (s.group = 0 => r = 0)
    BY <1>2, <1>3, Remainder
  <2>2. b \in Nat /\ b % w = 0
    <3>1. 0 \in Nat
      OBVIOUS
    <3> HIDE DEF w
    <3> QED BY <1>2, <1>3, <3>1, WindowsApart
  <2> QED BY <2>1, <2>2
<1>5. Known = {} /\ Taken = {}
  BY <1>1 DEF Known, Taken
<1>6. WindowFrom(b)
  <2>1. b <= group
    <3> HIDE DEF r, w
    <3> QED BY <1>1, <1>2, <1>3, <1>4
  <2> QED BY <1>1, <1>4, <1>5, <2>1 DEF WindowFrom
<1>7. BitsMean(b)
  <2>1. ASSUME NEW i \in window
        PROVE  b + i <= group /\ 0 .. i \subseteq window
    <3> HIDE DEF r, w
    <3>1. i \in 0 .. r /\ s.group + i > r
      BY <1>1, <2>1 DEF r, w
    <3>2. s.group > r
      BY <1>2, <1>3, <1>4, <3>1
    <3>3. \A k \in 0 .. i : k \in 0 .. r /\ s.group + k > r
      BY <1>2, <1>3, <1>4, <3>1, <3>2
    <3>4. window = {k \in 0 .. r : s.group + k > r}
      BY <1>1 DEF r, w
    <3>5. b + i <= s.group
      BY <1>2, <1>4, <3>1
    <3>6. 0 .. i \subseteq window
      BY <3>3, <3>4
    <3> QED BY <1>1, <3>5, <3>6
  <2> QED BY <1>5, <2>1 DEF BitsMean
<1>8. Came /\ Based(b)
  BY <1>1, <1>5 DEF Came, Based
<1> QED BY <1>4, <1>6, <1>7, <1>8, TypeInit DEF GroupInv

\* GroupInv is an invariant.
LEMMA GroupNext == GroupInv /\ [Next]_vars => GroupInv'
<1> SUFFICES ASSUME GroupInv, [Next]_vars PROVE GroupInv'
  OBVIOUS
<1>1. TypeInv /\ OnceInv /\ TypeInv'
  BY TypeNext DEF GroupInv, TypeInv
<1>2. ASSUME UNCHANGED sender, UNCHANGED groups PROVE GroupInv'
  BY <1>1, <1>2, OnceReceive, HandedReceive, GroupKept
<1>3. CASE Send
  BY <1>1, <1>3, OnceSend, HandedSend, GroupKept
<1>4. CASE Transmit \/ Drop
  BY <1>1, <1>4, OnceTransmit, OnceDrop, HandedTransmit, GroupKept
<1>5. ASSUME NEW c \in net, HandleSendUnsequenced(c) PROVE GroupInv'
  <2> DEFINE index == GroupWire(c.group) % UnsequencedWindowSize
             base == GroupWire(c.group) - index
  <2>1. UnderWay(c) /\ c.kind = "unsequenced" /\ UNCHANGED sender
    BY <1>5 DEF HandleSendUnsequenced
  <2>2. CASE Ahead(GroupWire(c.group)) /\ index \notin WindowAt(base)
    <3>1. /\ incomingGroup' = base
          /\ window' = WindowAt(base) \cup {index}
          /\ times' = [times EXCEPT ![c.packet] = @ + 1]
      BY <1>5, <2>2 DEF HandleSendUnsequenced
    <3> QED BY <1>1, <2>1, <2>2, <3>1, GroupTaken
  <2>3. CASE ~(Ahead(GroupWire(c.group)) /\ index \notin WindowAt(base))
    BY <1>2, <1>5, <2>1, <2>3 DEF HandleSendUnsequenced
  <2> QED BY <2>2, <2>3
<1>6. ASSUME NEW c \in net,
             HandleReliable(c) \/ HandleSendUnreliable(c) \/ HandleSendUnreliableFragment(c)
      PROVE  GroupInv'
  BY <1>2, <1>6 DEF HandleReliable, HandleSendUnreliable, HandleSendUnreliableFragment
<1>7. CASE UNCHANGED vars
  BY <1>2, <1>7 DEF vars
<1> QED BY <1>3, <1>4, <1>5, <1>6, <1>7 DEF Next, AnyStep

\* It says what NewGroupTaken says.
LEMMA GroupMeaning == GroupInv => NewGroupTaken
<1> DEFINE w == UnsequencedWindowSize
           f == FreeUnsequencedWindows
<1> SUFFICES ASSUME GroupInv, NEW c \in net, c.kind = "unsequenced",
                    \A g \in Taken : g < c.group /\ c.group - g <= GroupSpace - w,
                    \E g \in Taken : c.group - g <= (f - 1) * w
             PROVE  LET v == GroupWire(c.group)
                        index == v % w
                    IN Ahead(v) /\ index \notin WindowAt(v - index)
  BY DEF NewGroupTaken, Taken
<1> DEFINE g == c.group
           i == g % w
           start == g - i
<1>1. /\ OnceInv /\ c \in Known /\ g \in Nat
      /\ window \subseteq 0 .. w - 1
      /\ w \in Nat \ {0} /\ GroupSpace \in Nat \ {0}
  <2>1. OnceInv /\ GroupsTyped
    BY DEF GroupInv, TypeInv
  <2> QED BY <2>1, Arrived, Sizes DEF GroupsTyped
<1>2. PICK b \in Nat : WindowFrom(b) /\ BitsMean(b) /\ Based(b)
  BY DEF GroupInv
<1>3. g > b /\ g - b < f * w /\ f * w <= GroupSpace /\ f * w \in Nat
  <2>1. PICK h \in Taken : g - h <= (f - 1) * w
    OBVIOUS
  <2>2. PICK k \in Taken : k >= b
    BY <1>2, <2>1 DEF Based
  <2>3. h \in Nat /\ h < b + w /\ k \in Nat /\ k < g
    BY <1>1, <1>2, TakenBefore
  <2>4. (f - 1) * w = f * w - w /\ f * w \in Nat /\ f * w <= GroupSpace
    <3>1. f \in 1 .. UnsequencedWindows /\ UnsequencedWindows \in Nat
      BY WindowsAssumption
    <3> HIDE DEF f, w
    <3>2. w * f <= w * UnsequencedWindows /\ w * f \in Nat
      BY <1>1, <3>1, ProductGrows
    <3>3. GroupSpace = w * UnsequencedWindows
      BY Sizes DEF w
    <3>4. w * f = f * w /\ (f - 1) * w = f * w - w
      BY <1>1, <3>1, SMT
    <3> QED BY <3>2, <3>3, <3>4
  <2> HIDE DEF f, w, g
  <2> QED BY <1>1, <2>1, <2>2, <2>3, <2>4, SMT
<1>4. b % w = 0 /\ incomingGroup = GroupWire(b)
  BY <1>2 DEF WindowFrom
<1>5. Ahead(GroupWire(g))
  <2> DEFINE s == GroupSpace
  <2>1. g >= b /\ g - b < s
    <3> HIDE DEF f, w, g
    <3> QED BY <1>1, <1>3, SMT
  <2>2. (g % s) + (IF g % s < b % s THEN s ELSE 0) = (b % s) + (g - b)
    BY <1>1, <2>1, LapAhead
  <2>3. b % s \in Nat
    BY <1>1, Remainder
  <2> SUFFICES (g % s) + (IF g % s < b % s THEN s ELSE 0) < (b % s) + f * w
    BY <1>4 DEF Ahead, GroupWire
  <2> HIDE DEF f, w, g, s
  <2> QED BY <1>1, <1>3, <2>2, <2>3, SMT
<1>6. /\ i \in 0 .. w - 1
      /\ start \in Nat /\ start >= b
      /\ GroupWire(g) % w = i
      /\ GroupWire(g) - i = GroupWire(start)
      /\ GroupWire(start) = GroupWire(b) => start = b \/ start >= b + GroupSpace
  <2>1. b <= g
    BY <1>1, <1>3
  <2> QED BY <1>1, <1>4, <2>1, TakenPlace
<1>7. i \notin WindowAt(GroupWire(start))
  <2>1. SUFFICES ASSUME GroupWire(start) = GroupWire(b), i \in window PROVE FALSE
    BY <1>4 DEF WindowAt
  <2>2. start = b
    <3> HIDE DEF f, w, g, i
    <3> QED BY <1>1, <1>3, <1>6, <2>1, SMT
  <2>3. b + i = g
    <3> HIDE DEF i
    <3> QED BY <1>1, <1>6, <2>2
  <2>4. Excused(g) \/ \A d \in Known : d.kind = "unsequenced" => d.group # g
    BY <1>2, <2>1, <2>3 DEF BitsMean
  <2>5. Excused(g)
    BY <1>1, <2>4
  <2>6. PICK h \in Taken : g <= h \/ g - h > GroupSpace - w
    BY <2>5 DEF Excused
  <2>7. h \in Nat /\ h < g /\ g - h <= GroupSpace - w
    BY <1>1, <1>2, TakenBefore
  <2> HIDE DEF w, g
  <2> QED BY <1>1, <2>6, <2>7, SMT
<1> QED BY <1>5, <1>6, <1>7

\* A packet that is newer than all those queued is queued when it arrives, if its
\* group is neither too far ahead nor a lap after one of them: no bit of an earlier
\* window stands for it (protocol.c:477-484).
THEOREM NewGroupsTaken == ASSUME StartsLater PROVE Spec => []NewGroupTaken
<1> QED BY GroupInit, GroupNext, GroupMeaning, PTL DEF Spec

-----------------------------------------------------------------------------
(* Packets come in sequence, as long as no number under way is a lap old.     *)

\* A number that the receiver of number n cannot take for one of another lap.
Near(r, n) ==
    IF n <= r THEN r - n < Space
    ELSE n - r <= Space - FreeReliableWindows * ReliableWindowSize

\* It is in the receiver's windows.
Reach(r, n) ==
    /\ n <= r
    /\ r \div ReliableWindowSize
          <= n \div ReliableWindowSize + (FreeReliableWindows - 2)

\* The windows of a lap.
LEMMA WindowOfWire ==
    ASSUME NEW n \in Nat
    PROVE  \E q \in Nat :
              /\ q = ReliableWindows * (n \div Space)
              /\ Wire(n) \div ReliableWindowSize = n \div ReliableWindowSize - q
              /\ n = Wire(n) + ReliableWindowSize * q
              /\ Wire(n) \in Nat /\ Wire(n) < Space
<1> DEFINE w == ReliableWindowSize
           k == ReliableWindows
           a == n \div Space
           m == n % Space
           b == m \div w
           y == m % w
           q == k * a
<1>1. w \in Nat \ {0} /\ k \in Nat \ {0} /\ Space \in Nat \ {0} /\ Space = w * k
  BY SpaceSize
<1>2. Wire(n) = m
  BY DEF Wire
<1>3. a \in Nat /\ m \in 0 .. Space - 1 /\ n = Space * a + m
  BY <1>1, Remainder
<1> HIDE DEF a, m
<1>4. m \in Nat /\ m < Space
  BY <1>1, <1>3
<1>5. b \in Nat /\ y \in 0 .. w - 1 /\ m = w * b + y
  BY <1>1, <1>4, Remainder
<1> HIDE DEF b, y, w, k
<1>6. q \in Nat /\ Space * a = w * q
  BY <1>1, <1>3, SMT
<1> HIDE DEF q
<1>7. q + b \in Nat /\ n = w * (q + b) + y
  <2>1. w * (q + b) = w * q + w * b
    BY <1>1, <1>5, <1>6, SMT
  <2>2. w * q \in Nat /\ w * b \in Nat
    BY <1>1, <1>5, <1>6, SMT
  <2> QED BY <1>1, <1>3, <1>5, <1>6, <2>1, <2>2, SMT
<1>8. n \div w = q + b
  BY <1>1, <1>5, <1>7, QuotientUnique
<1>9. b = n \div w - q
  BY <1>5, <1>6, <1>8
<1>10. n = m + w * q
  <2>1. w * q \in Nat
    BY <1>1, <1>6, SMT
  <2> QED BY <1>3, <1>4, <1>6, <2>1
<1> QED BY <1>2, <1>4, <1>6, <1>9, <1>10 DEF a, q, b, w, k

\* Of two numbers ahead of it, the receiver sees the distances.
LEMMA LapOfNumber ==
    ASSUME NEW r \in Nat, NEW n \in Nat, n <= r, r - n < Space
    PROVE  Lap(Wire(r), Wire(n)) = Wire(n) + (r - n)
<1>1. (r % Space) + (IF r % Space < n % Space THEN Space ELSE 0) = (n % Space) + (r - n)
  BY SpaceSize, LapAhead
<1> QED BY <1>1 DEF Lap, Wire

\* The receiver finds the number it is at, and those in its windows.
LEMMA NumberSeen ==
    ASSUME NEW r \in Nat, NEW n \in Nat, Near(r, n)
    PROVE  /\ Wire(r) = Wire(n) <=> r = n
           /\ InWindow(Wire(r), Wire(n)) <=> Reach(r, n)
<1> DEFINE w == ReliableWindowSize
           f == FreeReliableWindows
           L == Lap(Wire(r), Wire(n))
<1>1. w \in Nat \ {0} /\ Space \in Nat \ {0} /\ f \in Nat \ {0} /\ (f - 1) * w \in Nat
  <2>1. w \in Nat \ {0} /\ Space \in Nat \ {0} /\ f \in Nat \ {0}
    BY SpaceSize, WindowsAssumption
  <2> HIDE DEF w, f
  <2>2. (f - 1) * w \in Nat
    BY <2>1, SMT
  <2> QED BY <2>1, <2>2
<1>2. PICK q \in Nat : /\ Wire(n) \div w = n \div w - q
                       /\ n = Wire(n) + w * q
                       /\ Wire(n) \in Nat /\ Wire(n) < Space
  BY WindowOfWire
<1>3. Wire(r) \in Nat /\ Wire(r) < Space
  BY WindowOfWire
<1>q. r \div w \in Nat /\ n \div w \in Nat /\ Wire(n) \div w \in Nat
  BY <1>1, <1>2, Remainder
<1>4. InWindow(Wire(r), Wire(n)) <=>
         L \div w \in Wire(n) \div w .. Wire(n) \div w + f - 2
  BY DEF InWindow
<1>5. CASE n <= r
  <2>1. r - n < Space
    BY <1>5 DEF Near
  <2>2. L = Wire(n) + (r - n)
    BY <1>5, <2>1, LapOfNumber
  <2>3. Wire(r) = Wire(n) <=> r = n
    <3>1. ASSUME Wire(r) = Wire(n), r # n PROVE FALSE
      <4>1. r > n
        BY <1>5, <3>1
      <4>2. r >= n + Space
        BY <1>1, <3>1, <4>1, LapsApart DEF Wire
      <4> QED BY <1>1, <2>1, <4>2
    <3> QED BY <3>1
  <2>4. L \div w = r \div w - q
    <3> DEFINE x == r \div w
               y == r % w
               z == Wire(n)
    <3>1. x \in Nat /\ y \in 0 .. w - 1 /\ r = w * x + y
      BY <1>1, Remainder
    <3>2. n \div w <= x
      BY <1>1, <1>5, QuotientGrows
    <3>3. z \in Nat /\ n = z + w * q /\ z \div w = n \div w - q /\ z \div w \in Nat /\ n \div w \in Nat
      BY <1>2, <1>q
    <3> HIDE DEF x, y, z
    <3>4. x - q \in Nat
      BY <3>1, <3>2, <3>3
    <3>5. z + (r - n) = w * (x - q) + y
      <4> HIDE DEF w
      <4>1. w * (x - q) = w * x - w * q /\ w * x \in Nat /\ w * q \in Nat
        BY <1>1, <3>1, <3>4, SMT
      <4> QED BY <1>1, <3>1, <3>3, <4>1, SMT
    <3>6. (w * (x - q) + y) \div w = x - q
      BY <1>1, <3>1, <3>4, QuotientUnique
    <3> QED BY <2>2, <3>5, <3>6 DEF z, x
  <2>5. L \div w >= Wire(n) \div w
    <3>1. n \div w <= r \div w
      BY <1>1, <1>5, QuotientGrows
    <3> QED BY <1>2, <1>q, <2>4, <3>1
  <2> HIDE DEF L
  <2>6. L \div w \in Wire(n) \div w .. Wire(n) \div w + f - 2 <=> r \div w <= n \div w + (f - 2)
    BY <1>1, <1>2, <1>q, <2>4, <2>5, SMT
  <2> QED BY <1>4, <1>5, <2>3, <2>6 DEF Reach
<1>6. CASE r < n
  <2>1. n - r <= Space - f * w /\ ~ (n <= r)
    BY <1>6 DEF Near
  <2>2. f * w = (f - 1) * w + w /\ (f - 1) * w \in Nat /\ f * w \in Nat
    <3> HIDE DEF f, w
    <3> QED BY <1>1, SMT
  <2>3. n - r < Space /\ n - r <= Space - (f - 1) * w
    <3> HIDE DEF f, w
    <3> QED BY <1>1, <2>1, <2>2, SMT
  <2>4. Wire(r) # Wire(n)
    <3>1. ASSUME Wire(r) = Wire(n) PROVE FALSE
      <4>1. n >= r + Space
        BY <1>1, <1>6, <3>1, LapsApart DEF Wire
      <4> QED BY <1>1, <2>3, <4>1
    <3> QED BY <3>1
  <2>5. L >= Wire(n) + (f - 1) * w
    <3>1. (r % Space) + (IF r % Space < n % Space THEN Space ELSE 0) >= (n % Space) + Space - (n - r)
      BY <1>1, <1>6, <2>3, LapBehind
    <3>2. L >= Wire(n) + Space - (n - r)
      BY <3>1 DEF Lap, Wire
    <3>3. L \in Nat
      BY <1>1, <1>3 DEF Lap
    <3> HIDE DEF L, f, w
    <3> QED BY <1>1, <1>2, <2>2, <2>3, <3>2, <3>3, SMT
  <2>6. L \in Nat
    BY <1>1, <1>3 DEF Lap
  <2> HIDE DEF L
  <2>7. L \div w >= Wire(n) \div w + (f - 1)
    <3> DEFINE z == Wire(n)
               b == z \div w
               y == z % w
    <3>1. b \in Nat /\ y \in 0 .. w - 1 /\ z = w * b + y /\ z \in Nat
      BY <1>1, <1>2, Remainder
    <3> HIDE DEF b, y, z
    <3>2. f - 1 \in Nat /\ b + (f - 1) \in Nat
      BY <1>1, <3>1
    <3>3. w * (b + (f - 1)) + y = z + (f - 1) * w
      <4> HIDE DEF w, f
      <4> QED BY <1>1, <3>1, <3>2, SMT
    <3>4. (w * (b + (f - 1)) + y) \div w = b + (f - 1)
      BY <1>1, <3>1, <3>2, QuotientUnique
    <3>5. (z + (f - 1) * w) \div w <= L \div w
      <4>1. z + (f - 1) * w \in Nat
        BY <1>1, <3>1
      <4> QED BY <1>1, <2>5, <2>6, <4>1, QuotientGrows DEF z
    <3> QED BY <3>3, <3>4, <3>5 DEF b, z
  <2>8. L \div w \in Nat
    BY <1>1, <2>6, Remainder
  <2>9. ~ (L \div w \in Wire(n) \div w .. Wire(n) \div w + f - 2)
    BY <1>1, <1>q, <2>7, <2>8, SMT
  <2> QED BY <1>4, <1>6, <2>1, <2>4, <2>9 DEF Reach
<1> QED BY <1>5, <1>6

\* What is in its windows is not a lap ahead.
LEMMA ReachNear ==
    ASSUME NEW r \in Nat, NEW n \in Nat, Reach(r, n)
    PROVE  n <= r /\ r - n < Space /\ Near(r, n)
<1> DEFINE w == ReliableWindowSize
           f == FreeReliableWindows
           k == ReliableWindows
<1>1. w \in Nat \ {0} /\ Space \in Nat /\ f \in 1 .. k /\ k \in Nat /\ Space = w * k
  BY SpaceSize, WindowsAssumption
<1>2. r \div w \in Nat /\ n \div w \in Nat
  BY <1>1, Remainder
<1>3. n <= r /\ r \div w <= n \div w + (f - 2)
  BY DEF Reach
<1>4. r - n < (f - 1) * w
  <2>1. f - 1 \in Nat /\ r \div w - n \div w < f - 1
    BY <1>1, <1>2, <1>3
  <2> QED BY <1>1, <2>1, NumbersNear
<1>5. (f - 1) * w <= Space
  <2> HIDE DEF w, f, k
  <2>1. f - 1 \in Nat /\ k \in Nat /\ f - 1 <= k
    BY <1>1
  <2>2. w * (f - 1) <= w * k /\ w * (f - 1) \in Nat
    BY <1>1, <2>1, ProductGrows
  <2> QED BY <1>1, <2>1, <2>2, SMT
<1>6. (f - 1) * w \in Nat
  <2> HIDE DEF w, f
  <2> QED BY <1>1, SMT
<1>7. r - n < Space
  <2> HIDE DEF w, f
  <2> QED BY <1>1, <1>3, <1>4, <1>5, <1>6, SMT
<1> QED BY <1>3, <1>7 DEF Near

\* The receiver compares numbers ahead of it as they were made.
LEMMA OrderSeen ==
    ASSUME NEW r \in Nat, NEW s \in Nat, NEW n \in Nat,
           n <= r, r - n < Space, n <= s, s - n < Space
    PROVE  /\ Lap(Wire(r), Wire(n)) < Lap(Wire(s), Wire(n)) <=> r < s
           /\ Wire(r) = Wire(s) <=> r = s
<1>1. Lap(Wire(r), Wire(n)) = Wire(n) + (r - n) /\ Lap(Wire(s), Wire(n)) = Wire(n) + (s - n)
  BY LapOfNumber
<1>2. Wire(n) \in Nat
  BY WindowOfWire
<1>3. Wire(r) = Wire(s) => r = s
  <2>1. Wire(r) = Wire(s) => Wire(n) + (r - n) = Wire(n) + (s - n)
    BY <1>1
  <2> QED BY <1>2, <2>1
<1> QED BY <1>1, <1>2, <1>3

-----------------------------------------------------------------------------
(* The commands the sender makes.                                             *)

Loose(c) == c.kind \in {"unreliable", "fragmented"}
Size(p) == IF packets[p] = "fragmented" THEN Fragments ELSE 1

\* A command is of the kind of its packet and has numbers that were used; a packet
\* that found no unreliable number left is sent as a reliable one.
OfPacket(c) ==
    /\ c.packet \in 1 .. queued
    /\ c.kind = "reliable" =>
          /\ packets[c.packet] # "unsequenced"
          /\ 1 <= c.reliable /\ c.reliable <= c.last /\ c.last <= reliable
    /\ c.kind = "unsequenced" => packets[c.packet] = "unsequenced" /\ c.fragment = 0
    /\ Loose(c) =>
          /\ packets[c.packet] = c.kind
          /\ c.last = c.reliable /\ c.reliable <= reliable
          /\ 1 <= c.unreliable
          /\ c.reliable = reliable => c.unreliable <= unreliable
          /\ c.fragment \in 1 .. Size(c.packet)

\* The numbers of sequenced packets are in the order of the packets.
Follows(c, d) ==
    /\ c.packet < d.packet =>
          /\ c.last <= d.reliable
          /\ d.kind = "reliable" => c.last < d.reliable
          /\ Loose(c) /\ Loose(d) /\ c.reliable = d.reliable => c.unreliable < d.unreliable
    /\ c.packet = d.packet =>
          /\ c.kind = d.kind /\ c.reliable = d.reliable /\ c.unreliable = d.unreliable
          /\ c.kind = "reliable" => c = d

Sequenced(c) == c.kind = "reliable" \/ Loose(c)

\* A reliable packet was made a command, and the command was transmitted.
SentReliable(p) == \E c \in net : c.kind = "reliable" /\ c.packet = p

SenderInv ==
    /\ TypeInv
    /\ \A c \in Known : OfPacket(c)
    /\ \A c, d \in Known : Sequenced(c) /\ Sequenced(d) => Follows(c, d)
    /\ \A i \in DOMAIN outgoing : outgoing[i].kind # "reliable"
    /\ \A p \in 1 .. queued : packets[p] = "reliable" => SentReliable(p)

\* Every number up to the last one used is that of a reliable command.
UsedBy(c, m) == c.kind = "reliable" /\ c.reliable <= m /\ m <= c.last
Covered(n) == \A m \in n + 1 .. reliable : \E c \in net : UsedBy(c, m)

LEMMA SenderFirst == Init => SenderInv
<1> SUFFICES ASSUME Init PROVE SenderInv
  OBVIOUS
<1>1. TypeInv
  BY TypeInit
<1>2. net = {} /\ outgoing = <<>> /\ queued = 0
  BY DEF Init
<1>3. Known = {}
  BY <1>2 DEF Known
<1> QED BY <1>1, <1>2, <1>3 DEF SenderInv

\* What is known is a command.
LEMMA KnownType ==
    ASSUME TypeInv, NEW c \in Known
    PROVE  /\ c \in Commands /\ c.packet \in Nat \ {0} /\ c.kind \in Kinds
           /\ c.reliable \in Nat /\ c.last \in Nat /\ c.unreliable \in Nat /\ c.fragment \in Nat
<1>1. outgoing \in Seq(Commands) /\ net \subseteq Commands
  BY DEF TypeInv, OnceInv, Typed
<1>2. c \in Commands
  BY <1>1 DEF Known
<1> QED BY <1>2 DEF Commands

LEMMA KnownPackets == SenderInv => \A d \in Known : d.packet \in Nat
BY KnownType DEF SenderInv

\* New commands for one packet, with numbers after all those used.
LEMMA SenderGrows ==
    ASSUME SenderInv, TypeInv',
           NEW New, New \subseteq Known', Known' \subseteq Known \cup New,
           packets' = packets, queued' = queued + 1, queued + 1 <= Len(packets),
           reliable <= reliable', reliable' = reliable => unreliable <= unreliable',
           \A c \in New : c.packet = queued + 1 /\ OfPacket(c)',
           \A c \in New : Sequenced(c) =>
               /\ c.reliable >= reliable
               /\ c.kind = "reliable" => c.reliable > reliable
               /\ Loose(c) /\ c.reliable = reliable => c.unreliable > unreliable,
           \A c, d \in New : Sequenced(c) /\ Sequenced(d) => Follows(c, d),
           \A i \in DOMAIN outgoing' : outgoing'[i].kind # "reliable",
           net \subseteq net',
           packets[queued + 1] = "reliable" =>
               \E c \in net' : c.kind = "reliable" /\ c.packet = queued + 1
    PROVE  SenderInv'
<1>1. /\ TypeInv /\ (\A c \in Known : OfPacket(c)) /\ queued \in Nat /\ reliable \in Nat /\ unreliable \in Nat
      /\ reliable' \in Nat /\ unreliable' \in Nat
      /\ \A c, d \in Known : Sequenced(c) /\ Sequenced(d) => Follows(c, d)
  BY DEF SenderInv, TypeInv, OnceInv, Typed
<1>2. ASSUME NEW c \in Known
      PROVE  OfPacket(c)'
  <2>1. /\ c.packet \in Nat \ {0} /\ c.kind \in Kinds /\ c.reliable \in Nat /\ c.last \in Nat
        /\ c.unreliable \in Nat
    BY <1>1, KnownType
  <2>2. OfPacket(c)
    BY <1>1
  <2>3. Size(c.packet)' = Size(c.packet)
    BY DEF Size
  <2>4. c.packet \in 1 .. queued'
    BY <1>1, <2>1, <2>2 DEF OfPacket
  <2>5. CASE Loose(c)
    <3>1. c.reliable <= reliable /\ (c.reliable = reliable => c.unreliable <= unreliable)
      BY <2>2, <2>5 DEF OfPacket
    <3>2. c.reliable <= reliable' /\ (c.reliable = reliable' => c.unreliable <= unreliable')
      BY <1>1, <2>1, <3>1, SMT
    <3> QED BY <2>2, <2>3, <2>4, <2>5, <3>2 DEF OfPacket, Loose
  <2>6. CASE ~ Loose(c)
    <3>1. c.kind = "reliable" => c.last <= reliable'
      BY <1>1, <2>1, <2>2 DEF OfPacket
    <3> QED BY <2>2, <2>4, <2>6, <3>1 DEF OfPacket, Loose
  <2> QED BY <2>5, <2>6
<1>3. ASSUME NEW c \in Known, NEW d \in New, Sequenced(c), Sequenced(d)
      PROVE  Follows(c, d) /\ Follows(d, c)
  <2>1. /\ c.packet \in Nat \ {0} /\ c.kind \in Kinds /\ c.reliable \in Nat /\ c.last \in Nat
        /\ c.unreliable \in Nat
    BY <1>1, KnownType
  <2>2. d.reliable \in Nat /\ d.unreliable \in Nat
    <3>1. d \in Commands
      <4>1. d \in Known'
        OBVIOUS
      <4>2. outgoing' \in Seq(Commands) /\ net' \subseteq Commands
        BY DEF TypeInv, OnceInv, Typed
      <4> QED BY <4>1, <4>2 DEF Known
    <3> QED BY <3>1 DEF Commands
  <2>3. OfPacket(c)
    BY <1>1
  <2>4. c.packet < d.packet
    BY <1>1, <2>1, <2>3 DEF OfPacket
  <2>5. c.last <= reliable /\ (Loose(c) => c.last = c.reliable)
        /\ (Loose(c) /\ c.reliable = reliable => c.unreliable <= unreliable)
    BY <1>3, <2>3 DEF OfPacket, Sequenced
  <2>6. /\ d.reliable >= reliable
        /\ d.kind = "reliable" => d.reliable > reliable
        /\ Loose(d) /\ d.reliable = reliable => d.unreliable > unreliable
    BY <1>3
  <2>7. c.last <= d.reliable /\ (d.kind = "reliable" => c.last < d.reliable)
    BY <1>1, <2>1, <2>2, <2>5, <2>6, SMT
  <2>8. Loose(c) /\ Loose(d) /\ c.reliable = d.reliable => c.unreliable < d.unreliable
    <3> SUFFICES ASSUME Loose(c), Loose(d), c.reliable = d.reliable
                 PROVE  c.unreliable < d.unreliable
      OBVIOUS
    <3>1. c.reliable = reliable /\ d.reliable = reliable
      BY <1>1, <2>1, <2>2, <2>5, <2>6, SMT
    <3> QED BY <1>1, <2>1, <2>2, <2>5, <2>6, <3>1, SMT
  <2>9. d.packet \in Nat
    BY <1>1
  <2>10. ~ (d.packet < c.packet) /\ d.packet # c.packet
    BY <2>1, <2>4, <2>9
  <2> QED BY <2>4, <2>7, <2>8, <2>10 DEF Follows
<1>4. \A c, d \in Known' : Sequenced(c) /\ Sequenced(d) => Follows(c, d)
  BY <1>1, <1>3
<1>5. \A c \in Known' : OfPacket(c)'
  BY <1>2
<1>6. ASSUME NEW p \in 1 .. queued', packets'[p] = "reliable"
      PROVE  SentReliable(p)'
  <2>1. p \in 1 .. queued \/ p = queued + 1
    BY <1>1
  <2>2. CASE p \in 1 .. queued
    <3>1. SentReliable(p)
      BY <1>6, <2>2 DEF SenderInv
    <3> QED BY <3>1 DEF SentReliable
  <2>3. CASE p = queued + 1
    BY <1>6, <2>3 DEF SentReliable
  <2> QED BY <2>1, <2>2, <2>3
<1>7. (\A c, d \in Known : Sequenced(c) /\ Sequenced(d) => Follows(c, d))'
  BY <1>4 DEF Follows, Sequenced, Loose
<1>8. (\A c \in Known : OfPacket(c))'
  BY <1>5
<1>9. (\A p \in 1 .. queued : packets[p] = "reliable" => SentReliable(p))'
  BY <1>6
<1>10. (\A i \in DOMAIN outgoing : outgoing[i].kind # "reliable")'
  OBVIOUS
<1> QED BY <1>7, <1>8, <1>9, <1>10, Zenon DEF SenderInv

\* A reliable command uses the numbers after the last one.
LEMMA SenderReliable ==
    ASSUME SenderInv, TypeInv', NEW count \in Nat \ {0}, SendReliable(count),
           packets' = packets, queued' = queued + 1, queued + 1 <= Len(packets),
           packets[queued + 1] # "unsequenced"
    PROVE  SenderInv' /\ (\A n \in Nat : n <= reliable /\ Covered(n) => Covered(n)')
<1>0. PICK new : new = Command("reliable", reliable + 1, reliable + count, 0, 0)
  OBVIOUS
<1>1. /\ net' = net \cup {new} /\ reliable' = reliable + count /\ unreliable' = 0
      /\ outgoing' = outgoing
  BY <1>0 DEF SendReliable
<1>2. /\ new.packet = queued + 1 /\ new.kind = "reliable" /\ new.reliable = reliable + 1
      /\ new.last = reliable + count
  BY <1>0 DEF Command
<1>3. reliable \in Nat /\ queued \in Nat /\ unreliable \in Nat
  BY DEF SenderInv, TypeInv, OnceInv, Typed
<1>4. {new} \subseteq Known' /\ Known' \subseteq Known \cup {new} /\ net \subseteq net'
  BY <1>1 DEF Known
<1>5. reliable <= reliable' /\ reliable' # reliable
  BY <1>1, <1>3
<1>6. OfPacket(new)'
  <2>1. new.packet \in 1 .. queued' /\ packets'[new.packet] # "unsequenced"
    BY <1>2, <1>3
  <2>2. 1 <= new.reliable /\ new.reliable <= new.last /\ new.last <= reliable'
    BY <1>1, <1>2, <1>3
  <2>3. new.kind # "unsequenced" /\ ~ Loose(new)
    BY <1>2 DEF Loose
  <2> QED BY <2>1, <2>2, <2>3 DEF OfPacket, Loose
<1>7. ~ Loose(new) /\ new.reliable >= reliable /\ new.reliable > reliable
  BY <1>2, <1>3 DEF Loose
<1>8. Follows(new, new)
  BY <1>2, <1>3 DEF Follows
<1>9. \A i \in DOMAIN outgoing' : outgoing'[i].kind # "reliable"
  BY <1>1 DEF SenderInv
<1>10. \E c \in net' : c.kind = "reliable" /\ c.packet = queued + 1
  BY <1>1, <1>2
<1>11. SenderInv'
  <2>0. PICK New : New = {new}
    OBVIOUS
  <2>1. /\ New \subseteq Known' /\ Known' \subseteq Known \cup New
        /\ \A c \in New : c = new
    BY <1>4, <2>0
  <2>2. \A c \in New : c.packet = queued + 1 /\ OfPacket(c)'
    BY <2>1, <1>2, <1>6
  <2>3. \A c \in New : Sequenced(c) =>
               /\ c.reliable >= reliable
               /\ c.kind = "reliable" => c.reliable > reliable
               /\ Loose(c) /\ c.reliable = reliable => c.unreliable > unreliable
    BY <2>1, <1>7
  <2>4. \A c, d \in New : Sequenced(c) /\ Sequenced(d) => Follows(c, d)
    BY <2>1, <1>8
  <2> QED BY <1>4, <1>5, <1>9, <1>10, <2>1, <2>2, <2>3, <2>4, SenderGrows
<1>12. ASSUME NEW n \in Nat, n <= reliable, Covered(n)
       PROVE  Covered(n)'
  <2>1. ASSUME NEW m \in n + 1 .. reliable'
        PROVE  \E c \in net' : UsedBy(c, m)
    <3>1. CASE m \in n + 1 .. reliable
      BY <1>4, <1>12, <3>1 DEF Covered
    <3>2. CASE m \notin n + 1 .. reliable
      <4>1. new.reliable <= m /\ m <= new.last
        BY <1>1, <1>2, <1>3, <1>12, <3>2
      <4> QED BY <1>1, <1>2, <4>1 DEF UsedBy
    <3> QED BY <3>1, <3>2
  <2> QED BY <2>1 DEF Covered
<1> QED BY <1>11, <1>12

\* A packet that is not sequenced uses no number of the sequenced ones.
LEMMA SenderUnsequenced ==
    ASSUME SenderInv, TypeInv', SendUnsequenced,
           packets' = packets, queued' = queued + 1, queued + 1 <= Len(packets),
           packets[queued + 1] = "unsequenced"
    PROVE  SenderInv'
<1>0. PICK new : new = [Command("unsequenced", 0, 0, 0, 0) EXCEPT !.group = group + 1]
  OBVIOUS
<1>1. /\ outgoing' = Append(outgoing, new) /\ net' = net
      /\ reliable' = reliable /\ unreliable' = unreliable
  BY <1>0 DEF SendUnsequenced
<1>2. /\ new.packet = queued + 1 /\ new.kind = "unsequenced" /\ new.fragment = 0
  BY <1>0 DEF Command
<1>3. /\ reliable \in Nat /\ queued \in Nat /\ unreliable \in Nat /\ outgoing \in Seq(Commands)
      /\ \A i \in DOMAIN outgoing : outgoing[i].kind # "reliable"
  BY DEF SenderInv, TypeInv, OnceInv, Typed
<1>4. \A i \in DOMAIN outgoing' : outgoing'[i] = new
              \/ (i \in DOMAIN outgoing /\ outgoing'[i] = outgoing[i])
  BY <1>1, <1>3
<1>5. \A i \in DOMAIN outgoing : i \in DOMAIN outgoing' /\ outgoing'[i] = outgoing[i]
  BY <1>1, <1>3
<1>6. \E i \in DOMAIN outgoing' : outgoing'[i] = new
  <2>1. Len(outgoing) + 1 \in DOMAIN outgoing' /\ outgoing'[Len(outgoing) + 1] = new
    BY <1>1, <1>3
  <2> QED BY <2>1
<1>7. {new} \subseteq Known' /\ Known' \subseteq Known \cup {new}
  BY <1>1, <1>4, <1>6 DEF Known
<1>8. ~ Sequenced(new) /\ ~ Loose(new) /\ new.kind # "reliable"
  BY <1>2 DEF Sequenced, Loose
<1>9. OfPacket(new)'
  <2>1. new.packet \in 1 .. queued' /\ packets'[new.packet] = "unsequenced"
    BY <1>2, <1>3
  <2> QED BY <1>2, <1>8, <2>1 DEF OfPacket, Loose
<1>10. \A i \in DOMAIN outgoing' : outgoing'[i].kind # "reliable"
  BY <1>3, <1>4, <1>8
<1>n. PICK New : New = {new}
  OBVIOUS
<1>11. /\ New \subseteq Known' /\ Known' \subseteq Known \cup New
       /\ \A c \in New : c = new
  BY <1>7, <1>n
<1>12. \A c \in New : c.packet = queued + 1 /\ OfPacket(c)'
  BY <1>11, <1>2, <1>9
<1>13. \A c \in New : ~ Sequenced(c)
  BY <1>11, <1>8
<1>14. reliable <= reliable' /\ (reliable' = reliable => unreliable <= unreliable') /\ net \subseteq net'
  BY <1>1, <1>3
<1> QED BY <1>10, <1>11, <1>12, <1>13, <1>14, SenderGrows

\* The fragments of an unreliable packet have the next number after the last
\* reliable one.
LEMMA SenderUnreliable ==
    ASSUME SenderInv, TypeInv', NEW kind, kind \in {"unreliable", "fragmented"},
           NEW count \in Nat, SendUnreliable(kind, count), ~ NoNumberLeft(unreliable),
           packets' = packets, queued' = queued + 1, queued + 1 <= Len(packets),
           packets[queued + 1] = kind, count = Size(queued + 1)
    PROVE  SenderInv'
<1> DEFINE u == (unreliable + 1) % (LastUnreliable + 1)
           more == [f \in 1 .. count |-> Command(kind, reliable, reliable, u, f)]
<1>1. /\ outgoing' = outgoing \o more /\ net' = net
      /\ reliable' = reliable /\ unreliable' = u
  BY DEF SendUnreliable
<1>2. /\ reliable \in Nat /\ queued \in Nat /\ unreliable \in Nat /\ outgoing \in Seq(Commands)
      /\ \A i \in DOMAIN outgoing : outgoing[i].kind # "reliable"
      /\ LastUnreliable \in Nat
  BY SpaceSize DEF SenderInv, TypeInv, OnceInv, Typed
<1>3. u = unreliable + 1
  <2>1. unreliable < LastUnreliable
    BY <1>2 DEF NoNumberLeft
  <2>2. unreliable + 1 \in Nat /\ LastUnreliable + 1 \in Nat \ {0} /\ unreliable + 1 < LastUnreliable + 1
    BY <1>2, <2>1
  <2> QED BY <2>2, QuotientBounds
<1> HIDE DEF u
<1>n. PICK New : New = {Command(kind, reliable, reliable, u, f) : f \in 1 .. count}
  OBVIOUS
<1> DEFINE Is(c) == /\ c.packet = queued + 1 /\ c.kind = kind /\ c.reliable = reliable
                    /\ c.last = reliable /\ c.unreliable = u /\ c.fragment \in 1 .. count
<1>4. \A c \in New : Is(c)
  BY <1>n DEF Command
<1>5. more \in Seq(New) /\ Len(more) = count /\ \A f \in 1 .. count : more[f] \in New
  BY <1>n
<1>6. \A c \in New : \E f \in 1 .. count : more[f] = c
  BY <1>n
<1> HIDE DEF more
<1>7. \A i \in DOMAIN outgoing' :
         \/ i \in DOMAIN outgoing /\ outgoing'[i] = outgoing[i]
         \/ i - Len(outgoing) \in 1 .. count /\ outgoing'[i] = more[i - Len(outgoing)]
  BY <1>1, <1>2, <1>5
<1>8. \A f \in 1 .. count : /\ Len(outgoing) + f \in DOMAIN outgoing'
                            /\ outgoing'[Len(outgoing) + f] = more[f]
  BY <1>1, <1>2, <1>5
<1>9. New \subseteq Known' /\ Known' \subseteq Known \cup New
  <2>1. New \subseteq Known'
    BY <1>6, <1>8 DEF Known
  <2>2. \A c \in Known' : c \in Known \/ c \in New
    BY <1>1, <1>5, <1>7 DEF Known
  <2> QED BY <2>1, <2>2
<1>10. \A i \in DOMAIN outgoing' : outgoing'[i].kind # "reliable"
  <2>1. \A c \in New : c.kind # "reliable"
    BY <1>4
  <2> QED BY <1>2, <1>5, <1>7, <2>1
<1>11. reliable <= reliable' /\ unreliable <= unreliable' /\ net \subseteq net'
  BY <1>1, <1>2, <1>3
<1>12. ASSUME NEW c \in New
       PROVE  c.packet = queued + 1 /\ OfPacket(c)'
  <2>1. Is(c)
    BY <1>4
  <2>2. c.packet \in 1 .. queued' /\ packets'[c.packet] = c.kind /\ Size(c.packet)' = count
    <3>1. queued + 1 \in 1 .. queued'
      BY <1>2
    <3>2. Size(queued + 1) = count /\ \A p : Size(p)' = Size(p)
      BY DEF Size
    <3> QED BY <2>1, <3>1, <3>2
  <2>3. c.kind # "reliable" /\ c.kind # "unsequenced"
    BY <2>1
  <2>4. /\ c.last = c.reliable /\ c.reliable <= reliable' /\ 1 <= c.unreliable
        /\ c.unreliable <= unreliable' /\ c.fragment \in 1 .. count
    BY <1>1, <1>2, <1>3, <2>1
  <2> QED BY <2>1, <2>2, <2>3, <2>4 DEF OfPacket
<1>13. \A c \in New : Sequenced(c) =>
               /\ c.reliable >= reliable
               /\ c.kind = "reliable" => c.reliable > reliable
               /\ Loose(c) /\ c.reliable = reliable => c.unreliable > unreliable
  BY <1>2, <1>3, <1>4
<1>14. \A c, d \in New : Follows(c, d)
  <2> SUFFICES ASSUME NEW c \in New, NEW d \in New PROVE Follows(c, d)
    OBVIOUS
  <2>1. Is(c) /\ Is(d)
    BY <1>4
  <2> QED BY <1>2, <2>1 DEF Follows
<1>15. packets[queued + 1] # "reliable"
  OBVIOUS
<1> HIDE DEF Is
<1> QED BY <1>9, <1>10, <1>11, <1>12, <1>13, <1>14, <1>15, SenderGrows

\* The sender's steps.
LEMMA SenderSends ==
    ASSUME SenderInv, TypeInv', Send
    PROVE  SenderInv' /\ \A n \in Nat : n <= reliable /\ Covered(n) => Covered(n)'
<1>1. /\ packets' = packets /\ queued' = queued + 1 /\ queued < Len(packets)
      /\ packets \in Seq(Kinds) /\ queued \in Nat /\ Fragments \in Nat \ {0}
  BY FragmentsAssumption DEF Send, SenderInv, TypeInv, OnceInv, Typed
<1>2. queued + 1 <= Len(packets) /\ packets[queued + 1] \in Kinds
  BY <1>1
<1>3. ASSUME net' = net, reliable' = reliable, SenderInv'
      PROVE  SenderInv' /\ \A n \in Nat : n <= reliable /\ Covered(n) => Covered(n)'
  BY <1>3 DEF Covered
<1> DEFINE kind == packets[queued + 1]
           count == IF kind = "fragmented" THEN Fragments ELSE 1
<1>4. count = Size(queued + 1) /\ count \in Nat \ {0}
  BY <1>1 DEF Size
<1>5. \/ kind = "reliable" /\ SendReliable(1)
      \/ kind = "unsequenced" /\ SendUnsequenced
      \/ /\ kind \in {"unreliable", "fragmented"}
         /\ \/ SendReliable(count)
            \/ ~ NoNumberLeft(unreliable) /\ SendUnreliable(kind, count)
  BY DEF Send
<1> HIDE DEF kind, count
<1>6. CASE kind = "reliable" /\ SendReliable(1)
  <2>1. packets[queued + 1] # "unsequenced"
    BY <1>6 DEF kind
  <2> QED BY <1>1, <1>2, <1>6, <2>1, SenderReliable
<1>7. CASE kind = "unsequenced" /\ SendUnsequenced
  <2>1. packets[queued + 1] = "unsequenced"
    BY <1>7 DEF kind
  <2>2. SenderInv'
    BY <1>1, <1>2, <1>7, <2>1, SenderUnsequenced
  <2>3. net' = net /\ reliable' = reliable
    BY <1>7 DEF SendUnsequenced
  <2> QED BY <1>3, <2>2, <2>3
<1>8. CASE kind \in {"unreliable", "fragmented"} /\ SendReliable(count)
  <2>1. packets[queued + 1] # "unsequenced"
    BY <1>8 DEF kind
  <2> QED BY <1>1, <1>2, <1>4, <1>8, <2>1, SenderReliable
<1>9. CASE /\ kind \in {"unreliable", "fragmented"}
           /\ ~ NoNumberLeft(unreliable) /\ SendUnreliable(kind, count)
  <2>1. packets[queued + 1] = kind
    BY DEF kind
  <2>2. SenderInv'
    BY <1>1, <1>2, <1>4, <1>9, <2>1, SenderUnreliable
  <2>3. net' = net /\ reliable' = reliable
    BY <1>9 DEF SendUnreliable
  <2> QED BY <1>3, <2>2, <2>3
<1> QED BY <1>5, <1>6, <1>7, <1>8, <1>9

\* Commands that are handed on, or dropped.
LEMMA SenderHands ==
    ASSUME SenderInv, TypeInv', Transmit \/ Drop
    PROVE  SenderInv' /\ \A n \in Nat : Covered(n) => Covered(n)'
<1>1. Known' \subseteq Known /\ UNCHANGED numbers
  BY HandedOn DEF SenderInv, TypeInv
<1>2. packets' = packets /\ queued' = queued /\ net \subseteq net'
  BY DEF Transmit, Drop
<1>3. reliable' = reliable /\ unreliable' = unreliable
  BY <1>1 DEF numbers
<1>4. \A i \in DOMAIN outgoing' : outgoing'[i].kind # "reliable"
  <2>1. outgoing \in Seq(Commands) /\ \A i \in DOMAIN outgoing : outgoing[i].kind # "reliable"
    BY DEF SenderInv, TypeInv, OnceInv, Typed
  <2>2. CASE Transmit
    <3>1. outgoing # <<>> /\ outgoing' = Tail(outgoing)
      BY <2>2 DEF Transmit
    <3>2. \A i \in DOMAIN outgoing' : i + 1 \in DOMAIN outgoing /\ outgoing'[i] = outgoing[i + 1]
      BY <2>1, <3>1
    <3> QED BY <2>1, <3>2
  <2>3. CASE Drop
    <3>1. PICK k \in 1 .. Len(outgoing) : outgoing' = SubSeq(outgoing, k + 1, Len(outgoing))
      BY <2>3 DEF Drop
    <3>2. \A i \in DOMAIN outgoing' : k + i \in DOMAIN outgoing /\ outgoing'[i] = outgoing[k + i]
      BY <2>1, <3>1
    <3> QED BY <2>1, <3>2
  <2> QED BY <2>2, <2>3
<1>5. \A c \in Known' : OfPacket(c)'
  <2>1. \A c : OfPacket(c) => OfPacket(c)'
    BY <1>2, <1>3 DEF OfPacket, Size
  <2> QED BY <1>1, <2>1 DEF SenderInv
<1>6. \A p \in 1 .. queued' : packets'[p] = "reliable" => SentReliable(p)'
  BY <1>2 DEF SenderInv, SentReliable
<1>7. (\A c, d \in Known : Sequenced(c) /\ Sequenced(d) => Follows(c, d))'
  BY <1>1 DEF SenderInv, Follows, Sequenced, Loose
<1>8. SenderInv'
  <2>1. (\A i \in DOMAIN outgoing : outgoing[i].kind # "reliable")'
    BY <1>4
  <2>2. (\A c \in Known : OfPacket(c))'
    BY <1>5
  <2>3. (\A p \in 1 .. queued : packets[p] = "reliable" => SentReliable(p))'
    BY <1>6
  <2> QED BY <1>7, <2>1, <2>2, <2>3, Zenon DEF SenderInv
<1>9. \A n \in Nat : Covered(n) => Covered(n)'
  BY <1>2, <1>3 DEF Covered
<1> QED BY <1>8, <1>9

\* The receiver's steps leave the sender as it is.
LEMMA SenderStays ==
    ASSUME SenderInv, TypeInv', UNCHANGED sender
    PROVE  SenderInv' /\ \A n \in Nat : Covered(n) => Covered(n)'
<1>1. UNCHANGED <<packets, queued, reliable, unreliable, outgoing, net>>
  BY DEF sender, numbers
<1>2. Known' = Known
  BY <1>1 DEF Known
<1>3. \A c : OfPacket(c)' <=> OfPacket(c)
  BY <1>1 DEF OfPacket, Size
<1>4. \A p : SentReliable(p)' <=> SentReliable(p)
  BY <1>1 DEF SentReliable
<1>5. (\A c, d \in Known : Sequenced(c) /\ Sequenced(d) => Follows(c, d))'
  BY <1>2 DEF SenderInv, Follows, Sequenced, Loose
<1>6. (\A i \in DOMAIN outgoing : outgoing[i].kind # "reliable")'
  BY <1>1 DEF SenderInv
<1>7. (\A c \in Known : OfPacket(c))'
  BY <1>2, <1>3 DEF SenderInv
<1>8. (\A p \in 1 .. queued : packets[p] = "reliable" => SentReliable(p))'
  BY <1>1, <1>4 DEF SenderInv
<1>9. SenderInv'
  BY <1>5, <1>6, <1>7, <1>8, Zenon DEF SenderInv
<1>10. \A n \in Nat : Covered(n) => Covered(n)'
  BY <1>1 DEF Covered
<1> QED BY <1>9, <1>10

-----------------------------------------------------------------------------
(* What the other program was given.                                          *)

\* The data of a packet, given out whole.
WholeOf(p) == {{<<p, 0>>}, {<<p, f>> : f \in 1 .. Size(p)}}
Packets(D) == [i \in DOMAIN D |-> PacketGiven(D[i])]
IsGiven(D, p) == \E i \in DOMAIN D : D[i] = {<<p, 0>>}

\* It is that of no other packet.
LEMMA WholeData ==
    ASSUME NEW p, NEW data \in WholeOf(p)
    PROVE  data # {} /\ \A x \in data : x[1] = p
<1>1. Size(p) \in Nat \ {0}
  BY FragmentsAssumption DEF Size
<1>2. CASE data = {<<p, 0>>}
  BY <1>2
<1>3. CASE data = {<<p, f>> : f \in 1 .. Size(p)}
  <2>1. 1 \in 1 .. Size(p)
    BY <1>1
  <2>2. <<p, 1>> \in data
    BY <1>3, <2>1
  <2>3. ASSUME NEW x \in data PROVE x[1] = p
    <3>1. PICK f \in 1 .. Size(p) : x = <<p, f>>
      BY <1>3
    <3> QED BY <3>1
  <2> QED BY <2>2, <2>3
<1> QED BY <1>2, <1>3 DEF WholeOf

LEMMA PacketOfData ==
    ASSUME NEW p \in 1 .. queued, NEW data \in WholeOf(p)
    PROVE  PacketGiven(data) = p
<1> DEFINE Whole(q) == data \in {{<<q, 0>>},
                                 {<<q, f>> : f \in 1 .. IF packets[q] = "fragmented"
                                                        THEN Fragments ELSE 1}}
<1>1. \A q : Whole(q) <=> data \in WholeOf(q)
  BY DEF WholeOf, Size
<1>2. PacketGiven(data) = IF \E q \in 1 .. queued : Whole(q)
                          THEN CHOOSE q \in 1 .. queued : Whole(q)
                          ELSE 0
  BY DEF PacketGiven
<1> HIDE DEF Whole
<1>3. \A q : Whole(q) => q = p
  <2> SUFFICES ASSUME NEW q, Whole(q) PROVE q = p
    OBVIOUS
  <2>1. data # {} /\ (\A x \in data : x[1] = p) /\ (\A x \in data : x[1] = q)
    BY <1>1, WholeData
  <2> QED BY <2>1
<1>4. Whole(p)
  BY <1>1
<1> QED BY <1>2, <1>3, <1>4

LEMMA PacketsOfData == \A q \in 1 .. queued : \A data \in WholeOf(q) : PacketGiven(data) = q
BY PacketOfData

\* What was given is whole packets that were sent.
Named(D) == \A i \in DOMAIN D : \E p \in 1 .. queued : D[i] \in WholeOf(p)

LEMMA NamedPacket ==
    ASSUME NEW D, Named(D), NEW i \in DOMAIN D
    PROVE  Packets(D)[i] \in 1 .. queued /\ D[i] \in WholeOf(Packets(D)[i])
<1>1. PICK p \in 1 .. queued : D[i] \in WholeOf(p)
  BY DEF Named
<1>2. PacketGiven(D[i]) = p
  BY <1>1, PacketOfData
<1>3. Packets(D)[i] = p
  BY <1>2 DEF Packets
<1> QED BY <1>1, <1>3

\* One packet more.
LEMMA OneMore ==
    ASSUME NEW D \in Seq(SUBSET Parts), Named(D), Lossy!Legal(Packets(D)), queued \in Nat,
           NEW p \in 1 .. queued, NEW data \in WholeOf(p),
           \A i \in DOMAIN D :
               /\ Packets(D)[i] # p
               /\ packets[Packets(D)[i]] # "unsequenced" /\ packets[p] # "unsequenced"
                    => Packets(D)[i] < p,
           packets[p] # "unsequenced" =>
               \A q \in 1 .. p - 1 : packets[q] = "reliable" => IsGiven(D, q)
    PROVE  LET E == Append(D, data) IN
           /\ Len(E) = Len(D) + 1 /\ Len(D) \in Nat /\ DOMAIN D = 1 .. Len(D)
           /\ DOMAIN E = 1 .. Len(D) + 1
           /\ \A i \in DOMAIN D : E[i] = D[i] /\ Packets(E)[i] = Packets(D)[i]
           /\ E[Len(D) + 1] = data /\ Packets(E)[Len(D) + 1] = p
           /\ Named(E)
           /\ Lossy!Legal(Packets(E))
<1> DEFINE E == Append(D, data)
           n == Len(D)
<1>1. /\ n \in Nat /\ DOMAIN D = 1 .. n /\ DOMAIN E = 1 .. n + 1 /\ Len(E) = n + 1
      /\ \A i \in 1 .. n : E[i] = D[i]
      /\ E[n + 1] = data
  OBVIOUS
<1> HIDE DEF E, n
<1>2. \A i \in 1 .. n : Packets(E)[i] = Packets(D)[i]
  BY <1>1 DEF Packets
<1>3. Packets(E)[n + 1] = p
  BY <1>1, PacketOfData DEF Packets
<1>4. Named(E)
  <2>1. \A i \in 1 .. n + 1 : i \in 1 .. n \/ i = n + 1
    BY <1>1
  <2> QED BY <1>1, <2>1 DEF Named
<1>5. DOMAIN Packets(D) = 1 .. n /\ DOMAIN Packets(E) = 1 .. n + 1
  BY <1>1 DEF Packets
<1>6. \A i \in 1 .. n : Packets(D)[i] \in 1 .. queued
  BY <1>1, NamedPacket
<1> DEFINE d == Packets(D)
           e == Packets(E)
           Step(g, j) == /\ g[j] \in 1 .. queued
                         /\ \A i \in 1 .. j - 1 :
                               /\ g[i] # g[j]
                               /\ packets[g[i]] # "unsequenced" /\ packets[g[j]] # "unsequenced"
                                    => g[i] < g[j]
                         /\ packets[g[j]] # "unsequenced" =>
                               \A q \in 1 .. g[j] - 1 :
                                  packets[q] = "reliable" => \E i \in 1 .. j - 1 : g[i] = q
<1>7. \A g : Lossy!Legal(g) <=> \A j \in DOMAIN g : Step(g, j)
  BY DEF Lossy!Legal, Lossy!Sequenced
<1>8. ASSUME NEW j \in 1 .. n PROVE Step(e, j)
  <2>1. Step(d, j)
    BY <1>5, <1>7
  <2>2. \A i \in 1 .. j : e[i] = d[i]
    BY <1>1, <1>2
  <2>3. \A i \in 1 .. j - 1 : e[i] = d[i]
    BY <1>1, <2>2
  <2>4. e[j] = d[j]
    BY <1>2
  <2> HIDE DEF d, e
  <2>5. e[j] \in 1 .. queued
    BY <2>1, <2>4
  <2>6. \A i \in 1 .. j - 1 :
           /\ e[i] # e[j]
           /\ packets[e[i]] # "unsequenced" /\ packets[e[j]] # "unsequenced" => e[i] < e[j]
    BY <2>1, <2>3, <2>4
  <2>7. ASSUME packets[e[j]] # "unsequenced", NEW q \in 1 .. e[j] - 1, packets[q] = "reliable"
        PROVE  \E i \in 1 .. j - 1 : e[i] = q
    <3>1. packets[d[j]] # "unsequenced" /\ q \in 1 .. d[j] - 1
      BY <2>4, <2>7
    <3>2. \E i \in 1 .. j - 1 : d[i] = q
      BY <2>1, <2>7, <3>1
    <3> QED BY <2>3, <3>2
  <2> QED BY <2>5, <2>6, <2>7
<1>9. Step(e, n + 1)
  <2>1. \A i \in 1 .. (n + 1) - 1 : i \in 1 .. n /\ e[i] = d[i]
    BY <1>1, <1>2
  <2>2. e[n + 1] = p
    BY <1>3
  <2>3. packets[p] # "unsequenced" =>
           \A q \in 1 .. p - 1 : packets[q] = "reliable" => \E i \in 1 .. n : d[i] = q
    <3> SUFFICES ASSUME packets[p] # "unsequenced", NEW q \in 1 .. p - 1, packets[q] = "reliable"
                 PROVE  \E i \in 1 .. n : d[i] = q
      OBVIOUS
    <3>1. PICK i \in DOMAIN D : D[i] = {<<q, 0>>}
      BY DEF IsGiven
    <3>2. q \in 1 .. queued /\ {<<q, 0>>} \in WholeOf(q)
      BY DEF WholeOf
    <3>3. d[i] = q
      BY <3>1, <3>2, PacketOfData DEF Packets
    <3> QED BY <1>1, <3>3
  <2>4. \A i \in 1 .. n : d[i] # p /\
              (packets[d[i]] # "unsequenced" /\ packets[p] # "unsequenced" => d[i] < p)
    BY <1>1
  <2>5. \A i \in 1 .. n : i \in 1 .. (n + 1) - 1
    BY <1>1
  <2> HIDE DEF d, e
  <2> QED BY <2>1, <2>2, <2>3, <2>4, <2>5
<1>10. \A j \in 1 .. n + 1 : j \in 1 .. n \/ j = n + 1
  BY <1>1
<1>11. Lossy!Legal(e)
  <2> HIDE DEF Step
  <2> QED BY <1>5, <1>7, <1>8, <1>9, <1>10
<1> QED BY <1>1, <1>2, <1>3, <1>4, <1>11 DEF E, n

\* A command whose packet is still to come, for a receiver of reliable number n
\* and unreliable number u.
Beyond(c, n, u) ==
    \/ c.kind = "reliable" /\ c.reliable > n
    \/ Loose(c) /\ (c.reliable > n \/ (c.reliable = n /\ c.unreliable > u))

\* All reliable packets up to number n were given, and no other.
ReliableGiven(D, n) ==
    \A c \in net : c.kind = "reliable" =>
        \/ c.last <= n /\ IsGiven(D, c.packet)
        \/ c.reliable > n /\ ~ IsGiven(D, c.packet)

\* The sequenced packets that were given are before those that are to come.
Passed(D, n, u) ==
    \A i \in DOMAIN D : packets[Packets(D)[i]] # "unsequenced" =>
        \A c \in Known : Beyond(c, n, u) => Packets(D)[i] < c.packet

Progress(D, n, u) ==
    /\ D \in Seq(SUBSET Parts)
    /\ Named(D)
    /\ Lossy!Legal(Packets(D))
    /\ ReliableGiven(D, n)
    /\ Passed(D, n, u)

\* What is given with one packet more.
LEMMA GivenMore ==
    ASSUME NEW D \in Seq(SUBSET Parts), NEW data, NEW q
    PROVE  IsGiven(Append(D, data), q) <=> IsGiven(D, q) \/ data = {<<q, 0>>}
<1> DEFINE E == Append(D, data)
           n == Len(D)
<1>1. /\ n \in Nat /\ DOMAIN D = 1 .. n /\ DOMAIN E = 1 .. n + 1
      /\ \A i \in 1 .. n : E[i] = D[i]
      /\ E[n + 1] = data
  OBVIOUS
<1> HIDE DEF E, n
<1>2. \A i \in 1 .. n + 1 : i \in 1 .. n \/ i = n + 1
  BY <1>1
<1>3. \A i \in 1 .. n : i \in 1 .. n + 1
  BY <1>1
<1>4. n + 1 \in 1 .. n + 1
  BY <1>1
<1>5. IsGiven(E, q) <=> IsGiven(D, q) \/ data = {<<q, 0>>}
  BY <1>1, <1>2, <1>3, <1>4 DEF IsGiven
<1> QED BY <1>5 DEF E

\* What sequenced commands of the sender say of each other.
LEMMA InSenderOrder ==
    ASSUME SenderInv, NEW c \in Known, NEW d \in Known, Sequenced(c), Sequenced(d)
    PROVE  /\ c.packet \in 1 .. queued /\ c.packet \in Nat /\ packets[c.packet] # "unsequenced"
           /\ c.reliable \in Nat /\ c.last \in Nat /\ c.unreliable \in Nat
           /\ c.reliable <= c.last /\ c.last <= reliable /\ (Loose(c) => c.reliable = c.last)
           /\ Loose(c) => 1 <= c.unreliable /\ packets[c.packet] = c.kind
           /\ c.kind \in {"reliable", "unreliable", "fragmented"}
           /\ Follows(c, d)
<1>1. /\ c.packet \in Nat \ {0} /\ c.reliable \in Nat /\ c.last \in Nat /\ c.unreliable \in Nat
  BY KnownType DEF SenderInv
<1>2. OfPacket(c) /\ Follows(c, d)
  BY DEF SenderInv
<1>3. packets[c.packet] # "unsequenced"
  BY <1>2 DEF Sequenced, Loose, OfPacket
<1>4. c.reliable <= c.last /\ c.last <= reliable /\ (Loose(c) => c.reliable = c.last)
  <2>1. CASE Loose(c)
    <3>1. c.last = c.reliable /\ c.reliable <= reliable
      BY <1>2, <2>1 DEF OfPacket
    <3> QED BY <1>1, <3>1
  <2>2. CASE ~ Loose(c)
    BY <1>2, <2>2 DEF Sequenced, OfPacket
  <2> QED BY <2>1, <2>2
<1>5. Loose(c) => 1 <= c.unreliable /\ packets[c.packet] = c.kind
  BY <1>2 DEF OfPacket
<1>6. c.kind \in {"reliable", "unreliable", "fragmented"}
  BY DEF Sequenced, Loose
<1>7. c.packet \in 1 .. queued
  BY <1>2 DEF OfPacket
<1> QED BY <1>1, <1>2, <1>3, <1>4, <1>5, <1>6, <1>7

\* An unreliable packet that waits for no reliable one.
LEMMA GiveLoose ==
    ASSUME SenderInv, NEW D, NEW n \in Nat, NEW u \in Nat, Progress(D, n, u),
           NEW c \in Known, Loose(c), c.reliable = n, c.unreliable > u,
           NEW data \in SUBSET Parts, data \in WholeOf(c.packet)
    PROVE  Progress(Append(D, data), n, c.unreliable)
<1> DEFINE E == Append(D, data)
<1> USE DEF Sequenced
<1>1. D \in Seq(SUBSET Parts) /\ Named(D) /\ Lossy!Legal(Packets(D)) /\ ReliableGiven(D, n)
      /\ Passed(D, n, u) /\ queued \in Nat
  BY DEF Progress, SenderInv, TypeInv, OnceInv, Typed
<1>2. PICK p \in 1 .. queued : p = c.packet
  BY InSenderOrder
<1>3. /\ packets[p] # "unsequenced" /\ packets[p] = c.kind /\ c.kind # "reliable"
      /\ c.unreliable \in Nat
  BY <1>2, InSenderOrder DEF Loose
<1>4. \A i \in DOMAIN D :
         /\ Packets(D)[i] # p
         /\ packets[Packets(D)[i]] # "unsequenced" /\ packets[p] # "unsequenced" => Packets(D)[i] < p
  <2> SUFFICES ASSUME NEW i \in DOMAIN D, packets[Packets(D)[i]] # "unsequenced"
               PROVE  Packets(D)[i] # p /\ Packets(D)[i] < p
    BY <1>3
  <2>1. Beyond(c, n, u)
    BY DEF Beyond
  <2>2. Packets(D)[i] < p
    BY <1>1, <1>2, <2>1 DEF Passed
  <2>3. Packets(D)[i] \in 1 .. queued
    BY <1>1, NamedPacket
  <2> QED BY <1>1, <2>2, <2>3
<1>5. ASSUME NEW q \in 1 .. p - 1, packets[q] = "reliable"
      PROVE  IsGiven(D, q)
  <2>1. q \in 1 .. queued /\ q < p
    BY <1>1
  <2>2. PICK d \in net : d.kind = "reliable" /\ d.packet = q
    BY <1>5, <2>1 DEF SenderInv, SentReliable
  <2>3. d \in Known
    BY DEF Known
  <2>4. Follows(d, c) /\ d.reliable \in Nat /\ d.last \in Nat /\ d.reliable <= d.last
    BY <2>2, <2>3, InSenderOrder
  <2>5. d.last <= n
    BY <1>2, <2>1, <2>2, <2>4 DEF Follows
  <2>6. (d.last <= n /\ IsGiven(D, d.packet)) \/ d.reliable > n
    BY <1>1, <2>2 DEF ReliableGiven
  <2> QED BY <2>2, <2>4, <2>5, <2>6
<1>6. /\ Len(E) = Len(D) + 1 /\ Len(D) \in Nat /\ DOMAIN D = 1 .. Len(D)
      /\ DOMAIN E = 1 .. Len(D) + 1
      /\ \A i \in DOMAIN D : E[i] = D[i] /\ Packets(E)[i] = Packets(D)[i]
      /\ Packets(E)[Len(D) + 1] = p
      /\ Named(E)
      /\ Lossy!Legal(Packets(E))
  BY <1>1, <1>2, <1>4, <1>5, OneMore
<1>7. E \in Seq(SUBSET Parts)
  BY <1>1
<1>8. \A q : IsGiven(E, q) <=> IsGiven(D, q) \/ data = {<<q, 0>>}
  BY <1>1, GivenMore
<1> HIDE DEF E
<1>9. ReliableGiven(E, n)
  <2> SUFFICES ASSUME NEW d \in net, d.kind = "reliable"
               PROVE  IsGiven(E, d.packet) <=> IsGiven(D, d.packet)
    BY <1>1 DEF ReliableGiven
  <2>1. d \in Known
    BY DEF Known
  <2>2. d.packet # p
    <3>1. Follows(d, c)
      BY <2>1, InSenderOrder
    <3> QED BY <1>2, <1>3, <3>1 DEF Follows
  <2>3. data # {<<d.packet, 0>>}
    <3>1. {<<d.packet, 0>>} \in WholeOf(d.packet)
      BY DEF WholeOf
    <3>2. data # {} /\ \A x \in data : x[1] = p
      BY <1>2, WholeData
    <3>3. data = {<<d.packet, 0>>} => \A x \in data : x[1] = d.packet
      BY <3>1, WholeData
    <3> QED BY <2>2, <3>2, <3>3
  <2> QED BY <1>8, <2>3
<1>10. Passed(E, n, c.unreliable)
  <2> SUFFICES ASSUME NEW i \in 1 .. Len(D) + 1, packets[Packets(E)[i]] # "unsequenced",
                      NEW d \in Known, Beyond(d, n, c.unreliable)
               PROVE  Packets(E)[i] < d.packet
    BY <1>6 DEF Passed
  <2>1. /\ d.reliable \in Nat /\ d.last \in Nat /\ d.unreliable \in Nat /\ d.packet \in Nat
        /\ Follows(d, c) /\ d.reliable <= d.last /\ (Loose(d) => d.reliable = d.last)
        /\ Sequenced(d)
    <3>1. Sequenced(d)
      BY DEF Beyond
    <3> QED BY <3>1, InSenderOrder
  <2>2. CASE i \in DOMAIN D
    <3>1. Beyond(d, n, u)
      BY <1>3, <2>1 DEF Beyond
    <3> QED BY <1>1, <1>6, <2>2, <3>1 DEF Passed
  <2>3. CASE i = Len(D) + 1
    <3>1. ~ (d.packet < p)
      <4> SUFFICES ASSUME d.packet < p PROVE FALSE
        OBVIOUS
      <4>1. d.last <= n /\ (Loose(d) /\ d.reliable = n => d.unreliable < c.unreliable)
        BY <1>2, <2>1 DEF Follows
      <4> QED BY <1>3, <2>1, <4>1 DEF Beyond
    <3>2. d.packet # p
      <4> SUFFICES ASSUME d.packet = p PROVE FALSE
        OBVIOUS
      <4>1. d.reliable = n /\ d.unreliable = c.unreliable
        BY <1>2, <2>1 DEF Follows
      <4> QED BY <1>3, <2>1, <4>1 DEF Beyond
    <3> QED BY <1>2, <1>6, <2>1, <2>3, <3>1, <3>2
  <2> QED BY <1>6, <2>2, <2>3
<1> QED BY <1>6, <1>7, <1>9, <1>10 DEF Progress, E

\* The next reliable packet.
LEMMA GiveReliable ==
    ASSUME SenderInv, NEW D, NEW n \in Nat, NEW u \in Nat, Progress(D, n, u),
           NEW c \in net, c.kind = "reliable", c.reliable = n + 1
    PROVE  /\ Progress(Append(D, {<<c.packet, 0>>}), c.last, 0)
           /\ c.last \in Nat /\ n < c.last /\ c.last <= reliable
<1> DEFINE data == {<<c.packet, 0>>}
           E == Append(D, data)
<1> USE DEF Sequenced
<1>1. D \in Seq(SUBSET Parts) /\ Named(D) /\ Lossy!Legal(Packets(D)) /\ ReliableGiven(D, n)
      /\ Passed(D, n, u) /\ queued \in Nat
  BY DEF Progress, SenderInv, TypeInv, OnceInv, Typed
<1>k. c \in Known
  BY DEF Known
<1>2. PICK p \in 1 .. queued : p = c.packet
  BY <1>k, InSenderOrder
<1>3. /\ packets[p] # "unsequenced" /\ c.last \in Nat /\ c.last > n /\ c.last <= reliable
  BY <1>2, <1>k, InSenderOrder
<1>d. data \in WholeOf(p) /\ data \in SUBSET Parts
  BY <1>2 DEF WholeOf, Parts
<1>4. \A i \in DOMAIN D :
         /\ Packets(D)[i] # p
         /\ packets[Packets(D)[i]] # "unsequenced" /\ packets[p] # "unsequenced" => Packets(D)[i] < p
  <2> SUFFICES ASSUME NEW i \in DOMAIN D, packets[Packets(D)[i]] # "unsequenced"
               PROVE  Packets(D)[i] # p /\ Packets(D)[i] < p
    BY <1>3
  <2>1. Beyond(c, n, u)
    BY DEF Beyond
  <2>2. Packets(D)[i] < p
    BY <1>1, <1>2, <1>k, <2>1 DEF Passed
  <2>3. Packets(D)[i] \in 1 .. queued
    BY <1>1, NamedPacket
  <2> QED BY <1>1, <2>2, <2>3
<1>5. ASSUME NEW q \in 1 .. p - 1, packets[q] = "reliable"
      PROVE  IsGiven(D, q)
  <2>1. q \in 1 .. queued /\ q < p
    BY <1>1
  <2>2. PICK d \in net : d.kind = "reliable" /\ d.packet = q
    BY <1>5, <2>1 DEF SenderInv, SentReliable
  <2>3. d \in Known
    BY DEF Known
  <2>4. Follows(d, c) /\ d.reliable \in Nat /\ d.last \in Nat /\ d.reliable <= d.last
    BY <1>k, <2>2, <2>3, InSenderOrder
  <2>5. d.last < n + 1
    BY <1>2, <2>1, <2>2, <2>4 DEF Follows
  <2>6. (d.last <= n /\ IsGiven(D, d.packet)) \/ d.reliable > n
    BY <1>1, <2>2 DEF ReliableGiven
  <2> QED BY <2>2, <2>4, <2>5, <2>6
<1> HIDE DEF data
<1>6. /\ Len(E) = Len(D) + 1 /\ Len(D) \in Nat /\ DOMAIN D = 1 .. Len(D)
      /\ DOMAIN E = 1 .. Len(D) + 1
      /\ \A i \in DOMAIN D : E[i] = D[i] /\ Packets(E)[i] = Packets(D)[i]
      /\ Packets(E)[Len(D) + 1] = p
      /\ Named(E)
      /\ Lossy!Legal(Packets(E))
  BY <1>1, <1>d, <1>4, <1>5, OneMore
<1>7. E \in Seq(SUBSET Parts)
  BY <1>1, <1>d
<1>8. \A q : IsGiven(E, q) <=> IsGiven(D, q) \/ data = {<<q, 0>>}
  BY <1>1, GivenMore
<1> HIDE DEF E
<1>9. ReliableGiven(E, c.last)
  <2> SUFFICES ASSUME NEW d \in net, d.kind = "reliable"
               PROVE  \/ d.last <= c.last /\ IsGiven(E, d.packet)
                      \/ d.reliable > c.last /\ ~ IsGiven(E, d.packet)
    BY DEF ReliableGiven
  <2>1. d \in Known
    BY DEF Known
  <2>2. /\ Follows(d, c) /\ Follows(c, d) /\ d.reliable \in Nat /\ d.last \in Nat
        /\ d.reliable <= d.last /\ d.packet \in Nat
    BY <1>k, <2>1, InSenderOrder
  <2>3. \/ d.last <= n /\ IsGiven(D, d.packet)
        \/ d.reliable > n /\ ~ IsGiven(D, d.packet)
    BY <1>1 DEF ReliableGiven
  <2>4. CASE d.packet < p
    <3>1. d.last < n + 1
      BY <1>2, <2>2, <2>4 DEF Follows
    <3>2. IsGiven(D, d.packet) /\ d.last <= c.last
      BY <1>3, <2>2, <2>3, <3>1
    <3> QED BY <1>8, <3>2
  <2>5. CASE d.packet = p
    <3>1. d = c
      BY <1>2, <2>2, <2>5 DEF Follows
    <3>2. data = {<<d.packet, 0>>}
      BY <3>1 DEF data
    <3> QED BY <1>3, <1>8, <3>1, <3>2
  <2>6. CASE d.packet > p
    <3>1. d.reliable > c.last
      BY <1>2, <1>3, <2>2, <2>6 DEF Follows
    <3>2. ~ IsGiven(D, d.packet)
      BY <1>3, <2>2, <2>3, <3>1
    <3>3. data # {<<d.packet, 0>>}
      <4>1. d.packet # c.packet
        BY <1>2, <2>2, <2>6
      <4>2. <<c.packet, 0>> # <<d.packet, 0>>
        BY <4>1
      <4> QED BY <4>2 DEF data
    <3> QED BY <1>8, <3>1, <3>2, <3>3
  <2> QED BY <1>2, <2>2, <2>4, <2>5, <2>6
<1>10. Passed(E, c.last, 0)
  <2> SUFFICES ASSUME NEW i \in 1 .. Len(D) + 1, packets[Packets(E)[i]] # "unsequenced",
                      NEW d \in Known, Beyond(d, c.last, 0)
               PROVE  Packets(E)[i] < d.packet
    BY <1>6 DEF Passed
  <2>1. /\ d.reliable \in Nat /\ d.last \in Nat /\ d.unreliable \in Nat /\ d.packet \in Nat
        /\ Follows(d, c) /\ d.reliable <= d.last /\ (Loose(d) => d.reliable = d.last)
        /\ Sequenced(d)
    <3>1. Sequenced(d)
      BY DEF Beyond
    <3> QED BY <1>k, <3>1, InSenderOrder
  <2>2. CASE i \in DOMAIN D
    <3>1. Beyond(d, n, u)
      BY <1>3, <2>1 DEF Beyond
    <3> QED BY <1>1, <1>6, <2>2, <3>1 DEF Passed
  <2>3. CASE i = Len(D) + 1
    <3>1. ~ (d.packet < p)
      <4> SUFFICES ASSUME d.packet < p PROVE FALSE
        OBVIOUS
      <4>1. d.last < n + 1
        BY <1>2, <2>1 DEF Follows
      <4> QED BY <1>3, <2>1, <4>1 DEF Beyond
    <3>2. d.packet # p
      <4> SUFFICES ASSUME d.packet = p PROVE FALSE
        OBVIOUS
      <4>1. d.kind = "reliable" /\ d = c
        BY <1>2, <2>1 DEF Follows
      <4> QED BY <1>3, <2>1, <4>1 DEF Beyond, Loose
    <3> QED BY <1>2, <1>6, <2>1, <2>3, <3>1, <3>2
  <2> QED BY <1>6, <2>2, <2>3
<1>11. Progress(E, c.last, 0)
  BY <1>6, <1>7, <1>9, <1>10 DEF Progress
<1> QED BY <1>3, <1>11 DEF E, data

\* A packet that is not sequenced.
LEMMA GiveUnsequenced ==
    ASSUME SenderInv, NEW D, NEW n \in Nat, NEW u \in Nat, Progress(D, n, u),
           NEW p \in 1 .. queued, packets[p] = "unsequenced",
           \A i \in DOMAIN D : Packets(D)[i] # p
    PROVE  Progress(Append(D, {<<p, 0>>}), n, u)
<1> DEFINE data == {<<p, 0>>}
           E == Append(D, data)
<1> USE DEF Sequenced
<1>1. D \in Seq(SUBSET Parts) /\ Named(D) /\ Lossy!Legal(Packets(D)) /\ ReliableGiven(D, n)
      /\ Passed(D, n, u) /\ queued \in Nat
  BY DEF Progress, SenderInv, TypeInv, OnceInv, Typed
<1>2. data \in WholeOf(p) /\ data \in SUBSET Parts
  BY <1>1 DEF WholeOf, Parts
<1> HIDE DEF data
<1>3. /\ Len(E) = Len(D) + 1 /\ Len(D) \in Nat /\ DOMAIN D = 1 .. Len(D)
      /\ DOMAIN E = 1 .. Len(D) + 1
      /\ \A i \in DOMAIN D : E[i] = D[i] /\ Packets(E)[i] = Packets(D)[i]
      /\ Packets(E)[Len(D) + 1] = p
      /\ Named(E)
      /\ Lossy!Legal(Packets(E))
  BY <1>1, <1>2, OneMore
<1>4. E \in Seq(SUBSET Parts)
  BY <1>1, <1>2
<1>5. \A q : IsGiven(E, q) <=> IsGiven(D, q) \/ data = {<<q, 0>>}
  BY <1>1, GivenMore
<1> HIDE DEF E
<1>6. ReliableGiven(E, n)
  <2> SUFFICES ASSUME NEW d \in net, d.kind = "reliable"
               PROVE  IsGiven(E, d.packet) <=> IsGiven(D, d.packet)
    BY <1>1 DEF ReliableGiven
  <2>1. packets[d.packet] # "unsequenced"
    <3>1. d \in Known
      BY DEF Known
    <3> QED BY <3>1, InSenderOrder
  <2>2. data # {<<d.packet, 0>>}
    <3>1. d.packet # p
      BY <2>1
    <3>2. <<p, 0>> # <<d.packet, 0>>
      BY <3>1
    <3> QED BY <3>2 DEF data
  <2> QED BY <1>5, <2>2
<1>7. Passed(E, n, u)
  <2>1. \A i \in 1 .. Len(D) + 1 : i \in DOMAIN D \/ i = Len(D) + 1
    BY <1>3
  <2> QED BY <1>1, <1>3, <2>1 DEF Passed
<1> QED BY <1>3, <1>4, <1>6, <1>7 DEF Progress, E, data

-----------------------------------------------------------------------------
(* What the receiver keeps of the unreliable packets.                         *)

\* The entry of the packet of a command that arrived.
Source(e, c) ==
    /\ Loose(c)
    /\ e.kind = c.kind
    /\ e.reliable = Wire(c.reliable)
    /\ e.unreliable = c.unreliable
    /\ e.count = Size(c.packet)
    /\ e.data # {}
    /\ e.data \subseteq {<<c.packet, f>> : f \in 1 .. Size(c.packet)}

\* The entries are in the order of their packets.
ListOrdered(list) ==
    \A i, j \in DOMAIN list : i < j =>
        \A c, d \in net : Source(list[i], c) /\ Source(list[j], d) => c.packet < d.packet

\* An entry that a receiver of numbers n and u keeps.
KeptAt(e, c, n, u) ==
    /\ Source(e, c)
    /\ Reach(c.reliable, n)
    /\ c.reliable = n => c.unreliable > u /\ ~ Complete(e)

Kept(list, n, u) == \A i \in DOMAIN list : \E c \in net : KeptAt(list[i], c, n, u)

\* An entry that it may have kept before the number became n.
KnownAt(e, c, n, u) ==
    /\ Source(e, c)
    /\ Near(c.reliable, n)
    /\ n <= c.reliable => Reach(c.reliable, n)
    /\ c.reliable = n => c.unreliable > u

\* A packet has one entry, and an entry is of one packet.
LEMMA SourceOnce ==
    ASSUME NEW e, NEW c, NEW d, Source(e, c), Source(e, d)
    PROVE  c.packet = d.packet
<1>1. PICK x \in e.data : TRUE
  BY DEF Source
<1>2. x \in {<<c.packet, f>> : f \in 1 .. Size(c.packet)}
      /\ x \in {<<d.packet, f>> : f \in 1 .. Size(d.packet)}
  BY DEF Source
<1>3. x[1] = c.packet
  <2>1. PICK f \in 1 .. Size(c.packet) : x = <<c.packet, f>>
    BY <1>2
  <2> QED BY <2>1
<1>4. x[1] = d.packet
  <2>1. PICK f \in 1 .. Size(d.packet) : x = <<d.packet, f>>
    BY <1>2
  <2> QED BY <2>1
<1> QED BY <1>3, <1>4

\* What the receiver tells of such an entry.
LEMMA EntrySeen ==
    ASSUME NEW e, NEW c, NEW n \in Nat, NEW u, c.reliable \in Nat, KnownAt(e, c, n, u)
    PROVE  /\ e.kind # "unsequenced"
           /\ Waits(e, Wire(n)) <=> c.reliable > n
           /\ Ready(e, Wire(n)) <=> c.reliable = n /\ Complete(e)
           /\ Unfinished(e, Wire(n)) <=> c.reliable = n /\ ~ Complete(e)
<1>1. /\ e.kind \in {"unreliable", "fragmented"} /\ e.reliable = Wire(c.reliable)
      /\ Near(c.reliable, n) /\ (n <= c.reliable => Reach(c.reliable, n))
  BY DEF KnownAt, Source, Loose
<1>2. /\ Wire(c.reliable) = Wire(n) <=> c.reliable = n
      /\ InWindow(Wire(c.reliable), Wire(n)) <=> Reach(c.reliable, n)
  BY <1>1, NumberSeen
<1>3. Reach(c.reliable, n) => n <= c.reliable
  BY DEF Reach
<1>4. e.kind # "unsequenced"
  BY <1>1
<1>5. Waits(e, Wire(n)) <=> c.reliable > n
  <2>1. Waits(e, Wire(n)) <=> c.reliable # n /\ Reach(c.reliable, n)
    BY <1>1, <1>2, <1>4 DEF Waits
  <2>2. c.reliable # n /\ Reach(c.reliable, n) <=> c.reliable > n
    BY <1>1, <1>3
  <2> QED BY <2>1, <2>2
<1>6. /\ Ready(e, Wire(n)) <=> c.reliable = n /\ Complete(e)
      /\ Unfinished(e, Wire(n)) <=> c.reliable = n /\ ~ Complete(e)
  BY <1>1, <1>2, <1>4 DEF Ready, Unfinished
<1> QED BY <1>4, <1>5, <1>6

\* A complete entry is the packet, whole.
LEMMA CompleteWhole ==
    ASSUME NEW e, NEW c, Source(e, c), Complete(e)
    PROVE  e.data \in WholeOf(c.packet)
<1> DEFINE s == Size(c.packet)
           all == {<<c.packet, f>> : f \in 1 .. s}
           f == [x \in 1 .. s |-> <<c.packet, x>>]
<1>1. s \in Nat \ {0}
  BY FragmentsAssumption DEF Size
<1>2. e.data \subseteq all /\ Cardinality(e.data) = s
  BY DEF Source, Complete
<1> HIDE DEF s
<1>3. IsFiniteSet(1 .. s) /\ Cardinality(1 .. s) = s
  BY <1>1, FS_Interval
<1>4. f \in Bijection(1 .. s, all)
  <2>1. \A x \in 1 .. s : f[x] = <<c.packet, x>>
    OBVIOUS
  <2>2. f \in [1 .. s -> all]
    OBVIOUS
  <2>3. \A x, y \in 1 .. s : f[x] = f[y] => x = y
    BY <2>1
  <2>4. \A z \in all : \E x \in 1 .. s : f[x] = z
    OBVIOUS
  <2> HIDE DEF f, all
  <2>5. f \in Injection(1 .. s, all)
    BY <2>2, <2>3 DEF Injection, IsInjective
  <2>6. f \in Surjection(1 .. s, all)
    BY <2>2, <2>4 DEF Surjection
  <2> QED BY <2>5, <2>6 DEF Bijection
<1> HIDE DEF f, all
<1>5. IsFiniteSet(all) /\ Cardinality(all) = s
  BY <1>3, <1>4, FS_Bijection DEF ExistsBijection
<1>6. e.data = all
  BY <1>2, <1>5, FS_Subset
<1> QED BY <1>6 DEF all, WholeOf, s

\* The entry of a packet that is not sequenced and was not given yet.
Loner(e, D) ==
    /\ e.kind = "unsequenced"
    /\ \E p \in 1 .. queued :
          /\ packets[p] = "unsequenced"
          /\ e.data = {<<p, 0>>}
          /\ \A i \in DOMAIN D : Packets(D)[i] # p

\* A list as the dispatch finds it.
ListKnown(list, D, n, u) ==
    /\ \A i \in DOMAIN list :
          \/ i = 1 /\ Loner(list[i], D)
          \/ \E c \in net : KnownAt(list[i], c, n, u)
    /\ ListOrdered(list)

\* A packet that is not sequenced was given before or is at the head of the list.
OnlyHead(E, D, list) ==
    \A i \in DOMAIN E : packets[Packets(E)[i]] = "unsequenced" =>
        \/ \E j \in DOMAIN D : Packets(D)[j] = Packets(E)[i]
        \/ list # <<>> /\ list[1].kind = "unsequenced" /\ list[1].data = {<<Packets(E)[i], 0>>}

\* The number that the first i entries leave.
LeftBy(v, list, i, n, u) ==
    \/ v = u
    \/ \E m \in 1 .. i : /\ Ready(list[m], Wire(n))
                         /\ list[m].kind # "unsequenced"
                         /\ v = list[m].unreliable

\* What the loop has done after i entries.
MovedSo(so, list, i, D, n, u) ==
    /\ so \in MovedStates
    /\ i = 0 => so.moved = <<>>
    /\ Progress(D \o so.moved, n, so.unreliable)
    /\ LeftBy(so.unreliable, list, i, n, u)
    /\ OnlyHead(D \o so.moved, D, list)

\* An entry after another that the dispatch gave out has a higher number.
LEMMA LaterEntry ==
    ASSUME SenderInv, NEW list \in Seq(Entries), NEW D, NEW n \in Nat, NEW u \in Nat,
           ListKnown(list, D, n, u), NEW m \in DOMAIN list, NEW i \in DOMAIN list, m < i,
           list[m].kind # "unsequenced", NEW c \in net, KnownAt(list[i], c, n, u)
    PROVE  \E d \in net : /\ KnownAt(list[m], d, n, u) /\ d.reliable \in Nat
                          /\ d.unreliable \in Nat
                          /\ c.reliable \in Nat /\ c.unreliable \in Nat
                          /\ d.reliable <= c.reliable
                          /\ d.reliable = c.reliable => d.unreliable < c.unreliable
<1>1. PICK d \in net : KnownAt(list[m], d, n, u)
  BY DEF ListKnown, Loner
<1>2. c \in Known /\ d \in Known /\ Loose(c) /\ Loose(d)
  BY <1>1 DEF Known, KnownAt, Source
<1>3. d.packet < c.packet
  BY <1>1 DEF ListKnown, ListOrdered, KnownAt
<1>4. /\ c.reliable \in Nat /\ c.unreliable \in Nat
      /\ d.reliable \in Nat /\ d.unreliable \in Nat /\ Follows(d, c) /\ d.reliable = d.last
  BY <1>2, InSenderOrder DEF Sequenced
<1>5. d.reliable <= c.reliable /\ (d.reliable = c.reliable => d.unreliable < c.unreliable)
  BY <1>2, <1>3, <1>4 DEF Follows
<1> QED BY <1>1, <1>4, <1>5

\* Sequences put together and one element more.
LEMMA GivenAfter ==
    ASSUME NEW S, NEW a \in Seq(S), NEW b \in Seq(S), NEW x \in S
    PROVE  a \o b \in Seq(S) /\ a \o Append(b, x) = Append(a \o b, x)
<1>1. <<x>> \in Seq(S) /\ a \o b \in Seq(S)
  OBVIOUS
<1>2. Append(b, x) = b \o <<x>> /\ Append(a \o b, x) = (a \o b) \o <<x>>
  BY <1>1, AppendIsConcat
<1> QED BY <1>1, <1>2, ConcatAssociative

\* A round of the loop.
LEMMA MovedKeeps ==
    ASSUME SenderInv, NEW list \in Seq(Entries), NEW D, D \in Seq(SUBSET Parts),
           NEW n \in Nat, NEW u \in Nat,
           ListKnown(list, D, n, u), NEW i \in DOMAIN list, NEW so,
           MovedSo(so, list, i - 1, D, n, u)
    PROVE  MovedSo(NextMoved(so, list[i], Wire(n)), list, i, D, n, u)
<1> DEFINE e == list[i]
           w == Wire(n)
<1>1. /\ so.moved \in Seq(SUBSET Parts) /\ so.unreliable \in Nat
      /\ Progress(D \o so.moved, n, so.unreliable)
      /\ LeftBy(so.unreliable, list, i - 1, n, u)
      /\ OnlyHead(D \o so.moved, D, list)
      /\ so \in MovedStates
  BY DEF MovedSo, MovedStates
<1>2. e \in Entries /\ e.data \in SUBSET Parts /\ i \in Nat \ {0} /\ Len(list) \in Nat
      /\ DOMAIN list = 1 .. Len(list)
  <2>1. e \in Entries /\ i \in Nat \ {0} /\ Len(list) \in Nat /\ DOMAIN list = 1 .. Len(list)
    OBVIOUS
  <2> QED BY <2>1 DEF Entries
<1>3. NextMoved(so, e, w) \in MovedStates
  BY <1>1, <1>2, NextMovedType
<1>4. LeftBy(so.unreliable, list, i, n, u)
  <2>1. \A m \in 1 .. i - 1 : m \in 1 .. i
    BY <1>2
  <2> QED BY <1>1, <2>1 DEF LeftBy
<1> DEFINE E == D \o so.moved
           F == D \o Append(so.moved, e.data)
<1>5. F = Append(E, e.data) /\ E \in Seq(SUBSET Parts)
  <2> HIDE DEF e
  <2>1. PICK T, b, x : T = SUBSET Parts /\ b = so.moved /\ x = e.data
    OBVIOUS
  <2>2. D \in Seq(T) /\ b \in Seq(T) /\ x \in T
    BY <1>1, <1>2, <2>1
  <2>3. D \o b \in Seq(T) /\ D \o Append(b, x) = Append(D \o b, x)
    BY <2>2, GivenAfter
  <2> QED BY <2>1, <2>3
<1>6. /\ DOMAIN F = 1 .. Len(E) + 1 /\ DOMAIN E = 1 .. Len(E) /\ Len(E) \in Nat
      /\ \A j \in DOMAIN E : Packets(F)[j] = Packets(E)[j]
      /\ Packets(F)[Len(E) + 1] = PacketGiven(e.data)
  <2> HIDE DEF E, F, e
  <2>1. /\ DOMAIN F = 1 .. Len(E) + 1 /\ DOMAIN E = 1 .. Len(E) /\ Len(E) \in Nat
        /\ (\A j \in DOMAIN E : F[j] = E[j]) /\ F[Len(E) + 1] = e.data
    BY <1>5
  <2> QED BY <2>1 DEF Packets
<1>7. ASSUME packets[PacketGiven(e.data)] = "unsequenced" =>
                 /\ i = 1 /\ e.kind = "unsequenced"
                 /\ e.data = {<<PacketGiven(e.data), 0>>}
      PROVE  OnlyHead(F, D, list)
  <2> HIDE DEF E, F
  <2> SUFFICES ASSUME NEW j \in DOMAIN F, packets[Packets(F)[j]] = "unsequenced"
               PROVE  \/ \E x \in DOMAIN D : Packets(D)[x] = Packets(F)[j]
                      \/ /\ list # <<>> /\ list[1].kind = "unsequenced"
                         /\ list[1].data = {<<Packets(F)[j], 0>>}
    BY DEF OnlyHead
  <2>1. CASE j \in DOMAIN E
    BY <1>1, <1>6, <2>1 DEF OnlyHead, E
  <2>2. CASE j = Len(E) + 1
    <3>1. list # <<>>
      BY <1>2
    <3> QED BY <1>6, <1>7, <2>2, <3>1
  <2> QED BY <1>6, <2>1, <2>2
<1>8. CASE ~ Ready(e, w)
  <2>1. NextMoved(so, e, w) = so
    BY <1>8 DEF NextMoved
  <2>2. ~ (i = 0)
    BY <1>2
  <2> HIDE DEF e, w
  <2> QED BY <1>1, <1>4, <2>1, <2>2 DEF MovedSo, e, w
<1>9. CASE Ready(e, w) /\ e.kind = "unsequenced"
  <2>1. NextMoved(so, e, w) = [moved |-> Append(so.moved, e.data), unreliable |-> so.unreliable]
    BY <1>9 DEF NextMoved
  <2>2. ~ \E c \in net : KnownAt(e, c, n, u)
    BY <1>9 DEF KnownAt, Source, Loose
  <2>3. i = 1 /\ Loner(e, D)
    BY <2>2 DEF ListKnown
  <2>4. PICK p \in 1 .. queued : /\ packets[p] = "unsequenced" /\ e.data = {<<p, 0>>}
                                 /\ \A j \in DOMAIN D : Packets(D)[j] # p
    BY <2>3 DEF Loner
  <2>5. E = D
    <3>1. so.moved = <<>>
      BY <2>3 DEF MovedSo
    <3> QED BY <3>1
  <2>6. Progress(F, n, so.unreliable)
    <3> HIDE DEF E, F, e
    <3>1. Progress(Append(E, {<<p, 0>>}), n, so.unreliable)
      BY <1>1, <2>4, <2>5, GiveUnsequenced DEF E
    <3> QED BY <1>5, <2>4, <3>1
  <2>7. OnlyHead(F, D, list)
    <3>1. {<<p, 0>>} \in WholeOf(p)
      BY DEF WholeOf
    <3>2. PacketGiven(e.data) = p
      BY <2>4, <3>1, PacketOfData
    <3> QED BY <1>7, <1>9, <2>3, <2>4, <3>2
  <2>8. ~ (i = 0)
    BY <1>2
  <2> DEFINE next == NextMoved(so, e, w)
  <2>9. next.moved = Append(so.moved, e.data) /\ next.unreliable = so.unreliable
    BY <2>1
  <2>10. next \in MovedStates /\ Progress(D \o next.moved, n, next.unreliable)
         /\ LeftBy(next.unreliable, list, i, n, u) /\ OnlyHead(D \o next.moved, D, list)
    BY <1>3, <1>4, <2>6, <2>7, <2>9
  <2> HIDE DEF next
  <2>11. MovedSo(next, list, i, D, n, u)
    BY <2>8, <2>10 DEF MovedSo
  <2> QED BY <2>11 DEF next
<1>10. CASE Ready(e, w) /\ e.kind # "unsequenced"
  <2>1. NextMoved(so, e, w) = [moved |-> Append(so.moved, e.data), unreliable |-> e.unreliable]
    BY <1>10 DEF NextMoved
  <2>2. PICK c \in net : KnownAt(e, c, n, u)
    BY <1>10 DEF ListKnown, Loner
  <2>3. c \in Known /\ Loose(c) /\ Source(e, c)
    BY <2>2 DEF Known, KnownAt, Source
  <2>4. c.reliable \in Nat /\ c.unreliable \in Nat /\ c.packet \in 1 .. queued
        /\ packets[c.packet] # "unsequenced"
    BY <2>3, InSenderOrder DEF Sequenced
  <2>5. c.reliable = n /\ Complete(e)
    BY <1>10, <2>2, <2>4, EntrySeen
  <2>6. e.data \in WholeOf(c.packet) /\ e.unreliable = c.unreliable
    BY <2>3, <2>5, CompleteWhole DEF Source
  <2>7. c.unreliable > so.unreliable
    <3>1. CASE so.unreliable = u
      BY <2>2, <2>5, <3>1 DEF KnownAt
    <3>2. CASE \E m \in 1 .. i - 1 : /\ Ready(list[m], w) /\ list[m].kind # "unsequenced"
                                     /\ so.unreliable = list[m].unreliable
      <4>1. PICK m \in 1 .. i - 1 : /\ Ready(list[m], w) /\ list[m].kind # "unsequenced"
                                    /\ so.unreliable = list[m].unreliable
        BY <3>2
      <4>2. m \in DOMAIN list /\ m < i
        BY <1>2
      <4>3. PICK d \in net : /\ KnownAt(list[m], d, n, u) /\ d.reliable \in Nat
                             /\ d.unreliable \in Nat
                             /\ d.reliable = c.reliable => d.unreliable < c.unreliable
        BY <2>2, <4>1, <4>2, LaterEntry
      <4>4. d.reliable = n
        BY <4>1, <4>3, EntrySeen
      <4>5. list[m].unreliable = d.unreliable
        BY <4>3 DEF KnownAt, Source
      <4> QED BY <2>4, <2>5, <4>1, <4>3, <4>4, <4>5
    <3> QED BY <1>1, <3>1, <3>2 DEF LeftBy
  <2>8. Progress(F, n, c.unreliable)
    <3> HIDE DEF E, F, e
    <3>1. Progress(Append(E, e.data), n, c.unreliable)
      BY <1>1, <1>2, <2>3, <2>5, <2>6, <2>7, GiveLoose DEF E
    <3> QED BY <1>5, <3>1
  <2>9. OnlyHead(F, D, list)
    <3>1. PacketGiven(e.data) = c.packet
      BY <2>4, <2>6, PacketOfData
    <3> QED BY <1>7, <2>4, <3>1
  <2>10. LeftBy(e.unreliable, list, i, n, u)
    <3>1. i \in 1 .. i
      BY <1>2
    <3> QED BY <1>10, <3>1 DEF LeftBy
  <2>11. ~ (i = 0)
    BY <1>2
  <2> DEFINE next == NextMoved(so, e, w)
  <2>12. next.moved = Append(so.moved, e.data) /\ next.unreliable = e.unreliable
    BY <2>1
  <2>13. next \in MovedStates /\ Progress(D \o next.moved, n, next.unreliable)
         /\ LeftBy(next.unreliable, list, i, n, u) /\ OnlyHead(D \o next.moved, D, list)
    BY <1>3, <2>6, <2>8, <2>9, <2>10, <2>12
  <2> HIDE DEF next
  <2>14. MovedSo(next, list, i, D, n, u)
    BY <2>11, <2>13 DEF MovedSo
  <2> QED BY <2>14 DEF next
<1> QED BY <1>8, <1>9, <1>10

\* The loop, up to the packet it stops at.
LEMMA MovedAll ==
    ASSUME SenderInv, NEW list \in Seq(Entries), NEW D, D \in Seq(SUBSET Parts),
           NEW n \in Nat, NEW u \in 0 .. LastUnreliable, Progress(D, n, u),
           ListKnown(list, D, n, u), NEW stop \in 1 .. Len(list) + 1
    PROVE  MovedSo(Moved(list, stop, Wire(n), u), list, stop - 1, D, n, u)
<1> DEFINE k == stop - 1
           w == Wire(n)
<1>1. k \in Nat /\ k <= Len(list) /\ Len(list) \in Nat /\ u \in Nat /\ DOMAIN list = 1 .. Len(list)
  <2>1. LastUnreliable \in Nat
    BY SpaceSize
  <2> QED BY <2>1
<1>2. PICK after \in [0 .. k -> MovedStates] : MovedRounds(after, list, stop, w, u)
  BY MovedLoop
<1>3. /\ after[0] = [moved |-> <<>>, unreliable |-> u]
      /\ \A i \in 1 .. k : after[i] = NextMoved(after[i - 1], list[i], w)
      /\ Moved(list, stop, w, u) = after[k]
  BY <1>2 DEF MovedRounds
<1> HIDE DEF k, w
<1> DEFINE S == {i \in 0 .. k : MovedSo(after[i], list, i, D, n, u)}
           f == [i \in 0 .. k |-> i]
<1>4. f[0] \in S
  <2>1. 0 \in 0 .. k /\ f[0] = 0
    BY <1>1
  <2>2. after[0] \in MovedStates
    BY <1>2, <2>1
  <2>3. after[0].moved = <<>> /\ after[0].unreliable = u
    BY <1>3
  <2>4. D \o <<>> = D
    OBVIOUS
  <2>5. LeftBy(u, list, 0, n, u)
    BY DEF LeftBy
  <2>6. OnlyHead(D, D, list)
    BY DEF OnlyHead
  <2>7. MovedSo(after[0], list, 0, D, n, u)
    <3> DEFINE so == after[0]
    <3> HIDE DEF so
    <3>1. so \in MovedStates /\ so.moved = <<>> /\ D \o so.moved = D /\ so.unreliable = u
      BY <2>2, <2>3, <2>4 DEF so
    <3>2. MovedSo(so, list, 0, D, n, u)
      BY <2>5, <2>6, <3>1 DEF MovedSo
    <3> QED BY <3>2 DEF so
  <2> QED BY <2>1, <2>7
<1>5. ASSUME NEW i \in 1 .. k, f[i - 1] \in S
      PROVE  f[i] \in S
  <2>1. i - 1 \in 0 .. k /\ i \in 0 .. k /\ i \in DOMAIN list
    BY <1>1
  <2>2. MovedSo(after[i - 1], list, i - 1, D, n, u)
    BY <1>5, <2>1
  <2>3. MovedSo(NextMoved(after[i - 1], list[i], w), list, i, D, n, u)
    BY <1>1, <2>1, <2>2, MovedKeeps DEF w
  <2> QED BY <1>3, <2>1, <2>3
<1>6. \A i \in 0 .. k : f[i] \in S
  <2> HIDE DEF f, S
  <2> QED BY <1>1, <1>4, <1>5, LoopInvariant
<1>7. k \in 0 .. k /\ f[k] = k
  BY <1>1
<1>8. MovedSo(after[k], list, k, D, n, u)
  BY <1>6, <1>7
<1> QED BY <1>3, <1>8 DEF k, w

\* One call gives packets in sequence and leaves what waits.
LEMMA DispatchKeeps ==
    ASSUME SenderInv, NEW list \in Seq(Entries), NEW D, NEW n \in Nat,
           NEW u \in 0 .. LastUnreliable, Progress(D, n, u), ListKnown(list, D, n, u)
    PROVE  LET result == DispatchUnreliable(list, Wire(n), u) IN
           /\ Progress(D \o result.moved, n, result.unreliable)
           /\ OnlyHead(D \o result.moved, D, list)
           /\ Kept(result.list, n, result.unreliable)
           /\ ListOrdered(result.list)
<1> DEFINE w == Wire(n)
           stop == StopAt(list, w)
           k == KeptFrom(list, stop, w)
           ready == Moved(list, stop, w, u)
<1>1. /\ D \in Seq(SUBSET Parts) /\ Len(list) \in Nat /\ DOMAIN list = 1 .. Len(list)
      /\ u \in Nat
  <2>1. LastUnreliable \in Nat
    BY SpaceSize
  <2> QED BY <2>1 DEF Progress
<1>2. /\ stop \in 1 .. Len(list) + 1
      /\ stop <= Len(list) => Waits(list[stop], w)
      /\ \A j \in 1 .. stop - 1 : ~ Waits(list[j], w)
  BY StopExists DEF StopsAt
<1>3. MovedSo(ready, list, stop - 1, D, n, u)
  BY <1>1, <1>2, MovedAll
<1>4. DispatchUnreliable(list, w, u)
         = [list |-> SubSeq(list, k, Len(list)), moved |-> ready.moved,
            unreliable |-> ready.unreliable]
  BY DEF DispatchUnreliable
<1> HIDE DEF stop, ready
<1>5. k \in 1 .. stop /\ \A i \in k .. stop - 1 : Unfinished(list[i], w)
  <2>1. stop \in Nat \ {0}
    BY <1>1, <1>2
  <2> QED BY <2>1, KeptFromPlace
<1> HIDE DEF k, w
<1> DEFINE rest == SubSeq(list, k, Len(list))
           v == ready.unreliable
<1>6. \A x \in DOMAIN rest : k + x - 1 \in k .. Len(list) /\ rest[x] = list[k + x - 1]
  BY <1>1, <1>2, <1>5, SMTT(30)
<1> HIDE DEF rest
<1>7. Progress(D \o ready.moved, n, v) /\ OnlyHead(D \o ready.moved, D, list)
      /\ LeftBy(v, list, stop - 1, n, u)
  BY <1>3 DEF MovedSo
<1> HIDE DEF v
\* What is kept is the entry of an unreliable packet.
<1>8. ASSUME NEW y \in k .. Len(list)
      PROVE  /\ y \in DOMAIN list /\ list[y].kind # "unsequenced"
             /\ \E c \in net : /\ KnownAt(list[y], c, n, u) /\ c \in Known /\ Loose(c)
                               /\ c.reliable \in Nat /\ c.unreliable \in Nat
                               /\ list[y].unreliable = c.unreliable
  <2>1. y \in DOMAIN list /\ y >= 1
    BY <1>1, <1>2, <1>5
  <2>2. list[y].kind # "unsequenced"
    <3>1. CASE y < stop
      <4>1. Unfinished(list[y], w)
        BY <1>1, <1>2, <1>5, <2>1, <3>1
      <4> QED BY <4>1 DEF Unfinished
    <3>2. CASE y = stop
      <4>1. Waits(list[y], w)
        BY <1>1, <1>2, <2>1, <3>2
      <4> QED BY <4>1 DEF Waits
    <3>3. CASE y > stop
      <4>1. y # 1
        BY <1>1, <1>2, <2>1, <3>3
      <4>2. PICK c \in net : KnownAt(list[y], c, n, u)
        BY <2>1, <4>1 DEF ListKnown
      <4> QED BY <4>2 DEF KnownAt, Source, Loose
    <3> QED BY <1>1, <1>2, <2>1, <3>1, <3>2, <3>3
  <2>3. PICK c \in net : KnownAt(list[y], c, n, u)
    BY <2>1, <2>2 DEF ListKnown, Loner
  <2>4. c \in Known /\ Loose(c) /\ list[y].unreliable = c.unreliable
    BY <2>3 DEF Known, KnownAt, Source
  <2>5. c.reliable \in Nat /\ c.unreliable \in Nat
    BY <2>4, InSenderOrder DEF Sequenced
  <2> QED BY <2>1, <2>2, <2>3, <2>4, <2>5
<1>9. ASSUME NEW y \in k .. Len(list)
      PROVE  \E c \in net : KeptAt(list[y], c, n, v)
  <2>1. y \in DOMAIN list /\ list[y].kind # "unsequenced"
    BY <1>8
  <2>2. PICK c \in net : /\ KnownAt(list[y], c, n, u) /\ c \in Known /\ Loose(c)
                         /\ c.reliable \in Nat /\ c.unreliable \in Nat
                         /\ list[y].unreliable = c.unreliable
    BY <1>8
  <2>3. CASE y < stop
    <3>1. Unfinished(list[y], w)
      BY <1>1, <1>2, <1>5, <2>1, <2>3
    <3>2. c.reliable = n /\ ~ Complete(list[y])
      BY <2>2, <3>1, EntrySeen DEF w
    <3>3. c.unreliable > v
      <4>1. CASE v = u
        BY <2>2, <3>2, <4>1 DEF KnownAt
      <4>2. CASE v # u
        <5>1. PICK m \in 1 .. stop - 1 : /\ Ready(list[m], Wire(n))
                                         /\ list[m].kind # "unsequenced"
                                         /\ v = list[m].unreliable
          BY <1>7, <4>2 DEF LeftBy
        <5>2. m \in DOMAIN list
          BY <1>1, <1>2
        <5>3. m < y
          <6>1. ~ Unfinished(list[m], w)
            BY <5>1 DEF Ready, Unfinished, w
          <6>2. m \notin k .. stop - 1
            BY <1>5, <6>1
          <6> QED BY <1>1, <1>2, <1>5, <2>1, <6>2
        <5>4. PICK d \in net : /\ KnownAt(list[m], d, n, u) /\ d.reliable \in Nat
                               /\ d.unreliable \in Nat
                               /\ d.reliable = c.reliable => d.unreliable < c.unreliable
          BY <1>1, <2>1, <2>2, <5>1, <5>2, <5>3, LaterEntry
        <5>5. d.reliable = n
          BY <5>1, <5>4, EntrySeen
        <5>6. list[m].unreliable = d.unreliable
          BY <5>4 DEF KnownAt, Source
        <5> QED BY <2>2, <3>2, <5>1, <5>4, <5>5, <5>6
      <4> QED BY <4>1, <4>2
    <3>4. Reach(c.reliable, n)
      BY <2>2, <3>2 DEF KnownAt
    <3> QED BY <2>2, <3>2, <3>3, <3>4 DEF KeptAt, KnownAt
  <2>4. CASE y = stop
    <3>1. Waits(list[y], w)
      BY <1>1, <1>2, <2>1, <2>4
    <3>2. c.reliable > n
      BY <2>2, <3>1, EntrySeen DEF w
    <3>3. Reach(c.reliable, n) /\ c.reliable # n
      BY <2>2, <3>2 DEF KnownAt
    <3> QED BY <2>2, <3>3 DEF KeptAt, KnownAt
  <2>5. CASE y > stop
    <3>1. stop \in k .. Len(list) /\ stop < y
      BY <1>1, <1>2, <1>5, <2>1, <2>5
    <3>2. stop \in DOMAIN list /\ list[stop].kind # "unsequenced"
      BY <1>8, <3>1
    <3>3. Waits(list[stop], w)
      BY <1>1, <1>2, <3>2
    <3>4. PICK d \in net : /\ KnownAt(list[stop], d, n, u) /\ d.reliable \in Nat
                           /\ d.reliable <= c.reliable
      BY <1>1, <2>1, <2>2, <3>1, <3>2, LaterEntry
    <3>5. d.reliable > n
      BY <3>3, <3>4, EntrySeen DEF w
    <3>6. Reach(c.reliable, n) /\ c.reliable # n
      BY <2>2, <3>4, <3>5 DEF KnownAt
    <3> QED BY <2>2, <3>6 DEF KeptAt, KnownAt
  <2> QED BY <1>1, <1>2, <2>1, <2>3, <2>4, <2>5
<1>10. Kept(rest, n, v)
  BY <1>6, <1>9 DEF Kept
<1>11. ListOrdered(rest)
  <2> SUFFICES ASSUME NEW i \in DOMAIN rest, NEW j \in DOMAIN rest, i < j,
                      NEW c \in net, NEW d \in net, Source(rest[i], c), Source(rest[j], d)
               PROVE  c.packet < d.packet
    BY DEF ListOrdered
  <2>1. /\ k + i - 1 \in DOMAIN list /\ k + j - 1 \in DOMAIN list /\ k + i - 1 < k + j - 1
        /\ rest[i] = list[k + i - 1] /\ rest[j] = list[k + j - 1]
    <3>1. i \in Int /\ j \in Int
      BY <1>1, <1>5 DEF rest
    <3>2. k \in Int
      BY <1>2, <1>5
    <3> QED BY <1>1, <1>2, <1>5, <1>6, <3>1, <3>2, SMTT(30)
  <2> QED BY <2>1 DEF ListKnown, ListOrdered
<1> QED BY <1>4, <1>7, <1>10, <1>11 DEF v, rest, w

-----------------------------------------------------------------------------
(* The reliable packets that are given out together.                          *)

\* The packets that are not sequenced were given before.
NoLoner(E, D) ==
    \A i \in DOMAIN E : packets[Packets(E)[i]] = "unsequenced" =>
        \E j \in DOMAIN D : Packets(D)[j] = Packets(E)[i]

\* What the loop has done so far, from a receiver of numbers n and u; it is at m now.
GivenAt(so, D, n, u, m) ==
    /\ n <= m /\ m <= reliable
    /\ so.incoming = Wire(m)
    /\ so.held \subseteq {c \in net : c.kind = "reliable" /\ c.reliable > m}
    /\ so.given = <<>> => m = n
    /\ Progress(D \o so.given, m, IF so.given = <<>> THEN u ELSE 0)
    /\ NoLoner(D \o so.given, D)

GivenSo(so, D, n, u) == so \in GivenStates /\ \E m \in Nat : GivenAt(so, D, n, u, m)

\* A round of the loop.
LEMMA NextGivenKeeps ==
    ASSUME SenderInv, NEW D, D \in Seq(SUBSET Parts), NEW n \in Nat, NEW u \in Nat,
           reliable - n < Space, NEW so, GivenSo(so, D, n, u)
    PROVE  GivenSo(NextGiven(so), D, n, u)
<1>1. PICK m \in Nat : GivenAt(so, D, n, u, m)
  BY DEF GivenSo
<1>2. so \in GivenStates /\ NextGiven(so) \in GivenStates
  BY NextGivenType DEF GivenSo
<1>3. CASE NextOf(so) = {}
  BY <1>3 DEF NextGiven
<1>4. CASE NextOf(so) # {}
  <2>0. PICK h : h = (CHOOSE x \in NextOf(so) : TRUE)
    OBVIOUS
  <2>1. h \in NextOf(so)
    BY <1>4, <2>0
  <2>2. NextGiven(so) = [incoming |-> Wire(h.last),
                         given |-> Append(so.given, {<<h.packet, 0>>}),
                         held |-> so.held \ {h}]
    BY <1>4, <2>0 DEF NextGiven
  <2>3. /\ h \in so.held /\ Wire(h.reliable) = (so.incoming + 1) % Space
    BY <2>1 DEF NextOf
  <2>4. /\ n <= m /\ m <= reliable /\ so.incoming = Wire(m) /\ reliable \in Nat
        /\ \A c \in so.held : c \in net /\ c.kind = "reliable" /\ c.reliable > m
        /\ Progress(D \o so.given, m, IF so.given = <<>> THEN u ELSE 0)
        /\ NoLoner(D \o so.given, D)
        /\ so.given \in Seq(SUBSET Parts)
    BY <1>1, <1>2 DEF GivenAt, GivenStates, SenderInv, TypeInv, OnceInv, Typed
  <2>5. h \in net /\ h \in Known /\ Sequenced(h) /\ h.kind = "reliable" /\ h.reliable > m
    BY <2>3, <2>4 DEF Known, Sequenced
  <2>6. /\ h.reliable \in Nat /\ h.last \in Nat /\ h.reliable <= h.last /\ h.last <= reliable
        /\ h.packet \in 1 .. queued
    BY <2>5, InSenderOrder
  <2>7. h.reliable = m + 1
    <3>1. (so.incoming + 1) % Space = Wire(m + 1)
      <4>1. PICK q \in Nat : m = Wire(m) + ReliableWindowSize * (ReliableWindows * (m \div Space))
                             /\ Wire(m) \in Nat
        BY WindowOfWire
      <4>2. Space \in Nat \ {0} /\ m \div Space \in Nat /\ m % Space \in 0 .. Space - 1
            /\ m = Space * (m \div Space) + (m % Space)
        BY SpaceSize, Remainder
      <4> DEFINE a == m \div Space
                 b == m % Space
      <4>3. so.incoming = b
        BY <2>4 DEF Wire
      <4> HIDE DEF a, b
      <4>4. a \in Nat /\ b \in 0 .. Space - 1 /\ m = Space * a + b
        BY <4>2 DEF a, b
      <4>5. CASE b + 1 < Space
        <5>1. b + 1 \in 0 .. Space - 1 /\ m + 1 = Space * a + (b + 1)
              /\ b + 1 = Space * 0 + (b + 1)
          BY <4>2, <4>4, <4>5, SMT
        <5>2. (Space * a + (b + 1)) % Space = b + 1 /\ (Space * 0 + (b + 1)) % Space = b + 1
          BY <4>2, <4>4, <5>1, RemainderUnique
        <5> QED BY <4>3, <5>1, <5>2 DEF Wire
      <4>6. CASE b + 1 = Space
        <5>1. 0 \in 0 .. Space - 1 /\ m + 1 = Space * (a + 1) + 0
              /\ b + 1 = Space * 1 + 0 /\ a + 1 \in Nat
          BY <4>2, <4>4, <4>6, SMT
        <5>2. (Space * (a + 1) + 0) % Space = 0 /\ (Space * 1 + 0) % Space = 0
          BY <4>2, <5>1, RemainderUnique
        <5> QED BY <4>3, <5>1, <5>2 DEF Wire
      <4> QED BY <4>2, <4>4, <4>5, <4>6
    <3>2. Space \in Nat \ {0}
      BY SpaceSize
    <3>3. ASSUME h.reliable > m + 1 PROVE FALSE
      <4>1. h.reliable >= (m + 1) + Space
        <5>1. PICK r \in Nat, q \in Nat : r = h.reliable /\ q = m + 1
          BY <2>6
        <5>2. r % Space = q % Space /\ r > q
          BY <2>3, <3>1, <3>3, <5>1 DEF Wire
        <5>3. r >= q + Space
          BY <3>2, <5>2, LapsApart
        <5> QED BY <5>1, <5>3
      <4> QED BY <2>4, <2>6, <3>2, <4>1
    <3> QED BY <2>5, <2>6, <3>3
  <2> DEFINE v == IF so.given = <<>> THEN u ELSE 0
             E == D \o so.given
             x == {<<h.packet, 0>>}
             next == NextGiven(so)
  <2>8. v \in Nat
    OBVIOUS
  <2>9. Progress(Append(E, x), h.last, 0) /\ m < h.last /\ h.last <= reliable
    <3> HIDE DEF v, E
    <3>1. Progress(E, m, v)
      BY <2>4 DEF E, v
    <3> QED BY <2>5, <2>7, <2>8, <3>1, GiveReliable
  <2>x. x \in SUBSET Parts
    <3>1. h.packet \in Nat
      BY <2>5, InSenderOrder
    <3> QED BY <3>1 DEF Parts
  <2>10. D \o Append(so.given, x) = Append(E, x) /\ E \in Seq(SUBSET Parts)
    <3>1. PICK T, b, y : T = SUBSET Parts /\ b = so.given /\ y = x
      OBVIOUS
    <3>2. D \in Seq(T) /\ b \in Seq(T) /\ y \in T
      BY <2>4, <2>x, <3>1
    <3>3. D \o b \in Seq(T) /\ D \o Append(b, y) = Append(D \o b, y)
      BY <3>2, GivenAfter
    <3> QED BY <3>1, <3>3
  <2>11. NoLoner(Append(E, x), D)
    <3>1. packets[h.packet] # "unsequenced"
      BY <2>5, InSenderOrder
    <3>2. PacketGiven(x) = h.packet
      <4>1. x \in WholeOf(h.packet)
        BY DEF WholeOf
      <4> QED BY <2>6, <4>1, PacketOfData
    <3>3. NoLoner(E, D)
      BY <2>4
    <3> DEFINE F == Append(E, x)
    <3> HIDE DEF E, x
    <3>4. /\ DOMAIN F = 1 .. Len(E) + 1 /\ DOMAIN E = 1 .. Len(E) /\ Len(E) \in Nat
          /\ (\A j \in DOMAIN E : F[j] = E[j]) /\ F[Len(E) + 1] = x
      BY <2>10
    <3> HIDE DEF F
    <3>5. \A j \in DOMAIN E : Packets(F)[j] = Packets(E)[j]
      BY <3>4 DEF Packets
    <3>6. Packets(F)[Len(E) + 1] = h.packet
      BY <3>2, <3>4 DEF Packets
    <3>7. \A j \in DOMAIN F : j \in DOMAIN E \/ j = Len(E) + 1
      BY <3>4
    <3>8. NoLoner(F, D)
      BY <3>1, <3>3, <3>5, <3>6, <3>7 DEF NoLoner
    <3> QED BY <3>8 DEF F
  <2>12. \A c \in so.held \ {h} : c \in net /\ c.kind = "reliable" /\ c.reliable > h.last
    <3> SUFFICES ASSUME NEW c \in so.held, c # h PROVE c.reliable > h.last
      BY <2>4
    <3>1. c \in net /\ c \in Known /\ Sequenced(c) /\ c.kind = "reliable" /\ c.reliable > m
      BY <2>4 DEF Known, Sequenced
    <3>2. Follows(c, h) /\ Follows(h, c) /\ c.packet \in Nat /\ h.packet \in Nat
          /\ c.reliable \in Nat /\ c.last \in Nat /\ c.reliable <= c.last
      BY <2>5, <3>1, InSenderOrder
    <3>3. ~ (c.packet < h.packet)
      BY <2>5, <2>7, <3>1, <3>2 DEF Follows
    <3>4. c.packet # h.packet
      BY <3>1, <3>2 DEF Follows
    <3>5. h.packet < c.packet
      BY <3>2, <3>3, <3>4
    <3> QED BY <2>6, <3>1, <3>2, <3>5 DEF Follows
  <2>13. /\ next.incoming = Wire(h.last) /\ next.given = Append(so.given, x)
         /\ next.held = so.held \ {h}
    BY <2>2
  <2>14. next.given # <<>>
    <3>1. Append(so.given, x) # <<>>
      <4>1. PICK T, b, y : T = SUBSET Parts /\ b = so.given /\ y = x
        OBVIOUS
      <4>2. b \in Seq(T) /\ y \in T
        BY <2>4, <2>x, <4>1
      <4>3. Append(b, y) # <<>>
        BY <4>2, AppendProperties
      <4> QED BY <4>1, <4>3
    <3> QED BY <2>13, <3>1
  <2>15. D \o next.given = Append(E, x)
    BY <2>10, <2>13
  <2> HIDE DEF next, E, x
  <2>16. GivenAt(next, D, n, u, h.last)
    <3>1. n <= h.last /\ h.last <= reliable
      BY <2>4, <2>6, <2>9
    <3>2. next.held \subseteq {c \in net : c.kind = "reliable" /\ c.reliable > h.last}
      BY <2>12, <2>13
    <3>3. Progress(D \o next.given, h.last, IF next.given = <<>> THEN u ELSE 0)
      BY <2>9, <2>14, <2>15
    <3> QED BY <2>11, <2>13, <2>14, <2>15, <3>1, <3>2, <3>3 DEF GivenAt
  <2> QED BY <1>2, <2>6, <2>16 DEF GivenSo, next
<1> QED BY <1>1, <1>2, <1>3, <1>4 DEF GivenSo

\* All of the rounds.
LEMMA GivenKeeps ==
    ASSUME SenderInv, NEW D, NEW n \in Nat, NEW u \in Nat, Progress(D, n, u),
           incoming = Wire(n), n <= reliable, reliable - n < Space,
           NEW held, Holding(held) \in GivenStates,
           held \subseteq {c \in net : c.kind = "reliable" /\ c.reliable > n}
    PROVE  GivenSo(Given(held), D, n, u)
<1> DEFINE k == Cardinality(held)
           S == {so \in GivenStates : GivenSo(so, D, n, u)}
<1>1. k \in Nat /\ D \in Seq(SUBSET Parts)
  BY GivenLoop DEF Progress
<1>2. PICK after \in [0 .. k -> GivenStates] : GivenRounds(after, held)
  BY GivenLoop
<1>3. /\ after[0] = Holding(held)
      /\ \A i \in 1 .. k : after[i] = NextGiven(after[i - 1])
      /\ Given(held) = after[k]
  BY <1>2 DEF GivenRounds
<1> HIDE DEF k
<1>4. after[0] \in S
  <2> DEFINE so == after[0]
  <2>1. so.given = <<>> /\ so.incoming = incoming /\ so.held = held /\ so \in GivenStates
    BY <1>3 DEF Holding
  <2> HIDE DEF so
  <2>2. D \o so.given = D
    BY <1>1, <2>1
  <2>3. NoLoner(D, D)
    BY DEF NoLoner
  <2>4. GivenAt(so, D, n, u, n)
    BY <2>1, <2>2, <2>3 DEF GivenAt
  <2>5. so \in S
    BY <2>1, <2>4 DEF GivenSo
  <2> QED BY <2>5 DEF so
<1>5. ASSUME NEW i \in 1 .. k, after[i - 1] \in S
      PROVE  after[i] \in S
  <2>1. GivenSo(NextGiven(after[i - 1]), D, n, u)
    BY <1>1, <1>5, NextGivenKeeps
  <2> QED BY <1>3, <2>1 DEF GivenSo
<1>6. \A i \in 0 .. k : after[i] \in S
  <2> HIDE DEF S
  <2> QED BY <1>1, <1>4, <1>5, LoopInvariant
<1>7. k \in 0 .. k
  BY <1>1
<1> QED BY <1>3, <1>6, <1>7

-----------------------------------------------------------------------------
(* Both ends.                                                                 *)

\* A command under way is not so old, and the receiver not so far behind, that a
\* number could be taken for one of another lap.
WithinLap ==
    \A c \in net : Sequenced(c) /\ UnderWay(c) =>
        reliable - c.reliable < (ReliableWindows - FreeReliableWindows) * ReliableWindowSize

\* What was queued of the packets that are not sequenced was counted.
Counted ==
    \A i \in DOMAIN dispatched : packets[Packets(dispatched)[i]] = "unsequenced" =>
        times[Packets(dispatched)[i]] > 0

\* The receiver has given the packets up to reliable number n, in sequence, and keeps
\* what comes after them.
ReceiverAt(n) ==
    /\ incoming = Wire(n)
    /\ n <= reliable
    /\ Covered(n)
    /\ heldReliable \subseteq {c \in net : c.kind = "reliable" /\ c.reliable > n}
    /\ Progress(dispatched, n, incomingUnreliable)
    /\ Kept(entries, n, incomingUnreliable)
    /\ ListOrdered(entries)

LooseInv == SenderInv /\ Counted /\ \E n \in Nat : ReceiverAt(n)

LEMMA LooseFirst == Init => LooseInv
<1> SUFFICES ASSUME Init PROVE LooseInv
  OBVIOUS
<1>1. SenderInv
  BY SenderFirst
<1>2. /\ net = {} /\ heldReliable = {} /\ entries = <<>> /\ dispatched = <<>>
      /\ incomingUnreliable = 0
  BY DEF Init
<1>3. PICK s \in Scenarios : reliable = s.reliable /\ incoming = Wire(s.reliable)
  BY DEF Init
<1>4. reliable \in Nat /\ incoming = Wire(reliable)
  BY <1>1, <1>3 DEF SenderInv, TypeInv, OnceInv, Typed
<1>5. PICK D : D = dispatched
  OBVIOUS
<1>6. D = <<>> /\ DOMAIN D = {} /\ DOMAIN Packets(D) = {} /\ D \in Seq(SUBSET Parts)
  BY <1>2, <1>5 DEF Packets
<1>7. Counted
  BY <1>5, <1>6 DEF Counted
<1>8. Progress(D, reliable, incomingUnreliable)
  <2>1. Lossy!Legal(Packets(D))
    BY <1>6 DEF Lossy!Legal
  <2>2. Named(D) /\ Passed(D, reliable, incomingUnreliable) /\ ReliableGiven(D, reliable)
    BY <1>2, <1>6 DEF Named, Passed, ReliableGiven
  <2> QED BY <1>6, <2>1, <2>2 DEF Progress
<1>9. Covered(reliable)
  BY <1>4 DEF Covered
<1>10. Kept(entries, reliable, incomingUnreliable) /\ ListOrdered(entries)
  BY <1>2 DEF Kept, ListOrdered
<1>11. ReceiverAt(reliable)
  BY <1>2, <1>4, <1>5, <1>8, <1>9, <1>10 DEF ReceiverAt
<1> QED BY <1>1, <1>4, <1>7, <1>11 DEF LooseInv

\* The receiver is within a lap of the sender.
LEMMA LagBound ==
    ASSUME SenderInv, WithinLap, NEW n \in Nat, n <= reliable, Covered(n),
           Progress(dispatched, n, incomingUnreliable)
    PROVE  /\ reliable - n <= Space - FreeReliableWindows * ReliableWindowSize
           /\ reliable - n < Space
<1> DEFINE w == ReliableWindowSize
           f == FreeReliableWindows
           k == ReliableWindows
<1>1. /\ w \in Nat \ {0} /\ k \in Nat \ {0} /\ Space \in Nat /\ Space = w * k /\ f \in 1 .. k
      /\ reliable \in Nat
  BY SpaceSize, WindowsAssumption DEF SenderInv, TypeInv, OnceInv, Typed
<1>2. (k - f) * w = Space - f * w /\ (k - f) * w \in Nat /\ (k - f) * w < Space
  <2> HIDE DEF w, f, k
  <2>1. w * (k - f) = w * k - w * f /\ w * (k - f) \in Nat /\ w * f \in Nat
    BY <1>1, SMT
  <2>2. w * f >= w * 1
    BY <1>1, ProductGrows
  <2> QED BY <1>1, <2>1, <2>2, SMT
<1>3. CASE n = reliable
  BY <1>1, <1>2, <1>3
<1>4. CASE n < reliable
  <2>1. n + 1 \in n + 1 .. reliable
    BY <1>1, <1>4
  <2>2. PICK c \in net : UsedBy(c, n + 1)
    BY <2>1 DEF Covered
  <2>3. c \in Known /\ Sequenced(c) /\ c.kind = "reliable" /\ c.reliable <= n + 1 /\ n + 1 <= c.last
    BY <2>2 DEF Known, Sequenced, UsedBy
  <2>4. c.reliable \in Nat /\ c.last \in Nat
    BY <2>3, InSenderOrder
  <2>5. c.reliable > n /\ ~ IsGiven(dispatched, c.packet)
    BY <2>3, <2>4 DEF Progress, ReliableGiven
  <2>6. UnderWay(c)
    BY <2>3, <2>5 DEF UnderWay, IsGiven
  <2>7. reliable - c.reliable < (k - f) * w
    BY <2>3, <2>6 DEF WithinLap
  <2>8. reliable - n <= (k - f) * w
    BY <1>1, <1>2, <2>3, <2>4, <2>5, <2>7
  <2> HIDE DEF w, f, k
  <2>9. reliable - n <= Space - f * w /\ reliable - n < Space
    BY <1>1, <1>2, <2>8
  <2> QED BY <2>9 DEF w, f, k
<1> QED BY <1>1, <1>3, <1>4

\* A command under way is near the receiver's number.
LEMMA ArrivesNear ==
    ASSUME SenderInv, WithinLap, NEW n \in Nat, n <= reliable, Covered(n),
           Progress(dispatched, n, incomingUnreliable),
           NEW c \in net, Sequenced(c), UnderWay(c)
    PROVE  c \in Known /\ c.reliable \in Nat /\ Near(c.reliable, n)
<1> DEFINE w == ReliableWindowSize
           f == FreeReliableWindows
           k == ReliableWindows
<1>1. reliable - n < Space /\ reliable \in Nat
  BY LagBound DEF SenderInv, TypeInv, OnceInv, Typed
<1>2. c \in Known /\ c.reliable \in Nat /\ c.reliable <= reliable
  <2>1. c \in Known
    BY DEF Known
  <2>2. c.reliable \in Nat /\ c.last \in Nat /\ c.reliable <= c.last /\ c.last <= reliable
    BY <2>1, InSenderOrder
  <2> QED BY <1>1, <2>1, <2>2
<1>3. reliable - c.reliable < (k - f) * w
  BY DEF WithinLap
<1>4. (k - f) * w = Space - f * w /\ Space \in Nat /\ f * w \in Nat
  <2>1. w \in Nat \ {0} /\ k \in Nat \ {0} /\ Space \in Nat /\ Space = w * k /\ f \in 1 .. k
    BY SpaceSize, WindowsAssumption
  <2> HIDE DEF w, f, k
  <2>2. w * (k - f) = w * k - w * f
    BY <2>1, SMT
  <2> QED BY <2>1, <2>2, SMT
<1>5. CASE n <= c.reliable
  <2>1. c.reliable - n < Space
    BY <1>1, <1>2, <1>4
  <2> QED BY <1>2, <1>5, <2>1 DEF Near
<1>6. CASE c.reliable < n
  <2>1. n - c.reliable <= Space - f * w
    <3> HIDE DEF w, f, k
    <3> QED BY <1>1, <1>2, <1>3, <1>4
  <2> QED BY <1>2, <1>6, <2>1 DEF Near
<1> QED BY <1>2, <1>5, <1>6

\* The sender's steps leave the receiver as it is, and what it was given.
LEMMA ProgressStays ==
    ASSUME SenderInv, SenderInv', packets' = packets, queued <= queued', reliable <= reliable',
           \A c \in Known' : c \in Known \/ c.packet > queued,
           \A c \in net' : c.kind = "reliable" => c \in net \/ (c.packet > queued /\ c.reliable > reliable),
           NEW D, NEW n \in Nat, NEW u \in Nat, n <= reliable, Progress(D, n, u)
    PROVE  Progress(D, n, u)' /\ Packets(D)' = Packets(D)
<1>1. /\ D \in Seq(SUBSET Parts) /\ Named(D) /\ Lossy!Legal(Packets(D)) /\ ReliableGiven(D, n)
      /\ Passed(D, n, u) /\ queued \in Nat /\ queued' \in Nat /\ reliable \in Nat
  BY DEF Progress, SenderInv, TypeInv, OnceInv, Typed
<1>2. \A p : WholeOf(p)' = WholeOf(p)
  BY DEF WholeOf, Size
<1>3. Named(D)'
  <2>1. \A p \in 1 .. queued : p \in 1 .. queued'
    BY <1>1
  <2> QED BY <1>1, <1>2, <2>1 DEF Named
<1>4. ASSUME NEW i \in DOMAIN D PROVE PacketGiven(D[i])' = PacketGiven(D[i])
  <2>1. PICK p \in 1 .. queued : D[i] \in WholeOf(p)
    BY <1>1 DEF Named
  <2>2. PacketGiven(D[i]) = p
    BY <2>1, PacketOfData
  <2>4. (\A q \in 1 .. queued : \A data \in WholeOf(q) : PacketGiven(data) = q)'
    BY PacketsOfData, PTL
  <2>5. p \in 1 .. queued' /\ D[i] \in WholeOf(p)'
    BY <1>1, <1>2, <2>1
  <2> QED BY <2>2, <2>4, <2>5
<1>5. Packets(D)' = Packets(D)
  BY <1>4 DEF Packets
<1>6. Lossy!Legal(Packets(D))'
  <2> DEFINE g == Packets(D)
  <2>1. \A j \in DOMAIN g : g[j] \in 1 .. queued'
    <3>1. \A j \in DOMAIN D : g[j] \in 1 .. queued
      BY <1>1, NamedPacket
    <3>2. DOMAIN g = DOMAIN D
      BY DEF Packets
    <3> QED BY <1>1, <3>1, <3>2
  <2>2. g' = g
    BY <1>5
  <2> HIDE DEF g
  <2>3. Lossy!Legal(g)
    BY <1>1 DEF g
  <2>4. Lossy!Legal(g)'
    BY <2>1, <2>2, <2>3 DEF Lossy!Legal, Lossy!Sequenced
  <2> QED BY <2>4 DEF g
<1>7. ReliableGiven(D, n)'
  <2> SUFFICES ASSUME NEW c \in net', c.kind = "reliable"
               PROVE  \/ c.last <= n /\ IsGiven(D, c.packet)
                      \/ c.reliable > n /\ ~ IsGiven(D, c.packet)
    BY DEF ReliableGiven, IsGiven
  <2>1. CASE c \in net
    BY <1>1, <2>1 DEF ReliableGiven
  <2>2. CASE c.packet > queued /\ c.reliable > reliable
    <3>1. c.reliable \in Nat
      <4>1. net' \subseteq Commands
        BY DEF SenderInv, TypeInv, OnceInv, Typed
      <4> QED BY <4>1 DEF Commands
    <3>2. ~ IsGiven(D, c.packet)
      <4> SUFFICES ASSUME NEW i \in DOMAIN D, D[i] = {<<c.packet, 0>>} PROVE FALSE
        BY DEF IsGiven
      <4>1. PICK p \in 1 .. queued : D[i] \in WholeOf(p)
        BY <1>1 DEF Named
      <4>2. <<c.packet, 0>> \in D[i]
        OBVIOUS
      <4>3. <<c.packet, 0>>[1] = p
        BY <4>1, <4>2, WholeData
      <4> QED BY <1>1, <2>2, <4>3
    <3> QED BY <1>1, <2>2, <3>1, <3>2
  <2> QED BY <2>1, <2>2
<1>8. Passed(D, n, u)'
  <2> SUFFICES ASSUME NEW i \in DOMAIN D, packets[Packets(D)[i]] # "unsequenced",
                      NEW c \in Known', Beyond(c, n, u)
               PROVE  Packets(D)[i] < c.packet
    BY <1>5 DEF Passed, Beyond, Loose
  <2>1. CASE c \in Known
    BY <1>1, <2>1 DEF Passed
  <2>2. CASE c.packet > queued
    <3>1. Packets(D)[i] \in 1 .. queued
      BY <1>1, NamedPacket
    <3>2. c.packet \in Nat
      <4>1. (SenderInv => \A d \in Known : d.packet \in Nat)'
        BY KnownPackets, PTL
      <4> QED BY <4>1
    <3> QED BY <1>1, <2>2, <3>1, <3>2
  <2> QED BY <2>1, <2>2
<1>9. Progress(D, n, u)'
  BY <1>1, <1>3, <1>6, <1>7, <1>8 DEF Progress
<1> QED BY <1>5, <1>9

\* What the sender's steps add.
LEMMA SenderAdds ==
    ASSUME SenderInv, SenderInv', Send \/ Transmit \/ Drop
    PROVE  /\ packets' = packets /\ queued <= queued' /\ reliable <= reliable' /\ net \subseteq net'
           /\ \A c \in Known' : c \in Known \/ c.packet > queued
           /\ \A c \in net' : c.kind = "reliable" =>
                 c \in net \/ (c.packet > queued /\ c.reliable > reliable)
<1>1. /\ reliable \in Nat /\ queued \in Nat /\ outgoing \in Seq(Commands)
      /\ \A i \in DOMAIN outgoing : outgoing[i].kind # "reliable"
  BY DEF SenderInv, TypeInv, OnceInv, Typed
<1>2. CASE Transmit \/ Drop
  <2>1. packets' = packets /\ queued' = queued /\ net \subseteq net' /\ UNCHANGED numbers
    BY <1>2 DEF Transmit, Drop
  <2>2. Known' \subseteq Known
    BY <1>2, HandedOn DEF SenderInv, TypeInv
  <2>3. \A c \in net' : c \in net \/ c.kind # "reliable"
    <3>1. CASE Transmit
      <4>1. outgoing # <<>> /\ net' = net \cup {Head(outgoing)}
        BY <3>1 DEF Transmit
      <4>2. 1 \in DOMAIN outgoing /\ Head(outgoing) = outgoing[1]
        BY <1>1, <4>1
      <4> QED BY <1>1, <4>1, <4>2
    <3>2. CASE Drop
      BY <3>2 DEF Drop
    <3> QED BY <1>2, <3>1, <3>2
  <2>4. reliable' = reliable
    BY <2>1 DEF numbers
  <2> QED BY <1>1, <2>1, <2>2, <2>3, <2>4
<1>3. CASE Send
  <2>1. packets' = packets /\ queued' = queued + 1 /\ queued < Len(packets)
    BY <1>3 DEF Send
  <2> DEFINE kind == packets[queued + 1]
             count == IF kind = "fragmented" THEN Fragments ELSE 1
  <2>2. \/ SendReliable(1) \/ SendReliable(count)
        \/ SendUnsequenced \/ SendUnreliable(kind, count)
    BY <1>3 DEF Send
  <2>3. count \in Nat
    BY FragmentsAssumption
  <2> HIDE DEF kind, count
  <2>4. ASSUME NEW k \in Nat, SendReliable(k)
        PROVE  /\ reliable' = reliable + k /\ outgoing' = outgoing
               /\ \E c : net' = net \cup {c} /\ c.packet = queued + 1 /\ c.reliable = reliable + 1
    <3>1. PICK c : c = Command("reliable", reliable + 1, reliable + k, 0, 0)
      OBVIOUS
    <3>2. c.packet = queued + 1 /\ c.reliable = reliable + 1
      BY <3>1 DEF Command
    <3> QED BY <2>4, <3>1, <3>2 DEF SendReliable
  <2>5. CASE \E k \in Nat : SendReliable(k)
    <3>1. PICK k \in Nat : SendReliable(k)
      BY <2>5
    <3>2. PICK c : net' = net \cup {c} /\ c.packet = queued + 1 /\ c.reliable = reliable + 1
      BY <2>4, <3>1
    <3>3. reliable' = reliable + k /\ outgoing' = outgoing
      BY <2>4, <3>1
    <3>4. Known' \subseteq Known \cup {c}
      BY <3>2, <3>3 DEF Known
    <3> QED BY <1>1, <2>1, <3>2, <3>3, <3>4
  <2>6. ASSUME NEW more \in Seq(Commands), outgoing' = outgoing \o more, net' = net, reliable' = reliable,
               \A i \in DOMAIN more : more[i].packet = queued + 1
        PROVE  /\ reliable <= reliable' /\ net \subseteq net'
               /\ \A c \in Known' : c \in Known \/ c.packet > queued
    <3>1. \A i \in DOMAIN outgoing' :
             \/ i \in DOMAIN outgoing /\ outgoing'[i] = outgoing[i]
             \/ \E j \in DOMAIN more : outgoing'[i] = more[j]
      <4>1. \A i \in DOMAIN outgoing' :
               \/ i \in DOMAIN outgoing /\ outgoing'[i] = outgoing[i]
               \/ i - Len(outgoing) \in DOMAIN more /\ outgoing'[i] = more[i - Len(outgoing)]
        BY <1>1, <2>6
      <4> QED BY <4>1
    <3>2. \A c \in Known' : c \in Known \/ c.packet = queued + 1
      BY <2>6, <3>1 DEF Known
    <3> QED BY <1>1, <2>6, <3>2
  <2>7. CASE SendUnsequenced \/ SendUnreliable(kind, count)
    <3>1. reliable' = reliable /\ net' = net
      BY <2>7 DEF SendUnsequenced, SendUnreliable
    <3>2. \E more \in Seq(Commands) : /\ outgoing' = outgoing \o more
                                      /\ \A i \in DOMAIN more : more[i].packet = queued + 1
      <4>1. outgoing' \in Seq(Commands)
        BY DEF SenderInv, TypeInv, OnceInv, Typed
      <4>2. CASE SendUnsequenced
        <5>1. PICK c : outgoing' = Append(outgoing, c) /\ c.packet = queued + 1
          BY <4>2 DEF SendUnsequenced, Command
        <5>2. outgoing'[Len(outgoing) + 1] = c /\ Len(outgoing) + 1 \in DOMAIN outgoing'
          BY <1>1, <5>1
        <5>3. c \in Commands
          BY <4>1, <5>2
        <5>4. <<c>> \in Seq(Commands) /\ outgoing' = outgoing \o <<c>>
          BY <1>1, <5>1, <5>3
        <5>5. \A i \in DOMAIN <<c>> : <<c>>[i].packet = queued + 1
          BY <5>1
        <5> QED BY <5>4, <5>5
      <4>3. CASE SendUnreliable(kind, count)
        <5> DEFINE u == (unreliable + 1) % (LastUnreliable + 1)
                   more == [f \in 1 .. count |-> Command(kind, reliable, reliable, u, f)]
        <5>1. outgoing' = outgoing \o more
          BY <4>3 DEF SendUnreliable
        <5>2. \A i \in 1 .. count : more[i].packet = queued + 1
          BY DEF Command
        <5>3. DOMAIN more = 1 .. count
          OBVIOUS
        <5>4. \E set : more \in Seq(set)
          <6>1. more \in Seq({Command(kind, reliable, reliable, u, f) : f \in 1 .. count})
            BY <2>3
          <6> QED BY <6>1
        <5>5. Len(more) = count
          BY <2>3
        <5> HIDE DEF more
        <5>6. \A i \in 1 .. count : more[i] \in Commands
          <6> SUFFICES ASSUME NEW i \in 1 .. count PROVE more[i] \in Commands
            OBVIOUS
          <6>1. Len(outgoing) + i \in DOMAIN outgoing' /\ outgoing'[Len(outgoing) + i] = more[i]
            BY <1>1, <2>3, <5>1, <5>3, <5>4, <5>5
          <6> QED BY <4>1, <6>1
        <5>7. more \in Seq(Commands)
          BY <2>3, <5>3, <5>4, <5>6
        <5> QED BY <5>1, <5>2, <5>3, <5>7
      <4> QED BY <2>7, <4>2, <4>3
    <3>3. PICK more \in Seq(Commands) : /\ outgoing' = outgoing \o more
                                        /\ \A i \in DOMAIN more : more[i].packet = queued + 1
      BY <3>2
    <3> QED BY <1>1, <2>1, <2>6, <3>1, <3>3, SMTT(30)
  <2> QED BY <2>2, <2>3, <2>5, <2>7
<1> QED BY <1>2, <1>3

\* They leave the receiver where it is.
LEMMA LooseSender ==
    ASSUME LooseInv, TypeInv', Send \/ Transmit \/ Drop
    PROVE  LooseInv' /\ Packets(dispatched)' = Packets(dispatched)
<1>1. SenderInv /\ Counted
  BY DEF LooseInv
<1>2. PICK n \in Nat : ReceiverAt(n)
  BY DEF LooseInv
<1>3. SenderInv' /\ (n <= reliable /\ Covered(n) => Covered(n)')
  BY <1>1, SenderSends, SenderHands
<1>4. PICK D, u, E, held, t : /\ D = dispatched /\ u = incomingUnreliable /\ E = entries
                              /\ held = heldReliable /\ t = times
  OBVIOUS
<1>5. /\ dispatched' = D /\ incomingUnreliable' = u /\ entries' = E /\ heldReliable' = held
      /\ times' = t /\ incoming' = incoming
  BY <1>4 DEF Send, Transmit, Drop, channel, groups
<1>6. /\ packets' = packets /\ queued <= queued' /\ reliable <= reliable' /\ net \subseteq net'
      /\ \A c \in Known' : c \in Known \/ c.packet > queued
      /\ \A c \in net' : c.kind = "reliable" =>
            c \in net \/ (c.packet > queued /\ c.reliable > reliable)
  BY <1>1, <1>3, SenderAdds
<1>7. /\ reliable \in Nat /\ reliable' \in Nat /\ u \in Nat
  <2>1. reliable \in Nat /\ incomingUnreliable \in 0 .. LastUnreliable /\ LastUnreliable \in Nat
    BY <1>1, SpaceSize DEF SenderInv, TypeInv, OnceInv, Typed, ReceiverTyped
  <2>2. reliable' \in Nat
    BY DEF TypeInv, OnceInv, Typed
  <2> QED BY <1>4, <2>1, <2>2
<1>8. n <= reliable /\ Covered(n) /\ Progress(D, n, u) /\ Kept(E, n, u) /\ ListOrdered(E)
  BY <1>2, <1>4 DEF ReceiverAt
<1>9. Progress(D, n, u)' /\ Packets(D)' = Packets(D)
  BY <1>1, <1>3, <1>6, <1>7, <1>8, ProgressStays
<1>10. \A e, c : Source(e, c)' <=> Source(e, c)
  BY <1>6 DEF Source, Size, Loose
<1>11. Kept(E, n, u)'
  <2>1. \A e, c : KeptAt(e, c, n, u)' <=> KeptAt(e, c, n, u)
    BY <1>10 DEF KeptAt, Reach, Complete
  <2> QED BY <1>6, <1>8, <2>1 DEF Kept
<1>12. ListOrdered(E)'
  <2> SUFFICES ASSUME NEW i \in DOMAIN E, NEW j \in DOMAIN E, i < j,
                      NEW c \in net', NEW d \in net', Source(E[i], c), Source(E[j], d)
               PROVE  c.packet < d.packet
    BY <1>10 DEF ListOrdered
  <2>1. PICK c0 \in net : Source(E[i], c0)
    BY <1>8 DEF Kept, KeptAt
  <2>2. PICK d0 \in net : Source(E[j], d0)
    BY <1>8 DEF Kept, KeptAt
  <2>3. c0.packet < d0.packet
    BY <1>8, <2>1, <2>2 DEF ListOrdered
  <2>4. c.packet = c0.packet /\ d.packet = d0.packet
    BY <2>1, <2>2, SourceOnce
  <2> QED BY <2>3, <2>4
<1>13. Counted'
  <2>1. \A i \in DOMAIN D : packets[Packets(D)[i]] = "unsequenced" => t[Packets(D)[i]] > 0
    BY <1>1, <1>4 DEF Counted
  <2>2. (\A i \in DOMAIN D : packets[Packets(D)[i]] = "unsequenced" => t[Packets(D)[i]] > 0)'
    BY <1>6, <1>9, <2>1
  <2> QED BY <1>5, <2>2 DEF Counted
<1>14. ReceiverAt(n)'
  <2>1. incoming' = Wire(n) /\ n <= reliable' /\ Covered(n)'
    BY <1>2, <1>3, <1>5, <1>6, <1>7, <1>8 DEF ReceiverAt
  <2>2. heldReliable' \subseteq {c \in net' : c.kind = "reliable" /\ c.reliable > n}
    BY <1>2, <1>4, <1>5, <1>6 DEF ReceiverAt
  <2> QED BY <1>5, <1>9, <1>11, <1>12, <2>1, <2>2 DEF ReceiverAt
<1>15. LooseInv'
  BY <1>3, <1>13, <1>14 DEF LooseInv
<1> QED BY <1>4, <1>5, <1>9, <1>15

\* The receiver's steps leave what is said of the sender's commands.
LEMMA Unmoved ==
    ASSUME UNCHANGED sender, NEW D, NEW E, NEW n, NEW u
    PROVE  /\ Packets(D)' = Packets(D)
           /\ Progress(D, n, u) => Progress(D, n, u)'
           /\ Kept(E, n, u) => Kept(E, n, u)'
           /\ ListOrdered(E) => ListOrdered(E)'
<1>1. UNCHANGED <<packets, queued, reliable, unreliable, outgoing, net>>
  BY DEF sender, numbers
<1>2. Known' = Known
  BY <1>1 DEF Known
<1>3. Packets(D)' = Packets(D)
  BY <1>1 DEF Packets, PacketGiven
<1>4. \A p : WholeOf(p)' = WholeOf(p)
  BY <1>1 DEF WholeOf, Size
<1>5. Progress(D, n, u) => Progress(D, n, u)'
  <2> SUFFICES ASSUME Progress(D, n, u) PROVE Progress(D, n, u)'
    OBVIOUS
  <2>1. Named(D)'
    BY <1>1, <1>4 DEF Progress, Named
  <2>2. Lossy!Legal(Packets(D))'
    <3>1. PICK g : g = Packets(D)
      OBVIOUS
    <3>2. Lossy!Legal(g)
      BY <3>1 DEF Progress
    <3>3. Lossy!Legal(g)'
      BY <1>1, <3>2 DEF Lossy!Legal, Lossy!Sequenced
    <3> QED BY <1>3, <3>1, <3>3
  <2>3. ReliableGiven(D, n)'
    BY <1>1 DEF Progress, ReliableGiven, IsGiven
  <2>4. Passed(D, n, u)'
    BY <1>1, <1>2, <1>3 DEF Progress, Passed, Beyond, Loose
  <2> QED BY <2>1, <2>2, <2>3, <2>4 DEF Progress
<1>6. \A e, c : Source(e, c)' <=> Source(e, c)
  BY <1>1 DEF Source, Size, Loose
<1>7. Kept(E, n, u) => Kept(E, n, u)'
  BY <1>1, <1>6 DEF Kept, KeptAt, Reach, Complete
<1>8. ListOrdered(E) => ListOrdered(E)'
  BY <1>1, <1>6 DEF ListOrdered
<1> QED BY <1>3, <1>5, <1>7, <1>8

\* What the receiver has after a step.
LEMMA LooseStep ==
    ASSUME SenderInv, SenderInv', UNCHANGED sender, NEW n \in Nat, n <= reliable, Covered(n),
           NEW D, NEW E, NEW u, dispatched' = D, entries' = E, incomingUnreliable' = u,
           incoming' = Wire(n),
           heldReliable' \subseteq {c \in net : c.kind = "reliable" /\ c.reliable > n},
           Progress(D, n, u), Kept(E, n, u), ListOrdered(E),
           \A i \in DOMAIN D : packets[Packets(D)[i]] = "unsequenced" =>
               times'[Packets(D)[i]] > 0
    PROVE  LooseInv'
<1>1. Packets(D)' = Packets(D) /\ Progress(D, n, u)' /\ Kept(E, n, u)' /\ ListOrdered(E)'
  BY Unmoved
<1>2. UNCHANGED <<packets, queued, reliable, unreliable, outgoing, net>>
  BY DEF sender, numbers
<1>3. Covered(n)'
  BY <1>2 DEF Covered
<1>4. ReceiverAt(n)'
  BY <1>1, <1>2, <1>3 DEF ReceiverAt
<1>5. Counted'
  BY <1>1, <1>2 DEF Counted
<1> QED BY <1>4, <1>5 DEF LooseInv

\* What was dispatched stays so.
Onward == \E more \in Seq(SUBSET Parts) : dispatched' = dispatched \o more

\* The list is one the dispatch may find.
LEMMA EntriesKnown ==
    ASSUME SenderInv, NEW n \in Nat, ReceiverAt(n)
    PROVE  /\ \A i \in DOMAIN entries : \E c \in net :
                 /\ KeptAt(entries[i], c, n, incomingUnreliable)
                 /\ KnownAt(entries[i], c, n, incomingUnreliable)
           /\ ListOrdered(entries)
           /\ Progress(dispatched, n, incomingUnreliable)
           /\ incomingUnreliable \in 0 .. LastUnreliable /\ incomingUnreliable \in Nat
<1>1. ASSUME NEW i \in DOMAIN entries
      PROVE  \E c \in net : /\ KeptAt(entries[i], c, n, incomingUnreliable)
                            /\ KnownAt(entries[i], c, n, incomingUnreliable)
  <2>1. PICK c \in net : KeptAt(entries[i], c, n, incomingUnreliable)
    BY DEF ReceiverAt, Kept
  <2>2. c \in Known /\ Loose(c) /\ Reach(c.reliable, n)
    BY <2>1 DEF KeptAt, Source, Known
  <2>3. c.reliable \in Nat
    BY <2>2, KnownType DEF SenderInv
  <2>4. Near(c.reliable, n)
    BY <2>2, <2>3, ReachNear
  <2>5. KnownAt(entries[i], c, n, incomingUnreliable)
    BY <2>1, <2>2, <2>4 DEF KnownAt, KeptAt
  <2> QED BY <2>1, <2>5
<1>2. incomingUnreliable \in 0 .. LastUnreliable /\ LastUnreliable \in Nat
  BY SpaceSize DEF SenderInv, TypeInv, ReceiverTyped
<1>3. incomingUnreliable \in Nat
  BY <1>2
<1> QED BY <1>1, <1>2, <1>3 DEF ReceiverAt

\* A dispatch of the list the receiver has then.
LEMMA LooseDispatch ==
    ASSUME SenderInv, SenderInv', Counted, UNCHANGED sender, NEW n \in Nat, ReceiverAt(n),
           UNCHANGED <<incoming, heldReliable>>,
           NEW list \in Seq(Entries), ListKnown(list, dispatched, n, incomingUnreliable),
           DispatchFrom(list),
           \A p \in DOMAIN times : times[p] > 0 => times'[p] > 0,
           \A p : (list # <<>> /\ list[1].kind = "unsequenced" /\ list[1].data = {<<p, 0>>}) =>
               times'[p] > 0
    PROVE  LooseInv' /\ Onward
<1>1. PICK D, u : D = dispatched /\ u = incomingUnreliable
  OBVIOUS
<1>2. /\ Progress(D, n, u) /\ u \in 0 .. LastUnreliable /\ ListKnown(list, D, n, u)
      /\ incoming = Wire(n) /\ n <= reliable /\ Covered(n)
      /\ heldReliable \subseteq {c \in net : c.kind = "reliable" /\ c.reliable > n}
  BY <1>1, EntriesKnown DEF ReceiverAt
<1>3. PICK result : result = DispatchUnreliable(list, Wire(n), u)
  OBVIOUS
<1>4. /\ entries' = result.list /\ incomingUnreliable' = result.unreliable
      /\ dispatched' = D \o result.moved
  BY <1>1, <1>2, <1>3 DEF DispatchFrom
<1>5. /\ Progress(D \o result.moved, n, result.unreliable)
      /\ OnlyHead(D \o result.moved, D, list)
      /\ Kept(result.list, n, result.unreliable)
      /\ ListOrdered(result.list)
  BY <1>2, <1>3, DispatchKeeps
<1>6. result.moved \in Seq(SUBSET Parts)
  BY <1>2, <1>3, DispatchType
<1>7. PICK E, F, v : E = D \o result.moved /\ F = result.list /\ v = result.unreliable
  OBVIOUS
<1>8. /\ Progress(E, n, v) /\ OnlyHead(E, D, list) /\ Kept(F, n, v) /\ ListOrdered(F)
      /\ entries' = F /\ incomingUnreliable' = v /\ dispatched' = E
  BY <1>4, <1>5, <1>7
<1>9. \A j \in DOMAIN D : packets[Packets(D)[j]] = "unsequenced" => times[Packets(D)[j]] > 0
  BY <1>1 DEF Counted
<1>10. ASSUME NEW i \in DOMAIN E, packets[Packets(E)[i]] = "unsequenced"
       PROVE  times'[Packets(E)[i]] > 0
  <2>1. CASE \E j \in DOMAIN D : Packets(D)[j] = Packets(E)[i]
    <3>1. times[Packets(E)[i]] > 0
      BY <1>9, <1>10, <2>1
    <3>2. Packets(E)[i] \in DOMAIN times
      <4>1. Named(E)
        BY <1>8 DEF Progress
      <4>2. Packets(E)[i] \in 1 .. queued
        BY <4>1, NamedPacket
      <4>3. packets \in Seq(Kinds) /\ queued \in 0 .. Len(packets) /\ times \in [DOMAIN packets -> Nat]
        BY DEF SenderInv, TypeInv, OnceInv, Typed
      <4> QED BY <4>2, <4>3
    <3> QED BY <3>1, <3>2
  <2>2. CASE /\ list # <<>> /\ list[1].kind = "unsequenced"
             /\ list[1].data = {<<Packets(E)[i], 0>>}
    BY <2>2
  <2> QED BY <1>8, <1>10, <2>1, <2>2 DEF OnlyHead
<1>11. incoming' = Wire(n)
       /\ heldReliable' \subseteq {c \in net : c.kind = "reliable" /\ c.reliable > n}
  BY <1>2
<1>12. LooseInv'
  BY <1>2, <1>8, <1>10, <1>11, LooseStep
<1>13. Onward
  BY <1>1, <1>4, <1>6 DEF Onward
<1> QED BY <1>12, <1>13

\* A step that changes nothing the receiver keeps or gives out.
LEMMA LooseSame ==
    ASSUME LooseInv, SenderInv', UNCHANGED sender, UNCHANGED channel, UNCHANGED dispatched,
           times' = times
    PROVE  LooseInv' /\ Onward
<1>1. PICK n \in Nat : ReceiverAt(n)
  BY DEF LooseInv
<1>2. PICK D, E, u : D = dispatched /\ E = entries /\ u = incomingUnreliable
  OBVIOUS
<1>3. /\ dispatched' = D /\ entries' = E /\ incomingUnreliable' = u /\ incoming' = Wire(n)
      /\ heldReliable' \subseteq {c \in net : c.kind = "reliable" /\ c.reliable > n}
      /\ n <= reliable /\ Covered(n) /\ Progress(D, n, u) /\ Kept(E, n, u) /\ ListOrdered(E)
  BY <1>1, <1>2 DEF ReceiverAt, channel
<1>4. \A i \in DOMAIN D : packets[Packets(D)[i]] = "unsequenced" => times'[Packets(D)[i]] > 0
  BY <1>2 DEF LooseInv, Counted
<1>5. LooseInv'
  BY <1>3, <1>4, LooseStep DEF LooseInv
<1>6. Onward
  <2>1. D \in Seq(SUBSET Parts)
    BY <1>3 DEF Progress
  <2>2. <<>> \in Seq(SUBSET Parts) /\ D = D \o <<>>
    BY <2>1
  <2> QED BY <1>2, <1>3, <2>2 DEF Onward
<1> QED BY <1>5, <1>6

\* An unreliable packet that the receiver expects.
LEMMA ArrivedLoose ==
    ASSUME SenderInv, WithinLap, NEW n \in Nat, ReceiverAt(n), NEW c \in net, Loose(c),
           UnderWay(c), Expected(Wire(c.reliable), c.unreliable)
    PROVE  /\ c \in Known /\ c.reliable \in Nat /\ Reach(c.reliable, n)
           /\ Entry(c, Size(c.packet)) \in Entries
           /\ KnownAt(Entry(c, Size(c.packet)), c, n, incomingUnreliable)
<1>1. c \in Known /\ c.reliable \in Nat /\ Near(c.reliable, n)
  BY ArrivesNear DEF ReceiverAt, Sequenced
<1>2. /\ Wire(c.reliable) = Wire(n) <=> c.reliable = n
      /\ InWindow(Wire(c.reliable), Wire(n)) <=> Reach(c.reliable, n)
  BY <1>1, NumberSeen
<1>3. Reach(c.reliable, n) /\ (c.reliable = n => c.unreliable > incomingUnreliable)
  BY <1>2 DEF ReceiverAt, Expected
<1>4. OfPacket(c)
  BY <1>1 DEF SenderInv
<1>5. c.fragment \in 1 .. Size(c.packet)
  BY <1>4 DEF OfPacket
<1>6. PICK e : e = Entry(c, Size(c.packet))
  OBVIOUS
<1>7. Source(e, c)
  BY <1>5, <1>6 DEF Source, Entry
<1>8. KnownAt(e, c, n, incomingUnreliable)
  BY <1>1, <1>3, <1>7 DEF KnownAt
<1>9. Entry(c, Size(c.packet)) \in Entries
  <2>1. Size(c.packet) \in Nat
    BY FragmentsAssumption DEF Size
  <2> QED BY <2>1, EntryType DEF SenderInv
<1> QED BY <1>1, <1>3, <1>6, <1>8, <1>9

\* The receiver sees in which order the packets were sent.
LEMMA EntriesCompared ==
    ASSUME SenderInv, NEW n \in Nat, ReceiverAt(n),
           NEW c \in net, Loose(c), Reach(c.reliable, n),
           NEW e, NEW d \in net, KeptAt(e, d, n, incomingUnreliable)
    PROVE  /\ Sooner(e, Wire(c.reliable), c.unreliable) <=> d.packet < c.packet
           /\ Same(e, Wire(c.reliable), c.unreliable) <=> d.packet = c.packet
<1>1. /\ c \in Known /\ d \in Known /\ Loose(d) /\ Reach(d.reliable, n)
      /\ e.reliable = Wire(d.reliable) /\ e.unreliable = d.unreliable
  BY DEF Known, KeptAt, Source
<1>2. /\ c.reliable \in Nat /\ d.reliable \in Nat /\ c.unreliable \in Nat /\ d.unreliable \in Nat
      /\ c.packet \in Nat /\ d.packet \in Nat
      /\ c.last = c.reliable /\ d.last = d.reliable /\ Follows(c, d) /\ Follows(d, c)
  BY <1>1, InSenderOrder DEF Sequenced
<1>3. n <= c.reliable /\ c.reliable - n < Space /\ n <= d.reliable /\ d.reliable - n < Space
  BY <1>1, <1>2, ReachNear
<1>4. /\ Lap(Wire(d.reliable), Wire(n)) < Lap(Wire(c.reliable), Wire(n)) <=> d.reliable < c.reliable
      /\ Wire(d.reliable) = Wire(c.reliable) <=> d.reliable = c.reliable
  BY <1>2, <1>3, OrderSeen
<1>5. /\ Sooner(e, Wire(c.reliable), c.unreliable) <=>
            d.reliable < c.reliable \/ (d.reliable = c.reliable /\ d.unreliable < c.unreliable)
      /\ Same(e, Wire(c.reliable), c.unreliable) <=>
            d.reliable = c.reliable /\ d.unreliable = c.unreliable
  <2>1. incoming = Wire(n)
    BY DEF ReceiverAt
  <2> QED BY <1>1, <1>4, <2>1 DEF Sooner, Same
<1>6. CASE d.packet < c.packet
  <2>1. d.reliable <= c.reliable /\ (d.reliable = c.reliable => d.unreliable < c.unreliable)
    BY <1>1, <1>2, <1>6 DEF Follows
  <2> QED BY <1>2, <1>5, <1>6, <2>1
<1>7. CASE d.packet = c.packet
  <2>1. d.reliable = c.reliable /\ d.unreliable = c.unreliable
    BY <1>2, <1>7 DEF Follows
  <2> QED BY <1>2, <1>5, <1>7, <2>1
<1>8. CASE d.packet > c.packet
  <2>1. c.reliable <= d.reliable /\ (c.reliable = d.reliable => c.unreliable < d.unreliable)
    BY <1>1, <1>2, <1>8 DEF Follows
  <2> QED BY <1>2, <1>5, <1>8, <2>1
<1> QED BY <1>2, <1>6, <1>7, <1>8

\* A new entry goes to its place.
LEMMA InsertedKnown ==
    ASSUME SenderInv, NEW n \in Nat, ReceiverAt(n),
           NEW c \in net, Loose(c), Reach(c.reliable, n),
           NEW e \in Entries, KnownAt(e, c, n, incomingUnreliable),
           ~ Found(Wire(c.reliable), c.unreliable)
    PROVE  /\ ListKnown(Inserted(e), dispatched, n, incomingUnreliable)
           /\ Inserted(e) # <<>> /\ Inserted(e)[1].kind # "unsequenced"
<1> DEFINE u == incomingUnreliable
           k == Len(entries)
<1>1. k \in Nat /\ entries \in Seq(Entries) /\ DOMAIN entries = 1 .. k
  BY DEF SenderInv, TypeInv, ReceiverTyped
<1>2. PICK p : p = Place(Wire(c.reliable), c.unreliable)
  OBVIOUS
<1>3. PlacedAt(p, Wire(c.reliable), c.unreliable)
  BY <1>1, <1>2, PlaceExists
<1>4. p \in 0 .. k
  BY <1>3 DEF PlacedAt
<1>5. \A i \in 1 .. k : \E d \in net : KeptAt(entries[i], d, n, u) /\ KnownAt(entries[i], d, n, u)
  BY <1>1, EntriesKnown
<1>6. \A i, j \in 1 .. k : i < j =>
          \A a, b \in net : Source(entries[i], a) /\ Source(entries[j], b) => a.packet < b.packet
  BY <1>1, EntriesKnown DEF ListOrdered
<1>7. \A d \in net : d.packet \in Nat
  BY KnownPackets DEF Known
<1>8. ASSUME NEW i \in 1 .. p, NEW d \in net, KnownAt(entries[i], d, n, u)
      PROVE  d.packet < c.packet
  <2>1. i \in 1 .. k /\ p \in 1 .. k /\ p > 0
    BY <1>1, <1>4
  <2>2. PICK b \in net : KeptAt(entries[p], b, n, u)
    BY <1>5, <2>1
  <2>3. ~ Same(entries[p], Wire(c.reliable), c.unreliable)
    BY <1>2, <2>1 DEF Found
  <2>4. Sooner(entries[p], Wire(c.reliable), c.unreliable)
    BY <1>3, <2>1, <2>3 DEF PlacedAt
  <2>5. b.packet < c.packet
    BY <2>2, <2>4, EntriesCompared
  <2>6. CASE i = p
    <3>1. d.packet = b.packet
      BY <1>8, <2>2, <2>6, SourceOnce DEF KnownAt, KeptAt
    <3> QED BY <2>5, <3>1
  <2>7. CASE i # p
    <3>1. i < p
      BY <1>1, <1>4, <2>7
    <3>2. d.packet < b.packet
      BY <1>6, <1>8, <2>1, <2>2, <3>1 DEF KnownAt, KeptAt
    <3> QED BY <1>7, <2>5, <3>2
  <2> QED BY <2>6, <2>7
<1>9. ASSUME NEW i \in p + 1 .. k, NEW d \in net, KnownAt(entries[i], d, n, u)
      PROVE  c.packet < d.packet
  <2>1. i \in 1 .. k
    BY <1>1, <1>4
  <2>2. PICK b \in net : KeptAt(entries[i], b, n, u)
    BY <1>5, <2>1
  <2>3. ~ Sooner(entries[i], Wire(c.reliable), c.unreliable)
        /\ ~ Same(entries[i], Wire(c.reliable), c.unreliable)
    BY <1>3 DEF PlacedAt
  <2>4. ~ (b.packet < c.packet) /\ b.packet # c.packet
    BY <2>2, <2>3, EntriesCompared
  <2>5. d.packet = b.packet
    BY <1>9, <2>2, SourceOnce DEF KnownAt, KeptAt
  <2> QED BY <1>7, <2>4, <2>5
<1>10. PICK L : L = Inserted(e)
  OBVIOUS
<1>11. /\ DOMAIN L = 1 .. k + 1
       /\ \A i \in 1 .. p : L[i] = entries[i]
       /\ L[p + 1] = e
       /\ \A i \in p + 2 .. k + 1 : L[i] = entries[i - 1]
  <2>1. e.reliable = Wire(c.reliable) /\ e.unreliable = c.unreliable
    BY DEF KnownAt, Source
  <2>2. L = SubSeq(entries, 1, p) \o <<e>> \o SubSeq(entries, p + 1, k)
    BY <1>2, <1>10, <2>1 DEF Inserted
  <2>3. PICK A, B : A = SubSeq(entries, 1, p) /\ B = SubSeq(entries, p + 1, k)
    OBVIOUS
  <2>4. /\ A \in Seq(Entries) /\ Len(A) = p /\ \A i \in 1 .. p : A[i] = entries[i]
    BY <1>1, <1>4, <2>3
  <2>5. /\ B \in Seq(Entries) /\ Len(B) = k - p /\ \A i \in 1 .. k - p : B[i] = entries[p + i]
    <3>1. PICK s : s = p + 1
      OBVIOUS
    <3>2. s \in 1 .. k + 1 /\ B = SubSeq(entries, s, k)
      BY <1>1, <1>4, <2>3, <3>1
    <3> HIDE DEF k
    <3>3. /\ B \in Seq(Entries) /\ Len(B) = k - s + 1
          /\ \A i \in 1 .. k - s + 1 : B[i] = entries[s + i - 1]
      BY <1>1, <3>2 DEF k
    <3>4. k - s + 1 = k - p /\ \A i \in 1 .. k - p : s + i - 1 = p + i
      BY <1>1, <1>4, <3>1
    <3> QED BY <3>3, <3>4
  <2>6. PICK C : C = A \o <<e>>
    OBVIOUS
  <2>7. /\ C \in Seq(Entries) /\ Len(C) = p + 1 /\ C[p + 1] = e
        /\ \A i \in 1 .. p : C[i] = A[i]
    BY <1>1, <1>4, <2>4, <2>6
  <2>8. L = C \o B
    BY <2>2, <2>3, <2>6
  <2>9. /\ DOMAIN L = 1 .. k + 1 /\ \A i \in 1 .. p + 1 : L[i] = C[i]
        /\ \A i \in p + 2 .. k + 1 : L[i] = B[i - (p + 1)]
    BY <1>1, <1>4, <2>5, <2>7, <2>8
  <2>10. \A i \in p + 2 .. k + 1 : i - (p + 1) \in 1 .. k - p /\ p + (i - (p + 1)) = i - 1
    BY <1>1, <1>4
  <2>11. \A i \in 1 .. p : L[i] = entries[i]
    BY <1>1, <1>4, <2>4, <2>7, <2>9
  <2>12. L[p + 1] = e
    BY <1>4, <2>7, <2>9
  <2>13. \A i \in p + 2 .. k + 1 : L[i] = entries[i - 1]
    <3> HIDE DEF k
    <3> QED BY <2>5, <2>9, <2>10
  <2> QED BY <2>9, <2>11, <2>12, <2>13
<1>12. ASSUME NEW i \in 1 .. k + 1
       PROVE  \E x \in net : /\ KnownAt(L[i], x, n, u)
                             /\ i <= p => x.packet < c.packet
                             /\ i = p + 1 => x.packet = c.packet
                             /\ i > p + 1 => c.packet < x.packet
  <2>1. CASE i <= p
    <3>1. i \in 1 .. p /\ i \in 1 .. k /\ L[i] = entries[i]
      BY <1>1, <1>4, <1>11, <2>1
    <3>2. PICK x \in net : KnownAt(entries[i], x, n, u)
      BY <1>5, <3>1
    <3>3. x.packet < c.packet
      BY <1>8, <3>1, <3>2
    <3> QED BY <1>4, <2>1, <3>1, <3>2, <3>3
  <2>2. CASE i = p + 1
    BY <1>4, <1>11, <2>2
  <2>3. CASE i > p + 1
    <3>1. i \in p + 2 .. k + 1 /\ i - 1 \in p + 1 .. k /\ i - 1 \in 1 .. k
      BY <1>1, <1>4, <2>3
    <3>2. L[i] = entries[i - 1]
      BY <1>11, <3>1
    <3>3. PICK x \in net : KnownAt(entries[i - 1], x, n, u)
      BY <1>5, <3>1
    <3>4. c.packet < x.packet
      BY <1>9, <3>1, <3>3
    <3> QED BY <1>4, <2>3, <3>2, <3>3, <3>4
  <2> QED BY <1>4, <2>1, <2>2, <2>3
<1>13. ListOrdered(L)
  <2> SUFFICES ASSUME NEW i \in 1 .. k + 1, NEW j \in 1 .. k + 1, i < j,
                      NEW a \in net, NEW b \in net, Source(L[i], a), Source(L[j], b)
               PROVE  a.packet < b.packet
    BY <1>11 DEF ListOrdered
  <2>1. PICK x \in net : /\ KnownAt(L[i], x, n, u)
                         /\ i <= p => x.packet < c.packet
                         /\ i = p + 1 => x.packet = c.packet
                         /\ i > p + 1 => c.packet < x.packet
    BY <1>12
  <2>2. PICK y \in net : /\ KnownAt(L[j], y, n, u)
                         /\ j <= p => y.packet < c.packet
                         /\ j = p + 1 => y.packet = c.packet
                         /\ j > p + 1 => c.packet < y.packet
    BY <1>12
  <2>3. a.packet = x.packet /\ b.packet = y.packet
    BY <2>1, <2>2, SourceOnce DEF KnownAt
  <2>4. CASE j <= p
    <3>1. i \in 1 .. k /\ j \in 1 .. k /\ L[i] = entries[i] /\ L[j] = entries[j]
      BY <1>1, <1>4, <1>11, <2>4
    <3> QED BY <1>6, <3>1
  <2>5. CASE i > p + 1
    <3>1. i - 1 \in 1 .. k /\ j - 1 \in 1 .. k /\ i - 1 < j - 1
          /\ i \in p + 2 .. k + 1 /\ j \in p + 2 .. k + 1
      BY <1>1, <1>4, <2>5
    <3>2. L[i] = entries[i - 1] /\ L[j] = entries[j - 1]
      BY <1>11, <3>1
    <3> QED BY <1>6, <3>1, <3>2
  <2>6. CASE i <= p + 1 /\ j > p
    <3>1. (i <= p \/ i = p + 1) /\ (j = p + 1 \/ j > p + 1)
      BY <1>4, <2>6
    <3>2. x.packet < y.packet
      BY <1>4, <1>7, <2>1, <2>2, <3>1
    <3> QED BY <2>3, <3>2
  <2> QED BY <1>4, <2>4, <2>5, <2>6
<1>14. ListKnown(L, dispatched, n, u)
  BY <1>11, <1>12, <1>13 DEF ListKnown
<1>15. L # <<>> /\ L[1].kind # "unsequenced"
  <2>1. 1 \in 1 .. k + 1
    BY <1>1
  <2>2. PICK x \in net : KnownAt(L[1], x, n, u)
    BY <1>12, <2>1
  <2>3. L[1].kind # "unsequenced"
    BY <2>2 DEF KnownAt, Source, Loose
  <2> QED BY <1>11, <2>1, <2>3
<1> QED BY <1>10, <1>14, <1>15

\* An unreliable packet.
LEMMA LooseUnreliable ==
    ASSUME LooseInv, WithinLap, TypeInv', NEW c \in net, HandleSendUnreliable(c)
    PROVE  LooseInv' /\ Onward
<1>1. /\ UNCHANGED sender /\ UNCHANGED <<incoming, heldReliable>> /\ times' = times
      /\ UnderWay(c) /\ c.kind = "unreliable" /\ Loose(c)
  BY DEF HandleSendUnreliable, groups, Loose
<1>2. SenderInv /\ SenderInv' /\ Counted
  BY <1>1, SenderStays DEF LooseInv
<1>3. PICK n \in Nat : ReceiverAt(n)
  BY DEF LooseInv
<1>4. CASE Expected(Wire(c.reliable), c.unreliable) /\ ~ Found(Wire(c.reliable), c.unreliable)
  <2>1. PICK e : e = Entry(c, 1)
    OBVIOUS
  <2>2. Size(c.packet) = 1
    <3>1. c \in Known
      BY DEF Known
    <3>2. packets[c.packet] = "unreliable"
      BY <1>1, <1>2, <3>1 DEF SenderInv, OfPacket
    <3> QED BY <3>2 DEF Size
  <2>3. /\ e \in Entries /\ KnownAt(e, c, n, incomingUnreliable) /\ Reach(c.reliable, n)
    BY <1>1, <1>2, <1>3, <1>4, <2>1, <2>2, ArrivedLoose
  <2>4. PICK list : list = Inserted(e)
    OBVIOUS
  <2>5. /\ ListKnown(list, dispatched, n, incomingUnreliable)
        /\ list # <<>> /\ list[1].kind # "unsequenced"
    BY <1>1, <1>2, <1>3, <1>4, <2>3, <2>4, InsertedKnown
  <2>6. list \in Seq(Entries)
    BY <1>2, <2>3, <2>4, InsertedType DEF SenderInv, TypeInv, ReceiverTyped
  <2>7. DispatchFrom(list)
    BY <1>4, <2>1, <2>4 DEF HandleSendUnreliable
  <2> QED BY <1>1, <1>2, <1>3, <2>5, <2>6, <2>7, LooseDispatch
<1>5. CASE ~ (Expected(Wire(c.reliable), c.unreliable) /\ ~ Found(Wire(c.reliable), c.unreliable))
  <2>1. UNCHANGED channel /\ UNCHANGED dispatched
    BY <1>1, <1>5 DEF HandleSendUnreliable, channel
  <2> QED BY <1>1, <1>2, <2>1, LooseSame
<1> QED BY <1>4, <1>5

Filled(e, c) == [e EXCEPT !.data = @ \cup {<<c.packet, c.fragment>>}]

FilledKeeps(i, e, list, n) ==
    /\ entries[i].kind = "fragmented"
    /\ ListKnown(list, dispatched, n, incomingUnreliable)
    /\ list # <<>> /\ list[1].kind # "unsequenced"
    /\ (e = entries[i] \/ ~ Complete(e)) => Kept(list, n, incomingUnreliable)

\* The entry of a packet takes one fragment more of it.
LEMMA EntryFilled ==
    ASSUME SenderInv, NEW n \in Nat, ReceiverAt(n),
           NEW c \in net, c.kind = "fragmented", Reach(c.reliable, n),
           NEW i \in DOMAIN entries, Same(entries[i], Wire(c.reliable), c.unreliable),
           NEW e, e = Filled(entries[i], c), NEW list, list = [entries EXCEPT ![i] = e]
    PROVE  FilledKeeps(i, e, list, n)
<1> DEFINE u == incomingUnreliable
<1>1. entries \in Seq(Entries) /\ entries[i] \in Entries /\ Loose(c) /\ c \in Known
  BY DEF SenderInv, TypeInv, ReceiverTyped, Loose, Known
<1>2. \A j \in DOMAIN entries : \E d \in net : KeptAt(entries[j], d, n, u) /\ KnownAt(entries[j], d, n, u)
  BY EntriesKnown
<1>3. PICK d \in net : KeptAt(entries[i], d, n, u) /\ KnownAt(entries[i], d, n, u)
  BY <1>2
<1>4. d.packet = c.packet
  BY <1>1, <1>3, EntriesCompared
<1>5. d \in Known /\ Loose(d) /\ entries[i].kind = d.kind /\ entries[i].data # {}
      /\ entries[i].data \subseteq {<<c.packet, f>> : f \in 1 .. Size(c.packet)}
  BY <1>3, <1>4 DEF Known, KeptAt, Source
<1>6. d.kind = c.kind
  <2>1. Follows(c, d)
    BY <1>1, <1>5, InSenderOrder DEF Sequenced
  <2> QED BY <1>4, <2>1 DEF Follows
<1>7. <<c.packet, c.fragment>> \in {<<c.packet, f>> : f \in 1 .. Size(c.packet)}
  <2>1. c.fragment \in 1 .. Size(c.packet)
    BY <1>1 DEF SenderInv, OfPacket
  <2> QED BY <2>1
<1>8. /\ e.kind = entries[i].kind /\ e.reliable = entries[i].reliable
      /\ e.unreliable = entries[i].unreliable /\ e.count = entries[i].count
      /\ e.data = entries[i].data \cup {<<c.packet, c.fragment>>}
  BY <1>1 DEF Filled, Entries
<1>9. Source(e, d)
  <2>1. e.data # {} /\ e.data \subseteq {<<d.packet, f>> : f \in 1 .. Size(d.packet)}
    BY <1>4, <1>5, <1>7, <1>8
  <2>2. Source(entries[i], d)
    BY <1>3 DEF KeptAt
  <2> QED BY <1>8, <2>1, <2>2 DEF Source
<1>10. KnownAt(e, d, n, u)
  BY <1>3, <1>9 DEF KnownAt
<1>11. /\ DOMAIN list = DOMAIN entries /\ list[i] = e
       /\ \A j \in DOMAIN entries : j # i => list[j] = entries[j]
  BY <1>1
<1>12. ASSUME NEW j \in DOMAIN entries
       PROVE  \E x \in net : KnownAt(list[j], x, n, u) /\ Source(entries[j], x)
  <2>1. CASE j = i
    BY <1>3, <1>10, <1>11, <2>1 DEF KeptAt
  <2>2. CASE j # i
    BY <1>2, <1>11, <2>2 DEF KeptAt
  <2> QED BY <2>1, <2>2
<1>13. ListOrdered(list)
  <2> SUFFICES ASSUME NEW j \in DOMAIN entries, NEW k \in DOMAIN entries, j < k,
                      NEW a \in net, NEW b \in net, Source(list[j], a), Source(list[k], b)
               PROVE  a.packet < b.packet
    BY <1>11 DEF ListOrdered
  <2>1. PICK x \in net : KnownAt(list[j], x, n, u) /\ Source(entries[j], x)
    BY <1>12
  <2>2. PICK y \in net : KnownAt(list[k], y, n, u) /\ Source(entries[k], y)
    BY <1>12
  <2>3. x.packet < y.packet
    BY <2>1, <2>2, EntriesKnown DEF ListOrdered
  <2>4. a.packet = x.packet /\ b.packet = y.packet
    BY <2>1, <2>2, SourceOnce DEF KnownAt
  <2> QED BY <2>3, <2>4
<1>14. ListKnown(list, dispatched, n, u)
  BY <1>11, <1>12, <1>13 DEF ListKnown
<1>15. list # <<>> /\ list[1].kind # "unsequenced"
  <2>1. 1 \in DOMAIN entries
    BY <1>1
  <2>2. PICK x \in net : KnownAt(list[1], x, n, u)
    BY <1>12, <2>1
  <2>3. list[1].kind # "unsequenced"
    BY <2>2 DEF KnownAt, Source, Loose
  <2> QED BY <1>11, <2>1, <2>3
<1>16. ASSUME e = entries[i] \/ ~ Complete(e)
       PROVE  Kept(list, n, u)
  <2>1. KeptAt(e, d, n, u)
    BY <1>3, <1>9, <1>16 DEF KeptAt
  <2> QED BY <1>2, <1>11, <2>1 DEF Kept
<1> QED BY <1>5, <1>6, <1>14, <1>15, <1>16 DEF FilledKeeps

\* A fragment of an unreliable packet.
LEMMA LooseFragment ==
    ASSUME LooseInv, WithinLap, TypeInv', NEW c \in net, HandleSendUnreliableFragment(c)
    PROVE  LooseInv' /\ Onward
<1> DEFINE r == Wire(c.reliable)
           i == Place(r, c.unreliable)
           new == Entry(c, Fragments)
           e == [entries[i] EXCEPT !.data = @ \cup new.data]
           list == [entries EXCEPT ![i] = e]
<1>1. /\ UNCHANGED sender /\ UNCHANGED <<incoming, heldReliable>> /\ times' = times
      /\ UnderWay(c) /\ c.kind = "fragmented" /\ Loose(c)
  BY DEF HandleSendUnreliableFragment, groups, Loose
<1>2. SenderInv /\ SenderInv' /\ Counted
  BY <1>1, SenderStays DEF LooseInv
<1>3. PICK n \in Nat : ReceiverAt(n)
  BY DEF LooseInv
<1>4. Size(c.packet) = Fragments
  <2>1. c \in Known
    BY DEF Known
  <2>2. packets[c.packet] = "fragmented"
    BY <1>1, <1>2, <2>1 DEF SenderInv, OfPacket
  <2> QED BY <2>2 DEF Size
<1>5. CASE ~ Expected(r, c.unreliable)
  <2>1. UNCHANGED channel /\ UNCHANGED dispatched
    BY <1>1, <1>5 DEF HandleSendUnreliableFragment, channel
  <2> QED BY <1>1, <1>2, <2>1, LooseSame
<1>6. CASE Expected(r, c.unreliable) /\ ~ Found(r, c.unreliable)
  <2>1. PICK x : x = new
    OBVIOUS
  <2>2. x \in Entries /\ KnownAt(x, c, n, incomingUnreliable) /\ Reach(c.reliable, n)
    BY <1>1, <1>2, <1>3, <1>4, <1>6, <2>1, ArrivedLoose
  <2>3. PICK L : L = Inserted(x)
    OBVIOUS
  <2>4. /\ ListKnown(L, dispatched, n, incomingUnreliable)
        /\ L # <<>> /\ L[1].kind # "unsequenced"
    BY <1>1, <1>2, <1>3, <1>6, <2>2, <2>3, InsertedKnown
  <2>5. L \in Seq(Entries)
    BY <1>2, <2>2, <2>3, InsertedType DEF SenderInv, TypeInv, ReceiverTyped
  <2>6. DispatchFrom(L)
    BY <1>6, <2>1, <2>3 DEF HandleSendUnreliableFragment
  <2> QED BY <1>1, <1>2, <1>3, <2>4, <2>5, <2>6, LooseDispatch
<1>7. CASE Expected(r, c.unreliable) /\ Found(r, c.unreliable)
  <2>1. PICK p, x, L : p = i /\ x = e /\ L = list
    OBVIOUS
  <2>2. entries \in Seq(Entries)
    BY <1>2 DEF SenderInv, TypeInv, ReceiverTyped
  <2>3. p \in DOMAIN entries /\ Same(entries[p], r, c.unreliable)
    <3>1. p > 0 /\ p \in 0 .. Len(entries) /\ Same(entries[p], r, c.unreliable)
      BY <1>7, <2>1, <2>2, PlaceExists DEF Found, PlacedAt
    <3> QED BY <2>2, <3>1
  <2>4. x = Filled(entries[p], c) /\ L = [entries EXCEPT ![p] = x]
    BY <2>1 DEF Entry, Filled
  <2>5. Reach(c.reliable, n)
    BY <1>1, <1>2, <1>3, <1>7, ArrivedLoose
  <2>6. /\ entries[p].kind = "fragmented"
        /\ ListKnown(L, dispatched, n, incomingUnreliable)
        /\ L # <<>> /\ L[1].kind # "unsequenced"
        /\ x = entries[p] \/ ~ Complete(x) => Kept(L, n, incomingUnreliable)
    <3>1. FilledKeeps(p, x, L, n)
      BY <1>1, <1>2, <1>3, <2>3, <2>4, <2>5, EntryFilled
    <3> QED BY <3>1 DEF FilledKeeps
  <2>7. \/ DispatchFrom(L)
        \/ /\ x = entries[p] \/ ~ Complete(x)
           /\ entries' = L /\ UNCHANGED <<incomingUnreliable, dispatched>>
    BY <1>7, <2>1, <2>6 DEF HandleSendUnreliableFragment
  <2>8. L \in Seq(Entries)
    <3>1. x \in Entries
      <4>1. <<c.packet, c.fragment>> \in Parts
        BY <1>2 DEF SenderInv, TypeInv, OnceInv, Typed, Commands, Parts
      <4>2. PICK y : y = entries[p]
        OBVIOUS
      <4>3. y \in Entries
        BY <2>2, <2>3, <4>2
      <4>4. x = [y EXCEPT !.data = @ \cup {<<c.packet, c.fragment>>}]
        BY <2>4, <4>2 DEF Filled
      <4> QED BY <4>1, <4>3, <4>4 DEF Entries
    <3> QED BY <2>2, <2>3, <2>4, <3>1
  <2>9. CASE DispatchFrom(L)
    BY <1>1, <1>2, <1>3, <2>6, <2>8, <2>9, LooseDispatch
  <2>10. CASE /\ x = entries[p] \/ ~ Complete(x)
              /\ entries' = L /\ UNCHANGED <<incomingUnreliable, dispatched>>
    <3>1. PICK D, u : D = dispatched /\ u = incomingUnreliable
      OBVIOUS
    <3>2. dispatched' = D /\ entries' = L /\ incomingUnreliable' = u /\ Kept(L, n, u)
          /\ ListOrdered(L) /\ Progress(D, n, u)
      BY <1>3, <2>6, <2>10, <3>1 DEF ListKnown, ReceiverAt
    <3>3. /\ incoming' = Wire(n) /\ n <= reliable /\ Covered(n)
          /\ heldReliable' \subseteq {h \in net : h.kind = "reliable" /\ h.reliable > n}
      BY <1>1, <1>3 DEF ReceiverAt
    <3>4. \A j \in DOMAIN D : packets[Packets(D)[j]] = "unsequenced" => times'[Packets(D)[j]] > 0
      BY <1>1, <1>2, <3>1 DEF Counted
    <3>5. LooseInv'
      BY <1>1, <1>2, <3>2, <3>3, <3>4, LooseStep
    <3>6. Onward
      <4>1. D \in Seq(SUBSET Parts)
        BY <3>2 DEF Progress
      <4>2. <<>> \in Seq(SUBSET Parts) /\ D = D \o <<>>
        BY <4>1
      <4> QED BY <3>1, <3>2, <4>2 DEF Onward
    <3> QED BY <3>5, <3>6
  <2> QED BY <2>7, <2>9, <2>10
<1> QED BY <1>5, <1>6, <1>7

\* An entry stays one to look for when the receiver's number grows.
LEMMA KnownLater ==
    ASSUME SenderInv, WithinLap, NEW n \in Nat, ReceiverAt(n), NEW m \in Nat, n <= m, m <= reliable,
           NEW e, NEW c \in net, KeptAt(e, c, n, incomingUnreliable)
    PROVE  KnownAt(e, c, m, 0)
<1>1. c \in Known /\ Loose(c) /\ Source(e, c) /\ Reach(c.reliable, n)
  BY DEF Known, KeptAt, Source
<1>2. c.reliable \in Nat /\ c.unreliable \in Nat /\ 1 <= c.unreliable
  BY <1>1, InSenderOrder DEF Sequenced
<1>3. n <= c.reliable
  BY <1>1 DEF Reach
<1>4. reliable \in Nat /\ reliable - n <= Space - FreeReliableWindows * ReliableWindowSize
  BY LagBound DEF ReceiverAt, SenderInv, TypeInv, OnceInv, Typed
<1>5. m <= c.reliable => Reach(c.reliable, m)
  <2>1. n \div ReliableWindowSize <= m \div ReliableWindowSize
    BY SpaceSize, QuotientGrows
  <2>2. /\ n \div ReliableWindowSize \in Nat /\ m \div ReliableWindowSize \in Nat
        /\ c.reliable \div ReliableWindowSize \in Nat /\ FreeReliableWindows \in Nat
    <3>1. ReliableWindowSize \in Nat \ {0} /\ FreeReliableWindows \in Nat
      BY SpaceSize, WindowsAssumption
    <3> QED BY <1>2, <3>1, Remainder
  <2> QED BY <1>1, <2>1, <2>2 DEF Reach
<1>6. Near(c.reliable, m)
  <2>1. CASE m <= c.reliable
    BY <1>2, <1>5, <2>1, ReachNear
  <2>2. CASE c.reliable < m
    <3>1. PICK lap : lap = Space - FreeReliableWindows * ReliableWindowSize
      OBVIOUS
    <3>2. lap \in Int
      <4>1. Space \in Nat /\ FreeReliableWindows \in Nat /\ ReliableWindowSize \in Nat
        BY SpaceSize, WindowsAssumption
      <4>2. FreeReliableWindows * ReliableWindowSize \in Nat
        BY <4>1
      <4> QED BY <3>1, <4>1, <4>2
    <3>3. m - c.reliable <= lap
      BY <1>2, <1>3, <1>4, <2>2, <3>1, <3>2
    <3> QED BY <1>2, <2>2, <3>1, <3>3 DEF Near
  <2> QED BY <1>2, <2>1, <2>2
<1>7. c.reliable = m => c.unreliable > 0
  BY <1>2
<1> QED BY <1>1, <1>5, <1>6, <1>7 DEF KnownAt

\* A reliable packet, with those that wait for it.
LEMMA LooseReliable ==
    ASSUME LooseInv, WithinLap, TypeInv', NEW c \in net, HandleReliable(c)
    PROVE  LooseInv' /\ Onward
<1>1. PICK held, final, result : /\ held = heldReliable \cup {c}
                                 /\ final = Given(held)
                                 /\ result = DispatchUnreliable(entries, final.incoming, 0)
  OBVIOUS
<1>2. /\ UNCHANGED sender /\ UnderWay(c) /\ c.kind = "reliable" /\ times' = times
      /\ heldReliable' = final.held /\ incoming' = final.incoming
      /\ final.given = <<>> => UNCHANGED <<entries, incomingUnreliable, dispatched>>
      /\ final.given # <<>> => /\ entries' = result.list
                               /\ incomingUnreliable' = result.unreliable
                               /\ dispatched' = dispatched \o final.given \o result.moved
  BY <1>1 DEF HandleReliable, groups
<1>3. SenderInv /\ SenderInv' /\ Counted
  BY <1>2, SenderStays DEF LooseInv
<1>4. PICK n \in Nat : ReceiverAt(n)
  BY DEF LooseInv
<1>5. PICK D, u, E : D = dispatched /\ u = incomingUnreliable /\ E = entries
  OBVIOUS
<1>6. /\ Progress(D, n, u) /\ D \in Seq(SUBSET Parts) /\ u \in Nat /\ E \in Seq(Entries)
      /\ incoming = Wire(n) /\ n <= reliable /\ Covered(n) /\ ListOrdered(E)
      /\ heldReliable \subseteq {h \in net : h.kind = "reliable" /\ h.reliable > n}
      /\ reliable \in Nat
  BY <1>3, <1>4, <1>5, EntriesKnown
     DEF ReceiverAt, Progress, SenderInv, TypeInv, OnceInv, Typed, ReceiverTyped
<1>7. reliable - n < Space
  BY <1>3, <1>4, LagBound DEF ReceiverAt
<1>8. held \subseteq {h \in net : h.kind = "reliable" /\ h.reliable > n}
  <2>1. ~ IsGiven(D, c.packet)
    BY <1>2, <1>5 DEF UnderWay, IsGiven
  <2>2. c.reliable > n
    BY <1>2, <1>6, <2>1 DEF Progress, ReliableGiven
  <2> QED BY <1>1, <1>2, <1>6, <2>2
<1>9. Holding(held) \in GivenStates
  <2>1. held \subseteq Commands /\ IsFiniteSet(held)
    BY <1>1, <1>3, FS_AddElement DEF SenderInv, ReceiverTyped, TypeInv, OnceInv, Typed
  <2>2. held \in {s \in SUBSET Commands : IsFiniteSet(s)}
    BY <2>1
  <2>3. <<>> \in Seq(SUBSET Parts) /\ incoming \in 0 .. Space - 1
    BY <1>3 DEF SenderInv, TypeInv, ReceiverTyped
  <2> QED BY <2>2, <2>3 DEF Holding, GivenStates
<1>10. GivenSo(final, D, n, u)
  BY <1>1, <1>3, <1>6, <1>7, <1>8, <1>9, GivenKeeps
<1>11. PICK m \in Nat : GivenAt(final, D, n, u, m)
  BY <1>10 DEF GivenSo
<1>12. /\ n <= m /\ m <= reliable /\ final.incoming = Wire(m) /\ incoming' = Wire(m)
       /\ heldReliable' \subseteq {h \in net : h.kind = "reliable" /\ h.reliable > m}
       /\ final.given \in Seq(SUBSET Parts)
  BY <1>2, <1>10, <1>11 DEF GivenAt, GivenSo, GivenStates
<1>13. \A j \in DOMAIN D : packets[Packets(D)[j]] = "unsequenced" => times'[Packets(D)[j]] > 0
  BY <1>2, <1>3, <1>5 DEF Counted
<1>14. CASE final.given = <<>>
  <2>1. m = n
    BY <1>11, <1>14 DEF GivenAt
  <2>2. dispatched' = D /\ entries' = E /\ incomingUnreliable' = u
    BY <1>2, <1>5, <1>14
  <2>3. Kept(E, n, u)
    BY <1>4, <1>5 DEF ReceiverAt
  <2>4. LooseInv'
    BY <1>2, <1>3, <1>6, <1>12, <1>13, <2>1, <2>2, <2>3, LooseStep
  <2>5. <<>> \in Seq(SUBSET Parts) /\ D = D \o <<>>
    BY <1>6
  <2>6. Onward
    BY <1>5, <2>2, <2>5 DEF Onward
  <2> QED BY <2>4, <2>6
<1>15. CASE final.given # <<>>
  <2>1. PICK G : G = D \o final.given
    OBVIOUS
  <2>2. Progress(G, m, 0) /\ NoLoner(G, D)
    BY <1>11, <1>15, <2>1 DEF GivenAt
  <2>3. \A i \in DOMAIN E : \E x \in net : KnownAt(E[i], x, m, 0)
    <3>1. \A i \in DOMAIN E : \E x \in net : KeptAt(E[i], x, n, incomingUnreliable)
      BY <1>4, <1>5 DEF ReceiverAt, Kept
    <3> QED BY <1>3, <1>4, <1>12, <3>1, KnownLater
  <2>4. ListKnown(E, G, m, 0)
    BY <1>6, <2>3 DEF ListKnown
  <2>5. 0 \in 0 .. LastUnreliable
    BY SpaceSize
  <2>6. result = DispatchUnreliable(E, Wire(m), 0)
    BY <1>1, <1>5, <1>12
  <2>7. /\ Progress(G \o result.moved, m, result.unreliable)
        /\ OnlyHead(G \o result.moved, G, E)
        /\ Kept(result.list, m, result.unreliable)
        /\ ListOrdered(result.list)
    BY <1>3, <1>6, <2>2, <2>4, <2>5, <2>6, DispatchKeeps
  <2>8. result.moved \in Seq(SUBSET Parts)
    BY <1>6, <2>5, <2>6, DispatchType
  <2>9. PICK F, L, v : F = G \o result.moved /\ L = result.list /\ v = result.unreliable
    OBVIOUS
  <2>10. /\ Progress(F, m, v) /\ OnlyHead(F, G, E) /\ Kept(L, m, v) /\ ListOrdered(L)
         /\ entries' = L /\ incomingUnreliable' = v /\ dispatched' = F
    BY <1>2, <1>5, <1>15, <2>1, <2>7, <2>9
  <2>11. ASSUME NEW i \in DOMAIN F, packets[Packets(F)[i]] = "unsequenced"
         PROVE  times'[Packets(F)[i]] > 0
    <3>1. \E j \in DOMAIN G : Packets(G)[j] = Packets(F)[i]
      <4>1. ~ (E # <<>> /\ E[1].kind = "unsequenced")
        <5> SUFFICES ASSUME E # <<>> PROVE E[1].kind # "unsequenced"
          OBVIOUS
        <5>1. 1 \in DOMAIN E
          BY <1>6
        <5>2. PICK x \in net : KnownAt(E[1], x, m, 0)
          BY <2>3, <5>1
        <5> QED BY <5>2 DEF KnownAt, Source, Loose
      <4> QED BY <2>10, <2>11, <4>1 DEF OnlyHead
    <3>2. PICK j \in DOMAIN G : Packets(G)[j] = Packets(F)[i]
      BY <3>1
    <3>3. PICK k \in DOMAIN D : Packets(D)[k] = Packets(G)[j]
      BY <2>2, <2>11, <3>2 DEF NoLoner
    <3> QED BY <1>13, <2>11, <3>2, <3>3
  <2>12. Covered(m)
    <3>1. \A k \in m + 1 .. reliable : k \in n + 1 .. reliable
      BY <1>6, <1>12
    <3> QED BY <1>6, <3>1 DEF Covered
  <2>13. LooseInv'
    BY <1>2, <1>3, <1>12, <2>10, <2>11, <2>12, LooseStep
  <2>14. Onward
    <3>1. PICK g, w : g = final.given /\ w = result.moved
      OBVIOUS
    <3>2. g \in Seq(SUBSET Parts) /\ w \in Seq(SUBSET Parts)
      BY <1>12, <2>8, <3>1
    <3>3. (D \o g) \o w = D \o (g \o w) /\ g \o w \in Seq(SUBSET Parts)
      BY <1>6, <3>2, ConcatAssociative
    <3>4. dispatched' = dispatched \o (g \o w)
      BY <1>5, <2>1, <2>9, <2>10, <3>1, <3>3
    <3> QED BY <3>3, <3>4 DEF Onward
  <2> QED BY <2>13, <2>14
<1> QED BY <1>14, <1>15

\* A packet that is not sequenced.
LEMMA LooseUnsequenced ==
    ASSUME LooseInv, TypeInv', NEW c \in net, HandleSendUnsequenced(c)
    PROVE  LooseInv' /\ Onward
<1>1. /\ UNCHANGED sender /\ UNCHANGED <<incoming, heldReliable>> /\ c.kind = "unsequenced"
  BY DEF HandleSendUnsequenced
<1>2. SenderInv /\ SenderInv' /\ Counted
  BY <1>1, SenderStays DEF LooseInv
<1>3. PICK n \in Nat : ReceiverAt(n)
  BY DEF LooseInv
<1>4. \/ /\ times' = [times EXCEPT ![c.packet] = @ + 1]
         /\ DispatchFrom(<<Entry(c, 0)>> \o entries)
      \/ UNCHANGED <<groups, entries, incomingUnreliable, dispatched>>
  BY DEF HandleSendUnsequenced
<1>5. CASE UNCHANGED <<groups, entries, incomingUnreliable, dispatched>>
  <2>1. UNCHANGED channel /\ UNCHANGED dispatched /\ times' = times
    BY <1>1, <1>5 DEF channel, groups
  <2> QED BY <1>1, <1>2, <2>1, LooseSame
<1>6. CASE /\ times' = [times EXCEPT ![c.packet] = @ + 1]
           /\ DispatchFrom(<<Entry(c, 0)>> \o entries)
  <2>1. PICK p, e, list : /\ p = c.packet /\ e = Entry(c, 0)
                          /\ list = <<e>> \o entries
    OBVIOUS
  <2>2. c \in Known
    BY DEF Known
  <2>3. p \in 1 .. queued /\ packets[p] = "unsequenced" /\ c.fragment = 0
    BY <1>1, <1>2, <2>1, <2>2 DEF SenderInv, OfPacket
  <2>4. /\ times \in [DOMAIN packets -> Nat] /\ p \in DOMAIN packets
        /\ entries \in Seq(Entries) /\ e \in Entries
    <3>1. packets \in Seq(Kinds) /\ queued \in 0 .. Len(packets)
          /\ times \in [DOMAIN packets -> Nat] /\ entries \in Seq(Entries)
      BY <1>2 DEF SenderInv, TypeInv, OnceInv, Typed, ReceiverTyped
    <3>2. e \in Entries
      BY <1>2, <2>1, EntryType DEF SenderInv
    <3> QED BY <2>3, <3>1, <3>2
  <2>5. times[p] = 0 /\ times'[p] = 1
    <3>1. times'[p] = times[p] + 1 /\ p \in DOMAIN times'
      BY <1>6, <2>1, <2>4
    <3>2. times'[p] <= 1
      BY <3>1 DEF TypeInv, OnceInv, AtMostOnce
    <3> QED BY <2>4, <3>1, <3>2
  <2>6. e.kind = "unsequenced" /\ e.data = {<<p, 0>>}
    BY <1>1, <2>1, <2>3 DEF Entry
  <2>7. Loner(e, dispatched)
    <3>1. \A i \in DOMAIN dispatched : Packets(dispatched)[i] # p
      BY <1>2, <2>3, <2>5 DEF Counted
    <3> QED BY <2>3, <2>6, <3>1 DEF Loner
  <2>8. /\ list \in Seq(Entries) /\ DOMAIN list = 1 .. Len(entries) + 1 /\ list # <<>>
        /\ list[1] = e /\ Len(entries) \in Nat
        /\ \A i \in 2 .. Len(entries) + 1 :
              i - 1 \in DOMAIN entries /\ list[i] = entries[i - 1]
    BY <2>1, <2>4
  <2>9. \A i \in DOMAIN list : i = 1 \/ i \in 2 .. Len(entries) + 1
    BY <2>8
  <2>10. ListOrdered(list)
    <3> SUFFICES ASSUME NEW i \in DOMAIN list, NEW j \in DOMAIN list, i < j,
                        NEW a \in net, NEW b \in net, Source(list[i], a), Source(list[j], b)
                 PROVE  a.packet < b.packet
      BY DEF ListOrdered
    <3>1. i # 1
      BY <2>6, <2>8 DEF Source, Loose
    <3>2. i \in 2 .. Len(entries) + 1 /\ j \in 2 .. Len(entries) + 1
      BY <2>8, <2>9, <3>1
    <3>3. i - 1 \in DOMAIN entries /\ j - 1 \in DOMAIN entries /\ i - 1 < j - 1
          /\ list[i] = entries[i - 1] /\ list[j] = entries[j - 1]
      BY <2>8, <3>2
    <3> QED BY <1>2, <1>3, <3>3, EntriesKnown DEF ListOrdered
  <2>11. ListKnown(list, dispatched, n, incomingUnreliable)
    <3>1. ASSUME NEW i \in 2 .. Len(entries) + 1
          PROVE  \E x \in net : KnownAt(list[i], x, n, incomingUnreliable)
      BY <1>2, <1>3, <2>8, EntriesKnown
    <3> QED BY <2>7, <2>8, <2>9, <2>10, <3>1 DEF ListKnown
  <2>12. \A q \in DOMAIN times : times[q] > 0 => times'[q] > 0
    BY <1>6, <2>1, <2>4
  <2>13. \A q : (list # <<>> /\ list[1].kind = "unsequenced" /\ list[1].data = {<<q, 0>>}) =>
             times'[q] > 0
    <3> SUFFICES ASSUME NEW q, list[1].data = {<<q, 0>>} PROVE times'[q] > 0
      OBVIOUS
    <3>1. <<p, 0>> = <<q, 0>>
      BY <2>6, <2>8
    <3>2. p = q
      BY <3>1
    <3> QED BY <2>5, <3>2
  <2>14. DispatchFrom(list)
    BY <1>6, <2>1
  <2> QED BY <1>1, <1>2, <1>3, <2>8, <2>11, <2>12, <2>13, <2>14, LooseDispatch
<1> QED BY <1>4, <1>5, <1>6

-----------------------------------------------------------------------------
(* Every step keeps the order, and is one that LossyChannel allows.           *)

\* A step of the receiver.
LEMMA LooseReceives ==
    ASSUME LooseInv, WithinLap, TypeInv', NEW c \in net,
           HandleReliable(c) \/ HandleSendUnreliable(c) \/ HandleSendUnreliableFragment(c)
              \/ HandleSendUnsequenced(c)
    PROVE  LooseInv' /\ Onward /\ UNCHANGED sender
<1>1. UNCHANGED sender
  BY DEF HandleReliable, HandleSendUnreliable, HandleSendUnreliableFragment, HandleSendUnsequenced
<1>2. LooseInv' /\ Onward
  BY LooseReliable, LooseUnreliable, LooseFragment, LooseUnsequenced
<1> QED BY <1>1, <1>2

\* What was given in sequence.
InSequence == Lossy!Legal(Packets(dispatched)) /\ dispatched \in Seq(SUBSET Parts)

LEMMA LooseLegal == LooseInv => InSequence
BY DEF LooseInv, ReceiverAt, Progress, InSequence

LEMMA LooseLegalNext == LooseInv' => InSequence'
BY LooseLegal, PTL

\* Sequences, and the packets of which they are.
LEMMA PacketsLonger ==
    ASSUME NEW D \in Seq(SUBSET Parts), NEW more \in Seq(SUBSET Parts)
    PROVE  /\ more = <<>> => Packets(D \o more) = Packets(D)
           /\ more # <<>> => Len(Packets(D \o more)) > Len(Packets(D))
           /\ SubSeq(Packets(D \o more), 1, Len(Packets(D))) = Packets(D)
<1>1. PICK E, k, l : E = D \o more /\ k = Len(D) /\ l = Len(more)
  OBVIOUS
<1>2. /\ E \in Seq(SUBSET Parts) /\ DOMAIN E = 1 .. k + l /\ DOMAIN D = 1 .. k
      /\ k \in Nat /\ l \in Nat /\ \A i \in 1 .. k : E[i] = D[i]
      /\ more # <<>> => l > 0
      /\ more = <<>> => E = D
  BY <1>1
<1>3. PICK S : \A x : PacketGiven(x) \in S
  <2>1. \A x : PacketGiven(x) \in 0 .. queued \cup {0}
    <3> TAKE x
    <3> DEFINE Whole(p) == x \in {{<<p, 0>>},
                                  {<<p, f>> : f \in 1 .. IF packets[p] = "fragmented"
                                                         THEN Fragments ELSE 1}}
    <3>1. PacketGiven(x) = IF \E p \in 1 .. queued : Whole(p)
                           THEN CHOOSE p \in 1 .. queued : Whole(p) ELSE 0
      BY DEF PacketGiven
    <3> HIDE DEF Whole
    <3>2. CASE \E p \in 1 .. queued : Whole(p)
      <4>1. PacketGiven(x) \in 1 .. queued
        BY <3>1, <3>2
      <4>2. \A y \in 1 .. queued : y \in 0 .. queued
        OBVIOUS
      <4> QED BY <4>1, <4>2
    <3>3. CASE ~ \E p \in 1 .. queued : Whole(p)
      BY <3>1, <3>3
    <3> QED BY <3>2, <3>3
  <2> QED BY <2>1
<1>4. PICK a, b : a = Packets(D) /\ b = Packets(E)
  OBVIOUS
<1>5. /\ a = [i \in 1 .. k |-> PacketGiven(D[i])]
      /\ b = [i \in 1 .. k + l |-> PacketGiven(E[i])]
  BY <1>2, <1>4 DEF Packets
<1>6. a \in Seq(S) /\ b \in Seq(S) /\ Len(a) = k /\ Len(b) = k + l
      /\ \A i \in 1 .. k : b[i] = a[i]
  <2>1. /\ a \in [1 .. k -> S] /\ b \in [1 .. k + l -> S] /\ \A i \in 1 .. k : a[i] = PacketGiven(D[i])
        /\ \A i \in 1 .. k + l : b[i] = PacketGiven(E[i])
    BY <1>3, <1>5
  <2>2. a \in Seq(S) /\ b \in Seq(S) /\ Len(a) = k /\ Len(b) = k + l
    <3> k + l \in Nat
      BY <1>2
    <3> HIDE <1>5
    <3> QED BY <1>2, <2>1
  <2>3. \A i \in 1 .. k : i \in 1 .. k + l
    BY <1>2
  <2> QED BY <1>2, <2>1, <2>2, <2>3
<1>7. SubSeq(b, 1, k) = a
  BY <1>2, <1>6
<1>8. /\ more = <<>> => b = a
      /\ more # <<>> => Len(b) > Len(a)
      /\ SubSeq(b, 1, Len(a)) = a
  <2>1. more = <<>> => b = a
    BY <1>2, <1>4
  <2>2. more # <<>> => Len(b) > Len(a)
    BY <1>2, <1>6
  <2> QED BY <1>6, <1>7, <2>1, <2>2
<1> QED BY <1>1, <1>4, <1>8

\* A step of the channel is one of LossyChannel or none.
LEMMA LooseNext ==
    LooseInv /\ WithinLap /\ [Next]_vars =>
        LooseInv' /\ [Lossy!Send \/ Lossy!Deliver]_(Lossy!vars)
<1> SUFFICES ASSUME LooseInv, WithinLap, [Next]_vars
             PROVE  LooseInv' /\ (Lossy!Send \/ Lossy!Deliver \/ UNCHANGED Lossy!vars)
  BY Zenon
<1>1. TypeInv'
  BY TypeNext DEF LooseInv, SenderInv
<1>2. ASSUME packets' = packets, queued' = queued, Packets(dispatched)' = Packets(dispatched)
      PROVE  UNCHANGED Lossy!vars
  BY <1>2 DEF Lossy!vars, Packets
<1>3. CASE Send
  <2>1. LooseInv' /\ Packets(dispatched)' = Packets(dispatched)
    BY <1>1, <1>3, LooseSender
  <2>2. packets' = packets /\ queued' = queued + 1 /\ queued < Len(packets)
    BY <1>3 DEF Send
  <2>3. Lossy!Send
    BY <2>1, <2>2 DEF Lossy!Send, Packets
  <2> QED BY <2>1, <2>3
<1>4. CASE Transmit \/ Drop
  <2>1. LooseInv' /\ Packets(dispatched)' = Packets(dispatched)
    BY <1>1, <1>4, LooseSender
  <2>2. packets' = packets /\ queued' = queued
    BY <1>4 DEF Transmit, Drop
  <2> QED BY <1>2, <2>1, <2>2
<1>5. ASSUME NEW c \in net,
             HandleReliable(c) \/ HandleSendUnreliable(c) \/ HandleSendUnreliableFragment(c)
                \/ HandleSendUnsequenced(c)
      PROVE  LooseInv' /\ (Lossy!Deliver \/ UNCHANGED Lossy!vars)
  <2>1. LooseInv' /\ Onward /\ UNCHANGED sender
    BY <1>1, <1>5, LooseReceives
  <2>2. packets' = packets /\ queued' = queued
    BY <2>1 DEF sender
  <2>3. PICK D, more, E : /\ D = dispatched /\ more \in Seq(SUBSET Parts)
                          /\ E = D \o more /\ dispatched' = E
    BY <2>1 DEF Onward
  <2>4. D \in Seq(SUBSET Parts) /\ Lossy!Legal(Packets(dispatched))'
    BY <2>1, <2>3, LooseLegal, LooseLegalNext DEF InSequence
  <2>5. PICK a, b : a = Packets(D) /\ b = Packets(E)
    OBVIOUS
  <2>6. Packets(dispatched) = a /\ Packets(dispatched)' = b
    <3>1. Packets(E)' = Packets(E)
      BY <2>1, Unmoved
    <3> QED BY <2>3, <2>5, <3>1
  <2>7. /\ more = <<>> => b = a
        /\ more # <<>> => Len(b) > Len(a)
        /\ SubSeq(b, 1, Len(a)) = a
    BY <2>3, <2>4, <2>5, PacketsLonger
  <2>8. CASE more = <<>>
    BY <1>2, <2>1, <2>2, <2>6, <2>7, <2>8
  <2>9. CASE more # <<>>
    <3>1. Lossy!Legal(b)
      <4>1. Lossy!Legal(b)'
        BY <2>4, <2>6
      <4> QED BY <2>2, <4>1 DEF Lossy!Legal, Lossy!Sequenced
    <3>2. /\ [i \in DOMAIN dispatched |-> PacketGiven(dispatched[i])] = a
          /\ [i \in DOMAIN dispatched |-> PacketGiven(dispatched[i])]' = b
      BY <2>6 DEF Packets
    <3>3. Lossy!Deliver
      BY <2>2, <2>7, <2>9, <3>1, <3>2 DEF Lossy!Deliver
    <3> QED BY <2>1, <3>3
  <2> QED BY <2>8, <2>9
<1>6. CASE UNCHANGED vars
  <2>1. UNCHANGED sender /\ UNCHANGED channel /\ UNCHANGED dispatched /\ times' = times
    BY <1>6 DEF vars, groups
  <2>2. SenderInv'
    BY <1>1, <2>1, SenderStays DEF LooseInv
  <2>3. LooseInv'
    BY <2>1, <2>2, LooseSame
  <2>4. packets' = packets /\ queued' = queued /\ Packets(dispatched)' = Packets(dispatched)
    <3>1. PICK D : D = dispatched
      OBVIOUS
    <3>2. Packets(D)' = Packets(D)
      BY <2>1, Unmoved
    <3>3. packets' = packets /\ queued' = queued
      BY <2>1 DEF sender
    <3> QED BY <2>1, <3>1, <3>2, <3>3
  <2> QED BY <1>2, <2>3, <2>4
<1> QED BY <1>3, <1>4, <1>5, <1>6 DEF Next, AnyStep

\* The invariant says that the list is sorted.
LEMMA LooseSorted == LooseInv => EntriesSorted
<1> SUFFICES ASSUME LooseInv, NEW i \in DOMAIN entries, NEW j \in DOMAIN entries, i < j
             PROVE  Sooner(entries[i], entries[j].reliable, entries[j].unreliable)
  BY DEF EntriesSorted
<1>1. PICK n \in Nat : ReceiverAt(n)
  BY DEF LooseInv
<1>2. SenderInv
  BY DEF LooseInv
<1>3. PICK d \in net : KeptAt(entries[i], d, n, incomingUnreliable)
  BY <1>1, <1>2, EntriesKnown
<1>4. PICK c \in net : KeptAt(entries[j], c, n, incomingUnreliable)
  BY <1>1, <1>2, EntriesKnown
<1>5. d.packet < c.packet
  BY <1>1, <1>3, <1>4 DEF ReceiverAt, ListOrdered, KeptAt
<1>6. /\ Loose(c) /\ Reach(c.reliable, n)
      /\ entries[j].reliable = Wire(c.reliable) /\ entries[j].unreliable = c.unreliable
  BY <1>4 DEF KeptAt, Source
<1>7. Sooner(entries[i], Wire(c.reliable), c.unreliable)
  BY <1>1, <1>2, <1>3, <1>5, <1>6, EntriesCompared
<1> QED BY <1>6, <1>7

\* And that every entry waits for something.
LEMMA LooseAwaited == LooseInv => EntriesAwaited
<1> SUFFICES ASSUME LooseInv, NEW i \in DOMAIN entries
             PROVE  \/ Waits(entries[i], incoming)
                    \/ /\ Unfinished(entries[i], incoming)
                       /\ entries[i].unreliable > incomingUnreliable
  BY DEF EntriesAwaited
<1>1. PICK n \in Nat : ReceiverAt(n)
  BY DEF LooseInv
<1>2. SenderInv /\ incoming = Wire(n)
  BY <1>1 DEF LooseInv, ReceiverAt
<1>3. PICK c \in net : /\ KeptAt(entries[i], c, n, incomingUnreliable)
                       /\ KnownAt(entries[i], c, n, incomingUnreliable)
  BY <1>1, <1>2, EntriesKnown
<1>4. c \in Known /\ entries[i].unreliable = c.unreliable /\ n <= c.reliable
      /\ (c.reliable = n => c.unreliable > incomingUnreliable /\ ~ Complete(entries[i]))
  BY <1>3 DEF Known, KeptAt, Source, Reach
<1>5. c.reliable \in Nat
  BY <1>2, <1>4, KnownType DEF SenderInv
<1>6. /\ Waits(entries[i], Wire(n)) <=> c.reliable > n
      /\ Unfinished(entries[i], Wire(n)) <=> c.reliable = n /\ ~ Complete(entries[i])
  BY <1>3, <1>5, EntrySeen
<1> QED BY <1>2, <1>4, <1>5, <1>6

\* The two ends, the network and what was given out fit at every step.
THEOREM LooseCorrect == Spec /\ []WithinLap => []LooseInv
<1>1. LooseInv /\ WithinLap /\ [Next]_vars => LooseInv'
  BY LooseNext
<1> QED BY <1>1, LooseFirst, PTL DEF Spec

\* The list of what was received is in the order of the numbers, for every number and
\* size of windows and whatever the program sends and the network does: the search for
\* the entry of a fragment, which stops at the first lower number, finds it.
THEOREM SortedEntries == Spec /\ []WithinLap => []EntriesSorted
BY LooseCorrect, LooseSorted, PTL

\* No packet that is ready, or was overtaken, is left in the list.
THEOREM AwaitedEntries == Spec /\ []WithinLap => []EntriesAwaited
BY LooseCorrect, LooseAwaited, PTL

\* Packets of every kind come as LossyChannel promises: whole, at most once, those that
\* are sequenced in the order they were sent and after every reliable one before them.
THEOREM DeliversLossy == Spec /\ []WithinLap => DeliversInSequence
<1>1. Init => Lossy!Init
  BY DEF Init, Lossy!Init
<1>2. LooseInv /\ WithinLap /\ [Next]_vars => [Lossy!Send \/ Lossy!Deliver]_(Lossy!vars)
  BY LooseNext
<1> QED BY <1>1, <1>2, LooseCorrect, PTL DEF Spec, DeliversInSequence, Lossy!Spec

-----------------------------------------------------------------------------
(* Two unfinished packets do no harm.                                         *)

\* A new entry stands at its place, the others before and after it.
LEMMA InsertedAt ==
    ASSUME entries \in Seq(Entries), NEW e \in Entries, NEW i \in 0 .. Len(entries),
           i = Place(e.reliable, e.unreliable)
    PROVE  /\ Len(Inserted(e)) = Len(entries) + 1
           /\ Inserted(e)[i + 1] = e
           /\ \A j \in 1 .. i : Inserted(e)[j] = entries[j]
           /\ \A j \in i + 1 .. Len(entries) : Inserted(e)[j + 1] = entries[j]
<1> DEFINE front == SubSeq(entries, 1, i)
           back == SubSeq(entries, i + 1, Len(entries))
<1>1. /\ front \in Seq(Entries) /\ back \in Seq(Entries) /\ <<e>> \in Seq(Entries)
      /\ Len(front) = i /\ Len(back) = Len(entries) - i /\ Len(<<e>>) = 1
      /\ \A j \in 1 .. i : front[j] = entries[j]
      /\ \A j \in 1 .. Len(entries) - i : back[j] = entries[i + j]
  OBVIOUS
<1>2. Inserted(e) = (front \o <<e>>) \o back
  BY DEF Inserted
<1> HIDE DEF front, back
<1>3. /\ front \o <<e>> \in Seq(Entries) /\ Len(front \o <<e>>) = i + 1
      /\ (front \o <<e>>)[i + 1] = e
      /\ \A j \in 1 .. i : (front \o <<e>>)[j] = front[j]
  BY <1>1
<1>4. PICK f \in Seq(Entries) :
         /\ f = front \o <<e>> /\ Len(f) = i + 1 /\ f[i + 1] = e
         /\ \A j \in 1 .. i : f[j] = entries[j]
  BY <1>1, <1>3
<1>5. /\ Len(f \o back) = Len(f) + Len(back)
      /\ \A j \in 1 .. Len(f) : (f \o back)[j] = f[j]
      /\ \A j \in 1 .. Len(back) : (f \o back)[Len(f) + j] = back[j]
  BY <1>1
<1>6. ASSUME NEW j \in i + 1 .. Len(entries) PROVE Inserted(e)[j + 1] = entries[j]
  <2>1. Len(entries) \in Nat /\ i \in Nat /\ j \in Nat /\ i + 1 <= j /\ j <= Len(entries)
    OBVIOUS
  <2>2. PICK x \in 1 .. Len(entries) - i : x = j - i
    BY <2>1
  <2>3. (f \o back)[Len(f) + x] = back[x] /\ back[x] = entries[i + x]
    BY <1>1, <1>5, <2>2
  <2>4. Len(f) + x = j + 1 /\ i + x = j
    <3>1. Len(f) = i + 1
      BY <1>4
    <3>2. i + x = j /\ (i + 1) + x = j + 1
      BY <2>1, <2>2, SMT
    <3> QED BY <3>1, <3>2
  <2> QED BY <1>2, <1>4, <2>3, <2>4
<1>7. /\ Len(Inserted(e)) = Len(entries) + 1
      /\ Inserted(e)[i + 1] = e
      /\ \A j \in 1 .. i : Inserted(e)[j] = entries[j]
  <2>1. Len(f) = i + 1 /\ i \in Nat /\ Len(entries) \in Nat
    BY <1>4
  <2>2. Inserted(e) = f \o back
    BY <1>2, <1>4
  <2>3. i + 1 \in 1 .. Len(f) /\ \A j \in 1 .. i : j \in 1 .. Len(f)
    BY <2>1
  <2> QED BY <1>1, <1>4, <1>5, <2>1, <2>2, <2>3
<1> QED BY <1>6, <1>7

\* A dispatch that removes an unfinished packet spares the two after it.
LEMMA RemovedBehindTwo ==
    ASSUME NEW list, NEW last, NEW stop \in Nat \ {0}, NEW i \in 1 .. stop - 1,
           i < KeptFrom(list, stop, last),
           \A j \in i .. stop - 1 : Unfinished(list[j], last)
    PROVE  i + 2 < stop
<1>1. i < stop /\ i \in Nat /\ i >= 1
  OBVIOUS
<1>2. stop - 1 # i
  <2> SUFFICES ASSUME stop - 1 = i PROVE FALSE
    OBVIOUS
  <2>1. Unfinished(list[stop - 1], last) /\ stop - 1 >= 1
    BY <1>1
  <2>2. KeptFrom(list, stop, last) \in {stop - 1, stop - 2}
    BY <2>1 DEF KeptFrom
  <2> QED BY <1>1, <2>2
<1>3. stop - 1 # i + 1
  <2> SUFFICES ASSUME stop - 1 = i + 1 PROVE FALSE
    OBVIOUS
  <2>1. /\ Unfinished(list[stop - 1], last) /\ stop - 1 >= 1
        /\ Unfinished(list[stop - 2], last) /\ stop - 2 >= 1
    BY <1>1
  <2>2. KeptFrom(list, stop, last) = stop - 2
    BY <2>1 DEF KeptFrom
  <2> QED BY <1>1, <2>2
<1> QED BY <1>1, <1>2, <1>3

\* The fragment of a new packet is written to a freed entry behind two packets only.
LEMMA FreedStep ==
    ASSUME LooseInv, [Next]_vars, ~ UNCHANGED vars, NEW c \in net,
           HandleSendUnreliableFragment(c), dangling'
    PROVE  Cardinality(UnfinishedAfter(c)) >= 2
<1> DEFINE r == Wire(c.reliable)
           u == c.unreliable
           new == Entry(c, Fragments)
           list == Inserted(new)
<1>1. TypeInv /\ SenderInv
  BY DEF LooseInv, SenderInv
<1>2. /\ entries \in Seq(Entries) /\ incoming \in 0 .. Space - 1
      /\ u \in 0 .. LastUnreliable /\ c \in Known
  BY <1>1, KnownType DEF TypeInv, ReceiverTyped, UnreliableNumbers, Known
<1>3. ~dangling /\ c.kind = "fragmented"
  BY DEF Next, HandleSendUnreliableFragment
<1>4. /\ Expected(r, u) /\ ~Found(r, u)
      /\ entries' = DispatchUnreliable(list, incoming, incomingUnreliable).list
      /\ \A j \in DOMAIN entries' : entries'[j] # new
  BY <1>3 DEF HandleSendUnreliableFragment, DispatchFrom
<1>5. new \in Entries /\ new.reliable = r /\ new.unreliable = u /\ new.kind = "fragmented"
  BY <1>1, <1>3, EntryType, Sizes DEF Entry
<1>6. PICK i \in 0 .. Len(entries) : i = Place(r, u) /\ PlacedAt(i, r, u)
  BY <1>2, PlaceExists DEF PlacedAt
<1> HIDE DEF r, u, new
<1>7. /\ Len(list) = Len(entries) + 1 /\ list[i + 1] = new
      /\ \A j \in i + 1 .. Len(entries) : list[j + 1] = entries[j]
      /\ \A j \in 1 .. i : list[j] = entries[j]
  BY <1>2, <1>5, <1>6, InsertedAt
<1>8. list \in Seq(Entries)
  BY <1>2, <1>5, InsertedType
<1>9. PICK l \in Seq(Entries) : l = list
  BY <1>8
<1> HIDE DEF list
<1>10. PICK stop : stop = StopAt(l, incoming) /\ StopsAt(stop, l, incoming)
  BY StopExists
<1>11. /\ stop \in Nat \ {0} /\ stop <= Len(l) + 1 /\ Len(l) \in Nat
       /\ \A j \in 1 .. stop - 1 : ~Waits(l[j], incoming)
  BY <1>10 DEF StopsAt
<1>12. PICK k : k = KeptFrom(l, stop, incoming) /\ k \in 1 .. stop
  BY <1>11, KeptFromPlace
<1>13. entries' = SubSeq(l, k, Len(l))
  BY <1>4, <1>9, <1>10, <1>12 DEF DispatchUnreliable
<1>14. i + 1 < k
  <2> SUFFICES ASSUME k <= i + 1 PROVE FALSE
    BY <1>11, <1>12
  <2>1. /\ (i + 1) - k + 1 \in 1 .. Len(l) - k + 1 /\ k \in 1 .. Len(l)
        /\ k + ((i + 1) - k + 1) - 1 = i + 1
    BY <1>2, <1>7, <1>9, <1>11, <1>12
  <2>2. (i + 1) - k + 1 \in DOMAIN entries' /\ entries'[(i + 1) - k + 1] = l[i + 1]
    BY <1>13, <2>1
  <2> QED BY <1>4, <1>7, <1>9, <2>2
<1>15. Unfinished(new, incoming) /\ r = incoming
  <2>1. i + 1 \in 1 .. stop - 1
    BY <1>11, <1>12, <1>14
  <2>2. ~Waits(new, incoming)
    BY <1>7, <1>9, <1>11, <2>1
  <2>3. r = incoming
    BY <1>4, <1>5, <2>2 DEF Waits, Expected
  <2>4. ~Complete(new)
    <3>1. new.data = {<<c.packet, c.fragment>>} /\ new.count = Fragments
      BY DEF new, Entry
    <3>2. Cardinality({<<c.packet, c.fragment>>}) = 1
      BY FS_Singleton
    <3> QED BY <3>1, <3>2, FragmentsAssumption DEF Complete
  <2> QED BY <1>5, <2>3, <2>4 DEF Unfinished
<1>16. ASSUME NEW j \in i + 1 .. Len(entries), j + 1 < stop
       PROVE  Unfinished(entries[j], incoming)
  <2>1. ~Waits(entries[j], incoming)
    BY <1>7, <1>9, <1>11, <1>16
  <2> QED BY <2>1, LooseAwaited DEF EntriesAwaited
<1>17. \A j \in i + 1 .. stop - 1 : Unfinished(l[j], incoming)
  <2> SUFFICES ASSUME NEW j \in i + 1 .. stop - 1 PROVE Unfinished(l[j], incoming)
    OBVIOUS
  <2>1. CASE j = i + 1
    BY <1>7, <1>9, <1>15, <2>1
  <2>2. CASE j # i + 1
    <3>1. j - 1 \in i + 1 .. Len(entries) /\ (j - 1) + 1 = j /\ j < stop
      BY <1>2, <1>7, <1>9, <1>11, <2>2
    <3> QED BY <1>7, <1>9, <1>16, <3>1
  <2> QED BY <2>1, <2>2
<1>18. i + 3 < stop
  <2>1. i + 1 \in 1 .. stop - 1 /\ i + 1 < KeptFrom(l, stop, incoming)
    BY <1>11, <1>12, <1>14
  <2>2. i + 1 + 2 < stop
    BY <1>11, <1>17, <2>1, RemovedBehindTwo
  <2> QED BY <2>2
<1>19. i + 1 \in i + 1 .. Len(entries) /\ i + 2 \in i + 1 .. Len(entries)
  BY <1>2, <1>7, <1>9, <1>11, <1>18
<1>20. ASSUME NEW j \in {i + 1, i + 2} PROVE j \in UnfinishedAfter(c)
  <2>1. j \in i + 1 .. Len(entries) /\ j + 1 < stop /\ j \in DOMAIN entries
    BY <1>2, <1>11, <1>18, <1>19
  <2>2. Unfinished(entries[j], incoming) /\ entries[j].reliable = r
    BY <1>15, <1>16, <2>1 DEF Unfinished
  <2>3. ~Sooner(entries[j], r, u) /\ ~Same(entries[j], r, u)
    BY <1>6, <2>1 DEF PlacedAt
  <2>4. entries[j].unreliable \in Int /\ u \in Int
    <3>1. LastUnreliable \in Nat
      BY WindowsAssumption
    <3>2. entries[j] \in Entries
      BY <1>2, <2>1
    <3>3. entries[j].unreliable \in 0 .. LastUnreliable
      BY <3>2 DEF Entries
    <3> QED BY <1>2, <3>1, <3>3
  <2>5. u < entries[j].unreliable
    BY <2>2, <2>3, <2>4 DEF Sooner, Same
  <2> QED BY <2>1, <2>2, <2>5 DEF UnfinishedAfter, u
<1>21. IsFiniteSet(UnfinishedAfter(c))
  <2>1. IsFiniteSet(1 .. Len(entries))
    BY <1>2, FS_Interval
  <2>2. UnfinishedAfter(c) \subseteq 1 .. Len(entries)
    BY <1>2 DEF UnfinishedAfter
  <2> QED BY <2>1, <2>2, FS_Subset
<1>22. Cardinality({i + 1, i + 2}) = 2
  <2>1. IsFiniteSet({i + 1}) /\ Cardinality({i + 1}) = 1
    BY FS_Singleton
  <2>2. Cardinality({i + 1} \cup {i + 2}) = 1 + 1
    <3>1. i + 2 \notin {i + 1}
      BY <1>2
    <3> QED BY <2>1, <3>1, FS_AddElement
  <2>3. {i + 1} \cup {i + 2} = {i + 1, i + 2}
    OBVIOUS
  <2> QED BY <2>2, <2>3
<1> QED
  <2>1. {i + 1, i + 2} \subseteq UnfinishedAfter(c)
    BY <1>20
  <2>2. Cardinality({i + 1, i + 2}) <= Cardinality(UnfinishedAfter(c))
    BY <1>21, <2>1, FS_Subset
  <2>3. Cardinality(UnfinishedAfter(c)) \in Nat
    BY <1>21, FS_CardinalityType
  <2> QED BY <1>22, <2>2, <2>3

\* However the fragments of unreliable packets come, none is written to an entry that the
\* dispatch has freed unless two later packets are unfinished already.
THEOREM TwoSpared == Spec /\ []WithinLap => FreedBehindTwo
<1>1. LooseInv /\ [Next]_vars =>
         [\A c \in net : HandleSendUnreliableFragment(c) /\ dangling'
             => Cardinality(UnfinishedAfter(c)) >= 2]_vars
  BY FreedStep
<1> QED BY <1>1, LooseCorrect, PTL DEF Spec, FreedBehindTwo

-----------------------------------------------------------------------------
(* A program that sends few packets never brings a number a lap behind.       *)

\* All the packets of a program take fewer numbers than the windows the receiver does
\* not look at: 32768 with the sizes of the code.
FewNumbers ==
    \A s \in Scenarios :
        Len(s.packets) * Fragments < (ReliableWindows - FreeReliableWindows) * ReliableWindowSize

\* The numbers used since the channel was opened with number r.
UsedSince(r) ==
    /\ r <= reliable
    /\ reliable <= r + queued * Fragments
    /\ \A c \in Known : Sequenced(c) => r <= c.reliable

FewInv == TypeInv /\ \E s \in Scenarios : packets = s.packets /\ UsedSince(s.reliable)

LEMMA FewFirst == Init => FewInv
<1> SUFFICES ASSUME Init PROVE FewInv
  OBVIOUS
<1>1. TypeInv
  BY TypeInit
<1>2. PICK s \in Scenarios : packets = s.packets /\ reliable = s.reliable
  BY DEF Init
<1>3. net = {} /\ outgoing = <<>> /\ queued = 0
  BY DEF Init
<1>4. Known = {}
  BY <1>3 DEF Known
<1>5. reliable \in Nat /\ Fragments \in Nat
  BY <1>1, FragmentsAssumption DEF TypeInv, OnceInv, Typed
<1>6. UsedSince(s.reliable)
  BY <1>2, <1>3, <1>4, <1>5 DEF UsedSince
<1> QED BY <1>1, <1>2, <1>6 DEF FewInv

\* A packet takes no more numbers than it can have fragments.
LEMMA FewSend ==
    ASSUME TypeInv, TypeInv', Send, NEW r \in Nat, UsedSince(r)
    PROVE  UsedSince(r)'
<1>1. /\ queued' = queued + 1 /\ queued \in Nat /\ reliable \in Nat /\ outgoing \in Seq(Commands)
      /\ Fragments \in Nat /\ 1 <= Fragments
  BY FragmentsAssumption DEF Send, TypeInv, OnceInv, Typed
<1>2. queued' * Fragments = queued * Fragments + Fragments /\ queued * Fragments \in Nat
  BY <1>1, SMT
<1> DEFINE kind == packets[queued + 1]
           count == IF kind = "fragmented" THEN Fragments ELSE 1
<1>3. \/ \E k \in 0 .. Fragments : SendReliable(k)
      \/ SendUnsequenced \/ SendUnreliable(kind, count)
  BY <1>1 DEF Send
<1>4. count \in Nat
  BY <1>1
<1> HIDE DEF kind, count
<1>5. ASSUME r <= reliable', reliable' <= reliable + Fragments,
             \A c \in Known' : c \in Known \/ c.reliable >= reliable \/ ~ Sequenced(c)
      PROVE  UsedSince(r)'
  <2>1. \A c \in Known' : Sequenced(c) => r <= c.reliable
    <3> SUFFICES ASSUME NEW c \in Known', Sequenced(c) PROVE r <= c.reliable
      OBVIOUS
    <3>1. CASE c \in Known
      BY <3>1 DEF UsedSince
    <3>2. CASE c \notin Known
      <4>1. c.reliable >= reliable /\ r <= reliable
        BY <1>5, <3>2 DEF UsedSince
      <4>2. c.reliable \in Int \/ r <= c.reliable
        <5>1. outgoing' \in Seq(Commands) /\ net' \subseteq Commands
          BY DEF TypeInv, OnceInv, Typed
        <5>2. c \in Commands
          BY <5>1 DEF Known
        <5> QED BY <5>2 DEF Commands
      <4> QED BY <1>1, <4>1, <4>2
    <3> QED BY <3>1, <3>2
  <2>2. reliable' <= r + queued' * Fragments
    <3>1. reliable <= r + queued * Fragments
      BY DEF UsedSince
    <3>2. reliable' \in Nat
      BY DEF TypeInv, OnceInv, Typed
    <3>3. PICK x : x = queued * Fragments
      OBVIOUS
    <3> QED BY <1>1, <1>2, <1>5, <3>1, <3>2, <3>3
  <2>3. (\A c \in Known : Sequenced(c) => r <= c.reliable)'
    BY <2>1 DEF Sequenced, Loose
  <2> QED BY <1>5, <2>2, <2>3 DEF UsedSince
<1>6. r <= reliable
  BY DEF UsedSince
<1>7. CASE \E k \in 0 .. Fragments : SendReliable(k)
  <2>1. PICK k \in 0 .. Fragments : SendReliable(k)
    BY <1>7
  <2>2. PICK c : c = Command("reliable", reliable + 1, reliable + k, 0, 0)
    OBVIOUS
  <2>3. c.reliable = reliable + 1 /\ net' = net \cup {c} /\ outgoing' = outgoing
        /\ reliable' = reliable + k
    BY <2>1, <2>2 DEF Command, SendReliable
  <2>4. \A d \in Known' : d \in Known \/ d.reliable >= reliable
    BY <1>1, <2>3 DEF Known
  <2> QED BY <1>1, <1>5, <1>6, <2>3, <2>4
<1>8. CASE SendUnsequenced
  <2>1. PICK c : /\ outgoing' = Append(outgoing, c) /\ c.kind = "unsequenced"
                 /\ net' = net /\ reliable' = reliable
    BY <1>8 DEF SendUnsequenced, Command
  <2>2. \A i \in DOMAIN outgoing' : outgoing'[i] = c \/ (i \in DOMAIN outgoing /\ outgoing'[i] = outgoing[i])
    BY <1>1, <2>1
  <2>3. \A d \in Known' : d \in Known \/ d = c
    BY <2>1, <2>2 DEF Known
  <2>4. ~ Sequenced(c)
    BY <2>1 DEF Sequenced, Loose
  <2> QED BY <1>1, <1>5, <1>6, <2>1, <2>3, <2>4
<1>9. CASE SendUnreliable(kind, count)
  <2> DEFINE u == (unreliable + 1) % (LastUnreliable + 1)
             more == [f \in 1 .. count |-> Command(kind, reliable, reliable, u, f)]
  <2>1. outgoing' = outgoing \o more /\ net' = net /\ reliable' = reliable
    BY <1>9 DEF SendUnreliable
  <2>2. /\ \A i \in 1 .. count : more[i].reliable = reliable
        /\ Len(more) = count /\ \E set : more \in Seq(set)
    <3>1. \A i \in 1 .. count : more[i].reliable = reliable
      BY DEF Command
    <3>2. more \in Seq({Command(kind, reliable, reliable, u, f) : f \in 1 .. count})
      BY <1>4
    <3>3. Len(more) = count
      BY <1>4
    <3> QED BY <3>1, <3>2, <3>3
  <2> HIDE DEF more
  <2>3. \A i \in DOMAIN outgoing' :
           \/ i \in DOMAIN outgoing /\ outgoing'[i] = outgoing[i]
           \/ i - Len(outgoing) \in 1 .. count /\ outgoing'[i] = more[i - Len(outgoing)]
    BY <1>1, <1>4, <2>1, <2>2
  <2>4. \A d \in Known' : d \in Known \/ d.reliable = reliable
    BY <2>1, <2>2, <2>3 DEF Known
  <2> QED BY <1>1, <1>5, <1>6, <2>1, <2>4
<1> QED BY <1>3, <1>7, <1>8, <1>9

LEMMA FewNext == FewInv /\ [Next]_vars => FewInv'
<1> SUFFICES ASSUME FewInv, [Next]_vars PROVE FewInv'
  OBVIOUS
<1>1. TypeInv /\ TypeInv'
  BY TypeNext DEF FewInv
<1>2. PICK s \in Scenarios : packets = s.packets /\ UsedSince(s.reliable)
  BY DEF FewInv
<1>3. s.reliable \in Nat
  BY ScenariosAssumption
<1>4. packets' = packets
  BY DEF Next, AnyStep, Send, Transmit, Drop, HandleReliable, HandleSendUnreliable,
         HandleSendUnreliableFragment, HandleSendUnsequenced, vars, sender
<1>5. UsedSince(s.reliable)'
  <2>1. PICK r \in Nat : r = s.reliable
    BY <1>3
  <2>2. CASE Send
    <3>1. UsedSince(r)'
      BY <1>1, <1>2, <2>1, <2>2, FewSend
    <3> QED BY <2>1, <3>1
  <2>3. CASE Transmit \/ Drop
    <3>1. Known' \subseteq Known /\ UNCHANGED numbers
      BY <1>1, <2>3, HandedOn DEF TypeInv
    <3>2. reliable' = reliable /\ queued' = queued
      BY <2>3, <3>1 DEF numbers, Transmit, Drop
    <3>3. UsedSince(r)'
      BY <1>2, <2>1, <3>1, <3>2 DEF UsedSince, Sequenced, Loose
    <3> QED BY <2>1, <3>3
  <2>4. CASE UNCHANGED sender
    <3>1. UNCHANGED <<net, outgoing, reliable, queued>>
      BY <2>4 DEF sender, numbers
    <3>2. Known' = Known
      BY <3>1 DEF Known
    <3>3. UsedSince(r)'
      BY <1>2, <2>1, <3>1, <3>2 DEF UsedSince, Sequenced, Loose
    <3> QED BY <2>1, <3>3
  <2>5. Send \/ Transmit \/ Drop \/ UNCHANGED sender
    BY DEF Next, AnyStep, HandleReliable, HandleSendUnreliable,
           HandleSendUnreliableFragment, HandleSendUnsequenced, vars
  <2> QED BY <2>2, <2>3, <2>4, <2>5
<1> QED BY <1>1, <1>2, <1>4, <1>5 DEF FewInv

LEMMA FewWithin == FewNumbers /\ FewInv => WithinLap
<1> SUFFICES ASSUME FewNumbers, FewInv, NEW c \in net, Sequenced(c)
             PROVE  reliable - c.reliable < (ReliableWindows - FreeReliableWindows) * ReliableWindowSize
  BY DEF WithinLap
<1>1. PICK s \in Scenarios : packets = s.packets /\ UsedSince(s.reliable)
  BY DEF FewInv
<1>2. PICK lap : lap = (ReliableWindows - FreeReliableWindows) * ReliableWindowSize
  OBVIOUS
<1>3. PICK all, used : all = Len(packets) * Fragments /\ used = queued * Fragments
  OBVIOUS
<1>4. /\ queued \in Nat /\ Len(packets) \in Nat /\ queued <= Len(packets) /\ reliable \in Nat
      /\ Fragments \in Nat \ {0} /\ c.reliable \in Nat /\ s.reliable \in Nat
  <2>1. c.reliable \in Nat
    BY DEF FewInv, TypeInv, OnceInv, Typed, Commands
  <2>2. s.reliable \in Nat
    BY ScenariosAssumption
  <2> QED BY <2>1, <2>2, FragmentsAssumption DEF FewInv, TypeInv, OnceInv, Typed
<1>5. used <= all /\ used \in Nat /\ all \in Nat
  <2>1. Fragments * queued <= Fragments * Len(packets)
    BY <1>4, ProductGrows
  <2> QED BY <1>3, <1>4, <2>1, SMT
<1>6. all < lap
  BY <1>1, <1>2, <1>3 DEF FewNumbers
<1>7. lap \in Int
  <2>1. ReliableWindows \in Int /\ FreeReliableWindows \in Int /\ ReliableWindowSize \in Int
    BY WindowsAssumption
  <2> QED BY <1>2, <2>1, SMT
<1>8. reliable <= s.reliable + used /\ s.reliable <= c.reliable
  BY <1>1, <1>3 DEF UsedSince, Known
<1>9. reliable - c.reliable < lap
  BY <1>4, <1>5, <1>6, <1>7, <1>8
<1> QED BY <1>2, <1>9

\* For a program that sends few packets nothing is to be assumed of what the network does:
\* it gets them in sequence, the receiver's list is sorted and waits for something, and a
\* fragment meets a freed entry behind two unfinished packets only.
THEOREM FewPackets ==
    ASSUME FewNumbers
    PROVE  Spec => /\ DeliversInSequence
                   /\ FreedBehindTwo
                   /\ [](EntriesSorted /\ EntriesAwaited)
<1>1. FewInv => WithinLap
  BY FewWithin
<1> QED BY <1>1, FewFirst, FewNext, DeliversLossy, TwoSpared, SortedEntries, AwaitedEntries, PTL DEF Spec
=============================================================================
