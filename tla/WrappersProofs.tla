---------------------------- MODULE WrappersProofs ----------------------------
(* The wrappers keep a peer as long as the program may use it, whatever its   *)
(* callbacks call, and the list of peers is exact.                            *)
(*                                                                            *)
(* The slots a host has in use are told apart by their states: a connection   *)
(* under way (New), which only SECln2 has handed to the program already, and  *)
(* a connection that was complete (Up).                                       *)
EXTENDS Wrappers, HostOpsProofs, NumberLemmas

\* How many peers the host has.
NumPeers == IF api = "SECln" THEN 1 ELSE MaxPeers

\* The states of a peer that was connected, and of one that is not yet.
Up == CONNECTED .. ZOMBIE
New == IF api = "SESrv" THEN ACKNOWLEDGING_CONNECT ELSE CONNECTING

\* The states of the peers the program has.
Held == IF api = "SECln2" THEN Up \cup {New} ELSE Up

-----------------------------------------------------------------------------
(* The states, by number.                                                     *)

\* The states of a connection that was complete.
LEMMA UpStates ==
    /\ Up = {CONNECTED, DISCONNECT_LATER, DISCONNECTING, ACKNOWLEDGING_DISCONNECT, ZOMBIE}
    /\ Up \subseteq PeerStates
    /\ Counted \subseteq Up
    /\ DISCONNECTING \notin Counted
    /\ ACKNOWLEDGING_DISCONNECT \notin Counted /\ ZOMBIE \notin Counted
BY DEF Up, Counted, PeerStates, CONNECTED, DISCONNECT_LATER, DISCONNECTING,
   ACKNOWLEDGING_DISCONNECT, ZOMBIE

\* The other states, and those a DISCONNECT or a disconnection does not change.
LEMMA OtherStates ==
    /\ {DISCONNECTED, CONNECTING, ACKNOWLEDGING_CONNECT} \subseteq PeerStates \ Up
    /\ CONNECTION_SUCCEEDED \notin Up
    /\ DISCONNECTED # CONNECTING /\ DISCONNECTED # ACKNOWLEDGING_CONNECT
    /\ CONNECTING # ACKNOWLEDGING_CONNECT
    /\ NoDisconnectFrom \cup Counted = Up \cup {DISCONNECTED}
    /\ DeafToDisconnect \subseteq Up \cup {DISCONNECTED}
    /\ CONNECTION_SUCCEEDED \notin {DISCONNECTED, CONNECTING, ACKNOWLEDGING_CONNECT}
BY DEF Up, Counted, PeerStates, CONNECTED, DISCONNECT_LATER, DISCONNECTING,
   ACKNOWLEDGING_DISCONNECT, ZOMBIE, DISCONNECTED, CONNECTING, ACKNOWLEDGING_CONNECT,
   CONNECTION_SUCCEEDED, NoDisconnectFrom, DeafToDisconnect

\* No wrapper hands a peer over that is free, and New is the state of no connected
\* peer.
LEMMA NewState ==
    /\ New \in PeerStates /\ New \notin Up /\ New # DISCONNECTED
    /\ New \in {CONNECTING, ACKNOWLEDGING_CONNECT}
    /\ New \notin NoDisconnectFrom \cup Counted /\ New \notin DeafToDisconnect
    /\ New # CONNECTION_SUCCEEDED /\ New # DISCONNECTING
    /\ DISCONNECTED \notin Up
    /\ DISCONNECTED \notin Held
<1>1. New \in {CONNECTING, ACKNOWLEDGING_CONNECT}
  BY DEF New
<1>2. /\ New \in PeerStates /\ New \notin Up /\ New # DISCONNECTED
      /\ New \notin NoDisconnectFrom \cup Counted /\ New \notin DeafToDisconnect
      /\ New # CONNECTION_SUCCEEDED /\ New # DISCONNECTING
      /\ DISCONNECTED \notin Up
  BY <1>1, OtherStates, UpStates
<1> QED BY <1>1, <1>2 DEF Held

-----------------------------------------------------------------------------
(* What the calls of the wrappers do to the peers of a host.                  *)

\* A peer stays as it is, free, under way or once connected; or it may also be freed.
Kept(H, G, t) ==
    \/ G.peers[t].state = H.peers[t].state
    \/ H.peers[t].state \in Up /\ G.peers[t].state \in Up
Ends(H, G, t) == Kept(H, G, t) \/ G.peers[t].state = DISCONNECTED

KeptHosts(n, H) == {G \in HostRecords(n) : HostOK(n, G) /\ \A t \in 1 .. n : Kept(H, G, t)}
EndsHosts(n, H) == {G \in HostRecords(n) : HostOK(n, G) /\ \A t \in 1 .. n : Ends(H, G, t)}

\* Two calls that keep a peer keep it.
LEMMA KeptTwice ==
    ASSUME NEW H, NEW G, NEW F, NEW t
    PROVE  /\ Kept(H, G, t) /\ Kept(G, F, t) => Kept(H, F, t)
           /\ Ends(H, G, t) /\ Ends(G, F, t) => Ends(H, F, t)
BY NewState DEF Kept, Ends

\* A call on one peer keeps the others.
LEMMA ElsewhereKept ==
    ASSUME NEW n \in Nat, NEW H, HostOK(n, H), NEW G, NEW s, Elsewhere(H, G, s)
    PROVE  \A t \in 1 .. n \ {s} : Kept(H, G, t)
BY DEF Elsewhere, Kept, HostOK, HostRecords

\* A peer that becomes a zombie is kept if it was connected.
LEMMA ZombieKept ==
    ASSUME NEW n \in Nat, NEW H, HostOK(n, H), NEW G, HostOK(n, G),
           NEW s \in 1 .. n, G.peers[s].state = H.peers[s].state
    PROVE  /\ HostOK(n, DispatchState(G, s, ZOMBIE))
           /\ \A t \in 1 .. n \ {s} : Kept(G, DispatchState(G, s, ZOMBIE), t)
           /\ H.peers[s].state \in Up => Kept(H, DispatchState(G, s, ZOMBIE), s)
<1>1. ZOMBIE \in Up /\ ZOMBIE \in PeerStates
  BY UpStates
<1>2. HostOK(n, DispatchState(G, s, ZOMBIE))
  BY <1>1, DispatchStateOK
<1>3. /\ Elsewhere(G, DispatchState(G, s, ZOMBIE), s)
      /\ DispatchState(G, s, ZOMBIE).peers[s]
            = [G.peers[s] EXCEPT !.state = ZOMBIE, !.needsDispatch = TRUE]
      /\ DispatchState(G, s, ZOMBIE).peers[s].state = ZOMBIE
      /\ DispatchState(G, s, ZOMBIE).peers[s].needsDispatch = TRUE
  BY <1>1, DispatchStateEffect
<1>4. \A t \in 1 .. n \ {s} : Kept(G, DispatchState(G, s, ZOMBIE), t)
  BY <1>3, ElsewhereKept
<1> QED BY <1>1, <1>2, <1>3, <1>4 DEF Kept

\* A flush, as far as slot s, keeps every peer.
LEMMA FlushKeeps ==
    ASSUME NEW n \in Nat, NEW H, HostOK(n, H), NEW s \in 0 .. n
    PROVE  FlushTo(H, s) \in KeptHosts(n, H)
<1> DEFINE Good == KeptHosts(n, H)
           Step(G, i) == IF G.peers[i].state = ACKNOWLEDGING_DISCONNECT
                         THEN DispatchState(G, i, ZOMBIE) ELSE G
           next == [i \in 1 .. s |-> [G \in Good |-> Step(G, i)]]
           pass[i \in 0 .. s] ==
               IF i = 0 THEN H
               ELSE IF pass[i - 1].peers[i].state = ACKNOWLEDGING_DISCONNECT
               THEN DispatchState(pass[i - 1], i, ZOMBIE)
               ELSE pass[i - 1]
<1>1. H \in Good
  BY DEF KeptHosts, Kept, HostOK
<1>2. ASSUME NEW i \in 1 .. s, NEW G \in Good PROVE Step(G, i) \in Good
  <2>1. HostOK(n, G) /\ i \in 1 .. n /\ \A t \in 1 .. n : Kept(H, G, t)
    BY <1>2 DEF KeptHosts
  <2>2. CASE G.peers[i].state = ACKNOWLEDGING_DISCONNECT
    <3> DEFINE F == DispatchState(G, i, ZOMBIE)
    <3>1. G.peers[i].state \in Up
      BY <2>2, UpStates
    <3>2. HostOK(n, F) /\ \A t \in 1 .. n : Kept(G, F, t)
      BY <2>1, <3>1, ZombieKept
    <3> HIDE DEF F
    <3>3. \A t \in 1 .. n : Kept(H, F, t)
      BY <2>1, <3>2, KeptTwice
    <3>4. F \in Good
      BY <3>2, <3>3 DEF KeptHosts, HostOK
    <3> QED BY <2>2, <3>4 DEF F
  <2> QED BY <1>2, <2>2
<1>3. next \in StepsOn(Good, s)
  <2> HIDE DEF Good, Step
  <2> QED BY <1>2 DEF StepsOn
<1>4. PICK f : Iterates(f, Good, s, next, H)
  <2> HIDE DEF Good, next
  <2> QED BY <1>1, <1>3, Iteration
<1>5. \A i \in 1 .. s : f[i] = Step(f[i - 1], i)
  <2> TAKE i \in 1 .. s
  <2>1. f[i - 1] \in Good
    BY <1>4 DEF Iterates
  <2> QED BY <1>4, <2>1 DEF Iterates
<1>6. f = [i \in 0 .. s |-> IF i = 0 THEN H
                            ELSE IF f[i - 1].peers[i].state = ACKNOWLEDGING_DISCONNECT
                            THEN DispatchState(f[i - 1], i, ZOMBIE)
                            ELSE f[i - 1]]
  <2> HIDE DEF Good
  <2>1. \A i \in 0 .. s : i = 0 \/ i \in 1 .. s
    OBVIOUS
  <2> QED BY <1>4, <1>5, <2>1 DEF Iterates
<1>7. pass = [i \in 0 .. s |-> IF i = 0 THEN H
                               ELSE IF pass[i - 1].peers[i].state = ACKNOWLEDGING_DISCONNECT
                               THEN DispatchState(pass[i - 1], i, ZOMBIE)
                               ELSE pass[i - 1]]
  BY <1>6, Zenon DEF pass
<1>8. FlushTo(H, s) = pass[s]
  BY Zenon DEF FlushTo
<1> HIDE DEF pass, Good
<1>9. pass[0] \in Good
  BY <1>1, <1>7
<1>10. \A i \in 1 .. s : pass[i - 1] \in Good => pass[i] \in Good
  <2> TAKE i \in 1 .. s
  <2>1. i \in 0 .. s /\ i # 0
    OBVIOUS
  <2>2. pass[i] = Step(pass[i - 1], i)
    BY <1>7, <2>1
  <2> HIDE DEF Step
  <2> QED BY <1>2, <2>2
<1>11. \A i \in 0 .. s : pass[i] \in Good
  BY <1>9, <1>10, LoopInvariant
<1> QED BY <1>8, <1>11 DEF Good

\* How many slots a host has.
LEMMA SlotCount ==
    ASSUME NEW n \in Nat, NEW H, HostOK(n, H)
    PROVE  Cardinality(DOMAIN H.peers) = n /\ DOMAIN H.peers = 1 .. n
<1>1. DOMAIN H.peers = 1 .. n
  BY DEF HostOK, HostRecords
<1>2. Cardinality(1 .. n) = IF 1 > n THEN 0 ELSE n - 1 + 1
  BY FS_Interval
<1> QED BY <1>1, <1>2

\* A whole flush keeps every peer.
LEMMA WholeFlushKeeps ==
    ASSUME NEW n \in Nat, NEW H, HostOK(n, H)
    PROVE  Flush(H) \in KeptHosts(n, H)
<1>1. Flush(H) = FlushTo(H, n)
  BY SlotCount DEF Flush
<1> QED BY <1>1, FlushKeeps

\* A peer that is reset is free, and the others are kept.
LEMMA ResetEnds ==
    ASSUME NEW n \in Nat, NEW H, HostOK(n, H), NEW s \in 1 .. n
    PROVE  /\ HostOK(n, Reset(H, s))
           /\ \A t \in 1 .. n \ {s} : Kept(H, Reset(H, s), t)
           /\ Reset(H, s).peers[s].state = DISCONNECTED
BY ResetEffect, ElsewhereKept

\* A disconnection asked for by the program frees a peer whose handshake is under
\* way; it keeps the others, and a peer that was connected.
LEMMA PeerDisconnectEnds ==
    ASSUME NEW n \in Nat, NEW H, HostOK(n, H), NEW s \in 1 .. n
    PROVE  /\ HostOK(n, PeerDisconnect(H, s))
           /\ \A t \in 1 .. n \ {s} : Kept(H, PeerDisconnect(H, s), t)
           /\ Ends(H, PeerDisconnect(H, s), s)
           /\ H.peers[s].state \in Up => Kept(H, PeerDisconnect(H, s), s)
<1> DEFINE D == Disconnect(H, s)
           F == Flush(D)
<1>1. HostOK(n, D)
  BY DisconnectOK
<1>2. /\ Elsewhere(H, D, s)
      /\ D.peers[s].state = IF H.peers[s].state \in Counted THEN DISCONNECTING
                            ELSE H.peers[s].state
  BY DisconnectEffect
<1>3. \A t \in 1 .. n \ {s} : Kept(H, D, t)
  BY <1>2, ElsewhereKept
<1>4. Kept(H, D, s)
  BY <1>2, UpStates DEF Kept
<1>5. PeerDisconnect(H, s)
         = IF H.peers[s].state \in NoDisconnectFrom \cup Counted THEN D ELSE Reset(F, s)
  BY DEF PeerDisconnect
<1>6. CASE H.peers[s].state \in NoDisconnectFrom \cup Counted
  <2> HIDE DEF D
  <2> QED BY <1>1, <1>3, <1>4, <1>5, <1>6 DEF Ends
<1>7. CASE H.peers[s].state \notin NoDisconnectFrom \cup Counted
  <2> HIDE DEF D
  <2>1. HostOK(n, F) /\ \A t \in 1 .. n : Kept(D, F, t)
    BY <1>1, WholeFlushKeeps DEF KeptHosts
  <2> HIDE DEF F
  <2>2. /\ HostOK(n, Reset(F, s)) /\ Reset(F, s).peers[s].state = DISCONNECTED
        /\ \A t \in 1 .. n \ {s} : Kept(F, Reset(F, s), t)
    BY <2>1, ResetEnds
  <2>3. \A t \in 1 .. n \ {s} : Kept(H, Reset(F, s), t)
    <3> TAKE t \in 1 .. n \ {s}
    <3>1. Kept(H, D, t) /\ Kept(D, F, t) /\ Kept(F, Reset(F, s), t)
      BY <1>3, <2>1, <2>2
    <3>2. Kept(H, F, t)
      BY <3>1, KeptTwice
    <3> QED BY <3>1, <3>2, KeptTwice
  <2>4. H.peers[s].state \notin Up
    BY <1>7, OtherStates
  <2> QED BY <1>5, <1>7, <2>2, <2>3, <2>4 DEF Ends
<1> QED BY <1>6, <1>7

\* So does a disconnection that waits for what is queued.
LEMMA PeerDisconnectLaterEnds ==
    ASSUME NEW n \in Nat, NEW H, HostOK(n, H), NEW s \in 1 .. n
    PROVE  /\ HostOK(n, PeerDisconnectLater(H, s))
           /\ \A t \in 1 .. n \ {s} : Kept(H, PeerDisconnectLater(H, s), t)
           /\ Ends(H, PeerDisconnectLater(H, s), s)
           /\ H.peers[s].state \in Up => Kept(H, PeerDisconnectLater(H, s), s)
<1>1. CASE H.peers[s].state \in Counted /\ ~NothingQueued(H.peers[s])
  <2> DEFINE peer == [H.peers[s] EXCEPT !.state = DISCONNECT_LATER]
             G == [H EXCEPT !.peers[s] = peer]
  <2>1. H \in HostRecords(n) /\ H.peers[s] \in Peers
    BY HostShape
  <2>2. PeerDisconnectLater(H, s) = G
    BY <1>1 DEF PeerDisconnectLater
  <2>3. DISCONNECT_LATER \in PeerStates /\ DISCONNECT_LATER \in Counted
    BY UpStates DEF Counted
  <2>4. peer \in Peers /\ peer.needsDispatch = H.peers[s].needsDispatch
        /\ peer.state = DISCONNECT_LATER
    BY <2>1, <2>3 DEF Peers
  <2> HIDE DEF peer
  <2>5. HostOK(n, G)
    BY <1>1, <2>3, <2>4, PeerUpdated
  <2>6. G.peers = [H.peers EXCEPT ![s] = peer]
    BY <2>1, <2>4, SetPeer
  <2> HIDE DEF G
  <2>7. Elsewhere(H, G, s) /\ G.peers[s] = peer
    BY <2>1, <2>6, ElsewhereOf
  <2>8. \A t \in 1 .. n \ {s} : Kept(H, G, t)
    BY <2>7, ElsewhereKept
  <2>9. Kept(H, G, s)
    BY <1>1, <2>3, <2>4, <2>7, UpStates DEF Kept
  <2> QED BY <2>2, <2>5, <2>8, <2>9 DEF Ends
<1>2. CASE ~(H.peers[s].state \in Counted /\ ~NothingQueued(H.peers[s]))
  <2>1. PeerDisconnectLater(H, s) = PeerDisconnect(H, s)
    BY <1>2, Zenon DEF PeerDisconnectLater
  <2> QED BY <2>1, PeerDisconnectEnds
<1> QED BY <1>1, <1>2

\* Disconnecting a peer: it is freed by force, and else kept once connected.
LEMMA DisconnectedEnds ==
    ASSUME NEW n \in Nat, NEW H, HostOK(n, H), NEW s \in 1 .. n, NEW force \in BOOLEAN
    PROVE  /\ HostOK(n, Disconnected(H, s, force))
           /\ \A t \in 1 .. n \ {s} : Kept(H, Disconnected(H, s, force), t)
           /\ Ends(H, Disconnected(H, s, force), s)
           /\ force => Disconnected(H, s, force).peers[s].state = DISCONNECTED
           /\ ~force /\ H.peers[s].state \in Up => Kept(H, Disconnected(H, s, force), s)
<1>1. CASE force
  <2>1. Disconnected(H, s, force) = Reset(H, s)
    BY <1>1, Zenon DEF Disconnected
  <2> QED BY <1>1, <2>1, ResetEnds DEF Ends
<1>2. CASE ~force /\ immediatly
  <2> DEFINE G == PeerDisconnect(H, s)
             F == Flush(G)
  <2>1. Disconnected(H, s, force) = F
    BY <1>2, Zenon DEF Disconnected
  <2>2. /\ HostOK(n, G) /\ Ends(H, G, s)
        /\ \A t \in 1 .. n \ {s} : Kept(H, G, t)
        /\ H.peers[s].state \in Up => Kept(H, G, s)
    BY PeerDisconnectEnds
  <2> HIDE DEF G
  <2>3. HostOK(n, F) /\ \A t \in 1 .. n : Kept(G, F, t)
    BY <2>2, WholeFlushKeeps DEF KeptHosts
  <2> HIDE DEF F
  <2>4. \A t \in 1 .. n \ {s} : Kept(H, F, t)
    BY <2>2, <2>3, KeptTwice
  <2>5. Ends(H, F, s)
    <3>1. Ends(G, F, s)
      BY <2>3 DEF Ends
    <3> QED BY <2>2, <3>1, KeptTwice
  <2>6. H.peers[s].state \in Up => Kept(H, F, s)
    BY <2>2, <2>3, KeptTwice
  <2> QED BY <1>2, <2>1, <2>3, <2>4, <2>5, <2>6
<1>3. CASE ~force /\ ~immediatly
  <2>1. Disconnected(H, s, force) = PeerDisconnectLater(H, s)
    BY <1>3, Zenon DEF Disconnected
  <2> QED BY <1>3, <2>1, PeerDisconnectLaterEnds
<1> QED BY <1>1, <1>2, <1>3

\* Disconnecting all the peers keeps each or frees it.
LEMMA AllDisconnectedEnds ==
    ASSUME NEW n \in Nat, NEW H, HostOK(n, H), NEW force \in BOOLEAN
    PROVE  AllDisconnected(H, force) \in EndsHosts(n, H)
<1> DEFINE Good == EndsHosts(n, H)
           Step(G, i) == IF force THEN Reset(G, i)
                         ELSE IF immediatly THEN PeerDisconnect(G, i)
                         ELSE PeerDisconnectLater(G, i)
           next == [i \in 1 .. n |-> [G \in Good |-> Step(G, i)]]
           m == Cardinality(DOMAIN H.peers)
           all[i \in 0 .. m] ==
               IF i = 0 THEN H
               ELSE IF force THEN Reset(all[i - 1], i)
               ELSE IF immediatly THEN PeerDisconnect(all[i - 1], i)
               ELSE PeerDisconnectLater(all[i - 1], i)
<1>0. m = n
  BY SlotCount
<1>1. H \in Good
  BY DEF EndsHosts, Ends, Kept, HostOK
<1>2. ASSUME NEW i \in 1 .. n, NEW G \in Good PROVE Step(G, i) \in Good
  <2> DEFINE F == Step(G, i)
  <2>1. HostOK(n, G) /\ \A t \in 1 .. n : Ends(H, G, t)
    BY <1>2 DEF EndsHosts
  <2>2. HostOK(n, F) /\ \A t \in 1 .. n : Ends(G, F, t)
    <3>1. CASE force
      BY <2>1, <3>1, ResetEnds DEF Ends
    <3>2. CASE ~force /\ immediatly
      BY <2>1, <3>2, PeerDisconnectEnds DEF Ends
    <3>3. CASE ~force /\ ~immediatly
      BY <2>1, <3>3, PeerDisconnectLaterEnds DEF Ends
    <3> QED BY <3>1, <3>2, <3>3
  <2> HIDE DEF F
  <2>3. \A t \in 1 .. n : Ends(H, F, t)
    BY <2>1, <2>2, KeptTwice
  <2>4. F \in Good
    BY <2>2, <2>3 DEF EndsHosts, HostOK
  <2> QED BY <2>4 DEF F
<1>3. next \in StepsOn(Good, n)
  <2> HIDE DEF Good, Step
  <2> QED BY <1>2 DEF StepsOn
<1>4. PICK f : Iterates(f, Good, n, next, H)
  <2> HIDE DEF Good, next
  <2> QED BY <1>1, <1>3, Iteration
<1>5. \A i \in 1 .. n : f[i] = Step(f[i - 1], i)
  <2> HIDE DEF Step
  <2> TAKE i \in 1 .. n
  <2>1. f[i - 1] \in Good
    BY <1>4 DEF Iterates
  <2> QED BY <1>4, <2>1 DEF Iterates
<1>6. f = [i \in 0 .. m |-> IF i = 0 THEN H
                            ELSE IF force THEN Reset(f[i - 1], i)
                            ELSE IF immediatly THEN PeerDisconnect(f[i - 1], i)
                            ELSE PeerDisconnectLater(f[i - 1], i)]
  <2> HIDE DEF Good, m
  <2>1. \A i \in 0 .. n : i = 0 \/ i \in 1 .. n
    OBVIOUS
  <2> QED BY <1>0, <1>4, <1>5, <2>1 DEF Iterates
<1>7. all = [i \in 0 .. m |-> IF i = 0 THEN H
                              ELSE IF force THEN Reset(all[i - 1], i)
                              ELSE IF immediatly THEN PeerDisconnect(all[i - 1], i)
                              ELSE PeerDisconnectLater(all[i - 1], i)]
  BY <1>6, Zenon DEF all
<1>8. AllDisconnected(H, force) = IF immediatly /\ ~force THEN Flush(all[m]) ELSE all[m]
  BY Zenon DEF AllDisconnected
<1>9. AllDisconnected(H, force) = IF immediatly /\ ~force THEN Flush(all[n]) ELSE all[n]
  <2> HIDE DEF all, m
  <2> QED BY <1>0, <1>8
<1> HIDE DEF all, Good, m
<1>10. all[0] \in Good
  BY <1>0, <1>1, <1>7
<1>11. \A i \in 1 .. n : all[i - 1] \in Good => all[i] \in Good
  <2> TAKE i \in 1 .. n
  <2>1. i \in 0 .. n /\ i # 0
    OBVIOUS
  <2>2. all[i] = Step(all[i - 1], i)
    BY <1>0, <1>7, <2>1
  <2> HIDE DEF Step
  <2> QED BY <1>2, <2>2
<1>12. all[n] \in Good
  BY <1>10, <1>11, LoopInvariant
<1>13. Flush(all[n]) \in Good
  <2> DEFINE G == all[n]
             F == Flush(G)
  <2>1. HostOK(n, G) /\ \A t \in 1 .. n : Ends(H, G, t)
    BY <1>12 DEF Good, EndsHosts
  <2> HIDE DEF G
  <2>2. HostOK(n, F) /\ \A t \in 1 .. n : Kept(G, F, t)
    BY <2>1, WholeFlushKeeps DEF KeptHosts
  <2> HIDE DEF F
  <2>3. \A t \in 1 .. n : Ends(G, F, t)
    BY <2>2 DEF Ends
  <2>4. \A t \in 1 .. n : Ends(H, F, t)
    BY <2>1, <2>3, KeptTwice
  <2> QED BY <2>2, <2>4 DEF Good, EndsHosts, HostOK, F, G
<1> QED BY <1>9, <1>12, <1>13 DEF Good

\* Sending a packet keeps every peer.
LEMMA PeerSendKeeps ==
    ASSUME NEW n \in Nat, NEW H, HostOK(n, H), NEW s \in 1 .. n
    PROVE  PeerSend(H, s) \in KeptHosts(n, H)
<1> DEFINE c == Command("SEND_RELIABLE", DataChannel, TRUE)
           G == QueueOutgoing(H, s, c)
<1>1. c \in Commands
  BY CommandType DEF CommandTypes
<1> HIDE DEF c
<1>2. HostOK(n, G) /\ G.peers[s].state = H.peers[s].state
  BY <1>1, QueueOutgoingOK
<1>3. Elsewhere(H, G, s)
  BY <1>1, QueueOutgoingEffect
<1> HIDE DEF G
<1>4. \A t \in 1 .. n : Kept(H, G, t)
  BY <1>2, <1>3, ElsewhereKept DEF Kept
<1>5. G \in KeptHosts(n, H) /\ H \in KeptHosts(n, H)
  BY <1>2, <1>4 DEF KeptHosts, HostOK, Kept
<1> QED BY <1>5 DEF PeerSend, G, c

\* A DISCONNECT frees a peer whose handshake is under way; it keeps the others, and
\* a peer that was connected.
LEMMA AfterDisconnectEnds ==
    ASSUME NEW n \in Nat, NEW H, HostOK(n, H), NEW s \in 1 .. n,
           NEW acknowledged \in BOOLEAN,
           H.peers[s].state \in Up \cup {DISCONNECTED, New}
    PROVE  /\ HostOK(n, AfterDisconnect(H, s, acknowledged))
           /\ \A t \in 1 .. n \ {s} : Kept(H, AfterDisconnect(H, s, acknowledged), t)
           /\ H.peers[s].state = New
                => AfterDisconnect(H, s, acknowledged).peers[s].state = DISCONNECTED
           /\ H.peers[s].state # New => Kept(H, AfterDisconnect(H, s, acknowledged), s)
<1> DEFINE Q == ResetQueues(H, s)
           state == H.peers[s].state
<1>1. HostOK(n, Q)
  BY ResetQueuesOK
<1>2. Elsewhere(H, Q, s) /\ Q.peers[s].state = state
  BY ResetQueuesEffect
<1>3. \A t \in 1 .. n \ {s} : Kept(H, Q, t)
  BY <1>2, ElsewhereKept
<1>4. AfterDisconnect(H, s, acknowledged)
        = IF state \in DeafToDisconnect THEN H
          ELSE IF state \in {CONNECTION_SUCCEEDED, DISCONNECTING}
          THEN DispatchState(Q, s, ZOMBIE)
          ELSE IF state \notin Counted THEN Reset(Q, s)
          ELSE IF acknowledged THEN ChangeState(Q, s, ACKNOWLEDGING_DISCONNECT)
          ELSE DispatchState(Q, s, ZOMBIE)
  BY DEF AfterDisconnect
<1> HIDE DEF Q
<1>5. CASE state \in DeafToDisconnect
  BY <1>4, <1>5, NewState DEF Kept
<1>6. CASE state \in Up /\ AfterDisconnect(H, s, acknowledged) = DispatchState(Q, s, ZOMBIE)
  <2> DEFINE G == DispatchState(Q, s, ZOMBIE)
  <2>1. /\ HostOK(n, G) /\ Kept(H, G, s)
        /\ \A t \in 1 .. n \ {s} : Kept(Q, G, t)
    BY <1>1, <1>2, <1>6, ZombieKept
  <2> HIDE DEF G
  <2>2. \A t \in 1 .. n \ {s} : Kept(H, G, t)
    BY <1>3, <2>1, KeptTwice
  <2>3. state # New
    BY <1>6, NewState
  <2> QED BY <1>6, <2>1, <2>2, <2>3 DEF G
<1>7. CASE state \in Counted /\ acknowledged
  <2> DEFINE G == ChangeState(Q, s, ACKNOWLEDGING_DISCONNECT)
  <2>1. /\ ACKNOWLEDGING_DISCONNECT \in PeerStates /\ ACKNOWLEDGING_DISCONNECT \in Up
        /\ state \in Up /\ state # New
    BY <1>7, UpStates, NewState
  <2>2. state \notin DeafToDisconnect /\ state \notin {CONNECTION_SUCCEEDED, DISCONNECTING}
    BY <1>7 DEF Counted, DeafToDisconnect, CONNECTED, DISCONNECT_LATER, CONNECTION_SUCCEEDED,
       DISCONNECTING, DISCONNECTED, ZOMBIE, ACKNOWLEDGING_DISCONNECT
  <2>3. HostOK(n, G)
    BY <1>1, <2>1, ChangeStateOK
  <2>4. /\ Elsewhere(Q, G, s) /\ G.peers[s].state = ACKNOWLEDGING_DISCONNECT
        /\ G.peers[s] = [Q.peers[s] EXCEPT !.state = ACKNOWLEDGING_DISCONNECT]
    <3>1. ACKNOWLEDGING_DISCONNECT \in PeerStates
      BY <2>1
    <3> QED BY <1>1, <3>1, ChangeStateEffect
  <2> HIDE DEF G
  <2>5. \A t \in 1 .. n \ {s} : Kept(Q, G, t)
    BY <1>1, <2>4, ElsewhereKept
  <2>6. \A t \in 1 .. n \ {s} : Kept(H, G, t)
    BY <1>3, <2>5, KeptTwice
  <2>7. Kept(H, G, s)
    BY <2>1, <2>4 DEF Kept
  <2>8. AfterDisconnect(H, s, acknowledged) = G
    BY <1>4, <1>7, <2>2 DEF G
  <2> QED BY <2>1, <2>3, <2>6, <2>7, <2>8
<1>8. CASE state = New
  <2> DEFINE G == Reset(Q, s)
  <2>1. AfterDisconnect(H, s, acknowledged) = G
    BY <1>4, <1>8, NewState
  <2>2. /\ HostOK(n, G) /\ G.peers[s].state = DISCONNECTED
        /\ \A t \in 1 .. n \ {s} : Kept(Q, G, t)
    BY <1>1, ResetEnds
  <2> HIDE DEF G
  <2>3. \A t \in 1 .. n \ {s} : Kept(H, G, t)
    BY <1>3, <2>2, KeptTwice
  <2> QED BY <1>8, <2>1, <2>2, <2>3
<1>9. \/ state \in DeafToDisconnect
      \/ state = New
      \/ state \in Counted /\ acknowledged
      \/ state \in Up /\ AfterDisconnect(H, s, acknowledged) = DispatchState(Q, s, ZOMBIE)
  <2>1. \/ state = New \/ state \in Counted \/ state \in DeafToDisconnect
        \/ state = DISCONNECTING
    BY UpStates DEF Counted, DeafToDisconnect
  <2>2. CASE state = DISCONNECTING /\ state \notin DeafToDisconnect
    BY <1>4, <2>2, UpStates
  <2>3. CASE state \in Counted /\ ~acknowledged /\ state \notin DeafToDisconnect
    BY <1>4, <2>3, UpStates
  <2> QED BY <2>1, <2>2, <2>3
<1> QED BY <1>5, <1>6, <1>7, <1>8, <1>9

\* Changing what a peer has queued keeps every peer.
LEMMA QueuesKept ==
    ASSUME NEW n \in Nat, NEW H, HostOK(n, H), NEW s \in 1 .. n, NEW peer \in Peers,
           peer.state = H.peers[s].state, peer.needsDispatch = H.peers[s].needsDispatch
    PROVE  /\ [H EXCEPT !.peers[s] = peer] \in KeptHosts(n, H)
           /\ [H EXCEPT !.peers[s] = peer].peers[s] = peer
<1> DEFINE G == [H EXCEPT !.peers[s] = peer]
<1>1. H \in HostRecords(n)
  BY HostShape
<1>2. HostOK(n, G) /\ G.peers = [H.peers EXCEPT ![s] = peer]
  BY <1>1, PeerUpdated, SetPeer
<1> HIDE DEF G
<1>3. Elsewhere(H, G, s) /\ G.peers[s] = peer
  BY <1>1, <1>2, ElsewhereOf, SMTT(30)
<1>4. \A t \in 1 .. n : Kept(H, G, t)
  BY <1>3, ElsewhereKept DEF Kept
<1> QED BY <1>2, <1>3, <1>4 DEF KeptHosts, HostOK, G

\* An acknowledged command leaves its list, and the peers are kept.
LEMMA AckedKeeps ==
    ASSUME NEW n \in Nat, NEW H, HostOK(n, H), NEW s \in 1 .. n,
           H.peers[s].outgoingReliable # <<>>
    PROVE  /\ [H EXCEPT !.peers[s].outgoingReliable = Tail(@)] \in KeptHosts(n, H)
           /\ [H EXCEPT !.peers[s].outgoingReliable = Tail(@)].peers[s].state
                 = H.peers[s].state
<1> DEFINE q == H.peers[s].outgoingReliable
           rest == Tail(q)
           peer == [H.peers[s] EXCEPT !.outgoingReliable = rest]
<1>1. H \in HostRecords(n) /\ H.peers[s] \in Peers
  BY HostShape
<1>2. q \in Seq(Commands) /\ q # <<>>
  BY <1>1 DEF Peers
<1>3. rest \in Seq(Commands)
  <2> HIDE DEF q
  <2> QED BY <1>2, HeadTailProperties
<1>4. [H EXCEPT !.peers[s].outgoingReliable = Tail(@)] = [H EXCEPT !.peers[s] = peer]
  BY <1>1
<1> HIDE DEF rest
<1>5. /\ peer \in Peers /\ peer.state = H.peers[s].state
      /\ peer.needsDispatch = H.peers[s].needsDispatch
  BY <1>1, <1>3 DEF Peers
<1> HIDE DEF peer
<1>6. /\ [H EXCEPT !.peers[s] = peer] \in KeptHosts(n, H)
      /\ [H EXCEPT !.peers[s] = peer].peers[s] = peer
  BY <1>5, QueuesKept
<1> QED BY <1>4, <1>5, <1>6

\* So with a packet that the program takes.
LEMMA TakenKeeps ==
    ASSUME NEW n \in Nat, NEW H, HostOK(n, H), NEW s \in 1 .. n,
           H.peers[s].dispatched # <<>>
    PROVE  /\ [H EXCEPT !.peers[s].dispatched = Tail(@)] \in KeptHosts(n, H)
           /\ [H EXCEPT !.peers[s].dispatched = Tail(@)].peers[s].state = H.peers[s].state
<1> DEFINE q == H.peers[s].dispatched
           rest == Tail(q)
           peer == [H.peers[s] EXCEPT !.dispatched = rest]
<1>1. H \in HostRecords(n) /\ H.peers[s] \in Peers
  BY HostShape
<1>2. q \in Seq(Nat) /\ q # <<>>
  BY <1>1 DEF Peers
<1>3. rest \in Seq(Nat)
  <2> HIDE DEF q
  <2> QED BY <1>2, HeadTailProperties
<1>4. [H EXCEPT !.peers[s].dispatched = Tail(@)] = [H EXCEPT !.peers[s] = peer]
  BY <1>1
<1> HIDE DEF rest
<1>5. /\ peer \in Peers /\ peer.state = H.peers[s].state
      /\ peer.needsDispatch = H.peers[s].needsDispatch
  BY <1>1, <1>3 DEF Peers
<1> HIDE DEF peer
<1>6. /\ [H EXCEPT !.peers[s] = peer] \in KeptHosts(n, H)
      /\ [H EXCEPT !.peers[s] = peer].peers[s] = peer
  BY <1>5, QueuesKept
<1> QED BY <1>4, <1>5, <1>6

\* The peers are kept when the head of the dispatch queue leaves it, and when a slot
\* enters it.
LEMMA PoppedKeeps ==
    ASSUME NEW n \in Nat, NEW H, HostOK(n, H), H.dispatchQueue # <<>>
    PROVE  /\ Head(H.dispatchQueue) \in 1 .. n
           /\ Popped(H) \in KeptHosts(n, H)
           /\ Popped(H).peers[Head(H.dispatchQueue)].state
                 = H.peers[Head(H.dispatchQueue)].state
           /\ Popped(H).peers[Head(H.dispatchQueue)].dispatched
                 = H.peers[Head(H.dispatchQueue)].dispatched
<1> DEFINE s == Head(H.dispatchQueue)
           peer == [H.peers[s] EXCEPT !.needsDispatch = FALSE]
<1>1. s \in 1 .. n /\ HostOK(n, Popped(H)) /\ Popped(H).peers = [H.peers EXCEPT ![s] = peer]
  BY PoppedOK
<1> HIDE DEF s
<1>2. H \in HostRecords(n) /\ H.peers[s] \in Peers
  BY <1>1, HostShape
<1>3. peer.state = H.peers[s].state /\ peer.dispatched = H.peers[s].dispatched
  BY <1>2 DEF Peers
<1> HIDE DEF peer
<1>4. Elsewhere(H, Popped(H), s) /\ Popped(H).peers[s] = peer
  <2>1. H \in HostRecords(n) /\ s \in 1 .. n /\ Popped(H).peers = [H.peers EXCEPT ![s] = peer]
    BY <1>1, <1>2
  <2> QED BY <2>1 DEF Elsewhere, HostRecords
<1>5. \A t \in 1 .. n : Kept(H, Popped(H), t)
  BY <1>3, <1>4, ElsewhereKept DEF Kept
<1> QED BY <1>1, <1>3, <1>4, <1>5 DEF KeptHosts, HostOK, s

\* Entering the dispatch queue keeps the state of every peer.
LEMMA EnterKeeps ==
    ASSUME NEW n \in Nat, NEW H, HostOK(n, H), NEW s \in 1 .. n
    PROVE  /\ EnterDispatchQueue(H, s) \in KeptHosts(n, H)
           /\ EnterDispatchQueue(H, s).peers[s].state = H.peers[s].state
<1>1. HostOK(n, EnterDispatchQueue(H, s))
  BY EnterDispatchQueueOK
<1>2. /\ Elsewhere(H, EnterDispatchQueue(H, s), s)
      /\ EnterDispatchQueue(H, s).peers[s] = [H.peers[s] EXCEPT !.needsDispatch = TRUE]
      /\ EnterDispatchQueue(H, s).peers[s].state = H.peers[s].state
      /\ EnterDispatchQueue(H, s).peers[s].needsDispatch = TRUE
  BY EnterDispatchQueueEffect
<1>3. \A t \in 1 .. n : Kept(H, EnterDispatchQueue(H, s), t)
  <2>1. \A t \in 1 .. n \ {s} : Kept(H, EnterDispatchQueue(H, s), t)
    BY <1>2, ElsewhereKept
  <2>2. Kept(H, EnterDispatchQueue(H, s), s)
    BY <1>2 DEF Kept
  <2> QED BY <2>1, <2>2
<1> QED BY <1>1, <1>2, <1>3 DEF KeptHosts, HostOK

\* A packet that arrives keeps every peer.
LEMMA ReceivedKeeps ==
    ASSUME NEW n \in Nat, NEW H, HostOK(n, H), NEW s \in 1 .. n, NEW m \in Nat
    PROVE  QueueIncomingReliable(H, s, m) \in KeptHosts(n, H)
<1>1. HostOK(n, QueueIncomingReliable(H, s, m))
  BY QueueIncomingReliableOK
<1>2. Elsewhere(H, QueueIncomingReliable(H, s, m), s)
      /\ QueueIncomingReliable(H, s, m).peers[s].state = H.peers[s].state
  BY QueueIncomingReliableEffect
<1>3. \A t \in 1 .. n : Kept(H, QueueIncomingReliable(H, s, m), t)
  BY <1>2, ElsewhereKept DEF Kept
<1> QED BY <1>1, <1>3 DEF KeptHosts, HostOK

\* The end of a handshake makes the peer CONNECTED.
LEMMA ConnectedKeeps ==
    ASSUME NEW n \in Nat, NEW H, HostOK(n, H), NEW s \in 1 .. n
    PROVE  /\ HostOK(n, NotifyConnect(H, s, TRUE))
           /\ \A t \in 1 .. n \ {s} : Kept(H, NotifyConnect(H, s, TRUE), t)
           /\ NotifyConnect(H, s, TRUE).peers[s].state = CONNECTED
<1>1. CONNECTED \in PeerStates
  BY UpStates
<1>2. NotifyConnect(H, s, TRUE) = ChangeState(H, s, CONNECTED)
  BY DEF NotifyConnect
<1>3. HostOK(n, ChangeState(H, s, CONNECTED))
  BY <1>1, ChangeStateOK
<1>4. /\ Elsewhere(H, ChangeState(H, s, CONNECTED), s)
      /\ ChangeState(H, s, CONNECTED).peers[s] = [H.peers[s] EXCEPT !.state = CONNECTED]
      /\ ChangeState(H, s, CONNECTED).peers[s].state = CONNECTED
  BY <1>1, ChangeStateEffect
<1>5. \A t \in 1 .. n \ {s} : Kept(H, ChangeState(H, s, CONNECTED), t)
  BY <1>4, ElsewhereKept
<1> QED BY <1>2, <1>3, <1>4, <1>5

\* A new request takes a free slot.
LEMMA TakenSlot ==
    ASSUME NEW n \in Nat, NEW H, HostOK(n, H), NEW s \in 1 .. n,
           H.peers[s].state = DISCONNECTED,
           NEW state \in {CONNECTING, ACKNOWLEDGING_CONNECT}
    PROVE  /\ HostOK(n, [H EXCEPT !.peers[s].state = state])
           /\ \A t \in 1 .. n \ {s} : Kept(H, [H EXCEPT !.peers[s].state = state], t)
           /\ [H EXCEPT !.peers[s].state = state].peers[s].state = state
<1> DEFINE peer == [H.peers[s] EXCEPT !.state = state]
           G == [H EXCEPT !.peers[s] = peer]
<1>1. H \in HostRecords(n) /\ H.peers[s] \in Peers
  BY HostShape
<1>2. [H EXCEPT !.peers[s].state = state] = G
  BY <1>1
<1>3. state \in PeerStates /\ state \notin Counted /\ DISCONNECTED \notin Counted
  BY OtherStates, UpStates, NewState
<1>4. /\ peer \in Peers /\ peer.state = state
      /\ peer.needsDispatch = H.peers[s].needsDispatch
  BY <1>1, <1>3 DEF Peers
<1> HIDE DEF peer
<1>5. HostOK(n, G)
  BY <1>3, <1>4, PeerUpdated
<1>6. G.peers = [H.peers EXCEPT ![s] = peer]
  BY <1>1, <1>4, SetPeer
<1> HIDE DEF G
<1>7. Elsewhere(H, G, s) /\ G.peers[s] = peer
  BY <1>1, <1>6, ElsewhereOf
<1>8. \A t \in 1 .. n \ {s} : Kept(H, G, t)
  BY <1>7, ElsewhereKept
<1> QED BY <1>2, <1>4, <1>5, <1>7, <1>8

-----------------------------------------------------------------------------
(* The calls in progress: a wrapper's function, and a phase of the            *)
(* enet_host_service it called or the callback it made; only on_connect and   *)
(* on_recv may have called the wrapper again.                                 *)

Callers == {"Process", "SECln_Connect"}
Reentered == {"on_connect", "on_recv"}

CallerOK(c, i) ==
    /\ c[i] \in Callers
    /\ i < Len(c) /\ c[i + 1] \notin Callers
    /\ i > 1 => c[i - 1] \in Reentered
    /\ c[i] = "SECln_Connect" => api = "SECln" /\ c[i + 1] \in ServicePhases

CalledOK(c, i) ==
    /\ c[i] \in Callbacks \cup ServicePhases
    /\ i > 1 /\ c[i - 1] \in Callers
    /\ i < Len(c) => c[i] \in Reentered

StackOK(c) ==
    /\ c \in Seq(Frames)
    /\ \A i \in 1 .. Len(c) : CallerOK(c, i) \/ CalledOK(c, i)

\* The program may have called, or may call: nothing runs, or a callback that may
\* call the wrapper again.
Resting(c) == c # <<>> => c[Len(c)] \in Reentered

\* The kinds of frames.
LEMMA FrameKinds ==
    /\ Frames = Callbacks \cup ServicePhases \cup Callers
    /\ Callers \cap (Callbacks \cup ServicePhases) = {}
    /\ Callbacks \cap ServicePhases = {}
    /\ Reentered \subseteq Callbacks
    /\ "on_disconnect" \in Callbacks /\ "on_disconnect" \notin Reentered
    /\ {"dispatch", "send", "receive", "resend", "redispatch"} \subseteq ServicePhases
    /\ Callbacks = {"on_connect", "on_recv", "on_disconnect"}
    /\ \A f \in Callbacks : f \in Reentered \/ f = "on_disconnect"
BY DEF Frames, Callbacks, ServicePhases, Callers, Reentered

\* A call that is served: the function that called and the phase it is in.
LEMMA StackTop ==
    ASSUME NEW c, StackOK(c), c # <<>>
    PROVE  /\ Len(c) \in Nat /\ Len(c) >= 2
           /\ c[Len(c)] \in Callbacks \cup ServicePhases
           /\ c[Len(c) - 1] \in Callers
           /\ c[Len(c) - 1] = "SECln_Connect" => api = "SECln" /\ c[Len(c)] \in ServicePhases
<1>1. c \in Seq(Frames) /\ Len(c) \in Nat \ {0}
  BY EmptySeq DEF StackOK
<1>2. Len(c) \in 1 .. Len(c)
  BY <1>1
<1>3. CalledOK(c, Len(c))
  BY <1>1, <1>2 DEF StackOK, CallerOK
<1>4. Len(c) >= 2 /\ Len(c) - 1 \in 1 .. Len(c) /\ (Len(c) - 1) + 1 = Len(c)
  BY <1>1, <1>3 DEF CalledOK
<1>5. CallerOK(c, Len(c) - 1)
  <2>1. c[Len(c) - 1] \in Callers
    BY <1>3 DEF CalledOK
  <2>2. c[Len(c) - 1] \notin Callbacks \cup ServicePhases
    BY <2>1, FrameKinds
  <2> QED BY <1>4, <2>2 DEF StackOK, CalledOK
<1> QED BY <1>1, <1>3, <1>4, <1>5 DEF CalledOK, CallerOK

\* A call that starts.
LEMMA StackPush ==
    ASSUME NEW c, StackOK(c), Resting(c), NEW caller \in Callers,
           caller = "SECln_Connect" => api = "SECln"
    PROVE  /\ StackOK(c \o <<caller, "dispatch">>)
           /\ Len(c \o <<caller, "dispatch">>) = Len(c) + 2
           /\ (c \o <<caller, "dispatch">>)[Len(c) + 1] = caller
           /\ (c \o <<caller, "dispatch">>)[Len(c) + 2] = "dispatch"
<1> DEFINE two == <<caller, "dispatch">>
           d == c \o two
           k == Len(c)
<1>1. c \in Seq(Frames) /\ k \in Nat
  BY DEF StackOK
<1>2. two \in Seq(Frames) /\ Len(two) = 2 /\ two[1] = caller /\ two[2] = "dispatch"
  BY FrameKinds
<1> HIDE DEF two
<1>3. /\ d \in Seq(Frames) /\ Len(d) = k + 2
      /\ \A i \in 1 .. k + 2 : d[i] = IF i <= k THEN c[i] ELSE two[i - k]
  <2>1. /\ c \o two \in Seq(Frames) /\ Len(c \o two) = Len(c) + Len(two)
        /\ \A i \in 1 .. Len(c) + Len(two) :
              (c \o two)[i] = IF i <= Len(c) THEN c[i] ELSE two[i - Len(c)]
    BY <1>1, <1>2, ConcatProperties
  <2> QED BY <1>2, <2>1
<1> HIDE DEF d
<1>4. /\ d[k + 1] = caller /\ d[k + 2] = "dispatch"
      /\ \A i \in 1 .. k : d[i] = c[i]
  BY <1>1, <1>2, <1>3, SMTT(30)
<1>5. k > 0 => c[k] \in Reentered
  BY <1>1, EmptySeq DEF Resting
<1> HIDE DEF k
<1>6. ASSUME NEW i \in 1 .. k PROVE CallerOK(d, i) \/ CalledOK(d, i)
  <2>1. CallerOK(c, i) \/ CalledOK(c, i)
    BY <1>6 DEF StackOK, k
  <2>2. CASE CallerOK(c, i)
    <3>1. i \in 1 .. k /\ i < k /\ i + 1 \in 1 .. k
      BY <1>1, <2>2 DEF CallerOK, k
    <3>2. i > 1 => i - 1 \in 1 .. k
      BY <1>1
    <3> QED BY <1>1, <1>3, <1>4, <2>2, <3>1, <3>2 DEF CallerOK
  <2>3. CASE CalledOK(c, i)
    <3>1. i > 1 /\ i - 1 \in 1 .. k
      BY <1>1, <2>3 DEF CalledOK
    <3>2. c[i] \in Reentered
      <4>1. CASE i = k
        BY <1>1, <1>5, <4>1
      <4>2. CASE i < k
        BY <2>3, <4>2 DEF CalledOK, k
      <4> QED BY <1>1, <4>1, <4>2
    <3> QED BY <1>3, <1>4, <2>3, <3>1, <3>2 DEF CalledOK
  <2> QED BY <2>1, <2>2, <2>3
<1>7. CallerOK(d, k + 1)
  <2>1. "dispatch" \in ServicePhases /\ "dispatch" \notin Callers
    BY FrameKinds
  <2>2. (k + 1) - 1 = k /\ (k + 1) + 1 = k + 2 /\ k + 1 < Len(d)
    BY <1>1, <1>3
  <2>3. k + 1 > 1 => d[k] \in Reentered
    BY <1>1, <1>4, <1>5
  <2> QED BY <1>4, <2>1, <2>2, <2>3 DEF CallerOK
<1>8. CalledOK(d, k + 2)
  <2>1. "dispatch" \in ServicePhases
    BY FrameKinds
  <2>2. (k + 2) - 1 = k + 1 /\ k + 2 > 1 /\ ~(k + 2 < Len(d))
    BY <1>1, <1>3
  <2> QED BY <1>4, <2>1, <2>2 DEF CalledOK
<1>9. \A i \in 1 .. Len(d) : i \in 1 .. k \/ i = k + 1 \/ i = k + 2
  BY <1>1, <1>3
<1>10. StackOK(d)
  BY <1>3, <1>6, <1>7, <1>8, <1>9 DEF StackOK
<1> QED BY <1>3, <1>4, <1>10 DEF d, k, two

\* The top frame replaced: by the next phase of the service, or by a callback.
LEMMA StackReplace ==
    ASSUME NEW c, StackOK(c), c # <<>>, NEW f \in Callbacks \cup ServicePhases,
           c[Len(c) - 1] = "SECln_Connect" => f \in ServicePhases
    PROVE  /\ StackOK(Append(Front(c), f))
           /\ Len(Append(Front(c), f)) = Len(c)
           /\ Append(Front(c), f)[Len(c)] = f
           /\ Append(Front(c), f)[Len(c) - 1] = c[Len(c) - 1]
           /\ Front(c) # <<>> /\ Last(Front(c)) = c[Len(c) - 1]
<1> DEFINE k == Len(c)
           o == Front(c)
           d == Append(o, f)
<1>1. /\ c \in Seq(Frames) /\ k \in Nat /\ k >= 2
      /\ c[k - 1] \in Callers
      /\ c[k - 1] = "SECln_Connect" => api = "SECln"
  BY StackTop DEF StackOK
<1>2. o \in Seq(Frames) /\ Len(o) = k - 1 /\ \A i \in 1 .. k - 1 : o[i] = c[i]
  <2>1. 1 \in 1 .. k /\ k - 1 \in 1 .. k
    BY <1>1
  <2>2. \A i \in 1 .. k : c[i] \in Frames
    BY <1>1, ElementOfSeq
  <2>3. \A i \in 1 .. k - 1 : c[i] \in Frames
    BY <1>1, <2>2
  <2>4. /\ SubSeq(c, 1, k - 1) \in Seq(Frames)
        /\ Len(SubSeq(c, 1, k - 1)) = k - 1
        /\ \A i \in 1 .. k - 1 : SubSeq(c, 1, k - 1)[i] = c[i]
    BY <1>1, <2>1, <2>3, SubSeqProperties
  <2> QED BY <2>4 DEF Front
<1> HIDE DEF o
<1>3. f \in Frames
  BY FrameKinds
<1>4. /\ d \in Seq(Frames) /\ Len(d) = k /\ d[k] = f
      /\ \A i \in 1 .. k - 1 : d[i] = c[i]
  BY <1>1, <1>2, <1>3, AppendProperties
<1> HIDE DEF d, k
<1>5. ASSUME NEW i \in 1 .. k, i # k PROVE CallerOK(d, i) \/ CalledOK(d, i)
  <2>1. i \in 1 .. k - 1 /\ (CallerOK(c, i) \/ CalledOK(c, i))
    BY <1>1, <1>5 DEF StackOK, k
  <2>2. CASE CallerOK(c, i)
    <3>1. i > 1 => i - 1 \in 1 .. k - 1
      BY <1>1, <2>1
    <3>2. CASE i = k - 1
      <4>1. i + 1 = k /\ i < k /\ Len(d) = k /\ d[k] = f /\ f \notin Callers
        BY <1>1, <1>4, <3>2, FrameKinds
      <4>2. d[i] = c[i] /\ (i > 1 => d[i - 1] = c[i - 1])
        BY <1>4, <2>1, <3>1
      <4>3. c[i] = "SECln_Connect" => f \in ServicePhases
        BY <3>2 DEF k
      <4> QED BY <2>2, <4>1, <4>2, <4>3 DEF CallerOK
    <3>3. CASE i # k - 1
      <4>1. i + 1 \in 1 .. k - 1 /\ i < k /\ Len(d) = k
        BY <1>1, <1>4, <2>1, <3>3
      <4>2. d[i] = c[i] /\ d[i + 1] = c[i + 1] /\ (i > 1 => d[i - 1] = c[i - 1])
        BY <1>4, <2>1, <3>1, <4>1
      <4> QED BY <2>2, <4>1, <4>2 DEF CallerOK
    <3> QED BY <3>2, <3>3
  <2>3. CASE CalledOK(c, i)
    <3>1. i > 1 /\ i - 1 \in 1 .. k - 1 /\ i < k
      BY <1>1, <2>1, <2>3 DEF CalledOK
    <3>2. c[i] \in Reentered
      BY <2>3, <3>1 DEF CalledOK, k
    <3> QED BY <1>4, <2>1, <2>3, <3>1, <3>2 DEF CalledOK
  <2> QED BY <2>1, <2>2, <2>3
<1>6. CalledOK(d, k)
  <2>1. k > 1 /\ k - 1 \in 1 .. k - 1 /\ ~(k < Len(d))
    BY <1>1, <1>4
  <2> QED BY <1>1, <1>4, <2>1 DEF CalledOK
<1>7. StackOK(d)
  BY <1>4, <1>5, <1>6 DEF StackOK
<1>8. k - 1 \in 1 .. k - 1 /\ k - 1 # 0
  BY <1>1
<1>9. o # <<>> /\ o[Len(o)] = c[k - 1]
  BY <1>2, <1>8
<1> QED BY <1>4, <1>7, <1>8, <1>9 DEF Last, d, k, o

\* A call that returns.
LEMMA StackPop ==
    ASSUME NEW c, StackOK(c), c # <<>>
    PROVE  /\ StackOK(Front(Front(c)))
           /\ Len(Front(Front(c))) = Len(c) - 2
           /\ Resting(Front(Front(c)))
<1> DEFINE k == Len(c)
           o == Front(c)
           d == Front(o)
<1>1. c \in Seq(Frames) /\ k \in Nat /\ k >= 2 /\ c[k - 1] \in Callers
  BY StackTop DEF StackOK
<1>2. \A i \in 1 .. k : c[i] \in Frames
  BY <1>1, ElementOfSeq
<1>3. o \in Seq(Frames) /\ Len(o) = k - 1 /\ \A i \in 1 .. k - 1 : o[i] = c[i]
  <2>1. 1 \in 1 .. k /\ \A i \in 1 .. k - 1 : c[i] \in Frames
    BY <1>1, <1>2
  <2>2. /\ SubSeq(c, 1, k - 1) \in Seq(Frames)
        /\ Len(SubSeq(c, 1, k - 1)) = k - 1
        /\ \A i \in 1 .. k - 1 : SubSeq(c, 1, k - 1)[i] = c[i]
    BY <1>1, <2>1, SubSeqProperties
  <2> QED BY <2>2 DEF Front
<1> HIDE DEF o
<1>4. d \in Seq(Frames) /\ Len(d) = k - 2 /\ \A i \in 1 .. k - 2 : d[i] = c[i]
  <2>1. \A i \in 1 .. k - 2 : o[i] \in Frames /\ o[i] = c[i]
    BY <1>1, <1>2, <1>3
  <2>2. /\ SubSeq(o, 1, k - 2) \in Seq(Frames)
        /\ Len(SubSeq(o, 1, k - 2)) = k - 2
        /\ \A i \in 1 .. k - 2 : SubSeq(o, 1, k - 2)[i] = o[i]
    BY <1>1, <1>3, <2>1, SubSeqProperties
  <2>3. d = SubSeq(o, 1, k - 2)
    BY <1>1, <1>3 DEF Front
  <2> QED BY <2>1, <2>2, <2>3
<1> HIDE DEF d, k
<1>5. CallerOK(c, k - 1)
  <2>1. k - 1 \in 1 .. k /\ c[k - 1] \notin Callbacks \cup ServicePhases
    BY <1>1, FrameKinds
  <2> QED BY <2>1 DEF StackOK, CalledOK, k
<1>6. k - 2 > 0 => c[k - 2] \in Reentered
  BY <1>1, <1>5 DEF CallerOK
<1>7. ASSUME NEW i \in 1 .. k - 2 PROVE CallerOK(d, i) \/ CalledOK(d, i)
  <2>1. i \in 1 .. k /\ i \in Nat /\ i < k /\ (CallerOK(c, i) \/ CalledOK(c, i))
    BY <1>1, <1>7 DEF StackOK, k
  <2>2. CASE CallerOK(c, i)
    <3>1. i # k - 2
      <4>1. i = k - 2 => c[i] \in Reentered
        BY <1>1, <1>6
      <4> QED BY <2>2, <4>1, FrameKinds DEF CallerOK
    <3>2. i + 1 \in 1 .. k - 2 /\ i < k - 2 /\ (i > 1 => i - 1 \in 1 .. k - 2)
      BY <1>1, <3>1
    <3> QED BY <1>4, <2>2, <3>2 DEF CallerOK
  <2>3. CASE CalledOK(c, i)
    <3>1. i > 1 /\ i - 1 \in 1 .. k - 2
      BY <1>1, <2>3 DEF CalledOK
    <3>2. c[i] \in Reentered
      BY <2>1, <2>3 DEF CalledOK, k
    <3> QED BY <1>4, <2>3, <3>1, <3>2 DEF CalledOK
  <2> QED BY <2>1, <2>2, <2>3
<1>8. StackOK(d)
  BY <1>4, <1>7 DEF StackOK
<1>9. Resting(d)
  <2>1. SUFFICES ASSUME d # <<>> PROVE d[Len(d)] \in Reentered
    BY DEF Resting
  <2>2. k - 2 > 0 /\ k - 2 \in 1 .. k - 2
    BY <1>1, <1>4, <2>1, EmptySeq
  <2> QED BY <1>4, <1>6, <2>2
<1> QED BY <1>4, <1>8, <1>9 DEF d, k, o

-----------------------------------------------------------------------------
(* The inductive invariant, of a host, the program's peers, the event, the    *)
(* client's pointer and the calls in progress.                                *)

Events == [type : {"none", "connect", "receive", "disconnect"}, slot : Slots \cup {NoPeer}]

Fields ==
    /\ api \in Apis
    /\ started \in BOOLEAN /\ immediatly \in BOOLEAN
    /\ pointer \in Slots \cup {NoPeer}
    /\ event \in Events
    /\ Len(calls) <= MaxDepth
    /\ sessions \in 0 .. MaxSessions

\* A host that does not run has no program in it.
Idle == ~started => calls = <<>> /\ handed = {}

\* The peers are free, under way or once connected, and the program has exactly those
\* whose states are Held.
HandedExact(H, had) ==
    /\ \A s \in Slots : H.peers[s].state \in {DISCONNECTED, New} \cup Up
    /\ had = {s \in Slots : H.peers[s].state \in Held}

\* The peer whose end is told is free already.
EndTold(H, ev, c) ==
    c # <<>> /\ c[Len(c)] = "on_disconnect"
        => ev.slot \in Slots /\ H.peers[ev.slot].state = DISCONNECTED

\* A service call is in progress, of this function.
Serving(c) == c # <<>> /\ c[Len(c)] \in ServicePhases
Caller(c) == c[Len(c) - 1]

\* The one peer of SECln: its request is under way only while SECln_Connect waits for
\* it, Process serves a peer that was connected, and else the pointer is exact, except
\* in the callback that tells the end of the peer.
ClientExact(H, p, c) ==
    api = "SECln" =>
        /\ Serving(c) => p = 1
        /\ Serving(c) /\ Caller(c) = "SECln_Connect" => H.peers[1].state \in {DISCONNECTED, New}
        /\ Serving(c) /\ Caller(c) = "Process" => H.peers[1].state \in Up
        /\ ~Serving(c) => H.peers[1].state # New
        /\ ~Serving(c) /\ Resting(c) => (p = NoPeer <=> H.peers[1].state = DISCONNECTED)

Exact(H, had, ev, p, c) ==
    /\ HostOK(NumPeers, H) /\ StackOK(c)
    /\ HandedExact(H, had) /\ EndTold(H, ev, c) /\ ClientExact(H, p, c)

WrappersInv == Fields /\ Idle /\ Exact(host, handed, event, pointer, calls)

\* The slots are numbered from 1.
LEMMA SlotsAre ==
    /\ NumPeers \in Nat /\ NumPeers >= 1
    /\ Slots = 1 .. NumPeers
    /\ 1 \in Slots
    /\ NoPeer \notin Slots
    /\ api = "SECln" => \A s \in Slots : s = 1
BY MaxPeersAssumption DEF NumPeers, Slots, NoPeer

\* The wrapper stays what it is, so the invariant of the next state is about the same
\* slots and states.
LEMMA InvNext ==
    ASSUME api' = api, api \in Apis,
           started' \in BOOLEAN, immediatly' \in BOOLEAN,
           pointer' \in Slots \cup {NoPeer}, event' \in Events,
           Len(calls') <= MaxDepth, sessions' \in 0 .. MaxSessions,
           ~started' => calls' = <<>> /\ handed' = {},
           Exact(host', handed', event', pointer', calls')
    PROVE  WrappersInv'
<1>1. Slots' = Slots /\ NumPeers' = NumPeers /\ New' = New
  BY DEF Slots, NumPeers, New
<1>2. Held' = Held /\ Events' = Events
  BY <1>1 DEF Held, Events
<1>3. Fields' /\ Idle'
  BY <1>1, <1>2 DEF Fields, Idle
<1>4. StackOK(calls)'
  BY DEF Exact, StackOK, CallerOK, CalledOK
<1>5. HandedExact(host, handed)' /\ HostOK(NumPeers, host)'
  BY <1>1, <1>2 DEF Exact, HandedExact
<1>6. EndTold(host, event, calls)' /\ ClientExact(host, pointer, calls)'
  BY <1>1 DEF Exact, EndTold, ClientExact
<1> QED BY <1>3, <1>4, <1>5, <1>6 DEF WrappersInv, Exact

\* The host of a state that satisfies the invariant.
LEMMA InvHost ==
    ASSUME WrappersInv
    PROVE  /\ NumPeers \in Nat /\ Slots = 1 .. NumPeers /\ HostOK(NumPeers, host)
           /\ \A s \in Slots : State(s) \in {DISCONNECTED, New} \cup Up
           /\ handed = {s \in Slots : State(s) \in Held}
BY SlotsAre DEF WrappersInv, Exact, HandedExact, State

\* The program has the same peers when all are kept.
LEMMA HandedKept ==
    ASSUME NEW H, NEW had, HandedExact(H, had), NEW G, \A s \in Slots : Kept(H, G, s)
    PROVE  HandedExact(G, had)
<1>1. \A s \in Slots : G.peers[s].state \in {DISCONNECTED, New} \cup Up
  BY DEF HandedExact, Kept
<1>2. \A s \in Slots : G.peers[s].state \in Held <=> H.peers[s].state \in Held
  BY DEF Kept, Held
<1> QED BY <1>1, <1>2 DEF HandedExact

\* It has one more or one less when one changes.
LEMMA HandedOne ==
    ASSUME NEW H, NEW had, HandedExact(H, had), NEW G, NEW s \in Slots,
           \A t \in Slots \ {s} : Kept(H, G, t),
           G.peers[s].state \in {DISCONNECTED, New} \cup Up
    PROVE  /\ G.peers[s].state \in Held => HandedExact(G, had \cup {s})
           /\ G.peers[s].state \notin Held => HandedExact(G, had \ {s})
<1>1. \A t \in Slots : G.peers[t].state \in {DISCONNECTED, New} \cup Up
  BY DEF HandedExact, Kept
<1>2. \A t \in Slots \ {s} : G.peers[t].state \in Held <=> H.peers[t].state \in Held
  BY DEF Kept, Held
<1> QED BY <1>1, <1>2 DEF HandedExact

\* It loses those that a call of its own frees.
LEMMA HandedEnded ==
    ASSUME NEW H, NEW had, HandedExact(H, had), NEW G, DOMAIN G.peers = Slots,
           \A s \in Slots : Ends(H, G, s)
    PROVE  HandedExact(G, had \ Ended(G))
<1>1. \A s \in Slots : G.peers[s].state \in {DISCONNECTED, New} \cup Up
  BY DEF HandedExact, Kept, Ends
<1>2. ASSUME NEW s \in Slots
      PROVE  s \in had \ Ended(G) <=> G.peers[s].state \in Held
  <2>1. s \in Ended(G) <=> G.peers[s].state = DISCONNECTED
    BY DEF Ended
  <2>2. s \in had <=> H.peers[s].state \in Held
    BY DEF HandedExact
  <2>3. CASE G.peers[s].state = DISCONNECTED
    BY <2>1, <2>3, NewState
  <2>4. CASE G.peers[s].state # DISCONNECTED
    <3>1. Kept(H, G, s)
      BY <2>4 DEF Ends
    <3>2. G.peers[s].state \in Held <=> H.peers[s].state \in Held
      BY <3>1 DEF Kept, Held
    <3> QED BY <2>1, <2>2, <2>4, <3>2
  <2> QED BY <2>3, <2>4
<1>3. had \ Ended(G) \subseteq Slots
  BY DEF HandedExact
<1>4. had \ Ended(G) = {s \in Slots : G.peers[s].state \in Held}
  BY <1>2, <1>3
<1> QED BY <1>1, <1>4 DEF HandedExact

\* A phase of a service call: no end is being told, and the client's peer is kept, or
\* its request ends.
LEMMA ServingKeeps ==
    ASSUME NEW H, NEW had, NEW ev, NEW p, NEW c, Exact(H, had, ev, p, c), Serving(c),
           NEW G, NEW ev2,
           api = "SECln" => \/ Kept(H, G, 1)
                            \/ H.peers[1].state = New /\ G.peers[1].state = DISCONNECTED
    PROVE  EndTold(G, ev2, c) /\ ClientExact(G, p, c)
<1>1. EndTold(G, ev2, c)
  BY FrameKinds DEF EndTold, Serving
<1>2. ASSUME api = "SECln" PROVE ClientExact(G, p, c)
  <2>1. p = 1
    BY <1>2 DEF Exact, ClientExact
  <2>2. Caller(c) = "SECln_Connect" => G.peers[1].state \in {DISCONNECTED, New}
    BY <1>2, NewState DEF Exact, ClientExact, Kept
  <2>3. Caller(c) = "Process" => G.peers[1].state \in Up
    BY <1>2, NewState DEF Exact, ClientExact, Kept
  <2> QED BY <2>1, <2>2, <2>3 DEF ClientExact
<1>3. api # "SECln" => ClientExact(G, p, c)
  BY DEF ClientExact
<1> QED BY <1>1, <1>2, <1>3

\* A call of the program that returns at once: the peer of a client that is not
\* starting a call is kept, or freed with its pointer; a peer that is free stays so.
LEMMA ProgramKeeps ==
    ASSUME NEW H, NEW had, NEW ev, NEW p, NEW c, Exact(H, had, ev, p, c), ~Serving(c),
           NEW G, NEW q,
           \A s \in Slots : H.peers[s].state = DISCONNECTED => G.peers[s].state = DISCONNECTED,
           api = "SECln" => \/ Kept(H, G, 1) /\ q = p
                            \/ G.peers[1].state = DISCONNECTED /\ q = NoPeer
    PROVE  EndTold(G, ev, c) /\ ClientExact(G, q, c)
<1>1. EndTold(G, ev, c)
  BY DEF EndTold, Exact
<1>2. ASSUME api = "SECln" PROVE ClientExact(G, q, c)
  <2>1. H.peers[1].state # New
    BY <1>2 DEF Exact, ClientExact
  <2>2. G.peers[1].state # New
    BY <1>2, <2>1, NewState DEF Kept
  <2>3. Resting(c) => (p = NoPeer <=> H.peers[1].state = DISCONNECTED)
    BY <1>2 DEF Exact, ClientExact
  <2>4. Resting(c) => (q = NoPeer <=> G.peers[1].state = DISCONNECTED)
    BY <1>2, <2>3, NewState DEF Kept
  <2> QED BY <2>2, <2>4 DEF ClientExact
<1>3. api # "SECln" => ClientExact(G, q, c)
  BY DEF ClientExact
<1> QED BY <1>1, <1>2, <1>3

\* The first state: no peers, no calls.
LEMMA NewHostOK ==
    ASSUME NEW n \in Nat
    PROVE  /\ HostOK(n, NewHost(1 .. n))
           /\ \A s \in 1 .. n : NewHost(1 .. n).peers[s].state = DISCONNECTED
<1> DEFINE H == NewHost(1 .. n)
<1>1. /\ H.peers = [s \in 1 .. n |-> FreePeer] /\ H.dispatchQueue = <<>>
      /\ H.connectedPeers = 0 /\ H.randomSeed = 0
  BY DEF NewHost
<1>2. FreePeer \in Peers /\ FreePeer.state = DISCONNECTED /\ FreePeer.needsDispatch = FALSE
  BY FS_EmptySet DEF FreePeer, Peers, PeerStates, DISCONNECTED, NoPeer, Arrivals
<1>3. H \in HostRecords(n)
  BY <1>2 DEF NewHost, HostRecords
<1> HIDE DEF H
<1>4. \A s \in 1 .. n : H.peers[s].state = DISCONNECTED /\ H.peers[s].needsDispatch = FALSE
  BY <1>1, <1>2
<1>5. CountExact(H)
  <2>1. CountedSlots(H) = {}
    BY <1>1, <1>4, UpStates, NewState DEF CountedSlots
  <2> QED BY <1>1, <2>1, FS_EmptySet DEF CountExact
<1>6. QueueExact(H)
  BY <1>1, <1>4 DEF QueueExact
<1> QED BY <1>3, <1>4, <1>5, <1>6 DEF HostOK, H

\* With no peers and no calls everything is exact.
LEMMA FreshExact ==
    ASSUME NEW ev
    PROVE  Exact(NewHost(Slots), {}, ev, NoPeer, <<>>)
<1> DEFINE H == NewHost(Slots)
<1>1. HostOK(NumPeers, H) /\ \A s \in Slots : H.peers[s].state = DISCONNECTED
  BY SlotsAre, NewHostOK
<1> HIDE DEF H
<1>2. StackOK(<<>>)
  BY DEF StackOK
<1>3. HandedExact(H, {})
  BY <1>1, NewState DEF HandedExact
<1>4. EndTold(H, ev, <<>>) /\ ClientExact(H, NoPeer, <<>>)
  BY <1>1, SlotsAre, NewState DEF EndTold, ClientExact, Serving
<1> QED BY <1>1, <1>2, <1>3, <1>4 DEF Exact, H

-----------------------------------------------------------------------------
(* The calls of the program.                                                  *)

\* The first state.
LEMMA InitInv == Init => WrappersInv
<1> SUFFICES ASSUME Init PROVE WrappersInv
  OBVIOUS
<1>1. Exact(host, handed, event, pointer, calls)
  BY FreshExact DEF Init
<1>2. NoEvent \in Events
  BY DEF NoEvent, Events
<1>3. Fields
  <2>1. started \in BOOLEAN
    BY Zenon DEF Init
  <2>2. Len(calls) <= MaxDepth /\ sessions \in 0 .. MaxSessions
    BY BoundAssumption DEF Init
  <2>3. api \in Apis /\ immediatly \in BOOLEAN /\ pointer \in Slots \cup {NoPeer} /\ event = NoEvent
    BY DEF Init
  <2> QED BY <1>2, <2>1, <2>2, <2>3 DEF Fields
<1> QED BY <1>1, <1>3 DEF WrappersInv, Idle, Init

\* A host that starts, or that stops between calls, is a fresh one.
LEMMA StartStopInv ==
    ASSUME WrappersInv, Start \/ Stop
    PROVE  WrappersInv'
<1>1. /\ UNCHANGED <<api, immediatly, pointer, event, calls, sessions>>
      /\ host' = NewHost(Slots) /\ started' \in BOOLEAN
      /\ api = "SESrv"
  BY DEF Start, Stop
<1>2. calls = <<>> /\ handed' = {}
  BY DEF Start, Stop, WrappersInv, Idle
<1>3. Exact(host', handed', event', NoPeer, calls')
  BY <1>1, <1>2, FreshExact
<1>4. Exact(host', handed', event', pointer', calls')
  BY <1>1, <1>3 DEF Exact, ClientExact
<1> QED BY <1>1, <1>2, <1>4, InvNext DEF WrappersInv, Fields

\* A call of the program that returns at once and leaves the calls in progress.
LEMMA ProgramInv ==
    ASSUME WrappersInv, InProgram, UNCHANGED <<api, started, event, calls>>,
           immediatly' \in BOOLEAN, pointer' \in Slots \cup {NoPeer},
           sessions' \in 0 .. MaxSessions, handed' = {} \/ started,
           HostOK(NumPeers, host'), HandedExact(host', handed'),
           At("on_disconnect") =>
              \A s \in Slots : State(s) = DISCONNECTED => host'.peers[s].state = DISCONNECTED,
           api = "SECln" => \/ Kept(host, host', 1) /\ pointer' = pointer
                            \/ host'.peers[1].state = DISCONNECTED /\ pointer' = NoPeer
    PROVE  WrappersInv'
<1>1. ~Serving(calls)
  BY FrameKinds DEF InProgram, Last, Serving
<1>2. EndTold(host', event, calls)
  BY DEF EndTold, WrappersInv, Exact, At, Last, State
<1>3. ClientExact(host', pointer', calls)
  <2>1. CASE api # "SECln"
    BY <2>1 DEF ClientExact
  <2>2. CASE api = "SECln"
    <3>1. host.peers[1].state # New
      BY <1>1, <2>2 DEF WrappersInv, Exact, ClientExact
    <3>2. host'.peers[1].state # New
      BY <2>2, <3>1, NewState DEF Kept
    <3>3. Resting(calls) => (pointer = NoPeer <=> host.peers[1].state = DISCONNECTED)
      BY <1>1, <2>2 DEF WrappersInv, Exact, ClientExact
    <3>4. Resting(calls) => (pointer' = NoPeer <=> host'.peers[1].state = DISCONNECTED)
      BY <2>2, <3>3, NewState DEF Kept
    <3> QED BY <1>1, <3>2, <3>4 DEF ClientExact
  <2> QED BY <2>1, <2>2
<1>4. Exact(host', handed', event', pointer', calls')
  BY <1>2, <1>3 DEF WrappersInv, Exact
<1>5. ~started' => calls' = <<>> /\ handed' = {}
  BY DEF WrappersInv, Idle
<1> QED BY <1>4, <1>5, InvNext DEF WrappersInv, Fields

\* Setting the flag of immediate sends keeps the invariant.
LEMMA SetSendImmediatlyInv ==
    ASSUME WrappersInv, SetSendImmediatly
    PROVE  WrappersInv'
<1>1. /\ InProgram /\ immediatly' \in BOOLEAN
      /\ UNCHANGED <<api, started, host, pointer, event, calls, handed, sessions>>
  BY DEF SetSendImmediatly
<1>2. handed' = {} \/ started
  BY <1>1 DEF WrappersInv, Idle
<1>3. HostOK(NumPeers, host') /\ HandedExact(host', handed')
  BY <1>1 DEF WrappersInv, Exact
<1>4. Kept(host, host', 1) /\ pointer' \in Slots \cup {NoPeer} /\ sessions' \in 0 .. MaxSessions
  BY <1>1 DEF Kept, WrappersInv, Fields
<1>5. \A s \in Slots : State(s) = DISCONNECTED => host'.peers[s].state = DISCONNECTED
  BY <1>1 DEF State
<1> QED BY <1>1, <1>2, <1>3, <1>4, <1>5, ProgramInv

\* A new request of SECln2 is handed to the program, in a slot that was free; nothing
\* tells an end meanwhile.
LEMMA ConnectManyInv ==
    ASSUME Careful, WrappersInv, NEW s \in Slots, ConnectMany(s)
    PROVE  WrappersInv'
<1>1. /\ api = "SECln2" /\ MayCall("connect") /\ State(s) = DISCONNECTED
      /\ sessions < MaxSessions /\ sessions' = sessions + 1
      /\ host' = [host EXCEPT !.peers[s].state = CONNECTING]
      /\ handed' = handed \cup {s}
      /\ UNCHANGED <<api, started, immediatly, pointer, event, calls>>
  BY DEF ConnectMany, IsFirstFree
<1>2. /\ HostOK(NumPeers, host')
      /\ \A t \in Slots \ {s} : Kept(host, host', t)
      /\ host'.peers[s].state = CONNECTING
  <2>1. host.peers[s].state = DISCONNECTED /\ CONNECTING \in {CONNECTING, ACKNOWLEDGING_CONNECT}
    BY <1>1 DEF State
  <2> QED BY <1>1, <2>1, InvHost, TakenSlot
<1>3. New = CONNECTING /\ CONNECTING \in Held
  BY <1>1 DEF New, Held
<1>4. HandedExact(host', handed')
  <2>1. HandedExact(host, handed)
    BY DEF WrappersInv, Exact
  <2> QED BY <1>1, <1>2, <1>3, <2>1, HandedOne
<1>5. ~At("on_disconnect")
  BY <1>1 DEF MayCall, At, Careful
<1>6. InProgram /\ started
  BY <1>1 DEF MayCall
<1>7. sessions' \in 0 .. MaxSessions
  BY <1>1, BoundAssumption DEF WrappersInv, Fields
<1>8. immediatly' \in BOOLEAN /\ pointer' \in Slots \cup {NoPeer}
  BY <1>1 DEF WrappersInv, Fields
<1> QED BY <1>1, <1>2, <1>4, <1>5, <1>6, <1>7, <1>8, ProgramInv

\* Disconnecting a peer.
LEMMA DisconnectPeerInv ==
    ASSUME WrappersInv, NEW s \in Slots, NEW force \in BOOLEAN, DisconnectPeer(s, force)
    PROVE  WrappersInv'
<1> DEFINE H == Disconnected(host, s, force)
<1>1. /\ MayCall(IF force THEN "force" ELSE "disconnect")
      /\ s \in handed \/ (At("on_disconnect") /\ s = event.slot)
      /\ api = "SECln" => s = pointer
      /\ host' = H
      /\ handed' = handed \ ({s} \cap Ended(H))
      /\ pointer' = IF force THEN NoPeer ELSE pointer
      /\ UNCHANGED <<api, started, immediatly, event, calls, sessions>>
  BY DEF DisconnectPeer
<1>2. /\ HostOK(NumPeers, H)
      /\ \A t \in Slots \ {s} : Kept(host, H, t)
      /\ Ends(host, H, s)
      /\ force => H.peers[s].state = DISCONNECTED
      /\ ~force /\ State(s) \in Up => Kept(host, H, s)
  BY InvHost, DisconnectedEnds DEF State
<1> HIDE DEF H
<1>3. DOMAIN H.peers = Slots
  BY <1>2, InvHost, SlotCount
<1>4. HandedExact(host, handed)
  BY DEF WrappersInv, Exact
<1>5. HandedExact(H, handed \ Ended(H))
  BY <1>2, <1>3, <1>4, HandedEnded DEF Ends
<1>6. handed \ ({s} \cap Ended(H)) = handed \ Ended(H)
  <2>1. ASSUME NEW t \in handed, t # s PROVE t \notin Ended(H)
    <3>1. t \in Slots /\ host.peers[t].state # DISCONNECTED
      BY <1>4, NewState DEF HandedExact
    <3>2. Kept(host, H, t)
      BY <1>2, <2>1, <3>1
    <3> QED BY <3>1, <3>2, NewState DEF Kept, Ended
  <2> QED BY <2>1
<1>7. InProgram /\ started
  BY <1>1 DEF MayCall
<1>8. \A t \in Slots : State(t) = DISCONNECTED => H.peers[t].state = DISCONNECTED
  BY <1>2, NewState DEF Ends, Kept, State
<1>9. ASSUME api = "SECln"
      PROVE  \/ Kept(host, H, 1) /\ pointer' = pointer
             \/ H.peers[1].state = DISCONNECTED /\ pointer' = NoPeer
  <2>1. s = 1
    BY <1>9, SlotsAre
  <2>2. CASE force
    BY <1>1, <1>2, <2>1, <2>2
  <2>3. CASE ~force
    <3>1. ~Serving(calls)
      BY <1>7, FrameKinds DEF InProgram, Last, Serving
    <3>2. State(1) # New
      BY <1>9, <3>1 DEF WrappersInv, Exact, ClientExact, State
    <3>3. State(1) \in {DISCONNECTED} \cup Up
      BY <2>1, <3>2, InvHost
    <3>4. Kept(host, H, 1)
      BY <1>2, <1>8, <2>1, <2>3, <3>3 DEF Kept, State
    <3> QED BY <1>1, <2>3, <3>4
  <2> QED BY <2>2, <2>3
<1>10. /\ immediatly' \in BOOLEAN /\ pointer' \in Slots \cup {NoPeer}
       /\ sessions' \in 0 .. MaxSessions
  BY <1>1 DEF WrappersInv, Fields
<1>11. HandedExact(host', handed') /\ HostOK(NumPeers, host')
  BY <1>1, <1>2, <1>5, <1>6
<1> QED BY <1>1, <1>7, <1>8, <1>9, <1>10, <1>11, ProgramInv

\* Disconnecting all the peers.
LEMMA DisconnectAllInv ==
    ASSUME WrappersInv, NEW force \in BOOLEAN, DisconnectAll(force)
    PROVE  WrappersInv'
<1> DEFINE H == AllDisconnected(host, force)
<1>1. /\ api # "SECln"
      /\ MayCall(IF force THEN "force" ELSE "disconnect")
      /\ host' = H
      /\ handed' = handed \ Ended(H)
      /\ UNCHANGED <<api, started, immediatly, pointer, event, calls, sessions>>
  BY DEF DisconnectAll
<1>2. HostOK(NumPeers, H) /\ \A t \in Slots : Ends(host, H, t)
  BY InvHost, AllDisconnectedEnds DEF EndsHosts
<1> HIDE DEF H
<1>3. DOMAIN H.peers = Slots
  BY <1>2, InvHost, SlotCount
<1>4. HandedExact(host', handed') /\ HostOK(NumPeers, host')
  <2>1. HandedExact(host, handed)
    BY DEF WrappersInv, Exact
  <2> QED BY <1>1, <1>2, <1>3, <2>1, HandedEnded
<1>5. InProgram /\ started
  BY <1>1 DEF MayCall
<1>6. \A t \in Slots : State(t) = DISCONNECTED => host'.peers[t].state = DISCONNECTED
  BY <1>1, <1>2, NewState DEF Ends, Kept, State
<1>7. /\ immediatly' \in BOOLEAN /\ pointer' \in Slots \cup {NoPeer}
      /\ sessions' \in 0 .. MaxSessions
  BY <1>1 DEF WrappersInv, Fields
<1> QED BY <1>1, <1>4, <1>5, <1>6, <1>7, ProgramInv

\* A call that keeps every peer.
LEMMA KeepingInv ==
    ASSUME WrappersInv, InProgram, started,
           UNCHANGED <<api, started, immediatly, pointer, event, calls, handed, sessions>>,
           host' \in KeptHosts(NumPeers, host)
    PROVE  WrappersInv'
<1>1. HostOK(NumPeers, host') /\ \A s \in Slots : Kept(host, host', s)
  BY InvHost DEF KeptHosts
<1>2. HandedExact(host', handed')
  <2>1. HandedExact(host, handed)
    BY DEF WrappersInv, Exact
  <2> QED BY <1>1, <2>1, HandedKept
<1>3. \A s \in Slots : State(s) = DISCONNECTED => host'.peers[s].state = DISCONNECTED
  BY <1>1, NewState DEF Kept, State
<1>4. Kept(host, host', 1)
  BY <1>1, SlotsAre
<1>5. /\ immediatly' \in BOOLEAN /\ pointer' \in Slots \cup {NoPeer}
      /\ sessions' \in 0 .. MaxSessions
  BY DEF WrappersInv, Fields
<1> QED BY <1>1, <1>2, <1>3, <1>4, <1>5, ProgramInv

\* A flush after a call that keeps every peer keeps them.
LEMMA FlushedKeeps ==
    ASSUME NEW n \in Nat, NEW H, HostOK(n, H), NEW G \in KeptHosts(n, H)
    PROVE  Flush(G) \in KeptHosts(n, H)
<1> DEFINE F == Flush(G)
<1>1. HostOK(n, G) /\ \A t \in 1 .. n : Kept(H, G, t)
  BY DEF KeptHosts
<1>2. HostOK(n, F) /\ \A t \in 1 .. n : Kept(G, F, t)
  BY <1>1, WholeFlushKeeps DEF KeptHosts
<1> HIDE DEF F
<1>3. \A t \in 1 .. n : Kept(H, F, t)
  BY <1>1, <1>2, KeptTwice
<1> QED BY <1>2, <1>3 DEF KeptHosts, HostOK, F

\* Sending to a peer keeps the invariant.
LEMMA SendInv ==
    ASSUME WrappersInv, NEW s \in Slots, Send(s)
    PROVE  WrappersInv'
<1> DEFINE sent == PeerSend(host, s)
<1>1. /\ MayCall("send")
      /\ host' = IF immediatly THEN Flush(sent) ELSE sent
      /\ UNCHANGED <<api, started, immediatly, pointer, event, calls, handed, sessions>>
  BY DEF Send
<1>2. sent \in KeptHosts(NumPeers, host)
  BY InvHost, PeerSendKeeps
<1> HIDE DEF sent
<1>3. host' \in KeptHosts(NumPeers, host)
  BY <1>1, <1>2, InvHost, FlushedKeeps
<1> QED BY <1>1, <1>3, KeepingInv DEF MayCall

\* Sending to every peer keeps the invariant.
LEMMA BroadcastInv ==
    ASSUME WrappersInv, Broadcast
    PROVE  WrappersInv'
<1> DEFINE n == NumPeers
           m == Cardinality(Slots)
           Good == KeptHosts(n, host)
           next == [i \in 1 .. n |-> [G \in Good |-> PeerSend(G, i)]]
           sent[i \in 0 .. m] == IF i = 0 THEN host ELSE PeerSend(sent[i - 1], i)
<1>0. m = n /\ n \in Nat /\ HostOK(n, host)
  <2>1. DOMAIN host.peers = Slots /\ Cardinality(DOMAIN host.peers) = n
    BY InvHost, SlotCount
  <2> QED BY <2>1, InvHost
<1>1. host \in Good
  BY <1>0 DEF KeptHosts, Kept, HostOK
<1>2. ASSUME NEW i \in 1 .. n, NEW G \in Good PROVE PeerSend(G, i) \in Good
  <2> DEFINE F == PeerSend(G, i)
  <2> HIDE DEF n
  <2>1. HostOK(n, G) /\ \A t \in 1 .. n : Kept(host, G, t)
    BY <1>2 DEF KeptHosts
  <2>2. HostOK(n, F) /\ \A t \in 1 .. n : Kept(G, F, t)
    BY <1>0, <2>1, PeerSendKeeps DEF KeptHosts
  <2> HIDE DEF F
  <2>3. \A t \in 1 .. n : Kept(host, F, t)
    BY <2>1, <2>2, KeptTwice
  <2> QED BY <2>2, <2>3 DEF KeptHosts, HostOK, F
<1>3. next \in StepsOn(Good, n)
  <2> HIDE DEF Good, n
  <2> QED BY <1>2 DEF StepsOn
<1>4. PICK f : Iterates(f, Good, n, next, host)
  <2> HIDE DEF Good, next, n
  <2> QED BY <1>0, <1>1, <1>3, Iteration
<1>5. \A i \in 1 .. n : f[i] = PeerSend(f[i - 1], i)
  <2> HIDE DEF n
  <2> TAKE i \in 1 .. n
  <2>1. f[i - 1] \in Good
    BY <1>0, <1>4 DEF Iterates
  <2> QED BY <1>4, <2>1 DEF Iterates
<1>6. f = [i \in 0 .. m |-> IF i = 0 THEN host ELSE PeerSend(f[i - 1], i)]
  <2> HIDE DEF Good, m, n
  <2>1. \A i \in 0 .. n : i = 0 \/ i \in 1 .. n
    BY <1>0
  <2> QED BY <1>0, <1>4, <1>5, <2>1 DEF Iterates
<1>7. sent = [i \in 0 .. m |-> IF i = 0 THEN host ELSE PeerSend(sent[i - 1], i)]
  BY <1>6, Zenon DEF sent
<1>8. /\ MayCall("send")
      /\ host' = IF immediatly THEN Flush(sent[m]) ELSE sent[m]
      /\ UNCHANGED <<api, started, immediatly, pointer, event, calls, handed, sessions>>
  BY Zenon DEF Broadcast
<1> HIDE DEF sent, Good, m, n
<1>9. sent[0] \in Good
  BY <1>0, <1>1, <1>7
<1>10. \A i \in 1 .. n : sent[i - 1] \in Good => sent[i] \in Good
  <2> TAKE i \in 1 .. n
  <2>1. i \in 0 .. n /\ i # 0
    BY <1>0
  <2>2. sent[i] = PeerSend(sent[i - 1], i)
    BY <1>0, <1>7, <2>1
  <2> QED BY <1>2, <2>2
<1>11. \A i \in 0 .. n : sent[i] \in Good
  BY <1>0, <1>9, <1>10, LoopInvariant
<1>12. sent[m] \in KeptHosts(n, host)
  BY <1>0, <1>11 DEF Good
<1>13. Flush(sent[m]) \in KeptHosts(n, host)
  BY <1>0, <1>12, FlushedKeeps
<1>14. host' \in KeptHosts(NumPeers, host)
  BY <1>8, <1>12, <1>13 DEF n
<1> QED BY <1>8, <1>14, KeepingInv DEF MayCall

\* Process starts to serve the host; a client has a peer that was connected then.
LEMMA ProcessInv ==
    ASSUME WrappersInv, Process
    PROVE  WrappersInv'
<1>1. /\ MayCall("process")
      /\ api = "SECln" => pointer # NoPeer
      /\ Len(calls) + 2 <= MaxDepth
      /\ event' = NoEvent
      /\ calls' = calls \o <<"Process", "dispatch">>
      /\ UNCHANGED <<api, started, immediatly, host, pointer, handed, sessions>>
  BY DEF Process
<1>2. Resting(calls) /\ ~Serving(calls)
  <2>1. calls # <<>> => Last(calls) \in Callbacks /\ "process" \in CallbackCalls[Last(calls)]
    BY <1>1 DEF MayCall, InProgram
  <2>2. calls # <<>> => Last(calls) \in Reentered
    BY <2>1, CallbackAssumption, FrameKinds
  <2> QED BY <2>2, FrameKinds DEF Resting, Serving, Last
<1>3. /\ StackOK(calls') /\ Len(calls') = Len(calls) + 2 /\ Len(calls) \in Nat
      /\ calls'[Len(calls) + 1] = "Process" /\ calls'[Len(calls) + 2] = "dispatch"
  <2>1. StackOK(calls) /\ Len(calls) \in Nat
    BY DEF WrappersInv, Exact, StackOK
  <2>2. "Process" \in Callers /\ "Process" # "SECln_Connect"
    BY DEF Callers
  <2> QED BY <1>1, <1>2, <2>1, <2>2, StackPush
<1>4. Caller(calls') = "Process" /\ calls'[Len(calls')] = "dispatch" /\ calls' # <<>>
  BY <1>3, EmptySeq DEF Caller
<1>5. "dispatch" \in ServicePhases /\ "dispatch" \notin Callbacks
  BY FrameKinds
<1>6. EndTold(host', event', calls')
  BY <1>4, <1>5, FrameKinds DEF EndTold
<1>7. ClientExact(host', pointer', calls')
  <2>1. SUFFICES ASSUME api = "SECln" PROVE ClientExact(host, pointer, calls')
    BY <1>1 DEF ClientExact
  <2>2. host.peers[1].state # New /\ (pointer = NoPeer <=> host.peers[1].state = DISCONNECTED)
    BY <1>2, <2>1 DEF WrappersInv, Exact, ClientExact
  <2>3. host.peers[1].state \in Up
    BY <1>1, <2>1, <2>2, InvHost, SlotsAre DEF State
  <2>4. pointer = 1
    BY <1>1, <2>1, SlotsAre DEF WrappersInv, Fields
  <2> QED BY <1>4, <1>5, <2>3, <2>4 DEF ClientExact, Serving
<1>8. Exact(host', handed', event', pointer', calls')
  BY <1>1, <1>3, <1>6, <1>7 DEF WrappersInv, Exact
<1>9. NoEvent \in Events
  BY DEF NoEvent, Events
<1>10. started /\ Len(calls') <= MaxDepth
  BY <1>1, <1>3 DEF MayCall
<1> QED BY <1>1, <1>8, <1>9, <1>10, InvNext DEF WrappersInv, Fields

\* SECln_Connect asks for a connection and starts to serve the host.
LEMMA ConnectOneInv ==
    ASSUME Careful, WrappersInv, NEW s \in Slots, ConnectOne(s)
    PROVE  WrappersInv'
<1>1. /\ api = "SECln" /\ MayCall("connect") /\ State(s) = DISCONNECTED
      /\ sessions < MaxSessions /\ sessions' = sessions + 1
      /\ Len(calls) + 2 <= MaxDepth
      /\ host' = [host EXCEPT !.peers[s].state = CONNECTING]
      /\ pointer' = s
      /\ event' = NoEvent
      /\ calls' = calls \o <<"SECln_Connect", "dispatch">>
      /\ UNCHANGED <<api, started, immediatly, handed>>
  BY DEF ConnectOne, IsFirstFree
<1>2. Resting(calls)
  <2>1. calls # <<>> => Last(calls) \in Callbacks /\ "connect" \in CallbackCalls[Last(calls)]
    BY <1>1 DEF MayCall, InProgram
  <2>2. calls # <<>> => Last(calls) \in Reentered
    BY <2>1, FrameKinds DEF Careful
  <2> QED BY <2>2 DEF Resting, Last
<1>3. /\ StackOK(calls') /\ Len(calls') = Len(calls) + 2 /\ Len(calls) \in Nat
      /\ calls'[Len(calls) + 1] = "SECln_Connect" /\ calls'[Len(calls) + 2] = "dispatch"
  <2>1. StackOK(calls) /\ Len(calls) \in Nat
    BY DEF WrappersInv, Exact, StackOK
  <2>2. "SECln_Connect" \in Callers
    BY DEF Callers
  <2> QED BY <1>1, <1>2, <2>1, <2>2, StackPush
<1>4. Caller(calls') = "SECln_Connect" /\ calls'[Len(calls')] = "dispatch" /\ calls' # <<>>
  BY <1>3, EmptySeq DEF Caller
<1>5. "dispatch" \in ServicePhases /\ "dispatch" # "on_disconnect"
  BY FrameKinds
<1>6. EndTold(host', event', calls')
  BY <1>4, <1>5 DEF EndTold
<1>7. /\ HostOK(NumPeers, host')
      /\ \A t \in Slots \ {s} : Kept(host, host', t)
      /\ host'.peers[s].state = CONNECTING
  <2>1. host.peers[s].state = DISCONNECTED /\ CONNECTING \in {CONNECTING, ACKNOWLEDGING_CONNECT}
    BY <1>1 DEF State
  <2> QED BY <1>1, <2>1, InvHost, TakenSlot
<1>8. New = CONNECTING /\ CONNECTING \notin Held /\ s = 1
  BY <1>1, NewState, SlotsAre DEF New, Held
<1>9. HandedExact(host', handed')
  <2>1. HandedExact(host, handed) /\ s \notin handed
    BY <1>1, NewState DEF WrappersInv, Exact, HandedExact, State
  <2>2. HandedExact(host', handed \ {s})
    BY <1>7, <1>8, <2>1, HandedOne
  <2>3. handed' = handed \ {s}
    BY <1>1, <2>1
  <2> QED BY <2>2, <2>3
<1>10. ClientExact(host', pointer', calls')
  BY <1>1, <1>4, <1>5, <1>7, <1>8 DEF ClientExact, Serving
<1>11. Exact(host', handed', event', pointer', calls')
  BY <1>3, <1>6, <1>7, <1>9, <1>10 DEF Exact
<1>12. /\ NoEvent \in Events /\ started /\ Len(calls') <= MaxDepth
       /\ sessions' \in 0 .. MaxSessions
  <2>1. NoEvent \in Events
    BY DEF NoEvent, Events
  <2>2. started /\ Len(calls') <= MaxDepth
    BY <1>1, <1>3 DEF MayCall
  <2>3. sessions' \in 0 .. MaxSessions
    BY <1>1, BoundAssumption DEF WrappersInv, Fields
  <2> QED BY <2>1, <2>2, <2>3
<1> QED BY <1>1, <1>11, <1>12, InvNext DEF WrappersInv, Fields

-----------------------------------------------------------------------------
(* The phases of a service call.                                              *)

\* A step of a service call that raises no event.
LEMMA ServiceInv ==
    ASSUME WrappersInv, Serving(calls),
           UNCHANGED <<api, started, immediatly, pointer, event, calls>>,
           sessions' \in 0 .. MaxSessions,
           HostOK(NumPeers, host'), HandedExact(host', handed'),
           api = "SECln" => \/ Kept(host, host', 1)
                            \/ State(1) = New /\ host'.peers[1].state = DISCONNECTED
    PROVE  WrappersInv'
<1>1. Exact(host, handed, event, pointer, calls) /\ started
  BY DEF WrappersInv, Idle, Serving
<1>2. EndTold(host', event', calls) /\ ClientExact(host', pointer, calls)
  BY <1>1, ServingKeeps DEF State
<1>3. Exact(host', handed', event', pointer', calls')
  BY <1>1, <1>2 DEF Exact
<1> QED BY <1>1, <1>3, InvNext DEF WrappersInv, Fields

\* One that keeps every peer.
LEMMA ServiceKeepsInv ==
    ASSUME WrappersInv, Serving(calls),
           UNCHANGED <<api, started, immediatly, pointer, event, calls, handed, sessions>>,
           host' \in KeptHosts(NumPeers, host)
    PROVE  WrappersInv'
<1>1. HostOK(NumPeers, host') /\ \A s \in Slots : Kept(host, host', s)
  BY InvHost DEF KeptHosts
<1>2. HandedExact(host', handed')
  <2>1. HandedExact(host, handed)
    BY DEF WrappersInv, Exact
  <2> QED BY <1>1, <2>1, HandedKept
<1>3. Kept(host, host', 1) /\ sessions' \in 0 .. MaxSessions
  BY <1>1, SlotsAre DEF WrappersInv, Fields
<1> QED BY <1>1, <1>2, <1>3, ServiceInv

\* What CallbacksFit says of a step.
FitStep ==
    /\ Entered("on_connect") => (event'.slot \in handed <=> api = "SECln2")
    /\ Entered("on_recv") \/ Entered("on_disconnect") => event'.slot \in handed

\* A step that enters no callback.
LEMMA NotEntered ==
    ASSUME calls' = calls \/ Len(calls') # Len(calls) \/ ~Serving(calls)
           \/ (calls' # <<>> /\ calls'[Len(calls')] \notin Callbacks)
    PROVE  FitStep
<1>1. SUFFICES ASSUME NEW callback \in Callbacks PROVE ~Entered(callback)
  BY FrameKinds DEF FitStep
<1>2. callback \notin ServicePhases
  BY FrameKinds
<1>3. Serving(calls) => Len(calls') # Len(calls) \/ calls' = calls \/ calls'[Len(calls')] \notin Callbacks
  OBVIOUS
<1> QED BY <1>2, <1>3 DEF Entered, Serving, Last

\* An event of slot s raised for SECln_Connect: its peer is connected, or given up.
LEMMA RaiseConnect ==
    ASSUME WrappersInv, Serving(calls), Caller(calls) = "SECln_Connect",
           NEW H, HostOK(NumPeers, H), NEW s \in Slots,
           NEW type \in {"connect", "receive", "disconnect"}, Raise(H, type, s),
           UNCHANGED <<api, started, immediatly, sessions>>,
           type = "connect" => H.peers[s].state \in Up
    PROVE  WrappersInv' /\ FitStep
<1>1. StackOK(calls) /\ calls # <<>>
  BY DEF WrappersInv, Exact, Serving
<1>3. /\ Last(Front(calls)) = "SECln_Connect" /\ "dispatch" \in Callbacks \cup ServicePhases
  <2>1. "dispatch" \in ServicePhases
    BY FrameKinds
  <2> QED BY <1>1, <2>1, StackReplace DEF Caller
<1>4. api = "SECln" /\ s = 1 /\ 1 \in Slots /\ NoPeer \notin Slots
  BY <1>1, StackTop, SlotsAre DEF Caller
<1>5. pointer = 1 /\ State(1) \in {DISCONNECTED, New} /\ HandedExact(host, handed)
  BY <1>4 DEF WrappersInv, Exact, ClientExact, State
<1>6. 1 \notin handed
  BY <1>4, <1>5, NewState DEF HandedExact, Held, State
<1>7. /\ StackOK(Front(Front(calls))) /\ Len(Front(Front(calls))) = Len(calls) - 2
      /\ Resting(Front(Front(calls))) /\ Len(calls) \in Nat
  BY <1>1, StackPop, StackTop
<1>8. calls' = Front(Front(calls)) /\ event' = [type |-> type, slot |-> s]
  BY <1>3 DEF Raise
<1>9. ~Serving(calls') /\ Resting(calls') /\ StackOK(calls')
      /\ EndTold(host', event', calls')
  BY <1>7, <1>8, FrameKinds DEF Resting, Serving, EndTold
<1>10. ASSUME type = "connect"
       PROVE  /\ Exact(host', handed', event', pointer', calls')
              /\ pointer' \in Slots \cup {NoPeer}
  <2>1. host' = H /\ handed' = handed \cup {s} /\ pointer' = pointer
    BY <1>3, <1>4, <1>5, <1>10 DEF Raise
  <2>2. H.peers[1].state \in Up
    BY <1>4, <1>10
  <2>3. \A t \in Slots \ {1} : Kept(host, H, t)
    BY <1>4, SlotsAre
  <2>4. HandedExact(host', handed')
    <3>1. H.peers[1].state \in Held
      BY <2>2 DEF Held
    <3> QED BY <1>4, <1>5, <2>1, <2>2, <2>3, <3>1, HandedOne
  <2>5. ClientExact(host', pointer', calls')
    BY <1>4, <1>5, <1>9, <2>1, <2>2, NewState DEF ClientExact
  <2>6. Exact(host', handed', event', pointer', calls') /\ pointer' \in Slots \cup {NoPeer}
    BY <1>4, <1>5, <1>9, <2>1, <2>4, <2>5 DEF Exact
  <2> QED BY <2>6
<1>11. ASSUME type # "connect"
       PROVE  /\ Exact(host', handed', event', pointer', calls')
              /\ pointer' \in Slots \cup {NoPeer}
  <2>1. host' = Reset(H, 1) /\ handed' = handed /\ pointer' = NoPeer
    BY <1>3, <1>5, <1>11 DEF Raise, Failed
  <2>2. HostOK(NumPeers, host') /\ host'.peers[1].state = DISCONNECTED
    BY <1>4, <2>1, SlotsAre, ResetEnds
  <2>3. HandedExact(host', handed')
    <3>1. \A t \in Slots \ {1} : Kept(host, host', t)
      BY <1>4, SlotsAre
    <3>2. HandedExact(host', handed \ {1})
      BY <1>4, <1>5, <2>2, <3>1, NewState, HandedOne
    <3> QED BY <1>6, <2>1, <3>2
  <2>4. ClientExact(host', pointer', calls')
    BY <1>9, <2>1, <2>2, NewState DEF ClientExact
  <2>5. Exact(host', handed', event', pointer', calls') /\ pointer' \in Slots \cup {NoPeer}
    BY <1>9, <2>1, <2>2, <2>3, <2>4 DEF Exact
  <2> QED BY <2>5
<1>12. Exact(host', handed', event', pointer', calls') /\ pointer' \in Slots \cup {NoPeer}
  BY <1>10, <1>11
<1>13. event' \in Events
  BY <1>8 DEF Events
<1>14. started /\ Len(calls') <= MaxDepth /\ Len(calls') # Len(calls)
  BY <1>1, <1>7, <1>8, BoundAssumption DEF WrappersInv, Idle, Fields
<1>15. WrappersInv'
  BY <1>12, <1>13, <1>14, InvNext DEF WrappersInv, Fields
<1> QED BY <1>14, <1>15, NotEntered

\* An event of slot s raised for Process: a callback is told.
LEMMA RaiseProcess ==
    ASSUME WrappersInv, Serving(calls), Caller(calls) = "Process",
           NEW H, HostOK(NumPeers, H), NEW s \in Slots,
           NEW type \in {"connect", "receive", "disconnect"}, Raise(H, type, s),
           UNCHANGED <<api, started, immediatly, sessions>>,
           \A t \in Slots \ {s} : Kept(host, H, t),
           type = "connect" => State(s) = New /\ H.peers[s].state \in Up,
           type = "receive" => State(s) \in Up /\ H.peers[s].state \in Up,
           type = "disconnect" => /\ H.peers[s].state = DISCONNECTED
                                  /\ State(s) \in Held \/ (api = "SECln" /\ State(s) = New)
    PROVE  WrappersInv' /\ FitStep
<1> DEFINE cb == CallbackOf(type)
<1>1. StackOK(calls) /\ calls # <<>> /\ HandedExact(host, handed)
  BY DEF WrappersInv, Exact, Serving
<1>2. /\ cb \in Callbacks
      /\ cb = "on_connect" <=> type = "connect"
      /\ cb = "on_disconnect" <=> type = "disconnect"
  BY DEF CallbackOf, Callbacks
<1> HIDE DEF cb
<1>3. "Process" # "SECln_Connect" /\ Last(Front(calls)) = "Process"
  BY <1>1, <1>2, StackReplace DEF Caller
<1>4. ASSUME api = "SECln"
      PROVE  s = 1 /\ pointer = 1 /\ State(1) \in Up /\ State(1) # New
  BY <1>4, SlotsAre, NewState DEF WrappersInv, Exact, ClientExact, State
<1>5. HasCallback(type)
  BY <1>4 DEF HasCallback
<1>6. /\ host' = H /\ pointer' = pointer /\ event' = [type |-> type, slot |-> s]
      /\ calls' = Append(Front(calls), cb)
      /\ type = "connect" => handed' = handed \cup {s}
      /\ type = "receive" => handed' = handed
      /\ type = "disconnect" => handed' = handed \ {s}
  BY <1>3, <1>5 DEF Raise, cb
<1>7. /\ StackOK(calls') /\ Len(calls') = Len(calls) /\ calls'[Len(calls')] = cb
      /\ calls' # <<>> /\ Len(calls) \in Nat
  <2>1. /\ StackOK(calls') /\ Len(calls') = Len(calls) /\ calls'[Len(calls)] = cb
    BY <1>1, <1>2, <1>3, <1>6, StackReplace DEF Caller
  <2>2. Len(calls) \in Nat /\ Len(calls) >= 2
    BY <1>1, StackTop
  <2> QED BY <2>1, <2>2, EmptySeq
<1>8. ~Serving(calls')
  BY <1>2, <1>7, FrameKinds DEF Serving
<1>9. Resting(calls') => type # "disconnect"
  BY <1>2, <1>7, FrameKinds DEF Resting
<1>10. EndTold(host', event', calls')
  BY <1>2, <1>6, <1>7 DEF EndTold
<1>11. ClientExact(host', pointer', calls')
  BY <1>4, <1>6, <1>8, <1>9, SlotsAre, NewState DEF ClientExact
<1>12. HandedExact(host', handed')
  <2>1. CASE type = "connect"
    <3>1. H.peers[s].state \in Held /\ H.peers[s].state \in Up
      BY <2>1 DEF Held
    <3>2. HandedExact(H, handed \cup {s})
      BY <1>1, <3>1, HandedOne
    <3> QED BY <1>6, <2>1, <3>2
  <2>2. CASE type = "receive"
    <3>1. \A t \in Slots : Kept(host, H, t)
      BY <2>2 DEF Kept, State
    <3> QED BY <1>1, <1>6, <2>2, <3>1, HandedKept
  <2>3. CASE type = "disconnect"
    <3>1. H.peers[s].state \notin Held /\ H.peers[s].state = DISCONNECTED
      BY <2>3, NewState
    <3>2. HandedExact(H, handed \ {s})
      BY <1>1, <3>1, HandedOne
    <3> QED BY <1>6, <2>3, <3>2
  <2> QED BY <2>1, <2>2, <2>3
<1>13. Exact(host', handed', event', pointer', calls')
  BY <1>6, <1>7, <1>10, <1>11, <1>12 DEF Exact
<1>14. event' \in Events /\ started /\ Len(calls') <= MaxDepth
  BY <1>1, <1>6, <1>7 DEF Events, WrappersInv, Idle, Fields
<1>15. WrappersInv'
  BY <1>6, <1>13, <1>14, InvNext DEF WrappersInv, Fields
<1>16. event'.slot = s /\ (s \in handed <=> State(s) \in Held)
  BY <1>1, <1>6 DEF HandedExact, State
<1>17. New \in Held <=> api = "SECln2"
  BY NewState DEF Held
<1>18. ASSUME Entered("on_connect") PROVE event'.slot \in handed <=> api = "SECln2"
  <2>1. type = "connect"
    BY <1>2, <1>7, <1>18 DEF Entered, Last
  <2> QED BY <1>16, <1>17, <2>1
<1>19. ASSUME Entered("on_recv") \/ Entered("on_disconnect") PROVE event'.slot \in handed
  <2>1. type # "connect"
    BY <1>2, <1>7, <1>19 DEF Entered, Last
  <2>2. State(s) \in Held
    BY <1>4, <2>1 DEF Held
  <2> QED BY <1>16, <2>2
<1> QED BY <1>15, <1>18, <1>19 DEF FitStep

\* An event of slot s.
LEMMA RaiseInv ==
    ASSUME WrappersInv, Serving(calls),
           NEW H, HostOK(NumPeers, H), NEW s \in Slots,
           NEW type \in {"connect", "receive", "disconnect"}, Raise(H, type, s),
           UNCHANGED <<api, started, immediatly, sessions>>,
           \A t \in Slots \ {s} : Kept(host, H, t),
           type = "connect" => State(s) = New /\ H.peers[s].state \in Up,
           type = "receive" => State(s) \in Up /\ H.peers[s].state \in Up,
           type = "disconnect" => /\ H.peers[s].state = DISCONNECTED
                                  /\ State(s) \in Held \/ (api = "SECln" /\ State(s) = New)
    PROVE  WrappersInv' /\ FitStep
<1>1. Caller(calls) \in Callers
  BY StackTop DEF WrappersInv, Exact, Serving, Caller
<1>2. CASE Caller(calls) = "SECln_Connect"
  BY <1>2, RaiseConnect
<1>3. CASE Caller(calls) = "Process"
  BY <1>3, RaiseProcess
<1> QED BY <1>1, <1>2, <1>3 DEF Callers

\* The service call goes to its next phase.
LEMMA NextPhaseInv ==
    ASSUME WrappersInv, NextPhase
    PROVE  WrappersInv' /\ FitStep
<1>1. PICK phase \in ServicePhases : GoTo(phase)
  BY FrameKinds DEF NextPhase
<1>2. /\ host' = host \/ host' = Flush(host)
      /\ UNCHANGED <<api, started, immediatly, pointer, event, handed, sessions>>
      /\ Serving(calls)
  BY FrameKinds DEF NextPhase, At, Serving, Last
<1>3. StackOK(calls) /\ calls # <<>> /\ HandedExact(host, handed) /\ started
  BY <1>2 DEF WrappersInv, Exact, Serving, Idle
<1>4. /\ StackOK(calls') /\ Len(calls') = Len(calls) /\ calls'[Len(calls)] = phase
      /\ calls'[Len(calls) - 1] = calls[Len(calls) - 1] /\ calls' # <<>>
  <2>1. /\ StackOK(Append(Front(calls), phase))
        /\ Len(Append(Front(calls), phase)) = Len(calls)
        /\ Append(Front(calls), phase)[Len(calls)] = phase
        /\ Append(Front(calls), phase)[Len(calls) - 1] = calls[Len(calls) - 1]
    BY <1>3, StackReplace
  <2>2. Len(calls) \in Nat /\ Len(calls) >= 2
    BY <1>3, StackTop
  <2>3. calls' = Append(Front(calls), phase)
    BY <1>1 DEF GoTo
  <2> QED BY <2>1, <2>2, <2>3, EmptySeq
<1>5. Serving(calls') /\ Caller(calls') = Caller(calls) /\ phase \notin Callbacks
  BY <1>4, FrameKinds DEF Serving, Caller
<1>6. HostOK(NumPeers, host') /\ \A s \in Slots : Kept(host, host', s)
  <2>1. HostOK(NumPeers, Flush(host)) /\ \A s \in Slots : Kept(host, Flush(host), s)
    BY InvHost, WholeFlushKeeps DEF KeptHosts
  <2> QED BY <1>2, <2>1, InvHost DEF Kept
<1>7. HandedExact(host', handed')
  BY <1>2, <1>3, <1>6, HandedKept
<1>8. EndTold(host', event', calls')
  BY <1>5, FrameKinds DEF EndTold, Serving
<1>9. ClientExact(host', pointer', calls')
  <2>1. SUFFICES ASSUME api = "SECln" PROVE ClientExact(host', pointer', calls')
    BY DEF ClientExact
  <2>2. Kept(host, host', 1) /\ pointer' = pointer
    BY <1>2, <1>6, SlotsAre
  <2>3. /\ pointer = 1
        /\ Caller(calls) = "SECln_Connect" => host.peers[1].state \in {DISCONNECTED, New}
        /\ Caller(calls) = "Process" => host.peers[1].state \in Up
    BY <1>2, <2>1 DEF WrappersInv, Exact, ClientExact
  <2>4. /\ Caller(calls) = "SECln_Connect" => host'.peers[1].state \in {DISCONNECTED, New}
        /\ Caller(calls) = "Process" => host'.peers[1].state \in Up
    BY <2>2, <2>3, NewState DEF Kept
  <2> QED BY <1>5, <2>2, <2>3, <2>4 DEF ClientExact
<1>10. Exact(host', handed', event', pointer', calls')
  BY <1>4, <1>6, <1>7, <1>8, <1>9 DEF Exact
<1>11. WrappersInv'
  BY <1>2, <1>3, <1>4, <1>10, InvNext DEF WrappersInv, Fields
<1>12. calls'[Len(calls')] \notin Callbacks
  BY <1>4, <1>5
<1> QED BY <1>4, <1>11, <1>12, NotEntered

\* No event came: SECln_Connect gives its request up.
LEMMA ReturnNoneInv ==
    ASSUME WrappersInv, ReturnNone
    PROVE  WrappersInv' /\ FitStep
<1>1. /\ Serving(calls) /\ calls' = Front(Front(calls))
      /\ UNCHANGED <<api, started, immediatly, event, handed, sessions>>
  BY FrameKinds DEF ReturnNone, At, Serving, Last
<1>2. StackOK(calls) /\ calls # <<>> /\ HandedExact(host, handed) /\ started
  BY <1>1 DEF WrappersInv, Exact, Serving, Idle
<1>3. /\ StackOK(calls') /\ Len(calls') = Len(calls) - 2 /\ Resting(calls')
      /\ Len(calls) \in Nat
  BY <1>1, <1>2, StackPop, StackTop
<1>4. ~Serving(calls') /\ EndTold(host', event', calls')
  BY <1>3, FrameKinds DEF Resting, Serving, EndTold
<1>5. Last(Front(calls)) = Caller(calls) /\ Caller(calls) \in Callers
  <2>1. "send" \in ServicePhases
    BY FrameKinds
  <2> QED BY <1>2, <2>1, StackReplace, StackTop DEF Caller
<1>6. ASSUME Caller(calls) = "SECln_Connect"
      PROVE  /\ HostOK(NumPeers, host') /\ HandedExact(host', handed')
             /\ ClientExact(host', pointer', calls')
             /\ pointer' \in Slots \cup {NoPeer}
  <2>1. api = "SECln" /\ 1 \in Slots /\ \A s \in Slots : s = 1
    BY <1>2, <1>6, StackTop, SlotsAre DEF Caller
  <2>2. pointer = 1 /\ State(1) \in {DISCONNECTED, New}
    BY <1>1, <1>6, <2>1 DEF WrappersInv, Exact, ClientExact, State
  <2>3. 1 \notin handed
    BY <1>2, <2>1, <2>2, NewState DEF HandedExact, Held, State
  <2>4. host' = Reset(host, 1) /\ pointer' = NoPeer
    BY <1>5, <1>6, <2>2 DEF ReturnNone, Failed
  <2>5. HostOK(NumPeers, host') /\ host'.peers[1].state = DISCONNECTED
    BY <2>1, <2>4, InvHost, ResetEnds
  <2>6. HandedExact(host', handed')
    <3>1. \A t \in Slots \ {1} : Kept(host, host', t)
      BY <2>1
    <3>2. HandedExact(host', handed \ {1})
      BY <1>2, <2>1, <2>5, <3>1, NewState, HandedOne
    <3> QED BY <1>1, <2>3, <3>2
  <2> QED BY <1>4, <2>4, <2>5, <2>6, NewState DEF ClientExact
<1>7. ASSUME Caller(calls) = "Process"
      PROVE  /\ HostOK(NumPeers, host') /\ HandedExact(host', handed')
             /\ ClientExact(host', pointer', calls')
             /\ pointer' \in Slots \cup {NoPeer}
  <2>1. "Process" # "SECln_Connect"
    OBVIOUS
  <2>2. host' = host /\ pointer' = pointer /\ handed' = handed
    BY <1>1, <1>5, <1>7, <2>1 DEF ReturnNone
  <2>3. api = "SECln" => pointer = 1 /\ host.peers[1].state \in Up
    BY <1>1, <1>7 DEF WrappersInv, Exact, ClientExact
  <2>4. ClientExact(host, pointer, calls')
    BY <1>4, <2>3, SlotsAre, NewState DEF ClientExact
  <2> QED BY <1>2, <2>2, <2>4, InvHost DEF WrappersInv, Fields
<1>8. Exact(host', handed', event', pointer', calls') /\ pointer' \in Slots \cup {NoPeer}
  BY <1>3, <1>4, <1>5, <1>6, <1>7 DEF Exact, Callers
<1>9. Len(calls') <= MaxDepth /\ Len(calls') # Len(calls)
  BY <1>3, BoundAssumption DEF WrappersInv, Fields
<1>10. WrappersInv'
  BY <1>1, <1>2, <1>8, <1>9, InvNext DEF WrappersInv, Fields
<1> QED BY <1>9, <1>10, NotEntered

\* A callback returns: the peer whose end it was told is free already, and stays so.
LEMMA ReturnInv ==
    ASSUME WrappersInv, Return
    PROVE  WrappersInv' /\ FitStep
<1>1. /\ calls # <<>> /\ calls[Len(calls)] \in Callbacks /\ calls' = Front(Front(calls))
      /\ UNCHANGED <<api, started, immediatly, event, handed, sessions>>
      /\ host' = IF At("on_disconnect") /\ api # "SECln" THEN Reset(host, event.slot) ELSE host
      /\ pointer' = IF At("on_disconnect") THEN NoPeer ELSE pointer
  BY DEF Return, Last
<1>2. StackOK(calls) /\ HandedExact(host, handed) /\ started /\ ~Serving(calls)
  BY <1>1, FrameKinds DEF WrappersInv, Exact, Serving, Idle
<1>3. /\ StackOK(calls') /\ Len(calls') = Len(calls) - 2 /\ Resting(calls')
      /\ Len(calls) \in Nat
  BY <1>1, <1>2, StackPop, StackTop
<1>4. ~Serving(calls') /\ EndTold(host', event', calls')
  BY <1>3, FrameKinds DEF Resting, Serving, EndTold
<1>5. At("on_disconnect") => event.slot \in Slots /\ State(event.slot) = DISCONNECTED
  BY DEF WrappersInv, Exact, EndTold, At, Last, State
<1>6. HostOK(NumPeers, host') /\ \A s \in Slots : Kept(host, host', s)
  <2>1. CASE At("on_disconnect") /\ api # "SECln"
    <3> DEFINE s == event.slot
    <3>1. s \in 1 .. NumPeers /\ State(s) = DISCONNECTED /\ host' = Reset(host, s)
      BY <1>1, <1>5, <2>1, InvHost
    <3> HIDE DEF s
    <3>2. /\ HostOK(NumPeers, Reset(host, s))
          /\ \A t \in 1 .. NumPeers \ {s} : Kept(host, Reset(host, s), t)
          /\ Reset(host, s).peers[s].state = DISCONNECTED
      BY <3>1, InvHost, ResetEnds
    <3> QED BY <3>1, <3>2, InvHost DEF Kept, State
  <2>2. CASE ~(At("on_disconnect") /\ api # "SECln")
    BY <1>1, <2>2, InvHost DEF Kept
  <2> QED BY <2>1, <2>2
<1>7. HandedExact(host', handed')
  BY <1>1, <1>2, <1>6, HandedKept
<1>8. ClientExact(host', pointer', calls')
  <2>1. SUFFICES ASSUME api = "SECln" PROVE ClientExact(host', pointer', calls')
    BY DEF ClientExact
  <2>2. host' = host /\ host.peers[1].state # New
    BY <1>1, <1>2, <2>1 DEF WrappersInv, Exact, ClientExact
  <2>3. CASE At("on_disconnect")
    <3>1. host.peers[1].state = DISCONNECTED /\ pointer' = NoPeer
      BY <1>1, <1>5, <2>1, <2>3, SlotsAre DEF State
    <3> QED BY <1>4, <2>2, <3>1 DEF ClientExact
  <2>4. CASE ~At("on_disconnect")
    <3>1. Resting(calls)
      BY <1>1, <2>4, FrameKinds DEF Resting, At, Last
    <3>2. pointer' = pointer /\ (pointer = NoPeer <=> host.peers[1].state = DISCONNECTED)
      BY <1>1, <1>2, <2>1, <2>4, <3>1 DEF WrappersInv, Exact, ClientExact
    <3> QED BY <1>4, <2>2, <3>2 DEF ClientExact
  <2> QED BY <2>3, <2>4
<1>9. Exact(host', handed', event', pointer', calls')
  BY <1>3, <1>4, <1>6, <1>7, <1>8 DEF Exact
<1>10. Len(calls') <= MaxDepth /\ Len(calls') # Len(calls)
  BY <1>3, BoundAssumption DEF WrappersInv, Fields
<1>11. pointer' \in Slots \cup {NoPeer}
  BY <1>1 DEF WrappersInv, Fields
<1>12. WrappersInv'
  BY <1>1, <1>2, <1>9, <1>10, <1>11, InvNext DEF WrappersInv, Fields
<1> QED BY <1>10, <1>12, NotEntered

\* The peer at the head of the dispatch queue: its end, its packet, or nothing.
LEMMA DispatchInv ==
    ASSUME WrappersInv, Dispatch
    PROVE  WrappersInv' /\ FitStep
<1> DEFINE s == Head(host.dispatchQueue)
           H == Popped(host)
           taken == [H EXCEPT !.peers[s].dispatched = Tail(@)]
           more == taken.peers[s].dispatched # <<>>
           left == IF more THEN EnterDispatchQueue(taken, s) ELSE taken
<1>1. Serving(calls) /\ host.dispatchQueue # <<>>
      /\ UNCHANGED <<api, started, immediatly, sessions>>
  BY FrameKinds DEF Dispatch, At, Serving, Last
<1>2. \/ State(s) = ZOMBIE /\ Raise(Reset(H, s), "disconnect", s)
      \/ /\ State(s) = CONNECTED /\ host.peers[s].dispatched # <<>>
         /\ Raise(left, "receive", s)
      \/ host' = H /\ UNCHANGED <<pointer, event, calls, handed>>
  BY DEF Dispatch
<1>3. /\ s \in Slots /\ H \in KeptHosts(NumPeers, host)
      /\ H.peers[s].state = State(s) /\ H.peers[s].dispatched = host.peers[s].dispatched
  BY <1>1, InvHost, PoppedKeeps DEF State
<1> HIDE DEF s, H
<1>4. HostOK(NumPeers, H) /\ \A t \in Slots : Kept(host, H, t)
  BY <1>3, InvHost DEF KeptHosts
<1>5. CASE State(s) = ZOMBIE /\ Raise(Reset(H, s), "disconnect", s)
  <2> DEFINE G == Reset(H, s)
  <2>1. /\ HostOK(NumPeers, G) /\ G.peers[s].state = DISCONNECTED
        /\ \A t \in Slots \ {s} : Kept(H, G, t)
    BY <1>3, <1>4, InvHost, ResetEnds
  <2> HIDE DEF G
  <2>2. \A t \in Slots \ {s} : Kept(host, G, t)
    BY <1>4, <2>1, KeptTwice
  <2>3. State(s) \in Held
    BY <1>5, UpStates DEF Held
  <2>4. Raise(G, "disconnect", s)
    BY <1>5 DEF G
  <2> QED BY <1>1, <1>3, <2>1, <2>2, <2>3, <2>4, RaiseInv
<1>6. CASE /\ State(s) = CONNECTED /\ host.peers[s].dispatched # <<>>
           /\ Raise(left, "receive", s)
  <2>1. /\ taken \in KeptHosts(NumPeers, H)
        /\ taken.peers[s].state = H.peers[s].state
    <3>1. H.peers[s].dispatched # <<>> /\ s \in 1 .. NumPeers /\ NumPeers \in Nat
      BY <1>3, <1>6, InvHost
    <3> QED BY <1>4, <3>1, TakenKeeps
  <2> HIDE DEF taken
  <2>2. HostOK(NumPeers, taken) /\ \A t \in Slots : Kept(H, taken, t)
    BY <2>1, InvHost DEF KeptHosts
  <2>3. /\ EnterDispatchQueue(taken, s) \in KeptHosts(NumPeers, taken)
        /\ EnterDispatchQueue(taken, s).peers[s].state = taken.peers[s].state
    BY <1>3, <2>2, InvHost, EnterKeeps
  <2>4. /\ HostOK(NumPeers, left) /\ left.peers[s].state = State(s)
        /\ \A t \in Slots : Kept(taken, left, t)
    BY <1>3, <2>1, <2>2, <2>3, InvHost DEF KeptHosts, Kept
  <2> HIDE DEF left
  <2>5. \A t \in Slots : Kept(host, left, t)
    <3> TAKE t \in Slots
    <3>1. Kept(host, H, t) /\ Kept(H, taken, t) /\ Kept(taken, left, t)
      BY <1>4, <2>2, <2>4
    <3> QED BY <3>1, KeptTwice
  <2>6. State(s) \in Up
    BY <1>6, UpStates
  <2> QED BY <1>1, <1>3, <1>6, <2>4, <2>5, <2>6, RaiseInv
<1>7. CASE host' = H /\ UNCHANGED <<pointer, event, calls, handed>>
  <2>1. WrappersInv'
    BY <1>1, <1>3, <1>7, ServiceKeepsInv
  <2> QED BY <1>7, <2>1, NotEntered
<1> QED BY <1>2, <1>5, <1>6, <1>7

\* A peer that stays unacknowledged is given up, in silence if the program does not
\* know it.
LEMMA GiveUpInv ==
    ASSUME WrappersInv, NEW s \in Slots, GiveUp(s)
    PROVE  WrappersInv' /\ FitStep
<1> DEFINE H == FlushTo(host, s)
           G == Reset(H, s)
<1>1. /\ Serving(calls) /\ Waiting(host.peers[s])
      /\ UNCHANGED <<api, started, immediatly, sessions>>
  BY FrameKinds DEF GiveUp, At, Serving, Last
<1>2. NotifyDisconnect(H, s, TRUE) = G
  BY DEF NotifyDisconnect
<1>3. IF LostSilently(host.peers[s])
      THEN host' = G /\ UNCHANGED <<pointer, event, calls, handed>>
      ELSE Raise(G, "disconnect", s)
  BY <1>2 DEF GiveUp
<1>4. s \in 0 .. NumPeers /\ s \in 1 .. NumPeers
  BY InvHost
<1>5. HostOK(NumPeers, H) /\ \A t \in Slots : Kept(host, H, t)
  BY <1>4, InvHost, FlushKeeps DEF KeptHosts
<1> HIDE DEF H
<1>6. /\ HostOK(NumPeers, G) /\ G.peers[s].state = DISCONNECTED
      /\ \A t \in Slots \ {s} : Kept(H, G, t)
  BY <1>4, <1>5, InvHost, ResetEnds
<1> HIDE DEF G
<1>7. \A t \in Slots \ {s} : Kept(host, G, t)
  BY <1>5, <1>6, KeptTwice
<1>8. State(s) \in Up \cup {New}
  BY <1>1, InvHost, UpStates, OtherStates DEF Waiting, State
<1>9. CASE LostSilently(host.peers[s])
  <2>1. State(s) = ACKNOWLEDGING_CONNECT /\ State(s) = New
    <3>1. State(s) \in {ACKNOWLEDGING_CONNECT}
      BY <1>1, <1>9 DEF LostSilently, Waiting, State, Counted, CONNECTING,
         ACKNOWLEDGING_CONNECT, CONNECTION_SUCCEEDED, CONNECTED, DISCONNECT_LATER, DISCONNECTING
    <3> QED BY <1>8, <3>1, OtherStates
  <2>2. api = "SESrv"
    BY <2>1, OtherStates DEF New
  <2>3. host' = G /\ UNCHANGED <<pointer, event, calls, handed>>
    BY <1>3, <1>9
  <2>4. HandedExact(host', handed')
    <3>1. HandedExact(host, handed) /\ s \notin handed
      BY <2>1, <2>2, NewState DEF WrappersInv, Exact, HandedExact, Held, State
    <3>2. HandedExact(G, handed \ {s})
      BY <1>6, <1>7, <3>1, NewState, HandedOne
    <3> QED BY <2>3, <3>1, <3>2
  <2>5. sessions' \in 0 .. MaxSessions /\ HostOK(NumPeers, host')
    BY <1>1, <1>6, <2>3 DEF WrappersInv, Fields
  <2>6. WrappersInv'
    BY <1>1, <2>2, <2>3, <2>4, <2>5, ServiceInv
  <2> QED BY <2>3, <2>6, NotEntered
<1>10. CASE ~LostSilently(host.peers[s])
  <2>1. Raise(G, "disconnect", s)
    BY <1>3, <1>10
  <2>2. State(s) \in Held \/ (api = "SECln" /\ State(s) = New)
    <3>1. State(s) # ACKNOWLEDGING_CONNECT
      BY <1>10 DEF LostSilently, State, CONNECTING, ACKNOWLEDGING_CONNECT, CONNECTION_SUCCEEDED
    <3>2. State(s) = New => api # "SESrv"
      BY <3>1 DEF New
    <3>3. api \in {"SESrv", "SECln", "SECln2"}
      BY ApisAssumption DEF WrappersInv, Fields
    <3> QED BY <1>8, <3>2, <3>3 DEF Held
  <2> QED BY <1>1, <1>6, <1>7, <2>1, <2>2, RaiseInv
<1> QED BY <1>9, <1>10

\* A server accepts a connection in a slot that was free.
LEMMA HandleConnectInv ==
    ASSUME WrappersInv, NEW s \in Slots, HandleConnect(s)
    PROVE  WrappersInv' /\ FitStep
<1>1. /\ Serving(calls) /\ api = "SESrv" /\ State(s) = DISCONNECTED
      /\ sessions < MaxSessions /\ sessions' = sessions + 1
      /\ host' = [host EXCEPT !.peers[s].state = ACKNOWLEDGING_CONNECT]
      /\ UNCHANGED <<api, started, immediatly, pointer, event, calls, handed>>
  BY FrameKinds DEF HandleConnect, At, Serving, Last, IsFirstFree
<1>2. /\ HostOK(NumPeers, host')
      /\ \A t \in Slots \ {s} : Kept(host, host', t)
      /\ host'.peers[s].state = ACKNOWLEDGING_CONNECT
  <2>1. /\ host.peers[s].state = DISCONNECTED
        /\ ACKNOWLEDGING_CONNECT \in {CONNECTING, ACKNOWLEDGING_CONNECT}
    BY <1>1 DEF State
  <2> QED BY <1>1, <2>1, InvHost, TakenSlot
<1>3. New = ACKNOWLEDGING_CONNECT /\ ACKNOWLEDGING_CONNECT \notin Held
  BY <1>1, OtherStates DEF New, Held
<1>4. HandedExact(host', handed')
  <2>1. HandedExact(host, handed) /\ s \notin handed
    BY <1>1, NewState DEF WrappersInv, Exact, HandedExact, State
  <2>2. HandedExact(host', handed \ {s})
    BY <1>2, <1>3, <2>1, HandedOne
  <2> QED BY <1>1, <2>1, <2>2
<1>5. sessions' \in 0 .. MaxSessions
  BY <1>1, BoundAssumption DEF WrappersInv, Fields
<1>6. WrappersInv'
  BY <1>1, <1>2, <1>4, <1>5, ServiceInv
<1> QED BY <1>1, <1>6, NotEntered

\* A DISCONNECT: a peer that was connected stays until its end is told.
LEMMA HandleDisconnectInv ==
    ASSUME WrappersInv, NEW s \in Slots, NEW acknowledged \in BOOLEAN,
           HandleDisconnect(s, acknowledged)
    PROVE  WrappersInv' /\ FitStep
<1> DEFINE H == AfterDisconnect(host, s, acknowledged)
<1>1. /\ Serving(calls) /\ State(s) # DISCONNECTED
      /\ host' = H
      /\ handed' = IF State(s) = CONNECTING THEN handed \ {s} ELSE handed
      /\ UNCHANGED <<api, started, immediatly, pointer, event, calls, sessions>>
  BY FrameKinds DEF HandleDisconnect, At, Serving, Last
<1>2. State(s) \in Up \cup {DISCONNECTED, New}
  BY InvHost
<1>3. /\ HostOK(NumPeers, H)
      /\ \A t \in Slots \ {s} : Kept(host, H, t)
      /\ State(s) = New => H.peers[s].state = DISCONNECTED
      /\ State(s) # New => Kept(host, H, s)
  BY <1>2, InvHost, AfterDisconnectEnds DEF State
<1> HIDE DEF H
<1>4. HandedExact(host, handed)
  BY DEF WrappersInv, Exact
<1>5. HandedExact(H, handed')
  <2>1. CASE State(s) = New
    <3>1. handed' = handed \ {s}
      <4>1. CASE New = CONNECTING
        BY <1>1, <2>1, <4>1
      <4>2. CASE New # CONNECTING
        <5>1. New \notin Held
          BY <4>2, NewState DEF New, Held
        <5> QED BY <1>1, <1>4, <2>1, <4>2, <5>1 DEF HandedExact, State
      <4> QED BY <4>1, <4>2
    <3>2. H.peers[s].state \notin Held /\ H.peers[s].state \in {DISCONNECTED, New} \cup Up
      BY <1>3, <2>1, NewState
    <3>3. HandedExact(H, handed \ {s})
      BY <1>3, <1>4, <3>2, HandedOne
    <3> QED BY <3>1, <3>3
  <2>2. CASE State(s) # New
    <3>1. State(s) # CONNECTING
      BY <1>1, <1>2, <2>2, OtherStates
    <3>2. \A t \in Slots : Kept(host, H, t)
      BY <1>3, <2>2
    <3> QED BY <1>1, <1>4, <3>1, <3>2, HandedKept
  <2> QED BY <2>1, <2>2
<1>6. api = "SECln" => \/ Kept(host, H, 1)
                       \/ State(1) = New /\ H.peers[1].state = DISCONNECTED
  BY <1>3, SlotsAre
<1>7. sessions' \in 0 .. MaxSessions /\ HandedExact(host', handed') /\ HostOK(NumPeers, host')
  BY <1>1, <1>3, <1>5 DEF WrappersInv, Fields
<1>8. WrappersInv'
  BY <1>1, <1>6, <1>7, ServiceInv
<1> QED BY <1>1, <1>8, NotEntered

\* The end of a handshake, even when a DISCONNECT comes with it.
LEMMA HandleHandshakeInv ==
    ASSUME WrappersInv, NEW s \in Slots, HandleHandshake(s)
    PROVE  WrappersInv' /\ FitStep
<1> DEFINE up == NotifyConnect(host, s, TRUE)
<1>1. /\ Serving(calls) /\ State(s) \in {CONNECTING, ACKNOWLEDGING_CONNECT}
      /\ UNCHANGED <<api, started, immediatly, sessions>>
  BY FrameKinds DEF HandleHandshake, At, Serving, Last
<1>2. PICK H \in {up} \cup {AfterDisconnect(up, s, acknowledged) : acknowledged \in BOOLEAN} :
         Raise(H, "connect", s)
  BY DEF HandleHandshake
<1>3. State(s) = New
  BY <1>1, InvHost, OtherStates
<1>4. /\ HostOK(NumPeers, up) /\ up.peers[s].state = CONNECTED
      /\ \A t \in Slots \ {s} : Kept(host, up, t)
  BY InvHost, ConnectedKeeps
<1> HIDE DEF up
<1>5. CONNECTED \in Up /\ CONNECTED # New
  BY UpStates, NewState
<1>6. HostOK(NumPeers, H) /\ H.peers[s].state \in Up /\ \A t \in Slots \ {s} : Kept(up, H, t)
  <2>1. CASE H = up
    BY <1>4, <1>5, <2>1 DEF Kept
  <2>2. CASE \E acknowledged \in BOOLEAN : H = AfterDisconnect(up, s, acknowledged)
    <3>1. PICK acknowledged \in BOOLEAN : H = AfterDisconnect(up, s, acknowledged)
      BY <2>2
    <3>2. up.peers[s].state \in Up \cup {DISCONNECTED, New}
      BY <1>4, <1>5
    <3>3. /\ HostOK(NumPeers, H)
          /\ \A t \in Slots \ {s} : Kept(up, H, t)
          /\ up.peers[s].state # New => Kept(up, H, s)
      BY <1>4, <3>1, <3>2, InvHost, AfterDisconnectEnds
    <3> QED BY <1>4, <1>5, <3>3 DEF Kept
  <2> QED BY <1>2, <2>1, <2>2
<1>7. \A t \in Slots \ {s} : Kept(host, H, t)
  BY <1>4, <1>6, KeptTwice
<1> QED BY <1>1, <1>2, <1>3, <1>6, <1>7, RaiseInv

\* An acknowledgement: of a disconnection, which ends the peer, or of a packet.
LEMMA HandleAcknowledgeInv ==
    ASSUME WrappersInv, NEW s \in Slots, HandleAcknowledge(s)
    PROVE  WrappersInv' /\ FitStep
<1> DEFINE H == [host EXCEPT !.peers[s].outgoingReliable = Tail(@)]
           G == Reset(H, s)
           D == PeerDisconnect(H, s)
<1>1. /\ Serving(calls) /\ State(s) \in Counted \cup {DISCONNECTING}
      /\ host.peers[s].outgoingReliable # <<>>
      /\ UNCHANGED <<api, started, immediatly, sessions>>
  BY FrameKinds DEF HandleAcknowledge, At, Serving, Last
<1>2. NotifyDisconnect(H, s, TRUE) = G
  BY DEF NotifyDisconnect
<1>3. \/ Raise(G, "disconnect", s)
      \/ host' \in {D, H} /\ UNCHANGED <<pointer, event, calls, handed>>
  BY <1>2 DEF HandleAcknowledge
<1>4. State(s) \in Up
  BY <1>1, UpStates
<1>5. H \in KeptHosts(NumPeers, host) /\ H.peers[s].state = State(s)
  BY <1>1, InvHost, AckedKeeps DEF State
<1> HIDE DEF H
<1>6. HostOK(NumPeers, H) /\ \A t \in Slots : Kept(host, H, t)
  BY <1>5, InvHost DEF KeptHosts
<1>7. CASE Raise(G, "disconnect", s)
  <2>1. /\ HostOK(NumPeers, G) /\ G.peers[s].state = DISCONNECTED
        /\ \A t \in Slots \ {s} : Kept(H, G, t)
    BY <1>6, InvHost, ResetEnds
  <2> HIDE DEF G
  <2>2. \A t \in Slots \ {s} : Kept(host, G, t)
    BY <1>6, <2>1, KeptTwice
  <2>3. State(s) \in Held
    BY <1>4 DEF Held
  <2> QED BY <1>1, <1>7, <2>1, <2>2, <2>3, RaiseInv
<1>8. CASE host' \in {D, H} /\ UNCHANGED <<pointer, event, calls, handed>>
  <2>1. HostOK(NumPeers, D) /\ \A t \in Slots : Kept(H, D, t)
    BY <1>4, <1>5, <1>6, InvHost, PeerDisconnectEnds
  <2> HIDE DEF D
  <2>2. \A t \in Slots : Kept(host, D, t)
    BY <1>6, <2>1, KeptTwice
  <2>3. D \in KeptHosts(NumPeers, host)
    BY <2>1, <2>2, InvHost DEF KeptHosts, HostOK
  <2>4. WrappersInv'
    BY <1>1, <1>5, <1>8, <2>3, ServiceKeepsInv
  <2> QED BY <1>8, <2>4, NotEntered
<1> QED BY <1>3, <1>7, <1>8

\* A packet that arrives.
LEMMA HandleSendReliableInv ==
    ASSUME WrappersInv, NEW s \in Slots, HandleSendReliable(s)
    PROVE  WrappersInv' /\ FitStep
<1> DEFINE m == host.peers[s].channelIn + 1
<1>1. /\ Serving(calls) /\ host' = QueueIncomingReliable(host, s, m)
      /\ UNCHANGED <<api, started, immediatly, pointer, event, calls, handed, sessions>>
  BY FrameKinds DEF HandleSendReliable, At, Serving, Last
<1>2. m \in Nat
  <2>1. host.peers[s] \in Peers
    BY InvHost, HostShape
  <2> QED BY <2>1, SMTT(30) DEF Peers
<1> HIDE DEF m
<1>3. host' \in KeptHosts(NumPeers, host)
  BY <1>1, <1>2, InvHost, ReceivedKeeps
<1>4. WrappersInv'
  BY <1>1, <1>3, ServiceKeepsInv
<1> QED BY <1>1, <1>4, NotEntered

-----------------------------------------------------------------------------
(* Every step, and every state.                                               *)

\* A call of the program enters no callback.
LEMMA ProgramEntersNone ==
    ASSUME InProgram
    PROVE  FitStep
<1>1. ~Serving(calls)
  BY FrameKinds DEF InProgram, Serving, Last
<1> QED BY <1>1, NotEntered

\* Every step keeps the invariant and enters callbacks as it should.
LEMMA NextInv ==
    ASSUME Careful, WrappersInv, [Next]_vars
    PROVE  WrappersInv' /\ FitStep
<1>1. CASE Start \/ Stop
  <2>1. calls' = calls
    BY <1>1 DEF Start, Stop
  <2> QED BY <1>1, <2>1, StartStopInv, NotEntered
<1>2. CASE SetSendImmediatly
  BY <1>2, SetSendImmediatlyInv, ProgramEntersNone DEF SetSendImmediatly
<1>3. CASE Broadcast
  <2>1. InProgram
    BY <1>3, Zenon DEF Broadcast, MayCall
  <2> QED BY <1>3, <2>1, BroadcastInv, ProgramEntersNone
<1>4. CASE Process
  BY <1>4, ProcessInv, ProgramEntersNone DEF Process, MayCall
<1>5. CASE \E force \in BOOLEAN : DisconnectAll(force)
  BY <1>5, DisconnectAllInv, ProgramEntersNone DEF DisconnectAll, MayCall
<1>6. CASE \E s \in Slots : ConnectMany(s)
  BY <1>6, ConnectManyInv, ProgramEntersNone DEF ConnectMany, MayCall
<1>7. CASE \E s \in Slots : ConnectOne(s)
  BY <1>7, ConnectOneInv, ProgramEntersNone DEF ConnectOne, MayCall
<1>8. CASE \E s \in Slots : Send(s)
  BY <1>8, SendInv, ProgramEntersNone DEF Send, MayCall
<1>9. CASE \E s \in Slots : \E force \in BOOLEAN : DisconnectPeer(s, force)
  BY <1>9, DisconnectPeerInv, ProgramEntersNone DEF DisconnectPeer, MayCall
<1>10. CASE \E s \in Slots :
               \/ GiveUp(s) \/ HandleConnect(s) \/ HandleHandshake(s)
               \/ HandleAcknowledge(s) \/ HandleSendReliable(s)
               \/ \E acknowledged \in BOOLEAN : HandleDisconnect(s, acknowledged)
  BY <1>10, GiveUpInv, HandleConnectInv, HandleHandshakeInv, HandleAcknowledgeInv,
     HandleSendReliableInv, HandleDisconnectInv
<1>11. CASE Dispatch \/ NextPhase \/ ReturnNone \/ Return
  BY <1>11, DispatchInv, NextPhaseInv, ReturnNoneInv, ReturnInv
<1>12. CASE UNCHANGED vars
  <2>1. /\ UNCHANGED <<api, started, immediatly, host, pointer, event, calls, handed, sessions>>
    BY <1>12 DEF vars
  <2>2. Exact(host', handed', event', pointer', calls')
    BY <2>1 DEF WrappersInv
  <2>3. WrappersInv'
    BY <2>1, <2>2, InvNext DEF WrappersInv, Fields, Idle
  <2> QED BY <2>1, <2>3, NotEntered
<1> QED
  BY <1>1, <1>2, <1>3, <1>4, <1>5, <1>6, <1>7, <1>8, <1>9, <1>10, <1>11, <1>12 DEF Next

\* With a careful program the invariant holds all along.
THEOREM WrappersCorrect ==
    ASSUME Careful
    PROVE  Spec => []WrappersInv
<1>1. Init => WrappersInv
  BY InitInv
<1>2. WrappersInv /\ [Next]_vars => WrappersInv'
  BY NextInv
<1> QED BY <1>1, <1>2, PTL DEF Spec

\* A peer that the program has keeps its slot until the program is told of its end or
\* ends it itself, unless its on_disconnect connects (s_enet_server.c:538-576,
\* s_enet_client2.c:283): the peers it has are exactly those whose states are Held, and
\* a free slot's is not.
THEOREM PeersKept == Spec => []PeersStay
<1>1. ASSUME Careful PROVE Spec => []PeersStay
  <2>1. WrappersInv => PeersStay
    <3> SUFFICES ASSUME WrappersInv PROVE PeersHeld
      BY DEF PeersStay
    <3> QED BY InvHost, NewState DEF PeersHeld
  <2> QED BY <1>1, <2>1, WrappersCorrect, PTL
<1>2. ASSUME ~Careful PROVE Spec => []PeersStay
  <2>1. PeersStay
    BY <1>2 DEF PeersStay
  <2> QED BY <2>1, PTL
<1> QED BY <1>1, <1>2

\* Between calls the pointer of SECln is NULL exactly when its slot is free
\* (s_enet_client.c:105-144, 362-371).
THEOREM PointerCorrect ==
    ASSUME Careful
    PROVE  Spec => []PointerExact
<1>1. WrappersInv => PointerExact
  <2> SUFFICES ASSUME WrappersInv, api = "SECln", calls = <<>>
               PROVE  pointer = NoPeer <=> State(1) = DISCONNECTED
    BY DEF PointerExact
  <2>1. ~Serving(calls) /\ Resting(calls)
    BY DEF Serving, Resting
  <2> QED BY <2>1 DEF WrappersInv, Exact, ClientExact, State
<1> QED BY <1>1, WrappersCorrect, PTL

\* Every callback is about a peer that the program has, or that it does not have yet
\* where a server is told of a connection (s_enet_server.c:538-576).
THEOREM CallbacksCorrect ==
    ASSUME Careful
    PROVE  Spec => CallbacksFit
<1>1. WrappersInv /\ [Next]_vars => [FitStep]_vars
  BY NextInv
<1>2. CallbacksFit <=> [][FitStep]_vars
  BY PTL DEF CallbacksFit, FitStep
<1> QED BY <1>1, <1>2, WrappersCorrect, PTL DEF Spec

\* Every variable keeps its type, the counter of connected peers its range.
THEOREM WrappersTypes ==
    ASSUME Careful
    PROVE  Spec => []TypeOK
<1>1. WrappersInv => TypeOK
  <2> SUFFICES ASSUME WrappersInv PROVE TypeOK
    OBVIOUS
  <2>1. host \in HostRecords(NumPeers) /\ CountExact(host) /\ NumPeers \in Nat
        /\ Slots = 1 .. NumPeers
    BY InvHost DEF HostOK
  <2>2. host.peers \in [Slots -> Peers] /\ DOMAIN host.peers = Slots
    BY <2>1 DEF HostRecords
  <2>3. host.connectedPeers \in 0 .. Cardinality(Slots)
    <3>1. IsFiniteSet(Slots)
      BY <2>1, FS_Interval
    <3>2. CountedSlots(host) \subseteq Slots
      BY <2>2 DEF CountedSlots
    <3>3. /\ IsFiniteSet(CountedSlots(host))
          /\ Cardinality(CountedSlots(host)) <= Cardinality(Slots)
      BY <3>1, <3>2, FS_Subset
    <3>4. Cardinality(CountedSlots(host)) \in Nat /\ Cardinality(Slots) \in Nat
      BY <3>1, <3>3, FS_CardinalityType
    <3> QED BY <2>1, <3>3, <3>4 DEF CountExact
  <2>4. calls \in Seq(Frames) /\ handed \subseteq Slots
    BY DEF WrappersInv, Exact, StackOK, HandedExact
  <2> QED BY <2>2, <2>3, <2>4 DEF TypeOK, WrappersInv, Fields, Events
<1> QED BY <1>1, WrappersCorrect, PTL

\* While the array has room the loop of PeersGetAll lists exactly the connected peers
\* it has passed, and it lists no other.
LEMMA ListedSoFar ==
    ASSUME NEW n \in Nat, NEW size \in Nat, size >= 1, NEW list,
           list \in [0 .. n -> Seq(1 .. n)], list[0] = <<>>,
           \A i \in 1 .. n : list[i] = IF Listed(i) /\ (Len(list[i - 1]) < size \/ i = 1)
                                       THEN Append(list[i - 1], i) ELSE list[i - 1]
    PROVE  /\ Len(list[n]) <= size
           /\ ToSet(list[n]) \subseteq {s \in 1 .. n : Listed(s)}
           /\ Len(list[n]) < size => ToSet(list[n]) = {s \in 1 .. n : Listed(s)}
<1> DEFINE Passed(k) == {s \in 1 .. k : Listed(s)}
           P(k) == /\ Len(list[k]) <= size
                   /\ ToSet(list[k]) \subseteq Passed(k)
                   /\ Len(list[k]) < size => ToSet(list[k]) = Passed(k)
           T == {k \in Nat : k <= n => P(k)}
<1>1. 0 \in T
  BY DEF ToSet
<1>2. ASSUME NEW k \in Nat, k \in T PROVE k + 1 \in T
  <2>1. SUFFICES ASSUME k + 1 <= n PROVE P(k + 1)
    OBVIOUS
  <2>2. P(k)
    BY <1>2, <2>1
  <2> DEFINE l == list[k]
             next == list[k + 1]
  <2>3. l \in Seq(1 .. n) /\ Len(l) \in Nat /\ k + 1 \in 1 .. n
    BY <2>1
  <2>4. next = IF Listed(k + 1) /\ (Len(l) < size \/ k = 0) THEN Append(l, k + 1) ELSE l
    <3>1. (k + 1) - 1 = k /\ (k + 1 = 1 <=> k = 0)
      OBVIOUS
    <3> QED BY <2>3, <3>1
  <2>5. k = 0 => Len(l) < size
    OBVIOUS
  <2>6. Passed(k + 1) = IF Listed(k + 1) THEN Passed(k) \cup {k + 1} ELSE Passed(k)
    <3>1. \A s : s \in 1 .. k + 1 <=> s \in 1 .. k \/ s = k + 1
      OBVIOUS
    <3> QED BY <3>1
  <2> HIDE DEF l, next, Passed
  <2>7. CASE Listed(k + 1) /\ Len(l) < size
    <3>1. next = Append(l, k + 1)
      BY <2>4, <2>7
    <3>2. /\ Len(next) = Len(l) + 1 /\ next[Len(l) + 1] = k + 1
          /\ \A i \in 1 .. Len(l) : next[i] = l[i]
          /\ DOMAIN next = 1 .. Len(l) + 1 /\ DOMAIN l = 1 .. Len(l)
      BY <2>3, <3>1, AppendProperties
    <3>3. ToSet(next) = ToSet(l) \cup {k + 1}
      <4>1. \A i : i \in 1 .. Len(l) + 1 <=> i \in 1 .. Len(l) \/ i = Len(l) + 1
        BY <2>3
      <4>2. \A x : x \in ToSet(next) <=> \E i \in 1 .. Len(l) + 1 : next[i] = x
        BY <3>2 DEF ToSet
      <4>3. \A x : x \in ToSet(l) <=> \E i \in 1 .. Len(l) : l[i] = x
        BY <3>2 DEF ToSet
      <4>4. \A x : x \in ToSet(next) <=> x \in ToSet(l) \/ x = k + 1
        <5>1. ASSUME NEW x, x \in ToSet(next) PROVE x \in ToSet(l) \/ x = k + 1
          <6>1. PICK i \in 1 .. Len(l) + 1 : next[i] = x
            BY <4>2, <5>1
          <6>2. CASE i \in 1 .. Len(l)
            <7>1. l[i] = x
              BY <3>2, <6>1, <6>2
            <7> QED BY <4>3, <6>2, <7>1
          <6>3. CASE i = Len(l) + 1
            BY <3>2, <6>1, <6>3
          <6> QED BY <4>1, <6>2, <6>3
        <5>2. ASSUME NEW x, x \in ToSet(l) PROVE x \in ToSet(next)
          <6>1. PICK i \in 1 .. Len(l) : l[i] = x
            BY <4>3, <5>2
          <6>2. next[i] = x /\ i \in 1 .. Len(l) + 1
            BY <3>2, <4>1, <6>1
          <6> QED BY <4>2, <6>2
        <5>3. k + 1 \in ToSet(next)
          <6>1. Len(l) + 1 \in 1 .. Len(l) + 1
            BY <2>3
          <6> QED BY <3>2, <4>2, <6>1
        <5> QED BY <5>1, <5>2, <5>3
      <4> QED BY <4>4
    <3>4. ToSet(l) = Passed(k)
      BY <2>2, <2>7 DEF l
    <3>5. ToSet(next) = Passed(k + 1)
      BY <2>6, <2>7, <3>3, <3>4
    <3>6. Len(next) <= size
      BY <2>3, <2>7, <3>2
    <3> QED BY <3>5, <3>6 DEF next
  <2>8. CASE ~(Listed(k + 1) /\ Len(l) < size)
    <3>1. next = l
      BY <2>4, <2>5, <2>8
    <3>2. /\ Len(l) <= size /\ ToSet(l) \subseteq Passed(k)
          /\ Len(l) < size => ToSet(l) = Passed(k)
      BY <2>2 DEF l
    <3> QED BY <2>6, <2>8, <3>1, <3>2 DEF next
  <2> QED BY <2>7, <2>8
<1>3. n \in T
  <2> HIDE DEF T
  <2> QED BY <1>1, <1>2, SetInduction
<1> QED BY <1>3

\* What PeersGetAll writes.
LEMMA GetAllLists ==
    ASSUME WrappersInv, NEW size \in Nat, size >= 1
    PROVE  /\ Len(GetAll(size)) <= size
           /\ ToSet(GetAll(size)) \subseteq {s \in Slots : Listed(s)}
           /\ Len(GetAll(size)) < size => ToSet(GetAll(size)) = {s \in Slots : Listed(s)}
<1> DEFINE n == NumPeers
           m == Cardinality(Slots)
           Lists == Seq(1 .. n)
           Step(l, i) == IF Listed(i) /\ (Len(l) < size \/ i = 1) THEN Append(l, i) ELSE l
           next == [i \in 1 .. n |-> [l \in Lists |-> Step(l, i)]]
           peers[i \in 0 .. m] ==
               IF i = 0 THEN <<>>
               ELSE IF Listed(i) /\ (Len(peers[i - 1]) < size \/ i = 1)
               THEN Append(peers[i - 1], i)
               ELSE peers[i - 1]
<1>0. m = n /\ n \in Nat /\ Slots = 1 .. n /\ HostOK(n, host)
  <2>1. DOMAIN host.peers = Slots /\ Cardinality(DOMAIN host.peers) = n
    BY InvHost, SlotCount
  <2> QED BY <2>1, InvHost
<1>1. <<>> \in Lists
  BY EmptySeq
<1>2. ASSUME NEW i \in 1 .. n, NEW l \in Lists PROVE Step(l, i) \in Lists
  BY <1>2, AppendProperties
<1>3. next \in StepsOn(Lists, n)
  <2> HIDE DEF Lists, n, Step
  <2> QED BY <1>2 DEF StepsOn
<1>4. PICK f : Iterates(f, Lists, n, next, <<>>)
  <2> HIDE DEF Lists, next, n
  <2> QED BY <1>0, <1>1, <1>3, Iteration
<1>5. \A i \in 1 .. n : f[i] = Step(f[i - 1], i)
  <2> HIDE DEF n, Step
  <2> TAKE i \in 1 .. n
  <2>1. f[i - 1] \in Lists
    BY <1>0, <1>4 DEF Iterates
  <2> QED BY <1>4, <2>1 DEF Iterates
<1>6. f = [i \in 0 .. m |-> IF i = 0 THEN <<>>
                            ELSE IF Listed(i) /\ (Len(f[i - 1]) < size \/ i = 1)
                            THEN Append(f[i - 1], i)
                            ELSE f[i - 1]]
  <2> HIDE DEF Lists, m, n
  <2>1. \A i \in 0 .. n : i = 0 \/ i \in 1 .. n
    BY <1>0
  <2> QED BY <1>0, <1>4, <1>5, <2>1, ZenonT(60) DEF Iterates
<1>7. peers = [i \in 0 .. m |-> IF i = 0 THEN <<>>
                                ELSE IF Listed(i) /\ (Len(peers[i - 1]) < size \/ i = 1)
                                THEN Append(peers[i - 1], i)
                                ELSE peers[i - 1]]
  BY <1>6, Zenon DEF peers
<1>8. GetAll(size) = IF host.connectedPeers = 0 THEN <<>> ELSE peers[m]
  BY Zenon DEF GetAll
<1> HIDE DEF peers, Lists, m, n
<1>9. peers[0] = <<>>
  BY <1>0, <1>7
<1>10. \A i \in 1 .. n : peers[i] = Step(peers[i - 1], i)
  <2> TAKE i \in 1 .. n
  <2>1. i \in 0 .. n /\ i # 0
    BY <1>0
  <2> QED BY <1>0, <1>7, <2>1
<1>11. \A i \in 0 .. n : peers[i] \in Lists
  <2>1. \A i \in 1 .. n : peers[i - 1] \in Lists => peers[i] \in Lists
    <3> HIDE DEF Step
    <3> QED BY <1>2, <1>10
  <2>2. peers[0] \in Lists
    BY <1>1, <1>9
  <2> QED BY <1>0, <2>1, <2>2, LoopInvariant
<1>12. peers \in [0 .. n -> Seq(1 .. n)]
  BY <1>0, <1>7, <1>11 DEF Lists
<1>13. /\ Len(peers[n]) <= size
       /\ ToSet(peers[n]) \subseteq {s \in 1 .. n : Listed(s)}
       /\ Len(peers[n]) < size => ToSet(peers[n]) = {s \in 1 .. n : Listed(s)}
  BY <1>0, <1>9, <1>10, <1>12, ListedSoFar
<1>14. CASE host.connectedPeers = 0
  <2>1. host \in HostRecords(n) /\ Cardinality(CountedSlots(host)) = 0
    BY <1>0, <1>14 DEF HostOK, CountExact
  <2>2. CountedSlots(host) \subseteq 1 .. n /\ DOMAIN host.peers = 1 .. n
    BY <2>1 DEF CountedSlots, HostRecords
  <2>3. IsFiniteSet(CountedSlots(host))
    <3>1. IsFiniteSet(1 .. n)
      BY <1>0, FS_Interval
    <3> QED BY <2>2, <3>1, FS_Subset
  <2>4. CountedSlots(host) = {}
    BY <2>1, <2>3, FS_EmptySet
  <2>5. {s \in 1 .. n : Listed(s)} = {}
    BY <2>2, <2>4 DEF CountedSlots, Listed, State, Counted
  <2>6. GetAll(size) = <<>> /\ Len(<<>>) = 0 /\ ToSet(<<>>) = {}
    BY <1>8, <1>14 DEF ToSet
  <2> QED BY <1>0, <2>5, <2>6
<1>15. CASE host.connectedPeers # 0
  <2>1. GetAll(size) = peers[n]
    BY <1>0, <1>8, <1>15
  <2> QED BY <1>0, <1>13, <2>1
<1> QED BY <1>14, <1>15

\* PeersGetAll writes no more than the array holds, leaves out nobody who is connected
\* while there is room, and lists only peers that the program has
\* (s_enet_server.c:346-366).
THEOREM ListsCorrect ==
    ASSUME Careful
    PROVE  Spec => []ListsPeers
<1>1. WrappersInv => ListsPeers
  <2> SUFFICES ASSUME WrappersInv, NEW size \in 1 .. Cardinality(Slots)
               PROVE  /\ Len(GetAll(size)) <= size
                      /\ Len(GetAll(size)) < size
                           => {s \in Slots : State(s) = CONNECTED} = ToSet(GetAll(size))
                      /\ ToSet(GetAll(size)) \subseteq handed
    BY Zenon DEF ListsPeers
  <2>1. size \in Nat /\ size >= 1
    <3>1. IsFiniteSet(Slots)
      BY InvHost, FS_Interval
    <3>2. Cardinality(Slots) \in Nat
      BY <3>1, FS_CardinalityType
    <3> QED BY <3>2
  <2>2. {s \in Slots : Listed(s)} = {s \in Slots : State(s) = CONNECTED}
    BY DEF Listed
  <2>3. {s \in Slots : State(s) = CONNECTED} \subseteq handed
    BY InvHost, UpStates DEF Held
  <2> QED BY <2>1, <2>2, <2>3, GetAllLists
<1> QED BY <1>1, WrappersCorrect, PTL
=============================================================================
