----------------------------- MODULE FifoChannel -----------------------------
(* What a channel promises for the reliable packets a program sends on it:    *)
(* the other program gets them in the order they were sent, each once, whole  *)
(* and unchanged.  One step may hand over several: the arrival of a missing   *)
(* packet releases those that waited for it.                                  *)
EXTENDS Naturals, Sequences

CONSTANT Packets \* the packets the program sends, in order

VARIABLES sent,      \* how many of them it has sent
          delivered  \* what the other program was given

Init == sent = 0 /\ delivered = <<>>

Send == /\ sent < Len(Packets)
        /\ sent' = sent + 1
        /\ UNCHANGED delivered

Deliver == /\ \E k \in Len(delivered) + 1 .. sent : delivered' = SubSeq(Packets, 1, k)
           /\ UNCHANGED sent

Next == Send \/ Deliver

vars == <<sent, delivered>>

Spec == Init /\ [][Next]_vars

\* Nothing that was sent waits for ever.
FairSpec == Spec /\ WF_vars(Deliver)
=============================================================================
