----------------------------- MODULE LossyChannel -----------------------------
(* What a channel promises for packets of every kind: those that are          *)
(* sequenced reach the other program in the order they were sent, each at     *)
(* most once, and only packets that need not be delivered are left out; those *)
(* that are not sequenced reach it in any order, each at most once.           *)
EXTENDS Naturals, Sequences

VARIABLES packets,  \* the kinds of the packets, in the order the program sends them
          sent,     \* how many of them it has sent
          delivered \* what the other program was given: packets by their number

vars == <<packets, sent, delivered>>

Sequenced(p) == packets[p] # "unsequenced"

Legal(given) ==
    \A j \in DOMAIN given :
        /\ given[j] \in 1 .. sent
        /\ \A i \in 1 .. j - 1 :
              /\ given[i] # given[j]
              /\ Sequenced(given[i]) /\ Sequenced(given[j]) => given[i] < given[j]
        /\ Sequenced(given[j]) =>
              \A p \in 1 .. given[j] - 1 :
                  packets[p] = "reliable" => \E i \in 1 .. j - 1 : given[i] = p

Init == sent = 0 /\ delivered = <<>>

Send == /\ sent' = sent + 1
        /\ sent < Len(packets)
        /\ UNCHANGED <<packets, delivered>>

Deliver == /\ Len(delivered') > Len(delivered)
           /\ SubSeq(delivered', 1, Len(delivered)) = delivered
           /\ Legal(delivered')
           /\ UNCHANGED <<packets, sent>>

Spec == Init /\ [][Send \/ Deliver]_vars
=============================================================================
