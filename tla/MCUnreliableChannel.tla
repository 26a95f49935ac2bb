-------------------------- MODULE MCUnreliableChannel --------------------------
(* Small instances of UnreliableChannel for TLC, with the windows and the     *)
(* unreliable numbers scaled down.                                            *)
EXTENDS UnreliableChannel

R == "reliable"
U == "unreliable"
F == "fragmented"
N == "unsequenced"

Scenario(kinds, r, g) == [packets |-> kinds, reliable |-> r, group |-> g]

\* Every kind between two reliable packets, from the start and over the end of
\* the reliable numbers; more unreliable packets than there are numbers; three
\* unfinished packets at once; groups over two windows and over the end of the
\* space; groups of more than a lap.
MCScenarios ==
    {Scenario(<<U, R, F, U, R, F>>, 0, 0),
     Scenario(<<F, U, F, N, R, U>>, 0, 0),
     Scenario(<<U, R, R, U, R, F>>, 10, 0),
     Scenario(<<U, U, U, U, U, F>>, 3, 0),
     Scenario(<<F, F, F, R>>, 0, 0),
     Scenario(<<N, N, R, N, U, N>>, 5, 6),
     Scenario(<<N, N, N, N, N, N, N, N, N, N, N>>, 5, 5)}

\* Three packets of several fragments, and nothing else.
MCThree == {Scenario(<<F, F, F>>, 0, 0)}
=============================================================================
