------------------------------ MODULE MCThrottle ------------------------------
(* Small instances of Throttle for TLC.                                       *)
EXTENDS Throttle, TLC

CONSTANTS p1, p2

MCPeers == {p1, p2}
MCSymmetry == Permutations(MCPeers)

\* No limit, and limits that are shared unevenly.
MCHostLimits == {<<0, 0>>, <<8, 8>>}
MCPeerLimits == {<<0, 0>>, <<3, 5>>, <<8, 3>>}
\* A little more than a share, and more than a product of 32 bits holds.
MCAmounts == {11, 70}
MCElapsed == {3}
\* A rate so large that the throttle wraps around.
MCRates == {508}
=============================================================================
