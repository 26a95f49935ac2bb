-------------------------- MODULE MCReliableChannel --------------------------
(* Small instances of ReliableChannel for TLC.  The windows are scaled down   *)
(* from 16 of 4096 numbers, 8 of them free, to 6 of 2 with 3 free.            *)
EXTENDS ReliableChannel

\* Past the last sequence number, in packets of one command; or with fragments,
\* some over the end of a window or of the space, for one lap and a half and
\* for more than two.
MCSingles == [p \in 1 .. 18 |-> 1]
MCMixed == <<1, 3, 1, 2, 3, 4, 1, 2, 1>>
MCLong == MCMixed \o <<1, 2, 3, 1, 1>>
=============================================================================
