------------------------------ MODULE MCWrappers ------------------------------
(* Small instances of Wrappers for TLC.                                       *)
EXTENDS Wrappers

CONSTANT h

MCApis == {"SESrv", "SECln", "SECln2"}

\* A callback does anything but connect when it is told the end of a peer (Careful).
MCCareful == [callback \in Callbacks |->
                CASE callback = "on_connect" -> CallsFromCallbacks
                  [] callback = "on_recv" -> {"connect", "disconnect", "force", "send"}
                  [] callback = "on_disconnect" -> {"disconnect", "force", "send"}]
=============================================================================
