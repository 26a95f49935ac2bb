----------------------------- MODULE MCConnection -----------------------------
(* Small instances of Connection for TLC.                                     *)
EXTENDS Connection

CONSTANTS a, b

\* A client with one slot, a server with one or two.
MCOneSlot == (a :> 1) @@ (b :> 1)
MCTwoSlots == (a :> 1) @@ (b :> 2)

\* Different hosts draw their connect identifiers from different seeds.
MCSeeds == (a :> 0) @@ (b :> 10)

\* OneSlotCorrect of ConnectionProofs asks for this of the seeds.
ASSUME SeedsApartAssumption == SeedsApart

\* The calls of a client that opens and a server that accepts.
MCAll == (a :> {"connect", "disconnect", "disconnect now", "disconnect later",
                "reset", "flush"})
         @@ (b :> {"disconnect", "disconnect now", "reset", "flush"})
MCMutual == (a :> {"connect", "reset"}) @@ (b :> {"connect", "reset"})
MCPolling == (a :> {"connect", "send", "send unreliable", "disconnect",
                    "disconnect later"})
             @@ (b :> {"disconnect", "flush"})
MCPatient == (a :> {"connect", "disconnect"}) @@ (b :> {"disconnect"})
MCOneWay == (a :> {"connect", "send", "disconnect later"}) @@ (b :> {})
=============================================================================
