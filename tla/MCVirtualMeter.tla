--------------------------- MODULE MCVirtualMeter ---------------------------
(* A power row with a second source to fall back to, and a pinned energy   *)
(* counter with a source of its own.                                       *)
EXTENDS VirtualMeter, TLC

CONSTANTS power, energy, first, second, own, t1, t2

MCFeeds == (power :> <<first, second>>) @@ (energy :> <<own>>)
=============================================================================
