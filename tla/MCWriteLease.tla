---------------------------- MODULE MCWriteLease ----------------------------
EXTENDS WriteLease

CONSTANTS k1, k2, low, high

(* One register written raw, one by a command. *)
KindOf == [k \in Key |-> IF k = k1 THEN "raw" ELSE "command"]
=============================================================================
