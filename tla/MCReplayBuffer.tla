---------------------------- MODULE MCReplayBuffer ----------------------------
EXTENDS ReplayBuffer

CONSTANTS d1, d2

(* The devices take turns. *)
Turns(n) == IF n % 2 = 1 THEN d1 ELSE d2

(* Only is SelectSeq by membership. *)
ASSUME \A S \in SUBSET (1 .. 3) : \A s \in UNION {[1 .. n -> 1 .. 3] : n \in 0 .. 4} :
           Only(s, S) = SelectSeq(s, LAMBDA x : x \in S)
=============================================================================
