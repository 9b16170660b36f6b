-------------------------- MODULE MCCommandDispatch --------------------------
EXTENDS CommandDispatch, TLC

CONSTANTS w1, w2, d1, d2, c1, set, run, t1, t2

OneLane == [d \in {d1, d2} |-> w1]
TwoLanes == [d \in {d1, d2} |-> IF d = d1 THEN w1 ELSE w2]
AnyThread == Permutations({t1, t2})

Asked(d, i, k, m, w) == [device |-> d, channel |-> c1, intent |-> i, kind |-> k,
                         coalesce |-> m, waits |-> w]

(* Two devices; on d1 a coalescing setpoint, a command that is never merged, *)
(* a refresh and a revert.  Nobody waits for the verdict.                    *)
MixedAsk == {Asked(d1, set, "command", TRUE, FALSE),
             Asked(d1, run, "command", FALSE, FALSE),
             Asked(d1, set, "refresh", TRUE, FALSE),
             Asked(d1, set, "revert", FALSE, FALSE),
             Asked(d2, set, "command", TRUE, FALSE)}

(* A setpoint nobody waits for on the wire that may hang; on the other one a  *)
(* setpoint and a revert whose callers wait.                                  *)
TwoWiresAsk == {Asked(d1, set, "command", FALSE, FALSE),
                Asked(d2, set, "command", TRUE, TRUE),
                Asked(d2, set, "revert", FALSE, TRUE)}

(* The device of w1 may hang for good; w2 must not notice (CMD-Q-1).         *)
SlowWireSpec == Spec /\ FairOn({w2})
OtherWireServed == WireServed(w2)
OtherLaneEnds == LaneEnds(w2)
=============================================================================
