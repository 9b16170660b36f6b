-------------------------- MODULE MCSequenceRunner --------------------------
EXTENDS SequenceRunner

CONSTANTS s1, s2, s3, d1, d2

Command(d) == [kind |-> "command", device |-> d, orelse |-> "abort"]
Other(kind, orelse) == [kind |-> kind, device |-> None, orelse |-> orelse]

(* s1 shares a device with each of the two others, which share none: the     *)
(* device of s3 is only in the on_abort of s1.                               *)
StepsOf == [s \in Sequence |->
    IF s = s1 THEN <<Other("check", "continue"), Command(d2)>>
    ELSE IF s = s2 THEN <<Other("wait_until", "continue")>>
    ELSE <<Command(d1), Other("wait_s", "abort")>>]
OnAbortOf == [s \in Sequence |->
    IF s = s1 THEN <<d2, d1>> ELSE IF s = s2 THEN <<d2>> ELSE <<>>]
=============================================================================
