---------------------------- MODULE MCRuleArbiter ----------------------------
EXTENDS RuleArbiter

CONSTANTS limit, guard

(* A rule of the normal layer and one of the safety layer. *)
Layers == [r \in {limit, guard} |-> IF r = guard THEN 90 ELSE 50]

(* The one starts and stops the device; the other, when it must, stops it at once. *)
Asks == [r \in {limit, guard} |->
    IF r = guard THEN {[v |-> None, fast |-> FALSE], [v |-> 0, fast |-> TRUE]}
    ELSE [v : {0, 1, None}, fast : {FALSE}]]
=============================================================================
