------------------------------- MODULE DeadMan -------------------------------
(***************************************************************************)
(* What a write lease promises the device (src/multibus/write_lease.py, the *)
(* module's comment): a leased setpoint always has something that will put  *)
(* it back, is put back only when its time since the last renewal is over,  *)
(* and a setpoint that ended its lease never is.  Generations, threads, the *)
(* lane, the file, shutdowns, crashes and boots are left out.               *)
(***************************************************************************)
CONSTANT Register

VARIABLES
    held,    \* what each register holds: its safe value, or a setpoint that
             \* is leased ("arm"), ends the lease ("clear") or leaves it ("keep")
    guard    \* its dead-man: "none", "live", or "due"

vars == <<held, guard>>

Init ==
    /\ held = [r \in Register |-> "safe"]
    /\ guard = [r \in Register |-> "none"]

(* A leased setpoint comes with a dead-man that has its whole time again. *)
Put(r, how) ==
    /\ held' = [held EXCEPT ![r] = how]
    /\ guard' = IF how = "arm" THEN [guard EXCEPT ![r] = "live"] ELSE guard

(* Time runs out for some: the clock, a shutdown, the end of the process. *)
FallsDue ==
    /\ \A r \in Register : guard'[r] # guard[r] => guard[r] = "live" /\ guard'[r] = "due"
    /\ guard' \in [Register -> {"none", "live", "due"}]
    /\ UNCHANGED held

(* The safe value goes out: over a leased setpoint only when its time is    *)
(* over, over one that ended the lease never.                               *)
Undo(r) ==
    /\ held[r] # "clear"
    /\ held[r] = "arm" => guard[r] = "due"
    /\ held' = [held EXCEPT ![r] = "safe"]
    /\ UNCHANGED guard

(* A device that did not answer is asked again later. *)
PutOff(r) ==
    /\ guard[r] = "due" /\ guard' = [guard EXCEPT ![r] = "live"]
    /\ UNCHANGED held

(* No dead-man is let go while its setpoint stands. *)
LetGo(r) ==
    /\ held[r] # "arm" /\ guard' = [guard EXCEPT ![r] = "none"]
    /\ UNCHANGED held

(* These registers are another's from now on, and so is what they hold.     *)
HandOver(S) ==
    /\ held' = [r \in Register |-> IF r \in S /\ held[r] = "arm" THEN "keep" ELSE held[r]]
    /\ guard' = [r \in Register |-> IF r \in S THEN "none" ELSE guard[r]]

Next ==
    \/ FallsDue
    \/ \E S \in SUBSET Register : HandOver(S)
    \/ \E r \in Register :
          \/ \E how \in {"arm", "clear", "keep"} : Put(r, how)
          \/ Undo(r) \/ PutOff(r) \/ LetGo(r)

Spec == Init /\ [][Next]_vars
=============================================================================
