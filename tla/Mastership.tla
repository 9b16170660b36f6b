------------------------------ MODULE Mastership ------------------------------
(***************************************************************************)
(* What the role's epoch promises the devices (src/multibus/role.py, the    *)
(* module's comment): whatever arrives late, whatever fails and whatever    *)
(* restarts, the gateways hold the wire one at a time, and one that fell    *)
(* behind never takes it back.                                              *)
(***************************************************************************)
EXTENDS Naturals

CONSTANTS Gateway,
          Nobody

VARIABLES
    holder,   \* the active gateway, Nobody when there is none
    last,     \* the gateway that was active last
    term      \* the newest epoch with which one was active

Init == holder \in Gateway /\ last = holder /\ term \in Nat

Lose == holder' = Nobody /\ UNCHANGED <<last, term>>

(* Only the gateway that was last may take over without a newer epoch. *)
Take(g) ==
    /\ holder = Nobody
    /\ term' > term \/ (term' = term /\ g = last)
    /\ holder' = g /\ last' = g

(* The active gateway is told again that it is, with a newer epoch. *)
Confirm == term' > term /\ UNCHANGED <<holder, last>>

Next == Lose \/ Confirm \/ \E g \in Gateway : Take(g)

Spec == Init /\ [][Next]_<<holder, last, term>>
=============================================================================
