----------------------------- MODULE SerialWires -----------------------------
(***************************************************************************)
(* What the command dispatcher promises whoever asks it for something       *)
(* (src/multibus/command_dispatch.py, the module's comment): a wire does    *)
(* one job at a time; a job is done at most once, or its asker is told that *)
(* nothing was written and it never is; what is urgent goes first, in the   *)
(* order it was asked, and of two jobs for the same slot the older one.     *)
(* Queues, threads, deadlines and who is told when are left out.            *)
(***************************************************************************)
EXTENDS Naturals, Sequences

CONSTANTS Ask,
          Wire,
          WireOf,   \* [Ask -> Wire]
          SlotOf,   \* the device and channel of each
          Urgent    \* a subset of Ask

VARIABLES
    asked,    \* what was asked so far; a job is its number in it
    open,     \* jobs that may still be done
    begun,    \* jobs that were begun
    refused,  \* jobs of which nothing is written
    on        \* per wire: the job being done there, if any

vars == <<asked, open, begun, refused, on>>

Init ==
    /\ asked = << >> /\ open = {} /\ begun = {} /\ refused = {}
    /\ on = [w \in Wire |-> {}]

(* An open job k is to be done before j. *)
Before(k, j) ==
    LET a == asked[k]
        b == asked[j]
    IN \/ a \in Urgent /\ WireOf[a] = WireOf[b] /\ (b \in Urgent => k < j)
       \/ a \notin Urgent /\ b \notin Urgent /\ SlotOf[a] = SlotOf[b] /\ k < j

(* A job is asked: it stays open, or is refused at once, or takes the place *)
(* of one for the same slot, which is not urgent.                           *)
NewJob(a) ==
    LET n == Len(asked) + 1
        older == {k \in open : asked[k] \notin Urgent /\ SlotOf[asked[k]] = SlotOf[a]}
    IN /\ asked' = Append(asked, a)
       /\ \E out \in {{}, {n}} \cup {{k} : k \in older} :
            /\ open' = (open \cup {n}) \ out
            /\ refused' = refused \cup out
       /\ UNCHANGED <<begun, on>>

TakeBack(S) ==
    /\ S \subseteq open
    /\ open' = open \ S /\ refused' = refused \cup S
    /\ UNCHANGED <<asked, begun, on>>

Begin(j) ==
    LET w == WireOf[asked[j]] IN
    /\ j \in open /\ \A k \in open : ~Before(k, j)
    /\ on[w] = {} /\ on' = [on EXCEPT ![w] = {j}]
    /\ open' = open \ {j} /\ begun' = begun \cup {j}
    /\ UNCHANGED <<asked, refused>>

End(w) ==
    /\ on[w] # {} /\ on' = [on EXCEPT ![w] = {}]
    /\ UNCHANGED <<asked, open, begun, refused>>

Next ==
    \/ \E a \in Ask : NewJob(a)
    \/ \E S \in SUBSET open : TakeBack(S)
    \/ \E j \in open : Begin(j)
    \/ \E w \in Wire : End(w)

Spec == Init /\ [][Next]_vars
=============================================================================
