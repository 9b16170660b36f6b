------------------------------ MODULE GatewayRole ------------------------------
(***************************************************************************)
(* The role of a pair (or more) of gateways: role.py, PUT /api/role and the *)
(* work a change starts (_on_role_change in api.py).  The outside services  *)
(* that tell the gateways their roles are external: several may be at it,   *)
(* each with epochs of its own; one asks every other gateway to stand by    *)
(* before it makes one active.  Their requests may come late, out of order  *)
(* and again and again: a request once sent can be received at any time.    *)
(*                                                                          *)
(* Abstractions.  A restart is one step: what a dead gateway would have     *)
(* received comes after it.  A gateway has one device (the REST pushes and  *)
(* PQ recorders are started and stopped as its pollers are, by the thread   *)
(* of the change) and one virtual meter that only an active gateway serves. *)
(* role.json can always be read: a gateway that starts with an unreadable   *)
(* one stands by with epoch 0, and takes old epochs again.                  *)
(***************************************************************************)
EXTENDS Naturals, FiniteSets

CONSTANTS Gateway,
          First,      \* the gateway that is active at first
          MaxEpoch,   \* bound: the epochs the services use
          Nobody,     \* no gateway
          Faults      \* "savefail", "restart"

ASSUME RoleAssumption ==
    /\ First \in Gateway
    /\ Nobody \notin Gateway
    /\ MaxEpoch \in Nat \ {0}

Role == {"active", "standby"}
Epoch == 1 .. MaxEpoch
Request == [to : Gateway, role : Role, epoch : Epoch]
Ask(g, r, e) == [to |-> g, role |-> r, epoch |-> e]

VARIABLES
    plan,      \* the gateway an epoch is to make active
    acked,     \* requests answered 200
    role, epoch, \* of each gateway, in memory
    disk,      \* role.json
    telling,   \* requests that changed the role and have not told the listeners
    work,      \* the threads of _on_role_change
    polls,     \* the device's pollers run; what a standby's read is refused
    outputs,   \* the virtual meter serves
    astray,    \* history: the last change was not saved, or came while an
               \* earlier one was being worked off
    last, term \* history: the gateway active last, the newest epoch of one active

memory == <<role, epoch>>
effects == <<polls, outputs>>
vars == <<plan, acked, memory, disk, telling, work, effects, astray, last, term>>

TypeOK ==
    /\ plan \in [Epoch -> Gateway \cup {Nobody}]
    /\ acked \subseteq Request /\ telling \subseteq Request
    /\ role \in [Gateway -> Role] /\ epoch \in [Gateway -> Epoch]
    /\ disk \in [Gateway -> [role : Role, epoch : Epoch]]
    /\ work \subseteq [req : Request, at : {"devices", "outputs"}]
    /\ polls \in [Gateway -> BOOLEAN] /\ outputs \in [Gateway -> BOOLEAN]
    /\ astray \in [Gateway -> BOOLEAN]
    /\ last \in Gateway /\ term \in Epoch

(* Every gateway was told its role of the first epoch and has answered. *)
Init ==
    /\ plan = [e \in Epoch |-> IF e = 1 THEN First ELSE Nobody]
    /\ role = [g \in Gateway |-> IF g = First THEN "active" ELSE "standby"]
    /\ epoch = [g \in Gateway |-> 1]
    /\ disk = [g \in Gateway |-> [role |-> role[g], epoch |-> 1]]
    /\ acked = {Ask(g, role[g], 1) : g \in Gateway}
    /\ telling = {} /\ work = {}
    /\ polls = [g \in Gateway |-> g = First]
    /\ outputs = [g \in Gateway |-> g = First]
    /\ astray = [g \in Gateway |-> FALSE]
    /\ last = First /\ term = 1

-----------------------------------------------------------------------------
(* The services (external).                                                 *)
OthersStandBy(g, e) == \A h \in Gateway \ {g} : Ask(h, "standby", e) \in acked

(* A service may make g active with epoch e. *)
MayLead(g, e) == plan[e] = g /\ OthersStandBy(g, e)

Sent(m) ==
    \/ m.role = "standby" /\ plan[m.epoch] \notin {Nobody, m.to}
    \/ m.role = "active" /\ MayLead(m.to, m.epoch)

Assign(g, e) ==
    /\ plan[e] = Nobody
    /\ plan' = [plan EXCEPT ![e] = g]
    /\ UNCHANGED <<acked, memory, disk, telling, work, effects, astray, last, term>>

-----------------------------------------------------------------------------
(* GatewayRole.set, with the request thread around it.                      *)

(* Mutant: an older epoch is taken like any other. *)
AcceptsAnyEpoch(m) == m.epoch = epoch[m.to] => m.role = role[m.to]

Accepts(m) ==
    /\ m.epoch >= epoch[m.to]
    /\ m.epoch = epoch[m.to] => m.role = role[m.to]

Changes(m) == m.role # role[m.to]

Remember(m) ==
    /\ role' = [role EXCEPT ![m.to] = m.role]
    /\ epoch' = [epoch EXCEPT ![m.to] = m.epoch]

(* History: gateway g is active, with epoch e. *)
NoteActive(g, e) ==
    /\ last' = g
    /\ term' = IF e > term THEN e ELSE term

NoteIfActive(g, r, e) ==
    IF r = "active" THEN NoteActive(g, e) ELSE UNCHANGED <<last, term>>

(* Mutant: only a change of the role is written, a newer epoch alone is not. *)
SaveChangeOnly(m) ==
    disk' = IF Changes(m) THEN [disk EXCEPT ![m.to] = [role |-> m.role, epoch |-> m.epoch]] ELSE disk

Save(m) == disk' = [disk EXCEPT ![m.to] = [role |-> m.role, epoch |-> m.epoch]]

(* No change of g is being worked off. *)
Quiet(g) == /\ \A m \in telling : m.to # g
            /\ \A w \in work : w.req.to # g

(* Nothing waits for the work of an earlier change, here or in Tell. *)
SetRole(m) ==
    /\ Sent(m) /\ Accepts(m)
    /\ Remember(m) /\ Save(m)
    /\ NoteIfActive(m.to, m.role, m.epoch)
    /\ IF Changes(m)
       THEN /\ telling' = telling \cup {m}
            /\ astray' = [astray EXCEPT ![m.to] = ~Quiet(m.to)]
            /\ UNCHANGED acked
       ELSE acked' = acked \cup {m} /\ UNCHANGED <<telling, astray>>
    /\ UNCHANGED <<plan, work, effects>>

(* The role is in memory, writing it raises: the request fails, and the     *)
(* listeners of a change are not told.                                      *)
SetUnsaved(m) ==
    /\ "savefail" \in Faults
    /\ Sent(m) /\ Accepts(m)
    /\ Remember(m)
    /\ NoteIfActive(m.to, m.role, m.epoch)
    /\ astray' = [astray EXCEPT ![m.to] = @ \/ Changes(m)]
    /\ UNCHANGED <<plan, acked, disk, telling, work, effects>>

(* The listener starts its thread; the request is answered. *)
Tell(m) ==
    /\ m \in telling
    /\ telling' = telling \ {m}
    /\ work' = work \cup {[req |-> m, at |-> "devices"]}
    /\ acked' = acked \cup {m}
    /\ UNCHANGED <<plan, memory, disk, effects, astray, last, term>>

-----------------------------------------------------------------------------
(* _on_role_change's thread: it does what the role it was started for says,  *)
(* whatever the role is by then.                                             *)

(* Mutant: a gateway that becomes active does not start what a standby stopped. *)
StopOnly(w) ==
    /\ polls' = [polls EXCEPT ![w.req.to] = @ /\ w.req.role = "active"]
    /\ UNCHANGED outputs

StandbyOrResume(w) ==
    /\ polls' = [polls EXCEPT ![w.req.to] = w.req.role = "active"]
    /\ UNCHANGED outputs

Devices(w) ==
    /\ w \in work /\ w.at = "devices"
    /\ StandbyOrResume(w)
    /\ work' = (work \ {w}) \cup {[w EXCEPT !.at = "outputs"]}
    /\ UNCHANGED <<plan, acked, memory, disk, telling, astray, last, term>>

(* A standby stops the meter; a start asks the role again (_may_serve). *)
Outputs(w) ==
    LET g == w.req.to IN
    /\ w \in work /\ w.at = "outputs"
    /\ outputs' = [outputs EXCEPT ![g] = w.req.role = "active" /\ (@ \/ role[g] = "active")]
    /\ work' = work \ {w}
    /\ UNCHANGED <<plan, acked, memory, disk, telling, polls, astray, last, term>>

(* _load *)
Load(g) == disk[g]

(* The process dies and starts again with what is on disk. *)
Restart(g) ==
    /\ "restart" \in Faults
    /\ role' = [role EXCEPT ![g] = Load(g).role]
    /\ epoch' = [epoch EXCEPT ![g] = Load(g).epoch]
    /\ NoteIfActive(g, Load(g).role, Load(g).epoch)
    /\ telling' = {m \in telling : m.to # g}
    /\ work' = {w \in work : w.req.to # g}
    /\ polls' = [polls EXCEPT ![g] = Load(g).role = "active"]
    /\ outputs' = [outputs EXCEPT ![g] = Load(g).role = "active"]
    /\ astray' = [astray EXCEPT ![g] = FALSE]
    /\ UNCHANGED <<plan, acked, disk>>

Next ==
    \/ \E g \in Gateway, e \in Epoch : Assign(g, e)
    \/ \E m \in Request : SetRole(m) \/ SetUnsaved(m)
    \/ \E m \in telling : Tell(m)
    \/ \E w \in work : Devices(w) \/ Outputs(w)
    \/ \E g \in Gateway : Restart(g)

Spec == Init /\ [][Next]_vars

(* Threads run: a request that changed the role goes on to its listeners,   *)
(* and their threads to their end.                                          *)
Progress(g) ==
    \/ \E m \in telling : m.to = g /\ Tell(m)
    \/ \E w \in work : w.req.to = g /\ (Devices(w) \/ Outputs(w))
FairSpec == Spec /\ \A g \in Gateway : WF_vars(Progress(g))

-----------------------------------------------------------------------------
(* Properties.                                                              *)

(* No two gateways are active, whatever requests arrive late or again,      *)
(* whatever saves fail and whichever gateway restarts: set() refuses an     *)
(* older epoch, and what it answered survives a restart.                    *)
NotBothActive ==
    \A g, h \in Gateway : role[g] = "active" /\ role[h] = "active" => g = h

(* A request answered 200 is on disk, or a newer one is: set() saves before *)
(* it answers, and saves a newer epoch even when the role stays.            *)
AnsweredStays ==
    \A m \in acked :
        /\ disk[m.to].epoch >= m.epoch
        /\ disk[m.to].epoch = m.epoch => disk[m.to].role = m.role

(* A gateway that has worked its changes off polls and serves just when it   *)
(* is active, whatever failed, overlapped or restarted before its last       *)
(* change, if that change was saved and came when the ones before had been   *)
(* worked off.  One thread per change and nothing to order them: the stop of *)
(* an earlier standby may come last and leave an active gateway that polls   *)
(* nothing, so of changes that overlap (astray) nothing is said.             *)
Settled ==
    \A g \in Gateway :
        Quiet(g) /\ ~astray[g] => /\ polls[g] = (role[g] = "active")
                                  /\ outputs[g] = (role[g] = "active")

(* A gateway made active serves, unless its role changes again or the change *)
(* was not saved or overlapped another: its thread is never left half way.   *)
RoleTakesEffect ==
    \A g \in Gateway :
        role[g] = "active" ~> \/ polls[g] /\ outputs[g]
                              \/ role[g] = "standby" \/ astray[g]

(* The gateways share the wire as Mastership promises. *)
HolderOf(r) ==
    IF \A g \in Gateway : r[g] # "active" THEN Nobody ELSE CHOOSE g \in Gateway : r[g] = "active"
OneMaster == INSTANCE Mastership WITH holder <- HolderOf(role)
MastershipHolds == OneMaster!Spec

(* The inductive invariant. *)
MemoryIsNewer ==
    \A g \in Gateway :
        /\ disk[g].epoch <= epoch[g]
        /\ disk[g].epoch = epoch[g] => disk[g].role = role[g]
TellingIsSaved ==
    \A m \in telling :
        /\ disk[m.to].epoch >= m.epoch
        /\ disk[m.to].epoch = m.epoch => disk[m.to].role = m.role
ActiveMayLead ==
    \A g \in Gateway :
        /\ role[g] = "active" => MayLead(g, epoch[g]) /\ last = g /\ epoch[g] <= term
        /\ disk[g].role = "active" => MayLead(g, disk[g].epoch)
LastMayLead == MayLead(last, term)
DiskWasMaster ==
    \A g \in Gateway : disk[g].role = "active" => disk[g].epoch <= term
IInv == /\ TypeOK /\ AnsweredStays /\ MemoryIsNewer /\ TellingIsSaved
        /\ ActiveMayLead /\ LastMayLead /\ DiskWasMaster

(* The work under way is for the role there is, unless the last change came  *)
(* while others were worked off; its second half finds the first done.       *)
WorkFits ==
    \A g \in Gateway : ~astray[g] =>
        /\ \A m \in telling : m.to = g => m.role = role[g]
        /\ \A w \in work : w.req.to = g =>
              /\ w.req.role = role[g]
              /\ w.at = "outputs" => polls[g] = (role[g] = "active")
=============================================================================
