------------------------------ MODULE WriteLease ------------------------------
(***************************************************************************)
(* The dead-man switch (src/multibus/write_lease.py) and what the API       *)
(* builds around it (api.py: the revert callables, _execute_raw, _record,   *)
(* boot recovery; main.stop): a leased write that is not renewed is put     *)
(* back to its safe value, across renewals, failures, a shutdown, a crash.  *)
(*                                                                          *)
(* One device, so one lane and one bus lock.  Of the lane only what the     *)
(* dispatcher promises is kept: one job runs, reverts go first.  The bus    *)
(* lock is held over one action, but by a revert from its last question to  *)
(* its write.  An expiry is not a time: a live lease may become due at any  *)
(* moment.  What a register holds is told by the write that put it there.   *)
(***************************************************************************)
EXTENDS Naturals

CONSTANTS Key,        \* the lease keys (register type, address) of the device
          Safe,       \* the safe values and safe recipes
          Kind,       \* Kind[k]: "raw" or "command", the namespace of the key
          Faults,     \* what the environment may do, see below
          Stopper,    \* the thread that runs stop(); each key has a revert thread
          None,
          MaxWrites,  \* bound: writes by clients and rules
          MaxEnds     \* bound: how often the process ends, by a crash or a shutdown

(* fail: a revert's write may fail, or the device not run.  crash: the       *)
(* process may die.  stop: it may be shut down.  rule: rules write too.      *)
(* standby: the device may be handed over (clear_device, drop_persisted).    *)
(* Four windows only with a fault of their own: crash_unarmed, a crash       *)
(* between a write and the arming of its lease; crash_boot, one while boot   *)
(* recovery arms what was on disk; fail_stop, a sweep's revert that fails    *)
(* while stop() runs; rule_late, a client that arms a key between a rule's   *)
(* write there and its record.                                               *)
Fault == {"fail", "crash", "stop", "rule", "standby",
          "crash_unarmed", "crash_boot", "fail_stop", "rule_late"}

ASSUME LeaseAssumption ==
    /\ Kind \in [Key -> {"raw", "command"}]
    /\ Faults \subseteq Fault
    /\ Stopper \notin Key /\ Stopper # None
    /\ None \notin Safe /\ None \notin Key
    /\ MaxWrites \in Nat /\ MaxEnds \in Nat

Caller == Key \cup {Stopper}   \* the threads that run a revert callable

VARIABLES
    reg,       \* what the register of each key holds: who wrote it, its safe value, which write
    lease,     \* _leases: generation, whether the expiry has passed, safe value, the write guarded
    gen,       \* _gen
    disk,      \* the persisted records
    call,      \* the revert callable each thread is in
    bus,       \* the revert that holds the bus lock
    client,    \* the client's job in the lane
    rule,      \* the rule's write, which is in no lane
    writes,    \* the writes so far
    up,        \* "down", "boot" (recovery arms what was on disk), "run", "stop", "stopped"
    todo,      \* boot recovery's records, or the shutdown's pending leases
    ticking,   \* the keys a sweep begun before stop() may still start a revert for
    spent,     \* the shutdown budget is over
    ends

vars == <<reg, lease, gen, disk, call, bus, client, rule, writes, up, todo, ticking, spent, ends>>
world == <<reg, bus, client, rule, writes>>
process == <<up, todo, ticking, spent, ends>>

NoLease == [gen |-> 0, due |-> FALSE, safe |-> None, n |-> 0]
Lease == [gen : Nat \ {0}, due : BOOLEAN, safe : Safe, n : Nat]
NoCall == [at |-> "none", key |-> None, gen |-> 0, safe |-> None, n |-> 0, ok |-> FALSE]
CallAt == {"first", "lane", "bus", "wrote", "returned", "ended"}
Call == [at : CallAt, key : Key, gen : Nat \ {0}, safe : Safe, n : Nat, ok : BOOLEAN]
NoWrite == [key |-> None, effect |-> "keep", safe |-> None]
Effect == {"arm", "clear", "keep"}  \* of a client's write on the lease of its key
Held == {"safe", "arm", "clear", "keep", "rule"}

TypeOK ==
    /\ reg \in [Key -> [held : Held, safe : Safe \cup {None}, n : Nat]]
    /\ lease \in [Key -> Lease \cup {NoLease}]
    /\ gen \in Nat
    /\ disk \in [Key -> Safe \cup {None}]
    /\ call \in [Caller -> Call \cup {NoCall}]
    /\ bus \in Caller \cup {None}
    /\ client \in [key : Key, effect : Effect, safe : Safe \cup {None}] \cup {NoWrite}
    /\ rule \in Key \cup {None}
    /\ writes \in Nat
    /\ up \in {"down", "boot", "run", "stop", "stopped"}
    /\ todo \in [Key -> Lease \cup {NoLease}]
    /\ ticking \subseteq Key
    /\ spent \in BOOLEAN
    /\ ends \in Nat

Nothing == [k \in Key |-> NoLease]

Init ==
    /\ reg = [k \in Key |-> [held |-> "safe", safe |-> None, n |-> 0]]
    /\ lease = Nothing /\ gen = 0
    /\ disk = [k \in Key |-> None]
    /\ call = [c \in Caller |-> NoCall]
    /\ bus = None /\ client = NoWrite /\ rule = None
    /\ writes = 0
    /\ up = "run" /\ todo = Nothing /\ ticking = {}
    /\ spent = FALSE /\ ends = 0

-----------------------------------------------------------------------------
(* The lease manager's sections under its lock. *)

Persist == disk' = [k \in Key |-> lease'[k].safe]

(* arm: a key that had a lease is renewed, and a renewal is not persisted.   *)
Arm(k, due, s, n) ==
    /\ gen' = gen + 1
    /\ lease' = [lease EXCEPT ![k] = [gen |-> gen + 1, due |-> due, safe |-> s, n |-> n]]
    /\ IF lease[k] = NoLease THEN Persist ELSE UNCHANGED disk

Drop(k) == lease' = [lease EXCEPT ![k] = NoLease]

(* Mutant: the record on disk stays. *)
ClearInMemory(k) == Drop(k) /\ UNCHANGED <<gen, disk>>

Clear(k) ==
    /\ Drop(k)
    /\ IF lease[k] # NoLease THEN Persist ELSE UNCHANGED disk
    /\ UNCHANGED gen

IsCurrent(c) ==
    LET cur == lease[call[c].key] IN cur # NoLease /\ cur.gen = call[c].gen /\ cur.due

Expire(k) ==
    /\ lease[k] # NoLease /\ ~lease[k].due
    /\ lease' = [lease EXCEPT ![k].due = TRUE]
    /\ UNCHANGED <<gen, disk, call, world, process>>

-----------------------------------------------------------------------------
(* Writes.  A client's job runs in the lane: it writes under the bus lock,   *)
(* and only then, the lock released, arms or clears the lease.               *)

Running == up \in {"run", "stop", "stopped"}
InLane(c) == call[c].at \in {"bus", "wrote"}
LaneFree == client = NoWrite /\ \A c \in Caller : ~InLane(c)
RevertWaits == \E c \in Caller : call[c].at = "lane"

Put(k, held, s) ==
    /\ writes < MaxWrites
    /\ writes' = writes + 1
    /\ reg' = [reg EXCEPT ![k] = [held |-> held, safe |-> s, n |-> writes + 1]]

(* A raw write of the API is leased or ends the lease, one of Home Assistant *)
(* leaves it alone; a command is leased, or clears with its safe value, or   *)
(* does neither.                                                             *)
ClientWrite(k, effect, s) ==
    /\ up = "run"
    /\ LaneFree /\ ~RevertWaits /\ bus = None
    /\ Put(k, effect, s)
    /\ client' = [key |-> k, effect |-> effect, safe |-> s]
    /\ UNCHANGED <<lease, gen, disk, call, bus, rule, process>>

ClientRecord ==
    /\ client # NoWrite
    /\ Running
    /\ client.effect = "arm" /\ rule = client.key => "rule_late" \in Faults
    /\ \/ client.effect = "arm" /\ Arm(client.key, FALSE, client.safe, reg[client.key].n)
       \/ client.effect = "clear" /\ Clear(client.key)
       \/ client.effect = "keep" /\ UNCHANGED <<lease, gen, disk>>
    /\ client' = NoWrite
    /\ UNCHANGED <<reg, call, bus, rule, writes, process>>

(* A rule's command goes inline: it takes the bus lock, but no lane.         *)
RuleWrite(k) ==
    /\ "rule" \in Faults /\ Kind[k] = "command"
    /\ up = "run" /\ rule = None /\ bus = None
    /\ Put(k, "rule", None)
    /\ rule' = k
    /\ UNCHANGED <<lease, gen, disk, call, bus, client, process>>

RuleRecord ==
    /\ rule # None
    /\ Running
    /\ Clear(rule)
    /\ rule' = None
    /\ UNCHANGED <<reg, call, bus, client, writes, process>>

-----------------------------------------------------------------------------
(* A revert callable, run by a thread of the sweep or by stop().             *)

Goes(c, at) == call' = [call EXCEPT ![c].at = at]
Returns(c, ok) == call' = [call EXCEPT ![c].at = "returned", ![c].ok = ok]
Starts(c, k, l) == call' = [call EXCEPT ![c] =
    [at |-> "first", key |-> k, gen |-> l.gen, safe |-> l.safe, n |-> l.n, ok |-> FALSE]]

(* _sweep: every due lease not in flight gets a thread; stop() ends the      *)
(* sweeps, but one may be under way.                                         *)
SweepFire(k) ==
    /\ up = "run" \/ k \in ticking
    /\ lease[k] # NoLease /\ lease[k].due
    /\ call[k] = NoCall
    /\ Starts(k, k, lease[k])
    /\ ticking' = ticking \ {k}
    /\ UNCHANGED <<lease, gen, disk, world, up, todo, spent, ends>>

(* A revert's write may fail, or its device not run. *)
MayFail(c) == "fail" \in Faults /\ (up = "run" \/ c = Stopper \/ "fail_stop" \in Faults)

(* The first question, and the submit of the lane job. *)
RevertFirst(c) ==
    /\ call[c].at = "first"
    /\ \/ ~IsCurrent(c) /\ Returns(c, TRUE)
       \/ IsCurrent(c) /\ Goes(c, "lane")
       \/ IsCurrent(c) /\ MayFail(c) /\ Returns(c, FALSE)
    /\ UNCHANGED <<lease, gen, disk, world, process>>

(* Mutant: the question is not asked again. *)
RevertTakesBusUnasked(c) ==
    /\ call[c].at = "lane"
    /\ LaneFree /\ bus = None
    /\ Goes(c, "bus") /\ bus' = c
    /\ UNCHANGED <<reg, lease, gen, disk, client, rule, writes, process>>

(* The lane's turn: the bus lock, and the question asked again under it.     *)
RevertTakesBus(c) ==
    /\ call[c].at = "lane"
    /\ LaneFree /\ bus = None
    /\ IF IsCurrent(c)
       THEN Goes(c, "bus") /\ bus' = c
       ELSE Returns(c, TRUE) /\ UNCHANGED bus
    /\ UNCHANGED <<reg, lease, gen, disk, client, rule, writes, process>>

RevertWrites(c) ==
    /\ call[c].at = "bus"
    /\ bus' = None
    /\ \/ /\ reg' = [reg EXCEPT ![call[c].key] =
                        [held |-> "safe", safe |-> call[c].safe, n |-> call[c].n]]
          /\ Goes(c, "wrote")
       \/ /\ MayFail(c)
          /\ Returns(c, FALSE)
          /\ UNCHANGED reg
    /\ UNCHANGED <<lease, gen, disk, client, rule, writes, process>>

(* Still in the lane: a command's own record clears the lease of its safe    *)
(* value; a raw write records nothing.                                       *)
RevertRecords(c) ==
    /\ call[c].at = "wrote"
    /\ IF Kind[call[c].key] = "command" THEN Clear(call[c].key) ELSE UNCHANGED <<lease, gen, disk>>
    /\ Returns(c, TRUE)
    /\ UNCHANGED <<world, process>>

(* Mutant: a failed revert is done too. *)
SweepEndsAnyway(k) ==
    /\ call[k].at = "returned"
    /\ IF IsCurrent(k) THEN Drop(k) /\ Persist ELSE UNCHANGED <<lease, disk>>
    /\ Goes(k, "ended")
    /\ UNCHANGED <<gen, world, process>>

(* _do_revert's end: done when the same lease is still due, else left alone; *)
(* a failed one is due again after a back-off.                               *)
SweepEnds(k) ==
    /\ call[k].at = "returned"
    /\ IF ~IsCurrent(k) THEN UNCHANGED <<lease, disk>>
       ELSE IF call[k].ok THEN Drop(k) /\ Persist
       ELSE lease' = [lease EXCEPT ![k].due = FALSE] /\ UNCHANGED disk
    /\ Goes(k, "ended")
    /\ UNCHANGED <<gen, world, process>>

(* Mutant: the key of a failed revert stays in flight. *)
SweepLandsDone(k) ==
    /\ call[k].at = "ended" /\ call[k].ok
    /\ call' = [call EXCEPT ![k] = NoCall]
    /\ UNCHANGED <<lease, gen, disk, world, process>>

(* _revert_in_flight: the key is no longer in flight. *)
SweepLands(k) ==
    /\ call[k].at = "ended"
    /\ call' = [call EXCEPT ![k] = NoCall]
    /\ UNCHANGED <<lease, gen, disk, world, process>>

-----------------------------------------------------------------------------
(* No failed revert of a sweep is still to be put off. *)
NoneToPutOff == \A k \in Key : call[k].at = "returned" => call[k].ok

(* Mutant: the leases are not made due, as before the audit of 2026-10-01. *)
StopBeginsUndue ==
    /\ "stop" \in Faults
    /\ NoneToPutOff \/ "fail_stop" \in Faults
    /\ ends < MaxEnds /\ ends' = ends + 1
    /\ up = "run"
    /\ up' = "stop"
    /\ todo' = lease
    /\ ticking' \in {{}, Key}
    /\ UNCHANGED <<lease, gen, disk, call, world, spent>>

(* stop(): every live lease is made due, then reverted one after the other.  *)
StopBegins ==
    /\ "stop" \in Faults
    /\ NoneToPutOff \/ "fail_stop" \in Faults
    /\ ends < MaxEnds /\ ends' = ends + 1
    /\ up = "run"
    /\ up' = "stop"
    /\ lease' = [k \in Key |-> IF lease[k] = NoLease THEN NoLease ELSE [lease[k] EXCEPT !.due = TRUE]]
    /\ todo' = lease'
    /\ ticking' \in {{}, Key}
    /\ UNCHANGED <<gen, disk, call, world, spent>>

StopNext(k) ==
    /\ up = "stop" /\ ~spent
    /\ todo[k] # NoLease
    /\ call[Stopper] = NoCall
    /\ todo' = [todo EXCEPT ![k] = NoLease]
    /\ Starts(Stopper, k, todo[k])
    /\ UNCHANGED <<lease, gen, disk, world, up, ticking, spent, ends>>

(* A revert that returned without raising ends its lease, unless renewed.    *)
StopReverted ==
    /\ up = "stop"
    /\ call[Stopper].at = "returned"
    /\ LET k == call[Stopper].key IN
       IF call[Stopper].ok /\ lease[k] # NoLease /\ lease[k].gen = call[Stopper].gen
       THEN Drop(k) /\ Persist ELSE UNCHANGED <<lease, disk>>
    /\ call' = [call EXCEPT ![Stopper] = NoCall]
    /\ UNCHANGED <<gen, world, process>>

BudgetEnds ==
    /\ up = "stop" /\ ~spent
    /\ spent' = TRUE
    /\ UNCHANGED <<lease, gen, disk, call, world, up, todo, ticking, ends>>

(* Past the budget a waiting revert is withdrawn, a running one left alone.  *)
StopWithdraws ==
    /\ up = "stop" /\ spent
    /\ call[Stopper].at = "lane"
    /\ Returns(Stopper, FALSE)
    /\ UNCHANGED <<lease, gen, disk, world, process>>

StopEnds ==
    /\ up = "stop"
    /\ \/ todo = Nothing /\ call[Stopper] = NoCall
       \/ spent /\ (call[Stopper] = NoCall \/ InLane(Stopper))
    /\ up' = "stopped"
    /\ UNCHANGED <<lease, gen, disk, call, world, todo, ticking, spent, ends>>

-----------------------------------------------------------------------------
(* The process ends: what is in memory is gone, the registers and the file   *)
(* stay.                                                                     *)
Dies ==
    /\ up' = "down"
    /\ lease' = Nothing /\ gen' = 0
    /\ call' = [c \in Caller |-> NoCall]
    /\ bus' = None /\ client' = NoWrite /\ rule' = None
    /\ todo' = Nothing /\ ticking' = {} /\ spent' = FALSE
    /\ UNCHANGED <<reg, disk, writes>>

CanDie == client # NoWrite => "crash_unarmed" \in Faults

Exit == up = "stopped" /\ CanDie /\ Dies /\ UNCHANGED ends

Crash ==
    /\ up # "down"
    /\ ends < MaxEnds
    /\ "crash" \in Faults
    /\ CanDie
    /\ up = "boot" => "crash_boot" \in Faults
    /\ Dies
    /\ ends' = ends + 1

(* Boot recovery: the records on disk are read once, then armed as already   *)
(* due one after the other, before the sweep and the clients start.          *)
Boot ==
    /\ up = "down"
    /\ up' = "boot"
    /\ todo' = [k \in Key |-> IF disk[k] = None THEN NoLease
                              ELSE [gen |-> 1, due |-> TRUE, safe |-> disk[k], n |-> writes]]
    /\ UNCHANGED <<lease, gen, disk, call, world, ticking, spent, ends>>

BootArm(k) ==
    /\ up = "boot"
    /\ todo[k] # NoLease
    /\ Arm(k, TRUE, todo[k].safe, todo[k].n)
    /\ todo' = [todo EXCEPT ![k] = NoLease]
    /\ UNCHANGED <<call, world, up, ticking, spent, ends>>

BootEnds ==
    /\ up = "boot" /\ todo = Nothing
    /\ up' = "run"
    /\ UNCHANGED <<lease, gen, disk, call, world, todo, ticking, spent, ends>>

-----------------------------------------------------------------------------
(* The device is another's from now on: the gateway became standby, or the   *)
(* device was deleted.  Its leases are let go and nothing is undone; what    *)
(* its registers hold is no longer held under a lease of this process.  The  *)
(* time as a standby is left out: nothing is written in it.                  *)

HandOver(k) == [reg[k] EXCEPT !.held = IF @ = "arm" THEN "keep" ELSE @]

(* clear_device; a client that is about to arm still does. *)
ClearDevice ==
    /\ "standby" \in Faults
    /\ Running
    /\ lease' = Nothing
    /\ IF lease # Nothing THEN Persist ELSE UNCHANGED disk
    /\ reg' = [k \in Key |-> IF k = client.key THEN reg[k] ELSE HandOver(k)]
    /\ UNCHANGED <<gen, call, bus, client, rule, writes, process>>

(* drop_persisted: a standby boots, and forgets what is on disk. *)
BootStandby ==
    /\ "standby" \in Faults
    /\ up = "down"
    /\ up' = "boot"
    /\ disk' = [k \in Key |-> None]
    /\ reg' = [k \in Key |-> HandOver(k)]
    /\ UNCHANGED <<lease, gen, call, bus, client, rule, writes, todo, ticking, spent, ends>>

-----------------------------------------------------------------------------
Clients == \E k \in Key :
    \/ \E s \in Safe : ClientWrite(k, "arm", s)
    \/ ClientWrite(k, "clear", None) \/ ClientWrite(k, "keep", None)
    \/ RuleWrite(k)
Records == ClientRecord \/ RuleRecord
Reverts(c) == RevertFirst(c) \/ RevertTakesBus(c) \/ RevertWrites(c) \/ RevertRecords(c)
Sweeps(k) == SweepFire(k) \/ SweepEnds(k) \/ SweepLands(k)
Stops == StopBegins \/ (\E k \in Key : StopNext(k)) \/ StopReverted \/ BudgetEnds \/ StopWithdraws \/ StopEnds
HandsOver == ClearDevice \/ BootStandby
Boots == Boot \/ (\E k \in Key : BootArm(k)) \/ BootEnds

Next ==
    \/ Clients \/ Records
    \/ \E k \in Key : Expire(k) \/ Sweeps(k)
    \/ \E c \in Caller : Reverts(c)
    \/ Stops \/ Exit \/ Crash \/ Boots \/ HandsOver

Spec == Init /\ [][Next]_vars

(* The clock runs, the sweep ticks, threads and the lane go on, the process  *)
(* is started again; a device that keeps being asked answers in the end.     *)
Fairness ==
    /\ \A k \in Key : WF_vars(Expire(k)) /\ WF_vars(Sweeps(k))
    /\ \A c \in Caller :
          /\ WF_vars(RevertTakesBus(c)) /\ WF_vars(RevertRecords(c))
          /\ SF_vars(RevertFirst(c) /\ call'[c].at = "lane")
          /\ SF_vars(RevertWrites(c) /\ call'[c].at = "wrote")
          /\ WF_vars(RevertFirst(c)) /\ WF_vars(RevertWrites(c))
    /\ WF_vars(Records) /\ WF_vars(Boots) /\ WF_vars(Exit)
    /\ WF_vars(Stops /\ up = "stop")
FairSpec == Spec /\ Fairness

-----------------------------------------------------------------------------
(* A revert past its last question, about to write, meets no setpoint that   *)
(* renewed or ended the lease meanwhile: the latest write of the register is *)
(* the one the lease guards, or one that leaves leases alone (write_lease.py *)
(* _is_current and _do_revert; api.py RD-4).                                 *)
RevertIsCurrent ==
    \A c \in Caller : call[c].at = "bus" =>
        \/ reg[call[c].key].n <= call[c].n
        \/ reg[call[c].key].held \in {"keep", "rule"}

(* A register held at a leased setpoint always has a dead-man: a lease in    *)
(* memory, a record boot recovery still has to arm, the writer about to arm  *)
(* it, or, with no process, a record on disk (write_lease.py 71, 88).        *)
LeasedIsGuarded ==
    \A k \in Key : reg[k].held = "arm" =>
        CASE up = "down" -> disk[k] # None
          [] up = "boot" -> lease[k] # NoLease \/ todo[k] # NoLease
          [] OTHER -> lease[k] # NoLease \/ client.key = k

(* The records on disk are those of the leases in memory: none is lost to a  *)
(* crash, none outlives its lease (_persist_locked).                         *)
DiskHasTheLeases ==
    up \in {"run", "stop", "stopped"} =>
        \A k \in Key : disk[k] # None <=> lease[k] # NoLease

(* What the dead-man's promise sees of this state: the writer that is about  *)
(* to arm its lease, what boot recovery still has to arm, the lease, or, with *)
(* no process, the record on disk.                                           *)
Guard(k) ==
    CASE up = "down" -> IF disk[k] = None THEN "none" ELSE "due"
      [] up # "down" /\ client.key = k /\ client.effect = "arm" -> "live"
      [] up = "boot" /\ todo[k] # NoLease -> "due"
      [] OTHER -> IF lease[k] = NoLease THEN "none" ELSE IF lease[k].due THEN "due" ELSE "live"

(* A rule's write leaves the dead-man as it is, until the rule's record.     *)
Holds(held) == IF held = "rule" THEN "keep" ELSE held

Promise == INSTANCE DeadMan WITH
    Register <- Key,
    held <- [k \in Key |-> Holds(reg[k].held)], guard <- [k \in Key |-> Guard(k)]

(* The leases do what DeadMan promises: a leased setpoint is undone only when *)
(* its time is over since its last renewal, one that ended its lease never,   *)
(* and no lease is let go while its setpoint stands, through reverts that     *)
(* wait, fail or overlap, shutdowns, crashes and boots.                       *)
DeadManKept == Promise!Spec

(* The inductive strengthening.  Exclusive: a client and the reverts share   *)
(* the lane, the reverts the bus.  Bounds: no generation and no write is      *)
(* from the future.  Generations: a call knows its lease by its generation,  *)
(* and what has the same generation guards the same write.                   *)
(* Latest: a lease guards the register's latest write but one that leaves    *)
(* leases alone or has a writer still to record it.  Recovered: what is in   *)
(* memory, on disk and to do while the process is down or boots.             *)
Exclusive ==
    /\ \A c \in Caller : call[c].at = "bus" => bus = c
    /\ \A c \in Caller : InLane(c) => client = NoWrite /\ \A b \in Caller : InLane(b) => b = c
    /\ \A k \in Key : call[k].at # "none" => call[k].key = k

Bounds ==
    /\ \A k \in Key : lease[k].gen <= gen /\ lease[k].n <= writes /\ reg[k].n <= writes
    /\ \A k \in Key : todo[k].n <= writes /\ (up = "stop" => todo[k].gen <= gen)
    /\ \A c \in Caller : call[c].gen <= gen /\ call[c].n <= writes

Generations ==
    /\ \A c \in Caller, k \in Key : call[c].key = k /\ lease[k].gen # 0 =>
          call[c].n <= lease[k].n /\ (call[c].gen = lease[k].gen => call[c].n = lease[k].n)
    /\ up = "stop" => \A k \in Key : todo[k].gen # 0 /\ lease[k].gen # 0 =>
          todo[k].n <= lease[k].n /\ (todo[k].gen = lease[k].gen => todo[k].n = lease[k].n)

Latest ==
    /\ \A k \in Key : lease[k].gen # 0 /\ client.key # k =>
          reg[k].n <= lease[k].n \/ reg[k].held \in {"keep", "rule"}
    /\ \A k \in Key : client.key = k =>
          /\ reg[k].held \in {client.effect, "rule"}
          /\ lease[k].n <= reg[k].n /\ todo[k].n <= reg[k].n
          /\ \A c \in Caller : call[c].key = k => call[c].n <= reg[k].n
          /\ client.effect = "arm" => client.safe # None

Recovered ==
    /\ up \in {"down", "boot"} =>
          client = NoWrite /\ rule = None /\ \A c \in Caller : call[c].at = "none"
    /\ ticking # {} => up \in {"stop", "stopped"}
    /\ up = "down" => \A k \in Key : lease[k].gen = 0 /\ todo[k].gen = 0
    /\ up = "boot" => \A k \in Key :
          /\ disk[k] # None => lease[k].gen # 0 \/ todo[k].gen # 0
          /\ lease[k].gen # 0 => disk[k] # None
          /\ todo[k].gen # 0 => lease[k].gen = 0 /\ reg[k].n <= todo[k].n

(* Where no setpoint is stranded: outside the four windows. *)
Guarding == Faults \cap {"crash_unarmed", "crash_boot", "fail_stop", "rule_late"} = {}

(* There the lease a revert was started for stays due until it is dropped,   *)
(* and one that ends as done has written.                                    *)
Reverting ==
    /\ rule # None => reg[rule].held # "arm" \/ client.key = rule
    /\ call[Stopper].at # "none" => up \in {"stop", "stopped"}
    /\ \A c \in Caller, k \in Key : call[c].key = k =>
          /\ call[c].at = "wrote" => reg[k].held # "arm"
          /\ lease[k].gen = call[c].gen /\ call[c].at # "ended" => lease[k].due
          /\ lease[k].gen = call[c].gen /\ call[c].at = "returned" /\ call[c].ok =>
                reg[k].held # "arm" \/ client.key = k
    /\ up \in {"stop", "stopped"} => NoneToPutOff
    /\ up = "stop" => \A k \in Key :
          todo[k].gen # 0 /\ lease[k].gen = todo[k].gen => lease[k].due

IInv ==
    /\ TypeOK /\ Exclusive /\ Bounds /\ Generations /\ Latest /\ Recovered
    /\ RevertIsCurrent /\ DiskHasTheLeases
    /\ Guarding => Reverting /\ LeasedIsGuarded

(* What the promise needs besides: a revert that holds the bus is aimed at   *)
(* the setpoint its lease guards, and a setpoint that ended its lease has    *)
(* none, in memory or on disk.                                               *)
Aimed ==
    \A c \in Caller, k \in Key : call[c].at = "bus" /\ call[c].key = k =>
        /\ reg[k].held # "clear"
        /\ reg[k].held = "arm" => lease[k].gen = call[c].gen

EndedIsFree ==
    \A k \in Key : reg[k].held = "clear" =>
        /\ lease[k] = NoLease \/ client.key = k
        /\ up = "down" => disk[k] = None
        /\ up = "boot" => todo[k] = NoLease

Aim == Aimed /\ EndedIsFree

(* The dead-man fires: no register stays at a leased setpoint for ever once  *)
(* the clients stop renewing (the bound on writes), through failures,        *)
(* ends, shutdowns and restarts.                                          *)
LeasedEnds == \A k \in Key : (reg[k].held = "arm") ~> (reg[k].held # "arm")
=============================================================================
