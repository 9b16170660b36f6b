# TLA+ models of multi-bus-gateway

multi-bus-gateway reads field devices (Modbus RTU and TCP, HTTP, CAN, MQTT), publishes
their values (MQTT, InfluxDB, REST, OPC UA, virtual meters) and writes back to them, on
behalf of people, of panels, of an energy manager and of its own rules. It is one Python process with
many threads: the HTTP workers, the MQTT client's thread, one poller per device, one thread
per wire that has commands waiting, a sweeper of leases, one thread per running sequence.

This directory holds TLA+ modules of the parts where that concurrency decides whether a
device is left in a safe state, the TLC runs that check them on small instances, and proofs,
checked by TLAPS, that the main invariants hold for any instance.

    tlc -config MCCommandDispatch.cfg MCCommandDispatch      # one run
    tlapm CommandDispatchProofs.tla                          # one module's proofs

`PROJECT.json` lists every component, run, mutant, finding, hazard and theorem, and for each definition
the lines of `src/` it stands for.


## 1. Inventory

Paths are relative to `src/multibus/` unless they start with `src/`. "H" names what is hard.

### What writes to devices

**Command dispatcher** (`command_dispatch.py`). State: a lane per wire (the reverts at its
head, the deques of its devices, their round robin, its thread), the closing and stopped
flags, and each job's verdict and done event. Operations: `submit`, `submit_wait`, `wait_for`
with `withdraw`, `cancel`, `close`, `stop`, and the thread `_serve`. A caller takes jobs out
of a lane under the lock and tells their verdicts after it.
H: the idle exit of a thread against a submit; withdrawal against the start of a run; a newer
value that takes an older one's place; wires that must not wait for each other.
Correct when: one talker per wire; "nothing was written" is true; a value never overtakes a newer one; work always has
a thread; a device gets its turn; a dead-man's revert is never lost to the queue's rules.

**Write leases** (`write_lease.py`, with `api.py` 1606-1703, 3587-3728, 4257-4500 and
`src/main.py` `stop()`). State: the leases by register, a generation counter, the file that
mirrors them, the reverts in flight. Operations: `arm`, `clear`, `clear_device` and `drop_persisted` (the
device is handed over), the sweep, the revert callables, `stop`, boot recovery. It calls the dispatcher (a revert is a job at the head of
its lane) and is called by every write's record.
H: a renewal while the revert waits for the bus; a revert that fails; a crash; a shutdown with
its own reverts beside the sweeper's; a rule that writes outside the lane.
Correct when: a leased setpoint always has something that will undo it; a revert never
overwrites a newer setpoint; each setpoint ends in the end.

**Sequence runner** (`sequences.py`, `routes/sequences.py`). State: the table of live runs by
sequence, each run's step, status, cancel event and deadline. Operations: `start`, `cancel`, the thread
`_execute` with its steps and `on_abort`. It submits commands and waits for them.
H: two starts at once; a cancel or the deadline at every step; commands that fail while
undoing.
Correct when: one sequence per device; a run can be cancelled until it has ended; what an
aborted run must undo is all tried; every run ends.

**Write path and admission** (`api.py`, `commands.py`, `write_guard.py`, `encoder.py`).
Stateless checks, a rate bucket, the safety holder of a channel, the record of commands by id.
Correct when: what is encoded is what was asked; a refused command writes nothing.

**Rules** (`rules.py`, `rules_runtime.py`, `arbiter.py`). State: per rule what it wants, what it
commanded and whether that was confirmed, its send in flight, its pause; per channel the
state it is in and since when, the writes of the last hour. Operations: the tick (evaluate,
decide, submit), the writer of each device, arming, disarming with a release, override, the
pause an outside command causes.
H: a write decided in a tick and done after a wait for the bus; an outside command, a pause or a
disarm in between; a failing write beside a new decision; the channel's minimum times against two writers.
Correct when: an outside command that took the channel stands; a want is never forgotten; the device comes
to what the winner asks for; a released rule is silent; the device's protection is kept.

**Gateway role** (`role.py`, `api.py` 10990-11075). State: role and epoch, saved in a file.
Operations: `set` (only to a higher epoch), its listeners, the threads that stop or start
pollers and take leases over.
H: two role changes whose threads overlap; a save that fails after the role is assigned.
Correct when: no two gateways are active; a role that was answered survives a restart; a
gateway that has worked its last change off polls and publishes just when it is active.

### What reads and publishes

**InfluxDB publisher** (`influxdb_publisher.py`, `backfill.py`). State: the replay buffer and its bound, its
file and dirty flag, the last-written cache, the batching client, the monitor thread with a
chunk in flight. Operations: `write_device_data`, the client's success and error callbacks, the drain, the
snapshot, the monitor's check, `close`, `reconnect`, the load at boot.
H: overflow, a failed chunk put back, a file written while points arrive, `close` during a replay.
Correct when: a point accepted is written, or in the buffer, or counted as dropped; the change
detection does not remember a point that was given up; every point is settled in the end.

**Source arbiter, multi-source devices** (`source_arbiter.py`, `multi_source.py`,
`endpoint_aggregator.py`). State: the owner of each field. H: the hand-over when a source is
stale, its return. **Counter filter, thresholds, alerts** (`counter_filter.py`,
`threshold_engine.py`, `alerts.py`): per-register automata. H: jumps, resets, delays.
**Virtual meters** (`virtual_meter.py`, `virtual_meter_manager.py`, `linked_meter.py`). State: the rebuilt
registers, the refused spans, the last good values, the verdict of the last pass, the
server with its thread and its own copy of the registers, the supervisor's counters.
Operations: the pass (rebuild, swap the spans, judge, start, push and probe, stop), the
server thread's bind, crash and end. H: a source that ages while the server starts, hangs or
is backed off; a gap in a new block read as a zero; the gate of the next start. Correct when: what
a consumer can read is in date, or refused; no value is invented; a meter whose data is in date comes back.

**Calculated values**
(`calc_engine.py`, `expressions.py`), **MQTT** (`mqtt_*.py`), **REST push, power quality,
logs** (`rest_push.py`, `pq_recorder.py`, `event_log.py`), **OPC UA** (`opcua/`): values
computed and sent, little state that threads fight over.

### What reaches the wire

**Modbus client** (`modbus_client.py`). State: per access point a turnstile (a queue and a busy
flag) and one shared transport with its lock, its socket and its count of users; per unit its connection
(with a count of failed batches, and whether it is retired) and its pollers. Operations: a read with its attempts and
retries, a write, the wedged link's close, start, reload, reconnect, stop, resume of a unit.
H: units that stop, start, resume and reconnect in any order on one socket; a join that times out; a
device that goes and comes back; a thread that waited for its turn while its connection was retired.
Correct when: one transaction at a time; no socket is closed or swapped under one; the claims
on the socket are counted right; one poller set per unit; a device that is back is read again.

**Buses** (`buses.py`, `bus_claims.py`), **RTU tap**
(`rtu_tap.py`), **HTTP, CAN, Seplos clients**, **bridges** (`bridges.py`,
`src/serial-bridge/supervisor.py`): protocol I/O, timeouts and retries.

### What configures it

**Configuration** (`config*.py`, `save_merge.py`, `snapshots.py`), **device registry, runtime
and templates** (`device_*.py`), **discovery, scan, preview**, **authentication**, the other
**routes** and the **UI**.

### How the parts meet

A command from any face is admitted, becomes a job of its wire's lane, is run there under the
bus lock, and its record arms, renews or clears a lease. A lease that falls due submits a
revert job and waits for it. A sequence's thread submits commands and waits for each. A rule
writes inline, under the bus lock but in no lane. `stop()` closes the lanes, lets the leases
revert within a budget, then stops the dispatcher. A read of a poller and a write of any of
these queue at the same turnstile and use the same socket. What a poller reads goes to the
publishers and is what rules and virtual meters look at; the gateway's role stops and starts
the pollers and the outputs.


## 2. Modules

| module | models | theorems |
|---|---|---|
| `CommandDispatch` | `command_dispatch.py` | `CommandDispatchProofs` |
| `SerialWires` | what `command_dispatch.py` promises its callers: abstract, implemented by `CommandDispatch` | (in `CommandDispatchProofs`) |
| `WriteLease` | `write_lease.py`, the handlers of `api.py` and `main.py` around it | `WriteLeaseProofs` |
| `DeadMan` | what a write lease promises the device: abstract, implemented by `WriteLease` | (in `WriteLeaseProofs`) |
| `SequenceRunner` | `sequences.py` | `SequenceRunnerProofs` |
| `GatewayRole` | `role.py`, `PUT /api/role` and `_on_role_change` of `api.py` | `GatewayRoleProofs` |
| `Mastership` | what `role.py` says an epoch promises: abstract, implemented by `GatewayRole` | (in `GatewayRoleProofs`) |
| `ReplayBuffer` | the store-and-forward part of `influxdb_publisher.py` | `ReplayBufferProofs` |
| `RuleArbiter` | `arbiter.py`, the deciding and writing part of `rules.py` and `rules_runtime.py`, the outside commands of `api.py` | `RuleArbiterProofs` |
| `SharedWire` | the turnstile, shared transports, pollers and unit operations of `modbus_client.py` | `SharedWireProofs` |
| `VirtualMeter` | `virtual_meter.py`: resolution, supervisor, server thread | `VirtualMeterProofs` |
| `MC...` | the instances TLC checks | |

Definitions written `(* Mutant: ... *)` or `(* A fault: ... *)` are wrong versions of the definition that follows: replacing
the right one by it must break a property, which shows that the property looks at the code.

### CommandDispatch and SerialWires

Jobs are numbered by submit order. A device's deque is a set with `place`, the round robin is
`turn`; a superseding command inherits the place of the one it replaces, as the code's
`slot[i] = job` does. A lock's section is one action. `Submit` is the gate and `_admit`; a
verdict decided under the lock (`WillTell`) is told later (`Tell`), since `_complete` runs
outside it. `Answered`, `WaitEnds` and `Recheck` are the three looks of `wait_for`. `Close` (which cancels
the ordinary jobs with a verdict of its own, `closed`, and leaves the reverts),
`Stop` (the flag, set without the lock) and `StopCancel` are the ends. `TakeUrgent`,
`TakeNext`, `Begin`, `Finish`, `Free`, `IdleOut` are a pass of `_serve`. Deadlines are a choice: any waiting
job may become late (a revert never does).

`SerialWires` keeps what a caller can count on and forgets queues, threads, places, turns and
deadlines: what was asked, which of it is open, begun or refused, and what is on each wire. A job
begins when its wire is free and no open job goes before it (`Before`: an urgent one before all, in the
order asked; of one slot the older). `CommandDispatch` implements it (`PromiseKept`): `open` is what
waits in a lane, `begun` is `ran`, `refused` are the jobs with a verdict that nothing is written
(`NotWritten`, from the moment it is decided), and `OnWire` is the job in a thread's hand. A submit
that supersedes, finds its slot full or cancels nothing is one `NewJob`; a cancel, a close, a
withdrawal or an expired job is `TakeBack`; an idle exit, a telling or a look of a waiting caller is a stutter.

### WriteLease and DeadMan

One device, so one lane and one bus lock. Of the lane only what `CommandDispatch` shows is
kept: one job runs, reverts go first. A lease has its generation, whether it is due, its safe
value and the write it guards (a history number, so that a property can tell which setpoint a
revert was meant for). The revert callable is split where the code lets others in:
`RevertFirst` (the first `is_current`), `RevertTakesBus` (the second, under the bus lock),
`RevertWrites`, `RevertRecords`, then `SweepEnds` or `StopReverted`. A client writes
(`ClientWrite`) and arms or clears only afterwards (`ClientRecord`); so does a rule, without
the lane. `ClearDevice` (a role change or a deleted device) and `BootStandby` (a standby's start) let
leases go without undoing them; the registers are another's from then on (`HandOver`), and what they hold
is no longer this process's lease. `Faults` names what the environment may do: `fail`, `crash`, `stop`,
`rule`, `standby`, and four windows the code does not protect: `crash_unarmed` (a crash between a write
and its arming), `crash_boot` (one during boot recovery), `fail_stop` (a sweep's revert that fails while
`stop()` runs) and `rule_late` (a client that arms between a rule's write and its record).

`DeadMan` has two variables: what each register holds, and whether its dead-man is live, due, or none. A
leased setpoint comes with a live one (`Put`), which falls due by the clock, a shutdown or the end of the process;
the safe value goes out over a leased setpoint only if it is due, over one that ended its lease
never (`Undo`); a failed revert puts it off; it is let go only while no leased setpoint stands
(`LetGo`), or with the register, when that is handed over (`HandOver`). `WriteLease` implements it (`DeadManKept`, under `Guarding`) with `Guard(k)`: live while the client that
wrote has still to arm, else what the lease says, due while boot recovery has still to arm it, and due
with no process if there is a record on disk. Boot, arming, recording and the threads' steps are stutters.

### SequenceRunner

`start()` is two actions, because the code asks and registers under two holds of the lock, and the
instances have two threads that call it, as the program has. `raced` is a history variable: a run was
registered that `busy_with` would refuse by then.
A run is a record: where its thread is, its step, what of `on_abort` it tried, whether a
cancel or the deadline was set, its final status. The thread's actions are the loop's head
with a check (`NextStep`), a command's answer, the two waits, and the undoing. `Faults` names `eval`
(an expression raises, e.g. divides by zero, which aborts whatever `else` says) and `raise`
(an `on_abort` command raises instead of failing).

### GatewayRole and Mastership

Two gateways and the outside services that tell them their roles (external: a service asks every other
gateway to stand by, and has their answers, before it makes one active with a newer epoch). A
request once sent may be received at any time and again. `SetRole` is `set()` with its save,
`SetUnsaved` the same with a save that raises after the assignment; `Tell` hands the change to
the listener, whose thread does `Devices` and then `Outputs` for the role it was started with, whatever
the role is by then; only the start of a virtual meter asks again (`_may_serve`). There is a thread for
each change and nothing that orders them. `astray` is a history variable: the last change of a gateway was not
saved, or came while an earlier one was being worked off. `Restart` loads the saved role. `Mastership` has three
variables: the holder of the wire, who held it last and the newest term; one may take the
wire when nobody has it, and with an old term only if it was the last. `GatewayRole` implements it with
`holder` mapped to the active gateway (`HolderOf`); `last` and `term` are history variables of the detailed module.

### ReplayBuffer

A point is its number and its device. A poller's write is `Produce`, then `Enqueue` (to the
client) or `BufferPoint`, then `Confirm` (the cache of the change detection); the client's
batch lands or fails (`BatchLands`, `BatchFails` with the server's refusal of a poison point
or a deleted bucket). The monitor and the thread that closes both replay: `StartDrain`,
`TakeChunk`, `ReplayGroup`, `ReplayRefused`, `ReplayFails`, `GiveBack`; both write the file in two steps
(`Snapshot` under the lock, `WriteFile` outside it). `Exit`, `Crash` and `Reopen` are the ends
of a process and of a `reconnect()`. `InMemory` is everywhere a point can be while it is owed.

### RuleArbiter

One channel of one device, two rules. A tick is `TickBegins`, one `Evaluate` per rule by priority,
`Submit` of what was decided, `TickEnds`. The device's writer takes the bus (`HeadTakesBus`,
which looks a second time whether the send may still go out) and writes (`RunLands`,
`ReleaseLands`, `WriteFails`). An outside command is admitted (`Admit`, which pauses the rules),
takes the bus and lands or fails. `Arm`, `Disarm` (with its release), `Override` and `PauseEnds`
are the operator's, `Signal`, `Poll` and `Age` the world's. Comparisons with sequence numbers
(`send_no`, `seq`, generation) are kept as their outcomes.

### SharedWire

Two units behind one access point. A thread (a unit's pollers, the one writer) waits, queues
at the turnstile, is on the wire, backs off, or is in its batch's tail; `TakeTurn` is the turn, the
transport's lock and `_ensure_connected`, `Answered` and `NoAnswer` end a transaction, `BatchFailed`
counts the failed batch and closes a wedged link. A unit's operation holds its lifecycle lock
and goes through `Join` (or `JoinTimesOut`), `Release`, `Make`, `Open` and `Start`, as far as its kind needs:
a unit that is added makes a connection and claims its transport, one that resumes after a standby
opens the connection it had, which it no longer claims (`resumed` counts these).
`cut` records a socket closed or swapped under a transaction.

### VirtualMeter

Words are abstracted to the age of the measurement they carry, in periods of the supervisor. A pass is
`Rebuild`, `SwapSpans`, then the judgement: `StartServer`, `StartFails` (it raises), `NoStart`, `PushAndProbe` or
`StopStale` with `SupCloses`. The server's thread binds, is refused its port, crashes, wedges and comes
back. Reads have no action: whatever a listening server holds outside the refused spans can be
read in that state.


## 3. Runs

Passing runs:

| run | instance | what it shows |
|---|---|---|
| `dispatch` | 1 wire, 2 devices, 2 threads, 3 jobs of 5 kinds, slots of 2 | all safety of the dispatcher: `OneRunner`, `NothingWritten`, `NewerNeverFirst`, `WorkHasThread`, `RevertOnlyCancelled`, `FairTurns`, and that `CommandDispatch` implements `SerialWires` (`PromiseKept`) |
| `dispatch_live` | 2 wires, 1 device each, 2 jobs, callers that wait | a wire whose device hangs for good does not keep the other's jobs (`OtherWireServed`) nor its thread (`OtherLaneEnds`) |
| `lease` | 2 registers (one raw, one command), 2 writes, 1 crash or shutdown, failing devices, rules, hand-overs to a standby | that `WriteLease` implements `DeadMan` (`DeadManKept`), `LeasedIsGuarded`, `RevertIsCurrent`, `DiskHasTheLeases`, `LeasedEnds` |
| `seq` | 3 sequences on 2 devices, 2 runs, 2 threads that start them | `OverlapNeedsRace`, `CancelFindsLive`, `UndoneWhole`, `RunEnds` |
| `role` | 2 gateways, 4 epochs, late, repeated and overlapping requests, failing saves, restarts | `NotBothActive`, `AnsweredStays`, `Settled`, `RoleTakesEffect`, and that `GatewayRole` implements `Mastership` (`MastershipHolds`) |
| `replay` | 2 devices, 3 points of which one is refused, buffer of 2, 2 troubles | `Accounted`, `DroppedIsForgotten`, `EverySettles` |
| `rules` | a rule and a safety rule on one channel, values 0 and 1, 3 moves | `CommandStands`, `WantKept`, `ProtectionKept`, `ReleasedStays`, `Converges` |
| `wire` | 2 units, 2 attempts, a link wedged after 2 batches, 2 troubles (operations, resumes among them, outages) | `OneAtATime`, `SocketStays`, `ClaimsCounted`, `OneSweeper`, `ReadsComeBack` |
| `meter` | 2 rows (one can fall back, one pinned), 3 sources, policies `legacy` and `hold`, 1 trouble | `ServedInTime`, `NeverInvented`, `ComesBack` |

Three runs must find a violation, a disagreement of the code with its own words (the quotes are in
`PROJECT.json`, "findings"):

| run | property | what happens |
|---|---|---|
| `wire_retired` | `OneSocket` | a poller or writer looks whether its connection is retired, waits for its turn, and reopens the old transport beside the new one: two sockets on one access point |
| `wire_resume` | `SiblingsStay` | a unit that was on standby and resumed has no claim on the shared socket, and gives one up when it stops again: the socket of its sibling is closed |
| `seq_race` | `OneAtATime` | an HTTP worker and MQTT's thread both find a sequence free and both start it |

Other windows met while modelling the code leave open, and the properties above step around
them by name. Each is a hazard with a note in `PROJECT.json`, and the models show it with other constants:

- `command_dispatch.py:230`: a caller is told 504 "still running" of a command that was taken out of
  its lane and not yet told (any instance with a cancel and a caller that waits).
- `write_lease.py:328`: a sweeper's revert that fails beside `stop()` leaves the setpoint without lease or
  record (the fault `fail_stop`).
- `write_lease.py:169`: a renewal with another safe value is not persisted (`Safe` with two values).
- `api.py:3693`, `api.py:1698`: a crash between a leased write and its arming, or during boot recovery
  (the faults `crash_unarmed`, `crash_boot`).
- `api.py:4460`: a rule's write and the clear of the lease it replaces are apart: a client that arms
  between them loses its lease (the fault `rule_late`), and a due revert may write over the rule.
- `sequences.py:358`: an `on_abort` command that raises leaves the run "undoing" (the fault `raise`).
- `api.py:11040`: two quick role changes run their threads in any order: standby and then active are both
  answered, active's thread runs first, standby's stops the devices, and an active gateway polls
  nothing until its next change. `Settled` and `RoleTakesEffect` without their exception for `astray` find it;
  it is what `role.py:3-5` says of an active gateway that breaks.
- `role.py:145`: a gateway that finds its role file unreadable starts as a standby with epoch 0, and takes
  an epoch again that it had refused (not modelled).
- `virtual_meter.py:559`: a legacy row that had a value and lost it is served as the zero of a new block after
  its server restarted (`NeverInvented` speaks of rows that never had one).
- `influxdb_publisher.py:366`: a point buffered while the file is written is in memory only until the next change.

### Bounds, and why they are enough

`MaxJobs`, `MaxWrites`, `MaxEnds` and `MaxRuns` bound what the environment starts. No handler
looks at more than two jobs of a slot, two holders of a lease or two runs at once, so the
interleavings the properties are about need two or three: a slot with an older and a newer job
and a third that supersedes; a setpoint, its renewal and the write after a restart; two runs that start together. The safety results are then proved without any bound on these constants
(section 5). `lease` has one end of the process, a crash or a shutdown, and two writes, so a renewal, or the
write after the start. `SlotCap = 2` makes a full slot happen with three jobs. Two threads for one lane
are enough to have one end while another starts. Symmetry is used only for the threads, and
only in the run without liveness.

- `role`: `MaxEpoch = 4` gives each gateway two turns as the active one, so that a request of the first
  can arrive after the third.
- `replay`: three points over `Cap = 2` overflow the buffer; `Chunk = 2` over two buckets makes a chunk with two
  groups, of which the second may fail; two troubles are an outage and a crash or close in it.
- `rules`: the numbers a run of the code counts (`send_no`, `seq`) matter only as newer or not; three
  moves are a signal, a command or disarm against it, and a failure.
- `wire`: `Slots = 2` is a poller and the orphan a timed-out join leaves; `Retries` and `WedgedAt`
  of 2 have a second attempt and a second failed batch; two troubles put two operations (a stop and a
  resume, too), or an operation and an outage, beside each other. `Generation` follows from the troubles. `wire_resume`
  needs a third, the second stop.
- `meter`: `Bound` and `Hold` of one period, `Old` beyond every bound; two failed starts make the
  long wait; a trouble is a crash, a wedge, a start that raises or a failed bind, or the old server keeps the port.

### Fairness, and why the code justifies it

- `dispatch_live`: weak fairness of the steps of a thread while it serves the *other* wire,
  and of telling a verdict already decided. Nothing is assumed of the hung wire's thread, nor
  of submits, waits or cancels. A run of a device that answers ends, because every device call
  has a timeout; `_serve` loops until its lane is empty.
- `lease`: the clock runs (`Expire`), the sweeper ticks, threads and the lane go on, the
  process is restarted, a shutdown goes on. A device that fails is only assumed to answer at last
  if it is asked again and again (strong fairness of the successful answer): without it no
  dead-man can end anything. No fairness of the clients: `LeasedEnds` is about clients that stop renewing,
  which the bound on writes makes happen.
- `seq`: weak fairness of each run's thread. A command's answer comes (`submit_wait` has a
  limit), waits end by their own time. Nothing is assumed of cancels or deadlines.
- `role`: weak fairness of each gateway's telling and of its threads; none of requests, saves or restarts.
- `replay`: pollers, client, monitor and closing thread go on, an outage ends, the service
  manager starts a process that ended. Crashes and closes are bounded, not fair.
- `rules`: the rules thread, the writer, an admitted command and polling go on; minimum times and pauses
  end. Nothing of signals, commands, arming or failures.
- `wire`: weak fairness of each thread's steps and each unit's operation, and of the device's
  return (`ReadsComeBack` is about a device that comes back). One strong fairness, `WaiterGetsLock`: the
  transport's lock is free again and again between transactions, and of the threads that wait for it some one
  gets it; Python's locks do not promise which.
- `meter`: time passes, the supervisor's pass goes on, server threads bind, fail or come back from a wedge; the code has no
  other way to get its port back from a wedged loop. Two assumptions on speed: a server
  thread is built within one period, and the statements of its `finally` are one step.


## 4. The mutants

Every property of a passing run has a mutant in `PROJECT.json`: a mapped definition, and a
wrong version of it the way a bug would be (a thread started without looking, an idle exit without
the last look, a revert that does not ask again under the lock, a failed revert taken as done,
an undoing that stops at the first failure, an epoch that is not compared, a chunk that is not
put back, a swap of the socket that does not wait for the lock). TLC must find the property violated by it.


## 5. Proofs

Each `...Proofs` module proves `Spec => []IInv` in the usual three facts: `Init => IInv`, one lemma per action
(or group of actions that change the state alike) `IInv /\ A => IInv'`, and the invariants
from it. What the invariants need besides themselves:

**CommandDispatchProofs** (any wires, devices, threads, slot cap, jobs). `DispatchInvariant`,
`DispatchTyped`, `OneRunnerHolds`, `NothingWrittenHolds`, `NewerNeverFirstHolds`,
`WorkHasThreadHolds`, `RevertOnlyCancelledHolds`, `FairTurnsHolds`, `DispatchRefines`. The strengthening:
`Queued` (a waiting job is untold, not run, and its lane has a thread), `Served` (a thread and
the lane it serves name each other; the job in hand is in no queue), `SlotOrder` (in a slot
places grow with the job's number, also after a newer value took an older place: a
command only replaces the tail of its slot), `TurnOrder` (places of the round robin
are under the ticket; a device that had a turn during another's wait stands behind it).
The assumption is `DispatchAssumption`, types of the constants only. `DispatchRefines` says that `Spec`
implies `SerialWires`'s: from `IInv`, each action is a step of it or a stutter, one lemma per kind of step
(`SubmitRefines`, `TakeRefines`, `FinishRefines`, ...). What carries it: `SlotOrder`, since `TakeNext` gives the
device's smallest place and the promise speaks of the smallest number of a slot; `Served`, that a
wire whose thread is idle has no job in hand; and `OneRunner`, that its thread is its only one.

**WriteLeaseProofs** (any keys, safe values, faults, bounds). `LeaseInvariant`, `LeaseTyped`,
`RevertIsCurrentHolds`, `DiskHasTheLeasesHolds`, `LeasedIsGuardedHolds`, `LeaseRefines`. The strengthening:
`Exclusive` (who holds lane and bus), `Bounds` and `Generations` (a call and a lease with the
same generation guard the same write, a lower one an earlier write), `Latest` (a lease guards
its register's latest write, but for one that leaves leases alone or is still to be recorded),
`Recovered` (memory, disk and what boot still has to arm). `LeasedIsGuarded` is proved under
`Guarding`: none of the four windows of section 2 happens. Rules, hand-overs, failing devices, crashes and shutdowns
otherwise do. Under `Guarding`, `Reverting` says that the lease a revert was started for
stays due until it is dropped, and that a revert that ended well has written. `LeaseRefines` (under `Guarding`
too) says that `Spec` implies `DeadMan`'s. It needs two more facts, proved inductive beside `IInv`: `Aimed` (a
revert that holds the bus for a leased setpoint has that setpoint's lease, and never stands before one that
ended its lease) and `EndedIsFree` (such a setpoint has no lease, in memory or on disk, once it is recorded); one lemma per action
(`...Keeps`) shows both and the abstract step. It shows where the promise is earned: the second
`is_current`, under the bus lock; without it the client that renews between the two questions is undone.

**SequenceRunnerProofs** (any sequences, steps, devices, runs, and any number of threads that start runs).
`RunnerInvariant`, `UndoneWholeHolds`, `CancelFindsLiveHolds`, `OverlapNeedsRaceHolds`. That two runs share no
device (`OneAtATime`) is not true of the code and is not claimed: `seq_race` shows the race of two starts. What is
proved is that this race is the only way: until a run is registered that `busy_with` would refuse by
then (`raced`), the table is exact, so no undoing, deadline, cancel or exception makes runs overlap
or one that `cancel()` misses (`OverlapNeedsRace`); and with any races what `cancel()` finds has not
ended (`CancelFindsLive`), because a run that ends takes the entry of its name out, whichever run it
stands for. A fix has to make the question and the registration one.

**GatewayRoleProofs** (any gateways, epochs, faults). `RoleInvariant`, `RoleExclusive`
(`NotBothActive`), `RoleRemembers` (`AnsweredStays`) and `RoleRefines`: `Spec` implies
`Mastership`'s, step by step. The strengthening: memory is never older than disk
(`MemoryIsNewer`), what is told is saved (`TellingIsSaved`), and who is active, in memory or on
disk, with an epoch has every other gateway's answer that it stands by for that epoch
(`ActiveMayLead`, `DiskWasMaster`); two with epochs e < f cannot both be, since the first answered
an epoch above its own. `LastMayLead` carries it through a restart. `RoleSettles` (`Settled`) assumes
nothing of when changes come; its strengthening `WorkFits` says that all work under way is for the role there is,
unless the gateway is `astray`, and a change that comes when the earlier ones are worked off ends that.

**SharedWireProofs** (any units, attempts, bounds, troubles). `WireInvariant`, `WireOneAtATime`,
`WireSocketStays`, `WireClaimsCounted`, `WireOneSweeper`. The strengthening: `Attempts` (a thread that
is to use the wire has an attempt left and a connection with a transport), `Turns` (who is on the wire
has the turn, and its socket was not lost), `Lists` (an operation past its join has dropped the pollers
it told to stop; a poller not told is its unit's), `Counts` (each operation costs a trouble and makes at
most one connection and transport, so neither runs out) and `Claims` (every unit's connection has a transport; until a unit resumes, it is the registered one while the
unit uses it, so where nobody claims there is none). `WireClaimsCounted` counts the resumes against the users: that
a unit that resumed has no claim is the code's, and what follows is `wire_resume`. `WireTyped` and `WireInLine` are about the turnstile's queue: `Line` says that
who waits for a turn is in it, once, and nobody else is, so nothing left behind can keep the wire from those
who come; a turn missed removes its ticket (`MissTurn`, the library's `RemoveFirst`). The
assumption is `WireAssumption`.

**RuleArbiterProofs** (any rules, priorities, ways to combine, values, signals, changes).
`RuleInvariant`, `RuleCommandStands`, `RuleWantKept`, `RuleProtectionKept`, `RuleReleasedStays`. The
strengthening: `Line` (one rule has a job that is not done, the queue holds it once, and the writer has the bus
for what is at the head), `Decided`, `Unwanted` and `Protected` (a send decided in the tick, queued or
at work is not wanted any more once its rule left armed, and keeps the minimum time unless the channel moved and it
knows), `OutGentle` (the same for a command that holds the bus), `Stands` (while a command stands the
rules it paused are, no release is queued, no routine rule is at work) and `Kept`. They show which of the
code's three looks each property needs: `_recheck` and `still_wanted` under the bus lock carry
`CommandStands` and `ReleasedStays`; the tick's hold carries `ProtectionKept` only with the number of
the channel's last write (`moved`). `NoneAssumption` says that the value for "nothing" is no job.

**ReplayBufferProofs** (any devices, bounds, refused points, faults). `ReplayInvariant`, `ReplayTyped`,
`ReplayAccounts` (`Accounted`), `ReplayForgetsDropped`. The first lemmas are about `Only`, the members of a
sequence that are in a set, in their order: it is a recursive function, so that its typing and its range can
be proved by induction on its position (`Induction`, stated for a set of numbers, and proved by counting: if the
set missed m, its members up to m would map one to one into one fewer); `MCReplayBuffer` has TLC compare
`Only` with `SelectSeq`. The strengthening: `InHand` (a thread has a chunk exactly in the stages of its replay),
`LeavesClean` (an exit that had its time ends with no poller at work, the other thread out of its replay, the client
flushed and the file equal to the buffer) and `AllOwed` (`Accounted`, but a poller that has only its confirmation
left no longer accounts for its point: `Undelivered`). It shows what keeps a point through a replay: each group of a chunk is written,
refused in the open, or put back, and the prune counts what it cuts. Assumed of the constants beside their
types: `None` is not a write in progress nor a reason to close (`NoneAssumption`), and every point has a device.

**VirtualMeterProofs** (any rows, sources, bounds, policies, troubles). `MeterInvariant`, `MeterTyped`,
`MeterServedInTime` (`ServedInTime`), `MeterNeverInvents` (`NeverInvented`). For `ServedInTime` the strengthening is
`OneServer` (of the threads that were ever started only the one the meter names answers with the registers the pass
feeds), `BlockFits` (a block is in date when it is judged, and while a server has it or is built from it ages by no
more than the supervisor sleeps) and `WordsAreOut` (between passes a server has the words of the last one). The property
compares what one thread serves with what another judged a period ago; what carries it is
that every pass in which a meter listens ends in a push or in a stop; a start that raises leaves no server. Assumed beside types: the words for no value are no ages (`ValueAssumption`), `Old` is an age no policy allows even after
the longest sleep, and there are two threads to name, the one that ends and its successor: the code makes a
new `Thread` for each start. For `NeverInvented` the strengthening is
`Backed`: a legacy meter that is about to act on a fresh verdict, or has a
server's thread in any stage, has had a value for every row. The guard is in one line of the pass, the zero
would be in another thread's block: what carries it is that nothing starts a thread but that verdict.

Only model-checked: the liveness properties (`OtherWireServed`, `OtherLaneEnds`, `LeasedEnds`,
`RunEnds`, `RoleTakesEffect`, `EverySettles`, `Converges`, `ReadsComeBack`, `ComesBack`), since
TLAPS does not treat fairness and ENABLED here. Every invariant and every refinement a run checks is proved.


## 6. What is not modelled

Not in the modelled parts: the text of verdicts and logs, the audit and its file, the
published state, metrics, dry runs, the definitions' validation, the rate and bound gates of
admission (they refuse at once, so a refused command is one that was never submitted).
Left out of the modelled parts, each with what it means:

- `CommandDispatch`: `pending`, `drain` and the counters, which only read.
- `WriteLease`: a raw write whose answer is lost; a file that cannot be written; `export_mirror`, which only
  reads; and the take-over (`api.py` 11046-11067), which arms the leases a partner mirrored with the time
  they had left. The time as a standby is collapsed into the hand-over, since nothing is written in it.
- `GatewayRole`: one device and one group of outputs for each gateway; `role.json` can always be read
  (`role.py` 145-155 otherwise stands by with epoch 0, see section 3).
- `ReplayBuffer`: the line protocol, the rate limit, the heartbeat and the backfill of old ranges.
- `RuleArbiter`: what conditions and values evaluate to (a choice), schedules, hysteresis; of a channel's
  protection `min_interval_s` (`arbiter.py` 83-86, which holds any write, also one that does not switch) and the
  starts per hour (98-102): `ProtectionKept` is about `min_on_s` and `min_off_s`.
- `SharedWire`: `transaction()`, the take-over of the wire by a bus scan, the file of bus claims and the
  parsing of registers. `resume()` is not under the lifecycle lock in the code; in the model nothing else is done to a
  unit while it resumes.
- `VirtualMeter`: `stop()` and the manager, sums and constants, the encoding of words, the reaping of idle
  connections; a pass that raises (`virtual_meter.py` 1165-1167: it is logged, and the old frame stays for a period
  longer); and one bound stands for those of all rows and sources (611, 616, 644). That a wedged server's
  loop comes back is assumed.

Hazards without a property say so in `PROJECT.json`.

Not modelled at all, for one of three reasons (`PROJECT.json` gives each component's):

- *Protocol clients and faces* (HTTP, CAN and Seplos clients, RTU tap, MQTT, OPC UA, REST push,
  bridges, the UI): bytes and I/O, with the threads they have appearing as callers above.
- *Declarations and forms* (configuration, templates, discovery, preview, most HTTP routes,
  authentication): one request at a time over files or lookups. This is most of the code's lines; a model of
  it would restate it.
- *Arithmetic* (calculated values, counter filter, thresholds, encoders): floats and wall-clock
  time in sequential functions the repository's tests reach.


## 7. Plan

Done: the dispatcher, the leases, the sequences, the role, the replay buffer, the rules, the
shared wire and the virtual meter, with the proofs of section 5. Left, in this order:

1. `WriteLease` on top of `SerialWires`: its lane, now what `CommandDispatch` shows of one (one job, reverts
   first), as an instance of the abstract specification. Abstract specifications for the
   replay buffer and the virtual meter like `SerialWires` and `DeadMan`.
2. `WriteLease` with lost answers, a failing file and the take-over of a partner's leases; several devices on one wire.
3. `VirtualMeter` with `stop()`, the manager's restart and a pass that raises; the policies `sentinel` and `fail` in an instance.
4. `SourceArbiter`: the claims of each field and the hand-over between endpoints, with a
   standby's claims beside `GatewayRole`.
5. The counter filter and the threshold automata as operators against reference definitions over bounded inputs.
