--------------------------- MODULE CommandDispatch ---------------------------
(***************************************************************************)
(* The command dispatcher (src/multibus/command_dispatch.py): every write   *)
(* a device is told goes through a lane, one per wire, served by a thread   *)
(* made on demand.  Every section the code runs under self._cond is one     *)
(* action; what a caller tells outside the lock (_complete) is another.     *)
(*                                                                          *)
(* Abstractions.  Jobs are numbered in the order submit() takes the lock.   *)
(* A deque is a set with an order: place[j] is a job's place in its         *)
(* device's deque, turn[d] a device's place in the round robin, the job     *)
(* number itself the order of the reverts.  Deadlines are not numbers: a    *)
(* waiting command may at any moment become late, and one that never does   *)
(* has no max_age_s.  A lane without jobs and thread is one not in _lanes.  *)
(***************************************************************************)
EXTENDS Naturals, Sequences, FiniteSets

CONSTANTS Lane,      \* the wires
          Device,
          LaneOf,    \* the wire of each device
          Channel,
          Intent,    \* a resolved command with its parameters, the value left out
          Thread,    \* the threads a lane may be given
          Ask,       \* the jobs callers submit
          SlotCap,   \* SLOT_CAP
          MaxJobs,   \* bound: how many jobs are submitted
          None       \* no thread, no lane

Kind == {"command", "sequence", "refresh", "revert"}
Job == [device : Device, channel : Channel, intent : Intent, kind : Kind,
        coalesce : BOOLEAN, waits : BOOLEAN]

ASSUME DispatchAssumption ==
    /\ LaneOf \in [Device -> Lane]
    /\ Ask \subseteq Job
    /\ SlotCap \in Nat
    /\ MaxJobs \in Nat
    /\ None \notin Thread /\ None \notin Lane

JobId == 1 .. MaxJobs
NoJob == 0

(* What a job can be told instead of being run: each says nothing was written. *)
(* "closed" is the code's 'cancelled' with the reason that close() gives.      *)
Refusal == {"superseded", "expired", "cancelled", "closed", "full", "put_off", "stopping"}
Verdict == Refusal \cup {"ran"}

VARIABLES
    jobs,      \* every job submitted so far, in that order
    urgent,    \* the reverts waiting at the head of their lane
    waiting,   \* the other jobs waiting
    place,     \* place of a waiting job in its device's deque
    turn,      \* place of a device in its lane's round robin
    ticket,    \* the last place given in a round robin
    turns,     \* history: the turns every other device had while this one waited
    late,      \* waiting jobs whose deadline has passed
    ran,       \* jobs whose run was started
    verdict,   \* what a job is being told, "none" before
    done,      \* jobs whose done event is set
    thread,    \* lane.thread
    serve,     \* where each thread is in _serve, on which lane, with which job
    caller,    \* the caller of wait_for
    closing,   \* _closing
    stopping   \* "no", "flagged" (_stopped is set), "cancelled"

queues == <<urgent, waiting, place, turn, ticket, turns>>
lanes == <<thread, serve>>
told == <<verdict, done>>
gate == <<closing, stopping>>
vars == <<jobs, queues, late, ran, told, lanes, caller, gate>>

Serving(at, l, j) == [at |-> at, lane |-> l, job |-> j]
Off == Serving("off", None, NoJob)
CallerState == {"none", "waiting", "rechecking", "answered", "still_running"}

TypeOK ==
    /\ jobs \in Seq(Job) /\ Len(jobs) <= MaxJobs
    /\ urgent \subseteq 1 .. Len(jobs) /\ waiting \subseteq 1 .. Len(jobs)
    /\ place \in [JobId -> Nat]
    /\ turn \in [Device -> Nat] /\ ticket \in Nat
    /\ turns \in [Device -> [Device -> Nat]]
    /\ late \subseteq JobId /\ ran \subseteq 1 .. Len(jobs) /\ done \subseteq JobId
    /\ verdict \in [JobId -> Verdict \cup {"none"}]
    /\ thread \in [Lane -> Thread \cup {None}]
    /\ serve \in [Thread -> [at : {"off", "idle", "busy", "told"},
                             lane : Lane \cup {None}, job : JobId \cup {NoJob}]]
    /\ caller \in [JobId -> CallerState]
    /\ closing \in BOOLEAN /\ stopping \in {"no", "flagged", "cancelled"}

Init ==
    /\ jobs = << >>
    /\ urgent = {} /\ waiting = {}
    /\ place = [j \in JobId |-> 0]
    /\ turn = [d \in Device |-> 0] /\ ticket = 0
    /\ turns = [d \in Device |-> [e \in Device |-> 0]]
    /\ late = {} /\ ran = {} /\ done = {}
    /\ verdict = [j \in JobId |-> "none"]
    /\ thread = [l \in Lane |-> None]
    /\ serve = [t \in Thread |-> Off]
    /\ caller = [j \in JobId |-> "none"]
    /\ closing = FALSE /\ stopping = "no"

-----------------------------------------------------------------------------
LaneJob(j) == LaneOf[jobs[j].device]
OfDevice(d) == {k \in waiting : jobs[k].device = d}
Slot(a) == {k \in waiting : jobs[k].device = a.device /\ jobs[k].channel = a.channel}
SameSlot(j, k) == jobs[j].device = jobs[k].device /\ jobs[j].channel = jobs[k].channel
IsTail(k, S) == k \in S /\ \A m \in S : place[m] <= place[k]

Mergeable(a) == a.kind = "command" /\ a.coalesce
SameIntent(a, b) == a.device = b.device /\ a.channel = b.channel /\ a.intent = b.intent

(* A caller that removed the jobs of S from the lanes will tell them v. *)
WillTell(S, v) == verdict' = [k \in JobId |-> IF k \in S THEN v ELSE verdict[k]]

(* A device that gets its first waiting job goes to the end of the round robin. *)
JoinRound(d) ==
    IF OfDevice(d) = {}
    THEN /\ turn' = [turn EXCEPT ![d] = ticket + 1]
         /\ ticket' = ticket + 1
         /\ turns' = [turns EXCEPT ![d] = [e \in Device |-> 0]]
    ELSE UNCHANGED <<turn, ticket, turns>>

(* Mutants of EnsureThread: one that does not look, one thread for all lanes. *)
EnsureAnother(l) ==
    \E t \in Thread :
        /\ serve[t] = Off
        /\ thread' = [thread EXCEPT ![l] = t]
        /\ serve' = [serve EXCEPT ![t] = Serving("idle", l, NoJob)]
EnsureShared(l) ==
    IF \E m \in Lane : thread[m] # None THEN UNCHANGED lanes ELSE EnsureAnother(l)

(* _ensure_thread: a lane without a thread is given one. *)
EnsureThread(l) ==
    IF thread[l] # None
    THEN UNCHANGED lanes
    ELSE \E t \in Thread :
            /\ serve[t] = Off
            /\ thread' = [thread EXCEPT ![l] = t]
            /\ serve' = [serve EXCEPT ![t] = Serving("idle", l, NoJob)]

-----------------------------------------------------------------------------
(* submit: the ways _admit (and the gate before it) can place the new job.   *)

Refused(j, v) ==
    /\ WillTell({j}, v)
    /\ UNCHANGED <<queues, lanes>>

AdmitRevert(j, a) ==
    /\ urgent' = urgent \cup {j}
    /\ EnsureThread(LaneOf[a.device])
    /\ UNCHANGED <<waiting, place, turn, ticket, turns, verdict>>

Supersede(j, a, old) ==
    /\ waiting' = (waiting \ {old}) \cup {j}
    /\ place' = [place EXCEPT ![j] = place[old]]
    /\ WillTell({old}, "superseded")
    /\ EnsureThread(LaneOf[a.device])
    /\ UNCHANGED <<urgent, turn, ticket, turns>>

Enqueue(j, a) ==
    /\ JoinRound(a.device)
    /\ waiting' = waiting \cup {j}
    /\ place' = [place EXCEPT ![j] = j]
    /\ EnsureThread(LaneOf[a.device])
    /\ UNCHANGED <<urgent, verdict>>

(* Mutant: any waiting command of the slot, not only its tail. *)
ReplacesAny(a, old) ==
    /\ old \in Slot(a)
    /\ Mergeable(a) /\ Mergeable(jobs[old]) /\ SameIntent(jobs[old], a)

(* The waiting command a new one is a newer value of. *)
Replaces(a, old) ==
    /\ IsTail(old, Slot(a))
    /\ Mergeable(a) /\ Mergeable(jobs[old]) /\ SameIntent(jobs[old], a)

SlotFull(a) == Cardinality(Slot(a)) >= SlotCap

Admit(j, a) ==
    \/ a.kind = "revert" /\ AdmitRevert(j, a)
    \/ a.kind = "refresh" /\ Slot(a) # {} /\ Refused(j, "put_off")
    \/ \E old \in waiting : Replaces(a, old) /\ Supersede(j, a, old)
    \/ /\ a.kind # "revert" /\ ~(a.kind = "refresh" /\ Slot(a) # {})
       /\ ~\E old \in waiting : Replaces(a, old)
       /\ IF SlotFull(a) THEN Refused(j, "full") ELSE Enqueue(j, a)

Submit(a) ==
    LET j == Len(jobs) + 1 IN
    /\ Len(jobs) < MaxJobs
    /\ jobs' = Append(jobs, a)
    /\ IF stopping # "no" \/ (closing /\ a.kind # "revert")
       THEN Refused(j, "stopping")
       ELSE Admit(j, a)
    /\ caller' = [caller EXCEPT ![j] = IF a.waits THEN "waiting" ELSE "none"]
    /\ UNCHANGED <<late, ran, done, gate>>

(* _complete, outside the lock, by whoever took the job out of its lane. *)
Tell(j) ==
    /\ verdict[j] # "none"
    /\ j \notin done
    /\ \A t \in Thread : serve[t].job # j
    /\ done' = done \cup {j}
    /\ UNCHANGED <<jobs, queues, late, ran, verdict, lanes, caller, gate>>

PassDeadline(j) ==
    /\ j \in waiting
    /\ late' = late \cup {j}
    /\ UNCHANGED <<jobs, queues, ran, told, lanes, caller, gate>>

-----------------------------------------------------------------------------
(* The callers.  wait_for: the wait ends, or the verdict came. *)

(* Mutant: the jobs to take out stay where they are. *)
TakeOutNone(S) == UNCHANGED <<urgent, waiting, place, turn, ticket, turns>> /\ S \subseteq JobId

TakeOut(S) ==
    /\ urgent' = urgent \ S
    /\ waiting' = waiting \ S
    /\ UNCHANGED <<place, turn, ticket, turns>>

Answered(j) ==
    /\ caller[j] = "waiting"
    /\ j \in done
    /\ caller' = [caller EXCEPT ![j] = "answered"]
    /\ UNCHANGED <<jobs, queues, late, ran, told, lanes, gate>>

(* The wait ends first: withdraw() under the lock, else look once more. *)
WaitEnds(j) ==
    /\ caller[j] = "waiting"
    /\ j \notin done
    /\ IF j \in urgent \cup waiting
       THEN /\ TakeOut({j})
            /\ WillTell({j}, "cancelled")
            /\ caller' = [caller EXCEPT ![j] = "answered"]
       ELSE /\ caller' = [caller EXCEPT ![j] = "rechecking"]
            /\ UNCHANGED <<queues, verdict>>
    /\ UNCHANGED <<jobs, late, ran, done, lanes, gate>>

Recheck(j) ==
    /\ caller[j] = "rechecking"
    /\ caller' = [caller EXCEPT ![j] = IF j \in done THEN "answered" ELSE "still_running"]
    /\ UNCHANGED <<jobs, queues, late, ran, told, lanes, gate>>

(* cancel(device) and cancel(): the reverts too. *)
Cancel(D) ==
    LET out == {j \in urgent \cup waiting : jobs[j].device \in D} IN
    /\ out # {}
    /\ TakeOut(out)
    /\ WillTell(out, "cancelled")
    /\ UNCHANGED <<jobs, late, ran, done, lanes, caller, gate>>

(* Mutant: the reverts that wait go with the rest. *)
CloseDropsReverts ==
    /\ ~closing
    /\ closing' = TRUE
    /\ TakeOut(urgent \cup waiting)
    /\ WillTell(urgent \cup waiting, "closed")
    /\ UNCHANGED <<jobs, late, ran, done, lanes, caller, stopping>>

(* close(): nothing new but the reverts, what waits is cancelled but them. *)
Close ==
    /\ ~closing
    /\ closing' = TRUE
    /\ TakeOut(waiting)
    /\ WillTell(waiting, "closed")
    /\ UNCHANGED <<jobs, late, ran, done, lanes, caller, stopping>>

(* stop(): the flag is set without the lock, then everything is cancelled. *)
Stop ==
    /\ stopping = "no"
    /\ stopping' = "flagged"
    /\ UNCHANGED <<jobs, queues, late, ran, told, lanes, caller, closing>>

StopCancel ==
    /\ stopping = "flagged"
    /\ stopping' = "cancelled"
    /\ TakeOut(urgent \cup waiting)
    /\ WillTell(urgent \cup waiting, "cancelled")
    /\ UNCHANGED <<jobs, late, ran, done, lanes, caller, closing>>

-----------------------------------------------------------------------------
(* The threads of the lanes (_serve). *)

LaneUrgent(l) == {j \in urgent : LaneJob(j) = l}
LaneWaiting(l) == {j \in waiting : LaneJob(j) = l}
Idle(t) == serve[t].at = "idle"

(* The job taken is run, or told it waited too long. *)
Begin(t, j) ==
    /\ serve' = [serve EXCEPT ![t] = Serving("busy", serve[t].lane, j)]
    /\ IF j \in late
       THEN WillTell({j}, "expired") /\ UNCHANGED ran
       ELSE ran' = ran \cup {j} /\ UNCHANGED verdict
    /\ UNCHANGED <<jobs, late, done, thread, caller, gate>>

(* Mutant: the newest revert goes first. *)
TakeUrgentNewest(t) ==
    /\ Idle(t)
    /\ \E j \in LaneUrgent(serve[t].lane) :
          /\ \A k \in LaneUrgent(serve[t].lane) : k <= j
          /\ TakeOut({j})
          /\ Begin(t, j)

TakeUrgent(t) ==
    /\ Idle(t)
    /\ \E j \in LaneUrgent(serve[t].lane) :
          /\ \A k \in LaneUrgent(serve[t].lane) : j <= k
          /\ TakeOut({j})
          /\ Begin(t, j)

(* Mutant: the device that had its turn keeps its place in the round. *)
StaysFirst(d, more) ==
    /\ more \in BOOLEAN
    /\ UNCHANGED <<turn, ticket>>
    /\ turns' = [e \in Device |->
                    IF e = d THEN [f \in Device |-> 0]
                    ELSE IF OfDevice(e) # {} /\ LaneOf[e] = LaneOf[d]
                         THEN [turns[e] EXCEPT ![d] = @ + 1] ELSE turns[e]]

(* The device whose turn it is gives its oldest job and, when more of its   *)
(* jobs wait, goes to the end of the round.                                 *)
EndOfRound(d, more) ==
    /\ turn' = IF more THEN [turn EXCEPT ![d] = ticket + 1] ELSE turn
    /\ ticket' = IF more THEN ticket + 1 ELSE ticket
    /\ turns' = [e \in Device |->
                    IF e = d THEN [f \in Device |-> 0]
                    ELSE IF OfDevice(e) # {} /\ LaneOf[e] = LaneOf[d]
                         THEN [turns[e] EXCEPT ![d] = @ + 1] ELSE turns[e]]

TakeNext(t) ==
    /\ Idle(t)
    /\ LaneUrgent(serve[t].lane) = {}
    /\ \E j \in LaneWaiting(serve[t].lane) :
          LET d == jobs[j].device IN
          /\ \A k \in LaneWaiting(serve[t].lane) : turn[d] <= turn[jobs[k].device]
          /\ \A k \in OfDevice(d) : place[j] <= place[k]
          /\ waiting' = waiting \ {j}
          /\ EndOfRound(d, OfDevice(d) # {j})
          /\ Begin(t, j)
    /\ UNCHANGED <<urgent, place>>

(* run() returned or crashed: the job is told before the lane is free. *)
Finish(t) ==
    /\ serve[t].at = "busy"
    /\ LET j == serve[t].job IN
       /\ WillTell({j}, IF verdict[j] = "none" THEN "ran" ELSE verdict[j])
       /\ done' = done \cup {j}
    /\ serve' = [serve EXCEPT ![t] = [@ EXCEPT !.at = "told"]]
    /\ UNCHANGED <<jobs, queues, late, ran, thread, caller, gate>>

(* Mutant: the lane is never free again. *)
NeverFree(t) == serve[t].at = "told" /\ UNCHANGED vars

Free(t) ==
    /\ serve[t].at = "told"
    /\ serve' = [serve EXCEPT ![t] = Serving("idle", serve[t].lane, NoJob)]
    /\ UNCHANGED <<jobs, queues, late, ran, told, thread, caller, gate>>

(* Mutant: the thread ends without a last look at its lane. *)
EndsBlind(t) ==
    /\ Idle(t)
    /\ thread' = [thread EXCEPT ![serve[t].lane] = IF @ = t THEN None ELSE @]
    /\ serve' = [serve EXCEPT ![t] = Off]
    /\ UNCHANGED <<jobs, queues, late, ran, told, caller, gate>>

(* Nothing came for idle_s, or the dispatcher is stopped: the thread ends. *)
IdleOut(t) ==
    /\ Idle(t)
    /\ LaneUrgent(serve[t].lane) = {} /\ LaneWaiting(serve[t].lane) = {}
    /\ thread' = [thread EXCEPT ![serve[t].lane] = IF @ = t THEN None ELSE @]
    /\ serve' = [serve EXCEPT ![t] = Off]
    /\ UNCHANGED <<jobs, queues, late, ran, told, caller, gate>>

-----------------------------------------------------------------------------
Serve(t) == TakeUrgent(t) \/ TakeNext(t) \/ Finish(t) \/ Free(t) \/ IdleOut(t)
Wait(j) == Answered(j) \/ WaitEnds(j) \/ Recheck(j)

Next ==
    \/ \E a \in Ask : Submit(a)
    \/ \E j \in JobId : Tell(j) \/ PassDeadline(j) \/ Wait(j)
    \/ \E d \in Device : Cancel({d})
    \/ Cancel(Device)
    \/ Close \/ Stop \/ StopCancel
    \/ \E t \in Thread : Serve(t)

Spec == Init /\ [][Next]_vars

(* The threads of the lanes in L go on while they have something to do      *)
(* (run() returns: device calls have timeouts), and whoever took a job out  *)
(* of a lane tells it.                                                      *)
FairOn(L) ==
    /\ \A t \in Thread : WF_vars(serve[t].lane \in L /\ Serve(t))
    /\ \A j \in JobId : WF_vars(Tell(j))

-----------------------------------------------------------------------------
(* One wire, one talker: two threads never run a job of the same lane        *)
(* (_ensure_thread, _serve's idle exit: command_dispatch.py 334-367).        *)
OneRunner ==
    \A t, u \in Thread :
        t # u /\ serve[t].lane \in Lane => serve[t].lane # serve[u].lane

(* A job told "nothing written" never runs, neither before nor after: no     *)
(* withdrawal, supersede, cancel, close or expiry meets a run of the same job. *)
NothingWritten == \A j \in ran : verdict[j] \notin Refusal

(* CMD-Q-2: within a slot a newer command never goes before an older one,    *)
(* although a newer value takes an older place in the device's queue.        *)
NewerNeverFirst ==
    \A j \in waiting, k \in ran :
        jobs[k].kind # "revert" /\ SameSlot(j, k) => k < j

(* A lane with work always has a thread that serves it: the idle exit never  *)
(* races a submit into an orphaned job.                                      *)
WorkHasThread ==
    \A j \in urgent \cup waiting :
        \E t \in Thread : serve[t].lane = LaneJob(j)

(* The dead-man's revert is only ever taken back by its caller, a cancel or  *)
(* the stop: it is never superseded, expired or refused for a full slot, and *)
(* a closing gate neither refuses it nor drops it where it waits             *)
(* (command_dispatch.py 260-275).                                            *)
RevertOnlyCancelled ==
    \A j \in 1 .. Len(jobs) :
        jobs[j].kind = "revert" =>
            /\ verdict[j] \in {"none", "ran", "cancelled", "stopping"}
            /\ verdict[j] = "stopping" => stopping # "no"

(* CMD-Q-1 among the devices of one wire: while a device's command waits, no *)
(* other device of its lane has two turns.                                   *)
FairTurns == \A d, e \in Device : OfDevice(d) # {} => turns[d][e] <= 1

(* What the promise sees of this state. *)
OnWire == [l \in Lane |->
    {j \in ran : \E t \in Thread :
                    serve[t].at = "busy" /\ serve[t].lane = l /\ serve[t].job = j}]

NotWritten == {j \in JobId : verdict[j] \in Refusal}

Promise == INSTANCE SerialWires WITH
    Wire <- Lane,
    WireOf <- [a \in Job |-> LaneOf[a.device]],
    SlotOf <- [a \in Job |-> <<a.device, a.channel>>],
    Urgent <- {a \in Job : a.kind = "revert"},
    asked <- jobs, open <- waiting \cup urgent, begun <- ran,
    refused <- NotWritten, on <- OnWire

(* The dispatcher with its queues, threads, deadlines and callers does what  *)
(* SerialWires promises: each wire serves what it is asked one by one, the   *)
(* reverts first, a slot in its order, and what is told "nothing written" is *)
(* taken out of the lane and never begun.                                    *)
PromiseKept == Promise!Spec

(* The inductive strengthening of the invariants above.  Queued says that a  *)
(* job in a queue belongs to nobody else, Served how the threads, their jobs *)
(* and the verdicts go together, SlotOrder that a slot is a FIFO although a  *)
(* newer value takes an older place, TurnOrder that a device that had its    *)
(* turn goes behind every device of its lane that still waits.               *)
Queued ==
    /\ \A j \in waiting : jobs[j].kind # "revert"
    /\ \A j \in urgent : jobs[j].kind = "revert"
    /\ \A j \in late : j <= Len(jobs) /\ jobs[j].kind # "revert"
    /\ \A j \in JobId : j > Len(jobs) => verdict[j] = "none"
    /\ \A j \in waiting \cup urgent :
          verdict[j] = "none" /\ j \notin ran /\ thread[LaneJob(j)] # None

Served ==
    /\ \A t \in Thread :
          /\ serve[t].at = "off" => serve[t] = Off
          /\ serve[t].at # "off" => serve[t].lane \in Lane
          /\ serve[t].at = "idle" => serve[t].job = NoJob
          /\ serve[t].at \in {"busy", "told"} =>
                /\ serve[t].job \in 1 .. Len(jobs)
                /\ serve[t].job \notin waiting \cup urgent
          /\ serve[t].at = "busy" =>
                verdict[serve[t].job] = IF serve[t].job \in ran THEN "none" ELSE "expired"
          /\ \A l \in Lane : thread[l] = t <=> serve[t].lane = l
    /\ \A t, u \in Thread : t # u /\ serve[t].job # NoJob => serve[t].job # serve[u].job

SlotOrder ==
    /\ \A j \in waiting : place[j] <= Len(jobs)
    /\ \A j, k \in waiting : SameSlot(j, k) /\ j < k => place[j] < place[k]

TurnOrder ==
    /\ \A d \in Device : turn[d] <= ticket
    /\ \A d, e \in Device :
          (/\ d # e /\ LaneOf[d] = LaneOf[e]
           /\ OfDevice(d) # {} /\ OfDevice(e) # {} /\ turns[d][e] > 0) => turn[d] < turn[e]
    /\ \A d, e \in Device : LaneOf[d] # LaneOf[e] => turns[d][e] = 0
    /\ \A d \in Device : turns[d][d] = 0

IInv ==
    /\ TypeOK /\ Queued /\ Served /\ SlotOrder /\ TurnOrder
    /\ NothingWritten /\ NewerNeverFirst /\ RevertOnlyCancelled /\ FairTurns

(* CMD-Q-1: whoever asked something of wire l is told the outcome, through    *)
(* every close, cancel and stop, even when the threads of the other wires     *)
(* never come back from their device.                                         *)
WireServed(l) == \A j \in JobId : (j <= Len(jobs) /\ LaneJob(j) = l) ~> (j \in done)

(* After stop() the thread of wire l ends, whatever the other wires do.       *)
LaneEnds(l) == (stopping = "cancelled") ~> (\A t \in Thread : serve[t].lane # l)
=============================================================================
