------------------------ MODULE CommandDispatchProofs ------------------------
(***************************************************************************)
(* The dispatcher's safety for any wires, devices, threads, slot cap and    *)
(* number of jobs: IInv of CommandDispatch is inductive, and the invariants *)
(* the runs check follow from it.                                           *)
(***************************************************************************)
EXTENDS CommandDispatch, TLAPS

(* What appending a job leaves of the jobs before it. *)
LEMMA Appended ==
    ASSUME TypeOK, NEW a \in Job, jobs' = Append(jobs, a)
    PROVE  /\ Len(jobs) \in Nat
           /\ jobs' \in Seq(Job)
           /\ Len(jobs') = Len(jobs) + 1
           /\ jobs'[Len(jobs) + 1] = a
           /\ \A k \in 1 .. Len(jobs) : jobs'[k] = jobs[k]
BY DEF TypeOK

(* The empty dispatcher satisfies the invariant. *)
LEMMA InitIInv == Init => IInv
<1> SUFFICES ASSUME Init PROVE IInv
  OBVIOUS
<1> USE DispatchAssumption DEF Init
<1>1. TypeOK
  <2>1. jobs \in Seq(Job) /\ Len(jobs) = 0
    OBVIOUS
  <2>2. serve \in [Thread -> [at : {"off", "idle", "busy", "told"},
                            lane : Lane \cup {None}, job : JobId \cup {NoJob}]]
    BY DEF Off, Serving
  <2>3. turns \in [Device -> [Device -> Nat]] /\ turn \in [Device -> Nat]
    OBVIOUS
  <2>4. verdict \in [JobId -> Verdict \cup {"none"}] /\ caller \in [JobId -> CallerState]
    BY DEF CallerState
  <2>5. Len(jobs) <= MaxJobs /\ place \in [JobId -> Nat]
    BY <2>1
  <2>6. thread \in [Lane -> Thread \cup {None}]
    OBVIOUS
  <2> QED
    BY <2>1, <2>2, <2>3, <2>4, <2>5, <2>6 DEF TypeOK
<1>2. Queued /\ SlotOrder /\ NothingWritten /\ NewerNeverFirst /\ RevertOnlyCancelled
  BY DEF Queued, SlotOrder, NothingWritten, NewerNeverFirst, RevertOnlyCancelled
<1>3. Served
  BY DEF Served, Off, Serving, NoJob
<1>4. TurnOrder /\ FairTurns
  BY DEF TurnOrder, FairTurns, OfDevice
<1> QED
  BY <1>1, <1>2, <1>3, <1>4 DEF IInv

(* Taking jobs out of their queues to tell them so: the common part of        *)
(* withdraw, cancel, close and stop; a close takes no revert.                 *)
LEMMA TakeOutIInv ==
    ASSUME IInv, NEW S, S \subseteq waiting \cup urgent,
           NEW v \in {"cancelled", "closed"}, v = "closed" => S \subseteq waiting,
           TakeOut(S), WillTell(S, v),
           UNCHANGED <<jobs, late, ran, done, lanes>>,
           caller' \in [JobId -> CallerState],
           closing' \in BOOLEAN, stopping' \in {"no", "flagged", "cancelled"},
           stopping # "no" => stopping' # "no"
    PROVE  IInv'
<1> USE DispatchAssumption DEF IInv, TakeOut, WillTell, lanes
<1>1. TypeOK'
  BY DEF TypeOK, Verdict, Refusal, JobId
<1>2. Queued'
  <2>1. \A k \in JobId : k \notin S => verdict'[k] = verdict[k]
    BY DEF TypeOK
  <2>2. \A k \in JobId : k > Len(jobs) => k \notin S
    <3>1. S \subseteq 1 .. Len(jobs) /\ Len(jobs) \in Nat
      BY DEF TypeOK
    <3> QED
      BY <3>1 DEF JobId
  <2>3. \A k \in waiting' \cup urgent' : k \in JobId /\ k \notin S
    BY DEF TypeOK, JobId
  <2> QED
    BY <2>1, <2>2, <2>3 DEF Queued, LaneJob
<1>3. Served'
  BY DEF Served, Queued, TypeOK, JobId, Off, Serving, NoJob
<1>4. SlotOrder' /\ NewerNeverFirst'
  BY DEF SlotOrder, NewerNeverFirst, SameSlot, TypeOK
<1>5. TurnOrder' /\ FairTurns'
  BY DEF TurnOrder, FairTurns, OfDevice, TypeOK
<1>6. NothingWritten' /\ RevertOnlyCancelled'
  BY DEF NothingWritten, RevertOnlyCancelled, Queued, Refusal, TypeOK, JobId
<1> QED
  BY <1>1, <1>2, <1>3, <1>4, <1>5, <1>6

(* The steps that move no job between the queues, the threads and the told.  *)
LEMMA AsideIInv ==
    ASSUME IInv,
           \/ \E j \in JobId : Tell(j) \/ PassDeadline(j) \/ Answered(j) \/ Recheck(j)
           \/ Stop
    PROVE  IInv'
<1> USE DispatchAssumption DEF IInv
<1>1. /\ UNCHANGED <<jobs, urgent, waiting, place, turn, ticket, turns, ran, verdict, thread, serve>>
      /\ late' \subseteq late \cup waiting
      /\ stopping # "no" => stopping' # "no"
  BY DEF Tell, PassDeadline, Answered, Recheck, Stop, queues, told, lanes, gate
<1>2. TypeOK'
  <2>1. CASE \E j \in JobId : Tell(j)
    BY <2>1 DEF TypeOK, Tell, queues, lanes, gate
  <2>2. CASE \E j \in JobId : PassDeadline(j)
    BY <2>2 DEF TypeOK, PassDeadline, queues, told, lanes, gate
  <2>3. CASE \E j \in JobId : Answered(j) \/ Recheck(j)
    BY <2>3 DEF TypeOK, Answered, Recheck, queues, told, lanes, gate, CallerState
  <2>4. CASE Stop
    BY <2>4 DEF TypeOK, Stop, queues, told, lanes
  <2> QED
    BY <2>1, <2>2, <2>3, <2>4
<1>3. Queued'
  <2>1. \A k \in waiting : k <= Len(jobs) /\ jobs[k].kind # "revert"
    BY DEF TypeOK, Queued
  <2>2. \A k \in late' : k <= Len(jobs') /\ jobs'[k].kind # "revert"
    BY <1>1, <2>1 DEF Queued
  <2>3. \A k \in waiting' \cup urgent' :
           verdict'[k] = "none" /\ k \notin ran' /\ thread'[LaneJob(k)'] # None
    BY <1>1 DEF Queued, LaneJob
  <2> QED
    BY <1>1, <2>2, <2>3 DEF Queued
<1>3a. SlotOrder' /\ NewerNeverFirst'
  BY <1>1 DEF SlotOrder, NewerNeverFirst, SameSlot
<1>4. Served' /\ NothingWritten'
  BY <1>1 DEF Served, NothingWritten
<1>5. TurnOrder' /\ FairTurns'
  BY <1>1 DEF TurnOrder, FairTurns, OfDevice
<1>6. RevertOnlyCancelled'
  BY <1>1 DEF RevertOnlyCancelled
<1> QED
  BY <1>2, <1>3, <1>3a, <1>4, <1>5, <1>6

(* Between a job's start and the freeing of its lane, and the idle exit.     *)
LEMMA FinishIInv == ASSUME IInv, NEW t \in Thread, Finish(t) PROVE IInv'
<1> USE DispatchAssumption DEF IInv, Finish, WillTell, queues, gate
<1> DEFINE j == serve[t].job
<1>1. /\ j \in 1 .. Len(jobs) /\ j \in JobId /\ j \notin waiting \cup urgent
      /\ serve[t].lane \in Lane
      /\ verdict[j] = IF j \in ran THEN "none" ELSE "expired"
  BY DEF Served, TypeOK, JobId
<1>2. TypeOK'
  BY <1>1 DEF TypeOK, Verdict
<1>3. Queued' /\ SlotOrder' /\ NewerNeverFirst'
  BY <1>1 DEF Queued, SlotOrder, NewerNeverFirst, SameSlot, LaneJob, TypeOK, JobId
<1>4. Served'
  BY <1>1 DEF Served, TypeOK, JobId, NoJob, Off, Serving
<1>5. TurnOrder' /\ FairTurns'
  BY DEF TurnOrder, FairTurns, OfDevice
<1>6. NothingWritten' /\ RevertOnlyCancelled'
  BY <1>1 DEF NothingWritten, RevertOnlyCancelled, Refusal, TypeOK, JobId
<1> QED
  BY <1>2, <1>3, <1>4, <1>5, <1>6

LEMMA FreeIInv == ASSUME IInv, NEW t \in Thread, Free(t) \/ IdleOut(t) PROVE IInv'
<1> USE DispatchAssumption DEF IInv, Free, IdleOut, Idle, queues, told, gate
<1>1. UNCHANGED <<jobs, urgent, waiting, place, turn, ticket, turns, late, ran, verdict, done,
                  caller, closing, stopping>>
  OBVIOUS
<1>2. TypeOK'
  <2>1. serve[t].lane \in Lane
    BY DEF Served
  <2>2. serve' \in [Thread -> [at : {"off", "idle", "busy", "told"},
                             lane : Lane \cup {None}, job : JobId \cup {NoJob}]]
    <3>1. CASE Free(t)
      BY <2>1, <3>1 DEF TypeOK, Serving
    <3>2. CASE IdleOut(t)
      BY <3>2 DEF TypeOK, Off, Serving
    <3> QED
      BY <3>1, <3>2
  <2>3. thread' \in [Lane -> Thread \cup {None}]
    BY <2>1 DEF TypeOK
  <2> QED
    BY <1>1, <2>2, <2>3 DEF TypeOK
<1>3. Served'
  <2>1. CASE Free(t)
    BY <1>1, <2>1 DEF Served, TypeOK, JobId, Off, Serving, NoJob
  <2>2. CASE IdleOut(t)
    BY <1>1, <2>2 DEF Served, TypeOK, JobId, Off, Serving, NoJob
  <2> QED
    BY <2>1, <2>2
<1>4. Queued'
  <2>1. CASE Free(t)
    BY <1>1, <2>1 DEF Queued, LaneJob
  <2>2. CASE IdleOut(t)
    BY <1>1, <2>2 DEF Queued, LaneJob, LaneUrgent, LaneWaiting, Served, TypeOK
  <2> QED
    BY <2>1, <2>2
<1>5. SlotOrder' /\ NewerNeverFirst' /\ NothingWritten' /\ RevertOnlyCancelled'
  BY <1>1 DEF SlotOrder, NewerNeverFirst, SameSlot, NothingWritten, RevertOnlyCancelled
<1>6. TurnOrder' /\ FairTurns'
  BY <1>1 DEF TurnOrder, FairTurns, OfDevice
<1> QED
  BY <1>2, <1>3, <1>4, <1>5, <1>6

(* What Begin does to the thread, the verdict and the set of started jobs,   *)
(* whichever queue the job was taken from.                                   *)
LEMMA BeginIInv ==
    ASSUME IInv, NEW t \in Thread, Idle(t), NEW j \in waiting \cup urgent,
           LaneJob(j) = serve[t].lane,
           urgent' = urgent \ {j}, waiting' = waiting \ {j}, UNCHANGED place, Begin(t, j)
    PROVE  /\ Queued' /\ Served' /\ SlotOrder'
           /\ NothingWritten' /\ RevertOnlyCancelled'
           /\ ran' \subseteq 1 .. Len(jobs)
           /\ verdict' \in [JobId -> Verdict \cup {"none"}]
           /\ serve' \in [Thread -> [at : {"off", "idle", "busy", "told"},
                                   lane : Lane \cup {None}, job : JobId \cup {NoJob}]]
<1> USE DispatchAssumption DEF IInv, Idle, Begin, WillTell, gate
<1>1. /\ j \in 1 .. Len(jobs) /\ j \in JobId /\ j # NoJob
      /\ verdict[j] = "none" /\ j \notin ran
      /\ serve[t].lane \in Lane
  BY DEF Queued, Served, TypeOK, JobId, NoJob
<1>2. /\ ran' \subseteq 1 .. Len(jobs)
      /\ verdict' \in [JobId -> Verdict \cup {"none"}]
      /\ serve' \in [Thread -> [at : {"off", "idle", "busy", "told"},
                              lane : Lane \cup {None}, job : JobId \cup {NoJob}]]
  BY <1>1 DEF TypeOK, Verdict, Refusal, Serving
<1>3. /\ \A k \in JobId : k # j => verdict'[k] = verdict[k]
      /\ verdict'[j] = IF j \in late THEN "expired" ELSE "none"
      /\ ran' = IF j \in late THEN ran ELSE ran \cup {j}
  BY <1>1
<1>4. Queued'
  BY <1>1, <1>3 DEF Queued, LaneJob, TypeOK, JobId
<1>5. Served'
  <2>1. ASSUME NEW u \in Thread, u # t PROVE serve'[u] = serve[u] /\ serve[u].job # j
    <3>1. serve[u].at \in {"off", "idle", "busy", "told"}
      BY DEF TypeOK
    <3>2. serve[u].job = NoJob \/ serve[u].job \notin waiting \cup urgent
      BY <3>1 DEF Served, Off, Serving
    <3> QED
      BY <1>1, <2>1, <3>2 DEF TypeOK
  <2>2. serve'[t] = [at |-> "busy", lane |-> serve[t].lane, job |-> j]
    BY DEF TypeOK, Serving
  <2>3. \A u, v \in Thread : u # v /\ serve'[u].job # NoJob => serve'[u].job # serve'[v].job
    BY <2>1, <2>2 DEF Served
  <2>4. \A u \in Thread : \A l \in Lane : thread'[l] = u <=> serve'[u].lane = l
    BY <2>1, <2>2 DEF Served
  <2>5. ASSUME NEW u \in Thread
        PROVE  /\ serve'[u].at = "off" => serve'[u] = Off
               /\ serve'[u].at # "off" => serve'[u].lane \in Lane
               /\ serve'[u].at = "idle" => serve'[u].job = NoJob
               /\ serve'[u].at \in {"busy", "told"} =>
                     /\ serve'[u].job \in 1 .. Len(jobs')
                     /\ serve'[u].job \notin waiting' \cup urgent'
               /\ serve'[u].at = "busy" =>
                     verdict'[serve'[u].job] =
                        IF serve'[u].job \in ran' THEN "none" ELSE "expired"
    <3>1. CASE u = t
      BY <1>1, <1>3, <2>2, <3>1
    <3>2. CASE u # t
      BY <1>1, <1>3, <2>1, <3>2 DEF Served, TypeOK, JobId
    <3> QED
      BY <3>1, <3>2
  <2> QED
    BY <2>3, <2>4, <2>5 DEF Served, Off, Serving, NoJob
<1>6. SlotOrder'
  BY DEF SlotOrder, SameSlot
<1>7. NothingWritten'
  BY <1>1, <1>3 DEF NothingWritten, Refusal, TypeOK, JobId
<1>8. RevertOnlyCancelled'
  BY <1>1, <1>3 DEF RevertOnlyCancelled, Queued, TypeOK, JobId
<1> QED
  BY <1>2, <1>4, <1>5, <1>6, <1>7, <1>8

(* A revert taken. *)
LEMMA TakeUrgentIInv == ASSUME IInv, NEW t \in Thread, TakeUrgent(t) PROVE IInv'
<1> USE DispatchAssumption
<1> PICK j \in LaneUrgent(serve[t].lane) : TakeOut({j}) /\ Begin(t, j) /\ Idle(t)
  BY DEF TakeUrgent
<1>1. /\ j \in urgent /\ j \notin waiting /\ LaneJob(j) = serve[t].lane
      /\ urgent' = urgent \ {j} /\ waiting' = waiting \ {j} /\ UNCHANGED place
  BY DEF LaneUrgent, TakeOut, IInv, Queued
<1>2. /\ Queued' /\ Served' /\ SlotOrder' /\ NothingWritten' /\ RevertOnlyCancelled'
      /\ ran' \subseteq 1 .. Len(jobs)
      /\ verdict' \in [JobId -> Verdict \cup {"none"}]
      /\ serve' \in [Thread -> [at : {"off", "idle", "busy", "told"},
                              lane : Lane \cup {None}, job : JobId \cup {NoJob}]]
  BY <1>1, BeginIInv
<1>3. TypeOK'
  BY <1>1, <1>2 DEF IInv, TypeOK, TakeOut, Begin, gate
<1>4. NewerNeverFirst'
  BY <1>1 DEF IInv, NewerNeverFirst, SameSlot, Queued, TakeOut, Begin
<1>5. TurnOrder' /\ FairTurns'
  BY <1>1 DEF IInv, TurnOrder, FairTurns, OfDevice, TakeOut, Begin
<1> QED
  BY <1>2, <1>3, <1>4, <1>5 DEF IInv

(* The next command of the device whose turn it is. *)
LEMMA TakeNextIInv == ASSUME IInv, NEW t \in Thread, TakeNext(t) PROVE IInv'
<1> USE DispatchAssumption
<1> PICK j \in LaneWaiting(serve[t].lane) :
        /\ \A k \in LaneWaiting(serve[t].lane) : turn[jobs[j].device] <= turn[jobs[k].device]
        /\ \A k \in OfDevice(jobs[j].device) : place[j] <= place[k]
        /\ waiting' = waiting \ {j}
        /\ EndOfRound(jobs[j].device, OfDevice(jobs[j].device) # {j})
        /\ Begin(t, j) /\ Idle(t)
        /\ UNCHANGED <<urgent, place>>
  BY DEF TakeNext
<1> DEFINE d == jobs[j].device
<1>1. /\ j \in waiting /\ j \notin urgent /\ LaneJob(j) = serve[t].lane
      /\ urgent' = urgent \ {j} /\ waiting' = waiting \ {j}
      /\ j \in 1 .. Len(jobs) /\ d \in Device /\ LaneOf[d] = serve[t].lane
  <2>1. j \in waiting /\ LaneJob(j) = serve[t].lane /\ j \in 1 .. Len(jobs)
    BY DEF LaneWaiting, IInv, TypeOK
  <2>2. jobs[j] \in Job
    BY <2>1 DEF IInv, TypeOK
  <2> QED
    BY <2>1, <2>2 DEF IInv, Queued, LaneJob, Job
<1>2. /\ Queued' /\ Served' /\ SlotOrder' /\ NothingWritten' /\ RevertOnlyCancelled'
      /\ ran' \subseteq 1 .. Len(jobs)
      /\ verdict' \in [JobId -> Verdict \cup {"none"}]
      /\ serve' \in [Thread -> [at : {"off", "idle", "busy", "told"},
                              lane : Lane \cup {None}, job : JobId \cup {NoJob}]]
  BY <1>1, BeginIInv
<1>3. /\ turn' \in [Device -> Nat] /\ ticket' \in Nat
      /\ turns' \in [Device -> [Device -> Nat]]
  <2>1. turn' \in [Device -> Nat] /\ ticket' \in Nat
    BY <1>1 DEF IInv, TypeOK, EndOfRound
  <2>2. ASSUME NEW e \in Device
        PROVE  [turns[e] EXCEPT ![d] = @ + 1] \in [Device -> Nat]
    <3>1. turns[e] \in [Device -> Nat]
      BY DEF IInv, TypeOK
    <3>2. \A f \in [Device -> Nat] : \A x \in Device : [f EXCEPT ![x] = @ + 1] \in [Device -> Nat]
      OBVIOUS
    <3> QED
      BY <3>1, <3>2, <1>1
  <2>3. turns' \in [Device -> [Device -> Nat]]
    BY <2>2 DEF IInv, TypeOK, EndOfRound
  <2> QED
    BY <2>1, <2>3
<1>4. TypeOK'
  BY <1>1, <1>2, <1>3 DEF IInv, TypeOK, Begin, gate
<1>5. NewerNeverFirst'
  <2>1. ASSUME NEW k \in waiting', SameSlot(k, j) PROVE j < k
    <3>1. k \in OfDevice(d) /\ k # j /\ k \in waiting /\ k \in Nat /\ j \in Nat
      BY <1>1, <2>1 DEF OfDevice, SameSlot, IInv, TypeOK
    <3>2. place[j] <= place[k] /\ place[j] \in Nat /\ place[k] \in Nat
      BY <3>1, <1>1 DEF IInv, TypeOK, JobId
    <3> QED
      BY <3>1, <3>2, <1>1, <2>1 DEF IInv, SlotOrder, SameSlot
  <2> QED
    BY <1>1, <2>1 DEF IInv, NewerNeverFirst, SameSlot, Begin
<1>6. \A e \in Device : OfDevice(e)' \subseteq OfDevice(e)
  BY <1>1 DEF OfDevice, Begin
<1>7. \A e \in Device : OfDevice(e) # {} /\ LaneOf[e] = LaneOf[d] => turn[d] <= turn[e]
  BY <1>1 DEF OfDevice, LaneWaiting, LaneJob
<1>8. /\ turn' = IF OfDevice(d) # {j} THEN [turn EXCEPT ![d] = ticket + 1] ELSE turn
      /\ ticket' = IF OfDevice(d) # {j} THEN ticket + 1 ELSE ticket
      /\ \A e \in Device : e = d /\ OfDevice(e) = {j} => OfDevice(e)' = {}
      /\ OfDevice(d) # {}
  BY <1>1 DEF EndOfRound, OfDevice, Begin
<1>9. ASSUME NEW e \in Device, NEW f \in Device
      PROVE  turns'[e][f] = IF e = d THEN 0
                            ELSE IF OfDevice(e) # {} /\ LaneOf[e] = LaneOf[d] /\ f = d
                                 THEN turns[e][f] + 1 ELSE turns[e][f]
  BY <1>1 DEF EndOfRound, IInv, TypeOK
<1>10. FairTurns'
  <2> SUFFICES ASSUME NEW e \in Device, NEW f \in Device, OfDevice(e)' # {}
               PROVE  turns'[e][f] <= 1
    BY DEF FairTurns
  <2>1. OfDevice(e) # {} /\ turns[e][f] \in Nat /\ turns[e][f] <= 1
    BY <1>6 DEF IInv, FairTurns, TypeOK
  <2>2. e # d /\ f = d /\ LaneOf[e] = LaneOf[d] => turns[e][f] = 0
    <3> SUFFICES ASSUME e # d, f = d, LaneOf[e] = LaneOf[d], turns[e][d] > 0 PROVE FALSE
      BY <2>1
    <3>1. turn[e] < turn[d]
      BY <1>1, <1>8, <2>1 DEF IInv, TurnOrder
    <3>2. turn[d] <= turn[e] /\ turn[d] \in Nat /\ turn[e] \in Nat
      BY <1>1, <1>7, <2>1 DEF IInv, TypeOK
    <3> QED
      BY <3>1, <3>2
  <2> QED
    BY <2>1, <2>2, <1>9
<1>11. TurnOrder'
  <2>1. \A e \in Device : turn'[e] <= ticket'
    BY <1>1, <1>8 DEF IInv, TurnOrder, TypeOK
  <2>2. ASSUME NEW e \in Device, NEW f \in Device, e # f, LaneOf[e] = LaneOf[f],
               OfDevice(e)' # {}, OfDevice(f)' # {}, turns'[e][f] > 0
        PROVE  turn'[e] < turn'[f]
    <3>1. e # d /\ OfDevice(e) # {} /\ OfDevice(f) # {}
      BY <1>6, <1>9, <2>2
    <3>2. CASE f = d
      <4>1. turn'[f] = ticket + 1 /\ turn'[e] = turn[e]
        BY <1>1, <1>8, <2>2, <3>1, <3>2 DEF IInv, TypeOK
      <4>2. turn[e] <= ticket /\ turn[e] \in Nat /\ ticket \in Nat
        BY DEF IInv, TurnOrder, TypeOK
      <4> QED
        BY <4>1, <4>2
    <3>3. CASE f # d
      BY <1>1, <1>8, <1>9, <2>2, <3>1, <3>3 DEF IInv, TurnOrder, TypeOK
    <3> QED
      BY <3>2, <3>3
  <2>3. \A e, f \in Device : LaneOf[e] # LaneOf[f] => turns'[e][f] = 0
    BY <1>1, <1>9 DEF IInv, TurnOrder
  <2>4. \A e \in Device : turns'[e][e] = 0
    BY <1>1, <1>9 DEF IInv, TurnOrder
  <2> QED
    BY <2>1, <2>2, <2>3, <2>4 DEF TurnOrder
<1> QED
  BY <1>2, <1>4, <1>5, <1>10, <1>11 DEF IInv

(* A lane is given a thread only when it has none: the threads stay one to a *)
(* lane, and the lane asked for has one afterwards.                          *)
LEMMA EnsureThreadServed ==
    ASSUME TypeOK, Served, NEW l \in Lane, EnsureThread(l)
    PROVE  /\ thread' \in [Lane -> Thread \cup {None}]
           /\ serve' \in [Thread -> [at : {"off", "idle", "busy", "told"},
                                   lane : Lane \cup {None}, job : JobId \cup {NoJob}]]
           /\ thread'[l] # None
           /\ \A m \in Lane : thread[m] # None => thread'[m] # None
           /\ \A t \in Thread :
                 \/ serve'[t] = serve[t]
                 \/ serve'[t] = [at |-> "idle", lane |-> l, job |-> NoJob]
           /\ \A t \in Thread, m \in Lane : thread'[m] = t <=> serve'[t].lane = m
<1> USE DispatchAssumption
<1>1. CASE thread[l] # None
  BY <1>1 DEF EnsureThread, lanes, TypeOK, Served
<1>2. CASE thread[l] = None
  <2> PICK t \in Thread : /\ serve[t] = Off
                          /\ thread' = [thread EXCEPT ![l] = t]
                          /\ serve' = [serve EXCEPT ![t] = Serving("idle", l, NoJob)]
    BY <1>2 DEF EnsureThread
  <2>1. thread' \in [Lane -> Thread \cup {None}] /\ thread'[l] = t /\ t # None
    BY DEF TypeOK
  <2>2. \A u \in Thread : serve'[u] = IF u = t THEN [at |-> "idle", lane |-> l, job |-> NoJob]
                                     ELSE serve[u]
    BY DEF TypeOK, Serving
  <2>3. serve' \in [Thread -> [at : {"off", "idle", "busy", "told"},
                            lane : Lane \cup {None}, job : JobId \cup {NoJob}]]
    BY DEF TypeOK, Serving
  <2>4. \A m \in Lane : m # l => thread'[m] = thread[m]
    BY DEF TypeOK
  <2>5. \A u \in Thread, m \in Lane : thread'[m] = u <=> serve'[u].lane = m
    BY <1>2, <2>1, <2>2, <2>4 DEF Served, Off, Serving
  <2> QED
    BY <2>1, <2>2, <2>3, <2>4, <2>5
<1> QED
  BY <1>1, <1>2

(* What every submit keeps: the jobs before the new one, and with them what  *)
(* is said of the threads.                                                   *)
LEMMA SubmitServed ==
    ASSUME IInv, NEW a \in Ask, Submit(a)
    PROVE  /\ Served'
           /\ thread' \in [Lane -> Thread \cup {None}]
           /\ serve' \in [Thread -> [at : {"off", "idle", "busy", "told"},
                                   lane : Lane \cup {None}, job : JobId \cup {NoJob}]]
           /\ \A m \in Lane : thread[m] # None => thread'[m] # None
<1> USE DispatchAssumption
<1> DEFINE j == Len(jobs) + 1
<1>1. /\ a \in Job /\ LaneOf[a.device] \in Lane /\ j \in JobId /\ Len(jobs) \in Nat
      /\ Len(jobs') = j /\ \A k \in 1 .. Len(jobs) : jobs'[k] = jobs[k]
  <2>1. a \in Job /\ LaneOf[a.device] \in Lane
    BY DEF Job
  <2>2. jobs' = Append(jobs, a) /\ Len(jobs) < MaxJobs /\ TypeOK
    BY DEF Submit, IInv
  <2>3. /\ Len(jobs) \in Nat /\ Len(jobs') = j
        /\ \A k \in 1 .. Len(jobs) : jobs'[k] = jobs[k]
    BY <2>1, <2>2, Appended
  <2> QED
    BY <2>1, <2>2, <2>3 DEF JobId
<1>2. /\ ran' = ran
      /\ waiting' \cup urgent' \subseteq waiting \cup urgent \cup {j}
      /\ \A k \in JobId : k \notin waiting \cup urgent \cup {j} => verdict'[k] = verdict[k]
  <2>1. ran' = ran
    BY DEF Submit
  <2>2. CASE \E v \in Refusal : Refused(j, v)
    BY <2>1, <2>2 DEF Refused, WillTell, queues
  <2>3. CASE AdmitRevert(j, a)
    BY <2>1, <2>3 DEF AdmitRevert
  <2>4. CASE \E old \in waiting : Supersede(j, a, old)
    BY <2>1, <2>4 DEF Supersede, WillTell
  <2>5. CASE Enqueue(j, a)
    BY <2>1, <2>5 DEF Enqueue
  <2> QED
    BY <2>2, <2>3, <2>4, <2>5 DEF Submit, Admit, Refusal
<1>3. UNCHANGED lanes \/ EnsureThread(LaneOf[a.device])
  BY DEF Submit, Admit, Refused, AdmitRevert, Supersede, Enqueue
<1>4. /\ thread' \in [Lane -> Thread \cup {None}]
      /\ serve' \in [Thread -> [at : {"off", "idle", "busy", "told"},
                              lane : Lane \cup {None}, job : JobId \cup {NoJob}]]
      /\ \A m \in Lane : thread[m] # None => thread'[m] # None
      /\ \A t \in Thread :
            serve'[t] = serve[t] \/ \E l \in Lane : serve'[t] = [at |-> "idle", lane |-> l, job |-> NoJob]
      /\ \A t \in Thread, m \in Lane : thread'[m] = t <=> serve'[t].lane = m
  <2>1. CASE UNCHANGED lanes
    <3>1. thread' = thread /\ serve' = serve
      BY <2>1 DEF lanes
    <3>2. /\ thread \in [Lane -> Thread \cup {None}]
          /\ serve \in [Thread -> [at : {"off", "idle", "busy", "told"},
                                 lane : Lane \cup {None}, job : JobId \cup {NoJob}]]
      BY DEF IInv, TypeOK
    <3>3. \A t \in Thread, m \in Lane : thread[m] = t <=> serve[t].lane = m
      BY DEF IInv, Served
    <3> QED
      BY <3>1, <3>2, <3>3
  <2>2. CASE EnsureThread(LaneOf[a.device])
    <3> PICK l \in Lane : l = LaneOf[a.device]
      BY <1>1
    <3>1. TypeOK /\ Served /\ EnsureThread(l)
      BY <2>2 DEF IInv, EnsureThread
    <3>2. /\ \A m \in Lane : thread[m] # None => thread'[m] # None
          /\ \A t \in Thread : \/ serve'[t] = serve[t]
                              \/ serve'[t] = [at |-> "idle", lane |-> l, job |-> NoJob]
          /\ \A t \in Thread, m \in Lane : thread'[m] = t <=> serve'[t].lane = m
      BY <3>1, EnsureThreadServed
    <3>3. /\ thread' \in [Lane -> Thread \cup {None}]
          /\ serve' \in [Thread -> [at : {"off", "idle", "busy", "told"},
                                  lane : Lane \cup {None}, job : JobId \cup {NoJob}]]
      BY <3>1, EnsureThreadServed
    <3> QED
      BY <3>2, <3>3
  <2> QED
    BY <1>3, <2>1, <2>2
<1>5. ASSUME NEW t \in Thread
      PROVE  /\ serve'[t].at = "off" => serve'[t] = Off
             /\ serve'[t].at # "off" => serve'[t].lane \in Lane
             /\ serve'[t].at = "idle" => serve'[t].job = NoJob
             /\ serve'[t].at \in {"busy", "told"} =>
                   /\ serve'[t].job \in 1 .. Len(jobs')
                   /\ serve'[t].job \notin waiting' \cup urgent'
             /\ serve'[t].at = "busy" =>
                   verdict'[serve'[t].job] =
                      IF serve'[t].job \in ran' THEN "none" ELSE "expired"
  <2>1. CASE serve'[t] = serve[t]
    BY <1>1, <1>2, <2>1 DEF IInv, Served, TypeOK, JobId
  <2>2. CASE \E l \in Lane : serve'[t] = [at |-> "idle", lane |-> l, job |-> NoJob]
    BY <2>2
  <2> QED
    BY <1>4, <2>1, <2>2
<1>6. \A t, u \in Thread : t # u /\ serve'[t].job # NoJob => serve'[t].job # serve'[u].job
  BY <1>4 DEF IInv, Served
<1>7. Served'
  BY <1>4, <1>5, <1>6 DEF Served, Off, Serving, NoJob
<1> QED
  BY <1>4, <1>7

(* A submit refused, and a revert admitted, leave the waiting jobs alone. *)
LEMMA SubmitAsideIInv ==
    ASSUME IInv, NEW a \in Ask, Submit(a),
           \/ \E v \in Refusal : /\ Refused(Len(jobs) + 1, v)
                                 /\ a.kind = "revert" => v = "stopping"
                                 /\ v = "stopping" /\ a.kind = "revert" => stopping # "no"
           \/ a.kind = "revert" /\ AdmitRevert(Len(jobs) + 1, a)
    PROVE  IInv'
<1> USE DispatchAssumption
<1> DEFINE j == Len(jobs) + 1
<1>1. /\ a \in Job /\ jobs' \in Seq(Job) /\ Len(jobs) \in Nat /\ Len(jobs') = j
      /\ jobs'[j] = a /\ \A k \in 1 .. Len(jobs) : jobs'[k] = jobs[k]
  BY Appended DEF IInv, Submit
<1>2. /\ j \in JobId /\ Len(jobs') <= MaxJobs
      /\ j \notin waiting \cup urgent \cup ran \cup late
      /\ verdict[j] = "none"
  BY <1>1 DEF Submit, IInv, TypeOK, Queued, JobId
<1>3. /\ waiting' = waiting /\ place' = place /\ turn' = turn /\ ticket' = ticket
      /\ turns' = turns /\ late' = late /\ ran' = ran /\ done' = done
      /\ closing' = closing /\ stopping' = stopping
      /\ urgent' \subseteq urgent \cup {j}
      /\ \A k \in urgent' : k = j => a.kind = "revert"
      /\ caller' \in [JobId -> CallerState]
  <2>1. caller' \in [JobId -> CallerState]
    BY DEF Submit, IInv, TypeOK, CallerState
  <2> QED
    BY <2>1, <1>2 DEF Submit, Refused, AdmitRevert, queues, gate
<1>4. /\ verdict' \in [JobId -> Verdict \cup {"none"}]
      /\ \A k \in JobId : k # j => verdict'[k] = verdict[k]
      /\ j \in urgent' => verdict'[j] = "none"
      /\ a.kind = "revert" => /\ verdict'[j] \in {"none", "stopping"}
                              /\ verdict'[j] = "stopping" => stopping # "no"
  <2>1. CASE AdmitRevert(j, a)
    BY <2>1, <1>2 DEF AdmitRevert, IInv, TypeOK
  <2>2. CASE ~AdmitRevert(j, a)
    <3> PICK v \in Refusal : /\ Refused(j, v)
                             /\ a.kind = "revert" => v = "stopping"
                             /\ v = "stopping" /\ a.kind = "revert" => stopping # "no"
      BY <2>2
    <3>1. verdict' = [k \in JobId |-> IF k \in {j} THEN v ELSE verdict[k]]
      BY DEF Refused, WillTell
    <3>2. verdict' \in [JobId -> Verdict \cup {"none"}]
      BY <3>1 DEF Verdict, IInv, TypeOK
    <3>3. j \notin urgent'
      BY <1>2 DEF Refused, queues
    <3> QED
      BY <3>1, <3>2, <3>3, <1>2
  <2> QED
    BY <2>1, <2>2
<1>5. /\ Served' /\ thread' \in [Lane -> Thread \cup {None}]
      /\ serve' \in [Thread -> [at : {"off", "idle", "busy", "told"},
                              lane : Lane \cup {None}, job : JobId \cup {NoJob}]]
      /\ \A m \in Lane : thread[m] # None => thread'[m] # None
  BY SubmitServed
<1>6. j \in urgent' => thread'[LaneOf[a.device]] # None
  <2>1. CASE AdmitRevert(j, a)
    <3> PICK l \in Lane : l = LaneOf[a.device]
      BY <1>1 DEF Job
    <3>1. TypeOK /\ Served /\ EnsureThread(l)
      BY <2>1 DEF IInv, AdmitRevert, EnsureThread
    <3> QED
      BY <3>1, EnsureThreadServed
  <2>2. CASE \E v \in Refusal : Refused(j, v)
    BY <1>2, <2>2 DEF Refused, queues
  <2> QED
    BY <2>1, <2>2
<1>7. TypeOK'
  BY <1>1, <1>2, <1>3, <1>4, <1>5 DEF TypeOK, IInv
<1>8. Queued'
  <2>1. \A k \in waiting' : jobs'[k].kind # "revert"
    BY <1>1, <1>3 DEF IInv, TypeOK, Queued
  <2>2. \A k \in urgent' : jobs'[k].kind = "revert"
    BY <1>1, <1>3 DEF IInv, TypeOK, Queued
  <2>3. \A k \in late' : k <= Len(jobs') /\ jobs'[k].kind # "revert"
    <3>1. \A k \in late : k \in 1 .. Len(jobs) /\ jobs[k].kind # "revert"
      BY DEF IInv, TypeOK, Queued, JobId
    <3> QED
      BY <3>1, <1>1, <1>3
  <2>4. \A k \in JobId : k > Len(jobs') => verdict'[k] = "none"
    BY <1>1, <1>4 DEF IInv, Queued, JobId
  <2>5. ASSUME NEW k \in waiting' \cup urgent'
        PROVE verdict'[k] = "none" /\ k \notin ran' /\ thread'[LaneJob(k)'] # None
    <3>1. CASE k = j
      BY <3>1, <1>1, <1>2, <1>3, <1>4, <1>6, <2>5 DEF LaneJob
    <3>2. CASE k # j
      <4>1. k \in waiting \cup urgent /\ k \in 1 .. Len(jobs) /\ k \in JobId
        BY <3>2, <1>3, <2>5 DEF IInv, TypeOK, JobId
      <4>2. LaneJob(k)' = LaneJob(k) /\ LaneJob(k) \in Lane
        <5>1. jobs'[k] = jobs[k] /\ jobs[k] \in Job
          BY <4>1, <1>1 DEF IInv, TypeOK
        <5> QED
          BY <5>1 DEF LaneJob, Job
      <4> QED
        BY <3>2, <4>1, <4>2, <1>3, <1>4, <1>5 DEF IInv, Queued
    <3> QED
      BY <3>1, <3>2
  <2> QED
    BY <2>1, <2>2, <2>3, <2>4, <2>5 DEF Queued
<1>9. SlotOrder' /\ NewerNeverFirst'
  <2>1. \A k \in waiting \cup ran : jobs'[k] = jobs[k]
    BY <1>1 DEF IInv, TypeOK
  <2> QED
    <3>1. \A k \in waiting : place[k] \in Nat /\ place[k] <= Len(jobs)
      BY DEF IInv, TypeOK, JobId, SlotOrder
    <3>2. SlotOrder'
      BY <2>1, <3>1, <1>1, <1>3 DEF IInv, SlotOrder, SameSlot
    <3>3. NewerNeverFirst'
      BY <2>1, <1>3 DEF IInv, NewerNeverFirst, SameSlot
    <3> QED
      BY <3>2, <3>3
<1>10. TurnOrder' /\ FairTurns'
  <2>1. \A k \in waiting : jobs'[k] = jobs[k]
    BY <1>1 DEF IInv, TypeOK
  <2>2. \A d \in Device : OfDevice(d)' = OfDevice(d)
    BY <2>1, <1>3 DEF OfDevice
  <2> QED
    BY <2>2, <1>3 DEF IInv, TurnOrder, FairTurns
<1>11. NothingWritten' /\ RevertOnlyCancelled'
  <2>1. NothingWritten'
    <3>1. \A k \in ran : k \in JobId /\ k # j
      BY <1>2 DEF IInv, TypeOK, JobId
    <3> QED
      BY <3>1, <1>3, <1>4 DEF IInv, NothingWritten
  <2>2. ASSUME NEW k \in 1 .. Len(jobs'), jobs'[k].kind = "revert"
        PROVE  /\ verdict'[k] \in {"none", "ran", "cancelled", "stopping"}
               /\ verdict'[k] = "stopping" => stopping' # "no"
    BY <1>1, <1>2, <1>3, <1>4, <2>2 DEF IInv, RevertOnlyCancelled, JobId
  <2> QED
    BY <2>1, <2>2 DEF RevertOnlyCancelled
<1> QED
  BY <1>5, <1>7, <1>8, <1>9, <1>10, <1>11 DEF IInv

(* A newer value takes the place of the one that waits at the slot's tail.   *)
LEMMA SupersedeIInv ==
    ASSUME IInv, NEW a \in Ask, Submit(a), NEW old \in waiting,
           Replaces(a, old), Supersede(Len(jobs) + 1, a, old)
    PROVE  IInv'
<1> USE DispatchAssumption
<1> DEFINE j == Len(jobs) + 1
<1>1. /\ a \in Job /\ jobs' \in Seq(Job) /\ Len(jobs) \in Nat /\ Len(jobs') = j
      /\ jobs'[j] = a /\ \A k \in 1 .. Len(jobs) : jobs'[k] = jobs[k]
  BY Appended DEF IInv, Submit
<1>2. /\ j \in JobId /\ Len(jobs') <= MaxJobs
      /\ j \notin waiting \cup urgent \cup ran \cup late
      /\ verdict[j] = "none"
      /\ old \in 1 .. Len(jobs) /\ old \in JobId /\ old # j /\ old \notin urgent
      /\ verdict[old] = "none" /\ old \notin ran /\ jobs[old].kind # "revert"
  BY <1>1 DEF Submit, IInv, TypeOK, Queued, JobId
<1>3. /\ waiting' = (waiting \ {old}) \cup {j} /\ urgent' = urgent
      /\ place' = [place EXCEPT ![j] = place[old]]
      /\ verdict' = [k \in JobId |-> IF k = old THEN "superseded" ELSE verdict[k]]
      /\ turn' = turn /\ ticket' = ticket
      /\ turns' = turns /\ late' = late /\ ran' = ran /\ done' = done
      /\ closing' = closing /\ stopping' = stopping
      /\ caller' \in [JobId -> CallerState]
  <2>1. caller' \in [JobId -> CallerState]
    BY DEF Submit, IInv, TypeOK, CallerState
  <2>2. verdict' = [k \in JobId |-> IF k = old THEN "superseded" ELSE verdict[k]]
    BY DEF Supersede, WillTell
  <2> QED
    BY <2>1, <2>2 DEF Submit, Supersede, gate
<1>4. /\ a.kind # "revert" /\ a.device = jobs[old].device /\ a.channel = jobs[old].channel
      /\ \A k \in waiting : SameSlot(k, old) => place[k] <= place[old]
  BY DEF Replaces, Mergeable, SameIntent, IsTail, Slot, SameSlot
<1>5. /\ Served' /\ thread' \in [Lane -> Thread \cup {None}]
      /\ serve' \in [Thread -> [at : {"off", "idle", "busy", "told"},
                              lane : Lane \cup {None}, job : JobId \cup {NoJob}]]
      /\ \A m \in Lane : thread[m] # None => thread'[m] # None
  BY SubmitServed
<1>6. TypeOK'
  <2>1. verdict' \in [JobId -> Verdict \cup {"none"}]
    BY <1>3 DEF IInv, TypeOK, Verdict, Refusal
  <2>2. place' \in [JobId -> Nat]
    BY <1>2, <1>3 DEF IInv, TypeOK
  <2>3. /\ waiting' \subseteq 1 .. Len(jobs') /\ urgent' \subseteq 1 .. Len(jobs')
        /\ ran' \subseteq 1 .. Len(jobs')
    <3>1. waiting \cup urgent \cup ran \subseteq 1 .. Len(jobs)
      BY DEF IInv, TypeOK
    <3>2. 1 .. Len(jobs) \subseteq 1 .. Len(jobs')
      BY <1>1
    <3> QED
      BY <3>1, <3>2, <1>1, <1>3
  <2> QED
    BY <1>1, <1>2, <1>3, <1>5, <2>1, <2>2, <2>3 DEF TypeOK, IInv
<1>7. Queued'
  <2>1. \A k \in waiting' : jobs'[k].kind # "revert"
    BY <1>1, <1>3, <1>4 DEF IInv, TypeOK, Queued
  <2>2. \A k \in urgent' : jobs'[k].kind = "revert"
    BY <1>1, <1>3 DEF IInv, TypeOK, Queued
  <2>3. \A k \in late' : k <= Len(jobs') /\ jobs'[k].kind # "revert"
    <3>1. \A k \in late : k \in 1 .. Len(jobs) /\ jobs[k].kind # "revert"
      BY DEF IInv, TypeOK, Queued, JobId
    <3> QED
      BY <3>1, <1>1, <1>3
  <2>4. \A k \in JobId : k > Len(jobs') => verdict'[k] = "none"
    BY <1>1, <1>2, <1>3 DEF IInv, Queued, JobId
  <2>5. ASSUME NEW k \in waiting' \cup urgent'
        PROVE verdict'[k] = "none" /\ k \notin ran' /\ thread'[LaneJob(k)'] # None
    <3> DEFINE m == IF k = j THEN old ELSE k
    <3>1. /\ m \in waiting \cup urgent /\ m \in 1 .. Len(jobs)
          /\ verdict'[k] = "none" /\ k \notin ran'
      BY <1>1, <1>2, <1>3, <2>5 DEF IInv, TypeOK, Queued, JobId
    <3>2. jobs'[k].device = jobs[m].device /\ jobs[m] \in Job
      BY <3>1, <1>1, <1>4 DEF IInv, TypeOK
    <3>3. thread[LaneJob(m)] # None /\ LaneJob(m) \in Lane /\ LaneJob(k)' = LaneJob(m)
      BY <3>1, <3>2 DEF IInv, Queued, LaneJob, Job
    <3> QED
      BY <3>1, <3>3, <1>5
  <2> QED
    BY <2>1, <2>2, <2>3, <2>4, <2>5 DEF Queued
<1>8. \A k \in waiting \cup ran : jobs'[k] = jobs[k] /\ k \in 1 .. Len(jobs)
  BY <1>1 DEF IInv, TypeOK
<1>9. \A k \in waiting : place[k] \in Nat /\ place[k] <= Len(jobs) /\ k \in JobId
  BY DEF IInv, TypeOK, JobId, SlotOrder
<1>10. SlotOrder'
  <2>1. \A k \in waiting' : place'[k] \in Nat /\ place'[k] <= Len(jobs')
    BY <1>1, <1>2, <1>3, <1>9 DEF IInv, TypeOK
  <2>2. ASSUME NEW k \in waiting', NEW m \in waiting', SameSlot(k, m)', k < m
        PROVE  place'[k] < place'[m]
    <3>1. CASE k # j /\ m # j
      BY <3>1, <2>2, <1>2, <1>3, <1>8, <1>9 DEF IInv, SlotOrder, SameSlot, TypeOK
    <3>2. CASE m = j
      <4>1. k \in waiting /\ k # old /\ k # j /\ SameSlot(k, old)
        BY <3>2, <2>2, <1>1, <1>3, <1>4, <1>8 DEF SameSlot
      <4>2. place[k] < place[old]
        <5>1. CASE k < old
          BY <5>1, <4>1 DEF IInv, SlotOrder
        <5>2. CASE old < k
          BY <5>2, <4>1, <1>4, <1>9 DEF IInv, SlotOrder, SameSlot
        <5> QED
          BY <5>1, <5>2, <4>1, <1>8
      <4> QED
        BY <3>2, <4>1, <4>2, <1>2, <1>3, <1>9 DEF IInv, TypeOK
    <3>3. CASE k = j
      BY <3>3, <2>2, <1>1, <1>3, <1>8
    <3> QED
      BY <3>1, <3>2, <3>3
  <2> QED
    BY <2>1, <2>2 DEF SlotOrder
<1>11. NewerNeverFirst'
  BY <1>1, <1>3, <1>8 DEF IInv, NewerNeverFirst, SameSlot
<1>12. TurnOrder' /\ FairTurns'
  <2>1. \A d \in Device : OfDevice(d)' # {} => OfDevice(d) # {}
    BY <1>1, <1>3, <1>4, <1>8 DEF OfDevice
  <2> QED
    BY <2>1, <1>3 DEF IInv, TurnOrder, FairTurns
<1>13. NothingWritten'
  BY <1>2, <1>3 DEF IInv, TypeOK, NothingWritten, JobId
<1>14. RevertOnlyCancelled'
  <2>1. \A k \in 1 .. Len(jobs) : k \in JobId
    BY <1>2 DEF JobId
  <2>2. ASSUME NEW k \in 1 .. Len(jobs'), jobs'[k].kind = "revert"
        PROVE  k \in 1 .. Len(jobs) /\ jobs[k].kind = "revert" /\ k # old
    BY <2>2, <1>1, <1>2, <1>4
  <2> QED
    BY <2>1, <2>2, <1>3 DEF IInv, RevertOnlyCancelled
<1> QED
  BY <1>5, <1>6, <1>7, <1>10, <1>11, <1>12, <1>13, <1>14 DEF IInv

(* A job added at the end of its device's deque; a device that had none      *)
(* waiting joins the round robin at its end.                                 *)
LEMMA EnqueueIInv ==
    ASSUME IInv, NEW a \in Ask, Submit(a), a.kind # "revert", Enqueue(Len(jobs) + 1, a)
    PROVE  IInv'
<1> USE DispatchAssumption
<1> DEFINE j == Len(jobs) + 1
<1>1. /\ a \in Job /\ jobs' \in Seq(Job) /\ Len(jobs) \in Nat /\ Len(jobs') = j
      /\ jobs'[j] = a /\ \A k \in 1 .. Len(jobs) : jobs'[k] = jobs[k]
  BY Appended DEF IInv, Submit
<1>2. /\ j \in JobId /\ Len(jobs') <= MaxJobs
      /\ j \notin waiting \cup urgent \cup ran \cup late
      /\ verdict[j] = "none" /\ a.device \in Device
  BY <1>1 DEF Submit, IInv, TypeOK, Queued, JobId, Job
<1>3. /\ waiting' = waiting \cup {j} /\ urgent' = urgent
      /\ place' = [place EXCEPT ![j] = j]
      /\ verdict' = verdict /\ late' = late /\ ran' = ran /\ done' = done
      /\ closing' = closing /\ stopping' = stopping
      /\ caller' \in [JobId -> CallerState]
      /\ JoinRound(a.device) /\ EnsureThread(LaneOf[a.device])
  <2>1. caller' \in [JobId -> CallerState]
    BY DEF Submit, IInv, TypeOK, CallerState
  <2> QED
    BY <2>1 DEF Submit, Enqueue, gate
<1>4. /\ Served' /\ thread' \in [Lane -> Thread \cup {None}]
      /\ serve' \in [Thread -> [at : {"off", "idle", "busy", "told"},
                              lane : Lane \cup {None}, job : JobId \cup {NoJob}]]
      /\ \A m \in Lane : thread[m] # None => thread'[m] # None
  BY SubmitServed
<1>5. thread'[LaneOf[a.device]] # None
  <2> PICK l \in Lane : l = LaneOf[a.device]
    BY <1>2
  <2>1. TypeOK /\ Served /\ EnsureThread(l)
    BY <1>3 DEF IInv, EnsureThread
  <2> QED
    BY <2>1, EnsureThreadServed
<1>6. \A k \in waiting \cup ran \cup urgent : jobs'[k] = jobs[k] /\ k \in 1 .. Len(jobs) /\ k \in JobId
  BY <1>1 DEF IInv, TypeOK, JobId
<1>7. /\ turn' = IF OfDevice(a.device) = {} THEN [turn EXCEPT ![a.device] = ticket + 1] ELSE turn
      /\ ticket' = IF OfDevice(a.device) = {} THEN ticket + 1 ELSE ticket
      /\ turns' = IF OfDevice(a.device) = {}
                  THEN [turns EXCEPT ![a.device] = [e \in Device |-> 0]] ELSE turns
  BY <1>3 DEF JoinRound
<1>8. TypeOK'
  <2>1. /\ waiting' \subseteq 1 .. Len(jobs') /\ urgent' \subseteq 1 .. Len(jobs')
        /\ ran' \subseteq 1 .. Len(jobs')
    BY <1>1, <1>3, <1>6
  <2>2. place' \in [JobId -> Nat]
    BY <1>1, <1>2, <1>3 DEF IInv, TypeOK
  <2>3. turn' \in [Device -> Nat] /\ ticket' \in Nat
    <3>1. turn \in [Device -> Nat] /\ ticket \in Nat /\ ticket + 1 \in Nat
      BY DEF IInv, TypeOK
    <3>2. [turn EXCEPT ![a.device] = ticket + 1] \in [Device -> Nat]
      BY <3>1
    <3> QED
      BY <3>1, <3>2, <1>7
  <2>4. turns' \in [Device -> [Device -> Nat]]
    BY <1>7 DEF IInv, TypeOK
  <2> QED
    BY <1>1, <1>2, <1>3, <1>4, <2>1, <2>2, <2>3, <2>4 DEF TypeOK, IInv
<1>9. Queued'
  <2>1. \A k \in waiting' : jobs'[k].kind # "revert"
    BY <1>1, <1>3, <1>6 DEF IInv, Queued
  <2>2. \A k \in urgent' : jobs'[k].kind = "revert"
    BY <1>3, <1>6 DEF IInv, Queued
  <2>3. \A k \in late' : k <= Len(jobs') /\ jobs'[k].kind # "revert"
    <3>1. \A k \in late : k \in 1 .. Len(jobs) /\ jobs[k].kind # "revert"
      BY DEF IInv, TypeOK, Queued, JobId
    <3> QED
      BY <3>1, <1>1, <1>3
  <2>4. \A k \in JobId : k > Len(jobs') => verdict'[k] = "none"
    BY <1>1, <1>3 DEF IInv, Queued, JobId
  <2>5. ASSUME NEW k \in waiting' \cup urgent'
        PROVE verdict'[k] = "none" /\ k \notin ran' /\ thread'[LaneJob(k)'] # None
    <3>1. CASE k = j
      BY <3>1, <1>1, <1>2, <1>3, <1>5 DEF LaneJob
    <3>2. CASE k # j
      <4>1. k \in waiting \cup urgent
        BY <3>2, <1>3, <2>5
      <4>2. LaneJob(k)' = LaneJob(k) /\ LaneJob(k) \in Lane
        <5>1. jobs'[k] = jobs[k] /\ jobs[k] \in Job
          BY <4>1, <1>6 DEF IInv, TypeOK
        <5> QED
          BY <5>1 DEF LaneJob, Job
      <4> QED
        BY <4>1, <4>2, <1>3, <1>4 DEF IInv, Queued
    <3> QED
      BY <3>1, <3>2
  <2> QED
    BY <2>1, <2>2, <2>3, <2>4, <2>5 DEF Queued
<1>10. SlotOrder' /\ NewerNeverFirst'
  <2>1. \A k \in waiting : place[k] \in Nat /\ place[k] <= Len(jobs)
    BY DEF IInv, TypeOK, JobId, SlotOrder
  <2>2. /\ place'[j] = j
        /\ \A k \in waiting : place'[k] = place[k] /\ k # j
    BY <1>2, <1>3, <1>6 DEF IInv, TypeOK
  <2>3. SlotOrder'
    <3>1. \A k \in waiting' : place'[k] <= Len(jobs')
      BY <2>1, <2>2, <1>1, <1>3
    <3>2. ASSUME NEW k \in waiting', NEW m \in waiting', SameSlot(k, m)', k < m
          PROVE  place'[k] < place'[m]
      <4>1. CASE m = j
        BY <4>1, <3>2, <2>1, <2>2, <1>1, <1>3
      <4>2. CASE k = j
        BY <4>2, <3>2, <1>1, <1>3, <1>6
      <4>3. CASE k # j /\ m # j
        BY <4>3, <3>2, <2>2, <1>3, <1>6 DEF IInv, SlotOrder, SameSlot
      <4> QED
        BY <4>1, <4>2, <4>3
    <3> QED
      BY <3>1, <3>2 DEF SlotOrder
  <2>4. NewerNeverFirst'
    BY <1>1, <1>3, <1>6 DEF IInv, NewerNeverFirst, SameSlot
  <2> QED
    BY <2>3, <2>4
<1>11. \A d \in Device : d # a.device => OfDevice(d)' = OfDevice(d)
  BY <1>1, <1>3, <1>6 DEF OfDevice
<1>12. \A d, e \in Device :
          turns'[d][e] = IF d = a.device /\ OfDevice(d) = {} THEN 0 ELSE turns[d][e]
  BY <1>2, <1>7 DEF IInv, TypeOK
<1>13. FairTurns'
  BY <1>11, <1>12 DEF IInv, FairTurns
<1>14. TurnOrder'
  <2>1. \A d \in Device : turn[d] \in Nat /\ ticket \in Nat /\ turn[d] <= ticket
    BY DEF IInv, TypeOK, TurnOrder
  <2>2. \A d \in Device : turn'[d] = IF d = a.device /\ OfDevice(d) = {}
                                   THEN ticket + 1 ELSE turn[d]
    BY <1>2, <1>7 DEF IInv, TypeOK
  <2>3. \A d \in Device : turn'[d] <= ticket'
    BY <2>1, <2>2, <1>7
  <2>4. ASSUME NEW d \in Device, NEW e \in Device, d # e, LaneOf[d] = LaneOf[e],
               OfDevice(d)' # {}, OfDevice(e)' # {}, turns'[d][e] > 0
        PROVE  turn'[d] < turn'[e]
    <3>1. OfDevice(d) # {} /\ turns[d][e] > 0
      BY <2>4, <1>11, <1>12
    <3>2. CASE OfDevice(e) = {}
      BY <3>1, <3>2, <2>1, <2>2, <2>4, <1>11
    <3>3. CASE OfDevice(e) # {}
      BY <3>1, <3>3, <2>2, <2>4 DEF IInv, TurnOrder
    <3> QED
      BY <3>2, <3>3
  <2>5. /\ \A d, e \in Device : LaneOf[d] # LaneOf[e] => turns'[d][e] = 0
        /\ \A d \in Device : turns'[d][d] = 0
    BY <1>12 DEF IInv, TurnOrder
  <2> QED
    BY <2>3, <2>4, <2>5 DEF TurnOrder
<1>15. NothingWritten' /\ RevertOnlyCancelled'
  <2>1. NothingWritten'
    BY <1>3 DEF IInv, NothingWritten
  <2>2. \A k \in 1 .. Len(jobs') : jobs'[k].kind = "revert" =>
           k \in 1 .. Len(jobs) /\ jobs[k].kind = "revert"
    BY <1>1
  <2>3. RevertOnlyCancelled'
    BY <2>2, <1>3 DEF IInv, RevertOnlyCancelled
  <2> QED
    BY <2>1, <2>3
<1> QED
  BY <1>4, <1>8, <1>9, <1>10, <1>13, <1>14, <1>15 DEF IInv

LEMMA SubmitIInv == ASSUME IInv, NEW a \in Ask, Submit(a) PROVE IInv'
<1> DEFINE j == Len(jobs) + 1
<1>1. CASE stopping # "no" \/ (closing /\ a.kind # "revert")
  <2>1. /\ Refused(j, "stopping")
        /\ a.kind = "revert" => stopping # "no"
    BY <1>1 DEF Submit
  <2> QED
    BY <2>1, SubmitAsideIInv DEF Refusal
<1>2. CASE ~(stopping # "no" \/ (closing /\ a.kind # "revert"))
  <2>1. CASE a.kind = "revert" /\ AdmitRevert(j, a)
    BY <2>1, SubmitAsideIInv
  <2>2. CASE a.kind # "revert" /\ \E v \in {"put_off", "full"} : Refused(j, v)
    BY <2>2, SubmitAsideIInv DEF Refusal
  <2>3. CASE \E old \in waiting : Replaces(a, old) /\ Supersede(j, a, old)
    BY <2>3, SupersedeIInv
  <2>4. CASE a.kind # "revert" /\ Enqueue(j, a)
    BY <2>4, EnqueueIInv
  <2> QED
    BY <1>2, <2>1, <2>2, <2>3, <2>4 DEF Submit, Admit
<1> QED
  BY <1>1, <1>2

(* Every step keeps the invariant. *)
LEMMA NextIInv == IInv /\ [Next]_vars => IInv'
<1> SUFFICES ASSUME IInv, [Next]_vars PROVE IInv'
  OBVIOUS
<1>1. ASSUME NEW a \in Ask, Submit(a) PROVE IInv'
  BY <1>1, SubmitIInv
<1>2. ASSUME NEW j \in JobId, Tell(j) \/ PassDeadline(j) \/ Answered(j) \/ Recheck(j) PROVE IInv'
  BY <1>2, AsideIInv
<1>3. ASSUME NEW j \in JobId, WaitEnds(j) PROVE IInv'
  <2>1. CASE j \in urgent \cup waiting
    <3>1. caller' \in [JobId -> CallerState]
      BY <1>3, <2>1 DEF WaitEnds, IInv, TypeOK, CallerState
    <3> QED
      BY <1>3, <2>1, <3>1, TakeOutIInv DEF WaitEnds, gate, IInv, TypeOK
  <2>2. CASE j \notin urgent \cup waiting
    <3>1. /\ {} \subseteq waiting \cup urgent
          /\ TakeOut({}) /\ WillTell({}, "cancelled")
      BY <1>3, <2>2 DEF WaitEnds, TakeOut, WillTell, queues, IInv, TypeOK
    <3>2. caller' \in [JobId -> CallerState]
      BY <1>3, <2>2 DEF WaitEnds, IInv, TypeOK, CallerState
    <3> QED
      BY <1>3, <2>2, <3>1, <3>2, TakeOutIInv DEF WaitEnds, gate, IInv, TypeOK
  <2> QED
    BY <2>1, <2>2
<1>4. ASSUME NEW D \in SUBSET Device, Cancel(D) PROVE IInv'
  BY <1>4, TakeOutIInv DEF Cancel, gate, IInv, TypeOK
<1>5. CASE Close
  BY <1>5, TakeOutIInv DEF Close, IInv, TypeOK
<1>6. CASE Stop
  BY <1>6, AsideIInv
<1>7. CASE StopCancel
  BY <1>7, TakeOutIInv DEF StopCancel, IInv, TypeOK
<1>8. ASSUME NEW t \in Thread, Serve(t) PROVE IInv'
  BY <1>8, TakeUrgentIInv, TakeNextIInv, FinishIInv, FreeIInv DEF Serve
<1>9. CASE UNCHANGED vars
  <2>1. UNCHANGED <<jobs, urgent, waiting, place, turn, ticket, turns, late, ran, verdict, done,
                    thread, serve, caller, closing, stopping>>
    BY <1>9 DEF vars, queues, lanes, told, gate
  <2>2. UNCHANGED <<TypeOK, Queued, SlotOrder, NewerNeverFirst>>
    BY <2>1 DEF TypeOK, Queued, SlotOrder, NewerNeverFirst, SameSlot, LaneJob
  <2>3. UNCHANGED <<Served, TurnOrder, FairTurns, NothingWritten, RevertOnlyCancelled>>
    BY <2>1 DEF Served, TurnOrder, FairTurns, OfDevice, NothingWritten, RevertOnlyCancelled
  <2> QED
    BY <2>2, <2>3 DEF IInv
<1> QED
  BY <1>1, <1>2, <1>3, <1>4, <1>5, <1>6, <1>7, <1>8, <1>9 DEF Next, Wait

(* The dispatcher keeps its types, its queues and its threads in order.      *)
THEOREM DispatchInvariant == Spec => []IInv
<1> QED
  BY InitIInv, NextIInv, PTL DEF Spec

(* Every variable keeps its type.                                            *)
THEOREM DispatchTyped == Spec => []TypeOK
<1>1. IInv => TypeOK
  BY DEF IInv
<1> QED
  BY <1>1, DispatchInvariant, PTL

(* One thread to a wire, whatever the interleaving of submits and idle exits. *)
THEOREM OneRunnerHolds == Spec => []OneRunner
<1>1. IInv => OneRunner
  BY DEF IInv, Served, OneRunner
<1> QED
  BY <1>1, DispatchInvariant, PTL

(* What was told "nothing written" is never run.                             *)
THEOREM NothingWrittenHolds == Spec => []NothingWritten
<1>1. IInv => NothingWritten
  BY DEF IInv
<1> QED
  BY <1>1, DispatchInvariant, PTL

(* CMD-Q-2: within a slot no command goes before an older one.               *)
THEOREM NewerNeverFirstHolds == Spec => []NewerNeverFirst
<1>1. IInv => NewerNeverFirst
  BY DEF IInv
<1> QED
  BY <1>1, DispatchInvariant, PTL

(* A lane with work has a thread.                                            *)
THEOREM WorkHasThreadHolds == Spec => []WorkHasThread
<1>1. IInv => WorkHasThread
  <2> SUFFICES ASSUME IInv, NEW j \in urgent \cup waiting
               PROVE  \E t \in Thread : serve[t].lane = LaneJob(j)
    BY DEF WorkHasThread
  <2>1. LaneJob(j) \in Lane
    <3>1. jobs[j] \in Job
      BY DEF IInv, TypeOK
    <3> QED
      BY <3>1, DispatchAssumption DEF LaneJob, Job
  <2>2. thread[LaneJob(j)] # None
    BY DEF IInv, Queued
  <2> QED
    BY <2>1, <2>2 DEF IInv, TypeOK, Served
<1> QED
  BY <1>1, DispatchInvariant, PTL

(* The dead-man's revert is only ever cancelled or refused by the stop.      *)
THEOREM RevertOnlyCancelledHolds == Spec => []RevertOnlyCancelled
<1>1. IInv => RevertOnlyCancelled
  BY DEF IInv
<1> QED
  BY <1>1, DispatchInvariant, PTL

(* A device waits at most one turn of each of its neighbours on the wire.    *)
THEOREM FairTurnsHolds == Spec => []FairTurns
<1>1. IInv => FairTurns
  BY DEF IInv
<1> QED
  BY <1>1, DispatchInvariant, PTL

-----------------------------------------------------------------------------
(* The refinement: every step is a step of SerialWires, or none.             *)

Open == waiting \cup urgent

(* What SerialWires asks of the order, in the dispatcher's words.            *)
LEMMA BeforeIs ==
    ASSUME TypeOK, NEW k \in 1 .. Len(jobs), NEW j \in 1 .. Len(jobs)
    PROVE  Promise!Before(k, j) <=>
              \/ /\ jobs[k].kind = "revert" /\ LaneJob(k) = LaneJob(j)
                 /\ jobs[j].kind = "revert" => k < j
              \/ /\ jobs[k].kind # "revert" /\ jobs[j].kind # "revert"
                 /\ SameSlot(k, j) /\ k < j
<1>1. jobs[k] \in Job /\ jobs[j] \in Job
  BY DEF TypeOK
<1> QED
  BY <1>1 DEF Promise!Before, LaneJob, SameSlot

(* A queued job is one that was submitted, and nothing was told of it.       *)
LEMMA OpenIs ==
    ASSUME IInv
    PROVE  /\ Open \subseteq 1 .. Len(jobs) /\ 1 .. Len(jobs) \subseteq JobId
           /\ Len(jobs) \in Nat
           /\ \A j \in Open : j \notin ran /\ verdict[j] = "none" /\ jobs[j] \in Job
BY DispatchAssumption DEF IInv, TypeOK, Queued, Open, JobId

(* Jobs taken out of their queues and told that nothing is written.          *)
LEMMA TakeOutRefines ==
    ASSUME IInv, NEW S, S \subseteq Open, NEW v \in Refusal, WillTell(S, v),
           (waiting \cup urgent)' = Open \ S, UNCHANGED <<jobs, ran>>, OnWire' = OnWire
    PROVE  Promise!Next
<1>1. S \subseteq JobId
  BY OpenIs
<1>2. NotWritten' = NotWritten \cup S
  <2>1. \A j \in JobId : verdict'[j] = IF j \in S THEN v ELSE verdict[j]
    BY DEF WillTell
  <2> QED
    BY <1>1, <2>1 DEF NotWritten
<1>3. Promise!TakeBack(S)
  BY <1>2 DEF Promise!TakeBack, Open
<1> QED
  BY <1>3 DEF Promise!Next, Promise!TakeBack, Open

(* What is on the wires depends on the threads that run a job.               *)
LEMMA OnWireSame ==
    ASSUME ran' = ran, \A u \in Thread : serve'[u] = serve[u] \/ (serve[u].at # "busy" /\ serve'[u].at # "busy")
    PROVE  OnWire' = OnWire
BY DEF OnWire

(* A thread takes the job whose turn it is: it is begun, or it is late.      *)
LEMMA BeginRefines ==
    ASSUME IInv, NEW t \in Thread, NEW j \in Open, Idle(t), LaneJob(j) = serve[t].lane,
           \A k \in Open : ~Promise!Before(k, j),
           (waiting \cup urgent)' = Open \ {j}, Begin(t, j)
    PROVE  Promise!Next
<1>1. /\ jobs' = jobs /\ serve' = [serve EXCEPT ![t] = Serving("busy", serve[t].lane, j)]
      /\ IF j \in late THEN WillTell({j}, "expired") /\ ran' = ran
                       ELSE ran' = ran \cup {j} /\ verdict' = verdict
  BY DEF Begin
<1>2. /\ j \in 1 .. Len(jobs) /\ j \in JobId /\ jobs[j] \in Job /\ j \notin ran
      /\ serve[t].lane \in Lane /\ serve[t].at = "idle"
  BY OpenIs DEF IInv, Served, Idle
<1>3. /\ serve'[t].at = "busy" /\ serve'[t].lane = serve[t].lane /\ serve'[t].job = j
      /\ \A u \in Thread : u # t => serve'[u] = serve[u]
  BY <1>1 DEF IInv, TypeOK, Serving
<1>4. \A u \in Thread : u # t => serve[u].lane # serve[t].lane
  BY <1>2 DEF IInv, Served
<1>5. CASE j \in late
  <2>1. \A l \in Lane, i \in ran : i # j
    BY <1>2
  <2>2. OnWire' = OnWire
    BY <1>1, <1>2, <1>3, <1>5 DEF OnWire
  <2> QED
    BY <1>1, <1>5, <2>2, TakeOutRefines DEF Refusal
<1>6. CASE j \notin late
  <2> DEFINE w == serve[t].lane
  <2>1. ran' = ran \cup {j} /\ NotWritten' = NotWritten
    BY <1>1, <1>6 DEF NotWritten
  <2>2. OnWire[w] = {}
    BY <1>2, <1>4 DEF OnWire
  <2>3. OnWire' = [OnWire EXCEPT ![w] = {j}]
    <3>1. ASSUME NEW l \in Lane
          PROVE  OnWire'[l] = IF l = w THEN {j} ELSE OnWire[l]
      <4>1. CASE l = w
        <5>1. \A u \in Thread : serve'[u].lane = l => u = t
          BY <1>3, <1>4, <4>1
        <5> QED
          BY <1>3, <2>1, <4>1, <5>1 DEF OnWire
      <4>2. CASE l # w
        <5>1. \A u \in Thread : serve'[u].at = "busy" /\ serve'[u].lane = l
                                => u # t /\ serve'[u] = serve[u]
          BY <1>3, <4>2
        <5>2. \A u \in Thread : serve[u].at = "busy" /\ serve[u].lane = l
                                => u # t /\ serve'[u] = serve[u]
          BY <1>3, <4>2
        <5>3. \A u \in Thread : serve[u].at = "busy" /\ serve[u].lane = l => serve[u].job # j
          BY <1>2, <5>2 DEF IInv, Served, Open
        <5> QED
          BY <2>1, <4>2, <5>1, <5>2, <5>3 DEF OnWire
      <4> QED
        BY <4>1, <4>2
    <3>2. OnWire' = [l \in Lane |-> OnWire'[l]] /\ OnWire = [l \in Lane |-> OnWire[l]]
      BY DEF OnWire
    <3> HIDE DEF w
    <3> QED
      BY <3>1, <3>2
  <2>4. [a \in Job |-> LaneOf[a.device]][jobs[j]] = w
    BY <1>2 DEF LaneJob
  <2>5. Promise!Begin(j)
    BY <1>1, <2>1, <2>2, <2>3, <2>4 DEF Promise!Begin, Open
  <2> QED
    BY <2>5 DEF Promise!Next, Open
<1> QED
  BY <1>5, <1>6

(* The order of _serve: the reverts as they came, then a device's oldest.    *)
LEMMA TakeRefines ==
    ASSUME IInv, NEW t \in Thread, TakeUrgent(t) \/ TakeNext(t)
    PROVE  Promise!Next
<1>1. CASE TakeUrgent(t)
  <2>1. PICK j \in LaneUrgent(serve[t].lane) :
          /\ \A k \in LaneUrgent(serve[t].lane) : j <= k
          /\ TakeOut({j}) /\ Begin(t, j)
    BY <1>1 DEF TakeUrgent
  <2>2. j \in Open /\ LaneJob(j) = serve[t].lane /\ jobs[j].kind = "revert"
    BY DEF LaneUrgent, Open, IInv, Queued
  <2>3. (waiting \cup urgent)' = Open \ {j}
    BY <2>1 DEF TakeOut, Open
  <2>4. ASSUME NEW k \in Open, Promise!Before(k, j)
        PROVE  FALSE
    <3>1. k \in 1 .. Len(jobs) /\ j \in 1 .. Len(jobs) /\ Len(jobs) \in Nat
      BY <2>2, OpenIs
    <3>2. jobs[k].kind = "revert" /\ LaneJob(k) = LaneJob(j) /\ k < j
      BY <2>2, <2>4, <3>1, BeforeIs DEF IInv
    <3>3. k \in LaneUrgent(serve[t].lane)
      BY <2>2, <3>2 DEF LaneUrgent, Open, IInv, Queued
    <3>4. j <= k
      BY <2>1, <3>3
    <3> QED
      BY <3>1, <3>2, <3>4
  <2>5. Idle(t)
    BY <1>1 DEF TakeUrgent
  <2> QED
    BY <2>1, <2>2, <2>3, <2>4, <2>5, BeginRefines
<1>2. CASE TakeNext(t)
  <2>1. PICK j \in LaneWaiting(serve[t].lane) :
          /\ \A k \in OfDevice(jobs[j].device) : place[j] <= place[k]
          /\ waiting' = waiting \ {j}
          /\ Begin(t, j)
    BY <1>2 DEF TakeNext
  <2>2. /\ Idle(t) /\ LaneUrgent(serve[t].lane) = {} /\ urgent' = urgent
    BY <1>2 DEF TakeNext
  <2>3. j \in waiting /\ j \in Open /\ LaneJob(j) = serve[t].lane /\ jobs[j].kind # "revert"
    BY DEF LaneWaiting, Open, IInv, Queued
  <2>4. j \notin urgent
    BY <2>3 DEF IInv, Queued
  <2>5. (waiting \cup urgent)' = Open \ {j}
    BY <2>1, <2>2, <2>4 DEF Open
  <2>6. ASSUME NEW k \in Open, Promise!Before(k, j)
        PROVE  FALSE
    <3>1. k \in 1 .. Len(jobs) /\ j \in 1 .. Len(jobs) /\ Len(jobs) \in Nat
      BY <2>3, OpenIs
    <3>2. \/ jobs[k].kind = "revert" /\ LaneJob(k) = LaneJob(j)
          \/ jobs[k].kind # "revert" /\ SameSlot(k, j) /\ k < j
      BY <2>3, <2>6, <3>1, BeforeIs DEF IInv
    <3>3. CASE jobs[k].kind = "revert" /\ LaneJob(k) = LaneJob(j)
      BY <2>2, <2>3, <3>3 DEF LaneUrgent, Open, IInv, Queued
    <3>4. CASE jobs[k].kind # "revert" /\ SameSlot(k, j) /\ k < j
      <4>1. k \in waiting
        BY <3>4 DEF Open, IInv, Queued
      <4>2. place[k] < place[j]
        BY <2>3, <3>4, <4>1 DEF IInv, SlotOrder
      <4>3. place[j] <= place[k]
        BY <2>1, <3>4, <4>1 DEF OfDevice, SameSlot
      <4>4. place[j] \in Nat /\ place[k] \in Nat
        BY <3>1, OpenIs DEF IInv, TypeOK
      <4> QED
        BY <4>2, <4>3, <4>4
    <3> QED
      BY <3>2, <3>3, <3>4
  <2> QED
    BY <2>1, <2>2, <2>3, <2>5, <2>6, BeginRefines
<1> QED
  BY <1>1, <1>2

(* The end of a run; the telling of a job that was late is no step.          *)
LEMMA FinishRefines ==
    ASSUME IInv, NEW t \in Thread, Finish(t)
    PROVE  [Promise!Next]_(Promise!vars)
<1> DEFINE j == serve[t].job
           w == serve[t].lane
<1>1. /\ serve[t].at = "busy" /\ UNCHANGED <<jobs, waiting, urgent, ran>>
      /\ serve' = [serve EXCEPT ![t] = [@ EXCEPT !.at = "told"]]
      /\ WillTell({j}, IF verdict[j] = "none" THEN "ran" ELSE verdict[j])
  BY DEF Finish, queues
<1>2. w \in Lane /\ \A u \in Thread : u # t => serve[u].lane # w
  BY <1>1 DEF IInv, Served
<1>3. /\ serve'[t].at = "told" /\ \A u \in Thread : u # t => serve'[u] = serve[u]
  BY <1>1 DEF IInv, TypeOK
<1>4. NotWritten' = NotWritten
  BY <1>1 DEF WillTell, NotWritten, Refusal
<1>5. CASE OnWire[w] = {}
  <2>1. j \notin ran
    BY <1>1, <1>2, <1>5 DEF OnWire
  <2>2. OnWire' = OnWire
    BY <1>1, <1>3, <2>1 DEF OnWire
  <2> QED
    BY <1>1, <1>4, <2>2 DEF Promise!vars
<1>6. CASE OnWire[w] # {}
  <2>1. ASSUME NEW l \in Lane
        PROVE  OnWire'[l] = IF l = w THEN {} ELSE OnWire[l]
    <3>1. CASE l = w
      BY <1>2, <1>3, <3>1 DEF OnWire
    <3>2. CASE l # w
      <4>1. \A u \in Thread : serve'[u].at = "busy" /\ serve'[u].lane = l
                              <=> serve[u].at = "busy" /\ serve[u].lane = l
        BY <1>3, <3>2
      <4>2. \A u \in Thread : serve[u].at = "busy" /\ serve[u].lane = l => serve'[u].job = serve[u].job
        BY <1>3, <3>2
      <4> QED
        BY <1>1, <3>2, <4>1, <4>2 DEF OnWire
    <3> QED
      BY <3>1, <3>2
  <2>2. OnWire' = [l \in Lane |-> OnWire'[l]] /\ OnWire = [l \in Lane |-> OnWire[l]]
    BY DEF OnWire
  <2>3. OnWire' = [OnWire EXCEPT ![w] = {}]
    <3> HIDE DEF w
    <3> QED
      BY <2>1, <2>2
  <2>4. Promise!End(w)
    BY <1>1, <1>4, <1>6, <2>3 DEF Promise!End
  <2> QED
    BY <1>2, <2>4 DEF Promise!Next
<1> QED
  BY <1>5, <1>6

(* A submit, whatever becomes of the job and of the one it replaces.         *)
LEMMA SubmitRefines ==
    ASSUME IInv, NEW a \in Ask, Submit(a)
    PROVE  Promise!Next
<1> DEFINE n == Len(jobs) + 1
<1>1. /\ Len(jobs) < MaxJobs /\ jobs' = Append(jobs, a) /\ ran' = ran
      /\ IF stopping # "no" \/ (closing /\ a.kind # "revert")
         THEN Refused(n, "stopping") ELSE Admit(n, a)
  BY DEF Submit
<1>2. n \in JobId /\ n \notin Open /\ a \in Job /\ Len(jobs) \in Nat /\ verdict[n] = "none"
  <2>1. Len(jobs) \in Nat /\ MaxJobs \in Nat /\ n \in JobId
    BY <1>1, DispatchAssumption, OpenIs DEF JobId
  <2>2. n \notin Open
    BY <2>1, OpenIs
  <2> QED
    BY <2>1, <2>2, DispatchAssumption DEF IInv, Queued
<1>3. ASSUME NEW S, S \subseteq JobId, NEW v \in Refusal, WillTell(S, v)
      PROVE  NotWritten' = NotWritten \cup S
  BY <1>3 DEF WillTell, NotWritten
<1>4. ASSUME NEW out, \/ out \in {{}, {n}}
                      \/ \E k \in Open : /\ out = {k} /\ jobs[k].kind # "revert"
                                         /\ jobs[k].device = a.device /\ jobs[k].channel = a.channel,
             (waiting \cup urgent)' = (Open \cup {n}) \ out, NotWritten' = NotWritten \cup out,
             OnWire' = OnWire
      PROVE  Promise!Next
  <2> DEFINE slot == [b \in Job |-> <<b.device, b.channel>>]
             reverts == {b \in Job : b.kind = "revert"}
  <2>1. \A k \in Open : jobs[k] \in Job
    BY OpenIs
  <2>2. \A k \in Open : jobs[k].kind # "revert" => jobs[k] \notin reverts
    OBVIOUS
  <2>3. \A k \in Open : jobs[k].device = a.device /\ jobs[k].channel = a.channel
                        => slot[jobs[k]] = slot[a]
    BY <1>2, <2>1
  <2>4. out \in {{}, {n}} \cup {{k} : k \in {i \in Open : jobs[i] \notin reverts /\ slot[jobs[i]] = slot[a]}}
    BY <1>4, <2>2, <2>3
  <2>5. Promise!NewJob(a)
    BY <1>1, <1>4, <2>4 DEF Promise!NewJob, Open
  <2> QED
    BY <2>5 DEF Promise!Next
<1>5. ASSUME NEW l \in Lane, EnsureThread(l)
      PROVE  OnWire' = OnWire
  <2>1. \A u \in Thread : serve'[u] = serve[u] \/ (serve[u].at # "busy" /\ serve'[u].at # "busy")
    BY <1>5 DEF EnsureThread, lanes, Off, Serving, IInv, TypeOK
  <2> QED
    BY <1>1, <2>1, OnWireSame
<1>6. LaneOf[a.device] \in Lane
  BY <1>2, DispatchAssumption DEF Job
<1>7. ASSUME NEW v \in Refusal, Refused(n, v)
      PROVE  Promise!Next
  <2>1. NotWritten' = NotWritten \cup {n}
    BY <1>2, <1>3, <1>7 DEF Refused
  <2>2. OnWire' = OnWire
    BY <1>1, <1>7, OnWireSame DEF Refused, lanes
  <2>3. (waiting \cup urgent)' = (Open \cup {n}) \ {n}
    BY <1>2, <1>7 DEF Refused, queues, Open
  <2> QED
    BY <1>4, <2>1, <2>2, <2>3
<1>8. CASE AdmitRevert(n, a)
  <2>1. NotWritten' = NotWritten \cup {}
    BY <1>8 DEF AdmitRevert, NotWritten
  <2>2. OnWire' = OnWire
    BY <1>5, <1>6, <1>8 DEF AdmitRevert
  <2>3. (waiting \cup urgent)' = (Open \cup {n}) \ {}
    BY <1>8 DEF AdmitRevert, Open
  <2> QED
    BY <1>4, <2>1, <2>2, <2>3
<1>9. CASE Enqueue(n, a)
  <2>1. NotWritten' = NotWritten \cup {}
    BY <1>9 DEF Enqueue, NotWritten
  <2>2. OnWire' = OnWire
    BY <1>5, <1>6, <1>9 DEF Enqueue
  <2>3. (waiting \cup urgent)' = (Open \cup {n}) \ {}
    BY <1>9 DEF Enqueue, Open
  <2> QED
    BY <1>4, <2>1, <2>2, <2>3
<1>10. ASSUME NEW old \in waiting, Replaces(a, old), Supersede(n, a, old)
       PROVE  Promise!Next
  <2>1. old \in Open /\ old \in JobId /\ old # n /\ old \notin urgent
    BY <1>2, <1>10, OpenIs DEF Open, IInv, Queued
  <2>2. /\ jobs[old].kind # "revert" /\ jobs[old].device = a.device /\ jobs[old].channel = a.channel
    BY <1>10 DEF Replaces, IsTail, Slot, IInv, Queued
  <2>3. NotWritten' = NotWritten \cup {old}
    BY <1>3, <1>10, <2>1 DEF Supersede, Refusal
  <2>4. OnWire' = OnWire
    BY <1>5, <1>6, <1>10 DEF Supersede
  <2>5. (waiting \cup urgent)' = (Open \cup {n}) \ {old}
    BY <1>10, <2>1 DEF Supersede, Open
  <2> QED
    BY <1>4, <2>1, <2>2, <2>3, <2>4, <2>5
<1>11. CASE Admit(n, a)
  BY <1>7, <1>8, <1>9, <1>10, <1>11 DEF Admit, Refusal
<1> QED
  BY <1>1, <1>7, <1>11 DEF Refusal

LEMMA StepRefines ==
    ASSUME IInv, [Next]_vars
    PROVE  [Promise!Next]_(Promise!vars)
<1>1. ASSUME NEW a \in Ask, Submit(a)
      PROVE  Promise!Next
  BY <1>1, SubmitRefines
<1>2. ASSUME UNCHANGED <<jobs, urgent, waiting, ran, verdict, serve>>
      PROVE  UNCHANGED Promise!vars
  BY <1>2 DEF Promise!vars, NotWritten, OnWire
<1>3. ASSUME NEW j \in JobId, Tell(j) \/ PassDeadline(j) \/ Answered(j) \/ Recheck(j)
      PROVE  UNCHANGED Promise!vars
  BY <1>2, <1>3 DEF Tell, PassDeadline, Answered, Recheck, queues, told, lanes
<1>4. ASSUME NEW S, S \subseteq Open, NEW v \in Refusal, TakeOut(S), WillTell(S, v), UNCHANGED <<jobs, ran, lanes>>
      PROVE  Promise!Next
  <2>1. OnWire' = OnWire
    BY <1>4, OnWireSame DEF lanes
  <2>2. (waiting \cup urgent)' = Open \ S
    BY <1>4 DEF TakeOut, Open
  <2> QED
    BY <1>4, <2>1, <2>2, TakeOutRefines
<1>5. ASSUME NEW j \in JobId, WaitEnds(j)
      PROVE  [Promise!Next]_(Promise!vars)
  <2>1. CASE j \in urgent \cup waiting
    <3>1. TakeOut({j}) /\ WillTell({j}, "cancelled") /\ UNCHANGED <<jobs, ran, lanes>>
      BY <1>5, <2>1 DEF WaitEnds
    <3> QED
      BY <1>4, <2>1, <3>1 DEF Open, Refusal
  <2>2. CASE j \notin urgent \cup waiting
    BY <1>2, <1>5, <2>2 DEF WaitEnds, queues, lanes
  <2> QED
    BY <2>1, <2>2
<1>6. ASSUME NEW D, Cancel(D)
      PROVE  Promise!Next
  <2> DEFINE out == {j \in urgent \cup waiting : jobs[j].device \in D}
  <2>1. TakeOut(out) /\ WillTell(out, "cancelled") /\ UNCHANGED <<jobs, ran, lanes>>
    BY <1>6 DEF Cancel
  <2>2. out \subseteq Open
    BY DEF Open
  <2> QED
    BY <1>4, <2>1, <2>2 DEF Refusal
<1>7. CASE Close
  BY <1>4, <1>7 DEF Close, Open, Refusal
<1>8. CASE StopCancel
  BY <1>4, <1>8 DEF StopCancel, Open, Refusal
<1>9. CASE Stop
  BY <1>2, <1>9 DEF Stop, queues, told, lanes
<1>10. ASSUME NEW t \in Thread, Serve(t)
       PROVE  [Promise!Next]_(Promise!vars)
  <2>1. CASE Free(t) \/ IdleOut(t)
    <3>1. UNCHANGED <<jobs, waiting, urgent, ran, verdict>>
      BY <2>1 DEF Free, IdleOut, queues, told
    <3>2. \A u \in Thread : serve'[u] = serve[u] \/ (serve[u].at # "busy" /\ serve'[u].at # "busy")
      BY <2>1 DEF Free, IdleOut, Idle, Serving, Off, IInv, TypeOK
    <3>3. OnWire' = OnWire
      BY <3>1, <3>2, OnWireSame
    <3> QED
      BY <3>1, <3>3 DEF Promise!vars, NotWritten
  <2> QED
    BY <1>10, <2>1, TakeRefines, FinishRefines DEF Serve
<1>11. CASE UNCHANGED vars
  BY <1>2, <1>11 DEF vars, queues, told, lanes
<1> QED
  BY <1>1, <1>3, <1>5, <1>6, <1>7, <1>8, <1>9, <1>10, <1>11 DEF Next, Wait

(* The dispatcher keeps what its module promises: SerialWires, in which       *)
(* there are no queues, threads, deadlines or callers (_admit, _serve, _run,  *)
(* withdraw, cancel, close, stop).                                            *)
THEOREM DispatchRefines == Spec => PromiseKept
<1>1. Init => Promise!Init
  <2> SUFFICES ASSUME Init
               PROVE  Promise!Init
    OBVIOUS
  <2>1. NotWritten = {}
    BY DEF Init, NotWritten, Refusal
  <2>2. OnWire = [l \in Lane |-> {}]
    BY DEF Init, OnWire
  <2> QED
    BY <2>1, <2>2 DEF Init, Promise!Init
<1>2. IInv /\ [Next]_vars => [Promise!Next]_(Promise!vars)
  BY StepRefines
<1> QED
  BY <1>1, <1>2, DispatchInvariant, PTL DEF Spec, PromiseKept, Promise!Spec
=============================================================================
