-------------------------- MODULE RuleArbiterProofs --------------------------
(***************************************************************************)
(* Proofs about RuleArbiter, for any rules, priorities, ways to combine,    *)
(* values and signals, and any number of changes and failures.  The types   *)
(* come first; then what the writer's queue, its jobs and the bus keep      *)
(* (Work), which a step changes in one of two ways, by leaving the queue    *)
(* as it is or by being done with its head; then the commands that stand.   *)
(***************************************************************************)
EXTENDS RuleArbiter, TLAPS

-----------------------------------------------------------------------------
(* Types. *)

(* A rule that takes its signal's want over is in a state. *)
LEMMA AdoptTyped ==
    ASSUME NEW s \in RuleStates, NEW a \in Ask
    PROVE  Adopt(s, a) \in RuleStates /\ Adopt(s, a).paused = s.paused
<1>1. a.v \in Want /\ a.fast \in BOOLEAN
  BY DEF Ask
<1> QED
  BY <1>1 DEF Adopt, RuleStates

(* So is one whose tick came to a verdict. *)
LEMMA AfterTyped ==
    ASSUME NEW s \in RuleStates, NEW verdict
    PROVE  After(s, verdict) \in RuleStates /\ After(s, verdict).paused = s.paused
BY DEF After, Sent, RuleStates

(* A tick writes only for a rule that wants something. *)
LEMMA VerdictSpeaks ==
    ASSUME NEW r \in Rule, NEW s \in RuleStates, Verdict(r, s) \in {"run", "reassert"}
    PROVE  s.want \in Value
<1>1. Speaks(s)
  BY DEF Verdict
<1> QED
  BY <1>1 DEF Speaks, RuleStates, Want

(* What is decided is a send, of that rule. *)
LEMMA SendOfTyped ==
    ASSUME NEW r \in Rule, NEW s \in RuleStates, NEW verdict, s.want \in Value
    PROVE  SendOf(r, s, verdict) \in Send
<1>1. /\ s.want \in Value /\ s.commanded \in Want /\ s.confirmed \in BOOLEAN
      /\ s.urgent \in BOOLEAN /\ s.fast \in BOOLEAN
  BY DEF RuleStates
<1>2. [commanded |-> s.commanded, confirmed |-> s.confirmed, urgent |-> s.urgent] \in Undo
  BY <1>1 DEF Undo
<1> QED
  BY <1>1, <1>2 DEF SendOf, Send

(* A rule whose job was answered is in a state, paused or not as before. *)
LEMMA AnsweredTyped ==
    ASSUME NEW s \in RuleStates, NEW j \in Job
    PROVE  Answered(s, j) \in RuleStates /\ Answered(s, j).paused = s.paused
<1> DEFINE d == j.send
<1>1. /\ d \in Send /\ d.undo.commanded \in Want /\ d.undo.confirmed \in BOOLEAN
      /\ d.undo.urgent \in BOOLEAN
  BY DEF Job, Send, Undo
<1> HIDE DEF d
<1>2. PutBack(s, d) \in RuleStates /\ PutBack(s, d).paused = s.paused
  BY <1>1 DEF PutBack, RuleStates
<1>3. Unsend(s, d) \in RuleStates /\ Unsend(s, d).paused = s.paused
  BY <1>2 DEF Unsend, RuleStates
<1>4. CASE j.at = "dropped" /\ d.newest
  BY <1>3, <1>4 DEF Answered, d
<1>5. CASE ~(j.at = "dropped" /\ d.newest)
  <2>1. CASE j.at = "dropped"
    BY <1>5, <2>1, <1>1 DEF Answered, d, RuleStates, Want
  <2>2. CASE j.at = "cancelled"
    BY <2>2 DEF Answered, RuleStates, Want
  <2>3. CASE j.at \notin {"dropped", "cancelled"}
    BY <2>3 DEF Answered, RuleStates
  <2> QED
    BY <2>1, <2>2, <2>3
<1> QED
  BY <1>4, <1>5

(* A job, or a send, of which one field changes is one. *)
LEMMA JobChanged ==
    ASSUME NEW j \in Job, NEW p \in {"queued", "writing", "ok", "failed", "cancelled", "dropped"}
    PROVE  /\ [j EXCEPT !.at = p] \in Job
           /\ [j EXCEPT !.send.moved = TRUE] \in Job
           /\ [j EXCEPT !.send.revoked = TRUE] \in Job
           /\ [j EXCEPT !.send.newest = FALSE] \in Job
<1>1. j.send \in Send
  BY DEF Job
<1>2. /\ [j.send EXCEPT !.moved = TRUE] \in Send
      /\ [j.send EXCEPT !.revoked = TRUE] \in Send
      /\ [j.send EXCEPT !.newest = FALSE] \in Send
  BY <1>1 DEF Send
<1> QED
  BY <1>1, <1>2 DEF Job

(* A send of which one field changes is one. *)
LEMMA SendChanged ==
    ASSUME NEW d \in Send
    PROVE  [d EXCEPT !.moved = TRUE] \in Send /\ [d EXCEPT !.revoked = TRUE] \in Send
BY DEF Send

(* A write that was noted leaves every job, every send and the channel typed. *)
LEMMA MovedTyped ==
    ASSUME Typed
    PROVE  /\ MovedJobs(inflight) \in [Rule -> Job \cup {None}]
           /\ MovedSend(deciding) \in Send \cup {None}
           /\ \A v : NotedChannel(v) \in [is : {"on", "off", "unknown"}, young : BOOLEAN]
<1>1. \A r \in Rule : inflight[r] # None => [inflight[r] EXCEPT !.send.moved = TRUE] \in Job
  BY JobChanged DEF Typed
<1>2. MovedJobs(inflight) \in [Rule -> Job \cup {None}]
  BY <1>1 DEF MovedJobs, Typed
<1>3. MovedSend(deciding) \in Send \cup {None}
  BY SendChanged DEF MovedSend, Typed
<1>4. ASSUME NEW v
      PROVE  NotedChannel(v) \in [is : {"on", "off", "unknown"}, young : BOOLEAN]
  BY DEF NotedChannel, TurnsTo, Typed
<1> QED
  BY <1>2, <1>3, <1>4

(* Settling the answers keeps the types. *)
LEMMA SettleTyped ==
    ASSUME Typed, Settle
    PROVE  st' \in [Rule -> RuleStates] /\ inflight' \in [Rule -> Job \cup {None}]
           /\ \A r \in Rule : st'[r].paused = st[r].paused
<1>1. \A r \in Rule : st[r] \in RuleStates /\ inflight[r] \in Job \cup {None}
  BY DEF Typed
<1>2. ASSUME NEW r \in Rule, inflight[r] # None
      PROVE  Answered(st[r], inflight[r]) \in RuleStates
             /\ Answered(st[r], inflight[r]).paused = st[r].paused
  BY <1>1, <1>2, AnsweredTyped
<1> QED
  BY <1>1, <1>2 DEF Settle

(* The rule at the head of a queue that is not empty, and its job. *)
LEMMA HeadTyped ==
    ASSUME Typed, queue # <<>>
    PROVE  /\ HeadRule \in Rule /\ Head(queue) = queue[1] /\ Len(queue) \in Nat \ {0}
           /\ Tail(queue) \in Seq(Entry) /\ inflight[HeadRule] \in Job \cup {None}
           /\ Head(queue).kind \in {"run", "release", "void"}
<1>1. queue \in Seq(Entry)
  BY DEF Typed
<1>2. Head(queue) = queue[1] /\ Head(queue) \in Entry /\ Tail(queue) \in Seq(Entry)
  BY <1>1
<1>3. Head(queue).rule \in Rule /\ Head(queue).kind \in {"run", "release", "void"}
  BY <1>2 DEF Entry
<1> QED
  BY <1>1, <1>2, <1>3 DEF HeadRule, Typed

(* A run at the head of the queue has a job. *)
LEMMA HeadRuns ==
    ASSUME Typed, Line, First("run")
    PROVE  /\ 1 \in Runs /\ queue[1].rule = HeadRule /\ HeadRule \in Rule
           /\ Undone(HeadRule) /\ inflight[HeadRule] \in Job /\ HeadSend \in Send
<1>1. queue # <<>> /\ queue[1].kind = "run" /\ queue[1].rule = HeadRule /\ Len(queue) \in Nat \ {0}
  BY HeadTyped DEF First, HeadRule
<1>2. 1 \in Runs
  BY <1>1 DEF Runs
<1>3. Undone(HeadRule)
  BY <1>1, <1>2 DEF Line
<1>4. inflight[HeadRule] \in Job
  BY <1>1, <1>3, HeadTyped DEF Undone
<1>5. HeadSend \in Send
  BY <1>4 DEF HeadSend, Job
<1> QED
  BY <1>1, <1>2, <1>3, <1>4, <1>5, HeadTyped

(* Every step keeps the types. *)
LEMMA TypedNext ==
    ASSUME Typed, Line, [Next]_vars
    PROVE  Typed'
<1>0. /\ ask \in [Rule -> Ask] /\ armed \in [Rule -> BOOLEAN] /\ st \in [Rule -> RuleStates]
      /\ deciding \in Send \cup {None} /\ inflight \in [Rule -> Job \cup {None}]
      /\ queue \in Seq(Entry)
      /\ chan \in [is : {"on", "off", "unknown"}, young : BOOLEAN]
  BY DEF Typed
<1>1. CASE TickBegins \/ TickEnds
  BY <1>0, <1>1, SettleTyped DEF TickBegins, TickEnds, Typed, wire
<1>2. ASSUME NEW r \in Rule, Evaluate(r)
      PROVE  Typed'
  <2> DEFINE s == Adopt(st[r], ask[r])
             verdict == Verdict(r, s)
  <2>1. s \in RuleStates
    BY <1>0, AdoptTyped
  <2>2. verdict \in {"run", "reassert"} => s.want \in Value
    BY <2>1, VerdictSpeaks
  <2>3. /\ st' = [st EXCEPT ![r] = After(s, verdict)]
        /\ deciding' = IF verdict \in {"run", "reassert"} /\ armed[r]
                       THEN SendOf(r, s, verdict) ELSE None
        /\ inflight' = IF verdict \in {"run", "reassert"} /\ inflight[r] # None
                       THEN [inflight EXCEPT ![r].send.newest = FALSE] ELSE inflight
        /\ UNCHANGED <<ask, armed, queue, chan>>
    BY <1>2 DEF Evaluate, wire
  <2> HIDE DEF verdict, s
  <2>4. st' \in [Rule -> RuleStates]
    BY <1>0, <2>1, <2>3, AfterTyped
  <2>5. deciding' \in Send \cup {None}
    BY <2>1, <2>2, <2>3, SendOfTyped
  <2>6. inflight' \in [Rule -> Job \cup {None}]
    <3>1. CASE inflight' = inflight
      BY <1>0, <3>1
    <3>2. CASE inflight[r] # None /\ inflight' = [inflight EXCEPT ![r].send.newest = FALSE]
      BY <1>0, <3>2, JobChanged
    <3> QED
      BY <2>3, <3>1, <3>2
  <2> QED
    BY <1>0, <2>3, <2>4, <2>5, <2>6 DEF Typed
<1>3. CASE Submit
  <2>1. deciding \in Send /\ deciding.rule \in Rule
    BY <1>0, <1>3 DEF Submit, Send
  <2>2. deciding' = None /\ UNCHANGED <<ask, armed, chan>>
    BY <1>3 DEF Submit, wire
  <2>3. CASE Busy
    <3>1. st' = [st EXCEPT ![deciding.rule].pending = TRUE] /\ UNCHANGED <<inflight, queue>>
      BY <1>3, <2>3 DEF Submit
    <3>2. \A r \in Rule : [st[r] EXCEPT !.pending = TRUE] \in RuleStates
      BY <1>0 DEF RuleStates
    <3> QED
      BY <1>0, <2>1, <2>2, <3>1, <3>2 DEF Typed
  <2>4. CASE ~Busy
    <3>1. /\ inflight' = [inflight EXCEPT ![deciding.rule] = [send |-> deciding, at |-> "queued"]]
          /\ queue' = Append(queue, [kind |-> "run", rule |-> deciding.rule]) /\ UNCHANGED st
      BY <1>3, <2>4 DEF Submit
    <3>2. [send |-> deciding, at |-> "queued"] \in Job
          /\ [kind |-> "run", rule |-> deciding.rule] \in Entry
      BY <2>1 DEF Job, Entry
    <3> QED
      BY <1>0, <2>1, <2>2, <3>1, <3>2 DEF Typed
  <2> QED
    BY <2>3, <2>4
<1>4. CASE HeadVoid
  <2>1. queue # <<>> /\ queue' = Tail(queue) /\ UNCHANGED <<ask, armed, st, deciding, inflight, chan>>
    BY <1>4 DEF HeadVoid, First, rules, wire
  <2> QED
    BY <1>0, <2>1, HeadTyped DEF Typed
<1>5. CASE HeadTakesBus
  <2>1. /\ queue # <<>> /\ UNCHANGED <<ask, armed, st, deciding, chan>>
        /\ queue' \in {queue, Tail(queue)}
        /\ \/ inflight' = inflight
           \/ First("run") /\ \E p \in {"writing", "dropped", "cancelled"} :
                  inflight' = [inflight EXCEPT ![HeadRule].at = p]
    <3>1. Head(queue).kind \in {"run", "release", "void"}
      BY <1>5, HeadTyped DEF HeadTakesBus
    <3> QED
      BY <1>5, <3>1 DEF HeadTakesBus, First, rules, wire
  <2>2. inflight' \in [Rule -> Job \cup {None}]
    <3>1. ASSUME First("run"), NEW p \in {"writing", "dropped", "cancelled"},
                 inflight' = [inflight EXCEPT ![HeadRule].at = p]
          PROVE  inflight' \in [Rule -> Job \cup {None}]
      <4>1. HeadRule \in Rule /\ [inflight[HeadRule] EXCEPT !.at = p] \in Job
        BY <3>1, HeadRuns, JobChanged
      <4> QED
        BY <1>0, <3>1, <4>1
    <3> QED
      BY <1>0, <2>1, <3>1
  <2> QED
    BY <1>0, <2>1, <2>2, HeadTyped DEF Typed
<1>6. CASE RunLands \/ ReleaseLands
  <2>1. queue # <<>> /\ queue' = Tail(queue) /\ UNCHANGED <<ask, armed, st>>
        /\ deciding' = MovedSend(deciding) /\ \E v : chan' = NotedChannel(v)
    BY <1>6 DEF RunLands, ReleaseLands, First, rules, Written
  <2>2. \/ inflight' = MovedJobs(inflight)
        \/ First("run") /\ inflight' = [MovedJobs(inflight) EXCEPT ![HeadRule].at = "ok"]
    BY <1>6 DEF RunLands, ReleaseLands
  <2>3. inflight' \in [Rule -> Job \cup {None}]
    <3>1. CASE First("run") /\ inflight' = [MovedJobs(inflight) EXCEPT ![HeadRule].at = "ok"]
      <4>1. /\ MovedJobs(inflight)[HeadRule] = [inflight[HeadRule] EXCEPT !.send.moved = TRUE]
            /\ HeadRule \in Rule
        BY <3>1, HeadRuns DEF MovedJobs, Undone
      <4>2. MovedJobs(inflight)[HeadRule] \in Job
        BY <3>1, <4>1, HeadRuns, JobChanged
      <4> QED
        BY <3>1, <4>1, <4>2, MovedTyped, JobChanged
    <3> QED
      BY <2>2, <3>1, MovedTyped
  <2> QED
    BY <1>0, <2>1, <2>3, MovedTyped, HeadTyped DEF Typed
<1>7. CASE WriteFails
  <2>1. bus = "writer" /\ queue # <<>>
    BY <1>7 DEF WriteFails, Line
  <2>2. /\ queue' = Tail(queue) /\ UNCHANGED <<ask, armed, st, deciding, chan>>
        /\ inflight' = IF First("run") THEN [inflight EXCEPT ![HeadRule].at = "failed"] ELSE inflight
    BY <1>7 DEF WriteFails, rules, wire
  <2>3. inflight' \in [Rule -> Job \cup {None}]
    BY <1>0, <2>2, HeadRuns, JobChanged
  <2> QED
    BY <1>0, <2>1, <2>2, <2>3, HeadTyped DEF Typed
<1>8. CASE OutLands
  <2>1. /\ UNCHANGED <<ask, armed, st, queue>> /\ deciding' = MovedSend(deciding)
        /\ chan' = NotedChannel(out.v) /\ inflight' = MovedJobs(inflight)
    BY <1>8 DEF OutLands, Written, rules
  <2> QED
    BY <1>0, <2>1, MovedTyped DEF Typed
<1>9. CASE OutTakesBus
  <2>1. UNCHANGED <<ask, armed, deciding, inflight, queue, chan>>
        /\ (st' = st \/ PauseChannel)
    BY <1>9 DEF OutTakesBus, wire
  <2>2. \A r \in Rule : [st[r] EXCEPT !.paused = TRUE] \in RuleStates
    BY <1>0 DEF RuleStates
  <2>3. st' \in [Rule -> RuleStates]
    BY <1>0, <2>1, <2>2 DEF PauseChannel
  <2> QED
    BY <1>0, <2>1, <2>3 DEF Typed
<1>10. ASSUME NEW r \in Rule, PauseEnds(r) \/ Override(r) \/ Arm(r)
       PROVE  Typed'
  <2>1. UNCHANGED <<ask, deciding, inflight, queue, chan>>
    BY <1>10 DEF PauseEnds, Override, Arm, jobs, wire
  <2>2. armed' \in [Rule -> BOOLEAN]
    BY <1>0, <1>10 DEF PauseEnds, Override, Arm
  <2>3. /\ \A b \in BOOLEAN : [st[r] EXCEPT !.paused = b] \in RuleStates
        /\ [[st[r] EXCEPT !.commanded = None] EXCEPT !.pending = st[r].want # None] \in RuleStates
    BY <1>0 DEF RuleStates, Want
  <2>4. CASE PauseEnds(r) \/ Override(r)
    <3>1. st' = [st EXCEPT ![r].paused = FALSE] \/ st' = [st EXCEPT ![r].paused = TRUE]
      BY <2>4 DEF PauseEnds, Override
    <3> QED
      BY <1>0, <2>1, <2>2, <2>3, <3>1 DEF Typed
  <2>5. CASE Arm(r)
    <3>1. st' = [st EXCEPT ![r].commanded = None, ![r].pending = st[r].want # None]
      BY <2>5 DEF Arm
    <3>2. st' \in [Rule -> RuleStates]
      BY <1>0, <2>3, <3>1
    <3> QED
      BY <1>0, <2>1, <2>2, <3>2 DEF Typed
  <2> QED
    BY <1>10, <2>4, <2>5
<1>11. ASSUME NEW r \in Rule, NEW begun \in BOOLEAN, Disarm(r, begun)
       PROVE  Typed'
  <2>1. /\ armed' = [armed EXCEPT ![r] = FALSE] /\ UNCHANGED <<ask, st, chan>>
        /\ inflight' = TakenBack(r, begun)
        /\ deciding' = IF deciding # None /\ deciding.rule = r
                       THEN [deciding EXCEPT !.revoked = TRUE] ELSE deciding
        /\ \/ queue' = Cancelled(r, begun)
           \/ queue' = Append(Cancelled(r, begun), [kind |-> "release", rule |-> r])
    BY <1>11 DEF Disarm, wire
  <2>2. inflight' \in [Rule -> Job \cup {None}]
    <3>1. inflight[r] # None => /\ [inflight[r] EXCEPT !.at = "cancelled"] \in Job
                                /\ [inflight[r] EXCEPT !.send.revoked = TRUE] \in Job
      BY <1>0, JobChanged
    <3> QED
      BY <1>0, <2>1, <3>1 DEF TakenBack
  <2>3. deciding' \in Send \cup {None}
    BY <1>0, <2>1, SendChanged
  <2>4. Cancelled(r, begun) \in Seq(Entry)
    <3>1. DOMAIN queue = 1 .. Len(queue) /\ Len(queue) \in Nat
      BY <1>0
    <3>2. \A e \in Entry : [e EXCEPT !.kind = "void"] \in Entry
      BY DEF Entry
    <3>3. \A i \in DOMAIN queue : queue[i] \in Entry /\ [queue[i] EXCEPT !.kind = "void"] \in Entry
      BY <1>0, <3>1, <3>2
    <3> QED
      BY <3>1, <3>3 DEF Cancelled
  <2>5. [kind |-> "release", rule |-> r] \in Entry
    BY DEF Entry
  <2>6. queue' \in Seq(Entry)
    BY <2>1, <2>4, <2>5
  <2> QED
    BY <1>0, <2>1, <2>2, <2>3, <2>6 DEF Typed
<1>12. ASSUME NEW r \in Rule, NEW a \in Signals[r], Signal(r, a)
       PROVE  Typed'
  <2>1. a \in Ask
    BY SignalAssumption
  <2> QED
    BY <1>0, <1>12, <2>1 DEF Signal, Typed, jobs, wire
<1>13. CASE Age
  BY <1>0, <1>13 DEF Age, Typed, rules, jobs
<1>14. CASE (\E v \in Value : Admit(v)) \/ OutFails \/ Poll \/ UNCHANGED vars
  BY <1>0, <1>14 DEF Admit, OutFails, Poll, Typed, vars, rules, jobs, wire
<1> QED
  BY <1>1, <1>2, <1>3, <1>4, <1>5, <1>6, <1>7, <1>8, <1>9, <1>10, <1>11, <1>12, <1>13, <1>14
     DEF Next, Tick, Writer

-----------------------------------------------------------------------------
(* The queue, its jobs and the bus. *)
Work == Line /\ Unwanted /\ Protected

Open(j) == j # None /\ j.at \in {"queued", "writing"}

(* A send that is carried over: e is d, but for the channel having moved,   *)
(* its rule having left armed, or a newer send.                             *)
SameSend(d, e) ==
    /\ e.rule = d.rule /\ e.want = d.want /\ e.urgent = d.urgent /\ e.free = d.free
    /\ d.moved => e.moved
    /\ d.revoked => e.revoked

Carried(r) ==
    /\ Open(inflight'[r]) <=> Open(inflight[r])
    /\ Open(inflight[r]) => /\ inflight'[r].at = inflight[r].at
                            /\ SameSend(inflight[r].send, inflight'[r].send)

(* The channel's protection lets through what it let through before. *)
Looser == chan'.young => chan' = chan

(* A write moved the channel, and every job knows. *)
AllMoved == \A r \in Rule : inflight'[r] # None => inflight'[r].send.moved

GentleThen(e) ==
    ~e.free => ~e.urgent /\ (e.moved \/ ~(chan'.young /\ TurnsTo(e.want) # chan'.is))

(* A send that broke no protection breaks none once it is carried over. *)
LEMMA GentleStays ==
    ASSUME NEW d, NEW e, Gentle(d), SameSend(d, e), Looser \/ e.moved
    PROVE  GentleThen(e)
BY DEF Gentle, GentleThen, SameSend, Looser, Holds

(* The rules that run are rules, and have their jobs. *)
LEMMA RunsTyped ==
    ASSUME Typed, Line, NEW i \in Runs
    PROVE  /\ queue[i].rule \in Rule /\ Open(inflight[queue[i].rule]) /\ i \in 1 .. Len(queue)
           /\ inflight[queue[i].rule] \in Job
<1>1. queue[i] \in Entry /\ i \in 1 .. Len(queue)
  BY DEF Typed, Runs
<1>2. queue[i].rule \in Rule
  BY <1>1 DEF Entry
<1>3. Open(inflight[queue[i].rule])
  BY DEF Line, Undone, Open
<1> QED
  BY <1>1, <1>2, <1>3 DEF Open, Typed

(* At work means that the head of the queue is a run. *)
LEMMA AtWorkRuns ==
    ASSUME Typed, AtWork
    PROVE  1 \in Runs /\ queue[1].rule = HeadRule /\ bus = "writer" /\ queue # <<>>
<1>1. queue # <<>> /\ bus = "writer"
  BY DEF AtWork, First
<1> QED
  BY <1>1, HeadTyped DEF AtWork, First, Runs, HeadRule

(* A step that leaves the queue as it is, and its jobs but for what is      *)
(* noted in them.                                                           *)
LEMMA QueueStays ==
    ASSUME Typed, Work, queue' = queue, \A r \in Rule : Carried(r),
           bus' = bus \/ bus' # "writer",
           \A r \in Rule : ~armed'[r] => ~armed[r],
           \A r \in released' : r \in released /\ ~armed'[r],
           Looser \/ (bus' # "writer" /\ AllMoved)
    PROVE  Work'
<1>1. Runs' = Runs /\ (AtWork' => AtWork) /\ HeadRule' = HeadRule /\ (First("void")' <=> First("void"))
  BY DEF Runs, AtWork, First, HeadRule
<1>2. ASSUME NEW i \in Runs
      PROVE  /\ queue[i].rule \in Rule /\ Open(inflight'[queue[i].rule])
             /\ SameSend(inflight[queue[i].rule].send, inflight'[queue[i].rule].send)
             /\ inflight'[queue[i].rule].at = inflight[queue[i].rule].at
  BY RunsTyped DEF Work, Carried
<1>3. Line'
  <2>1. \A r, s \in Rule : Open(inflight'[r]) /\ Open(inflight'[s]) => r = s
    BY DEF Work, Line, Undone, Open, Carried
  <2>2. AtWork' => inflight'[HeadRule].at = "writing"
    BY <1>1, <1>2, AtWorkRuns DEF Work, Line
  <2>3. bus' = "writer" => queue' # <<>> /\ ~First("void")'
    BY <1>1 DEF Work, Line
  <2>4. \A i \in Runs : inflight'[queue[i].rule].send.rule = queue[i].rule
    BY <1>2 DEF Work, Line, SameSend
  <2> QED
    BY <1>1, <1>2, <2>1, <2>2, <2>3, <2>4 DEF Line, Undone, Open, Work
<1>4. Unwanted'
  BY <1>1, <1>2 DEF Work, Unwanted, SameSend
<1>5. Protected'
  <2>1. ASSUME NEW i \in Runs
        PROVE  GentleThen(inflight'[queue[i].rule].send)
    <3>1. Gentle(inflight[queue[i].rule].send)
      BY DEF Work, Protected
    <3>2. Looser \/ inflight'[queue[i].rule].send.moved
      BY <1>2 DEF AllMoved, Open
    <3> QED
      BY <1>2, <3>1, <3>2, GentleStays
  <2>2. ASSUME AtWork', ~HeadSend'.free
        PROVE  ~Holds(HeadSend.want)'
    <3>1. Looser /\ AtWork
      BY <1>1, <2>2 DEF AtWork
    <3>2. SameSend(HeadSend, HeadSend')
      BY <1>1, <1>2, <3>1, AtWorkRuns DEF HeadSend
    <3> QED
      BY <2>2, <3>1, <3>2 DEF Work, Protected, SameSend, Holds, Looser
  <2> QED
    BY <1>1, <2>1, <2>2 DEF Protected, Gentle, GentleThen, Holds
<1> QED
  BY <1>3, <1>4, <1>5 DEF Work

(* A step that is done with the head of the queue, and lets go of the bus.  *)
LEMMA HeadDone ==
    ASSUME Typed, Work, queue # <<>>, queue' = Tail(queue), bus' # "writer",
           \A r \in Rule : Open(inflight'[r]) => Open(inflight[r]),
           \A r \in Rule : ~(First("run") /\ HeadRule = r) => Carried(r),
           \A r \in Rule : ~armed'[r] => ~armed[r],
           \A r \in released' : ~armed'[r],
           Looser \/ AllMoved
    PROVE  Work'
<1>1. /\ queue \in Seq(Entry) /\ Len(queue') = Len(queue) - 1 /\ Len(queue) \in Nat \ {0}
      /\ \A i \in 1 .. Len(queue') : queue'[i] = queue[i + 1]
  BY DEF Typed
<1>2. ~AtWork'
  BY DEF AtWork
<1>3. ASSUME NEW i \in Runs'
      PROVE  /\ i \in Nat /\ i + 1 \in Runs /\ i + 1 # 1 /\ queue'[i].rule = queue[i + 1].rule
  BY <1>1, <1>3 DEF Runs
<1>4. ASSUME NEW i \in Runs'
      PROVE  ~First("run")
  <2>1. First("run") => 1 \in Runs
    BY HeadTyped, <1>1 DEF First, Runs
  <2> QED
    BY <1>3, <2>1 DEF Work, Line
<1>5. ASSUME NEW i \in Runs'
      PROVE  LET r == queue'[i].rule
             IN  /\ r \in Rule /\ Open(inflight'[r]) /\ SameSend(inflight[r].send, inflight'[r].send)
                 /\ (~armed[r] => inflight[r].send.revoked) /\ Gentle(inflight[r].send)
  <2>1. queue'[i].rule = queue[i + 1].rule /\ i + 1 \in Runs /\ ~First("run")
    BY <1>3, <1>4
  <2>2. queue[i + 1].rule \in Rule /\ Open(inflight[queue[i + 1].rule])
    BY <2>1, RunsTyped DEF Work
  <2>3. Carried(queue[i + 1].rule)
    BY <2>1, <2>2
  <2> QED
    BY <2>1, <2>2, <2>3 DEF Carried, Work, Unwanted, Protected
<1>6. Line'
  <2>1. \A r, s \in Rule : Open(inflight'[r]) /\ Open(inflight'[s]) => r = s
    BY DEF Work, Line, Undone, Open
  <2>2. ASSUME NEW i \in Runs', NEW j \in Runs'
        PROVE  i = j
    <3>1. i + 1 = j + 1 /\ i \in Nat /\ j \in Nat
      BY <1>3 DEF Work, Line
    <3> QED
      BY <3>1
  <2>3. ASSUME NEW i \in Runs'
        PROVE  inflight'[queue'[i].rule].send.rule = queue'[i].rule
    <3>1. queue'[i].rule = queue[i + 1].rule /\ i + 1 \in Runs
      BY <1>3
    <3>2. inflight[queue'[i].rule].send.rule = queue'[i].rule
      BY <3>1 DEF Work, Line
    <3>3. SameSend(inflight[queue'[i].rule].send, inflight'[queue'[i].rule].send)
      BY <1>5
    <3> QED
      BY <3>2, <3>3 DEF SameSend
  <2> QED
    BY <1>2, <1>5, <2>1, <2>2, <2>3 DEF Line, Undone, Open
<1>7. Unwanted'
  BY <1>2, <1>5 DEF Unwanted, SameSend
<1>8. Protected'
  <2>1. ASSUME NEW i \in Runs'
        PROVE  GentleThen(inflight'[queue'[i].rule].send)
    <3>1. Looser \/ inflight'[queue'[i].rule].send.moved
      BY <1>5 DEF AllMoved, Open
    <3> QED
      BY <1>5, <3>1, GentleStays
  <2> QED
    BY <1>2, <2>1 DEF Protected, Gentle, GentleThen, Holds
<1> QED
  BY <1>6, <1>7, <1>8 DEF Work

(* The answers that are settled are those of jobs that are done. *)
LEMMA SettleCarries ==
    ASSUME Settle, NEW r \in Rule
    PROVE  Carried(r)
BY DEF Settle, Carried, Open, Undone, SameSend

(* A newer send is noted in the job there is. *)
LEMMA EvaluateCarries ==
    ASSUME Typed, NEW q \in Rule, Evaluate(q), NEW r \in Rule
    PROVE  Carried(r)
<1>1. \/ inflight' = inflight
      \/ inflight[q] # None /\ inflight' = [inflight EXCEPT ![q].send.newest = FALSE]
  BY DEF Evaluate
<1>2. CASE inflight' = inflight
  BY <1>2 DEF Carried, SameSend
<1>3. CASE inflight[q] # None /\ inflight' = [inflight EXCEPT ![q].send.newest = FALSE]
  <2>1. inflight[q] \in Job /\ inflight \in [Rule -> Job \cup {None}]
    BY <1>3 DEF Typed
  <2> DEFINE e == [inflight[q] EXCEPT !.send.newest = FALSE]
  <2>2. e \in Job /\ e # None
    BY <2>1, JobChanged, NoneAssumption
  <2>3. e.at = inflight[q].at /\ SameSend(inflight[q].send, e.send)
    BY <2>1 DEF Job, Send, SameSend
  <2>4. inflight'[r] = IF r = q THEN e ELSE inflight[r]
    BY <1>3, <2>1
  <2> HIDE DEF e
  <2> QED
    BY <1>3, <2>2, <2>3, <2>4 DEF Carried, Open, SameSend
<1> QED
  BY <1>1, <1>2, <1>3

(* A write that is noted in every job. *)
LEMMA MovedCarries ==
    ASSUME Typed, NEW r \in Rule
    PROVE  LET j == MovedJobs(inflight)[r]
           IN  /\ Open(j) <=> Open(inflight[r])
               /\ inflight[r] # None => /\ j.at = inflight[r].at /\ j \in Job /\ j.send.moved
                                        /\ SameSend(inflight[r].send, j.send)
               /\ inflight[r] = None => j = None
<1>1. CASE inflight[r] = None
  BY <1>1 DEF MovedJobs, Open
<1>2. CASE inflight[r] # None
  <2>1. inflight[r] \in Job
    BY <1>2 DEF Typed
  <2> DEFINE e == [inflight[r] EXCEPT !.send.moved = TRUE]
  <2>2. e \in Job /\ e # None
    BY <2>1, JobChanged, NoneAssumption
  <2>3. e.at = inflight[r].at /\ e.send.moved /\ SameSend(inflight[r].send, e.send)
    BY <2>1 DEF Job, Send, SameSend
  <2>4. MovedJobs(inflight)[r] = e
    BY <1>2 DEF MovedJobs
  <2> HIDE DEF e
  <2> QED
    BY <1>2, <2>2, <2>3, <2>4 DEF Open
<1> QED
  BY <1>1, <1>2

(* The writer takes the bus for the job at the head, or drops it. *)
LEMMA TakesBusWork ==
    ASSUME Typed, Work, HeadTakesBus
    PROVE  Work'
<1>0. /\ queue # <<>> /\ ~First("void") /\ bus = "free" /\ Head(queue).kind \in {"run", "release"}
      /\ UNCHANGED <<armed, chan, released>> /\ inflight \in [Rule -> Job \cup {None}]
  BY HeadTyped DEF HeadTakesBus, First, rules, wire, history, Typed
<1>1. CASE ~(First("release") \/ (StillWanted(HeadSend) /\ ~Recheck(HeadSend)))
  <2>1. /\ First("run") /\ queue' = Tail(queue) /\ bus' = "free"
        /\ \E p \in {"dropped", "cancelled"} : inflight' = [inflight EXCEPT ![HeadRule].at = p]
    BY <1>0, <1>1 DEF HeadTakesBus, First
  <2>2. PICK p \in {"dropped", "cancelled"} : inflight' = [inflight EXCEPT ![HeadRule].at = p]
    BY <2>1
  <2>3. inflight[HeadRule] \in Job /\ HeadRule \in Rule
    BY <2>1, HeadRuns DEF Work
  <2>4. [inflight[HeadRule] EXCEPT !.at = p].at = p
    BY <2>3 DEF Job
  <2>5. \A r \in Rule : r # HeadRule => inflight'[r] = inflight[r]
    BY <1>0, <2>2
  <2>6. ~Open(inflight'[HeadRule])
    BY <1>0, <2>2, <2>3, <2>4 DEF Open
  <2>7. \A r \in Rule : Open(inflight'[r]) => Open(inflight[r])
    BY <2>5, <2>6
  <2>8. \A r \in Rule : ~(First("run") /\ HeadRule = r) => Carried(r)
    BY <2>1, <2>5 DEF Carried, SameSend
  <2>9. \A r \in released' : ~armed'[r]
    BY <1>0 DEF Work, Unwanted
  <2> QED
    BY <1>0, <2>1, <2>7, <2>8, <2>9, HeadDone DEF Looser
<1>2. CASE First("release") \/ (StillWanted(HeadSend) /\ ~Recheck(HeadSend))
  <2>1. queue' = queue /\ bus' = "writer" /\ Runs' = Runs
    BY <1>2 DEF HeadTakesBus, Runs
  <2>2. /\ HeadRule' = HeadRule /\ (AtWork' <=> First("run")) /\ ~First("void")'
    BY <1>0, <2>1 DEF HeadRule, AtWork, First
  <2>3. CASE First("release")
    <3>1. inflight' = inflight /\ ~AtWork'
      BY <1>2, <2>2, <2>3 DEF HeadTakesBus, First
    <3>2. Line'
      BY <1>0, <2>1, <2>2, <3>1 DEF Work, Line, Undone
    <3>3. Unwanted'
      BY <1>0, <2>1, <2>2, <3>1 DEF Work, Unwanted
    <3>4. Protected'
      BY <1>0, <2>1, <2>2, <3>1 DEF Work, Protected, Gentle, Holds
    <3> QED
      BY <3>2, <3>3, <3>4 DEF Work
  <2>4. CASE First("run")
    <3>0. StillWanted(HeadSend) /\ ~Recheck(HeadSend)
      BY <1>2, <2>4 DEF First
    <3>1. /\ inflight' = [inflight EXCEPT ![HeadRule].at = "writing"]
          /\ inflight[HeadRule] \in Job /\ HeadRule \in Rule /\ Open(inflight[HeadRule])
          /\ 1 \in Runs /\ queue[1].rule = HeadRule
      BY <1>2, <2>4, HeadRuns DEF HeadTakesBus, Work, Open, Undone
    <3> DEFINE e == [inflight[HeadRule] EXCEPT !.at = "writing"]
    <3>2. e \in Job /\ e # None
      BY <3>1, JobChanged, NoneAssumption
    <3>3. e.at = "writing" /\ e.send = inflight[HeadRule].send
      BY <3>1 DEF Job
    <3>4. \A r \in Rule : inflight'[r] = IF r = HeadRule THEN e ELSE inflight[r]
      BY <1>0, <3>1
    <3> HIDE DEF e
    <3>5. \A r \in Rule : /\ Open(inflight'[r]) <=> Open(inflight[r])
                          /\ inflight'[r].send = inflight[r].send
      BY <3>1, <3>2, <3>3, <3>4 DEF Open
    <3>6. \A i \in Runs : queue[i].rule \in Rule
      BY RunsTyped DEF Work
    <3>7. Line'
      <4>1. \A r, s \in Rule : Open(inflight'[r]) /\ Open(inflight'[s]) => r = s
        BY <3>5 DEF Work, Line, Undone, Open
      <4>2. \A i \in Runs : Open(inflight'[queue[i].rule])
        BY <3>5, <3>6 DEF Work, Line, Undone, Open
      <4>3. inflight'[HeadRule].at = "writing"
        BY <3>1, <3>3, <3>4
      <4>4. \A i \in Runs : inflight'[queue[i].rule].send.rule = queue[i].rule
        BY <3>5, <3>6 DEF Work, Line
      <4> QED
        BY <1>0, <2>1, <2>2, <4>1, <4>2, <4>3, <4>4 DEF Line, Undone, Open, Work
    <3>8. Unwanted'
      <4>1. armed[HeadRule]
        BY <3>0, <3>1 DEF Work, Unwanted, StillWanted, HeadSend
      <4> QED
        BY <1>0, <2>1, <2>2, <3>5, <3>6, <4>1 DEF Work, Unwanted
    <3>9. Protected'
      <4>1. Gentle(HeadSend)
        BY <3>1 DEF Work, Protected, HeadSend
      <4>2. ~HeadSend.free => ~Holds(HeadSend.want)
        BY <3>0, <4>1 DEF Recheck, Gentle
      <4>3. HeadSend' = HeadSend
        BY <2>2, <3>1, <3>5 DEF HeadSend
      <4> QED
        BY <1>0, <2>1, <3>5, <3>6, <4>2, <4>3 DEF Work, Protected, Gentle, Holds
    <3> QED
      BY <3>7, <3>8, <3>9 DEF Work
  <2> QED
    BY <1>0, <2>3, <2>4 DEF First
<1> QED
  BY <1>1, <1>2

(* A decided send goes to the end of the queue, which has no other. *)
LEMMA SubmitWork ==
    ASSUME Typed, Work, Decided, Submit
    PROVE  Work'
<1>0. UNCHANGED <<armed, bus, chan, released>> /\ deciding # None
  BY DEF Submit, wire, history
<1>1. CASE Busy
  <2>1. queue' = queue /\ inflight' = inflight
    BY <1>1 DEF Submit
  <2>2. (\A r \in Rule : Carried(r)) /\ \A r \in released' : r \in released /\ ~armed'[r]
    BY <1>0, <2>1 DEF Carried, SameSend, Work, Unwanted
  <2> QED
    BY <1>0, <2>1, <2>2, QueueStays DEF Looser
<1>2. CASE ~Busy
  <2> DEFINE q == deciding.rule
             j == [send |-> deciding, at |-> "queued"]
             n == Len(queue) + 1
  <2>1. /\ q \in Rule /\ j \in Job /\ inflight' = [inflight EXCEPT ![q] = j]
        /\ queue' = Append(queue, [kind |-> "run", rule |-> q])
        /\ queue \in Seq(Entry) /\ inflight \in [Rule -> Job \cup {None}]
    BY <1>0, <1>2 DEF Submit, Typed, Send, Job
  <2>2. /\ Len(queue') = n /\ n \in Nat \ {0} /\ queue'[n].kind = "run" /\ queue'[n].rule = q
        /\ \A i \in 1 .. Len(queue) : queue'[i] = queue[i]
    BY <2>1
  <2>3. j # None /\ j.at = "queued" /\ j.send = deciding
    BY <2>1, NoneAssumption
  <2>4. \A r \in Rule : ~Open(inflight[r])
    BY <1>2 DEF Busy, Undone, Open
  <2>5. Runs = {}
    BY <2>4, RunsTyped DEF Work
  <2>6. Runs' = {n}
    <3>1. ASSUME NEW i \in 1 .. Len(queue)
          PROVE  queue'[i].kind # "run"
      BY <2>2, <2>5 DEF Runs
    <3>2. \A i \in 1 .. n : i \in 1 .. Len(queue) \/ i = n
      BY <2>1
    <3>3. n \in 1 .. Len(queue') /\ \A i \in 1 .. Len(queue') : i \in 1 .. n
      BY <2>2
    <3> HIDE DEF n
    <3> QED
      BY <2>2, <3>1, <3>2, <3>3 DEF Runs
  <2>7. bus = "writer" => /\ queue' # <<>> /\ Head(queue') = Head(queue) /\ Head(queue).kind \notin {"run", "void"}
    <3>1. ASSUME bus = "writer"
          PROVE  queue # <<>> /\ Head(queue).kind # "void"
      BY <3>1 DEF Work, Line, First
    <3>2. queue # <<>> => Head(queue') = Head(queue) /\ queue' # <<>> /\ Head(queue) = queue[1] /\ 1 \in 1 .. Len(queue)
      BY <2>1
    <3>3. queue # <<>> => Head(queue).kind # "run"
      BY <2>5, <3>2 DEF Runs
    <3> QED
      BY <3>1, <3>2, <3>3
  <2>8. ~AtWork' /\ (bus' = "writer" => queue' # <<>> /\ ~First("void")')
    BY <1>0, <2>7 DEF AtWork, First
  <2>9. \A r \in Rule : inflight'[r] = IF r = q THEN j ELSE inflight[r]
    BY <2>1
  <2> HIDE DEF j, n, q
  <2>10. Line'
    <3>1. \A r \in Rule : Open(inflight'[r]) <=> r = q
      BY <2>1, <2>3, <2>4, <2>9 DEF Open
    <3>2. inflight'[q].send.rule = q
      BY <2>1, <2>3, <2>9 DEF q
    <3> QED
      BY <2>1, <2>2, <2>6, <2>8, <3>1, <3>2 DEF Line, Undone, Open
  <2>11. inflight'[q].send = deciding
    BY <2>1, <2>3, <2>9
  <2>12. Unwanted'
    <3>1. ~armed[q] => deciding.revoked
      BY <1>0 DEF Decided, q
    <3> QED
      BY <1>0, <2>2, <2>6, <2>8, <2>11, <3>1 DEF Unwanted, Work
  <2>13. Protected'
    <3>1. Gentle(deciding)
      BY <1>0 DEF Decided
    <3> QED
      BY <1>0, <2>2, <2>6, <2>8, <2>11, <3>1 DEF Protected, Gentle, Holds
  <2> QED
    BY <2>10, <2>12, <2>13 DEF Work
<1> QED
  BY <1>1, <1>2

(* A write that lands is noted in every job, and its own is done. *)
LEMMA LandsWork ==
    ASSUME Typed, Work, RunLands \/ ReleaseLands
    PROVE  Work'
<1>1. /\ queue # <<>> /\ queue' = Tail(queue) /\ bus' = "free" /\ armed' = armed
      /\ inflight \in [Rule -> Job \cup {None}]
  BY DEF RunLands, ReleaseLands, First, Written, rules, Typed
<1>2. CASE RunLands
  <2>1. /\ First("run") /\ released' = released
        /\ inflight' = [MovedJobs(inflight) EXCEPT ![HeadRule].at = "ok"]
    BY <1>2 DEF RunLands
  <2>2. HeadRule \in Rule /\ inflight[HeadRule] \in Job /\ inflight[HeadRule] # None
    BY <2>1, HeadRuns DEF Work, Undone
  <2> DEFINE j == MovedJobs(inflight)[HeadRule]
             e == [j EXCEPT !.at = "ok"]
  <2>3. j \in Job /\ j.send.moved
    BY <2>2, MovedCarries
  <2> HIDE DEF j
  <2>4. e \in Job /\ e # None /\ e.at = "ok" /\ e.send = j.send
    <3>1. e \in Job /\ e # None
      BY <2>3, JobChanged, NoneAssumption
    <3>2. e.at = "ok" /\ e.send = j.send
      BY <2>3 DEF Job
    <3> QED
      BY <3>1, <3>2
  <2>5. \A r \in Rule : inflight'[r] = IF r = HeadRule THEN e ELSE MovedJobs(inflight)[r]
    BY <2>1 DEF MovedJobs, j
  <2> HIDE DEF e
  <2>6. ~Open(inflight'[HeadRule])
    BY <2>2, <2>4, <2>5 DEF Open
  <2>7. ASSUME NEW r \in Rule, r # HeadRule
        PROVE  Carried(r) /\ (inflight'[r] # None => inflight'[r].send.moved)
    BY <2>5, <2>7, MovedCarries DEF Carried, Open
  <2>8. AllMoved
    BY <2>2, <2>3, <2>4, <2>5, <2>7 DEF AllMoved
  <2>9. \A r \in Rule : Open(inflight'[r]) => Open(inflight[r])
    BY <2>6, <2>7 DEF Carried
  <2>10. \A r \in released' : ~armed'[r]
    BY <1>1, <2>1 DEF Work, Unwanted
  <2> QED
    BY <1>1, <2>1, <2>7, <2>8, <2>9, <2>10, HeadDone
<1>3. CASE ReleaseLands
  <2>1. /\ inflight' = MovedJobs(inflight)
        /\ released' = IF armed[HeadRule] THEN released ELSE released \cup {HeadRule}
    BY <1>3 DEF ReleaseLands
  <2>2. ASSUME NEW r \in Rule
        PROVE  Carried(r) /\ (inflight'[r] # None => inflight'[r].send.moved)
    BY <2>1, MovedCarries DEF Carried, Open
  <2>3. AllMoved /\ \A r \in Rule : Open(inflight'[r]) => Open(inflight[r])
    BY <2>2 DEF AllMoved, Carried
  <2>4. \A r \in released' : ~armed'[r]
    BY <1>1, <2>1 DEF Work, Unwanted
  <2> QED
    BY <1>1, <2>2, <2>3, <2>4, HeadDone
<1> QED
  BY <1>2, <1>3

(* A write that fails, and a job the writer passes over. *)
LEMMA HeadGoneWork ==
    ASSUME Typed, Work, WriteFails \/ HeadVoid
    PROVE  Work'
<1>1. /\ queue # <<>> /\ queue' = Tail(queue) /\ bus' # "writer"
      /\ UNCHANGED <<armed, chan, released>> /\ inflight \in [Rule -> Job \cup {None}]
  <2>1. CASE WriteFails
    BY <2>1 DEF WriteFails, Work, Line, rules, wire, history, Typed
  <2>2. CASE HeadVoid
    BY <2>2 DEF HeadVoid, First, Work, Line, rules, wire, history, Typed
  <2> QED
    BY <2>1, <2>2
<1>2. \/ inflight' = inflight
      \/ First("run") /\ inflight' = [inflight EXCEPT ![HeadRule].at = "failed"]
  BY DEF WriteFails, HeadVoid
<1>3. (\A r \in released' : ~armed'[r]) /\ Looser
  BY <1>1 DEF Work, Unwanted, Looser
<1>4. CASE inflight' = inflight
  <2>1. \A r \in Rule : Carried(r) /\ (Open(inflight'[r]) => Open(inflight[r]))
    BY <1>4 DEF Carried, SameSend
  <2> QED
    BY <1>1, <1>3, <2>1, HeadDone
<1>5. CASE First("run") /\ inflight' = [inflight EXCEPT ![HeadRule].at = "failed"]
  <2>1. HeadRule \in Rule /\ inflight[HeadRule] \in Job
    BY <1>5, HeadRuns DEF Work
  <2>2. [inflight[HeadRule] EXCEPT !.at = "failed"].at = "failed"
    BY <2>1 DEF Job
  <2>3. \A r \in Rule : r # HeadRule => inflight'[r] = inflight[r]
    BY <1>1, <1>5
  <2>4. ~Open(inflight'[HeadRule])
    BY <1>1, <1>5, <2>1, <2>2 DEF Open
  <2>5. \A r \in Rule : Open(inflight'[r]) => Open(inflight[r])
    BY <2>3, <2>4
  <2>6. \A r \in Rule : ~(First("run") /\ HeadRule = r) => Carried(r)
    BY <1>5, <2>3 DEF Carried, SameSend
  <2> QED
    BY <1>1, <1>3, <2>5, <2>6, HeadDone
<1> QED
  BY <1>2, <1>4, <1>5

(* A rule that leaves armed takes its job back, or has it unwanted. *)
LEMMA DisarmWork ==
    ASSUME Typed, Work, NEW r \in Rule, NEW begun \in BOOLEAN, Disarm(r, begun)
    PROVE  Work'
<1>1. /\ armed[r] /\ armed' = [armed EXCEPT ![r] = FALSE] /\ UNCHANGED <<bus, chan, released>>
      /\ inflight' = TakenBack(r, begun)
      /\ \/ queue' = Cancelled(r, begun)
         \/ queue' = Append(Cancelled(r, begun), [kind |-> "release", rule |-> r])
      /\ armed \in [Rule -> BOOLEAN] /\ inflight \in [Rule -> Job \cup {None}]
      /\ queue \in Seq(Entry)
  BY DEF Disarm, wire, Typed
<1>2. /\ \A q \in Rule : q # r => inflight'[q] = inflight[q] /\ armed'[q] = armed[q]
      /\ ~armed'[r] /\ r \notin released
  BY <1>1 DEF TakenBack, Work, Unwanted
<1>3. /\ Len(queue) \in Nat /\ DOMAIN queue = 1 .. Len(queue)
      /\ \A i \in 1 .. Len(queue) : queue[i] \in Entry
  BY <1>1
<1> DEFINE C == Cancelled(r, begun)
<1>4. /\ C \in Seq(Entry) /\ Len(C) = Len(queue)
      /\ \A i \in 1 .. Len(queue) :
            C[i] = IF Cancels(r, begun) /\ queue[i].kind = "run"
                   THEN [queue[i] EXCEPT !.kind = "void"] ELSE queue[i]
  <2>1. \A e \in Entry : [e EXCEPT !.kind = "void"] \in Entry
    BY DEF Entry
  <2> QED
    BY <1>3, <2>1 DEF Cancelled
<1> HIDE DEF C
<1>5. /\ Len(queue') \in Nat /\ Len(queue') >= Len(queue)
      /\ \A i \in 1 .. Len(queue) : queue'[i] = C[i]
      /\ \A i \in 1 .. Len(queue') : i \in 1 .. Len(queue) \/ queue'[i].kind = "release"
  <2>1. CASE queue' = C
    BY <1>3, <1>4, <2>1
  <2>2. CASE queue' = Append(C, [kind |-> "release", rule |-> r])
    <3>1. /\ Len(queue') = Len(queue) + 1 /\ queue'[Len(queue) + 1] = [kind |-> "release", rule |-> r]
          /\ \A i \in 1 .. Len(queue) : queue'[i] = C[i]
      BY <1>3, <1>4, <2>2
    <3> QED
      BY <1>3, <3>1
  <2> QED
    BY <1>1, <2>1, <2>2 DEF C
<1>6. \A e \in Entry : [e EXCEPT !.kind = "void"].kind = "void" /\ [e EXCEPT !.kind = "void"].rule = e.rule
  BY DEF Entry
<1>7. ASSUME NEW i \in Runs'
      PROVE  i \in Runs /\ queue'[i] = queue[i] /\ ~Cancels(r, begun)
  <2>1. i \in 1 .. Len(queue) /\ queue'[i].kind = "run"
    BY <1>5, <1>7 DEF Runs
  <2>2. queue[i] \in Entry /\ queue'[i] = C[i]
    BY <1>3, <1>5, <2>1
  <2>3. CASE Cancels(r, begun) /\ queue[i].kind = "run"
    <3>1. C[i] = [queue[i] EXCEPT !.kind = "void"]
      BY <1>4, <2>1, <2>3
    <3> QED
      BY <1>6, <2>1, <2>2, <3>1
  <2>4. CASE ~(Cancels(r, begun) /\ queue[i].kind = "run")
    <3>1. C[i] = queue[i]
      BY <1>4, <2>1, <2>4
    <3> QED
      BY <2>1, <2>2, <2>4, <3>1 DEF Runs
  <2> QED
    BY <2>3, <2>4
<1>8. queue # <<>> => /\ queue' # <<>> /\ Head(queue') = C[1] /\ 1 \in 1 .. Len(queue)
                      /\ Head(queue) = queue[1]
  <2>1. queue' \in Seq(Entry)
    <3>1. [kind |-> "release", rule |-> r] \in Entry
      BY DEF Entry
    <3>2. CASE queue' = C
      BY <1>4, <3>2
    <3>3. CASE queue' = Append(C, [kind |-> "release", rule |-> r])
      BY <1>4, <3>1, <3>3
    <3> QED
      BY <1>1, <3>2, <3>3 DEF C
  <2> QED
    BY <1>1, <1>3, <1>5, <2>1
<1>9. CASE Cancels(r, begun)
  <2>1. Open(inflight[r]) /\ inflight[r].at = "queued" /\ inflight[r] \in Job
    BY <1>1, <1>9 DEF Cancels, Open
  <2>2. Runs' = {}
    BY <1>7, <1>9 DEF Runs
  <2>3. ~AtWork
    BY <2>1, AtWorkRuns, RunsTyped DEF Work, Line, Undone, Open
  <2>4. bus = "writer" => queue # <<>> /\ Head(queue).kind \notin {"run", "void"}
    BY <2>3 DEF Work, Line, AtWork, First
  <2>5. bus' = "writer" => queue' # <<>> /\ Head(queue').kind \notin {"run", "void"}
    BY <1>1, <1>4, <1>8, <2>4
  <2>6. ~AtWork' /\ (bus' = "writer" => queue' # <<>> /\ ~First("void")')
    BY <2>5 DEF AtWork, First
  <2>7. \A q \in Rule : Open(inflight'[q]) => Open(inflight[q])
    BY <1>2, <2>1
  <2>8. Line'
    BY <2>2, <2>6, <2>7 DEF Work, Line, Undone, Open
  <2>9. Unwanted'
    BY <1>1, <1>2, <2>2, <2>6 DEF Work, Unwanted
  <2> QED
    BY <2>2, <2>6, <2>8, <2>9 DEF Work, Protected
<1>10. CASE ~Cancels(r, begun)
  <2>1. /\ \A i \in 1 .. Len(queue) : queue'[i] = queue[i]
        /\ queue # <<>> => Head(queue') = Head(queue)
    BY <1>4, <1>5, <1>8, <1>10
  <2>2. Runs' = Runs
    BY <1>3, <1>5, <1>7, <2>1 DEF Runs
  <2>3. /\ AtWork' <=> AtWork
        /\ AtWork => HeadRule' = HeadRule
        /\ bus' = "writer" => queue' # <<>> /\ ~First("void")'
    BY <1>1, <1>8, <2>1 DEF AtWork, First, HeadRule, Work, Line
  <2>4. Carried(r) /\ (inflight[r] # None => inflight'[r].send.revoked)
    <3>1. CASE inflight[r] = None
      BY <1>1, <3>1 DEF TakenBack, Carried, Open
    <3>2. CASE inflight[r] # None
      <4>1. inflight[r] \in Job
        BY <1>1, <3>2
      <4> DEFINE e == [inflight[r] EXCEPT !.send.revoked = TRUE]
      <4>2. e \in Job /\ e # None
        BY <4>1, JobChanged, NoneAssumption
      <4>3. e.at = inflight[r].at /\ e.send.revoked /\ SameSend(inflight[r].send, e.send)
        BY <4>1 DEF Job, Send, SameSend
      <4>4. inflight'[r] = e
        BY <1>1, <1>10, <3>2 DEF TakenBack
      <4> HIDE DEF e
      <4> QED
        BY <3>2, <4>2, <4>3, <4>4 DEF Carried, Open
    <3> QED
      BY <3>1, <3>2
  <2>5. \A q \in Rule : Carried(q)
    BY <1>2, <2>4 DEF Carried, SameSend
  <2>6. ASSUME NEW i \in Runs
        PROVE  LET q == queue[i].rule
               IN  /\ queue'[i].rule = q /\ q \in Rule /\ Open(inflight'[q])
                   /\ SameSend(inflight[q].send, inflight'[q].send)
                   /\ inflight'[q].at = inflight[q].at
                   /\ ~armed'[q] => inflight'[q].send.revoked
    <3>1. queue[i].rule \in Rule /\ Open(inflight[queue[i].rule]) /\ queue'[i] = queue[i]
      BY <2>1, RunsTyped DEF Work
    <3>2. ~armed[queue[i].rule] => inflight[queue[i].rule].send.revoked
      BY DEF Work, Unwanted
    <3> QED
      BY <1>2, <2>4, <2>5, <3>1, <3>2 DEF Carried, SameSend, Open
  <2>7. Line'
    <3>1. \A q, o \in Rule : Open(inflight'[q]) /\ Open(inflight'[o]) => q = o
      BY <2>5 DEF Work, Line, Undone, Open, Carried
    <3>2. AtWork => inflight'[HeadRule].at = "writing"
      BY <2>6, AtWorkRuns DEF Work, Line
    <3>3. \A i \in Runs : inflight'[queue'[i].rule].send.rule = queue'[i].rule
      BY <2>6 DEF Work, Line, SameSend
    <3> QED
      BY <2>2, <2>3, <2>6, <3>1, <3>2, <3>3 DEF Work, Line, Undone, Open
  <2>8. Unwanted'
    BY <1>1, <1>2, <2>2, <2>3, <2>6 DEF Work, Unwanted
  <2>9. Protected'
    <3>1. ASSUME NEW i \in Runs
          PROVE  GentleThen(inflight'[queue[i].rule].send)
      BY <1>1, <2>6, GentleStays DEF Work, Protected, Looser
    <3>2. AtWork => SameSend(HeadSend, HeadSend')
      BY <2>3, <2>6, AtWorkRuns DEF HeadSend
    <3> QED
      BY <1>1, <2>2, <2>3, <2>6, <3>1, <3>2
         DEF Work, Protected, Gentle, GentleThen, Holds, SameSend
  <2> QED
    BY <2>7, <2>8, <2>9 DEF Work
<1> QED
  BY <1>9, <1>10

(* A write from outside that lands is noted in every job. *)
LEMMA OutLandsWork ==
    ASSUME Typed, Work, OutLands
    PROVE  Work'
<1>1. /\ inflight' = MovedJobs(inflight) /\ bus' = "free"
      /\ UNCHANGED <<armed, queue, released>>
  BY DEF OutLands, Written, rules
<1>2. ASSUME NEW r \in Rule
      PROVE  Carried(r) /\ (inflight'[r] # None => inflight'[r].send.moved)
  BY <1>1, MovedCarries DEF Carried, Open
<1>3. AllMoved /\ \A r \in released' : r \in released /\ ~armed'[r]
  BY <1>1, <1>2 DEF AllMoved, Work, Unwanted
<1> QED
  BY <1>1, <1>2, <1>3, QueueStays

(* A step that touches neither the queue nor the jobs. *)
LEMMA IdleWork ==
    ASSUME Typed, Work, UNCHANGED <<queue, inflight>>, bus' = bus \/ bus' # "writer",
           \A r \in Rule : ~armed'[r] => ~armed[r],
           \A r \in released' : r \in released /\ armed'[r] = armed[r],
           Looser
    PROVE  Work'
<1>1. \A r \in Rule : Carried(r)
  BY DEF Carried, SameSend
<1>2. \A r \in released' : r \in released /\ ~armed'[r]
  BY DEF Work, Unwanted
<1> QED
  BY <1>1, <1>2, QueueStays

(* Every step keeps the queue, its jobs and the bus as they are to be. *)
LEMMA WorkNext ==
    ASSUME Typed, Work, Decided, [Next]_vars
    PROVE  Work'
<1>1. CASE TickBegins \/ TickEnds
  <2>1. Settle /\ UNCHANGED <<armed, queue, bus, chan, released>>
    BY <1>1 DEF TickBegins, TickEnds, wire, history
  <2>2. \A r \in released' : r \in released /\ ~armed'[r]
    BY <2>1 DEF Work, Unwanted
  <2> QED
    BY <2>1, <2>2, SettleCarries, QueueStays DEF Looser
<1>2. ASSUME NEW r \in Rule, Evaluate(r)
      PROVE  Work'
  <2>1. UNCHANGED <<armed, queue, bus, chan, released>>
    BY <1>2 DEF Evaluate, wire, history
  <2>2. \A q \in released' : q \in released /\ ~armed'[q]
    BY <2>1 DEF Work, Unwanted
  <2> QED
    BY <1>2, <2>1, <2>2, EvaluateCarries, QueueStays DEF Looser
<1>3. CASE OutTakesBus
  <2>1. UNCHANGED <<queue, inflight, armed, released, chan>> /\ (bus' = bus \/ bus' = "out")
    BY <1>3 DEF OutTakesBus, wire, history
  <2> QED
    BY <2>1, IdleWork DEF Looser
<1>4. CASE (\E v \in Value : Admit(v)) \/ OutFails \/ UNCHANGED vars
  <2>1. UNCHANGED <<queue, inflight, armed, released, chan>> /\ (bus' = bus \/ bus' = "free")
    BY <1>4 DEF Admit, OutFails, vars, rules, jobs, wire, history
  <2> QED
    BY <2>1, IdleWork DEF Looser
<1>5. ASSUME NEW r \in Rule,
             PauseEnds(r) \/ Override(r) \/ (\E a \in Signals[r] : Signal(r, a))
      PROVE  Work'
  <2>1. UNCHANGED <<queue, inflight, armed, released, chan, bus>>
    BY <1>5 DEF PauseEnds, Override, Signal, jobs, wire, history
  <2> QED
    BY <2>1, IdleWork DEF Looser
<1>6. ASSUME NEW r \in Rule, Arm(r)
      PROVE  Work'
  <2>1. /\ UNCHANGED <<queue, inflight, chan, bus>>
        /\ armed' = [armed EXCEPT ![r] = TRUE] /\ released' = released \ {r}
    BY <1>6 DEF Arm, jobs, wire
  <2>2. armed \in [Rule -> BOOLEAN]
    BY DEF Typed
  <2>3. /\ \A q \in Rule : ~armed'[q] => ~armed[q]
        /\ \A q \in released' : q \in released /\ armed'[q] = armed[q]
    BY <2>1, <2>2
  <2> QED
    BY <2>1, <2>3, IdleWork DEF Looser
<1>7. CASE Age
  <2>1. UNCHANGED <<queue, inflight, armed, released, bus>> /\ ~chan'.young
    BY <1>7 DEF Age, jobs, rules, history, Typed
  <2> QED
    BY <2>1, IdleWork DEF Looser
<1>8. CASE Poll
  <2>1. UNCHANGED <<queue, inflight, armed, released, chan, bus>>
    BY <1>8 DEF Poll, jobs, history
  <2> QED
    BY <2>1, IdleWork DEF Looser
<1> QED
  BY <1>1, <1>2, <1>3, <1>4, <1>5, <1>6, <1>7, <1>8, SubmitWork, TakesBusWork, LandsWork, HeadGoneWork,
     DisarmWork, OutLandsWork DEF Next, Tick, Writer

-----------------------------------------------------------------------------
(* What is decided. *)

(* What a tick decides breaks no protection, or is free to. *)
LEMMA VerdictGentle ==
    ASSUME NEW r \in Rule, NEW s \in RuleStates, Verdict(r, s) \in {"run", "reassert"}
    PROVE  LET d == SendOf(r, s, Verdict(r, s))
           IN  d.rule = r /\ (~d.free => ~d.urgent /\ ~Holds(d.want))
<1> DEFINE verdict == Verdict(r, s)
<1>1. s.urgent \in BOOLEAN /\ s.fast \in BOOLEAN
  BY DEF RuleStates
<1>2. ~s.urgent /\ ~s.fast => ~Holds(s.want)
  BY <1>1 DEF Verdict
<1> HIDE DEF verdict
<1>3. LET d == SendOf(r, s, verdict)
      IN  d.rule = r /\ d.want = s.want /\ (d.free <=> s.urgent \/ s.fast)
          /\ (d.urgent <=> s.urgent \/ (verdict = "reassert" /\ s.fast))
  BY DEF SendOf
<1> QED
  BY <1>2, <1>3 DEF verdict

(* A decision that stands, while the protection does not get stricter. *)
LEMMA DecidedStays ==
    ASSUME Typed, Decided, deciding' = deciding, Looser,
           \A r \in Rule : ~armed'[r] => ~armed[r]
    PROVE  Decided'
<1>1. deciding # None => deciding.rule \in Rule
  BY DEF Typed, Send
<1> QED
  BY <1>1 DEF Decided, Gentle, Holds, Looser

(* A decision that is noted: the channel moved, or its rule left armed. *)
LEMMA DecidedNoted ==
    ASSUME Typed, Decided, armed' = armed, deciding' = MovedSend(deciding)
    PROVE  Decided'
<1>1. CASE deciding = None
  BY <1>1 DEF MovedSend, Decided
<1>2. CASE deciding # None
  <2>1. deciding \in Send /\ deciding' = [deciding EXCEPT !.moved = TRUE]
    BY <1>2 DEF Typed, MovedSend
  <2>2. deciding'.moved /\ SameSend(deciding, deciding')
    BY <2>1 DEF Send, SameSend
  <2>3. GentleThen(deciding')
    BY <1>2, <2>2, GentleStays DEF Decided
  <2> QED
    BY <1>2, <2>2, <2>3 DEF Decided, SameSend, Gentle, GentleThen, Holds
<1> QED
  BY <1>1, <1>2

(* Every step keeps what is decided as it is to be. *)
LEMMA DecidedNext ==
    ASSUME Typed, Decided, [Next]_vars
    PROVE  Decided'
<1>1. ASSUME NEW r \in Rule, Evaluate(r)
      PROVE  Decided'
  <2> DEFINE s == Adopt(st[r], ask[r])
             verdict == Verdict(r, s)
  <2>1. s \in RuleStates
    BY AdoptTyped DEF Typed
  <2>2. /\ deciding' = IF verdict \in {"run", "reassert"} /\ armed[r]
                       THEN SendOf(r, s, verdict) ELSE None
        /\ UNCHANGED <<armed, chan>>
    BY <1>1 DEF Evaluate, wire
  <2> HIDE DEF s
  <2>3. deciding' # None => /\ deciding'.rule = r /\ armed[r]
                            /\ (~deciding'.free => ~deciding'.urgent /\ ~Holds(deciding'.want))
    BY <2>1, <2>2, VerdictGentle
  <2> QED
    BY <2>2, <2>3 DEF Decided, Gentle, Holds
<1>2. CASE RunLands \/ ReleaseLands \/ OutLands
  BY <1>2, DecidedNoted DEF RunLands, ReleaseLands, OutLands, Written, rules
<1>3. ASSUME NEW r \in Rule, NEW begun \in BOOLEAN, Disarm(r, begun)
      PROVE  Decided'
  <2>1. /\ armed' = [armed EXCEPT ![r] = FALSE] /\ UNCHANGED chan
        /\ armed \in [Rule -> BOOLEAN]
        /\ deciding' = IF deciding # None /\ deciding.rule = r
                       THEN [deciding EXCEPT !.revoked = TRUE] ELSE deciding
    BY <1>3 DEF Disarm, wire, Typed
  <2>2. CASE deciding # None /\ deciding.rule = r
    <3>1. deciding \in Send /\ deciding' = [deciding EXCEPT !.revoked = TRUE]
      BY <2>1, <2>2 DEF Typed
    <3>2. deciding'.revoked /\ SameSend(deciding, deciding')
      BY <3>1 DEF Send, SameSend
    <3>3. GentleThen(deciding')
      BY <2>1, <2>2, <3>2, GentleStays DEF Decided, Looser
    <3> QED
      BY <2>2, <3>2, <3>3 DEF Decided, Gentle, GentleThen, Holds
  <2>3. CASE deciding = None \/ deciding.rule # r
    <3>1. deciding # None => deciding.rule \in Rule /\ armed'[deciding.rule] = armed[deciding.rule]
      BY <2>1, <2>3 DEF Typed, Send
    <3> QED
      BY <2>1, <2>3, <3>1 DEF Decided, Gentle, Holds
  <2> QED
    BY <2>2, <2>3
<1>4. CASE Submit
  BY <1>4 DEF Submit, Decided
<1>5. CASE TickBegins \/ TickEnds \/ HeadVoid \/ HeadTakesBus \/ WriteFails \/ OutTakesBus \/ OutFails
           \/ UNCHANGED vars
  <2>1. UNCHANGED <<armed, deciding, chan>>
    BY <1>5 DEF TickBegins, TickEnds, HeadVoid, HeadTakesBus, WriteFails, OutTakesBus, OutFails, vars,
                rules, wire
  <2> QED
    BY <2>1, DecidedStays DEF Looser
<1>6. CASE (\E v \in Value : Admit(v)) \/ Poll \/ \E r \in Rule : \E a \in Signals[r] : Signal(r, a)
  <2>1. UNCHANGED <<armed, deciding, chan>>
    BY <1>6 DEF Admit, Poll, Signal, rules, wire
  <2> QED
    BY <2>1, DecidedStays DEF Looser
<1>7. ASSUME NEW r \in Rule, PauseEnds(r) \/ Override(r) \/ Arm(r)
      PROVE  Decided'
  <2>1. UNCHANGED <<deciding, chan>> /\ (armed' = armed \/ armed' = [armed EXCEPT ![r] = TRUE])
        /\ armed \in [Rule -> BOOLEAN]
    BY <1>7 DEF PauseEnds, Override, Arm, wire, Typed
  <2>2. \A q \in Rule : ~armed'[q] => ~armed[q]
    BY <2>1
  <2> QED
    BY <2>1, <2>2, DecidedStays DEF Looser
<1>8. CASE Age
  <2>1. UNCHANGED <<armed, deciding>> /\ ~chan'.young
    BY <1>8 DEF Age, rules, Typed
  <2> QED
    BY <2>1, DecidedStays DEF Looser
<1> QED
  BY <1>1, <1>2, <1>3, <1>4, <1>5, <1>6, <1>7, <1>8 DEF Next, Tick, Writer

(* What a command from outside holds the bus for breaks no protection. *)
LEMMA OutNext ==
    ASSUME Typed, OutGentle, [Next]_vars
    PROVE  OutGentle'
<1>1. CASE OutTakesBus
  BY <1>1 DEF OutTakesBus, RefusedAtHead, OutGentle, Holds, wire
<1>2. CASE RunLands \/ ReleaseLands \/ OutLands \/ WriteFails \/ OutFails \/ HeadTakesBus
  BY <1>2 DEF RunLands, ReleaseLands, OutLands, WriteFails, OutFails, HeadTakesBus, Written, OutGentle
<1>3. CASE Age
  <2>1. UNCHANGED <<bus, out>> /\ ~chan'.young
    BY <1>3 DEF Age, jobs, Typed
  <2> QED
    BY <2>1 DEF OutGentle, Holds
<1>4. CASE TickBegins \/ TickEnds \/ Submit \/ HeadVoid \/ Poll \/ UNCHANGED vars
  <2>1. UNCHANGED <<bus, out, chan>>
    BY <1>4 DEF TickBegins, TickEnds, Submit, HeadVoid, Poll, vars, jobs, wire
  <2> QED
    BY <2>1 DEF OutGentle, Holds
<1>5. ASSUME NEW r \in Rule,
             \/ Evaluate(r) \/ PauseEnds(r) \/ Override(r) \/ Arm(r)
             \/ \E begun \in BOOLEAN : Disarm(r, begun)
             \/ \E a \in Signals[r] : Signal(r, a)
      PROVE  OutGentle'
  <2>1. UNCHANGED <<bus, out, chan>>
    BY <1>5 DEF Evaluate, PauseEnds, Override, Arm, Disarm, Signal, jobs, wire
  <2> QED
    BY <2>1 DEF OutGentle, Holds
<1>6. ASSUME NEW v \in Value, Admit(v)
      PROVE  OutGentle'
  BY <1>6 DEF Admit, OutGentle, jobs
<1> QED
  BY <1>1, <1>2, <1>3, <1>4, <1>5, <1>6 DEF Next, Tick, Writer

-----------------------------------------------------------------------------
(* A command that stands. *)
NoRelease(q) == \A i \in 1 .. Len(q) : q[i].kind # "release"

(* The head of the queue that is not empty is its first. *)
LEMMA StandsHead ==
    ASSUME Typed, Stands, standing # None, queue # <<>>
    PROVE  ~First("release") /\ NoRelease(Tail(queue))
<1>1. /\ queue \in Seq(Entry) /\ Head(queue) = queue[1] /\ 1 \in 1 .. Len(queue)
      /\ Len(Tail(queue)) = Len(queue) - 1 /\ Len(queue) \in Nat
      /\ \A i \in 1 .. Len(Tail(queue)) : i + 1 \in 1 .. Len(queue) /\ Tail(queue)[i] = queue[i + 1]
  BY DEF Typed
<1> QED
  BY <1>1 DEF Stands, First, NoRelease

(* A step that writes nothing and brings no release. *)
LEMMA StandsStay ==
    ASSUME Stands, standing' # None => standing' = standing /\ device' = device,
           standing' # None => \A r \in Routine : armed'[r] =>
                (st'[r].paused \/ (armed[r] /\ (st[r].paused => st'[r].paused))),
           standing' # None => (NoRelease(queue) => NoRelease(queue')),
           standing' # None /\ AtWork' => AtWork /\ HeadRule' = HeadRule
    PROVE  Stands'
BY DEF Stands, NoRelease

(* A step after which the queue is as it was, or the writer has not the bus. *)
LEMMA SameHead ==
    ASSUME queue' = queue, bus' = bus \/ bus' # "writer"
    PROVE  AtWork' => AtWork /\ HeadRule' = HeadRule
BY DEF AtWork, First, HeadRule

(* Every step keeps what a command that stands rests on. *)
LEMMA StandsNext ==
    ASSUME Typed, Work, Stands, [Next]_vars
    PROVE  Stands'
<1>0. /\ st \in [Rule -> RuleStates] /\ armed \in [Rule -> BOOLEAN]
      /\ Routine \subseteq Rule
  BY DEF Typed, Routine
<1>1. CASE TickBegins \/ TickEnds
  <2>1. /\ Settle /\ UNCHANGED <<armed, queue, bus, device, standing>>
    BY <1>1 DEF TickBegins, TickEnds, wire, history
  <2>2. \A r \in Rule : st'[r].paused = st[r].paused
    BY <2>1, SettleTyped
  <2> QED
    BY <1>0, <2>1, <2>2, SameHead, StandsStay
<1>2. ASSUME NEW r \in Rule, Evaluate(r)
      PROVE  Stands'
  <2> DEFINE s == Adopt(st[r], ask[r])
  <2>1. /\ UNCHANGED <<armed, queue, bus, device, standing>>
        /\ st' = [st EXCEPT ![r] = After(s, Verdict(r, s))]
    BY <1>2 DEF Evaluate, wire, history
  <2>2. s \in RuleStates /\ s.paused = st[r].paused
    BY AdoptTyped DEF Typed
  <2> HIDE DEF s
  <2>3. After(s, Verdict(r, s)).paused = st[r].paused
    BY <2>2, AfterTyped
  <2>4. \A q \in Rule : st'[q].paused = st[q].paused
    BY <1>0, <2>1, <2>3
  <2> QED
    BY <1>0, <2>1, <2>4, SameHead, StandsStay
<1>3. CASE Submit
  <2>1. UNCHANGED <<armed, bus, device, standing>> /\ deciding # None
    BY <1>3 DEF Submit, wire, history
  <2>2. \A q \in Rule : st'[q].paused = st[q].paused
    <3>1. deciding.rule \in Rule
      BY <2>1 DEF Typed, Send
    <3>2. st' = st \/ st' = [st EXCEPT ![deciding.rule].pending = TRUE]
      BY <1>3 DEF Submit
    <3>3. \A q \in Rule : [st[q] EXCEPT !.pending = TRUE].paused = st[q].paused
      BY <1>0 DEF RuleStates
    <3> QED
      BY <1>0, <3>1, <3>2, <3>3
  <2>3. CASE queue' = queue
    BY <1>0, <2>1, <2>2, <2>3, SameHead, StandsStay
  <2>4. CASE queue' # queue
    <3>1. queue' = Append(queue, [kind |-> "run", rule |-> deciding.rule]) /\ queue \in Seq(Entry)
      BY <1>3, <2>4 DEF Submit, Typed
    <3>2. NoRelease(queue) => NoRelease(queue')
      <4>1. /\ Len(queue') = Len(queue) + 1 /\ Len(queue) \in Nat
            /\ queue'[Len(queue) + 1].kind = "run"
            /\ \A i \in 1 .. Len(queue) : queue'[i] = queue[i]
        BY <3>1
      <4> QED
        BY <4>1 DEF NoRelease
    <3>3. AtWork' => AtWork /\ HeadRule' = HeadRule
      <4>1. bus = "writer" => queue # <<>>
        BY DEF Work, Line
      <4>2. queue # <<>> => Head(queue') = Head(queue)
        BY <3>1
      <4> QED
        BY <2>1, <4>1, <4>2 DEF AtWork, First, HeadRule
    <3> QED
      BY <1>0, <2>1, <2>2, <3>2, <3>3, StandsStay
  <2> QED
    BY <2>3, <2>4
<1>4. CASE HeadVoid \/ WriteFails
  <2>1. /\ queue # <<>> /\ queue' = Tail(queue) /\ bus' # "writer"
        /\ UNCHANGED <<armed, st, device, standing>>
    <3>1. CASE HeadVoid
      BY <3>1 DEF HeadVoid, First, Work, Line, rules, wire, history
    <3>2. CASE WriteFails
      BY <3>2 DEF WriteFails, Work, Line, rules, wire, history
    <3> QED
      BY <1>4, <3>1, <3>2
  <2>2. standing' # None => NoRelease(queue')
    BY <2>1, StandsHead
  <2> QED
    BY <2>1, <2>2, StandsStay DEF AtWork
<1>5. CASE HeadTakesBus
  <2>1. queue # <<>> /\ ~First("void") /\ UNCHANGED <<armed, st, device, standing>>
    BY <1>5 DEF HeadTakesBus, rules, wire, history
  <2>2. CASE queue' = Tail(queue) /\ bus' # "writer"
    <3>1. standing' # None => NoRelease(queue')
      BY <2>1, <2>2, StandsHead
    <3> QED
      BY <2>1, <2>2, <3>1, StandsStay DEF AtWork
  <2>3. CASE ~(queue' = Tail(queue) /\ bus' # "writer")
    <3>1. /\ queue' = queue /\ bus' = "writer"
          /\ First("release") \/ (StillWanted(HeadSend) /\ ~Recheck(HeadSend))
      BY <1>5, <2>3 DEF HeadTakesBus
    <3>2. ASSUME standing # None
          PROVE  HeadRule \notin Routine
      <4>1. First("run") /\ StillWanted(HeadSend) /\ ~Recheck(HeadSend)
        BY <2>1, <3>1, <3>2, StandsHead, HeadTyped DEF First
      <4>2. /\ HeadRule \in Rule /\ HeadSend.rule = HeadRule
            /\ ~armed[HeadRule] => HeadSend.revoked
        BY <4>1, HeadRuns DEF Work, Line, Unwanted, HeadSend
      <4>3. armed[HeadRule]
        BY <4>1, <4>2 DEF StillWanted
      <4>4. HeadRule \in Routine => ~st[HeadRule].paused
        BY <4>1, <4>2 DEF Recheck
      <4> QED
        BY <3>2, <4>3, <4>4 DEF Stands
    <3>3. HeadRule' = HeadRule
      BY <3>1 DEF HeadRule
    <3> QED
      BY <2>1, <3>1, <3>2, <3>3 DEF Stands
  <2> QED
    BY <2>2, <2>3
<1>6. CASE RunLands
  <2>1. /\ bus = "writer" /\ First("run") /\ standing' = IF HeadRule \in Routine THEN standing ELSE None
    BY <1>6 DEF RunLands
  <2>2. standing' = None
    BY <2>1 DEF Stands, AtWork
  <2> QED
    BY <2>2 DEF Stands
<1>7. CASE ReleaseLands
  <2>1. First("release") /\ queue # <<>> /\ standing' = standing
    BY <1>7 DEF ReleaseLands, First
  <2>2. standing' = None
    BY <2>1, StandsHead
  <2> QED
    BY <2>2 DEF Stands
<1>8. CASE OutTakesBus
  <2>1. /\ UNCHANGED <<armed, queue, device, standing>> /\ (bus' = bus \/ bus' = "out")
        /\ st' = st \/ PauseChannel
    BY <1>8 DEF OutTakesBus, wire, history
  <2>2. \A r \in Rule : st[r].paused => st'[r].paused
    <3>1. \A r \in Rule : [st[r] EXCEPT !.paused = TRUE].paused
      BY <1>0 DEF RuleStates
    <3> QED
      BY <1>0, <2>1, <3>1 DEF PauseChannel
  <2> QED
    BY <1>0, <2>1, <2>2, SameHead, StandsStay
<1>9. CASE OutLands
  <2>1. /\ UNCHANGED <<armed, st, queue>> /\ bus' = "free" /\ device' = out.v
        /\ standing' = IF Took THEN out.v ELSE None
    BY <1>9 DEF OutLands, Written, rules
  <2>2. CASE Took
    BY <2>1, <2>2 DEF Took, Stands, AtWork
  <2>3. CASE ~Took
    BY <2>1, <2>3 DEF Stands
  <2> QED
    BY <2>2, <2>3
<1>10. CASE (\E v \in Value : Admit(v)) \/ OutFails \/ Poll \/ Age \/ UNCHANGED vars
  <2>1. UNCHANGED <<armed, st, queue, device, standing>> /\ (bus' = bus \/ bus' = "free")
    BY <1>10 DEF Admit, OutFails, Poll, Age, vars, rules, jobs, wire, history
  <2> QED
    BY <1>0, <2>1, SameHead, StandsStay
<1>11. ASSUME NEW r \in Rule, PauseEnds(r)
       PROVE  Stands'
  BY <1>11 DEF PauseEnds, Stands
<1>12. ASSUME NEW r \in Rule, Override(r) \/ Arm(r) \/ \E a \in Signals[r] : Signal(r, a)
       PROVE  Stands'
  <2>1. UNCHANGED <<queue, bus, device>>
    BY <1>12 DEF Override, Arm, Signal, jobs, wire
  <2>2. CASE Override(r)
    <3>1. /\ standing' = standing /\ armed' = armed /\ st' = [st EXCEPT ![r].paused = TRUE]
          /\ [st[r] EXCEPT !.paused = TRUE].paused
      BY <1>0, <2>2 DEF Override, history, RuleStates
    <3>2. \A q \in Rule : st[q].paused => st'[q].paused
      BY <1>0, <3>1
    <3> QED
      BY <1>0, <2>1, <3>1, <3>2, SameHead, StandsStay
  <2>3. CASE Arm(r)
    <3>1. /\ armed' = [armed EXCEPT ![r] = TRUE]
          /\ st' = [st EXCEPT ![r].commanded = None, ![r].pending = st[r].want # None]
          /\ standing' = IF st[r].paused THEN standing ELSE None
      BY <2>3 DEF Arm
    <3>2. [[st[r] EXCEPT !.commanded = None] EXCEPT !.pending = st[r].want # None].paused = st[r].paused
      BY <1>0 DEF RuleStates
    <3>3. \A q \in Rule : st'[q].paused = st[q].paused /\ (q # r => armed'[q] = armed[q])
      BY <1>0, <3>1, <3>2
    <3>4. \A q \in Routine : standing' # None /\ armed'[q] =>
             (st'[q].paused \/ (armed[q] /\ (st[q].paused => st'[q].paused)))
      BY <1>0, <3>1, <3>3
    <3> QED
      BY <2>1, <3>1, <3>4, SameHead, StandsStay
  <2>4. CASE \E a \in Signals[r] : Signal(r, a)
    <3>1. UNCHANGED <<armed, st, standing>>
      BY <2>4 DEF Signal, history
    <3> QED
      BY <1>0, <2>1, <3>1, SameHead, StandsStay
  <2> QED
    BY <1>12, <2>2, <2>3, <2>4
<1>13. ASSUME NEW r \in Rule, NEW begun \in BOOLEAN, Disarm(r, begun)
       PROVE  Stands'
  <2>1. /\ armed' = [armed EXCEPT ![r] = FALSE] /\ UNCHANGED <<st, bus, device>>
        /\ standing' = None \/ (standing' = standing /\ queue' = Cancelled(r, begun))
    BY <1>13 DEF Disarm, wire
  <2>2. CASE standing' = None
    BY <2>2 DEF Stands
  <2>3. CASE standing' # None
    <3>1. /\ standing' = standing /\ queue' = Cancelled(r, begun) /\ queue \in Seq(Entry)
          /\ DOMAIN queue = 1 .. Len(queue) /\ Len(queue) \in Nat
          /\ \A i \in 1 .. Len(queue) : queue[i] \in Entry
      BY <2>1, <2>3 DEF Typed
    <3>2. \A e \in Entry : /\ [e EXCEPT !.kind = "void"] \in Entry
                           /\ [e EXCEPT !.kind = "void"].kind = "void"
      BY DEF Entry
    <3>3. /\ queue' \in Seq(Entry) /\ Len(queue') = Len(queue)
          /\ \A i \in 1 .. Len(queue) : queue'[i].kind = "void" \/ queue'[i] = queue[i]
      BY <3>1, <3>2 DEF Cancelled
    <3>4. NoRelease(queue) => NoRelease(queue')
      BY <3>1, <3>3 DEF NoRelease
    <3>5. queue' # <<>> => Head(queue') = queue'[1] /\ Head(queue) = queue[1] /\ 1 \in 1 .. Len(queue)
      BY <3>1, <3>3
    <3>6. AtWork' => AtWork /\ HeadRule' = HeadRule
      <4>1. ASSUME AtWork'
            PROVE  queue' # <<>> /\ Head(queue').kind = "run" /\ bus = "writer"
        BY <2>1, <4>1 DEF AtWork, First
      <4>2. ASSUME AtWork'
            PROVE  Head(queue') = Head(queue) /\ queue # <<>>
        BY <3>1, <3>3, <3>5, <4>1, <4>2
      <4> QED
        BY <4>1, <4>2 DEF AtWork, First, HeadRule
    <3>7. \A q \in Routine : armed'[q] => armed[q]
      BY <1>0, <2>1
    <3> QED
      BY <2>1, <3>1, <3>4, <3>6, <3>7, StandsStay
  <2> QED
    BY <2>2, <2>3
<1> QED
  BY <1>1, <1>2, <1>3, <1>4, <1>5, <1>6, <1>7, <1>8, <1>9, <1>10, <1>11, <1>12, <1>13
     DEF Next, Tick, Writer

-----------------------------------------------------------------------------
(* A want is never forgotten. *)
Keeps(s) == s.want # None => s.pending \/ s.commanded = s.want

(* The tick takes the signal's want over, and comes to a verdict. *)
LEMMA AdoptKeeps ==
    ASSUME NEW s \in RuleStates, NEW a \in Ask, Keeps(s)
    PROVE  Keeps(Adopt(s, a))
BY DEF Adopt, Keeps, RuleStates

(* The verdict sends it, keeps it to be sent, or finds it done. *)
LEMMA AfterKeeps ==
    ASSUME NEW s \in RuleStates, NEW verdict, Keeps(s)
    PROVE  Keeps(After(s, verdict))
BY DEF After, Sent, Keeps, RuleStates

(* The answer of its job leaves it what it wants to send. *)
LEMMA AnsweredKeeps ==
    ASSUME NEW s \in RuleStates, NEW j \in Job, Keeps(s)
    PROVE  Keeps(Answered(s, j))
<1> DEFINE d == j.send
<1>1. /\ d \in Send /\ d.undo.commanded \in Want /\ d.undo.confirmed \in BOOLEAN
      /\ d.undo.urgent \in BOOLEAN
  BY DEF Job, Send, Undo
<1> HIDE DEF d
<1>2. PutBack(s, d) \in RuleStates
  BY <1>1 DEF PutBack, RuleStates
<1>3. Keeps(Unsend(s, d))
  BY <1>2 DEF Unsend, Keeps, RuleStates
<1>4. CASE j.at = "dropped" /\ d.newest
  BY <1>3, <1>4 DEF Answered, d
<1>5. CASE j.at = "dropped" /\ ~d.newest
  BY <1>5 DEF Answered, d, Keeps, RuleStates
<1>6. CASE j.at = "cancelled"
  BY <1>6 DEF Answered, Keeps, RuleStates
<1>7. CASE j.at \notin {"dropped", "cancelled"}
  BY <1>7 DEF Answered, Keeps, RuleStates
<1> QED
  BY <1>4, <1>5, <1>6, <1>7

(* Every step leaves every rule what it wants to send. *)
LEMMA KeptNext ==
    ASSUME Typed, Kept, [Next]_vars
    PROVE  Kept'
<1>0. st \in [Rule -> RuleStates] /\ \A r \in Rule : st[r] \in RuleStates /\ Keeps(st[r])
  BY DEF Typed, Kept, Keeps
<1>1. SUFFICES \A r \in Rule : Keeps(st'[r])
  BY DEF Kept, Keeps
<1>2. CASE TickBegins \/ TickEnds
  <2>1. Settle
    BY <1>2 DEF TickBegins, TickEnds
  <2>2. \A r \in Rule : inflight[r] # None => Keeps(Answered(st[r], inflight[r]))
    BY <1>0, AnsweredKeeps DEF Typed
  <2> QED
    BY <1>0, <2>1, <2>2 DEF Settle
<1>3. ASSUME NEW q \in Rule, Evaluate(q)
      PROVE  \A r \in Rule : Keeps(st'[r])
  <2> DEFINE s == Adopt(st[q], ask[q])
  <2>1. s \in RuleStates /\ Keeps(s)
    BY <1>0, AdoptTyped, AdoptKeeps DEF Typed
  <2>2. st' = [st EXCEPT ![q] = After(s, Verdict(q, s))]
    BY <1>3 DEF Evaluate
  <2> HIDE DEF s
  <2>3. Keeps(After(s, Verdict(q, s)))
    BY <2>1, AfterKeeps
  <2> QED
    BY <1>0, <2>2, <2>3
<1>4. CASE Submit
  <2>1. st' = st \/ st' = [st EXCEPT ![deciding.rule].pending = TRUE]
    BY <1>4 DEF Submit
  <2>2. \A r \in Rule : Keeps([st[r] EXCEPT !.pending = TRUE])
    BY <1>0 DEF Keeps, RuleStates
  <2>3. deciding.rule \in Rule
    BY <1>4 DEF Submit, Typed, Send
  <2> QED
    BY <1>0, <2>1, <2>2, <2>3
<1>5. CASE OutTakesBus
  <2>1. st' = st \/ PauseChannel
    BY <1>5 DEF OutTakesBus
  <2>2. \A r \in Rule : Keeps([st[r] EXCEPT !.paused = TRUE])
    BY <1>0 DEF Keeps, RuleStates
  <2> QED
    BY <1>0, <2>1, <2>2 DEF PauseChannel
<1>6. ASSUME NEW q \in Rule, PauseEnds(q) \/ Override(q)
      PROVE  \A r \in Rule : Keeps(st'[r])
  <2>1. st' = [st EXCEPT ![q].paused = FALSE] \/ st' = [st EXCEPT ![q].paused = TRUE]
    BY <1>6 DEF PauseEnds, Override
  <2>2. Keeps([st[q] EXCEPT !.paused = FALSE]) /\ Keeps([st[q] EXCEPT !.paused = TRUE])
    BY <1>0 DEF Keeps, RuleStates
  <2> QED
    BY <1>0, <2>1, <2>2
<1>7. ASSUME NEW q \in Rule, Arm(q)
      PROVE  \A r \in Rule : Keeps(st'[r])
  <2>1. st' = [st EXCEPT ![q].commanded = None, ![q].pending = st[q].want # None]
    BY <1>7 DEF Arm
  <2>2. Keeps([[st[q] EXCEPT !.commanded = None] EXCEPT !.pending = st[q].want # None])
    BY <1>0 DEF Keeps, RuleStates
  <2> QED
    BY <1>0, <2>1, <2>2
<1>8. CASE HeadVoid \/ HeadTakesBus \/ WriteFails \/ RunLands \/ ReleaseLands \/ OutLands \/ OutFails
           \/ Poll \/ Age \/ UNCHANGED vars
  <2>1. st' = st
    BY <1>8 DEF HeadVoid, HeadTakesBus, WriteFails, RunLands, ReleaseLands, OutLands, OutFails, Poll, Age,
                vars, rules
  <2> QED
    BY <1>0, <2>1
<1>9. CASE \/ \E v \in Value : Admit(v)
           \/ \E r \in Rule : \E begun \in BOOLEAN : Disarm(r, begun)
           \/ \E r \in Rule : \E a \in Signals[r] : Signal(r, a)
  <2>1. st' = st
    BY <1>9 DEF Admit, Disarm, Signal, rules
  <2> QED
    BY <1>0, <2>1
<1> QED
  BY <1>2, <1>3, <1>4, <1>5, <1>6, <1>7, <1>8, <1>9 DEF Next, Tick, Writer

-----------------------------------------------------------------------------
(* The invariant, and what the runs check. *)

(* No rule asks for anything, nothing is queued, nobody has the bus. *)
LEMMA RuleStarts == Init => IInv
<1> SUFFICES ASSUME Init PROVE IInv
  OBVIOUS
<1>1. queue = <<>> /\ bus = "free" /\ deciding = None /\ standing = None /\ released = {}
      /\ \A r \in Rule : inflight[r] = None
  BY DEF Init
<1>2. Runs = {}
  BY <1>1 DEF Runs
<1>3. Typed
  <2>1. [v |-> None, fast |-> FALSE] \in Ask
    BY DEF Ask, Want
  <2>2. [want |-> None, fast |-> FALSE, commanded |-> None, confirmed |-> FALSE,
         pending |-> FALSE, urgent |-> FALSE, paused |-> FALSE] \in RuleStates
    BY DEF RuleStates, Want
  <2> QED
    BY <2>1, <2>2 DEF Init, Typed
<1>4. Line /\ Unwanted /\ Protected
  BY <1>1, <1>2 DEF Line, Undone, Unwanted, Protected, AtWork
<1>5. Decided /\ OutGentle /\ Stands
  BY <1>1 DEF Decided, OutGentle, Stands
<1>6. Kept
  BY DEF Init, Kept
<1> QED
  BY <1>3, <1>4, <1>5, <1>6 DEF IInv

(* The inductive invariant of the rules, the writer and the commands from   *)
(* outside.                                                                 *)
THEOREM RuleInvariant == Spec => []IInv
<1>1. IInv /\ [Next]_vars => IInv'
  BY TypedNext, WorkNext, DecidedNext, OutNext, StandsNext, KeptNext DEF IInv, Work
<1> QED
  BY RuleStarts, <1>1, PTL DEF Spec

(* A command from outside that took the channel stands until a pause ends,  *)
(* a safety rule writes, or a rule is armed or released (_recheck and       *)
(* still_wanted under the bus lock, pause_channel).                         *)
THEOREM RuleCommandStands == Spec => []CommandStands
<1>1. IInv => CommandStands
  BY DEF IInv, Stands, CommandStands
<1> QED
  BY <1>1, RuleInvariant, PTL

(* What an armed rule wants is to be sent, on its way, or what it holds the *)
(* read-back against (RuleState, unsend, _settle).                          *)
THEOREM RuleWantKept == Spec => []WantKept
<1>1. IInv => WantKept
  BY DEF IInv, Kept, WantKept
<1> QED
  BY <1>1, RuleInvariant, PTL

(* The channel is not switched within its minimum time but by an emergency  *)
(* or a release (ChannelState.hold at the tick, in _recheck and in          *)
(* _execute).                                                               *)
THEOREM RuleProtectionKept == Spec => ProtectionKept
<1>1. ASSUME IInv, [Next]_vars, chan.young, Bound
      PROVE  chan'.is = chan.is
  <2>1. CASE bus = "out"
    <3>1. ~Holds(out.v)
      BY <1>1, <2>1 DEF IInv, OutGentle
    <3>2. chan' = chan \/ chan' = [chan EXCEPT !.young = FALSE] \/ chan' = NotedChannel(out.v)
      BY <1>1, <2>1 DEF Next, Tick, Writer, TickBegins, TickEnds, Evaluate, Submit, HeadVoid, HeadTakesBus,
         RunLands, ReleaseLands, WriteFails, Admit, OutTakesBus, OutLands, OutFails, Written, PauseEnds,
         Override, Arm, Disarm, Signal, Poll, Age, vars, wire
    <3> QED
      BY <1>1, <3>1, <3>2 DEF Holds, NotedChannel, IInv, Typed
  <2>2. CASE bus = "writer" /\ First("run") /\ ~HeadSend.free
    <3>1. ~Holds(HeadSend.want)
      BY <1>1, <2>2 DEF IInv, Protected, AtWork
    <3>2. chan' = chan \/ chan' = [chan EXCEPT !.young = FALSE] \/ chan' = NotedChannel(HeadSend.want)
      BY <1>1, <2>2 DEF Next, Tick, Writer, TickBegins, TickEnds, Evaluate, Submit, HeadVoid, HeadTakesBus,
         RunLands, ReleaseLands, WriteFails, Admit, OutTakesBus, OutLands, OutFails, Written, PauseEnds,
         Override, Arm, Disarm, Signal, Poll, Age, First, vars, wire
    <3> QED
      BY <1>1, <3>1, <3>2 DEF Holds, NotedChannel, IInv, Typed
  <2> QED
    BY <1>1, <2>1, <2>2 DEF Bound
<1>2. IInv /\ [Next]_vars => [chan.young /\ Bound => chan'.is = chan.is]_vars
  BY <1>1
<1> QED
  BY <1>2, RuleInvariant, PTL DEF Spec, ProtectionKept

(* A rule that left armed does not write after its release (still_wanted,   *)
(* _cancel_queued, _release_one).                                           *)
THEOREM RuleReleasedStays == Spec => ReleasedStays
<1>1. IInv => [bus = "writer" /\ First("run") /\ bus' = "free" => HeadRule \notin released]_vars
  BY DEF IInv, Unwanted, AtWork
<1> QED
  BY <1>1, RuleInvariant, PTL DEF ReleasedStays
=============================================================================
