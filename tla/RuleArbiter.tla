------------------------------ MODULE RuleArbiter ------------------------------
(***************************************************************************)
(* The rules engine against the rest of the gateway, on one channel of one  *)
(* device: the rules thread that decides (rules.py, rules_runtime.py), the  *)
(* referee between rules and the channel's own protection (arbiter.py), the *)
(* device's writer thread, and the commands from outside with their last    *)
(* checks under the bus lock (_admit_command and _execute in api.py).       *)
(*                                                                          *)
(* Abstractions.  A rule's signal, debounce and clamp come down to what it  *)
(* asks for and whether that is an emergency.  Times are left out: a minimum *)
(* run or stop time, a pause and a drift end when they end.  The numbers of *)
(* a send (send_no), of a write on the channel (seq) and of a rule's        *)
(* generation are kept as what a comparison with them answers: newest,      *)
(* moved, revoked.  A release is judged on the newest read-back.            *)
(***************************************************************************)
EXTENDS Naturals, Sequences, SequencesExt, FiniteSets

CONSTANTS Rule,
          Prio,      \* rule -> priority
          Combine,   \* "priority", "min", "max": how the channel combines
          Value,     \* what may be asked for: numbers
          Signals,   \* rule -> what its signal may come to ask for
          Off, Safe, \* the value that stops the device; the command's safe one
          MaxMoves,  \* bound: changes of a signal or a mode, commands, failures
          Faults,    \* "fail": a write is refused by the device
          None

ASSUME RuleAssumption ==
    /\ Prio \in [Rule -> Nat] /\ \A r, s \in Rule : Prio[r] = Prio[s] => r = s
    /\ Value \subseteq Nat /\ {Off, Safe} \subseteq Value
    /\ Combine \in {"priority", "min", "max"}
    /\ None \notin Value

Safety == 90                          \* LAYERS['safety']
Routine == {r \in Rule : Prio[r] < Safety}
Order == SetToSortSeq(Rule, LAMBDA r, s : Prio[r] > Prio[s])

Want == Value \cup {None}
Ask == {a \in [v : Want, fast : BOOLEAN] : a.v = None => ~a.fast}
ASSUME SignalAssumption == Signals \in [Rule -> SUBSET Ask]
Undo == [commanded : Want, confirmed : BOOLEAN, urgent : BOOLEAN]
Send == [rule : Rule, want : Value, urgent : BOOLEAN, free : BOOLEAN, undo : Undo,
         moved : BOOLEAN, revoked : BOOLEAN, newest : BOOLEAN]

VARIABLES
    ask,       \* what each rule's signal asks for
    armed,     \* mode of each rule: armed, else shadow
    st,        \* RuleState of each rule
    since,     \* per rule: the read-back is newer than its last send
    tick,      \* the rules thread: the rules it still has to look at
    deciding,  \* the send it is about to hand to the writer
    inflight,  \* per rule: its job, until it is settled
    queue,     \* the device's writer
    bus,       \* who holds the bus lock
    out,       \* the command from outside
    device, seen, \* what the device holds, the last read-back
    chan,      \* ChannelState: on or off, within its minimum time
    standing,  \* history: the value of a command from outside that paused the rules
    released,  \* history: rules written back to safe since they left armed
    moves

rules == <<ask, armed, st, since>>
jobs == <<inflight, queue, bus>>
wire == <<device, seen, chan>>
history == <<standing, released>>
vars == <<rules, tick, deciding, jobs, out, wire, history, moves>>

RuleStates == [want : Want, fast : BOOLEAN, commanded : Want, confirmed : BOOLEAN,
               pending : BOOLEAN, urgent : BOOLEAN, paused : BOOLEAN]
Job == [send : Send, at : {"queued", "writing", "ok", "failed", "cancelled", "dropped"}]
Entry == [kind : {"run", "release", "void"}, rule : Rule]

ASSUME NoneAssumption == None \notin Job \cup Send

(* The part of the types the proofs rest on, and the rest. *)
Typed ==
    /\ ask \in [Rule -> Ask] /\ armed \in [Rule -> BOOLEAN]
    /\ st \in [Rule -> RuleStates]
    /\ deciding \in Send \cup {None}
    /\ inflight \in [Rule -> Job \cup {None}]
    /\ queue \in Seq(Entry)
    /\ chan \in [is : {"on", "off", "unknown"}, young : BOOLEAN]

TypeOK ==
    /\ Typed
    /\ since \in [Rule -> BOOLEAN]
    /\ tick \in [on : BOOLEAN, todo : Seq(Rule), revoked : SUBSET Rule]
    /\ bus \in {"free", "writer", "out"}
    /\ out \in [v : Value, pauses : BOOLEAN] \cup {None}
    /\ device \in Value /\ seen \in Value
    /\ standing \in Want /\ released \subseteq Rule /\ moves \in 0 .. MaxMoves

NoTick == [on |-> FALSE, todo |-> <<>>, revoked |-> {}]

Init ==
    /\ ask = [r \in Rule |-> [v |-> None, fast |-> FALSE]]
    /\ armed = [r \in Rule |-> TRUE]
    /\ st = [r \in Rule |-> [want |-> None, fast |-> FALSE, commanded |-> None, confirmed |-> FALSE,
                             pending |-> FALSE, urgent |-> FALSE, paused |-> FALSE]]
    /\ since = [r \in Rule |-> TRUE]
    /\ tick = NoTick /\ deciding = None
    /\ inflight = [r \in Rule |-> None] /\ queue = <<>> /\ bus = "free" /\ out = None
    /\ device = Off /\ seen = Off
    /\ chan = [is |-> "unknown", young |-> FALSE]
    /\ standing = None /\ released = {} /\ moves = 0

Move == moves < MaxMoves /\ moves' = moves + 1

-----------------------------------------------------------------------------
(* The referee: arbiter.py, _candidates, _gate.                             *)

(* Mutant: a rule in shadow has an opinion too. *)
AnyWithWant == {r \in Rule : st[r].want # None /\ ~st[r].paused}

Candidates == {r \in Rule : armed[r] /\ st[r].want # None /\ ~st[r].paused}

(* winner() of two: o with what it wants now, r with what it is to write. *)
Beats(o, r, w) ==
    CASE Combine = "min" -> st[o].want < w \/ (st[o].want = w /\ Prio[o] > Prio[r])
      [] Combine = "max" -> st[o].want > w \/ (st[o].want = w /\ Prio[o] > Prio[r])
      [] OTHER -> Prio[o] > Prio[r]

Yields(r, w) == \E o \in Candidates \ {r} : Beats(o, r, w)

TurnsTo(v) == IF v = Off THEN "off" ELSE "on"

(* ChannelState.hold: a write that switches the channel within its minimum time. *)
(* (A channel without min_interval_s and max_starts_per_h, which hold more.)     *)
Holds(v) == chan.young /\ TurnsTo(v) # chan.is

SafetyHolder == \E r \in Candidates : r \notin Routine

(* channel_note: the motor's view of a write, and its number. *)
NotedChannel(v) == IF TurnsTo(v) = chan.is THEN chan ELSE [is |-> TurnsTo(v), young |-> TRUE]
MovedSend(d) == IF d = None THEN None ELSE [d EXCEPT !.moved = TRUE]
MovedJobs(js) == [r \in Rule |-> IF js[r] = None THEN None ELSE [js[r] EXCEPT !.send.moved = TRUE]]

-----------------------------------------------------------------------------
(* RuleState.                                                               *)

(* _transition: the want the signal asks for becomes the rule's. *)
Adopt(s, a) ==
    IF a.v = s.want /\ a.fast = s.fast THEN s
    ELSE [s EXCEPT !.want = a.v, !.fast = a.fast, !.urgent = a.fast,
                   !.pending = @ \/ a.v # s.commanded]

(* _send *)
Sent(s) == [s EXCEPT !.pending = FALSE, !.commanded = s.want, !.confirmed = FALSE, !.urgent = FALSE]

Speaks(s) == ~s.paused /\ s.want # None

(* _act_body: what comes of a tick. *)
Verdict(r, s) ==
    CASE ~Speaks(s) -> "quiet"
      [] Speaks(s) /\ Yields(r, s.want) -> "yield"
      [] Speaks(s) /\ ~Yields(r, s.want) /\ s.pending ->
            IF seen = s.want THEN "match"
            ELSE IF Holds(s.want) /\ ~s.urgent /\ ~s.fast THEN "hold" ELSE "run"
      [] OTHER ->
            IF s.commanded = None \/ seen = s.want \/ (Holds(s.want) /\ ~s.fast) THEN "hold"
            ELSE "reassert"

After(s, verdict) ==
    CASE verdict = "yield" -> [s EXCEPT !.pending = TRUE]
      [] verdict = "match" -> [s EXCEPT !.pending = FALSE, !.commanded = s.want, !.confirmed = TRUE]
      [] verdict \in {"run", "reassert"} -> Sent(s)
      [] OTHER -> s

SendOf(r, s, verdict) ==
    [rule |-> r, want |-> s.want,
     urgent |-> s.urgent \/ (verdict = "reassert" /\ s.fast),
     free |-> s.urgent \/ s.fast,
     undo |-> [commanded |-> s.commanded, confirmed |-> s.confirmed, urgent |-> s.urgent],
     moved |-> FALSE, revoked |-> r \in tick.revoked, newest |-> TRUE]

(* unsend, by delta: what still is as the send left it goes back. *)
PutBack(s, d) ==
    LET own == s.commanded = d.want /\ ~s.confirmed
    IN [s EXCEPT !.commanded = IF own THEN d.undo.commanded ELSE @,
                 !.confirmed = IF own THEN d.undo.confirmed ELSE @,
                 !.urgent = @ \/ d.undo.urgent]

(* Mutant: the want of a send taken back is not to be sent again. *)
UnsendQuietly(s, d) == PutBack(s, d)

Unsend(s, d) ==
    LET b == PutBack(s, d) IN [b EXCEPT !.pending = b.want # None /\ ~(b.confirmed /\ b.commanded = b.want)]

(* _settle, of one answer. *)
Answered(s, j) ==
    LET d == j.send IN
    CASE j.at = "dropped" /\ d.newest -> Unsend(s, d)
      [] j.at = "dropped" /\ ~d.newest -> [s EXCEPT !.confirmed = FALSE, !.commanded = None, !.pending = TRUE]
      [] j.at = "cancelled" -> [s EXCEPT !.confirmed = FALSE, !.commanded = None, !.pending = s.want # None]
      [] OTHER -> [s EXCEPT !.confirmed = (j.at = "ok" /\ d.want = s.commanded),
                            !.pending = @ \/ j.at = "failed"]

-----------------------------------------------------------------------------
(* The rules thread.                                                        *)
Undone(r) == inflight[r] # None /\ inflight[r].at \in {"queued", "writing"}
Busy == \E r \in Rule : Undone(r)

Settle ==
    /\ st' = [r \in Rule |-> IF inflight[r] = None \/ Undone(r) THEN st[r] ELSE Answered(st[r], inflight[r])]
    /\ inflight' = [r \in Rule |-> IF Undone(r) THEN inflight[r] ELSE None]

TickBegins ==
    /\ ~tick.on
    /\ Settle
    /\ tick' = [on |-> TRUE, todo |-> Order, revoked |-> {}]
    /\ UNCHANGED <<ask, armed, since, deciding, queue, bus, out, wire, history, moves>>

(* evaluate, with the number of the channel's last write read before it. *)
Evaluate(r) ==
    /\ tick.on /\ deciding = None /\ tick.todo # <<>> /\ r = Head(tick.todo)
    /\ LET s == Adopt(st[r], ask[r])
           verdict == Verdict(r, s)
           sends == verdict \in {"run", "reassert"}
       IN /\ st' = [st EXCEPT ![r] = After(s, verdict)]
          /\ deciding' = IF sends /\ armed[r] THEN SendOf(r, s, verdict) ELSE None
          /\ since' = [since EXCEPT ![r] = @ /\ ~sends]
          /\ inflight' = IF sends /\ inflight[r] # None
                         THEN [inflight EXCEPT ![r].send.newest = FALSE] ELSE inflight
    /\ tick' = [tick EXCEPT !.todo = Tail(@)]
    /\ UNCHANGED <<ask, armed, queue, bus, out, wire, history, moves>>

(* _act: to the device's writer, or, while its last command has not         *)
(* answered, left pending.                                                  *)
Submit ==
    /\ deciding # None
    /\ IF Busy
       THEN /\ st' = [st EXCEPT ![deciding.rule].pending = TRUE]
            /\ UNCHANGED <<inflight, queue>>
       ELSE /\ inflight' = [inflight EXCEPT ![deciding.rule] = [send |-> deciding, at |-> "queued"]]
            /\ queue' = Append(queue, [kind |-> "run", rule |-> deciding.rule])
            /\ UNCHANGED st
    /\ deciding' = None
    /\ UNCHANGED <<ask, armed, since, tick, bus, out, wire, history, moves>>

TickEnds ==
    /\ tick.on /\ tick.todo = <<>> /\ deciding = None
    /\ Settle
    /\ tick' = NoTick
    /\ UNCHANGED <<ask, armed, since, deciding, queue, bus, out, wire, history, moves>>

-----------------------------------------------------------------------------
(* The device's writer, for the job at its head: _execute of a rule's       *)
(* command, and _release_one.                                               *)
First(kind) == queue # <<>> /\ Head(queue).kind = kind
HeadRule == Head(queue).rule
HeadSend == inflight[HeadRule].send

(* Mutant: the hold is judged by the tick alone. *)
RecheckNoHold(d) ==
    \/ d.rule \in Routine /\ st[d.rule].paused
    \/ Yields(d.rule, d.want)

(* Mutant: a pause since the decision is not looked at. *)
RecheckNoPause(d) ==
    \/ Yields(d.rule, d.want)
    \/ Holds(d.want) /\ ~d.urgent /\ d.moved

(* _recheck: paused, outranked or held since the decision. *)
Recheck(d) ==
    \/ d.rule \in Routine /\ st[d.rule].paused
    \/ Yields(d.rule, d.want)
    \/ Holds(d.want) /\ ~d.urgent /\ d.moved

(* Mutant: a rule that left armed is not asked again under the bus lock. *)
AlwaysWanted(d) == TRUE

StillWanted(d) == ~d.revoked

(* The writer passes over a job that was cancelled before it began. *)
HeadVoid ==
    /\ First("void") /\ queue' = Tail(queue)
    /\ UNCHANGED <<rules, tick, deciding, inflight, bus, out, wire, history, moves>>

HeadTakesBus ==
    /\ queue # <<>> /\ ~First("void") /\ bus = "free"
    /\ IF First("release") \/ (StillWanted(HeadSend) /\ ~Recheck(HeadSend))
       THEN /\ bus' = "writer" /\ UNCHANGED queue
            /\ inflight' = IF First("run") THEN [inflight EXCEPT ![HeadRule].at = "writing"] ELSE inflight
       ELSE /\ inflight' = [inflight EXCEPT ![HeadRule].at = IF StillWanted(HeadSend) THEN "dropped" ELSE "cancelled"]
            /\ queue' = Tail(queue) /\ UNCHANGED bus
    /\ UNCHANGED <<rules, tick, deciding, out, wire, history, moves>>

(* A write lands and is stamped before the bus is let go. *)
Written(v) ==
    /\ device' = v /\ chan' = NotedChannel(v)
    /\ deciding' = MovedSend(deciding)
    /\ bus' = "free" /\ UNCHANGED seen

RunLands ==
    /\ bus = "writer" /\ First("run")
    /\ Written(HeadSend.want)
    /\ inflight' = [MovedJobs(inflight) EXCEPT ![HeadRule].at = "ok"]
    /\ queue' = Tail(queue)
    /\ standing' = IF HeadRule \in Routine THEN standing ELSE None
    /\ UNCHANGED <<rules, tick, out, released, moves>>

ReleaseLands ==
    /\ bus = "writer" /\ First("release")
    /\ Written(Safe)
    /\ inflight' = MovedJobs(inflight)
    /\ queue' = Tail(queue)
    /\ released' = IF armed[HeadRule] THEN released ELSE released \cup {HeadRule}
    /\ UNCHANGED <<rules, tick, out, standing, moves>>

WriteFails ==
    /\ "fail" \in Faults /\ Move
    /\ bus = "writer" /\ bus' = "free"
    /\ inflight' = IF First("run") THEN [inflight EXCEPT ![HeadRule].at = "failed"] ELSE inflight
    /\ queue' = Tail(queue)
    /\ UNCHANGED <<rules, tick, deciding, out, wire, history>>

-----------------------------------------------------------------------------
(* A command from outside: _admit_command, then _execute in its lane.       *)
Owned == \E r \in Rule : armed[r] /\ ~st[r].paused

Admit(v) ==
    /\ out = None /\ Move
    /\ ~(Owned /\ SafetyHolder) /\ ~Holds(v)
    /\ out' = [v |-> v, pauses |-> Owned]
    /\ UNCHANGED <<rules, tick, deciding, jobs, wire, history>>

RefusedAtHead == Holds(out.v) \/ SafetyHolder

(* pause_channel *)
PauseChannel ==
    st' = IF out.pauses
          THEN [r \in Rule |-> IF armed[r] /\ r \in Routine THEN [st[r] EXCEPT !.paused = TRUE] ELSE st[r]]
          ELSE st

OutTakesBus ==
    /\ out # None /\ bus = "free"
    /\ IF RefusedAtHead
       THEN out' = None /\ UNCHANGED <<st, bus>>
       ELSE bus' = "out" /\ PauseChannel /\ UNCHANGED out
    /\ UNCHANGED <<ask, armed, since, tick, deciding, inflight, queue, wire, history, moves>>

(* History: every routine rule is paused, and none is being released. *)
Took ==
    /\ out.pauses /\ \A r \in Routine : armed[r] => st[r].paused
    /\ \A i \in 1 .. Len(queue) : queue[i].kind # "release"

OutLands ==
    /\ bus = "out"
    /\ Written(out.v)
    /\ inflight' = MovedJobs(inflight)
    /\ standing' = IF Took THEN out.v ELSE None
    /\ out' = None
    /\ UNCHANGED <<rules, tick, queue, released, moves>>

OutFails ==
    /\ "fail" \in Faults /\ Move
    /\ bus = "out" /\ bus' = "free" /\ out' = None
    /\ UNCHANGED <<rules, tick, deciding, inflight, queue, wire, history>>

-----------------------------------------------------------------------------
(* Operators: override, set_mode.                                           *)
PauseEnds(r) ==
    /\ st[r].paused /\ st' = [st EXCEPT ![r].paused = FALSE]
    /\ standing' = None
    /\ UNCHANGED <<ask, armed, since, tick, deciding, jobs, out, wire, released, moves>>

Override(r) ==
    /\ ~st[r].paused /\ Move
    /\ st' = [st EXCEPT ![r].paused = TRUE]
    /\ UNCHANGED <<ask, armed, since, tick, deciding, jobs, out, wire, history>>

(* What it sent in shadow never left: it asks for its want now. *)
Arm(r) ==
    /\ ~armed[r] /\ Move
    /\ armed' = [armed EXCEPT ![r] = TRUE]
    /\ st' = [st EXCEPT ![r].commanded = None, ![r].pending = st[r].want # None]
    /\ since' = [since EXCEPT ![r] = TRUE]
    /\ released' = released \ {r}
    /\ standing' = IF st[r].paused THEN standing ELSE None
    /\ UNCHANGED <<ask, tick, deciding, jobs, out, wire>>

(* _cancel_queued: a job the writer has not begun with is cancelled, any    *)
(* other is not wanted any more.                                            *)
Cancels(r, begun) == ~begun /\ inflight[r] # None /\ inflight[r].at = "queued"
TakenBack(r, begun) ==
    [inflight EXCEPT ![r] = IF @ = None THEN None
                            ELSE IF Cancels(r, begun) THEN [@ EXCEPT !.at = "cancelled"]
                            ELSE [@ EXCEPT !.send.revoked = TRUE]]
Cancelled(r, begun) ==
    [i \in DOMAIN queue |->
        IF Cancels(r, begun) /\ queue[i].kind = "run" THEN [queue[i] EXCEPT !.kind = "void"] ELSE queue[i]]

AtSafe(r) ==
    /\ ~st[r].pending
    /\ IF since[r] THEN seen = Safe ELSE st[r].confirmed /\ st[r].commanded = Safe

SetByAnother(r) == ~st[r].pending /\ st[r].commanded # None /\ since[r] /\ seen # st[r].commanded

(* _release: back to safe, unless another rule has the channel, another     *)
(* source set it during a pause, or it is there already.                    *)
Releases(r, busy) ==
    /\ Candidates \ {r} = {}
    /\ busy \/ (~AtSafe(r) /\ ~(st[r].paused /\ SetByAnother(r)))

Disarm(r, begun) ==
    /\ armed[r] /\ Move
    /\ armed' = [armed EXCEPT ![r] = FALSE]
    /\ inflight' = TakenBack(r, begun)
    /\ tick' = [tick EXCEPT !.revoked = IF tick.on THEN @ \cup {r} ELSE @]
    /\ deciding' = IF deciding # None /\ deciding.rule = r
                   THEN [deciding EXCEPT !.revoked = TRUE] ELSE deciding
    /\ LET busy == \E s \in Rule : inflight'[s] # None /\ inflight'[s].at \in {"queued", "writing"}
       IN IF Releases(r, busy)
          THEN queue' = Append(Cancelled(r, begun), [kind |-> "release", rule |-> r]) /\ standing' = None
          ELSE queue' = Cancelled(r, begun) /\ UNCHANGED standing
    /\ UNCHANGED <<ask, st, since, bus, out, wire, released>>

-----------------------------------------------------------------------------
(* The world (external).                                                    *)
Signal(r, a) ==
    /\ a # ask[r] /\ Move
    /\ ask' = [ask EXCEPT ![r] = a]
    /\ UNCHANGED <<armed, st, since, tick, deciding, jobs, out, wire, history>>

Poll ==
    /\ seen # device \/ \E r \in Rule : ~since[r]
    /\ seen' = device /\ since' = [r \in Rule |-> TRUE]
    /\ UNCHANGED <<ask, armed, st, tick, deciding, jobs, out, device, chan, history, moves>>

Age ==
    /\ chan.young /\ chan' = [chan EXCEPT !.young = FALSE]
    /\ UNCHANGED <<rules, tick, deciding, jobs, out, device, seen, history, moves>>

Tick == TickBegins \/ (\E r \in Rule : Evaluate(r)) \/ Submit \/ TickEnds
Writer == HeadVoid \/ HeadTakesBus \/ RunLands \/ ReleaseLands

Next ==
    \/ Tick \/ Writer \/ WriteFails
    \/ \E v \in Value : Admit(v)
    \/ OutTakesBus \/ OutLands \/ OutFails
    \/ \E r \in Rule : PauseEnds(r) \/ Override(r) \/ Arm(r) \/ \E begun \in BOOLEAN : Disarm(r, begun)
    \/ \E r \in Rule : \E a \in Signals[r] : Signal(r, a)
    \/ Poll \/ Age

Spec == Init /\ [][Next]_vars

(* The threads run, the device is polled, and times pass. *)
FairSpec ==
    /\ Spec
    /\ WF_vars(Tick) /\ WF_vars(Writer) /\ WF_vars(OutTakesBus \/ OutLands)
    /\ WF_vars(Poll) /\ WF_vars(Age) /\ \A r \in Rule : WF_vars(PauseEnds(r))

-----------------------------------------------------------------------------
(* Properties.                                                              *)

(* A command from outside that took the channel stands: until a pause ends, *)
(* a safety rule writes, or a rule is armed or released, the device holds   *)
(* what the command set, whatever was decided or queued before it.          *)
CommandStands == standing # None => device = standing

(* A write is at work that is neither an emergency nor a release.           *)
Bound == bus = "out" \/ (bus = "writer" /\ First("run") /\ ~HeadSend.free)

(* The channel is not switched within its minimum time, whoever writes: two *)
(* that were both let through do not both write.                            *)
ProtectionKept == [][chan.young /\ Bound => chan'.is = chan.is]_vars

(* A rule that left armed does not write again after its release: neither   *)
(* what it had queued nor what the tick under way decides.                  *)
ReleasedStays ==
    [][bus = "writer" /\ First("run") /\ bus' = "free" => HeadRule \notin released]_vars

(* The want of an armed rule is never forgotten: it is to be sent, on its   *)
(* way, or the one the rule holds the device's read-back against.           *)
WantKept ==
    \A r \in Rule :
        armed[r] /\ st[r].want # None /\ inflight[r] = None /\ (deciding = None \/ deciding.rule # r)
        => st[r].pending \/ st[r].commanded = st[r].want

(* Once nothing is changed from outside any more, the device comes to hold  *)
(* what the rule asks for that wins the channel, and keeps it.              *)
Wins(r) ==
    /\ armed[r] /\ ask[r].v # None
    /\ \A o \in Rule \ {r} : armed[o] /\ ask[o].v # None => ~Beats(o, r, ask[r].v)
Converges == <>[](\A r \in Rule : Wins(r) => device = ask[r].v)

-----------------------------------------------------------------------------
(* The inductive invariant.                                                 *)
Runs == {i \in 1 .. Len(queue) : queue[i].kind = "run"}
AtWork == bus = "writer" /\ First("run")

(* One rule has a job that is not done, the queue holds it once, and the    *)
(* writer has the bus for what is at the head.                              *)
Line ==
    /\ \A r, s \in Rule : Undone(r) /\ Undone(s) => r = s
    /\ \A i \in Runs : /\ Undone(queue[i].rule)
                      /\ inflight[queue[i].rule].send.rule = queue[i].rule
    /\ \A i, j \in Runs : i = j
    /\ bus = "writer" => queue # <<>> /\ ~First("void")
    /\ AtWork => inflight[HeadRule].at = "writing"

(* A send that may not break the channel's protection does not, unless the  *)
(* channel moved since it was decided.                                      *)
Gentle(d) == ~d.free => ~d.urgent /\ (d.moved \/ ~Holds(d.want))

(* What is decided or queued for a rule that left armed is not wanted any   *)
(* more, and nothing writes for a rule that was released.                   *)
Decided ==
    deciding # None => Gentle(deciding) /\ (~armed[deciding.rule] => deciding.revoked)
Unwanted ==
    /\ \A i \in Runs : ~armed[queue[i].rule] => inflight[queue[i].rule].send.revoked
    /\ \A r \in released : ~armed[r] /\ ~(AtWork /\ HeadRule = r)

(* What is queued is gentle, and what holds the bus keeps the protection.   *)
Protected ==
    /\ \A i \in Runs : Gentle(inflight[queue[i].rule].send)
    /\ AtWork /\ ~HeadSend.free => ~Holds(HeadSend.want)
OutGentle == bus = "out" => out # None /\ ~Holds(out.v)

(* While a command stands, the rules it paused are, and nothing that could  *)
(* undo it is at work or on its way.                                        *)
Stands ==
    standing # None =>
        /\ device = standing
        /\ \A r \in Routine : armed[r] => st[r].paused
        /\ \A i \in 1 .. Len(queue) : queue[i].kind # "release"
        /\ ~(AtWork /\ HeadRule \in Routine)

Kept == \A r \in Rule : st[r].want # None => st[r].pending \/ st[r].commanded = st[r].want

IInv == /\ Typed /\ Line /\ Decided /\ Unwanted /\ Protected /\ OutGentle
        /\ Stands /\ Kept
=============================================================================
