---------------------------- MODULE VirtualMeter ----------------------------
(***************************************************************************)
(* One emulated meter (src/multibus/virtual_meter.py): the supervisor that *)
(* rebuilds the register block from the gateway's live values, judges      *)
(* their freshness under one of four policies, and starts, feeds, probes   *)
(* and stops the Modbus server whose answers steer a consumer's control    *)
(* loop; and the server's thread, which can crash, wedge or find its port  *)
(* taken.  Left out are stop(), which retires the meter for good, a pass   *)
(* that raises, and a freshness bound per row (one Bound serves all).      *)
(*                                                                         *)
(* A register's words are abstracted to the age, in supervisor periods, of *)
(* the measurement they carry: Zero is the seed of a new block, NA the     *)
(* sentinel words, Gap an address the rebuild left out.  Reads have no     *)
(* action: whatever a listening server holds outside the refused spans can *)
(* be read at any moment, so the properties speak of every state.          *)
(*                                                                         *)
(* Two assumptions on speed, both far from the code's own figures: a       *)
(* server thread is built (or has failed) within one period, and the three *)
(* statements of its "finally" are one step.                               *)
(***************************************************************************)
EXTENDS Naturals, Sequences, FiniteSetsExt

CONSTANTS Row, Source, None, Zero, NA, Gap,
          Feeds,        \* [Row -> Seq(Source)], a row's sources by priority
          Pinned,       \* the rows with pin_on_stale
          Policies,     \* the on_stale modes a meter may be set to
          Bound,        \* stale_after_s, in periods
          Hold,         \* max_hold_s, in periods
          GiveUp,       \* failed starts before a long wait (3 in the code)
          RetryWait,    \* the long wait before the next start (30 s)
          LongNap,      \* periods slept while starts fail (3 in the code)
          ProbeLimit,   \* failed probes before a forced restart (3)
          Thread,       \* the server threads that can exist at once
          Old,          \* the age at which counting stops
          MaxTroubles   \* crashes, wedges, failed binds and starts, together

ASSUME MeterAssumption ==
    /\ Feeds \in [Row -> Seq(Source)] /\ Pinned \subseteq Row
    /\ Policies \subseteq {"legacy", "fail", "sentinel", "hold"}
    /\ {Bound, Hold, GiveUp, RetryWait, LongNap, ProbeLimit} \subseteq Nat \ {0}
    /\ Old \in Nat /\ Old > Bound + Hold + LongNap /\ MaxTroubles \in Nat
    /\ \E t, u \in Thread : t # u

ASSUME ValueAssumption ==
    /\ \A x \in {None, Zero, NA, Gap} : x \notin Nat
    /\ None \notin Thread /\ Gap # NA

VARIABLES
    policy,     \* on_stale
    age,        \* what the value provider knows of each source
    out,        \* _regs_out
    spans,      \* _unavail_spans, as the rows they cover
    good,       \* _last_good
    seen,       \* _row_seen
    fresh,      \* the verdict of the last rebuild
    sup,        \* where the supervisor is
    nap,        \* periods before its next pass
    starts,     \* [pending, fails, wait, probes], its local counters
    running,    \* _running
    active,     \* _server_thread
    server,     \* _server, as the thread that built it
    sim,        \* _sim_regs, as the thread whose list it is
    th,         \* each server thread
    shut,       \* the threads whose loop has a shutdown queued
    words,      \* each server's register list
    troubles

values == <<policy, age>>
block  == <<out, spans, good, seen, fresh>>
keeper == <<sup, nap, starts>>
net    == <<running, active, server, sim, th, shut, words>>
vars   == <<values, block, keeper, net, troubles>>

Age  == 0..Old
Word == Age \cup {Zero, NA}

TypeOK ==
    /\ policy \in Policies /\ age \in [Source -> Age \cup {None}]
    /\ out \in [Row -> Age \cup {NA, Gap}] /\ spans \subseteq Row
    /\ good \in [Row -> Age \cup {None}] /\ seen \subseteq Row
    /\ fresh \in BOOLEAN
    /\ sup \in {"rest", "swap", "judge", "closing"} /\ nap \in 0..LongNap
    /\ starts \in [pending: BOOLEAN, fails: 0..GiveUp, wait: 0..RetryWait,
                   probes: 0..ProbeLimit]
    /\ running \in BOOLEAN
    /\ {active, server, sim} \subseteq Thread \cup {None}
    /\ th \in [Thread -> {"none", "building", "up", "wedged"}]
    /\ shut \subseteq Thread /\ words \in [Thread -> [Row -> Word]]
    /\ troubles \in 0..MaxTroubles

(***************************************************************************)
(* Resolution: the first fresh source of a row, else the first known one.  *)
(***************************************************************************)
Known(r)   == {i \in DOMAIN Feeds[r] : age[Feeds[r][i]] # None}
FreshIn(r) == {i \in Known(r) : age[Feeds[r][i]] <= Bound}

Resolved(r) ==
    IF Known(r) = {} THEN None
    ELSE age[Feeds[r][Min(IF FreshIn(r) # {} THEN FreshIn(r) ELSE Known(r))]]

InDate(r) == FreshIn(r) # {}

\* Mutant: a held value has no cap.
HeldForever(r) == good[r] # None /\ (r \in Pinned \/ policy = "hold")

Held(r) ==
    /\ good[r] # None
    /\ r \in Pinned \/ (policy = "hold" /\ good[r] <= Bound + Hold)

\* Mutant: a row without a value leaves a gap, whether it ever had one or not.
GapsAreFine ==
    /\ \A r \in Row : Resolved(r) = None \/ InDate(r) \/ r \in Pinned
    /\ \E r \in Row : Resolved(r) # None

(***************************************************************************)
(* The verdict of a legacy meter: every row that has a value must be in    *)
(* date (a pinned one need not), every other must have had one before.     *)
(***************************************************************************)
LegacyFresh ==
    /\ \A r \in Row : IF Resolved(r) = None THEN r \in seen
                                            ELSE InDate(r) \/ r \in Pinned
    /\ \E r \in Row : Resolved(r) # None

PolicyFresh == \E r \in Row : InDate(r)

PolicyWord(r) ==
    IF InDate(r) THEN Resolved(r)
    ELSE IF Held(r) THEN good[r]
    ELSE IF policy = "sentinel" THEN NA ELSE Gap

Alive == running /\ active # None /\ th[active] # "none"

Blank == [r \in Row |-> Zero]

(***************************************************************************)
(* A server thread ends: its finally lets go of the flags if the thread is *)
(* still the active one.  "stopped" says that _stop_server ended it, which *)
(* clears _running whichever thread is active.                             *)
(***************************************************************************)
Leaves(t, stopped) ==
    /\ th' = [th EXCEPT ![t] = "none"]
    /\ shut' = shut \ {t}
    /\ sim' = IF sim = t THEN None ELSE sim
    /\ running' = (running /\ active # t /\ ~stopped)
    /\ server' = IF active = t THEN None ELSE server
    /\ words' = [words EXCEPT ![t] = Blank]
    /\ UNCHANGED active

Listening == {t \in Thread : th[t] \in {"up", "wedged"}}

Init ==
    /\ policy \in Policies /\ age = [s \in Source |-> None]
    /\ out = [r \in Row |-> Gap] /\ spans = {} /\ seen = {}
    /\ good = [r \in Row |-> None] /\ fresh = FALSE
    /\ sup = "rest" /\ nap = 0
    /\ starts = [pending |-> FALSE, fails |-> 0, wait |-> 0, probes |-> 0]
    /\ running = FALSE /\ active = None /\ server = None /\ sim = None
    /\ th = [t \in Thread |-> "none"] /\ shut = {}
    /\ words = [t \in Thread |-> Blank]
    /\ troubles = 0

(***************************************************************************)
(* The gateway's values: a source is read, or has no value any more (its   *)
(* device is dropped, or it sent something that is no number).  A pass     *)
(* reads the values in its first step only, so a change during the others  *)
(* is one that comes just after them.                                      *)
(***************************************************************************)
Moving == sup \notin {"swap", "judge"}

Publish(s) ==
    /\ Moving
    /\ age' = [age EXCEPT ![s] = 0]
    /\ UNCHANGED <<policy, block, keeper, net, troubles>>

Lose(s) ==
    /\ age[s] # None /\ Moving
    /\ age' = [age EXCEPT ![s] = None]
    /\ UNCHANGED <<policy, block, keeper, net, troubles>>

(***************************************************************************)
(* A period passes.  A pass of the supervisor takes less than one, unless  *)
(* it waits for a wedged server's shutdown.                                *)
(***************************************************************************)
Older(a, cap) == IF a \in Nat THEN Min({a + 1, cap}) ELSE a

WaitsForWedge == server # None /\ th[server] = "wedged"

Tick ==
    /\ \A t \in Thread : th[t] # "building"
    /\ \/ sup = "rest" /\ nap > 0
       \/ sup = "closing" /\ WaitsForWedge
    /\ age' = [s \in Source |-> Older(age[s], Bound + 1)]
    /\ out' = [r \in Row |-> Older(out[r], Old)]
    /\ good' = [r \in Row |-> Older(good[r], Bound + Hold + 1)]
    /\ words' = [t \in Thread |-> [r \in Row |-> Older(words[t][r], Old)]]
    /\ nap' = IF sup = "rest" THEN nap - 1 ELSE nap
    /\ starts' = [starts EXCEPT !.wait = IF @ > 0 THEN @ - 1 ELSE 0]
    /\ UNCHANGED <<policy, spans, seen, fresh, sup, running, active, server,
                   sim, th, shut, troubles>>

(***************************************************************************)
(* _supervise: the rebuild, the swap of the refused spans, the verdict.    *)
(***************************************************************************)
Rebuild ==
    /\ sup = "rest" /\ nap = 0
    /\ IF policy = "legacy"
         THEN /\ out' = [r \in Row |-> IF Resolved(r) = None THEN Gap ELSE Resolved(r)]
              /\ seen' = seen \cup {r \in Row : Resolved(r) # None}
              /\ fresh' = LegacyFresh
              /\ sup' = "judge"
              /\ UNCHANGED good
         ELSE /\ out' = [r \in Row |-> PolicyWord(r)]
              /\ good' = [r \in Row |-> IF InDate(r) THEN Resolved(r) ELSE good[r]]
              /\ fresh' = PolicyFresh
              /\ sup' = "swap"
              /\ UNCHANGED seen
    /\ UNCHANGED <<values, spans, nap, starts, net, troubles>>

SwapSpans ==
    /\ sup = "swap"
    /\ spans' = {r \in Row : out[r] = Gap}
    /\ sup' = "judge"
    /\ UNCHANGED <<values, out, good, seen, fresh, nap, starts, net, troubles>>

Sleeps(counters) ==
    /\ starts' = counters
    /\ sup' = "rest"
    /\ nap' = IF counters.fails >= GiveUp THEN LongNap ELSE 1

\* Mutant: every look at a meter that is down puts its next start off again.
NoticedAgain ==
    LET f == Min({starts.fails + (IF starts.pending THEN 1 ELSE 0), GiveUp})
    IN  [starts EXCEPT !.pending = FALSE, !.fails = f,
                       !.wait = IF f >= GiveUp THEN RetryWait ELSE 0]

\* The counters after one more start that failed.
Again(c) ==
    LET f == Min({c.fails + 1, GiveUp})
    IN  [c EXCEPT !.fails = f, !.wait = IF f >= GiveUp THEN RetryWait ELSE 0]

\* The counters once a start that never came up has been noticed.
Noticed == IF starts.pending THEN Again([starts EXCEPT !.pending = FALSE]) ELSE starts

StartServer ==
    /\ sup = "judge" /\ fresh /\ ~Alive /\ Noticed.wait = 0
    /\ active' = CHOOSE t \in Thread : th[t] = "none"
    /\ th' = [th EXCEPT ![active'] = "building"]
    /\ running' = TRUE
    /\ Sleeps([Noticed EXCEPT !.pending = TRUE])
    /\ UNCHANGED <<values, block, server, sim, shut, words, troubles>>

\* _start_server() raises, before it has made the thread or as it starts it.
StartFails ==
    /\ sup = "judge" /\ fresh /\ ~Alive /\ Noticed.wait = 0
    /\ troubles < MaxTroubles /\ troubles' = troubles + 1
    /\ running' = FALSE
    /\ active' \in {active, CHOOSE t \in Thread : th[t] = "none"}
    /\ Sleeps(Again(Noticed))
    /\ UNCHANGED <<values, block, server, sim, th, shut, words>>

NoStart ==
    /\ sup = "judge" /\ ~Alive
    /\ ~fresh \/ Noticed.wait > 0
    /\ Sleeps(IF fresh THEN Noticed ELSE starts)
    /\ UNCHANGED <<values, block, net, troubles>>

Pushed ==
    IF sim = None THEN words
    ELSE [words EXCEPT ![sim] =
            [r \in Row |-> IF out[r] = Gap THEN words[sim][r] ELSE out[r]]]

(***************************************************************************)
(* Fresh and alive: push the words, then probe the port.  A connection to  *)
(* a wedged server may still be taken by its backlog.  Of ten passes one   *)
(* probes: the others take the disjunct that leaves the count alone.       *)
(***************************************************************************)
PushAndProbe ==
    /\ sup = "judge" /\ fresh /\ Alive
    /\ words' = Pushed
    /\ \E p \in {starts.probes, 0, starts.probes + 1} :
          /\ p = 0 => Listening # {}
          /\ p > starts.probes => th[active] # "up"
          /\ LET counters == [starts EXCEPT !.pending = FALSE, !.fails = 0,
                                            !.wait = 0,
                                            !.probes = IF p >= ProbeLimit THEN 0 ELSE p]
             IN  IF p >= ProbeLimit
                   THEN sup' = "closing" /\ starts' = counters /\ UNCHANGED nap
                   ELSE Sleeps(counters)
    /\ UNCHANGED <<values, block, running, active, server, sim, th, shut,
                   troubles>>

StopStale ==
    /\ sup = "judge" /\ ~fresh /\ Alive
    /\ sup' = "closing"
    /\ UNCHANGED <<values, block, nap, starts, net, troubles>>

(***************************************************************************)
(* _stop_server: ask the server's loop to shut down, wait five seconds for *)
(* it, clear _running in any case.  The request stays queued on a wedged   *)
(* loop.                                                                   *)
(***************************************************************************)
AskWedged ==
    /\ WaitsForWedge
    /\ shut' = shut \cup {server}
    /\ running' = FALSE
    /\ UNCHANGED <<active, server, sim, th, words>>

CloseServer ==
    \/ AskWedged
    \/ server # None /\ th[server] = "up" /\ Leaves(server, TRUE)
    \/ /\ server \notin Listening
       /\ running' = FALSE
       /\ UNCHANGED <<active, server, sim, th, shut, words>>

SupCloses ==
    /\ sup = "closing"
    /\ CloseServer
    /\ Sleeps(starts)
    /\ UNCHANGED <<values, block, troubles>>

(***************************************************************************)
(* The server's thread: built, seeded and bound, or refused its port;      *)
(* crashed; wedged, and running again, which serves a queued shutdown      *)
(* first.                                                                  *)
(***************************************************************************)
Seed == [r \in Row |-> IF out[r] = Gap THEN Zero ELSE out[r]]

Bind(t) ==
    /\ th[t] = "building" /\ Listening = {}
    /\ th' = [th EXCEPT ![t] = "up"]
    /\ server' = t /\ sim' = t
    /\ words' = [words EXCEPT ![t] = Seed]
    /\ UNCHANGED <<values, block, keeper, running, active, shut, troubles>>

Refused(t) ==
    /\ th[t] = "building"
    /\ IF Listening = {} THEN troubles < MaxTroubles /\ troubles' = troubles + 1
                         ELSE UNCHANGED troubles
    /\ th' = [th EXCEPT ![t] = "none"]
    /\ server' = None /\ sim' = None /\ running' = FALSE
    /\ UNCHANGED <<values, block, keeper, active, shut, words>>

Crash(t) ==
    /\ th[t] = "up" /\ troubles < MaxTroubles
    /\ troubles' = troubles + 1
    /\ Leaves(t, FALSE)
    /\ UNCHANGED <<values, block, keeper>>

Wedge(t) ==
    /\ th[t] = "up" /\ troubles < MaxTroubles
    /\ troubles' = troubles + 1
    /\ th' = [th EXCEPT ![t] = "wedged"]
    /\ UNCHANGED <<values, block, keeper, running, active, server, sim, shut,
                   words>>

Unwedge(t) ==
    /\ th[t] = "wedged"
    /\ IF t \in shut THEN Leaves(t, FALSE)
       ELSE /\ th' = [th EXCEPT ![t] = "up"]
            /\ UNCHANGED <<running, active, server, sim, shut, words>>
    /\ UNCHANGED <<values, block, keeper, troubles>>

Supervisor ==
    \/ Rebuild \/ SwapSpans \/ StartServer \/ StartFails \/ NoStart
    \/ PushAndProbe \/ StopStale \/ SupCloses

Serving(t) == Bind(t) \/ Refused(t) \/ Unwedge(t)

Next ==
    \/ \E s \in Source : Publish(s) \/ Lose(s)
    \/ Tick \/ Supervisor
    \/ \E t \in Thread : Serving(t) \/ Crash(t) \/ Wedge(t)

Spec == Init /\ [][Next]_vars

(***************************************************************************)
(* Threads run and time passes.  A wedge ends by itself: the code has no   *)
(* other way to get its port back from a wedged loop.                      *)
(***************************************************************************)
FairSpec ==
    /\ Spec
    /\ WF_vars(Tick) /\ WF_vars(Supervisor)
    /\ \A t \in Thread : WF_vars(Serving(t))

-----------------------------------------------------------------------------
Answering == {t \in Thread : th[t] = "up"}

\* How long ago the last pass may have ended, with the pass that follows.
Lag == IF starts.fails >= GiveUp THEN LongNap ELSE 1

OldestAllowed(r) ==
    IF policy # "legacy" /\ r \in Pinned THEN Old
    ELSE IF policy = "hold" THEN Bound + Hold + Lag ELSE Bound + Lag

(***************************************************************************)
(* Between two passes, what a consumer can read is in date: no word it is  *)
(* not refused is the zero of a new block, or carries a measurement older  *)
(* than the policy lets the meter serve, by more than the supervisor's     *)
(* period.  (Legacy: a row whose source has no value keeps its last words, *)
(* and a pinned row any age.)                                              *)
(***************************************************************************)
ServedInTime ==
    sup = "rest" =>
        \A t \in Answering : \A r \in Row \ spans :
            \/ words[t][r] = NA /\ policy = "sentinel"
            \/ policy = "legacy" /\ (out[r] = Gap \/ r \in Pinned)
            \/ words[t][r] \in Age /\ words[t][r] <= OldestAllowed(r)

(***************************************************************************)
(* What the proof of ServedInTime needs.  A thread serves until it is told *)
(* to shut down: the flags are then its own, so that the supervisor feeds  *)
(* and closes it and no other.  At most one thread has the port, and one   *)
(* is built only while the supervisor rests.                               *)
(***************************************************************************)
Serves(t) == th[t] = "up" \/ (th[t] = "wedged" /\ t \notin shut)

OneServer ==
    /\ shut \subseteq {t \in Thread : th[t] = "wedged"}
    /\ \A t, u \in Listening : t = u
    /\ \A t \in Thread : Serves(t) => running /\ active = t /\ server = t /\ sim = t
    /\ \A t \in Thread :
          th[t] = "building" => running /\ active = t /\ sup = "rest" /\ nap > 0

\* The age a word may have when it is judged, and "late" periods after that.
Limit == IF policy = "hold" THEN Bound + Hold ELSE Bound

Fits(r, late) ==
    \/ out[r] = NA /\ policy = "sentinel"
    \/ out[r] = Gap /\ (policy = "legacy" \/ r \in spans)
    \/ policy = "legacy" /\ r \in Pinned
    \/ /\ out[r] \in Age
       /\ (policy # "legacy" /\ r \in Pinned) \/ out[r] <= Limit + late

\* The block a pass has rebuilt, and the one a server was left with.
BlockFits ==
    /\ sup = "swap" => policy # "legacy" /\ \A r \in Row : out[r] = Gap \/ Fits(r, 0)
    /\ sup = "judge" /\ (fresh \/ policy # "legacy") => \A r \in Row : Fits(r, 0)
    /\ sup = "rest" /\ (\E t \in Thread : Serves(t) \/ th[t] = "building")
          => \A r \in Row : Fits(r, Lag - nap)

\* Between two passes a server has the words of the last one.
WordsAreOut ==
    sup = "rest" =>
        \A t \in Thread : Serves(t) =>
            \A r \in Row : out[r] = Gap \/ words[t][r] = out[r]

IInv == TypeOK /\ OneServer /\ BlockFits /\ WordsAreOut

(***************************************************************************)
(* A legacy meter never answers with the seed of a new block for a row     *)
(* that has had no value since the meter was made: it stays down instead.  *)
(* (A row that had one and lost it is served as zero after a restart of    *)
(* the server: the code's guard does not cover it.)                        *)
(***************************************************************************)
NeverInvented ==
    policy = "legacy" =>
        \A t \in Answering : \A r \in Row : words[t][r] = Zero => r \in seen

(***************************************************************************)
(* A meter whose rows are all in date from some time on ends up answering  *)
(* for good, whatever crashed, wedged or was refused its port before.      *)
(***************************************************************************)
ComesBack ==
    <>[](\A r \in Row : InDate(r))
        => <>[](Alive /\ th[active] = "up")
=============================================================================
