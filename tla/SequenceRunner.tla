---------------------------- MODULE SequenceRunner ----------------------------
(***************************************************************************)
(* Sequences of commands (src/multibus/sequences.py): started by a person   *)
(* over HTTP or by a panel over MQTT, each run has a thread of its own that *)
(* goes through the steps, and undoes what on_abort says when a step fails, *)
(* a person cancels or the time is over.                                    *)
(*                                                                          *)
(* Abstractions.  A command's answer, the truth of an expression and the    *)
(* passing of time are choices: a standby's refusal, a missing value and a  *)
(* parameter that cannot be computed are a command that failed or a step    *)
(* that is not true.  A dry run registers nothing and writes nothing, and   *)
(* is left out, as are the list of the last runs and the state published.   *)
(***************************************************************************)
EXTENDS Naturals, Sequences

CONSTANTS Sequence,   \* the defined sequences
          Device,
          Steps,      \* the steps of each sequence
          OnAbort,    \* the devices its on_abort commands, in order
          Caller,     \* the threads that call start(): HTTP workers, MQTT's
          Faults,     \* "eval": an expression may raise, not only be untrue;
                      \* "raise": an on_abort command may raise, not only fail
          MaxRuns,    \* bound: how many runs are started
          None

StepKind == {"command", "wait_s", "wait_until", "check"}
Step == [kind : StepKind, device : Device \cup {None}, orelse : {"abort", "continue"}]

ASSUME SequenceAssumption ==
    /\ Steps \in [Sequence -> Seq(Step)]
    /\ OnAbort \in [Sequence -> Seq(Device)]
    /\ Faults \subseteq {"eval", "raise"}
    /\ MaxRuns \in Nat
    /\ None \notin Sequence /\ None \notin Device

RunId == 1 .. MaxRuns
NoRun == 0

VARIABLES
    asking,    \* the sequence whose start() a caller has checked, not registered
    running,   \* self.running: the run of each sequence
    run,       \* every run: its fields, and where its thread is
    started,   \* how many runs were registered
    raced      \* history: a run was registered that start() would refuse now

vars == <<asking, running, run, started, raced>>

At == {"none", "steps", "command", "wait_s", "wait_until", "undoing", "ending", "ended", "dead"}
Final == {"done", "cancelled", "aborted"}
Run == [seq : Sequence \cup {None}, at : At, step : Nat,
        undone : Nat, cancel : BOOLEAN, late : BOOLEAN, final : Final \cup {None}]
NotRun == [seq |-> None, at |-> "none", step |-> 0, undone |-> 0,
           cancel |-> FALSE, late |-> FALSE, final |-> None]
NewRun(s) == [seq |-> s, at |-> "steps", step |-> 1, undone |-> 0,
              cancel |-> FALSE, late |-> FALSE, final |-> None]

TypeOK ==
    /\ asking \in [Caller -> Sequence \cup {None}]
    /\ running \in [Sequence -> RunId \cup {NoRun}]
    /\ run \in [RunId -> Run]
    /\ started \in 0 .. MaxRuns
    /\ raced \in BOOLEAN

Init ==
    /\ asking = [c \in Caller |-> None]
    /\ running = [s \in Sequence |-> NoRun]
    /\ run = [r \in RunId |-> NotRun]
    /\ started = 0
    /\ raced = FALSE

-----------------------------------------------------------------------------
CommandSteps(s) == {i \in 1 .. Len(Steps[s]) : Steps[s][i].kind = "command"}
DevicesOf(s) == {Steps[s][i].device : i \in CommandSteps(s)}
                  \cup {OnAbort[s][i] : i \in 1 .. Len(OnAbort[s])}

Live(r) == run[r].at \notin {"none", "ended"}

(* Mutant: the devices of the other runs are not looked at. *)
BusyWithItself(s) == running[s] # NoRun

(* busy_with: the sequence runs already, or one that shares a device does. *)
BusyWith(s) ==
    \/ running[s] # NoRun
    \/ \E o \in Sequence : running[o] # NoRun /\ DevicesOf(o) \cap DevicesOf(s) # {}

(* start: the question under the lock; a busy sequence is refused. *)
StartAsks(c, s) ==
    /\ asking[c] = None
    /\ started < MaxRuns
    /\ ~BusyWith(s)
    /\ asking' = [asking EXCEPT ![c] = s]
    /\ UNCHANGED <<running, run, started, raced>>

(* start: registered under the lock again, and its thread started; busy_with *)
(* is not asked again, so another caller may have started in between.        *)
StartRegisters(c) ==
    LET r == started + 1
        s == asking[c] IN
    /\ s # None
    /\ started < MaxRuns
    /\ started' = r
    /\ running' = [running EXCEPT ![s] = r]
    /\ run' = [run EXCEPT ![r] = NewRun(s)]
    /\ asking' = [asking EXCEPT ![c] = None]
    /\ raced' = (raced \/ BusyWith(s))

(* cancel: the run registered under that name is asked to end. *)
Cancel(s) ==
    /\ running[s] # NoRun
    /\ run' = [run EXCEPT ![running[s]].cancel = TRUE]
    /\ UNCHANGED <<asking, running, started, raced>>

(* max_duration_s is over; the undoing has a deadline of its own. *)
PassDeadline(r) ==
    /\ run[r].at \in {"steps", "command", "wait_s", "wait_until"}
    /\ ~run[r].late
    /\ run' = [run EXCEPT ![r].late = TRUE]
    /\ UNCHANGED <<asking, running, started, raced>>

-----------------------------------------------------------------------------
(* The thread of a run (_execute). *)

Now(r) == Steps[run[r].seq][run[r].step]
Goes(r, at) == run' = [run EXCEPT ![r].at = at]

(* The step is passed, in good order or because it says `else: continue`. *)
Passes(r) == run' = [run EXCEPT ![r].step = @ + 1, ![r].at = "steps"]

(* The run ends early: what on_abort says is tried (it may be empty), with   *)
(* the run still registered.                                                 *)
Aborts(r, why) ==
    /\ run' = [run EXCEPT ![r].at = "undoing", ![r].final = why]
    /\ UNCHANGED running

(* A condition is true; or it is not, and `else` says what that means; or it *)
(* raises, and aborts the run whatever `else` says.                          *)
Judged(r) ==
    \/ Passes(r) /\ UNCHANGED running
    \/ /\ Now(r).orelse = "abort" \/ "eval" \in Faults
       /\ Aborts(r, "aborted")

(* The head of the loop: the steps are over, or a cancel or the deadline is  *)
(* seen, or the next step begins; a check is answered at once.               *)
NextStep(r) ==
    /\ run[r].at = "steps"
    /\ IF run[r].step > Len(Steps[run[r].seq])
       THEN /\ run' = [run EXCEPT ![r].at = "ending", ![r].final = "done"]
            /\ UNCHANGED running
       ELSE IF run[r].cancel THEN Aborts(r, "cancelled")
       ELSE IF run[r].late THEN Aborts(r, "aborted")
       ELSE IF Now(r).kind = "check"
       THEN Judged(r)
       ELSE Goes(r, Now(r).kind) /\ UNCHANGED running
    /\ UNCHANGED <<asking, started, raced>>

(* A command answers; one that raises is one that failed. *)
CommandAnswers(r) ==
    /\ run[r].at = "command"
    /\ (Passes(r) /\ UNCHANGED running) \/ Aborts(r, "aborted")
    /\ UNCHANGED <<asking, started, raced>>

(* _wait sees a cancel before anything else, its own end before the deadline. *)
WaitEnds(r) ==
    /\ run[r].at = "wait_s"
    /\ IF run[r].cancel THEN Aborts(r, "cancelled")
       ELSE \/ Passes(r) /\ UNCHANGED running
            \/ run[r].late /\ Aborts(r, "aborted")
    /\ UNCHANGED <<asking, started, raced>>

(* wait_until: true at last; not true in time; or a pause between two looks, *)
(* in which a cancel or the deadline is seen.                                *)
UntilEnds(r) ==
    /\ run[r].at = "wait_until"
    /\ \/ Judged(r)
       \/ run[r].cancel /\ Aborts(r, "cancelled")
       \/ run[r].late /\ ~run[r].cancel /\ Aborts(r, "aborted")
    /\ UNCHANGED <<asking, started, raced>>

(* Mutant: the first on_abort command that fails ends the undoing. *)
UndoStops(r) ==
    /\ run[r].at = "undoing"
    /\ \/ run' = [run EXCEPT ![r].undone = @ + 1]
       \/ Goes(r, "ending")
    /\ run[r].undone < Len(OnAbort[run[r].seq])
    /\ UNCHANGED <<asking, running, started, raced>>

(* One on_abort command after the other, whatever it answers.  They run      *)
(* outside the try: one that raises ends the thread as it is.                *)
UndoStep(r) ==
    /\ run[r].at = "undoing"
    /\ run[r].undone < Len(OnAbort[run[r].seq])
    /\ \/ run' = [run EXCEPT ![r].undone = @ + 1]
       \/ "raise" \in Faults /\ Goes(r, "dead")
    /\ UNCHANGED <<asking, running, started, raced>>

UndoEnds(r) ==
    /\ run[r].at = "undoing"
    /\ run[r].undone = Len(OnAbort[run[r].seq])
    /\ Goes(r, "ending")
    /\ UNCHANGED <<asking, running, started, raced>>

(* Mutant: the run stays registered. *)
EndsRegistered(r) ==
    /\ run[r].at = "ending"
    /\ Goes(r, "ended")
    /\ UNCHANGED <<asking, running, started, raced>>

(* The run, whichever is registered under its name, is no longer running. *)
Ends(r) ==
    /\ run[r].at = "ending"
    /\ Goes(r, "ended")
    /\ running' = [running EXCEPT ![run[r].seq] = NoRun]
    /\ UNCHANGED <<asking, started, raced>>

-----------------------------------------------------------------------------
Execute(r) ==
    \/ NextStep(r) \/ CommandAnswers(r) \/ WaitEnds(r) \/ UntilEnds(r)
    \/ UndoStep(r) \/ UndoEnds(r) \/ Ends(r)

Next ==
    \/ \E c \in Caller : StartRegisters(c) \/ \E s \in Sequence : StartAsks(c, s)
    \/ \E s \in Sequence : Cancel(s)
    \/ \E r \in RunId : PassDeadline(r) \/ Execute(r)

Spec == Init /\ [][Next]_vars

(* A run's thread goes on: commands answer (the dispatcher's promise), waits *)
(* end by their own time or the deadline.                                    *)
FairSpec == Spec /\ \A r \in RunId : WF_vars(Execute(r))

-----------------------------------------------------------------------------
(* "One run per sequence at a time and one sequence per device at a time"    *)
(* (sequences.py 194): two runs that run or undo share no device, so no      *)
(* command of one falls between two of the other.  The code does not keep it *)
(* when two callers start at once.                                           *)
OneAtATime ==
    \A q, r \in RunId : q # r /\ Live(q) /\ Live(r) =>
        /\ run[q].seq # run[r].seq
        /\ DevicesOf(run[q].seq) \cap DevicesOf(run[r].seq) = {}

(* A run can be cancelled, seen and waited for until it has ended, its       *)
(* undoing included: the one registered under its name is the one that runs. *)
CancelReaches == \A r \in RunId : Live(r) => running[run[r].seq] = r

(* However many callers there are, nothing but two of them between the       *)
(* question and the registration at the same time makes two runs share a     *)
(* device, or a run one that cancel() cannot find: not an undoing, a         *)
(* deadline, a cancel or an expression that raises.                          *)
OverlapNeedsRace == ~raced => OneAtATime /\ CancelReaches

(* What cancel() and wait() find under a name is a run of that sequence that *)
(* has not ended, also after two starts have raced and one run has taken the *)
(* other's place: a person is never told that a run was cancelled that was   *)
(* over already.                                                             *)
CancelFindsLive ==
    \A s \in Sequence : running[s] # NoRun =>
        Live(running[s]) /\ run[running[s]].seq = s

(* "Undo, best effort, every step tried" (sequences.py 357): a run that      *)
(* ended cancelled or aborted has tried all of on_abort.                     *)
UndoneWhole ==
    \A r \in RunId : run[r].at = "ended" /\ run[r].final # "done" =>
        run[r].undone = Len(OnAbort[run[r].seq])

(* "A run must end in a status, never hang" (sequences.py 352): whatever the *)
(* devices answer, a registered run ends and its sequence can run again.     *)
RunEnds == \A r \in RunId : Live(r) ~> (run[r].at = "ended" /\ running[run[r].seq] # r)

-----------------------------------------------------------------------------
(* The inductive invariant. *)

Known ==
    \A r \in RunId :
        /\ run[r].at = "none" <=> r > started
        /\ run[r].at # "none" =>
             /\ run[r].seq \in Sequence /\ run[r].step > 0
             /\ run[r].undone <= Len(OnAbort[run[r].seq])
        /\ run[r].at = "undoing" => run[r].final \in {"cancelled", "aborted"}
        /\ run[r].at = "ending" => run[r].final \in Final

TriedBeforeEnd ==
    \A r \in RunId : run[r].at = "ending" /\ run[r].final # "done" =>
        run[r].undone = Len(OnAbort[run[r].seq])

(* What every step keeps, whoever calls: a run tries all of on_abort before  *)
(* it ends, the table holds live runs only, and it is exact until two starts *)
(* have raced.                                                               *)
IInv ==
    /\ TypeOK /\ Known /\ TriedBeforeEnd /\ UndoneWhole
    /\ CancelFindsLive /\ OverlapNeedsRace
=============================================================================
