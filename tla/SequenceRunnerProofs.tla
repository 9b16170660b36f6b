------------------------ MODULE SequenceRunnerProofs ------------------------
(***************************************************************************)
(* The runner's safety for any sequences, devices, steps, number of runs    *)
(* and threads that start them: IInv of SequenceRunner is inductive.  That  *)
(* two runs share no device and that each can be cancelled is proved up to  *)
(* the first race of two starts, the one way in which the code loses it.    *)
(***************************************************************************)
EXTENDS SequenceRunner, TLAPS

LEMMA InitIInv == Init => IInv
<1> SUFFICES ASSUME Init PROVE IInv
  OBVIOUS
<1> USE SequenceAssumption DEF Init, NotRun
<1>1. TypeOK
  <2>1. raced \in BOOLEAN
    OBVIOUS
  <2>2. run \in [RunId -> Run]
    BY DEF Run, At, Final
  <2>3. /\ asking \in [Caller -> Sequence \cup {None}]
        /\ running \in [Sequence -> RunId \cup {NoRun}]
        /\ started \in 0 .. MaxRuns
    OBVIOUS
  <2> QED
    BY ONLY <2>1, <2>2, <2>3 DEF TypeOK
<1>2. Known /\ TriedBeforeEnd /\ UndoneWhole
  BY DEF Known, TriedBeforeEnd, UndoneWhole, RunId
<1>3. CancelFindsLive /\ OverlapNeedsRace
  BY DEF CancelFindsLive, OverlapNeedsRace, CancelReaches, OneAtATime, Live
<1> QED
  BY <1>1, <1>2, <1>3 DEF IInv

(* What a run must be, once it has gone undoing, ending or ended. *)
WellEnded(x) ==
    /\ x.step > 0
    /\ x.undone <= Len(OnAbort[x.seq])
    /\ x.at = "undoing" => x.final \in {"cancelled", "aborted"}
    /\ x.at = "ending" => x.final \in Final
    /\ x.at \in {"ending", "ended"} /\ x.final # "done" => x.undone = Len(OnAbort[x.seq])

(* A step of one live run that neither registers nor ends it. *)
LEMMA Moved ==
    ASSUME IInv, NEW r \in RunId, UNCHANGED <<asking, running, started, raced>>,
           run' \in [RunId -> Run],
           \A q \in RunId : q # r => run'[q] = run[q],
           run'[r].seq = run[r].seq,
           (run'[r].at = "none") <=> (run[r].at = "none"),
           (run'[r].at = "ended") <=> (run[r].at = "ended"),
           run[r].at # "none" => WellEnded(run'[r])
    PROVE  IInv'
<1> USE DEF IInv, WellEnded
<1>1. TypeOK'
  BY DEF TypeOK
<1>2. Known' /\ TriedBeforeEnd' /\ UndoneWhole'
  <2>1. Known'
    BY DEF Known, TypeOK
  <2>2. TriedBeforeEnd' /\ UndoneWhole'
    BY DEF TriedBeforeEnd, UndoneWhole
  <2> QED
    BY <2>1, <2>2
<1>3. CancelFindsLive' /\ OverlapNeedsRace'
  <2>1. \A q \in RunId : (Live(q) <=> Live(q)') /\ run'[q].seq = run[q].seq
    BY DEF Live
  <2>2. CancelFindsLive'
    <3>1. \A o \in Sequence : running[o] # NoRun => running[o] \in RunId
      BY DEF TypeOK
    <3> QED
      BY <2>1, <3>1 DEF CancelFindsLive, Live
  <2>3. CancelReaches => CancelReaches'
    BY <2>1 DEF CancelReaches
  <2>4. ASSUME OneAtATime PROVE OneAtATime'
    <3> SUFFICES ASSUME NEW p \in RunId, NEW q \in RunId, p # q, Live(p)', Live(q)'
                 PROVE  /\ run'[p].seq # run'[q].seq
                        /\ DevicesOf(run'[p].seq) \cap DevicesOf(run'[q].seq) = {}
      BY DEF OneAtATime
    <3>1. Live(p) /\ Live(q) /\ run'[p].seq = run[p].seq /\ run'[q].seq = run[q].seq
      BY <2>1
    <3> QED
      BY <2>4, <3>1 DEF OneAtATime
  <2> QED
    BY <2>2, <2>3, <2>4 DEF OverlapNeedsRace
<1> QED
  BY <1>1, <1>2, <1>3

LEMMA StartAsksIInv ==
    ASSUME IInv, NEW c \in Caller, NEW s \in Sequence, StartAsks(c, s)
    PROVE  IInv'
<1> USE SequenceAssumption DEF IInv, StartAsks
<1>1. TypeOK'
  BY DEF TypeOK
<1>2. Known' /\ TriedBeforeEnd' /\ UndoneWhole'
  BY DEF Known, TriedBeforeEnd, UndoneWhole
<1>3. CancelFindsLive' /\ OverlapNeedsRace'
  BY DEF CancelFindsLive, OverlapNeedsRace, CancelReaches, OneAtATime, Live
<1> QED
  BY <1>1, <1>2, <1>3

LEMMA StartRegistersIInv ==
    ASSUME IInv, NEW c \in Caller, StartRegisters(c)
    PROVE  IInv'
<1> USE SequenceAssumption DEF IInv, StartRegisters
<1>a. PICK r \in RunId : r = started + 1
  BY DEF TypeOK, RunId
<1>b. PICK s \in Sequence : s = asking[c]
  BY DEF TypeOK
<1>0. /\ started \in Nat /\ r > started /\ run \in [RunId -> Run]
      /\ started' = r /\ running' = [running EXCEPT ![s] = r]
      /\ run' = [run EXCEPT ![r] = NewRun(s)]
  BY <1>a, <1>b DEF TypeOK
<1>1. /\ run' \in [RunId -> Run]
      /\ run'[r] = NewRun(s)
      /\ \A q \in RunId : q # r => run'[q] = run[q]
  <2>1. NewRun(s) \in Run
    BY <1>0 DEF NewRun, Run, At
  <2> QED
    BY ONLY <1>0, <2>1
<1>2. TypeOK'
  BY <1>0, <1>1 DEF TypeOK, RunId
<1>3. Known' /\ TriedBeforeEnd' /\ UndoneWhole'
  <2>1. run'[r].seq = s /\ run'[r].at = "steps" /\ run'[r].undone = 0 /\ run'[r].step = 1
    BY <1>1 DEF NewRun
  <2>2. Len(OnAbort[s]) \in Nat
    BY <1>1
  <2>3. Known'
    BY <1>a, <1>0, <1>1, <2>1, <2>2 DEF Known, RunId
  <2>4. TriedBeforeEnd' /\ UndoneWhole'
    BY <1>1, <2>1 DEF TriedBeforeEnd, UndoneWhole
  <2> QED
    BY <2>3, <2>4
<1>4. run'[r].seq = s /\ Live(r)' /\ ~Live(r)
  <2>1. run'[r].seq = s /\ run'[r].at = "steps"
    BY <1>1 DEF NewRun
  <2>2. run[r].at = "none"
    BY <1>0 DEF Known
  <2> QED
    BY <2>1, <2>2 DEF Live
<1>5. \A q \in RunId : q # r => (Live(q) <=> Live(q)') /\ run'[q].seq = run[q].seq
  BY <1>1 DEF Live
<1>6. CancelFindsLive'
  <2>1. \A o \in Sequence : running[o] # NoRun => running[o] \in RunId /\ running[o] # r
    BY <1>4 DEF CancelFindsLive, TypeOK
  <2>2. ASSUME NEW o \in Sequence, running'[o] # NoRun, o # s
        PROVE  run'[running'[o]].at \notin {"none", "ended"} /\ run'[running'[o]].seq = o
    <3>1. running'[o] = running[o] /\ running[o] \in RunId /\ running[o] # r
      BY <1>0, <2>1, <2>2 DEF TypeOK
    <3>2. Live(running[o]) /\ run[running[o]].seq = o
      BY <2>2, <3>1 DEF CancelFindsLive
    <3>3. run'[running[o]].at \notin {"none", "ended"} /\ run'[running[o]].seq = o
      BY <1>1, <3>1, <3>2 DEF Live
    <3> QED
      BY <3>1, <3>3
  <2>3. running'[s] = r /\ run'[r].at = "steps" /\ run'[r].seq = s
    BY <1>0, <1>1 DEF TypeOK, NewRun
  <2>4. ASSUME NEW o \in Sequence, running'[o] # NoRun
        PROVE  run'[running'[o]].at \notin {"none", "ended"} /\ run'[running'[o]].seq = o
    BY <2>2, <2>3, <2>4
  <2> QED
    BY <2>4 DEF CancelFindsLive, Live
<1>7. ASSUME ~raced' PROVE CancelReaches' /\ OneAtATime'
  <2>1. ~raced /\ ~BusyWith(s)
    BY <1>b, <1>7 DEF TypeOK
  <2>2. CancelReaches /\ OneAtATime /\ running[s] = NoRun
    BY <2>1 DEF OverlapNeedsRace, BusyWith
  <2>3. \A q \in RunId : Live(q) => run[q].seq \in Sequence /\ run[q].seq # s
    BY <2>2 DEF CancelReaches, Known, Live, NoRun, RunId
  <2>4. CancelReaches'
    <3>1. running \in [Sequence -> RunId \cup {NoRun}]
      BY DEF TypeOK
    <3> QED
      BY ONLY <1>0, <1>4, <1>5, <2>2, <2>3, <3>1 DEF CancelReaches
  <2>5. \A q \in RunId : Live(q) => DevicesOf(run[q].seq) \cap DevicesOf(s) = {}
    BY ONLY <2>1, <2>2, <2>3, SequenceAssumption DEF BusyWith, CancelReaches, NoRun, RunId
  <2>6. OneAtATime'
    BY <1>4, <1>5, <2>2, <2>3, <2>5 DEF OneAtATime
  <2> QED
    BY <2>4, <2>6
<1> QED
  BY <1>2, <1>3, <1>6, <1>7 DEF OverlapNeedsRace

LEMMA CancelIInv ==
    ASSUME IInv, NEW s \in Sequence, Cancel(s)
    PROVE  IInv'
<1> USE SequenceAssumption DEF Cancel
<1>1. PICK r \in RunId : r = running[s]
  BY DEF IInv, TypeOK
<1>2. /\ run' \in [RunId -> Run]
      /\ \A q \in RunId : q # r => run'[q] = run[q]
      /\ run'[r] = [run[r] EXCEPT !.cancel = TRUE]
  BY <1>1 DEF IInv, TypeOK, Run
<1>3. run[r].at # "none" => WellEnded(run[r])
  BY <1>1 DEF IInv, Known, TriedBeforeEnd, UndoneWhole, WellEnded, Final
<1>4. /\ run'[r].seq = run[r].seq /\ run'[r].at = run[r].at
      /\ run'[r].undone = run[r].undone /\ run'[r].final = run[r].final
      /\ run'[r].step = run[r].step
  BY <1>1, <1>2 DEF IInv, TypeOK, Run
<1>5. run[r].at # "none" => WellEnded(run'[r])
  BY <1>3, <1>4 DEF WellEnded
<1>6. UNCHANGED <<asking, running, started, raced>>
  OBVIOUS
<1> QED
  BY ONLY IInv, <1>2, <1>4, <1>5, <1>6, Moved

LEMMA PassDeadlineIInv ==
    ASSUME IInv, NEW r \in RunId, PassDeadline(r)
    PROVE  IInv'
<1> USE SequenceAssumption DEF PassDeadline
<1>1. /\ run' \in [RunId -> Run]
      /\ \A q \in RunId : q # r => run'[q] = run[q]
      /\ run'[r] = [run[r] EXCEPT !.late = TRUE]
  BY DEF IInv, TypeOK, Run
<1>2. run[r].at # "none" => WellEnded(run[r])
  BY DEF IInv, Known, TriedBeforeEnd, UndoneWhole, WellEnded, Final
<1>3. /\ run'[r].seq = run[r].seq /\ run'[r].at = run[r].at
      /\ run'[r].undone = run[r].undone /\ run'[r].final = run[r].final
      /\ run'[r].step = run[r].step
  BY <1>1 DEF IInv, TypeOK, Run
<1> QED
  BY <1>1, <1>2, <1>3, Moved DEF WellEnded

(* The five ways in which a step leaves its run among the live ones. *)
LEMMA StepIInv ==
    ASSUME IInv, NEW r \in RunId, UNCHANGED <<asking, running, started, raced>>,
           run[r].at \in {"steps", "command", "wait_s", "wait_until"},
           \/ Passes(r)
           \/ \E why \in {"cancelled", "aborted"} : Aborts(r, why)
           \/ run' = [run EXCEPT ![r].at = "ending", ![r].final = "done"]
           \/ \E at \in {"command", "wait_s", "wait_until"} : Goes(r, at)
    PROVE  IInv'
<1> USE SequenceAssumption DEF Passes, Aborts, Goes
<1>1. /\ run[r].seq \in Sequence
      /\ run[r].undone <= Len(OnAbort[run[r].seq])
      /\ run \in [RunId -> Run]
      /\ run[r] \in Run /\ run[r].step \in Nat /\ run[r].step > 0
      /\ {"steps", "undoing", "ending", "command", "wait_s", "wait_until"} \subseteq At
  BY DEF IInv, TypeOK, Known, Run, At
<1>2. /\ run' \in [RunId -> Run]
      /\ \A q \in RunId : q # r => run'[q] = run[q]
      /\ run'[r].seq = run[r].seq
      /\ run'[r].undone = run[r].undone
      /\ run'[r].step > 0
      /\ run'[r].at \notin {"none", "ended"}
      /\ run'[r].at = "undoing" => run'[r].final \in {"cancelled", "aborted"}
      /\ run'[r].at = "ending" => run'[r].final = "done"
  <2>1. CASE Passes(r)
    <3> DEFINE x == [run[r] EXCEPT !.step = @ + 1, !.at = "steps"]
    <3>1. x \in Run
      <4>1. run[r].step + 1 \in Nat
        BY <1>1
      <4>2. \A n \in Nat : [run[r] EXCEPT !.step = n, !.at = "steps"] \in Run
        BY <1>1 DEF Run
      <4> QED
        BY <4>1, <4>2
    <3>2. /\ x.seq = run[r].seq /\ x.undone = run[r].undone /\ x.step > 0
          /\ x.at = "steps"
      BY <1>1 DEF Run
    <3>3. run' = [run EXCEPT ![r] = x]
      BY <1>1, <2>1
    <3> HIDE DEF x
    <3> QED
      BY <1>1, <3>1, <3>2, <3>3
  <2>2. CASE \E why \in {"cancelled", "aborted"} : Aborts(r, why)
    <3>a. PICK why \in {"cancelled", "aborted"} : Aborts(r, why)
      BY <2>2
    <3> DEFINE x == [run[r] EXCEPT !.at = "undoing", !.final = why]
    <3>1. x \in Run
      BY <1>1 DEF Run, Final
    <3>2. /\ x.seq = run[r].seq /\ x.undone = run[r].undone /\ x.step > 0
          /\ x.at = "undoing" /\ x.final \in {"cancelled", "aborted"}
      BY <1>1 DEF Run
    <3>3. run' = [run EXCEPT ![r] = x]
      BY <1>1, <3>a
    <3> HIDE DEF x
    <3> QED
      BY <1>1, <3>1, <3>2, <3>3
  <2>3. CASE run' = [run EXCEPT ![r].at = "ending", ![r].final = "done"]
    <3> DEFINE x == [run[r] EXCEPT !.at = "ending", !.final = "done"]
    <3>1. x \in Run
      BY <1>1 DEF Run, Final
    <3>2. /\ x.seq = run[r].seq /\ x.undone = run[r].undone /\ x.step > 0
          /\ x.at = "ending" /\ x.final = "done"
      BY <1>1 DEF Run
    <3>3. run' = [run EXCEPT ![r] = x]
      BY <1>1, <2>3
    <3> HIDE DEF x
    <3> QED
      BY <1>1, <3>1, <3>2, <3>3
  <2>4. CASE \E at \in {"command", "wait_s", "wait_until"} : Goes(r, at)
    <3>a. PICK at \in {"command", "wait_s", "wait_until"} : Goes(r, at)
      BY <2>4
    <3> DEFINE x == [run[r] EXCEPT !.at = at]
    <3>1. x \in Run
      BY <1>1 DEF Run, Final
    <3>2. /\ x.seq = run[r].seq /\ x.undone = run[r].undone /\ x.step > 0
          /\ x.at \in {"command", "wait_s", "wait_until"}
      BY <1>1 DEF Run
    <3>3. run' = [run EXCEPT ![r] = x]
      BY <1>1, <3>a
    <3> HIDE DEF x
    <3> QED
      BY <1>1, <3>1, <3>2, <3>3
  <2> QED
    BY <2>1, <2>2, <2>3, <2>4
<1>3. WellEnded(run'[r])
  BY <1>1, <1>2 DEF WellEnded, Final
<1> QED
  BY <1>2, <1>3, Moved

LEMMA UndoStepIInv ==
    ASSUME IInv, NEW r \in RunId, UndoStep(r)
    PROVE  IInv'
<1> USE SequenceAssumption DEF UndoStep, Goes
<1>1. /\ run[r].seq \in Sequence /\ Len(OnAbort[run[r].seq]) \in Nat
      /\ run[r].undone \in Nat /\ run[r].step > 0
      /\ run \in [RunId -> Run]
      /\ run[r].final \in {"cancelled", "aborted"}
  BY DEF IInv, TypeOK, Known, Run
<1>2. /\ run' \in [RunId -> Run]
      /\ \A q \in RunId : q # r => run'[q] = run[q]
      /\ run'[r].seq = run[r].seq
      /\ run'[r].final = run[r].final
      /\ run'[r].at \in {"undoing", "dead"}
      /\ run'[r].undone \in {run[r].undone, run[r].undone + 1}
      /\ run'[r].step = run[r].step
  <2>1. CASE run' = [run EXCEPT ![r].undone = @ + 1]
    <3> DEFINE x == [run[r] EXCEPT !.undone = @ + 1]
    <3>1. x \in Run /\ x.seq = run[r].seq /\ x.undone = run[r].undone + 1
          /\ x.at = run[r].at /\ x.final = run[r].final /\ x.step = run[r].step
      BY ONLY <1>1, r \in RunId DEF Run
    <3>2. run' = [run EXCEPT ![r] = x]
      BY <1>1, <2>1 DEF Run
    <3> QED
      BY <1>1, <3>1, <3>2
  <2>2. CASE run' = [run EXCEPT ![r].at = "dead"]
    BY <1>1, <2>2 DEF Run, At
  <2> QED
    BY <2>1, <2>2
<1>3. WellEnded(run'[r])
  BY <1>1, <1>2 DEF WellEnded
<1> QED
  BY <1>2, <1>3, Moved

LEMMA UndoEndsIInv ==
    ASSUME IInv, NEW r \in RunId, UndoEnds(r)
    PROVE  IInv'
<1> USE SequenceAssumption DEF UndoEnds, Goes
<1>1. /\ run \in [RunId -> Run]
      /\ run[r].seq \in Sequence /\ Len(OnAbort[run[r].seq]) \in Nat
      /\ run[r].step > 0
      /\ run[r].final \in {"cancelled", "aborted"}
  BY DEF IInv, TypeOK, Known
<1>2. /\ run' \in [RunId -> Run]
      /\ \A q \in RunId : q # r => run'[q] = run[q]
      /\ run'[r].seq = run[r].seq
      /\ run'[r].final = run[r].final
      /\ run'[r].at = "ending"
      /\ run'[r].undone = run[r].undone /\ run'[r].step = run[r].step
  BY <1>1 DEF Run, At
<1>3. WellEnded(run'[r])
  BY <1>1, <1>2 DEF WellEnded, Final
<1> QED
  BY <1>2, <1>3, Moved

LEMMA EndsIInv ==
    ASSUME IInv, NEW r \in RunId, Ends(r)
    PROVE  IInv'
<1> USE SequenceAssumption DEF IInv, Ends, Goes
<1>1. run[r].seq \in Sequence /\ run[r].at = "ending"
  BY DEF Known
<1>2. /\ run' \in [RunId -> Run]
      /\ \A q \in RunId : q # r => run'[q] = run[q]
      /\ run'[r] = [run[r] EXCEPT !.at = "ended"]
      /\ run'[r].at = "ended"
      /\ run'[r].seq = run[r].seq /\ run'[r].undone = run[r].undone
      /\ run'[r].final = run[r].final /\ run'[r].step = run[r].step
  BY DEF TypeOK, Run, At
<1>3. TypeOK'
  BY <1>2 DEF TypeOK
<1>4. Known' /\ TriedBeforeEnd' /\ UndoneWhole'
  <2>1. Known'
    BY <1>1, <1>2 DEF Known
  <2>2. TriedBeforeEnd' /\ UndoneWhole'
    BY <1>1, <1>2 DEF TriedBeforeEnd, UndoneWhole
  <2> QED
    BY <2>1, <2>2
<1>5. ~Live(r)'
  BY <1>2 DEF Live
<1>6. \A q \in RunId : q # r => (Live(q) <=> Live(q)') /\ run'[q].seq = run[q].seq
  BY <1>2 DEF Live
<1>7. CancelFindsLive'
  <2>1. \A o \in Sequence : running'[o] # NoRun =>
          running'[o] = running[o] /\ running[o] \in RunId /\ running[o] # r
    BY <1>1 DEF CancelFindsLive, TypeOK
  <2> QED
    BY <1>6, <2>1 DEF CancelFindsLive, Live
<1>8. ASSUME ~raced' PROVE CancelReaches' /\ OneAtATime'
  <2>1. CancelReaches /\ OneAtATime
    BY <1>8 DEF OverlapNeedsRace
  <2>2. running[run[r].seq] = r
    BY <1>1, <2>1 DEF CancelReaches, Live
  <2>3. \A q \in RunId : q # r /\ Live(q) => run[q].seq # run[r].seq /\ run[q].seq \in Sequence
    BY <2>1, <2>2 DEF CancelReaches, Known, Live
  <2>4. CancelReaches'
    BY <1>1, <1>5, <1>6, <2>1, <2>3 DEF CancelReaches, TypeOK
  <2>5. OneAtATime'
    BY <1>5, <1>6, <2>1 DEF OneAtATime
  <2> QED
    BY <2>4, <2>5
<1> QED
  BY <1>3, <1>4, <1>7, <1>8 DEF OverlapNeedsRace

LEMMA NextIInv == IInv /\ [Next]_vars => IInv'
<1> SUFFICES ASSUME IInv, [Next]_vars PROVE IInv'
  OBVIOUS
<1>1. CASE \E c \in Caller, s \in Sequence : StartAsks(c, s)
  BY <1>1, StartAsksIInv
<1>2. CASE \E c \in Caller : StartRegisters(c)
  BY <1>2, StartRegistersIInv
<1>3. CASE \E s \in Sequence : Cancel(s)
  BY <1>3, CancelIInv
<1>4. CASE \E r \in RunId : PassDeadline(r)
  BY <1>4, PassDeadlineIInv
<1>5. ASSUME NEW r \in RunId, Execute(r)
      PROVE  IInv'
  <2>1. CASE NextStep(r)
    <3> USE <2>1 DEF NextStep
    <3>1. CASE run[r].step > Len(Steps[run[r].seq])
      BY <3>1, StepIInv
    <3>2. CASE ~(run[r].step > Len(Steps[run[r].seq])) /\ (run[r].cancel \/ run[r].late)
      BY <3>2, StepIInv DEF Aborts
    <3>3. CASE /\ ~(run[r].step > Len(Steps[run[r].seq]))
               /\ ~run[r].cancel /\ ~run[r].late /\ Now(r).kind = "check"
      BY <3>3, StepIInv DEF Judged, Aborts
    <3>4. CASE /\ ~(run[r].step > Len(Steps[run[r].seq]))
               /\ ~run[r].cancel /\ ~run[r].late /\ Now(r).kind # "check"
      <4>1. Goes(r, Now(r).kind) /\ UNCHANGED <<asking, running, started, raced>>
        BY <3>4
      <4>2. Now(r).kind \in {"command", "wait_s", "wait_until"}
        <5>1. run[r].seq \in Sequence
          BY DEF IInv, Known
        <5>2. run[r].step \in 1 .. Len(Steps[run[r].seq])
          <6>1. run[r].step \in Nat /\ run[r].step > 0 /\ Steps[run[r].seq] \in Seq(Step)
            BY <5>1, SequenceAssumption DEF IInv, TypeOK, Run, Known
          <6> QED
            BY <3>4, <6>1
        <5>3. Now(r) \in Step
          BY <5>1, <5>2, SequenceAssumption DEF Now
        <5> QED
          BY <3>4, <5>3 DEF Step, StepKind
      <4> QED
        BY <4>1, <4>2, StepIInv
    <3> QED
      BY <3>1, <3>2, <3>3, <3>4
  <2>2. CASE CommandAnswers(r)
    BY <2>2, StepIInv DEF CommandAnswers, Aborts
  <2>3. CASE WaitEnds(r)
    BY <2>3, StepIInv DEF WaitEnds, Aborts
  <2>4. CASE UntilEnds(r)
    BY <2>4, StepIInv DEF UntilEnds, Judged, Aborts
  <2>5. CASE UndoStep(r)
    BY <2>5, UndoStepIInv
  <2>6. CASE UndoEnds(r)
    BY <2>6, UndoEndsIInv
  <2>7. CASE Ends(r)
    BY <2>7, EndsIInv
  <2> QED
    BY <1>5, <2>1, <2>2, <2>3, <2>4, <2>5, <2>6, <2>7 DEF Execute
<1>6. CASE UNCHANGED vars
  <2>1. UNCHANGED <<asking, running, run, started, raced>>
    BY <1>6 DEF vars
  <2>2. TypeOK' /\ Known' /\ TriedBeforeEnd' /\ UndoneWhole'
    BY <2>1 DEF IInv, TypeOK, Known, TriedBeforeEnd, UndoneWhole
  <2>3. CancelFindsLive' /\ OverlapNeedsRace'
    BY <2>1 DEF IInv, CancelFindsLive, OverlapNeedsRace, CancelReaches, OneAtATime, Live
  <2> QED
    BY <2>2, <2>3 DEF IInv
<1> QED
  BY <1>1, <1>2, <1>3, <1>4, <1>5, <1>6 DEF Next

-----------------------------------------------------------------------------
(* The inductive invariant of the runner, whatever the sequences.            *)
THEOREM RunnerInvariant == Spec => []IInv
  BY InitIInv, NextIInv, PTL DEF Spec

(* Every run that ended cancelled or aborted has tried all of its on_abort   *)
(* (_execute), however many threads start runs and whatever raises.          *)
THEOREM UndoneWholeHolds == Spec => []UndoneWhole
<1>1. IInv => UndoneWhole
  BY DEF IInv
<1> QED
  BY <1>1, RunnerInvariant, PTL

(* Two runs that run or undo share no device, and cancel() finds each of     *)
(* them, until a run is registered that busy_with would refuse by then:      *)
(* start() asks and registers under the lock, but not at once.               *)
THEOREM OverlapNeedsRaceHolds == Spec => []OverlapNeedsRace
<1>1. IInv => OverlapNeedsRace
  BY DEF IInv
<1> QED
  BY <1>1, RunnerInvariant, PTL

(* However many threads start runs, and however often they race, what        *)
(* cancel() finds under a name is a run of that sequence that has not ended. *)
THEOREM CancelFindsLiveHolds == Spec => []CancelFindsLive
<1>1. IInv => CancelFindsLive
  BY DEF IInv
<1> QED
  BY <1>1, RunnerInvariant, PTL
=============================================================================
