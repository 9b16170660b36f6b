--------------------------- MODULE SharedWireProofs ---------------------------
(***************************************************************************)
(* Proofs about SharedWire, for any units, attempts, bounds and troubles.   *)
(* The invariant's parts are kept one by one: the types (Typed), the turn   *)
(* (Turns), the pollers of a unit (Lists), the operations counted (Counts)  *)
(* and the claims on the transport (Claims).                                *)
(***************************************************************************)
EXTENDS SharedWire, FiniteSetTheorems, SequenceTheorems, TLAPS

ThreadState == [pc : Pc, conn : Conn \cup {None}, left : 0 .. Retries, stop : BOOLEAN]
TransportState == [sock : BOOLEAN, connected : BOOLEAN, users : Int]

-----------------------------------------------------------------------------
(* Types. *)

(* A connection that a unit has is one of its connections. *)
LEMMA CurTyped ==
    ASSUME Typed, NEW u \in Unit
    PROVE  Cur(u) \in Conn /\ on[Cur(u)] \in {0} \cup Transport
BY DEF Typed, Cur, Conn

(* A thread is in one state, and what becomes of it after a transaction is one. *)
LEMMA IdleTyped ==
    ASSUME Typed, NEW p \in Thread
    PROVE  Idle(p) \in ThreadState
<1>1. thr[p] \in ThreadState
  BY DEF Typed, ThreadState
<1>2. 0 \in 0 .. Retries
  BY WireAssumption
<1> QED
  BY <1>1, <1>2 DEF Idle, ThreadState, Pc

(* After a failed attempt a thread that had one left is in a state. *)
LEMMA FailedTyped ==
    ASSUME Typed, NEW p \in Thread, thr[p].left >= 1
    PROVE  Failed(p) \in ThreadState
<1>1. thr[p] \in ThreadState
  BY DEF Typed, ThreadState
<1>2. thr[p].left - 1 \in 0 .. Retries
  BY <1>1, WireAssumption DEF ThreadState
<1> QED
  BY <1>1, <1>2, IdleTyped DEF Failed, ThreadState, Pc

(* A thread that changes leaves the others as they are. *)
LEMMA PutTyped ==
    ASSUME Typed, NEW p \in Thread, NEW f \in ThreadState, Put(p, f)
    PROVE  thr' \in [Thread -> ThreadState]
BY DEF Typed, Put, ThreadState

(* A transport closed, opened or found open is a transport. *)
LEMMA TransportTyped ==
    ASSUME Typed, NEW t \in Transport
    PROVE  /\ Closed(t) \in TransportState
           /\ Reopened(t) \subseteq TransportState
           /\ Ensured(t) \subseteq TransportState
<1>1. tp[t] \in TransportState
  BY DEF Typed, TransportState
<1>2. Closed(t) \in TransportState /\ Opened(t) \in TransportState
  BY <1>1 DEF Closed, Opened, TransportState
<1>3. Reopened(t) \subseteq TransportState
  BY <1>2 DEF Reopened
<1> QED
  BY <1>1, <1>2, <1>3 DEF Ensured

(* There is room for one more trouble where one happens. *)
LEMMA TroubleTyped ==
    ASSUME Typed, Trouble
    PROVE  troubles' \in 0 .. MaxTroubles /\ troubles' = troubles + 1
BY WireAssumption DEF Typed, Trouble

(* The threads' steps. *)
LEMMA ThreadsTyped ==
    ASSUME Typed, Attempts, NEW p \in Thread, Step(p) \/ MissTurn(p) \/ \E u \in Unit : Write(u)
    PROVE  Typed'
<1>0. /\ thr[p] \in ThreadState /\ Idle(p) \in ThreadState
      /\ thr[p].pc \in {"queued", "wire", "backoff"} => Failed(p) \in ThreadState
      /\ thr[p].pc \notin {"gone", "wait"} => T(p) \in Transport
  BY IdleTyped, FailedTyped DEF Typed, ThreadState, Attempts, Equipped, T
<1>1. ASSUME NEW q \in Thread, NEW c \in Conn \cup {None}, NEW l \in 0 .. Retries, Enqueue(q, c, l)
      PROVE  Typed'
  <2>0. thr[q] \in ThreadState
    BY DEF Typed, ThreadState
  <2>1. [thr[q] EXCEPT !.pc = "queued", !.conn = c, !.left = l] \in ThreadState
    BY <2>0 DEF ThreadState, Pc
  <2>2. thr' \in [Thread -> ThreadState]
    BY <1>1, <2>1, PutTyped DEF Enqueue
  <2> QED
    BY <1>1, <2>2 DEF Enqueue, Typed, ThreadState, transports, units
<1>2. CASE Read(p)
  BY <1>0, <1>1, <1>2, WireAssumption DEF Read, ThreadState
<1>3. ASSUME NEW u \in Unit, Write(u)
      PROVE  Typed'
  BY <1>1, <1>3, CurTyped, WireAssumption DEF Write, Thread
<1>4. CASE MissTurn(p)
  <2>1. thr' \in [Thread -> ThreadState]
    BY <1>0, <1>4, PutTyped DEF MissTurn
  <2>2. troubles' \in 0 .. MaxTroubles
    BY <1>4, TroubleTyped DEF MissTurn
  <2> QED
    BY <1>4, <2>1, <2>2 DEF MissTurn, Typed, ThreadState, transports, units
<1>5. CASE TakeTurn(p)
  <2>1. PICK now \in Ensured(T(p)) :
          /\ tp' = [tp EXCEPT ![T(p)] = now]
          /\ busy' = now.connected
          /\ Put(p, IF now.connected THEN [thr[p] EXCEPT !.pc = "wire"] ELSE Failed(p))
    BY <1>5 DEF TakeTurn
  <2>2. [thr[p] EXCEPT !.pc = "wire"] \in ThreadState
    BY <1>0 DEF ThreadState, Pc
  <2>3. thr' \in [Thread -> ThreadState]
    BY <1>0, <1>5, <2>1, <2>2, PutTyped DEF TakeTurn
  <2>4. now \in TransportState
    BY <1>0, <1>5, <2>1, TransportTyped DEF TakeTurn
  <2>5. tp' \in [Transport -> TransportState] /\ busy' \in BOOLEAN
    BY <2>1, <2>4 DEF Typed, TransportState
  <2> QED
    BY <1>5, <2>3, <2>5 DEF TakeTurn, Typed, ThreadState, TransportState, units
<1>6. CASE Answered(p)
  <2>1. thr' \in [Thread -> ThreadState]
    BY <1>0, <1>6, PutTyped DEF Answered
  <2>2. fails' \in [Conn -> 0 .. WedgedAt]
    <3>1. fails \in [Conn -> 0 .. WedgedAt] /\ 0 \in 0 .. WedgedAt
      BY WireAssumption DEF Typed
    <3> QED
      BY <1>6, <3>1 DEF Answered
  <2> QED
    BY <1>6, <2>1, <2>2 DEF Answered, Typed, ThreadState, transports, units
<1>7. ASSUME NEW broken \in BOOLEAN, NoAnswer(p, broken)
      PROVE  Typed'
  <2>1. thr' \in [Thread -> ThreadState]
    BY <1>0, <1>7, PutTyped DEF NoAnswer
  <2>2. tp' \in [Transport -> TransportState]
    BY <1>7 DEF NoAnswer, Typed, TransportState
  <2> QED
    BY <1>7, <2>1, <2>2 DEF NoAnswer, Typed, ThreadState, TransportState, units
<1>8. CASE Retry(p)
  BY <1>0, <1>1, <1>8 DEF Retry, ThreadState
<1>9. CASE GiveUpRetry(p)
  <2>1. thr' \in [Thread -> ThreadState]
    BY <1>0, <1>9, PutTyped DEF GiveUpRetry
  <2> QED
    BY <1>9, <2>1 DEF GiveUpRetry, Typed, ThreadState, arbiter, transports, units
<1>10. CASE BatchFailed(p)
  <2>1. thr' \in [Thread -> ThreadState]
    BY <1>0, <1>10, PutTyped DEF BatchFailed
  <2>2. tp' \in [Transport -> TransportState]
    <3>1. T(p) \in Transport
      BY <1>0, <1>10 DEF BatchFailed
    <3>2. Closed(T(p)) \in TransportState
      BY <3>1, TransportTyped
    <3>3. tp' = [tp EXCEPT ![T(p)] = Closed(T(p))] \/ tp' = tp
      BY <1>10 DEF BatchFailed
    <3>4. tp \in [Transport -> TransportState]
      BY DEF Typed, TransportState
    <3> HIDE DEF TransportState
    <3> QED
      BY <3>1, <3>2, <3>3, <3>4
  <2>3. fails' \in [Conn -> 0 .. WedgedAt]
    <3> DEFINE c == thr[p].conn
    <3>1. fails \in [Conn -> 0 .. WedgedAt] /\ 0 \in 0 .. WedgedAt
      BY WireAssumption DEF Typed
    <3>2. c \in Conn
      BY <1>10 DEF BatchFailed, Attempts, Equipped
    <3>3. ~(fails[c] + 1 >= WedgedAt) => fails[c] + 1 \in 0 .. WedgedAt
      BY <3>1, <3>2, WireAssumption
    <3>4. fails' = [fails EXCEPT ![c] = IF fails[c] + 1 >= WedgedAt THEN 0 ELSE fails[c] + 1]
      BY <1>10 DEF BatchFailed
    <3> HIDE DEF c
    <3> QED
      BY <3>1, <3>2, <3>3, <3>4
  <2>4. cut' \subseteq Thread
    BY <1>10 DEF BatchFailed, Cuts, Typed
  <2> QED
    BY <1>10, <2>1, <2>2, <2>3, <2>4 DEF BatchFailed, Typed, ThreadState, TransportState, arbiter, units
<1>11. CASE Leave(p)
  <2>1. [thr[p] EXCEPT !.pc = "gone", !.conn = None, !.stop = FALSE] \in ThreadState
    BY <1>0 DEF ThreadState, Pc
  <2>2. thr' \in [Thread -> ThreadState]
    BY <1>11, <2>1, PutTyped DEF Leave
  <2> QED
    BY <1>11, <2>2 DEF Leave, Typed, ThreadState, arbiter, transports, units
<1> QED
  BY <1>2, <1>3, <1>4, <1>5, <1>6, <1>7, <1>8, <1>9, <1>10, <1>11 DEF Step

(* A unit that is making a connection leaves room for it and its transport. *)
LEMMA RoomToMake ==
    ASSUME Typed, Counts, NEW u \in Unit, Making(u)
    PROVE  gen[u] + 1 \in Generation /\ made + 1 \in Transport
<1>1. gen[u] \in Nat /\ made \in Nat /\ troubles \in 0 .. MaxTroubles
  BY DEF Typed, Generation, Transport
<1>2. gen[u] + 1 <= troubles
  BY <1>1 DEF Counts
<1> DEFINE M == {v \in Unit : Making(v)}
<1>3. IsFiniteSet(M) /\ M # {}
  BY FS_Subset, WireAssumption
<1>4. Cardinality(M) \in Nat /\ Cardinality(M) # 0
  BY <1>3, FS_CardinalityType, FS_EmptySet
<1>5. made + Cardinality(M) <= troubles + 1
  BY DEF Counts
<1> HIDE DEF M
<1> QED
  BY <1>1, <1>2, <1>4, <1>5, WireAssumption DEF Generation, Transport

(* A thread that is told to stop is in a state. *)
LEMMA StoppedTyped ==
    ASSUME Typed, NEW u \in Unit, StopAll(u)
    PROVE  thr' \in [Thread -> ThreadState]
<1>1. \A p \in Thread : [thr[p] EXCEPT !.stop = TRUE] \in ThreadState /\ thr[p] \in ThreadState
  BY DEF Typed, ThreadState
<1> QED
  BY <1>1 DEF StopAll

(* An operation that goes on is an operation. *)
LEMMA GotoTyped ==
    ASSUME Typed, NEW u \in Unit, op[u] # None, NEW at \in At, Goto(u, at)
    PROVE  op' \in [Unit -> [kind : Kind, at : At] \cup {None}]
BY DEF Typed, Goto

(* The units' operations. *)
LEMMA UnitsTyped ==
    ASSUME Typed, Counts, Claims, NEW u \in Unit,
           Life(u) \/ JoinTimesOut(u) \/ \E k \in Kind : Begin(u, k)
    PROVE  Typed'
<1>0. gen[u] \in Generation /\ Cur(u) \in Conn /\ op[u] \in [kind : Kind, at : At] \cup {None}
  BY CurTyped DEF Typed
<1>1. ASSUME NEW k \in Kind, Begin(u, k)
      PROVE  Typed'
  <2>1. thr' \in [Thread -> ThreadState]
    BY <1>1, StoppedTyped DEF Begin
  <2>2. [kind |-> k, at |-> Entry(k)] \in [kind : Kind, at : At]
    BY DEF Entry, At
  <2>3. op' \in [Unit -> [kind : Kind, at : At] \cup {None}]
    BY <1>1, <2>2 DEF Begin, Typed
  <2>4. troubles' \in 0 .. MaxTroubles
    BY <1>1, TroubleTyped DEF Begin
  <2>5. resumed' \in [Transport -> Nat]
    <3>1. on[Cur(u)] \in Transport
      BY DEF Claims
    <3> QED
      BY <1>1, <3>1 DEF Begin, Typed
  <2> QED
    BY <1>1, <2>1, <2>3, <2>4, <2>5 DEF Begin, Typed, ThreadState, arbiter, transports
<1>2. ASSUME Joined(u), troubles' \in 0 .. MaxTroubles
      PROVE  Typed'
  <2>1. Then(op[u].kind) \in At
    BY DEF Then, At
  <2>2. op' \in [Unit -> [kind : Kind, at : At] \cup {None}]
    BY <1>2, <2>1, GotoTyped DEF Joined
  <2>3. list' \in [Unit -> SUBSET Poller]
    BY <1>2 DEF Joined, Typed
  <2>4. retired' \subseteq Conn
    BY <1>0, <1>2 DEF Joined, Typed
  <2> QED
    BY <1>2, <2>2, <2>3, <2>4 DEF Joined, Typed, arbiter, transports
<1>3. CASE Release(u)
  <2> DEFINE t == on[Cur(u)]
  <2>1. op' \in [Unit -> [kind : Kind, at : At] \cup {None}]
    BY <1>3 DEF Release, Typed, At
  <2>2. GiveUp(t)
    BY <1>3 DEF Release
  <2>3. ASSUME t \in Transport
        PROVE  tp' \in [Transport -> TransportState]
    <3>1. tp[t] \in TransportState /\ Closed(t) \in TransportState
      BY <2>3, TransportTyped DEF Typed, TransportState
    <3>2. [(IF LastUser(t) THEN Closed(t) ELSE tp[t]) EXCEPT !.users = tp[t].users - 1] \in TransportState
      BY <3>1 DEF TransportState
    <3> QED
      BY <2>2, <3>2 DEF GiveUp, Typed, TransportState
  <2>4. ASSUME t \notin Transport
        PROVE  tp' \in [Transport -> TransportState]
    BY <2>2, <2>4 DEF GiveUp, Typed, TransportState
  <2>5. cut' \subseteq Thread /\ registry' \in {0} \cup Transport
    BY <2>2 DEF GiveUp, Cuts, Typed
  <2> QED
    BY <1>3, <2>1, <2>3, <2>4, <2>5 DEF Release, Typed, TransportState, arbiter
<1>4. CASE Make(u)
  <2>1. gen[u] + 1 \in Generation /\ made + 1 \in Transport
    BY <1>4, RoomToMake DEF Make, Counts
  <2>2. op' \in [Unit -> [kind : Kind, at : At] \cup {None}]
    BY <1>4, GotoTyped DEF Make, At
  <2>3. gen' \in [Unit -> Generation]
    BY <1>4, <2>1 DEF Make, Typed
  <2> DEFINE t == IF registry = 0 THEN made + 1 ELSE registry
  <2>4. t \in Transport
    BY <2>1 DEF Typed
  <2>5. Claim(<<u, gen[u] + 1>>)
    BY <1>4 DEF Make
  <2>6. tp' = [tp EXCEPT ![t].users = @ + 1] /\ on' = [on EXCEPT ![<<u, gen[u] + 1>>] = t]
        /\ registry' = t /\ made' = IF registry = 0 THEN t ELSE made
    BY <2>5 DEF Claim
  <2> HIDE DEF t
  <2>7. tp' \in [Transport -> TransportState]
    BY <2>4, <2>6 DEF Typed, TransportState
  <2>8. on' \in [Conn -> {0} \cup Transport]
    BY <2>4, <2>6 DEF Typed
  <2>9. registry' \in {0} \cup Transport /\ made' \in {0} \cup Transport
    BY <2>4, <2>6 DEF Typed
  <2> QED
    BY <1>4, <2>2, <2>3, <2>7, <2>8, <2>9 DEF Make, Typed, TransportState, arbiter
<1>5. CASE Open(u)
  <2> DEFINE t == on[Cur(u)]
  <2>1. PICK now \in Reopened(t) : tp' = [tp EXCEPT ![t] = now]
    BY <1>5 DEF Open
  <2>2. tp' \in [Transport -> TransportState]
    <3>1. t \in Transport => now \in TransportState
      BY TransportTyped
    <3> HIDE DEF t
    <3> QED
      BY <2>1, <3>1 DEF Typed, TransportState
  <2>3. op' \in [Unit -> [kind : Kind, at : At] \cup {None}]
    BY <1>5, GotoTyped DEF Open, At
  <2>4. cut' \subseteq Thread
    BY <1>5 DEF Open, Cuts, Typed
  <2> QED
    BY <1>5, <2>2, <2>3, <2>4 DEF Open, Typed, TransportState, arbiter
<1>6. CASE Start(u)
  <2>1. PICK p \in {q \in Poller : q[1] = u /\ thr[q].pc = "gone"} :
          /\ list' = [list EXCEPT ![u] = {p}]
          /\ Put(p, [thr[p] EXCEPT !.pc = "wait", !.conn = Cur(u), !.stop = FALSE])
    BY <1>6 DEF Start
  <2>2. p \in Poller /\ p \in Thread
    BY DEF Thread
  <2>3. [thr[p] EXCEPT !.pc = "wait", !.conn = Cur(u), !.stop = FALSE] \in ThreadState
    BY <1>0, <2>2 DEF Typed, ThreadState, Pc
  <2>4. thr' \in [Thread -> ThreadState]
    BY <2>1, <2>2, <2>3, PutTyped
  <2>5. list' \in [Unit -> SUBSET Poller]
    BY <2>1, <2>2 DEF Typed
  <2>6. op' \in [Unit -> [kind : Kind, at : At] \cup {None}]
    BY <1>6 DEF Start, Typed
  <2> QED
    BY <1>6, <2>4, <2>5, <2>6 DEF Start, Typed, ThreadState, arbiter, transports
<1>7. CASE Join(u)
  BY <1>2, <1>7 DEF Join, Typed
<1>8. CASE JoinTimesOut(u)
  BY <1>2, <1>8, TroubleTyped DEF JoinTimesOut
<1> QED
  BY <1>1, <1>3, <1>4, <1>5, <1>6, <1>7, <1>8 DEF Life

-----------------------------------------------------------------------------
(* What a thread has when it is to use the wire. *)

(* The connection of a unit has a transport, whether the unit uses it or not. *)
LEMMA CurHasTransport ==
    ASSUME Typed, Claims, NEW u \in Unit
    PROVE  Cur(u) \in Conn /\ on[Cur(u)] \in Transport
BY CurTyped DEF Claims

(* A thread that changes and is equipped keeps everybody equipped. *)
LEMMA AttemptOf ==
    ASSUME Typed, Attempts, NEW p \in Thread, NEW f \in ThreadState, Put(p, f), UNCHANGED on,
           f.pc \in {"queued", "wire", "backoff"} => f.left >= 1,
           f.pc \notin {"gone", "wait"} \/ (p # Writer /\ f.pc = "wait")
               => f.conn \in Conn /\ on[f.conn] \in Transport
    PROVE  Attempts'
<1>1. thr'[p] = f /\ \A q \in Thread : q # p => thr'[q] = thr[q]
  BY DEF Put, Typed
<1> QED
  BY <1>1 DEF Attempts, Equipped

(* The threads' steps keep every thread equipped: a retry is one of those left. *)
LEMMA ThreadsAttempt ==
    ASSUME Typed, Attempts, Claims, NEW p \in Thread,
           Step(p) \/ MissTurn(p) \/ \E u \in Unit : Write(u)
    PROVE  Attempts'
<1>0. /\ thr[p] \in ThreadState /\ Idle(p) \in ThreadState
      /\ thr[p].pc \in {"queued", "wire", "backoff"} => Failed(p) \in ThreadState
      /\ Equipped(p)
  BY IdleTyped, FailedTyped DEF Typed, ThreadState, Attempts, Equipped
<1>1. ASSUME NEW q \in Thread, NEW c \in Conn, NEW l \in 1 .. Retries, Enqueue(q, c, l),
             on[c] \in Transport
      PROVE  Attempts'
  <2>0. thr[q] \in ThreadState
    BY DEF Typed, ThreadState
  <2> DEFINE f == [thr[q] EXCEPT !.pc = "queued", !.conn = c, !.left = l]
  <2>1. f \in ThreadState /\ f.conn = c /\ f.left = l /\ f.pc = "queued"
    <3>1. l \in 0 .. Retries
      BY WireAssumption
    <3>2. f.conn = c /\ f.left = l /\ f.pc = "queued"
      BY <2>0 DEF ThreadState
    <3>3. f \in ThreadState
      BY <2>0, <3>1 DEF ThreadState, Pc
    <3> QED
      BY <3>2, <3>3
  <2>2. Put(q, f) /\ UNCHANGED on
    BY <1>1 DEF Enqueue
  <2> HIDE DEF f
  <2> QED
    BY <1>1, <2>1, <2>2, AttemptOf
<1>2. CASE Read(p)
  <2>1. p # Writer
    BY <1>2, WireAssumption DEF Read, Poller
  <2> QED
    BY <1>0, <1>1, <1>2, <2>1, WireAssumption DEF Read, Equipped
<1>3. ASSUME NEW u \in Unit, Write(u)
      PROVE  Attempts'
  BY <1>1, <1>3, CurHasTransport, WireAssumption DEF Write, Thread
<1>4. Idle(p).pc = "wait" /\ (p # Writer => Idle(p).conn = thr[p].conn)
  BY <1>0 DEF Idle, ThreadState
<1>5. ASSUME Put(p, Idle(p)), UNCHANGED on, thr[p].pc \notin {"gone", "wait"}
      PROVE  Attempts'
  BY <1>0, <1>4, <1>5, AttemptOf DEF Equipped
<1>6. ASSUME Put(p, Failed(p)), UNCHANGED on, thr[p].pc \in {"queued", "wire"}
      PROVE  Attempts'
  <2>1. CASE p = Writer
    <3>1. Failed(p) = Idle(p)
      BY <2>1 DEF Failed
    <3> QED
      BY <1>5, <1>6, <3>1
  <2>2. CASE p # Writer
    <3>1. /\ Failed(p).pc = IF thr[p].left > 1 THEN "backoff" ELSE "tail"
          /\ Failed(p).left = thr[p].left - 1 /\ Failed(p).conn = thr[p].conn
      BY <1>0, <2>2 DEF Failed, ThreadState
    <3>2. Failed(p).pc \in {"queued", "wire", "backoff"} => Failed(p).left >= 1
      BY <1>0, <3>1, WireAssumption DEF ThreadState
    <3>3. thr[p].conn \in Conn /\ on[thr[p].conn] \in Transport
      BY <1>0, <1>6 DEF Equipped
    <3> QED
      BY <1>0, <1>6, <3>1, <3>2, <3>3, AttemptOf
  <2> QED
    BY <2>1, <2>2
<1>7. CASE MissTurn(p)
  BY <1>5, <1>7 DEF MissTurn
<1>8. CASE TakeTurn(p)
  <2>1. PICK now \in Ensured(T(p)) :
          Put(p, IF now.connected THEN [thr[p] EXCEPT !.pc = "wire"] ELSE Failed(p))
    BY <1>8 DEF TakeTurn
  <2>2. CASE now.connected
    <3> DEFINE f == [thr[p] EXCEPT !.pc = "wire"]
    <3>1. f \in ThreadState /\ f.conn = thr[p].conn /\ f.left = thr[p].left /\ f.pc = "wire"
      BY <1>0 DEF ThreadState, Pc
    <3>2. Put(p, f) /\ UNCHANGED on
      BY <1>8, <2>1, <2>2 DEF TakeTurn
    <3> HIDE DEF f
    <3> QED
      BY <1>0, <1>8, <3>1, <3>2, AttemptOf DEF TakeTurn, Equipped
  <2>3. CASE ~now.connected
    BY <1>6, <1>8, <2>1, <2>3 DEF TakeTurn
  <2> QED
    BY <2>2, <2>3
<1>9. CASE Answered(p)
  BY <1>5, <1>9 DEF Answered
<1>10. ASSUME NEW broken \in BOOLEAN, NoAnswer(p, broken)
      PROVE  Attempts'
  BY <1>6, <1>10 DEF NoAnswer
<1>11. CASE Retry(p)
  <2>1. thr[p].left \in 1 .. Retries
    BY <1>0, <1>11, WireAssumption DEF Retry, Equipped, ThreadState
  <2> QED
    BY <1>0, <1>1, <1>11, <2>1 DEF Retry, Equipped
<1>12. CASE GiveUpRetry(p)
  BY <1>5, <1>12 DEF GiveUpRetry
<1>13. CASE BatchFailed(p)
  BY <1>5, <1>13 DEF BatchFailed
<1>14. CASE Leave(p)
  <2> DEFINE f == [thr[p] EXCEPT !.pc = "gone", !.conn = None, !.stop = FALSE]
  <2>1. f \in ThreadState /\ f.pc = "gone"
    BY <1>0 DEF ThreadState, Pc
  <2>2. Put(p, f) /\ UNCHANGED on
    BY <1>14 DEF Leave
  <2> HIDE DEF f
  <2> QED
    BY <2>1, <2>2, AttemptOf
<1> QED
  BY <1>2, <1>3, <1>7, <1>8, <1>9, <1>10, <1>11, <1>12, <1>13, <1>14 DEF Step

(* So do the units' operations: a poller starts with a claimed connection. *)
LEMMA UnitsAttempt ==
    ASSUME Typed, Attempts, Counts, Claims, Lists, NEW u \in Unit,
           Life(u) \/ JoinTimesOut(u) \/ \E k \in Kind : Begin(u, k)
    PROVE  Attempts'
<1>1. ASSUME UNCHANGED <<on, thr>>
      PROVE  Attempts'
  BY <1>1 DEF Attempts, Equipped
<1>2. ASSUME NEW k \in Kind, Begin(u, k)
      PROVE  Attempts'
  <2>1. \A p \in Thread : thr[p] \in ThreadState
    BY DEF Typed, ThreadState
  <2>2. \A p \in Thread :
          /\ thr'[p].pc = thr[p].pc /\ thr'[p].conn = thr[p].conn
          /\ thr'[p].left = thr[p].left
    BY <1>2, <2>1 DEF Begin, StopAll, ThreadState
  <2> QED
    BY <1>2, <2>2 DEF Begin, Attempts, Equipped
<1>3. CASE Make(u)
  <2>1. gen[u] + 1 \in Generation /\ made + 1 \in Transport
    BY <1>3, RoomToMake DEF Make, Counts
  <2>2. \A c \in Conn : on[c] \in Transport => on'[c] \in Transport
    BY <1>3, <2>1 DEF Make, Claim, Typed
  <2> QED
    BY <1>3, <2>2 DEF Make, Attempts, Equipped
<1>4. CASE Start(u)
  <2>1. PICK p \in {q \in Poller : q[1] = u /\ thr[q].pc = "gone"} :
          Put(p, [thr[p] EXCEPT !.pc = "wait", !.conn = Cur(u), !.stop = FALSE])
    BY <1>4 DEF Start
  <2>2. p \in Thread /\ thr[p] \in ThreadState
    BY DEF Thread, Typed, ThreadState
  <2>3. Cur(u) \in Conn /\ on[Cur(u)] \in Transport
    BY CurHasTransport
  <2> DEFINE f == [thr[p] EXCEPT !.pc = "wait", !.conn = Cur(u), !.stop = FALSE]
  <2>4. f \in ThreadState /\ f.pc = "wait" /\ f.conn = Cur(u)
    BY <2>2, <2>3 DEF ThreadState, Pc
  <2> HIDE DEF f
  <2> QED
    BY <1>4, <2>1, <2>2, <2>3, <2>4, AttemptOf DEF Start, f
<1> QED
  BY <1>1, <1>2, <1>3, <1>4 DEF Life, JoinTimesOut, Join, Joined, Release, Open

-----------------------------------------------------------------------------
(* The turn. *)

(* Nobody is in a transaction on a transport whose lock is free. *)
LEMMA FreeCutsNobody ==
    ASSUME SocketStays, NEW t, LockFree(t), Cuts(t)
    PROVE  SocketStays'
BY DEF SocketStays, LockFree, Cuts

(* Every step keeps the turn: who takes it finds nobody on the wire. *)
LEMMA TurnsKept ==
    ASSUME Typed, Turns, Next
    PROVE  Turns'
<1>0. thr \in [Thread -> ThreadState]
  BY DEF Typed, ThreadState
<1>1. ASSUME NEW p \in Thread, Step(p) \/ MissTurn(p)
      PROVE  Turns'
  <2>0. /\ Idle(p).pc = "wait" /\ Failed(p).pc # "wire"
        /\ [thr[p] EXCEPT !.pc = "wire"].pc = "wire"
        /\ [thr[p] EXCEPT !.pc = "gone", !.conn = None, !.stop = FALSE].pc = "gone"
    BY <1>0 DEF Idle, Failed, ThreadState
  <2>1. ASSUME NEW f, Put(p, f), f.pc # "wire", UNCHANGED cut,
               busy' = busy \/ thr[p].pc = "wire"
        PROVE  Turns'
    BY <1>0, <2>1 DEF Put, Turns, OneAtATime, SocketStays
  <2>2. CASE TakeTurn(p)
    <3>1. PICK now \in Ensured(T(p)) :
            /\ busy' = now.connected
            /\ Put(p, IF now.connected THEN [thr[p] EXCEPT !.pc = "wire"] ELSE Failed(p))
      BY <2>2 DEF TakeTurn
    <3>2. \A q \in Thread : thr[q].pc # "wire"
      BY <2>2 DEF TakeTurn, AtHead, Turns
    <3>3. \A q \in Thread : thr'[q].pc = "wire" => q = p /\ busy'
      BY <1>0, <2>0, <3>1, <3>2 DEF Put
    <3> QED
      BY <2>2, <3>3 DEF TakeTurn, Turns, OneAtATime, SocketStays
  <2>3. CASE BatchFailed(p)
    <3>1. SocketStays'
      BY <2>3, FreeCutsNobody DEF BatchFailed, Turns, SocketStays
    <3> QED
      BY <1>0, <2>0, <2>3, <3>1 DEF BatchFailed, Put, Turns, OneAtATime, arbiter
  <2>4. CASE Read(p) \/ Retry(p)
    <3>1. PICK c, l : Enqueue(p, c, l)
      BY <2>4 DEF Read, Retry
    <3>2. [thr[p] EXCEPT !.pc = "queued", !.conn = c, !.left = l].pc = "queued"
      BY <1>0 DEF ThreadState
    <3> QED
      BY <2>1, <3>1, <3>2 DEF Enqueue
  <2> QED
    BY <1>1, <2>0, <2>1, <2>2, <2>3, <2>4
       DEF Step, MissTurn, Answered, NoAnswer, GiveUpRetry, Leave, arbiter
<1>2. ASSUME NEW u \in Unit, Write(u)
      PROVE  Turns'
  <2>1. [thr[Writer] EXCEPT !.pc = "queued", !.conn = Cur(u), !.left = 1].pc = "queued"
    BY <1>0 DEF ThreadState, Thread
  <2> QED
    BY <1>0, <1>2, <2>1 DEF Write, Enqueue, Put, Turns, OneAtATime, SocketStays
<1>3. ASSUME UNCHANGED arbiter, \A p \in Thread : thr'[p].pc = "wire" => thr[p].pc = "wire",
             SocketStays'
      PROVE  Turns'
  BY <1>3 DEF Turns, OneAtATime, arbiter
<1>4. ASSUME NEW u \in Unit, Life(u) \/ JoinTimesOut(u)
      PROVE  Turns'
  <2>1. CASE Release(u)
    BY <1>3, <2>1, FreeCutsNobody DEF Release, GiveUp, Turns, SocketStays
  <2>2. CASE Open(u)
    BY <1>3, <2>2, FreeCutsNobody DEF Open, Turns
  <2>3. CASE Start(u)
    <3>1. PICK p \in Poller : Put(p, [thr[p] EXCEPT !.pc = "wait", !.conn = Cur(u), !.stop = FALSE])
      BY <2>3 DEF Start
    <3>2. [thr[p] EXCEPT !.pc = "wait", !.conn = Cur(u), !.stop = FALSE].pc = "wait"
      BY <1>0 DEF ThreadState, Thread
    <3>3. \A q \in Thread : thr'[q].pc = "wire" => thr[q].pc = "wire"
      BY <1>0, <3>1, <3>2 DEF Put
    <3> QED
      BY <1>3, <2>3, <3>3 DEF Start, Turns, SocketStays
  <2> QED
    BY <1>3, <1>4, <2>1, <2>2, <2>3 DEF Life, Join, JoinTimesOut, Joined, Make, Turns, SocketStays
<1>5. ASSUME NEW u \in Unit, NEW k \in Kind, Begin(u, k)
      PROVE  Turns'
  <2>1. \A p \in Thread : thr'[p].pc = thr[p].pc
    BY <1>0, <1>5 DEF Begin, StopAll, ThreadState
  <2> QED
    BY <1>3, <1>5, <2>1 DEF Begin, Turns, SocketStays
<1>6. CASE Outage \/ Back
  BY <1>3, <1>6 DEF Outage, Back, Turns, SocketStays
<1> QED
  BY <1>1, <1>2, <1>4, <1>5, <1>6 DEF Next

-----------------------------------------------------------------------------
(* The pollers of a unit. *)

(* A thread that goes on, told to stop or not as before, changes no list; nor *)
(* does one that ends.                                                       *)
LEMMA ListsOf ==
    ASSUME Lists, UNCHANGED <<list, op>>,
           \A p \in Poller : thr'[p].pc # "gone" /\ ~thr'[p].stop => thr[p].pc # "gone" /\ ~thr[p].stop
    PROVE  Lists'
<1>1. \A u \in Unit : Going(u)' \subseteq Going(u)
  BY DEF Going
<1> QED
  BY <1>1 DEF Lists

(* Every step keeps the lists: a new poller starts when the old ones have been told. *)
LEMMA ListsKept ==
    ASSUME Typed, Lists, Next
    PROVE  Lists'
<1>0. thr \in [Thread -> ThreadState] /\ Poller \subseteq Thread
  BY DEF Typed, ThreadState, Thread
<1>1. ASSUME NEW p \in Thread, NEW f, Put(p, f), thr[p].pc # "gone",
             f.stop = thr[p].stop \/ f.pc = "gone", UNCHANGED <<list, op>>
      PROVE  Lists'
  <2>1. \A q \in Poller : thr'[q] = IF q = p THEN f ELSE thr[q]
    BY <1>0, <1>1 DEF Put
  <2>2. \A q \in Poller : thr'[q].pc # "gone" /\ ~thr'[q].stop => thr[q].pc # "gone" /\ ~thr[q].stop
    BY <1>1, <2>1
  <2> QED
    BY <1>1, <2>2, ListsOf
<1>2. ASSUME NEW p \in Thread, Step(p) \/ MissTurn(p)
      PROVE  Lists'
  <2>0. /\ Idle(p).stop = thr[p].stop /\ Failed(p).stop = thr[p].stop
        /\ [thr[p] EXCEPT !.pc = "wire"].stop = thr[p].stop
        /\ [thr[p] EXCEPT !.pc = "gone", !.conn = None, !.stop = FALSE].pc = "gone"
    BY <1>0 DEF Idle, Failed, ThreadState
  <2>1. CASE Read(p) \/ Retry(p)
    <3>1. PICK c, l : Enqueue(p, c, l)
      BY <2>1 DEF Read, Retry
    <3>2. [thr[p] EXCEPT !.pc = "queued", !.conn = c, !.left = l].stop = thr[p].stop
      BY <1>0 DEF ThreadState
    <3> QED
      BY <1>1, <2>1, <3>1, <3>2 DEF Enqueue, Read, Retry, units
  <2>2. CASE TakeTurn(p)
    <3>1. PICK f : Put(p, f) /\ (f = [thr[p] EXCEPT !.pc = "wire"] \/ f = Failed(p))
      BY <2>2 DEF TakeTurn
    <3> QED
      BY <1>1, <2>0, <2>2, <3>1 DEF TakeTurn, units
  <2> QED
    BY <1>1, <1>2, <2>0, <2>1, <2>2
       DEF Step, MissTurn, Answered, NoAnswer, GiveUpRetry, BatchFailed, Leave, units
<1>3. ASSUME NEW u \in Unit, Write(u)
      PROVE  Lists'
  <2>1. [thr[Writer] EXCEPT !.pc = "queued", !.conn = Cur(u), !.left = 1].stop = thr[Writer].stop
    BY <1>0 DEF ThreadState, Thread
  <2> QED
    BY <1>1, <1>3, <2>1 DEF Write, Enqueue, Thread, units
<1>4. ASSUME UNCHANGED <<list, op, thr>>
      PROVE  Lists'
  BY <1>4, ListsOf
<1>5. ASSUME NEW u \in Unit, UNCHANGED <<list, thr>>, NEW at \in At \ {"join"}, op[u] # None,
             op[u].at # "join", op' = [op EXCEPT ![u].at = at] \/ op' = [op EXCEPT ![u] = None]
      PROVE  Lists'
  <2>1. \A v \in Unit : Going(v)' = Going(v)
    BY <1>5 DEF Going
  <2>2. \A v \in Unit : v # u => op'[v] = op[v]
    BY <1>5 DEF Typed
  <2>3. op'[u] # None => op'[u].at # "join"
    BY <1>5 DEF Typed
  <2> QED
    BY <1>5, <2>1, <2>2, <2>3 DEF Lists
<1>6. ASSUME NEW u \in Unit, Joined(u)
      PROVE  Lists'
  <2>1. \A v \in Unit : Going(v)' = Going(v)
    BY <1>6 DEF Joined, Going
  <2>2. \A v \in Unit : v # u => op'[v] = op[v] /\ list'[v] = list[v]
    BY <1>6 DEF Joined, Goto, Typed
  <2>3. op'[u].at # "join" /\ list'[u] = {} /\ Going(u) = {}
    BY <1>6 DEF Joined, Goto, Then, Typed, Lists
  <2> QED
    BY <2>1, <2>2, <2>3 DEF Lists
<1>7. ASSUME NEW u \in Unit, Start(u)
      PROVE  Lists'
  <2>1. PICK p \in Poller :
          /\ p[1] = u /\ thr[p].pc = "gone"
          /\ list' = [list EXCEPT ![u] = {p}]
          /\ Put(p, [thr[p] EXCEPT !.pc = "wait", !.conn = Cur(u), !.stop = FALSE])
    BY <1>7 DEF Start
  <2>2. \A q \in Poller : q # p => thr'[q] = thr[q]
    BY <1>0, <2>1 DEF Put
  <2>3. \A v \in Unit : v # u => Going(v)' = Going(v)
    BY <2>1, <2>2 DEF Going
  <2>4. Going(u) = {}
    BY <1>7 DEF Start, Lists
  <2>5. Going(u)' \subseteq {p}
    BY <2>2, <2>4 DEF Going
  <2>6. \A v \in Unit : v # u => op'[v] = op[v] /\ list'[v] = list[v]
    BY <1>7, <2>1 DEF Start, Typed
  <2>7. op'[u] = None /\ list'[u] = {p}
    BY <1>7, <2>1 DEF Start, Typed
  <2> QED
    BY <2>1, <2>3, <2>5, <2>6, <2>7 DEF Lists
<1>8. ASSUME NEW u \in Unit, NEW k \in Kind, Begin(u, k)
      PROVE  Lists'
  <2>1. \A q \in Thread :
          /\ thr'[q].pc = thr[q].pc
          /\ q \in list[u] => thr'[q].stop
          /\ q \notin list[u] => thr'[q] = thr[q]
    BY <1>0, <1>8 DEF Begin, StopAll, ThreadState
  <2>2. ASSUME NEW v \in Unit, NEW q \in Going(v)'
        PROVE  q \in Going(v) /\ q \notin list[u]
    <3>1. q \in Poller /\ q[1] = v /\ thr'[q].pc # "gone" /\ ~thr'[q].stop
      BY <2>2 DEF Going
    <3>2. q \notin list[u] /\ thr'[q] = thr[q]
      <4>1. q \in Thread
        BY <1>0, <3>1
      <4> QED
        BY <2>1, <3>1, <4>1
    <3> QED
      BY <3>1, <3>2 DEF Going
  <2>3. \A v \in Unit : v # u => op'[v] = op[v]
    BY <1>8 DEF Begin, Typed
  <2>4. op'[u].at = Entry(k)
    BY <1>8 DEF Begin, Typed
  <2>5. Entry(k) # "join" => list[u] = {}
    BY <1>8 DEF Begin, Alive, Entry
  <2>6. UNCHANGED list /\ Going(u)' = {}
    BY <1>8, <2>2 DEF Begin, Lists
  <2> QED
    BY <2>2, <2>3, <2>4, <2>5, <2>6 DEF Lists
<1>9. ASSUME NEW u \in Unit, Life(u) \/ JoinTimesOut(u)
      PROVE  Lists'
  <2>1. {"make", "open", "start"} \subseteq At \ {"join"}
    BY DEF At
  <2>2. CASE Release(u)
    <3>1. op[u] # None /\ op[u].at = "release" /\ UNCHANGED <<list, thr>>
      BY <2>2 DEF Release
    <3>2. op' = [op EXCEPT ![u].at = "make"] \/ op' = [op EXCEPT ![u] = None]
      BY <2>2 DEF Release
    <3>3. CASE op' = [op EXCEPT ![u].at = "make"]
      BY <1>5, <2>1, <3>1, <3>3
    <3>4. CASE op' = [op EXCEPT ![u] = None]
      BY <1>5, <2>1, <3>1, <3>4
    <3> QED
      BY <3>2, <3>3, <3>4
  <2>3. CASE Make(u)
    <3>1. op[u] # None /\ op[u].at = "make" /\ UNCHANGED <<list, thr>> /\ op' = [op EXCEPT ![u].at = "open"]
      BY <2>3 DEF Make, Goto
    <3> QED
      BY <1>5, <2>1, <3>1
  <2>4. CASE Open(u)
    <3>1. op[u] # None /\ op[u].at = "open" /\ UNCHANGED <<list, thr>> /\ op' = [op EXCEPT ![u].at = "start"]
      BY <2>4 DEF Open, Goto
    <3> QED
      BY <1>5, <2>1, <3>1
  <2> QED
    BY <1>6, <1>7, <1>9, <2>2, <2>3, <2>4 DEF Life, Join, JoinTimesOut
<1>10. CASE Outage \/ Back
  BY <1>4, <1>10 DEF Outage, Back, units
<1> QED
  BY <1>2, <1>3, <1>8, <1>9, <1>10 DEF Next

-----------------------------------------------------------------------------
(* The operations counted. *)

Makers == {u \in Unit : Making(u)}

(* The units that are making a connection can be counted. *)
LEMMA MakersFinite == IsFiniteSet(Makers) /\ Cardinality(Makers) \in Nat
BY FS_Subset, FS_CardinalityType, WireAssumption DEF Makers

(* A step that starts no making keeps the count: one of no unit, and one of u. *)
LEMMA CountsSame ==
    ASSUME Typed, Counts, UNCHANGED <<gen, made, op>>, troubles' = troubles \/ troubles' = troubles + 1
    PROVE  Counts'
<1>1. /\ made \in Int /\ troubles \in Int /\ \A u \in Unit : gen[u] \in Int
      /\ Cardinality(Makers) \in Nat
  BY MakersFinite, WireAssumption DEF Typed, Transport, Generation
<1>2. \A u \in Unit : Making(u)' = Making(u)
  BY DEF Making
<1>3. Makers' = Makers
  BY <1>2 DEF Makers
<1>4. made' + Cardinality(Makers') <= troubles' + 1
  <2>1. made + Cardinality(Makers) <= troubles + 1
    BY DEF Counts, Makers
  <2> QED
    BY <1>1, <1>3, <2>1
<1>5. ASSUME NEW u \in Unit
      PROVE  gen'[u] + (IF Making(u)' THEN 1 ELSE 0) <= troubles'
  BY <1>1, <1>2 DEF Counts
<1> QED
  BY <1>2, <1>4, <1>5 DEF Counts, Makers

(* The same for an operation that goes on: it makes nothing it was not to make. *)
LEMMA CountsOf ==
    ASSUME Typed, Counts, UNCHANGED <<gen, made>>, troubles' = troubles \/ troubles' = troubles + 1,
           NEW u \in Unit, \A v \in Unit : v # u => op'[v] = op[v],
           Making(u)' => Making(u),
           op'[u] # None => /\ op'[u].at = "make" => Making(u)'
                            /\ op'[u].at = "release" => op'[u].kind = "stop" \/ Making(u)'
                            /\ op'[u].at # "join"
    PROVE  Counts'
<1>1. \A v \in Unit : Making(v)' => Making(v)
  BY DEF Making
<1>2. Makers' \subseteq Makers
  BY <1>1 DEF Makers
<1>3. Cardinality(Makers') <= Cardinality(Makers) /\ Cardinality(Makers') \in Nat
  BY <1>2, MakersFinite, FS_Subset, FS_CardinalityType
<1>4. made \in Int /\ troubles \in Int /\ \A v \in Unit : gen[v] \in Int
  BY WireAssumption DEF Typed, Transport, Generation
<1>5. made' + Cardinality(Makers') <= troubles' + 1
  BY <1>3, <1>4, MakersFinite DEF Counts, Makers
<1>6. ASSUME NEW v \in Unit
      PROVE  gen'[v] + (IF Making(v)' THEN 1 ELSE 0) <= troubles'
  <2>1. gen[v] + (IF Making(v) THEN 1 ELSE 0) <= troubles
    BY DEF Counts
  <2> QED
    BY <1>1, <1>4, <2>1
<1>7. ASSUME NEW v \in Unit, op'[v] # None
      PROVE  /\ op'[v].at = "make" => Making(v)'
             /\ op'[v].at = "release" => op'[v].kind = "stop" \/ Making(v)'
             /\ op'[v].at = "join" => op'[v].kind # "resume"
  BY <1>7 DEF Counts, Making
<1> QED
  BY <1>5, <1>6, <1>7 DEF Counts, Makers

(* Every step keeps the count: an operation that makes a connection cost a trouble. *)
LEMMA CountsKept ==
    ASSUME Typed, Typed', Counts, Next
    PROVE  Counts'
<1>0. /\ troubles \in Nat /\ made \in Nat
      /\ op \in [Unit -> [kind : Kind, at : At] \cup {None}] /\ None \notin [kind : Kind, at : At]
  BY WireAssumption DEF Typed, Transport
<1>1. ASSUME UNCHANGED <<gen, made, op>>, troubles' = troubles \/ troubles' = troubles + 1
      PROVE  Counts'
  BY <1>1, CountsSame
<1>2. ASSUME NEW p \in Thread, Step(p) \/ MissTurn(p)
      PROVE  Counts'
  BY <1>1, <1>2 DEF Step, Read, Leave, TakeTurn, Answered, NoAnswer, Retry, GiveUpRetry, BatchFailed,
                    MissTurn, Trouble, Enqueue, transports, units
<1>3. ASSUME NEW u \in Unit, Write(u)
      PROVE  Counts'
  BY <1>1, <1>3 DEF Write, Enqueue, transports, units
<1>4. ASSUME NEW u \in Unit, Joined(u), troubles' = troubles \/ troubles' = troubles + 1
      PROVE  Counts'
  <2>1. /\ \A v \in Unit : v # u => op'[v] = op[v]
        /\ op'[u].kind = op[u].kind /\ op'[u].at = Then(op[u].kind)
    BY <1>0, <1>4 DEF Joined, Goto
  <2>2. op[u].kind \in Kind /\ op[u].at = "join" /\ op[u] # None
    BY <1>0, <1>4 DEF Joined
  <2>3. Making(u)' => Making(u)
    BY <2>1, <2>2 DEF Making
  <2>4. op'[u].at # "make" /\ op'[u].at # "join"
    BY <2>1 DEF Then
  <2>5. op'[u] # None /\ op'[u].at = "release" => op'[u].kind = "stop" \/ Making(u)'
    BY <2>1, <2>2 DEF Then, Making, Kind, Counts
  <2> QED
    BY <1>4, <2>1, <2>3, <2>4, <2>5, CountsOf DEF Joined, transports
<1>5. ASSUME NEW u \in Unit, Release(u)
      PROVE  Counts'
  <2>1. /\ \A v \in Unit : v # u => op'[v] = op[v]
        /\ op'[u] # None => op[u].kind # "stop" /\ op'[u].kind = op[u].kind /\ op'[u].at = "make"
    BY <1>0, <1>5 DEF Release
  <2>2. op[u].at = "release" /\ op[u] # None
    BY <1>5 DEF Release
  <2>3. op'[u] # None => Making(u)' /\ Making(u)
    BY <2>1, <2>2 DEF Making, Counts
  <2>4. Making(u)' => Making(u)
    BY <2>3 DEF Making
  <2> QED
    BY <1>0, <1>5, <2>1, <2>3, <2>4, CountsOf DEF Release
<1>6. ASSUME NEW u \in Unit, Make(u)
      PROVE  Counts'
  <2>1. /\ \A v \in Unit : v # u => op'[v] = op[v] /\ gen'[v] = gen[v]
        /\ op'[u].at = "open" /\ gen'[u] = gen[u] + 1 /\ troubles' = troubles
    BY <1>0, <1>6 DEF Make, Goto, Typed
  <2>2. made' = made \/ made' = made + 1
    BY <1>6 DEF Make, Claim
  <2>3. Making(u) /\ ~Making(u)'
    BY <1>6, <2>1 DEF Make, Counts, Making
  <2>4. \A v \in Unit : v # u => Making(v)' = Making(v)
    BY <2>1 DEF Making
  <2>5. Makers' = Makers \ {u} /\ u \in Makers
    BY <2>3, <2>4 DEF Makers
  <2>6. Cardinality(Makers') = Cardinality(Makers) - 1
    BY <2>5, MakersFinite, FS_RemoveElement
  <2>7. made' + Cardinality(Makers') <= troubles' + 1
    BY <1>0, <2>1, <2>2, <2>6, MakersFinite DEF Counts, Makers
  <2>8. \A v \in Unit : gen[v] \in Nat
    BY DEF Typed, Generation
  <2>9. ASSUME NEW v \in Unit
        PROVE  gen'[v] + (IF Making(v)' THEN 1 ELSE 0) <= troubles'
    <3>1. gen[v] + (IF Making(v) THEN 1 ELSE 0) <= troubles
      BY DEF Counts
    <3> QED
      BY <1>0, <2>1, <2>3, <2>4, <2>8, <3>1
  <2> QED
    BY <2>1, <2>4, <2>7, <2>9 DEF Counts, Makers
<1>7. ASSUME NEW u \in Unit, Open(u)
      PROVE  Counts'
  <2>1. /\ \A v \in Unit : v # u => op'[v] = op[v]
        /\ op'[u].at = "open" \/ op'[u].at = "start"
    BY <1>0, <1>7 DEF Open, Goto
  <2>2. ~Making(u)'
    BY <2>1 DEF Making
  <2> QED
    BY <1>0, <1>7, <2>1, <2>2, CountsOf DEF Open
<1>8. ASSUME NEW u \in Unit, Start(u)
      PROVE  Counts'
  <2>1. /\ \A v \in Unit : v # u => op'[v] = op[v]
        /\ op'[u] = None
    BY <1>0, <1>8 DEF Start
  <2>2. ~Making(u)'
    BY <2>1 DEF Making
  <2> QED
    BY <1>0, <1>8, <2>1, <2>2, CountsOf DEF Start, transports
<1>9. ASSUME NEW u \in Unit, NEW k \in Kind, Begin(u, k)
      PROVE  Counts'
  <2>1. /\ \A v \in Unit : v # u => op'[v] = op[v]
        /\ op'[u].kind = k /\ op'[u].at = Entry(k)
        /\ op'[u] # None /\ op[u] = None
    <3>1. [kind |-> k, at |-> Entry(k)] \in [kind : Kind, at : At]
      BY DEF At, Entry
    <3> QED
      BY <1>0, <1>9, <3>1 DEF Begin
  <2>2. UNCHANGED <<gen, made>> /\ troubles' = troubles + 1
    BY <1>9 DEF Begin, Trouble, transports
  <2>3. ~Making(u)
    BY <2>1 DEF Making
  <2>4. \A v \in Unit : v # u => Making(v)' = Making(v)
    BY <2>1 DEF Making
  <2>5. Makers' = Makers \/ Makers' = Makers \cup {u}
    BY <2>3, <2>4 DEF Makers
  <2>6. Cardinality(Makers') <= Cardinality(Makers) + 1 /\ Cardinality(Makers') \in Nat
    <3>1. u \notin Makers
      BY <2>3 DEF Makers
    <3>2. Cardinality(Makers \cup {u}) = Cardinality(Makers) + 1
      BY <3>1, MakersFinite, FS_AddElement
    <3>3. CASE Makers' = Makers
      BY <3>3, MakersFinite
    <3>4. CASE Makers' = Makers \cup {u}
      BY <3>2, <3>4, MakersFinite
    <3> QED
      BY <2>5, <3>3, <3>4
  <2>7. made' + Cardinality(Makers') <= troubles' + 1
    BY <1>0, <2>2, <2>6, MakersFinite DEF Counts, Makers
  <2>8. \A v \in Unit : gen[v] \in Nat
    BY DEF Typed, Generation
  <2>9. ASSUME NEW v \in Unit
        PROVE  gen'[v] + (IF Making(v)' THEN 1 ELSE 0) <= troubles'
    <3>1. gen[v] + (IF Making(v) THEN 1 ELSE 0) <= troubles
      BY DEF Counts
    <3> QED
      BY <1>0, <2>2, <2>3, <2>4, <2>8, <3>1
  <2>10. /\ Entry(k) = "make" => Making(u)'
         /\ Entry(k) # "release" /\ (Entry(k) = "join" => k # "resume")
    BY <2>1 DEF Making, Entry
  <2> QED
    BY <2>1, <2>4, <2>7, <2>9, <2>10 DEF Counts, Makers
<1>10. CASE Outage \/ Back
  BY <1>1, <1>10 DEF Outage, Back, Trouble, transports, units
<1>11. ASSUME NEW u \in Unit, Join(u) \/ JoinTimesOut(u)
       PROVE  Counts'
  BY <1>0, <1>4, <1>11 DEF Join, JoinTimesOut, Trouble
<1> QED
  BY <1>2, <1>3, <1>5, <1>6, <1>7, <1>8, <1>9, <1>10, <1>11 DEF Next, Life

-----------------------------------------------------------------------------
(* The claims on the access point's transport. *)

(* The units that use a transport; none has resumed onto any. *)
Holders(t) == {u \in Unit : Holds(u) /\ on[Cur(u)] = t}
NoneResumed == \A t \in Transport : resumed[t] = 0

(* The units that use a transport can be counted. *)
LEMMA HoldersFinite ==
    ASSUME NEW t
    PROVE  IsFiniteSet(Holders(t)) /\ Cardinality(Holders(t)) \in Nat
BY FS_Subset, FS_CardinalityType, WireAssumption DEF Holders

(* The claims, over the units that use a transport. *)
LEMMA ClaimsIs ==
    Claims <=> /\ \A t \in Transport : tp[t].users = Cardinality(Holders(t)) - resumed[t]
               /\ NoneResumed => \A u \in Unit : Holds(u) => on[Cur(u)] = registry /\ registry # 0
               /\ \A u \in Unit : on[Cur(u)] \in Transport
BY DEF Claims, ClaimsCounted, Holders, NoneResumed

(* So after a step. *)
LEMMA ClaimsNext ==
    ASSUME \A t \in Transport : tp'[t].users = Cardinality(Holders(t)') - resumed'[t],
           NoneResumed' => \A u \in Unit : Holds(u)' => on'[Cur(u)'] = registry' /\ registry' # 0,
           \A u \in Unit : on'[Cur(u)'] \in Transport
    PROVE  Claims'
BY DEF Claims, ClaimsCounted, Holders, NoneResumed

(* What changes neither connections nor who uses them keeps the claims. *)
LEMMA ClaimsOf ==
    ASSUME Typed, Claims, UNCHANGED <<registry, on, gen, resumed>>,
           \A t \in Transport : tp'[t].users = tp[t].users,
           \A u \in Unit : Holds(u)' <=> Holds(u)
    PROVE  Claims'
<1>1. \A u \in Unit : Cur(u)' = Cur(u)
  BY DEF Cur
<1>2. \A t \in Transport : Holders(t)' = Holders(t)
  BY <1>1 DEF Holders
<1> QED
  BY <1>1, <1>2, ClaimsIs, ClaimsNext DEF NoneResumed

(* One unit goes away: its claim alone ends, and the socket with the last one. *)
LEMMA ReleaseClaims ==
    ASSUME Typed, Lists, Claims, NEW u \in Unit, Release(u)
    PROVE  Claims'
<1> DEFINE r == on[Cur(u)]
<1>0. op[u] # None /\ op[u].at = "release" /\ list[u] = {}
  BY DEF Release, Lists
<1>1. Holds(u) /\ r \in Transport
  BY <1>0, CurHasTransport DEF Holds
<1>2. GiveUp(r)
  BY DEF Release
<1>3. op'[u] = None \/ op'[u].at = "make"
  BY <1>0 DEF Release, Typed
<1>4. ~Holds(u)'
  <2>1. list'[u] = {}
    BY <1>0 DEF Release
  <2> QED
    BY <1>3, <2>1 DEF Holds
<1>5. \A v \in Unit : v # u => (Holds(v)' <=> Holds(v))
  <2>1. \A v \in Unit : v # u => op'[v] = op[v]
    BY DEF Release, Typed
  <2>2. UNCHANGED list
    BY DEF Release
  <2> QED
    BY <2>1, <2>2 DEF Holds
<1>6. UNCHANGED <<on, gen, resumed>> /\ \A v \in Unit : Cur(v)' = Cur(v)
  BY DEF Release, Cur
<1>7. /\ tp'[r].users = tp[r].users - 1
      /\ \A t \in Transport : t # r => tp'[t] = tp[t]
  <2>1. tp[r] \in TransportState /\ tp \in [Transport -> TransportState]
    BY <1>1 DEF Typed, TransportState
  <2> HIDE DEF r
  <2> QED
    BY <1>1, <1>2, <2>1 DEF GiveUp, Closed, TransportState
<1>8. /\ \A t \in Transport : tp[t].users = Cardinality(Holders(t)) - resumed[t]
      /\ \A t \in Transport : resumed[t] \in Nat
      /\ u \in Holders(r)
  BY <1>1, ClaimsIs DEF Holders, Typed
<1>9. Cardinality(Holders(r) \ {u}) = Cardinality(Holders(r)) - 1
  BY <1>8, HoldersFinite, FS_RemoveElement
<1>10. \A t \in Transport : Holders(t)' = Holders(t) \ {u}
  BY <1>4, <1>5, <1>6 DEF Holders
<1>11. ASSUME NEW t \in Transport
       PROVE  tp'[t].users = Cardinality(Holders(t)') - resumed'[t]
  <2>1. CASE t = r
    BY <1>1, <1>6, <1>7, <1>8, <1>9, <1>10, <2>1, HoldersFinite
  <2>2. CASE t # r
    <3>1. u \notin Holders(t)
      BY <2>2 DEF Holders
    <3>2. Holders(t)' = Holders(t)
      BY <1>10, <3>1
    <3> QED
      BY <1>6, <1>7, <1>8, <2>2, <3>2
  <2> QED
    BY <2>1, <2>2
<1>12. ASSUME NoneResumed', NEW v \in Unit, Holds(v)'
       PROVE  on'[Cur(v)'] = registry' /\ registry' # 0
  <2>1. NoneResumed
    BY <1>6, <1>12 DEF NoneResumed
  <2>2. v # u /\ Holds(v)
    BY <1>4, <1>5, <1>12
  <2>3. on[Cur(v)] = registry /\ registry # 0 /\ r = registry
    BY <1>1, <2>1, <2>2, ClaimsIs
  <2>4. v \in Holders(r) \ {u}
    BY <2>2, <2>3 DEF Holders
  <2>5. IsFiniteSet(Holders(r) \ {u})
    BY HoldersFinite, FS_Subset
  <2>6. Cardinality(Holders(r) \ {u}) # 0 /\ Cardinality(Holders(r) \ {u}) \in Nat
    BY <2>4, <2>5, FS_EmptySet, FS_CardinalityType
  <2>7. tp[r].users = Cardinality(Holders(r))
    <3>1. resumed[r] = 0 /\ tp[r].users = Cardinality(Holders(r)) - resumed[r]
      BY <1>1, <1>8, <2>1 DEF NoneResumed
    <3> HIDE DEF r
    <3> QED
      BY <3>1, HoldersFinite
  <2>8. ~(tp[r].users <= 1)
    BY <1>9, <2>6, <2>7, HoldersFinite
  <2>9. registry' = registry
    BY <1>2, <2>8 DEF GiveUp, LastUser
  <2> QED
    BY <1>6, <2>3, <2>9
<1>13. \A v \in Unit : on'[Cur(v)'] \in Transport
  BY <1>6, CurHasTransport
<1> QED
  BY <1>11, <1>12, <1>13, ClaimsNext

(* One unit comes: it claims the transport that the others have, or a new one. *)
LEMMA MakeClaims ==
    ASSUME Typed, Counts, Claims, NEW u \in Unit, Make(u)
    PROVE  Claims'
<1> DEFINE t0 == IF registry = 0 THEN made + 1 ELSE registry
           c0 == <<u, gen[u] + 1>>
<1>0. op[u] # None /\ op[u].at = "make" /\ Claim(c0) /\ UNCHANGED resumed
  BY DEF Make
<1>1. gen[u] + 1 \in Generation /\ made + 1 \in Transport
  BY <1>0, RoomToMake DEF Counts
<1>2. t0 \in Transport /\ t0 # 0 /\ c0 \in Conn
  BY <1>1 DEF Typed, Transport, Conn
<1>3. /\ registry' = t0 /\ tp' = [tp EXCEPT ![t0].users = @ + 1]
      /\ on' = [on EXCEPT ![c0] = t0]
  BY <1>0 DEF Claim
<1>4. /\ Cur(u)' = c0
      /\ \A v \in Unit : v # u => Cur(v)' = Cur(v) /\ Cur(v) # c0 /\ Cur(v) \in Conn
  BY CurTyped DEF Make, Cur, Typed
<1>5. on'[c0] = t0 /\ \A v \in Unit : v # u => on'[Cur(v)'] = on[Cur(v)]
  <2> HIDE DEF t0, c0
  <2> QED
    BY <1>2, <1>3, <1>4 DEF Typed
<1>6. ~Holds(u)
  BY <1>0 DEF Holds
<1>7. Holds(u)'
  <2>1. op'[u] \in [kind : Kind, at : At] /\ op'[u].at = "open"
    BY <1>0 DEF Make, Goto, Typed, At
  <2> QED
    BY <2>1, WireAssumption DEF Holds
<1>8. \A v \in Unit : v # u => (Holds(v)' <=> Holds(v))
  <2>1. \A v \in Unit : v # u => op'[v] = op[v]
    BY DEF Make, Goto, Typed
  <2>2. UNCHANGED list
    BY DEF Make
  <2> QED
    BY <2>1, <2>2 DEF Holds
<1>9. /\ tp'[t0].users = tp[t0].users + 1
      /\ \A t \in Transport : t # t0 => tp'[t] = tp[t]
  <2>1. tp[t0] \in TransportState /\ tp \in [Transport -> TransportState]
    BY <1>2 DEF Typed, TransportState
  <2> HIDE DEF t0
  <2> QED
    BY <1>2, <1>3, <2>1 DEF TransportState
<1>10. NoneResumed => \A v \in Unit : Holds(v) => on[Cur(v)] = t0
  BY ClaimsIs
<1> HIDE DEF t0, c0
<1>11. ASSUME NEW t \in Transport
       PROVE  tp'[t].users = Cardinality(Holders(t)') - resumed'[t]
  <2>1. /\ tp[t].users = Cardinality(Holders(t)) - resumed[t] /\ u \notin Holders(t)
        /\ resumed[t] \in Nat
    BY <1>6, ClaimsIs DEF Holders, Typed
  <2>2. CASE t = t0
    <3>1. Holders(t)' = Holders(t) \cup {u}
      BY <1>4, <1>5, <1>7, <1>8, <2>2 DEF Holders
    <3>2. Cardinality(Holders(t) \cup {u}) = Cardinality(Holders(t)) + 1
      BY <2>1, HoldersFinite, FS_AddElement
    <3> QED
      BY <1>0, <1>9, <2>1, <2>2, <3>1, <3>2, HoldersFinite
  <2>3. CASE t # t0
    <3>1. Holders(t)' = Holders(t)
      BY <1>4, <1>5, <1>6, <1>8, <2>3 DEF Holders
    <3> QED
      BY <1>0, <1>9, <2>1, <2>3, <3>1
  <2> QED
    BY <2>2, <2>3
<1>12. ASSUME NoneResumed', NEW v \in Unit, Holds(v)'
       PROVE  on'[Cur(v)'] = registry' /\ registry' # 0
  <2>1. NoneResumed
    BY <1>0, <1>12 DEF NoneResumed
  <2> QED
    BY <1>2, <1>3, <1>4, <1>5, <1>8, <1>10, <1>12, <2>1
<1>13. \A v \in Unit : on'[Cur(v)'] \in Transport
  BY <1>2, <1>4, <1>5, CurHasTransport
<1> QED
  BY <1>11, <1>12, <1>13, ClaimsNext

(* One unit resumes: it uses its old transport again, and claims nothing. *)
LEMMA ResumeClaims ==
    ASSUME Typed, Claims, NEW u \in Unit, Begin(u, "resume")
    PROVE  Claims'
<1> DEFINE r == on[Cur(u)]
<1>1. /\ op[u] = None /\ list[u] = {} /\ r \in Transport
      /\ op' = [op EXCEPT ![u] = [kind |-> "resume", at |-> "open"]]
      /\ resumed' = [resumed EXCEPT ![r] = @ + 1]
      /\ UNCHANGED <<tp, registry, on, gen, list>>
  BY CurHasTransport DEF Begin, Alive, Entry, transports
<1>2. \A v \in Unit : Cur(v)' = Cur(v)
  BY <1>1 DEF Cur
<1>3. ~Holds(u)
  BY <1>1 DEF Holds
<1>4. Holds(u)' /\ \A v \in Unit : v # u => (Holds(v)' <=> Holds(v))
  <2>1. op'[u] = [kind |-> "resume", at |-> "open"] /\ \A v \in Unit : v # u => op'[v] = op[v]
    BY <1>1 DEF Typed
  <2>2. op'[u] # None
    BY <2>1, WireAssumption DEF Kind, At
  <2> QED
    BY <1>1, <2>1, <2>2 DEF Holds
<1>5. /\ resumed'[r] = resumed[r] + 1 /\ resumed[r] \in Nat
      /\ \A t \in Transport : t # r => resumed'[t] = resumed[t]
  <2> HIDE DEF r
  <2> QED
    BY <1>1 DEF Typed
<1>6. ASSUME NEW t \in Transport
      PROVE  tp'[t].users = Cardinality(Holders(t)') - resumed'[t]
  <2>1. tp[t].users = Cardinality(Holders(t)) - resumed[t] /\ u \notin Holders(t)
    BY <1>3, ClaimsIs DEF Holders
  <2>2. CASE t = r
    <3>1. Holders(t)' = Holders(t) \cup {u}
      BY <1>1, <1>2, <1>4, <2>2 DEF Holders
    <3>2. Cardinality(Holders(t) \cup {u}) = Cardinality(Holders(t)) + 1
      BY <2>1, HoldersFinite, FS_AddElement
    <3> HIDE DEF r
    <3> QED
      BY <1>1, <1>5, <2>1, <2>2, <3>1, <3>2, HoldersFinite
  <2>3. CASE t # r
    <3>1. Holders(t)' = Holders(t)
      BY <1>1, <1>2, <1>3, <1>4, <2>3 DEF Holders
    <3> QED
      BY <1>1, <1>5, <2>1, <2>3, <3>1
  <2> QED
    BY <2>2, <2>3
<1>7. ~NoneResumed'
  BY <1>1, <1>5 DEF NoneResumed
<1>8. \A v \in Unit : on'[Cur(v)'] \in Transport
  BY <1>1, <1>2, CurHasTransport
<1> QED
  BY <1>6, <1>7, <1>8, ClaimsNext

(* Every step keeps the claims. *)
LEMMA ClaimsKept ==
    ASSUME Typed, Attempts, Lists, Counts, Claims, Next
    PROVE  Claims'
<1>0. op \in [Unit -> [kind : Kind, at : At] \cup {None}] /\ None \notin [kind : Kind, at : At]
  BY WireAssumption DEF Typed
<1>1. ASSUME UNCHANGED <<registry, on, resumed, units>>, \A t \in Transport : tp'[t].users = tp[t].users
      PROVE  Claims'
  <2>1. \A u \in Unit : Holds(u)' <=> Holds(u)
    BY <1>1 DEF Holds, units
  <2> QED
    BY <1>1, <2>1, ClaimsOf DEF units
<1>2. ASSUME NEW t \in Transport, NEW now \in {Closed(t), Opened(t), tp[t]}, tp' = [tp EXCEPT ![t] = now]
      PROVE  \A x \in Transport : tp'[x].users = tp[x].users
  <2>1. now.users = tp[t].users
    BY DEF Closed, Opened
  <2> QED
    BY <1>2, <2>1 DEF Typed
<1>3. ASSUME NEW p \in Thread, Step(p) \/ MissTurn(p)
      PROVE  Claims'
  <2>0. thr[p].pc \notin {"gone", "wait"} => T(p) \in Transport
    BY DEF Attempts, Equipped, T
  <2>1. CASE TakeTurn(p)
    <3>1. PICK now \in Ensured(T(p)) : tp' = [tp EXCEPT ![T(p)] = now]
      BY <2>1 DEF TakeTurn
    <3>2. now \in {Closed(T(p)), Opened(T(p)), tp[T(p)]}
      BY DEF Ensured, Reopened
    <3>3. \A x \in Transport : tp'[x].users = tp[x].users
      BY <1>2, <2>0, <2>1, <3>1, <3>2 DEF TakeTurn
    <3> QED
      BY <1>1, <2>1, <3>3 DEF TakeTurn
  <2>2. ASSUME NEW broken \in BOOLEAN, NoAnswer(p, broken)
        PROVE  Claims'
    <3>1. \A x \in Transport : tp'[x].users = tp[x].users
      BY <2>0, <2>2 DEF NoAnswer, Typed
    <3> QED
      BY <1>1, <2>2, <3>1 DEF NoAnswer
  <2>3. CASE BatchFailed(p)
    <3>1. tp' = tp \/ tp' = [tp EXCEPT ![T(p)] = Closed(T(p))]
      BY <2>3 DEF BatchFailed
    <3>2. \A x \in Transport : tp'[x].users = tp[x].users
      BY <1>2, <2>0, <2>3, <3>1 DEF BatchFailed
    <3> QED
      BY <1>1, <2>3, <3>2 DEF BatchFailed
  <2> QED
    BY <1>1, <1>3, <2>1, <2>2, <2>3
       DEF Step, Read, Leave, Answered, Retry, GiveUpRetry, MissTurn, Enqueue, transports
<1>4. ASSUME NEW u \in Unit, Write(u)
      PROVE  Claims'
  BY <1>1, <1>4 DEF Write, Enqueue, transports
<1>5. ASSUME NEW u \in Unit, \A v \in Unit : v # u => op'[v] = op[v] /\ list'[v] = list[v],
             Holds(u)' <=> Holds(u), UNCHANGED <<registry, on, gen, resumed>>,
             \A t \in Transport : tp'[t].users = tp[t].users
      PROVE  Claims'
  <2>1. \A v \in Unit : Holds(v)' <=> Holds(v)
    BY <1>5 DEF Holds
  <2> QED
    BY <1>5, <2>1, ClaimsOf
<1>6. ASSUME NEW u \in Unit, Joined(u)
      PROVE  Claims'
  <2>1. op[u] # None /\ op[u].at = "join" /\ op' = [op EXCEPT ![u].at = Then(op[u].kind)]
    BY <1>6 DEF Joined, Goto
  <2>2. Then(op[u].kind) \in At \ {"make"}
    BY DEF Then, At
  <2>3. op'[u] # None /\ op'[u].at # "make"
    BY <1>0, <2>1, <2>2
  <2>4. Holds(u) /\ Holds(u)'
    BY <2>1, <2>3 DEF Holds
  <2>5. \A v \in Unit : v # u => op'[v] = op[v] /\ list'[v] = list[v]
    BY <1>0, <1>6, <2>1 DEF Joined, Typed
  <2> QED
    BY <1>5, <1>6, <2>4, <2>5 DEF Joined, transports
<1>7. ASSUME NEW u \in Unit, Open(u)
      PROVE  Claims'
  <2>1. op[u] # None /\ op[u].at = "open" /\ op' = [op EXCEPT ![u].at = "start"]
    BY <1>7 DEF Open, Goto
  <2>2. op'[u] # None /\ op'[u].at # "make"
    BY <1>0, <2>1 DEF At
  <2>3. Holds(u) /\ Holds(u)'
    BY <2>1, <2>2 DEF Holds
  <2>4. \A v \in Unit : v # u => op'[v] = op[v] /\ list'[v] = list[v]
    BY <1>0, <1>7, <2>1 DEF Open
  <2>5. on[Cur(u)] \in Transport
    BY CurHasTransport
  <2>6. PICK now \in Reopened(on[Cur(u)]) : tp' = [tp EXCEPT ![on[Cur(u)]] = now]
    BY <1>7 DEF Open
  <2>7. \A t \in Transport : tp'[t].users = tp[t].users
    BY <1>2, <2>5, <2>6 DEF Reopened
  <2> QED
    BY <1>5, <1>7, <2>3, <2>4, <2>7 DEF Open
<1>8. ASSUME NEW u \in Unit, Start(u)
      PROVE  Claims'
  <2>1. op[u] # None /\ op[u].at = "start" /\ op' = [op EXCEPT ![u] = None]
    BY <1>8 DEF Start
  <2>2. PICK p \in Poller : list' = [list EXCEPT ![u] = {p}]
    BY <1>8 DEF Start
  <2>3. Holds(u) /\ Holds(u)'
    BY <1>0, <2>1, <2>2 DEF Holds, Typed
  <2>4. \A v \in Unit : v # u => op'[v] = op[v] /\ list'[v] = list[v]
    BY <1>0, <2>1, <2>2 DEF Typed
  <2> QED
    BY <1>5, <1>8, <2>3, <2>4 DEF Start, transports
<1>9. ASSUME NEW u \in Unit, NEW k \in Kind \ {"resume"}, Begin(u, k)
      PROVE  Claims'
  <2>1. /\ op[u] = None /\ UNCHANGED <<list, resumed>>
        /\ list[u] # {} <=> k # "add"
        /\ op' = [op EXCEPT ![u] = [kind |-> k, at |-> IF k = "add" THEN "make" ELSE "join"]]
    BY <1>9 DEF Begin, Alive, Entry
  <2>2. op'[u].at = IF k = "add" THEN "make" ELSE "join"
    BY <1>0, <2>1
  <2>3. Holds(u)' <=> Holds(u)
    BY <2>1, <2>2 DEF Holds
  <2>4. \A v \in Unit : v # u => op'[v] = op[v] /\ list'[v] = list[v]
    BY <1>0, <2>1
  <2> QED
    BY <1>5, <1>9, <2>3, <2>4 DEF Begin, transports
<1>10. ASSUME NEW u \in Unit, Life(u) \/ JoinTimesOut(u)
       PROVE  Claims'
  BY <1>6, <1>7, <1>8, <1>10, ReleaseClaims, MakeClaims DEF Life, Join, JoinTimesOut
<1>11. CASE Outage \/ Back
  BY <1>1, <1>11 DEF Outage, Back, transports
<1> QED
  BY <1>3, <1>4, <1>9, <1>10, <1>11, ResumeClaims DEF Next

-----------------------------------------------------------------------------
(* The invariant: every unit starts with a claim on the first transport. *)

LEMMA InitInvariant ==
    ASSUME Init
    PROVE  IInv
<1>1. Typed
  <2>1. tp \in [Transport -> TransportState]
    <3>1. Cardinality(Unit) \in Nat
      BY FS_CardinalityType, WireAssumption
    <3> QED
      BY <3>1 DEF Init, TransportState
  <2>2. thr \in [Thread -> ThreadState]
    BY WireAssumption DEF Init, ThreadState, Pc
  <2>3. op \in [Unit -> [kind : Kind, at : At] \cup {None}]
    BY DEF Init, Kind, At
  <2>4. 1 \in Transport /\ 0 \in Generation /\ 0 \in 0 .. WedgedAt /\ 0 \in 0 .. MaxTroubles
    BY WireAssumption DEF Transport, Generation
  <2> QED
    BY <2>1, <2>2, <2>3, <2>4 DEF Init, Typed, ThreadState, TransportState
<1>2. \A p \in Thread : thr[p].pc = IF p = Writer THEN "wait" ELSE "gone"
  BY DEF Init
<1>3. Attempts
  BY <1>2 DEF Attempts, Equipped
<1>4. Turns
  BY <1>2 DEF Init, Turns, OneAtATime, SocketStays
<1>5. /\ \A u \in Unit : op[u].kind = "reload" /\ op[u].at = "start" /\ list[u] = {} /\ gen[u] = 0
      /\ made = 1 /\ registry = 1 /\ troubles = 0
  BY DEF Init
<1>6. Lists
  <2>1. \A u \in Unit : Going(u) = {}
    BY <1>2, WireAssumption DEF Going, Poller, Thread
  <2> QED
    BY <1>5, <2>1 DEF Lists
<1>7. Counts
  <2>1. \A u \in Unit : ~Making(u)
    BY <1>5 DEF Making
  <2>2. {u \in Unit : Making(u)} = {}
    BY <2>1
  <2>3. Cardinality({u \in Unit : Making(u)}) = 0
    BY <2>2, FS_EmptySet
  <2> QED
    BY <1>5, <2>1, <2>3 DEF Counts
<1>8. Claims
  <2>1. \A u \in Unit : op[u] # None
    BY WireAssumption DEF Init, Kind, At
  <2>2. \A u \in Unit : Holds(u) /\ on[Cur(u)] = 1
    <3>1. \A u \in Unit : Cur(u) = <<u, 0>> /\ <<u, 0>> \in Conn
      BY <1>5, WireAssumption DEF Cur, Conn, Generation
    <3>2. on = [c \in Conn |-> IF c[2] = 0 THEN 1 ELSE 0]
      BY DEF Init
    <3>3. \A u \in Unit : on[<<u, 0>>] = 1
      BY <3>1, <3>2
    <3>4. \A u \in Unit : Holds(u)
      BY <1>5, <2>1 DEF Holds
    <3>5. ASSUME NEW u \in Unit
          PROVE  on[Cur(u)] = 1
      <4>1. Cur(u) = <<u, 0>>
        BY <3>1
      <4> QED
        BY <3>3, <4>1
    <3> QED
      BY <3>4, <3>5
  <2>3. ASSUME NEW t \in Transport
        PROVE  tp[t].users = Cardinality({u \in Unit : Holds(u) /\ on[Cur(u)] = t}) - resumed[t]
    <3>0. resumed[t] = 0 /\ Cardinality(Unit) - 0 = Cardinality(Unit) /\ 0 - 0 = 0
      <4>1. Cardinality(Unit) \in Nat
        BY FS_CardinalityType, WireAssumption
      <4> QED
        BY <4>1 DEF Init
    <3>3. tp[t].users = IF t = 1 THEN Cardinality(Unit) ELSE 0
      BY DEF Init
    <3>1. CASE t = 1
      <4>1. {u \in Unit : Holds(u) /\ on[Cur(u)] = t} = Unit
        BY <2>2, <3>1
      <4> QED
        BY <3>0, <3>1, <3>3, <4>1
    <3>2. CASE t # 1
      <4>1. {u \in Unit : Holds(u) /\ on[Cur(u)] = t} = {}
        BY <2>2, <3>2
      <4> QED
        BY <3>0, <3>2, <3>3, <4>1, FS_EmptySet
    <3> QED
      BY <3>1, <3>2
  <2>4. 1 \in Transport
    BY WireAssumption DEF Transport
  <2> QED
    BY <1>5, <2>2, <2>3, <2>4 DEF Claims, ClaimsCounted
<1>9. Line
  BY <1>2 DEF Init, Line, InLine
<1> QED
  BY <1>1, <1>3, <1>4, <1>6, <1>7, <1>8, <1>9 DEF IInv

(* Who queues is nobody's business but the queue's. *)
LEMMA LineOf ==
    ASSUME Line, waiting' = waiting,
           \A p \in Thread : thr'[p].pc = "queued" <=> thr[p].pc = "queued"
    PROVE  Line'
BY DEF Line, InLine

(* A ticket at the end of the queue. *)
LEMMA AppendLine ==
    ASSUME Typed, Line, NEW p \in Thread, thr[p].pc # "queued", waiting' = Append(waiting, p),
           NEW f, Put(p, f), f.pc = "queued"
    PROVE  Line'
<1>1. waiting' \in Seq(Thread) /\ Len(waiting') = Len(waiting) + 1
      /\ waiting'[Len(waiting) + 1] = p
      /\ \A i \in 1 .. Len(waiting) : waiting'[i] = waiting[i]
  BY DEF Line
<1>2. DOMAIN waiting = 1 .. Len(waiting) /\ DOMAIN waiting' = 1 .. (Len(waiting) + 1)
      /\ Len(waiting) \in Nat
  BY <1>1 DEF Line
<1>3. thr'[p].pc = "queued" /\ \A q \in Thread : q # p => thr'[q] = thr[q]
  BY DEF Put, Typed
<1>4. ~InLine(p)
  BY DEF Line
<1>5. \A i, j \in DOMAIN waiting' : waiting'[i] = waiting'[j] => i = j
  BY <1>1, <1>2, <1>4 DEF Line, InLine
<1>6. InLine(p)'
  BY <1>1, <1>2 DEF InLine
<1>7. \A q \in Thread : q # p => (InLine(q)' <=> InLine(q))
  BY <1>1, <1>2 DEF InLine
<1> QED
  BY <1>1, <1>3, <1>5, <1>6, <1>7 DEF Line

(* A ticket leaves the queue from where it stands. *)
LEMMA RemoveLine ==
    ASSUME Typed, Line, NEW k \in DOMAIN waiting, waiting' = RemoveAt(waiting, k),
           NEW p \in Thread, waiting[k] = p, NEW f, Put(p, f), f.pc # "queued"
    PROVE  Line'
<1> DEFINE n == Len(waiting)
<1>1. /\ n \in Nat /\ k \in 1 .. n /\ DOMAIN waiting = 1 .. n
      /\ waiting \in Seq(Thread)
  BY DEF Line
<1>2. /\ waiting' \in Seq(Thread) /\ Len(waiting') = n - 1
      /\ \A i \in 1 .. (n - 1) : waiting'[i] = waiting[IF i < k THEN i ELSE i + 1]
  <2> DEFINE a == SubSeq(waiting, 1, k - 1)
             b == SubSeq(waiting, k + 1, n)
  <2>1. a \in Seq(Thread) /\ Len(a) = k - 1 /\ \A i \in 1 .. (k - 1) : a[i] = waiting[i]
    BY <1>1
  <2>2. b \in Seq(Thread) /\ Len(b) = n - k /\ \A i \in 1 .. (n - k) : b[i] = waiting[k + i]
    <3>1. \A i \in (k + 1) .. n : waiting[i] \in Thread
      BY <1>1
    <3>2. /\ b \in Seq(Thread)
          /\ Len(b) = IF k + 1 <= n THEN n - (k + 1) + 1 ELSE 0
          /\ \A i \in 1 .. (n - (k + 1) + 1) : b[i] = waiting[(k + 1) + i - 1]
      BY <1>1, <3>1, SubSeqProperties
    <3>3. n - (k + 1) + 1 = n - k /\ (~(k + 1 <= n) => n - k = 0)
      BY <1>1
    <3>4. ASSUME NEW i \in 1 .. (n - k)
          PROVE  b[i] = waiting[k + i]
      <4>1. (k + 1) + i - 1 = k + i /\ i \in 1 .. (n - (k + 1) + 1)
        BY <1>1, <3>3
      <4> QED
        BY <3>2, <4>1
    <3> QED
      BY <3>2, <3>3, <3>4
  <2>3. waiting' = a \o b
    BY DEF RemoveAt
  <2> HIDE DEF a, b, n
  <2>4. waiting' \in Seq(Thread) /\ Len(waiting') = n - 1
    <3>1. waiting' \in Seq(Thread) /\ Len(waiting') = Len(a) + Len(b)
      <4>1. a \in Seq(Thread) /\ b \in Seq(Thread)
        BY <2>1, <2>2
      <4>2. a \o b \in Seq(Thread) /\ Len(a \o b) = Len(a) + Len(b)
        BY <4>1, ConcatProperties
      <4> QED
        BY <2>3, <4>2
    <3> QED
      BY <1>1, <2>1, <2>2, <3>1
  <2>5. ASSUME NEW i \in 1 .. (n - 1)
        PROVE  waiting'[i] = waiting[IF i < k THEN i ELSE i + 1]
    <3>1. CASE i < k
      BY <1>1, <2>1, <2>2, <2>3, <3>1
    <3>2. CASE ~(i < k)
      <4>1. i - (k - 1) \in 1 .. (n - k) /\ i > k - 1
        BY <1>1, <3>2
      <4>2. waiting'[i] = b[i - (k - 1)]
        BY <1>1, <2>1, <2>2, <2>3, <4>1
      <4> QED
        BY <1>1, <2>2, <3>2, <4>1, <4>2
    <3> QED
      BY <3>1, <3>2
  <2> QED
    BY <2>4, <2>5
<1> DEFINE from(i) == IF i < k THEN i ELSE i + 1
<1>3. DOMAIN waiting' = 1 .. (n - 1)
  BY <1>2
<1>4. /\ \A i \in 1 .. (n - 1) : from(i) \in 1 .. n /\ from(i) # k
      /\ \A i, j \in 1 .. (n - 1) : from(i) = from(j) => i = j
      /\ \A j \in 1 .. n : j # k => \E i \in 1 .. (n - 1) : from(i) = j
  <2>1. ASSUME NEW j \in 1 .. n, j # k
        PROVE  \E i \in 1 .. (n - 1) : from(i) = j
    <3>1. CASE j < k
      BY <1>1, <2>1, <3>1
    <3>2. CASE ~(j < k)
      <4>1. j - 1 \in 1 .. (n - 1) /\ from(j - 1) = j
        BY <1>1, <2>1, <3>2
      <4> QED
        BY <4>1
    <3> QED
      BY <3>1, <3>2
  <2> QED
    BY <1>1, <2>1
<1>5. thr'[p].pc # "queued" /\ \A q \in Thread : q # p => thr'[q] = thr[q]
  BY <1>1 DEF Put, Typed
<1>6. \A i \in 1 .. (n - 1) : waiting'[i] = waiting[from(i)]
  BY <1>2
<1> HIDE DEF from, n
<1>7. \A i, j \in DOMAIN waiting' : waiting'[i] = waiting'[j] => i = j
  <2> SUFFICES ASSUME NEW i \in 1 .. (n - 1), NEW j \in 1 .. (n - 1), waiting'[i] = waiting'[j]
               PROVE  i = j
    BY <1>3
  <2>1. waiting[from(i)] = waiting[from(j)] /\ from(i) \in DOMAIN waiting /\ from(j) \in DOMAIN waiting
    BY <1>1, <1>4, <1>6
  <2>2. from(i) = from(j)
    BY <2>1 DEF Line
  <2> QED
    BY <1>4, <2>2
<1>8. ~InLine(p)'
  <2> SUFFICES ASSUME NEW i \in 1 .. (n - 1), waiting'[i] = p
               PROVE  FALSE
    BY <1>3 DEF InLine
  <2>1. waiting[from(i)] = waiting[k] /\ from(i) \in DOMAIN waiting /\ from(i) # k
    BY <1>1, <1>4, <1>6
  <2> QED
    BY <2>1 DEF Line
<1>9. ASSUME NEW q \in Thread, q # p
      PROVE  InLine(q)' <=> InLine(q)
  <2>1. ASSUME NEW i \in 1 .. (n - 1), waiting'[i] = q
        PROVE  InLine(q)
    BY <1>1, <1>4, <1>6, <2>1 DEF InLine
  <2>2. ASSUME NEW j \in 1 .. n, waiting[j] = q
        PROVE  InLine(q)'
    <3>1. j # k
      BY <1>9, <2>2
    <3>2. PICK i \in 1 .. (n - 1) : from(i) = j
      BY <1>4, <3>1
    <3> QED
      BY <1>3, <1>6, <2>2, <3>2 DEF InLine
  <2> QED
    BY <1>1, <1>3, <2>1, <2>2 DEF InLine
<1> QED
  BY <1>2, <1>5, <1>7, <1>8, <1>9 DEF Line

(* deque.remove: a ticket that stands once is the first of its kind. *)
LEMMA RemoveFirstIs ==
    ASSUME Line, NEW k \in DOMAIN waiting
    PROVE  RemoveFirst(waiting, waiting[k]) = RemoveAt(waiting, k)
<1> DEFINE I == {i \in 1 .. Len(waiting) : waiting[i] = waiting[k]}
<1>1. DOMAIN waiting = 1 .. Len(waiting) /\ Len(waiting) \in Nat
  BY DEF Line
<1>2. I = {k}
  BY <1>1 DEF Line
<1>3. Min(I) = k
  BY <1>1, <1>2 DEF Min
<1>4. SelectInSeq(waiting, LAMBDA v : v = waiting[k]) = k
  BY <1>2, <1>3 DEF SelectInSeq
<1> QED
  BY <1>1, <1>4 DEF RemoveFirst

(* popleft. *)
LEMMA TailIs ==
    ASSUME Line, waiting # <<>>
    PROVE  /\ 1 \in DOMAIN waiting /\ Head(waiting) = waiting[1]
           /\ Tail(waiting) = RemoveAt(waiting, 1)
<1>1. waiting \in Seq(Thread) /\ Len(waiting) \in Nat \ {0}
  BY DEF Line
<1>2. SubSeq(waiting, 1, 0) = <<>>
  BY <1>1
<1>3. SubSeq(waiting, 2, Len(waiting)) = Tail(waiting)
  BY <1>1
<1>4. <<>> \o Tail(waiting) = Tail(waiting)
  BY <1>1
<1> QED
  BY <1>1, <1>2, <1>3, <1>4 DEF RemoveAt

(* Every step leaves the queue to those who wait for their turn. *)
LEMMA LineKept ==
    ASSUME Typed, Line, Next
    PROVE  Line'
<1>1. ASSUME NEW p \in Thread, NEW c, NEW l, Enqueue(p, c, l), thr[p].pc # "queued"
      PROVE  Line'
  <2> DEFINE f == [thr[p] EXCEPT !.pc = "queued", !.conn = c, !.left = l]
  <2>1. Put(p, f) /\ waiting' = Append(waiting, p)
    BY <1>1 DEF Enqueue
  <2>2. f.pc = "queued"
    BY DEF Typed
  <2> QED
    BY <1>1, <2>1, <2>2, AppendLine
<1>2. ASSUME NEW p \in Thread
      PROVE  Idle(p).pc = "wait" /\ Failed(p).pc # "queued"
  BY DEF Idle, Failed, Typed
<1>3. ASSUME NEW p \in Thread, MissTurn(p)
      PROVE  Line'
  <2>1. PICK k \in DOMAIN waiting : waiting[k] = p
    BY <1>3 DEF MissTurn, Line, InLine
  <2>2. waiting' = RemoveAt(waiting, k) /\ Put(p, Idle(p))
    BY <1>3, <2>1, RemoveFirstIs DEF MissTurn
  <2> QED
    BY <1>2, <2>1, <2>2, RemoveLine
<1>4. ASSUME NEW p \in Thread, TakeTurn(p)
      PROVE  Line'
  <2>1. thr[p].pc = "queued" /\ Head(waiting) = p /\ waiting' = Tail(waiting)
    BY <1>4 DEF TakeTurn, AtHead
  <2>2. waiting # <<>>
    BY <2>1 DEF Line, InLine
  <2>3. 1 \in DOMAIN waiting /\ waiting[1] = p /\ waiting' = RemoveAt(waiting, 1)
    BY <2>1, <2>2, TailIs
  <2>4. PICK now \in Ensured(T(p)) :
          Put(p, IF now.connected THEN [thr[p] EXCEPT !.pc = "wire"] ELSE Failed(p))
    BY <1>4 DEF TakeTurn
  <2>5. (IF now.connected THEN [thr[p] EXCEPT !.pc = "wire"] ELSE Failed(p)).pc # "queued"
    BY <1>2 DEF Typed
  <2> QED
    BY <2>3, <2>4, <2>5, RemoveLine
<1>5. ASSUME NEW p \in Thread, NEW f, Put(p, f), f.pc # "queued", thr[p].pc # "queued",
             waiting' = waiting
      PROVE  Line'
  BY <1>5, LineOf DEF Put, Typed
<1>6. ASSUME NEW p \in Thread, Step(p)
      PROVE  Line'
  <2>1. CASE Read(p) \/ Retry(p)
    BY <1>1, <2>1 DEF Read, Retry
  <2>2. CASE Leave(p)
    BY <1>5, <2>2 DEF Leave, arbiter, Typed
  <2>3. CASE Answered(p) \/ GiveUpRetry(p)
    BY <1>2, <1>5, <2>3 DEF Answered, GiveUpRetry, arbiter
  <2>4. ASSUME NEW broken \in BOOLEAN, NoAnswer(p, broken)
        PROVE  Line'
    BY <1>2, <1>5, <2>4 DEF NoAnswer
  <2>5. CASE BatchFailed(p)
    BY <1>2, <1>5, <2>5 DEF BatchFailed, arbiter
  <2> QED
    BY <1>4, <1>6, <2>1, <2>2, <2>3, <2>4, <2>5 DEF Step
<1>7. ASSUME NEW u \in Unit, Write(u)
      PROVE  Line'
  BY <1>1, <1>7 DEF Write, Thread
<1>8. ASSUME NEW u \in Unit, Life(u) \/ JoinTimesOut(u)
      PROVE  Line'
  <2>1. CASE Start(u)
    <3>1. PICK p \in {q \in Poller : q[1] = u /\ thr[q].pc = "gone"} :
            Put(p, [thr[p] EXCEPT !.pc = "wait", !.conn = Cur(u), !.stop = FALSE])
      BY <2>1 DEF Start
    <3>2. waiting' = waiting /\ p \in Thread
      BY <2>1 DEF Start, arbiter, Thread
    <3> QED
      BY <1>5, <3>1, <3>2 DEF Typed
  <2>2. CASE Join(u) \/ JoinTimesOut(u) \/ Release(u) \/ Make(u) \/ Open(u)
    <3>1. UNCHANGED <<waiting, thr>>
      BY <2>2 DEF Join, JoinTimesOut, Joined, Release, Make, Open, arbiter
    <3> QED
      BY <3>1, LineOf
  <2> QED
    BY <1>8, <2>1, <2>2 DEF Life
<1>9. ASSUME NEW u \in Unit, NEW k \in Kind, Begin(u, k)
      PROVE  Line'
  <2>1. waiting' = waiting /\ StopAll(u)
    BY <1>9 DEF Begin, arbiter
  <2>2. \A p \in Thread : thr'[p].pc = thr[p].pc
    BY <2>1 DEF StopAll, Typed
  <2> QED
    BY <2>1, <2>2, LineOf
<1>10. CASE Outage \/ Back
  BY <1>10, LineOf DEF Outage, Back, arbiter
<1> QED
  BY <1>3, <1>6, <1>7, <1>8, <1>9, <1>10 DEF Next

(* Every step keeps the invariant, part by part. *)
LEMMA NextInvariant ==
    ASSUME IInv, Next
    PROVE  IInv'
<1>1. Typed /\ Line /\ Attempts /\ Turns /\ Lists /\ Counts /\ Claims
  BY DEF IInv
<1>2. Typed' /\ Attempts'
  <2>1. ASSUME NEW p \in Thread, Step(p) \/ MissTurn(p)
        PROVE  Typed' /\ Attempts'
    BY <1>1, <2>1, ThreadsTyped, ThreadsAttempt
  <2>2. ASSUME NEW u \in Unit, Write(u)
        PROVE  Typed' /\ Attempts'
    BY <1>1, <2>2, ThreadsTyped, ThreadsAttempt DEF Thread
  <2>3. ASSUME NEW u \in Unit, Life(u) \/ JoinTimesOut(u) \/ \E k \in Kind : Begin(u, k)
        PROVE  Typed' /\ Attempts'
    BY <1>1, <2>3, UnitsTyped, UnitsAttempt
  <2>4. CASE Outage \/ Back
    <3>1. troubles' \in 0 .. MaxTroubles /\ up' \in BOOLEAN
      BY <1>1, <2>4, TroubleTyped DEF Outage, Back, Typed
    <3>2. UNCHANGED <<busy, tp, registry, made, on, resumed, fails, retired, gen, list, op, thr, cut>>
      BY <2>4 DEF Outage, Back, arbiter, transports, units
    <3>3. Typed'
      BY <1>1, <3>1, <3>2 DEF Typed
    <3>4. Attempts'
      BY <1>1, <3>2 DEF Attempts, Equipped
    <3> QED
      BY <3>3, <3>4
  <2> QED
    BY <2>1, <2>2, <2>3, <2>4 DEF Next
<1>3. Line' /\ Turns' /\ Lists' /\ Counts' /\ Claims'
  BY <1>1, <1>2, LineKept, TurnsKept, ListsKept, CountsKept, ClaimsKept
<1> QED
  BY <1>2, <1>3 DEF IInv

(* So does a step of nothing. *)
LEMMA StutterInvariant ==
    ASSUME IInv, UNCHANGED vars
    PROVE  IInv'
<1>1. UNCHANGED <<busy, tp, registry, made, on, resumed, fails, retired, gen, list, op, thr, up, cut, troubles>>
  BY DEF vars, arbiter, transports, units
<1>2. Typed' /\ Attempts' /\ Turns'
  BY <1>1 DEF IInv, Typed, Attempts, Equipped, Turns, OneAtATime, SocketStays
<1>3. Lists'
  BY <1>1, ListsOf DEF IInv
<1>4. Counts'
  BY <1>1, CountsSame DEF IInv
<1>5. \A u \in Unit : Holds(u)' <=> Holds(u)
  BY <1>1 DEF Holds
<1>6. Claims'
  BY <1>1, <1>5, ClaimsOf DEF IInv
<1>7. Line'
  <2>1. Line /\ UNCHANGED <<waiting, thr>>
    BY DEF vars, arbiter, IInv
  <2> QED
    BY <2>1, LineOf
<1> QED
  BY <1>2, <1>3, <1>4, <1>6, <1>7 DEF IInv

(* The invariant holds in every run of any instance. *)
THEOREM WireInvariant == Spec => []IInv
<1>1. IInv /\ [Next]_vars => IInv'
  BY NextInvariant, StutterInvariant
<1> QED
  BY InitInvariant, <1>1, PTL DEF Spec

(* Every variable keeps its type, the queue of the turnstile too. *)
THEOREM WireTyped == Spec => []TypeOK
BY WireInvariant, PTL DEF IInv, Line, TypeOK

(* Who waits for the access point stands in the queue of its turnstile, once, *)
(* and nobody else does: no ticket is lost, left behind or doubled, whoever   *)
(* times out, retries or is stopped (_EndpointArbiter.acquire).               *)
THEOREM WireInLine == Spec => []Line
BY WireInvariant, PTL DEF IInv

(* Transactions on one access point never overlap (_EndpointArbiter). *)
THEOREM WireOneAtATime == Spec => []OneAtATime
BY WireInvariant, PTL DEF IInv, Turns

(* No socket is closed or swapped under a transaction (the transport's lock). *)
THEOREM WireSocketStays == Spec => []SocketStays
BY WireInvariant, PTL DEF IInv, Turns

(* The users of a transport are the units that use it, but for those that     *)
(* resumed onto it: every other come-back, a reconnect or a new start, claims *)
(* once and gives up once (transport_for, release_transport, disconnect), and *)
(* as long as nothing resumed, all of them claim the registered transport.    *)
THEOREM WireClaimsCounted == Spec => []ClaimsCounted
BY WireInvariant, PTL DEF IInv, Claims

(* A unit has one poller at most that was not told to stop, and it is listed. *)
THEOREM WireOneSweeper == Spec => []OneSweeper
<1>1. IInv => OneSweeper
  <2>1. ASSUME Lists, NEW u \in Unit
        PROVE  Cardinality(list[u]) <= 1
    <3>1. CASE list[u] = {}
      BY <3>1, FS_EmptySet
    <3>2. CASE list[u] # {}
      <4>1. PICK p : list[u] = {p}
        BY <2>1, <3>2 DEF Lists
      <4>2. Cardinality({p}) = 1
        BY FS_Singleton
      <4> QED
        BY <4>1, <4>2
    <3> QED
      BY <3>1, <3>2
  <2> QED
    BY <2>1 DEF IInv, Lists, OneSweeper
<1> QED
  BY WireInvariant, <1>1, PTL
=============================================================================
