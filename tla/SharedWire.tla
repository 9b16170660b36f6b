------------------------------ MODULE SharedWire ------------------------------
(***************************************************************************)
(* The units behind one access point (modbus_client.py): the turnstile they *)
(* queue at, the transport they share with its lock, its socket and its     *)
(* count of users, the pollers that read through it, a writer, and the      *)
(* life of each unit: start, reload, reconnect, stop, start again, resume.  *)
(*                                                                          *)
(* Abstractions.  One lane, with endpoint serialisation on (the default).   *)
(* A sweep is one read of one poll group.  The gap between transactions,    *)
(* the settling pause and the cadence are time only.  The lock of a         *)
(* transport is held for the whole of a transaction, and within one step by *)
(* everybody else.  The serial bridge still has the adapter.  A standby     *)
(* stops its units one by one, and resumes them one by one when it becomes  *)
(* active again (multi_source.py): "stop" and "resume" are that too.  A     *)
(* resume is not under the lifecycle lock in the code; here it holds it, so *)
(* nothing else is done to a unit while it resumes.                         *)
(***************************************************************************)
EXTENDS Naturals, Sequences, SequencesExt, FiniteSets

CONSTANTS Unit,
          Retries,    \* retry_attempts
          WedgedAt,   \* _reopen_after_fails
          Slots,      \* bound: pollers of a unit at a time, lingering ones included
          MaxTroubles,\* bound: outages, missed turns, joins that time out, operations
          Writer,     \* the thread that writes
          None

Kind == {"reload", "reconnect", "stop", "add", "resume"}
At == {"join", "release", "make", "open", "start"}
Pc == {"gone", "wait", "queued", "wire", "backoff", "tail"}

ASSUME WireAssumption ==
    /\ Retries \in Nat \ {0} /\ WedgedAt \in Nat \ {0}
    /\ Slots \in Nat \ {0} /\ MaxTroubles \in Nat
    /\ Writer \notin Unit \X (1 .. Slots) /\ IsFiniteSet(Unit)
    /\ None \notin [kind : Kind, at : At]

Poller == Unit \X (1 .. Slots)
Thread == Poller \cup {Writer}
(* A connection is a unit's n-th; a transport is the n-th of the access point. *)
Generation == 0 .. MaxTroubles
Conn == Unit \X Generation
Transport == 1 .. (1 + MaxTroubles)

VARIABLES
    waiting, busy,  \* _EndpointArbiter
    tp,             \* the transports: socket (0: none), connected, users
    registry, made, \* _TRANSPORTS: the access point's transport, 0: none; how many so far
    on,             \* the transport of each connection, 0: not made yet
    fails,          \* _consecutive_fail of each connection
    retired,        \* the connections with _retired
    gen,            \* per unit: which connection it has
    list,           \* per unit: ModbusClient.pollers
    op,             \* per unit: the operation that holds its lifecycle lock
    thr,            \* the threads that use the wire
    up,             \* the device at the access point answers
    cut,            \* history: threads whose socket was closed or swapped under them
    resumed,        \* history: the resumes onto each transport, which claim nothing
    troubles

arbiter == <<waiting, busy>>
transports == <<tp, registry, made>>
units == <<gen, list, op>>
vars == <<arbiter, transports, on, resumed, fails, retired, units, thr, up, cut, troubles>>

Typed ==
    /\ busy \in BOOLEAN
    /\ tp \in [Transport -> [sock : BOOLEAN, connected : BOOLEAN, users : Int]]
    /\ registry \in {0} \cup Transport /\ made \in {0} \cup Transport
    /\ on \in [Conn -> {0} \cup Transport]
    /\ fails \in [Conn -> 0 .. WedgedAt]
    /\ retired \subseteq Conn
    /\ gen \in [Unit -> Generation]
    /\ list \in [Unit -> SUBSET Poller]
    /\ op \in [Unit -> [kind : Kind, at : At] \cup {None}]
    /\ thr \in [Thread -> [pc : Pc, conn : Conn \cup {None}, left : 0 .. Retries, stop : BOOLEAN]]
    /\ resumed \in [Transport -> Nat]
    /\ up \in BOOLEAN /\ cut \subseteq Thread /\ troubles \in 0 .. MaxTroubles

TypeOK == Typed /\ waiting \in Seq(Thread)

Cur(u) == <<u, gen[u]>>

(* Boot: every unit has made its connection and connected it; start_polling is next. *)
Init ==
    /\ waiting = <<>> /\ busy = FALSE
    /\ tp = [t \in Transport |-> [sock |-> t = 1, connected |-> t = 1,
                                  users |-> IF t = 1 THEN Cardinality(Unit) ELSE 0]]
    /\ registry = 1 /\ made = 1
    /\ on = [c \in Conn |-> IF c[2] = 0 THEN 1 ELSE 0]
    /\ fails = [c \in Conn |-> 0] /\ retired = {}
    /\ gen = [u \in Unit |-> 0] /\ list = [u \in Unit |-> {}]
    /\ op = [u \in Unit |-> [kind |-> "reload", at |-> "start"]]
    /\ thr = [p \in Thread |-> [pc |-> IF p = Writer THEN "wait" ELSE "gone",
                  conn |-> None, left |-> 0, stop |-> FALSE]]
    /\ up = TRUE /\ cut = {} /\ resumed = [t \in Transport |-> 0] /\ troubles = 0

-----------------------------------------------------------------------------
(* Transports. *)
T(p) == on[thr[p].conn]
LockFree(t) == \A p \in Thread : thr[p].pc = "wire" => T(p) # t

Closed(t) == [sock |-> FALSE, connected |-> FALSE, users |-> tp[t].users]
Opened(t) == [sock |-> TRUE, connected |-> TRUE, users |-> tp[t].users]
(* What a connect can come to: the access point may be there while the device is not. *)
Reopened(t) == IF up THEN {Opened(t)} ELSE {Opened(t), Closed(t)}
(* A socket goes while these threads are in a transaction on it. *)
Cuts(t) == cut' = cut \cup {p \in Thread : thr[p].pc = "wire" /\ T(p) = t}

(* transport_for(): the registered transport, or a new one. *)
Claim(c) ==
    LET t == IF registry = 0 THEN made + 1 ELSE registry
    IN /\ registry' = t
       /\ made' = IF registry = 0 THEN t ELSE made
       /\ tp' = [tp EXCEPT ![t].users = @ + 1]
       /\ on' = [on EXCEPT ![c] = t]

(* release_transport(): was it the last user?  (A fault: it always was.) *)
LastOrNot(t) == TRUE
LastUser(t) == tp[t].users <= 1

(* disconnect(): the last user closes the socket and the transport is forgotten. *)
GiveUp(t) ==
    /\ registry' = IF LastUser(t) THEN 0 ELSE registry
    /\ IF LastUser(t) THEN Cuts(t) ELSE UNCHANGED cut
    /\ tp' = [tp EXCEPT ![t] = [(IF LastUser(t) THEN Closed(t) ELSE @)
                                EXCEPT !.users = tp[t].users - 1]]

(* A unit uses its connection: from its making, or its resume, until it is given up. *)
Holds(u) == (list[u] # {} \/ op[u] # None) /\ (op[u] # None => op[u].at # "make")

-----------------------------------------------------------------------------
(* The turnstile, and one attempt at a transaction. *)
Put(p, f) == thr' = [thr EXCEPT ![p] = f]
(* Back from the wire; a writer drops the connection, a poller keeps its own. *)
Idle(p) == [thr[p] EXCEPT !.pc = "wait", !.left = 0,
                          !.conn = IF p = Writer THEN None ELSE @]
Trouble == troubles < MaxTroubles /\ troubles' = troubles + 1

(* A thread asks for its turn, unless its connection is retired or it is told to stop. *)
Barred(p) == thr[p].conn \in retired \/ thr[p].stop

Enqueue(p, c, left) ==
    /\ waiting' = Append(waiting, p)
    /\ Put(p, [thr[p] EXCEPT !.pc = "queued", !.conn = c, !.left = left])
    /\ UNCHANGED <<busy, transports, on, resumed, fails, retired, units, up, cut, troubles>>

Read(p) ==
    /\ p \in Poller /\ thr[p].pc = "wait" /\ ~Barred(p)
    /\ Enqueue(p, thr[p].conn, Retries)

Write(u) ==
    /\ thr[Writer].pc = "wait" /\ Cur(u) \notin retired
    /\ Enqueue(Writer, Cur(u), 1)

(* acquire(): the head goes when nobody has the turn. *)
AtHead(p) == ~busy /\ Head(waiting) = p

(* A fault: who gives up stays in the queue. *)
MissTurnStays(p) ==
    /\ thr[p].pc = "queued" /\ ~AtHead(p)
    /\ Put(p, Idle(p)) /\ Trouble
    /\ UNCHANGED <<waiting, busy, transports, on, resumed, fails, retired, units, up, cut>>

MissTurn(p) ==
    /\ thr[p].pc = "queued" /\ ~AtHead(p)
    /\ waiting' = RemoveFirst(waiting, p)
    /\ Put(p, Idle(p)) /\ Trouble
    /\ UNCHANGED <<busy, transports, on, resumed, fails, retired, units, up, cut>>

(* After an attempt that failed: another one, or the end of the batch.  A write has one. *)
Failed(p) ==
    IF p = Writer THEN Idle(p)
    ELSE [thr[p] EXCEPT !.pc = IF thr[p].left > 1 THEN "backoff" ELSE "tail",
                        !.left = @ - 1]

(* _ensure_connected() *)
Ensured(t) == IF tp[t].connected /\ tp[t].sock THEN {tp[t]} ELSE Reopened(t)

(* A fault: the turn is taken while another has it. *)
TakeTurnAnyway(p) ==
    /\ thr[p].pc = "queued" /\ Head(waiting) = p /\ LockFree(T(p))
    /\ waiting' = Tail(waiting)
    /\ \E now \in Ensured(T(p)) :
         /\ tp' = [tp EXCEPT ![T(p)] = now]
         /\ busy' = (busy \/ now.connected)
         /\ Put(p, IF now.connected THEN [thr[p] EXCEPT !.pc = "wire"] ELSE Failed(p))
    /\ UNCHANGED <<registry, made, on, resumed, fails, retired, units, up, cut, troubles>>

(* The head of the queue takes its turn, the lock and a connection, and sends: *)
(* the lock is free by then, for who has a turn is the only one on the wire.   *)
TakeTurn(p) ==
    /\ thr[p].pc = "queued" /\ AtHead(p) /\ LockFree(T(p))
    /\ waiting' = Tail(waiting)
    /\ \E now \in Ensured(T(p)) :
         /\ tp' = [tp EXCEPT ![T(p)] = now]
         /\ busy' = now.connected
         /\ Put(p, IF now.connected THEN [thr[p] EXCEPT !.pc = "wire"]
                   ELSE Failed(p))
    /\ UNCHANGED <<registry, made, on, resumed, fails, retired, units, up, cut, troubles>>

Answered(p) ==
    /\ thr[p].pc = "wire" /\ up
    /\ busy' = FALSE
    /\ fails' = IF p = Writer THEN fails ELSE [fails EXCEPT ![thr[p].conn] = 0]
    /\ Put(p, Idle(p))
    /\ UNCHANGED <<waiting, transports, on, resumed, retired, units, up, cut, troubles>>

(* No answer, or an error: some errors say that the socket is gone. *)
NoAnswer(p, broken) ==
    /\ thr[p].pc = "wire" /\ ~up
    /\ busy' = FALSE
    /\ tp' = [tp EXCEPT ![T(p)].connected = @ /\ ~broken]
    /\ Put(p, Failed(p))
    /\ UNCHANGED <<waiting, registry, made, on, resumed, fails, retired, units, up, cut, troubles>>

Retry(p) ==
    /\ thr[p].pc = "backoff" /\ ~Barred(p)
    /\ Enqueue(p, thr[p].conn, thr[p].left)

GiveUpRetry(p) ==
    /\ thr[p].pc = "backoff" /\ Barred(p)
    /\ Put(p, Idle(p))
    /\ UNCHANGED <<arbiter, transports, on, resumed, fails, retired, units, up, cut, troubles>>

(* The failed batch is counted; a wedged link is closed for everybody. *)
BatchFailed(p) ==
    LET c == thr[p].conn
        wedged == fails[c] + 1 >= WedgedAt
    IN /\ thr[p].pc = "tail" /\ LockFree(T(p))
       /\ fails' = [fails EXCEPT ![c] = IF wedged THEN 0 ELSE @ + 1]
       /\ IF wedged THEN tp' = [tp EXCEPT ![T(p)] = Closed(T(p))] /\ Cuts(T(p))
          ELSE UNCHANGED <<tp, cut>>
       /\ Put(p, Idle(p))
       /\ UNCHANGED <<arbiter, registry, made, on, resumed, retired, units, up, troubles>>

(* The loop of a poller that was told to stop ends. *)
Leave(p) ==
    /\ p \in Poller /\ thr[p].pc = "wait" /\ thr[p].stop
    /\ Put(p, [thr[p] EXCEPT !.pc = "gone", !.conn = None, !.stop = FALSE])
    /\ UNCHANGED <<arbiter, transports, on, resumed, fails, retired, units, up, cut, troubles>>

-----------------------------------------------------------------------------
(* The life of a unit: ModbusClient, under its lifecycle lock. *)
Alive(u) == list[u] # {}
(* stop() to every poller of the unit.  (A fault: the old set runs on.) *)
StopNone(u) == UNCHANGED thr
StopAll(u) == thr' = [p \in Thread |-> IF p \in list[u] THEN [thr[p] EXCEPT !.stop = TRUE]
                                       ELSE thr[p]]
Goto(u, at) == op' = [op EXCEPT ![u].at = at]

(* Where an operation begins: a running unit's pollers are stopped and joined, *)
(* an added one makes its connection, a resumed one opens the one it had.      *)
Entry(kind) == CASE kind = "add" -> "make" [] kind = "resume" -> "open" [] OTHER -> "join"

(* An operation takes the lifecycle lock and stops the pollers; start_polling() *)
(* on a running unit does so too, like a reload.                               *)
Begin(u, kind) ==
    /\ op[u] = None /\ Trouble
    /\ Alive(u) <=> kind \notin {"add", "resume"}
    /\ op' = [op EXCEPT ![u] = [kind |-> kind, at |-> Entry(kind)]]
    /\ StopAll(u)
    /\ resumed' = IF kind = "resume" THEN [resumed EXCEPT ![on[Cur(u)]] = @ + 1] ELSE resumed
    /\ UNCHANGED <<arbiter, transports, on, fails, retired, gen, list, up, cut>>

Then(kind) == IF kind = "reload" THEN "start" ELSE "release"

Joined(u) ==
    /\ op[u] # None /\ op[u].at = "join"
    /\ list' = [list EXCEPT ![u] = {}]
    /\ Goto(u, Then(op[u].kind))
    /\ retired' = IF op[u].kind = "reconnect" THEN retired \cup {Cur(u)} ELSE retired
    /\ UNCHANGED <<arbiter, transports, on, resumed, fails, gen, thr, up, cut>>

Join(u) ==
    /\ \A p \in list[u] : thr[p].pc = "gone"
    /\ Joined(u) /\ UNCHANGED troubles

JoinTimesOut(u) ==
    /\ \E p \in list[u] : thr[p].pc # "gone"
    /\ Joined(u) /\ Trouble

Release(u) ==
    /\ op[u] # None /\ op[u].at = "release" /\ LockFree(on[Cur(u)])
    /\ GiveUp(on[Cur(u)])
    /\ op' = IF op[u].kind = "stop" THEN [op EXCEPT ![u] = None]
             ELSE [op EXCEPT ![u].at = "make"]
    /\ UNCHANGED <<arbiter, made, on, resumed, fails, retired, gen, list, thr, up, troubles>>

(* A new ModbusConnection takes its transport. *)
Make(u) ==
    /\ op[u] # None /\ op[u].at = "make"
    /\ gen' = [gen EXCEPT ![u] = @ + 1]
    /\ Claim(<<u, gen[u] + 1>>)
    /\ Goto(u, "open")
    /\ UNCHANGED <<arbiter, resumed, fails, retired, list, thr, up, cut, troubles>>

(* A fault: the swap does not wait for the lock. *)
OpenUnlocked(u) ==
    LET t == on[Cur(u)]
    IN /\ op[u] # None /\ op[u].at = "open"
       /\ \E now \in Reopened(t) : tp' = [tp EXCEPT ![t] = now]
       /\ Cuts(t)
       /\ Goto(u, "start")
       /\ UNCHANGED <<arbiter, registry, made, on, resumed, fails, retired, gen, list, thr, up, troubles>>

(* connect(): a forced reopen, for every unit on the transport. *)
Open(u) ==
    LET t == on[Cur(u)]
    IN /\ op[u] # None /\ op[u].at = "open" /\ LockFree(t)
       /\ \E now \in Reopened(t) : tp' = [tp EXCEPT ![t] = now]
       /\ Cuts(t)
       /\ Goto(u, "start")
       /\ UNCHANGED <<arbiter, registry, made, on, resumed, fails, retired, gen, list, thr, up, troubles>>

(* start_polling(): whether or not connect() reached the device. *)
Start(u) ==
    /\ op[u] # None /\ op[u].at = "start"
    /\ \E p \in {q \in Poller : q[1] = u /\ thr[q].pc = "gone"} :
         /\ list' = [list EXCEPT ![u] = {p}]
         /\ Put(p, [thr[p] EXCEPT !.pc = "wait", !.conn = Cur(u), !.stop = FALSE])
    /\ op' = [op EXCEPT ![u] = None]
    /\ UNCHANGED <<arbiter, transports, on, resumed, fails, retired, gen, up, cut, troubles>>

(* The device, or its access point. *)
Outage ==
    /\ up /\ up' = FALSE /\ Trouble
    /\ UNCHANGED <<arbiter, transports, on, resumed, fails, retired, units, thr, cut>>
Back ==
    /\ ~up /\ up' = TRUE
    /\ UNCHANGED <<arbiter, transports, on, resumed, fails, retired, units, thr, cut, troubles>>

-----------------------------------------------------------------------------
(* Transactions do not overlap on the access point, whatever retired or      *)
(* stopped connections still do (_EndpointArbiter: one queue).               *)
OneAtATime == \A p, q \in Thread : thr[p].pc = "wire" /\ thr[q].pc = "wire" => p = q

(* The socket of a transaction is the transport's until the answer is there: *)
(* no unit closes or swaps it under another (connect(): "it just can't land  *)
(* mid-transaction").                                                        *)
SocketStays == cut = {}

(* The users of a transport are the units that use it, but for those that    *)
(* resumed onto it; and as long as none has resumed, every unit uses the     *)
(* registered transport, whichever units stop, are added and reconnect at    *)
(* once (transport_for, release_transport).                                  *)
ClaimsCounted ==
    /\ \A t \in Transport :
         tp[t].users = Cardinality({u \in Unit : Holds(u) /\ on[Cur(u)] = t}) - resumed[t]
    /\ (\A t \in Transport : resumed[t] = 0) => \A u \in Unit : Holds(u) => on[Cur(u)] = registry

(* A unit that goes away leaves the socket to the units that are polled on it *)
(* (modbus_client.py 298, "must not take the master down for its siblings"). *)
(* The code breaks it: a unit that resumed has no claim, and gives one up    *)
(* when it stops again.                                                      *)
SiblingsStay ==
    [][\A u, v \in Unit :
          u # v /\ Release(u) /\ Alive(v) /\ on[Cur(v)] = on[Cur(u)] /\ tp[on[Cur(u)]].sock
            => tp'[on[Cur(u)]].sock]_vars

(* A unit's pollers that run and were not told to stop. *)
Going(u) == {p \in Poller : p[1] = u /\ thr[p].pc # "gone" /\ ~thr[p].stop}

(* Of a unit's pollers one at most has not been told to stop ("a DOUBLED     *)
(* poller set"), and an orphan never takes a new one's place.                *)
OneSweeper == \A u \in Unit : Going(u) \subseteq list[u] /\ Cardinality(list[u]) <= 1

(* A unit that is on is read again and again once the device answers: after  *)
(* a wedged link, an operation that did not reach it, or its siblings' turns *)
(* ("start pollers UNCONDITIONALLY").                                        *)
ReadsComeBack ==
    \A u \in Unit : <>[](up /\ op[u] = None /\ list[u] # {})
                    => []<>(\E p \in list[u] : thr[p].pc = "wire" /\ up)

(* One access point, one socket (modbus_client.py 229, 548).  The code breaks *)
(* it: a thread that waits for its turn while its connection is retired opens *)
(* the transport that was given up, beside the new one.                       *)
OneSocket == Cardinality({t \in Transport : tp[t].sock}) <= 1

(* The inductive invariant. *)

(* Who is on the wire has the turn, and nobody lost its socket. *)
Turns ==
    /\ OneAtATime /\ SocketStays
    /\ \A p \in Thread : thr[p].pc = "wire" => busy

(* An operation past its join has dropped the pollers it told to stop, and   *)
(* a poller that was not told is its unit's.                                 *)
Lists ==
    \A u \in Unit :
        /\ \A p \in list[u] : p[1] = u
        /\ \A p, q \in list[u] : p = q
        /\ Going(u) \subseteq list[u]
        /\ op[u] # None /\ op[u].at # "join" => list[u] = {}
        /\ op[u] # None /\ op[u].at = "join" => Going(u) = {}

(* A unit's operation that is still to make a connection. *)
Making(u) == op[u] # None /\ op[u].kind \in {"reconnect", "add"} /\ op[u].at \in {"join", "release", "make"}

(* Each operation costs a trouble, and makes one connection and one transport at most. *)
Counts ==
    /\ \A u \in Unit : gen[u] + (IF Making(u) THEN 1 ELSE 0) <= troubles
    /\ made + Cardinality({u \in Unit : Making(u)}) <= troubles + 1
    /\ \A u \in Unit : op[u] # None /\ op[u].at = "make" => Making(u)
    /\ \A u \in Unit : op[u] # None /\ op[u].at = "release" => op[u].kind = "stop" \/ Making(u)
    /\ \A u \in Unit : op[u] # None /\ op[u].at = "join" => op[u].kind # "resume"

(* A thread that is to use the wire has an attempt left; one that may has a  *)
(* connection with its transport.                                            *)
Equipped(p) ==
    /\ thr[p].pc \in {"queued", "wire", "backoff"} => thr[p].left >= 1
    /\ thr[p].pc \notin {"gone", "wait"} \/ (p # Writer /\ thr[p].pc = "wait")
         => thr[p].conn \in Conn /\ on[thr[p].conn] \in Transport
Attempts == \A p \in Thread : Equipped(p)

(* Every unit's connection has a transport; where nobody resumed, it is the *)
(* registered one as long as a unit uses it.                                *)
Claims ==
    /\ ClaimsCounted
    /\ (\A t \in Transport : resumed[t] = 0) => \A u \in Unit : Holds(u) => registry # 0
    /\ \A u \in Unit : on[Cur(u)] \in Transport

(* The queue of the turnstile: who asked for a turn stands in it, once, until *)
(* the turn is taken or missed, and nobody else does.                        *)
InLine(p) == \E i \in DOMAIN waiting : waiting[i] = p
Line ==
    /\ waiting \in Seq(Thread)
    /\ \A i, j \in DOMAIN waiting : waiting[i] = waiting[j] => i = j
    /\ \A p \in Thread : thr[p].pc = "queued" <=> InLine(p)

IInv == Typed /\ Line /\ Attempts /\ Turns /\ Lists /\ Counts /\ Claims

-----------------------------------------------------------------------------
Step(p) ==
    \/ Read(p) \/ Leave(p)
    \/ TakeTurn(p) \/ Answered(p) \/ \E broken \in BOOLEAN : NoAnswer(p, broken)
    \/ Retry(p) \/ GiveUpRetry(p) \/ BatchFailed(p)
Life(u) == Join(u) \/ Release(u) \/ Make(u) \/ Open(u) \/ Start(u)

Next ==
    \/ \E p \in Thread : Step(p) \/ MissTurn(p)
    \/ \E u \in Unit : Life(u) \/ Write(u) \/ JoinTimesOut(u) \/ \E k \in Kind : Begin(u, k)
    \/ Outage \/ Back

Spec == Init /\ [][Next]_vars

(* The threads run and the operations go on; nobody has to miss a turn, a join *)
(* or the device, to write, or to begin an operation.  A transport's lock goes  *)
(* from transaction to transaction while others wait for it: one of those who   *)
(* wait gets it in the end.                                                     *)
WaiterGetsLock ==
    \/ \E p \in Thread : BatchFailed(p)
    \/ \E u \in Unit : Release(u) \/ Open(u)

FairSpec ==
    /\ Spec
    /\ \A p \in Thread : WF_vars(Step(p))
    /\ \A u \in Unit : WF_vars(Life(u))
    /\ SF_vars(WaiterGetsLock)
    /\ WF_vars(Back)
=============================================================================
