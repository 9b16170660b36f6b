------------------------------ MODULE ReplayBuffer ------------------------------
(***************************************************************************)
(* The InfluxDB publisher's store-and-forward buffer (influxdb_publisher.py):*)
(* pollers hand points to a batching client or, when it is not there, to a   *)
(* buffer; the monitor thread watches the connection, replays the buffer in  *)
(* chunks grouped by bucket and writes it to disk; close() flushes, replays  *)
(* and persists; a crash leaves what is on disk.                             *)
(*                                                                           *)
(* Abstractions.  A point is its time of production and its device; a device *)
(* writes to a bucket of its own.  Only readings that are to be written are  *)
(* produced: the rate limit and the heartbeat are left out.  The batching    *)
(* client and the server are external: a batch holds the points of a bucket  *)
(* and lands, or comes back in one step.                                     *)
(***************************************************************************)
EXTENDS Naturals, Sequences, SequencesExt, FiniteSets

CONSTANTS Device,
          Source(_),  \* the device that produces the n-th point
          MaxPoints,  \* bound: points produced
          MaxTroubles,\* bound: outages, deleted buckets, closes and crashes
          Poison,     \* the points the server refuses (400)
          Cap,        \* buffer_max_points
          Window,     \* buffer_minutes, in points
          Chunk,      \* points taken at once by a replay
          Faults,     \* "crash", "reconnect"; "slow", "overlap" (the monitor
                      \* outlives the close of an exit, of a reconnect)
          None

ASSUME BufferAssumption ==
    /\ Cap \in Nat \ {0} /\ Chunk \in Nat \ {0} /\ Window \in Nat
    /\ MaxPoints \in Nat /\ MaxTroubles \in Nat
    /\ \A n \in 1 .. MaxPoints : Source(n) \in Device

Thread == {"monitor", "closer"}
PointOf(n) == [ts |-> n, dev |-> Source(n)]
Point == {PointOf(n) : n \in 1 .. MaxPoints}
BucketOf(p) == p.dev
Writing == [p : Point, at : {"deliver", "confirm"}]

ASSUME NoneAssumption == None \notin Writing \cup {"exit", "abandon", "reconnect"}

VARIABLES
    clock,     \* points produced so far
    hold,      \* per device: the point its poller is writing
    cache,     \* per device: the point the change detection remembers
    up, gone,  \* the server answers; the buckets it does not have
    known,     \* _buckets_ok
    connected,
    queue,     \* the batching client's points
    buffer,    \* _buffer
    dirty, disk, \* _persist_dirty, the snapshot file
    pc,        \* per thread
    chunk,     \* per thread: the points it took from the buffer
    snap,      \* per thread: the snapshot it is writing
    why,       \* what close() was called for, None when it is not running
    stored, dropped, \* points on the server, points given up
    late, lost,      \* history: dropped while being written; lost with the process
    troubles

points == <<stored, dropped, late, lost>>
server == <<up, gone, troubles>>
threads == <<pc, chunk, snap, why>>
vars == <<clock, hold, cache, server, known, connected, queue, buffer, dirty, disk,
          threads, points>>

Phase == {"idle", "drain", "take", "replay", "giveback", "clear", "clearing",
          "check", "snapshot", "writing", "join", "flush", "ended"}

TypeOK ==
    /\ clock \in 0 .. MaxPoints /\ troubles \in 0 .. MaxTroubles
    /\ hold \in [Device -> Writing \cup {None}]
    /\ cache \in [Device -> Point \cup {None}]
    /\ up \in BOOLEAN /\ connected \in BOOLEAN /\ dirty \in BOOLEAN
    /\ gone \subseteq Device /\ known \subseteq Device
    /\ queue \subseteq Point
    /\ buffer \in Seq(Point) /\ disk \in Seq(Point)
    /\ pc \in [Thread -> Phase]
    /\ pc["monitor"] \notin {"join", "flush", "ended"} /\ pc["closer"] \notin {"idle", "check"}
    /\ chunk \in [Thread -> Seq(Point)] /\ snap \in [Thread -> Seq(Point)]
    /\ why \in {None, "exit", "abandon", "reconnect"}
    /\ stored \subseteq Point /\ dropped \subseteq Point
    /\ late \subseteq Point /\ lost \subseteq Point

NoHold == [d \in Device |-> None]
Nothing == [t \in Thread |-> <<>>]

Init ==
    /\ clock = 0 /\ troubles = 0
    /\ hold = NoHold /\ cache = NoHold
    /\ up = TRUE /\ gone = {} /\ known = {} /\ connected = FALSE
    /\ queue = {} /\ buffer = <<>> /\ dirty = FALSE /\ disk = <<>>
    /\ pc = [t \in Thread |-> IF t = "monitor" THEN "idle" ELSE "ended"]
    /\ chunk = Nothing /\ snap = Nothing /\ why = None
    /\ stored = {} /\ dropped = {} /\ late = {} /\ lost = {}

-----------------------------------------------------------------------------
(* The members of s that are in S, in their order (SelectSeq, whose          *)
(* definition the proofs cannot open).                                      *)
Only(s, S) ==
    LET kept[i \in 0 .. Len(s)] ==
            IF i = 0 THEN <<>>
            ELSE IF s[i] \in S THEN Append(kept[i - 1], s[i]) ELSE kept[i - 1]
    IN  kept[Len(s)]

(* The buffer's bounds.                                                     *)

Later(i, j) == IF i >= j THEN i ELSE j

(* The first point that stays: one in the window, with no more than Cap from it on. *)
FirstKept(b) ==
    LET newest == Later(b[1].ts, b[Len(b)].ts)
        inWindow == {i \in 1 .. Len(b) : b[i].ts + Window >= newest}
        aged == CHOOSE i \in inWindow : \A j \in inWindow : i <= j
    IN Later(aged, IF Len(b) > Cap THEN Len(b) - Cap + 1 ELSE 1)

(* Mutant: a drop leaves the change detection as it is. *)
ForgetNothing(gave) == cache' = cache

ForgetIfAny(gave) == cache' = IF gave = {} THEN cache ELSE NoHold

Pruned(b) == IF b = <<>> THEN b ELSE SubSeq(b, FirstKept(b), Len(b))
GivenUp(b) == ToSet(b) \ ToSet(Pruned(b))

(* _prune_buffer_locked, the buffer being b. *)
PruneTo(b) ==
    /\ buffer' = Pruned(b)
    /\ dropped' = dropped \cup GivenUp(b)
    /\ ForgetIfAny(GivenUp(b))

-----------------------------------------------------------------------------
(* Pollers: write_register_data.                                            *)
Leaving == why \in {"exit", "abandon"}

Produce(d) ==
    /\ hold[d] = None /\ clock < MaxPoints /\ d = Source(clock + 1) /\ ~Leaving
    /\ clock' = clock + 1
    /\ hold' = [hold EXCEPT ![d] = [p |-> PointOf(clock + 1), at |-> "deliver"]]
    /\ UNCHANGED <<cache, server, known, connected, queue, buffer, dirty, disk, threads, points>>

Written(d) == hold' = [hold EXCEPT ![d].at = "confirm"]

(* The write API is there from the connection to close(). *)
HasClient == connected /\ (why = None \/ pc["closer"] = "join")

Enqueue(d) ==
    /\ hold[d] # None /\ hold[d].at = "deliver" /\ HasClient
    /\ queue' = queue \cup {hold[d].p}
    /\ Written(d)
    /\ UNCHANGED <<clock, cache, server, known, connected, buffer, dirty, disk, threads, points>>

(* Not connected, or the lock of the client is taken just now. *)
BufferPoint(d) ==
    /\ hold[d] # None /\ hold[d].at = "deliver"
    /\ PruneTo(Append(buffer, hold[d].p))
    /\ dirty' = TRUE
    /\ Written(d)
    /\ UNCHANGED <<clock, server, known, connected, queue, disk, threads, stored, late, lost>>

(* _confirm_write *)
Confirm(d) ==
    /\ hold[d] # None /\ hold[d].at = "confirm"
    /\ cache' = [cache EXCEPT ![d] = hold[d].p]
    /\ late' = IF hold[d].p \in dropped THEN late \cup {hold[d].p} ELSE late
    /\ hold' = [hold EXCEPT ![d] = None]
    /\ UNCHANGED <<clock, server, known, connected, queue, buffer, dirty, disk, threads,
                   stored, dropped, lost>>

-----------------------------------------------------------------------------
(* The server and the batching client (external).                           *)
Takes(ps) == up /\ \A p \in ps : BucketOf(p) \notin gone /\ p.ts \notin Poison

ServerStops ==
    /\ up /\ troubles < MaxTroubles
    /\ up' = FALSE /\ troubles' = troubles + 1
    /\ UNCHANGED <<clock, hold, cache, gone, known, connected, queue, buffer, dirty, disk, threads, points>>

ServerStarts ==
    /\ ~up /\ up' = TRUE
    /\ UNCHANGED <<clock, hold, cache, gone, troubles, known, connected, queue, buffer, dirty, disk,
                   threads, points>>

DeleteBucket(b) ==
    /\ b \notin gone /\ troubles < MaxTroubles
    /\ gone' = gone \cup {b} /\ troubles' = troubles + 1
    /\ UNCHANGED <<clock, hold, cache, up, known, connected, queue, buffer, dirty, disk, threads, points>>

Batch(b) == {p \in queue : BucketOf(p) = b}

BatchLands(b) ==
    /\ Batch(b) # {} /\ Takes(Batch(b))
    /\ stored' = stored \cup Batch(b)
    /\ queue' = queue \ Batch(b)
    /\ UNCHANGED <<clock, hold, cache, server, known, connected, buffer, dirty, disk, threads,
                   dropped, late, lost>>

InOrder(ps) == Only([n \in 1 .. MaxPoints |-> PointOf(n)], ps)

(* _rebuffer_batch: its points go to the end of the buffer. *)
Rebuffer(b) ==
    /\ \E all \in {buffer \o InOrder(Batch(b))} : PruneTo(all)
    /\ dirty' = TRUE

(* _on_write_error, with _handle_write_error: all but a refused point end   *)
(* the connection.                                                          *)
BatchFails(b) ==
    /\ Batch(b) # {} /\ ~Takes(Batch(b))
    /\ Rebuffer(b)
    /\ queue' = queue \ Batch(b)
    /\ connected' = (connected /\ up /\ b \notin gone)
    /\ UNCHANGED <<clock, hold, server, known, disk, threads, stored, late, lost>>

-----------------------------------------------------------------------------
(* _drain_buffer, by either thread.                                         *)
At(t, phase) == pc[t] = phase
Goto(t, phase) == pc' = [pc EXCEPT ![t] = phase]

(* Where a thread goes on when a replay has nothing to do or has failed. *)
AfterReplay(t) == IF t = "monitor" THEN "check" ELSE "snapshot"

StartDrain(t) ==
    /\ At(t, "drain")
    /\ PruneTo(buffer)
    /\ Goto(t, IF buffer' = <<>> THEN AfterReplay(t) ELSE "take")
    /\ UNCHANGED <<clock, hold, server, known, connected, queue, dirty, disk, chunk, snap, why,
                   stored, late, lost>>

TakeChunk(t) ==
    /\ At(t, "take")
    /\ LET n == IF Len(buffer) < Chunk THEN Len(buffer) ELSE Chunk
       IN /\ chunk' = [chunk EXCEPT ![t] = SubSeq(buffer, 1, n)]
          /\ buffer' = SubSeq(buffer, n + 1, Len(buffer))
          /\ Goto(t, IF n = 0 THEN "clear" ELSE "replay")
    /\ UNCHANGED <<clock, hold, cache, server, known, connected, queue, dirty, disk, snap, why, points>>

(* The group of a chunk whose turn it is, and the rest. *)
Turn(t) == BucketOf(Head(chunk[t]))
Group(t) == {p \in ToSet(chunk[t]) : BucketOf(p) = Turn(t)}
Others(t) == Only(chunk[t], ToSet(chunk[t]) \ Group(t))
GroupDone(t) ==
    /\ chunk' = [chunk EXCEPT ![t] = Others(t)]
    /\ Goto(t, IF Others(t) = <<>> THEN "take" ELSE "replay")

(* ensure_bucket, for a bucket not yet seen. *)
Ensures(t) == up /\ Turn(t) \notin known
EnsureBucket(t) ==
    /\ gone' = IF Ensures(t) THEN gone \ {Turn(t)} ELSE gone
    /\ UNCHANGED <<up, troubles>>
Known(t) == IF Ensures(t) THEN known \cup {Turn(t)} ELSE known

(* A bucket found deleted is made again by the next replay. *)
KnownAfterLoss(t) == Known(t) \ {Turn(t)}

Reaches(t) == At(t, "replay") /\ up /\ (Ensures(t) \/ Turn(t) \notin gone)

ReplayGroup(t) ==
    /\ Reaches(t) /\ \A p \in Group(t) : p.ts \notin Poison
    /\ EnsureBucket(t) /\ known' = Known(t)
    /\ stored' = stored \cup Group(t)
    /\ GroupDone(t)
    /\ UNCHANGED <<clock, hold, cache, connected, queue, buffer, dirty, disk, snap, why, dropped, late, lost>>

(* Mutant: a refused group goes back to the buffer like any other. *)
RefusedStays(t) ==
    /\ Reaches(t) /\ \E p \in Group(t) : p.ts \in Poison
    /\ EnsureBucket(t) /\ known' = Known(t)
    /\ Goto(t, "giveback")
    /\ UNCHANGED <<clock, hold, cache, connected, queue, buffer, dirty, disk, chunk, snap, why, points>>

(* 400 or 422: the group is given up. *)
ReplayRefused(t) ==
    /\ Reaches(t) /\ \E p \in Group(t) : p.ts \in Poison
    /\ EnsureBucket(t) /\ known' = Known(t)
    /\ dropped' = dropped \cup Group(t)
    /\ ForgetIfAny(Group(t))
    /\ GroupDone(t)
    /\ UNCHANGED <<clock, hold, connected, queue, buffer, dirty, disk, snap, why, stored, late, lost>>

(* The bucket is gone (404) or the server is. *)
ReplayFails(t) ==
    /\ At(t, "replay") /\ ~Reaches(t)
    /\ known' = IF up THEN KnownAfterLoss(t) ELSE known
    /\ connected' = FALSE
    /\ Goto(t, "giveback")
    /\ UNCHANGED <<clock, hold, cache, server, queue, buffer, dirty, disk, chunk, snap, why, points>>

(* Mutant: only the group that failed goes back to the buffer. *)
GiveBackOne(t) ==
    /\ buffer' = Only(chunk[t], Group(t)) \o buffer
    /\ chunk' = [chunk EXCEPT ![t] = <<>>]
    /\ Goto(t, AfterReplay(t))

GiveBackGroup(t) ==
    /\ buffer' = Only(chunk[t], Group(t)) \o buffer
    /\ chunk' = [chunk EXCEPT ![t] = Others(t)]
    /\ Goto(t, IF Others(t) = <<>> THEN AfterReplay(t) ELSE "giveback")

GiveBack(t) ==
    /\ At(t, "giveback")
    /\ GiveBackGroup(t)
    /\ UNCHANGED <<clock, hold, cache, server, known, connected, queue, dirty, disk, snap, why, points>>

-----------------------------------------------------------------------------
(* _persist_buffer: after a replay that emptied the buffer ("clear"), and   *)
(* whenever it changed ("check").                                           *)
Snapshot(t) ==
    /\ pc[t] \in {"clear", "snapshot"}
    /\ snap' = [snap EXCEPT ![t] = buffer]
    /\ Goto(t, IF At(t, "clear") THEN "clearing" ELSE "writing")
    /\ UNCHANGED <<clock, hold, cache, server, known, connected, queue, buffer, dirty, disk,
                   chunk, why, points>>

WriteFile(t) ==
    /\ pc[t] \in {"clearing", "writing"}
    /\ disk' = snap[t] /\ dirty' = FALSE
    /\ snap' = [snap EXCEPT ![t] = <<>>]
    /\ Goto(t, CASE At(t, "clearing") -> AfterReplay(t)
                 [] t = "monitor" /\ ~At(t, "clearing") -> "idle"
                 [] OTHER -> "ended")
    /\ UNCHANGED <<clock, hold, cache, server, known, connected, queue, buffer, chunk, why, points>>

Check ==
    /\ At("monitor", "check")
    /\ Goto("monitor", IF dirty THEN "snapshot" ELSE "idle")
    /\ UNCHANGED <<clock, hold, cache, server, known, connected, queue, buffer, dirty, disk,
                   chunk, snap, why, points>>

(* _reconnect_loop: look at the connection, or make it. *)
Tick ==
    /\ At("monitor", "idle") /\ why = None
    /\ connected' = up
    /\ Goto("monitor", IF up THEN "drain" ELSE "check")
    /\ UNCHANGED <<clock, hold, cache, server, known, queue, buffer, dirty, disk, chunk, snap, why, points>>

-----------------------------------------------------------------------------
(* close()                                                                  *)
CloseBegins(reason) ==
    /\ why = None /\ troubles < MaxTroubles
    /\ troubles' = troubles + 1
    /\ reason = "reconnect" => "reconnect" \in Faults
    /\ reason = "exit" => hold = NoHold
    /\ why' = reason
    /\ Goto("closer", "join")
    /\ UNCHANGED <<clock, hold, cache, up, gone, known, connected, queue, buffer, dirty, disk,
                   chunk, snap, points>>

(* The monitor has ended; or the wait for it has, the server being slow to  *)
(* take a group, and it goes on meanwhile.                                  *)
Joined ==
    /\ At("closer", "join")
    /\ \/ At("monitor", "idle")
       \/ At("monitor", "replay") /\ (IF Leaving THEN "slow" ELSE "overlap") \in Faults
    /\ why' = IF Leaving /\ ~At("monitor", "idle") THEN "abandon" ELSE why
    /\ Goto("closer", "flush")
    /\ UNCHANGED <<clock, hold, cache, server, known, connected, queue, buffer, dirty, disk,
                   chunk, snap, points>>

(* Mutant: the snapshot is taken before the client has been flushed. *)
FlushedAnyway == TRUE

Flushed == queue = {}

Flush ==
    /\ At("closer", "flush") /\ Flushed
    /\ Goto("closer", IF connected THEN "drain" ELSE "snapshot")
    /\ UNCHANGED <<clock, hold, cache, server, known, connected, queue, buffer, dirty, disk,
                   chunk, snap, why, points>>

(* reconnect() goes on: the connection is tried at once. *)
Reopen ==
    /\ why = "reconnect" /\ At("closer", "ended")
    /\ why' = None /\ connected' = up
    /\ UNCHANGED <<clock, hold, cache, server, known, queue, buffer, dirty, disk, pc, chunk, snap, points>>

Chunks == UNION {ToSet(chunk[t]) : t \in Thread}
InMemory == queue \cup ToSet(buffer) \cup Chunks
            \cup {hold[d].p : d \in {x \in Device : hold[x] # None}}

(* The process starts: _load_persisted_buffer. *)
Boot ==
    /\ hold' = NoHold
    /\ known' = {} /\ connected' = FALSE /\ queue' = {} /\ dirty' = FALSE
    /\ buffer' = Pruned(disk) /\ dropped' = dropped \cup GivenUp(disk)
    /\ cache' = NoHold
    /\ pc' = [t \in Thread |-> IF t = "monitor" THEN "idle" ELSE "ended"]
    /\ chunk' = Nothing /\ snap' = Nothing /\ why' = None
    /\ UNCHANGED <<clock, up, gone, disk, stored, late>>

(* The process ends, its monitor with it, and starts again. *)
Exit ==
    /\ Leaving /\ At("closer", "ended")
    /\ lost' = IF why = "exit" THEN lost ELSE lost \cup (InMemory \ ToSet(disk))
    /\ Boot /\ UNCHANGED troubles

Crash ==
    /\ "crash" \in Faults /\ troubles < MaxTroubles
    /\ troubles' = troubles + 1
    /\ lost' = lost \cup (InMemory \ ToSet(disk))
    /\ Boot

-----------------------------------------------------------------------------
Poller(d) == Enqueue(d) \/ BufferPoint(d) \/ Confirm(d)
Client(b) == BatchLands(b) \/ BatchFails(b)
Persist(t) == Snapshot(t) \/ WriteFile(t)
Replay(t) == \/ StartDrain(t) \/ TakeChunk(t) \/ ReplayGroup(t) \/ ReplayRefused(t)
             \/ ReplayFails(t) \/ GiveBack(t)

Next ==
    \/ \E d \in Device : Produce(d) \/ Poller(d) \/ Client(d) \/ DeleteBucket(d)
    \/ ServerStops \/ ServerStarts
    \/ \E t \in Thread : Replay(t) \/ Persist(t)
    \/ Tick \/ Check
    \/ \E reason \in {"exit", "reconnect"} : CloseBegins(reason)
    \/ Joined \/ Flush \/ Reopen \/ Exit \/ Crash

Spec == Init /\ [][Next]_vars

(* Threads run, the client ends every batch, an outage ends, the service    *)
(* manager starts a process that has ended.                                 *)
FairSpec ==
    /\ Spec
    /\ WF_vars(\E d \in Device : Poller(d)) /\ WF_vars(\E b \in Device : Client(b))
    /\ WF_vars(ServerStarts)
    /\ WF_vars(Tick \/ Check \/ Replay("monitor") \/ Persist("monitor"))
    /\ WF_vars(Joined \/ Flush \/ Replay("closer") \/ Persist("closer") \/ Reopen \/ Exit)

-----------------------------------------------------------------------------
(* Properties.                                                              *)
Settled == stored \cup dropped \cup lost

(* A point a poller has handed over is never just gone: it is in the client, *)
(* in the buffer, with the thread that replays it, on the server, given up   *)
(* in the open (the bounds, a refusal) or lost with a process that crashed,  *)
(* whatever fails in between, and over a close() that had the time as well.  *)
Accounted == \A n \in 1 .. clock : PointOf(n) \in InMemory \cup Settled

(* The change detection does not remember a point that was given up, or a   *)
(* value that does not change would not be written again; a point that was  *)
(* given up while its poller was still writing it is the exception.         *)
DroppedIsForgotten ==
    \A d \in Device : cache[d] # None => cache[d] \notin dropped \ late

(* What the proof of Accounted needs besides it.  A thread has a chunk in   *)
(* hand just while it replays it or puts it back.                           *)
InHand == \A t \in Thread : chunk[t] # <<>> <=> pc[t] \in {"replay", "giveback"}

(* close() runs just when it was called.  For an exit that had the time, no *)
(* poller writes, its thread is alone, the client is flushed, and the file  *)
(* is written last.                                                         *)
LeavesClean ==
    /\ why = None => pc["closer"] = "ended"
    /\ why = "exit" =>
          /\ hold = NoHold
          /\ pc["closer"] # "join" => pc["monitor"] = "idle"
          /\ pc["closer"] \notin {"join", "flush"} => queue = {}
          /\ pc["closer"] = "writing" => snap["closer"] = buffer
          /\ pc["closer"] = "ended" => buffer = disk

(* A point whose poller has only its confirmation left is not the poller's  *)
(* any more: it is where it was delivered to, or has gone on from there.    *)
Undelivered == {hold[d].p : d \in {x \in Device : hold[x] # None /\ hold[x].at = "deliver"}}
Owed == queue \cup ToSet(buffer) \cup Chunks \cup Undelivered \cup Settled
AllOwed == \A n \in 1 .. clock : PointOf(n) \in Owed

IInv == TypeOK /\ InHand /\ LeavesClean /\ AllOwed

(* Every point is settled in the end: what the server refuses, a bucket that *)
(* was deleted and a replay that stopped half way hold nothing back for ever. *)
EverySettles == <>[] (\A n \in 1 .. clock : PointOf(n) \in Settled)
=============================================================================
