-------------------------- MODULE ReplayBufferProofs --------------------------
(***************************************************************************)
(* The replay buffer, proved for any devices, bounds, refused points and    *)
(* faults.  A point handed over is accounted for, over every failure, crash *)
(* and close; and whatever gives a point up, at the bounds, at a refusal or *)
(* at a boot, makes the change detection forget, so that a value that does  *)
(* not change is written again.                                             *)
(***************************************************************************)
EXTENDS ReplayBuffer, Integers, FiniteSetTheorems, FunctionTheorems, SequenceTheorems, TLAPS

-----------------------------------------------------------------------------
(* Sequences.                                                               *)

(* Induction, as a fact about a set of numbers: if it missed m, then n + 1   *)
(* would map its members up to m one to one into those that are not 0.      *)
LEMMA Induction ==
    ASSUME NEW T, 0 \in T, \A n \in Nat : n \in T => n + 1 \in T
    PROVE  \A n \in Nat : n \in T
<1> SUFFICES ASSUME NEW m \in Nat, m \notin T
             PROVE  FALSE
  OBVIOUS
<1> DEFINE A == {n \in 0 .. m : n \in T}
           f == [n \in A |-> n + 1]
<1>1. IsFiniteSet(A) /\ Cardinality(A) \in Nat
  <2>1. IsFiniteSet(0 .. m)
    BY FS_Interval
  <2> QED
    BY <2>1, FS_Subset, FS_CardinalityType
<1>2. IsFiniteSet(A \ {0}) /\ Cardinality(A \ {0}) = Cardinality(A) - 1
  BY <1>1, FS_RemoveElement
<1>3. f \in Injection(A, A \ {0})
  <2>1. \A n \in A : n + 1 \in A \ {0}
    BY Z3
  <2> QED
    BY <2>1 DEF Injection, IsInjective
<1>4. Cardinality(A) <= Cardinality(A \ {0})
  BY <1>2, <1>3, FS_Injection
<1> QED
  BY <1>1, <1>2, <1>4

(* The prefixes' results: a function that satisfies the recursion of Only. *)
Filters(g, s, S) ==
    g = [i \in 0 .. Len(s) |->
            IF i = 0 THEN <<>>
            ELSE IF s[i] \in S THEN Append(g[i - 1], s[i]) ELSE g[i - 1]]

LEMMA FilterExists ==
    ASSUME NEW s, Len(s) \in Nat, NEW S
    PROVE  \E g : Filters(g, s, S)
<1> DEFINE Step(h, i) == IF i = 0 THEN <<>>
                         ELSE IF s[i] \in S THEN Append(h[i - 1], s[i]) ELSE h[i - 1]
           Upto(n) == \E g : g = [i \in 0 .. n |-> Step(g, i)]
           T == {n \in Nat : Upto(n)}
<1>1. Upto(0)
  <2> DEFINE g == [i \in 0 .. 0 |-> <<>>]
  <2>1. g = [i \in 0 .. 0 |-> Step(g, i)]
    OBVIOUS
  <2> QED
    BY <2>1
<1>2. ASSUME NEW n \in Nat, Upto(n)
      PROVE  Upto(n + 1)
  <2>1. PICK g : g = [i \in 0 .. n |-> Step(g, i)]
    BY <1>2
  <2> DEFINE h == [i \in 0 .. n + 1 |-> IF i <= n THEN g[i] ELSE Step(g, i)]
  <2>2. ASSUME NEW i \in 0 .. n + 1
        PROVE  h[i] = Step(h, i)
    <3>1. CASE i = 0
      BY <3>1, <2>1
    <3>2. CASE i # 0
      <4>1. i - 1 \in 0 .. n /\ i - 1 \in 0 .. n + 1
        BY <3>2
      <4>2. h[i - 1] = g[i - 1]
        BY <4>1
      <4>3. Step(h, i) = Step(g, i)
        BY <4>2, <3>2
      <4>4. h[i] = Step(g, i)
        <5>1. CASE i <= n
          <6>1. i \in 0 .. n
            BY <5>1
          <6>2. g[i] = Step(g, i)
            BY <6>1, <2>1
          <6> QED BY <5>1, <6>2
        <5>2. CASE ~(i <= n)
          BY <5>2
        <5> QED BY <5>1, <5>2
      <4> QED BY <4>3, <4>4
    <3> QED BY <3>1, <3>2
  <2>3. h = [i \in 0 .. n + 1 |-> Step(h, i)]
    BY <2>2
  <2> QED
    BY <2>3
<1>3. \A n \in Nat : n \in T
  <2>1. 0 \in T
    BY <1>1
  <2>2. \A n \in Nat : n \in T => n + 1 \in T
    <3> HIDE DEF Upto
    <3> QED
      BY <1>2
  <2> HIDE DEF T
  <2> QED
    BY <2>1, <2>2, Induction
<1>4. Upto(Len(s))
  BY <1>3
<1> QED
  BY <1>4 DEF Filters

LEMMA OnlyFilters ==
    ASSUME NEW s, Len(s) \in Nat, NEW S
    PROVE  \E g : Filters(g, s, S) /\ Only(s, S) = g[Len(s)]
<1> DEFINE h == CHOOSE g : Filters(g, s, S)
<1>1. Filters(h, s, S)
  BY FilterExists
<1>2. Only(s, S) = h[Len(s)]
  BY DEF Only, Filters
<1> QED
  BY <1>1, <1>2

(* The two names of the library for a sequence's members.                   *)
LEMMA MembersAreRange ==
    ASSUME NEW s
    PROVE  ToSet(s) = Range(s)
BY DEF ToSet, Range

(* Only keeps what is in S: its type and its members, prefix by prefix.     *)
LEMMA OnlySelects ==
    ASSUME NEW A, NEW s \in Seq(A), NEW S
    PROVE  Only(s, S) \in Seq(A) /\ ToSet(Only(s, S)) = ToSet(s) \cap S
<1>1. PICK g : Filters(g, s, S) /\ Only(s, S) = g[Len(s)]
  BY OnlyFilters, LenProperties
<1>2. Len(s) \in Nat /\ DOMAIN s = 1 .. Len(s)
  BY LenProperties
<1> DEFINE Selects(n) ==
               n <= Len(s) =>
                   g[n] \in Seq(A) /\ Range(g[n]) = {s[i] : i \in 1 .. n} \cap S
           T == {n \in Nat : Selects(n)}
<1>3. Selects(0)
  <2>1. g[0] = <<>>
    BY <1>1, <1>2 DEF Filters
  <2> QED
    BY <2>1 DEF Range
<1>4. ASSUME NEW n \in Nat, Selects(n)
      PROVE  Selects(n + 1)
  <2> SUFFICES ASSUME n + 1 <= Len(s)
               PROVE  /\ g[n + 1] \in Seq(A)
                      /\ Range(g[n + 1]) = {s[i] : i \in 1 .. n + 1} \cap S
    OBVIOUS
  <2>1. n + 1 \in 0 .. Len(s) /\ n + 1 # 0 /\ (n + 1) - 1 = n /\ n <= Len(s) /\ n + 1 \in 1 .. Len(s)
    BY <1>2
  <2>2. g[n + 1] = IF s[n + 1] \in S THEN Append(g[n], s[n + 1]) ELSE g[n]
    BY <1>1, <2>1 DEF Filters
  <2>3. g[n] \in Seq(A) /\ Range(g[n]) = {s[i] : i \in 1 .. n} \cap S
    BY <1>4, <2>1
  <2>4. s[n + 1] \in A
    BY <2>1, ElementOfSeq
  <2>5. {s[i] : i \in 1 .. n + 1} = {s[i] : i \in 1 .. n} \cup {s[n + 1]}
    OBVIOUS
  <2>6. CASE s[n + 1] \in S
    <3>1. Append(g[n], s[n + 1]) = g[n] \o <<s[n + 1]>> /\ <<s[n + 1]>> \in Seq(A)
      BY <2>3, <2>4, AppendIsConcat
    <3>2. Range(<<s[n + 1]>>) = {s[n + 1]}
      BY DEF Range
    <3> DEFINE e == <<s[n + 1]>>
    <3>3. e \in Seq(A) /\ g[n + 1] = g[n] \o e
      BY <2>2, <2>6, <3>1
    <3> HIDE DEF e
    <3>4. g[n] \o e \in Seq(A)
      BY <2>3, <3>3, ConcatProperties
    <3>5. Range(g[n] \o e) = Range(g[n]) \cup Range(e)
      BY <2>3, <3>3, RangeConcatenation
    <3>6. Range(g[n + 1]) = Range(g[n]) \cup {s[n + 1]} /\ g[n + 1] \in Seq(A)
      BY <3>2, <3>3, <3>4, <3>5 DEF e
    <3> QED
      BY <2>3, <2>5, <2>6, <3>6
  <2>7. CASE s[n + 1] \notin S
    BY <2>2, <2>3, <2>5, <2>7
  <2> QED
    BY <2>6, <2>7
<1>5. \A n \in Nat : n \in T
  <2>1. 0 \in T
    BY <1>3
  <2>2. \A n \in Nat : n \in T => n + 1 \in T
    <3> HIDE DEF Selects
    <3> QED
      BY <1>4
  <2> HIDE DEF T
  <2> QED
    BY <2>1, <2>2, Induction
<1>6. Selects(Len(s))
  BY <1>2, <1>5
<1>7. ToSet(s) = {s[i] : i \in 1 .. Len(s)}
  BY <1>2 DEF ToSet
<1>8. g[Len(s)] \in Seq(A) /\ Range(g[Len(s)]) = ToSet(s) \cap S
  BY <1>2, <1>6, <1>7
<1> QED
  BY <1>1, <1>8, MembersAreRange

(* The members of a sequence joined from two, and of its two parts.         *)
LEMMA JoinedMembers ==
    ASSUME NEW A, NEW s \in Seq(A), NEW t \in Seq(A)
    PROVE  s \o t \in Seq(A) /\ ToSet(s \o t) = ToSet(s) \cup ToSet(t)
<1>1. Range(s \o t) = Range(s) \cup Range(t)
  BY RangeConcatenation
<1>2. s \o t \in Seq(A)
  BY ConcatProperties
<1> QED
  BY <1>1, <1>2, MembersAreRange

LEMMA AppendedMembers ==
    ASSUME NEW A, NEW s \in Seq(A), NEW e \in A
    PROVE  Append(s, e) \in Seq(A) /\ ToSet(Append(s, e)) = ToSet(s) \cup {e}
<1> DEFINE t == <<e>>
<1>1. Append(s, e) = s \o t /\ t \in Seq(A)
  BY AppendIsConcat
<1>2. ToSet(t) = {e}
  BY DEF ToSet
<1> HIDE DEF t
<1>3. s \o t \in Seq(A) /\ ToSet(s \o t) = ToSet(s) \cup ToSet(t)
  BY <1>1, JoinedMembers
<1> QED
  BY <1>1, <1>2, <1>3

LEMMA PartsOf ==
    ASSUME NEW A, NEW s \in Seq(A), NEW n \in 0 .. Len(s)
    PROVE  /\ SubSeq(s, 1, n) \in Seq(A) /\ SubSeq(s, n + 1, Len(s)) \in Seq(A)
           /\ ToSet(s) = ToSet(SubSeq(s, 1, n)) \cup ToSet(SubSeq(s, n + 1, Len(s)))
           /\ SubSeq(s, 1, n) = <<>> <=> n = 0
<1>1. Len(s) \in Nat
  BY LenProperties
<1>2. /\ SubSeq(s, 1, n) \in Seq(A) /\ SubSeq(s, n + 1, Len(s)) \in Seq(A)
      /\ Len(SubSeq(s, 1, n)) = n
  BY <1>1, SubSeqProperties, ElementOfSeq
<1>3. SubSeq(s, 1, n) \o SubSeq(s, n + 1, Len(s)) = SubSeq(s, 1, Len(s))
  <2>1. 1 \in 1 .. Len(s) + 1 /\ n \in 1 - 1 .. Len(s) /\ Len(s) \in n .. Len(s)
    BY <1>1
  <2> QED
    BY <2>1, ConcatAdjacentSubSeq
<1>4. SubSeq(s, 1, Len(s)) = s
  BY SubSeqFull
<1>5. ToSet(s) = ToSet(SubSeq(s, 1, n)) \cup ToSet(SubSeq(s, n + 1, Len(s)))
  <2> DEFINE a == SubSeq(s, 1, n)
             b == SubSeq(s, n + 1, Len(s))
  <2>1. a \in Seq(A) /\ b \in Seq(A) /\ a \o b = s
    BY <1>2, <1>3, <1>4
  <2> HIDE DEF a, b
  <2>2. ToSet(s) = ToSet(a) \cup ToSet(b)
    BY <2>1, JoinedMembers
  <2> QED
    BY <2>2 DEF a, b
<1>6. SubSeq(s, 1, n) = <<>> <=> n = 0
  <2> DEFINE a == SubSeq(s, 1, n)
  <2>1. a \in Seq(A) /\ Len(a) = n
    BY <1>2
  <2> HIDE DEF a
  <2>2. a = <<>> <=> n = 0
    BY <2>1, EmptySeq
  <2> QED
    BY <2>2 DEF a
<1> QED
  BY <1>2, <1>5, <1>6

(* A set of numbers that has a member has a least one.                      *)
LEMMA Least ==
    ASSUME NEW S \in SUBSET Nat, S # {}
    PROVE  \E m \in S : \A k \in S : m <= k
<1> SUFFICES ASSUME \A m \in S : \E k \in S : ~(m <= k)
             PROVE  FALSE
  OBVIOUS
<1> DEFINE T == {n \in Nat : \A k \in S : n <= k}
<1>1. 0 \in T
  OBVIOUS
<1>2. \A n \in Nat : n \in T => n + 1 \in T
  OBVIOUS
<1>3. \A n \in Nat : n \in T
  <2> HIDE DEF T
  <2> QED
    BY <1>1, <1>2, Induction
<1>4. PICK k \in S : TRUE
  OBVIOUS
<1>5. k + 1 \in T
  BY <1>3
<1> QED
  BY <1>5


-----------------------------------------------------------------------------
(* The buffer's bounds.                                                     *)

(* The first point that stays is one of the buffer's: some point is in the  *)
(* window, the newest one, and Cap leaves room for one.                     *)
LEMMA FirstKeptInside ==
    ASSUME NEW b \in Seq(Point), b # <<>>
    PROVE  FirstKept(b) \in 1 .. Len(b)
<1> DEFINE newest == Later(b[1].ts, b[Len(b)].ts)
           inWindow == {i \in 1 .. Len(b) : b[i].ts + Window >= newest}
           aged == CHOOSE i \in inWindow : \A j \in inWindow : i <= j
           over == IF Len(b) > Cap THEN Len(b) - Cap + 1 ELSE 1
<1>1. Len(b) \in Nat /\ Len(b) > 0
  BY EmptySeq, LenProperties
<1>2. b[1] \in Point /\ b[Len(b)] \in Point
  BY <1>1, ElementOfSeq
<1>3. \A p \in Point : p.ts \in Nat
  BY DEF Point, PointOf
<1>4. 1 \in inWindow \/ Len(b) \in inWindow
  BY <1>1, <1>2, <1>3, BufferAssumption DEF Later
<1>5. aged \in 1 .. Len(b)
  <2>1. inWindow \in SUBSET Nat /\ inWindow # {}
    BY <1>4
  <2>2. \E m \in inWindow : \A k \in inWindow : m <= k
    <3> HIDE DEF inWindow
    <3> QED
      BY <2>1, Least
  <2> QED
    BY <2>2
<1>6. over \in 1 .. Len(b)
  BY <1>1, BufferAssumption
<1>7. FirstKept(b) = Later(aged, over)
  BY DEF FirstKept
<1> HIDE DEF aged, over
<1> QED
  BY <1>5, <1>6, <1>7 DEF Later

LEMMA PrunedType ==
    ASSUME NEW b \in Seq(Point)
    PROVE  /\ Pruned(b) \in Seq(Point) /\ ToSet(b) \subseteq Point
           /\ GivenUp(b) \subseteq Point
<1>1. ToSet(b) \subseteq Point
  BY MembersAreRange, RangeOfSeq
<1>2. CASE b = <<>>
  BY <1>1, <1>2 DEF Pruned, GivenUp
<1>3. CASE b # <<>>
  <2>1. FirstKept(b) \in 1 .. Len(b) /\ Len(b) \in Nat
    BY <1>3, FirstKeptInside, LenProperties
  <2>2. FirstKept(b) - 1 \in 0 .. Len(b) /\ (FirstKept(b) - 1) + 1 = FirstKept(b)
    BY <2>1
  <2>3. SubSeq(b, (FirstKept(b) - 1) + 1, Len(b)) \in Seq(Point)
    BY <2>2, PartsOf
  <2>4. Pruned(b) \in Seq(Point)
    BY <1>3, <2>2, <2>3 DEF Pruned
  <2> QED
    BY <1>1, <2>4 DEF GivenUp
<1> QED
  BY <1>2, <1>3

(* Pruning loses nothing from sight, and types what it changes.             *)
LEMMA PruneKeeps ==
    ASSUME TypeOK, NEW b \in Seq(Point), PruneTo(b)
    PROVE  /\ buffer' \in Seq(Point) /\ dropped' \subseteq Point
           /\ cache' \in [Device -> Point \cup {None}]
           /\ ToSet(b) \subseteq ToSet(buffer') \cup dropped'
           /\ dropped \subseteq dropped'
BY PrunedType DEF PruneTo, ForgetIfAny, GivenUp, TypeOK, NoHold

(* The groups of a chunk.                                                   *)
LEMMA GroupsOf ==
    ASSUME TypeOK, NEW t \in Thread
    PROVE  /\ Group(t) \subseteq Point
           /\ Only(chunk[t], Group(t)) \in Seq(Point) /\ Others(t) \in Seq(Point)
           /\ ToSet(Only(chunk[t], Group(t))) = Group(t)
           /\ ToSet(chunk[t]) = Group(t) \cup ToSet(Others(t))
<1>1. chunk[t] \in Seq(Point)
  BY DEF TypeOK
<1>2. Group(t) \subseteq ToSet(chunk[t]) /\ ToSet(chunk[t]) \subseteq Point
  BY <1>1, PrunedType DEF Group
<1>3. /\ Only(chunk[t], Group(t)) \in Seq(Point)
      /\ ToSet(Only(chunk[t], Group(t))) = ToSet(chunk[t]) \cap Group(t)
  BY <1>1, OnlySelects
<1>4. /\ Others(t) \in Seq(Point)
      /\ ToSet(Others(t)) = ToSet(chunk[t]) \cap (ToSet(chunk[t]) \ Group(t))
  BY <1>1, OnlySelects DEF Others
<1> QED
  BY <1>2, <1>3, <1>4

(* The bucket whose turn it is belongs to a device.                         *)
LEMMA TurnType ==
    ASSUME TypeOK, NEW t \in Thread, chunk[t] # <<>>
    PROVE  Turn(t) \in Device
<1>1. Head(chunk[t]) \in Point
  <2>1. chunk[t] \in Seq(Point)
    BY DEF TypeOK
  <2> QED
    BY <2>1, HeadTailProperties
<1> QED
  BY <1>1, BufferAssumption DEF Turn, BucketOf, Point, PointOf

(* A failed batch, in the order of production.                              *)
LEMMA InOrderType ==
    ASSUME NEW ps \in SUBSET Point
    PROVE  InOrder(ps) \in Seq(Point) /\ ToSet(InOrder(ps)) = ps
<1> DEFINE all == [n \in 1 .. MaxPoints |-> PointOf(n)]
<1>1. all \in Seq(Point)
  BY BufferAssumption, SeqDef DEF Point
<1>2. ToSet(all) = Point
  BY DEF ToSet, Point
<1>3. InOrder(ps) = Only(all, ps)
  BY DEF InOrder
<1> HIDE DEF all
<1>4. InOrder(ps) \in Seq(Point) /\ ToSet(InOrder(ps)) = Point \cap ps
  BY <1>1, <1>2, <1>3, OnlySelects
<1> QED
  BY <1>4

-----------------------------------------------------------------------------
(* Nothing is lost from sight.                                              *)

(* What was owed before a step is owed after it.                            *)
LEMMA StaysOwed ==
    ASSUME AllOwed, clock' = clock, Owed \subseteq Owed'
    PROVE  AllOwed'
BY DEF AllOwed

LEMMA OwedIsAccounted == AllOwed => Accounted
<1>1. Undelivered \subseteq {hold[d].p : d \in {x \in Device : hold[x] # None}}
  BY DEF Undelivered
<1> QED
  BY <1>1 DEF AllOwed, Accounted, Owed, InMemory

(* Where the pollers and the chunks are as before.                          *)
LEMMA OthersStay ==
    ASSUME UNCHANGED <<hold, chunk>>
    PROVE  UNCHANGED <<Undelivered, Chunks>>
BY DEF Undelivered, Chunks

(* A poller's steps.                                                        *)
LEMMA ProduceKeeps ==
    ASSUME IInv, NEW d \in Device, Produce(d)
    PROVE  IInv'
<1> USE DEF IInv
<1>1. PointOf(clock + 1) \in Point /\ clock + 1 \in 0 .. MaxPoints /\ clock \in Nat
  BY BufferAssumption DEF TypeOK, Produce, Point
<1>2. TypeOK'
  BY <1>1 DEF TypeOK, Produce, Writing, server, threads, points
<1>3. InHand' /\ LeavesClean'
  BY DEF InHand, LeavesClean, Produce, Leaving, threads, points
<1>4. hold'[d] # None /\ hold'[d].p = PointOf(clock + 1) /\ hold'[d].at = "deliver"
  BY <1>1, NoneAssumption DEF TypeOK, Produce, Writing
<1>5. Undelivered \cup {PointOf(clock + 1)} \subseteq Undelivered'
  <2>1. \A x \in Device : hold[x] # None => hold'[x] = hold[x]
    BY DEF TypeOK, Produce
  <2> QED
    BY <1>4, <2>1 DEF Undelivered
<1>6. Owed \cup {PointOf(clock + 1)} \subseteq Owed'
  <2>1. UNCHANGED <<queue, buffer, Chunks, Settled>>
    BY DEF Produce, threads, points, Settled, Chunks
  <2> QED
    BY <1>5, <2>1 DEF Owed
<1>7. AllOwed'
  BY <1>1, <1>6 DEF AllOwed, Produce
<1> QED
  BY <1>2, <1>3, <1>7

LEMMA EnqueueKeeps ==
    ASSUME IInv, NEW d \in Device, Enqueue(d)
    PROVE  IInv'
<1> USE DEF IInv
<1>1. hold[d] \in Writing /\ hold # NoHold
  BY DEF TypeOK, Enqueue, NoHold
<1>2. TypeOK'
  BY <1>1 DEF TypeOK, Enqueue, Written, Writing, server, threads, points
<1>3. InHand' /\ LeavesClean'
  BY <1>1 DEF InHand, LeavesClean, Enqueue, threads, points
<1>4. Undelivered \subseteq Undelivered' \cup {hold[d].p}
  <2>1. \A x \in Device : x # d => hold'[x] = hold[x]
    BY DEF TypeOK, Enqueue, Written
  <2> QED
    BY <2>1 DEF Undelivered
<1>5. Owed \subseteq Owed'
  BY <1>4 DEF Owed, Chunks, Settled, Enqueue, threads, points
<1> QED
  BY <1>2, <1>3, <1>5, StaysOwed DEF Enqueue

LEMMA BufferPointKeeps ==
    ASSUME IInv, NEW d \in Device, BufferPoint(d)
    PROVE  IInv'
<1> USE DEF IInv
<1>1. hold[d] \in Writing /\ hold # NoHold
  BY DEF TypeOK, BufferPoint, NoHold
<1>2. /\ Append(buffer, hold[d].p) \in Seq(Point)
      /\ ToSet(Append(buffer, hold[d].p)) = ToSet(buffer) \cup {hold[d].p}
  BY <1>1, AppendedMembers DEF TypeOK, Writing
<1>3. /\ buffer' \in Seq(Point) /\ dropped' \subseteq Point
      /\ cache' \in [Device -> Point \cup {None}]
      /\ ToSet(buffer) \cup {hold[d].p} \subseteq ToSet(buffer') \cup dropped'
      /\ dropped \subseteq dropped'
  BY <1>2, PruneKeeps DEF BufferPoint
<1>4. TypeOK'
  BY <1>1, <1>3 DEF TypeOK, BufferPoint, Written, Writing, server, threads
<1>5. InHand' /\ LeavesClean'
  BY <1>1 DEF InHand, LeavesClean, BufferPoint, threads
<1>6. Undelivered \subseteq Undelivered' \cup {hold[d].p}
  <2>1. \A x \in Device : x # d => hold'[x] = hold[x]
    BY DEF TypeOK, BufferPoint, Written
  <2> QED
    BY <2>1 DEF Undelivered
<1>7. Owed \subseteq Owed'
  BY <1>3, <1>6 DEF Owed, Chunks, Settled, BufferPoint, threads
<1> QED
  BY <1>4, <1>5, <1>7, StaysOwed DEF BufferPoint

LEMMA ConfirmKeeps ==
    ASSUME IInv, NEW d \in Device, Confirm(d)
    PROVE  IInv'
<1> USE DEF IInv
<1>1. hold[d] \in Writing /\ hold # NoHold /\ hold[d].at # "deliver"
  BY DEF TypeOK, Confirm, NoHold
<1>2. TypeOK'
  BY <1>1 DEF TypeOK, Confirm, Writing, server, threads
<1>3. InHand' /\ LeavesClean'
  BY <1>1 DEF InHand, LeavesClean, Confirm, threads
<1>4. Undelivered \subseteq Undelivered'
  <2>1. \A x \in Device : x # d => hold'[x] = hold[x]
    BY DEF TypeOK, Confirm
  <2> QED
    BY <1>1, <2>1 DEF Undelivered
<1>5. Owed \subseteq Owed'
  BY <1>4 DEF Owed, Chunks, Settled, Confirm, threads
<1> QED
  BY <1>2, <1>3, <1>5, StaysOwed DEF Confirm

(* The server and the client.                                               *)
LEMMA ServerKeeps ==
    ASSUME IInv, ServerStops \/ ServerStarts \/ \E b \in Device : DeleteBucket(b)
    PROVE  IInv'
<1> USE DEF IInv
<1>1. UNCHANGED <<clock, hold, cache, known, connected, queue, buffer, dirty, disk, threads, points>>
  BY DEF ServerStops, ServerStarts, DeleteBucket
<1>2. troubles' \in 0 .. MaxTroubles
  BY BufferAssumption DEF ServerStops, ServerStarts, DeleteBucket, TypeOK
<1>3. up' \in BOOLEAN /\ gone' \subseteq Device
  BY DEF ServerStops, ServerStarts, DeleteBucket, TypeOK
<1>4. TypeOK'
  BY <1>1, <1>2, <1>3 DEF TypeOK, threads, points
<1>5. InHand' /\ LeavesClean'
  BY <1>1 DEF InHand, LeavesClean, threads, points
<1>6. Owed \subseteq Owed'
  BY <1>1 DEF Owed, Chunks, Undelivered, Settled, threads, points
<1> QED
  BY <1>1, <1>4, <1>5, <1>6, StaysOwed

LEMMA BatchLandsKeeps ==
    ASSUME IInv, NEW b \in Device, BatchLands(b)
    PROVE  IInv'
<1> USE DEF IInv
<1>1. Batch(b) \subseteq queue
  BY DEF Batch
<1>2. TypeOK'
  BY <1>1 DEF TypeOK, BatchLands, server, threads
<1>3. InHand' /\ LeavesClean'
  BY <1>1 DEF InHand, LeavesClean, BatchLands, threads
<1>4. Owed \subseteq Owed'
  BY <1>1 DEF Owed, Chunks, Undelivered, Settled, BatchLands, threads
<1> QED
  BY <1>2, <1>3, <1>4, StaysOwed DEF BatchLands

LEMMA BatchFailsKeeps ==
    ASSUME IInv, NEW b \in Device, BatchFails(b)
    PROVE  IInv'
<1> USE DEF IInv
<1>1. Batch(b) \subseteq queue /\ Batch(b) \subseteq Point /\ queue # {}
  BY DEF Batch, BatchFails, TypeOK
<1>2. /\ buffer \o InOrder(Batch(b)) \in Seq(Point)
      /\ ToSet(buffer \o InOrder(Batch(b))) = ToSet(buffer) \cup Batch(b)
  <2>1. InOrder(Batch(b)) \in Seq(Point) /\ ToSet(InOrder(Batch(b))) = Batch(b)
    BY <1>1, InOrderType
  <2> QED
    BY <2>1, JoinedMembers DEF TypeOK
<1>3. /\ buffer' \in Seq(Point) /\ dropped' \subseteq Point
      /\ cache' \in [Device -> Point \cup {None}]
      /\ ToSet(buffer) \cup Batch(b) \subseteq ToSet(buffer') \cup dropped'
      /\ dropped \subseteq dropped'
  <2>1. PruneTo(buffer \o InOrder(Batch(b)))
    BY DEF BatchFails, Rebuffer
  <2> QED
    BY <1>2, <2>1, PruneKeeps
<1>4. TypeOK'
  BY <1>1, <1>3 DEF TypeOK, BatchFails, Rebuffer, server, threads
<1>5. InHand' /\ LeavesClean'
  BY <1>1 DEF InHand, LeavesClean, BatchFails, threads
<1>6. Owed \subseteq Owed'
  BY <1>1, <1>3 DEF Owed, Chunks, Undelivered, Settled, BatchFails, threads
<1> QED
  BY <1>4, <1>5, <1>6, StaysOwed DEF BatchFails

-----------------------------------------------------------------------------
(* The replays.                                                             *)

(* Where a chunk and a thread's place change: the chunks that are there.    *)
LEMMA ChunkOf ==
    ASSUME TypeOK, NEW t \in Thread, NEW c \in Seq(Point), chunk' = [chunk EXCEPT ![t] = c]
    PROVE  /\ chunk' \in [Thread -> Seq(Point)] /\ chunk'[t] = c
           /\ ToSet(c) \subseteq Chunks' /\ Chunks \subseteq Chunks' \cup ToSet(chunk[t])
<1>1. chunk' \in [Thread -> Seq(Point)] /\ chunk'[t] = c
      /\ \A u \in Thread : u # t => chunk'[u] = chunk[u]
  BY DEF TypeOK
<1> QED
  BY <1>1 DEF Chunks

(* A thread's next place is one it can have.                                *)
LEMMA GotoType ==
    ASSUME TypeOK, NEW t \in Thread, NEW phase \in Phase, Goto(t, phase),
           t = "monitor" => phase \notin {"join", "flush", "ended"},
           t = "closer" => phase \notin {"idle", "check"}
    PROVE  /\ pc' \in [Thread -> Phase] /\ pc'[t] = phase
           /\ \A u \in Thread : u # t => pc'[u] = pc[u]
           /\ pc'["monitor"] \notin {"join", "flush", "ended"}
           /\ pc'["closer"] \notin {"idle", "check"}
BY DEF TypeOK, Goto, Thread

LEMMA AfterReplayIs ==
    ASSUME NEW t \in Thread
    PROVE  /\ AfterReplay(t) \in {"check", "snapshot"}
           /\ t = "closer" => AfterReplay(t) = "snapshot"
           /\ t = "monitor" => AfterReplay(t) = "check"
BY DEF AfterReplay, Thread

LEMMA StartDrainKeeps ==
    ASSUME IInv, NEW t \in Thread, StartDrain(t)
    PROVE  IInv'
<1> USE DEF IInv
<1>1. /\ buffer' \in Seq(Point) /\ dropped' \subseteq Point
      /\ cache' \in [Device -> Point \cup {None}]
      /\ ToSet(buffer) \subseteq ToSet(buffer') \cup dropped' /\ dropped \subseteq dropped'
  BY PruneKeeps DEF StartDrain, TypeOK
<1> DEFINE phase == IF buffer' = <<>> THEN AfterReplay(t) ELSE "take"
<1>2. phase \in {"check", "snapshot", "take"} /\ (t = "closer" => phase # "check")
  BY AfterReplayIs
<1>3. Goto(t, phase)
  BY DEF StartDrain
<1> HIDE DEF phase
<1>4. /\ pc' \in [Thread -> Phase] /\ pc'[t] = phase
      /\ \A u \in Thread : u # t => pc'[u] = pc[u]
      /\ pc'["monitor"] \notin {"join", "flush", "ended"}
      /\ pc'["closer"] \notin {"idle", "check"}
  BY <1>2, <1>3, GotoType DEF Phase
<1>5. TypeOK'
  BY <1>1, <1>4 DEF TypeOK, StartDrain, server
<1>6. InHand'
  BY <1>2, <1>4 DEF InHand, StartDrain, At
<1>7. LeavesClean'
  <2>1. UNCHANGED <<hold, queue, why, snap, disk>> /\ pc[t] = "drain"
    BY DEF StartDrain, At
  <2>2. why = "exit" /\ t = "monitor" => pc["closer"] = "join"
    BY <2>1 DEF LeavesClean
  <2> QED
    BY <1>2, <1>4, <2>1, <2>2 DEF LeavesClean, Thread
<1>8. Owed \subseteq Owed'
  BY <1>1 DEF Owed, Chunks, Undelivered, Settled, StartDrain
<1> QED
  BY <1>5, <1>6, <1>7, <1>8, StaysOwed DEF StartDrain

LEMMA TakeChunkKeeps ==
    ASSUME IInv, NEW t \in Thread, TakeChunk(t)
    PROVE  IInv'
<1> USE DEF IInv
<1> DEFINE n == IF Len(buffer) < Chunk THEN Len(buffer) ELSE Chunk
           phase == IF n = 0 THEN "clear" ELSE "replay"
<1>1. n \in 0 .. Len(buffer) /\ buffer \in Seq(Point)
  BY LenProperties, BufferAssumption DEF TypeOK
<1>2. /\ chunk' = [chunk EXCEPT ![t] = SubSeq(buffer, 1, n)]
      /\ buffer' = SubSeq(buffer, n + 1, Len(buffer))
      /\ Goto(t, phase)
  BY DEF TakeChunk
<1>3. pc[t] = "take" /\ UNCHANGED <<clock, hold, cache, server, known, connected, queue,
                                    dirty, disk, snap, why, points>>
  BY DEF TakeChunk, At
<1>4. phase \in {"clear", "replay"} /\ (phase = "replay" <=> n # 0)
  OBVIOUS
<1> HIDE DEF n, phase
<1>5. /\ SubSeq(buffer, 1, n) \in Seq(Point) /\ buffer' \in Seq(Point)
      /\ ToSet(buffer) = ToSet(SubSeq(buffer, 1, n)) \cup ToSet(buffer')
      /\ SubSeq(buffer, 1, n) = <<>> <=> n = 0
  BY <1>1, <1>2, PartsOf
<1>6. /\ pc' \in [Thread -> Phase] /\ pc'[t] = phase
      /\ \A u \in Thread : u # t => pc'[u] = pc[u]
      /\ pc'["monitor"] \notin {"join", "flush", "ended"}
      /\ pc'["closer"] \notin {"idle", "check"}
  BY <1>2, <1>4, GotoType DEF Phase
<1>7. /\ chunk' \in [Thread -> Seq(Point)] /\ chunk'[t] = SubSeq(buffer, 1, n)
      /\ ToSet(SubSeq(buffer, 1, n)) \subseteq Chunks'
      /\ Chunks \subseteq Chunks' \cup ToSet(chunk[t])
  BY <1>2, <1>5, ChunkOf
<1>8. chunk[t] = <<>> /\ ToSet(chunk[t]) = {}
  BY <1>3 DEF InHand, ToSet
<1>9. TypeOK'
  BY <1>3, <1>5, <1>6, <1>7 DEF TypeOK, server, points
<1>10. InHand'
  <2>1. \A u \in Thread : u # t => chunk'[u] = chunk[u]
    BY <1>2 DEF TypeOK
  <2> QED
    BY <1>4, <1>5, <1>6, <1>7, <2>1 DEF InHand
<1>11. LeavesClean'
  <2>1. why = "exit" /\ t = "monitor" => pc["closer"] = "join"
    BY <1>3 DEF LeavesClean
  <2> QED
    BY <1>3, <1>4, <1>6, <2>1 DEF LeavesClean, Thread
<1>12. Owed \subseteq Owed'
  BY <1>3, <1>5, <1>7, <1>8 DEF Owed, Undelivered, Settled, points
<1> QED
  BY <1>3, <1>9, <1>10, <1>11, <1>12, StaysOwed

(* A group that is done leaves the chunk.                                   *)
LEMMA GroupDoneIs ==
    ASSUME TypeOK, InHand, NEW t \in Thread, pc[t] = "replay", GroupDone(t)
    PROVE  /\ pc' \in [Thread -> Phase] /\ pc'[t] \in {"take", "replay"}
           /\ \A u \in Thread : u # t => pc'[u] = pc[u]
           /\ pc'["monitor"] \notin {"join", "flush", "ended"}
           /\ pc'["closer"] \notin {"idle", "check"}
           /\ chunk' \in [Thread -> Seq(Point)] /\ InHand'
           /\ Group(t) \subseteq Point /\ Chunks \subseteq Chunks' \cup Group(t)
<1> DEFINE phase == IF Others(t) = <<>> THEN "take" ELSE "replay"
<1>1. /\ Group(t) \subseteq Point /\ Others(t) \in Seq(Point)
      /\ ToSet(chunk[t]) = Group(t) \cup ToSet(Others(t))
  BY GroupsOf
<1>2. chunk' = [chunk EXCEPT ![t] = Others(t)] /\ Goto(t, phase)
  BY DEF GroupDone
<1>3. phase \in {"take", "replay"} /\ (phase = "replay" <=> Others(t) # <<>>)
  OBVIOUS
<1> HIDE DEF phase
<1>4. /\ pc' \in [Thread -> Phase] /\ pc'[t] = phase
      /\ \A u \in Thread : u # t => pc'[u] = pc[u]
      /\ pc'["monitor"] \notin {"join", "flush", "ended"}
      /\ pc'["closer"] \notin {"idle", "check"}
  BY <1>2, <1>3, GotoType DEF Phase
<1>5. /\ chunk' \in [Thread -> Seq(Point)] /\ chunk'[t] = Others(t)
      /\ ToSet(Others(t)) \subseteq Chunks' /\ Chunks \subseteq Chunks' \cup ToSet(chunk[t])
  BY <1>1, <1>2, ChunkOf
<1>6. InHand'
  <2>1. \A u \in Thread : u # t => chunk'[u] = chunk[u]
    BY <1>2 DEF TypeOK
  <2> QED
    BY <1>3, <1>4, <1>5, <2>1 DEF InHand
<1> QED
  BY <1>1, <1>3, <1>4, <1>5, <1>6

(* Where the thread replays, nobody is past the file of an exit.            *)
LEMMA ReplayLeavesClean ==
    ASSUME LeavesClean, NEW t \in Thread, pc[t] \in {"replay", "giveback"},
           UNCHANGED <<hold, queue, why, snap, disk>>,
           \A u \in Thread : u # t => pc'[u] = pc[u],
           pc'[t] \in {"take", "replay", "giveback", "snapshot", "check"}
    PROVE  LeavesClean'
<1>1. why = "exit" /\ t = "monitor" => pc["closer"] = "join"
  BY DEF LeavesClean
<1> QED
  BY <1>1 DEF LeavesClean, Thread

LEMMA KnownType ==
    ASSUME TypeOK, InHand, NEW t \in Thread, pc[t] = "replay"
    PROVE  /\ Known(t) \subseteq Device /\ KnownAfterLoss(t) \subseteq Device
           /\ EnsureBucket(t) => gone' \subseteq Device
<1>1. Turn(t) \in Device
  BY TurnType DEF InHand
<1> QED
  BY <1>1 DEF Known, KnownAfterLoss, EnsureBucket, TypeOK

LEMMA ReplayGroupKeeps ==
    ASSUME IInv, NEW t \in Thread, ReplayGroup(t)
    PROVE  IInv'
<1> USE DEF IInv
<1>1. pc[t] = "replay" /\ GroupDone(t) /\ stored' = stored \cup Group(t)
      /\ EnsureBucket(t) /\ known' = Known(t)
  BY DEF ReplayGroup, Reaches, At
<1>2. /\ pc' \in [Thread -> Phase] /\ pc'[t] \in {"take", "replay"}
      /\ \A u \in Thread : u # t => pc'[u] = pc[u]
      /\ pc'["monitor"] \notin {"join", "flush", "ended"}
      /\ pc'["closer"] \notin {"idle", "check"}
      /\ chunk' \in [Thread -> Seq(Point)] /\ InHand'
      /\ Group(t) \subseteq Point /\ Chunks \subseteq Chunks' \cup Group(t)
  BY <1>1, GroupDoneIs
<1>3. gone' \subseteq Device /\ known' \subseteq Device /\ UNCHANGED <<up, troubles>>
  BY <1>1, KnownType DEF EnsureBucket
<1>4. TypeOK'
  BY <1>1, <1>2, <1>3 DEF TypeOK, ReplayGroup
<1>5. LeavesClean'
  BY <1>1, <1>2, ReplayLeavesClean DEF ReplayGroup
<1>6. Owed \subseteq Owed'
  BY <1>1, <1>2 DEF Owed, Undelivered, Settled, ReplayGroup
<1> QED
  BY <1>2, <1>4, <1>5, <1>6, StaysOwed DEF ReplayGroup

LEMMA ReplayRefusedKeeps ==
    ASSUME IInv, NEW t \in Thread, ReplayRefused(t)
    PROVE  IInv'
<1> USE DEF IInv
<1>1. pc[t] = "replay" /\ GroupDone(t) /\ dropped' = dropped \cup Group(t)
      /\ EnsureBucket(t) /\ known' = Known(t)
  BY DEF ReplayRefused, Reaches, At
<1>2. /\ pc' \in [Thread -> Phase] /\ pc'[t] \in {"take", "replay"}
      /\ \A u \in Thread : u # t => pc'[u] = pc[u]
      /\ pc'["monitor"] \notin {"join", "flush", "ended"}
      /\ pc'["closer"] \notin {"idle", "check"}
      /\ chunk' \in [Thread -> Seq(Point)] /\ InHand'
      /\ Group(t) \subseteq Point /\ Chunks \subseteq Chunks' \cup Group(t)
  BY <1>1, GroupDoneIs
<1>3. gone' \subseteq Device /\ known' \subseteq Device /\ UNCHANGED <<up, troubles>>
  BY <1>1, KnownType DEF EnsureBucket
<1>4. cache' \in [Device -> Point \cup {None}]
  BY DEF ReplayRefused, ForgetIfAny, NoHold, TypeOK
<1>5. TypeOK'
  BY <1>1, <1>2, <1>3, <1>4 DEF TypeOK, ReplayRefused
<1>6. LeavesClean'
  BY <1>1, <1>2, ReplayLeavesClean DEF ReplayRefused
<1>7. Owed \subseteq Owed'
  BY <1>1, <1>2 DEF Owed, Undelivered, Settled, ReplayRefused
<1> QED
  BY <1>2, <1>5, <1>6, <1>7, StaysOwed DEF ReplayRefused

LEMMA ReplayFailsKeeps ==
    ASSUME IInv, NEW t \in Thread, ReplayFails(t)
    PROVE  IInv'
<1> USE DEF IInv
<1>1. pc[t] = "replay" /\ Goto(t, "giveback") /\ connected' = FALSE
      /\ UNCHANGED <<clock, hold, cache, server, queue, buffer, dirty, disk, chunk, snap, why, points>>
  BY DEF ReplayFails, At
<1>2. known' \subseteq Device
  BY <1>1, KnownType DEF ReplayFails, TypeOK
<1>3. /\ pc' \in [Thread -> Phase] /\ pc'[t] = "giveback"
      /\ \A u \in Thread : u # t => pc'[u] = pc[u]
      /\ pc'["monitor"] \notin {"join", "flush", "ended"}
      /\ pc'["closer"] \notin {"idle", "check"}
  BY <1>1, GotoType DEF Phase
<1>4. TypeOK'
  BY <1>1, <1>2, <1>3 DEF TypeOK, server, points
<1>5. InHand'
  BY <1>1, <1>3 DEF InHand
<1>6. LeavesClean'
  BY <1>1, <1>3, ReplayLeavesClean
<1>7. Owed \subseteq Owed'
  BY <1>1 DEF Owed, Chunks, Undelivered, Settled, points
<1> QED
  BY <1>1, <1>4, <1>5, <1>6, <1>7, StaysOwed

(* The group at the head of a chunk goes back to the front of the buffer.   *)
LEMMA GiveBackKeeps ==
    ASSUME IInv, NEW t \in Thread, GiveBack(t)
    PROVE  IInv'
<1> USE DEF IInv
<1> DEFINE phase == IF Others(t) = <<>> THEN AfterReplay(t) ELSE "giveback"
<1>1. /\ Only(chunk[t], Group(t)) \in Seq(Point) /\ Others(t) \in Seq(Point)
      /\ ToSet(Only(chunk[t], Group(t))) = Group(t)
      /\ ToSet(chunk[t]) = Group(t) \cup ToSet(Others(t))
  BY GroupsOf
<1>2. /\ pc[t] = "giveback" /\ buffer' = Only(chunk[t], Group(t)) \o buffer
      /\ chunk' = [chunk EXCEPT ![t] = Others(t)] /\ Goto(t, phase)
      /\ UNCHANGED <<clock, hold, cache, server, known, connected, queue, dirty, disk, snap, why, points>>
  BY DEF GiveBack, GiveBackGroup, At
<1>3. /\ phase \in {"check", "snapshot", "giveback"} /\ (t = "closer" => phase # "check")
      /\ phase = "giveback" <=> Others(t) # <<>>
  BY AfterReplayIs
<1> HIDE DEF phase
<1>4. buffer' \in Seq(Point) /\ ToSet(buffer') = Group(t) \cup ToSet(buffer)
  <2> DEFINE g == Only(chunk[t], Group(t))
  <2>1. g \in Seq(Point) /\ buffer \in Seq(Point) /\ buffer' = g \o buffer /\ ToSet(g) = Group(t)
    BY <1>1, <1>2 DEF TypeOK
  <2> HIDE DEF g
  <2> QED
    BY <2>1, JoinedMembers
<1>5. /\ pc' \in [Thread -> Phase] /\ pc'[t] = phase
      /\ \A u \in Thread : u # t => pc'[u] = pc[u]
      /\ pc'["monitor"] \notin {"join", "flush", "ended"}
      /\ pc'["closer"] \notin {"idle", "check"}
  BY <1>2, <1>3, GotoType DEF Phase
<1>6. /\ chunk' \in [Thread -> Seq(Point)] /\ chunk'[t] = Others(t)
      /\ ToSet(Others(t)) \subseteq Chunks' /\ Chunks \subseteq Chunks' \cup ToSet(chunk[t])
  BY <1>1, <1>2, ChunkOf
<1>7. TypeOK'
  BY <1>2, <1>4, <1>5, <1>6 DEF TypeOK, server, points
<1>8. InHand'
  <2>1. \A u \in Thread : u # t => chunk'[u] = chunk[u]
    BY <1>2 DEF TypeOK
  <2> QED
    BY <1>3, <1>5, <1>6, <2>1 DEF InHand
<1>9. LeavesClean'
  BY <1>2, <1>3, <1>5, ReplayLeavesClean
<1>10. Owed \subseteq Owed'
  BY <1>1, <1>2, <1>4, <1>6 DEF Owed, Undelivered, Settled, points
<1> QED
  BY <1>2, <1>7, <1>8, <1>9, <1>10, StaysOwed

-----------------------------------------------------------------------------
(* The file, the monitor, close() and the ends of the process.              *)

LEMMA SnapshotKeeps ==
    ASSUME IInv, NEW t \in Thread, Snapshot(t)
    PROVE  IInv'
<1> USE DEF IInv
<1> DEFINE phase == IF At(t, "clear") THEN "clearing" ELSE "writing"
<1>1. /\ pc[t] \in {"clear", "snapshot"} /\ snap' = [snap EXCEPT ![t] = buffer] /\ Goto(t, phase)
      /\ UNCHANGED <<clock, hold, cache, server, known, connected, queue, buffer, dirty, disk,
                     chunk, why, points>>
  BY DEF Snapshot
<1>2. phase \in {"clearing", "writing"}
  OBVIOUS
<1> HIDE DEF phase
<1>3. /\ pc' \in [Thread -> Phase] /\ pc'[t] = phase
      /\ \A u \in Thread : u # t => pc'[u] = pc[u]
      /\ pc'["monitor"] \notin {"join", "flush", "ended"}
      /\ pc'["closer"] \notin {"idle", "check"}
  BY <1>1, <1>2, GotoType DEF Phase
<1>4. snap' \in [Thread -> Seq(Point)] /\ snap'[t] = buffer
      /\ \A u \in Thread : u # t => snap'[u] = snap[u]
  BY <1>1 DEF TypeOK
<1>5. TypeOK'
  BY <1>1, <1>3, <1>4 DEF TypeOK, server, points
<1>6. InHand'
  BY <1>1, <1>2, <1>3 DEF InHand
<1>7. LeavesClean'
  <2>1. why = "exit" /\ t = "monitor" => pc["closer"] = "join"
    BY <1>1 DEF LeavesClean
  <2> QED
    BY <1>1, <1>2, <1>3, <1>4, <2>1 DEF LeavesClean, Thread
<1>8. Owed \subseteq Owed'
  BY <1>1 DEF Owed, Chunks, Undelivered, Settled, points
<1> QED
  BY <1>1, <1>5, <1>6, <1>7, <1>8, StaysOwed

LEMMA WriteFileKeeps ==
    ASSUME IInv, NEW t \in Thread, WriteFile(t)
    PROVE  IInv'
<1> USE DEF IInv
<1> DEFINE phase == CASE At(t, "clearing") -> AfterReplay(t)
                      [] t = "monitor" /\ ~At(t, "clearing") -> "idle"
                      [] OTHER -> "ended"
<1>1. /\ pc[t] \in {"clearing", "writing"} /\ disk' = snap[t] /\ dirty' = FALSE
      /\ snap' = [snap EXCEPT ![t] = <<>>] /\ Goto(t, phase)
      /\ UNCHANGED <<clock, hold, cache, server, known, connected, queue, buffer, chunk, why, points>>
  BY DEF WriteFile
<1>2. /\ phase \in {"check", "snapshot", "idle", "ended"}
      /\ t = "closer" => phase \in {"snapshot", "ended"}
      /\ t = "monitor" => phase \in {"check", "idle"}
      /\ phase = "ended" => pc[t] = "writing"
  <2>1. CASE At(t, "clearing")
    BY <2>1, AfterReplayIs
  <2>2. CASE t = "monitor" /\ ~At(t, "clearing")
    BY <2>2
  <2>3. CASE t # "monitor" /\ ~At(t, "clearing")
    <3>1. phase = "ended"
      BY <2>3
    <3> QED
      BY <1>1, <2>3, <3>1 DEF At, Thread
  <2> QED
    BY <2>1, <2>2, <2>3
<1> HIDE DEF phase
<1>3. /\ pc' \in [Thread -> Phase] /\ pc'[t] = phase
      /\ \A u \in Thread : u # t => pc'[u] = pc[u]
      /\ pc'["monitor"] \notin {"join", "flush", "ended"}
      /\ pc'["closer"] \notin {"idle", "check"}
  BY <1>1, <1>2, GotoType DEF Phase, Thread
<1>4. snap' \in [Thread -> Seq(Point)] /\ disk' \in Seq(Point)
      /\ \A u \in Thread : u # t => snap'[u] = snap[u]
  BY <1>1, EmptySeq DEF TypeOK
<1>5. TypeOK'
  BY <1>1, <1>3, <1>4 DEF TypeOK, server, points
<1>6. InHand'
  BY <1>1, <1>2, <1>3 DEF InHand
<1>7. LeavesClean'
  <2>1. why = "exit" /\ t = "monitor" => pc["closer"] = "join"
    BY <1>1 DEF LeavesClean
  <2> QED
    BY <1>1, <1>2, <1>3, <1>4, <2>1 DEF LeavesClean, Thread
<1>8. Owed \subseteq Owed'
  BY <1>1 DEF Owed, Chunks, Undelivered, Settled, points
<1> QED
  BY <1>1, <1>5, <1>6, <1>7, <1>8, StaysOwed

(* The monitor's look, and the connection's.                                *)
LEMMA MonitorKeeps ==
    ASSUME IInv, Tick \/ Check
    PROVE  IInv'
<1> USE DEF IInv
<1>1. PICK phase \in {"drain", "check", "snapshot", "idle"} : Goto("monitor", phase)
  BY DEF Tick, Check
<1>2. /\ UNCHANGED <<clock, hold, cache, server, known, queue, buffer, dirty, disk, chunk, snap, why, points>>
      /\ pc["monitor"] \in {"idle", "check"}
  BY DEF Tick, Check, At
<1>3. connected' \in BOOLEAN
  BY DEF Tick, Check, TypeOK
<1>4. /\ pc' \in [Thread -> Phase] /\ pc'["monitor"] = phase /\ pc'["closer"] = pc["closer"]
      /\ pc'["monitor"] \notin {"join", "flush", "ended"}
      /\ pc'["closer"] \notin {"idle", "check"}
  BY <1>1, GotoType DEF Phase, Thread
<1>5. TypeOK'
  BY <1>2, <1>3, <1>4 DEF TypeOK, server, points
<1>6. InHand'
  BY <1>1, <1>2, <1>4 DEF InHand, Thread
<1>7. LeavesClean'
  <2>1. why = "exit" => Check
    BY NoneAssumption DEF Tick
  <2>2. why = "exit" /\ Check => pc["closer"] = "join"
    BY DEF LeavesClean, Check, At
  <2> QED
    BY <1>2, <1>4, <2>1, <2>2 DEF LeavesClean
<1>8. Owed \subseteq Owed'
  BY <1>2 DEF Owed, Chunks, Undelivered, Settled, points
<1> QED
  BY <1>2, <1>5, <1>6, <1>7, <1>8, StaysOwed

(* close(), step by step; reconnect() goes on.                              *)
LEMMA CloseKeeps ==
    ASSUME IInv, \/ \E reason \in {"exit", "reconnect"} : CloseBegins(reason)
                 \/ Joined \/ Flush
    PROVE  IInv'
<1> USE DEF IInv
<1>1. PICK phase \in {"join", "flush", "drain", "snapshot"} : Goto("closer", phase)
  BY DEF CloseBegins, Joined, Flush
<1>2. UNCHANGED <<clock, hold, cache, up, gone, known, connected, queue, buffer, dirty, disk, chunk, snap, points>>
  BY DEF CloseBegins, Joined, Flush, server
<1>3. troubles' \in 0 .. MaxTroubles
  BY BufferAssumption DEF CloseBegins, Joined, Flush, server, TypeOK
<1>4. /\ why' \in {None, "exit", "abandon", "reconnect"}
      /\ why' = "exit" => \/ pc'["closer"] = "join" /\ hold = NoHold
                          \/ why = "exit" /\ pc["closer"] = "join" /\ pc["monitor"] = "idle"
                             /\ pc'["closer"] = "flush"
                          \/ why = "exit" /\ pc["closer"] = "flush" /\ queue = {}
                             /\ pc'["closer"] \in {"drain", "snapshot"}
  BY DEF CloseBegins, Joined, Flush, Flushed, Leaving, At, Goto, TypeOK, Thread
<1>5. /\ pc' \in [Thread -> Phase] /\ pc'["closer"] = phase /\ pc'["monitor"] = pc["monitor"]
      /\ pc'["monitor"] \notin {"join", "flush", "ended"}
      /\ pc'["closer"] \notin {"idle", "check"}
  BY <1>1, GotoType DEF Phase, Thread
<1>6. TypeOK'
  BY <1>2, <1>3, <1>4, <1>5 DEF TypeOK, points
<1>7. InHand'
  <2>1. pc["closer"] \notin {"replay", "giveback"}
    BY DEF CloseBegins, Joined, Flush, At, LeavesClean
  <2> QED
    BY <1>1, <1>2, <1>5, <2>1 DEF InHand, Thread
<1>8. LeavesClean'
  <2>1. why' # None
    BY NoneAssumption DEF CloseBegins, Joined, Flush, LeavesClean, At
  <2> QED
    BY <1>1, <1>2, <1>4, <1>5, <2>1 DEF LeavesClean
<1>9. Owed \subseteq Owed'
  BY <1>2 DEF Owed, Chunks, Undelivered, Settled, points
<1> QED
  BY <1>2, <1>6, <1>7, <1>8, <1>9, StaysOwed

LEMMA ReopenKeeps ==
    ASSUME IInv, Reopen
    PROVE  IInv'
<1> USE DEF IInv
<1>1. TypeOK'
  BY DEF TypeOK, Reopen, server, points
<1>2. InHand' /\ LeavesClean'
  BY NoneAssumption DEF InHand, LeavesClean, Reopen, At
<1>3. Owed \subseteq Owed'
  BY DEF Owed, Chunks, Undelivered, Settled, Reopen, points
<1> QED
  BY <1>1, <1>2, <1>3, StaysOwed DEF Reopen

(* A boot has what is on disk, in its buffer or given up.                   *)
LEMMA BootKeeps ==
    ASSUME IInv, Boot, troubles' \in 0 .. MaxTroubles, lost' \subseteq Point,
           Owed \subseteq ToSet(disk) \cup stored \cup dropped \cup lost'
    PROVE  IInv'
<1> USE DEF IInv
<1>1. /\ Pruned(disk) \in Seq(Point) /\ GivenUp(disk) \subseteq Point
      /\ ToSet(disk) \subseteq ToSet(Pruned(disk)) \cup GivenUp(disk)
  BY PrunedType DEF TypeOK, GivenUp
<1>2. NoHold \in [Device -> Writing \cup {None}] /\ NoHold \in [Device -> Point \cup {None}]
      /\ Nothing \in [Thread -> Seq(Point)]
  BY EmptySeq DEF NoHold, Nothing
<1>3. /\ pc' \in [Thread -> Phase] /\ pc'["monitor"] = "idle" /\ pc'["closer"] = "ended"
      /\ \A t \in Thread : pc'[t] \in {"idle", "ended"}
  BY DEF Boot, Thread, Phase
<1>4. TypeOK'
  BY <1>1, <1>2, <1>3 DEF TypeOK, Boot
<1>5. InHand' /\ LeavesClean'
  BY <1>3, NoneAssumption DEF InHand, LeavesClean, Boot, Nothing
<1>6. AllOwed'
  <2>1. Owed \subseteq ToSet(buffer') \cup Settled'
    BY <1>1 DEF Boot, Settled
  <2> QED
    BY <2>1 DEF AllOwed, Owed, Boot
<1> QED
  BY <1>4, <1>5, <1>6

(* What is in memory and what was not delivered are points.                 *)
LEMMA InMemoryType ==
    ASSUME TypeOK
    PROVE  InMemory \subseteq Point /\ Owed \subseteq InMemory \cup Settled
<1>1. ToSet(buffer) \subseteq Point /\ \A t \in Thread : ToSet(chunk[t]) \subseteq Point
  BY PrunedType DEF TypeOK
<1>2. \A d \in Device : hold[d] # None => hold[d].p \in Point
  BY DEF TypeOK, Writing
<1>3. Undelivered \subseteq {hold[d].p : d \in {x \in Device : hold[x] # None}}
  BY DEF Undelivered
<1> QED
  BY <1>1, <1>2, <1>3 DEF InMemory, Chunks, Owed, TypeOK

(* The process ends: what is in memory only is lost, unless the exit had    *)
(* the time to write it.                                                    *)
LEMMA EndKeeps ==
    ASSUME IInv, Exit \/ Crash
    PROVE  IInv'
<1> USE DEF IInv
<1>1. Boot /\ lost' \in {lost, lost \cup (InMemory \ ToSet(disk))}
  BY DEF Exit, Crash
<1>2. troubles' \in 0 .. MaxTroubles
  BY BufferAssumption DEF Exit, Crash, TypeOK
<1>3. lost' \subseteq Point
  BY <1>1, InMemoryType DEF TypeOK
<1>4. Owed \subseteq ToSet(disk) \cup stored \cup dropped \cup lost'
  <2>1. CASE lost' = lost \cup (InMemory \ ToSet(disk))
    BY <2>1, InMemoryType DEF Settled
  <2>2. CASE Exit /\ why = "exit"
    <3>1. /\ hold = NoHold /\ queue = {} /\ buffer = disk
          /\ pc["closer"] = "ended" /\ pc["monitor"] = "idle" /\ lost' = lost
      BY <2>2 DEF Exit, At, LeavesClean
    <3>2. \A t \in Thread : chunk[t] = <<>>
      BY <3>1 DEF InHand, Thread
    <3>3. Chunks = {} /\ Undelivered = {}
      BY <3>1, <3>2 DEF Chunks, Undelivered, NoHold, ToSet
    <3> QED
      BY <3>1, <3>3 DEF Owed, Settled
  <2> QED
    BY <2>1, <2>2 DEF Exit, Crash
<1> QED
  BY <1>1, <1>2, <1>3, <1>4, BootKeeps

LEMMA InitKeeps == Init => IInv
<1> SUFFICES ASSUME Init
             PROVE  IInv
  OBVIOUS
<1>1. NoHold \in [Device -> Writing \cup {None}] /\ NoHold \in [Device -> Point \cup {None}]
      /\ Nothing \in [Thread -> Seq(Point)] /\ <<>> \in Seq(Point)
  BY EmptySeq DEF NoHold, Nothing
<1>2. /\ pc \in [Thread -> Phase] /\ pc["monitor"] = "idle" /\ pc["closer"] = "ended"
      /\ \A t \in Thread : pc[t] \in {"idle", "ended"}
  BY DEF Init, Thread, Phase
<1>3. TypeOK
  <2>1. clock \in 0 .. MaxPoints /\ troubles \in 0 .. MaxTroubles
    BY BufferAssumption DEF Init
  <2>2. up \in BOOLEAN /\ connected \in BOOLEAN /\ dirty \in BOOLEAN
    BY DEF Init
  <2> QED
    BY <1>1, <1>2, <2>1, <2>2 DEF TypeOK, Init
<1>4. InHand /\ LeavesClean
  BY <1>2, NoneAssumption DEF InHand, LeavesClean, Init, Nothing
<1>5. AllOwed
  BY DEF AllOwed, Init
<1> QED
  BY <1>3, <1>4, <1>5 DEF IInv

LEMMA NextKeeps ==
    ASSUME IInv, [Next]_vars
    PROVE  IInv'
<1>1. ASSUME NEW d \in Device, Produce(d) \/ Poller(d) \/ Client(d) \/ DeleteBucket(d)
      PROVE  IInv'
  BY <1>1, ProduceKeeps, EnqueueKeeps, BufferPointKeeps, ConfirmKeeps, BatchLandsKeeps,
     BatchFailsKeeps, ServerKeeps DEF Poller, Client
<1>2. ASSUME NEW t \in Thread, Replay(t) \/ Persist(t)
      PROVE  IInv'
  BY <1>2, StartDrainKeeps, TakeChunkKeeps, ReplayGroupKeeps, ReplayRefusedKeeps,
     ReplayFailsKeeps, GiveBackKeeps, SnapshotKeeps, WriteFileKeeps DEF Replay, Persist
<1>3. CASE UNCHANGED vars
  <2>1. TypeOK' /\ InHand' /\ LeavesClean'
    BY <1>3 DEF IInv, TypeOK, InHand, LeavesClean, vars, server, threads, points
  <2>2. AllOwed'
    BY <1>3 DEF IInv, AllOwed, Owed, Chunks, Undelivered, Settled, vars, server, threads, points
  <2> QED
    BY <2>1, <2>2 DEF IInv
<1> QED
  BY <1>1, <1>2, <1>3, ServerKeeps, MonitorKeeps, CloseKeeps, ReopenKeeps, EndKeeps DEF Next

-----------------------------------------------------------------------------
(* The inductive invariant: types, which thread has a chunk, what close()   *)
(* has done by when, and where each point is.                               *)
THEOREM ReplayInvariant == Spec => []IInv
<1>1. IInv /\ [Next]_vars => IInv'
  BY NextKeeps
<1> QED
  BY InitKeeps, <1>1, PTL DEF Spec

(* Every variable has its type, the sequences that Only filters and the     *)
(* buffer the bounds cut among them.                                        *)
THEOREM ReplayTyped == Spec => []TypeOK
<1>1. IInv => TypeOK
  BY DEF IInv
<1> QED
  BY <1>1, ReplayInvariant, PTL

(* A point a poller handed over is never just gone, whatever fails in the   *)
(* replay, over a crash and over a close() (_drain_buffer's put-back,       *)
(* _rebuffer_batch, close()'s flush, replay and file, the load at boot).    *)
THEOREM ReplayAccounts == Spec => []Accounted
<1>1. IInv => Accounted
  BY OwedIsAccounted DEF IInv
<1> QED
  BY <1>1, ReplayInvariant, PTL

-----------------------------------------------------------------------------
(* What is given up is forgotten.                                           *)

(* The cache is a function of the device, and remembers nothing given up    *)
(* but what was given up while its poller was still writing it.             *)
Forgets == cache = [d \in Device |-> cache[d]] /\ DroppedIsForgotten

(* Where nothing is given up, and where something is and all is forgotten.  *)
LEMMA ForgetsStays ==
    ASSUME Forgets, late \subseteq late',
           (cache' = cache /\ dropped' = dropped) \/ cache' = NoHold
    PROVE  Forgets'
BY DEF Forgets, DroppedIsForgotten, NoHold

(* The bounds' pruning forgets if it gives a point up.                      *)
LEMMA PruneForgets ==
    ASSUME NEW b, PruneTo(b)
    PROVE  (cache' = cache /\ dropped' = dropped) \/ cache' = NoHold
BY DEF PruneTo, ForgetIfAny

(* A poller's confirmation: a point given up meanwhile is noted as late.    *)
LEMMA ConfirmForgets ==
    ASSUME Forgets, NEW d \in Device, Confirm(d)
    PROVE  Forgets'
<1>1. /\ cache' = [cache EXCEPT ![d] = hold[d].p] /\ dropped' = dropped
      /\ late' = IF hold[d].p \in dropped THEN late \cup {hold[d].p} ELSE late
  BY DEF Confirm
<1>2. \A x \in Device : cache'[x] = IF x = d THEN hold[d].p ELSE cache[x]
  BY <1>1 DEF Forgets
<1>3. cache' = [x \in Device |-> cache'[x]]
  BY <1>1 DEF Forgets
<1> QED
  BY <1>1, <1>2, <1>3 DEF Forgets, DroppedIsForgotten

(* A replay, by either thread, forgets with a refused group.                *)
LEMMA ReplayForgets ==
    ASSUME Forgets, NEW t \in Thread, Replay(t) \/ Persist(t)
    PROVE  Forgets'
<1>1. CASE StartDrain(t)
  BY <1>1, PruneForgets, ForgetsStays DEF StartDrain
<1>2. CASE ReplayRefused(t)
  <2>1. /\ dropped' = dropped \cup Group(t) /\ late' = late
        /\ ForgetIfAny(Group(t))
    BY <1>2 DEF ReplayRefused
  <2> QED
    BY <2>1, ForgetsStays DEF ForgetIfAny
<1>3. CASE TakeChunk(t) \/ ReplayGroup(t) \/ ReplayFails(t) \/ GiveBack(t) \/ Persist(t)
  <2>1. UNCHANGED <<cache, dropped, late>>
    BY <1>3 DEF TakeChunk, ReplayGroup, ReplayFails, GiveBack, Persist, Snapshot, WriteFile, points
  <2> QED
    BY <2>1, ForgetsStays
<1> QED
  BY <1>1, <1>2, <1>3 DEF Replay

(* Every step keeps it.                                                     *)
LEMMA ForgetsNext ==
    ASSUME Forgets, [Next]_vars
    PROVE  Forgets'
<1>1. ASSUME NEW d \in Device, BufferPoint(d) \/ BatchFails(d)
      PROVE  Forgets'
  <2>1. late' = late /\ \E b : PruneTo(b)
    BY <1>1 DEF BufferPoint, BatchFails, Rebuffer
  <2> QED
    BY <2>1, PruneForgets, ForgetsStays
<1>2. ASSUME NEW d \in Device, Produce(d) \/ Enqueue(d) \/ BatchLands(d) \/ DeleteBucket(d)
      PROVE  Forgets'
  <2>1. UNCHANGED <<cache, dropped, late>>
    BY <1>2 DEF Produce, Enqueue, BatchLands, DeleteBucket, points
  <2> QED
    BY <2>1, ForgetsStays
<1>3. CASE \/ ServerStops \/ ServerStarts \/ Tick \/ Check \/ Joined \/ Flush \/ Reopen
           \/ (\E reason \in {"exit", "reconnect"} : CloseBegins(reason)) \/ UNCHANGED vars
  <2>1. UNCHANGED <<cache, dropped, late>>
    BY <1>3 DEF ServerStops, ServerStarts, Tick, Check, Joined, Flush, Reopen, CloseBegins, vars, points
  <2> QED
    BY <2>1, ForgetsStays
<1>4. CASE Exit \/ Crash
  <2>1. late' = late /\ cache' = NoHold
    BY <1>4 DEF Exit, Crash, Boot
  <2> QED
    BY <2>1, ForgetsStays
<1> QED
  BY <1>1, <1>2, <1>3, <1>4, ConfirmForgets, ReplayForgets DEF Next, Poller, Client

(* The change detection never remembers a point that was given up, but one  *)
(* given up while its poller was still writing it (_prune_buffer_locked,    *)
(* _drain_buffer's refusals and the load at boot, each with                 *)
(* _invalidate_change_cache, against _confirm_write).                       *)
THEOREM ReplayForgetsDropped == Spec => []DroppedIsForgotten
<1>1. Init => Forgets
  BY DEF Init, Forgets, DroppedIsForgotten, NoHold
<1>2. Forgets /\ [Next]_vars => Forgets'
  BY ForgetsNext
<1>3. Forgets => DroppedIsForgotten
  BY DEF Forgets
<1> QED
  BY <1>1, <1>2, <1>3, PTL DEF Spec
=============================================================================
