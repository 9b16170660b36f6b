------------------------- MODULE VirtualMeterProofs -------------------------
(***************************************************************************)
(* The virtual meter, proved for any rows, sources, bounds, policies and   *)
(* troubles.  What can be read between two passes is in date: only the     *)
(* server whose words the supervisor feeds, and whose close it can ask     *)
(* for, answers, and a pass leaves it fed or ends it.  And the legacy      *)
(* meter's guard against the seed of a new block: a server is only ever    *)
(* started once every row has had a value.                                 *)
(***************************************************************************)
EXTENDS VirtualMeter, Integers, FiniteSetTheorems, FunctionTheorems, TLAPS

-----------------------------------------------------------------------------
(* Numbers.                                                                *)

(* Induction, as a fact about a set of numbers: if it missed m, then n + 1   *)
(* would map its members up to m one to one into those that are not 0.      *)
LEMMA Induction ==
    ASSUME NEW T, 0 \in T, \A n \in Nat : n \in T => n + 1 \in T
    PROVE  \A n \in Nat : n \in T
<1> SUFFICES ASSUME NEW m \in Nat, m \notin T
             PROVE  FALSE
  OBVIOUS
<1> DEFINE A == {n \in 0 .. m : n \in T}
           f == [n \in A |-> n + 1]
<1>1. IsFiniteSet(A) /\ Cardinality(A) \in Nat
  <2>1. IsFiniteSet(0 .. m)
    BY FS_Interval
  <2> QED
    BY <2>1, FS_Subset, FS_CardinalityType
<1>2. IsFiniteSet(A \ {0}) /\ Cardinality(A \ {0}) = Cardinality(A) - 1
  BY <1>1, FS_RemoveElement
<1>3. f \in Injection(A, A \ {0})
  <2>1. \A n \in A : n + 1 \in A \ {0}
    BY Z3
  <2> QED
    BY <2>1 DEF Injection, IsInjective
<1>4. Cardinality(A) <= Cardinality(A \ {0})
  BY <1>2, <1>3, FS_Injection
<1> QED
  BY <1>1, <1>2, <1>4

(* A set of numbers that has a member has a least one.                      *)
LEMMA Least ==
    ASSUME NEW S \in SUBSET Nat, S # {}
    PROVE  \E m \in S : \A k \in S : m <= k
<1> SUFFICES ASSUME \A m \in S : \E k \in S : ~(m <= k)
             PROVE  FALSE
  OBVIOUS
<1> DEFINE T == {n \in Nat : \A k \in S : n <= k}
<1>1. 0 \in T
  OBVIOUS
<1>2. \A n \in Nat : n \in T => n + 1 \in T
  OBVIOUS
<1>3. \A n \in Nat : n \in T
  <2> HIDE DEF T
  <2> QED
    BY <1>1, <1>2, Induction
<1>4. PICK k \in S : TRUE
  OBVIOUS
<1>5. k + 1 \in T
  BY <1>3
<1> QED
  BY <1>5


LEMMA MinIs ==
    ASSUME NEW S \in SUBSET Nat, S # {}
    PROVE  Min(S) \in S /\ \A k \in S : Min(S) <= k
<1>1. \E m \in S : \A k \in S : m <= k
  BY Least
<1> QED
  BY <1>1 DEF Min

(* A period more, up to where counting stops; what is no age stays.        *)
LEMMA OlderIs ==
    ASSUME NEW a, NEW cap \in Nat
    PROVE  /\ a \in Nat => /\ Older(a, cap) \in 0 .. cap
                           /\ Older(a, cap) <= a + 1
           /\ a \notin Nat => Older(a, cap) = a
<1>1. CASE a \in Nat
  <2>1. {a + 1, cap} \in SUBSET Nat /\ {a + 1, cap} # {}
    BY <1>1
  <2>2. Min({a + 1, cap}) \in {a + 1, cap} /\ \A k \in {a + 1, cap} : Min({a + 1, cap}) <= k
    BY <2>1, MinIs
  <2> QED
    BY <1>1, <2>2 DEF Older
<1>2. CASE a \notin Nat
  BY <1>2 DEF Older
<1> QED
  BY <1>1, <1>2

LEMMA AtMost ==
    ASSUME NEW a \in Nat, NEW b \in Nat
    PROVE  Min({a, b}) \in 0 .. b
<1>1. Min({a, b}) \in {a, b} /\ \A k \in {a, b} : Min({a, b}) <= k
  BY MinIs
<1> QED
  BY <1>1

-----------------------------------------------------------------------------
(* What a row's sources give.                                              *)

LEMMA ResolvedIs ==
    ASSUME TypeOK, NEW r \in Row
    PROVE  /\ Resolved(r) \in Age \cup {None}
           /\ Known(r) # {} => Resolved(r) \in Age
           /\ InDate(r) => Resolved(r) \in Age /\ Resolved(r) <= Bound
<1>1. Feeds[r] \in Seq(Source) /\ Known(r) \in SUBSET Nat /\ FreshIn(r) \subseteq Known(r)
  BY MeterAssumption DEF Known, FreshIn
<1>2. \A i \in Known(r) : age[Feeds[r][i]] \in Age
  <2>1. \A i \in DOMAIN Feeds[r] : Feeds[r][i] \in Source
    BY <1>1
  <2> QED
    BY <2>1 DEF Known, TypeOK
<1>3. CASE Known(r) = {}
  BY <1>1, <1>3 DEF Resolved, InDate
<1>4. CASE Known(r) # {} /\ FreshIn(r) = {}
  BY <1>1, <1>2, <1>4, MinIs DEF Resolved, InDate
<1>5. CASE FreshIn(r) # {}
  <2>1. FreshIn(r) \in SUBSET Nat
    BY <1>1
  <2>2. Min(FreshIn(r)) \in FreshIn(r)
    BY <1>5, <2>1, MinIs
  <2>3. Resolved(r) = age[Feeds[r][Min(FreshIn(r))]]
    BY <1>1, <1>5 DEF Resolved
  <2> QED
    BY <1>1, <1>2, <2>2, <2>3 DEF FreshIn
<1> QED
  BY <1>3, <1>4, <1>5

LEMMA LimitIs ==
    /\ Limit \in Nat /\ Bound \in Nat /\ Hold \in Nat /\ LongNap \in Nat /\ Bound <= Limit
    /\ Lag \in Nat \ {0} /\ Lag <= LongNap
    /\ Bound + Hold + 1 <= Old /\ Bound + 1 <= Old /\ Limit <= Old /\ Old \in Nat
BY MeterAssumption DEF Limit, Lag

-----------------------------------------------------------------------------
(* The steps.                                                              *)

(* A meter that is down is served by nobody.                               *)
LEMMA DownServesNot ==
    ASSUME TypeOK, OneServer, ~Alive
    PROVE  \A t \in Thread : ~Serves(t)
BY ValueAssumption DEF Alive, OneServer, Serves

(* A step that changes the gateway's values only.                          *)
LEMMA ValuesKeep ==
    ASSUME IInv, NEW s \in Source, Publish(s) \/ Lose(s)
    PROVE  IInv'
<1> USE DEF IInv
<1>1. UNCHANGED <<policy, block, keeper, net, troubles>>
  BY DEF Publish, Lose
<1>2. age' \in [Source -> Age \cup {None}]
  BY LimitIs DEF Publish, Lose, TypeOK, Age
<1>3. TypeOK'
  BY <1>1, <1>2 DEF TypeOK, block, keeper, net
<1>4. OneServer' /\ WordsAreOut'
  BY <1>1 DEF OneServer, WordsAreOut, Serves, Listening, block, keeper, net
<1>5. BlockFits'
  BY <1>1 DEF BlockFits, Fits, Serves, Limit, Lag, block, keeper, net
<1> QED
  BY <1>3, <1>4, <1>5

(* A period: every word grows older alike, and the supervisor's rest is    *)
(* shorter by as much.                                                     *)
LEMMA TickKeeps ==
    ASSUME IInv, Tick
    PROVE  IInv'
<1> USE DEF IInv
<1>1. /\ UNCHANGED <<policy, spans, seen, fresh, sup, running, active, server, sim, th, shut, troubles>>
      /\ out' = [r \in Row |-> Older(out[r], Old)]
      /\ words' = [t \in Thread |-> [r \in Row |-> Older(words[t][r], Old)]]
      /\ nap' = IF sup = "rest" THEN nap - 1 ELSE nap
      /\ starts' = [starts EXCEPT !.wait = IF @ > 0 THEN @ - 1 ELSE 0]
      /\ \A t \in Thread : th[t] # "building"
      /\ sup \in {"rest", "closing"} /\ (sup = "rest" => nap > 0)
  BY DEF Tick
<1>2. nap \in 0 .. LongNap /\ nap' \in 0 .. LongNap
  BY <1>1, LimitIs DEF TypeOK
<1>3. starts' \in [pending : BOOLEAN, fails : 0 .. GiveUp, wait : 0 .. RetryWait, probes : 0 .. ProbeLimit]
      /\ starts'.fails = starts.fails
  <2> DEFINE w == IF starts.wait > 0 THEN starts.wait - 1 ELSE 0
  <2>1. w \in 0 .. RetryWait
    <3>1. starts.wait \in 0 .. RetryWait /\ RetryWait \in Nat
      BY MeterAssumption DEF TypeOK
    <3> QED
      BY <3>1
  <2>2. starts' = [starts EXCEPT !.wait = w]
    BY <1>1
  <2> HIDE DEF w
  <2> QED
    BY <2>1, <2>2 DEF TypeOK
<1>4. \A r \in Row : out'[r] = Older(out[r], Old)
  BY <1>1
<1>5. \A t \in Thread, r \in Row : words'[t][r] = Older(words[t][r], Old)
  BY <1>1
<1>6. TypeOK'
  <2>1. out' \in [Row -> Age \cup {NA, Gap}]
    BY <1>1, OlderIs, LimitIs, ValueAssumption DEF TypeOK, Age
  <2>2. good' \in [Row -> Age \cup {None}]
    <3>1. good' = [r \in Row |-> Older(good[r], Bound + Hold + 1)]
      BY DEF Tick
    <3>2. \A r \in Row : Older(good[r], Bound + Hold + 1) \in Age \cup {None}
      BY OlderIs, LimitIs, ValueAssumption DEF TypeOK, Age
    <3> QED
      BY <3>1, <3>2
  <2>3. age' \in [Source -> Age \cup {None}]
    <3>1. age' = [s \in Source |-> Older(age[s], Bound + 1)]
      BY DEF Tick
    <3>2. \A s \in Source : Older(age[s], Bound + 1) \in Age \cup {None}
      BY OlderIs, LimitIs, ValueAssumption DEF TypeOK, Age
    <3> QED
      BY <3>1, <3>2
  <2>4. words' \in [Thread -> [Row -> Word]]
    <3>1. \A t \in Thread, r \in Row : Older(words[t][r], Old) \in Word
      BY OlderIs, LimitIs, ValueAssumption DEF TypeOK, Word, Age
    <3> QED
      BY <1>1, <3>1
  <2> QED
    BY <1>1, <1>2, <1>3, <2>1, <2>2, <2>3, <2>4 DEF TypeOK
<1>7. OneServer'
  BY <1>1 DEF OneServer, Serves, Listening
<1>8. BlockFits'
  <2>1. Limit' = Limit /\ Lag' = Lag /\ \A t \in Thread : Serves(t)' = Serves(t)
    BY <1>1, <1>3 DEF Limit, Lag, Serves
  <2>2. ASSUME sup = "rest", \E t \in Thread : Serves(t), NEW r \in Row
        PROVE  Fits(r, Lag - nap)'
    <3>1. Fits(r, Lag - nap)
      BY <2>2 DEF BlockFits
    <3>2. nap' = nap - 1
      BY <1>1, <2>2
    <3>3. Lag - nap' = (Lag - nap) + 1 /\ Lag \in Nat
      BY <1>2, <3>2, LimitIs
    <3>4. out'[r] = Older(out[r], Old)
      BY <1>4
    <3>5. CASE out[r] \in Nat
      <4>1. out'[r] \in Age /\ out'[r] <= out[r] + 1
        BY <3>4, <3>5, OlderIs, LimitIs DEF Age
      <4>2. out[r] <= Limit + (Lag - nap) => out'[r] <= Limit + (Lag - nap')
        BY <1>2, <3>2, <3>5, <4>1, LimitIs DEF Age
      <4> QED
        BY <1>1, <2>1, <3>1, <3>5, <4>1, <4>2, ValueAssumption DEF Fits
    <3>6. CASE out[r] \notin Nat
      <4>1. out'[r] = out[r]
        BY <3>4, <3>6, OlderIs, LimitIs
      <4> QED
        BY <1>1, <3>1, <3>6, <4>1 DEF Fits, Age
    <3> QED
      BY <3>5, <3>6
  <2> QED
    BY <1>1, <2>1, <2>2 DEF BlockFits
<1>9. WordsAreOut'
  <2>1. ASSUME sup = "rest", NEW t \in Thread, Serves(t), NEW r \in Row
        PROVE  out'[r] = Gap \/ words'[t][r] = out'[r]
    <3>1. out[r] = Gap \/ words[t][r] = out[r]
      BY <2>1 DEF WordsAreOut
    <3> QED
      BY <1>4, <1>5, <3>1, OlderIs, LimitIs, ValueAssumption
  <2> QED
    BY <1>1, <2>1 DEF WordsAreOut, Serves
<1> QED
  BY <1>6, <1>7, <1>8, <1>9

(* What the supervisor counts, and how it goes to rest.                    *)
Counters == [pending : BOOLEAN, fails : 0 .. GiveUp, wait : 0 .. RetryWait,
             probes : 0 .. ProbeLimit]

LEMMA AgainIs ==
    ASSUME NEW c \in Counters
    PROVE  Again(c) \in Counters
<1>1. GiveUp \in Nat /\ RetryWait \in Nat
  BY MeterAssumption
<1> DEFINE f == Min({c.fails + 1, GiveUp})
           w == IF f >= GiveUp THEN RetryWait ELSE 0
<1>2. f \in 0 .. GiveUp
  <2>1. c.fails + 1 \in Nat
    BY <1>1 DEF Counters
  <2> QED
    BY <1>1, <2>1, AtMost
<1>3. w \in 0 .. RetryWait
  BY <1>1
<1>4. Again(c) = [c EXCEPT !.fails = f, !.wait = w]
  BY DEF Again
<1> HIDE DEF f, w
<1> QED
  BY <1>2, <1>3, <1>4 DEF Counters

LEMMA NoticedIs ==
    ASSUME TypeOK
    PROVE  Noticed \in Counters
<1>1. starts \in Counters
  BY DEF TypeOK, Counters
<1>2. [starts EXCEPT !.pending = FALSE] \in Counters
  BY <1>1 DEF Counters
<1> QED
  BY <1>1, <1>2, AgainIs DEF Noticed

LEMMA SleepsIs ==
    ASSUME NEW c \in Counters, Sleeps(c)
    PROVE  /\ starts' \in Counters /\ sup' = "rest"
           /\ nap' \in 0 .. LongNap /\ Lag' - nap' = 0
BY MeterAssumption DEF Sleeps, Lag, Counters

(* Nobody serves, and no thread is being built: nothing is asked of the    *)
(* block or of the words.                                                  *)
LEMMA IdleFits ==
    ASSUME sup # "swap", sup # "judge", \A t \in Thread : ~Serves(t) /\ th[t] # "building"
    PROVE  BlockFits /\ WordsAreOut
BY DEF BlockFits, WordsAreOut

(* The rebuild: what it leaves in the block is in date, or refused.        *)
LEMMA RebuildKeeps ==
    ASSUME IInv, Rebuild
    PROVE  IInv'
<1> USE DEF IInv
<1>1. /\ sup = "rest" /\ nap = 0 /\ sup' \in {"swap", "judge"}
      /\ UNCHANGED <<policy, age, spans, nap, starts, net, troubles>>
  BY DEF Rebuild, values
<1>2. \A t \in Thread : th[t] # "building"
  BY <1>1 DEF OneServer
<1>3. OneServer'
  BY <1>1, <1>2 DEF OneServer, Serves, Listening, net
<1>4. WordsAreOut'
  BY <1>1 DEF WordsAreOut
<1>5. CASE policy = "legacy"
  <2>1. /\ out' = [r \in Row |-> IF Resolved(r) = None THEN Gap ELSE Resolved(r)]
        /\ seen' = seen \cup {r \in Row : Resolved(r) # None}
        /\ fresh' = LegacyFresh /\ sup' = "judge" /\ good' = good
    BY <1>5 DEF Rebuild
  <2>2. TypeOK'
    <3>1. out' \in [Row -> Age \cup {NA, Gap}]
      BY <2>1, ResolvedIs
    <3>2. fresh' \in BOOLEAN
      BY <2>1 DEF LegacyFresh
    <3> QED
      BY <1>1, <2>1, <3>1, <3>2 DEF TypeOK, net
  <2>3. ASSUME fresh', NEW r \in Row
        PROVE  Fits(r, 0)'
    <3>1. LegacyFresh /\ out'[r] = IF Resolved(r) = None THEN Gap ELSE Resolved(r)
      BY <2>1, <2>3
    <3>2. Limit' = Limit /\ policy' = "legacy"
      BY <1>1, <1>5 DEF Limit
    <3>3. CASE Resolved(r) = None
      BY <3>1, <3>2, <3>3 DEF Fits
    <3>4. CASE Resolved(r) # None /\ r \in Pinned
      BY <3>2, <3>4 DEF Fits
    <3>5. CASE Resolved(r) # None /\ r \notin Pinned
      <4>1. InDate(r)
        BY <3>1, <3>5 DEF LegacyFresh
      <4>2. out'[r] \in Age /\ out'[r] <= Bound
        BY <3>1, <3>5, <4>1, ResolvedIs
      <4>3. out'[r] <= Limit + 0
        BY <4>2, LimitIs DEF Age
      <4> QED
        BY <3>2, <4>2, <4>3 DEF Fits
    <3> QED
      BY <3>3, <3>4, <3>5
  <2>4. BlockFits'
    BY <1>1, <1>5, <2>1, <2>3 DEF BlockFits
  <2> QED
    BY <1>3, <1>4, <2>2, <2>4
<1>6. CASE policy # "legacy"
  <2>1. /\ out' = [r \in Row |-> PolicyWord(r)]
        /\ good' = [r \in Row |-> IF InDate(r) THEN Resolved(r) ELSE good[r]]
        /\ fresh' = PolicyFresh /\ sup' = "swap" /\ seen' = seen
    BY <1>6 DEF Rebuild
  <2>2. \A r \in Row : good[r] \in Age \cup {None}
    BY DEF TypeOK
  <2>3. ASSUME NEW r \in Row
        PROVE  /\ PolicyWord(r) \in Age \cup {NA, Gap}
               /\ \/ PolicyWord(r) = Gap
                  \/ PolicyWord(r) = NA /\ policy = "sentinel"
                  \/ /\ PolicyWord(r) \in Age
                     /\ r \in Pinned \/ PolicyWord(r) <= Limit
    <3>1. CASE InDate(r)
      <4>1. PolicyWord(r) = Resolved(r) /\ Resolved(r) \in Age /\ Resolved(r) <= Bound
        BY <3>1, ResolvedIs DEF PolicyWord
      <4>2. PolicyWord(r) <= Limit
        BY <4>1, LimitIs DEF Age
      <4> QED
        BY <4>1, <4>2
    <3>2. CASE ~InDate(r) /\ Held(r)
      <4>1. PolicyWord(r) = good[r] /\ good[r] \in Age
        BY <2>2, <3>2 DEF PolicyWord, Held
      <4>2. r \in Pinned \/ good[r] <= Limit
        BY <3>2 DEF Held, Limit
      <4> QED
        BY <4>1, <4>2
    <3>3. CASE ~InDate(r) /\ ~Held(r)
      BY <3>3 DEF PolicyWord
    <3> QED
      BY <3>1, <3>2, <3>3
  <2>4. TypeOK'
    <3>1. out' \in [Row -> Age \cup {NA, Gap}]
      BY <2>1, <2>3
    <3>2. good' \in [Row -> Age \cup {None}]
      BY <2>1, <2>2, ResolvedIs
    <3>3. fresh' \in BOOLEAN
      BY <2>1 DEF PolicyFresh
    <3> QED
      BY <1>1, <2>1, <3>1, <3>2, <3>3 DEF TypeOK, net
  <2>5. ASSUME NEW r \in Row
        PROVE  out'[r] = Gap \/ Fits(r, 0)'
    <3>1. out'[r] = PolicyWord(r) /\ policy' = policy /\ Limit' = Limit
      BY <1>1, <2>1 DEF Limit
    <3>2. out'[r] \in Age /\ out'[r] <= Limit => out'[r] <= Limit + 0
      BY LimitIs DEF Age
    <3> QED
      BY <1>6, <2>3, <3>1, <3>2 DEF Fits
  <2>6. BlockFits'
    BY <1>1, <1>6, <2>1, <2>5 DEF BlockFits
  <2> QED
    BY <1>3, <1>4, <2>4, <2>6
<1> QED
  BY <1>5, <1>6

(* The swap: every address the rebuild left out is refused.                *)
LEMMA SwapKeeps ==
    ASSUME IInv, SwapSpans
    PROVE  IInv'
<1> USE DEF IInv
<1>1. /\ sup = "swap" /\ sup' = "judge" /\ spans' = {r \in Row : out[r] = Gap}
      /\ UNCHANGED <<policy, age, out, good, seen, fresh, nap, starts, net, troubles>>
  BY DEF SwapSpans, values
<1>2. TypeOK'
  BY <1>1 DEF TypeOK, net
<1>3. OneServer' /\ WordsAreOut'
  BY <1>1 DEF OneServer, WordsAreOut, Serves, Listening, net
<1>4. ASSUME NEW r \in Row
      PROVE  Fits(r, 0)'
  <2>1. out[r] = Gap \/ Fits(r, 0)
    BY <1>1 DEF BlockFits
  <2>2. Limit' = Limit
    BY <1>1 DEF Limit
  <2> QED
    BY <1>1, <2>1, <2>2 DEF Fits
<1>5. BlockFits'
  BY <1>1, <1>4 DEF BlockFits
<1> QED
  BY <1>2, <1>3, <1>5

(* A pass that found the block fit, and rests.                             *)
LEMMA PassFits ==
    ASSUME IInv, sup = "judge", fresh, NEW c \in Counters, Sleeps(c),
           UNCHANGED <<policy, out, spans>>
    PROVE  BlockFits'
<1>1. sup' = "rest" /\ Lag' - nap' = 0
  BY SleepsIs
<1>2. ASSUME NEW r \in Row
      PROVE  Fits(r, Lag - nap)'
  <2>1. Fits(r, 0)
    BY DEF IInv, BlockFits
  <2>2. Limit' = Limit
    BY DEF Limit
  <2> QED
    BY <1>1, <2>1, <2>2 DEF Fits
<1> QED
  BY <1>1, <1>2 DEF BlockFits

(* A start: nobody served, and the new thread has the flags.               *)
LEMMA StartKeeps ==
    ASSUME IInv, StartServer
    PROVE  IInv'
<1> USE DEF IInv
<1> DEFINE n == CHOOSE t \in Thread : th[t] = "none"
           c == [Noticed EXCEPT !.pending = TRUE]
<1>1. /\ sup = "judge" /\ fresh /\ ~Alive /\ active' = n /\ running' = TRUE
      /\ th' = [th EXCEPT ![n] = "building"] /\ Sleeps(c)
      /\ UNCHANGED <<values, block, server, sim, shut, words, troubles>>
  BY DEF StartServer
<1>2. \A t \in Thread : ~Serves(t) /\ th[t] # "building"
  BY <1>1, DownServesNot DEF OneServer
<1>3. n \in Thread /\ th[n] = "none"
  <2>1. PICK t \in Thread, u \in Thread : t # u
    BY MeterAssumption
  <2>2. t \notin Listening \/ u \notin Listening
    BY <2>1 DEF OneServer
  <2>3. \E x \in Thread : th[x] = "none"
    BY <1>2, <2>2 DEF Listening, TypeOK
  <2> QED
    BY <2>3
<1>4. c \in Counters
  BY NoticedIs DEF Counters
<1> HIDE DEF n, c
<1>5. starts' \in Counters /\ sup' = "rest" /\ nap' \in 0 .. LongNap /\ Lag' - nap' = 0
  BY <1>1, <1>4, SleepsIs
<1>6. TypeOK'
  BY <1>1, <1>3, <1>5 DEF TypeOK, Counters, values, block
<1>7. nap' > 0
  BY <1>5, LimitIs, MeterAssumption, <1>1 DEF Sleeps
<1>8. OneServer'
  <2>1. /\ th'[n] = "building"
        /\ \A t \in Thread : t # n => th'[t] = th[t]
    BY <1>1, <1>3 DEF TypeOK
  <2>2. n \notin shut /\ shut' = shut
    BY <1>1, <1>3 DEF OneServer
  <2>3. \A t \in Thread : ~Serves(t)'
    BY <1>2, <2>1, <2>2 DEF Serves
  <2>4. Listening' = Listening
    BY <1>3, <2>1 DEF Listening
  <2>5. shut' \subseteq {t \in Thread : th'[t] = "wedged"}
    BY <1>3, <2>1, <2>2 DEF OneServer
  <2>6. \A t \in Thread : th'[t] = "building" => t = n
    BY <1>2, <2>1
  <2> QED
    BY <1>1, <1>5, <1>7, <2>3, <2>4, <2>5, <2>6 DEF OneServer
<1>9. BlockFits'
  BY <1>1, <1>4, PassFits DEF values, block
<1>10. WordsAreOut'
  <2>1. \A t \in Thread : ~Serves(t)'
    BY <1>1, <1>2, <1>3 DEF Serves, TypeOK
  <2> QED
    BY <2>1 DEF WordsAreOut
<1> QED
  BY <1>6, <1>8, <1>9, <1>10

(* A start that raises: nobody serves before it or after.                  *)
LEMMA StartFailsKeeps ==
    ASSUME IInv, StartFails
    PROVE  IInv'
<1> USE DEF IInv
<1> DEFINE n == CHOOSE t \in Thread : th[t] = "none"
           c == Again(Noticed)
<1>1. /\ sup = "judge" /\ ~Alive /\ active' \in {active, n} /\ running' = FALSE
      /\ troubles < MaxTroubles /\ troubles' = troubles + 1 /\ Sleeps(c)
      /\ UNCHANGED <<values, block, server, sim, th, shut, words>>
  BY DEF StartFails
<1>2. \A t \in Thread : ~Serves(t) /\ th[t] # "building"
  BY <1>1, DownServesNot DEF OneServer
<1>3. n \in Thread
  <2>1. PICK t \in Thread, u \in Thread : t # u
    BY MeterAssumption
  <2>2. t \notin Listening \/ u \notin Listening
    BY <2>1 DEF OneServer
  <2>3. \E x \in Thread : th[x] = "none"
    BY <1>2, <2>2 DEF Listening, TypeOK
  <2> QED
    BY <2>3
<1>4. c \in Counters
  BY NoticedIs, AgainIs
<1> HIDE DEF n, c
<1>5. starts' \in Counters /\ sup' = "rest" /\ nap' \in 0 .. LongNap
  BY <1>1, <1>4, SleepsIs
<1>6. troubles' \in 0 .. MaxTroubles
  BY <1>1, MeterAssumption DEF TypeOK
<1>7. TypeOK'
  BY <1>1, <1>3, <1>5, <1>6 DEF TypeOK, Counters, values, block
<1>8. \A t \in Thread : ~Serves(t)' /\ th'[t] # "building"
  BY <1>1, <1>2 DEF Serves
<1>9. OneServer'
  BY <1>1, <1>8 DEF OneServer, Listening
<1>10. BlockFits' /\ WordsAreOut'
  BY <1>5, <1>8 DEF BlockFits, WordsAreOut
<1> QED
  BY <1>7, <1>9, <1>10

LEMMA NoStartKeeps ==
    ASSUME IInv, NoStart
    PROVE  IInv'
<1> USE DEF IInv
<1>1. /\ sup = "judge" /\ ~Alive /\ Sleeps(IF fresh THEN Noticed ELSE starts)
      /\ UNCHANGED <<values, block, net, troubles>>
  BY DEF NoStart
<1>2. (IF fresh THEN Noticed ELSE starts) \in Counters
  BY NoticedIs DEF TypeOK, Counters
<1>3. starts' \in Counters /\ sup' = "rest" /\ nap' \in 0 .. LongNap
  BY <1>1, <1>2, SleepsIs
<1>4. \A t \in Thread : ~Serves(t) /\ th[t] # "building"
  BY <1>1, DownServesNot DEF OneServer
<1>5. \A t \in Thread : ~Serves(t)' /\ th'[t] # "building"
  BY <1>1, <1>4 DEF Serves, net
<1>6. TypeOK'
  BY <1>1, <1>3 DEF TypeOK, Counters, values, block, net
<1>7. OneServer'
  BY <1>1, <1>5 DEF OneServer, Listening, net
<1>8. BlockFits' /\ WordsAreOut'
  BY <1>3, <1>5 DEF BlockFits, WordsAreOut
<1> QED
  BY <1>6, <1>7, <1>8

(* A pass over a fresh block: the one server that serves gets its words.   *)
LEMMA PushKeeps ==
    ASSUME IInv, PushAndProbe
    PROVE  IInv'
<1> USE DEF IInv
<1>1. /\ sup = "judge" /\ fresh /\ Alive /\ words' = Pushed
      /\ UNCHANGED <<values, block, running, active, server, sim, th, shut, troubles>>
  BY DEF PushAndProbe
<1>2. PICK p \in {starts.probes, 0, starts.probes + 1} :
        LET counters == [starts EXCEPT !.pending = FALSE, !.fails = 0, !.wait = 0,
                                       !.probes = IF p >= ProbeLimit THEN 0 ELSE p]
        IN  IF p >= ProbeLimit
              THEN sup' = "closing" /\ starts' = counters /\ UNCHANGED nap
              ELSE Sleeps(counters)
  BY DEF PushAndProbe
<1> DEFINE q == IF p >= ProbeLimit THEN 0 ELSE p
           c == [starts EXCEPT !.pending = FALSE, !.fails = 0, !.wait = 0, !.probes = q]
<1>3. q \in 0 .. ProbeLimit
  <2>1. starts.probes \in 0 .. ProbeLimit /\ ProbeLimit \in Nat
    BY MeterAssumption DEF TypeOK
  <2> QED
    BY <2>1
<1>4. c \in Counters
  <2> DEFINE F == 0 .. GiveUp  W == 0 .. RetryWait  P == 0 .. ProbeLimit
  <2>1. 0 \in F /\ 0 \in W /\ q \in P
    BY <1>3, MeterAssumption
  <2>2. starts \in [pending : BOOLEAN, fails : F, wait : W, probes : P]
    BY DEF TypeOK
  <2>3. Counters = [pending : BOOLEAN, fails : F, wait : W, probes : P]
    BY DEF Counters
  <2> HIDE DEF q, F, W, P
  <2> QED
    BY <2>1, <2>2, <2>3
<1>5. IF p >= ProbeLimit THEN sup' = "closing" /\ starts' = c /\ nap' = nap ELSE Sleeps(c)
  BY <1>2
<1> HIDE DEF c
<1>6. \A t \in Thread : th[t] # "building"
  BY <1>1 DEF OneServer
<1>7. words' \in [Thread -> [Row -> Word]]
  <2>1. CASE sim = None
    BY <1>1, <2>1 DEF Pushed, TypeOK
  <2>2. CASE sim # None
    <3>1. sim \in Thread
      BY <2>2 DEF TypeOK
    <3> DEFINE w == [r \in Row |-> IF out[r] = Gap THEN words[sim][r] ELSE out[r]]
    <3>2. w \in [Row -> Word]
      BY <3>1 DEF TypeOK, Word
    <3>3. words' = [words EXCEPT ![sim] = w]
      BY <1>1, <2>2 DEF Pushed
    <3> HIDE DEF w
    <3> QED
      BY <3>1, <3>2, <3>3 DEF TypeOK
  <2> QED
    BY <2>1, <2>2
<1>8. OneServer'
  BY <1>1, <1>6 DEF OneServer, Serves, Listening
<1>9. ASSUME NEW t \in Thread, Serves(t), NEW r \in Row
      PROVE  out[r] = Gap \/ words'[t][r] = out[r]
  <2>1. sim = t /\ sim # None
    BY <1>9, ValueAssumption DEF OneServer
  <2>2. words' = [words EXCEPT ![t] = [s \in Row |-> IF out[s] = Gap THEN words[t][s] ELSE out[s]]]
    BY <1>1, <2>1 DEF Pushed
  <2> QED
    BY <1>9, <2>2 DEF TypeOK
<1>10. CASE p >= ProbeLimit
  <2>1. sup' = "closing" /\ starts' = c /\ nap' = nap
    BY <1>5, <1>10
  <2>2. TypeOK'
    BY <1>1, <1>4, <1>7, <2>1 DEF TypeOK, Counters, values, block
  <2>3. BlockFits' /\ WordsAreOut'
    BY <2>1 DEF BlockFits, WordsAreOut
  <2> QED
    BY <1>8, <2>2, <2>3
<1>11. CASE ~(p >= ProbeLimit)
  <2>1. Sleeps(c)
    BY <1>5, <1>11
  <2>2. starts' \in Counters /\ sup' = "rest" /\ nap' \in 0 .. LongNap
    BY <1>4, <2>1, SleepsIs
  <2>3. TypeOK'
    BY <1>1, <1>7, <2>2 DEF TypeOK, Counters, values, block
  <2>4. BlockFits'
    BY <1>1, <1>4, <2>1, PassFits DEF values, block
  <2>5. WordsAreOut'
    BY <1>1, <1>9 DEF WordsAreOut, Serves, block
  <2> QED
    BY <1>8, <2>3, <2>4, <2>5
<1> QED
  BY <1>10, <1>11

LEMMA StopKeeps ==
    ASSUME IInv, StopStale
    PROVE  IInv'
<1> USE DEF IInv
<1>1. /\ sup = "judge" /\ sup' = "closing"
      /\ UNCHANGED <<values, block, nap, starts, net, troubles>>
  BY DEF StopStale
<1>2. TypeOK'
  BY <1>1 DEF TypeOK, values, block, net
<1>3. OneServer'
  BY <1>1 DEF OneServer, Serves, Listening, net
<1>4. BlockFits' /\ WordsAreOut'
  BY <1>1 DEF BlockFits, WordsAreOut
<1> QED
  BY <1>2, <1>3, <1>4

(* How a thread that ends leaves the types.                                *)
LEMMA LeavesTypes ==
    ASSUME TypeOK, NEW t \in Thread, NEW b \in BOOLEAN, Leaves(t, b)
    PROVE  /\ running' \in BOOLEAN /\ {active', server', sim'} \subseteq Thread \cup {None}
           /\ th' \in [Thread -> {"none", "building", "up", "wedged"}]
           /\ shut' \subseteq Thread /\ words' \in [Thread -> [Row -> Word]]
<1>1. Blank \in [Row -> Word]
  BY DEF Blank, Word
<1>2. words' \in [Thread -> [Row -> Word]]
  BY <1>1 DEF Leaves, TypeOK
<1>3. th' \in [Thread -> {"none", "building", "up", "wedged"}] /\ shut' \subseteq Thread
  BY DEF Leaves, TypeOK
<1>4. running' \in BOOLEAN
  BY DEF Leaves
<1>5. {active', server', sim'} \subseteq Thread \cup {None}
  BY DEF Leaves, TypeOK
<1> QED
  BY <1>2, <1>3, <1>4, <1>5

(* The close: whoever served has ended, or is told to.                     *)
LEMMA CloseKeeps ==
    ASSUME IInv, SupCloses
    PROVE  IInv'
<1> USE DEF IInv
<1>1. /\ sup = "closing" /\ CloseServer /\ Sleeps(starts)
      /\ UNCHANGED <<values, block, troubles>>
  BY DEF SupCloses
<1>2. starts' \in Counters /\ sup' = "rest" /\ nap' \in 0 .. LongNap
  <2>1. starts \in Counters
    BY DEF TypeOK, Counters
  <2> QED
    BY <1>1, <2>1, SleepsIs
<1>3. /\ \A t \in Thread : th[t] # "building"
      /\ \A t \in Thread : Serves(t) => server = t
      /\ shut \subseteq {t \in Thread : th[t] = "wedged"}
      /\ \A t, u \in Listening : t = u
  BY <1>1 DEF OneServer
<1>4. /\ running' \in BOOLEAN /\ {active', server', sim'} \subseteq Thread \cup {None}
      /\ th' \in [Thread -> {"none", "building", "up", "wedged"}]
      /\ shut' \subseteq Thread /\ words' \in [Thread -> [Row -> Word]]
      /\ shut' \subseteq {t \in Thread : th'[t] = "wedged"}
      /\ \A t, u \in Listening' : t = u
      /\ \A t \in Thread : ~Serves(t)' /\ th'[t] # "building"
  <2>1. CASE AskWedged
    <3>1. /\ server \in Thread /\ th[server] = "wedged" /\ shut' = shut \cup {server}
          /\ running' = FALSE /\ UNCHANGED <<active, server, sim, th, words>>
      BY <2>1 DEF AskWedged, WaitsForWedge, TypeOK
    <3>2. \A t \in Thread : ~Serves(t)'
      BY <1>3, <3>1 DEF Serves
    <3>3. /\ running' \in BOOLEAN /\ {active', server', sim'} \subseteq Thread \cup {None}
          /\ th' \in [Thread -> {"none", "building", "up", "wedged"}]
          /\ shut' \subseteq Thread /\ words' \in [Thread -> [Row -> Word]]
      BY <3>1 DEF TypeOK
    <3> QED
      BY <1>3, <3>1, <3>2, <3>3 DEF Listening
  <2>2. CASE server # None /\ th[server] = "up" /\ Leaves(server, TRUE)
    <3>1. /\ server \in Thread /\ th' = [th EXCEPT ![server] = "none"]
          /\ shut' = shut \ {server}
      BY <2>2 DEF Leaves, TypeOK
    <3>2. th'[server] = "none" /\ \A t \in Thread : t # server => th'[t] = th[t]
      BY <3>1 DEF TypeOK
    <3>3. \A t \in Thread : ~Serves(t)'
      BY <1>3, <3>1, <3>2 DEF Serves
    <3>4. Listening' \subseteq Listening
      BY <3>2 DEF Listening
    <3>5. shut' \subseteq {t \in Thread : th'[t] = "wedged"}
      BY <1>3, <3>1, <3>2
    <3> QED
      BY <1>3, <2>2, <3>1, <3>2, <3>3, <3>4, <3>5, LeavesTypes
  <2>3. CASE server \notin Listening /\ running' = FALSE
             /\ UNCHANGED <<active, server, sim, th, shut, words>>
    <3>1. \A t \in Thread : ~Serves(t)
      BY <1>3, <2>3 DEF Serves, Listening
    <3>2. \A t \in Thread : ~Serves(t)'
      BY <2>3, <3>1 DEF Serves
    <3>3. /\ running' \in BOOLEAN /\ {active', server', sim'} \subseteq Thread \cup {None}
          /\ th' \in [Thread -> {"none", "building", "up", "wedged"}]
          /\ shut' \subseteq Thread /\ words' \in [Thread -> [Row -> Word]]
      BY <2>3 DEF TypeOK
    <3> QED
      BY <1>3, <2>3, <3>2, <3>3 DEF Listening
  <2> QED
    BY <1>1, <2>1, <2>2, <2>3 DEF CloseServer
<1>5. TypeOK'
  BY <1>1, <1>2, <1>4 DEF TypeOK, Counters, values, block
<1>6. OneServer'
  BY <1>4 DEF OneServer
<1>7. BlockFits' /\ WordsAreOut'
  BY <1>2, <1>4 DEF BlockFits, WordsAreOut
<1> QED
  BY <1>5, <1>6, <1>7

(* The thread that was built has the port to itself and the words of the   *)
(* block it was started on.                                                *)
LEMMA BindKeeps ==
    ASSUME IInv, NEW t \in Thread, Bind(t)
    PROVE  IInv'
<1> USE DEF IInv
<1>1. /\ th[t] = "building" /\ Listening = {} /\ th' = [th EXCEPT ![t] = "up"]
      /\ server' = t /\ sim' = t /\ words' = [words EXCEPT ![t] = Seed]
      /\ UNCHANGED <<values, block, keeper, running, active, shut, troubles>>
  BY DEF Bind
<1>2. running /\ active = t /\ sup = "rest" /\ nap > 0
  BY <1>1 DEF OneServer
<1>3. th'[t] = "up" /\ \A u \in Thread : u # t => th'[u] = th[u]
  BY <1>1 DEF TypeOK
<1>4. \A u \in Thread : u # t => th[u] = "none"
  BY <1>1, <1>2 DEF OneServer, Listening, TypeOK
<1>5. TypeOK'
  <2>1. Seed \in [Row -> Word]
    BY DEF Seed, TypeOK, Word
  <2>2. words' \in [Thread -> [Row -> Word]]
    BY <1>1, <2>1 DEF TypeOK
  <2> QED
    BY <1>1, <2>2 DEF TypeOK, values, block, keeper
<1>6. OneServer'
  <2>1. shut = {}
    BY <1>1 DEF OneServer, Listening
  <2> QED
    BY <1>1, <1>2, <1>3, <1>4, <2>1 DEF OneServer, Serves, Listening
<1>7. BlockFits'
  <2>1. \A r \in Row : Fits(r, Lag - nap)
    BY <1>1, <1>2 DEF BlockFits
  <2>2. \A r \in Row : Fits(r, Lag - nap)'
    BY <1>1, <2>1 DEF Fits, Lag, Limit, values, block, keeper
  <2> QED
    BY <1>1, <1>2, <2>2 DEF BlockFits, keeper
<1>8. WordsAreOut'
  <2>1. \A r \in Row : out[r] = Gap \/ words'[t][r] = out[r]
    BY <1>1 DEF Seed, TypeOK
  <2>2. \A u \in Thread : u # t => ~Serves(u)'
    BY <1>3, <1>4 DEF Serves
  <2> QED
    BY <1>1, <2>1, <2>2 DEF WordsAreOut, block
<1> QED
  BY <1>5, <1>6, <1>7, <1>8

(* The port is taken: the thread that was built ends, and nobody served.   *)
LEMMA RefusedKeeps ==
    ASSUME IInv, NEW t \in Thread, Refused(t)
    PROVE  IInv'
<1> USE DEF IInv
<1>1. /\ th[t] = "building" /\ th' = [th EXCEPT ![t] = "none"]
      /\ server' = None /\ sim' = None /\ running' = FALSE
      /\ UNCHANGED <<values, block, keeper, active, shut, words>>
  BY DEF Refused
<1>2. troubles' \in 0 .. MaxTroubles
  <2>1. troubles \in 0 .. MaxTroubles /\ MaxTroubles \in Nat
    BY MeterAssumption DEF TypeOK
  <2> QED
    BY <2>1 DEF Refused
<1>3. sup = "rest" /\ \A u \in Thread : u # t => ~Serves(u) /\ th[u] # "building"
  BY <1>1 DEF OneServer
<1>4. th'[t] = "none" /\ \A u \in Thread : u # t => th'[u] = th[u]
  BY <1>1 DEF TypeOK
<1>5. \A u \in Thread : ~Serves(u)' /\ th'[u] # "building"
  BY <1>1, <1>3, <1>4 DEF Serves
<1>6. TypeOK'
  BY <1>1, <1>2 DEF TypeOK, values, block, keeper
<1>7. OneServer'
  BY <1>1, <1>4, <1>5 DEF OneServer, Listening
<1>8. BlockFits' /\ WordsAreOut'
  BY <1>1, <1>3, <1>5 DEF BlockFits, WordsAreOut, keeper
<1> QED
  BY <1>6, <1>7, <1>8

(* A crash: the only thread that served ends.                              *)
LEMMA CrashKeeps ==
    ASSUME IInv, NEW t \in Thread, Crash(t)
    PROVE  IInv'
<1> USE DEF IInv
<1>1. /\ th[t] = "up" /\ troubles < MaxTroubles /\ troubles' = troubles + 1
      /\ Leaves(t, FALSE) /\ UNCHANGED <<values, block, keeper>>
  BY DEF Crash
<1>2. troubles' \in 0 .. MaxTroubles
  <2>1. troubles \in 0 .. MaxTroubles /\ MaxTroubles \in Nat
    BY MeterAssumption DEF TypeOK
  <2> QED
    BY <1>1, <2>1
<1>3. active = t /\ \A u \in Thread : u # t => ~Serves(u) /\ th[u] # "building"
  BY <1>1 DEF OneServer, Serves
<1>4. th' = [th EXCEPT ![t] = "none"] /\ shut' = shut \ {t}
  BY <1>1 DEF Leaves
<1>5. th'[t] = "none" /\ \A u \in Thread : u # t => th'[u] = th[u]
  BY <1>4 DEF TypeOK
<1>6. \A u \in Thread : ~Serves(u)' /\ th'[u] # "building"
  BY <1>3, <1>4, <1>5 DEF Serves
<1>7. TypeOK'
  BY <1>1, <1>2, LeavesTypes DEF TypeOK, values, block, keeper
<1>8. OneServer'
  <2>1. shut' \subseteq {u \in Thread : th'[u] = "wedged"}
    BY <1>4, <1>5 DEF OneServer
  <2>2. Listening' \subseteq Listening
    BY <1>5 DEF Listening
  <2> QED
    BY <1>6, <2>1, <2>2 DEF OneServer
<1>9. BlockFits' /\ WordsAreOut'
  <2>1. sup' = sup /\ fresh' = fresh /\ policy' = policy
    BY <1>1 DEF values, block, keeper
  <2>2. ASSUME NEW r \in Row, NEW k
        PROVE  Fits(r, k)' <=> Fits(r, k)
    BY <1>1, <2>2 DEF Fits, Limit, values, block
  <2>3. out' = out
    BY <1>1 DEF block
  <2> QED
    BY <1>6, <1>1, <2>1, <2>3 DEF BlockFits, WordsAreOut, Fits, Limit, values, block
<1> QED
  BY <1>7, <1>8, <1>9

(* A wedged server serves on, and comes back to itself.                    *)
LEMMA HangKeeps ==
    ASSUME IInv, NEW t \in Thread, Serves(t), NEW s \in {"up", "wedged"},
           th' = [th EXCEPT ![t] = s], troubles' \in 0 .. MaxTroubles,
           UNCHANGED <<values, block, keeper, running, active, server, sim, shut, words>>,
           s = "up" => t \notin shut
    PROVE  IInv'
<1> USE DEF IInv
<1>1. th'[t] = s /\ \A u \in Thread : u # t => th'[u] = th[u]
  BY DEF TypeOK
<1>2. t \notin shut
  BY DEF Serves, OneServer
<1>3. /\ \A u \in Thread : Serves(u)' <=> Serves(u)
      /\ \A u \in Thread : th'[u] = "building" <=> th[u] = "building"
      /\ Listening' = Listening
  BY <1>1, <1>2 DEF Serves, Listening
<1>4. TypeOK'
  BY DEF TypeOK, values, block, keeper
<1>5. OneServer'
  <2>1. shut' \subseteq {u \in Thread : th'[u] = "wedged"}
    BY <1>1, <1>2 DEF OneServer
  <2> QED
    BY <1>3, <2>1 DEF OneServer, keeper
<1>6. BlockFits'
  BY <1>3 DEF BlockFits, Fits, Limit, Lag, values, block, keeper
<1>7. WordsAreOut'
  BY <1>3 DEF WordsAreOut, block, keeper
<1> QED
  BY <1>4, <1>5, <1>6, <1>7

(* A wedged server that was told to end ends, whoever has the flags now.   *)
LEMMA UnwedgeKeeps ==
    ASSUME IInv, NEW t \in Thread, Unwedge(t)
    PROVE  IInv'
<1> USE DEF IInv
<1>1. th[t] = "wedged" /\ UNCHANGED <<values, block, keeper, troubles>>
  BY DEF Unwedge
<1>2. CASE t \notin shut
  BY <1>1, <1>2, HangKeeps DEF Unwedge, Serves, TypeOK
<1>3. CASE t \in shut
  <2>1. Leaves(t, FALSE)
    BY <1>3 DEF Unwedge
  <2>2. /\ th' = [th EXCEPT ![t] = "none"] /\ shut' = shut \ {t}
        /\ running' = (running /\ active # t) /\ active' = active
    BY <2>1 DEF Leaves
  <2>3. th'[t] = "none" /\ \A u \in Thread : u # t => th'[u] = th[u]
    BY <2>2 DEF TypeOK
  <2>4. \A u \in Thread : ~Serves(u)
    BY <1>1, <1>3 DEF OneServer, Serves, Listening
  <2>5. \A u \in Thread : ~Serves(u)'
    BY <2>2, <2>3, <2>4 DEF Serves
  <2>6. TypeOK'
    BY <1>1, <2>1, LeavesTypes DEF TypeOK, values, block, keeper
  <2>7. OneServer'
    <3>1. shut' \subseteq {u \in Thread : th'[u] = "wedged"}
      BY <2>2, <2>3 DEF OneServer
    <3>2. Listening' \subseteq Listening
      BY <2>3 DEF Listening
    <3>3. ASSUME NEW u \in Thread, th'[u] = "building"
          PROVE  running' /\ active' = u /\ sup' = "rest" /\ nap' > 0
      <4>1. u # t /\ th[u] = "building"
        BY <2>3, <3>3
      <4>2. running /\ active = u /\ sup = "rest" /\ nap > 0
        BY <4>1 DEF OneServer
      <4> QED
        BY <1>1, <2>2, <4>1, <4>2 DEF keeper
    <3> QED
      BY <2>5, <3>1, <3>2, <3>3 DEF OneServer
  <2>8. BlockFits'
    <3>1. \A u \in Thread : th'[u] = "building" => th[u] = "building"
      BY <2>3
    <3> QED
      BY <1>1, <2>5, <3>1 DEF BlockFits, Fits, Limit, Lag, values, block, keeper
  <2>9. WordsAreOut'
    BY <2>5 DEF WordsAreOut
  <2> QED
    BY <2>6, <2>7, <2>8, <2>9
<1> QED
  BY <1>2, <1>3

LEMMA WedgeKeeps ==
    ASSUME IInv, NEW t \in Thread, Wedge(t)
    PROVE  IInv'
<1>1. /\ th[t] = "up" /\ troubles < MaxTroubles /\ troubles' = troubles + 1
      /\ th' = [th EXCEPT ![t] = "wedged"]
      /\ UNCHANGED <<values, block, keeper, running, active, server, sim, shut, words>>
  BY DEF Wedge
<1>2. troubles' \in 0 .. MaxTroubles
  <2>1. troubles \in 0 .. MaxTroubles /\ MaxTroubles \in Nat
    BY MeterAssumption DEF IInv, TypeOK
  <2> QED
    BY <1>1, <2>1
<1> QED
  BY <1>1, <1>2, HangKeeps DEF Serves

-----------------------------------------------------------------------------
LEMMA InitHolds == Init => IInv
<1> SUFFICES ASSUME Init
             PROVE  IInv
  OBVIOUS
<1>1. TypeOK
  <2>1. Blank \in [Row -> Word]
    BY DEF Blank, Word
  <2>2. words \in [Thread -> [Row -> Word]]
    BY <2>1 DEF Init
  <2>3. starts \in Counters
    BY MeterAssumption DEF Init, Counters
  <2>4. nap \in 0 .. LongNap /\ troubles \in 0 .. MaxTroubles
    BY MeterAssumption DEF Init
  <2> QED
    BY <2>2, <2>3, <2>4 DEF Init, TypeOK, Counters
<1>2. OneServer
  BY DEF Init, OneServer, Serves, Listening
<1>3. BlockFits /\ WordsAreOut
  BY DEF Init, BlockFits, WordsAreOut, Serves
<1> QED
  BY <1>1, <1>2, <1>3 DEF IInv

LEMMA NextKeeps == IInv /\ [Next]_vars => IInv'
<1> SUFFICES ASSUME IInv, [Next]_vars
             PROVE  IInv'
  OBVIOUS
<1>1. ASSUME NEW s \in Source, Publish(s) \/ Lose(s)
      PROVE  IInv'
  BY <1>1, ValuesKeep
<1>2. CASE Tick
  BY <1>2, TickKeeps
<1>3. CASE Supervisor
  BY <1>3, RebuildKeeps, SwapKeeps, StartKeeps, StartFailsKeeps, NoStartKeeps, PushKeeps, StopKeeps,
     CloseKeeps DEF Supervisor
<1>4. ASSUME NEW t \in Thread, Serving(t) \/ Crash(t) \/ Wedge(t)
      PROVE  IInv'
  BY <1>4, BindKeeps, RefusedKeeps, UnwedgeKeeps, CrashKeeps, WedgeKeeps DEF Serving
<1>5. CASE UNCHANGED vars
  BY <1>5 DEF vars, values, block, keeper, net, IInv, TypeOK, OneServer, BlockFits,
     WordsAreOut, Serves, Listening, Fits, Limit, Lag
<1> QED
  BY <1>1, <1>2, <1>3, <1>4, <1>5 DEF Next

(* The inductive invariant: whoever serves has the flags, and was left     *)
(* with the words of a block that the last pass found fit.                 *)
THEOREM MeterInvariant == Spec => []IInv
BY InitHolds, NextKeeps, PTL DEF Spec

(* Every variable keeps its type, whatever crashes, wedges or is refused.  *)
THEOREM MeterTyped == Spec => []TypeOK
<1>1. IInv => TypeOK
  BY DEF IInv
<1> QED
  BY <1>1, MeterInvariant, PTL

(* The hazard of a control loop fed with old measurements: between two     *)
(* passes, what a consumer can read and is not refused is in date by the   *)
(* meter's policy, up to the supervisor's period.                          *)
THEOREM MeterServedInTime == Spec => []ServedInTime
<1>1. ASSUME IInv
      PROVE  ServedInTime
  <2> SUFFICES ASSUME sup = "rest", NEW t \in Answering, NEW r \in Row \ spans
               PROVE  \/ words[t][r] = NA /\ policy = "sentinel"
                      \/ policy = "legacy" /\ (out[r] = Gap \/ r \in Pinned)
                      \/ words[t][r] \in Age /\ words[t][r] <= OldestAllowed(r)
    BY DEF ServedInTime
  <2>1. t \in Thread /\ Serves(t)
    BY DEF Answering, Serves
  <2>2. Fits(r, Lag - nap)
    BY <1>1, <2>1 DEF IInv, BlockFits
  <2>3. out[r] = Gap \/ words[t][r] = out[r]
    BY <1>1, <2>1 DEF IInv, WordsAreOut
  <2>4. CASE out[r] = NA \/ out[r] = Gap \/ (policy = "legacy" /\ r \in Pinned)
    BY <2>2, <2>3, <2>4, ValueAssumption DEF Fits, Age
  <2>5. CASE out[r] \in Age /\ policy # "legacy" /\ r \in Pinned
    BY <2>3, <2>5, MeterAssumption, ValueAssumption DEF OldestAllowed, Age
  <2>6. CASE out[r] \in Age /\ ~(policy # "legacy" /\ r \in Pinned) /\ out[r] <= Limit + (Lag - nap)
    <3>1. words[t][r] \in Age /\ words[t][r] <= Limit + (Lag - nap)
      BY <2>3, <2>6, ValueAssumption DEF Age
    <3>2. nap \in Nat
      BY <1>1, LimitIs DEF IInv, TypeOK
    <3>3. OldestAllowed(r) = Limit + Lag
      BY <2>6 DEF OldestAllowed, Limit
    <3>4. words[t][r] <= Limit + Lag
      BY <3>1, <3>2, LimitIs DEF Age
    <3> QED
      BY <3>1, <3>3, <3>4
  <2> QED
    BY <2>2, <2>4, <2>5, <2>6 DEF Fits
<1> QED
  BY <1>1, MeterInvariant, PTL

-----------------------------------------------------------------------------
(* The guard of a legacy meter's start.                                    *)

Stage == {"none", "building", "up", "wedged"}

(* What is decided or served stands on rows that all had a value.  Only a  *)
(* meter that is not legacy passes through the swap of its refused spans.  *)
Backed ==
    /\ th \in [Thread -> Stage]
    /\ policy = "legacy" =>
          /\ sup # "swap"
          /\ sup = "judge" /\ fresh => Row \subseteq seen
          /\ \A t \in Thread : th[t] # "none" => Row \subseteq seen

(* The rebuild marks every row it has a value for, and finds the block     *)
(* fresh only if the others were marked before.                            *)
LEMMA RebuildBacks ==
    ASSUME Backed, Rebuild
    PROVE  Backed'
<1>1. UNCHANGED <<policy, th>>
  BY DEF Rebuild, values, net
<1>2. CASE policy = "legacy"
  <2>1. /\ seen' = seen \cup {r \in Row : Resolved(r) # None}
        /\ fresh' = LegacyFresh /\ sup' = "judge"
    BY <1>2 DEF Rebuild
  <2>2. fresh' => Row \subseteq seen'
    BY <2>1 DEF LegacyFresh
  <2>3. seen \subseteq seen'
    BY <2>1
  <2> QED
    BY <1>1, <1>2, <2>1, <2>2, <2>3 DEF Backed
<1>3. CASE policy # "legacy"
  BY <1>1, <1>3 DEF Backed
<1> QED
  BY <1>2, <1>3

(* A start follows a fresh verdict.                                        *)
LEMMA StartBacks ==
    ASSUME Backed, StartServer
    PROVE  Backed'
<1>1. /\ UNCHANGED <<policy, seen, fresh>> /\ sup = "judge" /\ fresh
      /\ th' = [th EXCEPT ![active'] = "building"] /\ sup' = "rest"
  BY DEF StartServer, Sleeps, values, block
<1> QED
  BY <1>1 DEF Backed, Stage

(* A thread that ends, or changes its stage while it runs, needs no more   *)
(* than what let it start.                                                 *)
LEMMA StageBacks ==
    ASSUME Backed, NEW t \in Thread, th[t] # "none", UNCHANGED <<policy, seen, fresh>>,
           sup' \in {sup, "rest"}, NEW s \in Stage, th' = [th EXCEPT ![t] = s]
    PROVE  Backed'
BY DEF Backed

(* The other steps change neither the threads nor what is known of a row.  *)
LEMMA IdleBacks ==
    ASSUME Backed, UNCHANGED <<policy, seen, fresh, th>>, sup' \in {sup, "rest", "closing"}
    PROVE  Backed'
BY DEF Backed

(* The close of a server that listens ends its thread.                     *)
LEMMA CloseBacks ==
    ASSUME Backed, SupCloses
    PROVE  Backed'
<1>1. UNCHANGED <<policy, seen, fresh>> /\ sup' = "rest"
  BY DEF SupCloses, Sleeps, values, block
<1>2. CASE AskWedged \/ UNCHANGED th
  BY <1>1, <1>2, IdleBacks DEF AskWedged
<1>3. CASE server # None /\ th[server] = "up" /\ Leaves(server, TRUE)
  <2>1. th' = [th EXCEPT ![server] = "none"]
    BY <1>3 DEF Leaves
  <2> QED
    BY <1>1, <2>1 DEF Backed, Stage
<1> QED
  BY <1>2, <1>3 DEF SupCloses, CloseServer

(* Every step of the meter keeps it backed.                                *)
LEMMA NextBacks ==
    ASSUME Backed, [Next]_vars
    PROVE  Backed'
<1>1. ASSUME NEW s \in Source, Publish(s) \/ Lose(s)
      PROVE  Backed'
  BY <1>1, IdleBacks DEF Publish, Lose, block, keeper, net
<1>2. CASE Tick
  BY <1>2, IdleBacks DEF Tick
<1>3. CASE Supervisor
  <2>1. CASE SwapSpans
    BY <2>1 DEF SwapSpans, values, net, Backed
  <2>2. CASE NoStart
    BY <2>2, IdleBacks DEF NoStart, Sleeps, values, block, net
  <2>5. CASE StartFails
    BY <2>5, IdleBacks DEF StartFails, Sleeps, values, block
  <2>3. CASE PushAndProbe
    BY <2>3, IdleBacks DEF PushAndProbe, Sleeps, values, block
  <2>4. CASE StopStale
    BY <2>4, IdleBacks DEF StopStale, values, block, net
  <2> QED
    BY <1>3, <2>1, <2>2, <2>3, <2>4, <2>5, RebuildBacks, StartBacks, CloseBacks DEF Supervisor
<1>4. ASSUME NEW t \in Thread, Serving(t) \/ Crash(t) \/ Wedge(t)
      PROVE  Backed'
  <2>1. UNCHANGED <<policy, seen, fresh, sup>>
    BY <1>4 DEF Serving, Bind, Refused, Unwedge, Crash, Wedge, values, block, keeper
  <2>2. th[t] # "none"
    BY <1>4 DEF Serving, Bind, Refused, Unwedge, Crash, Wedge
  <2>3. \E s \in Stage : th' = [th EXCEPT ![t] = s]
    BY <1>4 DEF Serving, Bind, Refused, Unwedge, Crash, Wedge, Leaves, Stage
  <2> QED
    BY <2>1, <2>2, <2>3, StageBacks
<1>5. CASE UNCHANGED vars
  BY <1>5, IdleBacks DEF vars, values, block, keeper, net
<1> QED
  BY <1>1, <1>2, <1>3, <1>4, <1>5 DEF Next

(* A legacy meter never answers a row that has had no value since the      *)
(* meter was made with the seed of its block (_supervise's verdict, the    *)
(* start it allows and _serve's seeding).                                  *)
THEOREM MeterNeverInvents == Spec => []NeverInvented
<1>1. Init => Backed
  BY DEF Init, Backed, Stage
<1>2. Backed /\ [Next]_vars => Backed'
  BY NextBacks
<1>3. Backed => NeverInvented
  BY DEF Backed, NeverInvented, Answering
<1> QED
  BY <1>1, <1>2, <1>3, PTL DEF Spec
=============================================================================
