--------------------------- MODULE WriteLeaseProofs ---------------------------
(***************************************************************************)
(* IInv is an inductive invariant of WriteLease, so its type invariant,     *)
(* RevertIsCurrent, DiskHasTheLeases and, where nothing of Guarding's list  *)
(* can happen, LeasedIsGuarded hold for every number of keys, writes,       *)
(* crashes and shutdowns; there WriteLease also implements DeadMan.         *)
(***************************************************************************)
EXTENDS WriteLease, TLAPS

LeaseFn == [Key -> Lease \cup {NoLease}]
DiskFn == [Key -> Safe \cup {None}]
CallFn == [Caller -> Call \cup {NoCall}]

-----------------------------------------------------------------------------
(* What the fields of a null record tell. *)

LEMMA NoLeaseFields ==
    ASSUME NEW l \in Lease \cup {NoLease}
    PROVE  /\ l = NoLease <=> l.gen = 0
           /\ l.gen # 0 => l \in Lease /\ l.safe \in Safe
           /\ l.gen = 0 => l.n = 0 /\ l.safe = None /\ ~l.due
           /\ l.gen \in Nat /\ l.n \in Nat /\ l.due \in BOOLEAN
<1>1. CASE l \in Lease
  BY <1>1 DEF Lease, NoLease
<1>2. CASE l = NoLease
  BY <1>2 DEF NoLease
<1> QED
  BY <1>1, <1>2

LEMMA NoCallFields ==
    ASSUME NEW l \in Call \cup {NoCall}
    PROVE  /\ l = NoCall <=> l.at = "none"
           /\ l.at # "none" => l \in Call /\ l.key \in Key /\ l.safe \in Safe /\ l.gen # 0 /\ l.at \in CallAt
           /\ l.at = "none" => l.key = None /\ l.gen = 0 /\ l.n = 0
           /\ l.gen \in Nat /\ l.n \in Nat /\ l.ok \in BOOLEAN
           /\ l.key \in Key => l.at # "none"
<1>1. CASE l \in Call
  BY <1>1, LeaseAssumption DEF Call, NoCall, CallAt
<1>2. CASE l = NoCall
  BY <1>2, LeaseAssumption DEF NoCall
<1> QED
  BY <1>1, <1>2

LEMMA NoWriteFields ==
    ASSUME NEW cl \in [key : Key, effect : Effect, safe : Safe \cup {None}] \cup {NoWrite}
    PROVE  /\ cl = NoWrite <=> cl.key = None
           /\ cl.key # None => cl.key \in Key /\ cl.effect \in Effect
           /\ cl.safe \in Safe \cup {None}
  BY LeaseAssumption DEF NoWrite

-----------------------------------------------------------------------------
(* What the operators on the leases, the disk and the calls leave behind. *)

LEMMA Dropped ==
    ASSUME lease \in LeaseFn, NEW k \in Key, Drop(k)
    PROVE  /\ lease' \in LeaseFn
           /\ lease'[k] = NoLease
           /\ \A q \in Key : q # k => lease'[q] = lease[q]
  BY DEF Drop, LeaseFn

LEMMA Persisted ==
    ASSUME lease' \in LeaseFn, Persist
    PROVE  /\ disk' \in DiskFn
           /\ \A q \in Key : disk'[q] # None <=> lease'[q] # NoLease
<1>1. \A q \in Key : lease'[q].safe \in Safe \cup {None} /\ (lease'[q].safe # None <=> lease'[q] # NoLease)
  BY LeaseAssumption, NoLeaseFields DEF LeaseFn
<1> QED
  BY <1>1 DEF Persist, DiskFn

LEMMA Cleared ==
    ASSUME lease \in LeaseFn, disk \in DiskFn, NEW k \in Key, Clear(k)
    PROVE  /\ lease' \in LeaseFn /\ disk' \in DiskFn /\ gen' = gen
           /\ lease'[k] = NoLease
           /\ \A q \in Key : q # k => lease'[q] = lease[q]
           /\ (\A q \in Key : disk[q] # None <=> lease[q] # NoLease) =>
                 \A q \in Key : disk'[q] # None <=> lease'[q] # NoLease
<1>1. Drop(k) /\ gen' = gen
  BY DEF Clear
<1>2. /\ lease' \in LeaseFn /\ lease'[k] = NoLease
      /\ \A q \in Key : q # k => lease'[q] = lease[q]
  BY <1>1, Dropped
<1>3. CASE lease[k] # NoLease
  BY <1>1, <1>2, <1>3, Persisted DEF Clear
<1>4. CASE lease[k] = NoLease
  BY <1>1, <1>2, <1>4 DEF Clear
<1> QED
  BY <1>3, <1>4

LEMMA Armed ==
    ASSUME lease \in LeaseFn, disk \in DiskFn, gen \in Nat, NEW k \in Key,
           NEW due \in BOOLEAN, NEW s \in Safe, NEW n \in Nat, Arm(k, due, s, n)
    PROVE  /\ lease' \in LeaseFn /\ disk' \in DiskFn /\ gen' = gen + 1
           /\ lease'[k] = [gen |-> gen + 1, due |-> due, safe |-> s, n |-> n]
           /\ \A q \in Key : q # k => lease'[q] = lease[q]
           /\ lease[k] = NoLease \/ (\A q \in Key : disk[q] # None <=> lease[q] # NoLease) =>
                 \A q \in Key : disk'[q] # None <=> lease'[q] # NoLease
<1> DEFINE new == [gen |-> gen + 1, due |-> due, safe |-> s, n |-> n]
<1>1. new \in Lease /\ new # NoLease
  BY DEF Lease, NoLease
<1>2. /\ lease' \in LeaseFn /\ gen' = gen + 1 /\ lease'[k] = new
      /\ \A q \in Key : q # k => lease'[q] = lease[q]
  BY <1>1 DEF Arm, LeaseFn
<1> HIDE DEF new
<1>3. CASE lease[k] = NoLease
  BY <1>2, <1>3, Persisted DEF Arm, new
<1>4. CASE lease[k] # NoLease
  <2>1. disk' = disk
    BY <1>4 DEF Arm
  <2> QED
    BY <1>1, <1>2, <1>4, <2>1 DEF new
<1> QED
  BY <1>2, <1>3, <1>4 DEF new

SameBut(c, at, ok) ==
    /\ call' \in CallFn
    /\ call'[c].at = at /\ call'[c].ok = ok
    /\ call'[c].key = call[c].key /\ call'[c].gen = call[c].gen
    /\ call'[c].n = call[c].n /\ call'[c].safe = call[c].safe
    /\ \A b \in Caller : b # c => call'[b] = call[b]

LEMMA Gone ==
    ASSUME call \in CallFn, NEW c \in Caller, call[c].at # "none", NEW at \in CallAt, Goes(c, at)
    PROVE  SameBut(c, at, call[c].ok)
<1>1. call[c] \in Call
  BY NoCallFields DEF CallFn
<1>2. [call[c] EXCEPT !.at = at] \in Call
  BY <1>1 DEF Call
<1>3. call'[c] = [call[c] EXCEPT !.at = at] /\ \A b \in Caller : b # c => call'[b] = call[b]
  BY DEF Goes, CallFn
<1>4. call' \in CallFn
  BY <1>2 DEF Goes, CallFn
<1> QED
  BY <1>1, <1>3, <1>4 DEF SameBut, Call

LEMMA Returned ==
    ASSUME call \in CallFn, NEW c \in Caller, call[c].at # "none", NEW ok \in BOOLEAN, Returns(c, ok)
    PROVE  SameBut(c, "returned", ok)
<1>1. call[c] \in Call
  BY NoCallFields DEF CallFn
<1> DEFINE new == [[call[c] EXCEPT !.at = "returned"] EXCEPT !.ok = ok]
<1>2. new \in Call
  BY <1>1 DEF Call, CallAt
<1>3. call'[c] = new /\ \A b \in Caller : b # c => call'[b] = call[b]
  BY DEF Returns, CallFn
<1>4. call' = [call EXCEPT ![c] = new]
  BY DEF Returns, CallFn
<1>5. call' \in CallFn
  BY <1>2, <1>4 DEF CallFn
<1> QED
  BY <1>1, <1>3, <1>5 DEF SameBut, Call

LEMMA Started ==
    ASSUME call \in CallFn, NEW c \in Caller, NEW k \in Key, NEW l \in Lease, Starts(c, k, l)
    PROVE  /\ call' \in CallFn
           /\ call'[c].at = "first" /\ call'[c].key = k /\ ~call'[c].ok
           /\ call'[c].gen = l.gen /\ call'[c].n = l.n /\ call'[c].safe = l.safe
           /\ \A b \in Caller : b # c => call'[b] = call[b]
<1> DEFINE new == [at |-> "first", key |-> k, gen |-> l.gen, safe |-> l.safe, n |-> l.n, ok |-> FALSE]
<1>1. new \in Call
  BY DEF Lease, Call, CallAt
<1>2. call'[c] = new /\ \A b \in Caller : b # c => call'[b] = call[b]
  BY DEF Starts, CallFn
<1>3. call' \in CallFn
  BY <1>1 DEF Starts, CallFn
<1> QED
  BY <1>2, <1>3

LEMMA Landed ==
    ASSUME call \in CallFn, NEW c \in Caller, call' = [call EXCEPT ![c] = NoCall]
    PROVE  /\ call' \in CallFn /\ call'[c] = NoCall
           /\ \A b \in Caller : b # c => call'[b] = call[b]
  BY DEF CallFn

LEMMA Written ==
    ASSUME TypeOK, NEW k \in Key, NEW h \in Held, NEW s \in Safe \cup {None}, NEW n \in Nat,
           reg' = [reg EXCEPT ![k] = [held |-> h, safe |-> s, n |-> n]]
    PROVE  /\ reg' \in [Key -> [held : Held, safe : Safe \cup {None}, n : Nat]]
           /\ reg'[k].held = h /\ reg'[k].n = n /\ reg'[k].safe = s
           /\ \A q \in Key : q # k => reg'[q] = reg[q]
  BY DEF TypeOK

LEMMA Dued ==
    ASSUME lease \in LeaseFn, NEW k \in Key, lease[k] # NoLease, NEW d \in BOOLEAN,
           lease' = [lease EXCEPT ![k].due = d]
    PROVE  /\ lease' \in LeaseFn
           /\ lease'[k].gen = lease[k].gen /\ lease'[k].n = lease[k].n /\ lease'[k].due = d
           /\ \A q \in Key : q # k => lease'[q] = lease[q]
<1> DEFINE new == [lease[k] EXCEPT !.due = d]
<1>1. lease[k] \in Lease
  BY DEF LeaseFn
<1>2. new \in Lease /\ new.gen = lease[k].gen /\ new.n = lease[k].n /\ new.due = d
  BY <1>1 DEF Lease
<1> HIDE DEF new
<1>3. lease' = [lease EXCEPT ![k] = new]
  BY DEF new
<1> QED
  BY <1>2, <1>3 DEF LeaseFn

Typed ==
    /\ lease \in LeaseFn /\ todo \in LeaseFn /\ disk \in DiskFn /\ call \in CallFn
    /\ reg \in [Key -> [held : Held, safe : Safe \cup {None}, n : Nat]]
    /\ client \in [key : Key, effect : Effect, safe : Safe \cup {None}] \cup {NoWrite}

LEMMA TypesOK == TypeOK => Typed
  BY DEF TypeOK, Typed, LeaseFn, DiskFn, CallFn

(* What Typed says of the fields, for every key and every thread. *)
LeaseField(l) ==
    /\ l = NoLease <=> l.gen = 0
    /\ l.gen # 0 => l \in Lease /\ l.safe \in Safe
    /\ l.gen = 0 => l.n = 0 /\ l.safe = None /\ ~l.due
    /\ l.gen \in Nat /\ l.n \in Nat /\ l.due \in BOOLEAN
CallField(l) ==
    /\ l = NoCall <=> l.at = "none"
    /\ l.at # "none" => l.key \in Key /\ l.safe \in Safe /\ l.gen # 0 /\ l.at \in CallAt
    /\ l.at = "none" => l.key = None /\ l.gen = 0 /\ l.n = 0
    /\ l.gen \in Nat /\ l.n \in Nat /\ l.ok \in BOOLEAN
    /\ l.key \in Key => l.at # "none"
Fields(le, to, ca, re, cl) ==
    /\ \A k \in Key : LeaseField(le[k]) /\ LeaseField(to[k])
    /\ \A k \in Key : re[k].held \in Held /\ re[k].n \in Nat /\ re[k].safe \in Safe \cup {None}
    /\ \A c \in Caller : CallField(ca[c])
    /\ cl = NoWrite <=> cl.key = None
    /\ cl.key # None => cl.key \in Key /\ cl.effect \in Effect
    /\ cl.safe \in Safe \cup {None}

LEMMA FieldsOf ==
    ASSUME NEW le \in LeaseFn, NEW to \in LeaseFn, NEW ca \in CallFn,
           NEW re \in [Key -> [held : Held, safe : Safe \cup {None}, n : Nat]],
           NEW cl \in [key : Key, effect : Effect, safe : Safe \cup {None}] \cup {NoWrite}
    PROVE  Fields(le, to, ca, re, cl)
<1>1. \A k \in Key : LeaseField(le[k]) /\ LeaseField(to[k])
  BY NoLeaseFields DEF LeaseFn, LeaseField
<1>2. \A k \in Key : re[k].held \in Held /\ re[k].n \in Nat /\ re[k].safe \in Safe \cup {None}
  OBVIOUS
<1>3. \A c \in Caller : CallField(ca[c])
  BY NoCallFields DEF CallFn, CallField
<1>4. /\ cl = NoWrite <=> cl.key = None
      /\ cl.key # None => cl.key \in Key /\ cl.effect \in Effect
      /\ cl.safe \in Safe \cup {None}
  BY NoWriteFields
<1> QED
  BY <1>1, <1>2, <1>3, <1>4 DEF Fields

-----------------------------------------------------------------------------
(* One lemma per action: the facts about what it changes, then a step for    *)
(* each part of IInv.                                                        *)

LEMMA ExpireIInv ==
    ASSUME NEW k \in Key, IInv, Expire(k)
    PROVE  IInv'
<1> USE LeaseAssumption DEF IInv
<1>0. Typed
  BY TypesOK
<1>1. lease[k] # NoLease /\ ~lease[k].due /\ UNCHANGED <<reg, gen, disk, call, bus, client, rule, writes, up, todo, ticking, spent, ends>>
  BY DEF Expire, world, process
<1>2. /\ lease' \in LeaseFn /\ lease'[k].gen = lease[k].gen /\ lease'[k].n = lease[k].n /\ lease'[k].due
      /\ \A q \in Key : q # k => lease'[q] = lease[q]
  BY <1>0, <1>1, Dued DEF Expire, Typed
<1>3. TypeOK'
  BY <1>0, <1>1, <1>2 DEF TypeOK, LeaseFn, DiskFn, CallFn, Typed, Held, Effect
<1>4. Typed'
  BY <1>3, TypesOK DEF TypeOK, Typed, LeaseFn, DiskFn, CallFn
<1>5. Fields(lease, todo, call, reg, client) /\ Fields(lease', todo', call', reg', client')
  BY <1>0, <1>4, FieldsOf DEF Typed
<1>6. gen \in Nat /\ writes \in Nat /\ gen' \in Nat /\ writes' \in Nat
  BY <1>3 DEF TypeOK
<1>7. Guarding =>
        /\ "crash_unarmed" \notin Faults /\ "crash_boot" \notin Faults
        /\ "fail_stop" \notin Faults /\ "rule_late" \notin Faults
  BY DEF Guarding
<1>8. Exclusive'
  BY <1>0, <1>1, <1>2, <1>3, <1>5, <1>6, <1>7 DEF Exclusive, InLane, Recovered, Caller, LeaseField, CallField, Fields
<1>9. Bounds'
  BY <1>0, <1>1, <1>2, <1>3, <1>5, <1>6, <1>7 DEF Bounds, Recovered, Caller, LeaseField, CallField, Fields
<1>10. Generations'
  BY <1>0, <1>1, <1>2, <1>3, <1>5, <1>6, <1>7 DEF Generations, Bounds, Latest, Recovered, Caller, LeaseField, CallField, Fields
<1>11. Latest'
  <2>1. \A q \in Key : lease'[q].gen # 0 /\ client'.key # q =>
            reg'[q].n <= lease'[q].n \/ reg'[q].held \in {"keep", "rule"}
    BY <1>0, <1>1, <1>2, <1>3, <1>5, <1>6, <1>7 DEF Latest, Bounds, Exclusive, InLane, Recovered, Effect, Generations, Caller, LeaseField, CallField, Fields
  <2>2. ASSUME NEW q \in Key, client'.key = q
        PROVE  /\ reg'[q].held \in {client'.effect, "rule"}
               /\ lease'[q].n <= reg'[q].n /\ todo'[q].n <= reg'[q].n
               /\ client'.effect = "arm" => client'.safe # None
    BY <1>0, <1>1, <1>2, <1>3, <1>5, <1>6, <1>7, <2>2 DEF Latest, Bounds, Exclusive, InLane, Recovered, Effect, Generations, Caller, LeaseField, CallField, Fields
  <2>3. ASSUME NEW q \in Key, client'.key = q, NEW c \in Caller, call'[c].key = q
        PROVE  call'[c].n <= reg'[q].n
    BY <1>0, <1>1, <1>2, <1>3, <1>5, <1>6, <1>7, <2>3 DEF Latest, Bounds, Exclusive, InLane, Recovered, Effect, Generations, Caller, LeaseField, CallField, Fields
  <2> QED
    BY <2>1, <2>2, <2>3 DEF Latest
<1>12. Recovered'
  BY <1>0, <1>1, <1>2, <1>3, <1>5, <1>6, <1>7 DEF Recovered, Bounds, DiskHasTheLeases, LeaseField, CallField, Fields
<1>13. RevertIsCurrent'
  BY <1>0, <1>1, <1>2, <1>3, <1>5, <1>6, <1>7 DEF RevertIsCurrent, Latest, Exclusive, Generations, InLane, Caller, LeaseField, CallField, Fields
<1>14. DiskHasTheLeases'
  BY <1>0, <1>1, <1>2, <1>3, <1>5, <1>6, <1>7 DEF DiskHasTheLeases, Recovered, LeaseField, CallField, Fields
<1>15. Guarding => Reverting'
  BY <1>0, <1>1, <1>2, <1>3, <1>5, <1>6, <1>7 DEF Reverting, NoneToPutOff, MayFail, Bounds, Recovered, Exclusive, InLane, Latest, Generations, Caller, LeaseField, CallField, Fields
<1>16. Guarding => LeasedIsGuarded'
  BY <1>0, <1>1, <1>2, <1>3, <1>5, <1>6, <1>7 DEF Reverting, LeasedIsGuarded, DiskHasTheLeases, Recovered, Latest, Caller, LeaseField, CallField, Fields
<1> QED
  BY <1>3, <1>8, <1>9, <1>10, <1>11, <1>12, <1>13, <1>14, <1>15, <1>16

LEMMA ClientWriteIInv ==
    ASSUME NEW k \in Key, NEW e \in Effect, NEW s \in Safe \cup {None}, (e = "arm" => s # None), IInv, ClientWrite(k, e, s)
    PROVE  IInv'
<1> USE LeaseAssumption DEF IInv
<1>0. Typed
  BY TypesOK
<1>1. /\ up = "run" /\ LaneFree /\ bus = None /\ writes' = writes + 1
      /\ UNCHANGED <<lease, gen, disk, call, bus, rule, up, todo, ticking, spent, ends>>
  BY DEF ClientWrite, Put, process
<1>2. /\ client' = [key |-> k, effect |-> e, safe |-> s] /\ client = NoWrite
      /\ client'.key = k /\ client'.effect = e /\ client'.safe = s /\ client.key = None
  BY DEF ClientWrite, LaneFree, NoWrite
<1>3. /\ reg' \in [Key -> [held : Held, safe : Safe \cup {None}, n : Nat]]
      /\ reg'[k].held = e /\ reg'[k].n = writes + 1 /\ \A q \in Key : q # k => reg'[q] = reg[q]
  BY Written DEF ClientWrite, Put, Effect, Held, TypeOK
<1>4. TypeOK'
  BY <1>0, <1>1, <1>2, <1>3 DEF TypeOK, LeaseFn, DiskFn, CallFn, Typed, Effect
<1>5. Typed'
  BY <1>4, TypesOK DEF TypeOK, Typed, LeaseFn, DiskFn, CallFn
<1>6. Fields(lease, todo, call, reg, client) /\ Fields(lease', todo', call', reg', client')
  BY <1>0, <1>5, FieldsOf DEF Typed
<1>7. gen \in Nat /\ writes \in Nat /\ gen' \in Nat /\ writes' \in Nat
  BY <1>4 DEF TypeOK
<1>8. Guarding =>
        /\ "crash_unarmed" \notin Faults /\ "crash_boot" \notin Faults
        /\ "fail_stop" \notin Faults /\ "rule_late" \notin Faults
  BY DEF Guarding
<1>9. Exclusive'
  BY <1>0, <1>1, <1>2, <1>3, <1>4, <1>6, <1>7, <1>8 DEF Exclusive, InLane, Recovered, Caller, LeaseField, CallField, Fields, LaneFree, InLane
<1>10. Bounds'
  BY <1>0, <1>1, <1>2, <1>3, <1>4, <1>6, <1>7, <1>8 DEF Bounds, Recovered, Caller, LeaseField, CallField, Fields
<1>11. Generations'
  BY <1>0, <1>1, <1>2, <1>3, <1>4, <1>6, <1>7, <1>8 DEF Generations, Bounds, Latest, Recovered, Caller, LeaseField, CallField, Fields
<1>12. Latest'
  <2>1. \A q \in Key : lease'[q].gen # 0 /\ client'.key # q =>
            reg'[q].n <= lease'[q].n \/ reg'[q].held \in {"keep", "rule"}
    BY <1>0, <1>1, <1>2, <1>3, <1>4, <1>6, <1>7, <1>8 DEF Latest, Bounds, Exclusive, InLane, Recovered, Effect, Generations, Caller, LeaseField, CallField, Fields
  <2>2. ASSUME NEW q \in Key, client'.key = q
        PROVE  /\ reg'[q].held \in {client'.effect, "rule"}
               /\ lease'[q].n <= reg'[q].n /\ todo'[q].n <= reg'[q].n
               /\ client'.effect = "arm" => client'.safe # None
    BY <1>0, <1>1, <1>2, <1>3, <1>4, <1>6, <1>7, <1>8, <2>2 DEF Latest, Bounds, Exclusive, InLane, Recovered, Effect, Generations, Caller, LeaseField, CallField, Fields
  <2>3. ASSUME NEW q \in Key, client'.key = q, NEW c \in Caller, call'[c].key = q
        PROVE  call'[c].n <= reg'[q].n
    BY <1>0, <1>1, <1>2, <1>3, <1>4, <1>6, <1>7, <1>8, <2>3 DEF Latest, Bounds, Exclusive, InLane, Recovered, Effect, Generations, Caller, LeaseField, CallField, Fields
  <2> QED
    BY <2>1, <2>2, <2>3 DEF Latest
<1>13. Recovered'
  BY <1>0, <1>1, <1>2, <1>3, <1>4, <1>6, <1>7, <1>8 DEF Recovered, Bounds, DiskHasTheLeases, LeaseField, CallField, Fields
<1>14. RevertIsCurrent'
  BY <1>0, <1>1, <1>2, <1>3, <1>4, <1>6, <1>7, <1>8 DEF RevertIsCurrent, Latest, Exclusive, Generations, InLane, Caller, LeaseField, CallField, Fields, LaneFree
<1>15. DiskHasTheLeases'
  BY <1>0, <1>1, <1>2, <1>3, <1>4, <1>6, <1>7, <1>8 DEF DiskHasTheLeases, Recovered, LeaseField, CallField, Fields
<1>16. Guarding => Reverting'
  <2> SUFFICES ASSUME Guarding PROVE Reverting'
    OBVIOUS
  <2>1. rule' # None => reg'[rule'].held # "arm" \/ client'.key = rule'
    BY <1>0, <1>1, <1>2, <1>3, <1>4, <1>6, <1>7, <1>8 DEF Reverting, Bounds, Recovered, Exclusive, InLane, Latest, Generations, Caller, LeaseField, CallField, Fields, LaneFree, TypeOK
  <2>2. call'[Stopper].at # "none" => up' \in {"stop", "stopped"}
    BY <1>0, <1>1, <1>2, <1>3, <1>4, <1>6, <1>7, <1>8 DEF Reverting, Bounds, Recovered, Exclusive, InLane, Latest, Generations, Caller, LeaseField, CallField, Fields, LaneFree
  <2>3. ASSUME NEW b \in Caller, NEW q \in Key, call'[b].key = q
        PROVE  /\ call'[b].at = "wrote" => reg'[q].held # "arm"
               /\ lease'[q].gen = call'[b].gen /\ call'[b].at # "ended" => lease'[q].due
    BY <2>3, <1>0, <1>1, <1>2, <1>3, <1>4, <1>6, <1>7, <1>8 DEF Reverting, Bounds, Recovered, Exclusive, InLane, Latest, Generations, Caller, LeaseField, CallField, Fields, LaneFree
  <2>4. ASSUME NEW b \in Caller, NEW q \in Key, call'[b].key = q,
               lease'[q].gen = call'[b].gen, call'[b].at = "returned", call'[b].ok
        PROVE  reg'[q].held # "arm" \/ client'.key = q
    BY <2>4, <1>0, <1>1, <1>2, <1>3, <1>4, <1>6, <1>7, <1>8 DEF Reverting, Bounds, Recovered, Exclusive, InLane, Latest, Generations, Caller, LeaseField, CallField, Fields, LaneFree
  <2>5. up' \in {"stop", "stopped"} => NoneToPutOff'
    <3> SUFFICES ASSUME up' \in {"stop", "stopped"}, NEW q \in Key, call'[q].at = "returned"
                 PROVE  call'[q].ok
      BY DEF NoneToPutOff
    <3> QED
      BY <1>0, <1>1, <1>2, <1>3, <1>4, <1>6, <1>7, <1>8 DEF Reverting, Bounds, Recovered, Exclusive, InLane, Latest, Generations, Caller, LeaseField, CallField, Fields, LaneFree, NoneToPutOff, MayFail
  <2>6. up' = "stop" => \A q \in Key :
            todo'[q].gen # 0 /\ lease'[q].gen = todo'[q].gen => lease'[q].due
    BY <1>0, <1>1, <1>2, <1>3, <1>4, <1>6, <1>7, <1>8 DEF Reverting, Bounds, Recovered, Exclusive, InLane, Latest, Generations, Caller, LeaseField, CallField, Fields, LaneFree
  <2> QED
    BY <2>1, <2>2, <2>3, <2>4, <2>5, <2>6 DEF Reverting
<1>17. Guarding => LeasedIsGuarded'
  BY <1>0, <1>1, <1>2, <1>3, <1>4, <1>6, <1>7, <1>8 DEF Reverting, LeasedIsGuarded, DiskHasTheLeases, Recovered, Latest, Caller, LeaseField, CallField, Fields
<1> QED
  BY <1>4, <1>9, <1>10, <1>11, <1>12, <1>13, <1>14, <1>15, <1>16, <1>17

LEMMA ClientRecordIInv ==
    ASSUME IInv, ClientRecord
    PROVE  IInv'
<1> USE LeaseAssumption DEF IInv
<1>0. Typed
  BY TypesOK
<1>1. /\ client # NoWrite /\ up \in {"run", "stop", "stopped"} /\ client' = NoWrite /\ client'.key = None
      /\ client.effect = "arm" /\ rule = client.key => "rule_late" \in Faults
      /\ UNCHANGED <<reg, call, bus, rule, writes, up, todo, ticking, spent, ends>>
  BY DEF ClientRecord, Running, process, NoWrite
<1>2. PICK k \in Key : k = client.key
  BY <1>0, <1>1, NoWriteFields DEF Typed
<1>3. PICK s \in Safe \cup {None}, n \in Nat, d \in BOOLEAN : s = client.safe /\ n = reg[k].n /\ d = FALSE
  BY <1>0, <1>1, <1>2, NoWriteFields DEF Typed
<1>4. client.effect = "arm" => s \in Safe
  BY <1>0, <1>1, <1>2, <1>3 DEF Latest
<1>5. \/ client.effect = "arm" /\ Arm(k, d, s, n)
      \/ client.effect = "clear" /\ Clear(k)
      \/ client.effect = "keep" /\ UNCHANGED <<lease, gen, disk>>
  BY <1>0, <1>1, <1>2, <1>3, <1>4 DEF ClientRecord
<1>6. \A q \in Key : disk[q] # None <=> lease[q] # NoLease
  BY <1>0, <1>1, <1>2, <1>3, <1>4, <1>5 DEF DiskHasTheLeases
<1>7. \/ /\ client.effect = "arm" /\ lease' \in LeaseFn /\ disk' \in DiskFn /\ gen' = gen + 1
         /\ lease'[k] = [gen |-> gen + 1, due |-> d, safe |-> s, n |-> n]
         /\ \A q \in Key : q # k => lease'[q] = lease[q]
         /\ \A q \in Key : disk'[q] # None <=> lease'[q] # NoLease
      \/ /\ client.effect = "clear" /\ lease' \in LeaseFn /\ disk' \in DiskFn /\ gen' = gen
         /\ lease'[k] = NoLease
         /\ \A q \in Key : q # k => lease'[q] = lease[q]
         /\ \A q \in Key : disk'[q] # None <=> lease'[q] # NoLease
      \/ client.effect = "keep" /\ UNCHANGED <<lease, gen, disk>>
  <2>0. gen \in Nat
    BY DEF TypeOK
  <2>1. CASE client.effect = "arm" /\ Arm(k, d, s, n)
    BY <1>0, <1>1, <1>2, <1>3, <1>4, <1>5, <1>6, <2>0, <2>1, Armed DEF Typed
  <2>2. CASE client.effect = "clear" /\ Clear(k)
    BY <1>0, <1>1, <1>2, <1>3, <1>4, <1>5, <1>6, <2>2, Cleared DEF Typed
  <2> QED
    BY <1>0, <1>1, <1>2, <1>3, <1>4, <1>5, <1>6, <2>1, <2>2
<1>8. \/ client.effect = "arm" /\ lease'[k].gen = gen + 1 /\ lease'[k].n = n
      \/ client.effect = "clear" /\ lease'[k].gen = 0 /\ lease'[k].n = 0
      \/ client.effect = "keep" /\ UNCHANGED <<lease, gen, disk>>
  BY <1>0, <1>1, <1>2, <1>3, <1>4, <1>5, <1>6, <1>7 DEF NoLease
<1>9. TypeOK'
  BY <1>0, <1>1, <1>2, <1>3, <1>4, <1>5, <1>6, <1>7, <1>8 DEF TypeOK, LeaseFn, DiskFn, CallFn, Typed, Held, Effect
<1>10. Typed'
  BY <1>9, TypesOK DEF TypeOK, Typed, LeaseFn, DiskFn, CallFn
<1>11. Fields(lease, todo, call, reg, client) /\ Fields(lease', todo', call', reg', client')
  BY <1>0, <1>10, FieldsOf DEF Typed
<1>12. gen \in Nat /\ writes \in Nat /\ gen' \in Nat /\ writes' \in Nat
  BY <1>9 DEF TypeOK
<1>13. Guarding =>
        /\ "crash_unarmed" \notin Faults /\ "crash_boot" \notin Faults
        /\ "fail_stop" \notin Faults /\ "rule_late" \notin Faults
  BY DEF Guarding
<1>14. Exclusive'
  BY <1>0, <1>1, <1>2, <1>3, <1>4, <1>5, <1>6, <1>7, <1>8, <1>9, <1>11, <1>12, <1>13 DEF Exclusive, InLane, Recovered, Caller, LeaseField, CallField, Fields
<1>15. Bounds'
  BY <1>0, <1>1, <1>2, <1>3, <1>4, <1>5, <1>6, <1>7, <1>8, <1>9, <1>11, <1>12, <1>13 DEF Bounds, Recovered, Caller, LeaseField, CallField, Fields
<1>16. Generations'
  BY <1>0, <1>1, <1>2, <1>3, <1>4, <1>5, <1>6, <1>7, <1>8, <1>9, <1>11, <1>12, <1>13 DEF Generations, Bounds, Latest, Recovered, Caller, LeaseField, CallField, Fields
<1>17. Latest'
  <2>1. \A q \in Key : lease'[q].gen # 0 /\ client'.key # q =>
            reg'[q].n <= lease'[q].n \/ reg'[q].held \in {"keep", "rule"}
    BY <1>0, <1>1, <1>2, <1>3, <1>4, <1>5, <1>6, <1>7, <1>8, <1>9, <1>11, <1>12, <1>13 DEF Latest, Bounds, Exclusive, InLane, Recovered, Effect, Generations, Caller, LeaseField, CallField, Fields
  <2>2. ASSUME NEW q \in Key, client'.key = q
        PROVE  /\ reg'[q].held \in {client'.effect, "rule"}
               /\ lease'[q].n <= reg'[q].n /\ todo'[q].n <= reg'[q].n
               /\ client'.effect = "arm" => client'.safe # None
    BY <1>0, <1>1, <1>2, <1>3, <1>4, <1>5, <1>6, <1>7, <1>8, <1>9, <1>11, <1>12, <1>13, <2>2 DEF Latest, Bounds, Exclusive, InLane, Recovered, Effect, Generations, Caller, LeaseField, CallField, Fields
  <2>3. ASSUME NEW q \in Key, client'.key = q, NEW c \in Caller, call'[c].key = q
        PROVE  call'[c].n <= reg'[q].n
    BY <1>0, <1>1, <1>2, <1>3, <1>4, <1>5, <1>6, <1>7, <1>8, <1>9, <1>11, <1>12, <1>13, <2>3 DEF Latest, Bounds, Exclusive, InLane, Recovered, Effect, Generations, Caller, LeaseField, CallField, Fields
  <2> QED
    BY <2>1, <2>2, <2>3 DEF Latest
<1>18. Recovered'
  BY <1>0, <1>1, <1>2, <1>3, <1>4, <1>5, <1>6, <1>7, <1>8, <1>9, <1>11, <1>12, <1>13 DEF Recovered, Bounds, DiskHasTheLeases, LeaseField, CallField, Fields
<1>19. RevertIsCurrent'
  BY <1>0, <1>1, <1>2, <1>3, <1>4, <1>5, <1>6, <1>7, <1>8, <1>9, <1>11, <1>12, <1>13 DEF RevertIsCurrent, Latest, Exclusive, Generations, InLane, Caller, LeaseField, CallField, Fields
<1>20. DiskHasTheLeases'
  BY <1>0, <1>1, <1>2, <1>3, <1>4, <1>5, <1>6, <1>7, <1>8, <1>9, <1>11, <1>12, <1>13 DEF DiskHasTheLeases, Recovered, LeaseField, CallField, Fields
<1>21. Guarding => Reverting'
  <2> SUFFICES ASSUME Guarding PROVE Reverting'
    OBVIOUS
  <2>1. rule' # None => reg'[rule'].held # "arm" \/ client'.key = rule'
    BY <1>0, <1>1, <1>2, <1>3, <1>4, <1>5, <1>6, <1>7, <1>8, <1>9, <1>11, <1>12, <1>13 DEF Reverting, Bounds, Recovered, Exclusive, InLane, Latest, Generations, Caller, LeaseField, CallField, Fields, TypeOK
  <2>2. call'[Stopper].at # "none" => up' \in {"stop", "stopped"}
    BY <1>0, <1>1, <1>2, <1>3, <1>4, <1>5, <1>6, <1>7, <1>8, <1>9, <1>11, <1>12, <1>13 DEF Reverting, Bounds, Recovered, Exclusive, InLane, Latest, Generations, Caller, LeaseField, CallField, Fields
  <2>3. ASSUME NEW b \in Caller, NEW q \in Key, call'[b].key = q
        PROVE  /\ call'[b].at = "wrote" => reg'[q].held # "arm"
               /\ lease'[q].gen = call'[b].gen /\ call'[b].at # "ended" => lease'[q].due
    BY <2>3, <1>0, <1>1, <1>2, <1>3, <1>4, <1>5, <1>6, <1>7, <1>8, <1>9, <1>11, <1>12, <1>13 DEF Reverting, Bounds, Recovered, Exclusive, InLane, Latest, Generations, Caller, LeaseField, CallField, Fields
  <2>4. ASSUME NEW b \in Caller, NEW q \in Key, call'[b].key = q,
               lease'[q].gen = call'[b].gen, call'[b].at = "returned", call'[b].ok
        PROVE  reg'[q].held # "arm" \/ client'.key = q
    BY <2>4, <1>0, <1>1, <1>2, <1>3, <1>4, <1>5, <1>6, <1>7, <1>8, <1>9, <1>11, <1>12, <1>13 DEF Reverting, Bounds, Recovered, Exclusive, InLane, Latest, Generations, Caller, LeaseField, CallField, Fields
  <2>5. up' \in {"stop", "stopped"} => NoneToPutOff'
    <3> SUFFICES ASSUME up' \in {"stop", "stopped"}, NEW q \in Key, call'[q].at = "returned"
                 PROVE  call'[q].ok
      BY DEF NoneToPutOff
    <3> QED
      BY <1>0, <1>1, <1>2, <1>3, <1>4, <1>5, <1>6, <1>7, <1>8, <1>9, <1>11, <1>12, <1>13 DEF Reverting, Bounds, Recovered, Exclusive, InLane, Latest, Generations, Caller, LeaseField, CallField, Fields, NoneToPutOff, MayFail
  <2>6. up' = "stop" => \A q \in Key :
            todo'[q].gen # 0 /\ lease'[q].gen = todo'[q].gen => lease'[q].due
    BY <1>0, <1>1, <1>2, <1>3, <1>4, <1>5, <1>6, <1>7, <1>8, <1>9, <1>11, <1>12, <1>13 DEF Reverting, Bounds, Recovered, Exclusive, InLane, Latest, Generations, Caller, LeaseField, CallField, Fields
  <2> QED
    BY <2>1, <2>2, <2>3, <2>4, <2>5, <2>6 DEF Reverting
<1>22. Guarding => LeasedIsGuarded'
  BY <1>0, <1>1, <1>2, <1>3, <1>4, <1>5, <1>6, <1>7, <1>8, <1>9, <1>11, <1>12, <1>13 DEF Reverting, LeasedIsGuarded, DiskHasTheLeases, Recovered, Latest, Caller, LeaseField, CallField, Fields
<1> QED
  BY <1>9, <1>14, <1>15, <1>16, <1>17, <1>18, <1>19, <1>20, <1>21, <1>22

LEMMA RuleWriteIInv ==
    ASSUME NEW k \in Key, IInv, RuleWrite(k)
    PROVE  IInv'
<1> USE LeaseAssumption DEF IInv
<1>0. Typed
  BY TypesOK
<1>1. /\ up = "run" /\ bus = None /\ rule = None /\ writes' = writes + 1 /\ rule' = k /\ "rule" \in Faults
      /\ UNCHANGED <<lease, gen, disk, call, bus, client, up, todo, ticking, spent, ends>>
  BY DEF RuleWrite, Put, process
<1>2. /\ reg' \in [Key -> [held : Held, safe : Safe \cup {None}, n : Nat]]
      /\ reg'[k].held = "rule" /\ reg'[k].n = writes + 1 /\ \A q \in Key : q # k => reg'[q] = reg[q]
  BY Written DEF RuleWrite, Put, Held, TypeOK
<1>3. TypeOK'
  BY <1>0, <1>1, <1>2 DEF TypeOK, LeaseFn, DiskFn, CallFn, Typed, Held, Effect
<1>4. Typed'
  BY <1>3, TypesOK DEF TypeOK, Typed, LeaseFn, DiskFn, CallFn
<1>5. Fields(lease, todo, call, reg, client) /\ Fields(lease', todo', call', reg', client')
  BY <1>0, <1>4, FieldsOf DEF Typed
<1>6. gen \in Nat /\ writes \in Nat /\ gen' \in Nat /\ writes' \in Nat
  BY <1>3 DEF TypeOK
<1>7. Guarding =>
        /\ "crash_unarmed" \notin Faults /\ "crash_boot" \notin Faults
        /\ "fail_stop" \notin Faults /\ "rule_late" \notin Faults
  BY DEF Guarding
<1>8. Exclusive'
  BY <1>0, <1>1, <1>2, <1>3, <1>5, <1>6, <1>7 DEF Exclusive, InLane, Recovered, Caller, LeaseField, CallField, Fields
<1>9. Bounds'
  BY <1>0, <1>1, <1>2, <1>3, <1>5, <1>6, <1>7 DEF Bounds, Recovered, Caller, LeaseField, CallField, Fields
<1>10. Generations'
  BY <1>0, <1>1, <1>2, <1>3, <1>5, <1>6, <1>7 DEF Generations, Bounds, Latest, Recovered, Caller, LeaseField, CallField, Fields
<1>11. Latest'
  <2>1. \A q \in Key : lease'[q].gen # 0 /\ client'.key # q =>
            reg'[q].n <= lease'[q].n \/ reg'[q].held \in {"keep", "rule"}
    BY <1>0, <1>1, <1>2, <1>3, <1>5, <1>6, <1>7 DEF Latest, Bounds, Exclusive, InLane, Recovered, Effect, Generations, Caller, LeaseField, CallField, Fields
  <2>2. ASSUME NEW q \in Key, client'.key = q
        PROVE  /\ reg'[q].held \in {client'.effect, "rule"}
               /\ lease'[q].n <= reg'[q].n /\ todo'[q].n <= reg'[q].n
               /\ client'.effect = "arm" => client'.safe # None
    BY <1>0, <1>1, <1>2, <1>3, <1>5, <1>6, <1>7, <2>2 DEF Latest, Bounds, Exclusive, InLane, Recovered, Effect, Generations, Caller, LeaseField, CallField, Fields
  <2>3. ASSUME NEW q \in Key, client'.key = q, NEW c \in Caller, call'[c].key = q
        PROVE  call'[c].n <= reg'[q].n
    BY <1>0, <1>1, <1>2, <1>3, <1>5, <1>6, <1>7, <2>3 DEF Latest, Bounds, Exclusive, InLane, Recovered, Effect, Generations, Caller, LeaseField, CallField, Fields
  <2> QED
    BY <2>1, <2>2, <2>3 DEF Latest
<1>12. Recovered'
  BY <1>0, <1>1, <1>2, <1>3, <1>5, <1>6, <1>7 DEF Recovered, Bounds, DiskHasTheLeases, LeaseField, CallField, Fields
<1>13. RevertIsCurrent'
  BY <1>0, <1>1, <1>2, <1>3, <1>5, <1>6, <1>7 DEF RevertIsCurrent, Latest, Exclusive, Generations, InLane, Caller, LeaseField, CallField, Fields
<1>14. DiskHasTheLeases'
  BY <1>0, <1>1, <1>2, <1>3, <1>5, <1>6, <1>7 DEF DiskHasTheLeases, Recovered, LeaseField, CallField, Fields
<1>15. Guarding => Reverting'
  BY <1>0, <1>1, <1>2, <1>3, <1>5, <1>6, <1>7 DEF Reverting, NoneToPutOff, MayFail, Bounds, Recovered, Exclusive, InLane, Latest, Generations, Caller, LeaseField, CallField, Fields
<1>16. Guarding => LeasedIsGuarded'
  BY <1>0, <1>1, <1>2, <1>3, <1>5, <1>6, <1>7 DEF Reverting, LeasedIsGuarded, DiskHasTheLeases, Recovered, Latest, Caller, LeaseField, CallField, Fields
<1> QED
  BY <1>3, <1>8, <1>9, <1>10, <1>11, <1>12, <1>13, <1>14, <1>15, <1>16

LEMMA RuleRecordIInv ==
    ASSUME IInv, RuleRecord
    PROVE  IInv'
<1> USE LeaseAssumption DEF IInv
<1>0. Typed
  BY TypesOK
<1>1. /\ rule \in Key /\ up \in {"run", "stop", "stopped"} /\ rule' = None
      /\ UNCHANGED <<reg, call, bus, client, writes, up, todo, ticking, spent, ends>>
  BY DEF RuleRecord, Running, process, TypeOK
<1>2. PICK k \in Key : k = rule /\ Clear(k)
  BY <1>0, <1>1 DEF RuleRecord
<1>3. /\ lease' \in LeaseFn /\ disk' \in DiskFn /\ gen' = gen /\ lease'[k] = NoLease
      /\ \A q \in Key : q # k => lease'[q] = lease[q]
      /\ (\A q \in Key : disk[q] # None <=> lease[q] # NoLease) =>
            \A q \in Key : disk'[q] # None <=> lease'[q] # NoLease
  BY <1>0, <1>1, <1>2, Cleared DEF Typed
<1>4. lease'[k].gen = 0
  BY <1>0, <1>1, <1>2, <1>3 DEF NoLease
<1>5. TypeOK'
  BY <1>0, <1>1, <1>2, <1>3, <1>4 DEF TypeOK, LeaseFn, DiskFn, CallFn, Typed, Held, Effect
<1>6. Typed'
  BY <1>5, TypesOK DEF TypeOK, Typed, LeaseFn, DiskFn, CallFn
<1>7. Fields(lease, todo, call, reg, client) /\ Fields(lease', todo', call', reg', client')
  BY <1>0, <1>6, FieldsOf DEF Typed
<1>8. gen \in Nat /\ writes \in Nat /\ gen' \in Nat /\ writes' \in Nat
  BY <1>5 DEF TypeOK
<1>9. Guarding =>
        /\ "crash_unarmed" \notin Faults /\ "crash_boot" \notin Faults
        /\ "fail_stop" \notin Faults /\ "rule_late" \notin Faults
  BY DEF Guarding
<1>10. Exclusive'
  BY <1>0, <1>1, <1>2, <1>3, <1>4, <1>5, <1>7, <1>8, <1>9 DEF Exclusive, InLane, Recovered, Caller, LeaseField, CallField, Fields
<1>11. Bounds'
  BY <1>0, <1>1, <1>2, <1>3, <1>4, <1>5, <1>7, <1>8, <1>9 DEF Bounds, Recovered, Caller, LeaseField, CallField, Fields
<1>12. Generations'
  BY <1>0, <1>1, <1>2, <1>3, <1>4, <1>5, <1>7, <1>8, <1>9 DEF Generations, Bounds, Latest, Recovered, Caller, LeaseField, CallField, Fields
<1>13. Latest'
  <2>1. \A q \in Key : lease'[q].gen # 0 /\ client'.key # q =>
            reg'[q].n <= lease'[q].n \/ reg'[q].held \in {"keep", "rule"}
    BY <1>0, <1>1, <1>2, <1>3, <1>4, <1>5, <1>7, <1>8, <1>9 DEF Latest, Bounds, Exclusive, InLane, Recovered, Effect, Generations, Caller, LeaseField, CallField, Fields
  <2>2. ASSUME NEW q \in Key, client'.key = q
        PROVE  /\ reg'[q].held \in {client'.effect, "rule"}
               /\ lease'[q].n <= reg'[q].n /\ todo'[q].n <= reg'[q].n
               /\ client'.effect = "arm" => client'.safe # None
    BY <1>0, <1>1, <1>2, <1>3, <1>4, <1>5, <1>7, <1>8, <1>9, <2>2 DEF Latest, Bounds, Exclusive, InLane, Recovered, Effect, Generations, Caller, LeaseField, CallField, Fields
  <2>3. ASSUME NEW q \in Key, client'.key = q, NEW c \in Caller, call'[c].key = q
        PROVE  call'[c].n <= reg'[q].n
    BY <1>0, <1>1, <1>2, <1>3, <1>4, <1>5, <1>7, <1>8, <1>9, <2>3 DEF Latest, Bounds, Exclusive, InLane, Recovered, Effect, Generations, Caller, LeaseField, CallField, Fields
  <2> QED
    BY <2>1, <2>2, <2>3 DEF Latest
<1>14. Recovered'
  BY <1>0, <1>1, <1>2, <1>3, <1>4, <1>5, <1>7, <1>8, <1>9 DEF Recovered, Bounds, DiskHasTheLeases, LeaseField, CallField, Fields
<1>15. RevertIsCurrent'
  BY <1>0, <1>1, <1>2, <1>3, <1>4, <1>5, <1>7, <1>8, <1>9 DEF RevertIsCurrent, Latest, Exclusive, Generations, InLane, Caller, LeaseField, CallField, Fields
<1>16. DiskHasTheLeases'
  BY <1>0, <1>1, <1>2, <1>3, <1>4, <1>5, <1>7, <1>8, <1>9 DEF DiskHasTheLeases, Recovered, LeaseField, CallField, Fields
<1>17. Guarding => Reverting'
  BY <1>0, <1>1, <1>2, <1>3, <1>4, <1>5, <1>7, <1>8, <1>9 DEF Reverting, NoneToPutOff, MayFail, Bounds, Recovered, Exclusive, InLane, Latest, Generations, Caller, LeaseField, CallField, Fields
<1>18. Guarding => LeasedIsGuarded'
  BY <1>0, <1>1, <1>2, <1>3, <1>4, <1>5, <1>7, <1>8, <1>9 DEF Reverting, LeasedIsGuarded, DiskHasTheLeases, Recovered, Latest, Caller, LeaseField, CallField, Fields
<1> QED
  BY <1>5, <1>10, <1>11, <1>12, <1>13, <1>14, <1>15, <1>16, <1>17, <1>18

LEMMA SweepFireIInv ==
    ASSUME NEW k \in Key, IInv, SweepFire(k)
    PROVE  IInv'
<1> USE LeaseAssumption DEF IInv
<1>0. Typed
  BY TypesOK
<1>1. /\ up = "run" \/ k \in ticking
      /\ lease[k] # NoLease /\ lease[k].due /\ call[k] = NoCall /\ ticking' = ticking \ {k}
      /\ UNCHANGED <<reg, lease, gen, disk, bus, client, rule, writes, up, todo, spent, ends>>
  BY DEF SweepFire, world
<1>2. /\ call' \in CallFn
      /\ call'[k].at = "first" /\ call'[k].key = k /\ ~call'[k].ok
      /\ call'[k].gen = lease[k].gen /\ call'[k].n = lease[k].n
      /\ \A b \in Caller : b # k => call'[b] = call[b]
  BY <1>0, <1>1, Started DEF SweepFire, Typed, LeaseFn, Caller
<1>3. TypeOK'
  BY <1>0, <1>1, <1>2 DEF TypeOK, LeaseFn, DiskFn, CallFn, Typed, Held, Effect
<1>4. Typed'
  BY <1>3, TypesOK DEF TypeOK, Typed, LeaseFn, DiskFn, CallFn
<1>5. Fields(lease, todo, call, reg, client) /\ Fields(lease', todo', call', reg', client')
  BY <1>0, <1>4, FieldsOf DEF Typed
<1>6. gen \in Nat /\ writes \in Nat /\ gen' \in Nat /\ writes' \in Nat
  BY <1>3 DEF TypeOK
<1>7. Guarding =>
        /\ "crash_unarmed" \notin Faults /\ "crash_boot" \notin Faults
        /\ "fail_stop" \notin Faults /\ "rule_late" \notin Faults
  BY DEF Guarding
<1>8. Exclusive'
  BY <1>0, <1>1, <1>2, <1>3, <1>5, <1>6, <1>7 DEF Exclusive, InLane, Recovered, Caller, LeaseField, CallField, Fields
<1>9. Bounds'
  BY <1>0, <1>1, <1>2, <1>3, <1>5, <1>6, <1>7 DEF Bounds, Recovered, Caller, LeaseField, CallField, Fields
<1>10. Generations'
  BY <1>0, <1>1, <1>2, <1>3, <1>5, <1>6, <1>7 DEF Generations, Bounds, Latest, Recovered, Caller, LeaseField, CallField, Fields
<1>11. Latest'
  <2>1. \A q \in Key : lease'[q].gen # 0 /\ client'.key # q =>
            reg'[q].n <= lease'[q].n \/ reg'[q].held \in {"keep", "rule"}
    BY <1>0, <1>1, <1>2, <1>3, <1>5, <1>6, <1>7 DEF Latest, Bounds, Exclusive, InLane, Recovered, Effect, Generations, Caller, LeaseField, CallField, Fields
  <2>2. ASSUME NEW q \in Key, client'.key = q
        PROVE  /\ reg'[q].held \in {client'.effect, "rule"}
               /\ lease'[q].n <= reg'[q].n /\ todo'[q].n <= reg'[q].n
               /\ client'.effect = "arm" => client'.safe # None
    BY <1>0, <1>1, <1>2, <1>3, <1>5, <1>6, <1>7, <2>2 DEF Latest, Bounds, Exclusive, InLane, Recovered, Effect, Generations, Caller, LeaseField, CallField, Fields
  <2>3. ASSUME NEW q \in Key, client'.key = q, NEW c \in Caller, call'[c].key = q
        PROVE  call'[c].n <= reg'[q].n
    BY <1>0, <1>1, <1>2, <1>3, <1>5, <1>6, <1>7, <2>3 DEF Latest, Bounds, Exclusive, InLane, Recovered, Effect, Generations, Caller, LeaseField, CallField, Fields
  <2> QED
    BY <2>1, <2>2, <2>3 DEF Latest
<1>12. Recovered'
  BY <1>0, <1>1, <1>2, <1>3, <1>5, <1>6, <1>7 DEF Recovered, Bounds, DiskHasTheLeases, LeaseField, CallField, Fields
<1>13. RevertIsCurrent'
  BY <1>0, <1>1, <1>2, <1>3, <1>5, <1>6, <1>7 DEF RevertIsCurrent, Latest, Exclusive, Generations, InLane, Caller, LeaseField, CallField, Fields
<1>14. DiskHasTheLeases'
  BY <1>0, <1>1, <1>2, <1>3, <1>5, <1>6, <1>7 DEF DiskHasTheLeases, Recovered, LeaseField, CallField, Fields
<1>15. Guarding => Reverting'
  BY <1>0, <1>1, <1>2, <1>3, <1>5, <1>6, <1>7 DEF Reverting, NoneToPutOff, MayFail, Bounds, Recovered, Exclusive, InLane, Latest, Generations, Caller, LeaseField, CallField, Fields
<1>16. Guarding => LeasedIsGuarded'
  BY <1>0, <1>1, <1>2, <1>3, <1>5, <1>6, <1>7 DEF Reverting, LeasedIsGuarded, DiskHasTheLeases, Recovered, Latest, Caller, LeaseField, CallField, Fields
<1> QED
  BY <1>3, <1>8, <1>9, <1>10, <1>11, <1>12, <1>13, <1>14, <1>15, <1>16

LEMMA RevertFirstIInv ==
    ASSUME NEW c \in Caller, IInv, RevertFirst(c)
    PROVE  IInv'
<1> USE LeaseAssumption DEF IInv
<1>0. Typed
  BY TypesOK
<1>1. /\ call[c].at = "first" /\ UNCHANGED <<reg, lease, gen, disk, bus, client, rule, writes, up, todo, ticking, spent, ends>>
  BY DEF RevertFirst, world, process
<1>2. \/ ~IsCurrent(c) /\ SameBut(c, "returned", TRUE)
      \/ IsCurrent(c) /\ SameBut(c, "lane", call[c].ok)
      \/ MayFail(c) /\ SameBut(c, "returned", FALSE)
  BY <1>0, <1>1, Gone, Returned DEF RevertFirst, Typed, CallAt
<1>3. TypeOK'
  BY <1>0, <1>1, <1>2 DEF TypeOK, LeaseFn, DiskFn, CallFn, Typed, SameBut
<1>4. Typed'
  BY <1>3, TypesOK DEF TypeOK, Typed, LeaseFn, DiskFn, CallFn
<1>5. Fields(lease, todo, call, reg, client) /\ Fields(lease', todo', call', reg', client')
  BY <1>0, <1>4, FieldsOf DEF Typed
<1>6. gen \in Nat /\ writes \in Nat /\ gen' \in Nat /\ writes' \in Nat
  BY <1>3 DEF TypeOK
<1>7. Guarding =>
        /\ "crash_unarmed" \notin Faults /\ "crash_boot" \notin Faults
        /\ "fail_stop" \notin Faults /\ "rule_late" \notin Faults
  BY DEF Guarding
<1>8. Exclusive'
  BY <1>0, <1>1, <1>2, <1>3, <1>5, <1>6, <1>7 DEF Exclusive, InLane, Recovered, Caller, LeaseField, CallField, Fields, SameBut
<1>9. Bounds'
  BY <1>0, <1>1, <1>2, <1>3, <1>5, <1>6, <1>7 DEF Bounds, Recovered, Caller, LeaseField, CallField, Fields, SameBut
<1>10. Generations'
  BY <1>0, <1>1, <1>2, <1>3, <1>5, <1>6, <1>7 DEF Generations, Bounds, Latest, Recovered, Caller, LeaseField, CallField, Fields, SameBut, IsCurrent
<1>11. Latest'
  BY <1>0, <1>1, <1>2, <1>3, <1>5, <1>6, <1>7 DEF Latest, Bounds, Exclusive, InLane, Recovered, Effect, Generations, Caller, LeaseField, CallField, Fields, SameBut, IsCurrent
<1>12. Recovered'
  BY <1>0, <1>1, <1>2, <1>3, <1>5, <1>6, <1>7 DEF Recovered, Bounds, DiskHasTheLeases, LeaseField, CallField, Fields, SameBut, IsCurrent
<1>13. RevertIsCurrent'
  BY <1>0, <1>1, <1>2, <1>3, <1>5, <1>6, <1>7 DEF RevertIsCurrent, Latest, Exclusive, Generations, InLane, Caller, LeaseField, CallField, Fields, SameBut, IsCurrent
<1>14. DiskHasTheLeases'
  BY <1>0, <1>1, <1>2, <1>3, <1>5, <1>6, <1>7 DEF DiskHasTheLeases, Recovered, LeaseField, CallField, Fields, SameBut, IsCurrent
<1>15. Guarding => Reverting'
  BY <1>0, <1>1, <1>2, <1>3, <1>5, <1>6, <1>7 DEF Reverting, NoneToPutOff, MayFail, Bounds, Recovered, Exclusive, InLane, Latest, Generations, Caller, LeaseField, CallField, Fields, SameBut, IsCurrent
<1>16. Guarding => LeasedIsGuarded'
  BY <1>0, <1>1, <1>2, <1>3, <1>5, <1>6, <1>7 DEF Reverting, LeasedIsGuarded, DiskHasTheLeases, Recovered, Latest, Caller, LeaseField, CallField, Fields, SameBut, IsCurrent
<1> QED
  BY <1>3, <1>8, <1>9, <1>10, <1>11, <1>12, <1>13, <1>14, <1>15, <1>16

LEMMA RevertTakesBusIInv ==
    ASSUME NEW c \in Caller, IInv, RevertTakesBus(c)
    PROVE  IInv'
<1> USE LeaseAssumption DEF IInv
<1>0. Typed
  BY TypesOK
<1>1. /\ call[c].at = "lane" /\ LaneFree /\ bus = None /\ UNCHANGED <<reg, lease, gen, disk, client, rule, writes, up, todo, ticking, spent, ends>>
  BY DEF RevertTakesBus, process
<1>2. \/ IsCurrent(c) /\ bus' = c /\ SameBut(c, "bus", call[c].ok)
      \/ ~IsCurrent(c) /\ bus' = bus /\ SameBut(c, "returned", TRUE)
  BY <1>0, <1>1, Gone, Returned DEF RevertTakesBus, Typed, CallAt
<1>3. TypeOK'
  BY <1>0, <1>1, <1>2 DEF TypeOK, LeaseFn, DiskFn, CallFn, Typed, SameBut, LaneFree
<1>4. Typed'
  BY <1>3, TypesOK DEF TypeOK, Typed, LeaseFn, DiskFn, CallFn
<1>5. Fields(lease, todo, call, reg, client) /\ Fields(lease', todo', call', reg', client')
  BY <1>0, <1>4, FieldsOf DEF Typed
<1>6. gen \in Nat /\ writes \in Nat /\ gen' \in Nat /\ writes' \in Nat
  BY <1>3 DEF TypeOK
<1>7. Guarding =>
        /\ "crash_unarmed" \notin Faults /\ "crash_boot" \notin Faults
        /\ "fail_stop" \notin Faults /\ "rule_late" \notin Faults
  BY DEF Guarding
<1>8. Exclusive'
  BY <1>0, <1>1, <1>2, <1>3, <1>5, <1>6, <1>7 DEF Exclusive, InLane, Recovered, Caller, LeaseField, CallField, Fields, SameBut, LaneFree
<1>9. Bounds'
  BY <1>0, <1>1, <1>2, <1>3, <1>5, <1>6, <1>7 DEF Bounds, Recovered, Caller, LeaseField, CallField, Fields, SameBut, LaneFree
<1>10. Generations'
  BY <1>0, <1>1, <1>2, <1>3, <1>5, <1>6, <1>7 DEF Generations, Bounds, Latest, Recovered, Caller, LeaseField, CallField, Fields, SameBut, IsCurrent, LaneFree
<1>11. Latest'
  BY <1>0, <1>1, <1>2, <1>3, <1>5, <1>6, <1>7 DEF Latest, Bounds, Exclusive, InLane, Recovered, Effect, Generations, Caller, LeaseField, CallField, Fields, SameBut, IsCurrent, LaneFree
<1>12. Recovered'
  BY <1>0, <1>1, <1>2, <1>3, <1>5, <1>6, <1>7 DEF Recovered, Bounds, DiskHasTheLeases, LeaseField, CallField, Fields, SameBut, IsCurrent, LaneFree
<1>13. RevertIsCurrent'
  BY <1>0, <1>1, <1>2, <1>3, <1>5, <1>6, <1>7 DEF RevertIsCurrent, Latest, Exclusive, Generations, InLane, Caller, LeaseField, CallField, Fields, SameBut, IsCurrent, LaneFree
<1>14. DiskHasTheLeases'
  BY <1>0, <1>1, <1>2, <1>3, <1>5, <1>6, <1>7 DEF DiskHasTheLeases, Recovered, LeaseField, CallField, Fields, SameBut, IsCurrent, LaneFree
<1>15. Guarding => Reverting'
  BY <1>0, <1>1, <1>2, <1>3, <1>5, <1>6, <1>7 DEF Reverting, NoneToPutOff, MayFail, Bounds, Recovered, Exclusive, InLane, Latest, Generations, Caller, LeaseField, CallField, Fields, SameBut, IsCurrent, LaneFree
<1>16. Guarding => LeasedIsGuarded'
  BY <1>0, <1>1, <1>2, <1>3, <1>5, <1>6, <1>7 DEF Reverting, LeasedIsGuarded, DiskHasTheLeases, Recovered, Latest, Caller, LeaseField, CallField, Fields, SameBut, IsCurrent, LaneFree
<1> QED
  BY <1>3, <1>8, <1>9, <1>10, <1>11, <1>12, <1>13, <1>14, <1>15, <1>16

LEMMA RevertWritesIInv ==
    ASSUME NEW c \in Caller, IInv, RevertWrites(c)
    PROVE  IInv'
<1> USE LeaseAssumption DEF IInv
<1>0. Typed
  BY TypesOK
<1>1. /\ call[c].at = "bus" /\ bus' = None /\ UNCHANGED <<lease, gen, disk, client, rule, writes, up, todo, ticking, spent, ends>>
  BY DEF RevertWrites, process
<1>2. PICK k \in Key, s \in Safe, n \in Nat : k = call[c].key /\ s = call[c].safe /\ n = call[c].n
  BY <1>0, <1>1, NoCallFields DEF Typed, CallFn
<1>3. \/ Goes(c, "wrote") /\ reg' = [reg EXCEPT ![k] = [held |-> "safe", safe |-> s, n |-> n]]
      \/ Returns(c, FALSE) /\ MayFail(c) /\ reg' = reg
  BY <1>0, <1>1, <1>2 DEF RevertWrites
<1>4. \/ /\ SameBut(c, "wrote", call[c].ok)
         /\ reg' \in [Key -> [held : Held, safe : Safe \cup {None}, n : Nat]]
         /\ reg'[k].held = "safe" /\ reg'[k].n = n
         /\ \A q \in Key : q # k => reg'[q] = reg[q]
      \/ MayFail(c) /\ reg' = reg /\ SameBut(c, "returned", FALSE)
  <2>1. CASE Goes(c, "wrote") /\ reg' = [reg EXCEPT ![k] = [held |-> "safe", safe |-> s, n |-> n]]
    <3>1. SameBut(c, "wrote", call[c].ok)
      BY <1>0, <1>1, <1>2, <1>3, <2>1, Gone DEF Typed, CallAt
    <3>2. "safe" \in Held /\ s \in Safe \cup {None} /\ TypeOK
      BY DEF Held
    <3>3. /\ reg' \in [Key -> [held : Held, safe : Safe \cup {None}, n : Nat]]
          /\ reg'[k].held = "safe" /\ reg'[k].n = n
          /\ \A q \in Key : q # k => reg'[q] = reg[q]
      BY <2>1, <3>2, Written
    <3> QED
      BY <3>1, <3>3
  <2>2. CASE Returns(c, FALSE) /\ MayFail(c) /\ reg' = reg
    BY <1>0, <1>1, <1>2, <1>3, <2>2, Returned DEF Typed
  <2> QED
    BY <1>0, <1>1, <1>2, <1>3, <2>1, <2>2
<1>5. TypeOK'
  BY <1>0, <1>1, <1>2, <1>3, <1>4 DEF TypeOK, LeaseFn, DiskFn, CallFn, Typed, SameBut
<1>6. Typed'
  BY <1>5, TypesOK DEF TypeOK, Typed, LeaseFn, DiskFn, CallFn
<1>7. Fields(lease, todo, call, reg, client) /\ Fields(lease', todo', call', reg', client')
  BY <1>0, <1>6, FieldsOf DEF Typed
<1>8. gen \in Nat /\ writes \in Nat /\ gen' \in Nat /\ writes' \in Nat
  BY <1>5 DEF TypeOK
<1>9. Guarding =>
        /\ "crash_unarmed" \notin Faults /\ "crash_boot" \notin Faults
        /\ "fail_stop" \notin Faults /\ "rule_late" \notin Faults
  BY DEF Guarding
<1>10. Exclusive'
  BY <1>0, <1>1, <1>2, <1>3, <1>4, <1>5, <1>7, <1>8, <1>9 DEF Exclusive, InLane, Recovered, Caller, LeaseField, CallField, Fields, SameBut
<1>11. Bounds'
  BY <1>0, <1>1, <1>2, <1>3, <1>4, <1>5, <1>7, <1>8, <1>9 DEF Bounds, Recovered, Caller, LeaseField, CallField, Fields, SameBut
<1>12. Generations'
  BY <1>0, <1>1, <1>2, <1>3, <1>4, <1>5, <1>7, <1>8, <1>9 DEF Generations, Bounds, Latest, Recovered, Caller, LeaseField, CallField, Fields, SameBut, IsCurrent
<1>13. Latest'
  BY <1>0, <1>1, <1>2, <1>3, <1>4, <1>5, <1>7, <1>8, <1>9 DEF Latest, Bounds, Exclusive, InLane, Recovered, Effect, Generations, Caller, LeaseField, CallField, Fields, SameBut, IsCurrent
<1>14. Recovered'
  BY <1>0, <1>1, <1>2, <1>3, <1>4, <1>5, <1>7, <1>8, <1>9 DEF Recovered, Bounds, DiskHasTheLeases, LeaseField, CallField, Fields, SameBut, IsCurrent
<1>15. RevertIsCurrent'
  BY <1>0, <1>1, <1>2, <1>3, <1>4, <1>5, <1>7, <1>8, <1>9 DEF RevertIsCurrent, Latest, Exclusive, Generations, InLane, Caller, LeaseField, CallField, Fields, SameBut, IsCurrent
<1>16. DiskHasTheLeases'
  BY <1>0, <1>1, <1>2, <1>3, <1>4, <1>5, <1>7, <1>8, <1>9 DEF DiskHasTheLeases, Recovered, LeaseField, CallField, Fields, SameBut, IsCurrent
<1>17. Guarding => Reverting'
  <2> SUFFICES ASSUME Guarding PROVE Reverting'
    OBVIOUS
  <2>1. rule' # None => reg'[rule'].held # "arm" \/ client'.key = rule'
    BY <1>1, <1>4 DEF Reverting, TypeOK
  <2>2. call'[Stopper].at # "none" => up' \in {"stop", "stopped"}
    BY <1>0, <1>1, <1>2, <1>3, <1>4, <1>5, <1>7, <1>8, <1>9 DEF Reverting, Bounds, Recovered, Exclusive, InLane, Latest, Generations, Caller, LeaseField, CallField, Fields, SameBut, IsCurrent
  <2>3. ASSUME NEW b \in Caller, NEW q \in Key, call'[b].key = q
        PROVE  /\ call'[b].at = "wrote" => reg'[q].held # "arm"
               /\ lease'[q].gen = call'[b].gen /\ call'[b].at # "ended" => lease'[q].due
    <3>1. call[b].key = q /\ call[b].gen = call'[b].gen /\ (call'[b].at # "ended" => call[b].at # "ended")
      BY <1>1, <1>4, <2>3 DEF SameBut
    <3>2. lease'[q].gen = call'[b].gen /\ call'[b].at # "ended" => lease'[q].due
      BY <1>1, <3>1 DEF Reverting
    <3>3. call'[b].at = "wrote" => reg'[q].held # "arm"
      BY <1>1, <1>2, <1>4, <2>3, <3>1 DEF Reverting, SameBut
    <3> QED
      BY <3>2, <3>3
  <2>4. ASSUME NEW b \in Caller, NEW q \in Key, call'[b].key = q,
               lease'[q].gen = call'[b].gen, call'[b].at = "returned", call'[b].ok
        PROVE  reg'[q].held # "arm" \/ client'.key = q
    BY <2>4, <1>0, <1>1, <1>2, <1>3, <1>4, <1>5, <1>7, <1>8, <1>9 DEF Reverting, Bounds, Recovered, Exclusive, InLane, Latest, Generations, Caller, LeaseField, CallField, Fields, SameBut, IsCurrent
  <2>5. up' \in {"stop", "stopped"} => NoneToPutOff'
    <3> SUFFICES ASSUME up' \in {"stop", "stopped"}, NEW q \in Key, call'[q].at = "returned"
                 PROVE  call'[q].ok
      BY DEF NoneToPutOff
    <3> QED
      BY <1>1, <1>4, <1>9, LeaseAssumption DEF Reverting, NoneToPutOff, MayFail, SameBut, Caller
  <2>6. up' = "stop" => \A q \in Key :
            todo'[q].gen # 0 /\ lease'[q].gen = todo'[q].gen => lease'[q].due
    BY <1>0, <1>1, <1>2, <1>3, <1>4, <1>5, <1>7, <1>8, <1>9 DEF Reverting, Bounds, Recovered, Exclusive, InLane, Latest, Generations, Caller, LeaseField, CallField, Fields, SameBut, IsCurrent
  <2> QED
    BY <2>1, <2>2, <2>3, <2>4, <2>5, <2>6 DEF Reverting
<1>18. Guarding => LeasedIsGuarded'
  BY <1>0, <1>1, <1>2, <1>3, <1>4, <1>5, <1>7, <1>8, <1>9 DEF Reverting, LeasedIsGuarded, DiskHasTheLeases, Recovered, Latest, Caller, LeaseField, CallField, Fields, SameBut, IsCurrent
<1> QED
  BY <1>5, <1>10, <1>11, <1>12, <1>13, <1>14, <1>15, <1>16, <1>17, <1>18

LEMMA RevertRecordsIInv ==
    ASSUME NEW c \in Caller, IInv, RevertRecords(c)
    PROVE  IInv'
<1> USE LeaseAssumption DEF IInv
<1>0. Typed
  BY TypesOK
<1>1. /\ call[c].at = "wrote" /\ UNCHANGED <<reg, bus, client, rule, writes, up, todo, ticking, spent, ends>>
  BY DEF RevertRecords, world, process
<1>2. SameBut(c, "returned", TRUE)
  BY <1>0, <1>1, Returned DEF RevertRecords, Typed
<1>3. PICK k \in Key : k = call[c].key
  BY <1>0, <1>1, <1>2, NoCallFields DEF Typed, CallFn
<1>4. UNCHANGED <<lease, gen, disk>> \/ Clear(k)
  BY <1>0, <1>1, <1>2, <1>3 DEF RevertRecords
<1>5. \/ UNCHANGED <<lease, gen, disk>>
      \/ /\ lease' \in LeaseFn /\ disk' \in DiskFn /\ gen' = gen /\ lease'[k] = NoLease
         /\ \A q \in Key : q # k => lease'[q] = lease[q]
         /\ (\A q \in Key : disk[q] # None <=> lease[q] # NoLease) =>
               \A q \in Key : disk'[q] # None <=> lease'[q] # NoLease
  BY <1>0, <1>1, <1>2, <1>3, <1>4, Cleared DEF Typed
<1>6. NoLease.gen = 0 /\ NoLease.n = 0
  BY DEF NoLease
<1>7. TypeOK'
  BY <1>0, <1>1, <1>2, <1>3, <1>4, <1>5, <1>6 DEF TypeOK, LeaseFn, DiskFn, CallFn, Typed, SameBut
<1>8. Typed'
  BY <1>7, TypesOK DEF TypeOK, Typed, LeaseFn, DiskFn, CallFn
<1>9. Fields(lease, todo, call, reg, client) /\ Fields(lease', todo', call', reg', client')
  BY <1>0, <1>8, FieldsOf DEF Typed
<1>10. gen \in Nat /\ writes \in Nat /\ gen' \in Nat /\ writes' \in Nat
  BY <1>7 DEF TypeOK
<1>11. Guarding =>
        /\ "crash_unarmed" \notin Faults /\ "crash_boot" \notin Faults
        /\ "fail_stop" \notin Faults /\ "rule_late" \notin Faults
  BY DEF Guarding
<1>12. Exclusive'
  BY <1>0, <1>1, <1>2, <1>3, <1>4, <1>5, <1>6, <1>7, <1>9, <1>10, <1>11 DEF Exclusive, InLane, Recovered, Caller, LeaseField, CallField, Fields, SameBut
<1>13. Bounds'
  BY <1>0, <1>1, <1>2, <1>3, <1>4, <1>5, <1>6, <1>7, <1>9, <1>10, <1>11 DEF Bounds, Recovered, Caller, LeaseField, CallField, Fields, SameBut
<1>14. Generations'
  BY <1>0, <1>1, <1>2, <1>3, <1>4, <1>5, <1>6, <1>7, <1>9, <1>10, <1>11 DEF Generations, Bounds, Latest, Recovered, Caller, LeaseField, CallField, Fields, SameBut, IsCurrent
<1>15. Latest'
  BY <1>0, <1>1, <1>2, <1>3, <1>4, <1>5, <1>6, <1>7, <1>9, <1>10, <1>11 DEF Latest, Bounds, Exclusive, InLane, Recovered, Effect, Generations, Caller, LeaseField, CallField, Fields, SameBut, IsCurrent
<1>16. Recovered'
  BY <1>0, <1>1, <1>2, <1>3, <1>4, <1>5, <1>6, <1>7, <1>9, <1>10, <1>11 DEF Recovered, Bounds, DiskHasTheLeases, LeaseField, CallField, Fields, SameBut, IsCurrent
<1>17. RevertIsCurrent'
  BY <1>0, <1>1, <1>2, <1>3, <1>4, <1>5, <1>6, <1>7, <1>9, <1>10, <1>11 DEF RevertIsCurrent, Latest, Exclusive, Generations, InLane, Caller, LeaseField, CallField, Fields, SameBut, IsCurrent
<1>18. DiskHasTheLeases'
  BY <1>0, <1>1, <1>2, <1>3, <1>4, <1>5, <1>6, <1>7, <1>9, <1>10, <1>11 DEF DiskHasTheLeases, Recovered, LeaseField, CallField, Fields, SameBut, IsCurrent
<1>19. Guarding => Reverting'
  <2> SUFFICES ASSUME Guarding PROVE Reverting'
    OBVIOUS
  <2>1. rule' # None => reg'[rule'].held # "arm" \/ client'.key = rule'
    BY <1>0, <1>1, <1>2, <1>3, <1>4, <1>5, <1>6, <1>7, <1>9, <1>10, <1>11 DEF Reverting, Bounds, Recovered, Exclusive, InLane, Latest, Generations, Caller, LeaseField, CallField, Fields, SameBut, IsCurrent, TypeOK
  <2>2. call'[Stopper].at # "none" => up' \in {"stop", "stopped"}
    BY <1>0, <1>1, <1>2, <1>3, <1>4, <1>5, <1>6, <1>7, <1>9, <1>10, <1>11 DEF Reverting, Bounds, Recovered, Exclusive, InLane, Latest, Generations, Caller, LeaseField, CallField, Fields, SameBut, IsCurrent
  <2>3. ASSUME NEW b \in Caller, NEW q \in Key, call'[b].key = q
        PROVE  /\ call'[b].at = "wrote" => reg'[q].held # "arm"
               /\ lease'[q].gen = call'[b].gen /\ call'[b].at # "ended" => lease'[q].due
    BY <2>3, <1>0, <1>1, <1>2, <1>3, <1>4, <1>5, <1>6, <1>7, <1>9, <1>10, <1>11 DEF Reverting, Bounds, Recovered, Exclusive, InLane, Latest, Generations, Caller, LeaseField, CallField, Fields, SameBut, IsCurrent
  <2>4. ASSUME NEW b \in Caller, NEW q \in Key, call'[b].key = q,
               lease'[q].gen = call'[b].gen, call'[b].at = "returned", call'[b].ok
        PROVE  reg'[q].held # "arm" \/ client'.key = q
    BY <2>4, <1>0, <1>1, <1>2, <1>3, <1>4, <1>5, <1>6, <1>7, <1>9, <1>10, <1>11 DEF Reverting, Bounds, Recovered, Exclusive, InLane, Latest, Generations, Caller, LeaseField, CallField, Fields, SameBut, IsCurrent
  <2>5. up' \in {"stop", "stopped"} => NoneToPutOff'
    <3> SUFFICES ASSUME up' \in {"stop", "stopped"}, NEW q \in Key, call'[q].at = "returned"
                 PROVE  call'[q].ok
      BY DEF NoneToPutOff
    <3> QED
      BY <1>0, <1>1, <1>2, <1>3, <1>4, <1>5, <1>6, <1>7, <1>9, <1>10, <1>11 DEF Reverting, Bounds, Recovered, Exclusive, InLane, Latest, Generations, Caller, LeaseField, CallField, Fields, SameBut, IsCurrent, NoneToPutOff, MayFail
  <2>6. up' = "stop" => \A q \in Key :
            todo'[q].gen # 0 /\ lease'[q].gen = todo'[q].gen => lease'[q].due
    BY <1>0, <1>1, <1>2, <1>3, <1>4, <1>5, <1>6, <1>7, <1>9, <1>10, <1>11 DEF Reverting, Bounds, Recovered, Exclusive, InLane, Latest, Generations, Caller, LeaseField, CallField, Fields, SameBut, IsCurrent
  <2> QED
    BY <2>1, <2>2, <2>3, <2>4, <2>5, <2>6 DEF Reverting
<1>20. Guarding => LeasedIsGuarded'
  BY <1>0, <1>1, <1>2, <1>3, <1>4, <1>5, <1>6, <1>7, <1>9, <1>10, <1>11 DEF Reverting, LeasedIsGuarded, DiskHasTheLeases, Recovered, Latest, Caller, LeaseField, CallField, Fields, SameBut, IsCurrent
<1> QED
  BY <1>7, <1>12, <1>13, <1>14, <1>15, <1>16, <1>17, <1>18, <1>19, <1>20

LEMMA SweepEndsIInv ==
    ASSUME NEW k \in Key, IInv, SweepEnds(k)
    PROVE  IInv'
<1> USE LeaseAssumption DEF IInv
<1>0. Typed
  BY TypesOK
<1>1. /\ call[k].at = "returned" /\ UNCHANGED <<reg, gen, bus, client, rule, writes, up, todo, ticking, spent, ends>>
  BY DEF SweepEnds, world, process
<1>2. SameBut(k, "ended", call[k].ok)
  BY <1>0, <1>1, Gone DEF SweepEnds, Typed, CallAt, Caller
<1>3. call[k].key = k
  BY <1>0, <1>1, <1>2 DEF Exclusive
<1>4. \/ ~IsCurrent(k) /\ lease' = lease /\ disk' = disk
      \/ /\ IsCurrent(k) /\ call[k].ok /\ lease' \in LeaseFn /\ lease'[k].gen = 0 /\ \A q \in Key : q # k => lease'[q] = lease[q]
         /\ disk' \in DiskFn /\ \A q \in Key : disk'[q] # None <=> lease'[q] # NoLease
      \/ /\ IsCurrent(k) /\ ~call[k].ok /\ lease' \in LeaseFn /\ disk' = disk
         /\ lease'[k].gen = lease[k].gen /\ lease'[k].n = lease[k].n /\ \A q \in Key : q # k => lease'[q] = lease[q]
  <2>1. CASE ~IsCurrent(k)
    BY <2>1 DEF SweepEnds
  <2>2. CASE IsCurrent(k) /\ call[k].ok
    <3>1. Drop(k) /\ Persist
      BY <2>2 DEF SweepEnds
    <3>2. lease'[k] = NoLease
      BY <1>0, <1>1, <1>2, <1>3, <3>1, Dropped DEF Typed
    <3> QED
      BY <1>0, <1>1, <1>2, <1>3, <2>2, <3>1, <3>2, Dropped, Persisted, NoLeaseFields DEF Typed, LeaseFn
  <2>3. CASE IsCurrent(k) /\ ~call[k].ok
    <3>1. lease' = [lease EXCEPT ![k].due = FALSE] /\ disk' = disk
      BY <2>3 DEF SweepEnds
    <3>2. lease[k] # NoLease
      BY <1>0, <1>1, <1>2, <1>3, <2>3 DEF IsCurrent
    <3> QED
      BY <1>0, <1>1, <1>2, <1>3, <2>3, <3>1, <3>2, Dued DEF Typed
  <2> QED
    BY <2>1, <2>2, <2>3
<1>5. TypeOK'
  BY <1>0, <1>1, <1>2, <1>3, <1>4 DEF TypeOK, LeaseFn, DiskFn, CallFn, Typed, SameBut
<1>6. Typed'
  BY <1>5, TypesOK DEF TypeOK, Typed, LeaseFn, DiskFn, CallFn
<1>7. Fields(lease, todo, call, reg, client) /\ Fields(lease', todo', call', reg', client')
  BY <1>0, <1>6, FieldsOf DEF Typed
<1>8. gen \in Nat /\ writes \in Nat /\ gen' \in Nat /\ writes' \in Nat
  BY <1>5 DEF TypeOK
<1>9. Guarding =>
        /\ "crash_unarmed" \notin Faults /\ "crash_boot" \notin Faults
        /\ "fail_stop" \notin Faults /\ "rule_late" \notin Faults
  BY DEF Guarding
<1>10. Exclusive'
  BY <1>0, <1>1, <1>2, <1>3, <1>4, <1>5, <1>7, <1>8, <1>9 DEF Exclusive, InLane, Recovered, Caller, LeaseField, CallField, Fields, SameBut
<1>11. Bounds'
  BY <1>0, <1>1, <1>2, <1>3, <1>4, <1>5, <1>7, <1>8, <1>9 DEF Bounds, Recovered, Caller, LeaseField, CallField, Fields, SameBut
<1>12. Generations'
  BY <1>0, <1>1, <1>2, <1>3, <1>4, <1>5, <1>7, <1>8, <1>9 DEF Generations, Bounds, Latest, Recovered, Caller, LeaseField, CallField, Fields, SameBut, IsCurrent
<1>13. Latest'
  BY <1>0, <1>1, <1>2, <1>3, <1>4, <1>5, <1>7, <1>8, <1>9 DEF Latest, Bounds, Exclusive, InLane, Recovered, Effect, Generations, Caller, LeaseField, CallField, Fields, SameBut, IsCurrent
<1>14. Recovered'
  BY <1>0, <1>1, <1>2, <1>3, <1>4, <1>5, <1>7, <1>8, <1>9 DEF Recovered, Bounds, DiskHasTheLeases, LeaseField, CallField, Fields, SameBut, IsCurrent
<1>15. RevertIsCurrent'
  BY <1>0, <1>1, <1>2, <1>3, <1>4, <1>5, <1>7, <1>8, <1>9 DEF RevertIsCurrent, Latest, Exclusive, Generations, InLane, Caller, LeaseField, CallField, Fields, SameBut, IsCurrent
<1>16. DiskHasTheLeases'
  BY <1>0, <1>1, <1>2, <1>3, <1>4, <1>5, <1>7, <1>8, <1>9 DEF DiskHasTheLeases, Recovered, LeaseField, CallField, Fields, SameBut, IsCurrent
<1>17. Guarding => Reverting'
  <2> SUFFICES ASSUME Guarding PROVE Reverting'
    OBVIOUS
  <2>1. rule' # None => reg'[rule'].held # "arm" \/ client'.key = rule'
    BY <1>0, <1>1, <1>2, <1>3, <1>4, <1>5, <1>7, <1>8, <1>9 DEF Reverting, Bounds, Recovered, Exclusive, InLane, Latest, Generations, Caller, LeaseField, CallField, Fields, SameBut, IsCurrent, TypeOK
  <2>2. call'[Stopper].at # "none" => up' \in {"stop", "stopped"}
    BY <1>0, <1>1, <1>2, <1>3, <1>4, <1>5, <1>7, <1>8, <1>9 DEF Reverting, Bounds, Recovered, Exclusive, InLane, Latest, Generations, Caller, LeaseField, CallField, Fields, SameBut, IsCurrent
  <2>3. ASSUME NEW b \in Caller, NEW q \in Key, call'[b].key = q
        PROVE  /\ call'[b].at = "wrote" => reg'[q].held # "arm"
               /\ lease'[q].gen = call'[b].gen /\ call'[b].at # "ended" => lease'[q].due
    <3>1. call'[b].at = "wrote" => b # k /\ call[b].at = "wrote" /\ call[b].key = q
      BY <1>2, <2>3 DEF SameBut
    <3>2. call[b].key = q /\ call[b].gen = call'[b].gen /\ (call'[b].at # "ended" => call[b].at # "ended")
      BY <1>1, <1>2, <2>3 DEF SameBut
    <3>3. lease'[q].gen = call'[b].gen /\ call'[b].at # "ended" => lease[q].gen = call[b].gen /\ lease[q].due
      BY <1>0, <1>4, <1>7, <2>3, <3>2 DEF Reverting, Fields, CallField
    <3>4. call'[b].at # "ended" /\ q = k => b = Stopper /\ up \in {"stop", "stopped"}
      <4>1. call'[b].at # "ended" => b # k
        BY <1>2 DEF SameBut
      <4>2. b \in Key /\ q = k => b = k
        BY <1>7, <3>2 DEF Exclusive, Fields, CallField
      <4>3. b = Stopper => call[b].at # "none"
        BY <1>7, <3>2 DEF Fields, CallField, Caller
      <4> QED
        BY <4>1, <4>2, <4>3 DEF Reverting, Caller
    <3>5. up \in {"stop", "stopped"} => call[k].ok
      BY <1>1 DEF Reverting, NoneToPutOff
    <3>6. call'[b].at # "ended" /\ lease'[q].gen = call'[b].gen => lease'[q] = lease[q]
      BY <1>4, <1>7, <3>2, <3>4, <3>5 DEF Fields, CallField
    <3> QED
      BY <1>1, <3>1, <3>3, <3>6, <2>3 DEF Reverting
  <2>4. ASSUME NEW b \in Caller, NEW q \in Key, call'[b].key = q,
               lease'[q].gen = call'[b].gen, call'[b].at = "returned", call'[b].ok
        PROVE  reg'[q].held # "arm" \/ client'.key = q
    BY <2>4, <1>0, <1>1, <1>2, <1>3, <1>4, <1>5, <1>7, <1>8, <1>9 DEF Reverting, Bounds, Recovered, Exclusive, InLane, Latest, Generations, Caller, LeaseField, CallField, Fields, SameBut, IsCurrent
  <2>5. up' \in {"stop", "stopped"} => NoneToPutOff'
    <3> SUFFICES ASSUME up' \in {"stop", "stopped"}, NEW q \in Key, call'[q].at = "returned"
                 PROVE  call'[q].ok
      BY DEF NoneToPutOff
    <3> QED
      <4>1. call[q].at = "returned" /\ call'[q].ok = call[q].ok
        BY <1>1, <1>2 DEF SameBut, Caller
      <4>2. up \in {"stop", "stopped"}
        BY <1>1
      <4> QED
        BY <4>1, <4>2 DEF Reverting, NoneToPutOff
  <2>6. up' = "stop" => \A q \in Key :
            todo'[q].gen # 0 /\ lease'[q].gen = todo'[q].gen => lease'[q].due
    <3>1. up = "stop" => call[k].ok
      BY <1>1 DEF Reverting, NoneToPutOff
    <3> QED
      BY <1>1, <1>4, <3>1 DEF Reverting
  <2> QED
    BY <2>1, <2>2, <2>3, <2>4, <2>5, <2>6 DEF Reverting
<1>18. Guarding => LeasedIsGuarded'
  BY <1>0, <1>1, <1>2, <1>3, <1>4, <1>5, <1>7, <1>8, <1>9 DEF Reverting, LeasedIsGuarded, DiskHasTheLeases, Recovered, Latest, Caller, LeaseField, CallField, Fields, SameBut, IsCurrent
<1> QED
  BY <1>5, <1>10, <1>11, <1>12, <1>13, <1>14, <1>15, <1>16, <1>17, <1>18

LEMMA SweepLandsIInv ==
    ASSUME NEW k \in Key, IInv, SweepLands(k)
    PROVE  IInv'
<1> USE LeaseAssumption DEF IInv
<1>0. Typed
  BY TypesOK
<1>1. /\ call[k].at = "ended" /\ UNCHANGED <<reg, lease, gen, disk, bus, client, rule, writes, up, todo, ticking, spent, ends>>
  BY DEF SweepLands, world, process
<1>2. /\ call' \in CallFn /\ call'[k] = NoCall
      /\ \A b \in Caller : b # k => call'[b] = call[b]
  BY <1>0, <1>1, Landed DEF SweepLands, Typed, Caller
<1>3. call'[k].at = "none" /\ call'[k].key = None /\ call'[k].gen = 0 /\ call'[k].n = 0
  BY <1>0, <1>1, <1>2 DEF NoCall
<1>4. TypeOK'
  BY <1>0, <1>1, <1>2, <1>3 DEF TypeOK, LeaseFn, DiskFn, CallFn, Typed, Held, Effect
<1>5. Typed'
  BY <1>4, TypesOK DEF TypeOK, Typed, LeaseFn, DiskFn, CallFn
<1>6. Fields(lease, todo, call, reg, client) /\ Fields(lease', todo', call', reg', client')
  BY <1>0, <1>5, FieldsOf DEF Typed
<1>7. gen \in Nat /\ writes \in Nat /\ gen' \in Nat /\ writes' \in Nat
  BY <1>4 DEF TypeOK
<1>8. Guarding =>
        /\ "crash_unarmed" \notin Faults /\ "crash_boot" \notin Faults
        /\ "fail_stop" \notin Faults /\ "rule_late" \notin Faults
  BY DEF Guarding
<1>9. Exclusive'
  BY <1>0, <1>1, <1>2, <1>3, <1>4, <1>6, <1>7, <1>8 DEF Exclusive, InLane, Recovered, Caller, LeaseField, CallField, Fields
<1>10. Bounds'
  BY <1>0, <1>1, <1>2, <1>3, <1>4, <1>6, <1>7, <1>8 DEF Bounds, Recovered, Caller, LeaseField, CallField, Fields
<1>11. Generations'
  BY <1>0, <1>1, <1>2, <1>3, <1>4, <1>6, <1>7, <1>8 DEF Generations, Bounds, Latest, Recovered, Caller, LeaseField, CallField, Fields
<1>12. Latest'
  <2>1. \A q \in Key : lease'[q].gen # 0 /\ client'.key # q =>
            reg'[q].n <= lease'[q].n \/ reg'[q].held \in {"keep", "rule"}
    BY <1>0, <1>1, <1>2, <1>3, <1>4, <1>6, <1>7, <1>8 DEF Latest, Bounds, Exclusive, InLane, Recovered, Effect, Generations, Caller, LeaseField, CallField, Fields
  <2>2. ASSUME NEW q \in Key, client'.key = q
        PROVE  /\ reg'[q].held \in {client'.effect, "rule"}
               /\ lease'[q].n <= reg'[q].n /\ todo'[q].n <= reg'[q].n
               /\ client'.effect = "arm" => client'.safe # None
    BY <1>0, <1>1, <1>2, <1>3, <1>4, <1>6, <1>7, <1>8, <2>2 DEF Latest, Bounds, Exclusive, InLane, Recovered, Effect, Generations, Caller, LeaseField, CallField, Fields
  <2>3. ASSUME NEW q \in Key, client'.key = q, NEW c \in Caller, call'[c].key = q
        PROVE  call'[c].n <= reg'[q].n
    BY <1>0, <1>1, <1>2, <1>3, <1>4, <1>6, <1>7, <1>8, <2>3 DEF Latest, Bounds, Exclusive, InLane, Recovered, Effect, Generations, Caller, LeaseField, CallField, Fields
  <2> QED
    BY <2>1, <2>2, <2>3 DEF Latest
<1>13. Recovered'
  BY <1>0, <1>1, <1>2, <1>3, <1>4, <1>6, <1>7, <1>8 DEF Recovered, Bounds, DiskHasTheLeases, LeaseField, CallField, Fields
<1>14. RevertIsCurrent'
  BY <1>0, <1>1, <1>2, <1>3, <1>4, <1>6, <1>7, <1>8 DEF RevertIsCurrent, Latest, Exclusive, Generations, InLane, Caller, LeaseField, CallField, Fields
<1>15. DiskHasTheLeases'
  BY <1>0, <1>1, <1>2, <1>3, <1>4, <1>6, <1>7, <1>8 DEF DiskHasTheLeases, Recovered, LeaseField, CallField, Fields
<1>16. Guarding => Reverting'
  BY <1>0, <1>1, <1>2, <1>3, <1>4, <1>6, <1>7, <1>8 DEF Reverting, NoneToPutOff, MayFail, Bounds, Recovered, Exclusive, InLane, Latest, Generations, Caller, LeaseField, CallField, Fields
<1>17. Guarding => LeasedIsGuarded'
  BY <1>0, <1>1, <1>2, <1>3, <1>4, <1>6, <1>7, <1>8 DEF Reverting, LeasedIsGuarded, DiskHasTheLeases, Recovered, Latest, Caller, LeaseField, CallField, Fields
<1> QED
  BY <1>4, <1>9, <1>10, <1>11, <1>12, <1>13, <1>14, <1>15, <1>16, <1>17

LEMMA StopBeginsIInv ==
    ASSUME IInv, StopBegins
    PROVE  IInv'
<1> USE LeaseAssumption DEF IInv
<1>0. Typed
  BY TypesOK
<1>1. /\ "stop" \in Faults /\ (NoneToPutOff \/ "fail_stop" \in Faults)
      /\ up = "run" /\ up' = "stop" /\ ends' = ends + 1 /\ ticking' \subseteq Key /\ todo' = lease'
      /\ UNCHANGED <<reg, gen, disk, call, bus, client, rule, writes, spent>>
  BY DEF StopBegins, world
<1>2. \A k \in Key : lease[k] \in Lease \/ lease[k] = NoLease
  BY <1>0, <1>1 DEF Typed, LeaseFn
<1>3. \A k \in Key : lease[k] # NoLease => [lease[k] EXCEPT !.due = TRUE] \in Lease
  BY <1>0, <1>1, <1>2 DEF Lease
<1>4. /\ lease' \in LeaseFn
      /\ \A k \in Key : lease'[k].gen = lease[k].gen /\ lease'[k].n = lease[k].n /\ (lease'[k].gen # 0 => lease'[k].due)
  BY <1>0, <1>1, <1>2, <1>3 DEF StopBegins, Typed, LeaseFn, NoLease, Lease
<1>5. TypeOK'
  BY <1>0, <1>1, <1>2, <1>3, <1>4 DEF TypeOK, LeaseFn, DiskFn, CallFn, Typed, Held, Effect
<1>6. Typed'
  BY <1>5, TypesOK DEF TypeOK, Typed, LeaseFn, DiskFn, CallFn
<1>7. Fields(lease, todo, call, reg, client) /\ Fields(lease', todo', call', reg', client')
  BY <1>0, <1>6, FieldsOf DEF Typed
<1>8. gen \in Nat /\ writes \in Nat /\ gen' \in Nat /\ writes' \in Nat
  BY <1>5 DEF TypeOK
<1>9. Guarding =>
        /\ "crash_unarmed" \notin Faults /\ "crash_boot" \notin Faults
        /\ "fail_stop" \notin Faults /\ "rule_late" \notin Faults
  BY DEF Guarding
<1>10. Exclusive'
  BY <1>0, <1>1, <1>2, <1>3, <1>4, <1>5, <1>7, <1>8, <1>9 DEF Exclusive, InLane, Recovered, Caller, LeaseField, CallField, Fields
<1>11. Bounds'
  BY <1>0, <1>1, <1>2, <1>3, <1>4, <1>5, <1>7, <1>8, <1>9 DEF Bounds, Recovered, Caller, LeaseField, CallField, Fields
<1>12. Generations'
  BY <1>0, <1>1, <1>2, <1>3, <1>4, <1>5, <1>7, <1>8, <1>9 DEF Generations, Bounds, Latest, Recovered, Caller, LeaseField, CallField, Fields
<1>13. Latest'
  <2>1. \A q \in Key : lease'[q].gen # 0 /\ client'.key # q =>
            reg'[q].n <= lease'[q].n \/ reg'[q].held \in {"keep", "rule"}
    BY <1>0, <1>1, <1>2, <1>3, <1>4, <1>5, <1>7, <1>8, <1>9 DEF Latest, Bounds, Exclusive, InLane, Recovered, Effect, Generations, Caller, LeaseField, CallField, Fields
  <2>2. ASSUME NEW q \in Key, client'.key = q
        PROVE  /\ reg'[q].held \in {client'.effect, "rule"}
               /\ lease'[q].n <= reg'[q].n /\ todo'[q].n <= reg'[q].n
               /\ client'.effect = "arm" => client'.safe # None
    BY <1>0, <1>1, <1>2, <1>3, <1>4, <1>5, <1>7, <1>8, <1>9, <2>2 DEF Latest, Bounds, Exclusive, InLane, Recovered, Effect, Generations, Caller, LeaseField, CallField, Fields
  <2>3. ASSUME NEW q \in Key, client'.key = q, NEW c \in Caller, call'[c].key = q
        PROVE  call'[c].n <= reg'[q].n
    BY <1>0, <1>1, <1>2, <1>3, <1>4, <1>5, <1>7, <1>8, <1>9, <2>3 DEF Latest, Bounds, Exclusive, InLane, Recovered, Effect, Generations, Caller, LeaseField, CallField, Fields
  <2> QED
    BY <2>1, <2>2, <2>3 DEF Latest
<1>14. Recovered'
  BY <1>0, <1>1, <1>2, <1>3, <1>4, <1>5, <1>7, <1>8, <1>9 DEF Recovered, Bounds, DiskHasTheLeases, LeaseField, CallField, Fields
<1>15. RevertIsCurrent'
  BY <1>0, <1>1, <1>2, <1>3, <1>4, <1>5, <1>7, <1>8, <1>9 DEF RevertIsCurrent, Latest, Exclusive, Generations, InLane, Caller, LeaseField, CallField, Fields
<1>16. DiskHasTheLeases'
  BY <1>0, <1>1, <1>2, <1>3, <1>4, <1>5, <1>7, <1>8, <1>9 DEF DiskHasTheLeases, Recovered, LeaseField, CallField, Fields
<1>17. Guarding => Reverting'
  BY <1>0, <1>1, <1>2, <1>3, <1>4, <1>5, <1>7, <1>8, <1>9 DEF Reverting, NoneToPutOff, MayFail, Bounds, Recovered, Exclusive, InLane, Latest, Generations, Caller, LeaseField, CallField, Fields
<1>18. Guarding => LeasedIsGuarded'
  BY <1>0, <1>1, <1>2, <1>3, <1>4, <1>5, <1>7, <1>8, <1>9 DEF Reverting, LeasedIsGuarded, DiskHasTheLeases, Recovered, Latest, Caller, LeaseField, CallField, Fields
<1> QED
  BY <1>5, <1>10, <1>11, <1>12, <1>13, <1>14, <1>15, <1>16, <1>17, <1>18

LEMMA StopNextIInv ==
    ASSUME NEW k \in Key, IInv, StopNext(k)
    PROVE  IInv'
<1> USE LeaseAssumption DEF IInv
<1>0. Typed
  BY TypesOK
<1>1. /\ up = "stop" /\ ~spent /\ todo[k] # NoLease /\ call[Stopper] = NoCall /\ UNCHANGED <<reg, lease, gen, disk, bus, client, rule, writes, up, ticking, spent, ends>>
  BY DEF StopNext, world
<1>2. /\ todo' \in LeaseFn /\ todo'[k] = NoLease /\ todo'[k].gen = 0 /\ todo'[k].n = 0
      /\ \A q \in Key : q # k => todo'[q] = todo[q]
  BY <1>0, <1>1 DEF StopNext, Typed, LeaseFn, NoLease
<1>3. /\ call' \in CallFn
      /\ call'[Stopper].at = "first" /\ call'[Stopper].key = k /\ ~call'[Stopper].ok
      /\ call'[Stopper].gen = todo[k].gen /\ call'[Stopper].n = todo[k].n
      /\ \A b \in Caller : b # Stopper => call'[b] = call[b]
  BY <1>0, <1>1, <1>2, Started DEF StopNext, Typed, LeaseFn, Caller
<1>4. TypeOK'
  BY <1>0, <1>1, <1>2, <1>3 DEF TypeOK, LeaseFn, DiskFn, CallFn, Typed, Held, Effect
<1>5. Typed'
  BY <1>4, TypesOK DEF TypeOK, Typed, LeaseFn, DiskFn, CallFn
<1>6. Fields(lease, todo, call, reg, client) /\ Fields(lease', todo', call', reg', client')
  BY <1>0, <1>5, FieldsOf DEF Typed
<1>7. gen \in Nat /\ writes \in Nat /\ gen' \in Nat /\ writes' \in Nat
  BY <1>4 DEF TypeOK
<1>8. Guarding =>
        /\ "crash_unarmed" \notin Faults /\ "crash_boot" \notin Faults
        /\ "fail_stop" \notin Faults /\ "rule_late" \notin Faults
  BY DEF Guarding
<1>9. Exclusive'
  BY <1>0, <1>1, <1>2, <1>3, <1>4, <1>6, <1>7, <1>8 DEF Exclusive, InLane, Recovered, Caller, LeaseField, CallField, Fields
<1>10. Bounds'
  BY <1>0, <1>1, <1>2, <1>3, <1>4, <1>6, <1>7, <1>8 DEF Bounds, Recovered, Caller, LeaseField, CallField, Fields
<1>11. Generations'
  BY <1>0, <1>1, <1>2, <1>3, <1>4, <1>6, <1>7, <1>8 DEF Generations, Bounds, Latest, Recovered, Caller, LeaseField, CallField, Fields
<1>12. Latest'
  <2>1. \A q \in Key : lease'[q].gen # 0 /\ client'.key # q =>
            reg'[q].n <= lease'[q].n \/ reg'[q].held \in {"keep", "rule"}
    BY <1>0, <1>1, <1>2, <1>3, <1>4, <1>6, <1>7, <1>8 DEF Latest, Bounds, Exclusive, InLane, Recovered, Effect, Generations, Caller, LeaseField, CallField, Fields
  <2>2. ASSUME NEW q \in Key, client'.key = q
        PROVE  /\ reg'[q].held \in {client'.effect, "rule"}
               /\ lease'[q].n <= reg'[q].n /\ todo'[q].n <= reg'[q].n
               /\ client'.effect = "arm" => client'.safe # None
    BY <1>0, <1>1, <1>2, <1>3, <1>4, <1>6, <1>7, <1>8, <2>2 DEF Latest, Bounds, Exclusive, InLane, Recovered, Effect, Generations, Caller, LeaseField, CallField, Fields
  <2>3. ASSUME NEW q \in Key, client'.key = q, NEW c \in Caller, call'[c].key = q
        PROVE  call'[c].n <= reg'[q].n
    BY <1>0, <1>1, <1>2, <1>3, <1>4, <1>6, <1>7, <1>8, <2>3 DEF Latest, Bounds, Exclusive, InLane, Recovered, Effect, Generations, Caller, LeaseField, CallField, Fields
  <2> QED
    BY <2>1, <2>2, <2>3 DEF Latest
<1>13. Recovered'
  BY <1>0, <1>1, <1>2, <1>3, <1>4, <1>6, <1>7, <1>8 DEF Recovered, Bounds, DiskHasTheLeases, LeaseField, CallField, Fields
<1>14. RevertIsCurrent'
  BY <1>0, <1>1, <1>2, <1>3, <1>4, <1>6, <1>7, <1>8 DEF RevertIsCurrent, Latest, Exclusive, Generations, InLane, Caller, LeaseField, CallField, Fields
<1>15. DiskHasTheLeases'
  BY <1>0, <1>1, <1>2, <1>3, <1>4, <1>6, <1>7, <1>8 DEF DiskHasTheLeases, Recovered, LeaseField, CallField, Fields
<1>16. Guarding => Reverting'
  BY <1>0, <1>1, <1>2, <1>3, <1>4, <1>6, <1>7, <1>8 DEF Reverting, NoneToPutOff, MayFail, Bounds, Recovered, Exclusive, InLane, Latest, Generations, Caller, LeaseField, CallField, Fields
<1>17. Guarding => LeasedIsGuarded'
  BY <1>0, <1>1, <1>2, <1>3, <1>4, <1>6, <1>7, <1>8 DEF Reverting, LeasedIsGuarded, DiskHasTheLeases, Recovered, Latest, Caller, LeaseField, CallField, Fields
<1> QED
  BY <1>4, <1>9, <1>10, <1>11, <1>12, <1>13, <1>14, <1>15, <1>16, <1>17

LEMMA StopRevertedIInv ==
    ASSUME IInv, StopReverted
    PROVE  IInv'
<1> USE LeaseAssumption DEF IInv
<1>0. Typed
  BY TypesOK
<1>1. /\ up = "stop" /\ call[Stopper].at = "returned" /\ UNCHANGED <<reg, gen, bus, client, rule, writes, up, todo, ticking, spent, ends>>
  BY DEF StopReverted, world, process
<1>2. /\ call' \in CallFn /\ call'[Stopper] = NoCall
      /\ \A b \in Caller : b # Stopper => call'[b] = call[b]
  BY <1>0, <1>1, Landed DEF StopReverted, Typed, Caller
<1>3. call'[Stopper].at = "none" /\ call'[Stopper].key = None /\ call'[Stopper].gen = 0 /\ call'[Stopper].n = 0
  BY <1>0, <1>1, <1>2 DEF NoCall
<1>4. PICK k \in Key : k = call[Stopper].key
  BY <1>0, <1>1, <1>2, <1>3, NoCallFields DEF Typed, CallFn, Caller
<1>5. \/ lease' = lease /\ disk' = disk
      \/ call[Stopper].ok /\ lease[k] # NoLease /\ lease[k].gen = call[Stopper].gen /\ Drop(k) /\ Persist
  BY <1>0, <1>1, <1>2, <1>3, <1>4 DEF StopReverted
<1>6. \/ lease' = lease /\ disk' = disk
      \/ /\ call[Stopper].ok /\ lease[k].gen = call[Stopper].gen /\ lease' \in LeaseFn /\ lease'[k] = NoLease
         /\ \A q \in Key : q # k => lease'[q] = lease[q]
         /\ disk' \in DiskFn /\ \A q \in Key : disk'[q] # None <=> lease'[q] # NoLease
  BY <1>0, <1>1, <1>2, <1>3, <1>4, <1>5, Dropped, Persisted DEF Typed
<1>7. NoLease.gen = 0 /\ NoLease.n = 0
  BY DEF NoLease
<1>8. TypeOK'
  BY <1>0, <1>1, <1>2, <1>3, <1>4, <1>5, <1>6, <1>7 DEF TypeOK, LeaseFn, DiskFn, CallFn, Typed, Held, Effect
<1>9. Typed'
  BY <1>8, TypesOK DEF TypeOK, Typed, LeaseFn, DiskFn, CallFn
<1>10. Fields(lease, todo, call, reg, client) /\ Fields(lease', todo', call', reg', client')
  BY <1>0, <1>9, FieldsOf DEF Typed
<1>11. gen \in Nat /\ writes \in Nat /\ gen' \in Nat /\ writes' \in Nat
  BY <1>8 DEF TypeOK
<1>12. Guarding =>
        /\ "crash_unarmed" \notin Faults /\ "crash_boot" \notin Faults
        /\ "fail_stop" \notin Faults /\ "rule_late" \notin Faults
  BY DEF Guarding
<1>13. Exclusive'
  BY <1>0, <1>1, <1>2, <1>3, <1>4, <1>5, <1>6, <1>7, <1>8, <1>10, <1>11, <1>12 DEF Exclusive, InLane, Recovered, Caller, LeaseField, CallField, Fields
<1>14. Bounds'
  BY <1>0, <1>1, <1>2, <1>3, <1>4, <1>5, <1>6, <1>7, <1>8, <1>10, <1>11, <1>12 DEF Bounds, Recovered, Caller, LeaseField, CallField, Fields
<1>15. Generations'
  BY <1>0, <1>1, <1>2, <1>3, <1>4, <1>5, <1>6, <1>7, <1>8, <1>10, <1>11, <1>12 DEF Generations, Bounds, Latest, Recovered, Caller, LeaseField, CallField, Fields
<1>16. Latest'
  <2>1. \A q \in Key : lease'[q].gen # 0 /\ client'.key # q =>
            reg'[q].n <= lease'[q].n \/ reg'[q].held \in {"keep", "rule"}
    BY <1>0, <1>1, <1>2, <1>3, <1>4, <1>5, <1>6, <1>7, <1>8, <1>10, <1>11, <1>12 DEF Latest, Bounds, Exclusive, InLane, Recovered, Effect, Generations, Caller, LeaseField, CallField, Fields
  <2>2. ASSUME NEW q \in Key, client'.key = q
        PROVE  /\ reg'[q].held \in {client'.effect, "rule"}
               /\ lease'[q].n <= reg'[q].n /\ todo'[q].n <= reg'[q].n
               /\ client'.effect = "arm" => client'.safe # None
    BY <1>0, <1>1, <1>2, <1>3, <1>4, <1>5, <1>6, <1>7, <1>8, <1>10, <1>11, <1>12, <2>2 DEF Latest, Bounds, Exclusive, InLane, Recovered, Effect, Generations, Caller, LeaseField, CallField, Fields
  <2>3. ASSUME NEW q \in Key, client'.key = q, NEW c \in Caller, call'[c].key = q
        PROVE  call'[c].n <= reg'[q].n
    BY <1>0, <1>1, <1>2, <1>3, <1>4, <1>5, <1>6, <1>7, <1>8, <1>10, <1>11, <1>12, <2>3 DEF Latest, Bounds, Exclusive, InLane, Recovered, Effect, Generations, Caller, LeaseField, CallField, Fields
  <2> QED
    BY <2>1, <2>2, <2>3 DEF Latest
<1>17. Recovered'
  BY <1>0, <1>1, <1>2, <1>3, <1>4, <1>5, <1>6, <1>7, <1>8, <1>10, <1>11, <1>12 DEF Recovered, Bounds, DiskHasTheLeases, LeaseField, CallField, Fields
<1>18. RevertIsCurrent'
  BY <1>0, <1>1, <1>2, <1>3, <1>4, <1>5, <1>6, <1>7, <1>8, <1>10, <1>11, <1>12 DEF RevertIsCurrent, Latest, Exclusive, Generations, InLane, Caller, LeaseField, CallField, Fields
<1>19. DiskHasTheLeases'
  BY <1>0, <1>1, <1>2, <1>3, <1>4, <1>5, <1>6, <1>7, <1>8, <1>10, <1>11, <1>12 DEF DiskHasTheLeases, Recovered, LeaseField, CallField, Fields
<1>20. Guarding => Reverting'
  BY <1>0, <1>1, <1>2, <1>3, <1>4, <1>5, <1>6, <1>7, <1>8, <1>10, <1>11, <1>12 DEF Reverting, NoneToPutOff, MayFail, Bounds, Recovered, Exclusive, InLane, Latest, Generations, Caller, LeaseField, CallField, Fields
<1>21. Guarding => LeasedIsGuarded'
  BY <1>0, <1>1, <1>2, <1>3, <1>4, <1>5, <1>6, <1>7, <1>8, <1>10, <1>11, <1>12 DEF Reverting, LeasedIsGuarded, DiskHasTheLeases, Recovered, Latest, Caller, LeaseField, CallField, Fields
<1> QED
  BY <1>8, <1>13, <1>14, <1>15, <1>16, <1>17, <1>18, <1>19, <1>20, <1>21

LEMMA BudgetEndsIInv ==
    ASSUME IInv, BudgetEnds
    PROVE  IInv'
<1> USE LeaseAssumption DEF IInv
<1>0. Typed
  BY TypesOK
<1>1. /\ up = "stop" /\ spent' = TRUE /\ UNCHANGED <<reg, lease, gen, disk, call, bus, client, rule, writes, up, todo, ticking, ends>>
  BY DEF BudgetEnds, world
<1>2. TypeOK'
  BY <1>0, <1>1 DEF TypeOK, LeaseFn, DiskFn, CallFn, Typed, Held, Effect
<1>3. Typed'
  BY <1>2, TypesOK DEF TypeOK, Typed, LeaseFn, DiskFn, CallFn
<1>4. Fields(lease, todo, call, reg, client) /\ Fields(lease', todo', call', reg', client')
  BY <1>0, <1>3, FieldsOf DEF Typed
<1>5. gen \in Nat /\ writes \in Nat /\ gen' \in Nat /\ writes' \in Nat
  BY <1>2 DEF TypeOK
<1>6. Guarding =>
        /\ "crash_unarmed" \notin Faults /\ "crash_boot" \notin Faults
        /\ "fail_stop" \notin Faults /\ "rule_late" \notin Faults
  BY DEF Guarding
<1>7. Exclusive'
  BY <1>0, <1>1, <1>2, <1>4, <1>5, <1>6 DEF Exclusive, InLane, Recovered, Caller, LeaseField, CallField, Fields
<1>8. Bounds'
  BY <1>0, <1>1, <1>2, <1>4, <1>5, <1>6 DEF Bounds, Recovered, Caller, LeaseField, CallField, Fields
<1>9. Generations'
  BY <1>0, <1>1, <1>2, <1>4, <1>5, <1>6 DEF Generations, Bounds, Latest, Recovered, Caller, LeaseField, CallField, Fields
<1>10. Latest'
  <2>1. \A q \in Key : lease'[q].gen # 0 /\ client'.key # q =>
            reg'[q].n <= lease'[q].n \/ reg'[q].held \in {"keep", "rule"}
    BY <1>0, <1>1, <1>2, <1>4, <1>5, <1>6 DEF Latest, Bounds, Exclusive, InLane, Recovered, Effect, Generations, Caller, LeaseField, CallField, Fields
  <2>2. ASSUME NEW q \in Key, client'.key = q
        PROVE  /\ reg'[q].held \in {client'.effect, "rule"}
               /\ lease'[q].n <= reg'[q].n /\ todo'[q].n <= reg'[q].n
               /\ client'.effect = "arm" => client'.safe # None
    BY <1>0, <1>1, <1>2, <1>4, <1>5, <1>6, <2>2 DEF Latest, Bounds, Exclusive, InLane, Recovered, Effect, Generations, Caller, LeaseField, CallField, Fields
  <2>3. ASSUME NEW q \in Key, client'.key = q, NEW c \in Caller, call'[c].key = q
        PROVE  call'[c].n <= reg'[q].n
    BY <1>0, <1>1, <1>2, <1>4, <1>5, <1>6, <2>3 DEF Latest, Bounds, Exclusive, InLane, Recovered, Effect, Generations, Caller, LeaseField, CallField, Fields
  <2> QED
    BY <2>1, <2>2, <2>3 DEF Latest
<1>11. Recovered'
  BY <1>0, <1>1, <1>2, <1>4, <1>5, <1>6 DEF Recovered, Bounds, DiskHasTheLeases, LeaseField, CallField, Fields
<1>12. RevertIsCurrent'
  BY <1>0, <1>1, <1>2, <1>4, <1>5, <1>6 DEF RevertIsCurrent, Latest, Exclusive, Generations, InLane, Caller, LeaseField, CallField, Fields
<1>13. DiskHasTheLeases'
  BY <1>0, <1>1, <1>2, <1>4, <1>5, <1>6 DEF DiskHasTheLeases, Recovered, LeaseField, CallField, Fields
<1>14. Guarding => Reverting'
  BY <1>0, <1>1, <1>2, <1>4, <1>5, <1>6 DEF Reverting, NoneToPutOff, MayFail, Bounds, Recovered, Exclusive, InLane, Latest, Generations, Caller, LeaseField, CallField, Fields
<1>15. Guarding => LeasedIsGuarded'
  BY <1>0, <1>1, <1>2, <1>4, <1>5, <1>6 DEF Reverting, LeasedIsGuarded, DiskHasTheLeases, Recovered, Latest, Caller, LeaseField, CallField, Fields
<1> QED
  BY <1>2, <1>7, <1>8, <1>9, <1>10, <1>11, <1>12, <1>13, <1>14, <1>15

LEMMA StopWithdrawsIInv ==
    ASSUME IInv, StopWithdraws
    PROVE  IInv'
<1> USE LeaseAssumption DEF IInv
<1>0. Typed
  BY TypesOK
<1>1. /\ up = "stop" /\ call[Stopper].at = "lane" /\ Stopper \in Caller /\ UNCHANGED <<reg, lease, gen, disk, bus, client, rule, writes, up, todo, ticking, spent, ends>>
  BY DEF StopWithdraws, world, process, Caller
<1>2. SameBut(Stopper, "returned", FALSE)
  BY <1>0, <1>1, Returned DEF StopWithdraws, Typed
<1>3. TypeOK'
  BY <1>0, <1>1, <1>2 DEF TypeOK, LeaseFn, DiskFn, CallFn, Typed, SameBut
<1>4. Typed'
  BY <1>3, TypesOK DEF TypeOK, Typed, LeaseFn, DiskFn, CallFn
<1>5. Fields(lease, todo, call, reg, client) /\ Fields(lease', todo', call', reg', client')
  BY <1>0, <1>4, FieldsOf DEF Typed
<1>6. gen \in Nat /\ writes \in Nat /\ gen' \in Nat /\ writes' \in Nat
  BY <1>3 DEF TypeOK
<1>7. Guarding =>
        /\ "crash_unarmed" \notin Faults /\ "crash_boot" \notin Faults
        /\ "fail_stop" \notin Faults /\ "rule_late" \notin Faults
  BY DEF Guarding
<1>8. Exclusive'
  BY <1>0, <1>1, <1>2, <1>3, <1>5, <1>6, <1>7 DEF Exclusive, InLane, Recovered, Caller, LeaseField, CallField, Fields, SameBut
<1>9. Bounds'
  BY <1>0, <1>1, <1>2, <1>3, <1>5, <1>6, <1>7 DEF Bounds, Recovered, Caller, LeaseField, CallField, Fields, SameBut
<1>10. Generations'
  BY <1>0, <1>1, <1>2, <1>3, <1>5, <1>6, <1>7 DEF Generations, Bounds, Latest, Recovered, Caller, LeaseField, CallField, Fields, SameBut, IsCurrent
<1>11. Latest'
  BY <1>0, <1>1, <1>2, <1>3, <1>5, <1>6, <1>7 DEF Latest, Bounds, Exclusive, InLane, Recovered, Effect, Generations, Caller, LeaseField, CallField, Fields, SameBut, IsCurrent
<1>12. Recovered'
  BY <1>0, <1>1, <1>2, <1>3, <1>5, <1>6, <1>7 DEF Recovered, Bounds, DiskHasTheLeases, LeaseField, CallField, Fields, SameBut, IsCurrent
<1>13. RevertIsCurrent'
  BY <1>0, <1>1, <1>2, <1>3, <1>5, <1>6, <1>7 DEF RevertIsCurrent, Latest, Exclusive, Generations, InLane, Caller, LeaseField, CallField, Fields, SameBut, IsCurrent
<1>14. DiskHasTheLeases'
  BY <1>0, <1>1, <1>2, <1>3, <1>5, <1>6, <1>7 DEF DiskHasTheLeases, Recovered, LeaseField, CallField, Fields, SameBut, IsCurrent
<1>15. Guarding => Reverting'
  BY <1>0, <1>1, <1>2, <1>3, <1>5, <1>6, <1>7 DEF Reverting, NoneToPutOff, MayFail, Bounds, Recovered, Exclusive, InLane, Latest, Generations, Caller, LeaseField, CallField, Fields, SameBut, IsCurrent
<1>16. Guarding => LeasedIsGuarded'
  BY <1>0, <1>1, <1>2, <1>3, <1>5, <1>6, <1>7 DEF Reverting, LeasedIsGuarded, DiskHasTheLeases, Recovered, Latest, Caller, LeaseField, CallField, Fields, SameBut, IsCurrent
<1> QED
  BY <1>3, <1>8, <1>9, <1>10, <1>11, <1>12, <1>13, <1>14, <1>15, <1>16

LEMMA StopEndsIInv ==
    ASSUME IInv, StopEnds
    PROVE  IInv'
<1> USE LeaseAssumption DEF IInv
<1>0. Typed
  BY TypesOK
<1>1. /\ up = "stop" /\ up' = "stopped" /\ UNCHANGED <<reg, lease, gen, disk, call, bus, client, rule, writes, todo, ticking, spent, ends>>
  BY DEF StopEnds, world
<1>2. TypeOK'
  BY <1>0, <1>1 DEF TypeOK, LeaseFn, DiskFn, CallFn, Typed, Held, Effect
<1>3. Typed'
  BY <1>2, TypesOK DEF TypeOK, Typed, LeaseFn, DiskFn, CallFn
<1>4. Fields(lease, todo, call, reg, client) /\ Fields(lease', todo', call', reg', client')
  BY <1>0, <1>3, FieldsOf DEF Typed
<1>5. gen \in Nat /\ writes \in Nat /\ gen' \in Nat /\ writes' \in Nat
  BY <1>2 DEF TypeOK
<1>6. Guarding =>
        /\ "crash_unarmed" \notin Faults /\ "crash_boot" \notin Faults
        /\ "fail_stop" \notin Faults /\ "rule_late" \notin Faults
  BY DEF Guarding
<1>7. Exclusive'
  BY <1>0, <1>1, <1>2, <1>4, <1>5, <1>6 DEF Exclusive, InLane, Recovered, Caller, LeaseField, CallField, Fields
<1>8. Bounds'
  BY <1>0, <1>1, <1>2, <1>4, <1>5, <1>6 DEF Bounds, Recovered, Caller, LeaseField, CallField, Fields
<1>9. Generations'
  BY <1>0, <1>1, <1>2, <1>4, <1>5, <1>6 DEF Generations, Bounds, Latest, Recovered, Caller, LeaseField, CallField, Fields
<1>10. Latest'
  <2>1. \A q \in Key : lease'[q].gen # 0 /\ client'.key # q =>
            reg'[q].n <= lease'[q].n \/ reg'[q].held \in {"keep", "rule"}
    BY <1>0, <1>1, <1>2, <1>4, <1>5, <1>6 DEF Latest, Bounds, Exclusive, InLane, Recovered, Effect, Generations, Caller, LeaseField, CallField, Fields
  <2>2. ASSUME NEW q \in Key, client'.key = q
        PROVE  /\ reg'[q].held \in {client'.effect, "rule"}
               /\ lease'[q].n <= reg'[q].n /\ todo'[q].n <= reg'[q].n
               /\ client'.effect = "arm" => client'.safe # None
    BY <1>0, <1>1, <1>2, <1>4, <1>5, <1>6, <2>2 DEF Latest, Bounds, Exclusive, InLane, Recovered, Effect, Generations, Caller, LeaseField, CallField, Fields
  <2>3. ASSUME NEW q \in Key, client'.key = q, NEW c \in Caller, call'[c].key = q
        PROVE  call'[c].n <= reg'[q].n
    BY <1>0, <1>1, <1>2, <1>4, <1>5, <1>6, <2>3 DEF Latest, Bounds, Exclusive, InLane, Recovered, Effect, Generations, Caller, LeaseField, CallField, Fields
  <2> QED
    BY <2>1, <2>2, <2>3 DEF Latest
<1>11. Recovered'
  BY <1>0, <1>1, <1>2, <1>4, <1>5, <1>6 DEF Recovered, Bounds, DiskHasTheLeases, LeaseField, CallField, Fields
<1>12. RevertIsCurrent'
  BY <1>0, <1>1, <1>2, <1>4, <1>5, <1>6 DEF RevertIsCurrent, Latest, Exclusive, Generations, InLane, Caller, LeaseField, CallField, Fields
<1>13. DiskHasTheLeases'
  BY <1>0, <1>1, <1>2, <1>4, <1>5, <1>6 DEF DiskHasTheLeases, Recovered, LeaseField, CallField, Fields
<1>14. Guarding => Reverting'
  BY <1>0, <1>1, <1>2, <1>4, <1>5, <1>6 DEF Reverting, NoneToPutOff, MayFail, Bounds, Recovered, Exclusive, InLane, Latest, Generations, Caller, LeaseField, CallField, Fields
<1>15. Guarding => LeasedIsGuarded'
  BY <1>0, <1>1, <1>2, <1>4, <1>5, <1>6 DEF Reverting, LeasedIsGuarded, DiskHasTheLeases, Recovered, Latest, Caller, LeaseField, CallField, Fields
<1> QED
  BY <1>2, <1>7, <1>8, <1>9, <1>10, <1>11, <1>12, <1>13, <1>14, <1>15

LEMMA ExitIInv ==
    ASSUME IInv, Exit
    PROVE  IInv'
<1> USE LeaseAssumption DEF IInv
<1>0. Typed
  BY TypesOK
<1>1. /\ up = "stopped" /\ ends' = ends
      /\ client # NoWrite => "crash_unarmed" \in Faults
      /\ up' = "down" /\ gen' = 0 /\ bus' = None /\ client' = NoWrite /\ client'.key = None /\ rule' = None
      /\ ticking' = {} /\ spent' = FALSE /\ UNCHANGED <<reg, disk, writes>>
  BY DEF Exit, Dies, CanDie, NoWrite, TypeOK
<1>2. /\ lease' \in LeaseFn /\ todo' \in LeaseFn /\ call' \in CallFn
      /\ \A k \in Key : lease'[k].gen = 0 /\ lease'[k].n = 0 /\ todo'[k].gen = 0 /\ todo'[k].n = 0
      /\ \A c \in Caller : call'[c].at = "none" /\ call'[c].key = None /\ call'[c].gen = 0 /\ call'[c].n = 0
  BY DEF Exit, Dies, Nothing, NoLease, NoCall, LeaseFn, CallFn
<1>3. TypeOK'
  BY <1>0, <1>1, <1>2 DEF TypeOK, LeaseFn, DiskFn, CallFn, Typed, Held, Effect
<1>4. Typed'
  BY <1>3, TypesOK DEF TypeOK, Typed, LeaseFn, DiskFn, CallFn
<1>5. Fields(lease, todo, call, reg, client) /\ Fields(lease', todo', call', reg', client')
  BY <1>0, <1>4, FieldsOf DEF Typed
<1>6. gen \in Nat /\ writes \in Nat /\ gen' \in Nat /\ writes' \in Nat
  BY <1>3 DEF TypeOK
<1>7. Guarding =>
        /\ "crash_unarmed" \notin Faults /\ "crash_boot" \notin Faults
        /\ "fail_stop" \notin Faults /\ "rule_late" \notin Faults
  BY DEF Guarding
<1>8. Exclusive'
  BY <1>0, <1>1, <1>2, <1>3, <1>5, <1>6, <1>7 DEF Exclusive, InLane, Recovered, Caller, LeaseField, CallField, Fields
<1>9. Bounds'
  BY <1>0, <1>1, <1>2, <1>3, <1>5, <1>6, <1>7 DEF Bounds, Recovered, Caller, LeaseField, CallField, Fields
<1>10. Generations'
  BY <1>0, <1>1, <1>2, <1>3, <1>5, <1>6, <1>7 DEF Generations, Bounds, Latest, Recovered, Caller, LeaseField, CallField, Fields
<1>11. Latest'
  <2>1. \A q \in Key : lease'[q].gen # 0 /\ client'.key # q =>
            reg'[q].n <= lease'[q].n \/ reg'[q].held \in {"keep", "rule"}
    BY <1>0, <1>1, <1>2, <1>3, <1>5, <1>6, <1>7 DEF Latest, Bounds, Exclusive, InLane, Recovered, Effect, Generations, Caller, LeaseField, CallField, Fields
  <2>2. ASSUME NEW q \in Key, client'.key = q
        PROVE  /\ reg'[q].held \in {client'.effect, "rule"}
               /\ lease'[q].n <= reg'[q].n /\ todo'[q].n <= reg'[q].n
               /\ client'.effect = "arm" => client'.safe # None
    BY <1>0, <1>1, <1>2, <1>3, <1>5, <1>6, <1>7, <2>2 DEF Latest, Bounds, Exclusive, InLane, Recovered, Effect, Generations, Caller, LeaseField, CallField, Fields
  <2>3. ASSUME NEW q \in Key, client'.key = q, NEW c \in Caller, call'[c].key = q
        PROVE  call'[c].n <= reg'[q].n
    BY <1>0, <1>1, <1>2, <1>3, <1>5, <1>6, <1>7, <2>3 DEF Latest, Bounds, Exclusive, InLane, Recovered, Effect, Generations, Caller, LeaseField, CallField, Fields
  <2> QED
    BY <2>1, <2>2, <2>3 DEF Latest
<1>12. Recovered'
  BY <1>0, <1>1, <1>2, <1>3, <1>5, <1>6, <1>7 DEF Recovered, Bounds, DiskHasTheLeases, LeaseField, CallField, Fields
<1>13. RevertIsCurrent'
  BY <1>0, <1>1, <1>2, <1>3, <1>5, <1>6, <1>7 DEF RevertIsCurrent, Latest, Exclusive, Generations, InLane, Caller, LeaseField, CallField, Fields
<1>14. DiskHasTheLeases'
  BY <1>0, <1>1, <1>2, <1>3, <1>5, <1>6, <1>7 DEF DiskHasTheLeases, Recovered, LeaseField, CallField, Fields
<1>15. Guarding => Reverting'
  BY <1>0, <1>1, <1>2, <1>3, <1>5, <1>6, <1>7 DEF Reverting, NoneToPutOff, MayFail, Bounds, Recovered, Exclusive, InLane, Latest, Generations, Caller, LeaseField, CallField, Fields
<1>16. Guarding => LeasedIsGuarded'
  BY <1>0, <1>1, <1>2, <1>3, <1>5, <1>6, <1>7 DEF Reverting, LeasedIsGuarded, DiskHasTheLeases, Recovered, Latest, Caller, LeaseField, CallField, Fields
<1> QED
  BY <1>3, <1>8, <1>9, <1>10, <1>11, <1>12, <1>13, <1>14, <1>15, <1>16

LEMMA CrashIInv ==
    ASSUME IInv, Crash
    PROVE  IInv'
<1> USE LeaseAssumption DEF IInv
<1>0. Typed
  BY TypesOK
<1>1. /\ up # "down" /\ up \in {"boot", "run", "stop", "stopped"} /\ ends' = ends + 1 /\ ends' \in Nat /\ (up = "boot" => "crash_boot" \in Faults)
      /\ client # NoWrite => "crash_unarmed" \in Faults
      /\ up' = "down" /\ gen' = 0 /\ bus' = None /\ client' = NoWrite /\ client'.key = None /\ rule' = None
      /\ ticking' = {} /\ spent' = FALSE /\ UNCHANGED <<reg, disk, writes>>
  BY DEF Crash, Dies, CanDie, NoWrite, TypeOK
<1>2. /\ lease' \in LeaseFn /\ todo' \in LeaseFn /\ call' \in CallFn
      /\ \A k \in Key : lease'[k].gen = 0 /\ lease'[k].n = 0 /\ todo'[k].gen = 0 /\ todo'[k].n = 0
      /\ \A c \in Caller : call'[c].at = "none" /\ call'[c].key = None /\ call'[c].gen = 0 /\ call'[c].n = 0
  BY DEF Crash, Dies, Nothing, NoLease, NoCall, LeaseFn, CallFn
<1>3. TypeOK'
  BY <1>0, <1>1, <1>2 DEF TypeOK, LeaseFn, DiskFn, CallFn, Typed, Held, Effect
<1>4. Typed'
  BY <1>3, TypesOK DEF TypeOK, Typed, LeaseFn, DiskFn, CallFn
<1>5. Fields(lease, todo, call, reg, client) /\ Fields(lease', todo', call', reg', client')
  BY <1>0, <1>4, FieldsOf DEF Typed
<1>6. gen \in Nat /\ writes \in Nat /\ gen' \in Nat /\ writes' \in Nat
  BY <1>3 DEF TypeOK
<1>7. Guarding =>
        /\ "crash_unarmed" \notin Faults /\ "crash_boot" \notin Faults
        /\ "fail_stop" \notin Faults /\ "rule_late" \notin Faults
  BY DEF Guarding
<1>8. Exclusive'
  BY <1>0, <1>1, <1>2, <1>3, <1>5, <1>6, <1>7 DEF Exclusive, InLane, Recovered, Caller, LeaseField, CallField, Fields
<1>9. Bounds'
  BY <1>0, <1>1, <1>2, <1>3, <1>5, <1>6, <1>7 DEF Bounds, Recovered, Caller, LeaseField, CallField, Fields
<1>10. Generations'
  BY <1>0, <1>1, <1>2, <1>3, <1>5, <1>6, <1>7 DEF Generations, Bounds, Latest, Recovered, Caller, LeaseField, CallField, Fields
<1>11. Latest'
  <2>1. \A q \in Key : lease'[q].gen # 0 /\ client'.key # q =>
            reg'[q].n <= lease'[q].n \/ reg'[q].held \in {"keep", "rule"}
    BY <1>0, <1>1, <1>2, <1>3, <1>5, <1>6, <1>7 DEF Latest, Bounds, Exclusive, InLane, Recovered, Effect, Generations, Caller, LeaseField, CallField, Fields
  <2>2. ASSUME NEW q \in Key, client'.key = q
        PROVE  /\ reg'[q].held \in {client'.effect, "rule"}
               /\ lease'[q].n <= reg'[q].n /\ todo'[q].n <= reg'[q].n
               /\ client'.effect = "arm" => client'.safe # None
    BY <1>0, <1>1, <1>2, <1>3, <1>5, <1>6, <1>7, <2>2 DEF Latest, Bounds, Exclusive, InLane, Recovered, Effect, Generations, Caller, LeaseField, CallField, Fields
  <2>3. ASSUME NEW q \in Key, client'.key = q, NEW c \in Caller, call'[c].key = q
        PROVE  call'[c].n <= reg'[q].n
    BY <1>0, <1>1, <1>2, <1>3, <1>5, <1>6, <1>7, <2>3 DEF Latest, Bounds, Exclusive, InLane, Recovered, Effect, Generations, Caller, LeaseField, CallField, Fields
  <2> QED
    BY <2>1, <2>2, <2>3 DEF Latest
<1>12. Recovered'
  BY <1>0, <1>1, <1>2, <1>3, <1>5, <1>6, <1>7 DEF Recovered, Bounds, DiskHasTheLeases, LeaseField, CallField, Fields
<1>13. RevertIsCurrent'
  BY <1>0, <1>1, <1>2, <1>3, <1>5, <1>6, <1>7 DEF RevertIsCurrent, Latest, Exclusive, Generations, InLane, Caller, LeaseField, CallField, Fields
<1>14. DiskHasTheLeases'
  BY <1>0, <1>1, <1>2, <1>3, <1>5, <1>6, <1>7 DEF DiskHasTheLeases, Recovered, LeaseField, CallField, Fields
<1>15. Guarding => Reverting'
  BY <1>0, <1>1, <1>2, <1>3, <1>5, <1>6, <1>7 DEF Reverting, NoneToPutOff, MayFail, Bounds, Recovered, Exclusive, InLane, Latest, Generations, Caller, LeaseField, CallField, Fields
<1>16. Guarding => LeasedIsGuarded'
  BY <1>0, <1>1, <1>2, <1>3, <1>5, <1>6, <1>7 DEF Reverting, LeasedIsGuarded, DiskHasTheLeases, Recovered, Latest, Caller, LeaseField, CallField, Fields
<1> QED
  BY <1>3, <1>8, <1>9, <1>10, <1>11, <1>12, <1>13, <1>14, <1>15, <1>16

LEMMA BootIInv ==
    ASSUME IInv, Boot
    PROVE  IInv'
<1> USE LeaseAssumption DEF IInv
<1>0. Typed
  BY TypesOK
<1>1. /\ up = "down" /\ up' = "boot" /\ UNCHANGED <<reg, lease, gen, disk, call, bus, client, rule, writes, ticking, spent, ends>>
  BY DEF Boot, world
<1>2. \A k \in Key : disk[k] # None => [gen |-> 1, due |-> TRUE, safe |-> disk[k], n |-> writes] \in Lease
  BY <1>0, <1>1 DEF Typed, DiskFn, Lease, TypeOK
<1>3. /\ todo' \in LeaseFn
      /\ \A k \in Key : IF disk[k] = None THEN todo'[k].gen = 0 /\ todo'[k].n = 0 ELSE todo'[k].gen = 1 /\ todo'[k].n = writes
  BY <1>0, <1>1, <1>2 DEF Boot, LeaseFn, NoLease
<1>4. TypeOK'
  BY <1>0, <1>1, <1>2, <1>3 DEF TypeOK, LeaseFn, DiskFn, CallFn, Typed, Held, Effect
<1>5. Typed'
  BY <1>4, TypesOK DEF TypeOK, Typed, LeaseFn, DiskFn, CallFn
<1>6. Fields(lease, todo, call, reg, client) /\ Fields(lease', todo', call', reg', client')
  BY <1>0, <1>5, FieldsOf DEF Typed
<1>7. gen \in Nat /\ writes \in Nat /\ gen' \in Nat /\ writes' \in Nat
  BY <1>4 DEF TypeOK
<1>8. Guarding =>
        /\ "crash_unarmed" \notin Faults /\ "crash_boot" \notin Faults
        /\ "fail_stop" \notin Faults /\ "rule_late" \notin Faults
  BY DEF Guarding
<1>9. Exclusive'
  BY <1>0, <1>1, <1>2, <1>3, <1>4, <1>6, <1>7, <1>8 DEF Exclusive, InLane, Recovered, Caller, LeaseField, CallField, Fields
<1>10. Bounds'
  BY <1>0, <1>1, <1>2, <1>3, <1>4, <1>6, <1>7, <1>8 DEF Bounds, Recovered, Caller, LeaseField, CallField, Fields
<1>11. Generations'
  BY <1>0, <1>1, <1>2, <1>3, <1>4, <1>6, <1>7, <1>8 DEF Generations, Bounds, Latest, Recovered, Caller, LeaseField, CallField, Fields
<1>12. Latest'
  <2>1. \A q \in Key : lease'[q].gen # 0 /\ client'.key # q =>
            reg'[q].n <= lease'[q].n \/ reg'[q].held \in {"keep", "rule"}
    BY <1>0, <1>1, <1>2, <1>3, <1>4, <1>6, <1>7, <1>8 DEF Latest, Bounds, Exclusive, InLane, Recovered, Effect, Generations, Caller, LeaseField, CallField, Fields
  <2>2. ASSUME NEW q \in Key, client'.key = q
        PROVE  /\ reg'[q].held \in {client'.effect, "rule"}
               /\ lease'[q].n <= reg'[q].n /\ todo'[q].n <= reg'[q].n
               /\ client'.effect = "arm" => client'.safe # None
    BY <1>0, <1>1, <1>2, <1>3, <1>4, <1>6, <1>7, <1>8, <2>2 DEF Latest, Bounds, Exclusive, InLane, Recovered, Effect, Generations, Caller, LeaseField, CallField, Fields
  <2>3. ASSUME NEW q \in Key, client'.key = q, NEW c \in Caller, call'[c].key = q
        PROVE  call'[c].n <= reg'[q].n
    BY <1>0, <1>1, <1>2, <1>3, <1>4, <1>6, <1>7, <1>8, <2>3 DEF Latest, Bounds, Exclusive, InLane, Recovered, Effect, Generations, Caller, LeaseField, CallField, Fields
  <2> QED
    BY <2>1, <2>2, <2>3 DEF Latest
<1>13. Recovered'
  BY <1>0, <1>1, <1>2, <1>3, <1>4, <1>6, <1>7, <1>8 DEF Recovered, Bounds, DiskHasTheLeases, LeaseField, CallField, Fields
<1>14. RevertIsCurrent'
  BY <1>0, <1>1, <1>2, <1>3, <1>4, <1>6, <1>7, <1>8 DEF RevertIsCurrent, Latest, Exclusive, Generations, InLane, Caller, LeaseField, CallField, Fields
<1>15. DiskHasTheLeases'
  BY <1>0, <1>1, <1>2, <1>3, <1>4, <1>6, <1>7, <1>8 DEF DiskHasTheLeases, Recovered, LeaseField, CallField, Fields
<1>16. Guarding => Reverting'
  BY <1>0, <1>1, <1>2, <1>3, <1>4, <1>6, <1>7, <1>8 DEF Reverting, NoneToPutOff, MayFail, Bounds, Recovered, Exclusive, InLane, Latest, Generations, Caller, LeaseField, CallField, Fields
<1>17. Guarding => LeasedIsGuarded'
  BY <1>0, <1>1, <1>2, <1>3, <1>4, <1>6, <1>7, <1>8 DEF Reverting, LeasedIsGuarded, DiskHasTheLeases, Recovered, Latest, Caller, LeaseField, CallField, Fields
<1> QED
  BY <1>4, <1>9, <1>10, <1>11, <1>12, <1>13, <1>14, <1>15, <1>16, <1>17

LEMMA BootArmIInv ==
    ASSUME NEW k \in Key, IInv, BootArm(k)
    PROVE  IInv'
<1> USE LeaseAssumption DEF IInv
<1>0. Typed
  BY TypesOK
<1>1. /\ up = "boot" /\ todo[k] # NoLease /\ UNCHANGED <<reg, call, bus, client, rule, writes, up, ticking, spent, ends>>
  BY DEF BootArm, world
<1>2. /\ todo' \in LeaseFn /\ todo'[k] = NoLease /\ todo'[k].gen = 0 /\ todo'[k].n = 0
      /\ \A q \in Key : q # k => todo'[q] = todo[q]
  BY <1>0, <1>1 DEF BootArm, Typed, LeaseFn, NoLease
<1>3. PICK s \in Safe, n \in Nat : s = todo[k].safe /\ n = todo[k].n
  BY <1>0, <1>1, <1>2, NoLeaseFields DEF Typed, LeaseFn
<1>4. lease[k] = NoLease
  BY <1>0, <1>1, <1>2, <1>3, NoLeaseFields DEF Typed, LeaseFn, Recovered
<1>5. PICK d \in BOOLEAN : d = TRUE
  OBVIOUS
<1>6. gen \in Nat /\ Arm(k, d, s, n)
  BY <1>0, <1>1, <1>2, <1>3, <1>4, <1>5 DEF BootArm, TypeOK
<1>7. /\ lease' \in LeaseFn /\ disk' \in DiskFn /\ gen' = gen + 1
      /\ lease'[k] = [gen |-> gen + 1, due |-> d, safe |-> s, n |-> n]
      /\ \A q \in Key : q # k => lease'[q] = lease[q]
      /\ \A q \in Key : disk'[q] # None <=> lease'[q] # NoLease
  BY <1>0, <1>4, <1>6, Armed DEF Typed
<1>8. lease'[k].gen = gen + 1 /\ lease'[k].n = n
  BY <1>0, <1>1, <1>2, <1>3, <1>4, <1>5, <1>6, <1>7
<1>9. TypeOK'
  BY <1>0, <1>1, <1>2, <1>3, <1>4, <1>5, <1>6, <1>7, <1>8 DEF TypeOK, LeaseFn, DiskFn, CallFn, Typed, Held, Effect
<1>10. Typed'
  BY <1>9, TypesOK DEF TypeOK, Typed, LeaseFn, DiskFn, CallFn
<1>11. Fields(lease, todo, call, reg, client) /\ Fields(lease', todo', call', reg', client')
  BY <1>0, <1>10, FieldsOf DEF Typed
<1>12. gen \in Nat /\ writes \in Nat /\ gen' \in Nat /\ writes' \in Nat
  BY <1>9 DEF TypeOK
<1>13. Guarding =>
        /\ "crash_unarmed" \notin Faults /\ "crash_boot" \notin Faults
        /\ "fail_stop" \notin Faults /\ "rule_late" \notin Faults
  BY DEF Guarding
<1>14. Exclusive'
  BY <1>0, <1>1, <1>2, <1>3, <1>4, <1>5, <1>6, <1>7, <1>8, <1>9, <1>11, <1>12, <1>13 DEF Exclusive, InLane, Recovered, Caller, LeaseField, CallField, Fields
<1>15. Bounds'
  BY <1>0, <1>1, <1>2, <1>3, <1>4, <1>5, <1>6, <1>7, <1>8, <1>9, <1>11, <1>12, <1>13 DEF Bounds, Recovered, Caller, LeaseField, CallField, Fields
<1>16. Generations'
  BY <1>0, <1>1, <1>2, <1>3, <1>4, <1>5, <1>6, <1>7, <1>8, <1>9, <1>11, <1>12, <1>13 DEF Generations, Bounds, Latest, Recovered, Caller, LeaseField, CallField, Fields
<1>17. Latest'
  <2>1. \A q \in Key : lease'[q].gen # 0 /\ client'.key # q =>
            reg'[q].n <= lease'[q].n \/ reg'[q].held \in {"keep", "rule"}
    BY <1>0, <1>1, <1>2, <1>3, <1>4, <1>5, <1>6, <1>7, <1>8, <1>9, <1>11, <1>12, <1>13 DEF Latest, Bounds, Exclusive, InLane, Recovered, Effect, Generations, Caller, LeaseField, CallField, Fields
  <2>2. ASSUME NEW q \in Key, client'.key = q
        PROVE  /\ reg'[q].held \in {client'.effect, "rule"}
               /\ lease'[q].n <= reg'[q].n /\ todo'[q].n <= reg'[q].n
               /\ client'.effect = "arm" => client'.safe # None
    BY <1>0, <1>1, <1>2, <1>3, <1>4, <1>5, <1>6, <1>7, <1>8, <1>9, <1>11, <1>12, <1>13, <2>2 DEF Latest, Bounds, Exclusive, InLane, Recovered, Effect, Generations, Caller, LeaseField, CallField, Fields
  <2>3. ASSUME NEW q \in Key, client'.key = q, NEW c \in Caller, call'[c].key = q
        PROVE  call'[c].n <= reg'[q].n
    BY <1>0, <1>1, <1>2, <1>3, <1>4, <1>5, <1>6, <1>7, <1>8, <1>9, <1>11, <1>12, <1>13, <2>3 DEF Latest, Bounds, Exclusive, InLane, Recovered, Effect, Generations, Caller, LeaseField, CallField, Fields
  <2> QED
    BY <2>1, <2>2, <2>3 DEF Latest
<1>18. Recovered'
  BY <1>0, <1>1, <1>2, <1>3, <1>4, <1>5, <1>6, <1>7, <1>8, <1>9, <1>11, <1>12, <1>13 DEF Recovered, Bounds, DiskHasTheLeases, LeaseField, CallField, Fields
<1>19. RevertIsCurrent'
  BY <1>0, <1>1, <1>2, <1>3, <1>4, <1>5, <1>6, <1>7, <1>8, <1>9, <1>11, <1>12, <1>13 DEF RevertIsCurrent, Latest, Exclusive, Generations, InLane, Caller, LeaseField, CallField, Fields
<1>20. DiskHasTheLeases'
  BY <1>0, <1>1, <1>2, <1>3, <1>4, <1>5, <1>6, <1>7, <1>8, <1>9, <1>11, <1>12, <1>13 DEF DiskHasTheLeases, Recovered, LeaseField, CallField, Fields
<1>21. Guarding => Reverting'
  BY <1>0, <1>1, <1>2, <1>3, <1>4, <1>5, <1>6, <1>7, <1>8, <1>9, <1>11, <1>12, <1>13 DEF Reverting, NoneToPutOff, MayFail, Bounds, Recovered, Exclusive, InLane, Latest, Generations, Caller, LeaseField, CallField, Fields
<1>22. Guarding => LeasedIsGuarded'
  BY <1>0, <1>1, <1>2, <1>3, <1>4, <1>5, <1>6, <1>7, <1>8, <1>9, <1>11, <1>12, <1>13 DEF Reverting, LeasedIsGuarded, DiskHasTheLeases, Recovered, Latest, Caller, LeaseField, CallField, Fields
<1> QED
  BY <1>9, <1>14, <1>15, <1>16, <1>17, <1>18, <1>19, <1>20, <1>21, <1>22

LEMMA BootEndsIInv ==
    ASSUME IInv, BootEnds
    PROVE  IInv'
<1> USE LeaseAssumption DEF IInv
<1>0. Typed
  BY TypesOK
<1>1. /\ up = "boot" /\ todo = Nothing /\ up' = "run" /\ UNCHANGED <<reg, lease, gen, disk, call, bus, client, rule, writes, todo, ticking, spent, ends>>
  BY DEF BootEnds, world
<1>2. \A k \in Key : todo[k].gen = 0
  BY <1>0, <1>1 DEF Nothing, NoLease
<1>3. TypeOK'
  BY <1>0, <1>1, <1>2 DEF TypeOK, LeaseFn, DiskFn, CallFn, Typed, Held, Effect
<1>4. Typed'
  BY <1>3, TypesOK DEF TypeOK, Typed, LeaseFn, DiskFn, CallFn
<1>5. Fields(lease, todo, call, reg, client) /\ Fields(lease', todo', call', reg', client')
  BY <1>0, <1>4, FieldsOf DEF Typed
<1>6. gen \in Nat /\ writes \in Nat /\ gen' \in Nat /\ writes' \in Nat
  BY <1>3 DEF TypeOK
<1>7. Guarding =>
        /\ "crash_unarmed" \notin Faults /\ "crash_boot" \notin Faults
        /\ "fail_stop" \notin Faults /\ "rule_late" \notin Faults
  BY DEF Guarding
<1>8. Exclusive'
  BY <1>0, <1>1, <1>2, <1>3, <1>5, <1>6, <1>7 DEF Exclusive, InLane, Recovered, Caller, LeaseField, CallField, Fields
<1>9. Bounds'
  BY <1>0, <1>1, <1>2, <1>3, <1>5, <1>6, <1>7 DEF Bounds, Recovered, Caller, LeaseField, CallField, Fields
<1>10. Generations'
  BY <1>0, <1>1, <1>2, <1>3, <1>5, <1>6, <1>7 DEF Generations, Bounds, Latest, Recovered, Caller, LeaseField, CallField, Fields
<1>11. Latest'
  <2>1. \A q \in Key : lease'[q].gen # 0 /\ client'.key # q =>
            reg'[q].n <= lease'[q].n \/ reg'[q].held \in {"keep", "rule"}
    BY <1>0, <1>1, <1>2, <1>3, <1>5, <1>6, <1>7 DEF Latest, Bounds, Exclusive, InLane, Recovered, Effect, Generations, Caller, LeaseField, CallField, Fields
  <2>2. ASSUME NEW q \in Key, client'.key = q
        PROVE  /\ reg'[q].held \in {client'.effect, "rule"}
               /\ lease'[q].n <= reg'[q].n /\ todo'[q].n <= reg'[q].n
               /\ client'.effect = "arm" => client'.safe # None
    BY <1>0, <1>1, <1>2, <1>3, <1>5, <1>6, <1>7, <2>2 DEF Latest, Bounds, Exclusive, InLane, Recovered, Effect, Generations, Caller, LeaseField, CallField, Fields
  <2>3. ASSUME NEW q \in Key, client'.key = q, NEW c \in Caller, call'[c].key = q
        PROVE  call'[c].n <= reg'[q].n
    BY <1>0, <1>1, <1>2, <1>3, <1>5, <1>6, <1>7, <2>3 DEF Latest, Bounds, Exclusive, InLane, Recovered, Effect, Generations, Caller, LeaseField, CallField, Fields
  <2> QED
    BY <2>1, <2>2, <2>3 DEF Latest
<1>12. Recovered'
  BY <1>0, <1>1, <1>2, <1>3, <1>5, <1>6, <1>7 DEF Recovered, Bounds, DiskHasTheLeases, LeaseField, CallField, Fields
<1>13. RevertIsCurrent'
  BY <1>0, <1>1, <1>2, <1>3, <1>5, <1>6, <1>7 DEF RevertIsCurrent, Latest, Exclusive, Generations, InLane, Caller, LeaseField, CallField, Fields
<1>14. DiskHasTheLeases'
  BY <1>0, <1>1, <1>2, <1>3, <1>5, <1>6, <1>7 DEF DiskHasTheLeases, Recovered, LeaseField, CallField, Fields
<1>15. Guarding => Reverting'
  BY <1>0, <1>1, <1>2, <1>3, <1>5, <1>6, <1>7 DEF Reverting, NoneToPutOff, MayFail, Bounds, Recovered, Exclusive, InLane, Latest, Generations, Caller, LeaseField, CallField, Fields
<1>16. Guarding => LeasedIsGuarded'
  BY <1>0, <1>1, <1>2, <1>3, <1>5, <1>6, <1>7 DEF Reverting, LeasedIsGuarded, DiskHasTheLeases, Recovered, Latest, Caller, LeaseField, CallField, Fields
<1> QED
  BY <1>3, <1>8, <1>9, <1>10, <1>11, <1>12, <1>13, <1>14, <1>15, <1>16

(* What a hand-over leaves of a register. *)
LEMMA HandedOver ==
    ASSUME TypeOK, NEW k \in Key
    PROVE  /\ HandOver(k) \in [held : Held, safe : Safe \cup {None}, n : Nat]
           /\ HandOver(k).n = reg[k].n
           /\ HandOver(k).held = IF reg[k].held = "arm" THEN "keep" ELSE reg[k].held
<1>1. reg[k] \in [held : Held, safe : Safe \cup {None}, n : Nat]
  BY DEF TypeOK
<1> DEFINE h == IF reg[k].held = "arm" THEN "keep" ELSE reg[k].held
<1>2. HandOver(k) = [reg[k] EXCEPT !.held = h] /\ h \in Held
  BY <1>1 DEF HandOver, Held
<1> QED
  BY <1>1, <1>2

LEMMA ClearDeviceIInv ==
    ASSUME IInv, ClearDevice
    PROVE  IInv'
<1> USE LeaseAssumption DEF IInv
<1>0. Typed
  BY TypesOK
<1>1. up \in {"run", "stop", "stopped"} /\ UNCHANGED <<gen, call, bus, client, rule, writes, up, todo, ticking, spent, ends>>
  BY DEF ClearDevice, Running, process
<1>2. /\ lease' \in LeaseFn /\ disk' \in DiskFn
      /\ \A k \in Key : lease'[k] = NoLease /\ lease'[k].gen = 0 /\ lease'[k].n = 0 /\ disk'[k] = None
  <2>1. lease' \in LeaseFn /\ \A k \in Key : lease'[k] = NoLease /\ lease'[k].gen = 0 /\ lease'[k].n = 0
    BY DEF ClearDevice, Nothing, NoLease, LeaseFn
  <2>2. CASE lease # Nothing
    BY <2>1, <2>2, Persisted DEF ClearDevice, DiskFn
  <2>3. CASE lease = Nothing
    BY <1>0, <1>1, <2>1, <2>3 DEF ClearDevice, Nothing, DiskHasTheLeases, Typed
  <2> QED
    BY <2>1, <2>2, <2>3
<1>3. /\ reg' \in [Key -> [held : Held, safe : Safe \cup {None}, n : Nat]]
      /\ \A k \in Key : reg'[k].n = reg[k].n
      /\ \A k \in Key : client.key = k => reg'[k].held = reg[k].held
      /\ \A k \in Key : client.key # k => reg'[k].held = IF reg[k].held = "arm" THEN "keep" ELSE reg[k].held
  <2>1. reg' = [k \in Key |-> IF k = client.key THEN reg[k] ELSE HandOver(k)]
    BY DEF ClearDevice
  <2>2. \A k \in Key : reg[k] \in [held : Held, safe : Safe \cup {None}, n : Nat]
    BY DEF TypeOK
  <2> QED
    BY <2>1, <2>2, HandedOver
<1>4. TypeOK'
  BY <1>0, <1>1, <1>2, <1>3 DEF TypeOK, LeaseFn, DiskFn, CallFn, Typed, Held, Effect
<1>5. Typed'
  BY <1>4, TypesOK DEF TypeOK, Typed, LeaseFn, DiskFn, CallFn
<1>6. Fields(lease, todo, call, reg, client) /\ Fields(lease', todo', call', reg', client')
  BY <1>0, <1>5, FieldsOf DEF Typed
<1>7. gen \in Nat /\ writes \in Nat /\ gen' \in Nat /\ writes' \in Nat
  BY <1>4 DEF TypeOK
<1>8. Guarding =>
        /\ "crash_unarmed" \notin Faults /\ "crash_boot" \notin Faults
        /\ "fail_stop" \notin Faults /\ "rule_late" \notin Faults
  BY DEF Guarding
<1>9. Exclusive'
  BY <1>0, <1>1, <1>2, <1>3, <1>4, <1>6, <1>7, <1>8 DEF Exclusive, InLane, Recovered, Caller, LeaseField, CallField, Fields
<1>10. Bounds'
  BY <1>0, <1>1, <1>2, <1>3, <1>4, <1>6, <1>7, <1>8 DEF Bounds, Recovered, Caller, LeaseField, CallField, Fields
<1>11. Generations'
  BY <1>0, <1>1, <1>2, <1>3, <1>4, <1>6, <1>7, <1>8 DEF Generations, Bounds, Latest, Recovered, Caller, LeaseField, CallField, Fields
<1>12. Latest'
  <2>1. \A q \in Key : lease'[q].gen # 0 /\ client'.key # q =>
            reg'[q].n <= lease'[q].n \/ reg'[q].held \in {"keep", "rule"}
    BY <1>0, <1>1, <1>2, <1>3, <1>4, <1>6, <1>7, <1>8 DEF Latest, Bounds, Exclusive, InLane, Recovered, Effect, Generations, Caller, LeaseField, CallField, Fields
  <2>2. ASSUME NEW q \in Key, client'.key = q
        PROVE  /\ reg'[q].held \in {client'.effect, "rule"}
               /\ lease'[q].n <= reg'[q].n /\ todo'[q].n <= reg'[q].n
               /\ client'.effect = "arm" => client'.safe # None
    BY <1>0, <1>1, <1>2, <1>3, <1>4, <1>6, <1>7, <1>8, <2>2 DEF Latest, Bounds, Exclusive, InLane, Recovered, Effect, Generations, Caller, LeaseField, CallField, Fields
  <2>3. ASSUME NEW q \in Key, client'.key = q, NEW c \in Caller, call'[c].key = q
        PROVE  call'[c].n <= reg'[q].n
    BY <1>0, <1>1, <1>2, <1>3, <1>4, <1>6, <1>7, <1>8, <2>3 DEF Latest, Bounds, Exclusive, InLane, Recovered, Effect, Generations, Caller, LeaseField, CallField, Fields
  <2> QED
    BY <2>1, <2>2, <2>3 DEF Latest
<1>13. Recovered'
  BY <1>0, <1>1, <1>2, <1>3, <1>4, <1>6, <1>7, <1>8 DEF Recovered, Bounds, DiskHasTheLeases, LeaseField, CallField, Fields
<1>14. RevertIsCurrent'
  BY <1>0, <1>1, <1>2, <1>3, <1>4, <1>6, <1>7, <1>8 DEF RevertIsCurrent, Latest, Exclusive, Generations, InLane, Caller, LeaseField, CallField, Fields
<1>15. DiskHasTheLeases'
  BY <1>0, <1>1, <1>2, <1>3, <1>4, <1>6, <1>7, <1>8 DEF DiskHasTheLeases, Recovered, LeaseField, CallField, Fields
<1>16. Guarding => Reverting'
  <2> SUFFICES ASSUME Guarding PROVE Reverting'
    OBVIOUS
  <2>1. rule' # None => reg'[rule'].held # "arm" \/ client'.key = rule'
    BY <1>0, <1>1, <1>2, <1>3, <1>4, <1>6, <1>7, <1>8 DEF Reverting, Bounds, Recovered, Exclusive, InLane, Latest, Generations, Caller, LeaseField, CallField, Fields, TypeOK
  <2>2. call'[Stopper].at # "none" => up' \in {"stop", "stopped"}
    BY <1>0, <1>1, <1>2, <1>3, <1>4, <1>6, <1>7, <1>8 DEF Reverting, Bounds, Recovered, Exclusive, InLane, Latest, Generations, Caller, LeaseField, CallField, Fields
  <2>3. ASSUME NEW b \in Caller, NEW q \in Key, call'[b].key = q
        PROVE  /\ call'[b].at = "wrote" => reg'[q].held # "arm"
               /\ lease'[q].gen = call'[b].gen /\ call'[b].at # "ended" => lease'[q].due
    BY <2>3, <1>0, <1>1, <1>2, <1>3, <1>4, <1>6, <1>7, <1>8 DEF Reverting, Bounds, Recovered, Exclusive, InLane, Latest, Generations, Caller, LeaseField, CallField, Fields
  <2>4. ASSUME NEW b \in Caller, NEW q \in Key, call'[b].key = q,
               lease'[q].gen = call'[b].gen, call'[b].at = "returned", call'[b].ok
        PROVE  reg'[q].held # "arm" \/ client'.key = q
    BY <2>4, <1>0, <1>1, <1>2, <1>3, <1>4, <1>6, <1>7, <1>8 DEF Reverting, Bounds, Recovered, Exclusive, InLane, Latest, Generations, Caller, LeaseField, CallField, Fields
  <2>5. up' \in {"stop", "stopped"} => NoneToPutOff'
    <3> SUFFICES ASSUME up' \in {"stop", "stopped"}, NEW q \in Key, call'[q].at = "returned"
                 PROVE  call'[q].ok
      BY DEF NoneToPutOff
    <3> QED
      BY <1>0, <1>1, <1>2, <1>3, <1>4, <1>6, <1>7, <1>8 DEF Reverting, Bounds, Recovered, Exclusive, InLane, Latest, Generations, Caller, LeaseField, CallField, Fields, NoneToPutOff, MayFail
  <2>6. up' = "stop" => \A q \in Key :
            todo'[q].gen # 0 /\ lease'[q].gen = todo'[q].gen => lease'[q].due
    BY <1>0, <1>1, <1>2, <1>3, <1>4, <1>6, <1>7, <1>8 DEF Reverting, Bounds, Recovered, Exclusive, InLane, Latest, Generations, Caller, LeaseField, CallField, Fields
  <2> QED
    BY <2>1, <2>2, <2>3, <2>4, <2>5, <2>6 DEF Reverting
<1>17. Guarding => LeasedIsGuarded'
  BY <1>0, <1>1, <1>2, <1>3, <1>4, <1>6, <1>7, <1>8 DEF Reverting, LeasedIsGuarded, DiskHasTheLeases, Recovered, Latest, Caller, LeaseField, CallField, Fields
<1> QED
  BY <1>4, <1>9, <1>10, <1>11, <1>12, <1>13, <1>14, <1>15, <1>16, <1>17

LEMMA BootStandbyIInv ==
    ASSUME IInv, BootStandby
    PROVE  IInv'
<1> USE LeaseAssumption DEF IInv
<1>0. Typed
  BY TypesOK
<1>1. /\ up = "down" /\ up' = "boot"
      /\ UNCHANGED <<lease, gen, call, bus, client, rule, writes, todo, ticking, spent, ends>>
  BY DEF BootStandby
<1>2. disk' \in DiskFn /\ \A k \in Key : disk'[k] = None /\ lease[k].gen = 0 /\ todo[k].gen = 0
  BY <1>1 DEF BootStandby, DiskFn, Recovered
<1>3. /\ reg' \in [Key -> [held : Held, safe : Safe \cup {None}, n : Nat]]
      /\ \A k \in Key : reg'[k].n = reg[k].n
      /\ \A k \in Key : reg'[k].held = IF reg[k].held = "arm" THEN "keep" ELSE reg[k].held
  BY HandedOver DEF BootStandby
<1>4. TypeOK'
  BY <1>0, <1>1, <1>2, <1>3 DEF TypeOK, LeaseFn, DiskFn, CallFn, Typed, Held, Effect
<1>5. Typed'
  BY <1>4, TypesOK DEF TypeOK, Typed, LeaseFn, DiskFn, CallFn
<1>6. Fields(lease, todo, call, reg, client) /\ Fields(lease', todo', call', reg', client')
  BY <1>0, <1>5, FieldsOf DEF Typed
<1>7. gen \in Nat /\ writes \in Nat /\ gen' \in Nat /\ writes' \in Nat
  BY <1>4 DEF TypeOK
<1>8. Guarding =>
        /\ "crash_unarmed" \notin Faults /\ "crash_boot" \notin Faults
        /\ "fail_stop" \notin Faults /\ "rule_late" \notin Faults
  BY DEF Guarding
<1>9. Exclusive'
  BY <1>0, <1>1, <1>2, <1>3, <1>4, <1>6, <1>7, <1>8 DEF Exclusive, InLane, Recovered, Caller, LeaseField, CallField, Fields
<1>10. Bounds'
  BY <1>0, <1>1, <1>2, <1>3, <1>4, <1>6, <1>7, <1>8 DEF Bounds, Recovered, Caller, LeaseField, CallField, Fields
<1>11. Generations'
  BY <1>0, <1>1, <1>2, <1>3, <1>4, <1>6, <1>7, <1>8 DEF Generations, Bounds, Latest, Recovered, Caller, LeaseField, CallField, Fields
<1>12. Latest'
  <2>1. \A q \in Key : lease'[q].gen # 0 /\ client'.key # q =>
            reg'[q].n <= lease'[q].n \/ reg'[q].held \in {"keep", "rule"}
    BY <1>0, <1>1, <1>2, <1>3, <1>4, <1>6, <1>7, <1>8 DEF Latest, Bounds, Exclusive, InLane, Recovered, Effect, Generations, Caller, LeaseField, CallField, Fields
  <2>2. ASSUME NEW q \in Key, client'.key = q
        PROVE  /\ reg'[q].held \in {client'.effect, "rule"}
               /\ lease'[q].n <= reg'[q].n /\ todo'[q].n <= reg'[q].n
               /\ client'.effect = "arm" => client'.safe # None
    BY <1>0, <1>1, <1>2, <1>3, <1>4, <1>6, <1>7, <1>8, <2>2 DEF Latest, Bounds, Exclusive, InLane, Recovered, Effect, Generations, Caller, LeaseField, CallField, Fields
  <2>3. ASSUME NEW q \in Key, client'.key = q, NEW c \in Caller, call'[c].key = q
        PROVE  call'[c].n <= reg'[q].n
    BY <1>0, <1>1, <1>2, <1>3, <1>4, <1>6, <1>7, <1>8, <2>3 DEF Latest, Bounds, Exclusive, InLane, Recovered, Effect, Generations, Caller, LeaseField, CallField, Fields
  <2> QED
    BY <2>1, <2>2, <2>3 DEF Latest
<1>13. Recovered'
  BY <1>0, <1>1, <1>2, <1>3, <1>4, <1>6, <1>7, <1>8 DEF Recovered, Bounds, DiskHasTheLeases, LeaseField, CallField, Fields
<1>14. RevertIsCurrent'
  BY <1>0, <1>1, <1>2, <1>3, <1>4, <1>6, <1>7, <1>8 DEF RevertIsCurrent, Latest, Exclusive, Generations, InLane, Caller, LeaseField, CallField, Fields
<1>15. DiskHasTheLeases'
  BY <1>0, <1>1, <1>2, <1>3, <1>4, <1>6, <1>7, <1>8 DEF DiskHasTheLeases, Recovered, LeaseField, CallField, Fields
<1>16. Guarding => Reverting'
  BY <1>0, <1>1, <1>2, <1>3, <1>4, <1>6, <1>7, <1>8 DEF Reverting, NoneToPutOff, MayFail, Bounds, Recovered, Exclusive, InLane, Latest, Generations, Caller, LeaseField, CallField, Fields
<1>17. Guarding => LeasedIsGuarded'
  BY <1>0, <1>1, <1>2, <1>3, <1>4, <1>6, <1>7, <1>8 DEF Reverting, LeasedIsGuarded, DiskHasTheLeases, Recovered, Latest, Caller, LeaseField, CallField, Fields
<1> QED
  BY <1>4, <1>9, <1>10, <1>11, <1>12, <1>13, <1>14, <1>15, <1>16, <1>17

LEMMA InitIInv == Init => IInv
<1> SUFFICES ASSUME Init PROVE IInv
  OBVIOUS
<1> USE LeaseAssumption DEF Init
<1>1. TypeOK
  BY DEF TypeOK, Nothing, Held
<1>2. /\ \A k \in Key : lease[k].gen = 0 /\ lease[k].n = 0 /\ ~lease[k].due /\ lease[k] = NoLease
      /\ \A k \in Key : todo[k].gen = 0 /\ todo[k].n = 0 /\ reg[k].n = 0 /\ reg[k].held = "safe"
      /\ \A c \in Caller : call[c].at = "none" /\ call[c].key = None /\ call[c].gen = 0 /\ call[c].n = 0
      /\ client.key = None
  BY DEF Nothing, NoLease, NoCall, NoWrite
<1>3. Exclusive /\ Bounds /\ Generations /\ Latest
  BY <1>2 DEF Exclusive, Bounds, Generations, Latest, InLane, Caller
<1>4. Recovered /\ RevertIsCurrent /\ DiskHasTheLeases
  BY <1>2 DEF Recovered, RevertIsCurrent, DiskHasTheLeases
<1>5. Reverting /\ LeasedIsGuarded
  BY <1>2 DEF Reverting, LeasedIsGuarded, Caller
<1> QED
  BY <1>1, <1>3, <1>4, <1>5 DEF IInv

LEMMA NextIInv == IInv /\ [Next]_vars => IInv'
<1> SUFFICES ASSUME IInv, [Next]_vars PROVE IInv'
  OBVIOUS
<1>1. CASE Clients
  <2>1. \A k \in Key, s \in Safe : ClientWrite(k, "arm", s) => IInv'
    BY ClientWriteIInv, LeaseAssumption DEF Effect
  <2>2. \A k \in Key : ClientWrite(k, "clear", None) \/ ClientWrite(k, "keep", None) => IInv'
    BY ClientWriteIInv DEF Effect
  <2>3. \A k \in Key : RuleWrite(k) => IInv'
    BY RuleWriteIInv
  <2> QED
    BY <1>1, <2>1, <2>2, <2>3 DEF Clients
<1>2. CASE Records
  BY <1>2, ClientRecordIInv, RuleRecordIInv DEF Records
<1>3. CASE \E k \in Key : Expire(k) \/ Sweeps(k)
  BY <1>3, ExpireIInv, SweepFireIInv, SweepEndsIInv, SweepLandsIInv DEF Sweeps
<1>4. CASE \E c \in Caller : Reverts(c)
  BY <1>4, RevertFirstIInv, RevertTakesBusIInv, RevertWritesIInv, RevertRecordsIInv DEF Reverts
<1>5. CASE Stops
  BY <1>5, StopBeginsIInv, StopNextIInv, StopRevertedIInv, BudgetEndsIInv, StopWithdrawsIInv, StopEndsIInv DEF Stops
<1>6. CASE Exit \/ Crash \/ Boots \/ HandsOver
  BY <1>6, ExitIInv, CrashIInv, BootIInv, BootArmIInv, BootEndsIInv, ClearDeviceIInv, BootStandbyIInv
     DEF Boots, HandsOver
<1>7. CASE UNCHANGED vars
  <2>1. /\ TypeOK' /\ Exclusive' /\ Bounds' /\ Generations'
    BY <1>7 DEF IInv, vars, TypeOK, Exclusive, Bounds, Generations, InLane
  <2>2. /\ Latest' /\ Recovered' /\ RevertIsCurrent' /\ DiskHasTheLeases'
    BY <1>7 DEF IInv, vars, Latest, Recovered, RevertIsCurrent, DiskHasTheLeases
  <2>3. Guarding => Reverting' /\ LeasedIsGuarded'
    BY <1>7 DEF IInv, vars, Reverting, NoneToPutOff, LeasedIsGuarded
  <2> QED
    BY <2>1, <2>2, <2>3 DEF IInv
<1> QED
  BY <1>1, <1>2, <1>3, <1>4, <1>5, <1>6, <1>7 DEF Next

-----------------------------------------------------------------------------
(* The inductive invariant holds in every reachable state. *)
THEOREM LeaseInvariant == Spec => []IInv
  BY InitIInv, NextIInv, PTL DEF Spec

(* Every variable keeps its type. *)
THEOREM LeaseTyped == Spec => []TypeOK
  BY LeaseInvariant, PTL DEF IInv

(* No revert overwrites a setpoint that renewed or ended its lease, whatever *)
(* fails, crashes, stops, and whatever the rules write.                      *)
THEOREM RevertIsCurrentHolds == Spec => []RevertIsCurrent
  BY LeaseInvariant, PTL DEF IInv

(* The records on disk are those of the leases in memory. *)
THEOREM DiskHasTheLeasesHolds == Spec => []DiskHasTheLeases
  BY LeaseInvariant, PTL DEF IInv

(* Outside the four windows of Guarding no leased setpoint is ever left      *)
(* without a dead-man, through any number of failures, retries, rules'       *)
(* writes, crashes, shutdowns and hand-overs.                                *)
THEOREM LeasedIsGuardedHolds ==
    ASSUME Guarding
    PROVE  Spec => []LeasedIsGuarded
<1>1. IInv => LeasedIsGuarded
  BY Guarding DEF IInv
<1> QED
  BY <1>1, LeaseInvariant, PTL
-----------------------------------------------------------------------------
(* The refinement.  First the abstract steps, by what they do to the view.   *)

View(k) == Holds(reg[k].held)

LEMMA QuietStep ==
    ASSUME \A k \in Key : View(k)' = View(k),
           \A k \in Key : Guard(k)' = Guard(k) \/ (Guard(k) = "live" /\ Guard(k)' = "due"),
           \A k \in Key : Guard(k)' \in {"none", "live", "due"}
    PROVE  Promise!Next
<1>1. Promise!FallsDue
  BY DEF Promise!FallsDue, View
<1> QED
  BY <1>1 DEF Promise!Next

LEMMA PutStep ==
    ASSUME NEW k \in Key, NEW how \in {"arm", "clear", "keep"},
           View(k)' = how, \A q \in Key : q # k => View(q)' = View(q),
           Guard(k)' = IF how = "arm" THEN "live" ELSE Guard(k),
           \A q \in Key : q # k => Guard(q)' = Guard(q)
    PROVE  Promise!Next
<1>1. Promise!Put(k, how)
  BY DEF Promise!Put, View
<1> QED
  BY <1>1 DEF Promise!Next

LEMMA UndoStep ==
    ASSUME NEW k \in Key, View(k) # "clear", View(k) = "arm" => Guard(k) = "due",
           View(k)' = "safe", \A q \in Key : q # k => View(q)' = View(q),
           \A q \in Key : Guard(q)' = Guard(q)
    PROVE  Promise!Next
<1>1. Promise!Undo(k)
  BY DEF Promise!Undo, View
<1> QED
  BY <1>1 DEF Promise!Next

LEMMA GuardStep ==
    ASSUME NEW k \in Key, reg' = reg,
           \/ Guard(k)' = Guard(k)
           \/ Guard(k) = "due" /\ Guard(k)' = "live"
           \/ reg[k].held # "arm" /\ Guard(k)' = "none",
           \A q \in Key : q # k => Guard(q)' = Guard(q)
    PROVE  [Promise!Next]_(Promise!vars)
<1> DEFINE held == [q \in Key |-> Holds(reg[q].held)]
           guard == [q \in Key |-> Guard(q)]
<1>1. held' = held
  OBVIOUS
<1>2. CASE Guard(k)' = Guard(k)
  BY <1>1, <1>2 DEF Promise!vars
<1>3. CASE Guard(k) = "due" /\ Guard(k)' = "live"
  <2>1. Promise!PutOff(k)
    BY <1>1, <1>3 DEF Promise!PutOff
  <2> QED
    BY <2>1 DEF Promise!Next
<1>4. CASE reg[k].held # "arm" /\ Guard(k)' = "none"
  <2>1. Promise!LetGo(k)
    BY <1>1, <1>4 DEF Promise!LetGo, Holds
  <2> QED
    BY <2>1 DEF Promise!Next
<1> QED
  BY <1>2, <1>3, <1>4

LEMMA HandOverStep ==
    ASSUME NEW S \in SUBSET Key,
           \A k \in Key : View(k)' = IF k \in S /\ View(k) = "arm" THEN "keep" ELSE View(k),
           \A k \in Key : Guard(k)' = IF k \in S THEN "none" ELSE Guard(k)
    PROVE  Promise!Next
<1>1. Promise!HandOver(S)
  BY DEF Promise!HandOver, View
<1> QED
  BY <1>1 DEF Promise!Next

LEMMA GuardIs == \A k \in Key : Guard(k) \in {"none", "live", "due"}
BY DEF Guard

(* What IInv and Aim say of the state before a step, and of its records.     *)
Known ==
    /\ Typed /\ gen \in Nat /\ writes \in Nat /\ rule \in Key \cup {None}
    /\ Fields(lease, todo, call, reg, client)
    /\ Reverting /\ Exclusive /\ Recovered /\ Latest /\ DiskHasTheLeases
    /\ up \in {"down", "boot", "run", "stop", "stopped"}

LEMMA KnownIs ==
    ASSUME Guarding, IInv
    PROVE  Known
<1>1. Typed
  BY TypesOK DEF IInv
<1>2. Fields(lease, todo, call, reg, client)
  BY <1>1, FieldsOf DEF Typed
<1> QED
  BY <1>1, <1>2, Guarding DEF Known, IInv, TypeOK

-----------------------------------------------------------------------------
(* Steps that change no lease, no register and no record: only a revert that *)
(* takes the bus has a new aim.                                              *)

BusFrom(c) == call'[c].at = "bus" => call'[c] = call[c]

LEMMA QuietKeeps ==
    ASSUME Known, Known', Aim, UNCHANGED <<reg, lease, disk, client>>,
           \/ up' = up /\ (up = "boot" => todo' = todo)
           \/ up \in {"run", "stop", "stopped"} /\ up' \in {"run", "stop", "stopped"}
           \/ up = "boot" /\ up' = "run" /\ todo = Nothing,
           \A c \in Caller : BusFrom(c)
    PROVE  Aim' /\ [Promise!Next]_(Promise!vars)
<1>1. Aimed'
  BY DEF Aim, Aimed, BusFrom
<1>2. EndedIsFree'
  BY DEF Aim, EndedIsFree, Known
<1>3. \A k \in Key : Guard(k)' = Guard(k)
  <2> SUFFICES ASSUME NEW k \in Key
               PROVE  Guard(k)' = Guard(k)
    OBVIOUS
  <2>1. up = "boot" /\ up' = "run" => todo[k] = NoLease \/ todo' = todo
    BY DEF Nothing
  <2>2. CASE up = "down"
    BY <2>2 DEF Guard
  <2>3. CASE up = "boot" /\ up' = "boot"
    BY <2>3 DEF Guard
  <2>4. CASE up = "boot" /\ up' = "run" /\ todo = Nothing
    BY <2>4 DEF Guard, Nothing
  <2>5. CASE up \in {"run", "stop", "stopped"} /\ up' \in {"run", "stop", "stopped"}
    BY <2>5 DEF Guard
  <2> QED
    BY <2>2, <2>3, <2>4, <2>5 DEF Known
<1> QED
  BY <1>1, <1>2, <1>3, QuietStep, GuardIs DEF Aim, View

LEMMA RevertTakesBusKeeps ==
    ASSUME NEW c \in Caller, Known, Known', Aim, RevertTakesBus(c)
    PROVE  Aim' /\ [Promise!Next]_(Promise!vars)
<1>1. /\ call[c].at = "lane" /\ client = NoWrite
      /\ UNCHANGED <<reg, lease, disk, client, up, todo>>
  BY DEF RevertTakesBus, process, LaneFree
<1>2. \/ IsCurrent(c) /\ SameBut(c, "bus", call[c].ok)
      \/ ~IsCurrent(c) /\ SameBut(c, "returned", TRUE)
  BY <1>1, Gone, Returned DEF RevertTakesBus, Known, Typed, CallAt
<1>3. Aimed'
  <2> SUFFICES ASSUME NEW b \in Caller, NEW k \in Key, call'[b].at = "bus", call'[b].key = k
               PROVE  reg[k].held # "clear" /\ (reg[k].held = "arm" => lease[k].gen = call'[b].gen)
    BY <1>1 DEF Aimed
  <2>1. CASE b # c
    BY <1>2, <2>1 DEF Aim, Aimed, SameBut
  <2>2. CASE b = c
    <3>1. IsCurrent(c) /\ call[c].key = k /\ call'[c].gen = call[c].gen
      BY <1>2, <2>2 DEF SameBut
    <3>2. lease[k] # NoLease /\ lease[k].gen = call[c].gen
      BY <3>1 DEF IsCurrent
    <3>3. client.key # k
      BY <1>1, LeaseAssumption DEF NoWrite
    <3> QED
      BY <2>2, <3>1, <3>2, <3>3 DEF Aim, EndedIsFree
  <2> QED
    BY <2>1, <2>2
<1>4. EndedIsFree'
  BY <1>1 DEF Aim, EndedIsFree
<1>5. \A k \in Key : Guard(k)' = Guard(k)
  BY <1>1 DEF Guard
<1> QED
  BY <1>1, <1>3, <1>4, <1>5, QuietStep, GuardIs DEF Aim, View

LEMMA ClientWriteKeeps ==
    ASSUME NEW k \in Key, NEW e \in {"arm", "clear", "keep"}, NEW s \in Safe \cup {None},
           IInv, Known, Aim, ClientWrite(k, e, s)
    PROVE  Aim' /\ [Promise!Next]_(Promise!vars)
<1>1. /\ up = "run" /\ client = NoWrite /\ \A c \in Caller : call[c].at # "bus"
      /\ client' = [key |-> k, effect |-> e, safe |-> s]
      /\ reg' = [reg EXCEPT ![k] = [held |-> e, safe |-> s, n |-> writes + 1]]
      /\ UNCHANGED <<lease, disk, call, up, todo>>
  BY DEF ClientWrite, Put, LaneFree, InLane, process
<1>2. /\ reg'[k].held = e /\ \A q \in Key : q # k => reg'[q] = reg[q]
  <2>1. e \in Held /\ writes + 1 \in Nat
    BY DEF Held, Known
  <2> QED
    BY <1>1, <2>1, Written DEF IInv
<1>3. client'.key = k /\ client'.effect = e /\ \A q \in Key : client.key # q
  BY <1>1, LeaseAssumption DEF NoWrite
<1>4. Aimed'
  BY <1>1 DEF Aimed
<1>5. EndedIsFree'
  BY <1>1, <1>2, <1>3 DEF Aim, EndedIsFree
<1>6. Guard(k)' = IF e = "arm" THEN "live" ELSE Guard(k)
  BY <1>1, <1>3 DEF Guard
<1>7. \A q \in Key : q # k => Guard(q)' = Guard(q)
  BY <1>1, <1>3 DEF Guard
<1>8. View(k)' = e /\ \A q \in Key : q # k => View(q)' = View(q)
  BY <1>2 DEF View, Holds
<1> QED
  BY <1>4, <1>5, <1>6, <1>7, <1>8, PutStep DEF Aim

(* A rule's write leaves the dead-man as it is. *)
LEMMA RuleWriteKeeps ==
    ASSUME NEW k \in Key, IInv, Known, Aim, RuleWrite(k)
    PROVE  Aim' /\ [Promise!Next]_(Promise!vars)
<1>1. /\ up = "run" /\ \A c \in Caller : call[c].at # "bus"
      /\ reg' = [reg EXCEPT ![k] = [held |-> "rule", safe |-> None, n |-> writes + 1]]
      /\ UNCHANGED <<client, lease, disk, call, up, todo>>
  BY LeaseAssumption DEF RuleWrite, Put, process, Known, Exclusive, Caller
<1>2. reg'[k].held = "rule" /\ \A q \in Key : q # k => reg'[q] = reg[q]
  <2>1. "rule" \in Held /\ writes + 1 \in Nat
    BY DEF Held, Known
  <2> QED
    BY <1>1, <2>1, Written DEF IInv
<1>3. Aimed'
  BY <1>1 DEF Aimed
<1>4. EndedIsFree'
  BY <1>1, <1>2 DEF Aim, EndedIsFree
<1>5. \A q \in Key : Guard(q)' = Guard(q)
  BY <1>1 DEF Guard
<1>6. View(k)' = "keep" /\ \A q \in Key : q # k => View(q)' = View(q)
  BY <1>2 DEF View, Holds
<1> QED
  BY <1>3, <1>4, <1>5, <1>6, PutStep DEF Aim

LEMMA ClientRecordKeeps ==
    ASSUME Known, Known', Aim, ClientRecord
    PROVE  Aim' /\ [Promise!Next]_(Promise!vars)
<1>1. /\ client # NoWrite /\ up \in {"run", "stop", "stopped"} /\ client' = NoWrite
      /\ UNCHANGED <<reg, call, up, todo>>
  BY DEF ClientRecord, Running, process
<1>2. PICK k \in Key : k = client.key
  BY <1>1 DEF Known, Fields
<1>3. /\ reg[k].held \in {client.effect, "rule"}
      /\ client.effect = "arm" => client.safe \in Safe
      /\ \A q \in Key : client'.key # q
  BY <1>1, <1>2, LeaseAssumption DEF Known, Latest, Fields, NoWrite
<1>4. \/ client.effect = "arm" /\ Arm(k, FALSE, client.safe, reg[k].n)
      \/ client.effect = "clear" /\ Clear(k)
      \/ client.effect = "keep" /\ UNCHANGED <<lease, gen, disk>>
  BY <1>2 DEF ClientRecord
<1>5. /\ \A q \in Key : q # k => lease'[q] = lease[q]
      /\ client.effect = "arm" => lease'[k] # NoLease /\ ~lease'[k].due
      /\ client.effect = "clear" => lease'[k] = NoLease
      /\ client.effect = "keep" => lease'[k] = lease[k]
  <2>1. CASE client.effect = "arm"
    <3>1. PICK s \in Safe, n \in Nat : Arm(k, FALSE, s, n)
      BY <1>3, <1>4, <2>1 DEF Known, Fields
    <3>2. /\ lease'[k] = [gen |-> gen + 1, due |-> FALSE, safe |-> s, n |-> n]
          /\ \A q \in Key : q # k => lease'[q] = lease[q]
      BY <3>1, Armed DEF Known, Typed
    <3>3. lease'[k].gen = gen + 1 /\ gen + 1 # 0 /\ ~lease'[k].due
      BY <3>2 DEF Known
    <3> QED
      BY <2>1, <3>2, <3>3 DEF NoLease
  <2>2. CASE client.effect = "clear"
    BY <1>4, <2>2, Cleared DEF Known, Typed
  <2>3. CASE client.effect = "keep"
    BY <1>4, <2>3
  <2> QED
    BY <1>4, <2>1, <2>2, <2>3
<1>6. Aimed'
  <2>1. \A c \in Caller : call[c].at # "bus"
    BY <1>1 DEF Known, Exclusive, InLane
  <2> QED
    BY <1>1, <2>1 DEF Aimed
<1>7. EndedIsFree'
  BY <1>1, <1>2, <1>3, <1>4, <1>5 DEF Aim, EndedIsFree
<1>8. \A q \in Key : q # k => Guard(q)' = Guard(q)
  BY <1>1, <1>2, <1>3, <1>5 DEF Guard
<1>9. \/ Guard(k)' = Guard(k)
      \/ reg[k].held # "arm" /\ Guard(k)' = "none"
  <2>1. CASE client.effect = "arm"
    BY <1>1, <1>2, <1>3, <1>5, <2>1 DEF Guard
  <2>2. CASE client.effect = "keep"
    BY <1>1, <1>2, <1>3, <1>5, <2>2 DEF Guard
  <2>3. CASE client.effect = "clear"
    BY <1>1, <1>2, <1>3, <1>5, <2>3 DEF Guard
  <2> QED
    BY <1>4, <2>1, <2>2, <2>3
<1> QED
  BY <1>1, <1>6, <1>7, <1>8, <1>9, GuardStep DEF Aim

LEMMA ExpireKeeps ==
    ASSUME NEW k \in Key, Known, Known', Aim, Expire(k)
    PROVE  Aim' /\ [Promise!Next]_(Promise!vars)
<1>1. /\ lease[k] # NoLease /\ ~lease[k].due
      /\ UNCHANGED <<reg, disk, call, client, up, todo>>
  BY DEF Expire, world, process
<1>2. /\ lease'[k].gen = lease[k].gen /\ lease'[k].due
      /\ \A q \in Key : q # k => lease'[q] = lease[q]
  BY <1>1, Dued DEF Expire, Known, Typed
<1>3. lease'[k] # NoLease
  BY <1>1, <1>2 DEF Known, Fields, LeaseField
<1>4. Aimed'
  BY <1>1, <1>2 DEF Aim, Aimed
<1>5. EndedIsFree'
  BY <1>1, <1>2 DEF Aim, EndedIsFree
<1>6. \A q \in Key : q # k => Guard(q)' = Guard(q)
  BY <1>1, <1>2 DEF Guard
<1>7. Guard(k)' = Guard(k) \/ (Guard(k) = "live" /\ Guard(k)' = "due")
  BY <1>1, <1>2, <1>3 DEF Guard
<1> QED
  BY <1>1, <1>4, <1>5, <1>6, <1>7, QuietStep, GuardIs DEF Aim, View

LEMMA RevertWritesKeeps ==
    ASSUME NEW c \in Caller, IInv, Known, Known', Aim, RevertWrites(c)
    PROVE  Aim' /\ [Promise!Next]_(Promise!vars)
<1>1. /\ call[c].at = "bus" /\ client = NoWrite /\ up \notin {"down", "boot"}
      /\ UNCHANGED <<lease, disk, client, up, todo>>
  BY DEF RevertWrites, process, Known, Exclusive, InLane, Recovered
<1>2. PICK k \in Key, s \in Safe, n \in Nat : k = call[c].key /\ s = call[c].safe /\ n = call[c].n
  BY <1>1 DEF Known, Fields, CallField
<1>3. CASE Returns(c, FALSE) /\ reg' = reg
  <2>1. SameBut(c, "returned", FALSE)
    BY <1>1, <1>3, Returned DEF Known, Typed
  <2>2. \A b \in Caller : BusFrom(b)
    BY <2>1 DEF BusFrom, SameBut
  <2> QED
    BY <1>1, <1>3, <2>2, QuietKeeps
<1>4. CASE Goes(c, "wrote") /\ reg' = [reg EXCEPT ![k] = [held |-> "safe", safe |-> s, n |-> n]]
  <2>1. SameBut(c, "wrote", call[c].ok)
    BY <1>1, <1>4, Gone DEF Known, Typed, CallAt
  <2>2. reg'[k].held = "safe" /\ \A q \in Key : q # k => reg'[q] = reg[q]
    <3>1. "safe" \in Held
      BY DEF Held
    <3> QED
      BY <1>4, <3>1, Written DEF IInv
  <2>3. Aimed'
    BY <1>1, <2>1, <2>2 DEF Aim, Aimed, SameBut
  <2>4. EndedIsFree'
    BY <1>1, <2>2 DEF Aim, EndedIsFree
  <2>5. \A q \in Key : Guard(q)' = Guard(q)
    BY <1>1 DEF Guard
  <2>6. reg[k].held # "clear" /\ (reg[k].held = "arm" => lease[k].gen = call[c].gen)
    BY <1>1, <1>2 DEF Aim, Aimed
  <2>7. reg[k].held = "arm" => lease[k] # NoLease /\ lease[k].due
    BY <1>1, <1>2, <2>6 DEF Known, Reverting, Fields, LeaseField, CallField
  <2>8. client.key # k
    BY <1>1, LeaseAssumption DEF NoWrite
  <2>9. reg[k].held = "arm" => Guard(k) = "due"
    BY <1>1, <2>7, <2>8 DEF Guard
  <2>10. /\ View(k) # "clear" /\ (View(k) = "arm" => reg[k].held = "arm")
         /\ View(k)' = "safe" /\ \A q \in Key : q # k => View(q)' = View(q)
    BY <2>2, <2>6 DEF View, Holds
  <2>11. Promise!Next
    BY <2>5, <2>9, <2>10, UndoStep
  <2> QED
    BY <2>3, <2>4, <2>11 DEF Aim
<1> QED
  BY <1>2, <1>3, <1>4 DEF RevertWrites

(* A lease is let go, or put off, while no client is at work on its key.     *)
LEMMA LetsGoKeeps ==
    ASSUME Known, Known', Aim, NEW k \in Key, UNCHANGED <<reg, client, up, todo>>,
           up \in {"run", "stop", "stopped"},
           \A q \in Key : q # k => lease'[q] = lease[q],
           \/ lease'[k] = lease[k]
           \/ lease'[k] = NoLease /\ (reg[k].held # "arm" \/ client.key = k)
           \/ /\ lease[k] # NoLease /\ lease[k].due /\ ~lease'[k].due
              /\ lease'[k].gen = lease[k].gen,
           \A c \in Caller : BusFrom(c)
    PROVE  Aim' /\ [Promise!Next]_(Promise!vars)
<1>1. Aimed'
  <2> SUFFICES ASSUME NEW c \in Caller, NEW q \in Key, call'[c].at = "bus", call'[c].key = q
               PROVE  reg[q].held # "clear" /\ (reg[q].held = "arm" => lease'[q].gen = call'[c].gen)
    BY DEF Aimed
  <2>1. call'[c] = call[c] /\ client = NoWrite
    BY DEF BusFrom, Known, Exclusive, InLane
  <2>2. client.key # q
    BY <2>1, LeaseAssumption DEF NoWrite
  <2>3. reg[q].held # "clear" /\ (reg[q].held = "arm" => lease[q].gen = call[c].gen)
    BY <2>1 DEF Aim, Aimed
  <2> QED
    BY <2>1, <2>2, <2>3
<1>2. EndedIsFree'
  <2>1. \A q \in Key : lease[q] = NoLease => lease'[q] = NoLease
    OBVIOUS
  <2> QED
    BY <2>1 DEF Aim, EndedIsFree
<1>3. \A q \in Key : q # k => Guard(q)' = Guard(q)
  BY DEF Guard
<1>4. \/ Guard(k)' = Guard(k)
      \/ Guard(k) = "due" /\ Guard(k)' = "live"
      \/ reg[k].held # "arm" /\ Guard(k)' = "none"
  <2>1. CASE lease'[k] = lease[k]
    BY <2>1 DEF Guard
  <2>2. CASE lease'[k] = NoLease /\ (reg[k].held # "arm" \/ client.key = k)
    <3>1. client.key = k => reg[k].held \in {client.effect, "rule"}
      BY DEF Known, Latest
    <3> QED
      BY <2>2, <3>1 DEF Guard
  <2>3. CASE lease[k] # NoLease /\ lease[k].due /\ ~lease'[k].due /\ lease'[k].gen = lease[k].gen
    <3>1. lease'[k] # NoLease
      BY <2>3 DEF Known, Fields, LeaseField
    <3> QED
      BY <2>3, <3>1 DEF Guard
  <2> QED
    BY <2>1, <2>2, <2>3
<1> QED
  BY <1>1, <1>2, <1>3, <1>4, GuardStep DEF Aim

LEMMA RevertRecordsKeeps ==
    ASSUME NEW c \in Caller, Known, Known', Aim, RevertRecords(c)
    PROVE  Aim' /\ [Promise!Next]_(Promise!vars)
<1>1. /\ call[c].at = "wrote" /\ client = NoWrite /\ up \in {"run", "stop", "stopped"}
      /\ UNCHANGED <<reg, client, up, todo>>
  BY DEF RevertRecords, world, process, Known, Exclusive, InLane, Recovered
<1>2. PICK k \in Key : k = call[c].key
  BY <1>1 DEF Known, Fields, CallField
<1>3. SameBut(c, "returned", TRUE)
  BY <1>1, Returned DEF RevertRecords, Known, Typed
<1>4. \A b \in Caller : BusFrom(b)
  BY <1>3 DEF BusFrom, SameBut
<1>5. reg[k].held # "arm"
  BY <1>1, <1>2 DEF Known, Reverting
<1>6. CASE Clear(k)
  <2>1. lease'[k] = NoLease /\ \A q \in Key : q # k => lease'[q] = lease[q]
    BY <1>6, Cleared DEF Known, Typed
  <2> QED
    BY <1>1, <1>4, <1>5, <2>1, LetsGoKeeps
<1>7. CASE UNCHANGED <<lease, gen, disk>>
  BY <1>1, <1>4, <1>7, QuietKeeps
<1> QED
  BY <1>2, <1>6, <1>7 DEF RevertRecords

LEMMA RuleRecordKeeps ==
    ASSUME Known, Known', Aim, RuleRecord
    PROVE  Aim' /\ [Promise!Next]_(Promise!vars)
<1>1. /\ rule # None /\ up \in {"run", "stop", "stopped"}
      /\ UNCHANGED <<reg, call, client, up, todo>>
  BY DEF RuleRecord, Running, process
<1>2. PICK k \in Key : k = rule
  BY <1>1 DEF Known
<1>3. lease'[k] = NoLease /\ \A q \in Key : q # k => lease'[q] = lease[q]
  BY <1>2, Cleared DEF RuleRecord, Known, Typed
<1>4. reg[k].held # "arm" \/ client.key = k
  BY <1>1, <1>2 DEF Known, Reverting
<1>5. \A b \in Caller : BusFrom(b)
  BY <1>1 DEF BusFrom
<1> QED
  BY <1>1, <1>3, <1>4, <1>5, LetsGoKeeps

LEMMA SweepEndsKeeps ==
    ASSUME NEW k \in Key, Known, Known', Aim, SweepEnds(k)
    PROVE  Aim' /\ [Promise!Next]_(Promise!vars)
<1>1. /\ call[k].at = "returned" /\ call[k].key = k /\ up \in {"run", "stop", "stopped"}
      /\ UNCHANGED <<reg, client, up, todo>>
  BY DEF SweepEnds, world, process, Known, Exclusive, Recovered, Caller
<1>2. SameBut(k, "ended", call[k].ok)
  BY <1>1, Gone DEF SweepEnds, Known, Typed, CallAt, Caller
<1>3. \A b \in Caller : BusFrom(b)
  BY <1>2 DEF BusFrom, SameBut
<1>4. CASE ~IsCurrent(k)
  BY <1>1, <1>3, <1>4, QuietKeeps DEF SweepEnds
<1>5. CASE IsCurrent(k)
  <2>1. lease[k] # NoLease /\ lease[k].gen = call[k].gen /\ lease[k].due
    BY <1>1, <1>5 DEF IsCurrent
  <2>2. call[k].ok => reg[k].held # "arm" \/ client.key = k
    BY <1>1, <2>1 DEF Known, Reverting, Caller
  <2>3. CASE call[k].ok
    <3>1. Drop(k)
      BY <1>5, <2>3 DEF SweepEnds
    <3>2. lease'[k] = NoLease /\ \A q \in Key : q # k => lease'[q] = lease[q]
      BY <3>1, Dropped DEF Known, Typed
    <3> QED
      BY <1>1, <1>3, <2>2, <2>3, <3>2, LetsGoKeeps
  <2>4. CASE ~call[k].ok
    <3>1. lease' = [lease EXCEPT ![k].due = FALSE]
      BY <1>5, <2>4 DEF SweepEnds
    <3>2. /\ lease'[k].gen = lease[k].gen /\ ~lease'[k].due
          /\ \A q \in Key : q # k => lease'[q] = lease[q]
      BY <2>1, <3>1, Dued DEF Known, Typed
    <3> QED
      BY <1>1, <1>3, <2>1, <3>2, LetsGoKeeps
  <2> QED
    BY <2>3, <2>4
<1> QED
  BY <1>4, <1>5

LEMMA StopRevertedKeeps ==
    ASSUME Known, Known', Aim, StopReverted
    PROVE  Aim' /\ [Promise!Next]_(Promise!vars)
<1>1. /\ call[Stopper].at = "returned" /\ up \in {"run", "stop", "stopped"}
      /\ UNCHANGED <<reg, client, up, todo>>
  BY DEF StopReverted, world, process
<1>2. PICK k \in Key : k = call[Stopper].key
  BY <1>1 DEF Known, Fields, CallField, Caller
<1>3. \A b \in Caller : BusFrom(b)
  <2>1. call' = [call EXCEPT ![Stopper] = NoCall]
    BY DEF StopReverted
  <2>2. call'[Stopper] = NoCall /\ \A b \in Caller : b # Stopper => call'[b] = call[b]
    BY <2>1, Landed DEF Known, Typed, Caller
  <2> QED
    BY <2>2 DEF BusFrom, NoCall
<1>4. CASE call[Stopper].ok /\ lease[k] # NoLease /\ lease[k].gen = call[Stopper].gen
  <2>1. Drop(k)
    BY <1>2, <1>4 DEF StopReverted
  <2>2. lease'[k] = NoLease /\ \A q \in Key : q # k => lease'[q] = lease[q]
    BY <2>1, Dropped DEF Known, Typed
  <2>3. reg[k].held # "arm" \/ client.key = k
    BY <1>1, <1>2, <1>4 DEF Known, Reverting, Caller
  <2> QED
    BY <1>1, <1>3, <2>2, <2>3, LetsGoKeeps
<1>5. CASE ~(call[Stopper].ok /\ lease[k] # NoLease /\ lease[k].gen = call[Stopper].gen)
  <2>1. UNCHANGED <<lease, disk>>
    BY <1>2, <1>5 DEF StopReverted
  <2> QED
    BY <1>1, <1>3, <2>1, QuietKeeps
<1> QED
  BY <1>4, <1>5

LEMMA StopBeginsKeeps ==
    ASSUME Known, Known', Aim, StopBegins
    PROVE  Aim' /\ [Promise!Next]_(Promise!vars)
<1>1. /\ up = "run" /\ up' = "stop" /\ UNCHANGED <<reg, disk, call, client>>
      /\ lease' = [k \in Key |-> IF lease[k] = NoLease THEN NoLease ELSE [lease[k] EXCEPT !.due = TRUE]]
  BY DEF StopBegins, world
<1>2. \A k \in Key : /\ lease[k] = NoLease => lease'[k] = NoLease
                     /\ lease[k] # NoLease => lease'[k].due /\ lease'[k].gen = lease[k].gen
  <2> SUFFICES ASSUME NEW k \in Key, lease[k] # NoLease
               PROVE  lease'[k].due /\ lease'[k].gen = lease[k].gen
    BY <1>1
  <2>1. lease[k] \in Lease /\ lease'[k] = [lease[k] EXCEPT !.due = TRUE]
    BY <1>1 DEF Known, Fields, LeaseField
  <2> QED
    BY <2>1 DEF Lease
<1>3. \A k \in Key : lease[k] # NoLease => lease'[k] # NoLease
  BY <1>2 DEF Known, Fields, LeaseField
<1>4. Aimed'
  <2>1. \A k \in Key : lease'[k].gen = lease[k].gen
    BY <1>2
  <2> QED
    BY <1>1, <2>1 DEF Aim, Aimed
<1>5. EndedIsFree'
  BY <1>1, <1>2 DEF Aim, EndedIsFree
<1>6. \A k \in Key : Guard(k)' = Guard(k) \/ (Guard(k) = "live" /\ Guard(k)' = "due")
  BY <1>1, <1>2, <1>3 DEF Guard
<1> QED
  BY <1>1, <1>4, <1>5, <1>6, QuietStep, GuardIs DEF Aim, View

(* The process ends: with nobody about to arm, what is on disk is what was   *)
(* in memory, and is due.                                                    *)
LEMMA DiesKeeps ==
    ASSUME Known, Known', Aim, Dies, client = NoWrite, up \in {"run", "stop", "stopped"}
    PROVE  Aim' /\ [Promise!Next]_(Promise!vars)
<1>1. /\ up' = "down" /\ UNCHANGED <<reg, disk>> /\ \A k \in Key : lease'[k] = NoLease
      /\ \A k \in Key : client.key # k
      /\ \A c \in Caller : call'[c].at # "bus"
  BY LeaseAssumption DEF Dies, Nothing, NoCall, NoWrite
<1>2. Aimed'
  BY <1>1 DEF Aimed
<1>3. EndedIsFree'
  BY <1>1 DEF Aim, EndedIsFree, Known, DiskHasTheLeases
<1>4. \A k \in Key : Guard(k)' = Guard(k) \/ (Guard(k) = "live" /\ Guard(k)' = "due")
  BY <1>1 DEF Guard, Known, DiskHasTheLeases
<1> QED
  BY <1>1, <1>2, <1>3, <1>4, QuietStep, GuardIs DEF Aim, View

LEMMA BootKeeps ==
    ASSUME Known, Known', Aim, Boot
    PROVE  Aim' /\ [Promise!Next]_(Promise!vars)
<1>1. /\ up = "down" /\ up' = "boot" /\ UNCHANGED <<reg, lease, disk, call, client>>
      /\ \A k \in Key : disk[k] = None => todo'[k] = NoLease
      /\ \A k \in Key : disk[k] # None => todo'[k].gen = 1
      /\ \A k \in Key : lease[k] = NoLease /\ client.key # k
  BY LeaseAssumption DEF Boot, world, Known, Recovered, Fields, LeaseField, NoWrite
<1>2. \A k \in Key : disk[k] # None => todo'[k] # NoLease
  BY <1>1 DEF NoLease
<1>3. Aimed'
  BY <1>1 DEF Aim, Aimed
<1>4. EndedIsFree'
  BY <1>1 DEF Aim, EndedIsFree
<1>5. \A k \in Key : Guard(k)' = Guard(k)
  BY <1>1, <1>2 DEF Guard
<1> QED
  BY <1>1, <1>3, <1>4, <1>5, QuietStep, GuardIs DEF Aim, View

LEMMA BootArmKeeps ==
    ASSUME NEW k \in Key, Known, Known', Aim, BootArm(k)
    PROVE  Aim' /\ [Promise!Next]_(Promise!vars)
<1>1. /\ up = "boot" /\ todo[k] # NoLease /\ todo' = [todo EXCEPT ![k] = NoLease]
      /\ UNCHANGED <<reg, call, client, up>>
      /\ \A c \in Caller : call[c].at # "bus"
      /\ \A q \in Key : client.key # q
  BY LeaseAssumption DEF BootArm, world, Known, Recovered, NoWrite
<1>2. PICK s \in Safe, n \in Nat : Arm(k, TRUE, s, n)
  BY <1>1 DEF BootArm, Known, Fields, LeaseField
<1>3. /\ lease'[k] = [gen |-> gen + 1, due |-> TRUE, safe |-> s, n |-> n]
      /\ \A q \in Key : q # k => lease'[q] = lease[q]
  BY <1>2, Armed DEF Known, Typed
<1>4. lease'[k].gen = gen + 1 /\ gen + 1 # 0 /\ lease'[k].due
  BY <1>3 DEF Known
<1>5. lease'[k] # NoLease /\ todo'[k] = NoLease /\ \A q \in Key : q # k => todo'[q] = todo[q]
  BY <1>1, <1>4 DEF NoLease, Known, Typed, LeaseFn
<1>6. Aimed'
  BY <1>1 DEF Aimed
<1>7. EndedIsFree'
  BY <1>1, <1>3, <1>5 DEF Aim, EndedIsFree
<1>8. \A q \in Key : Guard(q)' = Guard(q)
  BY <1>1, <1>3, <1>4, <1>5 DEF Guard
<1> QED
  BY <1>1, <1>6, <1>7, <1>8, QuietStep, GuardIs DEF Aim, View

(* The device is another's: every register but one that is being armed.      *)
LEMMA ClearDeviceKeeps ==
    ASSUME IInv, Known, Aim, ClearDevice
    PROVE  Aim' /\ [Promise!Next]_(Promise!vars)
<1> DEFINE S == {k \in Key : ~(client.key = k /\ client.effect = "arm")}
<1>1. /\ up \in {"run", "stop", "stopped"} /\ UNCHANGED <<call, client, up>>
      /\ \A k \in Key : lease'[k] = NoLease
      /\ reg' = [k \in Key |-> IF k = client.key THEN reg[k] ELSE HandOver(k)]
  BY DEF ClearDevice, Running, process, Nothing
<1>2. \A k \in Key : reg'[k].held = IF client.key # k /\ reg[k].held = "arm" THEN "keep" ELSE reg[k].held
  BY <1>1, HandedOver DEF IInv
<1>3. \A k \in Key : client.key = k => reg[k].held \in {client.effect, "rule"}
  BY DEF Known, Latest
<1>4. Aimed'
  <2> SUFFICES ASSUME NEW c \in Caller, NEW k \in Key, call'[c].at = "bus", call'[c].key = k
               PROVE  reg'[k].held # "clear" /\ reg'[k].held # "arm"
    BY DEF Aimed
  <2>1. client.key # k
    BY <1>1, LeaseAssumption DEF Known, Exclusive, InLane, NoWrite
  <2> QED
    BY <1>1, <1>2, <2>1 DEF Aim, Aimed
<1>5. EndedIsFree'
  BY <1>1 DEF EndedIsFree
<1>6. \A k \in Key : View(k)' = IF k \in S /\ View(k) = "arm" THEN "keep" ELSE View(k)
  BY <1>2, <1>3 DEF View, Holds
<1>7. \A k \in Key : Guard(k)' = IF k \in S THEN "none" ELSE Guard(k)
  BY <1>1 DEF Guard
<1> QED
  BY <1>4, <1>5, <1>6, <1>7, HandOverStep DEF Aim

LEMMA BootStandbyKeeps ==
    ASSUME IInv, Known, Aim, BootStandby
    PROVE  Aim' /\ [Promise!Next]_(Promise!vars)
<1>1. /\ up = "down" /\ up' = "boot" /\ UNCHANGED <<lease, todo, call, client>>
      /\ \A k \in Key : lease[k] = NoLease /\ todo[k] = NoLease /\ disk'[k] = None /\ client.key # k
      /\ \A c \in Caller : call[c].at # "bus"
      /\ reg' = [k \in Key |-> HandOver(k)]
  BY LeaseAssumption DEF BootStandby, Known, Recovered, Fields, LeaseField, NoWrite
<1>2. \A k \in Key : reg'[k].held = IF reg[k].held = "arm" THEN "keep" ELSE reg[k].held
  BY <1>1, HandedOver DEF IInv
<1>3. Aimed'
  BY <1>1 DEF Aimed
<1>4. EndedIsFree'
  BY <1>1 DEF EndedIsFree
<1>5. \A k \in Key : View(k)' = IF k \in Key /\ View(k) = "arm" THEN "keep" ELSE View(k)
  BY <1>2 DEF View, Holds
<1>6. \A k \in Key : Guard(k)' = IF k \in Key THEN "none" ELSE Guard(k)
  BY <1>1 DEF Guard
<1> QED
  BY <1>3, <1>4, <1>5, <1>6, HandOverStep DEF Aim

LEMMA StepKeeps ==
    ASSUME Guarding, IInv, Known, Known', Aim, [Next]_vars
    PROVE  Aim' /\ [Promise!Next]_(Promise!vars)
<1>1. CASE Clients
  <2>1. ASSUME NEW k \in Key, RuleWrite(k)
        PROVE  Aim' /\ [Promise!Next]_(Promise!vars)
    BY <2>1, RuleWriteKeeps
  <2>2. ASSUME NEW k \in Key, NEW s \in Safe, ClientWrite(k, "arm", s)
        PROVE  Aim' /\ [Promise!Next]_(Promise!vars)
    BY <2>2, ClientWriteKeeps
  <2>3. ASSUME NEW k \in Key, ClientWrite(k, "clear", None) \/ ClientWrite(k, "keep", None)
        PROVE  Aim' /\ [Promise!Next]_(Promise!vars)
    BY <2>3, ClientWriteKeeps
  <2> QED
    BY <1>1, <2>1, <2>2, <2>3 DEF Clients
<1>2. CASE Records
  BY <1>2, ClientRecordKeeps, RuleRecordKeeps DEF Records
<1>3. ASSUME NEW k \in Key, Sweeps(k)
      PROVE  Aim' /\ [Promise!Next]_(Promise!vars)
  <2>1. CASE SweepFire(k)
    <3>1. lease[k] \in Lease /\ Starts(k, k, lease[k])
      BY <2>1 DEF SweepFire, Known, Fields, LeaseField
    <3>2. \A b \in Caller : BusFrom(b)
      BY <3>1, Started DEF BusFrom, Known, Typed, Caller
    <3>3. UNCHANGED <<reg, lease, disk, client, up, todo>>
      BY <2>1 DEF SweepFire, world
    <3> QED
      BY <3>2, <3>3, QuietKeeps
  <2>2. CASE SweepLands(k)
    <3>1. \A b \in Caller : BusFrom(b)
      BY <2>2, Landed DEF SweepLands, BusFrom, Known, Typed, Caller, NoCall
    <3>2. UNCHANGED <<reg, lease, disk, client, up, todo>>
      BY <2>2 DEF SweepLands, world, process
    <3> QED
      BY <3>1, <3>2, QuietKeeps
  <2> QED
    BY <1>3, <2>1, <2>2, SweepEndsKeeps DEF Sweeps
<1>4. ASSUME NEW c \in Caller, RevertFirst(c)
      PROVE  Aim' /\ [Promise!Next]_(Promise!vars)
  <2>1. call[c].at = "first" /\ UNCHANGED <<reg, lease, disk, client, up, todo>>
    BY <1>4 DEF RevertFirst, world, process
  <2>2. \/ SameBut(c, "returned", TRUE) \/ SameBut(c, "returned", FALSE)
        \/ SameBut(c, "lane", call[c].ok)
    BY <1>4, <2>1, Gone, Returned DEF RevertFirst, Known, Typed, CallAt
  <2>3. \A b \in Caller : BusFrom(b)
    BY <2>2 DEF BusFrom, SameBut
  <2> QED
    BY <2>1, <2>3, QuietKeeps
<1>5. CASE StopWithdraws
  <2>1. Stopper \in Caller /\ call[Stopper].at = "lane" /\ UNCHANGED <<reg, lease, disk, client, up, todo>>
    BY <1>5 DEF StopWithdraws, world, process, Caller
  <2>2. SameBut(Stopper, "returned", FALSE)
    BY <1>5, <2>1, Returned DEF StopWithdraws, Known, Typed
  <2>3. \A b \in Caller : BusFrom(b)
    BY <2>2 DEF BusFrom, SameBut
  <2> QED
    BY <2>1, <2>3, QuietKeeps
<1>6. ASSUME NEW k \in Key, StopNext(k)
      PROVE  Aim' /\ [Promise!Next]_(Promise!vars)
  <2>1. up = "stop" /\ todo[k] \in Lease /\ Starts(Stopper, k, todo[k])
    BY <1>6 DEF StopNext, Known, Fields, LeaseField
  <2>2. \A b \in Caller : BusFrom(b)
    BY <2>1, Started DEF BusFrom, Known, Typed, Caller
  <2>3. UNCHANGED <<reg, lease, disk, client, up>>
    BY <1>6 DEF StopNext, world
  <2> QED
    BY <2>1, <2>2, <2>3, QuietKeeps
<1>7. CASE BudgetEnds \/ StopEnds \/ BootEnds \/ UNCHANGED vars
  <2>1. UNCHANGED <<reg, lease, disk, call, client>>
    BY <1>7 DEF BudgetEnds, StopEnds, BootEnds, vars, world
  <2>2. \/ up' = up /\ todo' = todo
        \/ up = "stop" /\ up' = "stopped"
        \/ up = "boot" /\ up' = "run" /\ todo = Nothing
    BY <1>7 DEF BudgetEnds, StopEnds, BootEnds, vars
  <2>3. \A b \in Caller : BusFrom(b)
    BY <2>1 DEF BusFrom
  <2> QED
    BY <2>1, <2>2, <2>3, QuietKeeps
<1>8. CASE Exit \/ Crash
  <2>1. client = NoWrite /\ Dies /\ up \in {"run", "stop", "stopped"}
    BY <1>8, Guarding DEF Exit, Crash, CanDie, Guarding, Known
  <2> QED
    BY <2>1, DiesKeeps
<1> QED
  BY <1>1, <1>2, <1>3, <1>4, <1>5, <1>6, <1>7, <1>8, ExpireKeeps,
     RevertTakesBusKeeps, RevertWritesKeeps, RevertRecordsKeeps, StopBeginsKeeps,
     StopRevertedKeeps, BootKeeps, BootArmKeeps, ClearDeviceKeeps, BootStandbyKeeps
     DEF Next, Reverts, Stops, Boots, HandsOver

LEMMA InitAims == Init => Aim /\ Promise!Init
<1> SUFFICES ASSUME Init
             PROVE  Aim /\ Promise!Init
  OBVIOUS
<1>1. \A k \in Key : reg[k].held = "safe" /\ Holds(reg[k].held) = "safe" /\ lease[k] = NoLease /\ client.key # k
  BY LeaseAssumption DEF Init, Nothing, NoWrite, Holds
<1>2. \A c \in Caller : call[c].at # "bus"
  BY DEF Init, NoCall
<1>3. \A k \in Key : Guard(k) = "none"
  BY <1>1 DEF Guard, Init
<1> QED
  BY <1>1, <1>2, <1>3 DEF Aim, Aimed, EndedIsFree, Promise!Init

(* The leases keep what their module promises (where LeasedIsGuardedHolds    *)
(* does): a leased setpoint is undone only when its time is over since its    *)
(* last renewal, one that ended its lease never, and no dead-man is let go    *)
(* while its setpoint stands (arm, clear, _sweep, _do_revert, stop; boot      *)
(* recovery and _execute of api.py).                                          *)
THEOREM LeaseRefines ==
    ASSUME Guarding
    PROVE  Spec => DeadManKept
<1>1. IInv => Known
  BY Guarding, KnownIs
<1>2. IInv /\ Known /\ Known' /\ Aim /\ [Next]_vars => Aim' /\ [Promise!Next]_(Promise!vars)
  BY Guarding, StepKeeps
<1> QED
  BY <1>1, <1>2, InitAims, LeaseInvariant, PTL DEF Spec, DeadManKept, Promise!Spec
=============================================================================
