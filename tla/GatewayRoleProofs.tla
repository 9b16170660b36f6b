--------------------------- MODULE GatewayRoleProofs ---------------------------
(***************************************************************************)
(* Proofs about GatewayRole, for any set of gateways, any number of epochs  *)
(* and any set of faults.  The argument: an epoch belongs to one gateway    *)
(* (plan), that gateway is asked to be active only once every other one has *)
(* answered that it stands by with that epoch, and what is answered is on   *)
(* disk, so neither a late request nor a restart goes behind it.            *)
(***************************************************************************)
EXTENDS GatewayRole, TLAPS

USE DEF Role

(* A request names its gateway, role and epoch. *)
LEMMA AskIsRequest ==
    ASSUME NEW g \in Gateway, NEW r \in Role, NEW e \in Epoch
    PROVE  /\ Ask(g, r, e) \in Request
           /\ Ask(g, r, e).to = g /\ Ask(g, r, e).role = r /\ Ask(g, r, e).epoch = e
BY DEF Ask, Request

LEMMA RequestFields ==
    ASSUME NEW m \in Request
    PROVE  /\ m.to \in Gateway /\ m.role \in Role /\ m.epoch \in Epoch /\ m.epoch \in Nat
           /\ m.to # Nobody
BY RoleAssumption DEF Request, Epoch

(* Every step only adds to plan and to the answers. *)
LEMMA OnlyGrows ==
    ASSUME TypeOK, [Next]_vars
    PROVE  /\ \A e \in Epoch : plan[e] # Nobody => plan'[e] = plan[e]
           /\ acked \subseteq acked'
<1>1. CASE \E g \in Gateway, e \in Epoch : Assign(g, e)
  BY <1>1 DEF Assign, TypeOK
<1>2. CASE \E m \in Request : SetRole(m) \/ SetUnsaved(m)
  BY <1>2 DEF SetRole, SetUnsaved
<1>3. CASE \E m \in telling : Tell(m)
  BY <1>3 DEF Tell
<1>4. CASE \E w \in work : Devices(w) \/ Outputs(w)
  BY <1>4 DEF Devices, Outputs
<1>5. CASE \E g \in Gateway : Restart(g)
  BY <1>5 DEF Restart
<1>6. CASE UNCHANGED vars
  BY <1>6 DEF vars
<1> QED
  BY <1>1, <1>2, <1>3, <1>4, <1>5, <1>6 DEF Next

(* Who may lead with an epoch may do so for good. *)
LEMMA LeadStays ==
    ASSUME TypeOK, [Next]_vars, NEW g \in Gateway, NEW e \in Epoch, MayLead(g, e)
    PROVE  /\ plan'[e] = g
           /\ \A h \in Gateway \ {g} : Ask(h, "standby", e) \in acked'
<1>1. g # Nobody
  BY RoleAssumption
<1> QED
  BY <1>1, OnlyGrows DEF MayLead, OthersStandBy

(* The gateway that may lead with an epoch is alone with it: every other one *)
(* has that epoch, standing by, or a newer one.                              *)
LEMMA AloneWithEpoch ==
    ASSUME IInv, NEW g \in Gateway, NEW e \in Epoch, MayLead(g, e),
           NEW h \in Gateway, h # g
    PROVE  /\ disk[h].epoch >= e
           /\ disk[h].epoch = e => disk[h].role = "standby"
           /\ epoch[h] >= e
           /\ epoch[h] = e => role[h] = "standby"
<1>1. Ask(h, "standby", e) \in acked
  BY DEF MayLead, OthersStandBy
<1>2. /\ disk[h].epoch >= e
      /\ disk[h].epoch = e => disk[h].role = "standby"
  BY <1>1, AskIsRequest DEF IInv, AnsweredStays
<1>3. disk[h].epoch \in Nat /\ epoch[h] \in Nat /\ e \in Nat
  BY DEF IInv, TypeOK, Epoch
<1>4. /\ disk[h].epoch <= epoch[h]
      /\ disk[h].epoch = epoch[h] => disk[h].role = role[h]
  BY DEF IInv, MemoryIsNewer
<1> QED
  BY <1>2, <1>3, <1>4

(* A gateway that accepts a request to be active does so with an epoch newer *)
(* than any before unless it was the last one; no other one is active.       *)
LEMMA TakesNewer ==
    ASSUME IInv, NEW m \in Request, Sent(m), Accepts(m), m.role = "active"
    PROVE  /\ MayLead(m.to, m.epoch)
           /\ m.to # last => m.epoch > term
           /\ \A h \in Gateway : h # m.to => role[h] = "standby"
<1> DEFINE g == m.to
           e == m.epoch
<1>1. g \in Gateway /\ e \in Epoch
  BY RequestFields
<1>2. last \in Gateway /\ term \in Epoch /\ role \in [Gateway -> Role] /\ epoch \in [Gateway -> Epoch]
  BY DEF IInv, TypeOK
<1>3. e >= epoch[g] /\ (e = epoch[g] => role[g] = "active")
  BY DEF Accepts
<1>4. MayLead(g, e)
  BY DEF Sent
<1>5. g # last => e > term
  <2> SUFFICES ASSUME g # last PROVE e > term
    OBVIOUS
  <2>1. epoch[g] >= term /\ plan[term] = last
    BY <1>1, <1>2, AloneWithEpoch DEF IInv, LastMayLead, MayLead
  <2>2. e # term
    BY <1>4, <2>1 DEF MayLead
  <2>3. e \in Nat /\ term \in Nat /\ epoch[g] \in Nat
    BY <1>1, <1>2 DEF Epoch
  <2> QED
    BY <1>3, <2>1, <2>2, <2>3
<1>6. ASSUME NEW h \in Gateway, h # g, role[h] # "standby" PROVE FALSE
  <2>1. role[h] = "active" /\ last = h /\ epoch[h] <= term
    BY <1>2, <1>6 DEF IInv, ActiveMayLead
  <2>2. epoch[h] >= e /\ epoch[h] # e
    BY <1>1, <1>4, <1>6, <2>1, AloneWithEpoch
  <2>3. e > term
    BY <1>5, <1>6, <2>1
  <2>4. e \in Nat /\ term \in Nat /\ epoch[h] \in Nat
    BY <1>1, <1>2 DEF Epoch
  <2> QED
    BY <2>1, <2>2, <2>3, <2>4
<1> QED
  BY <1>4, <1>5, <1>6

-----------------------------------------------------------------------------
LEMMA InitInv == ASSUME Init PROVE IInv
<1>1. First \in Gateway /\ 1 \in Epoch /\ Nobody # First
  BY RoleAssumption DEF Epoch
<1>2. TypeOK
  BY <1>1 DEF Init, TypeOK, Ask, Request
<1>3. AnsweredStays /\ MemoryIsNewer /\ TellingIsSaved
  BY <1>1 DEF Init, AnsweredStays, MemoryIsNewer, TellingIsSaved, Ask
<1>4. MayLead(First, 1)
  BY <1>1 DEF Init, MayLead, Ask, OthersStandBy
<1>5. ActiveMayLead /\ LastMayLead /\ DiskWasMaster
  BY <1>1, <1>4 DEF Init, ActiveMayLead, LastMayLead, DiskWasMaster
<1> QED
  BY <1>2, <1>3, <1>5 DEF IInv

(* What set() and the history do in memory keeps the parts about memory. *)
LEMMA RememberKeeps ==
    ASSUME IInv, [Next]_vars, NEW m \in Request, Sent(m), Accepts(m), Remember(m),
           NoteIfActive(m.to, m.role, m.epoch)
    PROVE  /\ role' \in [Gateway -> Role] /\ epoch' \in [Gateway -> Epoch]
           /\ last' \in Gateway /\ term' \in Epoch /\ term <= term'
           /\ \A g \in Gateway : role'[g] = "active" =>
                 MayLead(g, epoch[g])' /\ last' = g /\ epoch'[g] <= term'
           /\ LastMayLead'
<1> DEFINE Leads(g, e) == /\ plan'[e] = g
                          /\ \A h \in Gateway \ {g} : Ask(h, "standby", e) \in acked'
<1>1. m.to \in Gateway /\ m.role \in Role /\ m.epoch \in Epoch /\ m.epoch \in Nat
  BY RequestFields
<1>2. /\ role \in [Gateway -> Role] /\ epoch \in [Gateway -> Epoch] /\ last \in Gateway
      /\ term \in Epoch /\ term \in Nat /\ TypeOK
  BY DEF IInv, TypeOK, Epoch
<1>3. /\ role' \in [Gateway -> Role] /\ epoch' \in [Gateway -> Epoch]
      /\ role'[m.to] = m.role /\ epoch'[m.to] = m.epoch
      /\ \A g \in Gateway \ {m.to} : role'[g] = role[g] /\ epoch'[g] = epoch[g]
  BY <1>1, <1>2 DEF Remember
<1>4. \A g \in Gateway, e \in Epoch : MayLead(g, e) => Leads(g, e)
  BY <1>2, LeadStays
<1>5. Leads(last, term)
  BY <1>2, <1>4 DEF IInv, LastMayLead
<1>6. SUFFICES /\ last' \in Gateway /\ term' \in Epoch /\ term <= term'
               /\ \A g \in Gateway : role'[g] = "active" =>
                      Leads(g, epoch'[g]) /\ last' = g /\ epoch'[g] <= term'
               /\ Leads(last', term')
  BY <1>3 DEF LastMayLead, MayLead, OthersStandBy
<1> HIDE DEF Leads
<1>7. CASE m.role = "active"
  <2>1. MayLead(m.to, m.epoch) /\ (m.to # last => m.epoch > term)
    BY <1>7, TakesNewer
  <2>2. \A h \in Gateway : h # m.to => role[h] = "standby"
    BY <1>7, TakesNewer
  <2>3. last' = m.to /\ term' = IF m.epoch > term THEN m.epoch ELSE term
    BY <1>7 DEF NoteIfActive, NoteActive
  <2>4. Leads(m.to, m.epoch)
    BY <1>1, <1>4, <2>1
  <2>5. Leads(last', term')
    BY <2>1, <2>3, <2>4, <1>5
  <2> QED
    BY <1>1, <1>2, <1>3, <1>7, <2>2, <2>3, <2>4, <2>5
<1>8. CASE m.role # "active"
  <2>1. last' = last /\ term' = term
    BY <1>8 DEF NoteIfActive
  <2>2. ASSUME NEW g \in Gateway, role'[g] = "active"
        PROVE  Leads(g, epoch'[g]) /\ last' = g /\ epoch'[g] <= term'
    <3>1. g # m.to /\ role[g] = "active" /\ epoch'[g] = epoch[g] /\ epoch[g] \in Epoch
      BY <1>2, <1>3, <1>8, <2>2
    <3>2. MayLead(g, epoch[g]) /\ last = g /\ epoch[g] <= term
      BY <3>1 DEF IInv, ActiveMayLead
    <3> QED
      BY <1>4, <2>1, <3>1, <3>2
  <2> QED
    BY <1>2, <1>5, <2>1, <2>2
<1> QED
  BY <1>7, <1>8

(* A step that leaves memory, disk and history alone keeps what is said of them. *)
LEMMA UntouchedKeeps ==
    ASSUME IInv, [Next]_vars, UNCHANGED <<memory, disk, last, term>>
    PROVE  MemoryIsNewer' /\ ActiveMayLead' /\ LastMayLead' /\ DiskWasMaster'
<1>1. /\ TypeOK /\ epoch \in [Gateway -> Epoch] /\ last \in Gateway /\ term \in Epoch
      /\ \A g \in Gateway : disk[g].epoch \in Epoch
  BY DEF IInv, TypeOK
<1>2. UNCHANGED <<role, epoch, disk, last, term>>
  BY DEF memory
<1>3. MemoryIsNewer' /\ DiskWasMaster'
  BY <1>2 DEF IInv, MemoryIsNewer, DiskWasMaster
<1>4. LastMayLead'
  BY <1>1, <1>2, LeadStays DEF IInv, LastMayLead, MayLead, OthersStandBy
<1>5. ASSUME NEW g \in Gateway, role[g] = "active"
      PROVE  MayLead(g, epoch[g])'
  BY <1>1, <1>2, <1>5, LeadStays DEF IInv, ActiveMayLead, MayLead, OthersStandBy
<1>6. ASSUME NEW g \in Gateway, disk[g].role = "active"
      PROVE  MayLead(g, disk[g].epoch)'
  BY <1>1, <1>2, <1>6, LeadStays DEF IInv, ActiveMayLead, MayLead, OthersStandBy
<1>7. ActiveMayLead'
  BY <1>2, <1>5, <1>6 DEF IInv, ActiveMayLead
<1> QED
  BY <1>3, <1>4, <1>7

(* The part of ActiveMayLead about the disk. *)
LEMMA DiskLeadStays ==
    ASSUME IInv, [Next]_vars, NEW g \in Gateway, disk[g].role = "active", disk'[g] = disk[g]
    PROVE  MayLead(g, disk[g].epoch)'
<1>1. TypeOK /\ disk[g].epoch \in Epoch
  BY DEF IInv, TypeOK
<1>2. MayLead(g, disk[g].epoch)
  BY DEF IInv, ActiveMayLead
<1> QED
  BY <1>1, <1>2, LeadStays DEF MayLead, OthersStandBy

LEMMA AssignKeeps ==
    ASSUME IInv, NEW g \in Gateway, NEW e \in Epoch, Assign(g, e)
    PROVE  IInv'
<1>1. UNCHANGED <<memory, disk, last, term>> /\ [Next]_vars
  BY DEF Assign, Next
<1>2. TypeOK'
  BY <1>1 DEF IInv, TypeOK, Assign, memory, effects
<1>3. AnsweredStays' /\ TellingIsSaved'
  BY DEF IInv, AnsweredStays, TellingIsSaved, Assign
<1> QED
  BY <1>1, <1>2, <1>3, UntouchedKeeps DEF IInv

LEMMA SetRoleKeeps ==
    ASSUME IInv, NEW m \in Request, SetRole(m)
    PROVE  IInv'
<1>1. [Next]_vars /\ Sent(m) /\ Accepts(m) /\ Remember(m) /\ NoteIfActive(m.to, m.role, m.epoch)
  BY DEF SetRole, Next
<1>2. m.to \in Gateway /\ m.role \in Role /\ m.epoch \in Epoch /\ m.epoch \in Nat
  BY RequestFields
<1>3. /\ role' \in [Gateway -> Role] /\ epoch' \in [Gateway -> Epoch]
      /\ last' \in Gateway /\ term' \in Epoch /\ term <= term'
      /\ \A g \in Gateway : role'[g] = "active" =>
            MayLead(g, epoch[g])' /\ last' = g /\ epoch'[g] <= term'
      /\ LastMayLead'
  BY <1>1, RememberKeeps
<1>4. /\ disk \in [Gateway -> [role : Role, epoch : Epoch]] /\ role \in [Gateway -> Role]
      /\ epoch \in [Gateway -> Epoch] /\ acked \subseteq Request /\ telling \subseteq Request
      /\ term \in Epoch
  BY DEF IInv, TypeOK
<1>5. /\ disk' \in [Gateway -> [role : Role, epoch : Epoch]]
      /\ disk'[m.to].role = m.role /\ disk'[m.to].epoch = m.epoch
      /\ \A g \in Gateway \ {m.to} : disk'[g] = disk[g]
  BY <1>2, <1>4 DEF SetRole, Save
<1>6. /\ role'[m.to] = m.role /\ epoch'[m.to] = m.epoch
      /\ \A g \in Gateway \ {m.to} : role'[g] = role[g] /\ epoch'[g] = epoch[g]
  BY <1>1, <1>2, <1>4 DEF Remember
<1>7. /\ acked' \subseteq acked \cup {m} /\ telling' \subseteq telling \cup {m}
      /\ UNCHANGED <<plan, work, polls, outputs>>
  BY DEF SetRole, effects
<1>8. TypeOK'
  <2>1. astray' \in [Gateway -> BOOLEAN]
    BY DEF IInv, TypeOK, SetRole
  <2> QED
    BY <1>3, <1>4, <1>5, <1>7, <2>1 DEF IInv, TypeOK
<1>9. \A g \in Gateway : disk[g].epoch \in Nat /\ epoch[g] \in Nat
  BY <1>4 DEF Epoch
<1>10. disk[m.to].epoch <= epoch[m.to] /\ epoch[m.to] <= m.epoch
       /\ (disk[m.to].epoch = epoch[m.to] => disk[m.to].role = role[m.to])
       /\ (epoch[m.to] = m.epoch => m.role = role[m.to])
  BY <1>1, <1>2 DEF IInv, MemoryIsNewer, Accepts
<1>11. \A g \in Gateway : /\ disk[g].epoch <= disk'[g].epoch
                          /\ disk[g].epoch = disk'[g].epoch => disk'[g].role = disk[g].role
  BY <1>2, <1>5, <1>9, <1>10
<1>12. AnsweredStays'
  <2> SUFFICES ASSUME NEW n \in acked'
               PROVE  /\ disk'[n.to].epoch >= n.epoch
                      /\ disk'[n.to].epoch = n.epoch => disk'[n.to].role = n.role
    BY DEF AnsweredStays
  <2>1. CASE n = m
    BY <1>2, <1>5, <2>1
  <2>2. CASE n \in acked
    <3>1. n.to \in Gateway /\ n.epoch \in Nat
      BY <1>4, <2>2, RequestFields
    <3>2. /\ disk[n.to].epoch >= n.epoch
          /\ disk[n.to].epoch = n.epoch => disk[n.to].role = n.role
      BY <2>2 DEF IInv, AnsweredStays
    <3>3. disk'[n.to].epoch \in Nat
      BY <1>5, <3>1 DEF Epoch
    <3> QED
      BY <1>9, <1>11, <3>1, <3>2, <3>3
  <2> QED
    BY <1>7, <2>1, <2>2
<1>13. TellingIsSaved'
  <2> SUFFICES ASSUME NEW n \in telling'
               PROVE  /\ disk'[n.to].epoch >= n.epoch
                      /\ disk'[n.to].epoch = n.epoch => disk'[n.to].role = n.role
    BY DEF TellingIsSaved
  <2>1. CASE n = m
    BY <1>2, <1>5, <2>1
  <2>2. CASE n \in telling
    <3>1. n.to \in Gateway /\ n.epoch \in Nat
      BY <1>4, <2>2, RequestFields
    <3>2. /\ disk[n.to].epoch >= n.epoch
          /\ disk[n.to].epoch = n.epoch => disk[n.to].role = n.role
      BY <2>2 DEF IInv, TellingIsSaved
    <3>3. disk'[n.to].epoch \in Nat
      BY <1>5, <3>1 DEF Epoch
    <3> QED
      BY <1>9, <1>11, <3>1, <3>2, <3>3
  <2> QED
    BY <1>7, <2>1, <2>2
<1>14. MemoryIsNewer'
  BY <1>2, <1>5, <1>6 DEF IInv, MemoryIsNewer
<1>15. ASSUME NEW g \in Gateway, disk'[g].role = "active" PROVE MayLead(g, disk[g].epoch)'
  <2>1. CASE g = m.to
    <3>1. role'[g] = "active" /\ epoch'[g] = disk'[g].epoch
      BY <1>5, <1>6, <1>15, <2>1
    <3> QED
      BY <1>3, <3>1 DEF MayLead, OthersStandBy
  <2>2. CASE g # m.to
    BY <1>1, <1>5, <1>15, <2>2, DiskLeadStays
  <2> QED
    BY <2>1, <2>2
<1>16. ActiveMayLead'
  BY <1>3, <1>15 DEF ActiveMayLead
<1>17. DiskWasMaster'
  <2> SUFFICES ASSUME NEW g \in Gateway, disk'[g].role = "active"
               PROVE  disk'[g].epoch <= term'
    BY DEF DiskWasMaster
  <2>1. CASE g = m.to
    BY <1>3, <1>5, <1>6, <2>1
  <2>2. CASE g # m.to
    <3>1. disk[g].epoch <= term /\ disk'[g].epoch = disk[g].epoch
      BY <1>5, <2>2 DEF IInv, DiskWasMaster
    <3>2. term \in Nat /\ term' \in Nat
      BY <1>3, <1>4 DEF Epoch
    <3> QED
      BY <1>3, <1>9, <3>1, <3>2
  <2> QED
    BY <2>1, <2>2
<1> QED
  BY <1>3, <1>8, <1>12, <1>13, <1>14, <1>16, <1>17 DEF IInv

LEMMA SetUnsavedKeeps ==
    ASSUME IInv, NEW m \in Request, SetUnsaved(m)
    PROVE  IInv'
<1>1. [Next]_vars /\ Sent(m) /\ Accepts(m) /\ Remember(m) /\ NoteIfActive(m.to, m.role, m.epoch)
  BY DEF SetUnsaved, Next
<1>2. m.to \in Gateway /\ m.role \in Role /\ m.epoch \in Epoch /\ m.epoch \in Nat
  BY RequestFields
<1>3. /\ role' \in [Gateway -> Role] /\ epoch' \in [Gateway -> Epoch]
      /\ last' \in Gateway /\ term' \in Epoch /\ term <= term'
      /\ \A g \in Gateway : role'[g] = "active" =>
            MayLead(g, epoch[g])' /\ last' = g /\ epoch'[g] <= term'
      /\ LastMayLead'
  BY <1>1, RememberKeeps
<1>4. /\ disk \in [Gateway -> [role : Role, epoch : Epoch]] /\ role \in [Gateway -> Role]
      /\ epoch \in [Gateway -> Epoch] /\ term \in Epoch /\ astray \in [Gateway -> BOOLEAN]
  BY DEF IInv, TypeOK
<1>5. UNCHANGED <<plan, acked, disk, telling, work, polls, outputs>>
  BY DEF SetUnsaved, effects
<1>6. astray' \in [Gateway -> BOOLEAN]
  BY <1>4 DEF SetUnsaved
<1>7. TypeOK'
  BY <1>3, <1>5, <1>6 DEF IInv, TypeOK
<1>8. AnsweredStays' /\ TellingIsSaved'
  BY <1>5 DEF IInv, AnsweredStays, TellingIsSaved
<1>9. /\ role'[m.to] = m.role /\ epoch'[m.to] = m.epoch
      /\ \A g \in Gateway \ {m.to} : role'[g] = role[g] /\ epoch'[g] = epoch[g]
  BY <1>1, <1>2, <1>4 DEF Remember
<1>10. \A g \in Gateway : disk[g].epoch \in Nat /\ epoch[g] \in Nat /\ term \in Nat /\ term' \in Nat
  BY <1>3, <1>4 DEF Epoch
<1>11. MemoryIsNewer'
  <2>1. disk[m.to].epoch <= epoch[m.to] /\ epoch[m.to] <= m.epoch
        /\ (disk[m.to].epoch = epoch[m.to] => disk[m.to].role = role[m.to])
        /\ (epoch[m.to] = m.epoch => m.role = role[m.to])
    BY <1>1, <1>2 DEF IInv, MemoryIsNewer, Accepts
  <2>2. /\ disk'[m.to].epoch <= epoch'[m.to]
        /\ disk'[m.to].epoch = epoch'[m.to] => disk'[m.to].role = role'[m.to]
    BY <1>2, <1>5, <1>9, <1>10, <2>1
  <2> QED
    BY <1>5, <1>9, <2>2 DEF IInv, MemoryIsNewer
<1>12. \A g \in Gateway : disk'[g].role = "active" => MayLead(g, disk[g].epoch)'
  BY <1>1, <1>5, DiskLeadStays
<1>13. ActiveMayLead'
  BY <1>3, <1>12 DEF ActiveMayLead
<1>14. DiskWasMaster'
  BY <1>3, <1>5, <1>10 DEF IInv, DiskWasMaster
<1> QED
  BY <1>3, <1>7, <1>8, <1>11, <1>13, <1>14 DEF IInv

LEMMA TellKeeps ==
    ASSUME IInv, NEW m \in telling, Tell(m)
    PROVE  IInv'
<1>1. UNCHANGED <<memory, disk, last, term>> /\ [Next]_vars
  BY DEF Tell, Next
<1>2. telling \subseteq Request
  BY DEF IInv, TypeOK
<1>3. TypeOK'
  BY <1>1, <1>2 DEF IInv, TypeOK, Tell, memory, effects
<1>4. AnsweredStays' /\ TellingIsSaved'
  BY DEF IInv, AnsweredStays, TellingIsSaved, Tell
<1> QED
  BY <1>1, <1>3, <1>4, UntouchedKeeps DEF IInv

LEMMA WorkKeeps ==
    ASSUME IInv, NEW w \in work, Devices(w) \/ Outputs(w)
    PROVE  IInv'
<1>1. UNCHANGED <<memory, disk, last, term, plan, acked, telling, astray>> /\ [Next]_vars
  BY DEF Devices, Outputs, Next
<1>2. /\ work \subseteq [req : Request, at : {"devices", "outputs"}]
      /\ polls \in [Gateway -> BOOLEAN] /\ outputs \in [Gateway -> BOOLEAN]
  BY DEF IInv, TypeOK
<1>3. [w EXCEPT !.at = "outputs"] \in [req : Request, at : {"devices", "outputs"}]
  BY <1>2
<1>4. work' \subseteq work \cup {[w EXCEPT !.at = "outputs"]}
  BY DEF Devices, Outputs
<1>5. polls' \in [Gateway -> BOOLEAN] /\ outputs' \in [Gateway -> BOOLEAN]
  BY <1>2 DEF Devices, Outputs, StandbyOrResume
<1>6. TypeOK'
  BY <1>1, <1>2, <1>3, <1>4, <1>5 DEF IInv, TypeOK, memory
<1>7. AnsweredStays' /\ TellingIsSaved'
  BY <1>1 DEF IInv, AnsweredStays, TellingIsSaved
<1> QED
  BY <1>1, <1>6, <1>7, UntouchedKeeps DEF IInv

(* The gateway whose file says active was the last one active: no other can *)
(* have been made active since without its standing by.                     *)
LEMMA DiskActiveIsLast ==
    ASSUME IInv, NEW g \in Gateway, disk[g].role = "active"
    PROVE  g = last /\ disk[g].epoch <= term
<1>1. /\ last \in Gateway /\ term \in Epoch /\ disk[g].epoch \in Epoch
  BY DEF IInv, TypeOK
<1>2. disk[g].epoch <= term
  BY DEF IInv, DiskWasMaster
<1>3. ASSUME g # last PROVE FALSE
  <2>1. MayLead(last, term)
    BY DEF IInv, LastMayLead
  <2>2. disk[g].epoch >= term /\ (disk[g].epoch = term => disk[g].role = "standby")
    BY <1>1, <1>3, <2>1, AloneWithEpoch
  <2> QED
    BY <1>1, <1>2, <2>2 DEF Epoch
<1> QED
  BY <1>2, <1>3

LEMMA RestartKeeps ==
    ASSUME IInv, NEW g \in Gateway, Restart(g)
    PROVE  IInv'
<1>1. [Next]_vars
  BY DEF Next
<1>2. UNCHANGED <<plan, acked, disk>>
  BY DEF Restart
<1>3. /\ disk \in [Gateway -> [role : Role, epoch : Epoch]] /\ role \in [Gateway -> Role]
      /\ epoch \in [Gateway -> Epoch] /\ last \in Gateway /\ term \in Epoch
      /\ telling \subseteq Request /\ astray \in [Gateway -> BOOLEAN]
      /\ work \subseteq [req : Request, at : {"devices", "outputs"}]
      /\ polls \in [Gateway -> BOOLEAN] /\ outputs \in [Gateway -> BOOLEAN]
      /\ plan \in [Epoch -> Gateway \cup {Nobody}] /\ acked \subseteq Request
  BY DEF IInv, TypeOK
<1>4. /\ disk[g].role \in Role /\ disk[g].epoch \in Epoch
  BY <1>3
<1>5. /\ role' \in [Gateway -> Role] /\ epoch' \in [Gateway -> Epoch]
      /\ role'[g] = disk[g].role /\ epoch'[g] = disk[g].epoch
      /\ \A h \in Gateway \ {g} : role'[h] = role[h] /\ epoch'[h] = epoch[h]
  BY <1>3, <1>4 DEF Restart, Load
<1>6. last' = last /\ term' = term
  <2>1. CASE disk[g].role = "active"
    <3>1. g = last /\ disk[g].epoch <= term
      BY <2>1, DiskActiveIsLast
    <3>2. last' = g /\ term' = IF disk[g].epoch > term THEN disk[g].epoch ELSE term
      BY <2>1 DEF Restart, Load, NoteIfActive, NoteActive
    <3>3. disk[g].epoch \in Nat /\ term \in Nat
      BY <1>3, <1>4 DEF Epoch
    <3> QED
      BY <3>1, <3>2, <3>3
  <2>2. CASE disk[g].role # "active"
    BY <2>2 DEF Restart, Load, NoteIfActive
  <2> QED
    BY <2>1, <2>2
<1>7. /\ telling' \subseteq telling /\ work' \subseteq work
      /\ polls' \in [Gateway -> BOOLEAN] /\ outputs' \in [Gateway -> BOOLEAN]
      /\ astray' \in [Gateway -> BOOLEAN]
  BY <1>3 DEF Restart
<1>8. TypeOK'
  BY <1>2, <1>3, <1>5, <1>6, <1>7 DEF TypeOK
<1>9. AnsweredStays' /\ TellingIsSaved'
  BY <1>2, <1>7 DEF IInv, AnsweredStays, TellingIsSaved
<1>10. MemoryIsNewer'
  <2>1. disk'[g].epoch <= epoch'[g] /\ disk'[g].role = role'[g]
    BY <1>2, <1>4, <1>5 DEF Epoch
  <2> QED
    BY <1>2, <1>5, <2>1 DEF IInv, MemoryIsNewer
<1>11. DiskWasMaster'
  BY <1>2, <1>6 DEF IInv, DiskWasMaster
<1>12. LastMayLead'
  BY <1>2, <1>6 DEF IInv, LastMayLead, MayLead, OthersStandBy
<1>13. \A h \in Gateway : disk'[h].role = "active" => MayLead(h, disk[h].epoch)'
  BY <1>1, <1>2, DiskLeadStays
<1>14. ASSUME NEW h \in Gateway, role'[h] = "active"
       PROVE  MayLead(h, epoch[h])' /\ last' = h /\ epoch'[h] <= term'
  <2>1. CASE h = g
    <3>1. disk[g].role = "active" /\ epoch'[h] = disk[g].epoch
      BY <1>5, <1>14, <2>1
    <3>2. MayLead(g, disk[g].epoch)
      BY <3>1 DEF IInv, ActiveMayLead
    <3>3. MayLead(h, epoch[h])'
      BY <1>2, <2>1, <3>1, <3>2 DEF MayLead, OthersStandBy
    <3> QED
      BY <1>6, <2>1, <3>1, <3>3, DiskActiveIsLast
  <2>2. CASE h # g
    <3>1. role[h] = "active" /\ epoch'[h] = epoch[h]
      BY <1>5, <1>14, <2>2
    <3> QED
      BY <1>2, <1>6, <3>1 DEF IInv, ActiveMayLead, MayLead, OthersStandBy
  <2> QED
    BY <2>1, <2>2
<1>15. ActiveMayLead'
  BY <1>13, <1>14 DEF ActiveMayLead
<1> QED
  BY <1>8, <1>9, <1>10, <1>11, <1>12, <1>15 DEF IInv

LEMMA InvNext == ASSUME IInv, [Next]_vars PROVE IInv'
<1>1. CASE \E g \in Gateway, e \in Epoch : Assign(g, e)
  BY <1>1, AssignKeeps
<1>2. CASE \E m \in Request : SetRole(m)
  BY <1>2, SetRoleKeeps
<1>3. CASE \E m \in Request : SetUnsaved(m)
  BY <1>3, SetUnsavedKeeps
<1>4. CASE \E m \in telling : Tell(m)
  BY <1>4, TellKeeps
<1>5. CASE \E w \in work : Devices(w) \/ Outputs(w)
  BY <1>5, WorkKeeps
<1>6. CASE \E g \in Gateway : Restart(g)
  BY <1>6, RestartKeeps
<1>7. CASE UNCHANGED vars
  <2>1. UNCHANGED <<memory, disk, last, term, plan, acked, telling, work, effects, astray>>
    BY <1>7 DEF vars
  <2>2. TypeOK'
    BY <2>1 DEF IInv, TypeOK, memory, effects
  <2>3. AnsweredStays' /\ TellingIsSaved'
    BY <2>1 DEF IInv, AnsweredStays, TellingIsSaved
  <2> QED
    BY <2>1, <2>2, <2>3, UntouchedKeeps DEF IInv
<1> QED
  BY <1>1, <1>2, <1>3, <1>4, <1>5, <1>6, <1>7 DEF Next

(* The inductive invariant holds, the types in it. *)
THEOREM RoleInvariant == Spec => []IInv
<1>1. Init => IInv
  BY InitInv
<1>2. IInv /\ [Next]_vars => IInv'
  BY InvNext
<1> QED
  BY <1>1, <1>2, PTL DEF Spec

(* No two gateways are ever active: each active one is the last one made so. *)
THEOREM RoleExclusive == Spec => []NotBothActive
<1>1. IInv => NotBothActive
  BY DEF IInv, ActiveMayLead, NotBothActive
<1> QED
  BY <1>1, RoleInvariant, PTL

(* What a gateway answered it still has on disk, or has something newer. *)
THEOREM RoleRemembers == Spec => []AnsweredStays
<1>1. IInv => AnsweredStays
  BY DEF IInv
<1> QED
  BY <1>1, RoleInvariant, PTL

-----------------------------------------------------------------------------
(* The work of a change. *)

(* A gateway whose role, effects and work stay as they are stays settled. *)
LEMMA FitsElsewhere ==
    ASSUME WorkFits, Settled, NEW g \in Gateway,
           role'[g] = role[g], polls'[g] = polls[g], outputs'[g] = outputs[g],
           astray'[g] = astray[g],
           \A m : m.to = g => (m \in telling' <=> m \in telling),
           \A w : w.req.to = g => (w \in work' <=> w \in work)
    PROVE  ~astray'[g] =>
             /\ \A m \in telling' : m.to = g => m.role = role'[g]
             /\ \A w \in work' : w.req.to = g =>
                   /\ w.req.role = role'[g]
                   /\ w.at = "outputs" => polls'[g] = (role'[g] = "active")
             /\ (\A m \in telling' : m.to # g) /\ (\A w \in work' : w.req.to # g)
                  => polls'[g] = (role'[g] = "active") /\ outputs'[g] = (role'[g] = "active")
BY DEF WorkFits, Settled, Quiet

(* What WorkFits and Settled say of one gateway after a step. *)
LEMMA FitsOf ==
    ASSUME \A g \in Gateway : ~astray'[g] =>
             /\ \A m \in telling' : m.to = g => m.role = role'[g]
             /\ \A w \in work' : w.req.to = g =>
                   /\ w.req.role = role'[g]
                   /\ w.at = "outputs" => polls'[g] = (role'[g] = "active")
             /\ (\A m \in telling' : m.to # g) /\ (\A w \in work' : w.req.to # g)
                  => polls'[g] = (role'[g] = "active") /\ outputs'[g] = (role'[g] = "active")
    PROVE  WorkFits' /\ Settled'
BY DEF WorkFits, Settled, Quiet

(* Every step keeps the work fitting: a change that comes while another is    *)
(* worked off is astray, and so is one that was not saved.                     *)
LEMMA FitsNext ==
    ASSUME TypeOK, WorkFits, Settled, [Next]_vars
    PROVE  WorkFits' /\ Settled'
<1>0. /\ role \in [Gateway -> Role] /\ polls \in [Gateway -> BOOLEAN]
      /\ outputs \in [Gateway -> BOOLEAN] /\ astray \in [Gateway -> BOOLEAN]
      /\ \A w \in work : w.req \in Request /\ w.at \in {"devices", "outputs"}
  BY DEF TypeOK
<1>1. ASSUME NEW m \in Request, SetRole(m)
      PROVE  WorkFits' /\ Settled'
  <2>1. /\ UNCHANGED <<work, polls, outputs>>
        /\ role' = [role EXCEPT ![m.to] = m.role]
        /\ telling' = IF Changes(m) THEN telling \cup {m} ELSE telling
        /\ astray' = IF Changes(m) THEN [astray EXCEPT ![m.to] = ~Quiet(m.to)] ELSE astray
    BY <1>1 DEF SetRole, Remember, effects
  <2>2. ASSUME NEW g \in Gateway, g # m.to
        PROVE  /\ role'[g] = role[g] /\ astray'[g] = astray[g]
               /\ \A n : n.to = g => (n \in telling' <=> n \in telling)
    BY <1>0, <2>1, <2>2
  <2>3. ASSUME Changes(m), ~astray'[m.to]
        PROVE  /\ role'[m.to] = m.role
               /\ \A n \in telling' : n.to = m.to => n = m
               /\ m \in telling'
               /\ \A w \in work' : w.req.to # m.to
    <3>1. m.to \in Gateway
      BY RequestFields
    <3>2. Quiet(m.to)
      BY <1>0, <2>1, <2>3, <3>1
    <3> QED
      BY <1>0, <2>1, <2>3, <3>1, <3>2 DEF Quiet
  <2>4. ~Changes(m) => role' = role /\ telling' = telling /\ astray' = astray
    BY <1>0, <2>1 DEF Changes
  <2> QED
    BY <2>1, <2>2, <2>3, <2>4, FitsElsewhere, FitsOf
<1>2. ASSUME NEW m \in Request, SetUnsaved(m)
      PROVE  WorkFits' /\ Settled'
  <2>1. /\ UNCHANGED <<telling, work, polls, outputs>>
        /\ role' = [role EXCEPT ![m.to] = m.role]
        /\ astray' = [astray EXCEPT ![m.to] = @ \/ Changes(m)]
    BY <1>2 DEF SetUnsaved, Remember, effects
  <2>2. ASSUME NEW g \in Gateway, ~astray'[g]
        PROVE  role'[g] = role[g] /\ astray'[g] = astray[g]
    BY <1>0, <2>1, <2>2 DEF Changes
  <2> QED
    BY <2>1, <2>2, FitsElsewhere, FitsOf
<1>3. ASSUME NEW m \in telling, Tell(m)
      PROVE  WorkFits' /\ Settled'
  <2>1. /\ UNCHANGED <<role, polls, outputs, astray>>
        /\ telling' = telling \ {m} /\ work' = work \cup {[req |-> m, at |-> "devices"]}
    BY <1>3 DEF Tell, memory, effects
  <2>2. ASSUME NEW g \in Gateway, g # m.to
        PROVE  /\ \A n : n.to = g => (n \in telling' <=> n \in telling)
               /\ \A w : w.req.to = g => (w \in work' <=> w \in work)
    BY <2>1, <2>2
  <2>3. ASSUME NEW g \in Gateway, g = m.to, ~astray'[g]
        PROVE  /\ \A n \in telling' : n.to = g => n.role = role'[g]
               /\ \A w \in work' : w.req.to = g =>
                     /\ w.req.role = role'[g]
                     /\ w.at = "outputs" => polls'[g] = (role'[g] = "active")
               /\ \E w \in work' : w.req.to = g
    <3> DEFINE new == [req |-> m, at |-> "devices"]
    <3>1. new.req = m /\ new.at # "outputs" /\ work' = work \cup {new}
      BY <2>1
    <3> HIDE DEF new
    <3>2. m.role = role[g] /\ ~astray[g]
      BY <2>1, <2>3 DEF WorkFits
    <3>3. \A w \in work : w.req.to = g =>
              w.req.role = role[g] /\ (w.at = "outputs" => polls[g] = (role[g] = "active"))
      BY <2>1, <2>3 DEF WorkFits
    <3>4. \A n \in telling' : n.to = g => n.role = role'[g]
      BY <2>1, <3>2 DEF WorkFits
    <3>5. \A w \in work' : w.req.to = g =>
              /\ w.req.role = role'[g]
              /\ w.at = "outputs" => polls'[g] = (role'[g] = "active")
      BY <2>1, <3>1, <3>2, <3>3
    <3> QED
      BY <2>3, <3>1, <3>4, <3>5
  <2> QED
    BY <2>1, <2>2, <2>3, FitsElsewhere, FitsOf
<1>4. ASSUME NEW w \in work, Devices(w)
      PROVE  WorkFits' /\ Settled'
  <2>0. w.req \in Request /\ w.req.to \in Gateway
    BY <1>0, RequestFields
  <2> DEFINE next == [w EXCEPT !.at = "outputs"]
  <2>1. /\ UNCHANGED <<role, outputs, astray, telling>>
        /\ polls' = [polls EXCEPT ![w.req.to] = w.req.role = "active"]
        /\ work' = (work \ {w}) \cup {next}
    BY <1>4 DEF Devices, StandbyOrResume, memory
  <2>2. next.req = w.req /\ next.at = "outputs"
    BY DEF TypeOK
  <2> HIDE DEF next
  <2>3. ASSUME NEW g \in Gateway, g # w.req.to
        PROVE  /\ polls'[g] = polls[g]
               /\ \A v : v.req.to = g => (v \in work' <=> v \in work)
    BY <1>0, <2>1, <2>2, <2>3
  <2>4. ASSUME NEW g \in Gateway, g = w.req.to, ~astray'[g]
        PROVE  /\ \A n \in telling' : n.to = g => n.role = role'[g]
               /\ \A v \in work' : v.req.to = g =>
                     /\ v.req.role = role'[g]
                     /\ v.at = "outputs" => polls'[g] = (role'[g] = "active")
               /\ \E v \in work' : v.req.to = g
    BY <1>0, <2>0, <2>1, <2>2, <2>4 DEF WorkFits
  <2> QED
    BY <2>1, <2>3, <2>4, FitsElsewhere, FitsOf
<1>5. ASSUME NEW w \in work, Outputs(w)
      PROVE  WorkFits' /\ Settled'
  <2>0. w.req \in Request /\ w.req.to \in Gateway
    BY <1>0, RequestFields
  <2>1. /\ UNCHANGED <<role, polls, astray, telling>> /\ w.at = "outputs"
        /\ outputs' = [outputs EXCEPT ![w.req.to] =
                          w.req.role = "active" /\ (@ \/ role[w.req.to] = "active")]
        /\ work' = work \ {w}
    BY <1>5 DEF Outputs, memory
  <2>2. ASSUME NEW g \in Gateway, g # w.req.to
        PROVE  /\ outputs'[g] = outputs[g]
               /\ \A v : v.req.to = g => (v \in work' <=> v \in work)
    BY <1>0, <2>1, <2>2
  <2>3. ASSUME NEW g \in Gateway, g = w.req.to, ~astray'[g]
        PROVE  /\ \A n \in telling' : n.to = g => n.role = role'[g]
               /\ \A v \in work' : v.req.to = g =>
                     /\ v.req.role = role'[g]
                     /\ v.at = "outputs" => polls'[g] = (role'[g] = "active")
               /\ polls'[g] = (role'[g] = "active") /\ outputs'[g] = (role'[g] = "active")
    BY <1>0, <2>0, <2>1, <2>3 DEF WorkFits
  <2> QED
    BY <2>1, <2>2, <2>3, FitsElsewhere, FitsOf
<1>6. ASSUME NEW g \in Gateway, Restart(g)
      PROVE  WorkFits' /\ Settled'
  <2>1. /\ role' = [role EXCEPT ![g] = Load(g).role]
        /\ telling' = {m \in telling : m.to # g} /\ work' = {w \in work : w.req.to # g}
        /\ polls' = [polls EXCEPT ![g] = Load(g).role = "active"]
        /\ outputs' = [outputs EXCEPT ![g] = Load(g).role = "active"]
        /\ astray' = [astray EXCEPT ![g] = FALSE]
    BY <1>6 DEF Restart
  <2>2. ASSUME NEW h \in Gateway, h # g
        PROVE  /\ role'[h] = role[h] /\ polls'[h] = polls[h] /\ outputs'[h] = outputs[h]
               /\ astray'[h] = astray[h]
               /\ \A m : m.to = h => (m \in telling' <=> m \in telling)
               /\ \A w : w.req.to = h => (w \in work' <=> w \in work)
    BY <1>0, <2>1, <2>2
  <2>3. polls'[g] = (role'[g] = "active") /\ outputs'[g] = (role'[g] = "active")
    BY <1>0, <2>1
  <2>4. (\A m \in telling' : m.to # g) /\ (\A w \in work' : w.req.to # g)
    BY <2>1
  <2> QED
    BY <2>2, <2>3, <2>4, FitsElsewhere, FitsOf
<1>7. CASE (\E g \in Gateway, e \in Epoch : Assign(g, e)) \/ UNCHANGED vars
  <2>1. UNCHANGED <<role, telling, work, polls, outputs, astray>>
    BY <1>7 DEF Assign, vars, memory, effects
  <2> QED
    BY <2>1, FitsElsewhere, FitsOf
<1> QED
  BY <1>1, <1>2, <1>3, <1>4, <1>5, <1>6, <1>7 DEF Next

(* A gateway that has worked its changes off polls and serves just when it    *)
(* is active, whatever failed, overlapped or restarted before, if its last    *)
(* change was saved and did not come while an earlier one was worked off      *)
(* (_on_role_change's threads).                                               *)
THEOREM RoleSettles == Spec => []Settled
<1>1. Init => WorkFits /\ Settled
  BY DEF Init, WorkFits, Settled
<1>2. TypeOK /\ (WorkFits /\ Settled) /\ [Next]_vars => (WorkFits /\ Settled)'
  BY FitsNext
<1>3. IInv => TypeOK
  BY DEF IInv
<1> QED
  BY <1>1, <1>2, <1>3, RoleInvariant, PTL DEF Spec

-----------------------------------------------------------------------------
(* The refinement. *)
LEMMA HolderIsActive ==
    ASSUME NEW r, NEW g \in Gateway, r[g] = "active",
           \A h \in Gateway : r[h] = "active" => h = g
    PROVE  HolderOf(r) = g
BY DEF HolderOf

LEMMA NoHolder ==
    ASSUME NEW r, \A g \in Gateway : r[g] # "active"
    PROVE  HolderOf(r) = Nobody
BY DEF HolderOf

(* A gateway that is made active, or told so again, is a step of Mastership. *)
LEMMA MadeActiveRefines ==
    ASSUME IInv, NEW m \in Request, Sent(m), Accepts(m), m.role = "active",
           Remember(m), NoteIfActive(m.to, m.role, m.epoch)
    PROVE  [OneMaster!Next]_<<HolderOf(role), last, term>>
<1>1. /\ m.to \in Gateway /\ m.epoch \in Epoch /\ role \in [Gateway -> Role]
      /\ last \in Gateway /\ term \in Nat /\ m.epoch \in Nat /\ epoch \in [Gateway -> Epoch]
  BY RequestFields DEF IInv, TypeOK, Epoch
<1>2. /\ m.to # last => m.epoch > term
      /\ \A h \in Gateway : h # m.to => role[h] = "standby"
  BY TakesNewer
<1>3. role'[m.to] = "active" /\ \A h \in Gateway : role'[h] = "active" => h = m.to
  BY <1>1, <1>2 DEF Remember
<1>4. HolderOf(role') = m.to
  BY <1>1, <1>3, HolderIsActive
<1>5. last' = m.to /\ term' = IF m.epoch > term THEN m.epoch ELSE term
  BY DEF NoteIfActive, NoteActive
<1>6. HolderOf(role)' = m.to
  BY <1>4
<1>7. CASE role[m.to] = "active"
  <2>1. HolderOf(role) = m.to
    BY <1>1, <1>2, <1>7, HolderIsActive
  <2>2. last = m.to
    BY <1>1, <1>7 DEF IInv, ActiveMayLead
  <2> QED
    BY <1>1, <1>5, <1>6, <2>1, <2>2 DEF OneMaster!Next, OneMaster!Confirm
<1>8. CASE role[m.to] # "active"
  <2>1. HolderOf(role) = Nobody
    BY <1>2, <1>8, NoHolder
  <2>2. term' > term \/ (term' = term /\ m.to = last)
    BY <1>1, <1>2, <1>5
  <2>3. OneMaster!Take(m.to)
    BY <1>5, <1>6, <2>1, <2>2 DEF OneMaster!Take
  <2> QED
    BY <1>1, <2>3 DEF OneMaster!Next
<1> QED
  BY <1>7, <1>8

(* A gateway that stands by, and a change that leaves no new gateway active. *)
LEMMA NoNewActiveRefines ==
    ASSUME IInv, IInv', UNCHANGED <<last, term>>,
           \A g \in Gateway : role'[g] = "active" => role[g] = "active" \/ g = last
    PROVE  [OneMaster!Next]_<<HolderOf(role), last, term>>
<1>1. role \in [Gateway -> Role] /\ role' \in [Gateway -> Role] /\ last \in Gateway
  BY DEF IInv, TypeOK
<1>2. \A g \in Gateway : role[g] = "active" => g = last
  BY DEF IInv, ActiveMayLead
<1>3. \A g \in Gateway : role'[g] = "active" => g = last
  BY DEF IInv, ActiveMayLead
<1>4. HolderOf(role) = IF role[last] = "active" THEN last ELSE Nobody
  BY <1>1, <1>2, HolderIsActive, NoHolder
<1>5. HolderOf(role') = IF role'[last] = "active" THEN last ELSE Nobody
  <2>1. CASE role'[last] = "active"
    BY <1>1, <1>3, <2>1, HolderIsActive
  <2>2. CASE role'[last] # "active"
    <3>1. \A g \in Gateway : role'[g] # "active"
      BY <1>3, <2>2
    <3> QED
      BY <2>2, <3>1, NoHolder
  <2> QED
    BY <2>1, <2>2
<1>6. HolderOf(role)' \in {last, Nobody} /\ HolderOf(role) \in {last, Nobody}
  BY <1>4, <1>5
<1>7. CASE HolderOf(role)' = HolderOf(role)
  BY <1>7
<1>8. CASE HolderOf(role) = last /\ HolderOf(role)' = Nobody
  BY <1>8 DEF OneMaster!Next, OneMaster!Lose
<1>9. CASE HolderOf(role) = Nobody /\ HolderOf(role)' = last
  <2>1. OneMaster!Take(last)
    BY <1>9 DEF OneMaster!Take
  <2> QED
    BY <1>1, <2>1 DEF OneMaster!Next
<1> QED
  BY <1>6, <1>7, <1>8, <1>9

LEMMA StepRefines ==
    ASSUME IInv, IInv', [Next]_vars
    PROVE  [OneMaster!Next]_<<HolderOf(role), last, term>>
<1>1. CASE \E m \in Request : SetRole(m) \/ SetUnsaved(m)
  <2>1. PICK m \in Request : SetRole(m) \/ SetUnsaved(m)
    BY <1>1
  <2>2. Sent(m) /\ Accepts(m) /\ Remember(m) /\ NoteIfActive(m.to, m.role, m.epoch)
    BY <2>1 DEF SetRole, SetUnsaved
  <2>3. CASE m.role = "active"
    BY <2>2, <2>3, MadeActiveRefines
  <2>4. CASE m.role # "active"
    <3>1. UNCHANGED <<last, term>>
      BY <2>2, <2>4 DEF NoteIfActive
    <3>2. role \in [Gateway -> Role] /\ m.to \in Gateway
      BY RequestFields DEF IInv, TypeOK
    <3>3. \A g \in Gateway : role'[g] = "active" => role[g] = "active"
      BY <2>2, <2>4, <3>2 DEF Remember
    <3> QED
      BY <3>1, <3>3, NoNewActiveRefines
  <2> QED
    BY <2>3, <2>4
<1>2. CASE \E g \in Gateway : Restart(g)
  <2>1. PICK g \in Gateway : Restart(g)
    BY <1>2
  <2>2. role \in [Gateway -> Role] /\ disk[g].role \in Role /\ term \in Nat /\ disk[g].epoch \in Nat
    BY DEF IInv, TypeOK, Epoch
  <2>3. disk[g].role = "active" => g = last /\ disk[g].epoch <= term
    BY DiskActiveIsLast
  <2>4. UNCHANGED <<last, term>>
    BY <2>1, <2>2, <2>3 DEF Restart, Load, NoteIfActive, NoteActive
  <2>5. \A h \in Gateway : role'[h] = "active" => role[h] = "active" \/ h = last
    BY <2>1, <2>2, <2>3 DEF Restart, Load
  <2> QED
    BY <2>4, <2>5, NoNewActiveRefines
<1>3. CASE UNCHANGED <<role, last, term>>
  <2>1. HolderOf(role)' = HolderOf(role)
    BY <1>3
  <2> QED
    BY <1>3, <2>1
<1>4. (\E g \in Gateway, e \in Epoch : Assign(g, e)) => UNCHANGED <<role, last, term>>
  BY DEF Assign, memory
<1>5. (\E m \in telling : Tell(m)) => UNCHANGED <<role, last, term>>
  BY DEF Tell, memory
<1>6. (\E w \in work : Devices(w) \/ Outputs(w)) => UNCHANGED <<role, last, term>>
  BY DEF Devices, Outputs, memory
<1>7. UNCHANGED vars => UNCHANGED <<role, last, term>>
  BY DEF vars, memory
<1> QED
  BY <1>1, <1>2, <1>3, <1>4, <1>5, <1>6, <1>7 DEF Next

LEMMA InitRefines == ASSUME Init PROVE OneMaster!Init
<1>1. First \in Gateway
  BY RoleAssumption
<1>2. role[First] = "active" /\ \A g \in Gateway : role[g] = "active" => g = First
  BY <1>1 DEF Init
<1>3. HolderOf(role) = First
  BY <1>1, <1>2, HolderIsActive
<1> QED
  BY <1>1, <1>3 DEF Init, OneMaster!Init

(* The gateways share the wire one at a time, and one that fell behind never *)
(* takes it back: the pair of them implements Mastership.                    *)
THEOREM RoleRefines == Spec => MastershipHolds
<1>1. Init => OneMaster!Init
  BY InitRefines
<1>2. IInv /\ IInv' /\ [Next]_vars => [OneMaster!Next]_<<HolderOf(role), last, term>>
  BY StepRefines
<1> QED
  BY <1>1, <1>2, RoleInvariant, PTL DEF Spec, MastershipHolds, OneMaster!Spec
=============================================================================
