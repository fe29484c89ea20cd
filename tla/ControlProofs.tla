---------------------------- MODULE ControlProofs ----------------------------
(***************************************************************************)
(* The two small state machines of the control loop.  The rate limiter:    *)
(* its guarantees for every key set and every window.  The namespace       *)
(* rotation, for any number of peers, administrators, tickets and faults:  *)
(* types, the generation counter, and that no excluded device learns a     *)
(* capability.                                                             *)
(***************************************************************************)
EXTENDS Cooldown, Namespace, TLAPS

(***************************************************************************)
(* The rate limiter                                                        *)
(***************************************************************************)

(* Every claim and every tick keeps the table well typed. *)
THEOREM LimiterTypes == CooldownSpec => []CooldownTypeOK
<1>1. CooldownInit => CooldownTypeOK
  BY DEF CooldownInit, CooldownTypeOK, Absent, None
<1>2. CooldownTypeOK /\ [CooldownNext]_cooldownVars => CooldownTypeOK'
  <2> SUFFICES ASSUME CooldownTypeOK, [CooldownNext]_cooldownVars PROVE CooldownTypeOK'
    OBVIOUS
  <2> USE DEF CooldownTypeOK
  <2>1. CASE Tick
    BY <2>1 DEF Tick
  <2>2. ASSUME NEW key \in Key, Claim(key) PROVE CooldownTypeOK'
    BY <2>2 DEF Claim, Retained, Absent
  <2>3. CASE UNCHANGED cooldownVars
    BY <2>3 DEF cooldownVars
  <2>4. QED
    BY <2>1, <2>2, <2>3 DEF CooldownNext
<1>3. QED
  BY <1>1, <1>2, PTL DEF CooldownSpec

(* The strengthening is inductive: a claim that is refused or that prunes  *)
(* never loses an admission still inside its window.                       *)
LEMMA SeenIsLastInductive == CooldownSpec => []SeenIsLast
<1>1. CooldownInit => SeenIsLast
  <2> SUFFICES ASSUME CooldownInit, NEW k \in Key
               PROVE  /\ last[k] <= clock
                      /\ seen[k] # Absent => seen[k] = last[k]
                      /\ last[k] # Absent /\ clock - last[k] < Window
                            => seen[k] = last[k]
    BY DEF SeenIsLast
  <2>1. last[k] = -1 /\ seen[k] = -1 /\ clock = 0
    BY DEF CooldownInit, Absent
  <2>2. QED
    BY <2>1 DEF Absent
<1>2. CooldownTypeOK /\ SeenIsLast /\ [CooldownNext]_cooldownVars => SeenIsLast'
  <2> SUFFICES ASSUME CooldownTypeOK, SeenIsLast, [CooldownNext]_cooldownVars PROVE SeenIsLast'
    OBVIOUS
  <2> USE DEF CooldownTypeOK, SeenIsLast
  <2>1. CASE Tick
    BY <2>1, WindowAssumption DEF Tick, Absent
  <2>2. ASSUME NEW key \in Key, Claim(key) PROVE SeenIsLast'
    <3> SUFFICES ASSUME NEW k \in Key
                 PROVE  /\ last'[k] <= clock'
                        /\ seen'[k] # Absent => seen'[k] = last'[k]
                        /\ last'[k] # Absent /\ clock' - last'[k] < Window
                              => seen'[k] = last'[k]
      OBVIOUS
    <3> QED
      BY <2>2, WindowAssumption DEF Claim, Retained, Fresh, Since, Absent
  <2>3. CASE UNCHANGED cooldownVars
    BY <2>3 DEF cooldownVars
  <2>4. QED
    BY <2>1, <2>2, <2>3 DEF CooldownNext
<1>3. QED
  BY <1>1, <1>2, LimiterTypes, PTL DEF CooldownSpec

(* claim admits one key at most once per window, whatever other keys do.   *)
THEOREM Spacing == CooldownSpec => AdmissionSpacing
<1>1. CooldownTypeOK /\ SeenIsLast /\ [CooldownNext]_cooldownVars
        => [\A k \in Key : last[k] # Absent /\ last'[k] # last[k]
               => last'[k] - last[k] >= Window]_cooldownVars
  <2> SUFFICES ASSUME CooldownTypeOK, SeenIsLast, CooldownNext, NEW k \in Key,
                      last[k] # Absent, last'[k] # last[k]
               PROVE  last'[k] - last[k] >= Window
    OBVIOUS
  <2>1. PICK key \in Key : Claim(key)
    BY DEF CooldownNext, Tick
  <2>2. QED
    BY <2>1, WindowAssumption
    DEF CooldownTypeOK, SeenIsLast, Claim, Retained, Fresh, Since, Absent
<1>2. QED
  BY <1>1, LimiterTypes, SeenIsLastInductive, PTL DEF CooldownSpec, AdmissionSpacing

(* claim refuses only inside the window of the key's own last admission.   *)
THEOREM NoStarvation == CooldownSpec => RefusalJustified
<1>1. CooldownTypeOK /\ SeenIsLast /\ [CooldownNext]_cooldownVars
        => [\A k \in Key : Claim(k) /\ ~verdict'.ok
               => last[k] # Absent /\ clock - last[k] < Window]_cooldownVars
  <2> SUFFICES ASSUME CooldownTypeOK, SeenIsLast, NEW k \in Key, Claim(k), ~verdict'.ok
               PROVE  last[k] # Absent /\ clock - last[k] < Window
    OBVIOUS
  <2>1. Fresh(Retained(seen, clock)[k], clock)
    BY Zenon DEF Claim
  <2>2. QED
    BY <2>1, WindowAssumption
    DEF CooldownTypeOK, SeenIsLast, Retained, Fresh, Since, Absent
<1>2. QED
  BY <1>1, LimiterTypes, SeenIsLastInductive, PTL DEF CooldownSpec, RefusalJustified

(* The table after a claim holds only keys admitted in the current window. *)
THEOREM BoundedTable == CooldownSpec => TableProportional
<1>1. CooldownTypeOK /\ SeenIsLast /\ [CooldownNext]_cooldownVars
        => [\A k \in Key : Claim(k)
               => \A j \in Tracked(seen') : j = k \/ clock - last[j] < Window]_cooldownVars
  <2> SUFFICES ASSUME CooldownTypeOK, SeenIsLast, NEW k \in Key, Claim(k),
                      NEW j \in Tracked(seen'), j # k
               PROVE  clock - last[j] < Window
    OBVIOUS
  <2>1. QED
    BY WindowAssumption
    DEF CooldownTypeOK, SeenIsLast, Claim, Retained, Fresh, Since, Tracked, Absent
<1>2. QED
  BY <1>1, LimiterTypes, SeenIsLastInductive, PTL DEF CooldownSpec, TableProportional

(***************************************************************************)
(* The namespace rotation                                                  *)
(***************************************************************************)

(* The initial states have the types of the state. *)
LEMMA InitType == Init => TypeOK
  BY NamespaceAssumption DEF Init, TypeOK, Initial, Idle, Generation, Stage, Record

LEMMA IdleType == Idle \in Stage
  BY DEF Idle, Stage

(* A task that moves to a stage keeps the type of the task table. *)
LEMMA GotoType ==
    ASSUME TypeOK, NEW p \in Peer, NEW w \in Task, NEW stage \in Stage, Goto(p, w, stage)
    PROVE  task' \in [Peer -> [Task -> Stage]]
  BY DEF TypeOK, Goto

(* The record that persist writes is of the record's type. *)
LEMMA PersistedType ==
    ASSUME TypeOK, NEW p \in Peer, Persisted(p),
           view' \in [Peer -> SUBSET Peer], ns' \in [Peer -> Generation],
           open' \in [Peer -> Ticket \cup {0}]
    PROVE  disk' \in [Peer -> Record]
  BY DEF TypeOK, Persisted, Record

(* Everything republish_namespace announces is an announcement. *)
LEMMA AnnounceType ==
    ASSUME TypeOK, NEW p \in Peer
    PROVE  Announce(p) \subseteq Announcement
  BY NamespaceAssumption DEF TypeOK, Announce, Announcement, Generation

(* Every step keeps the types of the state. *)
LEMMA NextType == TypeOK /\ [Next]_vars => TypeOK'
<1> SUFFICES ASSUME TypeOK, [Next]_vars PROVE TypeOK'
  OBVIOUS
<1>1. ASSUME NEW p \in Peer, NEW x \in Peer, RemoveMember(p, x) PROVE TypeOK'
  <2>1. [at |-> "mint", epoch |-> ns[p].epoch + 1, ticket |-> 0] \in Stage
    BY DEF TypeOK, Stage, Generation
  <2>2. task' \in [Peer -> [Task -> Stage]]
    BY <1>1, <2>1, GotoType DEF RemoveMember, Task
  <2>3. ns' \in [Peer -> Generation]
    <3>1. ns[p] \in Generation
      BY DEF TypeOK
    <3>2. [ns[p] EXCEPT !.epoch = @ + 1] \in Generation
      BY <3>1 DEF Generation
    <3>3. ns' = [ns EXCEPT ![p] = [ns[p] EXCEPT !.epoch = @ + 1]]
      BY <1>1 DEF RemoveMember
    <3> QED BY <3>2, <3>3 DEF TypeOK
  <2>4. removals' \subseteq Removal
    BY <1>1 DEF RemoveMember, TypeOK, Issue, Removal
  <2> QED BY <1>1, <2>2, <2>3, <2>4 DEF RemoveMember, TypeOK, history
<1>2. ASSUME NEW p \in Peer, Leave(p) PROVE TypeOK'
  <2>1. view' \in [Peer -> SUBSET Peer] /\ removals' \subseteq Removal
    BY <1>2 DEF Leave, TypeOK, Issue, Removal
  <2>2. disk' \in [Peer -> Record]
    BY <1>2, <2>1, PersistedType DEF Leave, TypeOK
  <2> QED BY <1>2, <2>1, <2>2 DEF Leave, TypeOK, history
<1>3. ASSUME NEW p \in Peer, NamespaceMinted(p) PROVE TypeOK'
  <2> DEFINE epoch == task[p]["drive"].epoch
  <2>1. epoch \in Nat
    BY DEF TypeOK, Stage, Task
  <2>2. CASE epoch # ns[p].epoch
    <3>1. task' \in [Peer -> [Task -> Stage]]
      BY <1>3, <2>2, GotoType, IdleType DEF NamespaceMinted, Task
    <3>2. disk' \in [Peer -> Record]
      BY <1>3, <2>2, PersistedType DEF NamespaceMinted, TypeOK, core
    <3> QED BY <1>3, <2>2, <3>1, <3>2 DEF NamespaceMinted, TypeOK, core, history
  <2>3. CASE epoch = ns[p].epoch
    <3>1. PICK t \in Ticket : Rotate(p, epoch, t)
      BY <1>3, <2>3 DEF NamespaceMinted
    <3>2. [at |-> "adopt", epoch |-> epoch, ticket |-> t] \in Stage
      BY <2>1 DEF Stage
    <3>3. task' \in [Peer -> [Task -> Stage]]
      BY <3>1, <3>2, GotoType DEF Rotate, Task
    <3>4. ns' \in [Peer -> Generation]
      BY <2>1, <3>1 DEF Rotate, TypeOK, Generation
    <3>5. announced' \subseteq Announcement
      BY <2>1, <3>1 DEF Rotate, TypeOK, Announcement
    <3> QED BY <2>1, <3>1, <3>3, <3>4, <3>5 DEF Rotate, TypeOK
  <2> QED BY <2>2, <2>3
<1>4. ASSUME NEW p \in Peer, MintFails(p) PROVE TypeOK'
  <2>1. task' \in [Peer -> [Task -> Stage]]
    BY <1>4, GotoType, IdleType DEF MintFails, Task
  <2>2. disk' \in [Peer -> Record]
    BY <1>4, PersistedType DEF MintFails, TypeOK, core
  <2> QED BY <1>4, <2>1, <2>2 DEF MintFails, Fault, TypeOK, core, history
<1>5. ASSUME NEW p \in Peer, NEW op \in removals, MergeRemoval(p, op) PROVE TypeOK'
  <2>1. view' \in [Peer -> SUBSET Peer]
    BY <1>5 DEF MergeRemoval, TypeOK, Removal
  <2>2. disk' \in [Peer -> Record]
    BY <1>5, <2>1, PersistedType DEF MergeRemoval, TypeOK
  <2> QED BY <1>5, <2>1, <2>2 DEF MergeRemoval, TypeOK, history
<1>6. ASSUME NEW p \in Peer, NEW m \in announced, NamespaceArrived(p, m) PROVE TypeOK'
  <2>1. m.epoch \in Nat /\ m.ticket \in Ticket
    BY DEF TypeOK, Announcement
  <2>2. [at |-> "adopt", epoch |-> m.epoch, ticket |-> m.ticket] \in Stage
    BY <2>1 DEF Stage
  <2>3. task' \in [Peer -> [Task -> Stage]]
    BY <1>6, <2>2, GotoType DEF NamespaceArrived, Task
  <2>4. ns' \in [Peer -> Generation]
    BY <1>6, <2>1 DEF NamespaceArrived, TypeOK, Generation
  <2> QED BY <1>6, <2>1, <2>3, <2>4 DEF NamespaceArrived, TypeOK
<1>7. ASSUME NEW p \in Peer, NEW w \in Task, AdoptNamespace(p, w) PROVE TypeOK'
  <2>1. task' \in [Peer -> [Task -> Stage]]
    BY <1>7, GotoType, IdleType DEF AdoptNamespace
  <2>2. open' \in [Peer -> Ticket \cup {0}]
    BY <1>7 DEF AdoptNamespace, TypeOK, Stage
  <2>3. announced' \subseteq Announcement
    BY <1>7, AnnounceType DEF AdoptNamespace, TypeOK
  <2>4. disk' \in [Peer -> Record]
    BY <1>7, <2>2, PersistedType DEF AdoptNamespace, TypeOK, core
  <2> QED BY <1>7, <2>1, <2>2, <2>3, <2>4 DEF AdoptNamespace, TypeOK, core, history
<1>8. ASSUME NEW p \in Peer, NEW w \in Task, AdoptFails(p, w) PROVE TypeOK'
  <2>1. task' \in [Peer -> [Task -> Stage]]
    BY <1>8, GotoType, IdleType DEF AdoptFails
  <2>2. disk' \in [Peer -> Record]
    BY <1>8, PersistedType DEF AdoptFails, TypeOK, core
  <2> QED BY <1>8, <2>1, <2>2 DEF AdoptFails, Fault, TypeOK, core, history
<1>9. ASSUME NEW p \in Peer, ResyncNamespace(p) PROVE TypeOK'
  <2>1. announced' \subseteq Announcement
    BY <1>9, AnnounceType DEF ResyncNamespace, TypeOK
  <2>2. disk' \in [Peer -> Record]
    BY <1>9, PersistedType DEF ResyncNamespace, TypeOK, core
  <2> QED BY <1>9, <2>1, <2>2 DEF ResyncNamespace, TypeOK, core, history
<1>10. ASSUME NEW m \in announced, Lose(m) PROVE TypeOK'
  BY <1>10 DEF Lose, TypeOK, core, history
<1>11. ASSUME NEW p \in Peer, Restart(p) PROVE TypeOK'
  <2>1. /\ disk[p].view \subseteq Peer
        /\ disk[p].ns \in Generation
        /\ disk[p].open \in Ticket \cup {0}
    BY DEF TypeOK, Record
  <2>2. task' \in [Peer -> [Task -> Stage]]
    BY <1>11, IdleType DEF Restart, TypeOK
  <2> QED BY <1>11, <2>1, <2>2 DEF Restart, Fault, TypeOK, history
<1>12. CASE UNCHANGED vars
  BY <1>12 DEF vars, history, TypeOK
<1> QED
  BY <1>1, <1>2, <1>3, <1>4, <1>5, <1>6, <1>7, <1>8, <1>9, <1>10, <1>11, <1>12 DEF Next

(* Types are kept by every behaviour of the rotation protocol. *)
THEOREM TypeCorrect == Spec => []TypeOK
  BY InitType, NextType, PTL DEF Spec

-----------------------------------------------------------------------------
(* The inductive invariant: a ticket is never held, stored or announced    *)
(* apart from the removals it answers, and no excluded device has it.      *)
Safe == TicketCarriesRemovals /\ ExcludedNeverLearns

LEMMA InitSafe == Init => Safe
  BY DEF Init, Safe, TicketCarriesRemovals, ExcludedNeverLearns, Initial

(* A step that leaves tickets, history and announcements alone, and whose  *)
(* view and record only grow towards the core's, keeps the invariant.      *)
LEMMA QuietSafe ==
    ASSUME TypeOK, Safe, NEW p \in Peer,
           UNCHANGED <<excluded, minter, learnt>>,
           announced' \subseteq announced \cup Announce(p),
           \A q \in Peer : ns'[q].ticket = ns[q].ticket /\ view[q] \subseteq view'[q],
           \/ UNCHANGED disk
           \/ Persisted(p) /\ view' \in [Peer -> SUBSET Peer]
    PROVE  Safe'
<1> USE DEF Safe, Unminted
<1>1. ExcludedNeverLearns'
  BY DEF ExcludedNeverLearns
<1>2. \A q \in Peer : \A t \in {ns'[q].ticket} \ {0} :
          ~Unminted(t)' /\ excluded'[t] \subseteq view'[q]
  BY DEF TicketCarriesRemovals
<1>3. \A q \in Peer : \A t \in {disk'[q].ns.ticket} \ {0} :
          ~Unminted(t)' /\ excluded'[t] \subseteq disk'[q].view
  <2>1. CASE UNCHANGED disk
    BY <2>1 DEF TicketCarriesRemovals
  <2>2. CASE Persisted(p)
    <3> SUFFICES ASSUME NEW q \in Peer, NEW t \in {disk'[q].ns.ticket} \ {0}
                 PROVE  ~Unminted(t)' /\ excluded'[t] \subseteq disk'[q].view
      OBVIOUS
    <3>1. CASE q = p
      BY <1>2, <2>2, <3>1 DEF Persisted, TypeOK
    <3>2. CASE q # p
      BY <2>2, <3>2 DEF Persisted, TypeOK, TicketCarriesRemovals
    <3> QED BY <3>1, <3>2
  <2> QED BY <2>1, <2>2
<1>4. \A m \in announced' : ~Unminted(m.ticket)' /\ excluded'[m.ticket] \subseteq m.view
  BY DEF TicketCarriesRemovals, Announce
<1>5. \A q \in Peer : \A t \in learnt'[q] : ~Unminted(t)'
  BY DEF TicketCarriesRemovals
<1> QED BY <1>1, <1>2, <1>3, <1>4, <1>5 DEF TicketCarriesRemovals

(* A rotation hands the fresh ticket to nobody but its minter. *)
LEMMA RotateSafe ==
    ASSUME TypeOK, Safe, NEW p \in Peer, NEW epoch, NEW t \in Ticket, Rotate(p, epoch, t)
    PROVE  Safe'
<1> USE DEF Unminted
<1>1. /\ minter[t] = NoPeer
      /\ minter' = [minter EXCEPT ![t] = p]
      /\ excluded' = [excluded EXCEPT ![t] = view[p]]
      /\ learnt' = [learnt EXCEPT ![p] = @ \cup {t}]
      /\ ns' = [ns EXCEPT ![p] = [epoch |-> epoch, ticket |-> t]]
      /\ announced' = announced \cup
            {[from |-> p, epoch |-> epoch, ticket |-> t, view |-> view[p]]}
      /\ UNCHANGED <<view, disk>>
  BY DEF Rotate
<1>2. minter'[t] = p /\ excluded'[t] = view[p] /\ p # NoPeer
  BY <1>1, NamespaceAssumption DEF TypeOK
<1>3. \A u \in Ticket \ {t} : minter'[u] = minter[u] /\ excluded'[u] = excluded[u]
  BY <1>1 DEF TypeOK
<1>4. \A q \in Peer : \A u \in {ns'[q].ticket} \ {0} :
          ~Unminted(u)' /\ excluded'[u] \subseteq view'[q]
  <2> SUFFICES ASSUME NEW q \in Peer, NEW u \in {ns'[q].ticket} \ {0}
               PROVE  minter'[u] # NoPeer /\ excluded'[u] \subseteq view'[q]
    OBVIOUS
  <2>1. CASE q = p
    BY <1>1, <1>2, <2>1 DEF TypeOK
  <2>2. CASE q # p
    <3>1. ns'[q] = ns[q] /\ u \in Ticket
      BY <1>1, <2>2 DEF TypeOK, Generation
    <3>2. minter[u] # NoPeer /\ excluded[u] \subseteq view[q]
      BY <3>1 DEF Safe, TicketCarriesRemovals
    <3> QED BY <1>1, <1>3, <3>1, <3>2
  <2> QED BY <2>1, <2>2
<1>5. \A q \in Peer : \A u \in {disk'[q].ns.ticket} \ {0} :
          ~Unminted(u)' /\ excluded'[u] \subseteq disk'[q].view
  <2> SUFFICES ASSUME NEW q \in Peer, NEW u \in {disk[q].ns.ticket} \ {0}
               PROVE  minter'[u] # NoPeer /\ excluded'[u] \subseteq disk[q].view
    BY <1>1
  <2>1. minter[u] # NoPeer /\ excluded[u] \subseteq disk[q].view
    BY DEF Safe, TicketCarriesRemovals
  <2>2. u \in Ticket
    <3>1. disk[q].ns \in Generation
      BY DEF TypeOK, Record
    <3> QED BY <3>1 DEF Generation
  <2> QED BY <1>1, <1>3, <2>1, <2>2
<1>6. \A m \in announced' : ~Unminted(m.ticket)' /\ excluded'[m.ticket] \subseteq m.view
  <2> SUFFICES ASSUME NEW m \in announced'
               PROVE  minter'[m.ticket] # NoPeer /\ excluded'[m.ticket] \subseteq m.view
    OBVIOUS
  <2>1. CASE m \in announced
    <3>1. m.ticket \in Ticket
      BY <2>1 DEF TypeOK, Announcement
    <3>2. minter[m.ticket] # NoPeer /\ excluded[m.ticket] \subseteq m.view
      BY <2>1 DEF Safe, TicketCarriesRemovals
    <3> QED BY <1>1, <1>3, <3>1, <3>2
  <2>2. CASE m = [from |-> p, epoch |-> epoch, ticket |-> t, view |-> view[p]]
    BY <1>2, <2>2
  <2> QED BY <1>1, <2>1, <2>2
<1>7. \A q \in Peer : \A u \in learnt'[q] : ~Unminted(u)'
  <2> SUFFICES ASSUME NEW q \in Peer, NEW u \in learnt'[q]
               PROVE  minter'[u] # NoPeer
    OBVIOUS
  <2>1. CASE u = t
    BY <1>2, <2>1
  <2>2. CASE u # t
    <3>1. u \in learnt[q] /\ u \in Ticket
      BY <1>1, <2>2 DEF TypeOK
    <3> QED BY <1>3, <2>2, <3>1 DEF Safe, TicketCarriesRemovals
  <2> QED BY <2>1, <2>2
<1>8. ExcludedNeverLearns'
  <2> SUFFICES ASSUME NEW u \in Ticket, NEW x \in excluded'[u], x # minter'[u]
               PROVE  u \notin learnt'[x]
    BY DEF ExcludedNeverLearns
  <2>1. x \in Peer
    BY <1>1 DEF TypeOK
  <2>2. CASE u = t
    BY <1>1, <1>2, <2>1, <2>2 DEF Safe, TicketCarriesRemovals, TypeOK
  <2>3. CASE u # t
    <3>1. u \notin learnt[x]
      BY <1>3, <2>3 DEF Safe, ExcludedNeverLearns
    <3> QED BY <1>1, <2>1, <2>3, <3>1 DEF TypeOK
  <2> QED BY <2>2, <2>3
<1> QED BY <1>4, <1>5, <1>6, <1>7, <1>8 DEF Safe, TicketCarriesRemovals

(* Whoever adopts an announcement could read it, so is not excluded. *)
LEMMA ArrivalSafe ==
    ASSUME TypeOK, Safe, NEW p \in Peer, NEW m \in announced, NamespaceArrived(p, m)
    PROVE  Safe'
<1> USE DEF Unminted
<1>1. /\ m.ticket \in Ticket
      /\ minter[m.ticket] # NoPeer
      /\ excluded[m.ticket] \subseteq m.view
      /\ p \notin m.view
      /\ m.view \subseteq view[p]
  BY DEF Safe, TicketCarriesRemovals, NamespaceArrived, Readable, TypeOK, Announcement
<1>2. /\ ns' = [ns EXCEPT ![p] = [epoch |-> m.epoch, ticket |-> m.ticket]]
      /\ learnt' = [learnt EXCEPT ![p] = @ \cup {m.ticket}]
      /\ UNCHANGED <<view, announced, disk, excluded, minter>>
  BY DEF NamespaceArrived
<1>3. \A q \in Peer : \A u \in {ns'[q].ticket} \ {0} :
          ~Unminted(u)' /\ excluded'[u] \subseteq view'[q]
  BY <1>1, <1>2 DEF Safe, TicketCarriesRemovals, TypeOK
<1>4. \A q \in Peer : \A u \in learnt'[q] : ~Unminted(u)'
  BY <1>1, <1>2 DEF Safe, TicketCarriesRemovals, TypeOK
<1>5. ExcludedNeverLearns'
  <2> SUFFICES ASSUME NEW u \in Ticket, NEW x \in excluded[u], x # minter[u]
               PROVE  u \notin learnt'[x]
    BY <1>2 DEF ExcludedNeverLearns
  <2>1. x \in Peer /\ u \notin learnt[x]
    BY DEF Safe, ExcludedNeverLearns, TypeOK
  <2>2. x = p => u # m.ticket
    BY <1>1
  <2> QED BY <1>2, <2>1, <2>2 DEF TypeOK
<1> QED BY <1>2, <1>3, <1>4, <1>5 DEF Safe, TicketCarriesRemovals

(* A restart resumes from a record in which ticket and removals agree. *)
LEMMA RestartSafe ==
    ASSUME TypeOK, Safe, NEW p \in Peer, Restart(p)
    PROVE  Safe'
<1>1. /\ view' = [view EXCEPT ![p] = disk[p].view]
      /\ ns' = [ns EXCEPT ![p] = disk[p].ns]
      /\ UNCHANGED <<announced, disk, excluded, minter, learnt>>
  BY DEF Restart, history
<1>2. \A q \in Peer : \A u \in {ns'[q].ticket} \ {0} :
          ~Unminted(u) /\ excluded[u] \subseteq view'[q]
  BY <1>1 DEF Safe, TicketCarriesRemovals, TypeOK
<1> QED BY <1>1, <1>2 DEF Safe, TicketCarriesRemovals, ExcludedNeverLearns, Unminted

(* Every step keeps the inductive invariant. *)
LEMMA NextSafe == TypeOK /\ TypeOK' /\ Safe /\ [Next]_vars => Safe'
<1> SUFFICES ASSUME TypeOK, TypeOK', Safe, [Next]_vars PROVE Safe'
  OBVIOUS
<1>1. ASSUME NEW p \in Peer, NEW x \in Peer, RemoveMember(p, x) PROVE Safe'
  <2>1. \A q \in Peer : ns'[q].ticket = ns[q].ticket
    <3>1. ns[p] \in Generation /\ ns' = [ns EXCEPT ![p] = [ns[p] EXCEPT !.epoch = @ + 1]]
      BY <1>1 DEF RemoveMember, TypeOK
    <3>2. [ns[p] EXCEPT !.epoch = @ + 1].ticket = ns[p].ticket
      BY <3>1 DEF Generation
    <3> QED BY <3>1, <3>2 DEF TypeOK
  <2>2. \A q \in Peer : view[q] \subseteq view'[q]
    BY <1>1 DEF RemoveMember, TypeOK
  <2>3. UNCHANGED <<excluded, minter, learnt, announced, disk>>
    BY <1>1 DEF RemoveMember, history
  <2> QED BY <2>1, <2>2, <2>3, QuietSafe
<1>2. ASSUME NEW p \in Peer, Leave(p) PROVE Safe'
  <2>1. \A q \in Peer : view[q] \subseteq view'[q]
    BY <1>2 DEF Leave, TypeOK
  <2>2. UNCHANGED <<ns, excluded, minter, learnt, announced>> /\ Persisted(p)
    BY <1>2 DEF Leave, history
  <2> QED BY <2>1, <2>2, QuietSafe DEF TypeOK
<1>3. ASSUME NEW p \in Peer, NamespaceMinted(p) PROVE Safe'
  <2>1. CASE \E t \in Ticket : Rotate(p, task[p]["drive"].epoch, t)
    BY <2>1, RotateSafe
  <2>2. CASE ~ \E t \in Ticket : Rotate(p, task[p]["drive"].epoch, t)
    <3>1. UNCHANGED <<view, ns, excluded, minter, learnt, announced>> /\ Persisted(p)
      BY <1>3, <2>2 DEF NamespaceMinted, core, history
    <3> QED BY <3>1, QuietSafe DEF TypeOK
  <2> QED BY <2>1, <2>2
<1>4. ASSUME NEW p \in Peer, MintFails(p) PROVE Safe'
  <2>1. UNCHANGED <<view, ns, excluded, minter, learnt, announced>> /\ Persisted(p)
    BY <1>4 DEF MintFails, core, history
  <2> QED BY <2>1, QuietSafe DEF TypeOK
<1>5. ASSUME NEW p \in Peer, NEW op \in removals, MergeRemoval(p, op) PROVE Safe'
  <2>1. \A q \in Peer : view[q] \subseteq view'[q]
    BY <1>5 DEF MergeRemoval, TypeOK
  <2>2. UNCHANGED <<ns, excluded, minter, learnt, announced>> /\ Persisted(p)
    BY <1>5 DEF MergeRemoval, history
  <2> QED BY <2>1, <2>2, QuietSafe DEF TypeOK
<1>6. ASSUME NEW p \in Peer, NEW m \in announced, NamespaceArrived(p, m) PROVE Safe'
  BY <1>6, ArrivalSafe
<1>7. ASSUME NEW p \in Peer, NEW w \in Task, AdoptNamespace(p, w) PROVE Safe'
  <2>1. UNCHANGED <<view, ns, excluded, minter, learnt>> /\ Persisted(p)
    BY <1>7 DEF AdoptNamespace, core, history
  <2>2. announced' \subseteq announced \cup Announce(p)
    BY <1>7 DEF AdoptNamespace
  <2> QED BY <2>1, <2>2, QuietSafe DEF TypeOK
<1>8. ASSUME NEW p \in Peer, NEW w \in Task, AdoptFails(p, w) PROVE Safe'
  <2>1. UNCHANGED <<view, ns, excluded, minter, learnt, announced>> /\ Persisted(p)
    BY <1>8 DEF AdoptFails, core, history
  <2> QED BY <2>1, QuietSafe DEF TypeOK
<1>9. ASSUME NEW p \in Peer, ResyncNamespace(p) PROVE Safe'
  <2>1. UNCHANGED <<view, ns, excluded, minter, learnt>> /\ Persisted(p)
    BY <1>9 DEF ResyncNamespace, core, history
  <2>2. announced' \subseteq announced \cup Announce(p)
    BY <1>9 DEF ResyncNamespace
  <2> QED BY <2>1, <2>2, QuietSafe DEF TypeOK
<1>10. ASSUME NEW m \in announced, Lose(m) PROVE Safe'
  <2>1. UNCHANGED <<view, ns, disk, excluded, minter, learnt>> /\ announced' \subseteq announced
    BY <1>10 DEF Lose, core, history
  <2> QED BY <2>1 DEF Safe, TicketCarriesRemovals, ExcludedNeverLearns, Unminted
<1>11. ASSUME NEW p \in Peer, Restart(p) PROVE Safe'
  BY <1>11, RestartSafe
<1>12. CASE UNCHANGED vars
  BY <1>12 DEF vars, history, Safe, TicketCarriesRemovals, ExcludedNeverLearns, Unminted
<1> QED
  BY <1>1, <1>2, <1>3, <1>4, <1>5, <1>6, <1>7, <1>8, <1>9, <1>10, <1>11, <1>12 DEF Next

(* Every ticket held, stored or announced travels with the removals it     *)
(* answers (perform_removal and on_namespace_minted, state.rs).            *)
THEOREM CarriesRemovals == Spec => []TicketCarriesRemovals
  BY InitType, NextType, InitSafe, NextSafe, PTL DEF Spec, Safe

(* No device excluded from a rotation ever learns its capability, whatever *)
(* the order of removals, rotations, re-announcements, losses and restarts *)
(* (perform_removal, state.rs).                                            *)
THEOREM Exclusion == Spec => []ExcludedNeverLearns
  BY InitType, NextType, InitSafe, NextSafe, PTL DEF Spec, Safe

(* Only a restart lowers a node's generation counter.                      *)
LEMMA StepEpoch ==
    TypeOK /\ [Next]_vars =>
        [\A p \in Peer : ns'[p].epoch >= ns[p].epoch \/ Restart(p)]_vars
<1> SUFFICES ASSUME TypeOK, Next, NEW p \in Peer, ~Restart(p)
             PROVE  ns'[p].epoch >= ns[p].epoch
  BY DEF vars
<1>1. \A q \in Peer : ns[q] \in Generation /\ ns[q].epoch \in Nat
  BY DEF TypeOK, Generation
<1>2. CASE UNCHANGED ns
  BY <1>1, <1>2
<1>3. ASSUME NEW q \in Peer, NEW x \in Peer, RemoveMember(q, x)
      PROVE  ns'[p].epoch >= ns[p].epoch
  <2>1. ns' = [ns EXCEPT ![q] = [ns[q] EXCEPT !.epoch = @ + 1]]
    BY <1>3 DEF RemoveMember
  <2>2. [ns[q] EXCEPT !.epoch = @ + 1].epoch = ns[q].epoch + 1
    BY <1>1 DEF Generation
  <2> QED BY <1>1, <2>1, <2>2 DEF TypeOK
<1>4. ASSUME NEW q \in Peer, NamespaceMinted(q), ns' # ns
      PROVE  ns'[p].epoch >= ns[p].epoch
  <2>1. PICK t \in Ticket : Rotate(q, ns[q].epoch, t)
    BY <1>4 DEF NamespaceMinted, core
  <2>2. ns' = [ns EXCEPT ![q] = [epoch |-> ns[q].epoch, ticket |-> t]]
    BY <2>1 DEF Rotate
  <2> QED BY <1>1, <2>2 DEF TypeOK
<1>5. ASSUME NEW q \in Peer, NEW m \in announced, NamespaceArrived(q, m)
      PROVE  ns'[p].epoch >= ns[p].epoch
  <2>1. m.epoch \in Nat /\ m.epoch >= ns[q].epoch
    BY <1>1, <1>5 DEF NamespaceArrived, Newer, TypeOK, Announcement
  <2>2. ns' = [ns EXCEPT ![q] = [epoch |-> m.epoch, ticket |-> m.ticket]]
    BY <1>5 DEF NamespaceArrived
  <2> QED BY <1>1, <2>1, <2>2 DEF TypeOK
<1>6. ASSUME NEW q \in Peer, Restart(q) PROVE ns'[p].epoch >= ns[p].epoch
  <2>1. q # p
    BY <1>6
  <2>2. ns' = [ns EXCEPT ![q] = disk[q].ns]
    BY <1>6 DEF Restart
  <2>3. ns'[p] = ns[p]
    BY <2>1, <2>2 DEF TypeOK
  <2> QED BY <1>1, <2>3
<1>7. UNCHANGED ns \/ (\E q \in Peer :
          \/ \E x \in Peer : RemoveMember(q, x)
          \/ NamespaceMinted(q) /\ ns' # ns
          \/ \E m \in announced : NamespaceArrived(q, m)
          \/ Restart(q))
  BY DEF Next, core, Leave, MintFails, MergeRemoval, AdoptNamespace, AdoptFails,
         ResyncNamespace, Lose
<1> QED BY <1>2, <1>3, <1>4, <1>5, <1>6, <1>7

(* A running node never returns to an earlier generation                   *)
(* (on_namespace_arrived and on_namespace_minted, state.rs).               *)
THEOREM EpochMonotone == Spec => EpochNeverFalls
  BY InitType, NextType, StepEpoch, PTL DEF Spec, EpochNeverFalls

=============================================================================
