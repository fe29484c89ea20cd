------------------------- MODULE AssetsServedProofs -------------------------
(***************************************************************************)
(* The proofs of Assets, second part: that the segments in every slot, the *)
(* blobs of a running attachment and the declared attachments are kept by  *)
(* every step; that IInv is therefore invariant; and what follows from it. *)
(***************************************************************************)
EXTENDS AssetsProofs

(* Most leaves are first-order: Zenon is tried first, SMT for the rest. *)
USE ZenonT(4), SMTT(15)

-----------------------------------------------------------------------------
(* What answers for a segment in an index.                                 *)

(* The step does not disturb what answers for s. *)
SlotKeeps(p, g, s) ==
  /\ ns'[p] = ns[p]
  /\ \A x \in Tasks : Mine(x, p, s[1])' /\ Active(x)' =>
       /\ Mine(x, p, s[1]) /\ Active(x)
       /\ task'[x].at \in Undeclared => task[x].at \in Undeclared
       /\ task'[x].at \in {"clear", "clearing"} /\ ~task'[x].ok =>
            (task[x].at \in {"clear", "clearing"} /\ ~task[x].ok) \/ s[1] \in cut
  /\ p \notin logLost' =>
       /\ ns[p] = 1 /\ g = 2 /\ s[1] \in pending'[p] => s[1] \in pending[p]
       /\ s[1] \in pending[p] => s[1] \in pending'[p] \cup cut' \cup ContentsOf(saved'[p].manifest)

OwnShrinks ==
  \A q \in Members, g \in Namespaces, x \in Slots : IsSegment(x) /\ Own(q, g, x)' => Own(q, g, x)

LEMMA SlotKept ==
    ASSUME IInv, Mono, NEW p \in Members, NEW g \in Namespaces, NEW s \in Slots,
           IsSegment(s), Own(p, g, s), SlotKeeps(p, g, s)
    PROVE  SlotInv(p, g, s)'
<1>1. SlotInv(p, g, s)
  BY DEF IInv, SegmentInv, SegmentSlots
<1>2. s[1] \in used'
  BY <1>1 DEF SlotInv, Mono
<1>3. ns'[p] = 1 /\ g = 2 /\ p \notin logLost' => s[1] \notin pending'[p]
  BY <1>1 DEF SlotInv, Mono, SlotKeeps
<1>4. ASSUME NEW t \in Tasks, Mine(t, p, s[1])'
      PROVE  /\ ns'[p] = 1 /\ g = 2 => ~Active(t)'
             /\ ns'[p] = 2 /\ g = 1 /\ task'[t].at \in Undeclared => s[1] \in cut'
             /\ task'[t].at \in {"clear", "clearing"} /\ ~task'[t].ok => s[1] \in cut'
  <2>1. task'[t].at \in Undeclared \/ task'[t].at \in {"clear", "clearing"} => Active(t)'
    BY DEF Active, Clearing
  <2>2. Active(t)' =>
          /\ Mine(t, p, s[1]) /\ Active(t)
          /\ task'[t].at \in Undeclared => task[t].at \in Undeclared
          /\ task'[t].at \in {"clear", "clearing"} /\ ~task'[t].ok =>
               (task[t].at \in {"clear", "clearing"} /\ ~task[t].ok) \/ s[1] \in cut
    BY <1>4 DEF SlotKeeps
  <2>3. /\ ns'[p] = ns[p] /\ cut \subseteq cut'
        /\ Mine(t, p, s[1]) =>
             /\ ns[p] = 1 /\ g = 2 => ~Active(t)
             /\ ns[p] = 2 /\ g = 1 /\ task[t].at \in Undeclared => s[1] \in cut
             /\ task[t].at \in {"clear", "clearing"} /\ ~task[t].ok => s[1] \in cut
    BY <1>1 DEF SlotInv, SlotKeeps, Mono
  <2> HIDE DEF Active, Mine, Undeclared
  <2> QED BY <2>1, <2>2, <2>3
<1>5. ASSUME p \notin logLost', saved'[p].ns <= g
      PROVE  s[1] \in cut' \cup pending'[p] \cup ContentsOf(saved'[p].manifest)
  <2>1. p \notin logLost /\ saved[p].ns <= g
    BY <1>5 DEF Mono, Namespaces
  <2>2. s[1] \in cut \cup pending[p] \cup ContentsOf(saved[p].manifest)
    BY <1>1, <2>1 DEF SlotInv
  <2> QED BY <1>5, <2>2 DEF Mono, SlotKeeps
<1> QED BY <1>2, <1>3, <1>4, <1>5 DEF SlotInv

LEMMA SlotsKept ==
    ASSUME IInv, Mono, OwnShrinks,
           \A p \in Members, g \in Namespaces, s \in Slots :
             IsSegment(s) /\ Own(p, g, s) /\ Own(p, g, s)' => SlotKeeps(p, g, s)
    PROVE  SegmentSlots'
<1>1. ASSUME NEW p \in Members, NEW g \in Namespaces, NEW s \in Slots, IsSegment(s), Own(p, g, s)'
      PROVE  SlotInv(p, g, s)'
  <2>1. Own(p, g, s)
    BY <1>1 DEF OwnShrinks
  <2> QED BY <1>1, <2>1, SlotKept
<1> QED BY <1>1 DEF SegmentSlots, IsSegment

LEMMA SlotsQuiet ==
    ASSUME IInv, [Next]_vars, OwnShrinks, UNCHANGED <<task, pending, ns>>
    PROVE  SegmentSlots'
<1>1. Mono
  BY MonoStep
<1>2. \A x \in Tasks : Active(x)' <=> Active(x)
  BY DEF Active
<1>3. \A p \in Members, g \in Namespaces, s \in Slots : SlotKeeps(p, g, s)
  BY <1>2 DEF SlotKeeps, Mine
<1> QED BY <1>1, <1>3, SlotsKept

LEMMA SlotUsed ==
    ASSUME IInv, NEW p \in Members, NEW g \in Namespaces, NEW s \in Slots, IsSegment(s), Own(p, g, s)
    PROVE  s[1] \in used
BY DEF IInv, SegmentInv, SegmentSlots, SlotInv

(* A task moves on, or stops, and the log stays as it is. *)
LEMMA SlotsMove ==
    ASSUME IInv, [Next]_vars, OwnShrinks, UNCHANGED <<pending, ns>>,
           NEW t \in Tasks, NEW at, NEW ok, NEW c, NEW seg, NEW log, TaskBecomes(t, at, ok, c, seg, log),
           at \in Undeclared \cup Clearing =>
             \/ c \notin used
             \/ /\ c = task[t].content /\ Active(t)
                /\ at \in Undeclared => task[t].at \in Undeclared
                /\ at \in {"clear", "clearing"} =>
                     task'[t].ok \/ (task[t].at \in {"clear", "clearing"} /\ ~task[t].ok)
    PROVE  SegmentSlots'
<1>1. Mono
  BY MonoStep
<1>2. /\ \A x \in Tasks \ {t} : task'[x] = task[x] /\ (Active(x)' <=> Active(x))
      /\ task'[t].at = at /\ task'[t].content = c
      /\ Active(t)' <=> at \in Undeclared \cup Clearing
  BY DEF TaskBecomes, Active
<1>3. ASSUME NEW p \in Members, NEW g \in Namespaces, NEW s \in Slots, IsSegment(s), Own(p, g, s)
      PROVE  SlotKeeps(p, g, s)
  <2>1. s[1] \in used
    BY <1>3, SlotUsed
  <2>2. ASSUME NEW x \in Tasks, Mine(x, p, s[1])', Active(x)'
        PROVE  /\ Mine(x, p, s[1]) /\ Active(x)
               /\ task'[x].at \in Undeclared => task[x].at \in Undeclared
               /\ task'[x].at \in {"clear", "clearing"} /\ ~task'[x].ok =>
                    (task[x].at \in {"clear", "clearing"} /\ ~task[x].ok) \/ s[1] \in cut
    <3>1. CASE x # t
      BY <1>2, <2>2, <3>1 DEF Mine
    <3>2. CASE x = t
      BY <1>2, <2>1, <2>2, <3>2 DEF Mine
    <3> QED BY <3>1, <3>2
  <2> QED BY <2>2 DEF SlotKeeps
<1> QED BY <1>1, <1>3, SlotsKept

LEMMA UnchangedShrinks ==
    ASSUME IInv, UNCHANGED index
    PROVE  OwnShrinks
BY UnchangedOwn DEF OwnShrinks, OwnSame

LEMMA SegmentSlotsStep ==
    ASSUME IInv, [Next]_vars
    PROVE  SegmentSlots'
<1>1. ASSUME UNCHANGED <<index, used, ns, pending, logLost, task, cut, saved>>
      PROVE  SegmentSlots'
  BY <1>1, UnchangedShrinks, SlotsQuiet
<1>2. ASSUME NEW p, \/ \E v, i : Export(p, v, i)
                    \/ \E a, c : RequestRepair(p, a, c)
                    \/ FinishAdopting(p) \/ Join(p) \/ Demote(p)
      PROVE  UNCHANGED <<index, used, ns, pending, logLost, task, cut, saved>>
  BY <1>2, Zenon DEF Export, RequestRepair, FinishAdopting, Join, Demote, indexVars, logVars,
     manifestVars, spaceVars
<1>3. ASSUME NEW r, AnswerRepair(r)
      PROVE  UNCHANGED <<index, used, ns, pending, logLost, task, cut, saved>>
  BY <1>3, Zenon DEF AnswerRepair, indexVars, logVars, manifestVars, spaceVars
<1>4. ASSUME NEW t \in Tasks, NEW e \in Entries, NEW size \in 0..MaxSize, AttachFile(t, e, size)
      PROVE  SegmentSlots'
  <2>1. PICK at, ok, c, seg, log : TaskBecomes(t, at, ok, c, seg, log) /\ at = "seal"
    BY <1>4, StartTask DEF TaskBecomes
  <2>2. OwnShrinks
    BY <1>4, UnchangedShrinks DEF AttachFile, indexVars
  <2>3. UNCHANGED <<pending, ns>>
    BY <1>4 DEF AttachFile, logVars, spaceVars
  <2> QED BY <2>1, <2>2, <2>3, SlotsMove DEF Active, Undeclared, Clearing, Writing
<1>5. ASSUME NEW t \in Tasks, NEW e \in Entries, NEW size \in 0..MaxSize, AttachVersion(t, e,
              size)
      PROVE  SegmentSlots'
  <2>1. PICK at, ok, c, seg, log : TaskBecomes(t, at, ok, c, seg, log) /\ at = "seal"
    BY <1>5, StartTask DEF TaskBecomes
  <2>2. OwnShrinks
    BY <1>5, UnchangedShrinks DEF AttachVersion, indexVars
  <2>3. UNCHANGED <<pending, ns>>
    BY <1>5 DEF AttachVersion, logVars, spaceVars
  <2> QED BY <2>1, <2>2, <2>3, SlotsMove DEF Active, Undeclared, Clearing, Writing
<1>6. ASSUME NEW t \in Tasks, NEW c \in Contents, Seal(t, c)
      PROVE  SegmentSlots'
  <2>1. TaskBecomes(t, "note", task[t].ok, c, task[t].seg, task[t].log)
    BY <1>6, SealTask
  <2>2. OwnShrinks
    <3>1. OwnAdds(Owner[t], <<c, 0>>) /\ <<c, 0>> \in Slots
      BY <1>6, SealOwn
    <3>2. ~IsSegment(<<c, 0>>)
      BY DEF IsSegment
    <3> QED BY <3>1, <3>2 DEF OwnAdds, OwnShrinks
  <2>3. UNCHANGED <<pending, ns>> /\ c \notin used
    BY <1>6 DEF Seal, logVars, spaceVars
  <2> QED BY <2>1, <2>2, <2>3, SlotsMove DEF Active, Undeclared, Clearing, Writing
<1>7. ASSUME NEW t \in Tasks, SealRefused(t)
      PROVE  SegmentSlots'
  <2>1. PICK at, ok, c, seg, log : TaskBecomes(t, at, ok, c, seg, log) /\ at \notin Undeclared \cup Clearing
    BY <1>7, GotoSteps DEF Active, Undeclared, Clearing, Writing
  <2>2. OwnShrinks
    BY <1>7, UnchangedShrinks DEF SealRefused, indexVars
  <2>3. UNCHANGED <<pending, ns>>
    BY <1>7 DEF SealRefused, logVars, spaceVars
  <2> QED BY <2>1, <2>2, <2>3, SlotsMove
<1>8. ASSUME NEW t \in Tasks, NoteLoad(t)
      PROVE  SegmentSlots'
  <2>1. TaskBecomes(t, "noted", task[t].ok, task[t].content, task[t].seg, pending[Owner[t]])
    BY <1>8, GotoSteps
  <2>2. OwnShrinks
    BY <1>8, UnchangedShrinks DEF NoteLoad, indexVars
  <2>3. UNCHANGED <<pending, ns>>
    BY <1>8 DEF NoteLoad, logVars, spaceVars
  <2> QED BY <1>8, <2>1, <2>2, <2>3, SlotsMove DEF NoteLoad, TaskBecomes, Active, Undeclared, Clearing, Writing
<1>9. ASSUME NEW t \in Tasks, NoteStore(t)
      PROVE  SegmentSlots'
  <2> DEFINE p == Owner[t]
  <2>1. p \in Members /\ Mono /\ pending \in [Members -> SUBSET Contents]
    BY OwnerType, MonoStep DEF IInv, Types, TaskTypes
  <2>2. TaskBecomes(t, "write", task[t].ok, task[t].content, task[t].seg, {})
    BY <1>9, GotoSteps
  <2>3. /\ \A x \in Tasks \ {t} : task'[x] = task[x] /\ (Active(x)' <=> Active(x))
        /\ task'[t].at = "write" /\ task'[t].content = task[t].content
        /\ Active(t) /\ task[t].at = "noted"
    BY <1>9, <2>2 DEF TaskBecomes, NoteStore, Active, Undeclared, Clearing, Writing
  <2>4. OwnShrinks /\ ns' = ns /\ logLost \subseteq logLost'
    BY <1>9, UnchangedShrinks DEF NoteStore, indexVars, spaceVars, StoreLog, LogFails
  <2>5. \/ pending' = pending /\ p \in logLost'
        \/ /\ pending' = [pending EXCEPT ![p] = task[t].log \cup {task[t].content}]
           /\ logLost' = IF pending[p] = task[t].log THEN logLost ELSE logLost \cup {p}
    BY <1>9, Zenon DEF NoteStore, StoreLog, LogFails
  <2> HIDE DEF p
  <2>6. /\ \A q \in Members \ {p} : pending'[q] = pending[q]
        /\ p \notin logLost' => pending'[p] = pending[p] \cup {task[t].content}
    BY <2>1, <2>5
  <2>7. ASSUME NEW q \in Members, NEW g \in Namespaces, NEW s \in Slots, IsSegment(s), Own(q, g, s)
        PROVE  SlotKeeps(q, g, s)
    <3>1. SlotInv(q, g, s)
      BY <2>7 DEF IInv, SegmentInv, SegmentSlots
    <3>2. \A x \in Tasks : Mine(x, q, s[1])' /\ Active(x)' =>
            /\ Mine(x, q, s[1]) /\ Active(x)
            /\ task'[x].at \in Undeclared => task[x].at \in Undeclared
            /\ task'[x].at \in {"clear", "clearing"} /\ ~task'[x].ok =>
                 task[x].at \in {"clear", "clearing"} /\ ~task[x].ok
      BY <2>3 DEF Mine, Undeclared, Writing
    <3>3. q = p /\ ns[q] = 1 /\ g = 2 => s[1] # task[t].content
      BY <2>3, <3>1 DEF SlotInv, Mine, p
    <3>4. q \notin logLost' =>
            /\ ns[q] = 1 /\ g = 2 /\ s[1] \in pending'[q] => s[1] \in pending[q]
            /\ s[1] \in pending[q] => s[1] \in pending'[q]
      BY <2>6, <3>3
    <3> QED BY <2>4, <3>2, <3>4 DEF SlotKeeps
  <2> QED BY <2>1, <2>4, <2>7, SlotsKept
<1>10. ASSUME NEW t \in Tasks, StoreSegment(t)
      PROVE  SegmentSlots'
  <2> DEFINE p == Owner[t]
  <2>1. p \in Members /\ Mono
    BY OwnerType, MonoStep
  <2>2. TaskBecomes(t, "write", task[t].ok, task[t].content, task[t].seg + 1, task[t].log)
    BY <1>10, StoreSegmentTask
  <2>3. /\ \A x \in Tasks : /\ task'[x].at = task[x].at /\ task'[x].content = task[x].content
                            /\ task'[x].ok = task[x].ok /\ (Active(x)' <=> Active(x))
        /\ Active(t) /\ task[t].at = "write"
    BY <1>10, <2>2 DEF TaskBecomes, StoreSegment, Active, Undeclared, Clearing, Writing
  <2>4. UNCHANGED <<ns, pending, logLost>> /\ ns[p] \in Namespaces
    BY <1>10, <2>1 DEF StoreSegment, spaceVars, logVars, IInv, Types, SpaceTypes
  <2>5. PICK s \in Slots : OwnAdds(p, s) /\ s[1] = task[t].content
    BY <1>10, StoreSegmentOwn
  <2>9. PICK h \in Namespaces : h = ns[p]
    BY <2>4
  <2> HIDE DEF p
  <2>6. ASSUME NEW q \in Members, NEW g \in Namespaces, NEW x \in Slots, IsSegment(x), Own(q, g, x)
        PROVE  SlotInv(q, g, x)'
    <3>1. SlotKeeps(q, g, x)
      BY <2>3, <2>4 DEF SlotKeeps, Mine
    <3> QED BY <2>1, <2>6, <3>1, SlotKept
  <2>7. SlotInv(p, h, s)'
    <3>1. task[t].content \in used
      BY <2>3, TaskInvFacts
    <3>2. p \notin logLost => task[t].content \in pending[p]
      BY <2>3, LogFacts DEF Logging, p
    <3>3. ASSUME NEW x \in Tasks, Mine(x, p, s[1])'
          PROVE  ~(task'[x].at \in {"clear", "clearing"})
      <4>1. task[x].content = task[t].content
        BY <2>3, <2>5, <3>3 DEF Mine
      <4>2. Active(x) => x = t
        BY <2>3, <4>1, TaskInvFacts
      <4> QED BY <2>3, <4>2 DEF Active, Clearing
    <3> QED BY <2>1, <2>4, <2>5, <2>9, <3>1, <3>2, <3>3 DEF SlotInv, Mono
  <2>8. \A q \in Members, g \in Namespaces, x \in Slots :
          Own(q, g, x)' => Own(q, g, x) \/ (q = p /\ g = h /\ x = s)
    BY <2>5, <2>9 DEF OwnAdds
  <2> QED BY <2>6, <2>7, <2>8 DEF SegmentSlots, IsSegment
<1>11. ASSUME NEW t \in Tasks, SegmentFails(t)
      PROVE  SegmentSlots'
  <2>1. TaskBecomes(t, "discard", FALSE, task[t].content, task[t].seg, task[t].log)
    BY <1>11, SegmentFailsTask
  <2>2. OwnShrinks
    BY <1>11, UnchangedShrinks DEF SegmentFails, indexVars
  <2>3. UNCHANGED <<pending, ns>>
    BY <1>11 DEF SegmentFails, logVars, spaceVars
  <2> QED BY <1>11, <2>1, <2>2, <2>3, SlotsMove DEF SegmentFails, TaskBecomes, Active, Undeclared, Clearing, Writing
<1>12. ASSUME NEW t \in Tasks, Declare(t)
      PROVE  SegmentSlots'
  <2>1. TaskBecomes(t, "declared", task[t].ok, task[t].content, task[t].seg, task[t].log)
    BY <1>12, GotoSteps
  <2>2. OwnShrinks
    BY <1>12, UnchangedShrinks DEF Declare, indexVars
  <2>3. UNCHANGED <<pending, ns>>
    BY <1>12 DEF Declare, logVars, spaceVars
  <2> QED BY <1>12, <2>1, <2>2, <2>3, SlotsMove DEF Declare, Complete, TaskBecomes, Active, Undeclared, Clearing, Writing
<1>13. ASSUME NEW t \in Tasks, DeclareRefused(t)
      PROVE  SegmentSlots'
  <2>1. PICK at, ok, c, seg, log : TaskBecomes(t, at, ok, c, seg, log) /\ at \notin Undeclared \cup Clearing
    BY <1>13, GotoSteps DEF Active, Undeclared, Clearing, Writing
  <2>2. OwnShrinks
    BY <1>13, UnchangedShrinks DEF DeclareRefused, indexVars
  <2>3. UNCHANGED <<pending, ns>>
    BY <1>13 DEF DeclareRefused, logVars, spaceVars
  <2> QED BY <2>1, <2>2, <2>3, SlotsMove
<1>14. ASSUME NEW t \in Tasks, Persist(t)
      PROVE  SegmentSlots'
  <2>1. TaskBecomes(t, "clear", task[t].ok, task[t].content, task[t].seg, task[t].log)
    BY <1>14, GotoSteps
  <2>2. OwnShrinks
    BY <1>14, UnchangedShrinks DEF Persist, indexVars
  <2>3. UNCHANGED <<pending, ns>>
    BY <1>14 DEF Persist, logVars, spaceVars
  <2> QED BY <1>14, <2>1, <2>2, <2>3, SlotsMove, TaskInvFacts DEF Persist, TaskBecomes, Active, Undeclared, Clearing, Writing
<1>15. ASSUME NEW t \in Tasks, Discard(t)
      PROVE  SegmentSlots'
  <2> DEFINE p == Owner[t]
  <2>1. p \in Members /\ Mono /\ pending \in [Members -> SUBSET Contents]
    BY OwnerType, MonoStep DEF IInv, Types, TaskTypes
  <2>2. TaskBecomes(t, "clear", task[t].ok, task[t].content, task[t].seg, task[t].log)
    BY <1>15, GotoSteps
  <2>3. /\ \A x \in Tasks \ {t} : task'[x] = task[x] /\ (Active(x)' <=> Active(x))
        /\ task'[t].at = "clear" /\ task'[t].content = task[t].content
        /\ Active(t) /\ task[t].at \in Undeclared
    BY <1>15, <2>2 DEF TaskBecomes, Discard, Active, Undeclared, Clearing, Writing
  <2>4. ns' = ns /\ pending' = pending /\ ns[p] \in Namespaces
    BY <1>15, <2>1 DEF Discard, spaceVars, logVars, IInv, Types, SpaceTypes
  <2>5. OwnDrops(p, ns[p], {task[t].content})
    BY <1>15, DiscardOwn
  <2> HIDE DEF p
  <2>6. OwnShrinks
    BY <2>5 DEF OwnDrops, OwnShrinks
  <2>7. ASSUME NEW q \in Members, NEW g \in Namespaces, NEW s \in Slots, IsSegment(s),
               Own(q, g, s), Own(q, g, s)'
        PROVE  SlotKeeps(q, g, s)
    <3>1. SlotInv(q, g, s)
      BY <2>7 DEF IInv, SegmentInv, SegmentSlots
    <3>2. q = p /\ s[1] = task[t].content => g # ns[p]
      BY <2>5, <2>7 DEF OwnDrops
    <3>3. q = p /\ s[1] = task[t].content => s[1] \in cut
      BY <2>3, <2>4, <3>1, <3>2 DEF SlotInv, Mine, p, Namespaces
    <3>4. ASSUME NEW x \in Tasks, Mine(x, q, s[1])', Active(x)'
          PROVE  /\ Mine(x, q, s[1]) /\ Active(x)
                 /\ task'[x].at \in Undeclared => task[x].at \in Undeclared
                 /\ task'[x].at \in {"clear", "clearing"} /\ ~task'[x].ok =>
                      (task[x].at \in {"clear", "clearing"} /\ ~task[x].ok) \/ s[1] \in cut
      <4>1. CASE x = t
        BY <2>3, <3>3, <3>4, <4>1 DEF Mine, p
      <4>2. CASE x # t
        BY <2>3, <3>4, <4>2 DEF Mine
      <4> QED BY <4>1, <4>2
    <3> QED BY <2>4, <3>4 DEF SlotKeeps
  <2> QED BY <2>1, <2>6, <2>7, SlotsKept
<1>16. ASSUME NEW t \in Tasks, ClearLoad(t)
      PROVE  SegmentSlots'
  <2>1. TaskBecomes(t, "clearing", task[t].ok, task[t].content, task[t].seg, pending[Owner[t]])
    BY <1>16, GotoSteps
  <2>2. OwnShrinks
    BY <1>16, UnchangedShrinks DEF ClearLoad, indexVars
  <2>3. UNCHANGED <<pending, ns>>
    BY <1>16 DEF ClearLoad, logVars, spaceVars
  <2> QED BY <1>16, <2>1, <2>2, <2>3, SlotsMove DEF ClearLoad, TaskBecomes, Active, Undeclared, Clearing, Writing
<1>17. ASSUME NEW t \in Tasks, ClearStore(t)
      PROVE  SegmentSlots'
  <2> DEFINE p == Owner[t]
  <2>1. p \in Members /\ Mono /\ pending \in [Members -> SUBSET Contents]
    BY OwnerType, MonoStep DEF IInv, Types, TaskTypes
  <2>2. \/ TaskBecomes(t, "idle", TRUE, NoContent, 0, {})
        \/ TaskBecomes(t, "withdraw", task[t].ok, task[t].content, task[t].seg, {})
    BY <1>17, ClearStoreTask
  <2>3. /\ \A x \in Tasks \ {t} : task'[x] = task[x] /\ (Active(x)' <=> Active(x))
        /\ ~Active(t)'
        /\ Active(t) /\ task[t].at = "clearing"
    BY <1>17, <2>2 DEF TaskBecomes, ClearStore, Active, Undeclared, Clearing, Writing
  <2>4. OwnShrinks /\ ns' = ns /\ logLost \subseteq logLost'
    BY <1>17, UnchangedShrinks DEF ClearStore, indexVars, spaceVars, StoreLog, LogFails
  <2>5. \/ pending' = pending /\ p \in logLost'
        \/ /\ pending' = [pending EXCEPT ![p] = task[t].log \ {task[t].content}]
           /\ logLost' = IF pending[p] = task[t].log THEN logLost ELSE logLost \cup {p}
    BY <1>17, Zenon DEF ClearStore, StoreLog, LogFails
  <2> HIDE DEF p
  <2>6. /\ \A q \in Members \ {p} : pending'[q] = pending[q]
        /\ p \notin logLost' => pending'[p] = pending[p] \ {task[t].content}
    BY <2>1, <2>5
  <2>7. ASSUME NEW q \in Members, NEW g \in Namespaces, NEW s \in Slots, IsSegment(s), Own(q, g, s)
        PROVE  SlotKeeps(q, g, s)
    <3>1. SlotInv(q, g, s)
      BY <2>7 DEF IInv, SegmentInv, SegmentSlots
    <3>2. \A x \in Tasks : Mine(x, q, s[1])' /\ Active(x)' =>
            /\ Mine(x, q, s[1]) /\ Active(x)
            /\ task'[x].at \in Undeclared => task[x].at \in Undeclared
            /\ task'[x].at \in {"clear", "clearing"} /\ ~task'[x].ok =>
                 task[x].at \in {"clear", "clearing"} /\ ~task[x].ok
      BY <2>3 DEF Mine
    <3>3. q = p /\ s[1] = task[t].content => s[1] \in cut' \cup ContentsOf(saved'[p].manifest)
      <4>1. CASE task[t].ok
        BY <2>1, <2>3, <4>1, TaskInvFacts DEF Mono, p
      <4>2. CASE ~task[t].ok
        BY <2>1, <2>3, <3>1, <4>2 DEF SlotInv, Mine, Mono, p
      <4> QED BY <4>1, <4>2
    <3>4. q \notin logLost' =>
            /\ s[1] \in pending'[q] => s[1] \in pending[q]
            /\ s[1] \in pending[q] => s[1] \in pending'[q] \cup cut' \cup ContentsOf(saved'[q].manifest)
      BY <2>6, <3>3
    <3> QED BY <2>4, <3>2, <3>4 DEF SlotKeeps
  <2> QED BY <2>1, <2>4, <2>7, SlotsKept
<1>18. ASSUME NEW t \in Tasks, Withdraw(t)
      PROVE  SegmentSlots'
  <2>1. PICK at, ok, c, seg, log : TaskBecomes(t, at, ok, c, seg, log) /\ at \notin Undeclared \cup Clearing
    BY <1>18, GotoSteps DEF Active, Undeclared, Clearing, Writing
  <2>2. OwnShrinks
    <3>1. CASE DeleteFile(Owner[t], task[t].entry)
      BY <3>1, DeleteOwn, OwnerType DEF OwnDrops, OwnShrinks
    <3>2. CASE UNCHANGED <<manifestVars, indexVars>>
      BY <3>2, UnchangedShrinks DEF indexVars
    <3> QED BY <1>18, <3>1, <3>2 DEF Withdraw
  <2>3. UNCHANGED <<pending, ns>>
    BY <1>18 DEF Withdraw, logVars, spaceVars
  <2> QED BY <2>1, <2>2, <2>3, SlotsMove
<1>19. ASSUME NEW p \in Members, NEW e \in Entries, Delete(p, e)
      PROVE  SegmentSlots'
  <2>1. OwnShrinks
    BY <1>19, DeleteOwn DEF Delete, OwnDrops, OwnShrinks
  <2>2. UNCHANGED <<task, pending, ns>>
    BY <1>19 DEF Delete, logVars, spaceVars
  <2> QED BY <2>1, <2>2, SlotsQuiet
<1>20. ASSUME NEW p \in Members, NEW e \in Entries, NEW v \in AllVersions(manifest[p]),
              RevertAsset(p, e, v)
      PROVE  SegmentSlots'
  <2>1. OwnShrinks
    BY <1>20, UnchangedShrinks DEF RevertAsset, indexVars
  <2>2. UNCHANGED <<task, pending, ns>>
    BY <1>20 DEF RevertAsset, logVars, spaceVars
  <2> QED BY <2>1, <2>2, SlotsQuiet
<1>21. ASSUME NEW p \in Members, NEW q \in Members, ManifestArrived(p, q)
      PROVE  SegmentSlots'
  <2>1. OwnShrinks
    BY <1>21, UnchangedShrinks DEF ManifestArrived, indexVars
  <2>2. UNCHANGED <<task, pending, ns>>
    BY <1>21 DEF ManifestArrived, logVars, spaceVars
  <2> QED BY <2>1, <2>2, SlotsQuiet
<1>22. ASSUME NEW p \in Members, NEW q \in Members, NEW a \in Members, NEW s \in Slots,
              Reconcile(p, q, a, s)
      PROVE  SegmentSlots'
  <2>1. OwnShrinks
    BY <1>22, ReconcileSame DEF OwnSame, OwnShrinks
  <2>2. UNCHANGED <<task, pending, ns>>
    BY <1>22 DEF Reconcile, logVars, spaceVars
  <2> QED BY <2>1, <2>2, SlotsQuiet
<1>23. ASSUME NEW p \in Members, NEW s \in Slots, Carry(p, s)
      PROVE  SegmentSlots'
  <2>1. Mono /\ UNCHANGED <<ns, pending, logLost, task>> /\ s \in carry[p]
    BY <1>23, MonoStep DEF Carry, logVars
  <2>2. OwnAdds(p, s) \/ OwnSame
    BY <1>23, CarryOwn
  <2>3. ns[p] = 2 /\ s[1] \in ContentsOf(manifest[p])
    BY <2>1 DEF IInv, Bounds, MemberBounds, SegmentInv, CarriesDeclared
  <2>4. \A x \in Tasks : Active(x)' <=> Active(x)
    BY <2>1 DEF Active
  <2>5. ASSUME NEW q \in Members, NEW g \in Namespaces, NEW x \in Slots, IsSegment(x), Own(q, g, x)
        PROVE  SlotInv(q, g, x)'
    <3>1. SlotKeeps(q, g, x)
      BY <2>1, <2>4 DEF SlotKeeps, Mine
    <3> QED BY <2>1, <2>5, <3>1, SlotKept
  <2>6. SlotInv(p, 2, s)'
    <3>1. s[1] \in Declared
      BY <2>3, DeclaredNow
    <3>2. s[1] \in used'
      <4>1. Declared \subseteq used
        BY DEF IInv, History, SoundLineages, Lineages, Declared, ContentsOf
      <4> QED BY <2>1, <3>1, <4>1 DEF Mono
    <3>3. ASSUME NEW x \in Tasks, Mine(x, p, s[1])', task'[x].at \in {"clear", "clearing"}, ~task'[x].ok
          PROVE  FALSE
      <4>1. task[x].content = s[1] /\ Active(x) /\ ~task[x].ok
        BY <2>1, <3>3 DEF Mine, Active, Clearing
      <4> QED BY <3>1, <4>1, TaskInvFacts
    <3>4. p \notin logLost => s[1] \in pending[p] \cup ContentsOf(saved[p].manifest)
      <4>1. PICK v \in manifest[p].versions : v.content = s[1]
        BY <2>3 DEF ContentsOf
      <4>2. CASE v \in saved[p].manifest.versions
        BY <4>1, <4>2 DEF ContentsOf
      <4>3. CASE v \notin saved[p].manifest.versions
        <5>1. PICK x \in Tasks : Mine(x, p, s[1]) /\ task[x].at = "declared"
          BY <4>1, <4>3 DEF IInv, TaskInv
        <5> QED BY <5>1, LogFacts DEF Mine, Logging, Clearing
      <4> QED BY <4>2, <4>3
    <3> QED BY <2>1, <2>3, <3>2, <3>3, <3>4 DEF SlotInv, Mono
  <2>7. \A q \in Members, g \in Namespaces, x \in Slots :
          Own(q, g, x)' => Own(q, g, x) \/ (q = p /\ g = 2 /\ x = s)
    BY <2>2, <2>3 DEF OwnAdds, OwnSame
  <2> QED BY <2>5, <2>6, <2>7 DEF SegmentSlots, IsSegment
<1>24. ASSUME NEW p \in Members, StoreKey(p)
      PROVE  SegmentSlots'
  <2>1. OwnShrinks
    BY <1>24, StoreKeyOwn DEF OwnAdds, OwnShrinks, IsSegment
  <2>2. UNCHANGED <<task, pending, ns>>
    BY <1>24 DEF StoreKey, logVars, spaceVars
  <2> QED BY <2>1, <2>2, SlotsQuiet
<1>25. ASSUME NEW p \in Members, AdoptNamespace(p)
      PROVE  SegmentSlots'
  <2>1. Mono /\ UNCHANGED <<index, pending, logLost, task, saved>> /\ ns[p] = 1
    BY <1>25, MonoStep DEF AdoptNamespace, logVars, indexVars, manifestVars
  <2>2. /\ ns'[p] = 2 /\ \A q \in Members \ {p} : ns'[q] = ns[q]
        /\ \A x \in Tasks : Owner[x] = p /\ task[x].at \in Undeclared => task[x].content \in cut'
    BY <1>25 DEF AdoptNamespace, IInv, Types, SpaceTypes
  <2>3. OwnShrinks /\ \A x \in Tasks : Active(x)' <=> Active(x)
    BY <2>1, UnchangedShrinks DEF Active
  <2>4. ASSUME NEW q \in Members, NEW g \in Namespaces, NEW x \in Slots, IsSegment(x), Own(q, g, x)
        PROVE  SlotInv(q, g, x)'
    <3>1. CASE q # p
      <4>1. SlotKeeps(q, g, x)
        BY <2>1, <2>2, <2>3, <3>1 DEF SlotKeeps, Mine
      <4> QED BY <2>1, <2>4, <4>1, SlotKept
    <3>2. CASE q = p
      <4>1. SlotInv(p, g, x)
        BY <2>4, <3>2 DEF IInv, SegmentInv, SegmentSlots
      <4>2. \A t \in Tasks : Mine(t, p, x[1])' =>
              /\ Mine(t, p, x[1])
              /\ task[t].at \in Undeclared => x[1] \in cut'
              /\ task[t].at \in {"clear", "clearing"} /\ ~task[t].ok => x[1] \in cut'
        BY <2>1, <2>2, <4>1 DEF SlotInv, Mine, Mono
      <4>3. /\ x[1] \in used'
            /\ (p \notin logLost' /\ saved'[p].ns <= g) =>
                 x[1] \in cut' \cup pending'[p] \cup ContentsOf(saved'[p].manifest)
        BY <2>1, <4>1 DEF SlotInv, Mono
      <4>4. SlotInv(p, g, x)'
        BY <2>1, <2>2, <4>2, <4>3 DEF SlotInv
      <4> QED BY <3>2, <4>4
    <3> QED BY <3>1, <3>2
  <2> QED BY <2>3, <2>4 DEF SegmentSlots, OwnShrinks, IsSegment
<1>26. ASSUME NEW p \in Members, Snapshot(p)
      PROVE  SegmentSlots'
  <2>1. OwnShrinks
    BY <1>26, UnchangedShrinks DEF Snapshot, indexVars
  <2>2. UNCHANGED <<task, pending, ns>>
    BY <1>26 DEF Snapshot, logVars, spaceVars
  <2> QED BY <2>1, <2>2, SlotsQuiet
<1>27. ASSUME NEW p \in Members, Restart(p)
      PROVE  SegmentSlots'
  <2>1. Mono /\ UNCHANGED <<logLost, saved, used>>
    BY <1>27, MonoStep DEF Restart
  <2>2. /\ ns'[p] = saved[p].ns /\ pending'[p] = {}
        /\ \A q \in Members \ {p} : ns'[q] = ns[q] /\ pending'[q] = pending[q]
        /\ CutByStop(p) \subseteq cut'
    BY <1>27 DEF Restart, IInv, Types, SpaceTypes, TaskTypes
  <2>3. \A x \in Tasks : /\ Owner[x] # p => task'[x] = task[x] /\ (Active(x)' <=> Active(x))
                         /\ Owner[x] = p => task'[x].at = "idle" /\ ~Active(x)'
    BY <1>27, RestartTask, IdleType DEF Active, Undeclared, Clearing, Writing
  <2>4. OwnDrops(p, saved[p].ns, pending[p])
    BY <1>27, RestartOwn
  <2>5. ns[p] \in Namespaces /\ saved[p].ns \in Namespaces /\ saved[p].ns <= ns[p]
    BY DEF IInv, Types, ManifestTypes, SpaceTypes, Bounds, MemberBounds
  <2>6. ASSUME NEW q \in Members, NEW g \in Namespaces, NEW x \in Slots, IsSegment(x), Own(q, g, x)'
        PROVE  SlotInv(q, g, x)'
    <3>1. Own(q, g, x) /\ ~(q = p /\ g = saved[p].ns /\ x[1] \in pending[p])
      BY <2>4, <2>6 DEF OwnDrops
    <3>2. CASE q # p
      <4>1. SlotKeeps(q, g, x)
        BY <2>1, <2>2, <2>3, <3>2 DEF SlotKeeps, Mine
      <4> QED BY <2>1, <2>6, <3>1, <4>1, SlotKept
    <3>3. CASE q = p
      <4>1. SlotInv(p, g, x)
        BY <2>6, <3>1, <3>3 DEF IInv, SegmentInv, SegmentSlots
      <4>2. x[1] \in used' /\ cut \subseteq cut'
        BY <2>1, <4>1 DEF SlotInv, Mono
      <4>3. \A t \in Tasks : Mine(t, p, x[1])' => task'[t].at = "idle" /\ ~Active(t)'
        BY <2>3 DEF Mine
      <4>4. ASSUME p \notin logLost, saved[p].ns <= g
            PROVE  x[1] \in cut' \cup ContentsOf(saved[p].manifest)
        <5>1. CASE x[1] \in pending[p]
          <6>1. saved[p].ns = 1 /\ g = 2
            BY <2>5, <3>1, <3>3, <4>4, <5>1 DEF Namespaces
          <6>2. ns[p] # 1
            BY <4>1, <4>4, <5>1, <6>1 DEF SlotInv
          <6>3. pending[p] \subseteq CutByStop(p)
            BY <6>1, <6>2 DEF CutByStop
          <6> QED BY <2>2, <5>1, <6>3
        <5>2. CASE x[1] \notin pending[p]
          BY <4>1, <4>2, <4>4, <5>2 DEF SlotInv
        <5> QED BY <5>1, <5>2
      <4> QED BY <2>1, <2>2, <3>3, <4>2, <4>3, <4>4 DEF SlotInv, Undeclared, Writing
    <3> QED BY <3>2, <3>3
  <2> QED BY <2>6 DEF SegmentSlots, IsSegment
<1>28. ASSUME UNCHANGED vars
      PROVE  UNCHANGED <<index, used, ns, pending, logLost, task, cut, saved>>
  BY <1>28, Zenon DEF vars, indexVars, logVars, manifestVars, spaceVars
<1>29. limit.tasks \subseteq Tasks /\ limit.sizes \subseteq 0..MaxSize
  BY LimitFacts DEF IInv, Types, TaskTypes
<1> QED BY <1>1, <1>2, <1>3, <1>4, <1>5, <1>6, <1>7, <1>8, <1>9, <1>10, <1>11, <1>12, <1>13,
           <1>14, <1>15, <1>16, <1>17, <1>18, <1>19, <1>20, <1>21, <1>22, <1>23, <1>24, <1>25,
           <1>26, <1>27, <1>28, <1>29 DEF Next

-----------------------------------------------------------------------------
(* What an attachment has written.                                         *)

BlobsGrow == \A p \in Members : blobs[p] \subseteq blobs'[p]

LEMMA BlobsStep ==
    ASSUME IInv, [Next]_vars
    PROVE  BlobsGrow
<1>1. ASSUME UNCHANGED <<blobs, asked>>
      PROVE  BlobsGrow
  BY <1>1 DEF BlobsGrow
<1>2. ASSUME NEW t, \/ \E e, size : AttachFile(t, e, size)
                    \/ \E e, size : AttachVersion(t, e, size)
                    \/ \E c : Seal(t, c)
                    \/ SealRefused(t) \/ NoteLoad(t) \/ NoteStore(t) \/ SegmentFails(t)
                    \/ Declare(t) \/ DeclareRefused(t) \/ Persist(t) \/ Discard(t)
                    \/ ClearLoad(t) \/ ClearStore(t)
      PROVE  UNCHANGED <<blobs, asked>>
  BY <1>2, Zenon DEF AttachFile, AttachVersion, Seal, SealRefused, NoteLoad, NoteStore,
     SegmentFails, Declare, DeclareRefused, Persist, Discard, ClearLoad, ClearStore, indexVars
<1>3. ASSUME NEW p, \/ \E e, v : RevertAsset(p, e, v)
                    \/ \E a, c : RequestRepair(p, a, c)
                    \/ \E q : ManifestArrived(p, q)
                    \/ \E s : Carry(p, s)
                    \/ StoreKey(p) \/ AdoptNamespace(p) \/ FinishAdopting(p) \/ Snapshot(p)
                    \/ Join(p) \/ Demote(p) \/ Restart(p)
      PROVE  UNCHANGED <<blobs, asked>>
  BY <1>3, Zenon DEF RevertAsset, RequestRepair, ManifestArrived, Carry, StoreKey, AdoptNamespace,
     FinishAdopting, Snapshot, Join, Demote, Restart, indexVars
<1>4. ASSUME NEW r, AnswerRepair(r)
      PROVE  UNCHANGED <<blobs, asked>>
  BY <1>4, Zenon DEF AnswerRepair, indexVars
<1>5. ASSUME NEW t \in Tasks, StoreSegment(t)
      PROVE  BlobsGrow
  BY <1>5 DEF StoreSegment, BlobsGrow, IInv, Types, IndexTypes
<1>6. ASSUME NEW t \in Tasks, Withdraw(t)
      PROVE  BlobsGrow
  BY <1>6, <1>1 DEF Withdraw, DeleteFile, indexVars
<1>7. ASSUME NEW p \in Members, NEW e \in Entries, Delete(p, e)
      PROVE  BlobsGrow
  BY <1>7, <1>1 DEF Delete, DeleteFile, indexVars
<1>8. ASSUME NEW p \in Members, NEW v \in AllVersions(manifest[p]), NEW i \in 1..MaxSegments,
              Export(p, v, i)
      PROVE  BlobsGrow
  BY <1>8 DEF Export, BlobsGrow, IInv, Types, IndexTypes
<1>9. ASSUME NEW p \in Members, NEW q \in Members, NEW a \in Members, NEW s \in Slots,
              Reconcile(p, q, a, s)
      PROVE  BlobsGrow
  BY <1>9 DEF Reconcile, BlobsGrow, IInv, Types, IndexTypes
<1>10. ASSUME UNCHANGED vars
      PROVE  UNCHANGED <<blobs, asked>>
  BY <1>10, Zenon DEF vars, indexVars
<1> QED BY <1>1, <1>2, <1>3, <1>4, <1>5, <1>6, <1>7, <1>8, <1>9, <1>10 DEF Next

(* p's own entries for content c stay set. *)
OwnKept(p, c) == \A h \in Namespaces, s \in Slots : s[1] = c /\ Own(p, h, s) => Own(p, h, s)'

LEMMA OwnAlwaysKept ==
    ASSUME OwnSame \/ \E p \in Members, s \in Slots : OwnAdds(p, s)
    PROVE  \A p \in Members : \A c : OwnKept(p, c)
BY DEF OwnSame, OwnAdds, OwnKept

WriteKeeps(x) ==
  /\ task'[x].at = "seal" => task'[x].seg = 0
  /\ task'[x].at \in Writing =>
       /\ task[x].at \in Writing
       /\ task'[x].content = task[x].content /\ task'[x].seg = task[x].seg
       /\ task[x].content \notin cut' =>
            ns'[Owner[x]] = ns[Owner[x]] /\ OwnKept(Owner[x], task[x].content)

LEMMA WriteKept ==
    ASSUME IInv, Mono, BlobsGrow, NEW x \in Tasks, WriteKeeps(x)
    PROVE  WritingOf(x)'
<1> DEFINE p == Owner[x]
<1>1. p \in Members /\ ns[p] \in Namespaces /\ task[x].seg \in Nat /\ task[x].seg <= MaxSegments /\ MaxSegments \in Nat
  BY TaskFacts
<1>2. ASSUME task'[x].at \in Writing
      PROVE  /\ \A i \in 1..task'[x].seg : <<task'[x].content, i>> \in blobs'[p]
             /\ task'[x].content \notin cut' =>
                  \A i \in 0..task'[x].seg : Own(p, ns[p], <<task[x].content, i>>)'
  <2>1. /\ task[x].at \in Writing
        /\ task'[x].content = task[x].content /\ task'[x].seg = task[x].seg
        /\ task[x].content \notin cut' => ns'[p] = ns[p] /\ OwnKept(p, task[x].content)
    BY <1>2 DEF WriteKeeps
  <2>2. /\ \A i \in 1..task[x].seg : <<task[x].content, i>> \in blobs[p]
        /\ task[x].content \notin cut => \A i \in 0..task[x].seg : Own(p, ns[p], <<task[x].content, i>>)
    BY <2>1 DEF IInv, WritingInv, WritingOf
  <2>3. \A i \in 1..task'[x].seg : <<task'[x].content, i>> \in blobs'[p]
    BY <1>1, <2>1, <2>2 DEF BlobsGrow
  <2>4. task[x].content \in Contents
    BY <2>1, TaskFacts DEF Active, Undeclared
  <2>5. PICK c \in Contents, h \in Namespaces : c = task[x].content /\ h = ns[p]
    BY <1>1, <2>4
  <2>6. ASSUME c \notin cut', NEW i \in 0..task[x].seg
        PROVE  Own(p, h, <<c, i>>)'
    <3>1. <<c, i>> \in Slots /\ <<c, i>>[1] = c
      BY <1>1, <2>6, SlotFacts
    <3>2. Own(p, h, <<c, i>>)
      BY <2>2, <2>5, <2>6 DEF Mono
    <3>3. OwnKept(p, c)
      BY <2>1, <2>5, <2>6
    <3> HIDE DEF p
    <3> QED BY <3>1, <3>2, <3>3 DEF OwnKept
  <2>7. task'[x].content = c /\ task'[x].seg = task[x].seg /\ (c \notin cut' => ns'[p] = h)
    BY <2>1, <2>5
  <2> QED BY <2>3, <2>5, <2>6, <2>7
<1> QED BY <1>2 DEF WriteKeeps, WritingOf

LEMMA WritesQuiet ==
    ASSUME IInv, [Next]_vars, UNCHANGED <<task, ns>>,
           \A x \in Tasks : task[x].at \in Writing => OwnKept(Owner[x], task[x].content)
    PROVE  WritingInv'
<1>1. Mono /\ BlobsGrow
  BY MonoStep, BlobsStep
<1>2. \A x \in Tasks : task[x].at = "seal" => task[x].seg = 0
  BY DEF IInv, WritingInv, WritingOf
<1>3. \A x \in Tasks : WriteKeeps(x)
  BY <1>2 DEF WriteKeeps
<1> QED BY <1>1, <1>3, WriteKept DEF WritingInv

LEMMA OthersWrite ==
    ASSUME IInv, [Next]_vars, ns' = ns, NEW t \in Tasks, \A x \in Tasks \ {t} : task'[x] = task[x],
           \A x \in Tasks \ {t} : task[x].at \in Writing => OwnKept(Owner[x], task[x].content),
           WritingOf(t)'
    PROVE  WritingInv'
<1>1. Mono /\ BlobsGrow
  BY MonoStep, BlobsStep
<1>2. \A x \in Tasks : task[x].at = "seal" => task[x].seg = 0
  BY DEF IInv, WritingInv, WritingOf
<1>3. \A x \in Tasks \ {t} : WriteKeeps(x)
  BY <1>2 DEF WriteKeeps
<1>4. \A x \in Tasks \ {t} : WritingOf(x)'
  BY <1>1, <1>3, WriteKept
<1> QED BY <1>4 DEF WritingInv

LEMMA WritesMove ==
    ASSUME IInv, [Next]_vars, ns' = ns, NEW t \in Tasks,
           NEW at, NEW ok, NEW c, NEW seg, NEW log, TaskBecomes(t, at, ok, c, seg, log),
           \A x \in Tasks : task[x].at \in Writing /\ (x # t \/ at \in Writing) =>
             OwnKept(Owner[x], task[x].content),
           at = "seal" => seg = 0,
           at \in Writing => task[t].at \in Writing /\ c = task[t].content /\ seg = task[t].seg
    PROVE  WritingInv'
<1>1. Mono /\ BlobsGrow
  BY MonoStep, BlobsStep
<1>2. /\ \A x \in Tasks \ {t} : task'[x] = task[x]
      /\ task'[t].at = at /\ task'[t].content = c /\ task'[t].seg = seg
  BY DEF TaskBecomes
<1>3. WriteKeeps(t)
  BY <1>2 DEF WriteKeeps
<1>4. WritingOf(t)'
  BY <1>1, <1>3, WriteKept
<1> QED BY <1>2, <1>4, OthersWrite

LEMMA UnchangedKept ==
    ASSUME IInv, UNCHANGED index
    PROVE  \A x \in Tasks : OwnKept(Owner[x], task[x].content)
BY UnchangedOwn, OwnAlwaysKept, OwnerType

LEMMA DeletedKept ==
    ASSUME IInv, NEW p \in Members, NEW e, DeleteFile(p, e)
    PROVE  \A x \in Tasks : task[x].at \in Writing => OwnKept(Owner[x], task[x].content)
<1> DEFINE cs == {v.content : v \in AssetVersions(manifest[p], e)}
<1>1. OwnDrops(p, ns[p], cs)
  BY DeleteOwn
<1>2. cs \subseteq Declared
  <2>1. \A v \in AssetVersions(manifest[p], e) : v \in manifest[p].versions
    BY DEF AssetVersions
  <2>2. ContentsOf(manifest[p]) \subseteq Declared
    BY DeclaredNow
  <2> QED BY <2>1, <2>2 DEF ContentsOf
<1> HIDE DEF cs
<1>3. ASSUME NEW x \in Tasks, task[x].at \in Writing PROVE task[x].content \notin cs
  BY <1>2, <1>3, TaskInvFacts DEF Active, Undeclared, Clearing, Writing
<1> QED BY <1>1, <1>3, OwnerType DEF OwnDrops, OwnKept

LEMMA WritingInvStep ==
    ASSUME IInv, [Next]_vars
    PROVE  WritingInv'
<1>1. ASSUME UNCHANGED <<task, blobs, index, ns, cut>>
      PROVE  WritingInv'
  <2>1. \A x \in Tasks : OwnKept(Owner[x], task[x].content)
    BY <1>1, UnchangedKept
  <2> QED BY <1>1, <2>1, WritesQuiet
<1>2. ASSUME NEW p, \/ \E e, v : RevertAsset(p, e, v)
                    \/ \E a, c : RequestRepair(p, a, c)
                    \/ \E q : ManifestArrived(p, q)
                    \/ FinishAdopting(p) \/ Snapshot(p) \/ Join(p) \/ Demote(p)
      PROVE  UNCHANGED <<task, blobs, index, ns, cut>>
  BY <1>2, Zenon DEF RevertAsset, RequestRepair, ManifestArrived, FinishAdopting, Snapshot, Join,
     Demote, indexVars, spaceVars
<1>3. ASSUME NEW r, AnswerRepair(r)
      PROVE  UNCHANGED <<task, blobs, index, ns, cut>>
  BY <1>3, Zenon DEF AnswerRepair, indexVars, spaceVars
<1>4. ASSUME NEW t \in Tasks, NEW e \in Entries, NEW size \in 0..MaxSize, AttachFile(t, e, size)
      PROVE  WritingInv'
  <2>1. PICK at, ok, c, seg, log : TaskBecomes(t, at, ok, c, seg, log) /\ at = "seal" /\ seg = 0
    BY <1>4, StartTask DEF TaskBecomes
  <2>2. ns' = ns /\ \A x \in Tasks : OwnKept(Owner[x], task[x].content)
    BY <1>4, UnchangedKept DEF AttachFile, indexVars, spaceVars
  <2> QED BY <2>1, <2>2, WritesMove DEF Writing
<1>5. ASSUME NEW t \in Tasks, NEW e \in Entries, NEW size \in 0..MaxSize, AttachVersion(t, e,
              size)
      PROVE  WritingInv'
  <2>1. PICK at, ok, c, seg, log : TaskBecomes(t, at, ok, c, seg, log) /\ at = "seal" /\ seg = 0
    BY <1>5, StartTask DEF TaskBecomes
  <2>2. ns' = ns /\ \A x \in Tasks : OwnKept(Owner[x], task[x].content)
    BY <1>5, UnchangedKept DEF AttachVersion, indexVars, spaceVars
  <2> QED BY <2>1, <2>2, WritesMove DEF Writing
<1>6. ASSUME NEW t \in Tasks, NEW c \in Contents, Seal(t, c)
      PROVE  WritingInv'
  <2> DEFINE p == Owner[t]
  <2>1. TaskBecomes(t, "note", task[t].ok, c, task[t].seg, task[t].log)
    BY <1>6, SealTask
  <2>2. OwnAdds(p, <<c, 0>>) /\ <<c, 0>> \in Slots /\ p \in Members /\ ns[p] \in Namespaces
    BY <1>6, SealOwn, TaskFacts
  <2>3. ns' = ns /\ task[t].seg = 0
    BY <1>6 DEF Seal, spaceVars, IInv, WritingInv, WritingOf
  <2>4. \A x \in Tasks : OwnKept(Owner[x], task[x].content)
    BY <2>2, OwnAlwaysKept, OwnerType
  <2>5. PICK h \in Namespaces : h = ns[p]
    BY <2>2
  <2>6. Own(p, h, <<c, 0>>)'
    BY <2>2, <2>5 DEF OwnAdds
  <2>7. task'[t].content = c /\ task'[t].seg = 0 /\ task'[t].at # "seal" /\ ns'[p] = h
    BY <2>1, <2>3, <2>5 DEF TaskBecomes
  <2>8. \A i \in 0..0 : i = 0
    OBVIOUS
  <2>9. \A i : i \notin 1..0
    OBVIOUS
  <2>10. WritingOf(t)'
    BY <2>6, <2>7, <2>8, <2>9 DEF WritingOf
  <2> QED BY <2>1, <2>3, <2>4, <2>10, OthersWrite DEF TaskBecomes
<1>7. ASSUME NEW t \in Tasks, SealRefused(t)
      PROVE  WritingInv'
  <2>1. PICK at, ok, c, seg, log : TaskBecomes(t, at, ok, c, seg, log) /\ at \in {"idle", "withdraw"}
    BY <1>7, GotoSteps
  <2>2. ns' = ns /\ \A x \in Tasks : OwnKept(Owner[x], task[x].content)
    BY <1>7, UnchangedKept DEF SealRefused, indexVars, spaceVars
  <2> QED BY <2>1, <2>2, WritesMove DEF Writing
<1>8. ASSUME NEW t \in Tasks, NoteLoad(t)
      PROVE  WritingInv'
  <2>1. TaskBecomes(t, "noted", task[t].ok, task[t].content, task[t].seg, pending[Owner[t]])
    BY <1>8, GotoSteps
  <2>2. ns' = ns /\ \A x \in Tasks : OwnKept(Owner[x], task[x].content)
    BY <1>8, UnchangedKept DEF NoteLoad, indexVars, spaceVars
  <2> QED BY <1>8, <2>1, <2>2, WritesMove DEF NoteLoad, Writing
<1>9. ASSUME NEW t \in Tasks, NoteStore(t)
      PROVE  WritingInv'
  <2>1. PICK at, ok, log : TaskBecomes(t, at, ok, task[t].content, task[t].seg, log) /\ at = "write"
    BY <1>9, GotoSteps DEF TaskBecomes
  <2>2. ns' = ns /\ task[t].at = "noted" /\ \A x \in Tasks : OwnKept(Owner[x], task[x].content)
    BY <1>9, UnchangedKept DEF NoteStore, indexVars, spaceVars
  <2> QED BY <2>1, <2>2, WritesMove DEF Writing
<1>10. ASSUME NEW t \in Tasks, StoreSegment(t)
      PROVE  WritingInv'
  <2> DEFINE p == Owner[t]
             k == task[t].seg
  <2>1. TaskBecomes(t, "write", task[t].ok, task[t].content, task[t].seg + 1, task[t].log)
    BY <1>10, StoreSegmentTask
  <2>2. PICK c \in Contents, h \in Namespaces, n \in Nat : c = task[t].content /\ h = ns[p] /\ n = k + 1
    <3>1. Active(t)
      BY <1>10 DEF StoreSegment, Active, Undeclared, Clearing, Writing
    <3> QED BY <3>1, TaskFacts
  <2>3. OwnAdds(p, <<c, n>>) /\ <<c, n>> \in Slots /\ p \in Members /\ k \in Nat /\ n <= MaxSegments /\ MaxSegments \in Nat
    BY <1>10, <2>2, StoreSegmentOwn, TaskFacts
  <2>4. ns' = ns /\ task[t].at = "write" /\ <<c, n>> \in blobs'[p] /\ cut' = cut
    BY <1>10, <2>2, <2>3 DEF StoreSegment, spaceVars, IInv, Types, IndexTypes
  <2>5. \A x \in Tasks : OwnKept(Owner[x], task[x].content)
    BY <2>3, OwnAlwaysKept, OwnerType
  <2>6. BlobsGrow
    BY BlobsStep
  <2>7. /\ \A i \in 1..k : <<c, i>> \in blobs[p]
        /\ c \notin cut => \A i \in 0..k : Own(p, h, <<c, i>>)
    BY <2>2, <2>4 DEF IInv, WritingInv, WritingOf, Writing
  <2>8. \A i \in 1..n : <<c, i>> \in blobs'[p]
    BY <2>2, <2>3, <2>4, <2>6, <2>7 DEF BlobsGrow
  <2>9. ASSUME c \notin cut', NEW i \in 0..n PROVE Own(p, h, <<c, i>>)'
    <3>1. CASE i = n
      BY <2>2, <2>3, <3>1 DEF OwnAdds
    <3>2. CASE i # n
      <4>1. i \in 0..k /\ <<c, i>> \in Slots /\ <<c, i>>[1] = c
        BY <2>2, <2>3, <2>9, <3>2, SlotFacts
      <4>2. Own(p, h, <<c, i>>)
        BY <2>4, <2>7, <2>9, <4>1
      <4>3. OwnKept(p, c)
        BY <2>2, <2>5
      <4> HIDE DEF p, k
      <4> QED BY <4>1, <4>2, <4>3 DEF OwnKept
    <3> QED BY <3>1, <3>2
  <2>10. task'[t].content = c /\ task'[t].seg = n /\ task'[t].at # "seal" /\ ns'[p] = h
    BY <2>1, <2>2, <2>4 DEF TaskBecomes
  <2>11. WritingOf(t)'
    BY <2>8, <2>9, <2>10 DEF WritingOf
  <2> QED BY <2>1, <2>4, <2>5, <2>11, OthersWrite DEF TaskBecomes
<1>11. ASSUME NEW t \in Tasks, SegmentFails(t)
      PROVE  WritingInv'
  <2>1. PICK at, ok, c, seg, log : TaskBecomes(t, at, ok, c, seg, log) /\ at = "discard"
    BY <1>11, SegmentFailsTask DEF TaskBecomes
  <2>2. ns' = ns /\ \A x \in Tasks : OwnKept(Owner[x], task[x].content)
    BY <1>11, UnchangedKept DEF SegmentFails, indexVars, spaceVars
  <2> QED BY <2>1, <2>2, WritesMove DEF Writing
<1>12. ASSUME NEW t \in Tasks, Declare(t)
      PROVE  WritingInv'
  <2>1. TaskBecomes(t, "declared", task[t].ok, task[t].content, task[t].seg, task[t].log)
    BY <1>12, GotoSteps
  <2>2. ns' = ns /\ \A x \in Tasks : OwnKept(Owner[x], task[x].content)
    BY <1>12, UnchangedKept DEF Declare, indexVars, spaceVars
  <2> QED BY <1>12, <2>1, <2>2, WritesMove DEF Declare, Writing
<1>13. ASSUME NEW t \in Tasks, DeclareRefused(t)
      PROVE  WritingInv'
  <2>1. PICK at, ok, c, seg, log : TaskBecomes(t, at, ok, c, seg, log) /\ at \in {"idle", "withdraw"}
    BY <1>13, GotoSteps
  <2>2. ns' = ns /\ \A x \in Tasks : OwnKept(Owner[x], task[x].content)
    BY <1>13, UnchangedKept DEF DeclareRefused, indexVars, spaceVars
  <2> QED BY <2>1, <2>2, WritesMove DEF Writing
<1>14. ASSUME NEW t \in Tasks, Persist(t)
      PROVE  WritingInv'
  <2>1. TaskBecomes(t, "clear", task[t].ok, task[t].content, task[t].seg, task[t].log)
    BY <1>14, GotoSteps
  <2>2. ns' = ns /\ \A x \in Tasks : OwnKept(Owner[x], task[x].content)
    BY <1>14, UnchangedKept DEF Persist, indexVars, spaceVars
  <2> QED BY <1>14, <2>1, <2>2, WritesMove DEF Persist, Writing
<1>15. ASSUME NEW t \in Tasks, Discard(t)
      PROVE  WritingInv'
  <2>1. TaskBecomes(t, "clear", task[t].ok, task[t].content, task[t].seg, task[t].log)
    BY <1>15, GotoSteps
  <2>2. ns' = ns /\ Active(t)
    BY <1>15 DEF Discard, spaceVars, Active, Undeclared, Clearing, Writing
  <2>3. OwnDrops(Owner[t], ns[Owner[t]], {task[t].content})
    BY <1>15, DiscardOwn
  <2>4. ASSUME NEW x \in Tasks \ {t}, task[x].at \in Writing PROVE OwnKept(Owner[x], task[x].content)
    <3>1. task[x].content # task[t].content
      BY <2>2, <2>4, TaskInvFacts DEF Active, Undeclared, Clearing, Writing
    <3> QED BY <2>3, <3>1, OwnerType DEF OwnDrops, OwnKept
  <2> QED BY <2>1, <2>2, <2>4, WritesMove DEF Writing
<1>16. ASSUME NEW t \in Tasks, ClearLoad(t)
      PROVE  WritingInv'
  <2>1. TaskBecomes(t, "clearing", task[t].ok, task[t].content, task[t].seg, pending[Owner[t]])
    BY <1>16, GotoSteps
  <2>2. ns' = ns /\ \A x \in Tasks : OwnKept(Owner[x], task[x].content)
    BY <1>16, UnchangedKept DEF ClearLoad, indexVars, spaceVars
  <2> QED BY <1>16, <2>1, <2>2, WritesMove DEF ClearLoad, Writing
<1>17. ASSUME NEW t \in Tasks, ClearStore(t)
      PROVE  WritingInv'
  <2>1. PICK at, ok, c, seg, log : TaskBecomes(t, at, ok, c, seg, log) /\ at \in {"idle", "withdraw"}
    BY <1>17, ClearStoreTask DEF TaskBecomes
  <2>2. ns' = ns /\ \A x \in Tasks : OwnKept(Owner[x], task[x].content)
    BY <1>17, UnchangedKept DEF ClearStore, indexVars, spaceVars
  <2> QED BY <2>1, <2>2, WritesMove DEF Writing
<1>18. ASSUME NEW t \in Tasks, Withdraw(t)
      PROVE  WritingInv'
  <2>1. PICK at, ok, c, seg, log : TaskBecomes(t, at, ok, c, seg, log) /\ at = "idle"
    BY <1>18, GotoSteps
  <2>2. ns' = ns
    BY <1>18 DEF Withdraw, spaceVars
  <2>3. \A x \in Tasks : task[x].at \in Writing => OwnKept(Owner[x], task[x].content)
    <3>1. CASE DeleteFile(Owner[t], task[t].entry)
      BY <3>1, DeletedKept, OwnerType
    <3>2. CASE UNCHANGED <<manifestVars, indexVars>>
      BY <3>2, UnchangedKept DEF indexVars
    <3> QED BY <1>18, <3>1, <3>2 DEF Withdraw
  <2> QED BY <2>1, <2>2, <2>3, WritesMove DEF Writing
<1>19. ASSUME NEW p \in Members, NEW e \in Entries, Delete(p, e)
      PROVE  WritingInv'
  <2>1. UNCHANGED <<task, ns>> /\ DeleteFile(p, e)
    BY <1>19 DEF Delete, spaceVars
  <2> QED BY <2>1, DeletedKept, WritesQuiet
<1>20. ASSUME NEW p \in Members, NEW v \in AllVersions(manifest[p]), NEW i \in 1..MaxSegments,
              Export(p, v, i)
      PROVE  WritingInv'
  <2>1. UNCHANGED <<task, ns>>
    BY <1>20 DEF Export, spaceVars
  <2>2. \A x \in Tasks : OwnKept(Owner[x], task[x].content)
    BY <1>20, UnchangedKept DEF Export
  <2> QED BY <2>1, <2>2, WritesQuiet
<1>21. ASSUME NEW p \in Members, NEW q \in Members, NEW a \in Members, NEW s \in Slots,
              Reconcile(p, q, a, s)
      PROVE  WritingInv'
  <2>1. UNCHANGED <<task, ns>>
    BY <1>21 DEF Reconcile, spaceVars
  <2>2. \A x \in Tasks : OwnKept(Owner[x], task[x].content)
    BY <1>21, ReconcileSame, OwnAlwaysKept, OwnerType
  <2> QED BY <2>1, <2>2, WritesQuiet
<1>22. ASSUME NEW p \in Members, NEW s \in Slots, Carry(p, s)
      PROVE  WritingInv'
  <2>1. UNCHANGED <<task, ns>>
    BY <1>22 DEF Carry, spaceVars
  <2>2. \A x \in Tasks : OwnKept(Owner[x], task[x].content)
    BY <1>22, CarryOwn, OwnAlwaysKept, OwnerType
  <2> QED BY <2>1, <2>2, WritesQuiet
<1>23. ASSUME NEW p \in Members, StoreKey(p)
      PROVE  WritingInv'
  <2>1. UNCHANGED <<task, ns>>
    BY <1>23 DEF StoreKey, spaceVars
  <2>2. PICK s \in Slots : OwnAdds(p, s)
    BY <1>23, StoreKeyOwn
  <2>3. \A x \in Tasks : OwnKept(Owner[x], task[x].content)
    BY <2>2, OwnAlwaysKept, OwnerType
  <2> QED BY <2>1, <2>3, WritesQuiet
<1>24. ASSUME NEW p \in Members, AdoptNamespace(p)
      PROVE  WritingInv'
  <2>1. /\ UNCHANGED <<task, index>>
        /\ \A q \in Members \ {p} : ns'[q] = ns[q]
        /\ \A x \in Tasks : Owner[x] = p /\ task[x].at \in Undeclared => task[x].content \in cut'
    BY <1>24 DEF AdoptNamespace, indexVars, IInv, Types, SpaceTypes
  <2>2. \A x \in Tasks : OwnKept(Owner[x], task[x].content) /\ Owner[x] \in Members
    BY <2>1, UnchangedKept, OwnerType
  <2>3. Mono /\ BlobsGrow
    BY MonoStep, BlobsStep
  <2>4. \A x \in Tasks : task[x].at = "seal" => task[x].seg = 0
    BY DEF IInv, WritingInv, WritingOf
  <2>5. \A x \in Tasks : WriteKeeps(x)
    BY <2>1, <2>2, <2>4 DEF WriteKeeps, Undeclared
  <2> QED BY <2>3, <2>5, WriteKept DEF WritingInv
<1>25. ASSUME NEW p \in Members, Restart(p)
      PROVE  WritingInv'
  <2>1. \A x \in Tasks : /\ Owner[x] # p => task'[x] = task[x]
                         /\ Owner[x] = p => task'[x].at = "idle"
    BY <1>25, RestartTask, IdleType
  <2>2. \A q \in Members \ {p} : ns'[q] = ns[q]
    BY <1>25 DEF Restart, IInv, Types, SpaceTypes
  <2>3. \A x \in Tasks : Owner[x] # p => OwnKept(Owner[x], task[x].content)
    BY <1>25, RestartOwn, OwnerType DEF OwnDrops, OwnKept
  <2>4. Mono /\ BlobsGrow
    BY MonoStep, BlobsStep
  <2>5. \A x \in Tasks : task[x].at = "seal" => task[x].seg = 0
    BY DEF IInv, WritingInv, WritingOf
  <2>6. \A x \in Tasks : WriteKeeps(x)
    BY <2>1, <2>2, <2>3, <2>5, OwnerType DEF WriteKeeps, Writing
  <2> QED BY <2>4, <2>6, WriteKept DEF WritingInv
<1>26. ASSUME UNCHANGED vars
      PROVE  UNCHANGED <<task, blobs, index, ns, cut>>
  BY <1>26, Zenon DEF vars, indexVars, spaceVars
<1>27. limit.tasks \subseteq Tasks /\ limit.sizes \subseteq 0..MaxSize
  BY LimitFacts DEF IInv, Types, TaskTypes
<1> QED BY <1>1, <1>2, <1>3, <1>4, <1>5, <1>6, <1>7, <1>8, <1>9, <1>10, <1>11, <1>12, <1>13,
           <1>14, <1>15, <1>16, <1>17, <1>18, <1>19, <1>20, <1>21, <1>22, <1>23, <1>24, <1>25,
           <1>26, <1>27 DEF Next

-----------------------------------------------------------------------------
(* What is declared is served.                                             *)

(* A step that only adds versions to manifests, none of them the first of  *)
(* its content, and snapshots what it published.                           *)
Plain ==
  /\ Grown /\ OldOriginals
  /\ \A p \in Members :
       /\ manifest[p].gone \subseteq manifest'[p].gone
       /\ \/ saved'[p] = saved[p]
          \/ saved'[p].manifest = manifest'[p] /\ saved'[p].ns = ns[p]

LEMMA PlainQuiet ==
    ASSUME IInv, Mono, UNCHANGED <<manifest, posted, saved>>
    PROVE  Plain
<1>1. Lineages' = Lineages
  BY DEF Lineages, Held
<1>2. OldOriginals
  BY <1>1, NoNewLineage DEF Mono
<1> QED BY <1>2, QuietSettles DEF Plain

LEMMA PlainChanged ==
    ASSUME IInv, NEW p \in Members, NEW m, Changed(p, m), Grown, OldOriginals,
           manifest[p].gone \subseteq m.gone, saved'[p] = saved[p] \/ Saves(p, m)
    PROVE  Plain
<1>1. /\ manifest'[p] = m
      /\ \A q \in Members \ {p} : manifest'[q] = manifest[q] /\ saved'[q] = saved[q]
  BY DEF Changed
<1> QED BY <1>1 DEF Plain, Saves

LEMMA PlainTask ==
    ASSUME IInv, NEW t \in Tasks,
           \/ \E e \in Entries, size \in 0..MaxSize : AttachFile(t, e, size)
           \/ Persist(t) \/ (DeleteFile(Owner[t], task[t].entry) /\ Withdraw(t))
    PROVE  Plain
<1>1. Owner[t] \in Members /\ Grown /\ Types
  BY TaskSettles, OwnerType DEF IInv
<1>2. ASSUME NEW e \in Entries, NEW size \in 0..MaxSize, AttachFile(t, e, size) PROVE Plain
  <2>1. PICK m : Changed(Owner[t], m) /\ Saves(Owner[t], m) /\ m.gone = manifest[Owner[t]].gone
                 /\ m.versions = manifest[Owner[t]].versions
    BY <1>1, <1>2, AttachFileEffect
  <2>2. OldOriginals
    BY <1>1, <1>2, <2>1, SameVersions DEF AttachFile
  <2> QED BY <1>1, <2>1, <2>2, PlainChanged
<1>3. CASE Persist(t)
  <2>1. Changed(Owner[t], manifest[Owner[t]]) /\ Saves(Owner[t], manifest[Owner[t]])
    BY <1>1, <1>3, PersistEffect DEF Persist
  <2>2. OldOriginals
    BY <1>1, <1>3, <2>1, SameVersions DEF Persist
  <2> QED BY <1>1, <2>1, <2>2, PlainChanged
<1>4. CASE DeleteFile(Owner[t], task[t].entry) /\ Withdraw(t)
  <2>1. PICK m : /\ Changed(Owner[t], m) /\ Saves(Owner[t], m) /\ manifest[Owner[t]].gone \subseteq m.gone
                 /\ m.versions = manifest[Owner[t]].versions
    BY <1>1, <1>4, DeleteEffect
  <2>2. OldOriginals
    BY <1>1, <1>4, <2>1, SameVersions DEF Withdraw
  <2> QED BY <1>1, <2>1, <2>2, PlainChanged
<1> QED BY <1>2, <1>3, <1>4

LEMMA PlainMember ==
    ASSUME IInv, NEW p \in Members,
           \/ \E e \in Entries : Delete(p, e)
           \/ \E e \in Entries : \E v : RevertAsset(p, e, v)
           \/ \E q \in Members : ManifestArrived(p, q)
           \/ FinishAdopting(p) \/ Snapshot(p)
    PROVE  Plain
<1>1. Grown /\ Types /\ History
  BY MemberSettles DEF IInv
<1>2. ASSUME NEW e \in Entries, Delete(p, e) PROVE Plain
  <2>1. PICK m : /\ Changed(p, m) /\ Saves(p, m) /\ manifest[p].gone \subseteq m.gone
                 /\ m.versions = manifest[p].versions
    BY <1>1, <1>2, DeleteEffect DEF Delete
  <2>2. OldOriginals
    BY <1>2, <2>1, SameVersions DEF Delete
  <2> QED BY <1>1, <2>1, <2>2, PlainChanged
<1>3. ASSUME NEW e \in Entries, NEW v, RevertAsset(p, e, v) PROVE Plain
  <2>1. PICK now \in limit.times :
          LET w == NewVersion(p, e, v.content, v.size, now)
              m == AddedTo(p, w)
          IN  Changed(p, m) /\ Saves(p, m)
    BY <1>1, <1>3, RevertEffect
  <2>2. PICK m : Changed(p, m) /\ Saves(p, m) /\ m.gone = manifest[p].gone
    <3> DEFINE w == NewVersion(p, e, v.content, v.size, now)
               m == AddedTo(p, w)
    <3>1. Changed(p, m) /\ Saves(p, m)
      BY <2>1
    <3>2. m.gone = manifest[p].gone
      BY <1>1 DEF AddedTo, Types, ManifestTypes, Manifest
    <3> HIDE DEF m
    <3> QED BY <3>1, <3>2
  <2>3. OldOriginals
    BY <1>3, RevertLineages
  <2> QED BY <1>1, <2>2, <2>3, PlainChanged
<1>4. ASSUME NEW q \in Members, ManifestArrived(p, q) PROVE Plain
  <2>1. PICK m : Changed(p, m) /\ Saves(p, m) /\ manifest[p].gone \subseteq m.gone
    BY <1>1, <1>4, ArrivedEffect
  <2>2. OldOriginals
    BY <1>4, ArrivedLineages
  <2> QED BY <1>1, <2>1, <2>2, PlainChanged
<1>5. CASE FinishAdopting(p)
  <2>1. Changed(p, manifest[p]) /\ saved' = saved
    BY <1>1, <1>5, FinishEffect
  <2>2. OldOriginals
    BY <1>5, <2>1, SameVersions DEF FinishAdopting
  <2> QED BY <1>1, <2>1, <2>2, PlainChanged
<1>6. CASE Snapshot(p)
  <2>1. Changed(p, manifest[p]) /\ Saves(p, manifest[p])
    BY <1>1, <1>6, PersistEffect DEF Snapshot
  <2>2. OldOriginals
    BY <1>6, <2>1, SameVersions DEF Snapshot
  <2> QED BY <1>1, <2>1, <2>2, PlainChanged
<1> QED BY <1>2, <1>3, <1>4, <1>5, <1>6

LEMMA PlainStep ==
    ASSUME IInv, [Next]_vars
    PROVE  Plain \/ (\E x \in Tasks : Declare(x)) \/ \E x \in Members : Restart(x)
<1>1. ASSUME UNCHANGED <<manifest, posted, saved>>
      PROVE  Plain \/ (\E x \in Tasks : Declare(x)) \/ \E x \in Members : Restart(x)
  BY <1>1, MonoStep, PlainQuiet
<1>2. ASSUME NEW t, \/ \E e, size : AttachVersion(t, e, size)
                    \/ \E c : Seal(t, c)
                    \/ SealRefused(t) \/ NoteLoad(t) \/ NoteStore(t) \/ StoreSegment(t)
                    \/ SegmentFails(t) \/ DeclareRefused(t) \/ Discard(t) \/ ClearLoad(t)
                    \/ ClearStore(t)
      PROVE  UNCHANGED <<manifest, posted, saved>>
  BY <1>2, Zenon DEF AttachVersion, Seal, SealRefused, NoteLoad, NoteStore, StoreSegment,
     SegmentFails, DeclareRefused, Discard, ClearLoad, ClearStore, manifestVars
<1>3. ASSUME NEW p, \/ \E v, i : Export(p, v, i)
                    \/ \E a, c : RequestRepair(p, a, c)
                    \/ \E q, a, s : Reconcile(p, q, a, s)
                    \/ \E s : Carry(p, s)
                    \/ StoreKey(p) \/ AdoptNamespace(p) \/ Join(p) \/ Demote(p)
      PROVE  UNCHANGED <<manifest, posted, saved>>
  BY <1>3, Zenon DEF Export, RequestRepair, Reconcile, Carry, StoreKey, AdoptNamespace, Join,
     Demote, manifestVars
<1>4. ASSUME NEW r, AnswerRepair(r)
      PROVE  UNCHANGED <<manifest, posted, saved>>
  BY <1>4, Zenon DEF AnswerRepair, manifestVars
<1>5. ASSUME NEW t \in Tasks, NEW e \in Entries, NEW size \in 0..MaxSize, AttachFile(t, e, size)
      PROVE  Plain \/ (\E x \in Tasks : Declare(x)) \/ \E x \in Members : Restart(x)
  BY <1>5, PlainTask
<1>6. ASSUME NEW t \in Tasks, Declare(t)
      PROVE  Plain \/ (\E x \in Tasks : Declare(x)) \/ \E x \in Members : Restart(x)
  BY <1>6, Zenon
<1>7. ASSUME NEW t \in Tasks, Persist(t)
      PROVE  Plain \/ (\E x \in Tasks : Declare(x)) \/ \E x \in Members : Restart(x)
  <2>1. Plain
    BY <1>7, PlainTask
  <2> QED BY <2>1
<1>8. ASSUME NEW t \in Tasks, Withdraw(t)
      PROVE  Plain \/ (\E x \in Tasks : Declare(x)) \/ \E x \in Members : Restart(x)
  <2>1. CASE DeleteFile(Owner[t], task[t].entry)
    BY <1>8, <2>1, PlainTask
  <2>2. CASE UNCHANGED <<manifestVars, indexVars>>
    BY <2>2, <1>1 DEF manifestVars
  <2> QED BY <1>8, <2>1, <2>2 DEF Withdraw
<1>9. ASSUME NEW p \in Members, NEW e \in Entries, Delete(p, e)
      PROVE  Plain \/ (\E x \in Tasks : Declare(x)) \/ \E x \in Members : Restart(x)
  BY <1>9, PlainMember
<1>10. ASSUME NEW p \in Members, NEW e \in Entries, NEW v \in AllVersions(manifest[p]),
              RevertAsset(p, e, v)
      PROVE  Plain \/ (\E x \in Tasks : Declare(x)) \/ \E x \in Members : Restart(x)
  BY <1>10, PlainMember
<1>11. ASSUME NEW p \in Members, NEW q \in Members, ManifestArrived(p, q)
      PROVE  Plain \/ (\E x \in Tasks : Declare(x)) \/ \E x \in Members : Restart(x)
  BY <1>11, PlainMember
<1>12. ASSUME NEW p \in Members, FinishAdopting(p)
      PROVE  Plain \/ (\E x \in Tasks : Declare(x)) \/ \E x \in Members : Restart(x)
  BY <1>12, PlainMember
<1>13. ASSUME NEW p \in Members, Snapshot(p)
      PROVE  Plain \/ (\E x \in Tasks : Declare(x)) \/ \E x \in Members : Restart(x)
  BY <1>13, PlainMember
<1>14. ASSUME NEW p \in Members, Restart(p)
      PROVE  Plain \/ (\E x \in Tasks : Declare(x)) \/ \E x \in Members : Restart(x)
  BY <1>14, Zenon
<1>15. ASSUME UNCHANGED vars
      PROVE  UNCHANGED <<manifest, posted, saved>>
  BY <1>15, Zenon DEF vars, manifestVars
<1>16. limit.tasks \subseteq Tasks /\ limit.sizes \subseteq 0..MaxSize
  BY LimitFacts DEF IInv, Types, TaskTypes
<1> QED BY <1>1, <1>2, <1>3, <1>4, <1>5, <1>6, <1>7, <1>8, <1>9, <1>10, <1>11, <1>12, <1>13,
           <1>14, <1>15, <1>16 DEF Next

(* A version its author introduced was the author's before the step. *)
LEMMA AttachedBefore ==
    ASSUME IInv, Mono, OldOriginals, NEW A \in Lineages', NEW u \in A,
           Original(Lineages', u), u.content \notin cut'
    PROVE  /\ u \in manifest[u.author].versions /\ u \in Version
           /\ Original(Lineages, u) /\ u.content \notin cut
           /\ \A i \in 1..SegmentsFor(u.size, SegmentBytes) : <<u.content, i>> \in blobs[u.author]
<1>1. PICK B \in Lineages : Original(Lineages, u) /\ u \in B
  BY DEF OldOriginals
<1>2. u \in Version
  BY <1>1 DEF IInv, History, SoundLineages
<1> QED BY <1>1, <1>2 DEF IInv, ServedInv, Lodged, Mono

LEMMA LodgedPlain ==
    ASSUME IInv, Mono, BlobsGrow, Plain
    PROVE  Lodged'
<1>1. ASSUME NEW A \in Lineages', NEW u \in A, Original(Lineages', u)
      PROVE  /\ \A i \in 1..SegmentsFor(u.size, SegmentBytes) : <<u.content, i>> \in blobs'[u.author]
             /\ u \in manifest'[u.author].versions \/ u.content \in cut'
  <2>1. PICK B \in Lineages : Original(Lineages, u) /\ u \in B
    BY <1>1 DEF Plain, OldOriginals
  <2>2. u.author \in Members
    BY <2>1 DEF IInv, History, SoundLineages, Version
  <2>3. /\ \A i \in 1..SegmentsFor(u.size, SegmentBytes) : <<u.content, i>> \in blobs[u.author]
        /\ u \in manifest[u.author].versions \/ u.content \in cut
    BY <2>1 DEF IInv, ServedInv, Lodged
  <2> QED BY <2>2, <2>3 DEF Mono, BlobsGrow, Plain, Grown
<1> QED BY <1>1 DEF Lodged

LEMMA ServedFrom ==
    ASSUME IInv, Mono, OldOriginals, NEW p \in Members, NEW m, m.versions \in Lineages',
           NEW m0, m.versions \cap manifest[p].versions \subseteq m0.versions, m0.gone \subseteq m.gone,
           NEW g \in Namespaces, ServedIn(p, m0, g), ns'[p] = ns[p], carry'[p] = carry[p],
           \A u \in m0.versions : u.entry \notin m.gone => OwnKept(p, u.content)
    PROVE  ServedIn(p, m, g)'
<1>1. SUFFICES ASSUME NEW u \in m.versions, Attached(p, m, u)', NEW s \in SlotsOfVersion(u)
               PROVE  Own(p, g, s)' \/ (g = ns'[p] /\ s \in carry'[p])
  BY DEF ServedIn
<1>2. u.author = p /\ u.entry \notin m.gone /\ Original(Lineages', u) /\ u.content \notin cut'
  BY <1>1 DEF Attached
<1>3. u \in manifest[p].versions /\ u \in Version /\ Original(Lineages, u) /\ u.content \notin cut
  BY <1>2, AttachedBefore
<1>4. u \in m0.versions /\ Attached(p, m0, u)
  BY <1>2, <1>3 DEF Attached
<1>5. Own(p, g, s) \/ (g = ns[p] /\ s \in carry[p])
  BY <1>4 DEF ServedIn
<1>6. s \in Slots /\ s[1] = u.content
  BY <1>3, VersionSlots
<1>7. Own(p, g, s) => Own(p, g, s)'
  BY <1>2, <1>4, <1>6 DEF OwnKept
<1> QED BY <1>5, <1>7

LEMMA CarryHeldKept ==
    ASSUME IInv, Mono, OldOriginals, NEW p \in Members, CarryHeld(p), carry'[p] \subseteq carry[p],
           carry[p] # {} => \A s \in Slots : Own(p, 1, s) => Own(p, 1, s)'
    PROVE  CarryHeld(p)'
<1>1. SUFFICES ASSUME NEW u \in manifest'[p].versions, u.author = p, Original(Lineages', u),
                      u.content \notin cut', NEW s \in SlotsOfVersion(u) \cap carry'[p]
               PROVE  Own(p, 1, s)'
  BY DEF CarryHeld
<1>2. manifest'[p].versions \in Lineages'
  BY DEF Lineages, Held
<1>3. u \in manifest[p].versions /\ u \in Version /\ Original(Lineages, u) /\ u.content \notin cut
  BY <1>1, <1>2, AttachedBefore
<1>4. Own(p, 1, s)
  BY <1>1, <1>3 DEF CarryHeld
<1>5. s \in Slots
  BY <1>3, VersionSlots
<1> QED BY <1>1, <1>4, <1>5

LEMMA ServingFacts ==
    ASSUME IInv, NEW p \in Members \ logLost
    PROVE  /\ ServedIn(p, manifest[p], ns[p])
           /\ ServedIn(p, saved[p].manifest, saved[p].ns)
           /\ CarryHeld(p)
           /\ ns[p] \in Namespaces /\ saved[p].ns \in Namespaces
BY DEF IInv, ServedInv, Serving, Types, SpaceTypes, ManifestTypes

LEMMA ServedKept ==
    ASSUME IInv, [Next]_vars, Plain, UNCHANGED <<ns, carry>>,
           \A p \in Members : \A u \in manifest[p].versions :
             u.entry \notin manifest'[p].gone => OwnKept(p, u.content),
           \A p \in Members : carry[p] # {} => \A s \in Slots : Own(p, 1, s) => Own(p, 1, s)'
    PROVE  ServedInv'
<1>1. Mono /\ BlobsGrow /\ History'
  BY MonoStep, BlobsStep, HistoryStep
<1>2. OldOriginals
  BY DEF Plain
<1>3. Lodged'
  BY <1>1, LodgedPlain
<1>4. ASSUME NEW p \in Members \ logLost'
      PROVE  /\ ServedIn(p, manifest[p], ns[p])'
             /\ ServedIn(p, saved[p].manifest, saved[p].ns)'
             /\ CarryHeld(p)'
  <2>1. p \in Members \ logLost
    BY <1>1 DEF Mono
  <2>2. PICK m, n, g, h : /\ m = manifest'[p] /\ n = saved'[p].manifest
                          /\ g = ns[p] /\ h = saved'[p].ns
    OBVIOUS
  <2>3. m.versions \in Lineages' /\ n.versions \in Lineages'
    BY <2>2 DEF Lineages, Held
  <2>4. g \in Namespaces /\ h \in Namespaces /\ ns'[p] = g
    BY <1>1, <2>1, <2>2, ServingFacts DEF Mono
  <2>5. ServedIn(p, manifest[p], g)
    BY <2>1, <2>2, ServingFacts
  <2>6. manifest[p].gone \subseteq m.gone
    BY <2>2 DEF Plain
  <2>7. ServedIn(p, m, g)'
    BY <1>1, <1>2, <2>2, <2>3, <2>4, <2>5, <2>6, ServedFrom
  <2>8. ServedIn(p, n, h)'
    <3>1. CASE saved'[p] = saved[p]
      <4>1. ServedIn(p, n, h)
        BY <2>1, <2>2, <3>1, ServingFacts
      <4>2. n.versions \subseteq manifest[p].versions
        BY <2>2, <3>1, FiledNow
      <4>3. n.gone = m.gone
        BY <1>1, <2>2 DEF History
      <4> QED BY <1>1, <1>2, <2>2, <2>3, <2>4, <4>1, <4>2, <4>3, ServedFrom
    <3>2. CASE saved'[p].manifest = manifest'[p] /\ saved'[p].ns = ns[p]
      BY <2>2, <2>7, <3>2
    <3> QED BY <3>1, <3>2 DEF Plain
  <2>9. CarryHeld(p)'
    BY <1>1, <1>2, <2>1, ServingFacts, CarryHeldKept
  <2> QED BY <2>2, <2>4, <2>7, <2>8, <2>9 DEF ServedIn
<1> QED BY <1>3, <1>4 DEF ServedInv, Serving

LEMMA ServedQuiet ==
    ASSUME IInv, [Next]_vars, Plain, UNCHANGED <<ns, carry>>,
           OwnSame \/ \E p \in Members, s \in Slots : OwnAdds(p, s)
    PROVE  ServedInv'
<1>1. \A p \in Members : \A c : OwnKept(p, c)
  BY OwnAlwaysKept
<1>2. \A p \in Members, s \in Slots : Own(p, 1, s) => Own(p, 1, s)'
  BY DEF OwnSame, OwnAdds, Namespaces
<1> QED BY <1>1, <1>2, ServedKept

(* Entries are withdrawn of contents that no live file of p has. *)
LEMMA ServedDrops ==
    ASSUME IInv, [Next]_vars, Plain, UNCHANGED <<ns, carry>>, NEW p \in Members, NEW cs,
           OwnDrops(p, ns[p], cs),
           \A u \in manifest[p].versions : u.entry \notin manifest'[p].gone => u.content \notin cs
    PROVE  ServedInv'
<1>1. \A q \in Members : \A u \in manifest[q].versions :
        u.entry \notin manifest'[q].gone => OwnKept(q, u.content)
  BY DEF OwnDrops, OwnKept
<1>2. \A q \in Members : carry[q] # {} => \A s \in Slots : Own(q, 1, s) => Own(q, 1, s)'
  <2>1. \A q \in Members : carry[q] # {} => ns[q] = 2
    BY DEF IInv, Bounds, MemberBounds
  <2> QED BY <2>1 DEF OwnDrops, Namespaces
<1> QED BY <1>1, <1>2, ServedKept

LEMMA ServedDelete ==
    ASSUME IInv, [Next]_vars, Plain, UNCHANGED <<ns, carry>>, NEW p \in Members, NEW e, DeleteFile(p, e)
    PROVE  ServedInv'
<1> DEFINE cs == {v.content : v \in AssetVersions(manifest[p], e)}
<1>1. OwnDrops(p, ns[p], cs)
  BY DeleteOwn
<1>2. e \in manifest'[p].gone
  <2>1. PICK m : Changed(p, m) /\ e \in m.gone
    BY DeleteEffect DEF IInv
  <2> QED BY <2>1 DEF Changed
<1>3. ASSUME NEW u \in manifest[p].versions, u.content \in cs PROVE u.entry = e
  <2>1. PICK v \in manifest[p].versions : v.entry = e /\ v.content = u.content
    BY <1>3 DEF AssetVersions
  <2>2. manifest[p].versions \in Lineages
    BY DEF Lineages, Held
  <2> QED BY <2>1, <2>2 DEF IInv, History, SoundLineages
<1> HIDE DEF cs
<1> QED BY <1>1, <1>2, <1>3, ServedDrops

(* What a declaration makes of the manifest. *)
DeclaredAs(t, v, m) ==
  /\ Changed(Owner[t], m) /\ saved' = saved
  /\ v \in Version /\ m.gone = manifest[Owner[t]].gone
  /\ m.versions = manifest[Owner[t]].versions \cup {v}
  /\ v.content = task[t].content /\ v.size = task[t].size /\ v.author = Owner[t]
  /\ \A X \in Lineages' : \A u \in X : Original(Lineages', u) =>
       \/ Original(Lineages, u) /\ \E B \in Lineages : u \in B
       \/ u = v

LEMMA DeclareGives ==
    ASSUME IInv, NEW t \in Tasks, Declare(t)
    PROVE  \E v, m : DeclaredAs(t, v, m)
<1>1. PICK now \in limit.times :
        LET v == NewVersion(Owner[t], task[t].entry, task[t].content, task[t].size, now)
            m == AddedTo(Owner[t], v)
        IN  DeclaredAs(t, v, m)
  BY DeclareLineages DEF DeclaredAs
<1> QED BY <1>1

LEMMA DeclareServes ==
    ASSUME IInv, NEW t \in Tasks, Declare(t)
    PROVE  ServedInv'
<1> DEFINE p == Owner[t]
<1>1. PICK v, m : DeclaredAs(t, v, m)
  BY DeclareGives
<1>2. /\ Changed(p, m) /\ saved' = saved /\ v \in Version /\ m.gone = manifest[p].gone
      /\ m.versions = manifest[p].versions \cup {v} /\ v.author = p /\ p \in Members
      /\ v.content = task[t].content /\ v.size = task[t].size
  BY <1>1, OwnerType DEF DeclaredAs
<1>3. \A X \in Lineages' : \A u \in X : Original(Lineages', u) =>
        \/ Original(Lineages, u) /\ \E B \in Lineages : u \in B
        \/ u = v
  BY <1>1 DEF DeclaredAs
<1>4. /\ UNCHANGED <<ns, carry, index, blobs, cut, logLost>>
      /\ task[t].at = "write" /\ task[t].seg = SegmentsFor(task[t].size, SegmentBytes)
  BY DEF Declare, Complete, spaceVars, indexVars, logVars
<1>5. v.content \notin Declared
  BY <1>2, <1>4, TaskInvFacts DEF Active, Undeclared, Writing, Clearing
<1>6. /\ \A i \in 1..SegmentsFor(v.size, SegmentBytes) : <<v.content, i>> \in blobs[p]
      /\ v.content \notin cut =>
           \A i \in 0..SegmentsFor(v.size, SegmentBytes) : Own(p, ns[p], <<v.content, i>>)
  BY <1>2, <1>4 DEF IInv, WritingInv, WritingOf, Writing
<1>7. /\ \A q \in Members \ {p} : manifest'[q] = manifest[q]
      /\ manifest'[p] = m
  BY <1>2 DEF Changed
<1> HIDE DEF p
<1>8. ASSUME NEW A \in Lineages', NEW u \in A, Original(Lineages', u), u # v
      PROVE  /\ u \in Version /\ Original(Lineages, u)
             /\ \A i \in 1..SegmentsFor(u.size, SegmentBytes) : <<u.content, i>> \in blobs[u.author]
             /\ u \in manifest[u.author].versions \/ u.content \in cut
  <2>1. PICK B \in Lineages : Original(Lineages, u) /\ u \in B
    BY <1>3, <1>8
  <2>2. u \in Version
    BY <2>1 DEF IInv, History, SoundLineages
  <2> QED BY <2>1, <2>2 DEF IInv, ServedInv, Lodged
<1>9. Lodged'
  <2>1. SUFFICES ASSUME NEW A \in Lineages', NEW u \in A, Original(Lineages', u)
                 PROVE  /\ \A i \in 1..SegmentsFor(u.size, SegmentBytes) : <<u.content, i>> \in blobs'[u.author]
                        /\ u \in manifest'[u.author].versions \/ u.content \in cut'
    BY DEF Lodged
  <2>2. CASE u = v
    BY <1>2, <1>4, <1>6, <1>7, <2>2
  <2>3. CASE u # v
    <3>1. u.author \in Members
      BY <1>8, <2>1, <2>3 DEF Version
    <3>2. manifest[u.author].versions \subseteq manifest'[u.author].versions
      BY <1>2, <1>7, <3>1
    <3> QED BY <1>4, <1>8, <2>1, <2>3, <3>2
  <2> QED BY <2>2, <2>3
<1>10. ASSUME NEW q \in Members \ logLost'
       PROVE  /\ ServedIn(q, manifest[q], ns[q])'
              /\ ServedIn(q, saved[q].manifest, saved[q].ns)'
              /\ CarryHeld(q)'
  <2>1. /\ ServedIn(q, manifest[q], ns[q]) /\ ServedIn(q, saved[q].manifest, saved[q].ns)
        /\ CarryHeld(q) /\ ns[q] \in Namespaces
    BY <1>4, <1>10, ServingFacts
  <2>2. manifest'[q].versions \in Lineages' /\ saved'[q].manifest.versions \in Lineages'
    BY DEF Lineages, Held
  <2>3. manifest'[q].gone = manifest[q].gone
    BY <1>2, <1>7
  <2>4. \A g \in Namespaces, s \in Slots : Own(q, g, s)' <=> Own(q, g, s)
    BY <1>4, UnchangedOwn DEF OwnSame
  <2>5. ASSUME NEW u \in manifest'[q].versions, Attached(q, manifest[q], u)', NEW s \in SlotsOfVersion(u)
        PROVE  Own(q, ns[q], s)' \/ s \in carry'[q]
    <3>1. u.author = q /\ u.entry \notin manifest[q].gone /\ Original(Lineages', u) /\ u.content \notin cut
      BY <1>4, <2>3, <2>5 DEF Attached
    <3>2. PICK h \in Namespaces : h = ns[q] /\ h = ns'[q]
      BY <1>4, <2>1
    <3>3. CASE u = v
      <4>1. q = p
        BY <1>2, <3>1, <3>3
      <4>2. PICK i \in 0..SegmentsFor(v.size, SegmentBytes) : s = <<v.content, i>>
        BY <2>5, <3>3 DEF SlotsOfVersion
      <4>3. Own(q, h, s) /\ s \in Slots
        BY <1>2, <1>6, <2>5, <3>1, <3>2, <3>3, <4>1, <4>2, VersionSlots
      <4> QED BY <2>4, <3>2, <4>3
    <3>4. CASE u # v
      <4>1. u \in manifest[q].versions /\ u \in Version /\ Attached(q, manifest[q], u)
        BY <1>8, <2>2, <2>5, <3>1, <3>4 DEF Attached
      <4>2. s \in Slots
        BY <2>5, <4>1, VersionSlots
      <4>3. Own(q, h, s) \/ s \in carry[q]
        BY <2>1, <2>5, <3>2, <4>1 DEF ServedIn
      <4> QED BY <1>4, <2>4, <3>2, <4>2, <4>3
    <3> QED BY <3>3, <3>4
  <2>6. ASSUME NEW u \in saved'[q].manifest.versions, Attached(q, saved[q].manifest, u)'
        PROVE  u \in saved[q].manifest.versions /\ Attached(q, saved[q].manifest, u) /\ u \in Version
    <3>1. u # v
      BY <1>2, <1>5, <2>6, DeclaredNow DEF ContentsOf
    <3> QED BY <1>2, <1>4, <1>8, <2>2, <2>6, <3>1 DEF Attached
  <2>7. ServedIn(q, saved[q].manifest, saved[q].ns)'
    <3>1. SUFFICES ASSUME NEW u \in saved'[q].manifest.versions, Attached(q, saved[q].manifest, u)',
                          NEW s \in SlotsOfVersion(u)
                   PROVE  \/ Own(q, saved[q].ns, s)'
                          \/ saved'[q].ns = ns'[q] /\ s \in carry'[q]
      BY DEF ServedIn
    <3>2. PICK h \in Namespaces : h = saved[q].ns /\ h = saved'[q].ns
      BY <1>2, <1>4, <1>10, ServingFacts
    <3>3. Own(q, h, s) \/ (h = ns[q] /\ s \in carry[q])
      BY <2>1, <2>6, <3>1, <3>2 DEF ServedIn
    <3>4. s \in Slots
      BY <2>6, <3>1, VersionSlots
    <3> QED BY <1>4, <2>4, <3>2, <3>3, <3>4
  <2>8. CarryHeld(q)'
    <3>1. SUFFICES ASSUME NEW u \in manifest'[q].versions, u.author = q, Original(Lineages', u),
                          u.content \notin cut', NEW s \in SlotsOfVersion(u) \cap carry'[q]
                   PROVE  Own(q, 1, s)'
      BY DEF CarryHeld
    <3>2. s \in carry[q] /\ s[1] \in Declared
      <4>1. s \in carry[q]
        BY <1>4, <3>1
      <4>2. s[1] \in ContentsOf(manifest[q])
        BY <4>1 DEF IInv, SegmentInv, CarriesDeclared
      <4> QED BY <4>1, <4>2, DeclaredNow
    <3>3. u # v
      BY <1>2, <1>5, <3>1, <3>2, VersionSlots
    <3>4. u \in manifest[q].versions /\ u \in Version /\ Original(Lineages, u) /\ u.content \notin cut
      BY <1>4, <1>8, <2>2, <3>1, <3>3
    <3>5. Own(q, 1, s) /\ s \in Slots
      BY <2>1, <3>1, <3>2, <3>4, VersionSlots DEF CarryHeld
    <3> QED BY <2>4, <3>5 DEF Namespaces
  <2> QED BY <2>5, <2>7, <2>8 DEF ServedIn
<1> QED BY <1>9, <1>10 DEF ServedInv, Serving

(* A member that the step does not concern. *)
LEMMA ServedElsewhere ==
    ASSUME IInv, Mono, OldOriginals, NEW q \in Members \ logLost,
           manifest'[q] = manifest[q], saved'[q] = saved[q], ns'[q] = ns[q], carry'[q] = carry[q],
           \A c : OwnKept(q, c)
    PROVE  /\ ServedIn(q, manifest[q], ns[q])'
           /\ ServedIn(q, saved[q].manifest, saved[q].ns)'
           /\ CarryHeld(q)'
<1>1. PICK m, n, g, h : m = manifest[q] /\ n = saved[q].manifest /\ g = ns[q] /\ h = saved[q].ns
  OBVIOUS
<1>2. m.versions \in Lineages' /\ n.versions \in Lineages'
  BY <1>1 DEF Lineages, Held
<1>3. ServedIn(q, m, g) /\ ServedIn(q, n, h) /\ CarryHeld(q) /\ g \in Namespaces /\ h \in Namespaces
  BY <1>1, ServingFacts
<1>4. n.versions \subseteq manifest[q].versions
  BY <1>1, FiledNow
<1>5. ServedIn(q, m, g)'
  BY <1>1, <1>2, <1>3, ServedFrom
<1>6. ServedIn(q, n, h)'
  BY <1>2, <1>3, <1>4, ServedFrom
<1>7. \A s \in Slots : Own(q, 1, s) => Own(q, 1, s)'
  BY DEF OwnKept, Namespaces
<1>8. CarryHeld(q)'
  BY <1>3, <1>7, CarryHeldKept
<1> QED BY <1>1, <1>5, <1>6, <1>8 DEF ServedIn

LEMMA RestartServes ==
    ASSUME IInv, [Next]_vars, NEW p \in Members, Restart(p)
    PROVE  ServedInv'
<1>1. Mono /\ Changed(p, saved[p].manifest) /\ saved' = saved
  BY MonoStep, RestartEffect DEF IInv
<1>2. /\ UNCHANGED <<used, blobs, logLost>> /\ CutByStop(p) \subseteq cut'
      /\ ns'[p] = saved[p].ns /\ carry'[p] = {}
      /\ \A q \in Members \ {p} : ns'[q] = ns[q] /\ carry'[q] = carry[q]
  BY DEF Restart, IInv, Types, SpaceTypes
<1>3. OldOriginals
  BY <1>1, <1>2, SameVersions
<1>4. /\ manifest'[p] = saved[p].manifest
      /\ \A q \in Members \ {p} : manifest'[q] = manifest[q]
  BY <1>1 DEF Changed
<1>5. OwnDrops(p, saved[p].ns, pending[p])
  BY RestartOwn
<1>6. ASSUME NEW x \in Tasks, Owner[x] = p, task[x].at \in Clearing, task[x].ok
      PROVE  task[x].content \in cut'
  BY <1>2, <1>6 DEF CutByStop
<1>7. Lodged'
  <2>1. SUFFICES ASSUME NEW A \in Lineages', NEW u \in A, Original(Lineages', u), u.content \notin cut'
                 PROVE  u \in manifest'[u.author].versions
    <3>1. ASSUME NEW A \in Lineages', NEW u \in A, Original(Lineages', u)
          PROVE  \A i \in 1..SegmentsFor(u.size, SegmentBytes) : <<u.content, i>> \in blobs'[u.author]
      <4>1. PICK B \in Lineages : Original(Lineages, u) /\ u \in B
        BY <1>3, <3>1 DEF OldOriginals
      <4> QED BY <1>2, <4>1 DEF IInv, ServedInv, Lodged
    <3> QED BY <3>1 DEF Lodged
  <2>2. u \in manifest[u.author].versions /\ u.author \in Members
    BY <1>1, <1>3, <2>1, AttachedBefore DEF Version
  <2>3. CASE u.author # p
    BY <1>4, <2>2, <2>3
  <2>4. CASE u.author = p
    <3>1. SUFFICES ASSUME u \notin saved[p].manifest.versions PROVE FALSE
      BY <1>4, <2>4
    <3>2. PICK x \in Tasks : Mine(x, p, u.content) /\ task[x].at = "declared"
      BY <2>2, <2>4, <3>1 DEF IInv, TaskInv
    <3>3. task[x].ok /\ task[x].at \in Clearing
      BY <3>2, TaskInvFacts DEF Clearing
    <3> QED BY <1>6, <2>1, <3>2, <3>3 DEF Mine
  <2> QED BY <2>3, <2>4
<1>8. ASSUME NEW q \in Members \ logLost', q # p
      PROVE  /\ ServedIn(q, manifest[q], ns[q])'
             /\ ServedIn(q, saved[q].manifest, saved[q].ns)'
             /\ CarryHeld(q)'
  <2>1. /\ manifest'[q] = manifest[q] /\ saved'[q] = saved[q]
        /\ ns'[q] = ns[q] /\ carry'[q] = carry[q] /\ q \in Members \ logLost
    BY <1>1, <1>2, <1>4, <1>8
  <2>2. \A c : OwnKept(q, c)
    BY <1>5, <1>8 DEF OwnDrops, OwnKept
  <2> QED BY <1>1, <1>3, <2>1, <2>2, ServedElsewhere
<1>9. ASSUME p \notin logLost'
      PROVE  /\ ServedIn(p, manifest[p], ns[p])'
             /\ ServedIn(p, saved[p].manifest, saved[p].ns)'
             /\ CarryHeld(p)'
  <2>1. p \in Members \ logLost
    BY <1>2, <1>9
  <2>2. PICK n, h : n = saved[p].manifest /\ h = saved[p].ns
    OBVIOUS
  <2>3. h \in Namespaces /\ ServedIn(p, n, h)
    BY <2>1, <2>2, ServingFacts
  <2>4. n.versions \in Lineages'
    BY <1>4, <2>2 DEF Lineages, Held
  <2>5. ASSUME NEW u \in n.versions, Attached(p, n, u)', NEW s \in SlotsOfVersion(u)
        PROVE  Own(p, h, s)'
    <3>1. u.author = p /\ Original(Lineages', u) /\ u.content \notin cut' /\ u.entry \notin n.gone
      BY <2>5 DEF Attached
    <3>2. u \in Version /\ Original(Lineages, u) /\ u.content \notin cut
      BY <1>1, <1>3, <2>4, <2>5, <3>1, AttachedBefore
    <3>3. s \in Slots /\ s[1] = u.content
      BY <2>5, <3>2, VersionSlots
    <3>4. s \notin carry[p]
      BY <1>2, <3>1, <3>3 DEF CutByStop
    <3>5. Own(p, h, s)
      BY <2>3, <2>5, <3>1, <3>2, <3>4 DEF ServedIn, Attached
    <3>6. u.content \notin pending[p]
      <4>1. SUFFICES ASSUME u.content \in pending[p] PROVE FALSE
        OBVIOUS
      <4>2. u.content \in Declared
        BY <2>2, <2>5, DeclaredNow DEF ContentsOf
      <4>3. PICK x \in Tasks : Mine(x, p, u.content) /\ task[x].at \in Clearing /\ task[x].ok
        BY <2>1, <4>1, <4>2 DEF IInv, LogInv
      <4> QED BY <1>6, <3>1, <4>3 DEF Mine
    <3> QED BY <1>5, <2>2, <2>3, <3>3, <3>5, <3>6 DEF OwnDrops
  <2>6. ServedIn(p, n, h)'
    BY <2>5 DEF ServedIn
  <2>7. CarryHeld(p)'
    BY <1>2 DEF CarryHeld
  <2>8. manifest'[p] = n /\ ns'[p] = h /\ saved'[p].manifest = n /\ saved'[p].ns = h
    BY <1>1, <1>2, <1>4, <2>2
  <2> QED BY <2>6, <2>7, <2>8 DEF ServedIn
<1> QED BY <1>7, <1>8, <1>9 DEF ServedInv, Serving

LEMMA AdoptServes ==
    ASSUME IInv, [Next]_vars, NEW p \in Members, AdoptNamespace(p)
    PROVE  ServedInv'
<1>1. Mono /\ BlobsGrow /\ UNCHANGED <<manifest, posted, saved, index, logLost>>
  BY MonoStep, BlobsStep DEF AdoptNamespace, manifestVars, indexVars, logVars
<1>2. Plain /\ OldOriginals
  BY <1>1, PlainQuiet DEF Plain
<1>3. Lodged'
  BY <1>1, <1>2, LodgedPlain
<1>4. /\ ns[p] = 1 /\ ns'[p] = 2 /\ carry'[p] = AssetIndexKeys(manifest[p])
      /\ \A q \in Members \ {p} : ns'[q] = ns[q] /\ carry'[q] = carry[q]
  BY DEF AdoptNamespace, IInv, Types, SpaceTypes
<1>5. carry[p] = {} /\ saved[p].ns = 1
  BY <1>4 DEF IInv, Bounds, MemberBounds, Types, ManifestTypes, Namespaces
<1>6. OwnSame /\ \A q \in Members : \A c : OwnKept(q, c)
  BY <1>1, UnchangedOwn, OwnAlwaysKept
<1>7. ASSUME NEW q \in Members \ logLost', q # p
      PROVE  /\ ServedIn(q, manifest[q], ns[q])'
             /\ ServedIn(q, saved[q].manifest, saved[q].ns)'
             /\ CarryHeld(q)'
  BY <1>1, <1>2, <1>4, <1>6, <1>7, ServedElsewhere
<1>8. ASSUME p \notin logLost'
      PROVE  /\ ServedIn(p, manifest[p], ns[p])'
             /\ ServedIn(p, saved[p].manifest, saved[p].ns)'
             /\ CarryHeld(p)'
  <2>1. PICK m, n : m = manifest[p] /\ n = saved[p].manifest
    OBVIOUS
  <2>2. ServedIn(p, m, 1) /\ ServedIn(p, n, 1)
    BY <1>1, <1>4, <1>5, <1>8, <2>1, ServingFacts
  <2>3. m \in Manifest /\ Filed(m) /\ n.versions \subseteq m.versions
    BY <2>1, FiledNow DEF IInv, Types, ManifestTypes
  <2>4. m.versions \in Lineages /\ m.versions \in Lineages' /\ n.versions \in Lineages'
    BY <1>1, <2>1 DEF Lineages, Held
  <2>5. ASSUME NEW u \in m.versions, u.author = p, Original(Lineages', u), u.content \notin cut'
        PROVE  u \in Version /\ Original(Lineages, u) /\ u.content \notin cut
    BY <1>1, <1>2, <2>4, <2>5, AttachedBefore
  <2>6. ServedIn(p, m, 2)'
    <3>1. SUFFICES ASSUME NEW u \in m.versions, Attached(p, m, u)', NEW s \in SlotsOfVersion(u)
                   PROVE  s \in carry'[p]
      BY <1>4 DEF ServedIn
    <3>2. Live(m, u.entry)
      BY <2>3, <3>1 DEF Live, Filed, Attached
    <3> QED BY <1>4, <2>1, <2>3, <3>1, <3>2, ManifestFacts
  <2>7. ServedIn(p, n, 1)'
    <3>1. SUFFICES ASSUME NEW u \in n.versions, Attached(p, n, u)', NEW s \in SlotsOfVersion(u)
                   PROVE  Own(p, 1, s)'
      BY DEF ServedIn
    <3>2. Attached(p, n, u) /\ u \in Version
      BY <2>3, <2>5, <3>1 DEF Attached
    <3>3. Own(p, 1, s)
      BY <1>5, <2>2, <3>1, <3>2 DEF ServedIn
    <3>4. s \in Slots
      BY <3>1, <3>2, VersionSlots
    <3> QED BY <1>6, <3>3, <3>4 DEF OwnSame, Namespaces
  <2>8. CarryHeld(p)'
    <3>1. SUFFICES ASSUME NEW u \in m.versions, u.author = p, Original(Lineages', u),
                          u.content \notin cut', NEW s \in SlotsOfVersion(u) \cap carry'[p]
                   PROVE  Own(p, 1, s)'
      BY <1>1, <2>1 DEF CarryHeld
    <3>2. u \in Version /\ Original(Lineages, u) /\ u.content \notin cut
      BY <2>5, <3>1
    <3>3. s \in Slots /\ s[1] = u.content
      BY <3>1, <3>2, VersionSlots
    <3>4. PICK v \in m.versions : s[1] = v.content /\ Live(m, v.entry)
      BY <1>4, <2>1, <2>3, <3>1, ManifestFacts
    <3>5. u.entry = v.entry
      <4>1. u \in m.versions /\ v \in m.versions /\ u.content = v.content
        BY <3>1, <3>3, <3>4
      <4>2. \A A, B \in Lineages : \A x \in A, y \in B : x.content = y.content => x.entry = y.entry
        BY DEF IInv, History, SoundLineages
      <4>3. PICK V : V = m.versions
        OBVIOUS
      <4>4. V \in Lineages /\ u \in V /\ v \in V
        BY <2>4, <4>1, <4>3
      <4> QED BY <4>1, <4>2, <4>4
    <3>6. Attached(p, m, u)
      BY <3>1, <3>2, <3>4, <3>5 DEF Attached, Live
    <3>7. Own(p, 1, s)
      BY <1>5, <2>2, <3>1, <3>6 DEF ServedIn
    <3> QED BY <1>6, <3>3, <3>7 DEF OwnSame, Namespaces
  <2>9. manifest'[p] = m /\ ns'[p] = 2 /\ saved'[p].manifest = n /\ saved'[p].ns = 1
    BY <1>1, <1>4, <1>5, <2>1
  <2> QED BY <2>6, <2>7, <2>8, <2>9 DEF ServedIn
<1> QED BY <1>3, <1>7, <1>8 DEF ServedInv, Serving

LEMMA CarryServes ==
    ASSUME IInv, [Next]_vars, NEW p \in Members, NEW s \in Slots, Carry(p, s)
    PROVE  ServedInv'
<1>1. Mono /\ BlobsGrow /\ UNCHANGED <<manifest, posted, saved, ns, logLost, blobs, cut>>
  BY MonoStep, BlobsStep DEF Carry, manifestVars, logVars
<1>2. Plain /\ OldOriginals
  BY <1>1, PlainQuiet DEF Plain
<1>3. Lodged'
  BY <1>1, <1>2, LodgedPlain
<1>4. /\ s \in carry[p] /\ carry'[p] = carry[p] \ {s}
      /\ \A q \in Members \ {p} : carry'[q] = carry[q]
  BY DEF Carry, IInv, Types, SpaceTypes
<1>5. OwnAdds(p, s) \/ (OwnSame /\ (~Indexed(p, 1, s) \/ (IsSegment(s) /\ s \notin blobs[p])))
  BY CarryOwn
<1>6. \A q \in Members : \A c : OwnKept(q, c)
  BY <1>5, OwnAlwaysKept
<1>7. ASSUME NEW q \in Members \ logLost', q # p
      PROVE  /\ ServedIn(q, manifest[q], ns[q])'
             /\ ServedIn(q, saved[q].manifest, saved[q].ns)'
             /\ CarryHeld(q)'
  BY <1>1, <1>2, <1>4, <1>6, <1>7, ServedElsewhere
<1>8. ASSUME p \notin logLost'
      PROVE  /\ ServedIn(p, manifest[p], ns[p])'
             /\ ServedIn(p, saved[p].manifest, saved[p].ns)'
             /\ CarryHeld(p)'
  <2>1. p \in Members \ logLost
    BY <1>1, <1>8
  <2>2. manifest[p].versions \in Lineages /\ manifest[p].versions \in Lineages'
    BY <1>1 DEF Lineages, Held
  <2>3. ASSUME NEW u \in manifest[p].versions, u.author = p, Original(Lineages, u),
               u.content \notin cut, s \in SlotsOfVersion(u)
        PROVE  OwnAdds(p, s)
    <3>1. Own(p, 1, s)
      BY <1>4, <2>1, <2>3, ServingFacts DEF CarryHeld
    <3>2. Indexed(p, 1, s)
      BY <3>1 DEF Own, Indexed
    <3>3. u \in Version
      BY <2>2, <2>3 DEF IInv, History, SoundLineages
    <3>4. IsSegment(s) => s \in blobs[p]
      <4>1. \A i \in 1..SegmentsFor(u.size, SegmentBytes) : <<u.content, i>> \in blobs[p]
        BY <2>2, <2>3 DEF IInv, ServedInv, Lodged
      <4> QED BY <2>3, <3>3, <4>1, VersionSlots
    <3> QED BY <1>5, <3>2, <3>4
  <2>4. ASSUME NEW m, NEW g \in Namespaces, m.versions \subseteq manifest[p].versions, ServedIn(p, m, g)
        PROVE  ServedIn(p, m, g)'
    <3>1. SUFFICES ASSUME NEW u \in m.versions, Attached(p, m, u)', NEW x \in SlotsOfVersion(u)
                   PROVE  Own(p, g, x)' \/ (g = ns'[p] /\ x \in carry'[p])
      BY DEF ServedIn
    <3>2. /\ u \in manifest[p].versions /\ u.author = p /\ u \in Version
          /\ Original(Lineages, u) /\ u.content \notin cut /\ u.entry \notin m.gone
      BY <1>1, <1>2, <2>2, <2>4, <3>1, AttachedBefore DEF Attached
    <3>3. Own(p, g, x) \/ (g = ns[p] /\ x \in carry[p])
      BY <2>4, <3>1, <3>2 DEF ServedIn, Attached
    <3>4. x \in Slots
      BY <3>1, <3>2, VersionSlots
    <3>5. CASE Own(p, g, x)
      BY <1>6, <3>4, <3>5 DEF OwnKept
    <3>6. CASE g = ns[p] /\ x \in carry[p] /\ x # s
      BY <1>1, <1>4, <3>6
    <3>7. CASE g = ns[p] /\ x = s
      <4>1. OwnAdds(p, s)
        BY <2>3, <3>1, <3>2, <3>7
      <4> QED BY <3>4, <3>7, <4>1 DEF OwnAdds
    <3> QED BY <3>3, <3>5, <3>6, <3>7
  <2>5. PICK m, n, g, h : m = manifest[p] /\ n = saved[p].manifest /\ g = ns[p] /\ h = saved[p].ns
    OBVIOUS
  <2>6. /\ g \in Namespaces /\ h \in Namespaces /\ ServedIn(p, m, g) /\ ServedIn(p, n, h)
        /\ n.versions \subseteq m.versions
    BY <2>1, <2>5, ServingFacts, FiledNow
  <2>7. ServedIn(p, m, g)' /\ ServedIn(p, n, h)'
    BY <2>4, <2>5, <2>6
  <2>8. \A x \in Slots : Own(p, 1, x) => Own(p, 1, x)'
    BY <1>6 DEF OwnKept, Namespaces
  <2>9. CarryHeld(p)'
    BY <1>1, <1>2, <1>4, <2>1, <2>8, ServingFacts, CarryHeldKept
  <2>10. manifest'[p] = m /\ ns'[p] = g /\ saved'[p].manifest = n /\ saved'[p].ns = h
    BY <1>1, <2>5
  <2> QED BY <2>7, <2>9, <2>10 DEF ServedIn
<1> QED BY <1>3, <1>7, <1>8 DEF ServedInv, Serving

LEMMA ServedInvStep ==
    ASSUME IInv, [Next]_vars
    PROVE  ServedInv'
<1>1. ASSUME UNCHANGED <<index, ns, carry>>
      PROVE  ServedInv'
  <2>1. CASE Plain
    BY <1>1, <2>1, UnchangedOwn, ServedQuiet
  <2> QED BY <2>1, PlainStep, DeclareServes, RestartServes
<1>2. ASSUME NEW t, \/ \E e, size : AttachFile(t, e, size)
                    \/ \E e, size : AttachVersion(t, e, size)
                    \/ SealRefused(t) \/ NoteLoad(t) \/ NoteStore(t) \/ SegmentFails(t)
                    \/ Declare(t) \/ DeclareRefused(t) \/ Persist(t) \/ ClearLoad(t)
                    \/ ClearStore(t)
      PROVE  UNCHANGED <<index, ns, carry>>
  BY <1>2, Zenon DEF AttachFile, AttachVersion, SealRefused, NoteLoad, NoteStore, SegmentFails,
     Declare, DeclareRefused, Persist, ClearLoad, ClearStore, indexVars, spaceVars
<1>3. ASSUME NEW p, \/ \E e, v : RevertAsset(p, e, v)
                    \/ \E v, i : Export(p, v, i)
                    \/ \E a, c : RequestRepair(p, a, c)
                    \/ \E q : ManifestArrived(p, q)
                    \/ FinishAdopting(p) \/ Snapshot(p) \/ Join(p) \/ Demote(p)
      PROVE  UNCHANGED <<index, ns, carry>>
  BY <1>3, Zenon DEF RevertAsset, Export, RequestRepair, ManifestArrived, FinishAdopting,
     Snapshot, Join, Demote, indexVars, spaceVars
<1>4. ASSUME NEW r, AnswerRepair(r)
      PROVE  UNCHANGED <<index, ns, carry>>
  BY <1>4, Zenon DEF AnswerRepair, indexVars, spaceVars
<1>5. ASSUME NEW t \in Tasks, NEW c \in Contents, Seal(t, c)
      PROVE  ServedInv'
  <2>1. Mono /\ UNCHANGED <<manifest, posted, saved>> /\ UNCHANGED <<ns, carry>>
    BY <1>5, MonoStep DEF Seal, manifestVars, spaceVars
  <2>2. Plain
    BY <2>1, PlainQuiet
  <2>3. OwnAdds(Owner[t], <<c, 0>>) /\ <<c, 0>> \in Slots /\ Owner[t] \in Members
    BY <1>5, SealOwn, OwnerType
  <2> QED BY <2>1, <2>2, <2>3, ServedQuiet
<1>6. ASSUME NEW t \in Tasks, StoreSegment(t)
      PROVE  ServedInv'
  <2>1. Mono /\ UNCHANGED <<manifest, posted, saved>> /\ UNCHANGED <<ns, carry>>
    BY <1>6, MonoStep DEF StoreSegment, manifestVars, spaceVars
  <2>2. Plain
    BY <2>1, PlainQuiet
  <2>3. PICK s \in Slots : OwnAdds(Owner[t], s) /\ Owner[t] \in Members
    BY <1>6, StoreSegmentOwn, OwnerType
  <2> QED BY <2>1, <2>2, <2>3, ServedQuiet
<1>7. ASSUME NEW t \in Tasks, Discard(t)
      PROVE  ServedInv'
  <2>1. Mono /\ UNCHANGED <<manifest, posted, saved>> /\ UNCHANGED <<ns, carry>>
    BY <1>7, MonoStep DEF Discard, manifestVars, spaceVars
  <2>2. Plain
    BY <2>1, PlainQuiet
  <2>3. OwnDrops(Owner[t], ns[Owner[t]], {task[t].content}) /\ Owner[t] \in Members
    BY <1>7, DiscardOwn, OwnerType
  <2>4. task[t].content \notin Declared
    BY <1>7, TaskInvFacts DEF Discard, Active, Undeclared, Clearing, Writing
  <2>5. \A u \in manifest[Owner[t]].versions : u.content \notin {task[t].content}
    BY <2>3, <2>4, DeclaredNow DEF ContentsOf
  <2> QED BY <2>1, <2>2, <2>3, <2>5, ServedDrops
<1>8. ASSUME NEW t \in Tasks, Withdraw(t)
      PROVE  ServedInv'
  <2>1. CASE DeleteFile(Owner[t], task[t].entry)
    <3>1. Plain /\ UNCHANGED <<ns, carry>> /\ Owner[t] \in Members
      BY <1>8, <2>1, PlainTask, OwnerType DEF Withdraw, spaceVars
    <3> QED BY <2>1, <3>1, ServedDelete
  <2>2. CASE UNCHANGED <<manifestVars, indexVars>>
    BY <1>8, <2>2, <1>1 DEF Withdraw, indexVars, spaceVars
  <2> QED BY <1>8, <2>1, <2>2 DEF Withdraw
<1>9. ASSUME NEW p \in Members, NEW e \in Entries, Delete(p, e)
      PROVE  ServedInv'
  <2>1. Plain /\ UNCHANGED <<ns, carry>> /\ DeleteFile(p, e)
    BY <1>9, PlainMember DEF Delete, spaceVars
  <2> QED BY <2>1, ServedDelete
<1>10. ASSUME NEW p \in Members, NEW q \in Members, NEW a \in Members, NEW s \in Slots,
              Reconcile(p, q, a, s)
      PROVE  ServedInv'
  <2>1. Mono /\ UNCHANGED <<manifest, posted, saved>> /\ UNCHANGED <<ns, carry>>
    BY <1>10, MonoStep DEF Reconcile, manifestVars, spaceVars
  <2>2. Plain
    BY <2>1, PlainQuiet
  <2>3. OwnSame
    BY <1>10, ReconcileSame
  <2> QED BY <2>1, <2>2, <2>3, ServedQuiet
<1>11. ASSUME NEW p \in Members, NEW s \in Slots, Carry(p, s)
      PROVE  ServedInv'
  BY <1>11, CarryServes
<1>12. ASSUME NEW p \in Members, StoreKey(p)
      PROVE  ServedInv'
  <2>1. Mono /\ UNCHANGED <<manifest, posted, saved>> /\ UNCHANGED <<ns, carry>>
    BY <1>12, MonoStep DEF StoreKey, manifestVars, spaceVars
  <2>2. Plain
    BY <2>1, PlainQuiet
  <2>3. PICK s \in Slots : OwnAdds(p, s)
    BY <1>12, StoreKeyOwn
  <2> QED BY <2>1, <2>2, <2>3, ServedQuiet
<1>13. ASSUME NEW p \in Members, AdoptNamespace(p)
      PROVE  ServedInv'
  BY <1>13, AdoptServes
<1>14. ASSUME NEW p \in Members, Restart(p)
      PROVE  ServedInv'
  BY <1>14, RestartServes
<1>15. ASSUME UNCHANGED vars
      PROVE  UNCHANGED <<index, ns, carry>>
  BY <1>15, Zenon DEF vars, indexVars, spaceVars
<1> QED BY <1>1, <1>2, <1>3, <1>4, <1>5, <1>6, <1>7, <1>8, <1>9, <1>10, <1>11, <1>12, <1>13,
           <1>14, <1>15 DEF Next

-----------------------------------------------------------------------------
(* The invariant holds.                                                    *)

LEMMA InitHeld ==
    ASSUME Init
    PROVE  /\ Held \subseteq {EmptyManifest} /\ Lineages \subseteq {{}} /\ Declared = {}
           /\ \A p \in Members : manifest[p] = EmptyManifest /\ saved[p].manifest = EmptyManifest
                                  /\ saved[p].ns = 1
<1>1. \A p \in Members : manifest[p] = EmptyManifest /\ saved[p].manifest = EmptyManifest
                          /\ saved[p].ns = 1
  BY DEF Init
<1>2. \A p \in Members, g \in Namespaces : posted[p][g] = EmptyManifest
  BY DEF Init
<1>3. Held \subseteq {EmptyManifest}
  BY <1>1, <1>2 DEF Held
<1>4. EmptyManifest.versions = {}
  BY DEF EmptyManifest
<1> QED BY <1>1, <1>3, <1>4 DEF Lineages, Declared, ContentsOf

LEMMA InitTypes ==
    ASSUME Init
    PROVE  Types /\ Bounds
<1>1. EmptyManifest \in Manifest /\ 1 \in Namespaces
  BY DEF EmptyManifest, Manifest, Namespaces
<1>2. ManifestTypes
  BY <1>1 DEF Init, ManifestTypes
<1>3. Blank \in IndexEntry
  BY DEF Blank, IndexEntry
<1>4. index \in IndexSpace
  BY <1>3 DEF Init, IndexSpace
<1>5. IndexTypes
  BY <1>4 DEF Init, IndexTypes
<1>6. SpaceTypes
  BY <1>1 DEF Init, SpaceTypes
<1>7. GroupTypes
  BY AssetsAssumption DEF Init, GroupTypes, NoReseal
<1>8. TaskTypes
  BY IdleType DEF Init, TaskTypes
<1>9. \A t \in Tasks : task[t] = Idle
  BY DEF Init
<1>10. SegmentsFor(0, SegmentBytes) \in Nat
  BY AssetsAssumption, SegmentCounts
<1>11. TaskBounds
  BY <1>9, <1>10, IdleType DEF TaskBounds
<1>12. MemberBounds
  BY InitHeld DEF Init, MemberBounds
<1>13. LimitBounds
  BY DEF Init, LimitBounds
<1> QED BY <1>2, <1>5, <1>6, <1>7, <1>8, <1>11, <1>12, <1>13 DEF Types, Bounds

LEMMA InitInv ==
    ASSUME Init
    PROVE  IInv
<1>1. Types /\ Bounds
  BY InitTypes
<1>2. /\ EmptyManifest.versions = {} /\ EmptyManifest.files = {} /\ EmptyManifest.gone = {}
  BY DEF EmptyManifest
<1>3. History
  <2>1. \A A \in Lineages : A = {}
    BY InitHeld
  <2>2. \A A \in Lineages : Capped(A)
    BY <2>1 DEF Capped
  <2>3. SoundLineages(Lineages, used)
    BY <2>1, <2>2 DEF SoundLineages
  <2> QED BY <1>2, <2>3, InitHeld DEF History, Filed
<1>4. \A t \in Tasks : task[t].at = "idle"
  BY IdleType DEF Init
<1>5. \A t \in Tasks : ~Active(t)
  BY <1>4 DEF Active, Undeclared, Writing, Clearing
<1>6. TaskInv
  BY <1>2, <1>4, <1>5, InitHeld DEF TaskInv, Writing
<1>7. \A p \in Members : pending[p] = {} /\ carry[p] = {}
  BY DEF Init
<1>8. LogInv
  BY <1>4, <1>7 DEF LogInv, Clearing
<1>9. \A p, q \in Members, g \in Namespaces, s \in Slots : index[q][g][p][s] = Blank
  BY DEF Init
<1>10. OwnNewest
  BY <1>9 DEF OwnNewest, Blank
<1>11. Blank.n = 0 /\ ~IsSet(Blank)
  BY DEF Blank, IsSet
<1>12. \A p \in Members, g \in Namespaces, s \in Slots : ~Own(p, g, s)
  BY <1>9, <1>11 DEF Own
<1>13. SegmentInv
  BY <1>7, <1>12 DEF SegmentInv, CarriesDeclared, SegmentSlots
<1>14. WritingInv
  BY <1>4 DEF WritingInv, WritingOf, Writing
<1>15. ServedInv
  BY <1>2, <1>7, InitHeld DEF ServedInv, Lodged, Serving, ServedIn, CarryHeld
<1> QED BY <1>1, <1>3, <1>6, <1>8, <1>10, <1>13, <1>14, <1>15 DEF IInv

LEMMA InvStep ==
    ASSUME IInv, [Next]_vars
    PROVE  IInv'
<1>1. SegmentInv'
  BY CarriesDeclaredStep, SegmentSlotsStep DEF SegmentInv
<1> QED BY <1>1, TypesStep, BoundsStep, HistoryStep, TaskInvStep, LogInvStep, WritingInvStep,
           ServedInvStep DEF IInv

(* The inductive invariant: what holds of manifests, logs and index entries *)
(* between any two steps of any attachments.                               *)
THEOREM AssetsInvariant == Spec => []IInv
<1>1. Init => IInv
  BY InitInv
<1>2. IInv /\ [Next]_vars => IInv'
  BY InvStep
<1> QED BY <1>1, <1>2, PTL DEF Spec

-----------------------------------------------------------------------------
(* What the invariant says of the system.                                  *)

(* Manifests, index, log and tasks keep their shapes through attachments,  *)
(* faults, adoptions and restarts.                                         *)
THEOREM TypeCorrect == Spec => []TypeOK
<1>1. ASSUME IInv
      PROVE  TypeOK
  <2>1. ASSUME NEW p \in Members
        PROVE  /\ manifest[p].files \subseteq Entries /\ manifest[p].gone \subseteq manifest[p].files
               /\ manifest[p].versions \subseteq Version
               /\ saved[p].ns \in Namespaces /\ ns[p] \in Namespaces
               /\ blobs[p] \subseteq Slots /\ asked[p] \subseteq blobs[p]
               /\ policy[p] \subseteq Contents /\ pending[p] \subseteq used
               /\ carry[p] \subseteq Slots /\ (carry[p] # {} => p \in adopting)
    <3>1. manifest[p] \in Manifest /\ saved[p].ns \in Namespaces
      BY <1>1 DEF IInv, Types, ManifestTypes
    <3>2. manifest[p].gone \subseteq manifest[p].files
      BY <1>1, FiledNow DEF Filed
    <3> QED BY <1>1, <3>1, <3>2
            DEF IInv, Types, IndexTypes, SpaceTypes, Manifest, Bounds, MemberBounds
  <2>2. ASSUME NEW t \in Tasks
        PROVE  /\ task[t].at \in Steps /\ task[t].log \subseteq used
               /\ task[t].seg \in 0..SegmentsFor(task[t].size, SegmentBytes)
    <3>1. /\ task[t].at \in Steps /\ task[t].seg \in 0..MaxSegments /\ MaxSegments \in Nat
          /\ SegmentsFor(task[t].size, SegmentBytes) \in 1..MaxSegments
      BY <1>1, TaskFacts
    <3> QED BY <1>1, <3>1 DEF IInv, Bounds, TaskBounds
  <2>3. used \subseteq limit.contents /\ done \subseteq limit.kinds
    BY <1>1 DEF IInv, Bounds, LimitBounds
  <2> QED BY <2>1, <2>2, <2>3 DEF TypeOK
<1> QED BY <1>1, AssetsInvariant, PTL

(* Whatever a member's manifest offers for export, segments_for and        *)
(* payload_len tile it: no byte is missing, doubled or beyond its end.     *)
THEOREM ExportedWhole == Spec => []ExportIsWhole
<1>1. ASSUME IInv
      PROVE  ExportIsWhole
  <2>1. SUFFICES ASSUME NEW p \in Members, NEW v \in AllVersions(manifest[p])
                 PROVE  SegmentsTile(v.size, SegmentBytes)
    BY DEF ExportIsWhole
  <2>2. manifest[p] \in Manifest
    BY <1>1 DEF IInv, Types, ManifestTypes
  <2>3. v \in Version
    BY <2>2, ManifestFacts
  <2>4. v.size \in Nat /\ SegmentBytes \in Nat \ {0}
    BY <2>3, VersionSlots, AssetsAssumption
  <2> QED BY <2>4, Tiles
<1> QED BY <1>1, AssetsInvariant, PTL

(* Every segment a member has set under its own author is declared, being  *)
(* written, or named by the pending-asset log that sweep_orphaned_assets   *)
(* withdraws from at the next start.                                       *)
THEOREM OrphansLogged == Spec => []OrphansAreLogged
<1>1. ASSUME IInv
      PROVE  OrphansAreLogged
  <2>1. SUFFICES ASSUME NEW p \in Members \ logLost, NEW s \in Slots, IsSegment(s),
                        IsSet(index[p][ns[p]][p][s])
                 PROVE  \/ s[1] \in pending[p] \cup cut
                        \/ \E q \in Members : \E v \in manifest[q].versions : v.content = s[1]
    BY DEF OrphansAreLogged
  <2>2. ns[p] \in Namespaces /\ saved[p].ns <= ns[p]
    BY <1>1 DEF IInv, Types, SpaceTypes, Bounds, MemberBounds
  <2>3. SlotInv(p, ns[p], s)
    BY <1>1, <2>1, <2>2 DEF IInv, SegmentInv, SegmentSlots, Own
  <2>4. s[1] \in cut \cup pending[p] \cup ContentsOf(saved[p].manifest)
    BY <2>2, <2>3 DEF SlotInv
  <2>5. saved[p].manifest.versions \subseteq manifest[p].versions
    BY <1>1, FiledNow
  <2> QED BY <2>4, <2>5 DEF ContentsOf
<1> QED BY <1>1, AssetsInvariant, PTL

(* A version that a member attached, and that its manifest declares, is    *)
(* served by that member whole: "manifest last" makes attach_version atomic *)
(* to a reader, except where a stop or an adoption cut the attachment or   *)
(* the log lost an update.                                                 *)
THEOREM DeclaredServed == Spec => []DeclaredIsServed
<1>1. ASSUME IInv
      PROVE  DeclaredIsServed
  <2>1. SUFFICES ASSUME NEW p \in Members \ (adopting \cup logLost), NEW v \in AllVersions(manifest[p]),
                        v.author = p, Introduces(v, manifest[p]), v.content \notin cut,
                        NEW s \in SlotsOfVersion(v)
                 PROVE  Own(p, ns[p], s) /\ (IsSegment(s) => s \in blobs[p])
    BY DEF DeclaredIsServed, Serves, Own
  <2>2. manifest[p] \in Manifest /\ manifest[p].versions \in Lineages
    BY <1>1, HeldType DEF IInv, Types, ManifestTypes
  <2>3. v \in manifest[p].versions /\ v \in Version /\ v.entry \notin manifest[p].gone
    BY <2>2, ManifestFacts DEF AllVersions, AssetVersions, Live
  <2>4. Original(Lineages, v)
    <3>1. PICK u \in manifest[p].versions : u.content = v.content /\ Original(Lineages, u)
      BY <1>1, <2>2, <2>3 DEF IInv, History, SoundLineages
    <3>2. u \in Version /\ v.seq \in Nat /\ u.seq \in Nat
      BY <2>2, <2>3, ManifestFacts DEF Version
    <3>3. v.seq <= u.seq
      BY <2>1, <3>1 DEF Introduces
    <3>4. v = u \/ u.seq < v.seq
      BY <2>2, <2>3, <3>1 DEF Original
    <3> QED BY <3>1, <3>2, <3>3, <3>4
  <2>5. Attached(p, manifest[p], v)
    BY <2>1, <2>3, <2>4 DEF Attached
  <2>6. carry[p] = {}
    BY <1>1, <2>1 DEF IInv, Bounds, MemberBounds
  <2>7. Own(p, ns[p], s)
    BY <1>1, <2>1, <2>3, <2>5, <2>6, ServingFacts DEF ServedIn
  <2>8. \A i \in 1..SegmentsFor(v.size, SegmentBytes) : <<v.content, i>> \in blobs[p]
    BY <1>1, <2>1, <2>2, <2>3, <2>4 DEF IInv, ServedInv, Lodged
  <2>9. IsSegment(s) => s \in blobs[p]
    BY <2>1, <2>3, <2>8, VersionSlots
  <2> QED BY <2>7, <2>9
<1> QED BY <1>1, AssetsInvariant, PTL

(* What AttachSupersedes says of a step. *)
Supersedes ==
  \A p \in Members : \A v \in manifest'[p].versions \ manifest[p].versions :
    v.author = p => \/ CurrentVersion(manifest'[p], v.entry) = v
                    \/ \E q \in Members : ManifestArrived(p, q)

LEMMA AddedIsCurrent ==
    ASSUME IInv, NEW p \in Members, NEW e \in Entries, Live(manifest[p], e), NEW c \in Contents,
           NEW size \in 0..MaxSize, NEW now \in limit.times,
           Changed(p, AddedTo(p, NewVersion(p, e, c, size, now)))
    PROVE  Supersedes
<1>1. PICK w, m : w = NewVersion(p, e, c, size, now) /\ m = AddedTo(p, w)
  OBVIOUS
<1>2. /\ w \in Version /\ m \in Manifest
      /\ m.files = manifest[p].files /\ m.gone = manifest[p].gone
      /\ m.versions = manifest[p].versions \cup {w} /\ w.entry = e
      /\ \A x \in AssetVersions(manifest[p], e) : x.seq < w.seq
  BY <1>1, AddVersionType DEF IInv
<1>3. manifest'[p] = m /\ \A q \in Members \ {p} : manifest'[q] = manifest[q]
  BY <1>1 DEF Changed
<1>4. AssetVersions(m, e) = AssetVersions(manifest[p], e) \cup {w}
  BY <1>2 DEF AssetVersions, Live
<1>5. CurrentVersion(m, e) = w
  BY <1>2, <1>4, HighestIsCurrent
<1> QED BY <1>2, <1>3, <1>5 DEF Supersedes

LEMMA NothingAdded ==
    ASSUME \A p \in Members : manifest'[p].versions \subseteq manifest[p].versions
    PROVE  Supersedes
BY DEF Supersedes

LEMMA SupersedesStep ==
    ASSUME IInv, [Next]_vars
    PROVE  Supersedes
<1>1. ASSUME UNCHANGED <<manifest>>
      PROVE  Supersedes
  BY <1>1, NothingAdded
<1>2. ASSUME NEW t, \/ \E e, size : AttachVersion(t, e, size)
                    \/ \E c : Seal(t, c)
                    \/ SealRefused(t) \/ NoteLoad(t) \/ NoteStore(t) \/ StoreSegment(t)
                    \/ SegmentFails(t) \/ DeclareRefused(t) \/ Persist(t) \/ Discard(t)
                    \/ ClearLoad(t) \/ ClearStore(t)
      PROVE  UNCHANGED <<manifest>>
  BY <1>2, Zenon DEF AttachVersion, Seal, SealRefused, NoteLoad, NoteStore, StoreSegment,
     SegmentFails, DeclareRefused, Persist, Discard, ClearLoad, ClearStore, manifestVars
<1>3. ASSUME NEW p, \/ \E v, i : Export(p, v, i)
                    \/ \E a, c : RequestRepair(p, a, c)
                    \/ \E q, a, s : Reconcile(p, q, a, s)
                    \/ \E s : Carry(p, s)
                    \/ StoreKey(p) \/ AdoptNamespace(p) \/ FinishAdopting(p) \/ Snapshot(p)
                    \/ Join(p) \/ Demote(p)
      PROVE  UNCHANGED <<manifest>>
  BY <1>3, Zenon DEF Export, RequestRepair, Reconcile, Carry, StoreKey, AdoptNamespace,
     FinishAdopting, Snapshot, Join, Demote, manifestVars
<1>4. ASSUME NEW r, AnswerRepair(r)
      PROVE  UNCHANGED <<manifest>>
  BY <1>4, Zenon DEF AnswerRepair, manifestVars
<1>5. ASSUME NEW t \in Tasks, NEW e \in Entries, NEW size \in 0..MaxSize, AttachFile(t, e, size)
      PROVE  Supersedes
  <2>1. \A q \in Members : manifest'[q].versions \subseteq manifest[q].versions
    BY <1>5, AttachFileEffect, OwnerType DEF Changed, IInv
  <2> QED BY <2>1, NothingAdded
<1>6. ASSUME NEW t \in Tasks, Declare(t)
      PROVE  Supersedes
  <2>1. /\ task[t].entry \in Entries /\ task[t].content \in Contents /\ task[t].size \in 0..MaxSize
        /\ Owner[t] \in Members /\ Live(manifest[Owner[t]], task[t].entry)
    BY <1>6, TaskFacts DEF Declare, Complete, MayDeclare, Active, Undeclared, Writing
  <2>2. PICK now \in limit.times :
          Changed(Owner[t], AddedTo(Owner[t],
            NewVersion(Owner[t], task[t].entry, task[t].content, task[t].size, now)))
    BY <1>6, <2>1, DeclareEffect DEF IInv
  <2> QED BY <2>1, <2>2, AddedIsCurrent
<1>7. ASSUME NEW t \in Tasks, Withdraw(t)
      PROVE  Supersedes
  <2>1. CASE DeleteFile(Owner[t], task[t].entry)
    <3>1. \A q \in Members : manifest'[q].versions \subseteq manifest[q].versions
      BY <2>1, DeleteEffect, OwnerType DEF Changed, IInv
    <3> QED BY <3>1, NothingAdded
  <2>2. CASE UNCHANGED <<manifestVars, indexVars>>
    BY <2>2, <1>1 DEF manifestVars
  <2> QED BY <1>7, <2>1, <2>2 DEF Withdraw
<1>8. ASSUME NEW p \in Members, NEW e \in Entries, Delete(p, e)
      PROVE  Supersedes
  <2>1. \A q \in Members : manifest'[q].versions \subseteq manifest[q].versions
    BY <1>8, DeleteEffect DEF Delete, Changed, IInv
  <2> QED BY <2>1, NothingAdded
<1>9. ASSUME NEW p \in Members, NEW e \in Entries, NEW v \in AllVersions(manifest[p]),
              RevertAsset(p, e, v)
      PROVE  Supersedes
  <2>1. v \in manifest[p].versions /\ v \in AssetVersions(manifest[p], e)
    BY <1>9, RevertEffect DEF IInv
  <2>2. v.content \in Contents /\ v.size \in 0..MaxSize /\ Live(manifest[p], e)
    BY <2>1 DEF IInv, Types, ManifestTypes, Manifest, Version, AssetVersions
  <2>3. PICK now \in limit.times :
          Changed(p, AddedTo(p, NewVersion(p, e, v.content, v.size, now)))
    BY <1>9, RevertEffect DEF IInv
  <2> QED BY <2>2, <2>3, AddedIsCurrent
<1>10. ASSUME NEW p \in Members, NEW q \in Members, ManifestArrived(p, q)
      PROVE  Supersedes
  <2>1. \A x \in Members \ {p} : manifest'[x] = manifest[x]
    BY <1>10, ArrivedEffect DEF Changed, IInv
  <2> QED BY <1>10, <2>1 DEF Supersedes
<1>11. ASSUME NEW p \in Members, Restart(p)
      PROVE  Supersedes
  <2>1. \A q \in Members : manifest'[q].versions \subseteq manifest[q].versions
    BY <1>11, RestartEffect, FiledNow DEF Changed, IInv
  <2> QED BY <2>1, NothingAdded
<1>12. ASSUME UNCHANGED vars
      PROVE  UNCHANGED <<manifest>>
  BY <1>12, Zenon DEF vars, manifestVars
<1>13. limit.tasks \subseteq Tasks /\ limit.sizes \subseteq 0..MaxSize
  BY LimitFacts DEF IInv, Types, TaskTypes
<1> QED BY <1>1, <1>2, <1>3, <1>4, <1>5, <1>6, <1>7, <1>8, <1>9, <1>10, <1>11, <1>12, <1>13 DEF
           Next

(* The version a member attaches or reverts to is at once the current one  *)
(* in its own manifest, whatever the clocks read: add_asset_version counts  *)
(* seq past every version it knows of, and precedence looks at seq first.   *)
THEOREM AttachmentSupersedes == Spec => AttachSupersedes
<1>1. IInv /\ [Next]_vars => [Supersedes]_vars
  BY SupersedesStep
<1> QED BY <1>1, AssetsInvariant, PTL DEF Spec, AttachSupersedes, Supersedes

=============================================================================
