---------------------------- MODULE RosterProofs ----------------------------
(***************************************************************************)
(* For any devices, administrators and scenarios: the types of Roster, and *)
(* that a removal that has returned holds on the remover's node unless two *)
(* refreshes of the roster crossed.  For any devices and scenarios with    *)
(* one administrator: that no joiner is cut off.                           *)
(***************************************************************************)
EXTENDS Roster, FiniteSetTheorems, TLAPS

(* Most leaves are first-order: Zenon is tried first, SMT for the rest. *)
USE ZenonT(4), SMTT(15)

Operations == [op : {"add", "remove", "update"}, dev : Devices]
Entries == [doc : Document, epoch : (0..Len(log)) \union {-1}]
Refreshes == [due : BOOLEAN, set : SUBSET Devices, overtaken : BOOLEAN,
              add : Devices \union {NoDevice}, remove : Devices \union {NoDevice}]

GroupType ==
    /\ log \in Seq(Operations)
    /\ known \in [Devices -> 0..Len(log)]
    /\ joined \subseteq Devices

ReplicaType ==
    /\ manifest \in [Devices -> Document]
    /\ gen \in [Devices -> Nat]
    /\ slot \in [Devices -> Entries]
    /\ seen \in [Devices -> [Devices -> Entries]]
    /\ \A a \in joined : slot[a].epoch \in 0..Len(log)

AdmissionType ==
    /\ derived \in [Devices -> SUBSET Devices]
    /\ bootstrap \in [Devices -> SUBSET Devices]
    /\ task \in [Devices -> [Callers -> Refreshes]]

TrafficType ==
    /\ neighbours \subseteq {{p, q} : p, q \in Devices}
    /\ stale \subseteq Devices
    /\ asked \in [Devices -> SUBSET (0..Len(log))]
    /\ repairs \subseteq [from : Devices, to : Devices]
    /\ answered \in [Devices -> SUBSET Devices]
    /\ invites \subseteq [from : Devices, to : Devices, known : 0..Len(log), gen : Nat]

HistoryType ==
    /\ limit \in Limits
    /\ restarts \in 0..limit.restarts
    /\ evicted \in [Devices -> SUBSET Devices]
    /\ raced \subseteq Devices /\ late \subseteq Devices /\ early \subseteq Devices

Types == GroupType /\ ReplicaType /\ AdmissionType /\ TrafficType /\ HistoryType

-----------------------------------------------------------------------------
(* The log grows by one entry, or not at all. *)
Grows == log' = log \/ \E e \in Operations : log' = Append(log, e)

LEMMA LogGrows ==
    ASSUME GroupType, Grows
    PROVE  /\ log' \in Seq(Operations)
           /\ Len(log) \in Nat /\ Len(log') \in Nat /\ Len(log) <= Len(log')
           /\ \A i \in 1..Len(log) : log'[i] = log[i]
           /\ 0..Len(log) \subseteq 0..Len(log')
           /\ Entries \subseteq Entries'
<1>1. /\ log' \in Seq(Operations)
      /\ Len(log) \in Nat /\ Len(log') \in Nat /\ Len(log) <= Len(log')
      /\ \A i \in 1..Len(log) : log'[i] = log[i]
  BY DEF GroupType, Grows
<1>2. 0..Len(log) \subseteq 0..Len(log')
  BY <1>1
<1>3. Entries \subseteq Entries'
  BY <1>2 DEF Entries, Document
<1> QED BY <1>1, <1>2, <1>3

(* What is typed stays typed when only the log has grown. *)
LEMMA ReplicaKept ==
    ASSUME GroupType, ReplicaType, Grows, UNCHANGED <<joined, replica>>
    PROVE  ReplicaType'
<1>1. 0..Len(log) \subseteq 0..Len(log') /\ Entries \subseteq Entries'
  BY LogGrows
<1> QED BY <1>1 DEF ReplicaType, replica

LEMMA TrafficKept ==
    ASSUME GroupType, TrafficType, Grows, UNCHANGED traffic
    PROVE  TrafficType'
<1>1. 0..Len(log) \subseteq 0..Len(log')
  BY LogGrows
<1>2. \A i \in invites : i \in [from : Devices, to : Devices, known : 0..Len(log'), gen : Nat]
  BY <1>1 DEF TrafficType
<1> QED BY <1>1, <1>2 DEF TrafficType, traffic

LEMMA Constants ==
    /\ IsFiniteSet(Devices) /\ Founder \in Devices /\ NoDevice \notin Devices
    /\ \A l \in Limits : /\ l.settled \subseteq Devices
                         /\ l.adds \in Nat /\ l.removes \in Nat /\ l.restarts \in Nat
BY RosterAssumption

LEMMA OrderType ==
    ASSUME NEW S \in SUBSET Devices
    PROVE  Cardinality(S) \in Nat /\ Order(S) \in [1..Cardinality(S) -> S]
<1>1. IsFiniteSet(S)
  BY FS_Subset, Constants
<1>2. Cardinality(S) \in Nat /\ ExistsBijection(1..Cardinality(S), S)
  BY <1>1, FS_CardinalityType
<1>3. \E f \in [1..Cardinality(S) -> S] : \A i, j \in 1..Cardinality(S) : f[i] = f[j] => i = j
  BY <1>2 DEF ExistsBijection, Bijection, Injection, IsInjective
<1> QED BY <1>2, <1>3 DEF Order

LEMMA OrderOnto ==
    ASSUME NEW S \in SUBSET Devices
    PROVE  \A x \in S : \E i \in 1..Cardinality(S) : Order(S)[i] = x
<1> DEFINE n == Cardinality(S)
<1>1. IsFiniteSet(S)
  BY FS_Subset, Constants
<1>2. n \in Nat /\ ExistsBijection(1..n, S)
  BY <1>1, FS_CardinalityType
<1>3. \E f \in [1..n -> S] : \A i, j \in 1..n : f[i] = f[j] => i = j
  BY <1>2 DEF ExistsBijection, Bijection, Injection, IsInjective
<1>4. Order(S) \in [1..n -> S] /\ \A i, j \in 1..n : Order(S)[i] = Order(S)[j] => i = j
  BY <1>3 DEF Order
<1>5. Cardinality(1..n) = n
  <2> HIDE DEF n
  <2>1. n \in Int /\ 1 \in Int /\ (1 > n => n = 0)
    BY <1>2
  <2>2. Cardinality(1..n) = IF 1 > n THEN 0 ELSE n - 1 + 1
    BY <2>1, FS_Interval
  <2> QED BY <2>1, <2>2
<1>6. Order(S) \in Injection(1..n, S)
  BY <1>4 DEF Injection, IsInjective
<1>7. Order(S) \in Surjection(1..n, S)
  BY <1>1, <1>5, <1>6, FS_Injection
<1> QED BY <1>7 DEF Surjection

LEMMA EmptyValues ==
    /\ Nothing \in Document
    /\ NoChunk.epoch = -1 /\ NoChunk.doc = Nothing
    /\ \A n \in Nat : NoChunk \in [doc : Document, epoch : (0..n) \union {-1}]
    /\ Idle \in Refreshes /\ Idle.due = FALSE /\ Idle.set = {}
    /\ Idle.add = NoDevice /\ Idle.remove = NoDevice
BY DEF Nothing, Document, NoChunk, Idle, Refreshes

LEMMA ChunkType ==
    ASSUME GroupType, NEW doc \in Document, NEW n \in 0..Len(log)
    PROVE  Chunk(doc, n) \in Entries /\ Chunk(doc, n).epoch = n /\ Chunk(doc, n).doc = doc
BY DEF Chunk, Entries

LEMMA InitTypes == Init => Types
<1> SUFFICES ASSUME Init PROVE Types
  OBVIOUS
<1> DEFINE S == limit.settled
           rest == {Founder} \union S
           size == Cardinality(S)
           doc == [devices |-> rest, authors |-> rest]
           entry == Chunk(doc, size)
<1>1. limit \in Limits /\ S \subseteq Devices /\ limit.restarts \in Nat /\ rest \subseteq Devices
  BY Constants DEF Init
<1>2. size \in Nat /\ Order(S) \in [1..size -> S]
  BY <1>1, OrderType
<1>3. doc \in Document
  BY <1>1 DEF Document
<1>4. log = [i \in 1..size |-> [op |-> "add", dev |-> Order(S)[i]]]
  BY DEF Init
<1>5. known = [p \in Devices |-> IF p \in rest THEN size ELSE 0] /\ joined = rest
  BY DEF Init
<1>6. /\ manifest = [p \in Devices |-> IF p \in rest THEN doc ELSE Nothing]
      /\ slot = [p \in Devices |-> IF p \in rest THEN entry ELSE NoChunk]
      /\ seen = [p \in Devices |-> [a \in Devices |->
                   IF {a, p} \subseteq rest THEN entry ELSE NoChunk]]
      /\ gen = [p \in Devices |-> 0]
  BY DEF Init
<1>7. /\ derived = [p \in Devices |-> IF p \in rest THEN rest ELSE {}]
      /\ bootstrap = [p \in Devices |-> IF p \in S THEN {Founder} ELSE {}]
      /\ task = [p \in Devices |-> [t \in Callers |-> Idle]]
  BY DEF Init
<1>8. neighbours = {{x[1], x[2]} : x \in {y \in rest \X rest : y[1] # y[2]}}
  BY DEF Init
<1> HIDE DEF S, rest, size, doc
<1>9. log \in Seq(Operations) /\ Len(log) = size
  <2>1. \A i \in 1..size : [op |-> "add", dev |-> Order(S)[i]] \in Operations
    BY <1>1, <1>2 DEF Operations
  <2> QED BY <1>2, <1>4, <2>1
<1>10. GroupType
  BY <1>1, <1>2, <1>5, <1>9 DEF GroupType
<1>11. entry \in Entries /\ entry.epoch = size /\ NoChunk \in Entries
  BY <1>2, <1>3, <1>9, <1>10, ChunkType, EmptyValues DEF Entries
<1> HIDE DEF entry
<1>12. ReplicaType
  BY <1>1, <1>2, <1>3, <1>5, <1>6, <1>9, <1>11, EmptyValues DEF ReplicaType
<1>13. AdmissionType
  BY <1>1, <1>7, EmptyValues, Constants DEF AdmissionType
<1>14. TrafficType
  <2>1. neighbours \subseteq {{p, q} : p, q \in Devices}
    BY <1>1, <1>8
  <2>2. /\ stale = {} /\ repairs = {} /\ invites = {}
        /\ asked = [p \in Devices |-> {}] /\ answered = [p \in Devices |-> {}]
    BY DEF Init
  <2>3. stale \subseteq Devices /\ repairs \subseteq [from : Devices, to : Devices]
    BY <2>2
  <2>4. invites \subseteq [from : Devices, to : Devices, known : 0..Len(log), gen : Nat]
    BY <2>2
  <2>5. asked \in [Devices -> SUBSET (0..Len(log))] /\ answered \in [Devices -> SUBSET Devices]
    BY <2>2
  <2> QED BY <2>1, <2>3, <2>4, <2>5 DEF TrafficType
<1>15. HistoryType
  BY <1>1 DEF Init, HistoryType
<1> QED BY <1>10, <1>12, <1>13, <1>14, <1>15 DEF Types

-----------------------------------------------------------------------------
(* One lemma for each action: it keeps the types.                          *)

LEMMA Appended ==
    ASSUME NEW s \in Seq(Operations), NEW e \in Operations
    PROVE  /\ Len(s) \in Nat /\ Len(Append(s, e)) = Len(s) + 1
           /\ Append(s, e)[Len(s) + 1] = e
           /\ \A i \in 1..Len(s) : Append(s, e)[i] = s[i]
OBVIOUS

LEMMA ResetType ==
    ASSUME NEW S, NEW T, NEW g \in [S -> SUBSET T], NEW x \in S
    PROVE  [g EXCEPT ![x] = {}] \in [S -> SUBSET T]
OBVIOUS

LEMMA RosterType ==
    ASSUME NEW doc \in Document, NEW members
    PROVE  RosterOf(doc, members) \in SUBSET Devices /\ RosterOf(doc, members) \subseteq members
BY DEF RosterOf, Document

LEMMA RefreshType ==
    ASSUME NEW doc \in Document, NEW members
    PROVE  /\ Refresh(doc, members) \in Refreshes
           /\ Refresh(doc, members).due /\ ~Refresh(doc, members).overtaken
           /\ Refresh(doc, members).set = RosterOf(doc, members)
           /\ Refresh(doc, members).remove = NoDevice /\ Refresh(doc, members).add = NoDevice
<1>1. Idle \in Refreshes /\ Idle.add = NoDevice /\ Idle.remove = NoDevice /\ Idle.overtaken = FALSE
  BY DEF Idle, Refreshes
<1>2. RosterOf(doc, members) \in SUBSET Devices
  BY RosterType
<1> QED BY <1>1, <1>2 DEF Refresh, Refreshes

Adding(b, d) == [b EXCEPT !.add = d]
Removing(b, d) == [b EXCEPT !.remove = d]

LEMMA MarkedType ==
    ASSUME NEW b \in Refreshes, NEW d \in Devices
    PROVE  /\ Adding(b, d) \in Refreshes
           /\ Adding(b, d).due = b.due /\ Adding(b, d).set = b.set
           /\ Adding(b, d).overtaken = b.overtaken
           /\ Adding(b, d).add = d /\ Adding(b, d).remove = b.remove
           /\ Removing(b, d) \in Refreshes
           /\ Removing(b, d).due = b.due /\ Removing(b, d).set = b.set
           /\ Removing(b, d).overtaken = b.overtaken
           /\ Removing(b, d).add = b.add /\ Removing(b, d).remove = d
BY DEF Refreshes, Adding, Removing

LEMMA DocumentType ==
    ASSUME NEW m \in Document, NEW d \in Devices
    PROVE  SetDevice(m, d) \in Document /\ SetAuthor(m, d) \in Document
BY DEF SetDevice, SetAuthor, Document

StartedAt(p, op, d, doc) ==
    /\ task'[p]["app"].due /\ ~task'[p]["app"].overtaken
    /\ task'[p]["app"].set = IF op = "add" THEN RosterOf(doc, Members(p) \union {d})
                             ELSE RosterOf(doc, Members(p) \ {d})
    /\ task'[p]["app"].add = IF op = "add" THEN d ELSE NoDevice
    /\ task'[p]["app"].remove = IF op = "add" THEN NoDevice ELSE d
    /\ task'[p]["pump"] = task[p]["pump"]
    /\ \A q \in Devices \ {p} : task'[q] = task[q]

(* drive appends one operation and starts one refresh. *)
LEMMA DriveTypes ==
    ASSUME Types, NEW p \in Devices, NEW d \in Devices, NEW doc \in Document,
           NEW op \in {"add", "remove"}, Drive(p, op, d, doc), UNCHANGED joined
    PROVE  /\ GroupType' /\ Grows /\ log' = Append(log, [op |-> op, dev |-> d])
           /\ known' = [known EXCEPT ![p] = Len(log')] /\ Len(log') = Len(log) + 1
           /\ task' \in [Devices -> [Callers -> Refreshes]]
           /\ StartedAt(p, op, d, doc)
<1>1. log' = Append(log, [op |-> op, dev |-> d]) /\ known' = [known EXCEPT ![p] = Len(log')]
  BY DEF Drive
<1>2. [op |-> op, dev |-> d] \in Operations
  BY DEF Operations
<1>3. Grows
  BY <1>1, <1>2 DEF Grows
<1>4. Len(log') = Len(log) + 1 /\ Len(log) \in Nat
  BY <1>1, <1>2 DEF Types, GroupType
<1>5. GroupType'
  <2>1. log' \in Seq(Operations) /\ 0..Len(log) \subseteq 0..Len(log')
    BY <1>3, LogGrows DEF Types
  <2>2. known' \in [Devices -> 0..Len(log')]
    BY <1>1, <1>4, <2>1 DEF Types, GroupType
  <2> QED BY <2>1, <2>2 DEF Types, GroupType
<1> DEFINE b1 == Refresh(doc, Members(p) \union {d})
           b2 == Refresh(doc, Members(p) \ {d})
           r1 == Adding(b1, d)
           r2 == Removing(b2, d)
           r == IF op = "add" THEN r1 ELSE r2
<1>a. /\ b1 \in Refreshes /\ b1.due /\ ~b1.overtaken /\ b1.remove = NoDevice
      /\ b1.set = RosterOf(doc, Members(p) \union {d})
  BY RefreshType
<1>b. /\ b2 \in Refreshes /\ b2.due /\ ~b2.overtaken /\ b2.add = NoDevice
      /\ b2.set = RosterOf(doc, Members(p) \ {d})
  BY RefreshType
<1>8. task' = [task EXCEPT ![p]["app"] = r]
  BY DEF Drive, Adding, Removing
<1> HIDE DEF b1, b2
<1>6. /\ r1 \in Refreshes /\ r1.due /\ ~r1.overtaken /\ r1.add = d /\ r1.remove = NoDevice
      /\ r1.set = RosterOf(doc, Members(p) \union {d})
  <2>1. r1 \in Refreshes /\ r1.add = d /\ r1.remove = b1.remove /\ r1.set = b1.set
    BY <1>a, MarkedType
  <2>2. r1.due = b1.due /\ r1.overtaken = b1.overtaken
    BY <1>a, MarkedType
  <2> HIDE DEF r1
  <2> QED BY <1>a, <2>1, <2>2
<1>7. /\ r2 \in Refreshes /\ r2.due /\ ~r2.overtaken /\ r2.add = NoDevice /\ r2.remove = d
      /\ r2.set = RosterOf(doc, Members(p) \ {d})
  <2>1. r2 \in Refreshes /\ r2.add = b2.add /\ r2.remove = d /\ r2.set = b2.set
    BY <1>b, MarkedType
  <2>2. r2.due = b2.due /\ r2.overtaken = b2.overtaken
    BY <1>b, MarkedType
  <2> HIDE DEF r2
  <2> QED BY <1>b, <2>1, <2>2
<1> HIDE DEF r1, r2
<1>9. r \in Refreshes
  BY <1>6, <1>7
<1> HIDE DEF r
<1>10. /\ task' \in [Devices -> [Callers -> Refreshes]] /\ task'[p]["app"] = r
       /\ task'[p]["pump"] = task[p]["pump"]
       /\ \A q \in Devices \ {p} : task'[q] = task[q]
  BY <1>8, <1>9 DEF Types, AdmissionType, Callers
<1>11. /\ r.due /\ ~r.overtaken
       /\ r.set = IF op = "add" THEN RosterOf(doc, Members(p) \union {d})
                  ELSE RosterOf(doc, Members(p) \ {d})
       /\ r.add = IF op = "add" THEN d ELSE NoDevice
       /\ r.remove = IF op = "add" THEN NoDevice ELSE d
  BY <1>6, <1>7 DEF r
<1>12. StartedAt(p, op, d, doc)
  BY <1>10, <1>11 DEF StartedAt
<1> QED BY <1>1, <1>3, <1>4, <1>5, <1>10, <1>12

(* The entry of one author is replaced, the log having grown. *)
LEMMA StoreTypes ==
    ASSUME Types, Grows, NEW p \in Devices, NEW c \in Entries', c.epoch \in 0..Len(log'),
           slot' = [slot EXCEPT ![p] = c]
    PROVE  /\ slot' \in [Devices -> Entries']
           /\ \A a \in joined \union {p} : slot'[a].epoch \in 0..Len(log')
<1>1. Entries \subseteq Entries' /\ 0..Len(log) \subseteq 0..Len(log')
  BY LogGrows DEF Types
<1>2. slot \in [Devices -> Entries] /\ \A a \in joined : slot[a].epoch \in 0..Len(log)
  BY DEF Types, ReplicaType
<1>3. joined \subseteq Devices
  BY DEF Types, GroupType
<1>4. slot' \in [Devices -> Entries']
  BY <1>1, <1>2
<1>5. slot'[p] = c /\ \A a \in Devices \ {p} : slot'[a] = slot[a]
  BY <1>2
<1> QED BY <1>1, <1>2, <1>3, <1>4, <1>5

LEMMA AdmitTypes ==
    ASSUME Types, NEW p \in Devices, NEW d \in Devices, Admit(p, d)
    PROVE  Types'
<1> DEFINE doc == SetDevice(manifest[p], d)
<1>1. doc \in Document
  BY DocumentType DEF Types, ReplicaType
<1>2. /\ Drive(p, "add", d, doc)
      /\ manifest' = [manifest EXCEPT ![p] = doc]
      /\ slot' = [slot EXCEPT ![p] = Chunk(doc, Len(log'))]
      /\ UNCHANGED <<joined, gen, seen, derived, bootstrap, traffic, history>>
  BY DEF Admit
<1> HIDE DEF doc
<1>3. GroupType' /\ Grows /\ task' \in [Devices -> [Callers -> Refreshes]]
  BY <1>1, <1>2, DriveTypes
<1>4. Chunk(doc, Len(log')) \in Entries' /\ Chunk(doc, Len(log')).epoch \in 0..Len(log')
  BY <1>1, <1>3, LogGrows DEF Types, Chunk, Entries
<1>5. slot' \in [Devices -> Entries'] /\ \A a \in joined : slot'[a].epoch \in 0..Len(log')
  BY <1>2, <1>3, <1>4, StoreTypes
<1>6. seen' \in [Devices -> [Devices -> Entries']]
  <2>1. Entries \subseteq Entries'
    BY <1>3, LogGrows DEF Types
  <2> QED BY <1>2, <2>1 DEF Types, ReplicaType
<1>7. ReplicaType'
  BY <1>1, <1>2, <1>5, <1>6 DEF Types, ReplicaType
<1>8. AdmissionType'
  BY <1>2, <1>3 DEF Types, AdmissionType
<1>9. TrafficType'
  BY <1>2, <1>3, TrafficKept DEF Types
<1>10. HistoryType'
  BY <1>2 DEF Types, HistoryType, history
<1> QED BY <1>3, <1>7, <1>8, <1>9, <1>10 DEF Types

LEMMA SeenType ==
    ASSUME Types, Grows, NEW p \in Devices,
           seen' = [seen EXCEPT ![p] = [a \in Devices |-> NoChunk]]
    PROVE  seen' \in [Devices -> [Devices -> Entries']]
<1>1. Entries \subseteq Entries' /\ Len(log') \in Nat
  BY LogGrows DEF Types
<1>2. NoChunk \in Entries'
  BY <1>1, EmptyValues DEF Entries
<1> QED BY <1>1, <1>2 DEF Types, ReplicaType

LEMMA RemoveMemberTypes ==
    ASSUME Types, NEW p \in Devices, NEW d \in Devices, RemoveMember(p, d)
    PROVE  Types'
<1> DEFINE doc == manifest[p]
<1>1. doc \in Document
  BY DEF Types, ReplicaType
<1>2. /\ Drive(p, "remove", d, doc)
      /\ gen' = [gen EXCEPT ![p] = @ + 1]
      /\ slot' = [slot EXCEPT ![p] = Chunk(doc, Len(log'))]
      /\ seen' = [seen EXCEPT ![p] = [a \in Devices |-> NoChunk]]
      /\ UNCHANGED <<joined, manifest, derived, bootstrap, traffic, history>>
  BY DEF RemoveMember
<1> HIDE DEF doc
<1>3. GroupType' /\ Grows /\ task' \in [Devices -> [Callers -> Refreshes]]
  BY <1>1, <1>2, DriveTypes
<1>4. Chunk(doc, Len(log')) \in Entries' /\ Chunk(doc, Len(log')).epoch \in 0..Len(log')
  BY <1>1, <1>3, LogGrows DEF Types, Chunk, Entries
<1>5. slot' \in [Devices -> Entries'] /\ \A a \in joined : slot'[a].epoch \in 0..Len(log')
  BY <1>2, <1>3, <1>4, StoreTypes
<1>6. seen' \in [Devices -> [Devices -> Entries']]
  BY <1>2, <1>3, SeenType
<1>7. ReplicaType'
  BY <1>2, <1>5, <1>6 DEF Types, ReplicaType
<1>8. AdmissionType'
  BY <1>2, <1>3 DEF Types, AdmissionType
<1>9. TrafficType'
  BY <1>2, <1>3, TrafficKept DEF Types
<1>10. HistoryType'
  BY <1>2 DEF Types, HistoryType, history
<1> QED BY <1>3, <1>7, <1>8, <1>9, <1>10 DEF Types

(* Installing a roster ends one refresh and may overtake the other. *)
LEMMA InstallTask ==
    ASSUME Types, NEW p \in Devices, NEW t \in Callers, SetDerived(p, t)
    PROVE  /\ task[p][t] \in Refreshes /\ task[p][t].due
           /\ task' \in [Devices -> [Callers -> Refreshes]]
           /\ task'[p][t] = Idle
           /\ \A u \in Callers \ {t} :
                  /\ task'[p][u].due = task[p][u].due /\ task'[p][u].overtaken = task[p][u].due
                  /\ task'[p][u].set = task[p][u].set /\ task'[p][u].add = task[p][u].add
                  /\ task'[p][u].remove = task[p][u].remove
           /\ \A q \in Devices \ {p} : task'[q] = task[q]
<1> DEFINE other == CHOOSE u \in Callers : u # t
           o == [task[p][other] EXCEPT !.overtaken = task[p][other].due]
<1>1. other \in Callers /\ other # t /\ Callers = {t, other}
  BY DEF Callers
<1>2. task \in [Devices -> [Callers -> Refreshes]]
  BY DEF Types, AdmissionType
<1>3. task[p][t].due /\ task' = [task EXCEPT ![p][t] = Idle, ![p][other].overtaken = task[p][other].due]
  BY DEF SetDerived
<1> HIDE DEF other
<1>4. task[p][other] \in Refreshes /\ task[p][t] \in Refreshes
  BY <1>1, <1>2
<1>5. /\ o \in Refreshes /\ o.due = task[p][other].due /\ o.overtaken = task[p][other].due
      /\ o.set = task[p][other].set /\ o.add = task[p][other].add
      /\ o.remove = task[p][other].remove
  BY <1>4 DEF Refreshes
<1>6. task' = [task EXCEPT ![p] = [task[p] EXCEPT ![t] = Idle, ![other] = o]]
  BY <1>1, <1>2, <1>3
<1> HIDE DEF o
<1>7. /\ task' \in [Devices -> [Callers -> Refreshes]]
      /\ task'[p][t] = Idle /\ task'[p][other] = o
      /\ \A q \in Devices \ {p} : task'[q] = task[q]
  BY <1>1, <1>2, <1>5, <1>6, EmptyValues
<1> QED BY <1>1, <1>3, <1>4, <1>5, <1>7

LEMMA SetDerivedTypes ==
    ASSUME Types, NEW p \in Devices, NEW t \in Callers, SetDerived(p, t)
    PROVE  Types'
<1> DEFINE r == task[p][t]
<1>1. r \in Refreshes /\ task' \in [Devices -> [Callers -> Refreshes]]
  BY InstallTask
<1>2. /\ derived' = [derived EXCEPT ![p] = r.set]
      /\ raced' = IF r.overtaken THEN raced \union {p} ELSE raced
      /\ invites' = IF r.add = NoDevice THEN invites ELSE invites \union {BuildInvite(p, r.add)}
      /\ evicted' = [evicted EXCEPT ![p] = IF r.remove = NoDevice THEN @ ELSE @ \union {r.remove}]
      /\ UNCHANGED <<group, replica, bootstrap, neighbours, stale, asked, repairs, answered,
                     limit, restarts, late, early>>
  BY DEF SetDerived
<1> HIDE DEF r
<1>3. r.set \subseteq Devices /\ r.add \in Devices \union {NoDevice} /\ r.remove \in Devices \union {NoDevice}
  BY <1>1 DEF Refreshes
<1>4. GroupType' /\ log' = log /\ joined' = joined
  BY <1>2 DEF Types, GroupType, group
<1>5. ReplicaType'
  BY <1>2, <1>4, ReplicaKept DEF Types, Grows
<1>6. AdmissionType'
  BY <1>1, <1>2, <1>3 DEF Types, AdmissionType
<1>7. invites' \subseteq [from : Devices, to : Devices, known : 0..Len(log), gen : Nat]
  <2>1. ASSUME r.add # NoDevice
        PROVE  BuildInvite(p, r.add) \in [from : Devices, to : Devices, known : 0..Len(log), gen : Nat]
    BY <1>3, <2>1 DEF BuildInvite, Types, GroupType, ReplicaType
  <2> QED BY <1>2, <2>1 DEF Types, TrafficType
<1>8. TrafficType'
  BY <1>2, <1>4, <1>7 DEF Types, TrafficType
<1>9. evicted' \in [Devices -> SUBSET Devices]
  BY <1>2, <1>3 DEF Types, HistoryType
<1>10. HistoryType'
  BY <1>2, <1>9 DEF Types, HistoryType
<1> QED BY <1>4, <1>5, <1>6, <1>8, <1>10 DEF Types

LEMMA JoinTypes ==
    ASSUME Types, NEW i \in invites, Join(i)
    PROVE  Types'
<1> DEFINE d == i.to
           doc == SetAuthor(Nothing, d)
<1>1. d \in Devices /\ i.from \in Devices /\ i.known \in 0..Len(log) /\ i.gen \in Nat
  BY DEF Types, TrafficType
<1>2. doc \in Document
  BY <1>1, EmptyValues, DocumentType
<1>3. /\ joined' = joined \union {d}
      /\ known' = [known EXCEPT ![d] = i.known]
      /\ manifest' = [manifest EXCEPT ![d] = doc]
      /\ gen' = [gen EXCEPT ![d] = i.gen]
      /\ slot' = [slot EXCEPT ![d] = Chunk(doc, i.known)]
      /\ bootstrap' = [bootstrap EXCEPT ![d] = @ \union {i.from}]
      /\ UNCHANGED <<log, seen, derived, task, traffic, history>>
  BY DEF Join, AddBootstrap
<1> HIDE DEF d, doc
<1>4. GroupType' /\ Grows
  BY <1>1, <1>3 DEF Types, GroupType, Grows
<1>5. Chunk(doc, i.known) \in Entries' /\ Chunk(doc, i.known).epoch \in 0..Len(log')
  BY <1>1, <1>2, <1>3 DEF Chunk, Entries
<1>6. slot' \in [Devices -> Entries'] /\ \A a \in joined \union {d} : slot'[a].epoch \in 0..Len(log')
  BY <1>1, <1>3, <1>4, <1>5, StoreTypes
<1>7. ReplicaType'
  <2>1. Entries' = Entries
    BY <1>3 DEF Entries
  <2> QED BY <1>1, <1>2, <1>3, <1>6, <2>1 DEF Types, ReplicaType
<1>8. AdmissionType'
  BY <1>1, <1>3 DEF Types, AdmissionType
<1>9. TrafficType'
  BY <1>3, <1>4, TrafficKept DEF Types
<1>10. HistoryType'
  BY <1>3 DEF Types, HistoryType, history
<1> QED BY <1>4, <1>7, <1>8, <1>9, <1>10 DEF Types

LEMMA NeighborUpTypes ==
    ASSUME Types, NEW p \in Devices, NEW q \in Devices, NeighborUp(p, q)
    PROVE  Types'
<1>1. /\ neighbours' = neighbours \union {{p, q}}
      /\ stale' = stale \union {p, q}
      /\ UNCHANGED <<group, replica, admission, asked, repairs, answered, invites, history>>
  BY DEF NeighborUp
<1>2. GroupType' /\ Grows /\ log' = log /\ joined' = joined
  BY <1>1 DEF Types, GroupType, Grows, group
<1>3. ReplicaType'
  BY <1>1, <1>2, ReplicaKept DEF Types
<1>4. AdmissionType'
  BY <1>1 DEF Types, AdmissionType, admission
<1>5. TrafficType'
  <2>1. neighbours' \subseteq {{x, y} : x, y \in Devices}
    BY <1>1 DEF Types, TrafficType
  <2>2. stale' \subseteq Devices
    BY <1>1 DEF Types, TrafficType
  <2> QED BY <1>1, <1>2, <2>1, <2>2 DEF Types, TrafficType
<1>6. HistoryType'
  BY <1>1 DEF Types, HistoryType, history
<1> QED BY <1>2, <1>3, <1>4, <1>5, <1>6 DEF Types

LEMMA LearnOpsTypes ==
    ASSUME Types, NEW p \in Devices, NEW q \in Devices, LearnOps(p, q)
    PROVE  Types'
<1>1. known' = [known EXCEPT ![p] = known[q]] /\ UNCHANGED <<log, joined, replica, admission, traffic, history>>
  BY DEF LearnOps
<1>2. GroupType' /\ Grows
  BY <1>1 DEF Types, GroupType, Grows
<1>3. ReplicaType'
  BY <1>1, <1>2, ReplicaKept DEF Types
<1>4. AdmissionType'
  BY <1>1 DEF Types, AdmissionType, admission
<1>5. TrafficType'
  BY <1>1, <1>2, TrafficKept DEF Types
<1>6. HistoryType'
  BY <1>1 DEF Types, HistoryType, history
<1> QED BY <1>2, <1>3, <1>4, <1>5, <1>6 DEF Types

(* What p publishes of its manifest under an epoch it stands at. *)
LEMMA PublishedType ==
    ASSUME Types, NEW p \in Devices, NEW m \in Document, log' = log, joined' = joined,
           slot' = [slot EXCEPT ![p] = Chunk(m, known[p])] \/ slot' = slot
    PROVE  slot' \in [Devices -> Entries'] /\ \A a \in joined : slot'[a].epoch \in 0..Len(log')
<1>1. Grows /\ Entries' = Entries
  BY DEF Grows, Entries
<1>2. Chunk(m, known[p]) \in Entries' /\ Chunk(m, known[p]).epoch \in 0..Len(log')
  BY DEF Types, GroupType, Chunk, Entries
<1>3. CASE slot' = [slot EXCEPT ![p] = Chunk(m, known[p])]
  <2> DEFINE c == Chunk(m, known[p])
  <2>1. slot' = [slot EXCEPT ![p] = c] /\ c \in Entries' /\ c.epoch \in 0..Len(log')
    BY <1>2, <1>3
  <2> HIDE DEF c
  <2> QED BY <1>1, <2>1, StoreTypes
<1>4. CASE slot' = slot
  BY <1>1, <1>4 DEF Types, ReplicaType
<1> QED BY <1>3, <1>4

LEMMA RepublishTypes ==
    ASSUME Types, NEW p \in Devices, Republish(p)
    PROVE  Types'
<1>1. /\ stale' = stale \ {p}
      /\ slot' = [slot EXCEPT ![p] = Chunk(manifest[p], known[p])] \/ slot' = slot
      /\ UNCHANGED <<group, manifest, gen, seen, admission, neighbours, asked, repairs, answered,
                     invites, history>>
  BY DEF Republish
<1>2. GroupType' /\ log' = log /\ joined' = joined
  BY <1>1 DEF Types, GroupType, group
<1>3. manifest[p] \in Document
  BY DEF Types, ReplicaType
<1>4. slot' \in [Devices -> Entries'] /\ \A a \in joined : slot'[a].epoch \in 0..Len(log')
  BY <1>1, <1>2, <1>3, PublishedType
<1>5. ReplicaType'
  <2>1. Entries' = Entries
    BY <1>2 DEF Entries
  <2> QED BY <1>1, <1>2, <1>4, <2>1 DEF Types, ReplicaType
<1>6. AdmissionType'
  BY <1>1 DEF Types, AdmissionType, admission
<1>7. TrafficType'
  BY <1>1, <1>2 DEF Types, TrafficType
<1>8. HistoryType'
  BY <1>1 DEF Types, HistoryType, history
<1> QED BY <1>2, <1>5, <1>6, <1>7, <1>8 DEF Types

LEMMA AdoptTypes ==
    ASSUME Types, NEW p \in Devices, NEW q \in Devices, Adopt(p, q)
    PROVE  Types'
<1>1. /\ gen' = [gen EXCEPT ![p] = gen[q]]
      /\ slot' = [slot EXCEPT ![p] = Chunk(manifest[p], known[p])]
      /\ seen' = [seen EXCEPT ![p] = [a \in Devices |-> NoChunk]]
      /\ UNCHANGED <<group, manifest, admission, traffic, history>>
  BY DEF Adopt
<1>2. GroupType' /\ Grows /\ log' = log /\ joined' = joined
  BY <1>1 DEF Types, GroupType, Grows, group
<1>3. manifest[p] \in Document
  BY DEF Types, ReplicaType
<1>4. slot' \in [Devices -> Entries'] /\ \A a \in joined : slot'[a].epoch \in 0..Len(log')
  BY <1>1, <1>2, <1>3, PublishedType
<1>5. seen' \in [Devices -> [Devices -> Entries']]
  BY <1>1, <1>2, SeenType
<1>6. ReplicaType'
  BY <1>1, <1>2, <1>4, <1>5 DEF Types, ReplicaType
<1>7. AdmissionType'
  BY <1>1 DEF Types, AdmissionType, admission
<1>8. TrafficType'
  BY <1>1, <1>2, TrafficKept DEF Types
<1>9. HistoryType'
  BY <1>1 DEF Types, HistoryType, history
<1> QED BY <1>2, <1>6, <1>7, <1>8, <1>9 DEF Types

LEMMA AnswerRepairTypes ==
    ASSUME Types, NEW r \in repairs, AnswerRepair(r)
    PROVE  Types'
<1> DEFINE q == r.to
           doc == manifest[q]
<1>1. q \in Devices /\ r.from \in Devices /\ doc \in Document
  BY DEF Types, TrafficType, ReplicaType
<1>2. /\ repairs' = repairs \ {r}
      /\ UNCHANGED <<joined, manifest, gen, seen, admission, neighbours, stale, asked, invites, history>>
  BY DEF AnswerRepair
<1>3. \/ /\ log' = Append(log, [op |-> "update", dev |-> q])
         /\ known' = [known EXCEPT ![q] = Len(log')]
         /\ slot' = [slot EXCEPT ![q] = Chunk(doc, Len(log'))]
         /\ answered' = [answered EXCEPT ![q] = @ \union {r.from}]
      \/ UNCHANGED <<log, known, slot, answered>>
  BY DEF AnswerRepair
<1> HIDE DEF q, doc
<1>4. [op |-> "update", dev |-> q] \in Operations
  BY <1>1 DEF Operations
<1>5. Grows
  BY <1>3, <1>4 DEF Grows
<1>6. /\ log' \in Seq(Operations) /\ Len(log') \in Nat /\ 0..Len(log) \subseteq 0..Len(log')
      /\ Entries \subseteq Entries'
  BY <1>5, LogGrows DEF Types
<1>7. GroupType'
  BY <1>1, <1>2, <1>3, <1>6 DEF Types, GroupType
<1>8. slot' \in [Devices -> Entries'] /\ \A a \in joined : slot'[a].epoch \in 0..Len(log')
  <2>1. CASE UNCHANGED slot
    BY <1>6, <2>1 DEF Types, ReplicaType
  <2>2. CASE slot' = [slot EXCEPT ![q] = Chunk(doc, Len(log'))]
    <3> DEFINE c == Chunk(doc, Len(log'))
    <3>1. c \in Entries' /\ c.epoch \in 0..Len(log') /\ slot' = [slot EXCEPT ![q] = c]
      BY <1>1, <1>6, <2>2 DEF Chunk, Entries
    <3> HIDE DEF c
    <3> QED BY <1>1, <1>5, <3>1, StoreTypes
  <2> QED BY <1>3, <2>1, <2>2
<1>9. ReplicaType'
  BY <1>2, <1>6, <1>8 DEF Types, ReplicaType
<1>10. AdmissionType'
  BY <1>2 DEF Types, AdmissionType, admission
<1>11. TrafficType'
  <2>1. answered' \in [Devices -> SUBSET Devices]
    BY <1>1, <1>3 DEF Types, TrafficType
  <2>2. \A i \in invites : i \in [from : Devices, to : Devices, known : 0..Len(log'), gen : Nat]
    BY <1>6 DEF Types, TrafficType
  <2>3. asked' \in [Devices -> SUBSET (0..Len(log'))]
    BY <1>2, <1>6 DEF Types, TrafficType
  <2> QED BY <1>2, <2>1, <2>2, <2>3 DEF Types, TrafficType
<1>12. HistoryType'
  BY <1>2 DEF Types, HistoryType, history
<1> QED BY <1>7, <1>9, <1>10, <1>11, <1>12 DEF Types

LEMMA MergeType ==
    ASSUME NEW m \in Document, NEW docs \in SUBSET Document
    PROVE  MergeAll(m, docs) \in Document
<1>1. /\ m.devices \union UNION {o.devices : o \in docs} \subseteq Devices
      /\ m.authors \union UNION {o.authors : o \in docs} \subseteq Devices
  BY DEF Document
<1> QED BY <1>1 DEF MergeAll, Document

(* What ingest_all reads, and what it makes of it. *)
Read(p, verdict) == {a \in Unread(p) : Verdict(p, slot[a].epoch) = verdict}
Merged(p) == MergeAll(manifest[p], {slot[a].doc : a \in Read(p, "plaintext")})

LEMMA IngestStep ==
    ASSUME NEW p \in Devices, IngestAll(p)
    PROVE  /\ p \in joined
           /\ seen' = [seen EXCEPT ![p] = [a \in Devices |->
                          IF a \in Unread(p) THEN slot[a] ELSE seen[p][a]]]
           /\ manifest' = [manifest EXCEPT ![p] = Merged(p)]
           /\ \/ UNCHANGED <<task, derived>>
              \/ /\ task' = [task EXCEPT ![p]["pump"] = Refresh(Merged(p), Members(p))]
                 /\ UNCHANGED derived
              \/ /\ derived' = [derived EXCEPT ![p] = RosterOf(Merged(p), Members(p))]
                 /\ UNCHANGED task
           /\ late' \subseteq late \union {p}
           /\ RequestRepair(p, {slot[a].epoch : a \in Read(p, "unreachable")})
           /\ UNCHANGED <<group, gen, slot, bootstrap, neighbours, stale, answered, invites,
                          limit, restarts, evicted, raced, early>>
BY DEF IngestAll, Read, Merged

LEMMA IngestAllTypes ==
    ASSUME Types, NEW p \in Devices, IngestAll(p)
    PROVE  Types'
<1> DEFINE doc == Merged(p)
           epochs == {slot[a].epoch : a \in Read(p, "unreachable")}
<1>1. /\ seen' = [seen EXCEPT ![p] = [a \in Devices |->
                     IF a \in Unread(p) THEN slot[a] ELSE seen[p][a]]]
      /\ manifest' = [manifest EXCEPT ![p] = doc]
      /\ \/ UNCHANGED <<task, derived>>
         \/ task' = [task EXCEPT ![p]["pump"] = Refresh(doc, Members(p))] /\ UNCHANGED derived
         \/ derived' = [derived EXCEPT ![p] = RosterOf(doc, Members(p))] /\ UNCHANGED task
      /\ late' \subseteq late \union {p}
      /\ RequestRepair(p, epochs)
      /\ UNCHANGED <<group, gen, slot, bootstrap, neighbours, stale, answered, invites,
                     limit, restarts, evicted, raced, early>>
  BY IngestStep
<1>2. \A v : Read(p, v) \subseteq joined
  BY DEF Read, Unread
<1>3. doc \in Document
  <2>1. {slot[a].doc : a \in Read(p, "plaintext")} \subseteq Document
    BY <1>2 DEF Types, ReplicaType, GroupType, Entries
  <2>2. manifest[p] \in Document
    BY DEF Types, ReplicaType
  <2> QED BY <2>1, <2>2, MergeType DEF Merged
<1>4. epochs \subseteq 0..Len(log)
  BY <1>2 DEF Types, ReplicaType
<1> HIDE DEF doc, epochs
<1>5. GroupType' /\ log' = log /\ joined' = joined
  BY <1>1 DEF Types, GroupType, group
<1>6. ReplicaType'
  <2>1. Entries' = Entries
    BY <1>5 DEF Entries
  <2>2. seen' \in [Devices -> [Devices -> Entries]]
    BY <1>1 DEF Types, ReplicaType
  <2> QED BY <1>1, <1>3, <1>5, <2>1, <2>2 DEF Types, ReplicaType
<1>7. AdmissionType'
  <2>1. Refresh(doc, Members(p)) \in Refreshes /\ RosterOf(doc, Members(p)) \subseteq Devices
    BY <1>3, RefreshType, RosterType
  <2>2. \A f \in Refreshes : [task EXCEPT ![p]["pump"] = f] \in [Devices -> [Callers -> Refreshes]]
    BY DEF Types, AdmissionType, Callers
  <2>3. task' \in [Devices -> [Callers -> Refreshes]]
    BY <1>1, <2>1, <2>2 DEF Types, AdmissionType
  <2>4. derived' \in [Devices -> SUBSET Devices]
    BY <1>1, <2>1 DEF Types, AdmissionType
  <2> QED BY <1>1, <2>3, <2>4 DEF Types, AdmissionType
<1>8. TrafficType'
  <2>1. asked' = [asked EXCEPT ![p] = @ \union epochs]
    BY <1>1 DEF RequestRepair
  <2>2. repairs' \subseteq repairs \union [from : {p}, to : {q \in Devices : Connected(p, q)}]
    BY <1>1 DEF RequestRepair
  <2>3. [from : {p}, to : {q \in Devices : Connected(p, q)}] \subseteq [from : Devices, to : Devices]
    OBVIOUS
  <2>4. repairs' \subseteq [from : Devices, to : Devices]
    BY <2>2, <2>3 DEF Types, TrafficType
  <2>5. asked' \in [Devices -> SUBSET (0..Len(log))]
    <3> DEFINE E == 0..Len(log)
    <3>1. asked \in [Devices -> SUBSET E] /\ epochs \subseteq E
      BY <1>4 DEF Types, TrafficType
    <3> HIDE DEF E
    <3>2. asked[p] \union epochs \subseteq E
      BY <3>1
    <3>3. asked' \in [Devices -> SUBSET E]
      BY <2>1, <3>1, <3>2
    <3> QED BY <3>3 DEF E
  <2> QED BY <1>1, <1>5, <2>4, <2>5 DEF Types, TrafficType
<1>9. HistoryType'
  BY <1>1 DEF Types, HistoryType
<1> QED BY <1>5, <1>6, <1>7, <1>8, <1>9 DEF Types

LEMMA RestartTypes ==
    ASSUME Types, NEW p \in Devices, Restart(p)
    PROVE  Types'
<1> DEFINE roster == RosterOf(manifest[p], Members(p))
<1>1. /\ restarts < limit.restarts /\ restarts' = restarts + 1
      /\ seen' = [seen EXCEPT ![p] = [a \in Devices |-> NoChunk]]
      /\ derived' = [derived EXCEPT ![p] = roster]
      /\ bootstrap' = [bootstrap EXCEPT ![p] = roster \ {p}]
      /\ neighbours' \subseteq neighbours
      /\ stale' = stale \ {p}
      /\ asked' = [asked EXCEPT ![p] = {}]
      /\ answered' = [answered EXCEPT ![p] = {}]
      /\ slot' = [slot EXCEPT ![p] = Chunk(manifest[p], known[p])] \/ slot' = slot
      /\ early' \subseteq early \union {p}
      /\ UNCHANGED <<group, manifest, gen, task, repairs, invites, limit, evicted, raced, late>>
  BY DEF Restart
<1>2. manifest[p] \in Document
  BY DEF Types, ReplicaType
<1>3. roster \subseteq Devices
  BY <1>2, RosterType
<1> HIDE DEF roster
<1>4. GroupType' /\ Grows /\ log' = log /\ joined' = joined
  BY <1>1 DEF Types, GroupType, Grows, group
<1>5. slot' \in [Devices -> Entries'] /\ \A a \in joined : slot'[a].epoch \in 0..Len(log')
  BY <1>1, <1>2, <1>4, PublishedType
<1>6. seen' \in [Devices -> [Devices -> Entries']]
  BY <1>1, <1>4, SeenType
<1>7. ReplicaType'
  BY <1>1, <1>4, <1>5, <1>6 DEF Types, ReplicaType
<1>8. AdmissionType'
  BY <1>1, <1>3 DEF Types, AdmissionType
<1>9. TrafficType'
  <2>1. neighbours' \subseteq {{x, y} : x, y \in Devices} /\ stale' \subseteq Devices
    <3>1. neighbours' \subseteq neighbours /\ stale' \subseteq stale
      BY <1>1
    <3>2. neighbours \subseteq {{x, y} : x, y \in Devices} /\ stale \subseteq Devices
      BY DEF Types, TrafficType
    <3> DEFINE Pairs == {{x, y} : x, y \in Devices}
    <3> HIDE DEF Pairs
    <3>3. neighbours' \subseteq Pairs /\ stale' \subseteq Devices
      BY <3>1, <3>2 DEF Pairs
    <3> QED BY <3>3 DEF Pairs
  <2>2. asked' \in [Devices -> SUBSET (0..Len(log))]
    <3>1. asked \in [Devices -> SUBSET (0..Len(log))]
      BY DEF Types, TrafficType
    <3>2. asked' = [asked EXCEPT ![p] = {}]
      BY <1>1
    <3> QED BY <3>1, <3>2, ResetType
  <2>3. answered' \in [Devices -> SUBSET Devices]
    <3>1. answered \in [Devices -> SUBSET Devices]
      BY DEF Types, TrafficType
    <3>2. answered' = [answered EXCEPT ![p] = {}]
      BY <1>1
    <3> QED BY <3>1, <3>2, ResetType
  <2>4. repairs' = repairs /\ invites' = invites
    BY <1>1
  <2> QED BY <1>4, <2>1, <2>2, <2>3, <2>4 DEF Types, TrafficType
<1>10. restarts' \in 0..limit'.restarts
  <2>1. limit' = limit /\ limit.restarts \in Nat /\ restarts \in 0..limit.restarts
    BY <1>1, Constants DEF Types, HistoryType
  <2> DEFINE most == limit.restarts
  <2>2. most \in Nat /\ restarts \in 0..most /\ restarts < most
    BY <1>1, <2>1
  <2> HIDE DEF most
  <2>3. restarts + 1 \in 0..most
    BY <2>2
  <2> QED BY <1>1, <2>1, <2>3 DEF most
<1>11. HistoryType'
  BY <1>1, <1>10 DEF Types, HistoryType
<1> QED BY <1>4, <1>7, <1>8, <1>9, <1>11 DEF Types

-----------------------------------------------------------------------------
LEMMA StutterTypes ==
    ASSUME Types, UNCHANGED vars
    PROVE  Types'
<1>1. UNCHANGED <<group, replica, admission, traffic, history>>
  BY DEF vars
<1>2. GroupType' /\ Grows /\ UNCHANGED joined
  BY <1>1 DEF Types, GroupType, Grows, group
<1>3. ReplicaType' /\ TrafficType'
  BY <1>1, <1>2, ReplicaKept, TrafficKept DEF Types
<1>4. AdmissionType'
  BY <1>1 DEF Types, AdmissionType, admission
<1>5. HistoryType'
  BY <1>1 DEF Types, HistoryType, history
<1> QED BY <1>2, <1>3, <1>4, <1>5 DEF Types

LEMMA NextTypes ==
    ASSUME Types, [Next]_vars
    PROVE  Types'
<1>1. ASSUME Environment PROVE Types'
  BY <1>1, AdmitTypes, RemoveMemberTypes, RestartTypes, JoinTypes DEF Environment
<1>2. ASSUME System PROVE Types'
  BY <1>2, SetDerivedTypes, NeighborUpTypes, LearnOpsTypes, AdoptTypes, RepublishTypes,
     IngestAllTypes, AnswerRepairTypes DEF System
<1> QED BY <1>1, <1>2, StutterTypes DEF Next

LEMMA TypesAlways == Spec => []Types
<1>1. Types /\ [Next]_vars => Types'
  BY NextTypes
<1> QED BY InitTypes, <1>1, PTL DEF Spec

(* Every variable keeps its shape, for any devices and any scenario: a      *)
(* device has merged a prefix of the log, and no entry, invitation or       *)
(* repair names an epoch the log does not have.                             *)
THEOREM TypeCorrect == Spec => []TypeOK
<1>1. Types => TypeOK
  BY SMTT(60) DEF Types, GroupType, ReplicaType, AdmissionType, TrafficType, HistoryType, TypeOK,
         Operations, Entries, Refreshes
<1> QED BY TypesAlways, <1>1, PTL

-----------------------------------------------------------------------------
(* Why a removal holds.  What a device has removed is removed in the log it *)
(* has merged, so no roster it computes from then on lists it; a roster     *)
(* computed before and not installed yet is one the removal overtakes.      *)

Removed(p) == Subjects("remove", known[p])

TaskInv(p, r) ==
    /\ p \notin raced /\ r.due /\ ~r.overtaken => r.set \intersect evicted[p] = {}
    /\ r.remove # NoDevice => r.remove \in Removed(p) /\ r.remove \notin r.set

DeviceInv(p) ==
    /\ evicted[p] \subseteq Removed(p)
    /\ p \notin raced => evicted[p] \intersect derived[p] = {}
    /\ \A t \in Callers : TaskInv(p, task[p][t])
    /\ p \notin joined => evicted[p] = {} /\ \A t \in Callers : task[p][t] = Idle

LogInv == Subjects("remove", Len(log)) \subseteq {Founder} \union Subjects("add", Len(log))

EvictionInv == LogInv /\ \A p \in Devices : DeviceInv(p)

LEMMA SubjectsGrow ==
    ASSUME GroupType, Grows, NEW op, NEW m \in 0..Len(log), NEW n \in Nat, m <= n
    PROVE  Subjects(op, m) \subseteq {log'[i].dev : i \in {j \in 1..n : log'[j].op = op}}
<1>1. \A i \in 1..Len(log) : log'[i] = log[i]
  BY LogGrows
<1>2. \A i \in 1..m : i \in 1..Len(log) /\ i \in 1..n
  BY LogGrows
<1> QED BY <1>1, <1>2 DEF Subjects

LEMMA RemovedGrow ==
    ASSUME Types, Types', Grows, NEW p \in Devices, known[p] <= known'[p]
    PROVE  Removed(p) \subseteq Removed(p)'
<1>1. known[p] \in 0..Len(log) /\ known'[p] \in Nat
  <2>1. known[p] \in 0..Len(log)
    BY DEF Types, GroupType
  <2>2. known'[p] \in 0..Len(log') /\ Len(log') \in Nat
    BY LogGrows DEF Types, GroupType
  <2> QED BY <2>1, <2>2
<1>2. Subjects("remove", known[p]) \subseteq
         {log'[i].dev : i \in {j \in 1..known'[p] : log'[j].op = "remove"}}
  BY <1>1, SubjectsGrow DEF Types
<1> QED BY <1>2 DEF Removed, Subjects

(* A device whose roster, refreshes and removals a step leaves alone. *)
LEMMA DeviceFrame ==
    ASSUME Types, Types', Grows, NEW p \in Devices, DeviceInv(p), known[p] <= known'[p],
           evicted'[p] = evicted[p], derived'[p] = derived[p], task'[p] = task[p],
           raced \subseteq raced', joined \subseteq joined'
    PROVE  DeviceInv(p)'
<1>1. Removed(p) \subseteq Removed(p)'
  BY RemovedGrow
<1>2. \A t \in Callers : TaskInv(p, task[p][t])'
  BY <1>1 DEF DeviceInv, TaskInv
<1> QED BY <1>1, <1>2 DEF DeviceInv

LEMMA LogFrame ==
    ASSUME LogInv, log' = log
    PROVE  LogInv'
BY DEF LogInv, Subjects

(* Steps that touch neither the log nor what a removal is about. *)
LEMMA QuietStep ==
    ASSUME Types, Types', EvictionInv, UNCHANGED <<log, evicted, derived, task, raced>>,
           joined \subseteq joined', \A p \in Devices : known[p] <= known'[p]
    PROVE  EvictionInv'
<1>1. Grows
  BY DEF Grows
<1> QED BY <1>1, DeviceFrame, LogFrame DEF EvictionInv

LEMMA KnownKept ==
    ASSUME Types, known' = known
    PROVE  \A p \in Devices : known[p] <= known'[p]
<1>1. \A p \in Devices : known[p] \in 0..Len(log)
  BY DEF Types, GroupType
<1> QED BY <1>1

LEMMA InitEvictions == Init => EvictionInv
<1> SUFFICES ASSUME Init PROVE EvictionInv
  OBVIOUS
<1>1. Types
  BY InitTypes
<1>2. /\ evicted = [p \in Devices |-> {}]
      /\ task = [p \in Devices |-> [t \in Callers |-> Idle]]
  BY DEF Init
<1>3. \A p \in Devices : DeviceInv(p)
  BY <1>2, EmptyValues DEF DeviceInv, TaskInv
<1>4. LogInv
  <2> DEFINE S == limit.settled
             size == Cardinality(S)
  <2>1. log = [i \in 1..size |-> [op |-> "add", dev |-> Order(S)[i]]]
    BY DEF Init
  <2>2. size \in Nat
    BY <1>1, OrderType, Constants DEF Types, HistoryType
  <2> HIDE DEF S, size
  <2>3. Len(log) = size
    BY <2>1, <2>2
  <2>4. \A i \in 1..Len(log) : log[i].op = "add"
    BY <2>1, <2>3
  <2>5. Subjects("remove", Len(log)) = {}
    BY <2>4 DEF Subjects
  <2> QED BY <2>5 DEF LogInv
<1> QED BY <1>3, <1>4 DEF EvictionInv

(* The operation appended by drive keeps the log one that removes only     *)
(* devices it has admitted.                                                *)
LEMMA DriveLog ==
    ASSUME Types, EvictionInv, NEW p \in Devices, NEW d \in Devices, NEW doc \in Document,
           NEW op \in {"add", "remove"}, Drive(p, op, d, doc), UNCHANGED joined,
           op = "remove" => d \in Members(p)
    PROVE  LogInv' /\ Grows /\ (op = "remove" => d \in Removed(p)')
<1>1. /\ Grows /\ log' = Append(log, [op |-> op, dev |-> d]) /\ Len(log') = Len(log) + 1
      /\ known' = [known EXCEPT ![p] = Len(log')]
  <2>1. log' = Append(log, [op |-> op, dev |-> d]) /\ known' = [known EXCEPT ![p] = Len(log')]
    BY DEF Drive
  <2>2. [op |-> op, dev |-> d] \in Operations
    BY DEF Operations
  <2>3. Len(log') = Len(log) + 1
    BY <2>1, <2>2 DEF Types, GroupType
  <2> QED BY <2>1, <2>2, <2>3 DEF Grows
<1>2. /\ Len(log) \in Nat /\ Len(log') \in Nat /\ log \in Seq(Operations)
      /\ \A i \in 1..Len(log) : log'[i] = log[i]
  BY <1>1, LogGrows DEF Types, GroupType
<1>3. log'[Len(log')] = [op |-> op, dev |-> d]
  <2> DEFINE e == [op |-> op, dev |-> d]
  <2>1. e \in Operations /\ log' = Append(log, e)
    BY <1>1 DEF Operations
  <2> HIDE DEF e
  <2>2. Len(Append(log, e)) = Len(log) + 1 /\ Append(log, e)[Len(log) + 1] = e
    BY <1>2, <2>1, Appended
  <2>3. log'[Len(log')] = e
    BY <2>1, <2>2, Zenon
  <2> QED BY <2>3 DEF e
<1>4. \A i \in 1..Len(log') : i \in 1..Len(log) \/ i = Len(log')
  BY <1>1, <1>2
<1>5. known[p] = Len(log)
  BY DEF Drive, Serial
<1>6. Subjects("add", Len(log)) \subseteq Subjects("add", Len(log))'
  BY <1>1, <1>2, <1>4 DEF Subjects
<1>7. op = "remove" => d \in {Founder} \union Subjects("add", Len(log))
  BY <1>5 DEF Members, MembersAt
<1>8. \A x \in Subjects("remove", Len(log))' : x \in Subjects("remove", Len(log)) \/ (op = "remove" /\ x = d)
  <2> SUFFICES ASSUME NEW i \in 1..Len(log'), log'[i].op = "remove"
               PROVE  log'[i].dev \in Subjects("remove", Len(log)) \/ (op = "remove" /\ log'[i].dev = d)
    BY DEF Subjects
  <2>1. CASE i \in 1..Len(log)
    BY <1>2, <2>1 DEF Subjects
  <2>2. CASE i = Len(log')
    BY <1>3, <2>2
  <2> QED BY <1>4, <2>1, <2>2
<1>9. LogInv'
  BY <1>6, <1>7, <1>8 DEF EvictionInv, LogInv
<1>10. ASSUME op = "remove" PROVE d \in Removed(p)'
  <2>1. known'[p] = Len(log')
    BY <1>1 DEF Types, GroupType
  <2>2. Len(log') \in 1..Len(log') /\ log'[Len(log')].op = "remove" /\ log'[Len(log')].dev = d
    <3>1. Len(log') \in 1..Len(log')
      BY <1>1, <1>2
    <3>2. log'[Len(log')].op = op /\ log'[Len(log')].dev = d
      BY <1>3
    <3> QED BY <1>10, <3>1, <3>2
  <2> QED BY <2>1, <2>2 DEF Removed, Subjects
<1> QED BY <1>1, <1>9, <1>10

LEMMA DriveEvictions ==
    ASSUME Types, Types', EvictionInv, NEW p \in Devices, NEW d \in Devices,
           NEW doc \in Document, NEW op \in {"add", "remove"}, Drive(p, op, d, doc),
           UNCHANGED <<joined, evicted, derived, raced>>,
           op = "remove" => d \in Members(p),
           op = "add" => d \notin {Founder} \union Subjects("add", Len(log))
    PROVE  EvictionInv'
<1>1. LogInv' /\ Grows /\ (op = "remove" => d \in Removed(p)')
  BY DriveLog
<1>2. /\ known' = [known EXCEPT ![p] = Len(log')] /\ Len(log') = Len(log) + 1
      /\ StartedAt(p, op, d, doc)
  <2>0. UNCHANGED joined
    OBVIOUS
  <2>1. CASE op = "add"
    BY <2>0, <2>1, DriveTypes
  <2>2. CASE op = "remove"
    BY <2>0, <2>2, DriveTypes
  <2> QED BY <2>1, <2>2
<1>a. /\ task'[p]["app"].due /\ ~task'[p]["app"].overtaken
      /\ task'[p]["app"].set = IF op = "add" THEN RosterOf(doc, Members(p) \union {d})
                               ELSE RosterOf(doc, Members(p) \ {d})
      /\ task'[p]["app"].remove = IF op = "add" THEN NoDevice ELSE d
      /\ task'[p]["pump"] = task[p]["pump"]
      /\ \A q \in Devices \ {p} : task'[q] = task[q]
  BY <1>2 DEF StartedAt
<1>3. known[p] = Len(log) /\ p \in joined
  BY DEF Drive, Serial
<1>4. \A q \in Devices : known[q] <= known'[q]
  <2>1. Len(log) \in Nat /\ known \in [Devices -> 0..Len(log)]
    BY <1>1, LogGrows DEF Types, GroupType
  <2> QED BY <1>2, <1>3, <2>1
<1>5. \A q \in Devices \ {p} : DeviceInv(q)'
  BY <1>1, <1>a, <1>4, DeviceFrame DEF EvictionInv
<1>6. Removed(p) \subseteq Removed(p)'
  BY <1>1, <1>4, RemovedGrow
<1>7. evicted[p] \subseteq Removed(p) /\ DeviceInv(p)
  BY DEF EvictionInv, DeviceInv
<1>8. TaskInv(p, task[p]["app"])'
  <2> DEFINE s == task'[p]["app"].set
  <2>1. s \intersect evicted[p] = {}
    <3>1. Members(p) \intersect evicted[p] = {}
      BY <1>7 DEF Removed, Members, MembersAt
    <3>2. CASE op = "add"
      <4>1. d \notin evicted[p]
        BY <1>3, <1>7, <3>2 DEF EvictionInv, LogInv, Removed
      <4>2. s = RosterOf(doc, Members(p) \union {d})
        BY <1>a, <3>2
      <4> QED BY <3>1, <4>1, <4>2 DEF RosterOf
    <3>3. CASE op = "remove"
      <4>1. s = RosterOf(doc, Members(p) \ {d})
        BY <1>a, <3>3
      <4> QED BY <3>1, <4>1 DEF RosterOf
    <3> QED BY <3>2, <3>3
  <2>2. ASSUME task'[p]["app"].remove # NoDevice
        PROVE  task'[p]["app"].remove \in Removed(p)' /\ task'[p]["app"].remove \notin s
    <3>1. op = "remove" /\ task'[p]["app"].remove = d
      BY <1>a, <2>2
    <3>2. s = RosterOf(doc, Members(p) \ {d})
      BY <1>a, <3>1
    <3> QED BY <1>1, <3>1, <3>2 DEF RosterOf
  <2> QED BY <2>1, <2>2 DEF TaskInv
<1>9. TaskInv(p, task[p]["pump"])'
  BY <1>a, <1>6, <1>7 DEF DeviceInv, TaskInv, Callers
<1>10. DeviceInv(p)'
  BY <1>3, <1>6, <1>7, <1>8, <1>9 DEF DeviceInv, Callers
<1> QED BY <1>1, <1>5, <1>10 DEF EvictionInv

LEMMA SetDerivedEvictions ==
    ASSUME Types, Types', EvictionInv, NEW p \in Devices, NEW t \in Callers, SetDerived(p, t)
    PROVE  EvictionInv'
<1> DEFINE r == task[p][t]
<1>1. /\ r \in Refreshes /\ r.due
      /\ task'[p][t] = Idle
      /\ \A u \in Callers \ {t} :
             /\ task'[p][u].due = task[p][u].due /\ task'[p][u].overtaken = task[p][u].due
             /\ task'[p][u].set = task[p][u].set /\ task'[p][u].remove = task[p][u].remove
      /\ \A q \in Devices \ {p} : task'[q] = task[q]
  BY InstallTask
<1>2. /\ derived' = [derived EXCEPT ![p] = r.set]
      /\ raced' = IF r.overtaken THEN raced \union {p} ELSE raced
      /\ evicted' = [evicted EXCEPT ![p] = IF r.remove = NoDevice THEN @ ELSE @ \union {r.remove}]
      /\ UNCHANGED <<log, known, joined>>
  BY DEF SetDerived, group
<1>3. p \in joined
  BY <1>1, EmptyValues DEF EvictionInv, DeviceInv
<1>4. DeviceInv(p) /\ TaskInv(p, r)
  BY DEF EvictionInv, DeviceInv
<1> HIDE DEF r
<1>5. Grows /\ raced \subseteq raced' /\ \A q \in Devices : known[q] <= known'[q]
  BY <1>2, KnownKept DEF Grows
<1>6. /\ derived'[p] = r.set
      /\ evicted'[p] = IF r.remove = NoDevice THEN evicted[p] ELSE evicted[p] \union {r.remove}
      /\ \A q \in Devices \ {p} : derived'[q] = derived[q] /\ evicted'[q] = evicted[q]
  BY <1>2 DEF Types, AdmissionType, HistoryType
<1>7. \A q \in Devices \ {p} : DeviceInv(q)'
  BY <1>1, <1>2, <1>5, <1>6, DeviceFrame DEF EvictionInv
<1>8. Removed(p)' = Removed(p)
  BY <1>2 DEF Removed, Subjects
<1>9. evicted'[p] \subseteq Removed(p)'
  BY <1>4, <1>6, <1>8 DEF DeviceInv, TaskInv
<1>10. p \notin raced' => evicted'[p] \intersect derived'[p] = {}
  <2> SUFFICES ASSUME p \notin raced' PROVE evicted'[p] \intersect derived'[p] = {}
    OBVIOUS
  <2>1. p \notin raced /\ ~r.overtaken
    BY <1>2
  <2>2. r.set \intersect evicted[p] = {}
    BY <1>1, <1>4, <2>1 DEF r, TaskInv
  <2>3. r.remove # NoDevice => r.remove \notin r.set
    BY <1>4 DEF TaskInv
  <2> QED BY <1>6, <2>2, <2>3
<1>11. \A u \in Callers : TaskInv(p, task[p][u])'
  <2>1. TaskInv(p, task[p][t])'
    BY <1>1, EmptyValues DEF TaskInv
  <2>2. ASSUME NEW u \in Callers \ {t} PROVE TaskInv(p, task[p][u])'
    <3>1. TaskInv(p, task[p][u])
      BY <1>4 DEF DeviceInv
    <3> QED BY <1>1, <1>8, <3>1 DEF TaskInv
  <2> QED BY <2>1, <2>2
<1>12. DeviceInv(p)'
  BY <1>2, <1>3, <1>9, <1>10, <1>11 DEF DeviceInv
<1>13. LogInv'
  BY <1>2, LogFrame DEF EvictionInv
<1> QED BY <1>7, <1>12, <1>13 DEF EvictionInv

(* A roster derived from what p has merged lists nothing p has removed. *)
LEMMA RosterClean ==
    ASSUME NEW p \in Devices, DeviceInv(p), NEW doc \in Document
    PROVE  RosterOf(doc, Members(p)) \intersect evicted[p] = {}
BY DEF DeviceInv, Removed, RosterOf, Members, MembersAt

LEMMA IngestAllEvictions ==
    ASSUME Types, Types', EvictionInv, NEW p \in Devices, IngestAll(p)
    PROVE  EvictionInv'
<1> DEFINE doc == Merged(p)
<1>1. /\ p \in joined
      /\ manifest' = [manifest EXCEPT ![p] = doc]
      /\ \/ UNCHANGED <<task, derived>>
         \/ task' = [task EXCEPT ![p]["pump"] = Refresh(doc, Members(p))] /\ UNCHANGED derived
         \/ derived' = [derived EXCEPT ![p] = RosterOf(doc, Members(p))] /\ UNCHANGED task
      /\ UNCHANGED <<log, known, joined, evicted, raced>>
  BY IngestStep DEF group
<1>2. doc \in Document
  <2>1. doc = manifest'[p]
    BY <1>1 DEF Types, ReplicaType
  <2> HIDE DEF doc
  <2> QED BY <2>1 DEF Types, ReplicaType
<1>3. DeviceInv(p)
  BY DEF EvictionInv
<1>4. RosterOf(doc, Members(p)) \intersect evicted[p] = {}
  BY <1>2, <1>3, RosterClean
<1> DEFINE f == Refresh(doc, Members(p))
<1>5. f.set = RosterOf(doc, Members(p)) /\ f.remove = NoDevice
  BY <1>2, RefreshType
<1> HIDE DEF doc, f
<1>6. Grows /\ \A q \in Devices : known[q] <= known'[q]
  BY <1>1, KnownKept DEF Grows
<1>7. \A q \in Devices \ {p} : task'[q] = task[q] /\ derived'[q] = derived[q]
  BY <1>1 DEF Types, AdmissionType
<1>8. \A q \in Devices \ {p} : DeviceInv(q)'
  BY <1>1, <1>6, <1>7, DeviceFrame DEF EvictionInv
<1>9. Removed(p)' = Removed(p) /\ evicted'[p] = evicted[p] /\ raced' = raced /\ joined' = joined
  BY <1>1 DEF Removed, Subjects
<1>10. p \notin raced' => evicted'[p] \intersect derived'[p] = {}
  <2>1. derived'[p] = derived[p] \/ derived'[p] = RosterOf(doc, Members(p))
    BY <1>1 DEF Types, AdmissionType
  <2> QED BY <1>3, <1>4, <1>9, <2>1 DEF DeviceInv
<1>11. \A t \in Callers : TaskInv(p, task[p][t])'
  <2>1. \A t \in Callers : task'[p][t] = task[p][t] \/ task'[p][t] = f
    BY <1>1 DEF f, Types, AdmissionType, Callers
  <2> SUFFICES ASSUME NEW t \in Callers PROVE TaskInv(p, task[p][t])'
    OBVIOUS
  <2>2. CASE task'[p][t] = task[p][t]
    BY <1>3, <1>9, <2>2 DEF DeviceInv, TaskInv
  <2>3. CASE task'[p][t] = f
    BY <1>4, <1>5, <1>9, <2>3 DEF TaskInv
  <2> QED BY <2>1, <2>2, <2>3
<1>12. DeviceInv(p)'
  BY <1>1, <1>3, <1>9, <1>10, <1>11 DEF DeviceInv
<1>13. LogInv'
  BY <1>1, LogFrame DEF EvictionInv
<1> QED BY <1>8, <1>12, <1>13 DEF EvictionInv

LEMMA RestartEvictions ==
    ASSUME Types, Types', EvictionInv, NEW p \in Devices, Restart(p)
    PROVE  EvictionInv'
<1> DEFINE roster == RosterOf(manifest[p], Members(p))
<1>1. /\ p \in joined /\ derived' = [derived EXCEPT ![p] = roster]
      /\ UNCHANGED <<log, known, joined, task, evicted, raced>>
  BY DEF Restart, group
<1>2. DeviceInv(p) /\ manifest[p] \in Document
  BY DEF EvictionInv, Types, ReplicaType
<1>3. roster \intersect evicted[p] = {}
  BY <1>2, RosterClean
<1> HIDE DEF roster
<1>4. Grows /\ \A q \in Devices : known[q] <= known'[q]
  BY <1>1, KnownKept DEF Grows
<1>5. derived'[p] = roster /\ \A q \in Devices \ {p} : derived'[q] = derived[q]
  BY <1>1 DEF Types, AdmissionType
<1>6. \A q \in Devices \ {p} : DeviceInv(q)'
  BY <1>1, <1>4, <1>5, DeviceFrame DEF EvictionInv
<1>7. Removed(p)' = Removed(p)
  BY <1>1 DEF Removed, Subjects
<1>8. \A t \in Callers : TaskInv(p, task[p][t])'
  BY <1>1, <1>2, <1>7 DEF DeviceInv, TaskInv
<1>9. DeviceInv(p)'
  BY <1>1, <1>2, <1>3, <1>5, <1>7, <1>8 DEF DeviceInv
<1>10. LogInv'
  BY <1>1, LogFrame DEF EvictionInv
<1> QED BY <1>6, <1>9, <1>10 DEF EvictionInv

LEMMA JoinEvictions ==
    ASSUME Types, Types', EvictionInv, NEW i \in invites, Join(i)
    PROVE  EvictionInv'
<1> DEFINE d == i.to
<1>1. /\ d \notin joined /\ joined' = joined \union {d}
      /\ known' = [known EXCEPT ![d] = i.known]
      /\ UNCHANGED <<log, derived, task, evicted, raced>>
  BY DEF Join, history
<1>2. d \in Devices
  BY DEF Types, TrafficType
<1> HIDE DEF d
<1>3. Grows
  BY <1>1 DEF Grows
<1>4. \A q \in Devices \ {d} : known'[q] = known[q] /\ known[q] <= known'[q]
  <2>1. \A q \in Devices : known[q] \in 0..Len(log)
    BY DEF Types, GroupType
  <2>2. \A q \in Devices \ {d} : known'[q] = known[q]
    BY <1>1 DEF Types, GroupType
  <2> QED BY <2>1, <2>2
<1>5. \A q \in Devices \ {d} : DeviceInv(q)'
  BY <1>1, <1>3, <1>4, DeviceFrame DEF EvictionInv
<1>6. evicted[d] = {} /\ \A t \in Callers : task[d][t] = Idle
  BY <1>1, <1>2 DEF EvictionInv, DeviceInv
<1>7. \A t \in Callers : TaskInv(d, task[d][t])'
  BY <1>1, <1>6, EmptyValues DEF TaskInv
<1>8. DeviceInv(d)'
  BY <1>1, <1>6, <1>7 DEF DeviceInv
<1>9. LogInv'
  BY <1>1, LogFrame DEF EvictionInv
<1> QED BY <1>5, <1>8, <1>9 DEF EvictionInv

LEMMA AnswerRepairEvictions ==
    ASSUME Types, Types', EvictionInv, NEW r \in repairs, AnswerRepair(r)
    PROVE  EvictionInv'
<1> DEFINE q == r.to
<1>1. UNCHANGED <<joined, derived, task, evicted, raced>>
  BY DEF AnswerRepair, admission, history
<1>2. q \in Devices
  BY DEF Types, TrafficType
<1>3. \/ /\ log' = Append(log, [op |-> "update", dev |-> q])
         /\ known' = [known EXCEPT ![q] = Len(log')] /\ known[q] = Len(log)
      \/ UNCHANGED <<log, known>>
  BY DEF AnswerRepair, Serial
<1> HIDE DEF q
<1>4. CASE UNCHANGED <<log, known>>
  BY <1>1, <1>4, KnownKept, QuietStep
<1>5. CASE /\ log' = Append(log, [op |-> "update", dev |-> q])
           /\ known' = [known EXCEPT ![q] = Len(log')] /\ known[q] = Len(log)
  <2>1. [op |-> "update", dev |-> q] \in Operations
    BY <1>2 DEF Operations
  <2>2. Grows
    BY <1>5, <2>1 DEF Grows
  <2>3. /\ Len(log) \in Nat /\ Len(log') = Len(log) + 1 /\ log'[Len(log')].op = "update"
        /\ \A j \in 1..Len(log) : log'[j] = log[j]
    <3> DEFINE e == [op |-> "update", dev |-> q]
    <3>1. e \in Operations /\ log' = Append(log, e) /\ e.op = "update" /\ log \in Seq(Operations)
      BY <1>5, <2>1 DEF Types, GroupType
    <3> HIDE DEF e
    <3>2. Len(log) \in Nat /\ Len(log') = Len(log) + 1 /\ log'[Len(log) + 1] = e
      BY <3>1, Appended
    <3>3. \A j \in 1..Len(log) : log'[j] = log[j]
      BY <3>1, Appended
    <3> QED BY <3>1, <3>2, <3>3
  <2>4. \A p \in Devices : known[p] <= known'[p]
    <3>1. \A p \in Devices : known[p] \in 0..Len(log)
      BY DEF Types, GroupType
    <3>2. \A p \in Devices : known'[p] = known[p] \/ known'[p] = Len(log')
      BY <1>5 DEF Types, GroupType
    <3> QED BY <2>3, <3>1, <3>2
  <2>5. \A p \in Devices : DeviceInv(p)'
    BY <1>1, <2>2, <2>4, DeviceFrame DEF EvictionInv
  <2>6. \A j \in 1..Len(log') : j \in 1..Len(log) \/ j = Len(log')
    BY <2>3
  <2>7. \A j \in 1..Len(log) : j \in 1..Len(log')
    BY <2>3
  <2>8. Subjects("remove", Len(log))' \subseteq Subjects("remove", Len(log))
    BY <2>3, <2>6 DEF Subjects
  <2>9. Subjects("add", Len(log)) \subseteq Subjects("add", Len(log))'
    BY <2>3, <2>7 DEF Subjects
  <2>10. LogInv'
    BY <2>8, <2>9 DEF EvictionInv, LogInv
  <2> QED BY <2>5, <2>10 DEF EvictionInv
<1> QED BY <1>3, <1>4, <1>5

(* One step per action. *)
LEMMA NextEvictions ==
    ASSUME Types, EvictionInv, [Next]_vars
    PROVE  EvictionInv'
<1>1. Types'
  BY NextTypes
<1>2. ASSUME NEW p \in Devices, NEW d \in Devices, Admit(p, d) PROVE EvictionInv'
  <2> DEFINE doc == SetDevice(manifest[p], d)
  <2>1. /\ Drive(p, "add", d, doc) /\ d \notin {Founder} \union Subjects("add", Len(log))
        /\ UNCHANGED <<joined, evicted, derived, raced>>
    BY <1>2 DEF Admit, history
  <2>2. doc \in Document
    BY DocumentType DEF Types, ReplicaType
  <2> HIDE DEF doc
  <2> QED BY <1>1, <2>1, <2>2, DriveEvictions
<1>3. ASSUME NEW p \in Devices, NEW d \in Devices, RemoveMember(p, d) PROVE EvictionInv'
  <2> DEFINE doc == manifest[p]
  <2>1. /\ Drive(p, "remove", d, doc) /\ d \in Members(p)
        /\ UNCHANGED <<joined, evicted, derived, raced>>
    BY <1>3 DEF RemoveMember, history
  <2>2. doc \in Document
    BY DEF Types, ReplicaType
  <2> HIDE DEF doc
  <2> QED BY <1>1, <2>1, <2>2, DriveEvictions
<1>4. ASSUME NEW p \in Devices, NEW q \in Devices, LearnOps(p, q) PROVE EvictionInv'
  <2>1. \A x \in Devices : known[x] \in 0..Len(log)
    BY DEF Types, GroupType
  <2>2. /\ known[p] < known[q] /\ known' = [known EXCEPT ![p] = known[q]]
        /\ UNCHANGED <<log, joined, evicted, derived, task, raced>>
    BY <1>4 DEF LearnOps, admission, history
  <2>3. \A x \in Devices : known'[x] = known[x] \/ (x = p /\ known'[x] = known[q])
    BY <2>2 DEF Types, GroupType
  <2>4. \A x \in Devices : known[x] <= known'[x]
    BY <2>1, <2>2, <2>3
  <2> QED BY <1>1, <2>2, <2>4, QuietStep
<1>5. ASSUME NEW p \in Devices, NEW q \in Devices, NeighborUp(p, q) \/ Adopt(p, q) PROVE EvictionInv'
  <2>1. UNCHANGED <<log, known, joined, evicted, derived, task, raced>>
    BY <1>5 DEF NeighborUp, Adopt, group, admission, history
  <2> QED BY <1>1, <2>1, KnownKept, QuietStep
<1>6. ASSUME NEW p \in Devices, Republish(p) PROVE EvictionInv'
  <2>1. UNCHANGED <<log, known, joined, evicted, derived, task, raced>>
    BY <1>6 DEF Republish, group, admission, history
  <2> QED BY <1>1, <2>1, KnownKept, QuietStep
<1>7. ASSUME UNCHANGED vars PROVE EvictionInv'
  <2>1. UNCHANGED <<log, known, joined, evicted, derived, task, raced>>
    BY <1>7 DEF vars, group, admission, history
  <2> QED BY <1>1, <2>1, KnownKept, QuietStep
<1>8. ASSUME Environment PROVE EvictionInv'
  BY <1>1, <1>2, <1>3, <1>8, RestartEvictions, JoinEvictions DEF Environment
<1>9. ASSUME System PROVE EvictionInv'
  BY <1>1, <1>4, <1>5, <1>6, <1>9, SetDerivedEvictions, IngestAllEvictions, AnswerRepairEvictions
     DEF System
<1> QED BY <1>7, <1>8, <1>9 DEF Next

(* For any number of devices and any interleaving: once a removal has       *)
(* returned, the remover's roster (Allowed::derived) never lists the device *)
(* again, unless on that node an older refresh was installed after a newer. *)
THEOREM RemovedStaysOff == Spec => []RemovalHolds
<1>1. Types /\ EvictionInv /\ [Next]_vars => EvictionInv'
  BY NextEvictions
<1>2. EvictionInv => RemovalHolds
  BY DEF EvictionInv, DeviceInv, RemovalHolds
<1> QED BY TypesAlways, InitEvictions, <1>1, <1>2, PTL DEF Spec

-----------------------------------------------------------------------------
(* Why a joiner is not cut off, when the founder is the only administrator. *)
(* The founder is never removed, knows every membership operation and has   *)
(* recorded every device it admitted, so each roster it computes lists all  *)
(* members; and a joiner keeps the founder, who invited it, on its bootstrap *)
(* list, and after a restart finds it in any manifest that names somebody.  *)

Invitees == limit.settled \union {i.to : i \in invites}
Added == Subjects("add", Len(log))

LedgerInv ==
    /\ \A i \in 1..Len(log) : i > known[Founder] => log[i].op = "update"
    /\ \A i \in 1..Len(log) : log[i].op = "remove" => log[i].dev # Founder

Rooted(doc) == doc.devices # {} => Founder \in doc.devices

RecordInv ==
    /\ {Founder} \union Added \subseteq manifest[Founder].devices
    /\ \A p \in Devices : Rooted(manifest[p]) /\ Rooted(slot[p].doc)

(* The refresh r of device p goes with an admission only at the founder. *)
AdmitsFor(p, r) == r.add # NoDevice => p = Founder /\ r.add \in Added /\ r.add \in r.set

InviteInv ==
    /\ Founder \in joined /\ joined \subseteq {Founder} \union Invitees
    /\ Invitees \subseteq Added
    /\ \A i \in invites : i.from = Founder
    /\ \A p \in Devices, t \in Callers : AdmitsFor(p, task[p][t])

SeedInv == \A d \in joined \ ({Founder} \union early) : Founder \in bootstrap[d]

Lists(r, S) == r.due /\ ~r.overtaken => S \subseteq r.set

ListInv ==
    raced = {} => /\ Invitees \intersect Current \subseteq derived[Founder]
                  /\ \A t \in Callers : Lists(task[Founder][t], Invitees \intersect Current)

ReachInv == LedgerInv /\ RecordInv /\ InviteInv /\ SeedInv /\ ListInv

LEMMA LogAppended ==
    ASSUME Types, NEW e \in Operations, log' = Append(log, e)
    PROVE  /\ Len(log) \in Nat /\ Len(log') = Len(log) + 1 /\ log'[Len(log')] = e
           /\ \A i \in 1..Len(log) : i \in 1..Len(log') /\ log'[i] = log[i]
           /\ \A i \in 1..Len(log') : i \in 1..Len(log) \/ i = Len(log')
           /\ Len(log') \in 1..Len(log')
<1>1. log \in Seq(Operations)
  BY DEF Types, GroupType
<1>2. Len(log) \in Nat /\ Len(log') = Len(log) + 1 /\ log'[Len(log) + 1] = e
  BY <1>1, Appended
<1>3. \A i \in 1..Len(log) : log'[i] = log[i]
  BY <1>1, Appended
<1>4. /\ \A i \in 1..Len(log) : i \in 1..Len(log')
      /\ \A i \in 1..Len(log') : i \in 1..Len(log) \/ i = Len(log')
      /\ Len(log') \in 1..Len(log')
  BY <1>2
<1> QED BY <1>2, <1>3, <1>4

LEMMA SubjectsAppended ==
    ASSUME Types, NEW e \in Operations, log' = Append(log, e), NEW op
    PROVE  Subjects(op, Len(log))' = IF e.op = op THEN Subjects(op, Len(log)) \union {e.dev}
                                     ELSE Subjects(op, Len(log))
<1>1. /\ log'[Len(log')] = e /\ Len(log') \in 1..Len(log')
      /\ \A i \in 1..Len(log) : i \in 1..Len(log') /\ log'[i] = log[i]
      /\ \A i \in 1..Len(log') : i \in 1..Len(log) \/ i = Len(log')
  BY LogAppended
<1>2. ASSUME NEW x \in Subjects(op, Len(log))'
      PROVE  x \in Subjects(op, Len(log)) \/ (e.op = op /\ x = e.dev)
  <2>1. PICK i \in 1..Len(log') : log'[i].op = op /\ x = log'[i].dev
    BY <1>2 DEF Subjects
  <2>2. CASE i \in 1..Len(log)
    BY <1>1, <2>1, <2>2 DEF Subjects
  <2>3. CASE i = Len(log')
    BY <1>1, <2>1, <2>3
  <2> QED BY <1>1, <2>2, <2>3
<1>3. Subjects(op, Len(log)) \subseteq Subjects(op, Len(log))'
  BY <1>1 DEF Subjects
<1>4. e.op = op => e.dev \in Subjects(op, Len(log))'
  BY <1>1 DEF Subjects
<1> QED BY <1>2, <1>3, <1>4

(* The founder knows who is a member, and everyone knows that the founder is. *)
LEMMA FounderKnows ==
    ASSUME Types, LedgerInv
    PROVE  /\ Members(Founder) = Current /\ Founder \in Current
           /\ \A p \in Devices : Founder \in Members(p)
           /\ Current \subseteq {Founder} \union Added
<1>1. Founder \in Devices /\ Len(log) \in Nat /\ \A p \in Devices : known[p] \in 0..Len(log)
  BY Constants DEF Types, GroupType
<1>2. ASSUME NEW op \in {"add", "remove"}
      PROVE  Subjects(op, known[Founder]) = Subjects(op, Len(log))
  <2>1. \A i \in 1..Len(log) : log[i].op = op => i \in 1..known[Founder]
    BY <1>1, <1>2 DEF LedgerInv
  <2>2. \A i \in 1..known[Founder] : i \in 1..Len(log)
    BY <1>1
  <2> QED BY <2>1, <2>2 DEF Subjects
<1>3. Members(Founder) = Current
  BY <1>2 DEF Members, MembersAt, Current
<1>4. ASSUME NEW n \in 0..Len(log)
      PROVE  Founder \in MembersAt(n)
  <2>1. \A i \in 1..n : i \in 1..Len(log)
    BY <1>1
  <2> QED BY <2>1 DEF LedgerInv, MembersAt, Subjects
<1>5. Founder \in Current /\ \A p \in Devices : Founder \in Members(p)
  BY <1>1, <1>4 DEF Current, Members
<1>6. Current \subseteq {Founder} \union Added
  BY DEF Current, MembersAt, Added
<1> QED BY <1>3, <1>5, <1>6

(* A step that appends no membership operation. *)
LEMMA LedgerKept ==
    ASSUME Types, LedgerInv, known'[Founder] \in Nat, known[Founder] <= known'[Founder],
           log' = log \/ \E q \in Devices : log' = Append(log, [op |-> "update", dev |-> q])
    PROVE  LedgerInv' /\ Added' = Added /\ Current' = Current
<1>1. known[Founder] \in Nat /\ Len(log) \in Nat
  BY Constants DEF Types, GroupType
<1>2. CASE log' = log
  <2>1. LedgerInv'
    BY <1>1, <1>2 DEF LedgerInv
  <2>2. Added' = Added /\ Current' = Current
    BY <1>2 DEF Added, Current, MembersAt, Subjects
  <2> QED BY <2>1, <2>2
<1>3. CASE \E q \in Devices : log' = Append(log, [op |-> "update", dev |-> q])
  <2>1. PICK e \in Operations : log' = Append(log, e) /\ e.op = "update"
    BY <1>3 DEF Operations
  <2>2. /\ Subjects("add", Len(log))' = Subjects("add", Len(log))
        /\ Subjects("remove", Len(log))' = Subjects("remove", Len(log))
    <3>1. "add" # e.op /\ "remove" # e.op
      BY <2>1
    <3> QED BY <2>1, <3>1, SubjectsAppended
  <2>3. /\ log'[Len(log')] = e
        /\ \A i \in 1..Len(log) : log'[i] = log[i]
        /\ \A i \in 1..Len(log') : i \in 1..Len(log) \/ i = Len(log')
    BY <2>1, LogAppended
  <2>4. LedgerInv'
    <3>1. ASSUME NEW i \in 1..Len(log')
          PROVE  /\ i > known'[Founder] => log'[i].op = "update"
                 /\ log'[i].op = "remove" => log'[i].dev # Founder
      <4>1. CASE i \in 1..Len(log)
        <5>1. log'[i] = log[i] /\ (i > known'[Founder] => i > known[Founder])
          BY <1>1, <2>3, <4>1
        <5> QED BY <4>1, <5>1 DEF LedgerInv
      <4>2. CASE i = Len(log')
        BY <2>1, <2>3, <4>2
      <4> QED BY <2>3, <4>1, <4>2
    <3> QED BY <3>1 DEF LedgerInv
  <2> QED BY <2>2, <2>4 DEF Added, Current, MembersAt
<1> QED BY <1>2, <1>3

(* An entry is written from the replica's own manifest. *)
LEMMA SlotWritten ==
    ASSUME Types, NEW p \in Devices, NEW n, slot' = [slot EXCEPT ![p] = Chunk(manifest[p], n)]
    PROVE  \A q \in Devices : slot'[q].doc = slot[q].doc \/ slot'[q].doc = manifest[q]
<1>1. slot \in [Devices -> Entries]
  BY DEF Types, ReplicaType
<1>2. slot'[p].doc = manifest[p]
  BY <1>1 DEF Chunk
<1>3. \A q \in Devices \ {p} : slot'[q] = slot[q]
  BY <1>1
<1> QED BY <1>2, <1>3

(* Steps that leave manifests, invitations and rosters alone, though an     *)
(* entry may be stored again.                                               *)
LEMMA CalmReach ==
    ASSUME Types, ReachInv, known'[Founder] \in Nat, known[Founder] <= known'[Founder],
           log' = log \/ \E q \in Devices : log' = Append(log, [op |-> "update", dev |-> q]),
           \A p \in Devices : slot'[p].doc = slot[p].doc \/ slot'[p].doc = manifest[p],
           UNCHANGED <<joined, manifest, invites, limit, task, derived, bootstrap, raced, early>>
    PROVE  ReachInv'
<1>1. LedgerInv' /\ Added' = Added /\ Current' = Current
  BY LedgerKept DEF ReachInv
<1>2. Invitees' = Invitees
  BY DEF Invitees
<1>3. RecordInv'
  BY <1>1 DEF ReachInv, RecordInv, Rooted
<1>4. InviteInv'
  BY <1>1, <1>2 DEF ReachInv, InviteInv, AdmitsFor
<1>5. SeedInv'
  BY DEF ReachInv, SeedInv
<1>6. ListInv'
  BY <1>1, <1>2 DEF ReachInv, ListInv, Lists
<1> QED BY <1>1, <1>3, <1>4, <1>5, <1>6 DEF ReachInv

LEMMA DriveReaches ==
    ASSUME Admins \subseteq {Founder}, Types, ReachInv,
           NEW p \in Devices, NEW d \in Devices, NEW doc \in Document,
           NEW op \in {"add", "remove"}, Drive(p, op, d, doc),
           manifest[p].devices \subseteq doc.devices, op = "add" => d \in doc.devices,
           op = "remove" => d # p, op = "add" => d \notin Added \union {Founder},
           manifest' = [manifest EXCEPT ![p] = doc],
           slot' = [slot EXCEPT ![p] = Chunk(doc, Len(log'))],
           UNCHANGED <<joined, derived, bootstrap, invites, limit, raced, early>>
    PROVE  ReachInv'
<1>1. p = Founder
  BY DEF Drive
<1>2. /\ log' = Append(log, [op |-> op, dev |-> d])
      /\ known' = [known EXCEPT ![p] = Len(log')] /\ StartedAt(p, op, d, doc)
  <2>0. UNCHANGED joined
    OBVIOUS
  <2>1. CASE op = "add"
    BY <2>0, <2>1, DriveTypes
  <2>2. CASE op = "remove"
    BY <2>0, <2>2, DriveTypes
  <2> QED BY <2>1, <2>2
<1>3. PICK e \in Operations : e.op = op /\ e.dev = d /\ log' = Append(log, e)
  BY <1>2 DEF Operations
<1>4. /\ Added' = IF op = "add" THEN Added \union {d} ELSE Added
      /\ Current' \subseteq IF op = "add" THEN Current \union {d} ELSE Current \ {d}
      /\ Current' \subseteq {Founder} \union Added'
  <2>1. Subjects("add", Len(log))' = IF op = "add" THEN Subjects("add", Len(log)) \union {d}
                                     ELSE Subjects("add", Len(log))
    BY <1>3, SubjectsAppended
  <2>2. Subjects("remove", Len(log))' = IF op = "remove" THEN Subjects("remove", Len(log)) \union {d}
                                        ELSE Subjects("remove", Len(log))
    BY <1>3, SubjectsAppended
  <2> QED BY <2>1, <2>2 DEF Added, Current, MembersAt
<1>5. known'[Founder] = Len(log')
  BY <1>1, <1>2 DEF Types, GroupType
<1>6. LedgerInv'
  <2>1. /\ log'[Len(log')] = e /\ Len(log') \in Nat
        /\ \A i \in 1..Len(log) : log'[i] = log[i]
        /\ \A i \in 1..Len(log') : i \in 1..Len(log) \/ i = Len(log')
    BY <1>3, LogAppended
  <2>2. \A i \in 1..Len(log') : ~(i > known'[Founder])
    BY <1>5, <2>1
  <2>3. ASSUME NEW i \in 1..Len(log'), log'[i].op = "remove"
        PROVE  log'[i].dev # Founder
    <3>1. CASE i \in 1..Len(log)
      BY <2>1, <2>3, <3>1 DEF ReachInv, LedgerInv
    <3>2. CASE i = Len(log')
      BY <1>1, <1>3, <2>1, <2>3, <3>2
    <3> QED BY <2>1, <3>1, <3>2
  <2> QED BY <2>2, <2>3 DEF LedgerInv
<1>7. /\ \A q \in Devices : manifest'[q] = IF q = Founder THEN doc ELSE manifest[q]
      /\ \A q \in Devices : slot'[q].doc = IF q = Founder THEN doc ELSE slot[q].doc
  BY <1>1 DEF Types, ReplicaType, Chunk
<1>8. {Founder} \union Added' \subseteq doc.devices
  BY <1>1, <1>4 DEF ReachInv, RecordInv
<1>9. RecordInv'
  BY <1>7, <1>8, Constants DEF ReachInv, RecordInv, Rooted
<1>10. Invitees' = Invitees /\ Invitees \subseteq Added
  BY DEF ReachInv, InviteInv, Invitees
<1>11. /\ task'[Founder]["app"].due /\ ~task'[Founder]["app"].overtaken
       /\ task'[Founder]["app"].set = IF op = "add" THEN RosterOf(doc, Members(Founder) \union {d})
                                      ELSE RosterOf(doc, Members(Founder) \ {d})
       /\ task'[Founder]["app"].add = IF op = "add" THEN d ELSE NoDevice
       /\ task'[Founder]["pump"] = task[Founder]["pump"]
       /\ \A q \in Devices \ {Founder} : task'[q] = task[q]
  BY <1>1, <1>2 DEF StartedAt
<1>12. Members(Founder) = Current
  BY FounderKnows DEF ReachInv
<1>13. Current' \subseteq task'[Founder]["app"].set /\ (op = "add" => d \in task'[Founder]["app"].set)
  BY <1>4, <1>8, <1>11, <1>12 DEF RosterOf
<1>14. \A q \in Devices, t \in Callers : AdmitsFor(q, task[q][t])'
  <2> SUFFICES ASSUME NEW q \in Devices, NEW t \in Callers, task'[q][t].add # NoDevice
               PROVE  q = Founder /\ task'[q][t].add \in Added' /\ task'[q][t].add \in task'[q][t].set
    BY DEF AdmitsFor
  <2>1. CASE q = Founder /\ t = "app"
    BY <1>4, <1>11, <1>13, <2>1
  <2>2. CASE task'[q][t] = task[q][t]
    BY <1>4, <2>2 DEF ReachInv, InviteInv, AdmitsFor
  <2> QED BY <1>11, <2>1, <2>2 DEF Callers
<1>15. InviteInv'
  BY <1>4, <1>10, <1>14 DEF ReachInv, InviteInv
<1>16. SeedInv'
  BY DEF ReachInv, SeedInv
<1>17. Invitees \intersect Current' \subseteq Invitees \intersect Current
  BY <1>4, <1>10
<1>18. ListInv'
  <2> SUFFICES ASSUME raced = {}
               PROVE  /\ Invitees \intersect Current' \subseteq derived[Founder]
                      /\ \A t \in Callers : Lists(task'[Founder][t], Invitees \intersect Current')
    BY <1>10 DEF ListInv
  <2>1. Lists(task'[Founder]["app"], Invitees \intersect Current')
    BY <1>13 DEF Lists
  <2>2. Lists(task'[Founder]["pump"], Invitees \intersect Current')
    BY <1>11, <1>17 DEF ReachInv, ListInv, Lists, Callers
  <2> QED BY <1>17, <2>1, <2>2 DEF ReachInv, ListInv, Callers
<1> QED BY <1>6, <1>9, <1>15, <1>16, <1>18 DEF ReachInv

LEMMA SetDerivedReaches ==
    ASSUME Types, ReachInv, NEW p \in Devices, NEW t \in Callers, SetDerived(p, t)
    PROVE  ReachInv'
<1> DEFINE r == task[p][t]
<1>1. /\ r.due /\ task'[p][t] = Idle
      /\ \A u \in Callers \ {t} :
             /\ task'[p][u].due = task[p][u].due /\ task'[p][u].overtaken = task[p][u].due
             /\ task'[p][u].set = task[p][u].set /\ task'[p][u].add = task[p][u].add
      /\ \A q \in Devices \ {p} : task'[q] = task[q]
  BY InstallTask
<1>2. /\ derived' = [derived EXCEPT ![p] = r.set]
      /\ raced' = IF r.overtaken THEN raced \union {p} ELSE raced
      /\ invites' = IF r.add = NoDevice THEN invites ELSE invites \union {BuildInvite(p, r.add)}
      /\ UNCHANGED <<log, known, joined, manifest, slot, bootstrap, limit, early>>
  BY DEF SetDerived, group, replica
<1>3. r.add # NoDevice => p = Founder /\ r.add \in Added /\ r.add \in r.set
  BY DEF ReachInv, InviteInv, AdmitsFor
<1>4. Founder = p => Lists(r, Invitees \intersect Current) \/ raced # {}
  BY DEF ReachInv, ListInv
<1> HIDE DEF r
<1>5. LedgerInv' /\ Added' = Added /\ Current' = Current
  BY <1>2 DEF ReachInv, LedgerInv, Added, Current, MembersAt, Subjects
<1>6. RecordInv'
  BY <1>2, <1>5 DEF ReachInv, RecordInv, Rooted
<1>7. Invitees' = IF r.add = NoDevice THEN Invitees ELSE Invitees \union {r.add}
  <2>1. CASE r.add = NoDevice
    BY <1>2, <2>1 DEF Invitees
  <2>2. CASE r.add # NoDevice
    <3>0. PICK b : b = BuildInvite(p, r.add)
      OBVIOUS
    <3>1. b = BuildInvite(p, r.add) /\ b.to = r.add
      BY <3>0 DEF BuildInvite
    <3>2. invites' = invites \union {b} /\ limit' = limit
      BY <1>2, <2>2, <3>1
    <3>3. {i.to : i \in invites \union {b}} = {i.to : i \in invites} \union {b.to}
      OBVIOUS
    <3> QED BY <2>2, <3>1, <3>2, <3>3 DEF Invitees
  <2> QED BY <2>1, <2>2
<1>8. \A q \in Devices, u \in Callers : AdmitsFor(q, task[q][u])'
  <2> SUFFICES ASSUME NEW q \in Devices, NEW u \in Callers, task'[q][u].add # NoDevice
               PROVE  q = Founder /\ task'[q][u].add \in Added /\ task'[q][u].add \in task'[q][u].set
    BY <1>5 DEF AdmitsFor
  <2>1. AdmitsFor(q, task[q][u])
    BY DEF ReachInv, InviteInv
  <2>2. CASE q = p /\ u = t
    BY <1>1, <2>2, EmptyValues
  <2>3. CASE ~(q = p /\ u = t)
    <3>1. task'[q][u].add = task[q][u].add /\ task'[q][u].set = task[q][u].set
      BY <1>1, <2>3
    <3> QED BY <2>1, <3>1 DEF AdmitsFor
  <2> QED BY <2>2, <2>3
<1>9. \A i \in invites' : i.from = Founder
  BY <1>2, <1>3 DEF ReachInv, InviteInv, BuildInvite
<1>10. InviteInv'
  BY <1>2, <1>3, <1>5, <1>7, <1>8, <1>9 DEF ReachInv, InviteInv
<1>11. SeedInv'
  BY <1>2 DEF ReachInv, SeedInv
<1>12. ListInv'
  <2> SUFFICES ASSUME raced' = {}
               PROVE  /\ Invitees' \intersect Current \subseteq derived'[Founder]
                      /\ \A u \in Callers : Lists(task'[Founder][u], Invitees' \intersect Current)
    BY <1>5 DEF ListInv
  <2>1. raced = {} /\ ~r.overtaken
    BY <1>2
  <2>2. CASE p = Founder
    <3>1. Invitees' \intersect Current \subseteq r.set
      BY <1>1, <1>3, <1>4, <1>7, <2>1, <2>2 DEF Lists, r
    <3>2. derived'[Founder] = r.set
      BY <1>2, <2>2 DEF Types, AdmissionType
    <3>3. \A u \in Callers : Lists(task'[Founder][u], Invitees' \intersect Current)
      BY <1>1, <2>2, EmptyValues DEF Lists
    <3> QED BY <3>1, <3>2, <3>3
  <2>3. CASE p # Founder
    <3>1. Invitees' = Invitees
      BY <1>3, <1>7, <2>3
    <3>2. derived'[Founder] = derived[Founder] /\ task'[Founder] = task[Founder]
      BY <1>1, <1>2, <2>3, Constants DEF Types, AdmissionType
    <3> QED BY <2>1, <3>1, <3>2 DEF ReachInv, ListInv
  <2> QED BY <2>2, <2>3
<1> QED BY <1>5, <1>6, <1>10, <1>11, <1>12 DEF ReachInv

LEMMA JoinReaches ==
    ASSUME Types, ReachInv, NEW i \in invites, Join(i)
    PROVE  ReachInv'
<1> DEFINE d == i.to
           doc == SetAuthor(Nothing, d)
<1>1. /\ d \in Devices /\ d # Founder /\ i.from = Founder /\ d \in Invitees
  BY DEF Types, TrafficType, ReachInv, InviteInv, Join, Invitees
<1>2. /\ joined' = joined \union {d}
      /\ known' = [known EXCEPT ![d] = i.known]
      /\ manifest' = [manifest EXCEPT ![d] = doc]
      /\ slot' = [slot EXCEPT ![d] = Chunk(doc, i.known)]
      /\ bootstrap' = [bootstrap EXCEPT ![d] = @ \union {i.from}]
      /\ UNCHANGED <<log, derived, task, invites, limit, raced, early>>
  BY DEF Join, AddBootstrap, traffic, history
<1>3. doc.devices = {}
  BY DEF SetAuthor, Nothing
<1> HIDE DEF d, doc
<1>4. known'[Founder] = known[Founder]
  BY <1>1, <1>2, Constants DEF Types, GroupType
<1>5. LedgerInv' /\ Added' = Added /\ Current' = Current
  BY <1>2, <1>4 DEF ReachInv, LedgerInv, Added, Current, MembersAt, Subjects
<1>6. /\ \A q \in Devices : manifest'[q] = IF q = d THEN doc ELSE manifest[q]
      /\ \A q \in Devices : slot'[q].doc = IF q = d THEN doc ELSE slot[q].doc
      /\ \A q \in Devices : bootstrap'[q] = IF q = d THEN bootstrap[q] \union {i.from} ELSE bootstrap[q]
  BY <1>2 DEF Types, ReplicaType, AdmissionType, Chunk
<1>7. RecordInv'
  BY <1>1, <1>3, <1>5, <1>6, Constants DEF ReachInv, RecordInv, Rooted
<1>8. Invitees' = Invitees
  BY <1>2 DEF Invitees
<1>9. InviteInv'
  BY <1>1, <1>2, <1>5, <1>8 DEF ReachInv, InviteInv, AdmitsFor
<1>10. SeedInv'
  <2> SUFFICES ASSUME NEW x \in joined' \ ({Founder} \union early)
               PROVE  Founder \in bootstrap'[x]
    BY <1>2 DEF SeedInv
  <2>1. x \in Devices
    BY <1>1, <1>2 DEF Types, GroupType
  <2> QED BY <1>1, <1>2, <1>6, <2>1 DEF ReachInv, SeedInv
<1>11. ListInv'
  BY <1>2, <1>5, <1>8 DEF ReachInv, ListInv
<1> QED BY <1>5, <1>7, <1>9, <1>10, <1>11 DEF ReachInv

(* A roster derived from a manifest that names all the founder's names. *)
LEMMA FounderLists ==
    ASSUME Types, ReachInv, NEW doc, manifest[Founder].devices \subseteq doc.devices
    PROVE  Current \subseteq RosterOf(doc, Members(Founder))
<1>1. Members(Founder) = Current /\ Current \subseteq {Founder} \union Added
  BY FounderKnows DEF ReachInv
<1> QED BY <1>1 DEF ReachInv, RecordInv, RosterOf

LEMMA IngestAllReaches ==
    ASSUME Types, Types', ReachInv, NEW p \in Devices, IngestAll(p)
    PROVE  ReachInv'
<1> DEFINE doc == Merged(p)
           f == Refresh(doc, Members(p))
<1>1. /\ manifest' = [manifest EXCEPT ![p] = doc]
      /\ \/ UNCHANGED <<task, derived>>
         \/ task' = [task EXCEPT ![p]["pump"] = f] /\ UNCHANGED derived
         \/ derived' = [derived EXCEPT ![p] = RosterOf(doc, Members(p))] /\ UNCHANGED task
      /\ UNCHANGED <<log, known, joined, slot, bootstrap, invites, limit, raced, early>>
  BY IngestStep DEF group
<1>2. manifest[p].devices \subseteq doc.devices /\ Rooted(doc)
  <2>1. \A a \in Read(p, "plaintext") : Rooted(slot[a].doc)
    <3>1. Read(p, "plaintext") \subseteq Devices
      BY DEF Read, Unread, Types, GroupType
    <3> QED BY <3>1 DEF ReachInv, RecordInv
  <2>2. Rooted(manifest[p])
    BY DEF ReachInv, RecordInv
  <2>3. doc.devices = manifest[p].devices \union
                         UNION {o.devices : o \in {slot[a].doc : a \in Read(p, "plaintext")}}
    BY DEF Merged, MergeAll
  <2>4. Rooted(doc)
    <3> SUFFICES ASSUME NEW x \in doc.devices PROVE Founder \in doc.devices
      BY DEF Rooted
    <3> HIDE DEF doc
    <3>1. CASE x \in manifest[p].devices
      BY <2>2, <2>3, <3>1 DEF Rooted
    <3>2. CASE \E a \in Read(p, "plaintext") : x \in slot[a].doc.devices
      BY <2>1, <2>3, <3>2 DEF Rooted
    <3> QED BY <2>3, <3>1, <3>2
  <2> QED BY <2>3, <2>4
<1>3. doc \in Document
  <2>1. doc = manifest'[p]
    BY <1>1 DEF Types, ReplicaType
  <2> HIDE DEF doc
  <2> QED BY <2>1 DEF Types, ReplicaType
<1> HIDE DEF doc
<1>4. f.set = RosterOf(doc, Members(p)) /\ f.add = NoDevice
  BY <1>3, RefreshType
<1> HIDE DEF f
<1>5. LedgerInv' /\ Added' = Added /\ Current' = Current /\ Invitees' = Invitees
  BY <1>1 DEF ReachInv, LedgerInv, Added, Current, MembersAt, Subjects, Invitees
<1>6. \A q \in Devices : manifest'[q] = IF q = p THEN doc ELSE manifest[q]
  BY <1>1 DEF Types, ReplicaType
<1>7. RecordInv'
  <2>1. {Founder} \union Added' \subseteq manifest'[Founder].devices
    BY <1>2, <1>5, <1>6, Constants DEF ReachInv, RecordInv
  <2>2. \A q \in Devices : Rooted(manifest'[q]) /\ Rooted(slot'[q].doc)
    BY <1>1, <1>2, <1>6 DEF ReachInv, RecordInv
  <2> QED BY <2>1, <2>2 DEF RecordInv, Rooted
<1>8. /\ \A q \in Devices \ {p} : task'[q] = task[q] /\ derived'[q] = derived[q]
      /\ \A t \in Callers : task'[p][t] = task[p][t] \/ task'[p][t] = f
      /\ derived'[p] = derived[p] \/ derived'[p] = RosterOf(doc, Members(p))
  BY <1>1 DEF Types, AdmissionType, Callers
<1>9. \A q \in Devices, t \in Callers : AdmitsFor(q, task[q][t])'
  <2> SUFFICES ASSUME NEW q \in Devices, NEW t \in Callers, task'[q][t].add # NoDevice
               PROVE  q = Founder /\ task'[q][t].add \in Added /\ task'[q][t].add \in task'[q][t].set
    BY <1>5 DEF AdmitsFor
  <2>1. task'[q][t] = task[q][t]
    BY <1>4, <1>8
  <2> QED BY <2>1 DEF ReachInv, InviteInv, AdmitsFor
<1>10. InviteInv'
  BY <1>1, <1>5, <1>9 DEF ReachInv, InviteInv
<1>11. SeedInv'
  BY <1>1 DEF ReachInv, SeedInv
<1>12. ListInv'
  <2> SUFFICES ASSUME raced = {}
               PROVE  /\ Invitees \intersect Current \subseteq derived'[Founder]
                      /\ \A t \in Callers : Lists(task'[Founder][t], Invitees \intersect Current)
    BY <1>1, <1>5 DEF ListInv
  <2>1. /\ Invitees \intersect Current \subseteq derived[Founder]
        /\ \A t \in Callers : Lists(task[Founder][t], Invitees \intersect Current)
    BY DEF ReachInv, ListInv
  <2>2. CASE p = Founder
    <3>1. Current \subseteq RosterOf(doc, Members(p))
      BY <1>2, <2>2, FounderLists
    <3> QED BY <1>4, <1>8, <2>1, <2>2, <3>1 DEF Lists
  <2>3. CASE p # Founder
    BY <1>8, <2>1, <2>3, Constants
  <2> QED BY <2>2, <2>3
<1> QED BY <1>5, <1>7, <1>10, <1>11, <1>12 DEF ReachInv

LEMMA RestartReaches ==
    ASSUME Types, ReachInv, NEW p \in Devices, Restart(p)
    PROVE  ReachInv'
<1> DEFINE roster == RosterOf(manifest[p], Members(p))
<1>1. /\ derived' = [derived EXCEPT ![p] = roster]
      /\ bootstrap' = [bootstrap EXCEPT ![p] = roster \ {p}]
      /\ slot' = [slot EXCEPT ![p] = Chunk(manifest[p], known[p])] \/ slot' = slot
      /\ early' = IF roster \subseteq {p} THEN early \union {p} ELSE early
      /\ UNCHANGED <<log, known, joined, manifest, task, invites, limit, raced>>
  BY DEF Restart, group
<1>2. LedgerInv' /\ Added' = Added /\ Current' = Current /\ Invitees' = Invitees
  BY <1>1 DEF ReachInv, LedgerInv, Added, Current, MembersAt, Subjects, Invitees
<1>3. \A q \in Devices : slot'[q].doc = slot[q].doc \/ slot'[q].doc = manifest[q]
  <2>1. CASE slot' = [slot EXCEPT ![p] = Chunk(manifest[p], known[p])]
    BY <2>1, SlotWritten
  <2> QED BY <1>1, <2>1
<1>4. RecordInv'
  BY <1>1, <1>2, <1>3 DEF ReachInv, RecordInv, Rooted
<1>5. InviteInv'
  BY <1>1, <1>2 DEF ReachInv, InviteInv, AdmitsFor
<1>6. SeedInv'
  <2> SUFFICES ASSUME NEW d \in joined \ ({Founder} \union early')
               PROVE  Founder \in bootstrap'[d]
    BY <1>1 DEF SeedInv
  <2>1. d \in Devices /\ d \notin early
    BY <1>1 DEF Types, GroupType
  <2>2. CASE d = p
    <3>1. \E x \in roster : x # p
      BY <1>1, <2>2
    <3>2. Founder \in manifest[p].devices
      BY <3>1 DEF ReachInv, RecordInv, Rooted, RosterOf
    <3>3. Founder \in Members(p)
      BY FounderKnows DEF ReachInv
    <3>4. Founder \in roster \ {p}
      BY <2>2, <3>2, <3>3 DEF RosterOf
    <3>5. bootstrap'[p] = roster \ {p}
      BY <1>1 DEF Types, AdmissionType
    <3> QED BY <2>2, <3>4, <3>5
  <2>3. CASE d # p
    <3>1. bootstrap'[d] = bootstrap[d]
      BY <1>1, <2>1, <2>3 DEF Types, AdmissionType
    <3> QED BY <2>1, <3>1 DEF ReachInv, SeedInv
  <2> QED BY <2>2, <2>3
<1>7. Invitees \intersect Current \subseteq derived'[Founder] \/ raced # {}
  <2>1. CASE p = Founder
    <3>1. derived'[Founder] = roster
      BY <1>1, <2>1 DEF Types, AdmissionType
    <3>2. Current \subseteq roster
      BY <2>1, FounderLists
    <3> QED BY <3>1, <3>2
  <2>2. CASE p # Founder
    <3>1. derived'[Founder] = derived[Founder]
      BY <1>1, <2>2, Constants DEF Types, AdmissionType
    <3> QED BY <3>1 DEF ReachInv, ListInv
  <2> QED BY <2>1, <2>2
<1>8. ListInv'
  BY <1>1, <1>2, <1>7 DEF ReachInv, ListInv
<1> QED BY <1>2, <1>4, <1>5, <1>6, <1>8 DEF ReachInv

LEMMA InitReaches == Init => ReachInv
<1> SUFFICES ASSUME Init PROVE ReachInv
  OBVIOUS
<1> DEFINE S == limit.settled
           rest == {Founder} \union S
           size == Cardinality(S)
           doc == [devices |-> rest, authors |-> rest]
<1>1. limit \in Limits /\ S \subseteq Devices
  BY Constants DEF Init
<1>2. size \in Nat /\ Order(S) \in [1..size -> S] /\ \A x \in S : \E i \in 1..size : Order(S)[i] = x
  BY <1>1, OrderType, OrderOnto
<1>3. log = [i \in 1..size |-> [op |-> "add", dev |-> Order(S)[i]]]
  BY DEF Init
<1>4. /\ known = [p \in Devices |-> IF p \in rest THEN size ELSE 0] /\ joined = rest
      /\ manifest = [p \in Devices |-> IF p \in rest THEN doc ELSE Nothing]
      /\ slot = [p \in Devices |-> IF p \in rest THEN Chunk(doc, size) ELSE NoChunk]
      /\ derived = [p \in Devices |-> IF p \in rest THEN rest ELSE {}]
      /\ bootstrap = [p \in Devices |-> IF p \in S THEN {Founder} ELSE {}]
      /\ task = [p \in Devices |-> [t \in Callers |-> Idle]]
      /\ invites = {}
  BY DEF Init
<1>5. doc.devices = rest /\ Nothing.devices = {}
  BY DEF Nothing
<1>6. Invitees = S
  BY <1>4 DEF Invitees
<1> HIDE DEF S, size, doc
<1>7. Len(log) = size /\ \A i \in 1..size : log[i].op = "add" /\ log[i].dev = Order(S)[i]
  BY <1>2, <1>3
<1>8. Added = S
  BY <1>2, <1>7 DEF Added, Subjects
<1>9. Current \subseteq rest
  BY <1>8 DEF Current, MembersAt, Added
<1>10. LedgerInv
  BY <1>2, <1>4, <1>7, Constants DEF LedgerInv
<1>11. RecordInv
  BY <1>4, <1>5, <1>8, EmptyValues, Constants DEF RecordInv, Rooted, Chunk
<1>12. InviteInv
  BY <1>4, <1>6, <1>8, EmptyValues DEF InviteInv, AdmitsFor
<1>13. SeedInv
  BY <1>1, <1>4 DEF SeedInv
<1>14. ListInv
  BY <1>4, <1>9, EmptyValues, Constants DEF ListInv, Lists
<1> QED BY <1>10, <1>11, <1>12, <1>13, <1>14 DEF ReachInv

LEMMA NextReaches ==
    ASSUME Admins \subseteq {Founder}, Types, ReachInv, [Next]_vars
    PROVE  ReachInv'
<1>1. Types'
  BY NextTypes
<1>2. Founder \in Devices /\ \A x \in Devices : known[x] \in Nat /\ known'[x] \in Nat
  <2>1. Founder \in Devices /\ Len(log) \in Nat /\ Len(log') \in Nat
    BY <1>1, Constants DEF Types, GroupType
  <2> QED BY <1>1, <2>1 DEF Types, GroupType
<1>3. ASSUME NEW p \in Devices, NEW d \in Devices, Admit(p, d) PROVE ReachInv'
  <2> DEFINE doc == SetDevice(manifest[p], d)
  <2>1. /\ Drive(p, "add", d, doc) /\ d \notin Added \union {Founder}
        /\ manifest' = [manifest EXCEPT ![p] = doc]
        /\ slot' = [slot EXCEPT ![p] = Chunk(doc, Len(log'))]
        /\ UNCHANGED <<joined, derived, bootstrap, invites, limit, raced, early>>
    BY <1>3 DEF Admit, Added, traffic, history
  <2>2. doc \in Document /\ manifest[p].devices \subseteq doc.devices /\ d \in doc.devices
    <3>1. manifest[p] \in Document
      BY DEF Types, ReplicaType
    <3> QED BY <3>1, DocumentType DEF SetDevice, Document
  <2> HIDE DEF doc
  <2> QED BY <2>1, <2>2, DriveReaches
<1>4. ASSUME NEW p \in Devices, NEW d \in Devices, RemoveMember(p, d) PROVE ReachInv'
  <2> DEFINE doc == manifest[p]
  <2>1. /\ Drive(p, "remove", d, doc) /\ d # p /\ manifest' = manifest
        /\ slot' = [slot EXCEPT ![p] = Chunk(doc, Len(log'))]
        /\ UNCHANGED <<joined, derived, bootstrap, invites, limit, raced, early>>
    BY <1>4 DEF RemoveMember, traffic, history
  <2>2. doc \in Document /\ manifest' = [manifest EXCEPT ![p] = doc] /\ manifest[p].devices \subseteq doc.devices
    BY <2>1 DEF Types, ReplicaType
  <2> HIDE DEF doc
  <2> QED BY <2>1, <2>2, DriveReaches
<1>5. ASSUME NEW p \in Devices, NEW q \in Devices, LearnOps(p, q) PROVE ReachInv'
  <2>1. /\ known[p] < known[q] /\ known' = [known EXCEPT ![p] = known[q]]
        /\ UNCHANGED <<log, joined, manifest, slot, invites, limit, task, derived, bootstrap, raced, early>>
    BY <1>5 DEF LearnOps, replica, admission, traffic, history
  <2>2. known[Founder] <= known'[Founder]
    <3>1. known'[Founder] = known[Founder] \/ (p = Founder /\ known'[Founder] = known[q])
      BY <1>2, <2>1 DEF Types, GroupType
    <3> QED BY <1>2, <2>1, <3>1
  <2> QED BY <1>2, <2>1, <2>2, CalmReach
<1>6. ASSUME NEW p \in Devices, NEW q \in Devices, NeighborUp(p, q) PROVE ReachInv'
  <2>1. UNCHANGED <<log, known, joined, manifest, slot, invites, limit, task, derived, bootstrap, raced, early>>
    BY <1>6 DEF NeighborUp, group, replica, admission, history
  <2> QED BY <1>2, <2>1, KnownKept, CalmReach
<1>7. ASSUME NEW p \in Devices, (\E q \in Devices : Adopt(p, q)) \/ Republish(p) PROVE ReachInv'
  <2>1. /\ slot' = slot \/ slot' = [slot EXCEPT ![p] = Chunk(manifest[p], known[p])]
        /\ UNCHANGED <<log, known, joined, manifest, invites, limit, task, derived, bootstrap, raced, early>>
    BY <1>7 DEF Adopt, Republish, group, admission, traffic, history
  <2>2. \A x \in Devices : slot'[x].doc = slot[x].doc \/ slot'[x].doc = manifest[x]
    BY <2>1 DEF Types, ReplicaType, Chunk
  <2> QED BY <1>2, <2>1, <2>2, KnownKept, CalmReach
<1>8. ASSUME NEW r \in repairs, AnswerRepair(r) PROVE ReachInv'
  <2> DEFINE q == r.to
  <2>1. q \in Devices
    BY DEF Types, TrafficType
  <2>2. /\ UNCHANGED <<joined, manifest, invites, limit, task, derived, bootstrap, raced, early>>
        /\ \/ UNCHANGED <<log, known, slot>>
           \/ /\ log' = Append(log, [op |-> "update", dev |-> q])
              /\ known' = [known EXCEPT ![q] = Len(log')] /\ known[q] = Len(log)
              /\ slot' = [slot EXCEPT ![q] = Chunk(manifest[q], Len(log'))]
    BY <1>8 DEF AnswerRepair, Serial, admission, history
  <2> HIDE DEF q
  <2>3. \A x \in Devices : slot'[x].doc = slot[x].doc \/ slot'[x].doc = manifest[x]
    <3>1. CASE slot' = [slot EXCEPT ![q] = Chunk(manifest[q], Len(log'))]
      BY <2>1, <3>1, SlotWritten
    <3> QED BY <2>2, <3>1
  <2>4. CASE UNCHANGED <<log, known, slot>>
    BY <1>2, <2>2, <2>3, <2>4, KnownKept, CalmReach
  <2>5. CASE /\ log' = Append(log, [op |-> "update", dev |-> q])
             /\ known' = [known EXCEPT ![q] = Len(log')] /\ known[q] = Len(log)
    <3>1. known[Founder] <= known'[Founder]
      <4>1. PICK e \in Operations : log' = Append(log, e)
        BY <2>1, <2>5 DEF Operations
      <4>2. Len(log) \in Nat /\ Len(log') = Len(log) + 1
        BY <4>1, LogAppended
      <4>3. known'[Founder] = known[Founder] \/ (q = Founder /\ known'[Founder] = Len(log'))
        BY <1>2, <2>5 DEF Types, GroupType
      <4> QED BY <1>2, <2>5, <4>2, <4>3
    <3> QED BY <1>2, <2>1, <2>2, <2>3, <2>5, <3>1, CalmReach
  <2> QED BY <2>2, <2>4, <2>5
<1>9. ASSUME UNCHANGED vars PROVE ReachInv'
  <2>1. UNCHANGED <<log, known, joined, manifest, slot, invites, limit, task, derived, bootstrap, raced, early>>
    BY <1>9 DEF vars, group, replica, admission, traffic, history
  <2> QED BY <1>2, <2>1, KnownKept, CalmReach
<1>10. ASSUME Environment PROVE ReachInv'
  BY <1>3, <1>4, <1>10, RestartReaches, JoinReaches DEF Environment
<1>11. ASSUME System PROVE ReachInv'
  BY <1>1, <1>5, <1>6, <1>7, <1>8, <1>11, SetDerivedReaches, IngestAllReaches DEF System
<1> QED BY <1>9, <1>10, <1>11 DEF Next

LEMMA ReachImplies ==
    ASSUME Types, ReachInv
    PROVE  Reachable
<1> SUFFICES ASSUME raced = {}, NEW d \in (joined \intersect Current) \ ({Founder} \union early)
             PROVE  Founder \in Current /\ Connected(Founder, d)
  BY DEF Reachable
<1>1. Founder \in Current
  BY FounderKnows DEF ReachInv
<1>2. Founder \in joined /\ d \in Invitees
  BY DEF ReachInv, InviteInv
<1>3. d \in derived[Founder] /\ Founder \in bootstrap[d]
  BY <1>2 DEF ReachInv, ListInv, SeedInv
<1> QED BY <1>1, <1>2, <1>3 DEF Connected, Admits

(* Where the founder is the only administrator, and for any number of       *)
(* devices, admissions, removals and restarts: a member that has joined is  *)
(* admitted by a current member it admits, so its replica can be reached    *)
(* (Roster::admits), unless it restarted before a manifest reached it or    *)
(* two refreshes crossed.  With a second administrator it need not be: the  *)
(* device that invited the joiner may itself be removed.                    *)
THEOREM JoinerReached ==
    ASSUME Admins \subseteq {Founder}
    PROVE  Spec => []Reachable
<1>1. Types /\ ReachInv /\ [Next]_vars => ReachInv'
  BY NextReaches
<1>2. Types /\ ReachInv => Reachable
  BY ReachImplies
<1> QED BY TypesAlways, InitReaches, <1>1, <1>2, PTL DEF Spec
=============================================================================
