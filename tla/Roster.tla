------------------------------- MODULE Roster -------------------------------
(***************************************************************************)
(* How a device comes to be let in by its peers, and to be shut out again. *)
(*                                                                         *)
(* A node accepts a connection only from the endpoints on its roster.  The *)
(* roster is derived from the manifest (which device answers at which      *)
(* endpoint) and from the membership; the manifest travels encrypted over  *)
(* the very connections the roster gates.  The exception that breaks the   *)
(* circle is the bootstrap entry a joiner makes for its inviter.           *)
(*                                                                         *)
(* Membership operations are serial here (the log); what concurrent ones   *)
(* do to the tree is Group's subject.  Epoch n is the key of the tree after*)
(* log[1..n]: the operation and the key update its publication forces are  *)
(* one entry.  A device has one endpoint for good (Lifecycle), so a device *)
(* stands for its endpoint, and the endpoint its enrollment names is the   *)
(* one it announces: `record_endpoint` finds nothing to change.  A process *)
(* stops between two events; stops inside one are Lifecycle's subject.     *)
(***************************************************************************)
EXTENDS Integers, Sequences, FiniteSets


CONSTANTS
    Devices,    \* the devices of the workspace
    Founder,    \* the one that founded it
    Admins,     \* those allowed to change the membership
    NoDevice,   \* no device
    Limits      \* the scenarios: who is settled, and how often each call happens

ASSUME RosterAssumption ==
    /\ IsFiniteSet(Devices)
    /\ Founder \in Devices
    /\ NoDevice \notin Devices
    /\ Limits \subseteq [settled : SUBSET (Devices \ {Founder}), adds : Nat, removes : Nat,
                       restarts : Nat, ahead : BOOLEAN]

VARIABLES
    log,        \* membership operations and key updates, in order
    known,      \* known[p]: how much of the log p has merged
    joined,     \* the devices that run the workspace
    manifest,   \* manifest[p]: the device records and author claims p holds
    gen,        \* gen[p]: the namespace p replicates, by number of rotations
    slot,       \* slot[a]: the manifest entry of author a in the namespace a is in
    seen,       \* seen[p][a]: the content p last handed to the core
    derived,    \* derived[p]: Allowed::derived
    bootstrap,  \* bootstrap[p]: Allowed::bootstrap
    task,       \* task[p][t]: a refresh of the roster under way
    neighbours, \* the pairs the overlay has brought together
    stale,      \* the devices whose republication is due
    asked,      \* asked[p]: the epochs p has asked a manifest repair for
    repairs,    \* repair requests on their way, [from, to]
    answered,   \* answered[p]: those p has answered within the window
    invites,    \* invitations issued
    limit,      \* the scenario
    restarts,   \* restarts so far
    evicted,    \* history: evicted[p], the removals p has completed
    raced,      \* history: devices that installed a roster older than the last
    late,       \* history: devices that met an entry ahead of its operation
    early       \* history: devices that restarted before a manifest reached them

group == <<log, known, joined>>
replica == <<manifest, gen, slot, seen>>
admission == <<derived, bootstrap, task>>
traffic == <<neighbours, stale, asked, repairs, answered, invites>>
history == <<limit, restarts, evicted, raced, late, early>>
vars == <<group, replica, admission, traffic, history>>

Callers == {"app", "pump"}
Idle == [due |-> FALSE, set |-> {}, overtaken |-> FALSE, add |-> NoDevice, remove |-> NoDevice]
Nothing == [devices |-> {}, authors |-> {}]
NoChunk == [doc |-> Nothing, epoch |-> -1]

-----------------------------------------------------------------------------
(* Membership, as the log's first n operations give it.                    *)

Subjects(op, n) == {log[i].dev : i \in {j \in 1..n : log[j].op = op}}
MembersAt(n) == ({Founder} \union Subjects("add", n)) \ Subjects("remove", n)
Members(p) == MembersAt(known[p])
Current == MembersAt(Len(log))

\* The epoch a device was admitted with: it derives no earlier key.
AdmittedAt(p) == IF p = Founder THEN 0
                 ELSE CHOOSE i \in 1..Len(log) : log[i] = [op |-> "add", dev |-> p]

\* CgkaController::decrypt: what p makes of a chunk of some epoch.
Verdict(p, epoch) ==
    IF epoch > known[p] THEN "awaiting"
    ELSE IF epoch >= AdmittedAt(p) /\ p \in MembersAt(epoch) THEN "plaintext"
    ELSE "unreachable"

-----------------------------------------------------------------------------
(* The manifest and the roster.                                            *)

\* Importing a replica is the union of what both sides recorded.
MergeAll(m, docs) == [devices |-> m.devices \union UNION {o.devices : o \in docs},
                      authors |-> m.authors \union UNION {o.authors : o \in docs}]
Merge(m, o) == MergeAll(m, {o})

\* Manifest::set_device with the endpoint, and set_author.
SetDevice(m, d) == [m EXCEPT !.devices = @ \union {d}]
SetAuthor(m, d) == [m EXCEPT !.authors = @ \union {d}]

\* Mutant: the membership is not consulted.
RosterOfRecorded(doc, members) == doc.devices

\* WorkspaceState::roster: recorded devices that are certified current members.
RosterOf(doc, members) == doc.devices \intersect members

\* WorkspaceState::author_may_write: p accepts the entries of a device that has
\* claimed its author and is certified with a role that writes.  Certificates
\* outlive a removal.  Every device here has such a role.
AuthorMayWrite(p, d) ==
    d \in manifest[p].authors /\ d \in {Founder} \union Subjects("add", known[p])

\* Roster::add_bootstrap, for each of a set of endpoints.
AddBootstrap(p, peers) == bootstrap' = [bootstrap EXCEPT ![p] = @ \union peers]

\* Roster::admits.
Admits(p) == derived[p] \union bootstrap[p]

\* Each side of a connection must know the other: the dialler its address,
\* the acceptor that it is on the roster.
Connected(p, q) == /\ p # q
                   /\ {p, q} \subseteq joined
                   /\ q \in Admits(p)
                   /\ p \in Admits(q)

\* publish_manifest and store_chunk: the one manifest entry of an author.  The
\* key is derived from the content and the epoch, so an unchanged manifest
\* gives the same chunk, and the entry the hash it had.
Chunk(doc, epoch) == [doc |-> doc, epoch |-> epoch]

\* The index replicates: p has the entry of a when the two share a namespace
\* and are connected, or both are with a third that shares it.
Replicates(p, a) ==
    \/ p = a
    \/ gen[p] = gen[a] /\ Connected(p, a)
    \/ \E q \in Devices : gen[q] = gen[p] /\ gen[q] = gen[a] /\ Connected(p, q) /\ Connected(q, a)

-----------------------------------------------------------------------------
\* The settled members in the order of their admission, whichever it was.
Order(S) == CHOOSE f \in [1..Cardinality(S) -> S] :
                \A i, j \in 1..Cardinality(S) : f[i] = f[j] => i = j

\* A workspace at rest: the founder and the members the scenario starts with,
\* each with everyone's manifest, published, reconciled and read.
Init ==
    /\ limit \in Limits
    /\ LET rest == {Founder} \union limit.settled
           size == Cardinality(limit.settled)
           doc == [devices |-> rest, authors |-> rest]
           entry == Chunk(doc, size)
       IN  /\ log = [i \in 1..size |-> [op |-> "add", dev |-> Order(limit.settled)[i]]]
           /\ known = [p \in Devices |-> IF p \in rest THEN size ELSE 0]
           /\ joined = rest
           /\ manifest = [p \in Devices |-> IF p \in rest THEN doc ELSE Nothing]
           /\ slot = [p \in Devices |-> IF p \in rest THEN entry ELSE NoChunk]
           /\ seen = [p \in Devices |-> [a \in Devices |->
                        IF {a, p} \subseteq rest THEN entry ELSE NoChunk]]
           /\ derived = [p \in Devices |-> IF p \in rest THEN rest ELSE {}]
           /\ bootstrap = [p \in Devices |-> IF p \in limit.settled THEN {Founder} ELSE {}]
           /\ neighbours = {{x[1], x[2]} : x \in {y \in rest \X rest : y[1] # y[2]}}
    /\ gen = [p \in Devices |-> 0]
    /\ task = [p \in Devices |-> [t \in Callers |-> Idle]]
    /\ stale = {}
    /\ asked = [p \in Devices |-> {}]
    /\ repairs = {}
    /\ answered = [p \in Devices |-> {}]
    /\ invites = {}
    /\ restarts = 0
    /\ evicted = [p \in Devices |-> {}]
    /\ raced = {}
    /\ late = {}
    /\ early = {}

\* A member that may append to the log: it holds all of it, so that its
\* operation has no concurrent one.
Serial(p) == p \in joined /\ known[p] = Len(log) /\ p \in Members(p)

\* refresh_roster: the set is computed under the state's lock, and is still to
\* be installed when the lock is gone.
Refresh(doc, members) == [Idle EXCEPT !.due = TRUE, !.set = RosterOf(doc, members)]

\* drive of a membership event: the core handles it, the effects are
\* performed, and the refresh of the roster begins.
Drive(p, op, d, doc) ==
    /\ Serial(p)
    /\ p \in Admins
    /\ task[p]["app"] = Idle
    /\ log' = Append(log, [op |-> op, dev |-> d])
    /\ known' = [known EXCEPT ![p] = Len(log')]
    /\ task' = [task EXCEPT ![p]["app"] =
          IF op = "add" THEN [Refresh(doc, Members(p) \union {d}) EXCEPT !.add = d]
          ELSE [Refresh(doc, Members(p) \ {d}) EXCEPT !.remove = d]]

\* on_add_user, on_add_device, admit: certificate and Add operation go out,
\* the device record with its endpoint goes into the manifest, and the
\* manifest is published.
Admit(p, d) ==
    LET doc == SetDevice(manifest[p], d)
    IN  /\ Cardinality(Subjects("add", Len(log)) \ limit.settled) < limit.adds
        /\ d \notin Subjects("add", Len(log)) \union {Founder}
        /\ Drive(p, "add", d, doc)
        /\ manifest' = [manifest EXCEPT ![p] = doc]
        /\ slot' = [slot EXCEPT ![p] = Chunk(doc, Len(log'))]
        /\ UNCHANGED <<joined, gen, seen, derived, bootstrap, traffic, history>>

\* perform_removal with the rotation it asks for: the Remove goes out, a
\* namespace is minted and adopted, and what p holds is republished there.
RemoveMember(p, d) ==
    /\ Cardinality(Subjects("remove", Len(log))) < limit.removes
    /\ d \in Members(p) \ {p}
    /\ Drive(p, "remove", d, manifest[p])
    /\ gen' = [gen EXCEPT ![p] = @ + 1]
    /\ slot' = [slot EXCEPT ![p] = Chunk(manifest[p], Len(log'))]
    /\ seen' = [seen EXCEPT ![p] = [a \in Devices |-> NoChunk]]
    /\ UNCHANGED <<joined, manifest, derived, bootstrap, traffic, history>>

\* build_invite: the inviter's endpoint, its log and its namespace as they are.
BuildInvite(p, d) == [from |-> p, to |-> d, known |-> known[p], gen |-> gen[p]]

\* The computed set is installed, over whatever another task installed since.
\* In drive the state is saved next, and the caller has its invitation or its
\* removal.
SetDerived(p, t) ==
    LET r == task[p][t]
        other == CHOOSE u \in Callers : u # t
    IN  /\ r.due
        /\ derived' = [derived EXCEPT ![p] = r.set]
        /\ task' = [task EXCEPT ![p][t] = Idle, ![p][other].overtaken = task[p][other].due]
        /\ raced' = IF r.overtaken THEN raced \union {p} ELSE raced
        /\ invites' = IF r.add = NoDevice THEN invites
                      ELSE invites \union {BuildInvite(p, r.add)}
        /\ evicted' = [evicted EXCEPT ![p] = IF r.remove = NoDevice THEN @ ELSE @ \union {r.remove}]
        /\ UNCHANGED <<group, replica, bootstrap, neighbours, stale, asked, repairs, answered,
                       limit, restarts, late, early>>

\* Mutant: the inviter is not admitted for bootstrap.
JoinAlone(i) ==
    LET d == i.to
        doc == SetAuthor(Nothing, d)
    IN  /\ d \notin joined
        /\ joined' = joined \union {d}
        /\ known' = [known EXCEPT ![d] = i.known]
        /\ manifest' = [manifest EXCEPT ![d] = doc]
        /\ gen' = [gen EXCEPT ![d] = i.gen]
        /\ slot' = [slot EXCEPT ![d] = Chunk(doc, i.known)]
        /\ UNCHANGED <<log, seen, admission, traffic, history>>

\* Workspace::join and assemble: the log of the invitation is merged, the
\* inviter is admitted for bootstrap, the author claim is announced; there is
\* no device record yet, so the endpoint has nowhere to go.
Join(i) ==
    LET d == i.to
        doc == SetAuthor(Nothing, d)
    IN  /\ d \notin joined
        /\ joined' = joined \union {d}
        /\ known' = [known EXCEPT ![d] = i.known]
        /\ manifest' = [manifest EXCEPT ![d] = doc]
        /\ gen' = [gen EXCEPT ![d] = i.gen]
        /\ slot' = [slot EXCEPT ![d] = Chunk(doc, i.known)]
        /\ AddBootstrap(d, {i.from})
        /\ UNCHANGED <<log, seen, derived, task, traffic, history>>

-----------------------------------------------------------------------------
(* The pumps.                                                              *)

\* control_loop, NeighborUp on both sides: a republication is due.
NeighborUp(p, q) ==
    /\ Connected(p, q)
    /\ {p, q} \notin neighbours
    /\ neighbours' = neighbours \union {{p, q}}
    /\ stale' = stale \union {p, q}
    /\ UNCHANGED <<group, replica, admission, asked, repairs, answered, invites, history>>

\* send_log and handle_control_msg: what a neighbour's log has more.
LearnOps(p, q) ==
    /\ Connected(p, q)
    /\ {p, q} \in neighbours
    /\ known[p] < known[q]
    /\ known' = [known EXCEPT ![p] = known[q]]
    /\ UNCHANGED <<log, joined, replica, admission, traffic, history>>

\* republish_loop: the manifest again, under the epoch p stands at.
Republish(p) ==
    /\ p \in stale
    /\ stale' = stale \ {p}
    /\ slot' = IF p \in Members(p) THEN [slot EXCEPT ![p] = Chunk(manifest[p], known[p])]
               ELSE slot
    /\ UNCHANGED <<group, manifest, gen, seen, admission, neighbours, asked, repairs, answered,
                   invites, history>>

\* Mutant: a manifest is read only from an author the manifest already names.
UnreadOfKnown(p) ==
    {a \in manifest[p].authors : a \in joined /\ Replicates(p, a) /\ slot[a] # seen[p][a]}

\* Entries in p's replica whose content is not the one last handed over.
Unread(p) == {a \in joined : Replicates(p, a) /\ slot[a] # seen[p][a]}

\* Effect::RequestRepair, once per epoch and window, to whoever is connected.
RequestRepair(p, epochs) ==
    /\ asked' = [asked EXCEPT ![p] = @ \union epochs]
    /\ repairs' = IF epochs \subseteq asked[p] THEN repairs
                  ELSE repairs \union [from : {p}, to : {q \in Devices : Connected(p, q)}]

\* ingest_all: every unread entry goes to the core, and is remembered as seen
\* whatever the core made of it.  A merged manifest refreshes the roster; only
\* on an administrator's node does another task refresh it too, so only there
\* are the two halves of the refresh apart.
IngestAll(p) ==
    LET As(verdict) == {a \in Unread(p) : Verdict(p, slot[a].epoch) = verdict}
        doc == MergeAll(manifest[p], {slot[a].doc : a \in As("plaintext")})
    IN  /\ p \in joined
        /\ Unread(p) # {}
        /\ task[p]["pump"] = Idle
        /\ As("awaiting") = {} \/ limit.ahead
        /\ seen' = [seen EXCEPT ![p] = [a \in Devices |->
              IF a \in Unread(p) THEN slot[a] ELSE seen[p][a]]]
        /\ manifest' = [manifest EXCEPT ![p] = doc]
        /\ IF As("plaintext") = {} THEN UNCHANGED <<task, derived>>
           ELSE IF p \in Admins THEN /\ task' = [task EXCEPT ![p]["pump"] = Refresh(doc, Members(p))]
                                     /\ UNCHANGED derived
           ELSE /\ derived' = [derived EXCEPT ![p] = RosterOf(doc, Members(p))]
                /\ UNCHANGED task
        /\ late' = IF As("awaiting") = {} THEN late ELSE late \union {p}
        /\ RequestRepair(p, {slot[a].epoch : a \in As("unreachable")})
        /\ UNCHANGED <<group, gen, slot, bootstrap, neighbours, stale, answered, invites,
                       limit, restarts, evicted, raced, early>>

\* on_repair_requested: refused to a stranger and to one answered within the
\* window; otherwise the manifest again under a key made for the purpose.
AnswerRepair(r) ==
    LET q == r.to
    IN  /\ repairs' = repairs \ {r}
        /\ IF r.from \in Members(q) \ answered[q]
           THEN /\ Serial(q)
                /\ log' = Append(log, [op |-> "update", dev |-> q])
                /\ known' = [known EXCEPT ![q] = Len(log')]
                /\ slot' = [slot EXCEPT ![q] = Chunk(manifest[q], Len(log'))]
                /\ answered' = [answered EXCEPT ![q] = @ \union {r.from}]
           ELSE UNCHANGED <<log, known, slot, answered>>
        /\ UNCHANGED <<joined, manifest, gen, seen, admission, neighbours, stale, asked, invites,
                       history>>

\* adopt_namespace at the other members: the announcement of a rotation p has
\* merged the removal of, from a connected peer that is there already.
Adopt(p, q) ==
    /\ Connected(p, q)
    /\ gen[p] < gen[q]
    /\ gen[q] <= Cardinality(Subjects("remove", known[p]))
    /\ p \in Members(p)
    /\ gen' = [gen EXCEPT ![p] = gen[q]]
    /\ slot' = [slot EXCEPT ![p] = Chunk(manifest[p], known[p])]
    /\ seen' = [seen EXCEPT ![p] = [a \in Devices |-> NoChunk]]
    /\ UNCHANGED <<group, manifest, admission, traffic, history>>

\* The process stops and opens the workspace again: caches, cooldowns and the
\* bootstrap entry are gone, and the roster is derived from the saved state.
Restart(p) ==
    LET roster == RosterOf(manifest[p], Members(p))
    IN  /\ p \in joined
        /\ restarts < limit.restarts
        /\ restarts' = restarts + 1
        /\ \A t \in Callers : task[p][t] = Idle
        /\ seen' = [seen EXCEPT ![p] = [a \in Devices |-> NoChunk]]
        /\ derived' = [derived EXCEPT ![p] = roster]
        /\ bootstrap' = [bootstrap EXCEPT ![p] = roster \ {p}]
        /\ neighbours' = {pair \in neighbours : p \notin pair}
        /\ stale' = stale \ {p}
        /\ asked' = [asked EXCEPT ![p] = {}]
        /\ answered' = [answered EXCEPT ![p] = {}]
        /\ slot' = IF p \in Members(p) THEN [slot EXCEPT ![p] = Chunk(manifest[p], known[p])]
                   ELSE slot
        /\ early' = IF roster \subseteq {p} THEN early \union {p} ELSE early
        /\ UNCHANGED <<group, manifest, gen, task, repairs, invites, limit, evicted, raced, late>>

-----------------------------------------------------------------------------
Environment ==
    \/ \E p, d \in Devices : Admit(p, d) \/ RemoveMember(p, d)
    \/ \E p \in Devices : Restart(p)
    \/ \E i \in invites : Join(i)

System ==
    \/ \E p \in Devices, t \in Callers : SetDerived(p, t)
    \/ \E p, q \in Devices : NeighborUp(p, q) \/ LearnOps(p, q) \/ Adopt(p, q)
    \/ \E p \in Devices : Republish(p) \/ IngestAll(p)
    \/ \E r \in repairs : AnswerRepair(r)

Next == Environment \/ System

Spec == Init /\ [][Next]_vars

\* Every pump runs in a task of its own, and the work is finite: a republished
\* manifest that did not change is the same entry.
FairSpec == Spec /\ WF_vars(System)
-----------------------------------------------------------------------------
Document == [devices : SUBSET Devices, authors : SUBSET Devices]

\* Every variable keeps its shape: what a device has merged is a prefix of the
\* log, and no entry, invitation or question names an epoch the log lacks.
TypeOK ==
    LET Epochs == 0..Len(log)
    IN  /\ log \in Seq([op : {"add", "remove", "update"}, dev : Devices])
        /\ known \in [Devices -> Epochs]
        /\ joined \subseteq Devices
        /\ manifest \in [Devices -> Document]
        /\ gen \in [Devices -> Nat]
        /\ slot \in [Devices -> [doc : Document, epoch : Epochs \union {-1}]]
        /\ seen \in [Devices -> [Devices -> [doc : Document, epoch : Epochs \union {-1}]]]
        /\ derived \in [Devices -> SUBSET Devices]
        /\ bootstrap \in [Devices -> SUBSET Devices]
        /\ task \in [Devices -> [Callers ->
              [due : BOOLEAN, set : SUBSET Devices, overtaken : BOOLEAN,
               add : Devices \union {NoDevice}, remove : Devices \union {NoDevice}]]]
        /\ neighbours \subseteq {{p, q} : p, q \in Devices}
        /\ stale \subseteq Devices
        /\ asked \in [Devices -> SUBSET Epochs]
        /\ repairs \subseteq [from : Devices, to : Devices]
        /\ answered \in [Devices -> SUBSET Devices]
        /\ invites \subseteq [from : Devices, to : Devices, known : Epochs, gen : Nat]
        /\ limit \in Limits
        /\ restarts \in 0..limit.restarts
        /\ evicted \in [Devices -> SUBSET Devices]
        /\ raced \subseteq Devices
        /\ late \subseteq Devices
        /\ early \subseteq Devices

\* A removal that has returned to its caller holds: the remover's roster never
\* lists the device again, unless two refreshes crossed (drive refreshes the
\* roster after the effects of RemoveMember, and nothing re-derives the device).
RemovalHolds == \A p \in Devices \ raced : evicted[p] \intersect derived[p] = {}

\* A joiner is never cut off: from the moment it runs the workspace, some
\* current member and it admit one another, whatever the order of its join, the
\* manifests that reach it, removals, and restarts on either side (admit records
\* the endpoint before the invitation exists, and assemble seeds the bootstrap).
\* Excepted are a device that restarted before a manifest reached it, and runs
\* in which two refreshes crossed.  With several administrators one may remove
\* the inviter before the joiner knows anyone else; with the founder alone
\* nobody can.
Reachable ==
    raced = {} =>
        \A d \in (joined \intersect Current) \ ({Founder} \union early) :
            \E p \in Current : Connected(p, d)

\* open: "a restarting member already knows the whole group: its own manifest
\* records every device's endpoint".  So a member that restarts is still one
\* that some current member reaches.
ReopenReaches ==
    raced = {} =>
        \A d \in (joined \intersect Current) \ {Founder} : \E p \in Current : Connected(p, d)

\* Once membership stops changing, every member that runs the workspace ends up
\* with the current members on its roster, no more and no fewer, and accepts the
\* entries of everyone who joined (author_may_write): the manifest of each reaches each
\* through the connections its own contents open.  Excepted are runs in which
\* two refreshes crossed, an entry came ahead of its operation, or a joiner
\* restarted before a manifest reached it.
RostersSettle ==
    <>[]( raced \union late \union early = {} =>
            \A p \in joined \intersect Current :
                /\ derived[p] = Current
                /\ \A d \in joined \intersect Current : AuthorMayWrite(p, d) )

\* on_manifest_arrived on a chunk whose operation is missing: "The next
\* re-announcement, or this same one after the missing operation lands, will
\* read."  So an entry handed to the core and readable now has been merged.
SeenIsMerged ==
    \A p, a \in Devices :
        seen[p][a] # NoChunk /\ Verdict(p, seen[p][a].epoch) = "plaintext" =>
            manifest[p] = Merge(manifest[p], seen[p][a].doc)
=============================================================================
