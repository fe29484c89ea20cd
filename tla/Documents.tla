----------------------------- MODULE Documents ------------------------------
(***************************************************************************)
(* The data plane: documents published as encrypted chunks into an index   *)
(* that keeps one entry per document and author, fetched by every member,  *)
(* parked until their key and their history are there, and repaired on     *)
(* request.  The core half is WorkspaceState (state.rs), the facade half   *)
(* the ingest, republish and repair tasks of workspace.rs.  Effects are    *)
(* performed after the state lock is released: a StoreChunk of one task    *)
(* may land after that of a later step of another.                         *)
(*                                                                         *)
(* External: Loro (an import keeps what it cannot attach yet, an export    *)
(* holds what is attached), beekem (an epoch key is derivable by the       *)
(* leaves of the tree it was minted in, and readable once the operation    *)
(* that established it is merged) and iroh-docs (the newest entry of an    *)
(* author reaches every replica).  Equal content under an equal epoch is   *)
(* the same chunk, as CgkaController::encrypt makes it.                    *)
(***************************************************************************)
EXTENDS Integers, Sequences, FiniteSets

CONSTANTS
    Peer,                   \* the devices
    Writer,                 \* those whose user may write
    Founders,               \* those in the group from the start
    Doc,                    \* the files of the manifest
    FULL_PUBLISH_EVERY,     \* deltas before an edit carries everything
    MAX_DEP_WAIT_DRAINS,    \* fruitless drains before history is asked for
    MAX_PENDING_CHUNKS,     \* the budget of the pending queue
    LimitAnswers,           \* whether answers to one member are rate-limited
    Tasks,                  \* how many tasks of a peer perform effects at once
    MaxEdits,               \* bound on the edits made
    MaxEpochs,              \* bound on the epoch keys minted
    MaxRestarts,            \* bound on restarts
    None                    \* no chunk, no version published

ASSUME DocumentsAssumption ==
    /\ IsFiniteSet(Peer) /\ IsFiniteSet(Doc)
    /\ Writer \subseteq Peer /\ Founders \subseteq Peer
    /\ FULL_PUBLISH_EVERY \in Nat /\ MAX_DEP_WAIT_DRAINS \in Nat
    /\ MAX_PENDING_CHUNKS \in Nat \ {0} /\ Tasks \in Nat \ {0}
    /\ MaxEdits \in Nat /\ MaxEpochs \in Nat \ {0} /\ MaxRestarts \in Nat

VARIABLES
    docs,           \* per peer and document, the operations Loro has imported
    published,      \* published_up_to
    deltas,         \* deltas_since_full
    pending,        \* pending_chunks, oldest first
    evicted,        \* whether evicted_chunks counts any
    outbox,         \* StoreChunk effects not performed yet
    index,          \* the newest entry of each author
    replica,        \* what each peer's copy of the index holds
    seen,           \* seen_entries: the entries handed to the core
    tree,           \* the members in each peer's tree
    merged,         \* the epochs whose establishing operation a peer merged
    leaves,         \* the leaves each epoch key was minted for
    repairs,        \* Repair messages on their way
    answered,       \* repair_answer_cooldown: the members inside their window
    restarts

core == <<docs, published, deltas, pending, evicted>>
facade == <<outbox, index, replica, seen>>
keys == <<tree, merged, leaves>>
vars == <<core, facade, keys, repairs, answered, restarts>>

\* An operation of the CRDT and the identities of all it depends on.
Id == Peer \X (1..MaxEdits)
Operation == [id : Id, deps : SUBSET Id]
Epoch == 1..MaxEpochs
Chunk == [ops : SUBSET Operation, epoch : Epoch]
Entry == [doc : Doc, chunk : Chunk]
Parked == [doc : Doc, chunk : Chunk, drains : 0..MAX_DEP_WAIT_DRAINS]
Target == {"Document", "DocumentHistory"}
Repair == [to : Peer, member : Peer, target : Target, doc : Doc]

Ids(ops) == {o.id : o \in ops}

\* The operations of an oplog that are attached to their dependencies.
Attached(ops) == {o \in ops : o.deps \subseteq Ids(ops)}

Joined(p) == p \in tree[p]
Joiners == {p \in Peer : Joined(p)}
NoEntries == [d \in Doc |-> [a \in Peer |-> None]]

TypeOK ==
    /\ docs \in [Peer -> [Doc -> SUBSET Operation]]
    /\ published \in [Peer -> [Doc -> (SUBSET Id) \cup {None}]]
    /\ deltas \in [Peer -> [Doc -> 0..FULL_PUBLISH_EVERY]]
    /\ pending \in [Peer -> Seq(Parked)]
    /\ \A p \in Peer : Len(pending[p]) <= MAX_PENDING_CHUNKS
    /\ evicted \in [Peer -> BOOLEAN]
    /\ outbox \in [Peer -> SUBSET Entry]
    /\ index \in [Doc -> [Peer -> Chunk \cup {None}]]
    /\ replica \in [Peer -> [Doc -> [Peer -> Chunk \cup {None}]]]
    /\ seen \in [Peer -> [Doc -> [Peer -> Chunk \cup {None}]]]
    /\ tree \in [Peer -> SUBSET Peer]
    /\ merged \in [Peer -> SUBSET Epoch]
    /\ leaves \in Seq(SUBSET Peer) /\ Len(leaves) <= MaxEpochs
    /\ repairs \subseteq Repair
    /\ answered \in [Peer -> SUBSET Peer]
    /\ restarts \in 0..MaxRestarts

Init ==
    /\ docs = [p \in Peer |-> [d \in Doc |-> {}]]
    /\ published = [p \in Peer |-> [d \in Doc |-> None]]
    /\ deltas = [p \in Peer |-> [d \in Doc |-> 0]]
    /\ pending = [p \in Peer |-> <<>>]
    /\ evicted = [p \in Peer |-> FALSE]
    /\ outbox = [p \in Peer |-> {}]
    /\ index = NoEntries
    /\ replica = [p \in Peer |-> NoEntries]
    /\ seen = [p \in Peer |-> NoEntries]
    /\ tree = [p \in Peer |-> IF p \in Founders THEN Founders ELSE {}]
    /\ merged = [p \in Peer |-> IF p \in Founders THEN {1} ELSE {}]
    /\ leaves = <<Founders>>
    /\ repairs = {}
    /\ answered = [p \in Peer |-> {}]
    /\ restarts = 0

-----------------------------------------------------------------------------
(* Draining the pending queue                                              *)

\* try_apply: what peer p makes of chunk c, having merged the epochs known and
\* imported the operations ops.
Verdict(p, known, ops, c) ==
    IF c.epoch \notin known THEN "AwaitingKey"
    ELSE IF p \notin leaves[c.epoch] THEN "Unreachable"
    ELSE IF ~ (c.ops \subseteq Attached(ops \cup c.ops)) THEN "AwaitingDeps"
    ELSE "Applied"

\* The progress of a drain: what is merged and imported, the queue rebuilt so
\* far, the repairs asked for, the chunks applied in this round, and whether one
\* had to make room.
Progress(p, known) == [known |-> known, docs |-> docs[p], pending |-> pending[p],
                       asks |-> {}, applied |-> 0, evicted |-> evicted[p]]

Aged(e) == [e EXCEPT !.drains = IF @ < MAX_DEP_WAIT_DRAINS THEN @ + 1 ELSE @]

\* Mutant: only a chunk whose key is there is worth keeping.
KeepReadable(s, e, v) ==
    IF v = "AwaitingDeps" THEN [s EXCEPT !.pending = Append(@, Aged(e))] ELSE s

\* Mutant: a chunk whose history has been asked for is dropped.
KeepUntilAsked(s, e, v) ==
    IF v = "AwaitingDeps" /\ Aged(e).drains = MAX_DEP_WAIT_DRAINS
      THEN s ELSE [s EXCEPT !.pending = Append(@, Aged(e))]

\* A chunk that is not applicable yet is queued again, a drain older.
Keep(s, e, v) == [s EXCEPT !.pending = Append(@, Aged(e))]

\* What a verdict asks the group for.
Asks(e, v) ==
    CASE v = "Unreachable" -> {<<"Document", e.doc>>}
      [] v = "AwaitingDeps" /\ Aged(e).drains = MAX_DEP_WAIT_DRAINS ->
             {<<"DocumentHistory", e.doc>>}
      [] OTHER -> {}

\* One parked chunk retried.
Retry(p, s, e) ==
    LET v == Verdict(p, s.known, s.docs[e.doc], e.chunk)
        read == v \in {"Applied", "AwaitingDeps"}
        t == [s EXCEPT !.docs[e.doc] = IF read THEN @ \cup e.chunk.ops ELSE @,
                       !.asks = @ \cup Asks(e, v),
                       !.applied = IF v = "Applied" THEN @ + 1 ELSE @]
    IN IF v \in {"AwaitingKey", "AwaitingDeps"} THEN Keep(t, e, v) ELSE t

\* Every parked chunk once, oldest first.
Round(p, s) ==
    LET after[n \in 0..Len(s.pending)] ==
            IF n = 0 THEN [s EXCEPT !.pending = <<>>, !.applied = 0]
            ELSE Retry(p, after[n - 1], s.pending[n])
    IN after[Len(s.pending)]

\* Rounds as long as one applies something; each such round shortens the queue.
Drained(p, s) ==
    LET round[n \in 0..(Len(s.pending) + 1)] ==
            IF n = 0 THEN [s EXCEPT !.applied = 1]
            ELSE LET last == round[n - 1]
                 IN IF last.applied = 0 THEN last ELSE Round(p, last)
    IN round[Len(s.pending) + 1]

\* Mutant: no budget.
ParkUnbounded(q, d, c) == Append(q, [doc |-> d, chunk |-> c, drains |-> 0])

\* park_chunk: the oldest makes room.
Park(q, d, c) ==
    Append(IF Len(q) >= MAX_PENDING_CHUNKS THEN Tail(q) ELSE q,
           [doc |-> d, chunk |-> c, drains |-> 0])

ChunkArrived(p, s, d, c) ==
    LET parked == \E i \in DOMAIN s.pending :
                      s.pending[i].doc = d /\ s.pending[i].chunk = c
    IN Drained(p, IF parked THEN s
                  ELSE [s EXCEPT !.pending = Park(@, d, c),
                                 !.evicted = @ \/ Len(s.pending) >= MAX_PENDING_CHUNKS])

\* The state of p after a drain, and the requests it broadcasts.
Settle(p, s) ==
    /\ docs' = [docs EXCEPT ![p] = s.docs]
    /\ pending' = [pending EXCEPT ![p] = s.pending]
    /\ evicted' = [evicted EXCEPT ![p] = s.evicted]
    /\ repairs' = repairs \cup
          {m \in Repair : /\ m.to \in Joiners \ {p} /\ m.member = p
                         /\ <<m.target, m.doc>> \in s.asks}

-----------------------------------------------------------------------------
(* Publishing                                                              *)

Derivable(p) == {e \in merged[p] : p \in leaves[e]}

\* The epoch beekem's new_app_secret_for derives from.
Newest(epochs) == CHOOSE e \in epochs : \A x \in epochs : e >= x

\* encrypt_keyed: whether the chunk is under an epoch minted for it or under the
\* newest p can derive.  beekem mints one of its own accord when the tree has no
\* root key, which an admission since the last epoch may have caused.
MayMint(p, keying, fresh) ==
    IF keying = "Fresh" \/ Derivable(p) = {}
      THEN fresh
      ELSE fresh => tree[p] # leaves[Newest(Derivable(p))]

\* publish_keyed, once the operations of document d at p are ops.
PublishKeyed(p, d, ops, keying, extent) ==
  \E fresh \in BOOLEAN :
    LET epoch == IF fresh THEN Len(leaves) + 1 ELSE Newest(Derivable(p))
        out == IF extent = "Delta"
                 THEN {o \in Attached(ops) : o.id \notin published[p][d]}
                 ELSE Attached(ops)
    IN /\ Cardinality(outbox[p]) < Tasks
       /\ MayMint(p, keying, fresh)
       /\ epoch \in Epoch
       /\ leaves' = IF fresh THEN Append(leaves, tree[p]) ELSE leaves
       /\ merged' = [merged EXCEPT ![p] = @ \cup {epoch}]
       /\ published' = [published EXCEPT ![p][d] = Ids(Attached(ops))]
       /\ deltas' = [deltas EXCEPT ![p][d] = IF extent = "Delta" THEN @ + 1 ELSE 0]
       /\ outbox' = [outbox EXCEPT ![p] =
              @ \cup {[doc |-> d, chunk |-> [ops |-> out, epoch |-> epoch]]}]
       /\ UNCHANGED tree

\* The change that on_append, on_write, on_insert or on_delete commits, with
\* offsets clamped so that each always has one to make: p's next operation, on
\* top of what p can see of the document.
Change(p, d) ==
    [id |-> <<p, Cardinality({o \in docs[p][d] : o.id[1] = p}) + 1>>,
     deps |-> Ids(Attached(docs[p][d]))]

\* The edits made so far.
Edits == {x \in Doc \X Id : \E p \in Peer : x[2] \in Ids(docs[p][x[1]])}

\* on_text_edit and publish.
Edit(p, d) ==
    LET op == Change(p, d)
        delta == published[p][d] # None /\ deltas[p][d] < FULL_PUBLISH_EVERY
    IN /\ Joined(p) /\ p \in Writer
       /\ Cardinality(Edits) < MaxEdits
       /\ docs' = [docs EXCEPT ![p][d] = @ \cup {op}]
       /\ PublishKeyed(p, d, docs[p][d] \cup {op}, "Current",
                       IF delta THEN "Delta" ELSE "Full")
       /\ UNCHANGED <<pending, evicted, index, replica, seen, repairs, answered,
                      restarts>>

IsPublished(p, d) == published[p][d] = Ids(Attached(docs[p][d]))

\* on_resync, asked for by republish.
Resync(p, d) ==
    /\ Joined(p) /\ p \in Writer
    /\ docs[p][d] # {}
    /\ ~ IsPublished(p, d)
    /\ PublishKeyed(p, d, docs[p][d], "Current", "Full")
    /\ UNCHANGED <<docs, pending, evicted, index, replica, seen, repairs, answered,
                   restarts>>

\* The StoreChunk effect, performed by the task that drove the step: the entry
\* of this author is replaced.
StoreChunk(p, e) ==
    /\ e \in outbox[p]
    /\ outbox' = [outbox EXCEPT ![p] = @ \ {e}]
    /\ index' = [index EXCEPT ![e.doc][p] = e.chunk]
    /\ UNCHANGED <<core, replica, seen, keys, repairs, answered, restarts>>

-----------------------------------------------------------------------------
(* Receiving                                                               *)

\* The entries of an index copy that are not cached as seen.
Unseen(p, copy) ==
    {x \in Doc \X Peer : copy[x[1]][x[2]] \notin {None, seen[p][x[1]][x[2]]}}

\* Mutant: what has been fetched is never offered again.
CachedAll(copy, queue) == copy

\* seen_entries after a pass: the documents that are still stuck are forgotten,
\* so that the next pass offers them again.
Cached(copy, queue) ==
    [d \in Doc |-> IF \E i \in DOMAIN queue : queue[i].doc = d
                     THEN [a \in Peer |-> None] ELSE copy[d]]

\* The order of an iteration over a set.
InSomeOrder(S) ==
    CHOOSE f \in [1..Cardinality(S) -> S] : \A i, j \in DOMAIN f : f[i] = f[j] => i = j

\* The entries of an index copy handed to the core one after the other.
Handed(p, copy, order) ==
    LET after[n \in 0..Len(order)] ==
            IF n = 0 THEN Progress(p, merged[p])
            ELSE ChunkArrived(p, after[n - 1], order[n][1], copy[order[n][1]][order[n][2]])
    IN after[Len(order)]

\* The newest entries of E reach p's copy of the index and ingest_all runs:
\* every entry not handed to the core before is handed to it.
Ingest(p, E) ==
    LET copy == [d \in Doc |-> [a \in Peer |->
                    IF <<d, a>> \in E THEN index[d][a] ELSE replica[p][d][a]]]
        s == Handed(p, copy, InSomeOrder(Unseen(p, copy)))
    IN /\ Joined(p)
       /\ Unseen(p, copy) # {}
       /\ Settle(p, s)
       /\ replica' = [replica EXCEPT ![p] = copy]
       /\ seen' = [seen EXCEPT ![p] = Cached(copy, s.pending)]
       /\ UNCHANGED <<published, deltas, outbox, index, keys, answered, restarts>>

\* A pass happens when an entry has arrived, and after any control message.
Pass(p) == \E E \in {{}} \cup {{x} : x \in Doc \X Peer} : Ingest(p, E)

\* Mutant: the queue is not retried.
KeysArriveQuietly(p, q) ==
    /\ Joined(p) /\ Joined(q)
    /\ ~ (merged[q] \subseteq merged[p] /\ tree[q] \subseteq tree[p])
    /\ merged' = [merged EXCEPT ![p] = @ \cup merged[q]]
    /\ tree' = [tree EXCEPT ![p] = @ \cup tree[q]]
    /\ UNCHANGED <<core, facade, leaves, repairs, answered, restarts>>

\* Control operations of q reach p, which retries its queue.
KeysArrive(p, q) ==
    /\ Joined(p) /\ Joined(q)
    /\ ~ (merged[q] \subseteq merged[p] /\ tree[q] \subseteq tree[p])
    /\ merged' = [merged EXCEPT ![p] = @ \cup merged[q]]
    /\ tree' = [tree EXCEPT ![p] = @ \cup tree[q]]
    /\ Settle(p, Drained(p, Progress(p, merged[p] \cup merged[q])))
    /\ UNCHANGED <<published, deltas, facade, leaves, answered, restarts>>

-----------------------------------------------------------------------------
(* Repairs, admissions and restarts                                        *)

\* claim, on the key the member that asks has.
Allowed(m) == ~ LimitAnswers \/ m.member \notin answered[m.to]

\* handle_control_msg and on_repair_requested: the limiter is charged before
\* the message is looked at.
Answer(m) ==
    LET helps == /\ Allowed(m) /\ m.member \in tree[m.to]
                 /\ m.to \in Writer /\ docs[m.to][m.doc] # {}
    IN /\ m \in repairs
       /\ repairs' = repairs \ {m}
       /\ answered' = [answered EXCEPT ![m.to] =
                          IF LimitAnswers THEN @ \cup {m.member} ELSE @]
       /\ \/ /\ helps
             /\ PublishKeyed(m.to, m.doc, docs[m.to][m.doc],
                             IF m.target = "Document" THEN "Fresh" ELSE "Current",
                             "Full")
          \/ ~ helps /\ UNCHANGED <<published, deltas, outbox, keys>>
       /\ UNCHANGED <<docs, pending, evicted, index, replica, seen, restarts>>

\* The window of the limiter passes.
Elapse(p) ==
    /\ answered[p] # {}
    /\ answered' = [answered EXCEPT ![p] = {}]
    /\ UNCHANGED <<core, facade, keys, repairs, restarts>>

\* p admits q, who joins with the operations p holds.
Admit(p, q) ==
    /\ Joined(p) /\ ~ Joined(q) /\ q \notin tree[p]
    /\ tree' = [tree EXCEPT ![p] = @ \cup {q}, ![q] = tree[p] \cup {q}]
    /\ merged' = [merged EXCEPT ![q] = merged[p]]
    /\ UNCHANGED <<core, facade, leaves, repairs, answered, restarts>>

\* from_snapshot, after a stop at which no effect was outstanding.
Restart(p) ==
    /\ Joined(p) /\ restarts < MaxRestarts
    /\ outbox[p] = {}
    /\ restarts' = restarts + 1
    /\ docs' = [docs EXCEPT ![p] = [d \in Doc |-> Attached(docs[p][d])]]
    /\ pending' = [pending EXCEPT ![p] = <<>>]
    /\ evicted' = [evicted EXCEPT ![p] = FALSE]
    /\ deltas' = [deltas EXCEPT ![p] = [d \in Doc |-> 0]]
    /\ seen' = [seen EXCEPT ![p] = NoEntries]
    /\ answered' = [answered EXCEPT ![p] = {}]
    /\ UNCHANGED <<published, outbox, index, replica, keys, repairs>>

Next ==
    \/ \E p \in Peer, d \in Doc : Edit(p, d) \/ Resync(p, d)
    \/ \E p \in Peer : \E e \in outbox[p] : StoreChunk(p, e)
    \/ \E p \in Peer : Pass(p) \/ Elapse(p) \/ Restart(p)
    \/ \E p, q \in Peer : KeysArrive(p, q) \/ Admit(p, q)
    \/ \E m \in repairs : Answer(m)

Spec == Init /\ [][Next]_vars

\* What the transport and the tasks keep doing: effects are performed, entries
\* reach every copy of the index, operations reach every member, a request is
\* handled, and a member that holds parked chunks gets another pass (every
\* neighbour that appears makes its peers store a new manifest).  The delivery
\* conditions are stated as such: their actions are enabled until they hold.
Fairness ==
    /\ \A p \in Peer :
          /\ WF_vars(\E e \in outbox[p] : StoreChunk(p, e))
          /\ \A d \in Doc, a \in Peer :
                []<>(Joined(p) => replica[p][d][a] = index[d][a])
          /\ \A q \in Peer :
                []<>(Joined(p) => merged[q] \subseteq merged[p])
          /\ []<>(Unseen(p, replica[p]) = {}) \/ []<><<Pass(p)>>_vars
    /\ \A m \in Repair : []<>(m \notin repairs)
    /\ \A p \in Peer : \/ <>[](\A m \in repairs : m.to # p)
                       \/ []<><<\E m \in repairs : m.to = p /\ Allowed(m) /\ Answer(m)>>_vars

FairSpec == Spec /\ Fairness

-----------------------------------------------------------------------------
(* Properties                                                              *)

\* A chunk stays in the queue of drain_pending only for a reason.  As soon as
\* its key is there, by whatever arrives in whatever order, it has been imported
\* and what it lacks is history; a chunk nobody can make readable is not kept.
\* The newest of a document lacks history as it stands.  (An older one may have
\* become complete by a newer one of the same round, which is counted as applied
\* in the next drain.)
ParkedIsBlocked ==
    \A p \in Peer : \A i \in DOMAIN pending[p] :
        LET e == pending[p][i]
            newest == \A j \in DOMAIN pending[p] : pending[p][j].doc = e.doc => j <= i
        IN /\ e.chunk.epoch \in merged[p] =>
                 p \in leaves[e.chunk.epoch] /\ e.chunk.ops \subseteq docs[p][e.doc]
           /\ newest => Verdict(p, merged[p], docs[p][e.doc], e.chunk)
                            \in {"AwaitingKey", "AwaitingDeps"}

\* What seen_entries lets ingest_all skip needs no second look: it is applied,
\* it is still parked, or this member can never derive its key and has asked.
\* "Anything the core could not apply must be offered again next pass": it is,
\* as long as evicted_chunks is zero, as it "should be ... in any healthy run".
SeenIsAccountedFor ==
    \A p, a \in Peer, d \in Doc :
        LET c == seen[p][d][a]
        IN c # None /\ ~ evicted[p] =>
              \/ c.ops \subseteq Attached(docs[p][d])
              \/ \E i \in DOMAIN pending[p] : pending[p][i].doc = d /\ pending[p][i].chunk = c
              \/ c.epoch \in merged[p] /\ p \notin leaves[c.epoch]

\* Operations Loro holds without their history are in a chunk still parked,
\* unless one was evicted: a snapshot leaves both out, and the index offers the
\* chunk again.
UnattachedIsParked ==
    \A p \in Peer, d \in Doc :
        \A o \in docs[p][d] \ Attached(docs[p][d]) :
            ~ evicted[p] =>
                \E i \in DOMAIN pending[p] :
                    pending[p][i].doc = d /\ o \in pending[p][i].chunk.ops

Agree(p, q) == \A d \in Doc : Attached(docs[p][d]) = Attached(docs[q][d])

\* Once nobody edits any more, every member ends with the same documents, the
\* content written before it was admitted included: by the entries of the
\* index, by the drains and by the repairs they ask for.
Converges == <>[](\A p, q \in Joiners : Agree(p, q))
=============================================================================
