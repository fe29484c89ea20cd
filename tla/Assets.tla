------------------------------- MODULE Assets -------------------------------
(***************************************************************************)
(* Binary attachments.  A version of a file is a body of sealed segments   *)
(* in a key space of its own: an index entry for the wrapped content key,  *)
(* one for each segment, and last a record in the manifest that declares   *)
(* them.  An attachment takes many steps, each of which may fail, be cut   *)
(* short by a stop of the process, or meet a deletion, a demotion, or the  *)
(* adoption of a new namespace.  A local log of unfinished attachments,    *)
(* read and rewritten without a lock, lets a start withdraw what is left.  *)
(*                                                                         *)
(* External: iroh-docs (an entry belongs to an author, the newer state of  *)
(* it wins at every replica, an entry that arrives is downloaded unless    *)
(* the download policy names its prefix), Loro (a merge is a union, a      *)
(* deleted entry stays deleted), beekem (a key chunk is readable by the    *)
(* members at the time it was sealed).                                     *)
(***************************************************************************)
EXTENDS Integers, FiniteSets

CONSTANTS
  Members,       \* devices
  Founders,      \* those in the group from the start
  Tasks,         \* calls of attach_file and attach_version
  Owner,         \* the device a task runs on
  Entries,       \* files of the manifest, by UUID
  Contents,      \* content UUIDs, in their byte order
  SegmentBytes,  \* ASSET_SEGMENT_BYTES
  MaxSize,       \* the largest file attached
  Times,         \* readings of the wall clock
  Limits         \* bounds of a behaviour: the tasks that run, the sizes they attach, the
                 \* UUIDs drawn, what the clock reads, and which of Kinds happen (an adoption
                 \* once for each member, a repair once for each claim, the others once)

Kinds == {"stop", "fault", "adopt", "join", "demote", "delete", "revert", "repair"}
Namespaces == {1, 2}
NoContent == 0

ASSUME AssetsAssumption ==
  /\ Founders \subseteq Members
  /\ Owner \in [Tasks -> Members]
  /\ Contents \subseteq Nat \ {NoContent}
  /\ SegmentBytes \in Nat \ {0} /\ MaxSize \in Nat
  /\ Times \subseteq Int
  /\ Limits \subseteq [tasks : SUBSET Tasks, sizes : SUBSET (0..MaxSize),
                       contents : SUBSET Contents, times : SUBSET Times,
                       kinds : SUBSET Kinds]

VARIABLES
  manifest,      \* each member's manifest: files, tombstones, versions
  posted,        \* the manifest each member last stored in a namespace
  saved,         \* each member's snapshot: its manifest and its namespace
  index,         \* index[p][g][a][s]: the state p has seen of a's entry for slot s
  blobs,         \* the segments each member holds
  policy,        \* contents whose prefix each member's download policy excludes
  pending,       \* the pending-asset log on each member's disk
  ns,            \* the namespace each member writes to
  carry,         \* slots reindex_assets has yet to carry
  adopting,      \* members inside adopt_namespace
  writers,       \* members whose role may write
  group,         \* members of the group
  repairs,       \* AssetKey repair requests on their way
  claims,        \* repair_cooldown: what each member has asked for
  reseal,        \* the key chunk each member has resealed but not stored
  task,          \* the state of each attachment
  used,          \* content UUIDs drawn
  limit, done,   \* the bounds of this behaviour, the kinds that have happened
  asked,         \* history: segments each member wrote or exported
  cut,           \* history: attachments met by an adoption or a stop (CutByStop)
  logLost        \* history: members whose log has lost an update

manifestVars == <<manifest, posted, saved>>
indexVars == <<index, blobs, policy, asked>>
spaceVars == <<ns, carry, adopting>>
groupVars == <<writers, group, repairs, claims, reseal>>
logVars == <<pending, logLost>>
limitVars == <<limit, done>>
vars == <<manifestVars, indexVars, spaceVars, groupVars, logVars, limitVars, task,
          used, cut>>

-----------------------------------------------------------------------------
(* AssetMeta: segments_for and payload_len.                                *)

\* Mutant: what is left over after the full segments gets none.
SegmentsForFull(size, per) == IF per = 0 \/ size < per THEN 1 ELSE size \div per

SegmentsFor(size, per) ==
  IF per = 0 THEN 1
  ELSE IF size % per = 0 THEN IF size \div per = 0 THEN 1 ELSE size \div per
  ELSE size \div per + 1

PayloadLen(size, per, i) ==
  LET remaining == IF i * per > size THEN 0 ELSE size - i * per
  IN  IF remaining < per THEN remaining ELSE per

MaxSegments == SegmentsFor(MaxSize, SegmentBytes)

\* Slot 0 of a content is its key chunk, slot i its i-th segment.
Slots == Contents \X (0..MaxSegments)
SlotsOf(c) == {s \in Slots : s[1] = c}
IsSegment(s) == s[2] > 0

-----------------------------------------------------------------------------
(* The manifest.                                                           *)

Version == [entry : Entries, content : Contents, size : 0..MaxSize, seq : Nat,
            at : Times, author : Members]
EmptyManifest == [files |-> {}, gone |-> {}, versions |-> {}]
Merge(m, n) == [files |-> m.files \cup n.files, gone |-> m.gone \cup n.gone,
                versions |-> m.versions \cup n.versions]

Live(m, e) == e \in m.files \ m.gone
AssetVersions(m, e) == IF Live(m, e) THEN {v \in m.versions : v.entry = e} ELSE {}
AllVersions(m) == UNION {AssetVersions(m, e) : e \in Entries}
SlotsOfVersion(v) ==
  {v.content} \X (0..SegmentsFor(v.size, SegmentBytes))

AssetIndexKeysNoKey(m) == {s \in UNION {SlotsOfVersion(v) : v \in AllVersions(m)} : IsSegment(s)}

AssetIndexKeys(m) == UNION {SlotsOfVersion(v) : v \in AllVersions(m)}
AssetPrefixes(m) == {v.content : v \in AllVersions(m)}

PrecedesByTime(v, w) ==
  v.at < w.at \/ (v.at = w.at /\ v.content < w.content)

\* AssetVersion::precedence
Precedes(v, w) ==
  \/ v.seq < w.seq
  \/ v.seq = w.seq /\ v.at < w.at
  \/ v.seq = w.seq /\ v.at = w.at /\ v.content < w.content

CurrentVersion(m, e) ==
  CHOOSE v \in AssetVersions(m, e) : \A w \in AssetVersions(m, e) : ~Precedes(v, w)

NextSeq(m, e) ==
  IF AssetVersions(m, e) = {} THEN 0
  ELSE 1 + (CHOOSE n \in {v.seq : v \in AssetVersions(m, e)} :
              \A v \in AssetVersions(m, e) : v.seq <= n)

-----------------------------------------------------------------------------
(* Index entries.  An odd state is an entry that is set, and readable says *)
(* who can unwrap it if it is a key chunk.                                 *)

Blank == [n |-> 0, readable |-> {}]
IsSet(entry) == entry.n % 2 = 1
Written(entry, for) == [n |-> IF IsSet(entry) THEN entry.n + 2 ELSE entry.n + 1,
                        readable |-> for]
Deleted(entry) == IF IsSet(entry) THEN [n |-> entry.n + 1, readable |-> {}] ELSE entry

Indexed(p, g, s) == \E a \in Members : IsSet(index[p][g][a][s])
KeyReadable(p, c) ==
  \E a \in Members : LET entry == index[p][ns[p]][a][<<c, 0>>]
                     IN  IsSet(entry) /\ p \in entry.readable

\* Set one slot under p's own author, in the namespace it writes to.
Store(p, s, for) ==
  index' = [index EXCEPT ![p][ns[p]][p][s] = Written(@, for)]

\* index with p's own entries for the contents cs withdrawn from namespace g.
Withdrawn(p, g, cs) ==
  [index EXCEPT ![p][g][p] =
     [s \in Slots |-> IF s[1] \in cs THEN Deleted(@[s]) ELSE @[s]]]

-----------------------------------------------------------------------------
Idle == [at |-> "idle", file |-> FALSE, ok |-> TRUE, entry |-> CHOOSE e \in Entries : TRUE,
         content |-> NoContent, size |-> 0, seg |-> 0, log |-> {}]
Steps == {"idle", "seal", "note", "noted", "write", "declared", "discard", "clear",
          "clearing", "withdraw"}
Writing == {"note", "noted", "write"}
Undeclared == Writing \cup {"discard"}
Clearing == {"declared", "clear", "clearing"}
NoReseal == [content |-> NoContent, readable |-> {}]

\* The attachments a stop of p cuts where the log cannot help: declared and not
\* cleared, not carried yet into the namespace of the snapshot, or logged
\* against a namespace the snapshot does not name.
CutByStop(p) ==
  {task[t].content : t \in {t \in Tasks : Owner[t] = p /\ task[t].at \in Clearing /\ task[t].ok}}
    \cup {s[1] : s \in carry[p]}
    \cup (IF ns[p] = saved[p].ns THEN {} ELSE pending[p])

Init ==
  /\ manifest = [p \in Members |-> EmptyManifest]
  /\ posted = [p \in Members |-> [g \in Namespaces |-> EmptyManifest]]
  /\ saved = [p \in Members |-> [manifest |-> EmptyManifest, ns |-> 1]]
  /\ index = [p \in Members |-> [g \in Namespaces |->
               [a \in Members |-> [s \in Slots |-> Blank]]]]
  /\ blobs = [p \in Members |-> {}] /\ asked = [p \in Members |-> {}]
  /\ policy = [p \in Members |-> {}]
  /\ pending = [p \in Members |-> {}] /\ logLost = {}
  /\ ns = [p \in Members |-> 1]
  /\ carry = [p \in Members |-> {}] /\ adopting = {}
  /\ writers = Members /\ group = Founders
  /\ repairs = {} /\ claims = {} /\ reseal = [p \in Members |-> NoReseal]
  /\ task = [t \in Tasks |-> Idle] /\ used = {} /\ cut = {}
  /\ limit \in Limits /\ done = {}

Once(kind) ==
  /\ kind \in limit.kinds \ done
  /\ done' = done \cup {kind}
  /\ UNCHANGED limit

\* The manifest of p becomes m and is stored in its namespace.
Publish(p, m) ==
  /\ manifest' = [manifest EXCEPT ![p] = m]
  /\ posted' = [posted EXCEPT ![p][ns[p]] = m]

\* persist, with the manifest that Publish has just made current.
PersistPublished(p) ==
  saved' = [saved EXCEPT ![p] = [manifest |-> manifest'[p], ns |-> ns[p]]]

Goto(t, step) == task' = [task EXCEPT ![t].at = step]

-----------------------------------------------------------------------------
(* attach_file and attach_version.                                         *)

AttachFile(t, e, size) ==
  LET p == Owner[t] IN
  /\ task[t].at = "idle" /\ p \in writers \cap group
  /\ used # limit.contents /\ \A q \in Members : e \notin manifest[q].files
  /\ Publish(p, [manifest[p] EXCEPT !.files = @ \cup {e}])
  /\ PersistPublished(p)
  /\ task' = [task EXCEPT ![t] = [Idle EXCEPT !.at = "seal", !.file = TRUE, !.entry = e,
                                              !.size = size]]
  /\ UNCHANGED <<indexVars, spaceVars, groupVars, logVars, limitVars, used, cut>>

AttachVersion(t, e, size) ==
  LET p == Owner[t] IN
  /\ task[t].at = "idle" /\ p \in group
  /\ used # limit.contents /\ e \in manifest[p].files
  /\ task' = [task EXCEPT ![t] = [Idle EXCEPT !.at = "seal", !.entry = e, !.size = size]]
  /\ UNCHANGED <<manifestVars, indexVars, spaceVars, groupVars, logVars, limitVars, used,
                 cut>>

\* What an error makes of a call: attach_file withdraws the entry it created.
Failed(t) == IF task[t].file THEN "withdraw" ELSE "idle"

\* seal_asset_key, and its StoreChunk performed.
Seal(t, c) ==
  LET p == Owner[t] IN
  /\ task[t].at = "seal" /\ p \in writers
  /\ c \in limit.contents \ used /\ \A d \in limit.contents \ used : c <= d
  /\ used' = used \cup {c}
  /\ Store(p, <<c, 0>>, group)
  /\ task' = [task EXCEPT ![t].at = "note", ![t].content = c]
  /\ UNCHANGED <<manifestVars, blobs, policy, asked, spaceVars, groupVars, logVars,
                 limitVars, cut>>

SealRefused(t) ==
  /\ task[t].at = "seal" /\ (Owner[t] \notin writers \/ used = limit.contents)
  /\ Goto(t, Failed(t))
  /\ UNCHANGED <<manifestVars, indexVars, spaceVars, groupVars, logVars, limitVars, used,
                 cut>>

\* note_pending_asset loads the log, adds the content, and stores it whole.
NoteLoad(t) ==
  /\ task[t].at = "note"
  /\ task' = [task EXCEPT ![t].at = "noted", ![t].log = pending[Owner[t]]]
  /\ UNCHANGED <<manifestVars, indexVars, spaceVars, groupVars, logVars, limitVars, used,
                 cut>>

StoreLog(t, log) ==
  LET p == Owner[t] IN
  /\ pending' = [pending EXCEPT ![p] = log]
  /\ logLost' = IF pending[p] = task[t].log THEN logLost ELSE logLost \cup {p}

LogFails(t) ==
  /\ Once("fault")
  /\ logLost' = logLost \cup {Owner[t]}
  /\ UNCHANGED pending

NoteStore(t) ==
  /\ task[t].at = "noted"
  /\ \/ StoreLog(t, task[t].log \cup {task[t].content}) /\ UNCHANGED limitVars
     \/ LogFails(t)
  /\ task' = [task EXCEPT ![t].at = "write", ![t].log = {}]
  /\ UNCHANGED <<manifestVars, indexVars, spaceVars, groupVars, used, cut>>

StoreSegmentPast(t) ==
  LET p == Owner[t]
      s == <<task[t].content, task[t].seg + 1>> IN
  /\ task[t].at = "write" /\ task[t].seg <= SegmentsFor(task[t].size, SegmentBytes)
  /\ Store(p, s, {})
  /\ blobs' = [blobs EXCEPT ![p] = @ \cup {s}]
  /\ asked' = [asked EXCEPT ![p] = @ \cup {s}]
  /\ task' = [task EXCEPT ![t].seg = @ + 1]
  /\ UNCHANGED <<manifestVars, policy, spaceVars, groupVars, logVars, limitVars, used, cut>>

\* One turn of write_segments.
StoreSegment(t) ==
  LET p == Owner[t]
      s == <<task[t].content, task[t].seg + 1>> IN
  /\ task[t].at = "write" /\ task[t].seg < SegmentsFor(task[t].size, SegmentBytes)
  /\ Store(p, s, {})
  /\ blobs' = [blobs EXCEPT ![p] = @ \cup {s}]
  /\ asked' = [asked EXCEPT ![p] = @ \cup {s}]
  /\ task' = [task EXCEPT ![t].seg = @ + 1]
  /\ UNCHANGED <<manifestVars, policy, spaceVars, groupVars, logVars, limitVars, used, cut>>

\* The source cannot be read, or the segment cannot be stored.
SegmentFails(t) ==
  /\ task[t].at = "write" /\ task[t].seg < SegmentsFor(task[t].size, SegmentBytes)
  /\ Once("fault")
  /\ task' = [task EXCEPT ![t].at = "discard", ![t].ok = FALSE]
  /\ UNCHANGED <<manifestVars, indexVars, spaceVars, groupVars, logVars, used, cut>>

Complete(t) ==
  task[t].at = "write" /\ task[t].seg = SegmentsFor(task[t].size, SegmentBytes)

MayDeclare(t) ==
  Owner[t] \in writers /\ Live(manifest[Owner[t]], task[t].entry)

\* WorkspaceState::add_asset_version and its StoreManifest: p records content c
\* as the newest version of e.
AddAssetVersion(p, e, c, size) ==
  \E now \in limit.times :
    Publish(p, [manifest[p] EXCEPT !.versions = @ \cup
      {[entry |-> e, content |-> c, size |-> size, seq |-> NextSeq(manifest[p], e),
        at |-> now, author |-> p]}])

Declare(t) ==
  /\ Complete(t) /\ MayDeclare(t)
  /\ AddAssetVersion(Owner[t], task[t].entry, task[t].content, task[t].size)
  /\ Goto(t, "declared")
  /\ UNCHANGED <<saved, indexVars, spaceVars, groupVars, logVars, limitVars, used, cut>>

\* The error leaves attach_version at once: nothing written is withdrawn.
DeclareRefused(t) ==
  /\ Complete(t) /\ ~MayDeclare(t)
  /\ Goto(t, Failed(t))
  /\ UNCHANGED <<manifestVars, indexVars, spaceVars, groupVars, logVars, limitVars, used,
                 cut>>

RefreshDownloadPolicy(p) ==
  policy' = [policy EXCEPT ![p] = AssetPrefixes(manifest[p])]

Persist(t) ==
  LET p == Owner[t] IN
  /\ task[t].at = "declared"
  /\ saved' = [saved EXCEPT ![p] = [manifest |-> manifest[p], ns |-> ns[p]]]
  /\ RefreshDownloadPolicy(p)
  /\ Goto(t, "clear")
  /\ UNCHANGED <<manifest, posted, index, blobs, asked, spaceVars, groupVars, logVars,
                 limitVars, used, cut>>

DiscardKey(t) ==
  /\ task[t].at = "discard"
  /\ index' = [index EXCEPT ![Owner[t]][ns[Owner[t]]][Owner[t]][<<task[t].content, 0>>] = Deleted(@)]
  /\ Goto(t, "clear")
  /\ UNCHANGED <<manifestVars, blobs, policy, asked, spaceVars, groupVars, logVars,
                 limitVars, used, cut>>

\* discard_partial_asset
Discard(t) ==
  /\ task[t].at = "discard"
  /\ index' = Withdrawn(Owner[t], ns[Owner[t]], {task[t].content})
  /\ Goto(t, "clear")
  /\ UNCHANGED <<manifestVars, blobs, policy, asked, spaceVars, groupVars, logVars,
                 limitVars, used, cut>>

ClearLoad(t) ==
  /\ task[t].at = "clear"
  /\ task' = [task EXCEPT ![t].at = "clearing", ![t].log = pending[Owner[t]]]
  /\ UNCHANGED <<manifestVars, indexVars, spaceVars, groupVars, logVars, limitVars, used,
                 cut>>

ClearStore(t) ==
  /\ task[t].at = "clearing"
  /\ \/ StoreLog(t, task[t].log \ {task[t].content}) /\ UNCHANGED limitVars
     \/ LogFails(t)
  /\ task' = [task EXCEPT ![t] = IF task[t].ok \/ ~task[t].file THEN Idle
                                 ELSE [@ EXCEPT !.at = "withdraw", !.log = {}]]
  /\ UNCHANGED <<manifestVars, indexVars, spaceVars, groupVars, used, cut>>

-----------------------------------------------------------------------------
(* delete_file, revert_asset, export and key repair.                       *)

\* on_delete_file and its effects: every version p knows of, in every key space.
DeleteFile(p, e) ==
  /\ p \in writers /\ Live(manifest[p], e)
  /\ Publish(p, [manifest[p] EXCEPT !.gone = @ \cup {e}])
  /\ PersistPublished(p)
  /\ index' = Withdrawn(p, ns[p], {v.content : v \in AssetVersions(manifest[p], e)})
  /\ UNCHANGED <<blobs, policy, asked>>

Delete(p, e) ==
  /\ p \in group
  /\ Once("delete")
  /\ DeleteFile(p, e)
  /\ UNCHANGED <<spaceVars, groupVars, logVars, task, used, cut>>

\* The entry of a failed attach_file; a refusal is logged and ignored.
Withdraw(t) ==
  LET p == Owner[t] IN
  /\ task[t].at = "withdraw"
  /\ \/ DeleteFile(p, task[t].entry)
     \/ /\ p \notin writers \/ ~Live(manifest[p], task[t].entry)
        /\ UNCHANGED <<manifestVars, indexVars>>
  /\ task' = [task EXCEPT ![t] = Idle]
  /\ UNCHANGED <<spaceVars, groupVars, logVars, limitVars, used, cut>>

RevertAsset(p, e, v) ==
  /\ p \in writers \cap group
  /\ v \in AssetVersions(manifest[p], e)
  /\ Once("revert")
  /\ AddAssetVersion(p, e, v.content, v.size)
  /\ PersistPublished(p)
  /\ policy' = [policy EXCEPT ![p] = AssetPrefixes(manifest'[p])]
  /\ UNCHANGED <<index, blobs, asked, spaceVars, groupVars, logVars, task, used, cut>>

\* One turn of export_asset_version, fetch_indexed_bytes included.
Export(p, v, i) ==
  LET s == <<v.content, i>> IN
  /\ v \in AllVersions(manifest[p]) /\ i <= SegmentsFor(v.size, SegmentBytes)
  /\ KeyReadable(p, v.content)
  /\ \A j \in 1..(i - 1) : <<v.content, j>> \in blobs[p]
  /\ Indexed(p, ns[p], s)
  /\ \E q \in group : s \in blobs[q]
  /\ s \notin asked[p]
  /\ blobs' = [blobs EXCEPT ![p] = @ \cup {s}]
  /\ asked' = [asked EXCEPT ![p] = @ \cup {s}]
  /\ UNCHANGED <<manifestVars, index, policy, spaceVars, groupVars, logVars, limitVars,
                 task, used, cut>>

\* open_asset_key got a chunk this member can never unwrap; request_repair asks
\* once for each epoch inside its window.
RequestRepair(p, a, c) ==
  LET entry == index[p][ns[p]][a][<<c, 0>>]
      claim == [by |-> p, author |-> a, content |-> c, n |-> entry.n] IN
  /\ c \in AssetPrefixes(manifest[p])
  /\ IsSet(entry) /\ p \notin entry.readable
  /\ claim \notin claims /\ "repair" \in limit.kinds
  /\ claims' = claims \cup {claim}
  /\ repairs' = repairs \cup {[to |-> q, from |-> p, content |-> c] : q \in Members \ {p}}
  /\ UNCHANGED <<manifestVars, indexVars, spaceVars, writers, group, reseal, logVars,
                 limitVars, task, used, cut>>

\* answer_asset_key_repair up to the effects of reseal_asset_key, which seals
\* under a fresh epoch.
AnswerRepair(r) ==
  LET q == r.to IN
  /\ r \in repairs /\ q \in group /\ reseal[q].content = NoContent
  /\ repairs' = repairs \ {r}
  /\ reseal' = IF r.from \in group /\ q \in writers /\ KeyReadable(q, r.content)
               THEN [reseal EXCEPT ![q] = [content |-> r.content, readable |-> group]]
               ELSE reseal
  /\ UNCHANGED <<manifestVars, indexVars, spaceVars, writers, group, claims, logVars,
                 limitVars, task, used, cut>>

\* The StoreChunk of a reseal.
StoreKey(q) ==
  /\ reseal[q].content # NoContent
  /\ Store(q, <<reseal[q].content, 0>>, reseal[q].readable)
  /\ reseal' = [reseal EXCEPT ![q] = NoReseal]
  /\ UNCHANGED <<manifestVars, blobs, policy, asked, spaceVars, writers, group, repairs,
                 claims, logVars, limitVars, task, used, cut>>

-----------------------------------------------------------------------------
(* The manifest and the index reach other members; a member adopts the     *)
(* namespace the group has rotated to.                                     *)

\* on_manifest_arrived and its ManifestUpdated, inside an ingest that persists.
ManifestArrived(p, q) ==
  LET m == Merge(manifest[p], posted[q][ns[p]]) IN
  /\ p \in group /\ p # q /\ m # manifest[p]
  /\ manifest' = [manifest EXCEPT ![p] = m]
  /\ policy' = [policy EXCEPT ![p] = AssetPrefixes(m)]
  /\ saved' = [saved EXCEPT ![p] = [manifest |-> m, ns |-> ns[p]]]
  /\ UNCHANGED <<posted, index, blobs, asked, spaceVars, groupVars, logVars, limitVars,
                 task, used, cut>>

\* One entry reconciles from q to p; iroh-docs downloads what the policy admits.
Reconcile(p, q, a, s) ==
  LET mine == index[p][ns[p]][a][s]
      theirs == index[q][ns[p]][a][s] IN
  /\ p \in group /\ p # q /\ ns[p] = ns[q] /\ mine.n < theirs.n
  /\ index' = [index EXCEPT ![p][ns[p]][a][s] = theirs]
  /\ blobs' = IF IsSegment(s) /\ IsSet(theirs) /\ s \in blobs[q] /\ s[1] \notin policy[p]
              THEN [blobs EXCEPT ![p] = @ \cup {s}] ELSE blobs
  /\ UNCHANGED <<manifestVars, policy, asked, spaceVars, groupVars, logVars, limitVars,
                 task, used, cut>>

\* adopt_namespace up to the keys reindex_assets reads under the state lock.
AdoptNamespace(p) ==
  /\ p \in group /\ ns[p] = 1 /\ "adopt" \in limit.kinds
  /\ ns' = [ns EXCEPT ![p] = 2]
  /\ adopting' = adopting \cup {p}
  /\ carry' = [carry EXCEPT ![p] = AssetIndexKeys(manifest[p])]
  /\ cut' = cut \cup {task[t].content : t \in {t \in Tasks : /\ Owner[t] = p
                                                            /\ task[t].at \in Undeclared}}
  /\ UNCHANGED <<manifestVars, indexVars, groupVars, logVars, limitVars, task, used>>

\* One turn of reindex_assets: only what this member holds is carried.
Carry(p, s) ==
  /\ s \in carry[p]
  /\ carry' = [carry EXCEPT ![p] = @ \ {s}]
  /\ \/ \E a \in Members :
          /\ IsSet(index[p][1][a][s]) /\ (IsSegment(s) => s \in blobs[p])
          /\ Store(p, s, index[p][1][a][s].readable)
     \/ /\ ~Indexed(p, 1, s) \/ (IsSegment(s) /\ s \notin blobs[p])
        /\ UNCHANGED index
  /\ UNCHANGED <<manifestVars, blobs, policy, asked, ns, adopting, groupVars, logVars,
                 limitVars, task, used, cut>>

\* The rest of adopt_namespace: leave, refresh_download_policy and republish.
FinishAdopting(p) ==
  /\ p \in adopting /\ carry[p] = {}
  /\ adopting' = adopting \ {p}
  /\ RefreshDownloadPolicy(p)
  /\ posted' = [posted EXCEPT ![p][ns[p]] = manifest[p]]
  /\ UNCHANGED <<manifest, saved, index, blobs, asked, ns, carry, groupVars, logVars,
                 limitVars, task, used, cut>>

\* persist at the end of any ingest.
Snapshot(p) ==
  /\ saved[p] # [manifest |-> manifest[p], ns |-> ns[p]]
  /\ saved' = [saved EXCEPT ![p] = [manifest |-> manifest[p], ns |-> ns[p]]]
  /\ UNCHANGED <<manifest, posted, indexVars, spaceVars, groupVars, logVars, limitVars,
                 task, used, cut>>

Join(p) ==
  /\ p \notin group /\ Once("join")
  /\ group' = group \cup {p}
  /\ UNCHANGED <<manifestVars, indexVars, spaceVars, writers, repairs, claims, reseal,
                 logVars, task, used, cut>>

Demote(p) ==
  /\ p \in writers /\ Once("demote")
  /\ writers' = writers \ {p}
  /\ UNCHANGED <<manifestVars, indexVars, spaceVars, group, repairs, claims, reseal,
                 logVars, task, used, cut>>

\* The process of p stops and starts again from its snapshot: assemble announces
\* (which stores the manifest), sets the policy and runs sweep_orphaned_assets.
Restart(p) ==
  LET m == saved[p].manifest
      g == saved[p].ns
      mine == {t \in Tasks : Owner[t] = p} IN
  /\ p \in group /\ Once("stop")
  /\ manifest' = [manifest EXCEPT ![p] = m]
  /\ posted' = [posted EXCEPT ![p][g] = m]
  /\ ns' = [ns EXCEPT ![p] = g]
  /\ policy' = [policy EXCEPT ![p] = AssetPrefixes(m)]
  /\ index' = Withdrawn(p, g, pending[p])
  /\ pending' = [pending EXCEPT ![p] = {}]
  /\ carry' = [carry EXCEPT ![p] = {}] /\ adopting' = adopting \ {p}
  /\ reseal' = [reseal EXCEPT ![p] = NoReseal]
  /\ task' = [t \in Tasks |-> IF t \in mine THEN Idle ELSE task[t]]
  /\ cut' = cut \cup CutByStop(p)
  /\ UNCHANGED <<saved, blobs, asked, writers, group, repairs, claims, logLost, used>>

Next ==
  \/ \E t \in limit.tasks, e \in Entries, size \in limit.sizes :
       AttachFile(t, e, size) \/ AttachVersion(t, e, size)
  \/ \E t \in Tasks :
       \/ \E c \in Contents : Seal(t, c)
       \/ SealRefused(t) \/ NoteLoad(t) \/ NoteStore(t) \/ StoreSegment(t)
       \/ SegmentFails(t) \/ Declare(t) \/ DeclareRefused(t) \/ Persist(t) \/ Discard(t)
       \/ ClearLoad(t) \/ ClearStore(t) \/ Withdraw(t)
  \/ \E p \in Members :
       \/ \E e \in Entries : Delete(p, e)
       \/ \E e \in Entries, v \in AllVersions(manifest[p]) : RevertAsset(p, e, v)
       \/ \E v \in AllVersions(manifest[p]), i \in 1..MaxSegments : Export(p, v, i)
       \/ \E a \in Members, c \in Contents : RequestRepair(p, a, c)
       \/ \E q \in Members : ManifestArrived(p, q)
       \/ \E q \in Members, a \in Members, s \in Slots : Reconcile(p, q, a, s)
       \/ \E s \in Slots : Carry(p, s)
       \/ StoreKey(p) \/ AdoptNamespace(p) \/ FinishAdopting(p) \/ Snapshot(p)
       \/ Join(p) \/ Demote(p) \/ Restart(p)
  \/ \E r \in repairs : AnswerRepair(r)

Spec == Init /\ [][Next]_vars

-----------------------------------------------------------------------------
\* Every variable keeps its shape.
TypeOK ==
  /\ \A p \in Members :
       /\ manifest[p].files \subseteq Entries /\ manifest[p].gone \subseteq manifest[p].files
       /\ manifest[p].versions \subseteq Version
       /\ saved[p].ns \in Namespaces /\ ns[p] \in Namespaces
       /\ blobs[p] \subseteq Slots /\ asked[p] \subseteq blobs[p]
       /\ policy[p] \subseteq Contents /\ pending[p] \subseteq used
       /\ carry[p] \subseteq Slots /\ (carry[p] # {} => p \in adopting)
  /\ \A t \in Tasks : /\ task[t].at \in Steps /\ task[t].log \subseteq used
                      /\ task[t].seg \in 0..SegmentsFor(task[t].size, SegmentBytes)
  /\ used \subseteq limit.contents /\ done \subseteq limit.kinds

\* The version that introduced its content, not a revert to it.
Introduces(v, m) == \A w \in m.versions : w.content = v.content => v.seq <= w.seq

\* Member p has set every slot of version v in the namespace it writes to.
Serves(p, v) ==
  \A s \in SlotsOfVersion(v) :
    IsSet(index[p][ns[p]][p][s]) /\ (IsSegment(s) => s \in blobs[p])

\* "Manifest last is what makes the operation atomic to a reader": the member
\* that attached a version serves its key and every segment of it, in the
\* namespace it writes to, for as long as the manifest declares it; across
\* adoptions, restarts and failures, except where an adoption or a stop met the
\* attachment between two of its steps (cut) or the log lost an update.
DeclaredIsServed ==
  \A p \in Members \ (adopting \cup logLost) : \A v \in AllVersions(manifest[p]) :
    (v.author = p /\ Introduces(v, manifest[p]) /\ v.content \notin cut) => Serves(p, v)

\* What a failed or interrupted attachment leaves in the index is named by the
\* pending log, so that the next start withdraws it: a segment of p's own author
\* is declared by some manifest, being written, or logged.
OrphansAreLogged ==
  \A p \in Members \ logLost : \A s \in Slots :
    (IsSegment(s) /\ IsSet(index[p][ns[p]][p][s])) =>
      \/ s[1] \in pending[p] \cup cut
      \/ \E q \in Members : \E v \in manifest[q].versions : v.content = s[1]
      \/ \E t \in Tasks : Owner[t] = p /\ task[t].content = s[1] /\ task[t].at \in Undeclared

\* The version a member attaches or reverts to is at once that file's current
\* version at that member, whatever the clocks of the other authors read.  (A
\* version of its own that a stop made it forget may also come back to it in the
\* manifest of another member.)
AttachSupersedes ==
  [][\A p \in Members : \A v \in manifest'[p].versions \ manifest[p].versions :
       v.author = p => \/ CurrentVersion(manifest'[p], v.entry) = v
                       \/ \E q \in Members : ManifestArrived(p, q)]_vars

\* Byte b of a file is read back from segment i (counted from 0).
Holds(size, per, i, b) == i * per <= b /\ b < i * per + PayloadLen(size, per, i)

\* The segments tile the file: every byte is in one and only one of them, and
\* their payloads end where the file ends.
SegmentsTile(size, per) ==
  LET segments == 0..(SegmentsFor(size, per) - 1) IN
  /\ \A b \in 0..(size - 1) : \E i \in segments :
       Holds(size, per, i, b) /\ \A j \in segments : Holds(size, per, j, b) => j = i
  /\ \A i \in segments : PayloadLen(size, per, i) = 0 \/ i * per + PayloadLen(size, per, i) <= size
  /\ PayloadLen(size, per, SegmentsFor(size, per)) = 0

\* An exported version is the attached file byte for byte: whether it is empty,
\* fills its segments exactly or leaves a part of the last one, the segments
\* that write_segments counts (segments_for) and the bytes an export keeps of
\* each (payload_len) agree with the declared size.
ExportIsWhole ==
  \A p \in Members : \A v \in AllVersions(manifest[p]) : SegmentsTile(v.size, SegmentBytes)

\* "A crash halfway leaves segments nobody references rather than a truncated
\* file somebody can open": DeclaredIsServed without its exceptions.
DeclaredIsWhole ==
  \A p \in Members \ adopting : \A v \in AllVersions(manifest[p]) :
    (v.author = p /\ Introduces(v, manifest[p])) => Serves(p, v)

\* "A peer that attaches an asset must not have every other member start
\* fetching it the moment the entries reconcile": a member holds the segments
\* it wrote or exported.
NoEagerFetch == \A p \in Members : blobs[p] \subseteq asked[p]

\* "Each member withdraws their own entry as they process the tombstone": a
\* member whose manifest says a file is deleted, and that is attaching nothing,
\* has no entry of its own set for a version of it.
TombstoneWithdraws ==
  \A p \in Members : \A v \in manifest[p].versions :
    (v.entry \in manifest[p].gone /\ \A t \in Tasks : Owner[t] = p => task[t].at = "idle") =>
      \A s \in SlotsOf(v.content) : ~IsSet(index[p][ns[p]][p][s])
=============================================================================
