---------------------------- MODULE AssetsProofs ----------------------------
(***************************************************************************)
(* The proofs of Assets, first part: the arithmetic of segments, for files *)
(* and segments of any length; the effect of every action; and the parts   *)
(* of the inductive invariant on types, history, tasks and the orphan log, *)
(* for any number of members, attachments and files, and any order of      *)
(* their steps.  AssetsServedProofs adds what is served and concludes.     *)
(***************************************************************************)
EXTENDS Assets, TLAPS

(* Most leaves are first-order: Zenon is tried first, SMT for the rest. *)
USE ZenonT(4), SMTT(15)

LEMMA Division ==
    ASSUME NEW n \in Nat, NEW k \in Nat \ {0}
    PROVE  /\ n \div k \in Nat /\ n % k \in 0..(k - 1)
           /\ n = (n \div k) * k + (n % k)
<1>1. n % k \in 0..(k - 1)
  BY SMTT(30)
<1>2. n \div k \in Int
  BY SMTT(30)
<1>3. n = k * (n \div k) + (n % k)
  BY SMTT(30)
<1>4. n \div k >= 0
  BY SMTT(30)
<1> QED BY <1>1, <1>2, <1>3, <1>4

(* Multiples of k are at least k apart. *)
LEMMA Apart ==
    ASSUME NEW i \in Nat, NEW j \in Nat, NEW k \in Nat \ {0}, i < j
    PROVE  i * k \in Nat /\ j * k \in Nat /\ i * k + k <= j * k
<1>1. PICK d \in Nat : j = i + 1 + d
  <2>1. j - i - 1 \in Nat /\ j = i + 1 + (j - i - 1)
    OBVIOUS
  <2> QED BY <2>1
<1>2. j * k = i * k + k + d * k
  BY <1>1
<1>3. i * k \in Nat /\ d * k \in Nat /\ j * k \in Nat
  BY <1>1
<1> QED BY <1>2, <1>3

(* segments_for: enough segments for the file. *)
LEMMA Count ==
    ASSUME NEW size \in Nat, NEW per \in Nat \ {0}
    PROVE  /\ SegmentsFor(size, per) \in Nat \ {0}
           /\ SegmentsFor(size, per) * per \in Nat /\ size <= SegmentsFor(size, per) * per
<1> DEFINE q == size \div per
           r == size % per
<1>1. q \in Nat /\ r \in 0..(per - 1) /\ size = q * per + r
  BY Division
<1>2. SegmentsFor(size, per) = IF r = 0 THEN IF q = 0 THEN 1 ELSE q ELSE q + 1
  BY DEF SegmentsFor
<1> HIDE DEF q, r
<1>3. (q + 1) * per = q * per + per /\ q * per \in Nat
  BY <1>1
<1>4. CASE r = 0 /\ q = 0
  BY <1>1, <1>2, <1>4
<1>5. CASE r = 0 /\ q # 0
  BY <1>1, <1>2, <1>3, <1>5
<1>6. CASE r # 0
  <2>1. SegmentsFor(size, per) = q + 1
    BY <1>2, <1>6
  <2>2. size <= (q + 1) * per /\ (q + 1) * per \in Nat /\ q + 1 \in Nat \ {0}
    BY <1>1, <1>3
  <2> QED BY <2>1, <2>2
<1> QED BY <1>4, <1>5, <1>6

(* payload_len, by the place the segment starts at. *)
LEMMA Payload ==
    ASSUME NEW size \in Nat, NEW per \in Nat \ {0}, NEW i \in Nat
    PROVE  /\ i * per \in Nat
           /\ i * per >= size => PayloadLen(size, per, i) = 0
           /\ i * per < size => /\ PayloadLen(size, per, i) <= per
                                /\ i * per + PayloadLen(size, per, i) <= size
                                /\ \A b \in Nat : b < size /\ b < i * per + per =>
                                       b < i * per + PayloadLen(size, per, i)
           /\ PayloadLen(size, per, i) \in Nat
<1> DEFINE s == i * per
           remaining == IF s > size THEN 0 ELSE size - s
<1>1. s \in Nat
  OBVIOUS
<1>2. PayloadLen(size, per, i) = IF remaining < per THEN remaining ELSE per
  BY DEF PayloadLen
<1> HIDE DEF s
<1>3. /\ s >= size => PayloadLen(size, per, i) = 0
      /\ s < size => /\ PayloadLen(size, per, i) <= per
                     /\ s + PayloadLen(size, per, i) <= size
                     /\ \A b \in Nat : b < size /\ b < s + per => b < s + PayloadLen(size, per, i)
      /\ PayloadLen(size, per, i) \in Nat
  BY <1>1, <1>2
<1> QED BY <1>1, <1>3 DEF s

LEMMA Tiles ==
    ASSUME NEW size \in Nat, NEW per \in Nat \ {0}
    PROVE  SegmentsTile(size, per)
<1> DEFINE n == SegmentsFor(size, per)
           segments == 0..(n - 1)
<1>1. n \in Nat \ {0} /\ n * per \in Nat /\ size <= n * per
  BY Count
<1>2. \A i \in segments : i \in Nat
  BY <1>1
<1>3. ASSUME NEW b \in 0..(size - 1)
      PROVE  \E i \in segments : Holds(size, per, i, b) /\ \A j \in segments : Holds(size, per, j, b) => j = i
  <2> DEFINE i == b \div per
  <2>1. b \in Nat /\ b < size
    BY <1>3
  <2>2. i \in Nat /\ b % per \in 0..(per - 1) /\ b = i * per + (b % per)
    BY <2>1, Division
  <2> HIDE DEF i, n
  <2>3. i * per \in Nat /\ i * per <= b /\ b < i * per + per
    BY <2>1, <2>2
  <2>4. i \in segments
    <3>1. SUFFICES ASSUME n <= i PROVE FALSE
      BY <1>1, <2>2
    <3>2. CASE n = i
      BY <1>1, <2>1, <2>3, <3>2
    <3>3. CASE n < i
      <4>1. n * per + per <= i * per
        BY <1>1, <2>2, <3>3, Apart
      <4> QED BY <1>1, <2>1, <2>3, <4>1
    <3> QED BY <1>1, <2>2, <3>1, <3>2, <3>3
  <2>5. Holds(size, per, i, b)
    <3>1. i * per < size
      BY <2>1, <2>3
    <3>2. \A c \in Nat : c < size /\ c < i * per + per => c < i * per + PayloadLen(size, per, i)
      BY <2>2, <3>1, Payload
    <3> QED BY <2>1, <2>3, <3>2 DEF Holds
  <2>6. ASSUME NEW j \in segments, Holds(size, per, j, b) PROVE j = i
    <3>1. j \in Nat
      BY <1>2
    <3>2. /\ j * per \in Nat /\ j * per <= b /\ b < j * per + per
      <4>1. /\ j * per \in Nat /\ PayloadLen(size, per, j) \in Nat
            /\ PayloadLen(size, per, j) = 0 \/ PayloadLen(size, per, j) <= per
        BY <3>1, Payload
      <4>2. j * per <= b /\ b < j * per + PayloadLen(size, per, j)
        BY <2>6 DEF Holds
      <4> QED BY <2>1, <4>1, <4>2
    <3>3. ASSUME j < i PROVE FALSE
      <4>1. j * per + per <= i * per
        BY <2>2, <3>1, <3>3, Apart
      <4> QED BY <2>1, <2>3, <3>2, <4>1
    <3>4. ASSUME i < j PROVE FALSE
      <4>1. i * per + per <= j * per
        BY <2>2, <3>1, <3>4, Apart
      <4> QED BY <2>1, <2>3, <3>2, <4>1
    <3> QED BY <2>2, <3>1, <3>3, <3>4
  <2> QED BY <2>4, <2>5, <2>6
<1>4. ASSUME NEW i \in segments
      PROVE  PayloadLen(size, per, i) = 0 \/ i * per + PayloadLen(size, per, i) <= size
  <2>1. i \in Nat
    BY <1>2
  <2> QED BY <2>1, Payload
<1>5. PayloadLen(size, per, n) = 0
  BY <1>1, Payload
<1> QED BY <1>3, <1>4, <1>5 DEF SegmentsTile

(* A file of any size, cut into segments of any length, is put together     *)
(* again byte for byte by an export (segments_for and payload_len): no byte *)
(* is lost, doubled or made up at the boundaries.                           *)
THEOREM EveryFileTiles == \A size \in Nat, per \in Nat \ {0} : SegmentsTile(size, per)
BY Tiles

(* segments_for grows with the size. *)
LEMMA SegmentsGrow ==
    ASSUME NEW a \in Nat, NEW b \in Nat, NEW per \in Nat \ {0}, a <= b
    PROVE  SegmentsFor(a, per) <= SegmentsFor(b, per)
<1> DEFINE n == SegmentsFor(b, per)
           q == a \div per
           r == a % per
<1>1. n \in Nat \ {0} /\ n * per \in Nat /\ b <= n * per
  BY Count
<1>2. q \in Nat /\ r \in 0..(per - 1) /\ a = q * per + r
  BY Division
<1>3. SegmentsFor(a, per) = IF r = 0 THEN IF q = 0 THEN 1 ELSE q ELSE q + 1
  BY DEF SegmentsFor
<1> HIDE DEF n, q, r
<1>4. q * per \in Nat /\ q * per <= n * per
  BY <1>1, <1>2
<1>5. CASE n < q
  <2>1. n * per + per <= q * per
    BY <1>1, <1>2, <1>5, Apart
  <2> QED BY <1>1, <1>4, <2>1
<1>6. CASE n = q
  <2>1. r = 0
    BY <1>1, <1>2, <1>6
  <2> QED BY <1>1, <1>2, <1>3, <1>6, <2>1 DEF n
<1>7. CASE q < n
  BY <1>1, <1>2, <1>3, <1>7 DEF n
<1> QED BY <1>1, <1>2, <1>5, <1>6, <1>7

-----------------------------------------------------------------------------
(***************************************************************************)
(* The inductive invariant of the attachment protocol.                     *)
(***************************************************************************)

Manifest == [files : SUBSET Entries, gone : SUBSET Entries, versions : SUBSET Version]
IndexEntry == [n : Nat, readable : SUBSET Members]
IndexSpace == [Members -> [Namespaces -> [Members -> [Slots -> IndexEntry]]]]
TaskState == [at : Steps, file : BOOLEAN, ok : BOOLEAN, entry : Entries \cup {Idle.entry},
              content : Contents \cup {NoContent}, size : 0..MaxSize, seg : 0..MaxSegments,
              log : SUBSET Contents]

ManifestTypes ==
  /\ manifest \in [Members -> Manifest]
  /\ posted \in [Members -> [Namespaces -> Manifest]]
  /\ saved \in [Members -> [manifest : Manifest, ns : Namespaces]]

IndexTypes ==
  /\ index \in IndexSpace
  /\ blobs \in [Members -> SUBSET Slots]
  /\ policy \in [Members -> SUBSET Contents]
  /\ asked \in [Members -> SUBSET Slots]

SpaceTypes ==
  /\ ns \in [Members -> Namespaces]
  /\ carry \in [Members -> SUBSET Slots]
  /\ adopting \subseteq Members

GroupTypes ==
  /\ writers \subseteq Members /\ group \subseteq Members
  /\ repairs \subseteq [to : Members, from : Members, content : Contents]
  /\ reseal \in [Members -> [content : Contents \cup {NoContent}, readable : SUBSET Members]]

TaskTypes ==
  /\ pending \in [Members -> SUBSET Contents]
  /\ task \in [Tasks -> TaskState]
  /\ used \subseteq Contents
  /\ limit \in Limits /\ done \subseteq Kinds

Types == ManifestTypes /\ IndexTypes /\ SpaceTypes /\ GroupTypes /\ TaskTypes

TaskBounds ==
  \A t \in Tasks : /\ task[t].log \subseteq used
                   /\ task[t].seg <= SegmentsFor(task[t].size, SegmentBytes)
                   /\ task[t].at # "idle" => task[t].entry \in Entries

MemberBounds ==
  \A p \in Members : /\ asked[p] \subseteq blobs[p]
                     /\ pending[p] \subseteq used
                     /\ carry[p] # {} => p \in adopting /\ ns[p] = 2
                     /\ saved[p].ns <= ns[p]

LimitBounds == used \subseteq limit.contents /\ done \subseteq limit.kinds

(* What TypeOK adds to the types. *)
Bounds == TaskBounds /\ MemberBounds /\ LimitBounds

(* The manifests in circulation: current, stored in a namespace, saved. *)
Held == {manifest[p] : p \in Members} \cup {saved[p].manifest : p \in Members}
          \cup {posted[p][g] : p \in Members, g \in Namespaces}
Lineages == {m.versions : m \in Held}

(* Of all the versions in circulation that have u's content, u was first.  *)
Original(L, u) == \A A \in L : \A w \in A : w.content = u.content => w = u \/ u.seq < w.seq

(* Of the versions of a file in A one has the highest sequence number. *)
Capped(A) == \A u \in A : \E n \in A :
                n.entry = u.entry /\ \A v \in A : v.entry = u.entry => v.seq <= n.seq

(* What the histories L of a file's versions have in common: each has a    *)
(* last one, a content belongs to one file, and a history that has a content *)
(* has the version that introduced it.                                     *)
SoundLineages(L, U) ==
  /\ \A A \in L : A \subseteq Version /\ Capped(A)
  /\ \A A, B \in L : \A v \in A, w \in B : v.content = w.content => v.entry = w.entry
  /\ \A A \in L : \A v \in A : v.content \in U
  /\ \A A \in L : \A v \in A : \E u \in A : u.content = v.content /\ Original(L, u)

Filed(m) == m.gone \subseteq m.files /\ \A v \in m.versions : v.entry \in m.files

(* A snapshot is behind the manifest by versions only. *)
History ==
  /\ SoundLineages(Lineages, used)
  /\ \A m \in Held : Filed(m)
  /\ \A p \in Members : /\ saved[p].manifest.files = manifest[p].files
                        /\ saved[p].manifest.gone = manifest[p].gone
                        /\ saved[p].manifest.versions \subseteq manifest[p].versions

ContentsOf(m) == {v.content : v \in m.versions}
Declared == UNION {ContentsOf(m) : m \in Held}
Active(t) == task[t].at \in Undeclared \cup Clearing
Mine(t, p, c) == Owner[t] = p /\ task[t].content = c

TaskInv ==
  /\ \A t \in Tasks :
       /\ Active(t) => task[t].content \in used
       /\ task[t].at \in Writing \cup {"seal", "declared"} => task[t].ok
       /\ task[t].at = "discard" => ~task[t].ok
       /\ (Active(t) /\ ~(task[t].at \in Clearing /\ task[t].ok)) => task[t].content \notin Declared
       /\ task[t].at = "declared" => task[t].content \in ContentsOf(manifest[Owner[t]])
       /\ (task[t].at \in {"clear", "clearing"} /\ task[t].ok) =>
             task[t].content \in ContentsOf(saved[Owner[t]].manifest)
  /\ \A t, u \in Tasks : Active(t) /\ Active(u) /\ task[t].content = task[u].content => t = u
  /\ \A p \in Members : \A v \in manifest[p].versions \ saved[p].manifest.versions :
       \E t \in Tasks : Mine(t, p, v.content) /\ task[t].at = "declared"

(* The log, as long as no update of it was lost. *)
LogInv ==
  \A p \in Members \ logLost :
    /\ \A t \in Tasks : Owner[t] = p /\ task[t].at \in {"write", "discard"} \cup Clearing =>
         task[t].content \in pending[p]
    /\ \A c \in pending[p] : \A t \in Tasks :
         Active(t) /\ task[t].content = c => Owner[t] = p
    /\ \A c \in pending[p] \cap Declared :
         \E t \in Tasks : Mine(t, p, c) /\ task[t].at \in Clearing /\ task[t].ok

(* p's own entry for slot s, in namespace g. *)
Own(p, g, s) == IsSet(index[p][g][p][s])

(* Nobody knows more of p's entries than p does. *)
OwnNewest ==
  \A p, q \in Members, g \in Namespaces, s \in Slots :
    index[q][g][p][s].n <= index[p][g][p][s].n

(* What waits to be carried is declared. *)
CarriesDeclared == \A p \in Members : \A s \in carry[p] : s[1] \in ContentsOf(manifest[p])

(* A segment s of p's own set in namespace g: who answers for it. *)
SlotInv(p, g, s) ==
  /\ s[1] \in used
  /\ ns[p] = 1 /\ g = 2 /\ p \notin logLost => s[1] \notin pending[p]
  /\ \A t \in Tasks : Mine(t, p, s[1]) =>
       /\ ns[p] = 1 /\ g = 2 => ~Active(t)
       /\ ns[p] = 2 /\ g = 1 /\ task[t].at \in Undeclared => s[1] \in cut
       /\ task[t].at \in {"clear", "clearing"} /\ ~task[t].ok => s[1] \in cut
  /\ (p \notin logLost /\ saved[p].ns <= g) =>
       s[1] \in cut \cup pending[p] \cup ContentsOf(saved[p].manifest)

SegmentSlots ==
  \A p \in Members, g \in Namespaces, s \in Slots : IsSegment(s) /\ Own(p, g, s) => SlotInv(p, g, s)

SegmentInv == CarriesDeclared /\ SegmentSlots

(* What an attachment has written so far. *)
WritingOf(t) ==
  /\ task[t].at = "seal" => task[t].seg = 0
  /\ task[t].at \in Writing =>
       /\ \A i \in 1..task[t].seg : <<task[t].content, i>> \in blobs[Owner[t]]
       /\ task[t].content \notin cut =>
            \A i \in 0..task[t].seg : Own(Owner[t], ns[Owner[t]], <<task[t].content, i>>)

WritingInv == \A t \in Tasks : WritingOf(t)

(* p introduced u's content, in a file not deleted in m, and nothing cut   *)
(* the attachment.                                                         *)
Attached(p, m, u) ==
  /\ u.author = p /\ u.entry \notin m.gone
  /\ Original(Lineages, u) /\ u.content \notin cut

(* The versions of m that p introduced are set in namespace g, or waiting   *)
(* to be carried there.                                                     *)
ServedIn(p, m, g) ==
  \A u \in m.versions : Attached(p, m, u) =>
    \A s \in SlotsOfVersion(u) : Own(p, g, s) \/ (g = ns[p] /\ s \in carry[p])

(* Who introduced a content holds its segments, and its manifest has it. *)
Lodged ==
  \A A \in Lineages : \A u \in A : Original(Lineages, u) =>
    /\ \A i \in 1..SegmentsFor(u.size, SegmentBytes) : <<u.content, i>> \in blobs[u.author]
    /\ u \in manifest[u.author].versions \/ u.content \in cut

(* What p has still to carry of its own is set where it comes from. *)
CarryHeld(p) ==
  \A u \in manifest[p].versions :
    (u.author = p /\ Original(Lineages, u) /\ u.content \notin cut) =>
      \A s \in SlotsOfVersion(u) \cap carry[p] : Own(p, 1, s)

Serving ==
  \A p \in Members \ logLost :
    /\ ServedIn(p, manifest[p], ns[p])
    /\ ServedIn(p, saved[p].manifest, saved[p].ns)
    /\ CarryHeld(p)

ServedInv == Lodged /\ Serving

IInv == /\ Types /\ Bounds /\ History /\ TaskInv /\ LogInv /\ OwnNewest /\ SegmentInv
        /\ WritingInv /\ ServedInv

-----------------------------------------------------------------------------
(* The shapes of the data.                                                 *)

LEMMA SegmentCounts ==
    /\ MaxSegments \in Nat \ {0}
    /\ \A size \in 0..MaxSize : SegmentsFor(size, SegmentBytes) \in 1..MaxSegments
<1>1. SegmentBytes \in Nat \ {0} /\ MaxSize \in Nat
  BY AssetsAssumption
<1>2. MaxSegments \in Nat \ {0}
  BY <1>1, Count DEF MaxSegments
<1>3. ASSUME NEW size \in 0..MaxSize PROVE SegmentsFor(size, SegmentBytes) \in 1..MaxSegments
  <2>1. size \in Nat /\ size <= MaxSize
    BY <1>1
  <2>2. SegmentsFor(size, SegmentBytes) \in Nat \ {0}
    BY <1>1, <2>1, Count
  <2>3. SegmentsFor(size, SegmentBytes) <= MaxSegments
    BY <1>1, <2>1, SegmentsGrow DEF MaxSegments
  <2> QED BY <1>2, <2>2, <2>3
<1> QED BY <1>2, <1>3

LEMMA SlotFacts ==
    /\ \A s \in Slots : s[1] \in Contents /\ s[2] \in 0..MaxSegments /\ s = <<s[1], s[2]>>
    /\ \A c \in Contents, i \in 0..MaxSegments :
         <<c, i>> \in Slots /\ <<c, i>>[1] = c /\ <<c, i>>[2] = i
BY DEF Slots

LEMMA VersionSlots ==
    ASSUME NEW v \in Version
    PROVE  /\ v.content \in Contents /\ v.size \in 0..MaxSize
           /\ SlotsOfVersion(v) \subseteq Slots
           /\ \A s \in SlotsOfVersion(v) : s[1] = v.content
           /\ \A s \in SlotsOfVersion(v) : IsSegment(s) =>
                \E i \in 1..SegmentsFor(v.size, SegmentBytes) : s = <<v.content, i>>
<1>1. v.content \in Contents /\ v.size \in 0..MaxSize
  BY DEF Version
<1>2. SegmentsFor(v.size, SegmentBytes) \in 1..MaxSegments /\ MaxSegments \in Nat
  BY <1>1, SegmentCounts
<1>3. ASSUME NEW s \in SlotsOfVersion(v)
      PROVE  /\ s \in Slots /\ s[1] = v.content
             /\ IsSegment(s) => \E i \in 1..SegmentsFor(v.size, SegmentBytes) : s = <<v.content, i>>
  <2>1. PICK i \in 0..SegmentsFor(v.size, SegmentBytes) : s = <<v.content, i>>
    BY DEF SlotsOfVersion
  <2>2. i \in 0..MaxSegments
    BY <1>2, <2>1
  <2>3. s \in Slots /\ s[1] = v.content /\ s[2] = i
    BY <1>1, <2>1, <2>2, SlotFacts
  <2>4. i > 0 => i \in 1..SegmentsFor(v.size, SegmentBytes)
    BY <1>2, <2>1
  <2> QED BY <2>1, <2>3, <2>4 DEF IsSegment
<1> QED BY <1>1, <1>3

LEMMA ManifestFacts ==
    ASSUME NEW m \in Manifest
    PROVE  /\ AllVersions(m) \subseteq m.versions
           /\ m.versions \subseteq Version
           /\ AssetPrefixes(m) \subseteq Contents
           /\ AssetIndexKeys(m) \subseteq Slots
           /\ \A s \in AssetIndexKeys(m) :
                \E v \in m.versions : s \in SlotsOfVersion(v) /\ s[1] = v.content /\ Live(m, v.entry)
           /\ \A v \in m.versions : Live(m, v.entry) => SlotsOfVersion(v) \subseteq AssetIndexKeys(m)
<1>1. m.versions \subseteq Version
  BY DEF Manifest
<1>2. \A v \in AllVersions(m) : v \in m.versions /\ Live(m, v.entry)
  BY DEF AllVersions, AssetVersions
<1>3. \A v \in m.versions : v \in Version /\ v.entry \in Entries
  BY <1>1 DEF Version
<1>4. \A v \in m.versions : Live(m, v.entry) => v \in AllVersions(m)
  BY <1>3 DEF AllVersions, AssetVersions
<1>5. AssetPrefixes(m) \subseteq Contents
  BY <1>2, <1>3, VersionSlots DEF AssetPrefixes
<1>6. ASSUME NEW s \in AssetIndexKeys(m)
      PROVE  s \in Slots /\ \E v \in m.versions : s \in SlotsOfVersion(v) /\ s[1] = v.content /\ Live(m, v.entry)
  <2>1. PICK v \in AllVersions(m) : s \in SlotsOfVersion(v)
    BY DEF AssetIndexKeys
  <2>2. v \in m.versions /\ v \in Version /\ Live(m, v.entry)
    BY <1>2, <1>3
  <2> QED BY <2>1, <2>2, VersionSlots
<1>7. ASSUME NEW v \in m.versions, Live(m, v.entry)
      PROVE  SlotsOfVersion(v) \subseteq AssetIndexKeys(m)
  BY <1>4, <1>7 DEF AssetIndexKeys
<1> QED BY <1>1, <1>2, <1>5, <1>6, <1>7

LEMMA MergeType ==
    ASSUME NEW m \in Manifest, NEW n \in Manifest
    PROVE  /\ Merge(m, n) \in Manifest
           /\ Merge(m, n).files = m.files \cup n.files
           /\ Merge(m, n).gone = m.gone \cup n.gone
           /\ Merge(m, n).versions = m.versions \cup n.versions
BY DEF Merge, Manifest

LEMMA LimitFacts ==
    ASSUME limit \in Limits
    PROVE  /\ limit.tasks \subseteq Tasks /\ limit.sizes \subseteq 0..MaxSize
           /\ limit.contents \subseteq Contents /\ limit.times \subseteq Times
           /\ limit.kinds \subseteq Kinds
<1>1. limit \in [tasks : SUBSET Tasks, sizes : SUBSET (0..MaxSize), contents : SUBSET Contents,
                 times : SUBSET Times, kinds : SUBSET Kinds]
  BY AssetsAssumption
<1> QED BY <1>1

LEMMA OwnerType == \A t \in Tasks : Owner[t] \in Members
BY AssetsAssumption

LEMMA EntryTypes ==
    ASSUME NEW e \in IndexEntry, NEW for \in SUBSET Members
    PROVE  /\ Written(e, for) \in IndexEntry /\ IsSet(Written(e, for)) /\ e.n < Written(e, for).n
           /\ Deleted(e) \in IndexEntry /\ ~IsSet(Deleted(e)) /\ e.n <= Deleted(e).n
<1>1. e.n \in Nat /\ e.n % 2 \in 0..1
  BY DEF IndexEntry
<1>2. CASE IsSet(e)
  <2>1. (e.n + 2) % 2 = 1 /\ (e.n + 1) % 2 = 0
    BY <1>1, <1>2 DEF IsSet
  <2>2. Written(e, for) = [n |-> e.n + 2, readable |-> for] /\ Deleted(e) = [n |-> e.n + 1, readable |-> {}]
    BY <1>2 DEF Written, Deleted
  <2> QED BY <1>1, <2>1, <2>2 DEF IsSet, IndexEntry
<1>3. CASE ~IsSet(e)
  <2>1. (e.n + 1) % 2 = 1
    BY <1>1, <1>3 DEF IsSet
  <2>2. Written(e, for) = [n |-> e.n + 1, readable |-> for] /\ Deleted(e) = e
    BY <1>3 DEF Written, Deleted
  <2> QED BY <1>1, <1>3, <2>1, <2>2 DEF IsSet, IndexEntry
<1> QED BY <1>2, <1>3

LEMMA IdleType == Idle \in TaskState /\ Idle.at = "idle" /\ Idle.content = NoContent /\ Idle.seg = 0
                    /\ Idle.ok = TRUE /\ Idle.log = {} /\ Idle.size = 0
<1>1. MaxSegments \in Nat /\ MaxSize \in Nat
  BY SegmentCounts, AssetsAssumption
<1> QED BY <1>1 DEF Idle, TaskState, Steps

-----------------------------------------------------------------------------
(* What the steps do to the index.                                         *)

LEMMA EntryType ==
    ASSUME index \in IndexSpace, NEW q \in Members, NEW g \in Namespaces, NEW a \in Members, NEW s \in Slots
    PROVE  index[q][g][a][s] \in IndexEntry /\ index[q][g][a][s].n \in Nat
BY DEF IndexSpace, IndexEntry

(* An entry that is set stays the newest state of itself. *)
LEMMA StoreOwn ==
    ASSUME index \in IndexSpace, ns \in [Members -> Namespaces], OwnNewest,
           NEW p \in Members, NEW s \in Slots, NEW for \in SUBSET Members, Store(p, s, for)
    PROVE  /\ index' \in IndexSpace /\ OwnNewest'
           /\ \A q \in Members, g \in Namespaces, x \in Slots :
                Own(q, g, x)' <=> Own(q, g, x) \/ (q = p /\ g = ns[p] /\ x = s)
<1> DEFINE e == index[p][ns[p]][p][s]
           w == Written(e, for)
<1>1. ns[p] \in Namespaces
  OBVIOUS
<1>2. e \in IndexEntry
  BY <1>1, EntryType
<1>3. w \in IndexEntry /\ IsSet(w) /\ e.n < w.n
  BY <1>2, EntryTypes
<1>4. index' = [index EXCEPT ![p][ns[p]][p][s] = w]
  BY DEF Store
<1> HIDE DEF w
<1>5. /\ index' \in IndexSpace
      /\ \A q \in Members, g \in Namespaces, a \in Members, x \in Slots :
           index'[q][g][a][x] = IF q = p /\ g = ns[p] /\ a = p /\ x = s THEN w ELSE index[q][g][a][x]
  BY <1>1, <1>3, <1>4, SMTT(60) DEF IndexSpace
<1>6. OwnNewest'
  <2>1. SUFFICES ASSUME NEW r \in Members, NEW q \in Members, NEW g \in Namespaces, NEW x \in Slots
                 PROVE  index'[q][g][r][x].n <= index'[r][g][r][x].n
    BY DEF OwnNewest
  <2>2. index[q][g][r][x].n <= index[r][g][r][x].n /\ index[q][g][r][x].n \in Nat /\ index[r][g][r][x].n \in Nat
    BY EntryType DEF OwnNewest
  <2>3. w.n \in Nat
    BY <1>3 DEF IndexEntry
  <2>4. CASE r = p /\ g = ns[p] /\ x = s
    <3>1. index'[r][g][r][x] = w
      BY <1>5, <2>4
    <3>2. index'[q][g][r][x] = w \/ index'[q][g][r][x] = index[q][g][r][x]
      BY <1>5
    <3> QED BY <1>3, <2>2, <2>3, <2>4, <3>1, <3>2
  <2>5. CASE ~(r = p /\ g = ns[p] /\ x = s)
    BY <1>5, <2>2, <2>5
  <2> QED BY <2>4, <2>5
<1> QED BY <1>3, <1>5, <1>6 DEF Own

(* Entries withdrawn are no longer set; no other changes. *)
LEMMA WithdrawnOwn ==
    ASSUME index \in IndexSpace, OwnNewest, NEW p \in Members, NEW h \in Namespaces, NEW cs,
           index' = Withdrawn(p, h, cs)
    PROVE  /\ index' \in IndexSpace /\ OwnNewest'
           /\ \A q \in Members, g \in Namespaces, x \in Slots :
                Own(q, g, x)' <=> Own(q, g, x) /\ ~(q = p /\ g = h /\ x[1] \in cs)
<1> DEFINE row == [x \in Slots |-> IF x[1] \in cs THEN Deleted(index[p][h][p][x]) ELSE index[p][h][p][x]]
<1>1. index' = [index EXCEPT ![p][h][p] = row]
  BY DEF Withdrawn
<1>2. ASSUME NEW x \in Slots
      PROVE  /\ row[x] = IF x[1] \in cs THEN Deleted(index[p][h][p][x]) ELSE index[p][h][p][x]
             /\ row[x] \in IndexEntry /\ index[p][h][p][x].n <= row[x].n /\ row[x].n \in Nat
             /\ IsSet(row[x]) <=> IsSet(index[p][h][p][x]) /\ ~(x[1] \in cs)
  <2>1. PICK i, d : i = index[p][h][p][x] /\ d = Deleted(index[p][h][p][x])
    OBVIOUS
  <2>2. i \in IndexEntry /\ i.n \in Nat /\ d = Deleted(i)
    BY <2>1, EntryType
  <2>3. d \in IndexEntry /\ ~IsSet(d) /\ i.n <= d.n
    BY <2>2, EntryTypes
  <2>4. d.n \in Nat
    BY <2>3 DEF IndexEntry
  <2>5. i.n <= i.n
    BY <2>2
  <2>6. row[x] = IF x[1] \in cs THEN d ELSE i
    BY <2>1
  <2> HIDE DEF row
  <2>7. CASE x[1] \in cs
    BY <2>1, <2>2, <2>3, <2>4, <2>6, <2>7
  <2>8. CASE ~(x[1] \in cs)
    BY <2>1, <2>2, <2>5, <2>6, <2>8
  <2> QED BY <2>7, <2>8
<1>3. row \in [Slots -> IndexEntry]
  BY <1>2
<1> HIDE DEF row
<1>4. /\ index' \in IndexSpace
      /\ \A q \in Members, g \in Namespaces, a \in Members, x \in Slots :
           index'[q][g][a][x] = IF q = p /\ g = h /\ a = p THEN row[x] ELSE index[q][g][a][x]
  BY <1>1, <1>3, SMTT(60) DEF IndexSpace
<1>5. OwnNewest'
  <2>1. SUFFICES ASSUME NEW r \in Members, NEW q \in Members, NEW g \in Namespaces, NEW x \in Slots
                 PROVE  index'[q][g][r][x].n <= index'[r][g][r][x].n
    BY DEF OwnNewest
  <2>2. index[q][g][r][x].n <= index[r][g][r][x].n /\ index[q][g][r][x].n \in Nat /\ index[r][g][r][x].n \in Nat
    BY EntryType DEF OwnNewest
  <2>4. CASE r = p /\ g = h
    <3>1. index'[r][g][r][x] = row[x]
      BY <1>4, <2>4
    <3>2. index'[q][g][r][x] = row[x] \/ index'[q][g][r][x] = index[q][g][r][x]
      BY <1>4
    <3>3. index[r][g][r][x].n <= row[x].n /\ row[x].n \in Nat
      BY <1>2, <2>4
    <3>4. PICK i, j, k : i = index[q][g][r][x].n /\ j = index[r][g][r][x].n /\ k = row[x].n
      OBVIOUS
    <3>5. i <= k /\ k <= k
      BY <2>2, <3>3, <3>4
    <3> QED BY <3>1, <3>2, <3>4, <3>5
  <2>5. CASE ~(r = p /\ g = h)
    BY <1>4, <2>2, <2>5
  <2> QED BY <2>4, <2>5
<1> QED BY <1>2, <1>4, <1>5 DEF Own

(* What reconciles is never an entry of one's own. *)
LEMMA ReconcileOwn ==
    ASSUME index \in IndexSpace, ns \in [Members -> Namespaces], OwnNewest,
           NEW p \in Members, NEW q \in Members, NEW a \in Members, NEW s \in Slots, Reconcile(p, q, a, s)
    PROVE  /\ index' \in IndexSpace /\ OwnNewest'
           /\ \A r \in Members, g \in Namespaces, x \in Slots : Own(r, g, x)' <=> Own(r, g, x)
<1> DEFINE w == index[q][ns[p]][a][s]
<1>1. ns[p] \in Namespaces
  OBVIOUS
<1>2. w \in IndexEntry /\ w.n \in Nat /\ w.n <= index[a][ns[p]][a][s].n /\ index[a][ns[p]][a][s].n \in Nat
  BY <1>1, EntryType DEF OwnNewest
<1>3. index' = [index EXCEPT ![p][ns[p]][a][s] = w] /\ index[p][ns[p]][a][s].n < w.n
  BY DEF Reconcile
<1>4. a # p
  BY <1>2, <1>3
<1> HIDE DEF w
<1>5. /\ index' \in IndexSpace
      /\ \A r \in Members, g \in Namespaces, b \in Members, x \in Slots :
           index'[r][g][b][x] = IF r = p /\ g = ns[p] /\ b = a /\ x = s THEN w ELSE index[r][g][b][x]
  BY <1>1, <1>2, <1>3, SMTT(60) DEF IndexSpace
<1>6. \A r \in Members, g \in Namespaces, x \in Slots : index'[r][g][r][x] = index[r][g][r][x]
  BY <1>4, <1>5
<1>7. OwnNewest'
  <2>1. SUFFICES ASSUME NEW b \in Members, NEW r \in Members, NEW g \in Namespaces, NEW x \in Slots
                 PROVE  index'[r][g][b][x].n <= index'[b][g][b][x].n
    BY DEF OwnNewest
  <2>2. index'[b][g][b][x] = index[b][g][b][x] /\ index[r][g][b][x].n <= index[b][g][b][x].n
    BY <1>6 DEF OwnNewest
  <2>3. CASE r = p /\ g = ns[p] /\ b = a /\ x = s
    BY <1>2, <1>5, <2>2, <2>3
  <2>4. CASE ~(r = p /\ g = ns[p] /\ b = a /\ x = s)
    BY <1>5, <2>2, <2>4
  <2> QED BY <2>3, <2>4
<1> QED BY <1>5, <1>6, <1>7 DEF Own

-----------------------------------------------------------------------------
(* The histories of versions.                                              *)

LEMMA CappedUnion ==
    ASSUME NEW A, NEW B, A \subseteq Version, B \subseteq Version, Capped(A), Capped(B)
    PROVE  A \cup B \subseteq Version /\ Capped(A \cup B)
<1>1. \A v \in A \cup B : v.seq \in Nat
  BY DEF Version
<1>2. ASSUME NEW u \in A \cup B
      PROVE  \E n \in A \cup B : n.entry = u.entry
                /\ \A v \in A \cup B : v.entry = u.entry => v.seq <= n.seq
  <2>1. CASE \A v \in B : v.entry # u.entry
    BY <1>2, <2>1 DEF Capped
  <2>2. CASE \A v \in A : v.entry # u.entry
    BY <1>2, <2>2 DEF Capped
  <2>3. ASSUME NEW a \in A, a.entry = u.entry, NEW b \in B, b.entry = u.entry
        PROVE  \E n \in A \cup B : n.entry = u.entry
                  /\ \A v \in A \cup B : v.entry = u.entry => v.seq <= n.seq
    <3>1. PICK x \in A : x.entry = u.entry /\ \A v \in A : v.entry = u.entry => v.seq <= x.seq
      BY <2>3 DEF Capped
    <3>2. PICK y \in B : y.entry = u.entry /\ \A v \in B : v.entry = u.entry => v.seq <= y.seq
      BY <2>3 DEF Capped
    <3>3. CASE x.seq <= y.seq
      <4>1. \A v \in A : v.entry = u.entry => v.seq <= y.seq
        BY <1>1, <3>1, <3>3
      <4> QED BY <3>2, <4>1
    <3>4. CASE y.seq <= x.seq
      <4>1. \A v \in B : v.entry = u.entry => v.seq <= x.seq
        BY <1>1, <3>2, <3>4
      <4> QED BY <3>1, <4>1
    <3>5. x.seq \in Nat /\ y.seq \in Nat
      BY <1>1
    <3> QED BY <3>3, <3>4, <3>5
  <2> QED BY <2>1, <2>2, <2>3
<1> QED BY <1>2 DEF Capped

(* Histories merged or kept stay sound, and what counts as the             *)
(* introduction of a content does not change.                              *)
LEMMA LineagesMerge ==
    ASSUME NEW L, NEW U, SoundLineages(L, U), NEW K, \A X \in K : \E A, B \in L : X = A \cup B
    PROVE  /\ SoundLineages(K, U)
           /\ \A X \in K : \A u \in X : \E A \in L : u \in A
           /\ \A X \in K : \A u \in X : Original(K, u) => Original(L, u)
<1>1. \A X \in K : \A u \in X : \E A \in L : u \in A /\ A \subseteq X
  OBVIOUS
<1>2. \A A \in L : \A v \in A : v \in Version /\ v.seq \in Nat
  BY DEF SoundLineages, Version
<1>3. ASSUME NEW o, Original(L, o) PROVE Original(K, o)
  BY <1>1, <1>3 DEF Original
<1>4. ASSUME NEW X \in K, NEW u \in X
      PROVE  \E o \in X : /\ o.content = u.content /\ Original(L, o) /\ Original(K, o)
                          /\ Original(K, u) => o = u
  <2>1. PICK A \in L : u \in A /\ A \subseteq X
    BY <1>1
  <2>2. PICK o \in A : o.content = u.content /\ Original(L, o)
    BY <2>1 DEF SoundLineages
  <2>3. o \in X /\ Original(K, o) /\ o.seq \in Nat /\ u.seq \in Nat
    BY <1>2, <1>3, <2>1, <2>2
  <2>4. u = o \/ o.seq < u.seq
    BY <2>1, <2>2 DEF Original
  <2>5. Original(K, u) => o = u \/ u.seq < o.seq
    BY <2>2, <2>3 DEF Original
  <2> QED BY <2>2, <2>3, <2>4, <2>5
<1>5. \A X \in K : X \subseteq Version /\ Capped(X)
  <2>1. SUFFICES ASSUME NEW A \in L, NEW B \in L PROVE A \cup B \subseteq Version /\ Capped(A \cup B)
    OBVIOUS
  <2>2. A \subseteq Version /\ B \subseteq Version /\ Capped(A) /\ Capped(B)
    BY DEF SoundLineages
  <2> QED BY <2>2, CappedUnion
<1>6. \A X, Y \in K : \A v \in X, w \in Y : v.content = w.content => v.entry = w.entry
  BY <1>1 DEF SoundLineages
<1>7. \A X \in K : \A v \in X : v.content \in U
  BY <1>1 DEF SoundLineages
<1>8. \A X \in K : \A v \in X : \E u \in X : u.content = v.content /\ Original(K, u)
  BY <1>4
<1>9. SoundLineages(K, U)
  BY <1>5, <1>6, <1>7, <1>8 DEF SoundLineages
<1> QED BY <1>1, <1>4, <1>9

(* No history in L has v's content. *)
FirstOf(L, v) == \A B \in L : \A w \in B : w.content # v.content

(* A version is added to a history: of a content new to all of them, or    *)
(* above a version the history has of that content.                        *)
LEMMA LineagesAdd ==
    ASSUME NEW L, NEW U, SoundLineages(L, U), NEW A \in L, NEW v \in Version, v.content \in U,
           ~FirstOf(L, v) => \E x \in A : x.content = v.content /\ x.entry = v.entry /\ x.seq < v.seq,
           NEW K, \A X \in K : X \in L \/ X = A \cup {v}
    PROVE  /\ SoundLineages(K, U)
           /\ \A X \in K : \A u \in X : Original(K, u) =>
                \/ Original(L, u) /\ \E B \in L : u \in B
                \/ FirstOf(L, v) /\ u = v
<1>0. FirstOf(L, v) => \A B \in L : \A w \in B : w.content # v.content
  BY DEF FirstOf
<1>1. \A B \in L : \A w \in B : w \in Version /\ w.seq \in Nat
  BY DEF SoundLineages, Version
<1>2. v.seq \in Nat
  BY DEF Version
<1>3. \A X \in K : \A u \in X : u = v \/ \E B \in L : u \in B /\ B \subseteq X
  BY DEF SoundLineages
<1>4. ASSUME NEW B \in L, NEW o \in B, Original(L, o) PROVE Original(K, o)
  <2>1. SUFFICES ASSUME NEW X \in K, NEW w \in X, w.content = o.content PROVE w = o \/ o.seq < w.seq
    BY DEF Original
  <2>2. CASE \E C \in L : w \in C
    BY <1>4, <2>1, <2>2 DEF Original
  <2>3. CASE w = v /\ ~FirstOf(L, v)
    <3>1. PICK x \in A : x.content = v.content /\ x.seq < v.seq
      BY <2>3
    <3>2. x = o \/ o.seq < x.seq
      BY <1>4, <2>1, <2>3, <3>1 DEF Original
    <3> QED BY <1>1, <1>2, <2>3, <3>1, <3>2
  <2>4. CASE w = v /\ FirstOf(L, v)
    BY <1>0, <2>1, <2>4
  <2> QED BY <1>3, <2>2, <2>3, <2>4
<1>5. ASSUME NEW B \in L, NEW u \in B
      PROVE  \E o \in B : o.content = u.content /\ Original(L, o) /\ Original(K, o)
  BY <1>4 DEF SoundLineages
<1>6. ASSUME NEW X \in K, NEW u \in X, NEW B \in L, u \in B, B \subseteq X
      PROVE  /\ \E o \in X : o.content = u.content /\ Original(K, o)
             /\ Original(K, u) => Original(L, u)
  <2>1. PICK o \in B : o.content = u.content /\ Original(L, o) /\ Original(K, o)
    BY <1>5, <1>6
  <2>2. o \in X /\ o.seq \in Nat /\ u.seq \in Nat
    BY <1>1, <1>6, <2>1
  <2>3. u = o \/ o.seq < u.seq
    BY <1>6, <2>1 DEF Original
  <2>4. Original(K, u) => o = u \/ u.seq < o.seq
    BY <2>1, <2>2 DEF Original
  <2> QED BY <2>1, <2>2, <2>3, <2>4
<1>7. ASSUME NEW X \in K, v \in X, X = A \cup {v}, ~FirstOf(L, v)
      PROVE  \E o \in X : o.content = v.content /\ Original(K, o) /\ ~Original(K, v)
  <2>1. PICK x \in A : x.content = v.content /\ x.seq < v.seq
    BY <1>7
  <2>2. PICK o \in A : o.content = x.content /\ Original(L, o) /\ Original(K, o)
    BY <1>5, <2>1
  <2>3. o \in X /\ o.seq \in Nat /\ x.seq \in Nat
    BY <1>1, <1>7, <2>1, <2>2
  <2>4. x = o \/ o.seq < x.seq
    BY <2>1, <2>2 DEF Original
  <2>5. o.seq < v.seq
    BY <1>2, <2>1, <2>3, <2>4
  <2>6. ~Original(K, v)
    <3>1. SUFFICES ASSUME Original(K, v) PROVE FALSE
      OBVIOUS
    <3>2. o = v \/ v.seq < o.seq
      BY <2>1, <2>2, <2>3, <3>1 DEF Original
    <3> QED BY <1>2, <2>3, <2>5, <3>2
  <2> QED BY <2>1, <2>2, <2>3, <2>6
<1>8. FirstOf(L, v) => Original(K, v)
  <2>1. SUFFICES ASSUME FirstOf(L, v), NEW X \in K, NEW w \in X, w.content = v.content PROVE w = v
    BY DEF Original
  <2> QED BY <1>0, <1>3, <2>1
<1>9. ASSUME NEW X \in K, NEW u \in X
      PROVE  /\ \E o \in X : o.content = u.content /\ Original(K, o)
             /\ Original(K, u) => \/ Original(L, u) /\ \E B \in L : u \in B
                                  \/ FirstOf(L, v) /\ u = v
  <2>1. CASE \E B \in L : u \in B /\ B \subseteq X
    BY <1>6, <2>1
  <2>2. CASE u = v /\ X = A \cup {v} /\ ~FirstOf(L, v)
    BY <1>7, <2>2
  <2>3. CASE u = v /\ FirstOf(L, v)
    BY <1>8, <2>3
  <2>4. CASE u = v /\ X \in L
    BY <1>6, <2>4
  <2> QED BY <1>3, <2>1, <2>2, <2>3, <2>4
<1>10. \A X \in K : X \subseteq Version /\ Capped(X)
  <2>1. A \subseteq Version /\ Capped(A)
    BY DEF SoundLineages
  <2>2. v \in Version /\ v.seq <= v.seq
    BY <1>1, <1>2 DEF Version
  <2>3. {v} \subseteq Version /\ Capped({v})
    BY <2>2 DEF Capped
  <2>4. A \cup {v} \subseteq Version /\ Capped(A \cup {v})
    BY <2>1, <2>3, CappedUnion
  <2> QED BY <2>4 DEF SoundLineages
<1>11. \A X, Y \in K : \A u \in X, w \in Y : u.content = w.content => u.entry = w.entry
  <2>1. ASSUME NEW B \in L, NEW w \in B, w.content = v.content PROVE w.entry = v.entry
    <3>1. CASE FirstOf(L, v)
      BY <1>0, <2>1, <3>1
    <3>2. CASE ~FirstOf(L, v)
      <4>1. PICK x \in A : x.content = v.content /\ x.entry = v.entry
        BY <3>2
      <4> QED BY <2>1, <4>1 DEF SoundLineages
    <3> QED BY <3>1, <3>2
  <2>2. SUFFICES ASSUME NEW X \in K, NEW Y \in K, NEW u \in X, NEW w \in Y, u.content = w.content
                 PROVE  u.entry = w.entry
    OBVIOUS
  <2>3. CASE u = v \/ w = v
    BY <1>3, <2>1, <2>2, <2>3
  <2>4. CASE u # v /\ w # v
    BY <1>3, <2>2, <2>4 DEF SoundLineages
  <2> QED BY <2>3, <2>4
<1>12. \A X \in K : \A u \in X : u.content \in U
  BY <1>3 DEF SoundLineages
<1> QED BY <1>9, <1>10, <1>11, <1>12 DEF SoundLineages

(* next_seq is above every version the file has. *)
LEMMA NextSeqAbove ==
    ASSUME NEW m \in Manifest, Capped(m.versions), NEW e
    PROVE  /\ NextSeq(m, e) \in Nat
           /\ \A v \in AssetVersions(m, e) : v.seq \in Nat /\ v.seq < NextSeq(m, e)
<1> DEFINE V == AssetVersions(m, e)
           S == {v.seq : v \in V}
<1>1. V \subseteq m.versions /\ \A v \in V : v.seq \in Nat
  BY DEF AssetVersions, Manifest, Version
<1>2. CASE V = {}
  BY <1>2 DEF NextSeq
<1>3. CASE V # {}
  <2>1. PICK u \in m.versions : u \in V
    BY <1>1, <1>3
  <2>2. V = {v \in m.versions : v.entry = e} /\ u.entry = e
    BY <2>1 DEF AssetVersions
  <2>3. PICK w \in V : \A v \in V : v.seq <= w.seq
    <3>1. PICK w \in m.versions :
            w.entry = u.entry /\ \A v \in m.versions : v.entry = u.entry => v.seq <= w.seq
      BY <2>1 DEF Capped
    <3> QED BY <2>2, <3>1
  <2>4. PICK n \in S : \A v \in V : v.seq <= n
    BY <2>3
  <2> DEFINE top == CHOOSE k \in S : \A v \in V : v.seq <= k
  <2>5. S \subseteq Nat
    BY <1>1
  <2>6. top \in S /\ \A v \in V : v.seq <= top
    <3> HIDE DEF S, V
    <3> QED BY <2>4
  <2>7. NextSeq(m, e) = 1 + top
    BY <1>3 DEF NextSeq
  <2> HIDE DEF top, S
  <2>8. top \in Nat
    BY <2>5, <2>6
  <2> QED BY <1>1, <2>6, <2>7, <2>8
<1> QED BY <1>2, <1>3

(* Only a new version above all others of its file is the current one. *)
LEMMA HighestIsCurrent ==
    ASSUME NEW m \in Manifest, NEW v, v \in AssetVersions(m, v.entry),
           \A w \in AssetVersions(m, v.entry) : w # v => w.seq < v.seq
    PROVE  CurrentVersion(m, v.entry) = v
<1> DEFINE V == AssetVersions(m, v.entry)
<1>1. \A w \in V : w.seq \in Nat /\ w.at \in Int /\ w.content \in Nat
  BY AssetsAssumption DEF AssetVersions, Manifest, Version
<1>2. \A w \in V : ~Precedes(v, w)
  BY <1>1 DEF Precedes
<1>3. \A x \in V : (\A w \in V : ~Precedes(x, w)) => x = v
  BY DEF Precedes
<1>4. v \in V
  OBVIOUS
<1> HIDE DEF V
<1>5. (CHOOSE x \in V : \A w \in V : ~Precedes(x, w)) = v
  BY <1>2, <1>3, <1>4
<1> QED BY <1>5 DEF CurrentVersion, V

-----------------------------------------------------------------------------
(* What the steps do to the manifests.                                     *)

(* p's manifest becomes m, which p may store and save; nobody else's does. *)
Changed(p, m) ==
  /\ ManifestTypes'
  /\ m \in Manifest /\ manifest'[p] = m
  /\ \A q \in Members \ {p} : /\ manifest'[q] = manifest[q] /\ posted'[q] = posted[q]
                              /\ saved'[q] = saved[q]
  /\ \A g \in Namespaces : posted'[p][g] \in {posted[p][g], m}
  /\ saved'[p] \in {saved[p], [manifest |-> m, ns |-> ns[p]]}
Saves(p, m) == saved'[p].manifest = m /\ saved'[p].ns = ns[p]

LEMMA ChangedHeld ==
    ASSUME ManifestTypes, NEW p \in Members, NEW m, Changed(p, m)
    PROVE  /\ Held' \subseteq Held \cup {m}
           /\ Lineages' \subseteq Lineages \cup {m.versions}
           /\ manifest[p] \in Held /\ saved[p].manifest \in Held
           /\ \A g \in Namespaces : posted[p][g] \in Held
           /\ Declared' \subseteq Declared \cup ContentsOf(m)
<1>1. Held' \subseteq Held \cup {m}
  <2>1. ASSUME NEW q \in Members PROVE manifest'[q] \in Held \cup {m}
    <3>1. manifest'[q] = manifest[q] \/ manifest'[q] = m
      BY DEF Changed
    <3> QED BY <3>1 DEF Held
  <2>2. ASSUME NEW q \in Members PROVE saved'[q].manifest \in Held \cup {m}
    <3>1. saved'[q].manifest = saved[q].manifest \/ saved'[q].manifest = m
      BY DEF Changed
    <3> QED BY <3>1 DEF Held
  <2>3. ASSUME NEW q \in Members, NEW g \in Namespaces PROVE posted'[q][g] \in Held \cup {m}
    <3>1. posted'[q][g] = posted[q][g] \/ posted'[q][g] = m
      BY DEF Changed
    <3> QED BY <3>1 DEF Held
  <2>4. Held' = {manifest'[q] : q \in Members} \cup {saved'[q].manifest : q \in Members}
                  \cup {posted'[q][g] : q \in Members, g \in Namespaces}
    BY DEF Held
  <2> HIDE DEF Held
  <2> QED BY <2>1, <2>2, <2>3, <2>4
<1>2. Lineages' = {n.versions : n \in Held'} /\ Lineages = {n.versions : n \in Held}
  BY DEF Lineages
<1>3. Declared' = UNION {ContentsOf(n) : n \in Held'} /\ Declared = UNION {ContentsOf(n) : n \in Held}
  BY DEF Declared, ContentsOf
<1>4. /\ manifest[p] \in Held /\ saved[p].manifest \in Held
      /\ \A g \in Namespaces : posted[p][g] \in Held
  BY DEF Held
<1> HIDE DEF Held
<1>5. Lineages' \subseteq Lineages \cup {m.versions}
  BY <1>1, <1>2
<1>6. Declared' \subseteq Declared \cup ContentsOf(m)
  BY <1>1, <1>3
<1> QED BY <1>1, <1>4, <1>5, <1>6

LEMMA HeldType ==
    ASSUME ManifestTypes
    PROVE  /\ \A m \in Held : m \in Manifest /\ m.versions \in Lineages /\ ContentsOf(m) \subseteq Declared
           /\ \A A \in Lineages : \E m \in Held : A = m.versions
           /\ \A p \in Members : manifest[p] \in Held /\ saved[p].manifest \in Held
           /\ \A p \in Members, g \in Namespaces : posted[p][g] \in Held
           /\ \A c \in Declared : \E m \in Held : \E v \in m.versions : v.content = c
<1>1. \A m \in Held : m \in Manifest
  BY DEF Held, ManifestTypes
<1> QED BY <1>1 DEF Held, Lineages, Declared, ContentsOf

LEMMA PublishStep ==
    ASSUME ManifestTypes, ns \in [Members -> Namespaces], NEW p \in Members, NEW m \in Manifest,
           Publish(p, m)
    PROVE  /\ manifest' \in [Members -> Manifest] /\ posted' \in [Members -> [Namespaces -> Manifest]]
           /\ manifest'[p] = m
           /\ \A q \in Members \ {p} : manifest'[q] = manifest[q] /\ posted'[q] = posted[q]
           /\ \A g \in Namespaces : posted'[p][g] = IF g = ns[p] THEN m ELSE posted[p][g]
<1>1. ns[p] \in Namespaces
  OBVIOUS
<1>2. manifest' = [manifest EXCEPT ![p] = m] /\ posted' = [posted EXCEPT ![p][ns[p]] = m]
  BY DEF Publish
<1> QED BY <1>1, <1>2 DEF ManifestTypes

LEMMA SaveStep ==
    ASSUME ManifestTypes, NEW p \in Members, NEW m \in Manifest, NEW g \in Namespaces,
           saved' = [saved EXCEPT ![p] = [manifest |-> m, ns |-> g]]
    PROVE  /\ saved' \in [Members -> [manifest : Manifest, ns : Namespaces]]
           /\ saved'[p] = [manifest |-> m, ns |-> g]
           /\ saved'[p].manifest = m /\ saved'[p].ns = g
           /\ \A q \in Members \ {p} : saved'[q] = saved[q]
BY DEF ManifestTypes

LEMMA PublishAndSave ==
    ASSUME ManifestTypes, ns \in [Members -> Namespaces], NEW p \in Members, NEW m \in Manifest,
           Publish(p, m), PersistPublished(p)
    PROVE  Changed(p, m) /\ Saves(p, m)
<1>1. ns[p] \in Namespaces
  OBVIOUS
<1>2. /\ manifest' \in [Members -> Manifest] /\ posted' \in [Members -> [Namespaces -> Manifest]]
      /\ manifest'[p] = m
      /\ \A q \in Members \ {p} : manifest'[q] = manifest[q] /\ posted'[q] = posted[q]
      /\ \A g \in Namespaces : posted'[p][g] = IF g = ns[p] THEN m ELSE posted[p][g]
  BY PublishStep
<1>3. saved' = [saved EXCEPT ![p] = [manifest |-> m, ns |-> ns[p]]]
  BY <1>2 DEF PersistPublished
<1>4. /\ saved' \in [Members -> [manifest : Manifest, ns : Namespaces]]
      /\ saved'[p] = [manifest |-> m, ns |-> ns[p]]
      /\ saved'[p].manifest = m /\ saved'[p].ns = ns[p]
      /\ \A q \in Members \ {p} : saved'[q] = saved[q]
  BY <1>1, <1>3, SaveStep
<1> QED BY <1>2, <1>4 DEF Changed, Saves, ManifestTypes

LEMMA AttachFileEffect ==
    ASSUME Types, NEW t \in Tasks, NEW e \in Entries, NEW size, AttachFile(t, e, size)
    PROVE  LET p == Owner[t]
               m == [manifest[p] EXCEPT !.files = @ \cup {e}]
           IN  /\ Changed(p, m) /\ Saves(p, m)
               /\ m.files = manifest[p].files \cup {e} /\ m.gone = manifest[p].gone
               /\ m.versions = manifest[p].versions
<1> DEFINE p == Owner[t]
           m == [manifest[p] EXCEPT !.files = @ \cup {e}]
<1>1. p \in Members /\ manifest[p] \in Manifest
  BY OwnerType DEF Types, ManifestTypes
<1>2. /\ m \in Manifest /\ m.files = manifest[p].files \cup {e} /\ m.gone = manifest[p].gone
      /\ m.versions = manifest[p].versions
  BY <1>1 DEF Manifest
<1>3. Publish(p, m) /\ PersistPublished(p)
  BY DEF AttachFile
<1> HIDE DEF m, p
<1>4. Changed(p, m) /\ Saves(p, m)
  BY <1>1, <1>2, <1>3, PublishAndSave DEF Types, SpaceTypes
<1> QED BY <1>2, <1>4 DEF m, p

NewVersion(p, e, c, size, now) ==
  [entry |-> e, content |-> c, size |-> size, seq |-> NextSeq(manifest[p], e), at |-> now, author |-> p]

AddedTo(p, v) == [manifest[p] EXCEPT !.versions = @ \cup {v}]

LEMMA AddVersionType ==
    ASSUME Types, History, NEW p \in Members, NEW e \in Entries, NEW c \in Contents,
           NEW size \in 0..MaxSize, NEW now \in limit.times
    PROVE  LET v == NewVersion(p, e, c, size, now)
               m == AddedTo(p, v)
           IN  /\ v \in Version /\ m \in Manifest
               /\ m.files = manifest[p].files /\ m.gone = manifest[p].gone
               /\ m.versions = manifest[p].versions \cup {v}
               /\ v.entry = e /\ v.content = c /\ v.size = size /\ v.author = p
               /\ \A w \in AssetVersions(manifest[p], e) : w.seq < v.seq
<1> DEFINE v == NewVersion(p, e, c, size, now)
           m == AddedTo(p, v)
<1>1. manifest[p] \in Manifest
  BY DEF Types, ManifestTypes
<1>2. Capped(manifest[p].versions)
  <2>1. manifest[p].versions \in Lineages
    BY HeldType DEF Types
  <2> QED BY <2>1 DEF History, SoundLineages
<1>3. NextSeq(manifest[p], e) \in Nat /\ \A w \in AssetVersions(manifest[p], e) : w.seq < NextSeq(manifest[p], e)
  BY <1>1, <1>2, NextSeqAbove
<1>4. now \in Times
  BY LimitFacts DEF Types, TaskTypes
<1>5. v \in Version /\ v.entry = e /\ v.content = c /\ v.size = size /\ v.author = p /\ v.seq = NextSeq(manifest[p], e)
  BY <1>3, <1>4 DEF NewVersion, Version
<1> HIDE DEF v
<1>6. /\ m \in Manifest /\ m.files = manifest[p].files /\ m.gone = manifest[p].gone
      /\ m.versions = manifest[p].versions \cup {v}
  BY <1>1, <1>5 DEF Manifest, AddedTo
<1> QED BY <1>3, <1>5, <1>6 DEF v

(* m is p's manifest with v, a new version of e, in it. *)
Appended(p, e, c, size, v, m) ==
  /\ v \in Version /\ m \in Manifest
  /\ m.files = manifest[p].files /\ m.gone = manifest[p].gone
  /\ m.versions = manifest[p].versions \cup {v}
  /\ v.entry = e /\ v.content = c /\ v.size = size /\ v.author = p
  /\ \A w \in AssetVersions(manifest[p], e) : w.seq < v.seq

LEMMA AddedVersion ==
    ASSUME Types, History, NEW p \in Members, NEW e \in Entries, NEW c \in Contents,
           NEW size \in 0..MaxSize, NEW now \in limit.times,
           NEW v, v = NewVersion(p, e, c, size, now), NEW m, m = AddedTo(p, v)
    PROVE  Appended(p, e, c, size, v, m)
BY AddVersionType DEF Appended

LEMMA DeclareEffect ==
    ASSUME Types, History, NEW t \in Tasks, Declare(t), task[t].entry \in Entries, task[t].content \in Contents
    PROVE  \E now \in limit.times :
             LET p == Owner[t]
                 v == NewVersion(p, task[t].entry, task[t].content, task[t].size, now)
                 m == AddedTo(p, v)
             IN  Changed(p, m) /\ saved' = saved
<1> DEFINE p == Owner[t]
<1>1. p \in Members /\ ns[p] \in Namespaces
  BY OwnerType DEF Types, SpaceTypes
<1>2. task[t].size \in 0..MaxSize
  BY DEF Types, TaskTypes, TaskState
<1>3. PICK now \in limit.times :
        Publish(p, AddedTo(p, NewVersion(p, task[t].entry, task[t].content, task[t].size, now)))
  BY DEF Declare, AddAssetVersion, NewVersion, AddedTo
<1> DEFINE v == NewVersion(p, task[t].entry, task[t].content, task[t].size, now)
           m == AddedTo(p, v)
<1> HIDE DEF p
<1>4. m \in Manifest
  BY <1>1, <1>2, AddVersionType
<1> HIDE DEF m
<1>5. Publish(p, m)
  BY <1>3 DEF m
<1>6. /\ manifest' \in [Members -> Manifest] /\ posted' \in [Members -> [Namespaces -> Manifest]]
      /\ manifest'[p] = m
      /\ \A q \in Members \ {p} : manifest'[q] = manifest[q] /\ posted'[q] = posted[q]
      /\ \A g \in Namespaces : posted'[p][g] = IF g = ns[p] THEN m ELSE posted[p][g]
  BY <1>1, <1>4, <1>5, PublishStep DEF Types, SpaceTypes
<1>7. saved' = saved
  BY DEF Declare
<1>8. Changed(p, m)
  BY <1>1, <1>4, <1>6, <1>7 DEF Changed, Types, ManifestTypes
<1> QED BY <1>7, <1>8 DEF m, p

LEMMA PersistEffect ==
    ASSUME Types, NEW p \in Members, UNCHANGED <<manifest, posted>>,
           saved' = [saved EXCEPT ![p] = [manifest |-> manifest[p], ns |-> ns[p]]]
    PROVE  Changed(p, manifest[p]) /\ Saves(p, manifest[p])
<1>1. manifest[p] \in Manifest /\ ns[p] \in Namespaces
  BY DEF Types, ManifestTypes, SpaceTypes
<1>2. /\ saved' \in [Members -> [manifest : Manifest, ns : Namespaces]]
      /\ saved'[p] = [manifest |-> manifest[p], ns |-> ns[p]]
      /\ saved'[p].manifest = manifest[p] /\ saved'[p].ns = ns[p]
      /\ \A q \in Members \ {p} : saved'[q] = saved[q]
  BY <1>1, SaveStep DEF Types
<1> QED BY <1>1, <1>2 DEF Changed, Saves, Types, ManifestTypes

LEMMA DeleteEffect ==
    ASSUME Types, NEW p \in Members, NEW e, DeleteFile(p, e)
    PROVE  LET m == [manifest[p] EXCEPT !.gone = @ \cup {e}]
           IN  /\ Changed(p, m) /\ Saves(p, m)
               /\ m.files = manifest[p].files /\ m.gone = manifest[p].gone \cup {e}
               /\ m.versions = manifest[p].versions
               /\ Live(manifest[p], e) /\ e \in Entries
<1> DEFINE m == [manifest[p] EXCEPT !.gone = @ \cup {e}]
<1>1. manifest[p] \in Manifest
  BY DEF Types, ManifestTypes
<1>2. Live(manifest[p], e) /\ Publish(p, m) /\ PersistPublished(p)
  BY DEF DeleteFile
<1>3. e \in Entries
  BY <1>1, <1>2 DEF Live, Manifest
<1>4. /\ m \in Manifest /\ m.files = manifest[p].files /\ m.gone = manifest[p].gone \cup {e}
      /\ m.versions = manifest[p].versions
  BY <1>1, <1>3 DEF Manifest
<1> HIDE DEF m
<1>5. Changed(p, m) /\ Saves(p, m)
  BY <1>2, <1>4, PublishAndSave DEF Types, SpaceTypes
<1> QED BY <1>2, <1>3, <1>4, <1>5 DEF m

LEMMA RevertEffect ==
    ASSUME Types, History, NEW p \in Members, NEW e \in Entries, NEW v, RevertAsset(p, e, v)
    PROVE  /\ v \in manifest[p].versions /\ v \in AssetVersions(manifest[p], e) /\ v.entry = e
           /\ \E now \in limit.times :
                LET w == NewVersion(p, e, v.content, v.size, now)
                    m == AddedTo(p, w)
                IN  Changed(p, m) /\ Saves(p, m)
<1>1. v \in manifest[p].versions /\ v.entry = e /\ v \in AssetVersions(manifest[p], e)
  BY DEF RevertAsset, AssetVersions
<1>2. v \in Version /\ v.content \in Contents /\ v.size \in 0..MaxSize
  BY <1>1 DEF Types, ManifestTypes, Manifest, Version
<1>3. PICK now \in limit.times :
        Publish(p, AddedTo(p, NewVersion(p, e, v.content, v.size, now)))
  BY DEF RevertAsset, AddAssetVersion, NewVersion, AddedTo
<1> DEFINE w == NewVersion(p, e, v.content, v.size, now)
           m == AddedTo(p, w)
<1>4. m \in Manifest
  BY <1>2, AddVersionType
<1>5. Publish(p, m) /\ PersistPublished(p)
  BY <1>3 DEF RevertAsset
<1> HIDE DEF m
<1>6. Changed(p, m) /\ Saves(p, m)
  BY <1>4, <1>5, PublishAndSave DEF Types, SpaceTypes
<1> QED BY <1>1, <1>6 DEF m

(* A revert publishes and saves a manifest with a new version of v's content. *)
Reverted(p, e, v, w, m) == Changed(p, m) /\ Saves(p, m) /\ Appended(p, e, v.content, v.size, w, m)

LEMMA RevertAdds ==
    ASSUME Types, History, NEW p \in Members, NEW e \in Entries, NEW v, RevertAsset(p, e, v)
    PROVE  \E w, m : Reverted(p, e, v, w, m)
<1>1. v \in manifest[p].versions
  BY RevertEffect
<1>2. v.content \in Contents /\ v.size \in 0..MaxSize
  BY <1>1 DEF Types, ManifestTypes, Manifest, Version
<1>3. PICK now \in limit.times :
        LET w == NewVersion(p, e, v.content, v.size, now)
            m == AddedTo(p, w)
        IN  Changed(p, m) /\ Saves(p, m)
  BY RevertEffect
<1>4. PICK w, m : w = NewVersion(p, e, v.content, v.size, now) /\ m = AddedTo(p, w)
  OBVIOUS
<1>5. Changed(p, m) /\ Saves(p, m)
  BY <1>3, <1>4
<1>6. Appended(p, e, v.content, v.size, w, m)
  BY <1>2, <1>4, AddedVersion
<1> QED BY <1>5, <1>6 DEF Reverted

LEMMA ArrivedEffect ==
    ASSUME Types, NEW p \in Members, NEW q \in Members, ManifestArrived(p, q)
    PROVE  LET m == Merge(manifest[p], posted[q][ns[p]])
           IN  /\ Changed(p, m) /\ Saves(p, m) /\ posted' = posted
               /\ posted[q][ns[p]] \in Manifest
               /\ m.files = manifest[p].files \cup posted[q][ns[p]].files
               /\ m.gone = manifest[p].gone \cup posted[q][ns[p]].gone
               /\ m.versions = manifest[p].versions \cup posted[q][ns[p]].versions
<1> DEFINE m == Merge(manifest[p], posted[q][ns[p]])
<1>1. manifest[p] \in Manifest /\ posted[q][ns[p]] \in Manifest /\ ns[p] \in Namespaces
  BY DEF Types, ManifestTypes, SpaceTypes
<1>2. /\ m \in Manifest
      /\ m.files = manifest[p].files \cup posted[q][ns[p]].files
      /\ m.gone = manifest[p].gone \cup posted[q][ns[p]].gone
      /\ m.versions = manifest[p].versions \cup posted[q][ns[p]].versions
  BY <1>1, MergeType
<1>3. /\ manifest' = [manifest EXCEPT ![p] = m] /\ posted' = posted
      /\ saved' = [saved EXCEPT ![p] = [manifest |-> m, ns |-> ns[p]]]
  BY DEF ManifestArrived
<1> HIDE DEF m
<1>4. /\ saved' \in [Members -> [manifest : Manifest, ns : Namespaces]]
      /\ saved'[p] = [manifest |-> m, ns |-> ns[p]]
      /\ saved'[p].manifest = m /\ saved'[p].ns = ns[p]
      /\ \A r \in Members \ {p} : saved'[r] = saved[r]
  BY <1>1, <1>2, <1>3, SaveStep DEF Types
<1>5. manifest' \in [Members -> Manifest] /\ manifest'[p] = m /\ \A r \in Members \ {p} : manifest'[r] = manifest[r]
  BY <1>2, <1>3 DEF Types, ManifestTypes
<1>6. Changed(p, m) /\ Saves(p, m)
  BY <1>2, <1>3, <1>4, <1>5 DEF Changed, Saves, Types, ManifestTypes
<1> QED BY <1>1, <1>2, <1>3, <1>6 DEF m

LEMMA FinishEffect ==
    ASSUME Types, NEW p \in Members, FinishAdopting(p)
    PROVE  Changed(p, manifest[p]) /\ saved' = saved
<1>1. manifest[p] \in Manifest /\ ns[p] \in Namespaces
  BY DEF Types, ManifestTypes, SpaceTypes
<1>2. posted' = [posted EXCEPT ![p][ns[p]] = manifest[p]] /\ UNCHANGED <<manifest, saved>>
  BY DEF FinishAdopting
<1> QED BY <1>1, <1>2 DEF Changed, Types, ManifestTypes

LEMMA RestartEffect ==
    ASSUME Types, NEW p \in Members, Restart(p)
    PROVE  Changed(p, saved[p].manifest) /\ saved' = saved
<1>1. saved[p].manifest \in Manifest /\ saved[p].ns \in Namespaces
  BY DEF Types, ManifestTypes
<1>2. /\ posted' = [posted EXCEPT ![p][saved[p].ns] = saved[p].manifest]
      /\ manifest' = [manifest EXCEPT ![p] = saved[p].manifest] /\ saved' = saved
  BY DEF Restart
<1> QED BY <1>1, <1>2 DEF Changed, Types, ManifestTypes

-----------------------------------------------------------------------------
(* What each step does to the entries of one's own.                        *)

OwnSame == \A q \in Members, g \in Namespaces, x \in Slots : Own(q, g, x)' <=> Own(q, g, x)
OwnAdds(p, s) ==
  \A q \in Members, g \in Namespaces, x \in Slots :
    Own(q, g, x)' <=> Own(q, g, x) \/ (q = p /\ g = ns[p] /\ x = s)
OwnDrops(p, h, cs) ==
  \A q \in Members, g \in Namespaces, x \in Slots :
    Own(q, g, x)' <=> Own(q, g, x) /\ ~(q = p /\ g = h /\ x[1] \in cs)
IndexOK == index' \in IndexSpace /\ OwnNewest'

LEMMA UnchangedOwn ==
    ASSUME IInv, UNCHANGED index
    PROVE  IndexOK /\ OwnSame
BY DEF IInv, Types, IndexTypes, IndexOK, OwnSame, OwnNewest, Own, IsSet

LEMMA StoreAdds ==
    ASSUME IInv, NEW p \in Members, NEW s \in Slots, NEW for \in SUBSET Members, Store(p, s, for)
    PROVE  IndexOK /\ OwnAdds(p, s)
BY StoreOwn DEF IInv, Types, IndexTypes, SpaceTypes, IndexOK, OwnAdds

LEMMA WithdrawnDrops ==
    ASSUME IInv, NEW p \in Members, NEW h \in Namespaces, NEW cs, index' = Withdrawn(p, h, cs)
    PROVE  IndexOK /\ OwnDrops(p, h, cs)
BY WithdrawnOwn DEF IInv, Types, IndexTypes, IndexOK, OwnDrops

LEMMA TaskFacts ==
    ASSUME IInv, NEW t \in Tasks
    PROVE  /\ Owner[t] \in Members /\ ns[Owner[t]] \in Namespaces
           /\ task[t] \in TaskState /\ task[t].at \in Steps
           /\ task[t].size \in 0..MaxSize /\ task[t].seg \in 0..MaxSegments
           /\ SegmentsFor(task[t].size, SegmentBytes) \in 1..MaxSegments
           /\ MaxSegments \in Nat
           /\ Active(t) => task[t].content \in Contents
           /\ task[t].at # "idle" => task[t].entry \in Entries
<1>1. task[t] \in TaskState
  BY DEF IInv, Types, TaskTypes
<1>2. task[t].size \in 0..MaxSize /\ task[t].seg \in 0..MaxSegments /\ task[t].at \in Steps
  BY <1>1 DEF TaskState
<1>3. Active(t) => task[t].content \in Contents
  BY DEF IInv, TaskInv, Types, TaskTypes
<1>4. task[t].at # "idle" => task[t].entry \in Entries
  BY DEF IInv, Bounds, TaskBounds
<1>5. Owner[t] \in Members /\ ns[Owner[t]] \in Namespaces
  BY OwnerType DEF IInv, Types, SpaceTypes
<1> QED BY <1>1, <1>2, <1>3, <1>4, <1>5, SegmentCounts

LEMMA SealOwn ==
    ASSUME IInv, NEW t \in Tasks, NEW c \in Contents, Seal(t, c)
    PROVE  IndexOK /\ OwnAdds(Owner[t], <<c, 0>>) /\ <<c, 0>> \in Slots
<1>1. <<c, 0>> \in Slots
  <2>1. 0 \in 0..MaxSegments
    BY SegmentCounts
  <2> QED BY <2>1, SlotFacts
<1>2. group \in SUBSET Members /\ Owner[t] \in Members
  BY OwnerType DEF IInv, Types, GroupTypes
<1>3. Store(Owner[t], <<c, 0>>, group)
  BY DEF Seal
<1> QED BY <1>1, <1>2, <1>3, StoreAdds

LEMMA StoreSegmentOwn ==
    ASSUME IInv, NEW t \in Tasks, StoreSegment(t)
    PROVE  LET s == <<task[t].content, task[t].seg + 1>>
           IN  IndexOK /\ OwnAdds(Owner[t], s) /\ s \in Slots /\ IsSegment(s)
               /\ s[1] = task[t].content /\ s[2] = task[t].seg + 1 /\ task[t].seg + 1 \in 1..MaxSegments
<1> DEFINE s == <<task[t].content, task[t].seg + 1>>
<1>1. task[t].at = "write" /\ task[t].seg < SegmentsFor(task[t].size, SegmentBytes) /\ Store(Owner[t], s, {})
  BY DEF StoreSegment
<1>2. task[t].content \in Contents
  BY <1>1, TaskFacts DEF Active, Undeclared, Writing
<1>3. task[t].seg + 1 \in 1..MaxSegments /\ task[t].seg + 1 \in 0..MaxSegments /\ Owner[t] \in Members
  BY <1>1, TaskFacts
<1>4. s \in Slots /\ s[1] = task[t].content /\ s[2] = task[t].seg + 1
  BY <1>2, <1>3, SlotFacts
<1>5. IsSegment(s)
  BY <1>3, <1>4 DEF IsSegment
<1> HIDE DEF s
<1>6. IndexOK /\ OwnAdds(Owner[t], s)
  BY <1>1, <1>3, <1>4, StoreAdds
<1> QED BY <1>3, <1>4, <1>5, <1>6 DEF s

LEMMA DiscardOwn ==
    ASSUME IInv, NEW t \in Tasks, Discard(t)
    PROVE  IndexOK /\ OwnDrops(Owner[t], ns[Owner[t]], {task[t].content})
BY TaskFacts, WithdrawnDrops DEF Discard

LEMMA DeleteOwn ==
    ASSUME IInv, NEW p \in Members, NEW e, DeleteFile(p, e)
    PROVE  IndexOK /\ OwnDrops(p, ns[p], {v.content : v \in AssetVersions(manifest[p], e)})
<1>1. ns[p] \in Namespaces
  BY DEF IInv, Types, SpaceTypes
<1> QED BY <1>1, WithdrawnDrops DEF DeleteFile

LEMMA StoreKeyOwn ==
    ASSUME IInv, NEW q \in Members, StoreKey(q)
    PROVE  LET s == <<reseal[q].content, 0>>
           IN  IndexOK /\ OwnAdds(q, s) /\ s \in Slots /\ ~IsSegment(s)
<1> DEFINE s == <<reseal[q].content, 0>>
<1>1. reseal[q].content \in Contents /\ reseal[q].readable \in SUBSET Members
  BY DEF StoreKey, IInv, Types, GroupTypes
<1>2. 0 \in 0..MaxSegments
  BY SegmentCounts
<1>3. s \in Slots /\ s[2] = 0
  BY <1>1, <1>2, SlotFacts
<1>4. ~IsSegment(s)
  BY <1>3 DEF IsSegment
<1>5. Store(q, s, reseal[q].readable)
  BY DEF StoreKey
<1> HIDE DEF s
<1>6. IndexOK /\ OwnAdds(q, s)
  BY <1>1, <1>3, <1>5, StoreAdds
<1> QED BY <1>3, <1>4, <1>6 DEF s

LEMMA ReconcileSame ==
    ASSUME IInv, NEW p \in Members, NEW q \in Members, NEW a \in Members, NEW s \in Slots, Reconcile(p, q, a, s)
    PROVE  IndexOK /\ OwnSame
BY ReconcileOwn DEF IInv, Types, IndexTypes, SpaceTypes, IndexOK, OwnSame

LEMMA CarryOwn ==
    ASSUME IInv, NEW p \in Members, NEW s \in Slots, Carry(p, s)
    PROVE  /\ IndexOK
           /\ \/ OwnAdds(p, s)
              \/ OwnSame /\ (~Indexed(p, 1, s) \/ (IsSegment(s) /\ s \notin blobs[p]))
<1>1. CASE \E a \in Members : Store(p, s, index[p][1][a][s].readable)
  <2>1. PICK a \in Members : Store(p, s, index[p][1][a][s].readable)
    BY <1>1
  <2>2. index[p][1][a][s] \in IndexEntry
    BY EntryType DEF IInv, Types, IndexTypes, Namespaces
  <2>3. index[p][1][a][s].readable \in SUBSET Members
    BY <2>2 DEF IndexEntry
  <2> QED BY <2>1, <2>3, StoreAdds
<1>2. CASE UNCHANGED index /\ (~Indexed(p, 1, s) \/ (IsSegment(s) /\ s \notin blobs[p]))
  BY <1>2, UnchangedOwn
<1> QED BY <1>1, <1>2 DEF Carry

LEMMA RestartOwn ==
    ASSUME IInv, NEW p \in Members, Restart(p)
    PROVE  IndexOK /\ OwnDrops(p, saved[p].ns, pending[p])
<1>1. saved[p].ns \in Namespaces /\ index' = Withdrawn(p, saved[p].ns, pending[p])
  BY DEF Restart, IInv, Types, ManifestTypes
<1> QED BY <1>1, WithdrawnDrops

-----------------------------------------------------------------------------
(* Types.                                                                  *)

LEMMA ManifestTypesStep ==
    ASSUME IInv, [Next]_vars
    PROVE  ManifestTypes'
<1>1. ASSUME UNCHANGED <<manifest, posted, saved>>
      PROVE  ManifestTypes'
  BY <1>1 DEF IInv, Types, ManifestTypes
<1>2. ASSUME NEW t, \/ \E e, size : AttachVersion(t, e, size)
                    \/ \E c : Seal(t, c)
                    \/ SealRefused(t) \/ NoteLoad(t) \/ NoteStore(t) \/ StoreSegment(t)
                    \/ SegmentFails(t) \/ DeclareRefused(t) \/ Discard(t) \/ ClearLoad(t)
                    \/ ClearStore(t)
      PROVE  UNCHANGED <<manifest, posted, saved>>
  BY <1>2, Zenon DEF AttachVersion, Seal, SealRefused, NoteLoad, NoteStore, StoreSegment,
     SegmentFails, DeclareRefused, Discard, ClearLoad, ClearStore, manifestVars
<1>3. ASSUME NEW p, \/ \E v, i : Export(p, v, i)
                    \/ \E a, c : RequestRepair(p, a, c)
                    \/ \E q, a, s : Reconcile(p, q, a, s)
                    \/ \E s : Carry(p, s)
                    \/ StoreKey(p) \/ AdoptNamespace(p) \/ Join(p) \/ Demote(p)
      PROVE  UNCHANGED <<manifest, posted, saved>>
  BY <1>3, Zenon DEF Export, RequestRepair, Reconcile, Carry, StoreKey, AdoptNamespace, Join,
     Demote, manifestVars
<1>4. ASSUME NEW r, AnswerRepair(r)
      PROVE  UNCHANGED <<manifest, posted, saved>>
  BY <1>4, Zenon DEF AnswerRepair, manifestVars
<1>5. ASSUME NEW t \in Tasks, NEW e \in Entries, NEW size \in 0..MaxSize, AttachFile(t, e, size)
      PROVE  ManifestTypes'
  BY <1>5, AttachFileEffect DEF IInv, Changed
<1>6. ASSUME NEW t \in Tasks, Declare(t)
      PROVE  ManifestTypes'
  <2>1. task[t].entry \in Entries /\ task[t].content \in Contents
    BY <1>6, TaskFacts DEF Declare, Complete, Active, Undeclared, Writing
  <2> QED BY <1>6, <2>1, DeclareEffect DEF IInv, Changed
<1>7. ASSUME NEW t \in Tasks, Persist(t)
      PROVE  ManifestTypes'
  BY <1>7, OwnerType, PersistEffect DEF IInv, Changed, Persist
<1>8. ASSUME NEW t \in Tasks, Withdraw(t)
      PROVE  ManifestTypes'
  <2>1. CASE DeleteFile(Owner[t], task[t].entry)
    BY <2>1, OwnerType, DeleteEffect DEF IInv, Changed
  <2> QED BY <1>8, <1>1, <2>1 DEF Withdraw, manifestVars
<1>9. ASSUME NEW p \in Members, NEW e \in Entries, Delete(p, e)
      PROVE  ManifestTypes'
  BY <1>9, DeleteEffect DEF IInv, Changed, Delete
<1>10. ASSUME NEW p \in Members, NEW e \in Entries, NEW v \in AllVersions(manifest[p]),
              RevertAsset(p, e, v)
      PROVE  ManifestTypes'
  BY <1>10, RevertEffect DEF IInv, Changed
<1>11. ASSUME NEW p \in Members, NEW q \in Members, ManifestArrived(p, q)
      PROVE  ManifestTypes'
  BY <1>11, ArrivedEffect DEF IInv, Changed
<1>12. ASSUME NEW p \in Members, FinishAdopting(p)
      PROVE  ManifestTypes'
  BY <1>12, FinishEffect DEF IInv, Changed
<1>13. ASSUME NEW p \in Members, Snapshot(p)
      PROVE  ManifestTypes'
  BY <1>13, PersistEffect DEF IInv, Changed, Snapshot
<1>14. ASSUME NEW p \in Members, Restart(p)
      PROVE  ManifestTypes'
  BY <1>14, RestartEffect DEF IInv, Changed
<1>15. ASSUME UNCHANGED vars
      PROVE  UNCHANGED <<manifest, posted, saved>>
  BY <1>15, Zenon DEF vars, manifestVars
<1>16. limit.tasks \subseteq Tasks /\ limit.sizes \subseteq 0..MaxSize
  BY LimitFacts DEF IInv, Types, TaskTypes
<1> QED BY <1>1, <1>2, <1>3, <1>4, <1>5, <1>6, <1>7, <1>8, <1>9, <1>10, <1>11, <1>12, <1>13,
           <1>14, <1>15, <1>16 DEF Next

LEMMA IndexStep ==
    ASSUME IInv, [Next]_vars
    PROVE  IndexOK
<1>1. ASSUME UNCHANGED <<index>>
      PROVE  IndexOK
  BY <1>1, UnchangedOwn
<1>2. ASSUME NEW t, \/ \E e, size : AttachFile(t, e, size)
                    \/ \E e, size : AttachVersion(t, e, size)
                    \/ SealRefused(t) \/ NoteLoad(t) \/ NoteStore(t) \/ SegmentFails(t)
                    \/ Declare(t) \/ DeclareRefused(t) \/ Persist(t) \/ ClearLoad(t)
                    \/ ClearStore(t)
      PROVE  UNCHANGED <<index>>
  BY <1>2, Zenon DEF AttachFile, AttachVersion, SealRefused, NoteLoad, NoteStore, SegmentFails,
     Declare, DeclareRefused, Persist, ClearLoad, ClearStore, indexVars
<1>3. ASSUME NEW p, \/ \E e, v : RevertAsset(p, e, v)
                    \/ \E v, i : Export(p, v, i)
                    \/ \E a, c : RequestRepair(p, a, c)
                    \/ \E q : ManifestArrived(p, q)
                    \/ AdoptNamespace(p) \/ FinishAdopting(p) \/ Snapshot(p) \/ Join(p)
                    \/ Demote(p)
      PROVE  UNCHANGED <<index>>
  BY <1>3, Zenon DEF RevertAsset, Export, RequestRepair, ManifestArrived, AdoptNamespace,
     FinishAdopting, Snapshot, Join, Demote, indexVars
<1>4. ASSUME NEW r, AnswerRepair(r)
      PROVE  UNCHANGED <<index>>
  BY <1>4, Zenon DEF AnswerRepair, indexVars
<1>5. ASSUME NEW t \in Tasks, NEW c \in Contents, Seal(t, c)
      PROVE  IndexOK
  BY <1>5, SealOwn
<1>6. ASSUME NEW t \in Tasks, StoreSegment(t)
      PROVE  IndexOK
  BY <1>6, StoreSegmentOwn
<1>7. ASSUME NEW t \in Tasks, Discard(t)
      PROVE  IndexOK
  BY <1>7, DiscardOwn
<1>8. ASSUME NEW t \in Tasks, Withdraw(t)
      PROVE  IndexOK
  BY <1>8, <1>1, OwnerType, DeleteOwn DEF Withdraw, indexVars
<1>9. ASSUME NEW p \in Members, NEW e \in Entries, Delete(p, e)
      PROVE  IndexOK
  BY <1>9, DeleteOwn DEF Delete
<1>10. ASSUME NEW p \in Members, NEW q \in Members, NEW a \in Members, NEW s \in Slots,
              Reconcile(p, q, a, s)
      PROVE  IndexOK
  BY <1>10, ReconcileSame
<1>11. ASSUME NEW p \in Members, NEW s \in Slots, Carry(p, s)
      PROVE  IndexOK
  BY <1>11, CarryOwn
<1>12. ASSUME NEW p \in Members, StoreKey(p)
      PROVE  IndexOK
  BY <1>12, StoreKeyOwn
<1>13. ASSUME NEW p \in Members, Restart(p)
      PROVE  IndexOK
  BY <1>13, RestartOwn
<1>14. ASSUME UNCHANGED vars
      PROVE  UNCHANGED <<index>>
  BY <1>14, Zenon DEF vars, indexVars
<1> QED BY <1>1, <1>2, <1>3, <1>4, <1>5, <1>6, <1>7, <1>8, <1>9, <1>10, <1>11, <1>12, <1>13,
           <1>14 DEF Next

Holdings ==
  /\ blobs \in [Members -> SUBSET Slots]
  /\ policy \in [Members -> SUBSET Contents]
  /\ asked \in [Members -> SUBSET Slots]

LEMMA HoldingsStep ==
    ASSUME IInv, [Next]_vars
    PROVE  Holdings'
<1>1. ASSUME UNCHANGED <<blobs, policy, asked>>
      PROVE  Holdings'
  BY <1>1 DEF Holdings, IInv, Types, IndexTypes
<1>2. ASSUME NEW t, \/ \E e, size : AttachFile(t, e, size)
                    \/ \E e, size : AttachVersion(t, e, size)
                    \/ \E c : Seal(t, c)
                    \/ SealRefused(t) \/ NoteLoad(t) \/ NoteStore(t) \/ SegmentFails(t)
                    \/ Declare(t) \/ DeclareRefused(t) \/ Discard(t) \/ ClearLoad(t)
                    \/ ClearStore(t)
      PROVE  UNCHANGED <<blobs, policy, asked>>
  BY <1>2, Zenon DEF AttachFile, AttachVersion, Seal, SealRefused, NoteLoad, NoteStore,
     SegmentFails, Declare, DeclareRefused, Discard, ClearLoad, ClearStore, indexVars
<1>3. ASSUME NEW p, \/ \E a, c : RequestRepair(p, a, c)
                    \/ \E s : Carry(p, s)
                    \/ StoreKey(p) \/ AdoptNamespace(p) \/ Snapshot(p) \/ Join(p) \/ Demote(p)
      PROVE  UNCHANGED <<blobs, policy, asked>>
  BY <1>3, Zenon DEF RequestRepair, Carry, StoreKey, AdoptNamespace, Snapshot, Join, Demote,
     indexVars
<1>4. ASSUME NEW r, AnswerRepair(r)
      PROVE  UNCHANGED <<blobs, policy, asked>>
  BY <1>4, Zenon DEF AnswerRepair, indexVars
<1>5. ASSUME NEW t \in Tasks, StoreSegment(t)
      PROVE  Holdings'
  <2>1. PICK p, s : p = Owner[t] /\ s = <<task[t].content, task[t].seg + 1>>
    OBVIOUS
  <2>2. p \in Members /\ s \in Slots
    BY <1>5, <2>1, StoreSegmentOwn, OwnerType
  <2>3. /\ blobs' = [blobs EXCEPT ![p] = @ \cup {s}] /\ asked' = [asked EXCEPT ![p] = @ \cup {s}]
        /\ policy' = policy
    BY <1>5, <2>1 DEF StoreSegment
  <2>4. Holdings
    BY DEF Holdings, IInv, Types, IndexTypes
  <2> QED BY <2>2, <2>3, <2>4 DEF Holdings
<1>6. ASSUME NEW t \in Tasks, Persist(t)
      PROVE  Holdings'
  BY <1>6, OwnerType, ManifestFacts DEF Persist, RefreshDownloadPolicy, ManifestTypes, Holdings, IInv, Types, IndexTypes
<1>7. ASSUME NEW t \in Tasks, Withdraw(t)
      PROVE  Holdings'
  BY <1>7, <1>1 DEF Withdraw, DeleteFile, indexVars
<1>8. ASSUME NEW p \in Members, NEW e \in Entries, Delete(p, e)
      PROVE  Holdings'
  BY <1>8, <1>1 DEF Delete, DeleteFile
<1>9. ASSUME NEW p \in Members, NEW e \in Entries, NEW v \in AllVersions(manifest[p]),
              RevertAsset(p, e, v)
      PROVE  Holdings'
  <2>1. manifest'[p] \in Manifest
    BY <1>9, ManifestTypesStep DEF Next, ManifestTypes
  <2> QED BY <1>9, <2>1, ManifestFacts DEF RevertAsset, Holdings, IInv, Types, IndexTypes
<1>10. ASSUME NEW p \in Members, NEW v \in AllVersions(manifest[p]), NEW i \in 1..MaxSegments,
              Export(p, v, i)
      PROVE  Holdings'
  <2>1. v \in Version
    BY <1>10, ManifestFacts DEF IInv, Types, ManifestTypes
  <2>2. <<v.content, i>> \in Slots
    BY <2>1, VersionSlots, SlotFacts
  <2> QED BY <1>10, <2>2 DEF Export, Holdings, IInv, Types, IndexTypes
<1>11. ASSUME NEW p \in Members, NEW q \in Members, ManifestArrived(p, q)
      PROVE  Holdings'
  <2>1. Merge(manifest[p], posted[q][ns[p]]) \in Manifest
    BY MergeType DEF IInv, Types, ManifestTypes, SpaceTypes
  <2> QED BY <1>11, <2>1, ManifestFacts DEF ManifestArrived, Holdings, IInv, Types, IndexTypes
<1>12. ASSUME NEW p \in Members, NEW q \in Members, NEW a \in Members, NEW s \in Slots,
              Reconcile(p, q, a, s)
      PROVE  Holdings'
  BY <1>12 DEF Reconcile, Holdings, IInv, Types, IndexTypes
<1>13. ASSUME NEW p \in Members, FinishAdopting(p)
      PROVE  Holdings'
  BY <1>13, ManifestFacts DEF FinishAdopting, RefreshDownloadPolicy, ManifestTypes, Holdings, IInv, Types, IndexTypes
<1>14. ASSUME NEW p \in Members, Restart(p)
      PROVE  Holdings'
  <2>1. saved[p].manifest \in Manifest
    BY DEF IInv, Types, ManifestTypes
  <2> QED BY <1>14, <2>1, ManifestFacts DEF Restart, Holdings, IInv, Types, IndexTypes
<1>15. ASSUME UNCHANGED vars
      PROVE  UNCHANGED <<blobs, policy, asked>>
  BY <1>15, Zenon DEF vars, indexVars
<1> QED BY <1>1, <1>2, <1>3, <1>4, <1>5, <1>6, <1>7, <1>8, <1>9, <1>10, <1>11, <1>12, <1>13,
           <1>14, <1>15 DEF Next

LEMMA SpaceTypesStep ==
    ASSUME IInv, [Next]_vars
    PROVE  SpaceTypes'
<1>1. ASSUME UNCHANGED <<ns, carry, adopting>>
      PROVE  SpaceTypes'
  BY <1>1 DEF IInv, Types, SpaceTypes, Namespaces
<1>2. ASSUME NEW t, \/ \E e, size : AttachFile(t, e, size)
                    \/ \E e, size : AttachVersion(t, e, size)
                    \/ \E c : Seal(t, c)
                    \/ SealRefused(t) \/ NoteLoad(t) \/ NoteStore(t) \/ StoreSegment(t)
                    \/ SegmentFails(t) \/ Declare(t) \/ DeclareRefused(t) \/ Persist(t)
                    \/ Discard(t) \/ ClearLoad(t) \/ ClearStore(t) \/ Withdraw(t)
      PROVE  UNCHANGED <<ns, carry, adopting>>
  BY <1>2, Zenon DEF AttachFile, AttachVersion, Seal, SealRefused, NoteLoad, NoteStore,
     StoreSegment, SegmentFails, Declare, DeclareRefused, Persist, Discard, ClearLoad,
     ClearStore, Withdraw, spaceVars
<1>3. ASSUME NEW p, \/ \E e : Delete(p, e)
                    \/ \E e, v : RevertAsset(p, e, v)
                    \/ \E v, i : Export(p, v, i)
                    \/ \E a, c : RequestRepair(p, a, c)
                    \/ \E q : ManifestArrived(p, q)
                    \/ \E q, a, s : Reconcile(p, q, a, s)
                    \/ StoreKey(p) \/ Snapshot(p) \/ Join(p) \/ Demote(p)
      PROVE  UNCHANGED <<ns, carry, adopting>>
  BY <1>3, Zenon DEF Delete, RevertAsset, Export, RequestRepair, ManifestArrived, Reconcile,
     StoreKey, Snapshot, Join, Demote, spaceVars
<1>4. ASSUME NEW r, AnswerRepair(r)
      PROVE  UNCHANGED <<ns, carry, adopting>>
  BY <1>4, Zenon DEF AnswerRepair, spaceVars
<1>5. ASSUME NEW p \in Members, NEW s \in Slots, Carry(p, s)
      PROVE  SpaceTypes'
  BY <1>5 DEF Carry, IInv, Types, SpaceTypes, Namespaces
<1>6. ASSUME NEW p \in Members, AdoptNamespace(p)
      PROVE  SpaceTypes'
  BY <1>6, ManifestFacts DEF AdoptNamespace, ManifestTypes, IInv, Types, SpaceTypes, Namespaces
<1>7. ASSUME NEW p \in Members, FinishAdopting(p)
      PROVE  SpaceTypes'
  BY <1>7 DEF FinishAdopting, IInv, Types, SpaceTypes, Namespaces
<1>8. ASSUME NEW p \in Members, Restart(p)
      PROVE  SpaceTypes'
  BY <1>8 DEF Restart, ManifestTypes, IInv, Types, SpaceTypes, Namespaces
<1>9. ASSUME UNCHANGED vars
      PROVE  UNCHANGED <<ns, carry, adopting>>
  BY <1>9, Zenon DEF vars, spaceVars
<1> QED BY <1>1, <1>2, <1>3, <1>4, <1>5, <1>6, <1>7, <1>8, <1>9 DEF Next

LEMMA GroupTypesStep ==
    ASSUME IInv, [Next]_vars
    PROVE  GroupTypes'
<1>1. ASSUME UNCHANGED <<writers, group, repairs, reseal>>
      PROVE  GroupTypes'
  BY <1>1 DEF IInv, Types, GroupTypes
<1>2. ASSUME NEW t, \/ \E e, size : AttachFile(t, e, size)
                    \/ \E e, size : AttachVersion(t, e, size)
                    \/ \E c : Seal(t, c)
                    \/ SealRefused(t) \/ NoteLoad(t) \/ NoteStore(t) \/ StoreSegment(t)
                    \/ SegmentFails(t) \/ Declare(t) \/ DeclareRefused(t) \/ Persist(t)
                    \/ Discard(t) \/ ClearLoad(t) \/ ClearStore(t) \/ Withdraw(t)
      PROVE  UNCHANGED <<writers, group, repairs, reseal>>
  BY <1>2, Zenon DEF AttachFile, AttachVersion, Seal, SealRefused, NoteLoad, NoteStore,
     StoreSegment, SegmentFails, Declare, DeclareRefused, Persist, Discard, ClearLoad,
     ClearStore, Withdraw, groupVars
<1>3. ASSUME NEW p, \/ \E e : Delete(p, e)
                    \/ \E e, v : RevertAsset(p, e, v)
                    \/ \E v, i : Export(p, v, i)
                    \/ \E q : ManifestArrived(p, q)
                    \/ \E q, a, s : Reconcile(p, q, a, s)
                    \/ \E s : Carry(p, s)
                    \/ AdoptNamespace(p) \/ FinishAdopting(p) \/ Snapshot(p)
      PROVE  UNCHANGED <<writers, group, repairs, reseal>>
  BY <1>3, Zenon DEF Delete, RevertAsset, Export, ManifestArrived, Reconcile, Carry,
     AdoptNamespace, FinishAdopting, Snapshot, groupVars
<1>4. ASSUME NEW p \in Members, NEW a \in Members, NEW c \in Contents, RequestRepair(p, a, c)
      PROVE  GroupTypes'
  <2>1. {[to |-> x, from |-> p, content |-> c] : x \in Members \ {p}}
          \subseteq [to : Members, from : Members, content : Contents]
    OBVIOUS
  <2>2. repairs' \subseteq [to : Members, from : Members, content : Contents]
    BY <1>4, <2>1 DEF RequestRepair, IInv, Types, GroupTypes
  <2>3. reseal' = reseal /\ writers' = writers /\ group' = group
    BY <1>4 DEF RequestRepair
  <2> QED BY <2>2, <2>3 DEF IInv, Types, GroupTypes
<1>5. ASSUME NEW p \in Members, StoreKey(p)
      PROVE  GroupTypes'
  BY <1>5 DEF StoreKey, NoReseal, IInv, Types, GroupTypes
<1>6. ASSUME NEW p \in Members, Join(p)
      PROVE  GroupTypes'
  BY <1>6 DEF Join, IInv, Types, GroupTypes
<1>7. ASSUME NEW p \in Members, Demote(p)
      PROVE  GroupTypes'
  BY <1>7 DEF Demote, IInv, Types, GroupTypes
<1>8. ASSUME NEW p \in Members, Restart(p)
      PROVE  GroupTypes'
  BY <1>8 DEF Restart, NoReseal, IInv, Types, GroupTypes
<1>9. ASSUME NEW r \in repairs, AnswerRepair(r)
      PROVE  GroupTypes'
  <2>1. r \in [to : Members, from : Members, content : Contents]
    BY DEF IInv, Types, GroupTypes
  <2>2. r.to \in Members /\ r.content \in Contents
    BY <2>1
  <2> QED BY <1>9, <2>2 DEF AnswerRepair, IInv, Types, GroupTypes
<1>10. ASSUME UNCHANGED vars
      PROVE  UNCHANGED <<writers, group, repairs, reseal>>
  BY <1>10, Zenon DEF vars, groupVars
<1> QED BY <1>1, <1>2, <1>3, <1>4, <1>5, <1>6, <1>7, <1>8, <1>9, <1>10 DEF Next

-----------------------------------------------------------------------------
(* What a step makes of a task.                                            *)

TaskBecomes(t, at, ok, c, seg, log) ==
  /\ task' \in [Tasks -> TaskState]
  /\ \A x \in Tasks \ {t} : task'[x] = task[x]
  /\ task'[t].at = at /\ task'[t].ok = ok /\ task'[t].content = c
  /\ task'[t].seg = seg /\ task'[t].log = log
  /\ seg <= SegmentsFor(task'[t].size, SegmentBytes)
  /\ at # "idle" => task'[t].entry \in Entries

LEMMA GotoTask ==
    ASSUME IInv, NEW t \in Tasks, NEW step \in Steps, task[t].at # "idle", Goto(t, step)
    PROVE  TaskBecomes(t, step, task[t].ok, task[t].content, task[t].seg, task[t].log)
<1>1. task \in [Tasks -> TaskState] /\ task[t] \in TaskState
  BY DEF IInv, Types, TaskTypes
<1>2. task' = [task EXCEPT ![t] = [task[t] EXCEPT !.at = step]]
  BY DEF Goto
<1>3. [task[t] EXCEPT !.at = step] \in TaskState
  BY <1>1 DEF TaskState
<1>4. task'[t] = [task[t] EXCEPT !.at = step]
  BY <1>1, <1>2
<1>5. task'[t].at = step /\ task'[t].ok = task[t].ok /\ task'[t].content = task[t].content
      /\ task'[t].seg = task[t].seg /\ task'[t].log = task[t].log
      /\ task'[t].size = task[t].size /\ task'[t].entry = task[t].entry
  BY <1>1, <1>4 DEF TaskState
<1>6. task[t].seg <= SegmentsFor(task[t].size, SegmentBytes) /\ task[t].entry \in Entries
  BY DEF IInv, Bounds, TaskBounds
<1> QED BY <1>1, <1>2, <1>3, <1>5, <1>6 DEF TaskBecomes

LEMMA StartTask ==
    ASSUME IInv, NEW t \in Tasks, NEW e \in Entries, NEW size \in 0..MaxSize,
           AttachFile(t, e, size) \/ AttachVersion(t, e, size)
    PROVE  TaskBecomes(t, "seal", TRUE, NoContent, 0, {})
<1>1. task \in [Tasks -> TaskState]
  BY DEF IInv, Types, TaskTypes
<1>2. PICK f \in BOOLEAN : task' = [task EXCEPT ![t] =
        [Idle EXCEPT !.at = "seal", !.file = f, !.entry = e, !.size = size]]
  <2>1. CASE AttachFile(t, e, size)
    BY <2>1 DEF AttachFile
  <2>2. CASE AttachVersion(t, e, size)
    <3>1. [Idle EXCEPT !.at = "seal", !.entry = e, !.size = size] =
          [Idle EXCEPT !.at = "seal", !.file = FALSE, !.entry = e, !.size = size]
      <4>1. Idle \in TaskState /\ Idle.file = FALSE
        BY IdleType DEF Idle
      <4> QED BY <4>1 DEF TaskState
    <3> QED BY <2>2, <3>1 DEF AttachVersion
  <2> QED BY <2>1, <2>2
<1>3. task'[t] = [at |-> "seal", file |-> f, ok |-> TRUE, entry |-> e, content |-> NoContent,
                  size |-> size, seg |-> 0, log |-> {}]
  BY <1>1, <1>2 DEF Idle
<1>4. 0 <= SegmentsFor(size, SegmentBytes) /\ 0 \in 0..MaxSegments
  BY SegmentCounts
<1>5. task'[t] \in TaskState
  BY <1>3, <1>4 DEF TaskState, Steps
<1>6. \A x \in Tasks \ {t} : task'[x] = task[x]
  BY <1>1, <1>2
<1>7. task' \in [Tasks -> TaskState]
  BY <1>1, <1>2, <1>3, <1>5
<1> QED BY <1>3, <1>4, <1>6, <1>7 DEF TaskBecomes

LEMMA SealTask ==
    ASSUME IInv, NEW t \in Tasks, NEW c \in Contents, Seal(t, c)
    PROVE  TaskBecomes(t, "note", task[t].ok, c, task[t].seg, task[t].log)
<1>1. task \in [Tasks -> TaskState] /\ task[t] \in TaskState
  BY DEF IInv, Types, TaskTypes
<1>2. task' = [task EXCEPT ![t] = [task[t] EXCEPT !.at = "note", !.content = c]]
  BY <1>1 DEF Seal
<1>3. [task[t] EXCEPT !.at = "note", !.content = c] \in TaskState
  BY <1>1 DEF TaskState, Steps
<1>4. task'[t] = [task[t] EXCEPT !.at = "note", !.content = c]
  BY <1>1, <1>2
<1>5. task'[t].at = "note" /\ task'[t].ok = task[t].ok /\ task'[t].content = c
      /\ task'[t].seg = task[t].seg /\ task'[t].log = task[t].log
      /\ task'[t].size = task[t].size /\ task'[t].entry = task[t].entry
  BY <1>1, <1>4 DEF TaskState
<1>6. task[t].seg <= SegmentsFor(task[t].size, SegmentBytes) /\ task[t].entry \in Entries
  BY DEF IInv, Bounds, TaskBounds, Seal
<1> QED BY <1>1, <1>2, <1>3, <1>5, <1>6 DEF TaskBecomes

(* The log loaded, and stored. *)
LEMMA LoadTask ==
    ASSUME IInv, NEW t \in Tasks, NEW step \in Steps, NEW log \in SUBSET Contents, task[t].at # "idle",
           task' = [task EXCEPT ![t].at = step, ![t].log = log]
    PROVE  TaskBecomes(t, step, task[t].ok, task[t].content, task[t].seg, log)
<1>1. task \in [Tasks -> TaskState] /\ task[t] \in TaskState
  BY DEF IInv, Types, TaskTypes
<1>2. task' = [task EXCEPT ![t] = [task[t] EXCEPT !.at = step, !.log = log]]
  BY <1>1
<1>3. [task[t] EXCEPT !.at = step, !.log = log] \in TaskState
  BY <1>1 DEF TaskState
<1>4. task'[t] = [task[t] EXCEPT !.at = step, !.log = log]
  BY <1>1, <1>2
<1>5. task'[t].at = step /\ task'[t].ok = task[t].ok /\ task'[t].content = task[t].content
      /\ task'[t].seg = task[t].seg /\ task'[t].log = log
      /\ task'[t].size = task[t].size /\ task'[t].entry = task[t].entry
  BY <1>1, <1>4 DEF TaskState
<1>6. task[t].seg <= SegmentsFor(task[t].size, SegmentBytes) /\ task[t].entry \in Entries
  BY DEF IInv, Bounds, TaskBounds
<1> QED BY <1>1, <1>2, <1>3, <1>5, <1>6 DEF TaskBecomes

LEMMA LogTypes ==
    ASSUME IInv, NEW t \in Tasks
    PROVE  pending[Owner[t]] \in SUBSET Contents /\ task[t].log \in SUBSET Contents
BY TaskFacts, OwnerType DEF IInv, Types, TaskTypes, TaskState

LEMMA StoreSegmentTask ==
    ASSUME IInv, NEW t \in Tasks, StoreSegment(t)
    PROVE  TaskBecomes(t, "write", task[t].ok, task[t].content, task[t].seg + 1, task[t].log)
<1>1. task \in [Tasks -> TaskState] /\ task[t] \in TaskState /\ task[t].seg + 1 \in 0..MaxSegments
  BY TaskFacts DEF IInv, Types, TaskTypes, StoreSegment
<1>2. task' = [task EXCEPT ![t] = [task[t] EXCEPT !.seg = task[t].seg + 1]]
  BY <1>1 DEF StoreSegment
<1>3. [task[t] EXCEPT !.seg = task[t].seg + 1] \in TaskState
  BY <1>1 DEF TaskState
<1>4. task'[t] = [task[t] EXCEPT !.seg = task[t].seg + 1]
  BY <1>1, <1>2
<1>5. task'[t].at = task[t].at /\ task'[t].ok = task[t].ok /\ task'[t].content = task[t].content
      /\ task'[t].seg = task[t].seg + 1 /\ task'[t].log = task[t].log
      /\ task'[t].size = task[t].size /\ task'[t].entry = task[t].entry
  BY <1>1, <1>4 DEF TaskState
<1>6. task[t].seg + 1 <= SegmentsFor(task[t].size, SegmentBytes) /\ task[t].at = "write"
  BY TaskFacts DEF StoreSegment
<1>7. task[t].entry \in Entries
  BY <1>6 DEF IInv, Bounds, TaskBounds
<1> QED BY <1>1, <1>2, <1>3, <1>5, <1>6, <1>7 DEF TaskBecomes

LEMMA SegmentFailsTask ==
    ASSUME IInv, NEW t \in Tasks, SegmentFails(t)
    PROVE  TaskBecomes(t, "discard", FALSE, task[t].content, task[t].seg, task[t].log)
<1>1. task \in [Tasks -> TaskState] /\ task[t] \in TaskState
  BY DEF IInv, Types, TaskTypes
<1>2. task' = [task EXCEPT ![t] = [task[t] EXCEPT !.at = "discard", !.ok = FALSE]]
  BY <1>1 DEF SegmentFails
<1>3. [task[t] EXCEPT !.at = "discard", !.ok = FALSE] \in TaskState
  BY <1>1 DEF TaskState, Steps
<1>4. task'[t] = [task[t] EXCEPT !.at = "discard", !.ok = FALSE]
  BY <1>1, <1>2
<1>5. task'[t].at = "discard" /\ task'[t].ok = FALSE /\ task'[t].content = task[t].content
      /\ task'[t].seg = task[t].seg /\ task'[t].log = task[t].log
      /\ task'[t].size = task[t].size /\ task'[t].entry = task[t].entry
  BY <1>1, <1>4 DEF TaskState
<1>6. task[t].seg <= SegmentsFor(task[t].size, SegmentBytes) /\ task[t].entry \in Entries
  BY DEF IInv, Bounds, TaskBounds, SegmentFails
<1> QED BY <1>1, <1>2, <1>3, <1>5, <1>6 DEF TaskBecomes

LEMMA IdleTask ==
    ASSUME IInv, NEW t \in Tasks, task' = [task EXCEPT ![t] = Idle]
    PROVE  TaskBecomes(t, "idle", TRUE, NoContent, 0, {})
<1>1. task \in [Tasks -> TaskState]
  BY DEF IInv, Types, TaskTypes
<1>2. task'[t] = Idle /\ task' \in [Tasks -> TaskState] /\ \A x \in Tasks \ {t} : task'[x] = task[x]
  BY <1>1, IdleType
<1>3. 0 <= SegmentsFor(task'[t].size, SegmentBytes)
  BY <1>2, SegmentCounts, IdleType DEF TaskState
<1> QED BY <1>2, <1>3, IdleType DEF TaskBecomes

LEMMA ClearStoreTask ==
    ASSUME IInv, NEW t \in Tasks, ClearStore(t)
    PROVE  \/ TaskBecomes(t, "idle", TRUE, NoContent, 0, {})
           \/ TaskBecomes(t, "withdraw", task[t].ok, task[t].content, task[t].seg, {})
<1>1. CASE task[t].ok \/ ~task[t].file
  <2>1. task' = [task EXCEPT ![t] = Idle]
    BY <1>1 DEF ClearStore
  <2> QED BY <2>1, IdleTask
<1>2. CASE ~(task[t].ok \/ ~task[t].file)
  <2>1. task' = [task EXCEPT ![t].at = "withdraw", ![t].log = {}]
    BY <1>2 DEF ClearStore, IInv, Types, TaskTypes
  <2>2. task[t].at # "idle" /\ "withdraw" \in Steps
    BY DEF ClearStore, Steps
  <2> QED BY <2>1, <2>2, LoadTask
<1> QED BY <1>1, <1>2

LEMMA RestartTask ==
    ASSUME IInv, NEW p \in Members, Restart(p)
    PROVE  /\ task' \in [Tasks -> TaskState]
           /\ \A x \in Tasks : task'[x] = IF Owner[x] = p THEN Idle ELSE task[x]
<1>1. task \in [Tasks -> TaskState]
  BY DEF IInv, Types, TaskTypes
<1>2. task' = [x \in Tasks |-> IF x \in {t \in Tasks : Owner[t] = p} THEN Idle ELSE task[x]]
  BY DEF Restart
<1> QED BY <1>1, <1>2, IdleType

-----------------------------------------------------------------------------
(* Which lemma says what a step makes of its task.                         *)

LEMMA GotoSteps ==
    ASSUME IInv, NEW t \in Tasks
    PROVE  /\ SealRefused(t) \/ DeclareRefused(t) => \E step \in {"withdraw", "idle"} :
                TaskBecomes(t, step, task[t].ok, task[t].content, task[t].seg, task[t].log)
           /\ Declare(t) =>
                TaskBecomes(t, "declared", task[t].ok, task[t].content, task[t].seg, task[t].log)
           /\ Persist(t) \/ Discard(t) =>
                TaskBecomes(t, "clear", task[t].ok, task[t].content, task[t].seg, task[t].log)
           /\ NoteLoad(t) =>
                TaskBecomes(t, "noted", task[t].ok, task[t].content, task[t].seg, pending[Owner[t]])
           /\ NoteStore(t) =>
                TaskBecomes(t, "write", task[t].ok, task[t].content, task[t].seg, {})
           /\ ClearLoad(t) =>
                TaskBecomes(t, "clearing", task[t].ok, task[t].content, task[t].seg, pending[Owner[t]])
           /\ Withdraw(t) => TaskBecomes(t, "idle", TRUE, NoContent, 0, {})
<1>1. {"withdraw", "idle", "declared", "clear", "noted", "write", "clearing"} \subseteq Steps
  BY DEF Steps
<1>2. pending[Owner[t]] \in SUBSET Contents /\ {} \in SUBSET Contents
  BY LogTypes
<1>3. ASSUME SealRefused(t) \/ DeclareRefused(t)
      PROVE  \E step \in {"withdraw", "idle"} :
                TaskBecomes(t, step, task[t].ok, task[t].content, task[t].seg, task[t].log)
  BY <1>1, <1>3, GotoTask DEF SealRefused, DeclareRefused, Complete, Failed
<1>4. Declare(t) => TaskBecomes(t, "declared", task[t].ok, task[t].content, task[t].seg, task[t].log)
  BY <1>1, GotoTask DEF Declare, Complete
<1>5. Persist(t) \/ Discard(t) =>
        TaskBecomes(t, "clear", task[t].ok, task[t].content, task[t].seg, task[t].log)
  BY <1>1, GotoTask DEF Persist, Discard
<1>6. NoteLoad(t) =>
        TaskBecomes(t, "noted", task[t].ok, task[t].content, task[t].seg, pending[Owner[t]])
  BY <1>1, <1>2, LoadTask DEF NoteLoad
<1>7. NoteStore(t) => TaskBecomes(t, "write", task[t].ok, task[t].content, task[t].seg, {})
  BY <1>1, <1>2, LoadTask DEF NoteStore
<1>8. ClearLoad(t) =>
        TaskBecomes(t, "clearing", task[t].ok, task[t].content, task[t].seg, pending[Owner[t]])
  BY <1>1, <1>2, LoadTask DEF ClearLoad
<1>9. Withdraw(t) => TaskBecomes(t, "idle", TRUE, NoContent, 0, {})
  BY IdleTask DEF Withdraw
<1> QED BY <1>3, <1>4, <1>5, <1>6, <1>7, <1>8, <1>9

LEMMA OnceType ==
    ASSUME IInv, NEW kind, Once(kind)
    PROVE  limit' = limit /\ limit' \in Limits /\ done' \subseteq Kinds /\ done' \subseteq limit'.kinds
BY LimitFacts DEF Once, IInv, Types, TaskTypes, Bounds, MemberBounds, LimitBounds

LEMMA LogStep ==
    ASSUME IInv, NEW t \in Tasks, NEW log \in SUBSET used,
           \/ StoreLog(t, log) /\ UNCHANGED limitVars
           \/ LogFails(t)
    PROVE  /\ pending' \in [Members -> SUBSET Contents] /\ \A p \in Members : pending'[p] \subseteq used
           /\ limit' = limit /\ limit' \in Limits /\ done' \subseteq Kinds /\ done' \subseteq limit'.kinds
<1>1. Owner[t] \in Members /\ used \subseteq Contents /\ pending \in [Members -> SUBSET Contents]
      /\ \A p \in Members : pending[p] \subseteq used
  BY OwnerType DEF IInv, Types, TaskTypes, Bounds, MemberBounds, LimitBounds
<1>2. CASE StoreLog(t, log) /\ UNCHANGED limitVars
  BY <1>1, <1>2 DEF StoreLog, limitVars, IInv, Types, TaskTypes, Bounds, MemberBounds, LimitBounds
<1>3. CASE LogFails(t)
  BY <1>1, <1>3, OnceType DEF LogFails
<1> QED BY <1>2, <1>3

LEMMA TaskTypesStep ==
    ASSUME IInv, [Next]_vars
    PROVE  TaskTypes'
<1>1. ASSUME UNCHANGED <<pending, task, used, limit, done>>
      PROVE  TaskTypes'
  BY <1>1 DEF IInv, Types, TaskTypes
<1>2. ASSUME NEW p, \/ \E v, i : Export(p, v, i)
                    \/ \E a, c : RequestRepair(p, a, c)
                    \/ \E q : ManifestArrived(p, q)
                    \/ \E q, a, s : Reconcile(p, q, a, s)
                    \/ \E s : Carry(p, s)
                    \/ StoreKey(p) \/ AdoptNamespace(p) \/ FinishAdopting(p) \/ Snapshot(p)
      PROVE  UNCHANGED <<pending, task, used, limit, done>>
  BY <1>2, Zenon DEF Export, RequestRepair, ManifestArrived, Reconcile, Carry, StoreKey,
     AdoptNamespace, FinishAdopting, Snapshot, limitVars, logVars
<1>3. ASSUME NEW r, AnswerRepair(r)
      PROVE  UNCHANGED <<pending, task, used, limit, done>>
  BY <1>3, Zenon DEF AnswerRepair, limitVars, logVars
<1>4. ASSUME NEW t \in Tasks, NEW e \in Entries, NEW size \in 0..MaxSize, AttachFile(t, e, size)
      PROVE  TaskTypes'
  BY <1>4, StartTask DEF TaskBecomes, AttachFile, logVars, limitVars, IInv, Types, TaskTypes
<1>5. ASSUME NEW t \in Tasks, NEW e \in Entries, NEW size \in 0..MaxSize, AttachVersion(t, e,
              size)
      PROVE  TaskTypes'
  BY <1>5, StartTask DEF TaskBecomes, AttachVersion, logVars, limitVars, IInv, Types, TaskTypes
<1>6. ASSUME NEW t \in Tasks, NEW c \in Contents, Seal(t, c)
      PROVE  TaskTypes'
  BY <1>6, SealTask DEF TaskBecomes, Seal, logVars, limitVars, IInv, Types, TaskTypes
<1>7. ASSUME NEW t \in Tasks, SealRefused(t)
      PROVE  TaskTypes'
  <2>1. task' \in [Tasks -> TaskState]
    BY <1>7, GotoSteps DEF TaskBecomes
  <2> QED BY <1>7, <2>1 DEF SealRefused, logVars, limitVars, IInv, Types, TaskTypes
<1>8. ASSUME NEW t \in Tasks, NoteLoad(t)
      PROVE  TaskTypes'
  BY <1>8, GotoSteps DEF TaskBecomes, NoteLoad, logVars, limitVars, IInv, Types, TaskTypes
<1>9. ASSUME NEW t \in Tasks, NoteStore(t)
      PROVE  TaskTypes'
  <2>1. task[t].log \cup {task[t].content} \in SUBSET used
    BY <1>9 DEF NoteStore, IInv, TaskInv, Bounds, TaskBounds, Active, Undeclared, Writing
  <2>2. task' \in [Tasks -> TaskState] /\ used' = used
    BY <1>9, GotoSteps DEF TaskBecomes, NoteStore
  <2> QED BY <1>9, <2>1, <2>2, LogStep DEF NoteStore, IInv, Types, TaskTypes
<1>10. ASSUME NEW t \in Tasks, StoreSegment(t)
      PROVE  TaskTypes'
  BY <1>10, StoreSegmentTask DEF TaskBecomes, StoreSegment, logVars, limitVars, IInv, Types, TaskTypes
<1>11. ASSUME NEW t \in Tasks, SegmentFails(t)
      PROVE  TaskTypes'
  BY <1>11, SegmentFailsTask, OnceType DEF TaskBecomes, SegmentFails, logVars, limitVars, IInv, Types, TaskTypes
<1>12. ASSUME NEW t \in Tasks, Declare(t)
      PROVE  TaskTypes'
  BY <1>12, GotoSteps DEF TaskBecomes, Declare, logVars, limitVars, IInv, Types, TaskTypes
<1>13. ASSUME NEW t \in Tasks, DeclareRefused(t)
      PROVE  TaskTypes'
  <2>1. task' \in [Tasks -> TaskState]
    BY <1>13, GotoSteps DEF TaskBecomes
  <2> QED BY <1>13, <2>1 DEF DeclareRefused, logVars, limitVars, IInv, Types, TaskTypes
<1>14. ASSUME NEW t \in Tasks, Persist(t)
      PROVE  TaskTypes'
  BY <1>14, GotoSteps DEF TaskBecomes, Persist, logVars, limitVars, IInv, Types, TaskTypes
<1>15. ASSUME NEW t \in Tasks, Discard(t)
      PROVE  TaskTypes'
  BY <1>15, GotoSteps DEF TaskBecomes, Discard, logVars, limitVars, IInv, Types, TaskTypes
<1>16. ASSUME NEW t \in Tasks, ClearLoad(t)
      PROVE  TaskTypes'
  BY <1>16, GotoSteps DEF TaskBecomes, ClearLoad, logVars, limitVars, IInv, Types, TaskTypes
<1>17. ASSUME NEW t \in Tasks, ClearStore(t)
      PROVE  TaskTypes'
  <2>1. task[t].log \ {task[t].content} \in SUBSET used
    BY DEF IInv, Bounds, TaskBounds
  <2>2. task' \in [Tasks -> TaskState] /\ used' = used
    BY <1>17, ClearStoreTask DEF TaskBecomes, ClearStore
  <2> QED BY <1>17, <2>1, <2>2, LogStep DEF ClearStore, IInv, Types, TaskTypes
<1>18. ASSUME NEW t \in Tasks, Withdraw(t)
      PROVE  TaskTypes'
  BY <1>18, GotoSteps DEF TaskBecomes, Withdraw, logVars, limitVars, IInv, Types, TaskTypes
<1>19. ASSUME NEW p \in Members, NEW e \in Entries, Delete(p, e)
      PROVE  TaskTypes'
  BY <1>19, OnceType DEF Delete, logVars, limitVars, IInv, Types, TaskTypes
<1>20. ASSUME NEW p \in Members, NEW e \in Entries, NEW v \in AllVersions(manifest[p]),
              RevertAsset(p, e, v)
      PROVE  TaskTypes'
  BY <1>20, OnceType DEF RevertAsset, logVars, limitVars, IInv, Types, TaskTypes
<1>21. ASSUME NEW p \in Members, Join(p)
      PROVE  TaskTypes'
  BY <1>21, OnceType DEF Join, logVars, limitVars, IInv, Types, TaskTypes
<1>22. ASSUME NEW p \in Members, Demote(p)
      PROVE  TaskTypes'
  BY <1>22, OnceType DEF Demote, logVars, limitVars, IInv, Types, TaskTypes
<1>23. ASSUME NEW p \in Members, Restart(p)
      PROVE  TaskTypes'
  BY <1>23, OnceType, RestartTask DEF Restart, logVars, limitVars, IInv, Types, TaskTypes
<1>24. ASSUME UNCHANGED vars
      PROVE  UNCHANGED <<pending, task, used, limit, done>>
  BY <1>24, Zenon DEF vars, limitVars, logVars
<1>25. limit.tasks \subseteq Tasks /\ limit.sizes \subseteq 0..MaxSize
  BY LimitFacts DEF IInv, Types, TaskTypes
<1> QED BY <1>1, <1>2, <1>3, <1>4, <1>5, <1>6, <1>7, <1>8, <1>9, <1>10, <1>11, <1>12, <1>13,
           <1>14, <1>15, <1>16, <1>17, <1>18, <1>19, <1>20, <1>21, <1>22, <1>23, <1>24, <1>25
           DEF Next

LEMMA TypesStep ==
    ASSUME IInv, [Next]_vars
    PROVE  Types' /\ OwnNewest'
BY ManifestTypesStep, IndexStep, HoldingsStep, SpaceTypesStep, GroupTypesStep, TaskTypesStep
   DEF Types, IndexTypes, IndexOK, Holdings

-----------------------------------------------------------------------------
(* Bounds.                                                                 *)

LEMMA TaskBoundsKept ==
    ASSUME IInv, NEW t \in Tasks, NEW at, NEW ok, NEW c, NEW seg, NEW log, TaskBecomes(t, at, ok, c, seg, log),
           log \subseteq used', used \subseteq used'
    PROVE  TaskBounds'
BY DEF TaskBecomes, IInv, Bounds, TaskBounds

LEMMA TaskBoundsStep ==
    ASSUME IInv, [Next]_vars
    PROVE  TaskBounds'
<1>1. ASSUME UNCHANGED <<task, used>>
      PROVE  TaskBounds'
  BY <1>1 DEF IInv, Bounds, TaskBounds
<1>2. ASSUME NEW p, \/ \E e : Delete(p, e)
                    \/ \E e, v : RevertAsset(p, e, v)
                    \/ \E v, i : Export(p, v, i)
                    \/ \E a, c : RequestRepair(p, a, c)
                    \/ \E q : ManifestArrived(p, q)
                    \/ \E q, a, s : Reconcile(p, q, a, s)
                    \/ \E s : Carry(p, s)
                    \/ StoreKey(p) \/ AdoptNamespace(p) \/ FinishAdopting(p) \/ Snapshot(p)
                    \/ Join(p) \/ Demote(p)
      PROVE  UNCHANGED <<task, used>>
  BY <1>2, Zenon DEF Delete, RevertAsset, Export, RequestRepair, ManifestArrived, Reconcile,
     Carry, StoreKey, AdoptNamespace, FinishAdopting, Snapshot, Join, Demote
<1>3. ASSUME NEW r, AnswerRepair(r)
      PROVE  UNCHANGED <<task, used>>
  BY <1>3, Zenon DEF AnswerRepair
<1>4. ASSUME NEW t \in Tasks, NEW e \in Entries, NEW size \in 0..MaxSize, AttachFile(t, e, size)
      PROVE  TaskBounds'
  <2>1. used' = used
    BY <1>4 DEF AttachFile
  <2>2. TaskBecomes(t, "seal", TRUE, NoContent, 0, {})
    BY <1>4, StartTask
  <2> QED BY <2>1, <2>2 DEF TaskBecomes, IInv, Bounds, TaskBounds
<1>5. ASSUME NEW t \in Tasks, NEW e \in Entries, NEW size \in 0..MaxSize, AttachVersion(t, e,
              size)
      PROVE  TaskBounds'
  <2>1. used' = used
    BY <1>5 DEF AttachVersion
  <2>2. TaskBecomes(t, "seal", TRUE, NoContent, 0, {})
    BY <1>5, StartTask
  <2> QED BY <2>1, <2>2 DEF TaskBecomes, IInv, Bounds, TaskBounds
<1>6. ASSUME NEW t \in Tasks, NEW c \in Contents, Seal(t, c)
      PROVE  TaskBounds'
  <2>1. used \subseteq used' /\ task[t].log \subseteq used' /\ pending[Owner[t]] \subseteq used'
    BY <1>6, OwnerType DEF Seal, IInv, Bounds, TaskBounds, MemberBounds
  <2> QED BY <1>6, <2>1, SealTask, TaskBoundsKept
<1>7. ASSUME NEW t \in Tasks, SealRefused(t)
      PROVE  TaskBounds'
  <2>1. used \subseteq used' /\ task[t].log \subseteq used' /\ pending[Owner[t]] \subseteq used'
    BY <1>7, OwnerType DEF SealRefused, IInv, Bounds, TaskBounds, MemberBounds
  <2> QED BY <1>7, <2>1, GotoSteps, TaskBoundsKept
<1>8. ASSUME NEW t \in Tasks, NoteLoad(t)
      PROVE  TaskBounds'
  <2>1. used \subseteq used' /\ task[t].log \subseteq used' /\ pending[Owner[t]] \subseteq used'
    BY <1>8, OwnerType DEF NoteLoad, IInv, Bounds, TaskBounds, MemberBounds
  <2> QED BY <1>8, <2>1, GotoSteps, TaskBoundsKept
<1>9. ASSUME NEW t \in Tasks, NoteStore(t)
      PROVE  TaskBounds'
  <2>1. used' = used
    BY <1>9 DEF NoteStore
  <2>2. TaskBecomes(t, "write", task[t].ok, task[t].content, task[t].seg, {})
    BY <1>9, GotoSteps
  <2> QED BY <2>1, <2>2 DEF TaskBecomes, IInv, Bounds, TaskBounds
<1>10. ASSUME NEW t \in Tasks, StoreSegment(t)
      PROVE  TaskBounds'
  <2>1. used \subseteq used' /\ task[t].log \subseteq used' /\ pending[Owner[t]] \subseteq used'
    BY <1>10, OwnerType DEF StoreSegment, IInv, Bounds, TaskBounds, MemberBounds
  <2> QED BY <1>10, <2>1, StoreSegmentTask, TaskBoundsKept
<1>11. ASSUME NEW t \in Tasks, SegmentFails(t)
      PROVE  TaskBounds'
  <2>1. used \subseteq used' /\ task[t].log \subseteq used' /\ pending[Owner[t]] \subseteq used'
    BY <1>11, OwnerType DEF SegmentFails, IInv, Bounds, TaskBounds, MemberBounds
  <2> QED BY <1>11, <2>1, SegmentFailsTask, TaskBoundsKept
<1>12. ASSUME NEW t \in Tasks, Declare(t)
      PROVE  TaskBounds'
  <2>1. used \subseteq used' /\ task[t].log \subseteq used' /\ pending[Owner[t]] \subseteq used'
    BY <1>12, OwnerType DEF Declare, IInv, Bounds, TaskBounds, MemberBounds
  <2> QED BY <1>12, <2>1, GotoSteps, TaskBoundsKept
<1>13. ASSUME NEW t \in Tasks, DeclareRefused(t)
      PROVE  TaskBounds'
  <2>1. used \subseteq used' /\ task[t].log \subseteq used' /\ pending[Owner[t]] \subseteq used'
    BY <1>13, OwnerType DEF DeclareRefused, IInv, Bounds, TaskBounds, MemberBounds
  <2> QED BY <1>13, <2>1, GotoSteps, TaskBoundsKept
<1>14. ASSUME NEW t \in Tasks, Persist(t)
      PROVE  TaskBounds'
  <2>1. used \subseteq used' /\ task[t].log \subseteq used' /\ pending[Owner[t]] \subseteq used'
    BY <1>14, OwnerType DEF Persist, IInv, Bounds, TaskBounds, MemberBounds
  <2> QED BY <1>14, <2>1, GotoSteps, TaskBoundsKept
<1>15. ASSUME NEW t \in Tasks, Discard(t)
      PROVE  TaskBounds'
  <2>1. used \subseteq used' /\ task[t].log \subseteq used' /\ pending[Owner[t]] \subseteq used'
    BY <1>15, OwnerType DEF Discard, IInv, Bounds, TaskBounds, MemberBounds
  <2> QED BY <1>15, <2>1, GotoSteps, TaskBoundsKept
<1>16. ASSUME NEW t \in Tasks, ClearLoad(t)
      PROVE  TaskBounds'
  <2>1. used \subseteq used' /\ task[t].log \subseteq used' /\ pending[Owner[t]] \subseteq used'
    BY <1>16, OwnerType DEF ClearLoad, IInv, Bounds, TaskBounds, MemberBounds
  <2> QED BY <1>16, <2>1, GotoSteps, TaskBoundsKept
<1>17. ASSUME NEW t \in Tasks, ClearStore(t)
      PROVE  TaskBounds'
  <2>1. used' = used
    BY <1>17 DEF ClearStore
  <2>2. \/ TaskBecomes(t, "idle", TRUE, NoContent, 0, {})
        \/ TaskBecomes(t, "withdraw", task[t].ok, task[t].content, task[t].seg, {})
    BY <1>17, ClearStoreTask
  <2> QED BY <2>1, <2>2 DEF TaskBecomes, IInv, Bounds, TaskBounds
<1>18. ASSUME NEW t \in Tasks, Withdraw(t)
      PROVE  TaskBounds'
  <2>1. used' = used
    BY <1>18 DEF Withdraw
  <2>2. TaskBecomes(t, "idle", TRUE, NoContent, 0, {})
    BY <1>18, GotoSteps
  <2> QED BY <2>1, <2>2 DEF TaskBecomes, IInv, Bounds, TaskBounds
<1>19. ASSUME NEW p \in Members, Restart(p)
      PROVE  TaskBounds'
  <2>1. used' = used /\ 0 <= SegmentsFor(Idle.size, SegmentBytes)
    BY <1>19, IdleType, SegmentCounts DEF Restart, TaskState
  <2>2. TaskBounds
    BY DEF IInv, Bounds
  <2>3. ASSUME NEW x \in Tasks
        PROVE  /\ task'[x].log \subseteq used' /\ task'[x].seg <= SegmentsFor(task'[x].size, SegmentBytes)
               /\ task'[x].at # "idle" => task'[x].entry \in Entries
    <3>1. CASE Owner[x] = p
      <4>1. task'[x] = Idle
        BY <1>19, <3>1, RestartTask
      <4> QED BY <2>1, <4>1, IdleType
    <3>2. CASE Owner[x] # p
      <4>1. task'[x] = task[x]
        BY <1>19, <3>2, RestartTask
      <4> QED BY <2>1, <2>2, <4>1 DEF TaskBounds
    <3> QED BY <3>1, <3>2
  <2> QED BY <2>3 DEF TaskBounds
<1>20. ASSUME UNCHANGED vars
      PROVE  UNCHANGED <<task, used>>
  BY <1>20, Zenon DEF vars
<1>21. limit.tasks \subseteq Tasks /\ limit.sizes \subseteq 0..MaxSize
  BY LimitFacts DEF IInv, Types, TaskTypes
<1> QED BY <1>1, <1>2, <1>3, <1>4, <1>5, <1>6, <1>7, <1>8, <1>9, <1>10, <1>11, <1>12, <1>13,
           <1>14, <1>15, <1>16, <1>17, <1>18, <1>19, <1>20, <1>21 DEF Next

LEMMA MemberBoundsStep ==
    ASSUME IInv, [Next]_vars
    PROVE  MemberBounds'
<1>1. ASSUME UNCHANGED <<asked, blobs, pending, used, carry, adopting, ns, saved>>
      PROVE  MemberBounds'
  BY <1>1 DEF IInv, Bounds, MemberBounds
<1>2. ASSUME NEW t, \/ \E e, size : AttachVersion(t, e, size)
                    \/ SealRefused(t) \/ NoteLoad(t) \/ SegmentFails(t) \/ Declare(t)
                    \/ DeclareRefused(t) \/ Discard(t) \/ ClearLoad(t)
      PROVE  UNCHANGED <<asked, blobs, pending, used, carry, adopting, ns, saved>>
  BY <1>2, Zenon DEF AttachVersion, SealRefused, NoteLoad, SegmentFails, Declare, DeclareRefused,
     Discard, ClearLoad, indexVars, logVars, manifestVars, spaceVars
<1>3. ASSUME NEW p, \/ \E a, c : RequestRepair(p, a, c)
                    \/ StoreKey(p) \/ Join(p) \/ Demote(p)
      PROVE  UNCHANGED <<asked, blobs, pending, used, carry, adopting, ns, saved>>
  BY <1>3, Zenon DEF RequestRepair, StoreKey, Join, Demote, indexVars, logVars, manifestVars,
     spaceVars
<1>4. ASSUME NEW r, AnswerRepair(r)
      PROVE  UNCHANGED <<asked, blobs, pending, used, carry, adopting, ns, saved>>
  BY <1>4, Zenon DEF AnswerRepair, indexVars, logVars, manifestVars, spaceVars
<1>5. ASSUME NEW t \in Tasks, NEW e \in Entries, NEW size \in 0..MaxSize, AttachFile(t, e, size)
      PROVE  MemberBounds'
  <2>1. \A x \in Members : saved'[x].ns = saved[x].ns \/ saved'[x].ns = ns[x]
    BY <1>5, AttachFileEffect, OwnerType DEF IInv, Changed, Saves
  <2>2. \A x \in Members : ns[x] <= ns[x]
    BY DEF IInv, Types, SpaceTypes, Namespaces
  <2> QED BY <1>5, <2>1, <2>2 DEF AttachFile, indexVars, logVars, spaceVars, manifestVars, IInv, Bounds, MemberBounds
<1>6. ASSUME NEW t \in Tasks, NEW c \in Contents, Seal(t, c)
      PROVE  MemberBounds'
  BY <1>6 DEF Seal, indexVars, logVars, spaceVars, manifestVars, IInv, Bounds, MemberBounds
<1>7. ASSUME NEW t \in Tasks, NoteStore(t)
      PROVE  MemberBounds'
  <2>1. task[t].log \cup {task[t].content} \in SUBSET used
    BY <1>7 DEF NoteStore, IInv, TaskInv, Bounds, TaskBounds, Active, Undeclared, Writing
  <2>2. \A x \in Members : pending'[x] \subseteq used
    BY <1>7, <2>1, LogStep DEF NoteStore
  <2> QED BY <1>7, <2>2 DEF NoteStore, indexVars, logVars, spaceVars, manifestVars, IInv, Bounds, MemberBounds
<1>8. ASSUME NEW t \in Tasks, StoreSegment(t)
      PROVE  MemberBounds'
  BY <1>8, OwnerType DEF StoreSegment, Types, IndexTypes, indexVars, logVars, spaceVars, manifestVars, IInv, Bounds, MemberBounds
<1>9. ASSUME NEW t \in Tasks, Persist(t)
      PROVE  MemberBounds'
  <2>1. \A x \in Members : saved'[x].ns = saved[x].ns \/ saved'[x].ns = ns[x]
    BY <1>9, PersistEffect, OwnerType DEF IInv, Changed, Saves, Persist
  <2>2. \A x \in Members : ns[x] <= ns[x]
    BY DEF IInv, Types, SpaceTypes, Namespaces
  <2> QED BY <1>9, <2>1, <2>2 DEF Persist, indexVars, logVars, spaceVars, manifestVars, IInv, Bounds, MemberBounds
<1>10. ASSUME NEW t \in Tasks, ClearStore(t)
      PROVE  MemberBounds'
  <2>1. task[t].log \ {task[t].content} \in SUBSET used
    BY DEF IInv, Bounds, TaskBounds
  <2>2. \A x \in Members : pending'[x] \subseteq used
    BY <1>10, <2>1, LogStep DEF ClearStore
  <2> QED BY <1>10, <2>2 DEF ClearStore, indexVars, logVars, spaceVars, manifestVars, IInv, Bounds, MemberBounds
<1>11. ASSUME NEW t \in Tasks, Withdraw(t)
      PROVE  MemberBounds'
  <2>1. \A x \in Members : saved'[x].ns = saved[x].ns \/ saved'[x].ns = ns[x]
    BY <1>11, DeleteEffect, OwnerType DEF IInv, Changed, Saves, Withdraw, manifestVars
  <2>2. \A x \in Members : ns[x] <= ns[x]
    BY DEF IInv, Types, SpaceTypes, Namespaces
  <2> QED BY <1>11, <2>1, <2>2 DEF Withdraw, DeleteFile, indexVars, logVars, spaceVars, manifestVars, IInv, Bounds, MemberBounds
<1>12. ASSUME NEW p \in Members, NEW e \in Entries, Delete(p, e)
      PROVE  MemberBounds'
  <2>1. \A x \in Members : saved'[x].ns = saved[x].ns \/ saved'[x].ns = ns[x]
    BY <1>12, DeleteEffect DEF IInv, Changed, Saves, Delete
  <2>2. \A x \in Members : ns[x] <= ns[x]
    BY DEF IInv, Types, SpaceTypes, Namespaces
  <2> QED BY <1>12, <2>1, <2>2 DEF Delete, DeleteFile, indexVars, logVars, spaceVars, manifestVars, IInv, Bounds, MemberBounds
<1>13. ASSUME NEW p \in Members, NEW e \in Entries, NEW v \in AllVersions(manifest[p]),
              RevertAsset(p, e, v)
      PROVE  MemberBounds'
  <2>1. \A x \in Members : saved'[x].ns = saved[x].ns \/ saved'[x].ns = ns[x]
    BY <1>13, RevertEffect DEF IInv, Changed, Saves
  <2>2. \A x \in Members : ns[x] <= ns[x]
    BY DEF IInv, Types, SpaceTypes, Namespaces
  <2> QED BY <1>13, <2>1, <2>2 DEF RevertAsset, indexVars, logVars, spaceVars, manifestVars, IInv, Bounds, MemberBounds
<1>14. ASSUME NEW p \in Members, NEW v \in AllVersions(manifest[p]), NEW i \in 1..MaxSegments,
              Export(p, v, i)
      PROVE  MemberBounds'
  BY <1>14 DEF Export, Types, IndexTypes, indexVars, logVars, spaceVars, manifestVars, IInv, Bounds, MemberBounds
<1>15. ASSUME NEW p \in Members, NEW q \in Members, ManifestArrived(p, q)
      PROVE  MemberBounds'
  <2>1. \A x \in Members : saved'[x].ns = saved[x].ns \/ saved'[x].ns = ns[x]
    BY <1>15, ArrivedEffect DEF IInv, Changed, Saves
  <2>2. \A x \in Members : ns[x] <= ns[x]
    BY DEF IInv, Types, SpaceTypes, Namespaces
  <2> QED BY <1>15, <2>1, <2>2 DEF ManifestArrived, indexVars, logVars, spaceVars, manifestVars, IInv, Bounds, MemberBounds
<1>16. ASSUME NEW p \in Members, NEW q \in Members, NEW a \in Members, NEW s \in Slots,
              Reconcile(p, q, a, s)
      PROVE  MemberBounds'
  BY <1>16 DEF Reconcile, Types, IndexTypes, indexVars, logVars, spaceVars, manifestVars, IInv, Bounds, MemberBounds
<1>17. ASSUME NEW p \in Members, NEW s \in Slots, Carry(p, s)
      PROVE  MemberBounds'
  BY <1>17 DEF Carry, Types, SpaceTypes, indexVars, logVars, spaceVars, manifestVars, IInv, Bounds, MemberBounds
<1>18. ASSUME NEW p \in Members, AdoptNamespace(p)
      PROVE  MemberBounds'
  <2>1. ns \in [Members -> Namespaces] /\ \A x \in Members : saved[x].ns \in Namespaces
    BY DEF IInv, Types, SpaceTypes, ManifestTypes
  <2> QED BY <1>18, <2>1 DEF AdoptNamespace, Namespaces, Types, SpaceTypes, indexVars, logVars, spaceVars, manifestVars, IInv, Bounds, MemberBounds
<1>19. ASSUME NEW p \in Members, FinishAdopting(p)
      PROVE  MemberBounds'
  BY <1>19 DEF FinishAdopting, indexVars, logVars, spaceVars, manifestVars, IInv, Bounds, MemberBounds
<1>20. ASSUME NEW p \in Members, Snapshot(p)
      PROVE  MemberBounds'
  <2>1. \A x \in Members : saved'[x].ns = saved[x].ns \/ saved'[x].ns = ns[x]
    BY <1>20, PersistEffect DEF IInv, Changed, Saves, Snapshot
  <2>2. \A x \in Members : ns[x] <= ns[x]
    BY DEF IInv, Types, SpaceTypes, Namespaces
  <2> QED BY <1>20, <2>1, <2>2 DEF Snapshot, indexVars, logVars, spaceVars, manifestVars, IInv, Bounds, MemberBounds
<1>21. ASSUME NEW p \in Members, Restart(p)
      PROVE  MemberBounds'
  <2>1. ns \in [Members -> Namespaces] /\ \A x \in Members : saved[x].ns \in Namespaces
    BY DEF IInv, Types, SpaceTypes, ManifestTypes
  <2>2. pending \in [Members -> SUBSET Contents] /\ carry \in [Members -> SUBSET Slots]
    BY DEF IInv, Types, SpaceTypes, TaskTypes
  <2> QED BY <1>21, <2>1, <2>2 DEF Restart, Namespaces, indexVars, logVars, spaceVars, manifestVars, IInv, Bounds, MemberBounds
<1>22. ASSUME UNCHANGED vars
      PROVE  UNCHANGED <<asked, blobs, pending, used, carry, adopting, ns, saved>>
  BY <1>22, Zenon DEF vars, indexVars, logVars, manifestVars, spaceVars
<1>23. limit.tasks \subseteq Tasks /\ limit.sizes \subseteq 0..MaxSize
  BY LimitFacts DEF IInv, Types, TaskTypes
<1> QED BY <1>1, <1>2, <1>3, <1>4, <1>5, <1>6, <1>7, <1>8, <1>9, <1>10, <1>11, <1>12, <1>13,
           <1>14, <1>15, <1>16, <1>17, <1>18, <1>19, <1>20, <1>21, <1>22, <1>23 DEF Next

LEMMA LimitBoundsStep ==
    ASSUME IInv, [Next]_vars
    PROVE  LimitBounds'
<1>1. ASSUME UNCHANGED <<used, limit, done>>
      PROVE  LimitBounds'
  BY <1>1 DEF IInv, Bounds, LimitBounds
<1>2. ASSUME NEW t, \/ \E e, size : AttachFile(t, e, size)
                    \/ \E e, size : AttachVersion(t, e, size)
                    \/ SealRefused(t) \/ NoteLoad(t) \/ StoreSegment(t) \/ Declare(t)
                    \/ DeclareRefused(t) \/ Persist(t) \/ Discard(t) \/ ClearLoad(t)
                    \/ Withdraw(t)
      PROVE  UNCHANGED <<used, limit, done>>
  BY <1>2, Zenon DEF AttachFile, AttachVersion, SealRefused, NoteLoad, StoreSegment, Declare,
     DeclareRefused, Persist, Discard, ClearLoad, Withdraw, limitVars
<1>3. ASSUME NEW p, \/ \E v, i : Export(p, v, i)
                    \/ \E a, c : RequestRepair(p, a, c)
                    \/ \E q : ManifestArrived(p, q)
                    \/ \E q, a, s : Reconcile(p, q, a, s)
                    \/ \E s : Carry(p, s)
                    \/ StoreKey(p) \/ AdoptNamespace(p) \/ FinishAdopting(p) \/ Snapshot(p)
      PROVE  UNCHANGED <<used, limit, done>>
  BY <1>3, Zenon DEF Export, RequestRepair, ManifestArrived, Reconcile, Carry, StoreKey,
     AdoptNamespace, FinishAdopting, Snapshot, limitVars
<1>4. ASSUME NEW r, AnswerRepair(r)
      PROVE  UNCHANGED <<used, limit, done>>
  BY <1>4, Zenon DEF AnswerRepair, limitVars
<1>5. ASSUME NEW t \in Tasks, NEW c \in Contents, Seal(t, c)
      PROVE  LimitBounds'
  BY <1>5 DEF Seal, limitVars, IInv, Bounds, LimitBounds
<1>6. ASSUME NEW t \in Tasks, NoteStore(t)
      PROVE  LimitBounds'
  BY <1>6, OnceType DEF NoteStore, LogFails, limitVars, IInv, Bounds, LimitBounds
<1>7. ASSUME NEW t \in Tasks, SegmentFails(t)
      PROVE  LimitBounds'
  BY <1>7, OnceType DEF SegmentFails, IInv, Bounds, LimitBounds
<1>8. ASSUME NEW t \in Tasks, ClearStore(t)
      PROVE  LimitBounds'
  BY <1>8, OnceType DEF ClearStore, LogFails, limitVars, IInv, Bounds, LimitBounds
<1>9. ASSUME NEW p \in Members, NEW e \in Entries, Delete(p, e)
      PROVE  LimitBounds'
  BY <1>9, OnceType DEF Delete, IInv, Bounds, LimitBounds
<1>10. ASSUME NEW p \in Members, NEW e \in Entries, NEW v \in AllVersions(manifest[p]),
              RevertAsset(p, e, v)
      PROVE  LimitBounds'
  BY <1>10, OnceType DEF RevertAsset, IInv, Bounds, LimitBounds
<1>11. ASSUME NEW p \in Members, Join(p)
      PROVE  LimitBounds'
  BY <1>11, OnceType DEF Join, IInv, Bounds, LimitBounds
<1>12. ASSUME NEW p \in Members, Demote(p)
      PROVE  LimitBounds'
  BY <1>12, OnceType DEF Demote, IInv, Bounds, LimitBounds
<1>13. ASSUME NEW p \in Members, Restart(p)
      PROVE  LimitBounds'
  BY <1>13, OnceType DEF Restart, IInv, Bounds, LimitBounds
<1>14. ASSUME UNCHANGED vars
      PROVE  UNCHANGED <<used, limit, done>>
  BY <1>14, Zenon DEF vars, limitVars
<1> QED BY <1>1, <1>2, <1>3, <1>4, <1>5, <1>6, <1>7, <1>8, <1>9, <1>10, <1>11, <1>12, <1>13,
           <1>14 DEF Next

LEMMA BoundsStep ==
    ASSUME IInv, [Next]_vars
    PROVE  Bounds'
BY TaskBoundsStep, MemberBoundsStep, LimitBoundsStep DEF Bounds

-----------------------------------------------------------------------------
(* The histories in circulation.                                           *)

(* No version counts as the first of its content that did not before. *)
OldOriginals ==
  \A X \in Lineages' : \A u \in X : Original(Lineages', u) =>
    Original(Lineages, u) /\ \E B \in Lineages : u \in B

LEMMA NoNewLineage ==
    ASSUME IInv, Lineages' \subseteq Lineages, used \subseteq used'
    PROVE  SoundLineages(Lineages', used') /\ OldOriginals
<1>1. SoundLineages(Lineages, used)
  BY DEF IInv, History
<1>2. \A X \in Lineages' : \E A, B \in Lineages : X = A \cup B
  OBVIOUS
<1>3. SoundLineages(Lineages', used) /\ OldOriginals
  BY <1>1, <1>2, LineagesMerge DEF OldOriginals
<1> QED BY <1>3 DEF SoundLineages

LEMMA SameVersions ==
    ASSUME IInv, NEW p \in Members, NEW m, Changed(p, m), used' = used,
           m.versions = manifest[p].versions \/ m.versions = saved[p].manifest.versions
    PROVE  SoundLineages(Lineages', used') /\ OldOriginals
<1>1. Lineages' \subseteq Lineages \cup {m.versions}
  BY ChangedHeld DEF IInv, Types
<1>2. m.versions \in Lineages
  BY HeldType DEF IInv, Types
<1> QED BY <1>1, <1>2, NoNewLineage

LEMMA ArrivedLineages ==
    ASSUME IInv, NEW p \in Members, NEW q \in Members, ManifestArrived(p, q)
    PROVE  SoundLineages(Lineages', used') /\ OldOriginals
<1> DEFINE m == Merge(manifest[p], posted[q][ns[p]])
<1>1. Changed(p, m) /\ m.versions = manifest[p].versions \cup posted[q][ns[p]].versions
  BY ArrivedEffect DEF IInv
<1> HIDE DEF m
<1>2. Lineages' \subseteq Lineages \cup {m.versions}
  BY <1>1, ChangedHeld DEF IInv, Types
<1>3. manifest[p].versions \in Lineages /\ posted[q][ns[p]].versions \in Lineages
  BY HeldType DEF IInv, Types, SpaceTypes
<1>4. SoundLineages(Lineages, used)
  BY DEF IInv, History
<1>5. \A X \in Lineages' : \E A, B \in Lineages : X = A \cup B
  BY <1>1, <1>2, <1>3
<1>6. SoundLineages(Lineages', used) /\ OldOriginals
  BY <1>4, <1>5, LineagesMerge DEF OldOriginals
<1> QED BY <1>6 DEF ManifestArrived

(* A revert brings a content back under a later version. *)
LEMMA RevertLineages ==
    ASSUME IInv, NEW p \in Members, NEW e \in Entries, NEW v, RevertAsset(p, e, v)
    PROVE  SoundLineages(Lineages', used') /\ OldOriginals
<1>1. v \in manifest[p].versions /\ v \in AssetVersions(manifest[p], e) /\ v.entry = e
  BY RevertEffect DEF IInv
<1>2. PICK w, m : Reverted(p, e, v, w, m)
  BY RevertAdds DEF IInv
<1>4. /\ w \in Version /\ w.entry = e /\ w.content = v.content
      /\ m.versions = manifest[p].versions \cup {w}
      /\ v.seq < w.seq
  BY <1>1, <1>2 DEF Reverted, Appended
<1>5. Changed(p, m)
  BY <1>2 DEF Reverted
<1>6. Lineages' \subseteq Lineages \cup {m.versions}
  BY <1>5, ChangedHeld DEF IInv, Types
<1>7. manifest[p].versions \in Lineages
  BY HeldType DEF IInv, Types
<1>8. SoundLineages(Lineages, used)
  BY DEF IInv, History
<1>9. v.content \in used
  BY <1>1, <1>7, <1>8 DEF SoundLineages
<1>10. /\ \A X \in Lineages' : X \in Lineages \/ X = manifest[p].versions \cup {w}
       /\ \E x \in manifest[p].versions : x.content = w.content /\ x.entry = w.entry /\ x.seq < w.seq
       /\ w.content \in used
  BY <1>1, <1>4, <1>6, <1>9
<1>a. ~FirstOf(Lineages, w)
  BY <1>7, <1>10 DEF FirstOf
<1>11. /\ SoundLineages(Lineages', used)
       /\ \A X \in Lineages' : \A u \in X : Original(Lineages', u) =>
            Original(Lineages, u) /\ \E B \in Lineages : u \in B
  BY <1>4, <1>7, <1>8, <1>10, <1>a, LineagesAdd
<1> QED BY <1>11 DEF RevertAsset, OldOriginals

(* The version that declares an attachment is the first of its content. *)
LEMMA DeclareLineages ==
    ASSUME IInv, NEW t \in Tasks, Declare(t)
    PROVE  \E now \in limit.times :
             LET p == Owner[t]
                 v == NewVersion(p, task[t].entry, task[t].content, task[t].size, now)
                 m == AddedTo(p, v)
             IN  /\ Changed(p, m) /\ saved' = saved
                 /\ v \in Version /\ m \in Manifest
                 /\ m.files = manifest[p].files /\ m.gone = manifest[p].gone
                 /\ m.versions = manifest[p].versions \cup {v}
                 /\ v.entry = task[t].entry /\ v.content = task[t].content
                 /\ v.size = task[t].size /\ v.author = p
                 /\ SoundLineages(Lineages', used')
                 /\ \A X \in Lineages' : \A u \in X : Original(Lineages', u) =>
                      \/ Original(Lineages, u) /\ \E B \in Lineages : u \in B
                      \/ u = v
<1> DEFINE p == Owner[t]
<1>1. /\ p \in Members /\ task[t].entry \in Entries /\ task[t].content \in Contents
      /\ task[t].size \in 0..MaxSize /\ task[t].content \in used /\ task[t].content \notin Declared
  BY TaskFacts DEF Declare, Complete, Active, Undeclared, Writing, Clearing, IInv, TaskInv
<1>2. PICK now \in limit.times :
        /\ Changed(p, AddedTo(p, NewVersion(p, task[t].entry, task[t].content, task[t].size, now)))
        /\ saved' = saved
  BY <1>1, DeclareEffect DEF IInv
<1> DEFINE v == NewVersion(p, task[t].entry, task[t].content, task[t].size, now)
           m == AddedTo(p, v)
<1>3. /\ v \in Version /\ m \in Manifest
      /\ m.files = manifest[p].files /\ m.gone = manifest[p].gone
      /\ m.versions = manifest[p].versions \cup {v}
      /\ v.entry = task[t].entry /\ v.content = task[t].content
      /\ v.size = task[t].size /\ v.author = p
  <2>1. Types /\ History
    BY DEF IInv
  <2>2. PICK x, n : x = NewVersion(p, task[t].entry, task[t].content, task[t].size, now) /\ n = AddedTo(p, x)
    OBVIOUS
  <2>3. Appended(p, task[t].entry, task[t].content, task[t].size, x, n)
    <3> HIDE DEF p
    <3> QED BY <1>1, <2>1, <2>2, AddedVersion
  <2> QED BY <2>2, <2>3 DEF Appended
<1>4. Changed(p, m) /\ saved' = saved
  BY <1>2
<1> SUFFICES /\ SoundLineages(Lineages', used')
             /\ \A X \in Lineages' : \A u \in X : Original(Lineages', u) =>
                  \/ Original(Lineages, u) /\ \E B \in Lineages : u \in B
                  \/ u = v
  BY <1>3, <1>4
<1> HIDE DEF m, v, p
<1>5. Lineages' \subseteq Lineages \cup {m.versions}
  BY <1>1, <1>4, ChangedHeld DEF IInv, Types
<1>6. manifest[p].versions \in Lineages
  BY <1>1, HeldType DEF IInv, Types
<1>7. SoundLineages(Lineages, used)
  BY DEF IInv, History
<1>8. FirstOf(Lineages, v)
  <2>1. SUFFICES ASSUME NEW B \in Lineages, NEW w \in B, w.content = v.content
                 PROVE  FALSE
    BY DEF FirstOf
  <2>2. PICK k \in Held : B = k.versions
    BY DEF Lineages
  <2>3. w.content \in ContentsOf(k)
    BY <2>2 DEF ContentsOf
  <2>4. w.content \in Declared
    BY <2>3 DEF Declared
  <2> QED BY <1>1, <1>3, <2>1, <2>4
<1>9. \A X \in Lineages' : X \in Lineages \/ X = manifest[p].versions \cup {v}
  BY <1>3, <1>5
<1>10. v.content \in used
  BY <1>1, <1>3
<1>11. /\ SoundLineages(Lineages', used)
       /\ \A X \in Lineages' : \A u \in X : Original(Lineages', u) =>
            \/ Original(Lineages, u) /\ \E B \in Lineages : u \in B
            \/ FirstOf(Lineages, v) /\ u = v
  BY <1>3, <1>6, <1>7, <1>8, <1>9, <1>10, LineagesAdd
<1>12. used' = used
  BY DEF Declare
<1> QED BY <1>11, <1>12

LEMMA DeclareAdds ==
    ASSUME IInv, NEW t \in Tasks, Declare(t)
    PROVE  \E v, m : /\ Changed(Owner[t], m) /\ saved' = saved
                     /\ m.versions = manifest[Owner[t]].versions \cup {v}
                     /\ v.content = task[t].content
BY DeclareLineages

LEMMA HistoryChanged ==
    ASSUME IInv, NEW p \in Members, NEW m, Changed(p, m), SoundLineages(Lineages', used'), Filed(m),
           /\ saved'[p].manifest.files = m.files /\ saved'[p].manifest.gone = m.gone
           /\ saved'[p].manifest.versions \subseteq m.versions
    PROVE  History'
<1>1. Held' \subseteq Held \cup {m}
  BY ChangedHeld DEF IInv, Types
<1>2. \A x \in Held' : Filed(x)
  BY <1>1 DEF IInv, History
<1>3. \A x \in Members : /\ saved'[x].manifest.files = manifest'[x].files
                         /\ saved'[x].manifest.gone = manifest'[x].gone
                         /\ saved'[x].manifest.versions \subseteq manifest'[x].versions
  BY DEF Changed, IInv, History
<1> QED BY <1>2, <1>3 DEF History

LEMMA FiledNow ==
    ASSUME IInv, NEW p \in Members
    PROVE  /\ Filed(manifest[p]) /\ Filed(saved[p].manifest)
           /\ \A g \in Namespaces : Filed(posted[p][g])
           /\ saved[p].manifest.files = manifest[p].files
           /\ saved[p].manifest.gone = manifest[p].gone
           /\ saved[p].manifest.versions \subseteq manifest[p].versions
BY HeldType DEF IInv, Types, History

LEMMA HistoryStep ==
    ASSUME IInv, [Next]_vars
    PROVE  History'
<1>1. ASSUME UNCHANGED <<manifest, posted, saved, used>>
      PROVE  History'
  BY <1>1 DEF IInv, History, Lineages, Held
<1>2. ASSUME NEW t, \/ \E e, size : AttachVersion(t, e, size)
                    \/ SealRefused(t) \/ NoteLoad(t) \/ NoteStore(t) \/ StoreSegment(t)
                    \/ SegmentFails(t) \/ DeclareRefused(t) \/ Discard(t) \/ ClearLoad(t)
                    \/ ClearStore(t)
      PROVE  UNCHANGED <<manifest, posted, saved, used>>
  BY <1>2, Zenon DEF AttachVersion, SealRefused, NoteLoad, NoteStore, StoreSegment, SegmentFails,
     DeclareRefused, Discard, ClearLoad, ClearStore, manifestVars
<1>3. ASSUME NEW p, \/ \E v, i : Export(p, v, i)
                    \/ \E a, c : RequestRepair(p, a, c)
                    \/ \E q, a, s : Reconcile(p, q, a, s)
                    \/ \E s : Carry(p, s)
                    \/ StoreKey(p) \/ AdoptNamespace(p) \/ Join(p) \/ Demote(p)
      PROVE  UNCHANGED <<manifest, posted, saved, used>>
  BY <1>3, Zenon DEF Export, RequestRepair, Reconcile, Carry, StoreKey, AdoptNamespace, Join,
     Demote, manifestVars
<1>4. ASSUME NEW r, AnswerRepair(r)
      PROVE  UNCHANGED <<manifest, posted, saved, used>>
  BY <1>4, Zenon DEF AnswerRepair, manifestVars
<1>5. ASSUME NEW t \in Tasks, NEW e \in Entries, NEW size \in 0..MaxSize, AttachFile(t, e, size)
      PROVE  History'
  <2> DEFINE m == [manifest[Owner[t]] EXCEPT !.files = @ \cup {e}]
  <2>1. /\ Owner[t] \in Members /\ Changed(Owner[t], m) /\ Saves(Owner[t], m)
        /\ m.files = manifest[Owner[t]].files \cup {e} /\ m.gone = manifest[Owner[t]].gone
        /\ m.versions = manifest[Owner[t]].versions /\ used' = used
    BY <1>5, AttachFileEffect, OwnerType DEF IInv, AttachFile
  <2> HIDE DEF m
  <2>2. Filed(m)
    BY <2>1, FiledNow DEF Filed
  <2>3. SoundLineages(Lineages', used')
    BY <2>1, SameVersions
  <2> QED BY <2>1, <2>2, <2>3, HistoryChanged DEF Saves
<1>6. ASSUME NEW t \in Tasks, NEW c \in Contents, Seal(t, c)
      PROVE  History'
  <2>1. Lineages' = Lineages /\ Held' = Held /\ used \subseteq used' /\ UNCHANGED manifestVars
    BY <1>6 DEF Seal, manifestVars, Held, Lineages
  <2>2. SoundLineages(Lineages', used')
    BY <2>1, NoNewLineage
  <2> QED BY <2>1, <2>2 DEF History, IInv, manifestVars
<1>7. ASSUME NEW t \in Tasks, Declare(t)
      PROVE  History'
  <2>1. PICK now \in limit.times :
          LET v == NewVersion(Owner[t], task[t].entry, task[t].content, task[t].size, now)
              m == AddedTo(Owner[t], v)
          IN  /\ Changed(Owner[t], m) /\ saved' = saved
              /\ m.files = manifest[Owner[t]].files /\ m.gone = manifest[Owner[t]].gone
              /\ m.versions = manifest[Owner[t]].versions \cup {v}
              /\ v.entry = task[t].entry
              /\ SoundLineages(Lineages', used')
    BY <1>7, DeclareLineages
  <2> DEFINE v == NewVersion(Owner[t], task[t].entry, task[t].content, task[t].size, now)
             m == AddedTo(Owner[t], v)
  <2>2. /\ Changed(Owner[t], m) /\ saved' = saved
        /\ m.files = manifest[Owner[t]].files /\ m.gone = manifest[Owner[t]].gone
        /\ m.versions = manifest[Owner[t]].versions \cup {v}
        /\ v.entry = task[t].entry
        /\ SoundLineages(Lineages', used')
    BY <2>1
  <2> HIDE DEF v, m
  <2>3. task[t].entry \in manifest[Owner[t]].files /\ Owner[t] \in Members
    BY <1>7, OwnerType DEF Declare, MayDeclare, Live
  <2>4. Filed(m)
    BY <2>2, <2>3, FiledNow DEF Filed
  <2> QED BY <2>2, <2>3, <2>4, FiledNow, HistoryChanged
<1>8. ASSUME NEW t \in Tasks, Persist(t)
      PROVE  History'
  <2>1. /\ Owner[t] \in Members /\ Changed(Owner[t], manifest[Owner[t]]) /\ used' = used
        /\ Saves(Owner[t], manifest[Owner[t]])
    BY <1>8, PersistEffect, OwnerType DEF IInv, Persist
  <2>2. SoundLineages(Lineages', used') /\ Filed(manifest[Owner[t]])
    BY <2>1, SameVersions, FiledNow
  <2> QED BY <2>1, <2>2, HistoryChanged DEF Saves
<1>9. ASSUME NEW t \in Tasks, Withdraw(t)
      PROVE  History'
  <2> CASE DeleteFile(Owner[t], task[t].entry)
    <3> DEFINE m == [manifest[Owner[t]] EXCEPT !.gone = @ \cup {task[t].entry}]
    <3>1. /\ Owner[t] \in Members /\ Changed(Owner[t], m) /\ Saves(Owner[t], m)
          /\ m.files = manifest[Owner[t]].files /\ m.gone = manifest[Owner[t]].gone \cup {task[t].entry}
          /\ m.versions = manifest[Owner[t]].versions /\ task[t].entry \in m.files /\ used' = used
      BY <1>9, DeleteEffect, OwnerType DEF IInv, Withdraw, Live
    <3> HIDE DEF m
    <3>2. Filed(m)
      BY <3>1, FiledNow DEF Filed
    <3>3. SoundLineages(Lineages', used')
      BY <3>1, SameVersions
    <3> QED BY <3>1, <3>2, <3>3, HistoryChanged DEF Saves
  <2> QED BY <1>9, <1>1 DEF Withdraw, manifestVars
<1>10. ASSUME NEW p \in Members, NEW e \in Entries, Delete(p, e)
      PROVE  History'
  <2> DEFINE m == [manifest[p] EXCEPT !.gone = @ \cup {e}]
  <2>1. /\ p \in Members /\ Changed(p, m) /\ Saves(p, m)
        /\ m.files = manifest[p].files /\ m.gone = manifest[p].gone \cup {e}
        /\ m.versions = manifest[p].versions /\ e \in m.files /\ used' = used
    BY <1>10, DeleteEffect DEF IInv, Delete, Live
  <2> HIDE DEF m
  <2>2. Filed(m)
    BY <2>1, FiledNow DEF Filed
  <2>3. SoundLineages(Lineages', used')
    BY <2>1, SameVersions
  <2> QED BY <2>1, <2>2, <2>3, HistoryChanged DEF Saves
<1>11. ASSUME NEW p \in Members, NEW e \in Entries, NEW v \in AllVersions(manifest[p]),
              RevertAsset(p, e, v)
      PROVE  History'
  <2>1. v \in manifest[p].versions /\ v.entry = e
    BY <1>11, RevertEffect DEF IInv
  <2>2. PICK w, m : Reverted(p, e, v, w, m)
    BY <1>11, RevertAdds DEF IInv
  <2>4. /\ m.files = manifest[p].files /\ m.gone = manifest[p].gone
        /\ m.versions = manifest[p].versions \cup {w} /\ w.entry = e
    BY <2>2 DEF Reverted, Appended
  <2>5. Changed(p, m) /\ Saves(p, m)
    BY <2>2 DEF Reverted
  <2>6. Filed(m)
    <3>1. Filed(manifest[p])
      BY FiledNow
    <3>2. m.gone \subseteq m.files
      BY <2>4, <3>1 DEF Filed
    <3>3. e \in m.files
      BY <2>1, <2>4, <3>1 DEF Filed
    <3>4. \A x \in m.versions : x.entry \in m.files
      BY <2>4, <3>1, <3>3 DEF Filed
    <3> QED BY <3>2, <3>4 DEF Filed
  <2> QED BY <1>11, <2>5, <2>6, RevertLineages, HistoryChanged DEF Saves
<1>12. ASSUME NEW p \in Members, NEW q \in Members, ManifestArrived(p, q)
      PROVE  History'
  <2> DEFINE m == Merge(manifest[p], posted[q][ns[p]])
  <2>1. /\ Changed(p, m) /\ Saves(p, m)
        /\ m.files = manifest[p].files \cup posted[q][ns[p]].files
        /\ m.gone = manifest[p].gone \cup posted[q][ns[p]].gone
        /\ m.versions = manifest[p].versions \cup posted[q][ns[p]].versions
    BY <1>12, ArrivedEffect DEF IInv
  <2> HIDE DEF m
  <2>2. Filed(manifest[p]) /\ Filed(posted[q][ns[p]])
    BY FiledNow DEF IInv, Types, SpaceTypes
  <2>3. Filed(m)
    BY <2>1, <2>2 DEF Filed
  <2> QED BY <1>12, <2>1, <2>3, ArrivedLineages, HistoryChanged DEF Saves
<1>13. ASSUME NEW p \in Members, FinishAdopting(p)
      PROVE  History'
  <2>1. Changed(p, manifest[p]) /\ saved' = saved /\ used' = used
    BY <1>13, FinishEffect DEF IInv, FinishAdopting
  <2>2. SoundLineages(Lineages', used') /\ Filed(manifest[p])
    BY <2>1, SameVersions, FiledNow
  <2> QED BY <2>1, <2>2, FiledNow, HistoryChanged
<1>14. ASSUME NEW p \in Members, Snapshot(p)
      PROVE  History'
  <2>1. /\ p \in Members /\ Changed(p, manifest[p]) /\ used' = used
        /\ Saves(p, manifest[p])
    BY <1>14, PersistEffect DEF IInv, Snapshot
  <2>2. SoundLineages(Lineages', used') /\ Filed(manifest[p])
    BY <2>1, SameVersions, FiledNow
  <2> QED BY <2>1, <2>2, HistoryChanged DEF Saves
<1>15. ASSUME NEW p \in Members, Restart(p)
      PROVE  History'
  <2>1. Changed(p, saved[p].manifest) /\ saved' = saved /\ used' = used
    BY <1>15, RestartEffect DEF IInv, Restart
  <2>2. SoundLineages(Lineages', used') /\ Filed(saved[p].manifest)
    BY <2>1, SameVersions, FiledNow
  <2> QED BY <2>1, <2>2, HistoryChanged
<1>16. ASSUME UNCHANGED vars
      PROVE  UNCHANGED <<manifest, posted, saved, used>>
  BY <1>16, Zenon DEF vars, manifestVars
<1>17. limit.tasks \subseteq Tasks /\ limit.sizes \subseteq 0..MaxSize
  BY LimitFacts DEF IInv, Types, TaskTypes
<1> QED BY <1>1, <1>2, <1>3, <1>4, <1>5, <1>6, <1>7, <1>8, <1>9, <1>10, <1>11, <1>12, <1>13,
           <1>14, <1>15, <1>16, <1>17 DEF Next

-----------------------------------------------------------------------------
(* What a step that declares nothing makes of the versions.                *)

Settled ==
  /\ Declared' \subseteq Declared
  /\ \A p \in Members :
       /\ saved[p].manifest.versions \subseteq saved'[p].manifest.versions
       /\ manifest'[p].versions \ saved'[p].manifest.versions
            \subseteq manifest[p].versions \ saved[p].manifest.versions
Grown == \A p \in Members : manifest[p].versions \subseteq manifest'[p].versions

LEMMA QuietSettles ==
    ASSUME UNCHANGED <<manifest, posted, saved>>
    PROVE  Settled /\ Grown
BY DEF Settled, Grown, Declared, Held

LEMMA ChangeSettles ==
    ASSUME IInv, NEW p \in Members, NEW m, Changed(p, m), ContentsOf(m) \subseteq Declared,
           \/ Saves(p, m) /\ manifest[p].versions \subseteq m.versions
           \/ saved' = saved /\ m.versions \in {manifest[p].versions, saved[p].manifest.versions}
    PROVE  Settled /\ (manifest[p].versions \subseteq m.versions => Grown)
<1>1. Declared' \subseteq Declared
  BY ChangedHeld DEF IInv, Types
<1>2. saved[p].manifest.versions \subseteq manifest[p].versions
  BY FiledNow
<1>3. /\ manifest'[p] = m
      /\ \A q \in Members \ {p} : manifest'[q] = manifest[q] /\ saved'[q] = saved[q]
  BY DEF Changed
<1>4. /\ saved[p].manifest.versions \subseteq saved'[p].manifest.versions
      /\ manifest'[p].versions \ saved'[p].manifest.versions
            \subseteq manifest[p].versions \ saved[p].manifest.versions
  <2>1. CASE Saves(p, m) /\ manifest[p].versions \subseteq m.versions
    BY <1>2, <1>3, <2>1 DEF Saves
  <2>2. CASE saved' = saved /\ m.versions \in {manifest[p].versions, saved[p].manifest.versions}
    BY <1>2, <1>3, <2>2
  <2> QED BY <2>1, <2>2
<1> QED BY <1>1, <1>3, <1>4 DEF Settled, Grown

LEMMA DeclaredNow ==
    ASSUME IInv, NEW p \in Members
    PROVE  /\ ContentsOf(manifest[p]) \subseteq Declared
           /\ ContentsOf(saved[p].manifest) \subseteq Declared
           /\ \A g \in Namespaces : ContentsOf(posted[p][g]) \subseteq Declared
BY HeldType DEF IInv, Types

LEMMA TaskSettles ==
    ASSUME IInv, NEW t \in Tasks,
           \/ \E e \in Entries, size \in 0..MaxSize : AttachFile(t, e, size)
           \/ Persist(t) \/ Withdraw(t)
    PROVE  Settled /\ Grown
<1> DEFINE p == Owner[t]
<1>1. p \in Members
  BY OwnerType
<1>2. ASSUME NEW m, Changed(p, m), Saves(p, m), m.versions = manifest[p].versions
      PROVE  Settled /\ Grown
  <2>1. ContentsOf(m) \subseteq Declared
    BY <1>1, <1>2, DeclaredNow DEF ContentsOf
  <2> QED BY <1>1, <1>2, <2>1, ChangeSettles
<1>3. ASSUME NEW e \in Entries, NEW size \in 0..MaxSize, AttachFile(t, e, size)
      PROVE  Settled /\ Grown
  BY <1>2, <1>3, AttachFileEffect DEF IInv
<1>4. CASE Persist(t)
  BY <1>1, <1>2, <1>4, PersistEffect DEF IInv, Persist
<1>5. CASE Withdraw(t)
  BY <1>1, <1>2, <1>5, DeleteEffect, QuietSettles DEF IInv, Withdraw, manifestVars
<1> QED BY <1>3, <1>4, <1>5

LEMMA MemberSettles ==
    ASSUME IInv, NEW p \in Members,
           \/ \E e \in Entries : Delete(p, e)
           \/ \E e \in Entries : \E v : RevertAsset(p, e, v)
           \/ \E q \in Members : ManifestArrived(p, q)
           \/ FinishAdopting(p) \/ Snapshot(p)
    PROVE  Settled /\ Grown
<1>2. ASSUME NEW m, Changed(p, m), Saves(p, m) \/ saved' = saved, m.versions = manifest[p].versions
      PROVE  Settled /\ Grown
  <2>1. ContentsOf(m) \subseteq Declared
    BY <1>2, DeclaredNow DEF ContentsOf
  <2> QED BY <1>2, <2>1, ChangeSettles
<1>3. ASSUME NEW e \in Entries, Delete(p, e)
      PROVE  Settled /\ Grown
  BY <1>2, <1>3, DeleteEffect DEF IInv, Delete
<1>4. ASSUME NEW e \in Entries, NEW v, RevertAsset(p, e, v)
      PROVE  Settled /\ Grown
  <2>1. v \in manifest[p].versions
    BY <1>4, RevertEffect DEF IInv
  <2>2. PICK w, m : Reverted(p, e, v, w, m)
    BY <1>4, RevertAdds DEF IInv
  <2>4. m.versions = manifest[p].versions \cup {w} /\ w.content = v.content
    BY <2>2 DEF Reverted, Appended
  <2>5. Changed(p, m) /\ Saves(p, m)
    BY <2>2 DEF Reverted
  <2>6. ContentsOf(m) \subseteq Declared
    BY <2>1, <2>4, DeclaredNow DEF ContentsOf
  <2> QED BY <2>4, <2>5, <2>6, ChangeSettles
<1>5. ASSUME NEW q \in Members, ManifestArrived(p, q)
      PROVE  Settled /\ Grown
  <2> DEFINE m == Merge(manifest[p], posted[q][ns[p]])
  <2>1. /\ Changed(p, m) /\ Saves(p, m)
        /\ m.versions = manifest[p].versions \cup posted[q][ns[p]].versions
    BY <1>5, ArrivedEffect DEF IInv
  <2> HIDE DEF m
  <2>2. ContentsOf(manifest[p]) \subseteq Declared /\ ContentsOf(posted[q][ns[p]]) \subseteq Declared
    BY DeclaredNow DEF IInv, Types, SpaceTypes
  <2>3. ContentsOf(m) \subseteq Declared
    BY <2>1, <2>2 DEF ContentsOf
  <2> QED BY <2>1, <2>3, ChangeSettles
<1>6. CASE FinishAdopting(p)
  BY <1>2, <1>6, FinishEffect DEF IInv
<1>7. CASE Snapshot(p)
  BY <1>2, <1>7, PersistEffect DEF IInv, Snapshot
<1> QED BY <1>3, <1>4, <1>5, <1>6, <1>7

LEMMA RestartSettles ==
    ASSUME IInv, NEW p \in Members, Restart(p)
    PROVE  Settled
BY RestartEffect, DeclaredNow, ChangeSettles DEF IInv

-----------------------------------------------------------------------------
(* The tasks.                                                              *)

LEMMA TaskInvSame ==
    ASSUME IInv, task' = task, used \subseteq used', Settled, Grown
    PROVE  TaskInv'
<1>1. \A p \in Members : /\ ContentsOf(manifest[p]) \subseteq ContentsOf(manifest[p])'
                         /\ ContentsOf(saved[p].manifest) \subseteq ContentsOf(saved[p].manifest)'
  BY DEF Settled, Grown, ContentsOf
<1>2. \A x \in Tasks : (Active(x)' <=> Active(x)) /\ Owner[x] \in Members
  BY OwnerType DEF Active
<1>3. \A p \in Members : \A v \in manifest'[p].versions \ saved'[p].manifest.versions :
        v \in manifest[p].versions \ saved[p].manifest.versions
  BY DEF Settled
<1>4. Declared' \subseteq Declared
  BY DEF Settled
<1>5. TaskInv
  BY DEF IInv
<1> HIDE DEF Active
<1>6. \A t \in Tasks :
       /\ Active(t)' => task'[t].content \in used'
       /\ task'[t].at \in Writing \cup {"seal", "declared"} => task'[t].ok
       /\ task'[t].at = "discard" => ~task'[t].ok
       /\ (Active(t)' /\ ~(task'[t].at \in Clearing /\ task'[t].ok)) => task'[t].content \notin Declared'
       /\ task'[t].at = "declared" => task'[t].content \in ContentsOf(manifest[Owner[t]])'
       /\ (task'[t].at \in {"clear", "clearing"} /\ task'[t].ok) =>
             task'[t].content \in ContentsOf(saved[Owner[t]].manifest)'
  BY <1>1, <1>2, <1>4, <1>5 DEF TaskInv
<1>7. \A t, u \in Tasks : Active(t)' /\ Active(u)' /\ task'[t].content = task'[u].content => t = u
  BY <1>2, <1>5 DEF TaskInv
<1>8. \A p \in Members : \A v \in manifest'[p].versions \ saved'[p].manifest.versions :
       \E t \in Tasks : Mine(t, p, v.content)' /\ task'[t].at = "declared"
  <2> SUFFICES ASSUME NEW p \in Members,
                      NEW v \in manifest'[p].versions \ saved'[p].manifest.versions
               PROVE  \E t \in Tasks : Mine(t, p, v.content)' /\ task'[t].at = "declared"
    OBVIOUS
  <2>1. PICK t \in Tasks : Mine(t, p, v.content) /\ task[t].at = "declared"
    BY <1>3, <1>5 DEF TaskInv
  <2>2. Mine(t, p, v.content)'
    BY <2>1 DEF Mine
  <2> QED BY <2>1, <2>2
<1> QED BY <1>6, <1>7, <1>8 DEF TaskInv

(* The task that moves, after its step. *)
MovesTo(t) ==
  /\ \A x \in Tasks \ {t} : task'[x] = task[x]
  /\ Active(t)' => /\ task'[t].content \in used'
                   /\ \A x \in Tasks \ {t} : Active(x) => task[x].content # task'[t].content
  /\ task'[t].at \in Writing \cup {"seal", "declared"} => task'[t].ok
  /\ task'[t].at = "discard" => ~task'[t].ok
  /\ (Active(t)' /\ ~(task'[t].at \in Clearing /\ task'[t].ok)) => task'[t].content \notin Declared
  /\ task'[t].at # "declared"
  /\ (task'[t].at \in {"clear", "clearing"} /\ task'[t].ok) =>
       task'[t].content \in ContentsOf(saved[Owner[t]].manifest)'
  /\ \/ task[t].at # "declared"
     \/ manifest'[Owner[t]].versions \subseteq saved'[Owner[t]].manifest.versions

LEMMA TaskInvMoves ==
    ASSUME IInv, NEW t \in Tasks, MovesTo(t), Settled, Grown, used \subseteq used'
    PROVE  TaskInv'
<1>1. \A p \in Members : /\ ContentsOf(manifest[p]) \subseteq ContentsOf(manifest[p])'
                         /\ ContentsOf(saved[p].manifest) \subseteq ContentsOf(saved[p].manifest)'
  BY DEF Settled, Grown, ContentsOf
<1>2. \A x \in Tasks : Owner[x] \in Members
  BY OwnerType
<1>3. \A x \in Tasks \ {t} : task'[x] = task[x] /\ (Active(x)' <=> Active(x))
  BY DEF MovesTo, Active
<1>4. Declared' \subseteq Declared
  BY DEF Settled
<1>5. TaskInv
  BY DEF IInv
<1>6. ASSUME NEW x \in Tasks
      PROVE  /\ Active(x)' => task'[x].content \in used'
             /\ task'[x].at \in Writing \cup {"seal", "declared"} => task'[x].ok
             /\ task'[x].at = "discard" => ~task'[x].ok
             /\ (Active(x)' /\ ~(task'[x].at \in Clearing /\ task'[x].ok)) => task'[x].content \notin Declared'
             /\ task'[x].at = "declared" => task'[x].content \in ContentsOf(manifest[Owner[x]])'
             /\ (task'[x].at \in {"clear", "clearing"} /\ task'[x].ok) =>
                   task'[x].content \in ContentsOf(saved[Owner[x]].manifest)'
  <2>1. CASE x = t
    BY <1>4, <2>1 DEF MovesTo
  <2>2. CASE x # t
    BY <1>1, <1>2, <1>3, <1>4, <1>5, <2>2 DEF TaskInv
  <2> QED BY <2>1, <2>2
<1>7. \A x, u \in Tasks : Active(x)' /\ Active(u)' /\ task'[x].content = task'[u].content => x = u
  <2>1. \A x, u \in Tasks : Active(x) /\ Active(u) /\ task[x].content = task[u].content => x = u
    BY <1>5 DEF TaskInv
  <2>2. Active(t)' => \A x \in Tasks \ {t} : Active(x) => task[x].content # task'[t].content
    BY DEF MovesTo
  <2>3. SUFFICES ASSUME NEW x \in Tasks, NEW u \in Tasks, Active(x)', Active(u)',
                        task'[x].content = task'[u].content
                 PROVE  x = u
    OBVIOUS
  <2>4. CASE x # t /\ u # t
    BY <1>3, <2>1, <2>3, <2>4
  <2>5. CASE x = t /\ u # t
    BY <1>3, <2>2, <2>3, <2>5
  <2>6. CASE x # t /\ u = t
    BY <1>3, <2>2, <2>3, <2>6
  <2> QED BY <2>4, <2>5, <2>6
<1>8. \A p \in Members : \A v \in manifest'[p].versions \ saved'[p].manifest.versions :
       \E x \in Tasks : Mine(x, p, v.content)' /\ task'[x].at = "declared"
  <2>1. SUFFICES ASSUME NEW p \in Members, NEW v \in manifest'[p].versions \ saved'[p].manifest.versions
                 PROVE  \E x \in Tasks : Mine(x, p, v.content)' /\ task'[x].at = "declared"
    OBVIOUS
  <2>2. v \in manifest[p].versions \ saved[p].manifest.versions
    BY <2>1 DEF Settled
  <2>3. PICK x \in Tasks : Mine(x, p, v.content) /\ task[x].at = "declared"
    BY <1>5, <2>2 DEF TaskInv
  <2>4. x # t
    BY <2>1, <2>3 DEF Mine, MovesTo
  <2> QED BY <1>3, <2>3, <2>4 DEF Mine
<1> QED BY <1>6, <1>7, <1>8 DEF TaskInv

(* What the invariant says of the task that moves. *)
LEMMA TaskInvFacts ==
    ASSUME IInv, NEW t \in Tasks
    PROVE  /\ Active(t) => /\ task[t].content \in used
                           /\ \A x \in Tasks \ {t} : Active(x) => task[x].content # task[t].content
           /\ task[t].at \in Writing \cup {"seal", "declared"} => task[t].ok
           /\ task[t].at = "discard" => ~task[t].ok
           /\ (Active(t) /\ ~(task[t].at \in Clearing /\ task[t].ok)) => task[t].content \notin Declared
           /\ task[t].at = "declared" => task[t].content \in ContentsOf(manifest[Owner[t]])
           /\ (task[t].at \in {"clear", "clearing"} /\ task[t].ok) =>
                task[t].content \in ContentsOf(saved[Owner[t]].manifest)
BY DEF IInv, TaskInv

LEMMA TaskInvStep ==
    ASSUME IInv, [Next]_vars
    PROVE  TaskInv'
<1>1. ASSUME UNCHANGED <<task, used, manifest, posted, saved>>
      PROVE  TaskInv'
  BY <1>1, QuietSettles, TaskInvSame
<1>2. ASSUME NEW p, \/ \E v, i : Export(p, v, i)
                    \/ \E a, c : RequestRepair(p, a, c)
                    \/ \E q, a, s : Reconcile(p, q, a, s)
                    \/ \E s : Carry(p, s)
                    \/ StoreKey(p) \/ AdoptNamespace(p) \/ Join(p) \/ Demote(p)
      PROVE  UNCHANGED <<task, used, manifest, posted, saved>>
  BY <1>2, Zenon DEF Export, RequestRepair, Reconcile, Carry, StoreKey, AdoptNamespace, Join,
     Demote, manifestVars
<1>3. ASSUME NEW r, AnswerRepair(r)
      PROVE  UNCHANGED <<task, used, manifest, posted, saved>>
  BY <1>3, Zenon DEF AnswerRepair, manifestVars
<1>4. ASSUME NEW t \in Tasks, NEW e \in Entries, NEW size \in 0..MaxSize, AttachFile(t, e, size)
      PROVE  TaskInv'
  <2>1. TaskBecomes(t, "seal", TRUE, NoContent, 0, {})
    BY <1>4, StartTask
  <2>2. Settled /\ Grown
    BY <1>4, TaskSettles
  <2>3. used \subseteq used'
    BY <1>4 DEF AttachFile
  <2>4. MovesTo(t)
    BY <1>4, <2>1, <2>3, TaskInvFacts DEF MovesTo, TaskBecomes, AttachFile, Active, Undeclared, Clearing, Writing
  <2> QED BY <2>2, <2>3, <2>4, TaskInvMoves
<1>5. ASSUME NEW t \in Tasks, NEW e \in Entries, NEW size \in 0..MaxSize, AttachVersion(t, e,
              size)
      PROVE  TaskInv'
  <2>1. TaskBecomes(t, "seal", TRUE, NoContent, 0, {})
    BY <1>5, StartTask
  <2>2. Settled /\ Grown
    BY <1>5, QuietSettles DEF AttachVersion, manifestVars
  <2>3. used \subseteq used'
    BY <1>5 DEF AttachVersion
  <2>4. MovesTo(t)
    BY <1>5, <2>1, <2>3, TaskInvFacts DEF MovesTo, TaskBecomes, AttachVersion, Active, Undeclared, Clearing, Writing
  <2> QED BY <2>2, <2>3, <2>4, TaskInvMoves
<1>6. ASSUME NEW t \in Tasks, NEW c \in Contents, Seal(t, c)
      PROVE  TaskInv'
  <2>1. TaskBecomes(t, "note", task[t].ok, c, task[t].seg, task[t].log)
    BY <1>6, SealTask
  <2>2. Settled /\ Grown
    BY <1>6, QuietSettles DEF Seal, manifestVars
  <2>3. used' = used \cup {c} /\ c \notin used /\ task[t].at = "seal"
    BY <1>6 DEF Seal
  <2>4. \A x \in Tasks \ {t} : Active(x) => task[x].content # c
    BY <2>3, TaskInvFacts
  <2>5. c \notin Declared
    BY <2>3, HeldType DEF IInv, Types, History, SoundLineages
  <2>6. task[t].ok
    BY <2>3 DEF IInv, TaskInv
  <2>7. MovesTo(t)
    BY <2>1, <2>3, <2>4, <2>5, <2>6 DEF MovesTo, TaskBecomes, Active, Undeclared, Clearing, Writing
  <2> QED BY <2>2, <2>3, <2>7, TaskInvMoves
<1>7. ASSUME NEW t \in Tasks, SealRefused(t)
      PROVE  TaskInv'
  <2>1. PICK step \in {"withdraw", "idle"} : TaskBecomes(t, step, task[t].ok, task[t].content, task[t].seg, task[t].log)
    BY <1>7, GotoSteps
  <2>2. Settled /\ Grown
    BY <1>7, QuietSettles DEF SealRefused, manifestVars
  <2>3. used \subseteq used'
    BY <1>7 DEF SealRefused
  <2>4. MovesTo(t)
    BY <1>7, <2>1, <2>3 DEF MovesTo, TaskBecomes, SealRefused, Complete, Active, Undeclared, Clearing, Writing
  <2> QED BY <2>2, <2>3, <2>4, TaskInvMoves
<1>8. ASSUME NEW t \in Tasks, NoteLoad(t)
      PROVE  TaskInv'
  <2>1. TaskBecomes(t, "noted", task[t].ok, task[t].content, task[t].seg, pending[Owner[t]])
    BY <1>8, GotoSteps
  <2>2. Settled /\ Grown
    BY <1>8, QuietSettles DEF NoteLoad, manifestVars
  <2>3. used \subseteq used'
    BY <1>8 DEF NoteLoad
  <2>4. MovesTo(t)
    BY <1>8, <2>1, <2>3, TaskInvFacts DEF MovesTo, TaskBecomes, NoteLoad, Active, Undeclared, Clearing, Writing
  <2> QED BY <2>2, <2>3, <2>4, TaskInvMoves
<1>9. ASSUME NEW t \in Tasks, NoteStore(t)
      PROVE  TaskInv'
  <2>1. TaskBecomes(t, "write", task[t].ok, task[t].content, task[t].seg, {})
    BY <1>9, GotoSteps
  <2>2. Settled /\ Grown
    BY <1>9, QuietSettles DEF NoteStore, manifestVars
  <2>3. used \subseteq used'
    BY <1>9 DEF NoteStore
  <2>4. MovesTo(t)
    BY <1>9, <2>1, <2>3, TaskInvFacts DEF MovesTo, TaskBecomes, NoteStore, Active, Undeclared, Clearing, Writing
  <2> QED BY <2>2, <2>3, <2>4, TaskInvMoves
<1>10. ASSUME NEW t \in Tasks, StoreSegment(t)
      PROVE  TaskInv'
  <2>1. TaskBecomes(t, "write", task[t].ok, task[t].content, task[t].seg + 1, task[t].log)
    BY <1>10, StoreSegmentTask
  <2>2. Settled /\ Grown
    BY <1>10, QuietSettles DEF StoreSegment, manifestVars
  <2>3. used \subseteq used'
    BY <1>10 DEF StoreSegment
  <2>4. MovesTo(t)
    BY <1>10, <2>1, <2>3, TaskInvFacts DEF MovesTo, TaskBecomes, StoreSegment, Active, Undeclared, Clearing, Writing
  <2> QED BY <2>2, <2>3, <2>4, TaskInvMoves
<1>11. ASSUME NEW t \in Tasks, SegmentFails(t)
      PROVE  TaskInv'
  <2>1. TaskBecomes(t, "discard", FALSE, task[t].content, task[t].seg, task[t].log)
    BY <1>11, SegmentFailsTask
  <2>2. Settled /\ Grown
    BY <1>11, QuietSettles DEF SegmentFails, manifestVars
  <2>3. used \subseteq used'
    BY <1>11 DEF SegmentFails
  <2>4. MovesTo(t)
    BY <1>11, <2>1, <2>3, TaskInvFacts DEF MovesTo, TaskBecomes, SegmentFails, Active, Undeclared, Clearing, Writing
  <2> QED BY <2>2, <2>3, <2>4, TaskInvMoves
<1>12. ASSUME NEW t \in Tasks, Declare(t)
      PROVE  TaskInv'
  <2> DEFINE p == Owner[t]
  <2>1. TaskBecomes(t, "declared", task[t].ok, task[t].content, task[t].seg, task[t].log)
    BY <1>12, GotoSteps
  <2>2. PICK v, m : /\ Changed(p, m) /\ saved' = saved
                    /\ m.versions = manifest[p].versions \cup {v}
                    /\ v.content = task[t].content
    BY <1>12, DeclareAdds
  <2>3. /\ Changed(p, m) /\ saved' = saved
        /\ m.versions = manifest[p].versions \cup {v} /\ v.content = task[t].content
    BY <2>2
  <2>4. /\ p \in Members /\ used' = used /\ task[t].at = "write" /\ Active(t) /\ task[t].ok
        /\ task[t].content \in used
        /\ \A x \in Tasks \ {t} : Active(x) => task[x].content # task[t].content
    BY <1>12, OwnerType, TaskInvFacts DEF Declare, Complete, Active, Undeclared, Clearing, Writing
  <2> HIDE DEF p
  <2>5. Declared' \subseteq Declared \cup {task[t].content}
    <3>1. Declared' \subseteq Declared \cup ContentsOf(m)
      BY <2>3, <2>4, ChangedHeld DEF IInv, Types
    <3>2. ContentsOf(m) \subseteq Declared \cup {task[t].content}
      BY <2>3, <2>4, DeclaredNow DEF ContentsOf
    <3> QED BY <3>1, <3>2
  <2>6. /\ \A x \in Members \ {p} : manifest'[x] = manifest[x]
        /\ manifest'[p].versions = manifest[p].versions \cup {v}
    BY <2>3 DEF Changed
  <2>7. /\ \A x \in Members : ContentsOf(manifest[x]) \subseteq ContentsOf(manifest[x])'
        /\ task[t].content \in ContentsOf(manifest[p])'
    BY <2>3, <2>6 DEF ContentsOf
  <2>8. /\ \A x \in Tasks \ {t} : task'[x] = task[x] /\ (Active(x)' <=> Active(x)) /\ Owner[x] \in Members
        /\ task'[t].at = "declared" /\ task'[t].ok = task[t].ok /\ task'[t].content = task[t].content
        /\ Active(t)'
    BY <2>1, OwnerType DEF TaskBecomes, Active, Clearing
  <2>9. ASSUME NEW x \in Tasks
        PROVE  /\ Active(x)' => task'[x].content \in used'
               /\ task'[x].at \in Writing \cup {"seal", "declared"} => task'[x].ok
               /\ task'[x].at = "discard" => ~task'[x].ok
               /\ (Active(x)' /\ ~(task'[x].at \in Clearing /\ task'[x].ok)) => task'[x].content \notin Declared'
               /\ task'[x].at = "declared" => task'[x].content \in ContentsOf(manifest[Owner[x]])'
               /\ (task'[x].at \in {"clear", "clearing"} /\ task'[x].ok) =>
                     task'[x].content \in ContentsOf(saved[Owner[x]].manifest)'
    <3>1. CASE x = t
      BY <2>4, <2>7, <2>8, <3>1 DEF Clearing, p
    <3>2. CASE x # t
      <4>1. ContentsOf(saved[Owner[x]].manifest)' = ContentsOf(saved[Owner[x]].manifest)
        BY <2>3
      <4> QED BY <2>4, <2>5, <2>7, <2>8, <3>2, <4>1, TaskInvFacts
    <3> QED BY <3>1, <3>2
  <2>10. \A x, u \in Tasks : Active(x)' /\ Active(u)' /\ task'[x].content = task'[u].content => x = u
    <3>1. SUFFICES ASSUME NEW x \in Tasks, NEW u \in Tasks, Active(x)', Active(u)',
                          task'[x].content = task'[u].content
                   PROVE  x = u
      OBVIOUS
    <3>2. CASE x # t /\ u # t
      <4>1. Active(x) /\ Active(u) /\ task[x].content = task[u].content
        BY <2>8, <3>1, <3>2
      <4> QED BY <4>1, TaskInvFacts
    <3>3. CASE x = t /\ u # t
      BY <2>4, <2>8, <3>1, <3>3
    <3>4. CASE x # t /\ u = t
      BY <2>4, <2>8, <3>1, <3>4
    <3> QED BY <3>2, <3>3, <3>4
  <2>11. ASSUME NEW q \in Members, NEW w \in manifest'[q].versions \ saved'[q].manifest.versions
         PROVE  \E x \in Tasks : Mine(x, q, w.content)' /\ task'[x].at = "declared"
    <3>1. CASE q = p /\ w = v
      BY <2>3, <2>8, <3>1 DEF Mine, p
    <3>2. CASE ~(q = p /\ w = v)
      <4>1. w \in manifest[q].versions \ saved[q].manifest.versions
        BY <2>3, <2>6, <2>11, <3>2
      <4>2. PICK x \in Tasks : Mine(x, q, w.content) /\ task[x].at = "declared"
        BY <4>1 DEF IInv, TaskInv
      <4>3. x # t
        BY <2>4, <4>2
      <4> QED BY <2>8, <4>2, <4>3 DEF Mine
    <3> QED BY <3>1, <3>2
  <2> QED BY <2>9, <2>10, <2>11 DEF TaskInv
<1>13. ASSUME NEW t \in Tasks, DeclareRefused(t)
      PROVE  TaskInv'
  <2>1. PICK step \in {"withdraw", "idle"} : TaskBecomes(t, step, task[t].ok, task[t].content, task[t].seg, task[t].log)
    BY <1>13, GotoSteps
  <2>2. Settled /\ Grown
    BY <1>13, QuietSettles DEF DeclareRefused, manifestVars
  <2>3. used \subseteq used'
    BY <1>13 DEF DeclareRefused
  <2>4. MovesTo(t)
    BY <1>13, <2>1, <2>3 DEF MovesTo, TaskBecomes, DeclareRefused, Complete, Active, Undeclared, Clearing, Writing
  <2> QED BY <2>2, <2>3, <2>4, TaskInvMoves
<1>14. ASSUME NEW t \in Tasks, Persist(t)
      PROVE  TaskInv'
  <2>1. TaskBecomes(t, "clear", task[t].ok, task[t].content, task[t].seg, task[t].log)
    BY <1>14, GotoSteps
  <2>2. Settled /\ Grown
    BY <1>14, TaskSettles
  <2>3. used \subseteq used' /\ task[t].at = "declared"
    BY <1>14 DEF Persist
  <2>4. saved'[Owner[t]].manifest = manifest[Owner[t]] /\ manifest' = manifest
    BY <1>14, PersistEffect, OwnerType DEF IInv, Persist, Saves
  <2>5. task[t].content \in ContentsOf(saved[Owner[t]].manifest)' /\ task[t].ok
    BY <2>3, <2>4, TaskInvFacts
  <2>6. MovesTo(t)
    BY <2>1, <2>3, <2>4, <2>5, TaskInvFacts DEF MovesTo, TaskBecomes, Active, Undeclared, Clearing, Writing
  <2> QED BY <2>2, <2>3, <2>6, TaskInvMoves
<1>15. ASSUME NEW t \in Tasks, Discard(t)
      PROVE  TaskInv'
  <2>1. TaskBecomes(t, "clear", task[t].ok, task[t].content, task[t].seg, task[t].log)
    BY <1>15, GotoSteps
  <2>2. Settled /\ Grown
    BY <1>15, QuietSettles DEF Discard, manifestVars
  <2>3. used \subseteq used'
    BY <1>15 DEF Discard
  <2>4. MovesTo(t)
    BY <1>15, <2>1, <2>3, TaskInvFacts DEF MovesTo, TaskBecomes, Discard, Active, Undeclared, Clearing, Writing
  <2> QED BY <2>2, <2>3, <2>4, TaskInvMoves
<1>16. ASSUME NEW t \in Tasks, ClearLoad(t)
      PROVE  TaskInv'
  <2>1. TaskBecomes(t, "clearing", task[t].ok, task[t].content, task[t].seg, pending[Owner[t]])
    BY <1>16, GotoSteps
  <2>2. Settled /\ Grown
    BY <1>16, QuietSettles DEF ClearLoad, manifestVars
  <2>3. used \subseteq used' /\ task[t].at = "clear" /\ saved' = saved
    BY <1>16 DEF ClearLoad, manifestVars
  <2>4. ContentsOf(saved[Owner[t]].manifest)' = ContentsOf(saved[Owner[t]].manifest)
    BY <2>3 DEF ContentsOf
  <2>5. MovesTo(t)
    BY <2>1, <2>3, <2>4, TaskInvFacts DEF MovesTo, TaskBecomes, Active, Undeclared, Clearing, Writing
  <2> QED BY <2>2, <2>3, <2>5, TaskInvMoves
<1>17. ASSUME NEW t \in Tasks, ClearStore(t)
      PROVE  TaskInv'
  <2>1. \/ TaskBecomes(t, "idle", TRUE, NoContent, 0, {})
        \/ TaskBecomes(t, "withdraw", task[t].ok, task[t].content, task[t].seg, {})
    BY <1>17, ClearStoreTask
  <2>2. Settled /\ Grown
    BY <1>17, QuietSettles DEF ClearStore, manifestVars
  <2>3. used \subseteq used' /\ task[t].at = "clearing"
    BY <1>17 DEF ClearStore
  <2>4. CASE TaskBecomes(t, "idle", TRUE, NoContent, 0, {})
    <3>1. MovesTo(t)
      BY <2>3, <2>4 DEF MovesTo, TaskBecomes, Active, Undeclared, Clearing, Writing
    <3> QED BY <2>2, <2>3, <3>1, TaskInvMoves
  <2>5. CASE TaskBecomes(t, "withdraw", task[t].ok, task[t].content, task[t].seg, {})
    <3>1. MovesTo(t)
      BY <2>3, <2>5 DEF MovesTo, TaskBecomes, Active, Undeclared, Clearing, Writing
    <3> QED BY <2>2, <2>3, <3>1, TaskInvMoves
  <2> QED BY <2>1, <2>4, <2>5
<1>18. ASSUME NEW t \in Tasks, Withdraw(t)
      PROVE  TaskInv'
  <2>1. TaskBecomes(t, "idle", TRUE, NoContent, 0, {})
    BY <1>18, GotoSteps
  <2>2. Settled /\ Grown
    BY <1>18, TaskSettles
  <2>3. used \subseteq used'
    BY <1>18 DEF Withdraw
  <2>4. MovesTo(t)
    BY <1>18, <2>1, <2>3, TaskInvFacts DEF MovesTo, TaskBecomes, Withdraw, Active, Undeclared, Clearing, Writing
  <2> QED BY <2>2, <2>3, <2>4, TaskInvMoves
<1>19. ASSUME NEW p \in Members, NEW e \in Entries, Delete(p, e)
      PROVE  TaskInv'
  <2>1. Settled /\ Grown
    BY <1>19, MemberSettles
  <2> QED BY <1>19, <2>1, TaskInvSame DEF Delete
<1>20. ASSUME NEW p \in Members, NEW e \in Entries, NEW v \in AllVersions(manifest[p]),
              RevertAsset(p, e, v)
      PROVE  TaskInv'
  <2>1. Settled /\ Grown
    BY <1>20, MemberSettles
  <2> QED BY <1>20, <2>1, TaskInvSame DEF RevertAsset
<1>21. ASSUME NEW p \in Members, NEW q \in Members, ManifestArrived(p, q)
      PROVE  TaskInv'
  <2>1. Settled /\ Grown
    BY <1>21, MemberSettles
  <2> QED BY <1>21, <2>1, TaskInvSame DEF ManifestArrived
<1>22. ASSUME NEW p \in Members, FinishAdopting(p)
      PROVE  TaskInv'
  <2>1. Settled /\ Grown
    BY <1>22, MemberSettles
  <2> QED BY <1>22, <2>1, TaskInvSame DEF FinishAdopting
<1>23. ASSUME NEW p \in Members, Snapshot(p)
      PROVE  TaskInv'
  <2>1. Settled /\ Grown
    BY <1>23, MemberSettles
  <2> QED BY <1>23, <2>1, TaskInvSame DEF Snapshot
<1>24. ASSUME NEW p \in Members, Restart(p)
      PROVE  TaskInv'
  <2>1. Settled
    BY <1>24, RestartSettles
  <2>2. /\ \A x \in Members \ {p} : manifest'[x] = manifest[x]
        /\ saved' = saved /\ manifest'[p] = saved[p].manifest /\ used' = used
    BY <1>24, RestartEffect DEF IInv, Changed, Restart
  <2>3. \A x \in Tasks : /\ Owner[x] \in Members
                         /\ Owner[x] # p => task'[x] = task[x] /\ (Active(x)' <=> Active(x))
                         /\ Owner[x] = p => task'[x].at = "idle" /\ ~Active(x)'
    BY <1>24, RestartTask, IdleType, OwnerType DEF Active, Undeclared, Clearing, Writing
  <2>4. ASSUME NEW x \in Tasks
        PROVE  /\ Active(x)' => task'[x].content \in used'
               /\ task'[x].at \in Writing \cup {"seal", "declared"} => task'[x].ok
               /\ task'[x].at = "discard" => ~task'[x].ok
               /\ (Active(x)' /\ ~(task'[x].at \in Clearing /\ task'[x].ok)) => task'[x].content \notin Declared'
               /\ task'[x].at = "declared" => task'[x].content \in ContentsOf(manifest[Owner[x]])'
               /\ (task'[x].at \in {"clear", "clearing"} /\ task'[x].ok) =>
                     task'[x].content \in ContentsOf(saved[Owner[x]].manifest)'
    <3>1. CASE Owner[x] = p
      BY <2>3, <3>1 DEF Writing
    <3>2. CASE Owner[x] # p
      <4>1. /\ ContentsOf(saved[Owner[x]].manifest)' = ContentsOf(saved[Owner[x]].manifest)
            /\ ContentsOf(manifest[Owner[x]])' = ContentsOf(manifest[Owner[x]])
            /\ Declared' \subseteq Declared
        BY <2>1, <2>2, <2>3, <3>2 DEF Settled, ContentsOf
      <4> QED BY <2>2, <2>3, <3>2, <4>1, TaskInvFacts
    <3> QED BY <3>1, <3>2
  <2>5. \A x, u \in Tasks : Active(x)' /\ Active(u)' /\ task'[x].content = task'[u].content => x = u
    BY <2>3, TaskInvFacts
  <2>6. ASSUME NEW q \in Members, NEW w \in manifest'[q].versions \ saved'[q].manifest.versions
         PROVE  \E x \in Tasks : Mine(x, q, w.content)' /\ task'[x].at = "declared"
    <3>1. q # p /\ w \in manifest[q].versions \ saved[q].manifest.versions
      BY <2>2, <2>6
    <3>2. PICK x \in Tasks : Mine(x, q, w.content) /\ task[x].at = "declared"
      BY <3>1 DEF IInv, TaskInv
    <3> QED BY <2>3, <3>1, <3>2 DEF Mine
  <2> QED BY <2>4, <2>5, <2>6 DEF TaskInv
<1>25. ASSUME UNCHANGED vars
      PROVE  UNCHANGED <<task, used, manifest, posted, saved>>
  BY <1>25, Zenon DEF vars, manifestVars
<1>26. limit.tasks \subseteq Tasks /\ limit.sizes \subseteq 0..MaxSize
  BY LimitFacts DEF IInv, Types, TaskTypes
<1> QED BY <1>1, <1>2, <1>3, <1>4, <1>5, <1>6, <1>7, <1>8, <1>9, <1>10, <1>11, <1>12, <1>13,
           <1>14, <1>15, <1>16, <1>17, <1>18, <1>19, <1>20, <1>21, <1>22, <1>23, <1>24, <1>25,
           <1>26 DEF Next

-----------------------------------------------------------------------------
(* The log.                                                                *)

Logging == {"write", "discard"} \cup Clearing

LEMMA LogSame ==
    ASSUME IInv, task' = task, pending' = pending, logLost' = logLost, Settled
    PROVE  LogInv'
<1>1. \A x \in Tasks : Active(x)' <=> Active(x)
  BY DEF Active
<1>2. Declared' \subseteq Declared
  BY DEF Settled
<1>3. LogInv
  BY DEF IInv
<1>4. \A x \in Tasks, p \in Members : \A c : Mine(x, p, c)' <=> Mine(x, p, c)
  BY DEF Mine
<1> HIDE DEF Mine, Active
<1> QED BY <1>1, <1>2, <1>3, <1>4 DEF LogInv

(* The task that moves and its owner's log, after the step. *)
LogsTo(t) ==
  LET p == Owner[t] IN
  /\ logLost \subseteq logLost'
  /\ \A x \in Tasks \ {t} : task'[x] = task[x]
  /\ \A q \in Members \ {p} : pending'[q] = pending[q]
  /\ \A c \in Declared' \ Declared : Active(t)' /\ task'[t].content = c
  /\ Active(t)' => \A q \in Members \ logLost : q # p => task'[t].content \notin pending[q]
  /\ p \notin logLost' =>
       /\ task'[t].at \in Logging => task'[t].content \in pending'[p]
       /\ \A x \in Tasks \ {t} : Active(x) => (task[x].content \in pending'[p] <=> task[x].content \in pending[p])
       /\ \A c \in pending'[p] \cap Declared' :
            \/ task'[t].content = c /\ task'[t].at \in Clearing /\ task'[t].ok
            \/ c \in pending[p] \cap Declared /\ ~(task[t].content = c /\ task[t].at \in Clearing /\ task[t].ok)

LEMMA LogAt ==
    ASSUME LogInv, NEW q \in Members, q \notin logLost
    PROVE  /\ \A x \in Tasks : Owner[x] = q /\ task[x].at \in Logging => task[x].content \in pending[q]
           /\ \A c \in pending[q] : \A x \in Tasks : Active(x) /\ task[x].content = c => Owner[x] = q
           /\ \A c \in pending[q] \cap Declared :
                \E x \in Tasks : Mine(x, q, c) /\ task[x].at \in Clearing /\ task[x].ok
BY DEF LogInv, Logging

LEMMA LogMoves ==
    ASSUME IInv, NEW t \in Tasks, LogsTo(t)
    PROVE  LogInv'
<1> DEFINE p == Owner[t]
<1>1. LogInv /\ p \in Members
  BY OwnerType DEF IInv
<1>2. /\ \A x \in Tasks \ {t} : task'[x] = task[x] /\ (Active(x)' <=> Active(x))
      /\ \A q \in Members \ {p} : pending'[q] = pending[q]
      /\ \A q : q \notin logLost' => q \notin logLost
  BY DEF LogsTo, Active
<1>3. ASSUME NEW q \in Members \ logLost', q # p
      PROVE  /\ \A x \in Tasks : Owner[x] = q /\ task'[x].at \in Logging => task'[x].content \in pending'[q]
             /\ \A c \in pending'[q] : \A x \in Tasks : Active(x)' /\ task'[x].content = c => Owner[x] = q
             /\ \A c \in pending'[q] \cap Declared' :
                  \E x \in Tasks : Mine(x, q, c)' /\ task'[x].at \in Clearing /\ task'[x].ok
  <2>1. q \in Members \ logLost /\ pending'[q] = pending[q] /\ p # q
    BY <1>2, <1>3
  <2>2. \A x \in Tasks : Owner[x] = q => x # t
    BY <2>1
  <2>3. Active(t)' => task'[t].content \notin pending[q]
    BY <2>1 DEF LogsTo
  <2>4. pending[q] \cap Declared' \subseteq Declared
    BY <2>3 DEF LogsTo
  <2>5. \A x \in Tasks : Owner[x] = q /\ task'[x].at \in Logging => task'[x].content \in pending'[q]
    BY <1>1, <1>2, <2>1, <2>2 DEF LogInv, Logging
  <2>6. ASSUME NEW c \in pending'[q], NEW x \in Tasks, Active(x)', task'[x].content = c
        PROVE  Owner[x] = q
    <3>1. x # t /\ c \in pending[q]
      BY <2>1, <2>3, <2>6
    <3>2. Active(x) /\ task[x].content = c
      BY <1>2, <2>6, <3>1
    <3> QED BY <1>1, <2>1, <3>1, <3>2, LogAt
  <2>7. ASSUME NEW c \in pending'[q] \cap Declared'
        PROVE  \E x \in Tasks : Mine(x, q, c)' /\ task'[x].at \in Clearing /\ task'[x].ok
    <3>1. c \in pending[q] \cap Declared
      BY <2>1, <2>4
    <3>2. PICK x \in Tasks : Mine(x, q, c) /\ task[x].at \in Clearing /\ task[x].ok
      BY <1>1, <2>1, <3>1, LogAt
    <3>3. Owner[x] = q /\ task[x].content = c
      BY <3>2 DEF Mine
    <3>4. task'[x] = task[x]
      BY <1>2, <2>2, <3>3
    <3> QED BY <3>2, <3>3, <3>4 DEF Mine
  <2> QED BY <2>5, <2>6, <2>7
<1>4. ASSUME p \notin logLost'
      PROVE  /\ \A x \in Tasks : Owner[x] = p /\ task'[x].at \in Logging => task'[x].content \in pending'[p]
             /\ \A c \in pending'[p] : \A x \in Tasks : Active(x)' /\ task'[x].content = c => Owner[x] = p
             /\ \A c \in pending'[p] \cap Declared' :
                  \E x \in Tasks : Mine(x, p, c)' /\ task'[x].at \in Clearing /\ task'[x].ok
  <2>1. /\ p \notin logLost
        /\ task'[t].at \in Logging => task'[t].content \in pending'[p]
        /\ \A x \in Tasks \ {t} : Active(x) => (task[x].content \in pending'[p] <=> task[x].content \in pending[p])
        /\ \A c \in pending'[p] \cap Declared' :
            \/ task'[t].content = c /\ task'[t].at \in Clearing /\ task'[t].ok
            \/ c \in pending[p] \cap Declared /\ ~(task[t].content = c /\ task[t].at \in Clearing /\ task[t].ok)
    BY <1>2, <1>4 DEF LogsTo
  <2>2. \A x \in Tasks : Owner[x] = p /\ task'[x].at \in Logging => task'[x].content \in pending'[p]
    <3>1. ASSUME NEW x \in Tasks \ {t}, Owner[x] = p, task[x].at \in Logging
          PROVE  task[x].content \in pending'[p]
      <4>1. Active(x)
        BY <3>1 DEF Logging, Active, Undeclared, Writing
      <4>2. task[x].content \in pending[p]
        BY <1>1, <2>1, <3>1 DEF LogInv, Logging
      <4> QED BY <2>1, <4>1, <4>2
    <3> QED BY <1>2, <2>1, <3>1
  <2>3. ASSUME NEW c \in pending'[p], NEW x \in Tasks, Active(x)', task'[x].content = c
        PROVE  Owner[x] = p
    <3>1. CASE x = t
      BY <3>1
    <3>2. CASE x # t
      <4>1. Active(x) /\ task[x].content = c
        BY <1>2, <2>3, <3>2
      <4>2. c \in pending[p]
        BY <2>1, <2>3, <3>2, <4>1
      <4> QED BY <1>1, <2>1, <4>1, <4>2, LogAt
    <3> QED BY <3>1, <3>2
  <2>4. ASSUME NEW c \in pending'[p] \cap Declared'
        PROVE  \E x \in Tasks : Mine(x, p, c)' /\ task'[x].at \in Clearing /\ task'[x].ok
    <3>1. CASE task'[t].content = c /\ task'[t].at \in Clearing /\ task'[t].ok
      BY <3>1 DEF Mine
    <3>2. CASE c \in pending[p] \cap Declared /\ ~(task[t].content = c /\ task[t].at \in Clearing /\ task[t].ok)
      <4>1. PICK x \in Tasks : Mine(x, p, c) /\ task[x].at \in Clearing /\ task[x].ok
        BY <1>1, <2>1, <3>2, LogAt
      <4>2. Owner[x] = p /\ task[x].content = c
        BY <4>1 DEF Mine
      <4>3. task'[x] = task[x]
        BY <1>2, <3>2, <4>1, <4>2
      <4> QED BY <4>1, <4>2, <4>3 DEF Mine
    <3> QED BY <2>1, <3>1, <3>2
  <2> QED BY <2>2, <2>3, <2>4
<1> HIDE DEF p
<1>5. \A q \in Members \ logLost' :
        /\ \A x \in Tasks : Owner[x] = q /\ task'[x].at \in Logging => task'[x].content \in pending'[q]
        /\ \A c \in pending'[q] : \A x \in Tasks : Active(x)' /\ task'[x].content = c => Owner[x] = q
        /\ \A c \in pending'[q] \cap Declared' :
             \E x \in Tasks : Mine(x, q, c)' /\ task'[x].at \in Clearing /\ task'[x].ok
  BY <1>3, <1>4
<1> QED BY <1>5 DEF LogInv, Logging

LEMMA LogFacts ==
    ASSUME IInv, NEW t \in Tasks
    PROVE  /\ Owner[t] \in Members
           /\ Active(t) => \A q \in Members \ logLost : q # Owner[t] => task[t].content \notin pending[q]
           /\ (Owner[t] \notin logLost /\ task[t].at \in Logging) => task[t].content \in pending[Owner[t]]
           /\ \A q \in Members : pending[q] \subseteq used
<1>1. LogInv /\ Owner[t] \in Members
  BY OwnerType DEF IInv
<1>2. ASSUME Active(t), NEW q \in Members \ logLost, q # Owner[t]
      PROVE  task[t].content \notin pending[q]
  BY <1>1, <1>2, LogAt
<1>3. (Owner[t] \notin logLost /\ task[t].at \in Logging) => task[t].content \in pending[Owner[t]]
  BY <1>1, LogAt
<1>4. \A q \in Members : pending[q] \subseteq used
  BY DEF IInv, Bounds, MemberBounds
<1> QED BY <1>1, <1>2, <1>3, <1>4

(* A task moves and its owner's log stays as it is. *)
LEMMA LogStays ==
    ASSUME IInv, NEW t \in Tasks, NEW at, NEW ok, NEW c, NEW seg, NEW log,
           TaskBecomes(t, at, ok, c, seg, log), UNCHANGED <<pending, logLost>>, Settled,
           at \in Undeclared \cup Clearing => \/ Active(t) /\ c = task[t].content
                                              \/ c \notin used,
           (Owner[t] \notin logLost /\ at \in Logging) => c \in pending[Owner[t]],
           (task[t].at \in Clearing /\ task[t].ok) => at \in Clearing /\ task'[t].ok /\ c = task[t].content
    PROVE  LogInv'
<1>1. /\ \A x \in Tasks \ {t} : task'[x] = task[x]
      /\ task'[t].at = at /\ task'[t].content = c
      /\ Active(t)' <=> at \in Undeclared \cup Clearing
  BY DEF TaskBecomes, Active
<1>2. Declared' \subseteq Declared
  BY DEF Settled
<1>3. Active(t)' => \A q \in Members \ logLost : q # Owner[t] => task'[t].content \notin pending[q]
  BY <1>1, LogFacts
<1>4. LogsTo(t)
  BY <1>1, <1>2, <1>3 DEF LogsTo
<1> QED BY <1>4, LogMoves

LEMMA LogInvStep ==
    ASSUME IInv, [Next]_vars
    PROVE  LogInv'
<1>1. ASSUME UNCHANGED <<task, pending, logLost, manifest, posted, saved>>
      PROVE  LogInv'
  BY <1>1, QuietSettles, LogSame
<1>2. ASSUME NEW p, \/ \E v, i : Export(p, v, i)
                    \/ \E a, c : RequestRepair(p, a, c)
                    \/ \E q, a, s : Reconcile(p, q, a, s)
                    \/ \E s : Carry(p, s)
                    \/ StoreKey(p) \/ AdoptNamespace(p) \/ Join(p) \/ Demote(p)
      PROVE  UNCHANGED <<task, pending, logLost, manifest, posted, saved>>
  BY <1>2, Zenon DEF Export, RequestRepair, Reconcile, Carry, StoreKey, AdoptNamespace, Join,
     Demote, logVars, manifestVars
<1>3. ASSUME NEW r, AnswerRepair(r)
      PROVE  UNCHANGED <<task, pending, logLost, manifest, posted, saved>>
  BY <1>3, Zenon DEF AnswerRepair, logVars, manifestVars
<1>4. ASSUME NEW t \in Tasks, NEW e \in Entries, NEW size \in 0..MaxSize, AttachFile(t, e, size)
      PROVE  LogInv'
  <2>1. PICK at, ok, c, seg, log :
          /\ TaskBecomes(t, at, ok, c, seg, log) /\ at = "seal" /\ task'[t].at = "seal"
    BY <1>4, StartTask DEF TaskBecomes
  <2>2. Settled
    BY <1>4, TaskSettles
  <2>3. UNCHANGED <<pending, logLost>> /\ task[t].at = "idle"
    BY <1>4 DEF AttachFile, logVars
  <2> QED BY <2>1, <2>2, <2>3, LogStays DEF Logging, Active, Undeclared, Clearing, Writing
<1>5. ASSUME NEW t \in Tasks, NEW e \in Entries, NEW size \in 0..MaxSize, AttachVersion(t, e,
              size)
      PROVE  LogInv'
  <2>1. PICK at, ok, c, seg, log :
          /\ TaskBecomes(t, at, ok, c, seg, log) /\ at = "seal" /\ task'[t].at = "seal"
    BY <1>5, StartTask DEF TaskBecomes
  <2>2. Settled
    BY <1>5, QuietSettles DEF AttachVersion, manifestVars
  <2>3. UNCHANGED <<pending, logLost>> /\ task[t].at = "idle"
    BY <1>5 DEF AttachVersion, logVars
  <2> QED BY <2>1, <2>2, <2>3, LogStays DEF Logging, Active, Undeclared, Clearing, Writing
<1>6. ASSUME NEW t \in Tasks, NEW c \in Contents, Seal(t, c)
      PROVE  LogInv'
  <2>1. TaskBecomes(t, "note", task[t].ok, c, task[t].seg, task[t].log)
    BY <1>6, SealTask
  <2>2. Settled
    BY <1>6, QuietSettles DEF Seal, manifestVars
  <2>3. UNCHANGED <<pending, logLost>> /\ task[t].at = "seal" /\ c \notin used
    BY <1>6 DEF Seal, logVars
  <2> QED BY <2>1, <2>2, <2>3, LogStays DEF Logging, Active, Undeclared, Clearing, Writing
<1>7. ASSUME NEW t \in Tasks, SealRefused(t)
      PROVE  LogInv'
  <2>1. PICK step \in {"withdraw", "idle"} : TaskBecomes(t, step, task[t].ok, task[t].content, task[t].seg, task[t].log)
    BY <1>7, GotoSteps
  <2>2. Settled
    BY <1>7, QuietSettles DEF SealRefused, manifestVars
  <2>3. UNCHANGED <<pending, logLost>> /\ task[t].at \in {"seal", "write"}
    BY <1>7 DEF SealRefused, logVars, Complete
  <2> QED BY <2>1, <2>2, <2>3, LogStays DEF Logging, Active, Undeclared, Clearing, Writing
<1>8. ASSUME NEW t \in Tasks, NoteLoad(t)
      PROVE  LogInv'
  <2>1. TaskBecomes(t, "noted", task[t].ok, task[t].content, task[t].seg, pending[Owner[t]])
    BY <1>8, GotoSteps
  <2>2. Settled
    BY <1>8, QuietSettles DEF NoteLoad, manifestVars
  <2>3. UNCHANGED <<pending, logLost>>
    BY <1>8 DEF NoteLoad, logVars
  <2> QED BY <1>8, <2>1, <2>2, <2>3, LogFacts, LogStays DEF NoteLoad, Logging, TaskBecomes, Active, Undeclared, Clearing, Writing
<1>9. ASSUME NEW t \in Tasks, NoteStore(t)
      PROVE  LogInv'
  <2> DEFINE p == Owner[t]
  <2>1. TaskBecomes(t, "write", task[t].ok, task[t].content, task[t].seg, {})
    BY <1>9, GotoSteps
  <2>2. /\ \A x \in Tasks \ {t} : task'[x] = task[x]
        /\ task'[t].at = "write" /\ task'[t].content = task[t].content
        /\ Active(t)' /\ Active(t) /\ task[t].at = "noted" /\ task[t].content \notin Declared
    BY <1>9, <2>1, TaskInvFacts DEF TaskBecomes, NoteStore, Active, Undeclared, Clearing, Writing
  <2>3. Declared' \subseteq Declared
    BY <1>9, QuietSettles DEF Settled, NoteStore, manifestVars
  <2>4. p \in Members /\ pending \in [Members -> SUBSET Contents]
    BY OwnerType DEF IInv, Types, TaskTypes
  <2>5. \/ pending' = pending /\ p \in logLost'
        \/ /\ pending' = [pending EXCEPT ![p] = task[t].log \cup {task[t].content}]
           /\ logLost' = IF pending[p] = task[t].log THEN logLost ELSE logLost \cup {p}
    BY <1>9, Zenon DEF NoteStore, StoreLog, LogFails
  <2>6. logLost \subseteq logLost'
    BY <1>9 DEF NoteStore, StoreLog, LogFails
  <2> HIDE DEF p
  <2>7. /\ \A q \in Members \ {p} : pending'[q] = pending[q]
        /\ p \notin logLost' => pending'[p] = pending[p] \cup {task[t].content}
    BY <2>4, <2>5
  <2>8. LogsTo(t)
    BY <2>2, <2>3, <2>6, <2>7, LogFacts, TaskInvFacts DEF LogsTo, Clearing, p
  <2> QED BY <2>8, LogMoves
<1>10. ASSUME NEW t \in Tasks, StoreSegment(t)
      PROVE  LogInv'
  <2>1. TaskBecomes(t, "write", task[t].ok, task[t].content, task[t].seg + 1, task[t].log)
    BY <1>10, StoreSegmentTask
  <2>2. Settled
    BY <1>10, QuietSettles DEF StoreSegment, manifestVars
  <2>3. UNCHANGED <<pending, logLost>>
    BY <1>10 DEF StoreSegment, logVars
  <2> QED BY <1>10, <2>1, <2>2, <2>3, LogFacts, LogStays DEF StoreSegment, Logging, TaskBecomes, Active, Undeclared, Clearing, Writing
<1>11. ASSUME NEW t \in Tasks, SegmentFails(t)
      PROVE  LogInv'
  <2>1. TaskBecomes(t, "discard", FALSE, task[t].content, task[t].seg, task[t].log)
    BY <1>11, SegmentFailsTask
  <2>2. Settled
    BY <1>11, QuietSettles DEF SegmentFails, manifestVars
  <2>3. UNCHANGED <<pending, logLost>>
    BY <1>11 DEF SegmentFails, logVars
  <2> QED BY <1>11, <2>1, <2>2, <2>3, LogFacts, LogStays DEF SegmentFails, Logging, TaskBecomes, Active, Undeclared, Clearing, Writing
<1>12. ASSUME NEW t \in Tasks, Declare(t)
      PROVE  LogInv'
  <2>1. TaskBecomes(t, "declared", task[t].ok, task[t].content, task[t].seg, task[t].log)
    BY <1>12, GotoSteps
  <2>2. /\ \A x \in Tasks \ {t} : task'[x] = task[x]
        /\ task'[t].at = "declared" /\ task'[t].ok = task[t].ok /\ task'[t].content = task[t].content
        /\ Active(t)'
    BY <2>1 DEF TaskBecomes, Active, Undeclared, Clearing, Writing
  <2>3. UNCHANGED <<pending, logLost>> /\ task[t].at = "write" /\ Active(t) /\ task[t].ok
    BY <1>12, TaskInvFacts DEF Declare, Complete, logVars, Active, Undeclared, Clearing, Writing
  <2>4. Declared' \subseteq Declared \cup {task[t].content}
    <3>2. PICK v, m : /\ Changed(Owner[t], m)
                      /\ m.versions = manifest[Owner[t]].versions \cup {v}
                      /\ v.content = task[t].content
      BY <1>12, DeclareAdds
    <3>3. Declared' \subseteq Declared \cup ContentsOf(m)
      BY <3>2, OwnerType, ChangedHeld DEF IInv, Types
    <3>4. ContentsOf(m) \subseteq Declared \cup {task[t].content}
      BY <3>2, OwnerType, DeclaredNow DEF ContentsOf
    <3> QED BY <3>3, <3>4
  <2>5. LogsTo(t)
    BY <2>2, <2>3, <2>4, LogFacts DEF LogsTo, Logging, Clearing
  <2> QED BY <2>5, LogMoves
<1>13. ASSUME NEW t \in Tasks, DeclareRefused(t)
      PROVE  LogInv'
  <2>1. PICK step \in {"withdraw", "idle"} : TaskBecomes(t, step, task[t].ok, task[t].content, task[t].seg, task[t].log)
    BY <1>13, GotoSteps
  <2>2. Settled
    BY <1>13, QuietSettles DEF DeclareRefused, manifestVars
  <2>3. UNCHANGED <<pending, logLost>> /\ task[t].at \in {"seal", "write"}
    BY <1>13 DEF DeclareRefused, logVars, Complete
  <2> QED BY <2>1, <2>2, <2>3, LogStays DEF Logging, Active, Undeclared, Clearing, Writing
<1>14. ASSUME NEW t \in Tasks, Persist(t)
      PROVE  LogInv'
  <2>1. TaskBecomes(t, "clear", task[t].ok, task[t].content, task[t].seg, task[t].log)
    BY <1>14, GotoSteps
  <2>2. Settled
    BY <1>14, TaskSettles
  <2>3. UNCHANGED <<pending, logLost>>
    BY <1>14 DEF Persist, logVars
  <2>4. task[t].at = "declared" /\ task'[t].ok = task[t].ok
    BY <1>14, <2>1 DEF Persist, TaskBecomes
  <2>5. Active(t) /\ task[t].at \in Logging /\ "clear" \in Clearing /\ "clearing" \in Clearing
    BY <2>4 DEF Active, Logging, Clearing
  <2>6. Owner[t] \notin logLost => task[t].content \in pending[Owner[t]]
    BY <2>5, LogFacts
  <2> QED BY <2>1, <2>2, <2>3, <2>4, <2>5, <2>6, LogStays
<1>15. ASSUME NEW t \in Tasks, Discard(t)
      PROVE  LogInv'
  <2>1. TaskBecomes(t, "clear", task[t].ok, task[t].content, task[t].seg, task[t].log)
    BY <1>15, GotoSteps
  <2>2. Settled
    BY <1>15, QuietSettles DEF Discard, manifestVars
  <2>3. UNCHANGED <<pending, logLost>>
    BY <1>15 DEF Discard, logVars
  <2> QED BY <1>15, <2>1, <2>2, <2>3, LogFacts, TaskInvFacts, LogStays DEF Discard, Logging, TaskBecomes, Active, Undeclared, Clearing, Writing
<1>16. ASSUME NEW t \in Tasks, ClearLoad(t)
      PROVE  LogInv'
  <2>1. TaskBecomes(t, "clearing", task[t].ok, task[t].content, task[t].seg, pending[Owner[t]])
    BY <1>16, GotoSteps
  <2>2. Settled
    BY <1>16, QuietSettles DEF ClearLoad, manifestVars
  <2>3. UNCHANGED <<pending, logLost>>
    BY <1>16 DEF ClearLoad, logVars
  <2>4. task[t].at = "clear" /\ task'[t].ok = task[t].ok
    BY <1>16, <2>1 DEF ClearLoad, TaskBecomes
  <2>5. Active(t) /\ task[t].at \in Logging /\ "clear" \in Clearing /\ "clearing" \in Clearing
    BY <2>4 DEF Active, Logging, Clearing
  <2>6. Owner[t] \notin logLost => task[t].content \in pending[Owner[t]]
    BY <2>5, LogFacts
  <2> QED BY <2>1, <2>2, <2>3, <2>4, <2>5, <2>6, LogStays
<1>17. ASSUME NEW t \in Tasks, ClearStore(t)
      PROVE  LogInv'
  <2> DEFINE p == Owner[t]
  <2>1. \/ TaskBecomes(t, "idle", TRUE, NoContent, 0, {})
        \/ TaskBecomes(t, "withdraw", task[t].ok, task[t].content, task[t].seg, {})
    BY <1>17, ClearStoreTask
  <2>2. /\ \A x \in Tasks \ {t} : task'[x] = task[x]
        /\ task'[t].at \in {"idle", "withdraw"}
        /\ ~Active(t)' /\ Active(t) /\ task[t].at = "clearing"
    BY <1>17, <2>1 DEF TaskBecomes, ClearStore, Active, Undeclared, Clearing, Writing
  <2>3. Declared' \subseteq Declared
    BY <1>17, QuietSettles DEF Settled, ClearStore, manifestVars
  <2>4. p \in Members /\ pending \in [Members -> SUBSET Contents]
    BY OwnerType DEF IInv, Types, TaskTypes
  <2>5. \/ pending' = pending /\ p \in logLost'
        \/ /\ pending' = [pending EXCEPT ![p] = task[t].log \ {task[t].content}]
           /\ logLost' = IF pending[p] = task[t].log THEN logLost ELSE logLost \cup {p}
    BY <1>17, Zenon DEF ClearStore, StoreLog, LogFails
  <2>6. logLost \subseteq logLost'
    BY <1>17 DEF ClearStore, StoreLog, LogFails
  <2> HIDE DEF p
  <2>7. /\ \A q \in Members \ {p} : pending'[q] = pending[q]
        /\ p \notin logLost' => pending'[p] = pending[p] \ {task[t].content}
    BY <2>4, <2>5
  <2>8. LogsTo(t)
    BY <2>2, <2>3, <2>6, <2>7, LogFacts, TaskInvFacts DEF LogsTo, Logging, Clearing, p
  <2> QED BY <2>8, LogMoves
<1>18. ASSUME NEW t \in Tasks, Withdraw(t)
      PROVE  LogInv'
  <2>1. TaskBecomes(t, "idle", TRUE, NoContent, 0, {})
    BY <1>18, GotoSteps
  <2>2. Settled
    BY <1>18, TaskSettles
  <2>3. UNCHANGED <<pending, logLost>> /\ task[t].at = "withdraw"
    BY <1>18 DEF Withdraw, logVars
  <2>4. "idle" \notin Undeclared \cup Clearing /\ "idle" \notin Logging /\ "withdraw" \notin Clearing
    BY DEF Logging, Undeclared, Clearing, Writing
  <2> QED BY <2>1, <2>2, <2>3, <2>4, LogStays
<1>19. ASSUME NEW p \in Members, NEW e \in Entries, Delete(p, e)
      PROVE  LogInv'
  <2>1. Settled
    BY <1>19, MemberSettles
  <2> QED BY <1>19, <2>1, LogSame DEF Delete, logVars
<1>20. ASSUME NEW p \in Members, NEW e \in Entries, NEW v \in AllVersions(manifest[p]),
              RevertAsset(p, e, v)
      PROVE  LogInv'
  <2>1. Settled
    BY <1>20, MemberSettles
  <2> QED BY <1>20, <2>1, LogSame DEF RevertAsset, logVars
<1>21. ASSUME NEW p \in Members, NEW q \in Members, ManifestArrived(p, q)
      PROVE  LogInv'
  <2>1. Settled
    BY <1>21, MemberSettles
  <2> QED BY <1>21, <2>1, LogSame DEF ManifestArrived, logVars
<1>22. ASSUME NEW p \in Members, FinishAdopting(p)
      PROVE  LogInv'
  <2>1. Settled
    BY <1>22, MemberSettles
  <2> QED BY <1>22, <2>1, LogSame DEF FinishAdopting, logVars
<1>23. ASSUME NEW p \in Members, Snapshot(p)
      PROVE  LogInv'
  <2>1. Settled
    BY <1>23, MemberSettles
  <2> QED BY <1>23, <2>1, LogSame DEF Snapshot, logVars
<1>24. ASSUME NEW p \in Members, Restart(p)
      PROVE  LogInv'
  <2>1. Declared' \subseteq Declared
    BY <1>24, RestartSettles DEF Settled
  <2>2. \A x \in Tasks : /\ Owner[x] # p => task'[x] = task[x] /\ (Active(x)' <=> Active(x))
                         /\ Owner[x] = p => task'[x].at = "idle" /\ ~Active(x)'
    BY <1>24, RestartTask, IdleType DEF Active, Undeclared, Clearing, Writing
  <2>3. pending'[p] = {} /\ logLost' = logLost /\ \A q \in Members \ {p} : pending'[q] = pending[q]
    BY <1>24 DEF Restart, IInv, Types, TaskTypes
  <2>4. LogInv
    BY DEF IInv
  <2>5. ASSUME NEW q \in Members \ logLost', q = p
        PROVE  /\ \A x \in Tasks : Owner[x] = q /\ task'[x].at \in Logging => task'[x].content \in pending'[q]
               /\ \A c \in pending'[q] : \A x \in Tasks : Active(x)' /\ task'[x].content = c => Owner[x] = q
               /\ \A c \in pending'[q] \cap Declared' :
                    \E x \in Tasks : Mine(x, q, c)' /\ task'[x].at \in Clearing /\ task'[x].ok
    BY <2>2, <2>3, <2>5 DEF Logging, Clearing
  <2>6. ASSUME NEW q \in Members \ logLost', q # p
        PROVE  /\ \A x \in Tasks : Owner[x] = q /\ task'[x].at \in Logging => task'[x].content \in pending'[q]
               /\ \A c \in pending'[q] : \A x \in Tasks : Active(x)' /\ task'[x].content = c => Owner[x] = q
               /\ \A c \in pending'[q] \cap Declared' :
                    \E x \in Tasks : Mine(x, q, c)' /\ task'[x].at \in Clearing /\ task'[x].ok
    <3>1. q \in Members \ logLost /\ pending'[q] = pending[q]
      BY <2>3, <2>6
    <3>2. \A x \in Tasks : Owner[x] = q /\ task'[x].at \in Logging => task'[x].content \in pending'[q]
      BY <2>2, <2>4, <2>6, <3>1 DEF LogInv, Logging
    <3>3. ASSUME NEW c \in pending'[q], NEW x \in Tasks, Active(x)', task'[x].content = c
          PROVE  Owner[x] = q
      <4>1. Active(x) /\ task[x].content = c
        BY <2>2, <3>3
      <4> QED BY <2>4, <3>1, <3>3, <4>1, LogAt
    <3>4. ASSUME NEW c \in pending'[q] \cap Declared'
          PROVE  \E x \in Tasks : Mine(x, q, c)' /\ task'[x].at \in Clearing /\ task'[x].ok
      <4>1. PICK x \in Tasks : Mine(x, q, c) /\ task[x].at \in Clearing /\ task[x].ok
        BY <2>1, <2>4, <3>1, LogAt
      <4>2. Owner[x] = q /\ task[x].content = c
        BY <4>1 DEF Mine
      <4>3. task'[x] = task[x]
        BY <2>2, <2>6, <4>2
      <4> QED BY <4>1, <4>2, <4>3 DEF Mine
    <3> QED BY <3>2, <3>3, <3>4
  <2>7. \A q \in Members \ logLost' :
          /\ \A x \in Tasks : Owner[x] = q /\ task'[x].at \in Logging => task'[x].content \in pending'[q]
          /\ \A c \in pending'[q] : \A x \in Tasks : Active(x)' /\ task'[x].content = c => Owner[x] = q
          /\ \A c \in pending'[q] \cap Declared' :
               \E x \in Tasks : Mine(x, q, c)' /\ task'[x].at \in Clearing /\ task'[x].ok
    BY <2>5, <2>6
  <2> QED BY <2>7 DEF LogInv, Logging
<1>25. ASSUME UNCHANGED vars
      PROVE  UNCHANGED <<task, pending, logLost, manifest, posted, saved>>
  BY <1>25, Zenon DEF vars, logVars, manifestVars
<1>26. limit.tasks \subseteq Tasks /\ limit.sizes \subseteq 0..MaxSize
  BY LimitFacts DEF IInv, Types, TaskTypes
<1> QED BY <1>1, <1>2, <1>3, <1>4, <1>5, <1>6, <1>7, <1>8, <1>9, <1>10, <1>11, <1>12, <1>13,
           <1>14, <1>15, <1>16, <1>17, <1>18, <1>19, <1>20, <1>21, <1>22, <1>23, <1>24, <1>25,
           <1>26 DEF Next

-----------------------------------------------------------------------------
(* What only grows.                                                        *)

Mono ==
  /\ used \subseteq used' /\ cut \subseteq cut' /\ logLost \subseteq logLost'
  /\ \A p \in Members :
       /\ saved[p].ns <= saved'[p].ns /\ saved[p].ns \in Namespaces /\ saved'[p].ns \in Namespaces
       /\ ContentsOf(saved[p].manifest) \subseteq ContentsOf(saved'[p].manifest)

LEMMA MonoQuiet ==
    ASSUME IInv, used \subseteq used', cut \subseteq cut', logLost \subseteq logLost', saved' = saved
    PROVE  Mono
<1>1. \A p \in Members : saved[p].ns \in Namespaces
  BY DEF IInv, Types, ManifestTypes
<1> QED BY <1>1 DEF Mono, Namespaces

LEMMA MonoSaves ==
    ASSUME IInv, NEW p \in Members, NEW m, Changed(p, m), Settled, UNCHANGED <<used, cut, logLost>>
    PROVE  Mono
<1>1. \A q \in Members : saved[q].ns \in Namespaces /\ saved'[q].ns \in Namespaces /\ ns[q] \in Namespaces
  BY DEF Changed, IInv, Types, ManifestTypes, SpaceTypes
<1>2. \A q \in Members : saved[q].ns <= ns[q]
  BY DEF IInv, Bounds, MemberBounds
<1>3. \A q \in Members : saved'[q].ns \in {saved[q].ns, ns[q]}
  BY DEF Changed
<1>4. \A q \in Members : ContentsOf(saved[q].manifest) \subseteq ContentsOf(saved'[q].manifest)
  BY DEF Settled, ContentsOf
<1>5. \A q \in Members : saved[q].ns <= saved'[q].ns
  BY <1>1, <1>2, <1>3 DEF Namespaces
<1> QED BY <1>1, <1>4, <1>5 DEF Mono

LEMMA MonoStep ==
    ASSUME IInv, [Next]_vars
    PROVE  Mono
<1>1. ASSUME UNCHANGED <<used, cut, logLost, saved>>
      PROVE  Mono
  BY <1>1, MonoQuiet
<1>2. ASSUME NEW t, \/ \E e, size : AttachVersion(t, e, size)
                    \/ SealRefused(t) \/ NoteLoad(t) \/ StoreSegment(t) \/ SegmentFails(t)
                    \/ Declare(t) \/ DeclareRefused(t) \/ Discard(t) \/ ClearLoad(t)
      PROVE  UNCHANGED <<used, cut, logLost, saved>>
  BY <1>2, Zenon DEF AttachVersion, SealRefused, NoteLoad, StoreSegment, SegmentFails, Declare,
     DeclareRefused, Discard, ClearLoad, logVars, manifestVars
<1>3. ASSUME NEW p, \/ \E v, i : Export(p, v, i)
                    \/ \E a, c : RequestRepair(p, a, c)
                    \/ \E q, a, s : Reconcile(p, q, a, s)
                    \/ \E s : Carry(p, s)
                    \/ StoreKey(p) \/ FinishAdopting(p) \/ Join(p) \/ Demote(p)
      PROVE  UNCHANGED <<used, cut, logLost, saved>>
  BY <1>3, Zenon DEF Export, RequestRepair, Reconcile, Carry, StoreKey, FinishAdopting, Join,
     Demote, logVars, manifestVars
<1>4. ASSUME NEW r, AnswerRepair(r)
      PROVE  UNCHANGED <<used, cut, logLost, saved>>
  BY <1>4, Zenon DEF AnswerRepair, logVars, manifestVars
<1>5. ASSUME NEW t \in Tasks, NEW e \in Entries, NEW size \in 0..MaxSize, AttachFile(t, e, size)
      PROVE  Mono
  <2>1. PICK x \in Members : \E m : Changed(x, m)
    BY <1>5, AttachFileEffect, OwnerType DEF IInv
  <2>2. Settled
    BY <1>5, TaskSettles
  <2>3. UNCHANGED <<used, cut, logLost>>
    BY <1>5 DEF AttachFile, logVars
  <2> QED BY <2>1, <2>2, <2>3, MonoSaves
<1>6. ASSUME NEW t \in Tasks, NEW c \in Contents, Seal(t, c)
      PROVE  Mono
  BY <1>6, MonoQuiet DEF Seal, manifestVars, logVars, StoreLog, LogFails
<1>7. ASSUME NEW t \in Tasks, NoteStore(t)
      PROVE  Mono
  BY <1>7, MonoQuiet DEF NoteStore, manifestVars, logVars, StoreLog, LogFails
<1>8. ASSUME NEW t \in Tasks, Persist(t)
      PROVE  Mono
  <2>1. PICK x \in Members : \E m : Changed(x, m)
    BY <1>8, PersistEffect, OwnerType DEF IInv, Persist
  <2>2. Settled
    BY <1>8, TaskSettles
  <2>3. UNCHANGED <<used, cut, logLost>>
    BY <1>8 DEF Persist, logVars
  <2> QED BY <2>1, <2>2, <2>3, MonoSaves
<1>9. ASSUME NEW t \in Tasks, ClearStore(t)
      PROVE  Mono
  BY <1>9, MonoQuiet DEF ClearStore, manifestVars, logVars, StoreLog, LogFails
<1>10. ASSUME NEW t \in Tasks, Withdraw(t)
      PROVE  Mono
  <2>1. CASE DeleteFile(Owner[t], task[t].entry)
    <3>1. PICK m : Changed(Owner[t], m)
      BY <2>1, DeleteEffect, OwnerType DEF IInv
    <3>2. Settled /\ Owner[t] \in Members
      BY <1>10, TaskSettles, OwnerType
    <3>3. UNCHANGED <<used, cut, logLost>>
      BY <1>10 DEF Withdraw, logVars
    <3> QED BY <3>1, <3>2, <3>3, MonoSaves
  <2>2. CASE UNCHANGED <<manifestVars, indexVars>>
    BY <1>10, <2>2, MonoQuiet DEF Withdraw, logVars, manifestVars
  <2> QED BY <1>10, <2>1, <2>2 DEF Withdraw
<1>11. ASSUME NEW p \in Members, NEW e \in Entries, Delete(p, e)
      PROVE  Mono
  <2>1. PICK x \in Members : \E m : Changed(x, m)
    BY <1>11, DeleteEffect DEF IInv, Delete
  <2>2. Settled
    BY <1>11, MemberSettles
  <2>3. UNCHANGED <<used, cut, logLost>>
    BY <1>11 DEF Delete, logVars
  <2> QED BY <2>1, <2>2, <2>3, MonoSaves
<1>12. ASSUME NEW p \in Members, NEW e \in Entries, NEW v \in AllVersions(manifest[p]),
              RevertAsset(p, e, v)
      PROVE  Mono
  <2>1. PICK x \in Members : \E m : Changed(x, m)
    BY <1>12, RevertEffect DEF IInv
  <2>2. Settled
    BY <1>12, MemberSettles
  <2>3. UNCHANGED <<used, cut, logLost>>
    BY <1>12 DEF RevertAsset, logVars
  <2> QED BY <2>1, <2>2, <2>3, MonoSaves
<1>13. ASSUME NEW p \in Members, NEW q \in Members, ManifestArrived(p, q)
      PROVE  Mono
  <2>1. PICK x \in Members : \E m : Changed(x, m)
    BY <1>13, ArrivedEffect DEF IInv
  <2>2. Settled
    BY <1>13, MemberSettles
  <2>3. UNCHANGED <<used, cut, logLost>>
    BY <1>13 DEF ManifestArrived, logVars
  <2> QED BY <2>1, <2>2, <2>3, MonoSaves
<1>14. ASSUME NEW p \in Members, AdoptNamespace(p)
      PROVE  Mono
  BY <1>14, MonoQuiet DEF AdoptNamespace, manifestVars, logVars, StoreLog, LogFails
<1>15. ASSUME NEW p \in Members, Snapshot(p)
      PROVE  Mono
  <2>1. PICK x \in Members : \E m : Changed(x, m)
    BY <1>15, PersistEffect DEF IInv, Snapshot
  <2>2. Settled
    BY <1>15, MemberSettles
  <2>3. UNCHANGED <<used, cut, logLost>>
    BY <1>15 DEF Snapshot, logVars
  <2> QED BY <2>1, <2>2, <2>3, MonoSaves
<1>16. ASSUME NEW p \in Members, Restart(p)
      PROVE  Mono
  BY <1>16, MonoQuiet DEF Restart, manifestVars, logVars, StoreLog, LogFails
<1>17. ASSUME UNCHANGED vars
      PROVE  UNCHANGED <<used, cut, logLost, saved>>
  BY <1>17, Zenon DEF vars, logVars, manifestVars
<1>18. limit.tasks \subseteq Tasks /\ limit.sizes \subseteq 0..MaxSize
  BY LimitFacts DEF IInv, Types, TaskTypes
<1> QED BY <1>1, <1>2, <1>3, <1>4, <1>5, <1>6, <1>7, <1>8, <1>9, <1>10, <1>11, <1>12, <1>13,
           <1>14, <1>15, <1>16, <1>17, <1>18 DEF Next

-----------------------------------------------------------------------------
(* The segments set in the index.                                          *)

LEMMA CarriesDeclaredStep ==
    ASSUME IInv, [Next]_vars
    PROVE  CarriesDeclared'
<1>1. ASSUME UNCHANGED <<carry, manifest>>
      PROVE  CarriesDeclared'
  BY <1>1 DEF IInv, SegmentInv, CarriesDeclared
<1>2. ASSUME NEW t, \/ \E e, size : AttachVersion(t, e, size)
                    \/ \E c : Seal(t, c)
                    \/ SealRefused(t) \/ NoteLoad(t) \/ NoteStore(t) \/ StoreSegment(t)
                    \/ SegmentFails(t) \/ DeclareRefused(t) \/ Persist(t) \/ Discard(t)
                    \/ ClearLoad(t) \/ ClearStore(t)
      PROVE  UNCHANGED <<carry, manifest>>
  BY <1>2, Zenon DEF AttachVersion, Seal, SealRefused, NoteLoad, NoteStore, StoreSegment,
     SegmentFails, DeclareRefused, Persist, Discard, ClearLoad, ClearStore, manifestVars,
     spaceVars
<1>3. ASSUME NEW p, \/ \E v, i : Export(p, v, i)
                    \/ \E a, c : RequestRepair(p, a, c)
                    \/ \E q, a, s : Reconcile(p, q, a, s)
                    \/ StoreKey(p) \/ FinishAdopting(p) \/ Snapshot(p) \/ Join(p) \/ Demote(p)
      PROVE  UNCHANGED <<carry, manifest>>
  BY <1>3, Zenon DEF Export, RequestRepair, Reconcile, StoreKey, FinishAdopting, Snapshot, Join,
     Demote, manifestVars, spaceVars
<1>4. ASSUME NEW r, AnswerRepair(r)
      PROVE  UNCHANGED <<carry, manifest>>
  BY <1>4, Zenon DEF AnswerRepair, manifestVars, spaceVars
<1>5. ASSUME NEW t \in Tasks, NEW e \in Entries, NEW size \in 0..MaxSize, AttachFile(t, e, size)
      PROVE  CarriesDeclared'
  <2>1. Grown
    BY <1>5, TaskSettles
  <2> QED BY <1>5, <2>1 DEF AttachFile, spaceVars, IInv, SegmentInv, CarriesDeclared, Grown, ContentsOf
<1>6. ASSUME NEW t \in Tasks, Declare(t)
      PROVE  CarriesDeclared'
  <2>1. Owner[t] \in Members /\ carry' = carry
    BY <1>6, OwnerType DEF Declare, spaceVars
  <2>2. PICK m : Changed(Owner[t], m) /\ manifest[Owner[t]].versions \subseteq m.versions
    <3>1. PICK v, m : Changed(Owner[t], m) /\ m.versions = manifest[Owner[t]].versions \cup {v}
      BY <1>6, DeclareAdds
    <3> QED BY <3>1
  <2>3. \A q \in Members : manifest[q].versions \subseteq manifest'[q].versions
    BY <2>1, <2>2 DEF Changed
  <2> QED BY <2>1, <2>3 DEF IInv, SegmentInv, CarriesDeclared, ContentsOf
<1>7. ASSUME NEW t \in Tasks, Withdraw(t)
      PROVE  CarriesDeclared'
  <2>1. Grown
    BY <1>7, TaskSettles
  <2> QED BY <1>7, <2>1 DEF Withdraw, spaceVars, IInv, SegmentInv, CarriesDeclared, Grown, ContentsOf
<1>8. ASSUME NEW p \in Members, NEW e \in Entries, Delete(p, e)
      PROVE  CarriesDeclared'
  <2>1. Grown
    BY <1>8, MemberSettles
  <2> QED BY <1>8, <2>1 DEF Delete, spaceVars, IInv, SegmentInv, CarriesDeclared, Grown, ContentsOf
<1>9. ASSUME NEW p \in Members, NEW e \in Entries, NEW v \in AllVersions(manifest[p]),
              RevertAsset(p, e, v)
      PROVE  CarriesDeclared'
  <2>1. Grown
    BY <1>9, MemberSettles
  <2> QED BY <1>9, <2>1 DEF RevertAsset, spaceVars, IInv, SegmentInv, CarriesDeclared, Grown, ContentsOf
<1>10. ASSUME NEW p \in Members, NEW q \in Members, ManifestArrived(p, q)
      PROVE  CarriesDeclared'
  <2>1. Grown
    BY <1>10, MemberSettles
  <2> QED BY <1>10, <2>1 DEF ManifestArrived, spaceVars, IInv, SegmentInv, CarriesDeclared, Grown, ContentsOf
<1>11. ASSUME NEW p \in Members, NEW s \in Slots, Carry(p, s)
      PROVE  CarriesDeclared'
  BY <1>11 DEF Carry, manifestVars, IInv, Types, SpaceTypes, SegmentInv, CarriesDeclared
<1>12. ASSUME NEW p \in Members, AdoptNamespace(p)
      PROVE  CarriesDeclared'
  <2>1. manifest' = manifest /\ carry' = [carry EXCEPT ![p] = AssetIndexKeys(manifest[p])]
    BY <1>12 DEF AdoptNamespace, manifestVars
  <2>2. \A s \in AssetIndexKeys(manifest[p]) : s[1] \in ContentsOf(manifest[p])
    <3>1. manifest[p] \in Manifest
      BY DEF IInv, Types, ManifestTypes
    <3> QED BY <3>1, ManifestFacts DEF ContentsOf
  <2> QED BY <2>1, <2>2 DEF IInv, Types, SpaceTypes, SegmentInv, CarriesDeclared
<1>13. ASSUME NEW p \in Members, Restart(p)
      PROVE  CarriesDeclared'
  <2>1. /\ carry'[p] = {} /\ \A q \in Members \ {p} : carry'[q] = carry[q] /\ manifest'[q] = manifest[q]
    BY <1>13, RestartEffect DEF Restart, IInv, Types, SpaceTypes, Changed
  <2> QED BY <2>1 DEF IInv, SegmentInv, CarriesDeclared
<1>14. ASSUME UNCHANGED vars
      PROVE  UNCHANGED <<carry, manifest>>
  BY <1>14, Zenon DEF vars, manifestVars, spaceVars
<1>15. limit.tasks \subseteq Tasks /\ limit.sizes \subseteq 0..MaxSize
  BY LimitFacts DEF IInv, Types, TaskTypes
<1> QED BY <1>1, <1>2, <1>3, <1>4, <1>5, <1>6, <1>7, <1>8, <1>9, <1>10, <1>11, <1>12, <1>13,
           <1>14, <1>15 DEF Next

=============================================================================
