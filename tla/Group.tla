-------------------------------- MODULE Group --------------------------------
(***************************************************************************)
(* The control plane of a workspace: how its replicas admit, remove, park  *)
(* and exchange membership operations and the certificates that authorise  *)
(* them.  It models CgkaController (keys.rs) and the administrative half   *)
(* of WorkspaceState (state.rs) over the closure of Capability, with the   *)
(* facade's control loop (workspace.rs) as the network: every operation    *)
(* and certificate is broadcast once, and may be delivered to anyone any   *)
(* number of times, late, out of order, or never; a whole log travels      *)
(* whenever two replicas become neighbours.                                *)
(*                                                                         *)
(* An operation is named by the handler call that issued it and the member *)
(* it concerns, and carries its causal past: the operations its issuer had *)
(* when it was signed.  beekem's predecessors are the maximal elements of  *)
(* that past; on a causally closed log the two conditions are one.         *)
(***************************************************************************)
EXTENDS Capability

CONSTANTS
    Threshold,      \* the founder's policy
    Admitted,       \* members who have joined when the instance starts
    AdmittedAs,     \* the role each of them was given
    Enrollees,      \* devices somebody asks to have admitted
    Subjects,       \* members the administrators act on
    Directions,     \* how the digest of a new certificate compares to others
    Allowed,        \* the operations the members of this instance call
    Roles,          \* the roles they assign
    MaxIssues,      \* bound: handler calls that sign operations
    MaxMints        \* bound: handler calls that sign certificates

ASSUME ThresholdAssumption == Threshold \in Nat \ {0}
ASSUME MemberAssumption == Member \subseteq Nat \ {0} /\ IsFiniteSet(Member)
ASSUME AdmittedAssumption == /\ Admitted \subseteq Member \ {Founder}
                             /\ AdmittedAs \in [Admitted -> Role]
                             /\ Enrollees \subseteq Member
ASSUME CallAssumption == Subjects \subseteq Member /\ Roles \subseteq Role
ASSUME BoundAssumption == MaxIssues \in Nat /\ MaxMints \in Nat

VARIABLES
    live,           \* devices with an open workspace
    log,            \* per device: the operations merged (Cgka's graph)
    parked,         \* per device: operations awaiting predecessors
    certs,          \* per device: its certificates
    caps,           \* per device: what they amount to (CapabilityStore)
    executedHere,   \* per device: proposals already performed
    sent,           \* operations broadcast, with their proofs
    certMsgs,       \* certificate batches broadcast
    invites,        \* invites handed out
    issues,         \* handler calls that have signed operations
    mints           \* handler calls that have signed certificates

vars == <<live, log, parked, certs, caps, executedHere, sent, certMsgs,
          invites, issues, mints>>

-----------------------------------------------------------------------------
(***************************************************************************)
(* Operations, logs and the tree.                                          *)
(***************************************************************************)

Op(k, i, m, n, past, proof) ==
    [kind |-> k, issuer |-> i, member |-> m, id |-> <<n, m>>, past |-> past,
     proof |-> proof]

\* The founding Add, which the founder issues for itself.
InitAdd == Op("add", Founder, Founder, 0, {}, {})

Ids(L) == {o.id : o \in L}

\* known_members: everyone an accepted Add has introduced.
Known(L) == {o.member : o \in {a \in L : a.kind = "add"}}

\* The tree beekem replays from a log: whoever has an Add that no Remove has
\* seen.
Tree(L) ==
    {o.member : o \in {a \in L :
        /\ a.kind = "add"
        /\ \A r \in L : r.kind = "remove" /\ r.member = a.member
                            => a.id \notin r.past}}

\* authorize: what the certificates C, with closure K, let the issuer do.
Authorized(C, K, o) ==
    CASE o.kind = "add" ->
            /\ IsCertifiedDevice(K, o.member)
            /\ MayBindDeviceTo(K, o.issuer, K.user[o.member])
      [] o.kind = "remove" ->
            \/ /\ IsCertifiedDevice(K, o.member)
               /\ IsCertifiedDevice(K, o.issuer)
               /\ K.user[o.issuer] = K.user[o.member]
            \/ /\ MayAdminister(K, o.issuer)
               /\ \/ K.threshold <= 1
                  \/ IsExecutedAction(C, K.executed, RemoveAction(o.member))
      [] OTHER -> TRUE

HasPredecessors(L, o) == o.past \subseteq Ids(L)

\* Mutants: predecessors are not required, and current membership decides.
AcceptableEarly(C, K, L, o) ==
    o.issuer \in Known(L) /\ Authorized(C, K, o)
AcceptableCurrent(C, K, L, o) ==
    HasPredecessors(L, o) /\ o.issuer \in Tree(L) /\ Authorized(C, K, o)

\* merge_verified would apply o to the log L.
Acceptable(C, K, L, o) ==
    /\ HasPredecessors(L, o)
    /\ o.issuer \in Known(L)
    /\ Authorized(C, K, o)

-----------------------------------------------------------------------------
(***************************************************************************)
(* merge_pending: the queue P is retried, round after round, until a round *)
(* applies nothing.  What that applies is the least set that contains      *)
(* every operation acceptable on top of it (MergePendingIsLoop below); an  *)
(* operation whose predecessors are all there and which is not acceptable  *)
(* is discarded; the rest stays parked.                                    *)
(***************************************************************************)

ClosedUnder(C, K, L, P, S) ==
    \A o \in P : Acceptable(C, K, L \union S, o) => o \in S

\* Mutant: a single round.
DrainedOnce(C, K, L, P) == {o \in P : Acceptable(C, K, L, o)}

Drained(C, K, L, P) ==
    {o \in P : \A S \in SUBSET P : ClosedUnder(C, K, L, P, S) => o \in S}

\* The log after merge_pending, and what is left of the queue.
Merged(C, K, L, P) == L \union Drained(C, K, L, P)
StillWaiting(L, P) == {o \in P : ~HasPredecessors(L, o)}

-----------------------------------------------------------------------------
(***************************************************************************)
(* Certificates minted by a handler.  Their digests depend on a random     *)
(* nonce, so they may come before or after those of every other            *)
(* certificate; a binding and a grant minted together share the number, as *)
(* their digests are never compared.                                       *)
(***************************************************************************)

AllCerts == UNION {certs[d] : d \in live}
NewDigests ==
    LET used == {c.digest : c \in AllCerts}
    IN  {IF dir = "up" THEN Max(used) + 1 ELSE Min(used) - 1 :
            dir \in Directions}

\* CapabilityStore::extend: the closure is recomputed if something is new.
ClosureWith(d, new) ==
    IF new \subseteq certs[d] THEN caps[d] ELSE Closure(certs[d] \union new)
Absorb(d, new) ==
    /\ certs' = [certs EXCEPT ![d] = @ \union new]
    /\ caps' = [caps EXCEPT ![d] = ClosureWith(d, new)]

Mint == mints < MaxMints /\ mints' = mints + 1

\* The digest of the founder's own certificates, with room below it for
\* everything that is minted.
FounderDigest == MaxMints + 1

\* found: the founder's three certificates.
FounderCerts == {Binding(Founder, Founder, Founder, FounderDigest),
                 Grant(Founder, Founder, "Admin", 0, FounderDigest),
                 Policy(Founder, Threshold, FounderDigest)}

\* What the founder signed to admit m, one of the first members.
AdmissionCerts(m) == {Binding(Founder, m, m, FounderDigest + m),
                      Grant(Founder, m, AdmittedAs[m], 0, FounderDigest + m)}
FirstAdds ==
    {Op("add", Founder, m, 0,
        {<<0, x>> : x \in {Founder} \union {y \in Admitted : y < m}},
        AdmissionCerts(m)) : m \in Admitted}
FirstLog == {InitAdd} \union FirstAdds
FirstCerts == FounderCerts \union UNION {AdmissionCerts(m) : m \in Admitted}
FirstMembers == {Founder} \union Admitted

\* create and found, after which the founder has admitted the first members
\* one by one and they have joined and caught up.  With Admitted = {} this is
\* the founder alone.
Init ==
    /\ live = FirstMembers
    /\ log = [d \in Member |-> IF d \in FirstMembers THEN FirstLog ELSE {}]
    /\ parked = [d \in Member |-> {}]
    /\ certs = [d \in Member |-> IF d \in FirstMembers THEN FirstCerts ELSE {}]
    /\ caps = [d \in Member |-> Closure(certs[d])]
    /\ executedHere = [d \in Member |-> {}]
    /\ sent = FirstAdds
    /\ certMsgs = {}
    /\ invites = {}
    /\ issues = 0
    /\ mints = 0

-----------------------------------------------------------------------------
(***************************************************************************)
(* Removals.                                                               *)
(***************************************************************************)

\* require_not_last_admin fails for u.
IsLastAdmin(K, u) == u \in Admins(K) /\ Cardinality(Admins(K)) <= 1

\* perform_removal goes through for m: the user of a single device must not
\* be the last administrator, and the tree must not be emptied.
MayPerformRemoval(K, L, m) ==
    LET owner == IF IsCertifiedDevice(K, m) THEN K.user[m] ELSE m
    IN  /\ Cardinality(DevicesOf(K, owner)) <= 1 => ~IsLastAdmin(K, owner)
        /\ Tree(L) # {m}

\* quorum_proof: nothing at a threshold of one.
QuorumProof(C, K, m) ==
    IF K.threshold <= 1 THEN {} ELSE ProofOf(C, K, RemoveAction(m))

\* The Remove operations one handler call n at device d signs for the members
\* R, on top of the log L, in the order First gives.
Removals(d, n, L, C, K, R, First(_, _)) ==
    {Op("remove", d, m, n,
        Ids(L) \union {<<n, x>> : x \in {y \in R : First(y, m)}},
        QuorumProof(C, K, m)) : m \in R}

\* run_quorum_actions at device d, with log L and certificates C.
PendingProposals(C, K, done) ==
    {p \in Executable(C, K) : p.digest \notin done}
PendingRemovalsOf(C, K, done, m) ==
    {p \in PendingProposals(C, K, done) : p.action = RemoveAction(m)}

\* The members it removes: those still in the tree.
QuorumRemoves(C, K, L, done) ==
    {m \in Tree(L) : /\ PendingRemovalsOf(C, K, done, m) # {}
                     /\ MayPerformRemoval(K, L, m)}

\* The proposals it marks done: all but the removals that failed.
ExecutedAfter(C, K, L, done) ==
    done \union
    {p.digest : p \in {q \in PendingProposals(C, K, done) :
                          q.action.do = "remove" =>
                              MayPerformRemoval(K, L, q.action.member)}}

QuorumOps(d, n, L, C, K, done) ==
    LET FirstDigest(m) == Min({p.digest : p \in PendingRemovalsOf(C, K, done, m)})
        First(x, y) == FirstDigest(x) < FirstDigest(y)
    IN  Removals(d, n, L, C, K, QuorumRemoves(C, K, L, done), First)

\* Device d absorbs the certificates `batch` (on_certs_arrived): its queue is
\* retried if one is new, then the quorum actions run.  K is its closure after.
LogWithCerts(d, batch, K) ==
    IF batch \subseteq certs[d] THEN log[d]
    ELSE Merged(certs[d] \union batch, K, log[d], parked[d])
\* Mutant: only an approval of its own makes a device perform a decision.
QuorumOpsOnApprovalOnly(d, batch, K, L) == {}

QuorumOpsWithCerts(d, batch, K, L) ==
    QuorumOps(d, issues + 1, L, certs[d] \union batch, K, executedHere[d])
ExecutedWithCerts(d, batch, K, L) ==
    ExecutedAfter(certs[d] \union batch, K, L, executedHere[d])

\* The counter of handler calls that sign operations.
Issue(N) ==
    /\ N # {} => issues < MaxIssues
    /\ issues' = IF N = {} THEN issues ELSE issues + 1

-----------------------------------------------------------------------------
(***************************************************************************)
(* What a member calls.                                                    *)
(***************************************************************************)

\* Mutant: the operation is applied and never put on the wire.
BroadcastKept(d, N) ==
    /\ Issue(N)
    /\ log' = [log EXCEPT ![d] = @ \union N]
    /\ UNCHANGED sent

\* Sign and broadcast the operations N, on top of the log.
Broadcast(d, N) ==
    /\ Issue(N)
    /\ log' = [log EXCEPT ![d] = @ \union N]
    /\ sent' = sent \union N

\* certify_*: the store takes the certificates this device minted.
Certify(d, new) ==
    /\ Mint
    /\ Absorb(d, new)

\* require_quorum, given the closure of the device's certificates.
HasQuorum(d, K, action) ==
    /\ MayAdminister(K, d)
    /\ K.threshold > 1 => IsExecutedAction(certs[d], K.executed, action)

IsFounderDevice(K, d) == IsCertifiedDevice(K, d) /\ K.user[d] = Founder

\* Mutant: the invite is put together before the certificates are signed.
AdmitStale(d, x, new) ==
    LET add == Op("add", d, x, issues + 1, Ids(log[d]), new)
        N == IF x \in Tree(log[d]) THEN {} ELSE {add}
    IN  /\ Certify(d, new)
        /\ Broadcast(d, N)
        /\ certMsgs' = IF N = {} THEN certMsgs \union {new} ELSE certMsgs
        /\ invites' = invites \union {[to |-> x, log |-> log[d] \union N,
                                       certs |-> certs[d]]}
        /\ UNCHANGED <<live, parked, executedHere>>

\* admit, then build_invite: an Add carrying its certificates if x has no
\* leaf, the certificates alone if it has one; either way an invite with all
\* this device then holds.
Admit(d, x, new) ==
    LET add == Op("add", d, x, issues + 1, Ids(log[d]), new)
        N == IF x \in Tree(log[d]) THEN {} ELSE {add}
    IN  /\ Certify(d, new)
        /\ Broadcast(d, N)
        /\ certMsgs' = IF N = {} THEN certMsgs \union {new} ELSE certMsgs
        /\ invites' = invites \union {[to |-> x, log |-> log[d] \union N,
                                       certs |-> certs[d] \union new]}
        /\ UNCHANGED <<live, parked, executedHere>>

\* on_add_user.
AddUser(d, x, r, g) ==
    LET K == caps[d]
    IN  /\ d \in live
        /\ MayAdminister(K, d)
        /\ K.threshold > 1 /\ ~IsFounderDevice(K, d)
              => HasQuorum(d, K, SetRoleAction(x, r))
        /\ Admit(d, x, {Binding(d, x, x, g),
                        Grant(d, x, r, NextSeq(certs[d], x), g)})

\* on_add_device.
AddDevice(d, x, u, g) ==
    /\ d \in live
    /\ MayBindDeviceTo(caps[d], d, u)
    /\ Admit(d, x, {Binding(d, x, u, g)})

\* on_set_role: alone at a threshold of one or for the founder; otherwise an
\* executed proposal is required and, being the role itself, nothing is done.
SetRole(d, u, r, g) ==
    LET K == caps[d]
        new == {Grant(d, u, r, NextSeq(certs[d], u), g)}
    IN  /\ d \in live
        /\ MayAdminister(K, d)
        /\ IsFounderDevice(K, d) \/ K.threshold <= 1
        /\ r # "Admin" => ~IsLastAdmin(K, u)
        /\ Certify(d, new)
        /\ certMsgs' = certMsgs \union {new}
        /\ UNCHANGED <<live, log, parked, executedHere, sent, invites, issues>>

\* Mutant: a removal that any administrator may issue alone.
RemoveMemberAlone(d, x) ==
    LET K == caps[d]
        First(a, b) == FALSE
    IN  /\ d \in live
        /\ MayAdminister(K, d)
        /\ MayPerformRemoval(K, log[d], x)
        /\ x \in Tree(log[d])
        /\ Broadcast(d, Removals(d, issues + 1, log[d], certs[d], K, {x}, First))
        /\ UNCHANGED <<live, parked, certs, caps, executedHere, certMsgs, invites,
                       mints>>

\* on_remove_member; nothing happens for a member without a leaf.
RemoveMember(d, x) ==
    LET K == caps[d]
        First(a, b) == FALSE
    IN  /\ d \in live
        /\ HasQuorum(d, K, RemoveAction(x))
        /\ MayPerformRemoval(K, log[d], x)
        /\ x \in Tree(log[d])
        /\ Broadcast(d, Removals(d, issues + 1, log[d], certs[d], K, {x}, First))
        /\ UNCHANGED <<live, parked, certs, caps, executedHere, certMsgs, invites,
                       mints>>

\* on_leave: every leaf of the local user, in the order of the device ids, by
\* anyone but the last administrator.
Leave(d) ==
    LET K == caps[d]
        user == IF IsCertifiedDevice(K, d) THEN K.user[d] ELSE d
        devices == IF DevicesOf(K, user) = {} THEN {d} ELSE DevicesOf(K, user)
        leaves == devices \intersect Tree(log[d])
        First(a, b) == a < b
        N == {[o EXCEPT !.proof = {}] :
                o \in Removals(d, issues + 1, log[d], certs[d], K, leaves, First)}
    IN  /\ d \in live
        /\ ~IsLastAdmin(K, user)
        /\ Tree(log[d]) # leaves
        /\ Broadcast(d, N)
        /\ UNCHANGED <<live, parked, certs, caps, executedHere, certMsgs, invites,
                       mints>>

\* on_propose.
Propose(d, action, g) ==
    LET new == {Proposal(d, action, NextProposalSeq(certs[d]), g)}
    IN  /\ d \in live
        /\ MayAdminister(caps[d], d)
        /\ Certify(d, new)
        /\ certMsgs' = certMsgs \union {new}
        /\ UNCHANGED <<live, log, parked, executedHere, sent, invites, issues>>

\* on_approve: the approval may complete the quorum here.
Approve(d, p, g) ==
    LET new == {Approval(d, p.digest, g)}
        C == certs[d] \union new
        K == ClosureWith(d, new)
    IN  /\ d \in live
        /\ p \in OfKind(certs[d], "proposal")
        /\ MayAdminister(caps[d], d)
        /\ Certify(d, new)
        /\ Broadcast(d, QuorumOps(d, issues + 1, log[d], C, K, executedHere[d]))
        /\ executedHere' = [executedHere EXCEPT
                              ![d] = ExecutedAfter(C, K, log[d], @)]
        /\ certMsgs' = certMsgs \union {new}
        /\ UNCHANGED <<live, parked, invites>>

\* Rotate: a member re-keys its own path.
Rotate(d) ==
    /\ d \in live
    /\ d \in Tree(log[d])
    /\ Broadcast(d, {Op("update", d, d, issues + 1, Ids(log[d]), {})})
    /\ UNCHANGED <<live, parked, certs, caps, executedHere, certMsgs, invites,
                       mints>>

-----------------------------------------------------------------------------
(***************************************************************************)
(* What a member hears.  An operation parked may push an older one out of  *)
(* the bounded queue: the queue keeps every copy it is sent, so any queue  *)
(* can be full.                                                            *)
(***************************************************************************)

\* CgkaController::join, from an invite: the log is replayed against the
\* certificates and the first operation refused fails the whole join.
Redeemable(i) ==
    LET K == Closure(i.certs)
    IN  /\ i.to \in Known(i.log)
        /\ \A o \in i.log \ {InitAdd} : Acceptable(i.certs, K, i.log, o)

Join(i) ==
    /\ i.to \notin live
    /\ Redeemable(i)
    /\ live' = live \union {i.to}
    /\ log' = [log EXCEPT ![i.to] = i.log]
    /\ certs' = [certs EXCEPT ![i.to] = i.certs]
    /\ caps' = [caps EXCEPT ![i.to] = Closure(i.certs)]
    /\ UNCHANGED <<parked, executedHere, sent, certMsgs, invites, issues, mints>>

\* on_control_op, when a predecessor is missing.
ParkOp(d, o) ==
    /\ ~HasPredecessors(log[d], o)
    /\ \E evicted \in SUBSET parked[d] :
          /\ Cardinality(evicted) <= 1
          /\ parked' = [parked EXCEPT ![d] = (@ \ evicted) \union {o}]
    /\ UNCHANGED log

\* Mutant: the queue is not retried after a merge.
MergeOpOnly(d, o) ==
    LET C == certs[d] \union o.proof
    IN  /\ o \notin log[d]
        /\ Acceptable(C, ClosureWith(d, o.proof), log[d], o)
        /\ log' = [log EXCEPT ![d] = @ \union {o}]
        /\ UNCHANGED parked

\* on_control_op, when it is applied: the queue is retried.
MergeOp(d, o) ==
    LET C == certs[d] \union o.proof
        K == ClosureWith(d, o.proof)
        L == Merged(C, K, log[d] \union {o}, parked[d])
    IN  /\ o \notin log[d]
        /\ Acceptable(C, K, log[d], o)
        /\ log' = [log EXCEPT ![d] = L]
        /\ parked' = [parked EXCEPT ![d] = StillWaiting(L, @)]

\* on_control_op, when it is known already, or refused for good.
IgnoreOp(d, o) ==
    LET C == certs[d] \union o.proof
    IN  /\ HasPredecessors(log[d], o)
        /\ o \in log[d] \/ ~Acceptable(C, ClosureWith(d, o.proof), log[d], o)
        /\ UNCHANGED <<log, parked>>

\* The proof is absorbed first, whatever becomes of the operation.
ControlOp(d, o) ==
    /\ d \in live /\ o.issuer # d
    /\ Absorb(d, o.proof)
    /\ ParkOp(d, o) \/ MergeOp(d, o) \/ IgnoreOp(d, o)
    /\ UNCHANGED <<live, executedHere, sent, certMsgs, invites, issues, mints>>

\* on_certs_arrived.
CertsArrived(d, batch) ==
    LET K == ClosureWith(d, batch)
        L == LogWithCerts(d, batch, K)
        N == QuorumOpsWithCerts(d, batch, K, L)
    IN  /\ d \in live
        /\ Issue(N)
        /\ Absorb(d, batch)
        /\ log' = [log EXCEPT ![d] = L \union N]
        /\ parked' = [parked EXCEPT ![d] = IF batch \subseteq certs[d] THEN @
                                           ELSE StillWaiting(L, @)]
        /\ executedHere' = [executedHere EXCEPT
                              ![d] = ExecutedWithCerts(d, batch, K, L)]
        /\ sent' = sent \union N
        /\ UNCHANGED <<live, certMsgs, invites, mints>>

\* Mutant: a log whose first refused operation ends the exchange.
LogAllOrNothing(d, e) ==
    LET C == certs[d] \union certs[e]
        K == ClosureWith(d, certs[e])
        L == LogWithCerts(d, certs[e], K)
        N == QuorumOpsWithCerts(d, certs[e], K, L)
    IN  /\ d \in live /\ e \in live /\ d # e
        /\ Issue(N)
        /\ Absorb(d, certs[e])
        /\ log' = [log EXCEPT ![d] = L \union N]
        /\ UNCHANGED parked
        /\ executedHere' = [executedHere EXCEPT
                              ![d] = ExecutedWithCerts(d, certs[e], K, L)]
        /\ sent' = sent \union N
        /\ UNCHANGED <<live, certMsgs, invites, mints>>

\* on_control of a Log that e sent: its certificates, then its operations
\* one by one, each followed by a retry of the queue when it applies.
LogArrived(d, e) ==
    LET C == certs[d] \union certs[e]
        K == ClosureWith(d, certs[e])
        L == LogWithCerts(d, certs[e], K)
        N == QuorumOpsWithCerts(d, certs[e], K, L)
        P == parked[d] \union log[e]
        M == Merged(C, K, L \union N, P)
    IN  /\ d \in live /\ e \in live /\ d # e
        /\ Issue(N)
        /\ Absorb(d, certs[e])
        /\ log' = [log EXCEPT ![d] = M]
        /\ \E kept \in SUBSET StillWaiting(M, P) :
              /\ StillWaiting(M, P) \subseteq parked[d] => kept = StillWaiting(M, P)
              /\ parked' = [parked EXCEPT ![d] = kept]
        /\ executedHere' = [executedHere EXCEPT
                              ![d] = ExecutedWithCerts(d, certs[e], K, L)]
        /\ sent' = sent \union N
        /\ UNCHANGED <<live, certMsgs, invites, mints>>

\* Mutant: a snapshot that leaves the certificates of the others out.
RestartBare(d) ==
    /\ d \in live
    /\ parked' = [parked EXCEPT ![d] = {}]
    /\ executedHere' = [executedHere EXCEPT ![d] = {}]
    /\ certs' = [certs EXCEPT ![d] = {c \in @ : c.issuer = d}]
    /\ caps' = [caps EXCEPT ![d] = Closure({c \in certs[d] : c.issuer = d})]
    /\ UNCHANGED <<live, log, sent, certMsgs, invites, issues, mints>>

\* A restart: the queue and executed_here are not in the snapshot.
Restart(d) ==
    /\ d \in live
    /\ parked' = [parked EXCEPT ![d] = {}]
    /\ executedHere' = [executedHere EXCEPT ![d] = {}]
    /\ UNCHANGED <<live, log, certs, caps, sent, certMsgs, invites, issues, mints>>

-----------------------------------------------------------------------------
Call(d) ==
    \/ /\ "AddUser" \in Allowed
       /\ \E x \in Enrollees, r \in Roles, g \in NewDigests : AddUser(d, x, r, g)
    \/ /\ "AddDevice" \in Allowed
       /\ \E x \in Enrollees, u \in Member, g \in NewDigests :
             AddDevice(d, x, u, g)
    \/ /\ "SetRole" \in Allowed
       /\ \E u \in Subjects, r \in Roles, g \in NewDigests : SetRole(d, u, r, g)
    \/ /\ "RemoveMember" \in Allowed
       /\ \E x \in Subjects : RemoveMember(d, x)
    \/ "Leave" \in Allowed /\ Leave(d)
    \/ "Rotate" \in Allowed /\ Rotate(d)

Quorum(d) ==
    \/ /\ "ProposeRemove" \in Allowed
       /\ \E x \in Subjects \ {d}, g \in NewDigests :
             Propose(d, RemoveAction(x), g)
    \/ /\ "ProposeRole" \in Allowed
       /\ \E u \in Subjects, r \in Roles, g \in NewDigests :
             Propose(d, SetRoleAction(u, r), g)
    \/ \E p \in OfKind(certs[d], "proposal"), g \in NewDigests : Approve(d, p, g)

Hear(d) ==
    \/ \E o \in sent : ControlOp(d, o)
    \/ \E batch \in certMsgs : CertsArrived(d, batch)
    \/ \E e \in live : LogArrived(d, e)

Next ==
    \/ \E d \in live : Call(d) \/ Quorum(d) \/ Hear(d)
    \/ \E d \in live : "Restart" \in Allowed /\ Restart(d)
    \/ \E i \in invites : Join(i)

Spec == Init /\ [][Next]_vars

-----------------------------------------------------------------------------
(***************************************************************************)
(* Properties.                                                             *)
(***************************************************************************)

\* The operations that exist: the founding Add and those put on the wire.
Existing == sent \union {InitAdd}

\* Every variable has its type, and nothing is merged, parked or handed out
\* that nobody signed.
TypeOK ==
    /\ live \subseteq Member
    /\ log \in [Member -> SUBSET Existing]
    /\ parked \in [Member -> SUBSET Existing]
    /\ \A d \in Member \ live : log[d] = {} /\ parked[d] = {}
    /\ \A i \in invites : i.to \in Member /\ i.log \subseteq Existing
    /\ issues \in 0..MaxIssues
    /\ mints \in 0..MaxMints

\* A merged log has no hole and no stranger in it (merge_verified): with
\* every operation a device holds it holds all the operations its issuer had
\* when signing it, and the Add that introduced the issuer.
CausallyClosed ==
    \A d \in live : \A o \in log[d] :
        /\ HasPredecessors(log[d], o)
        /\ o.issuer \in Known(log[d])

\* No lost wake-up (on_control_op and on_certs_arrived, which call
\* merge_pending): an operation stays parked only while one of its
\* predecessors is missing, whichever of a merge, a log, a certificate or an
\* operation of the device's own came last.
ParkedAwaits ==
    \A d \in live : \A o \in parked[d] : ~HasPredecessors(log[d], o)

\* merge_pending as the loop it is: the queue in the order q, each operation
\* judged against the log so far, until a round applies nothing.
LoopLog(C, K, L, P, Before(_, _)) ==
    LET first(Q) == CHOOSE o \in Q : \A r \in Q \ {o} : Before(o, r)
        round[l \in SUBSET (L \union P), Q \in SUBSET P] ==
            IF Q = {} THEN l
            ELSE LET o == first(Q)
                 IN  round[IF Acceptable(C, K, l, o) THEN l \union {o} ELSE l,
                           Q \ {o}]
        loop[l \in SUBSET (L \union P)] ==
            LET next == round[l, P] IN IF next = l THEN l ELSE loop[next]
    IN  loop[L]

\* merge_pending reaches the same log in whichever order the queue holds the
\* operations, and that log is the least one closed under acceptance.
MergePendingIsLoop ==
    \A d \in live :
        LET K == caps[d]
            P == sent \ log[d]
            Older(o, r) == o.id[1] < r.id[1]
                           \/ (o.id[1] = r.id[1] /\ o.id[2] < r.id[2])
            Newer(o, r) == Older(r, o)
        IN  Cardinality(P) > 1 =>
                /\ LoopLog(certs[d], K, log[d], P, Older)
                      = Merged(certs[d], K, log[d], P)
                /\ LoopLog(certs[d], K, log[d], P, Newer)
                      = Merged(certs[d], K, log[d], P)

\* The threshold binds the group (authorize, require_quorum): wherever a
\* device of another user was removed, the removal had been proposed by an
\* administrator and approved by as many of them as the founder decided.
QuorumHonoured ==
    \A d \in live : \A o \in log[d] :
        LET K == caps[d]
        IN  o.kind = "remove" /\ Threshold > 1 =>
               \/ IsExecutedAction(certs[d], K.executed, RemoveAction(o.member))
               \/ /\ IsCertifiedDevice(K, o.member)
                  /\ IsCertifiedDevice(K, o.issuer)
                  /\ K.user[o.issuer] = K.user[o.member]

\* Whoever a device counts as a member it can name the owner of (authorize
\* refuses the Add of an uncertified leaf, and certificates are never
\* dropped), unless a role was put to the vote: an administrator a quorum made
\* binds devices that no closure then certifies.
MembersCertified ==
    \A d \in live : \A m \in Known(log[d]) :
        IsCertifiedDevice(caps[d], m)

\* "No two peers can merge different sets of operations and split the group":
\* what a device has merged, a device with the same certificates that holds
\* its predecessors would merge too.  A demotion can break this, and so can a
\* member without a role who carries out a quorum's decision.
NoPermanentSplit ==
    \A d, e \in live :
        certs[d] = certs[e] =>
            \A o \in log[d] \ log[e] :
                HasPredecessors(log[e], o) =>
                    Acceptable(certs[e], caps[e], log[e], o)

\* An invite is a log that join can replay: the invitee is never turned away
\* by the history it is handed, as far as that history was signed by devices
\* whose authority was not taken back.
InvitesRedeemable == \A i \in invites : Redeemable(i)
=============================================================================
