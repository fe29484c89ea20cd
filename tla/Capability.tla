----------------------------- MODULE Capability -----------------------------
(***************************************************************************)
(* The certificate closure of iroh-beekem-core/src/capability.rs: what a   *)
(* set of signed certificates says about who owns a device, who has ever   *)
(* been an administrator, which proposals have a quorum and which role     *)
(* each user holds.                                                        *)
(*                                                                         *)
(* Devices and users share one name space, as in the code (a user is named *)
(* by the key of their first device).  A certificate is a record; its      *)
(* content digest is a natural number, different for certificates the code *)
(* compares, whose order is the order the code iterates in.  The signature *)
(* checks always succeed here: only certificates that verify are modelled. *)
(***************************************************************************)
EXTENDS Naturals, FiniteSets, FiniteSetsExt

CONSTANTS
    Member,    \* devices, and the users named after them
    Founder    \* the device whose key is the tree id

ASSUME FounderAssumption == Founder \in Member

Role == {"Viewer", "Editor", "Admin"}

\* What a quorum can decide: AdminAction.
AdminAction == [do : {"remove"}, member : Member]
               \union [do : {"setrole"}, user : Member, role : Role]
RemoveAction(m) == [do |-> "remove", member |-> m]
SetRoleAction(u, r) == [do |-> "setrole", user |-> u, role |-> r]

\* The five kinds of certificate.
Binding(i, d, u, g) ==
    [kind |-> "binding", issuer |-> i, digest |-> g, device |-> d, user |-> u]
Grant(i, u, r, s, g) ==
    [kind |-> "grant", issuer |-> i, digest |-> g, subject |-> u,
     capability |-> r, seq |-> s]
Proposal(i, a, s, g) ==
    [kind |-> "proposal", issuer |-> i, digest |-> g, action |-> a, seq |-> s]
Approval(i, p, g) ==
    [kind |-> "approval", issuer |-> i, digest |-> g, proposal |-> p]
Policy(i, t, g) ==
    [kind |-> "policy", issuer |-> i, digest |-> g, threshold |-> t]

\* Every certificate there can be.  The all-zero digest is nobody's.
Digest == Nat \ {0}
Certificate ==
    [kind : {"binding"}, issuer : Member, digest : Digest, device : Member, user : Member]
    \union [kind : {"grant"}, issuer : Member, digest : Digest, subject : Member,
            capability : Role, seq : Nat]
    \union [kind : {"proposal"}, issuer : Member, digest : Digest, action : AdminAction,
            seq : Nat]
    \union [kind : {"approval"}, issuer : Member, digest : Digest, proposal : Digest]
    \union [kind : {"policy"}, issuer : Member, digest : Digest, threshold : Nat]

\* The code orders certificates of one kind by their digests, and grants and
\* proposals among each other.
Decision == {"grant", "proposal"}
Compared(c, d) == c.kind = d.kind \/ (c.kind \in Decision /\ d.kind \in Decision)

\* A set of certificates a store can hold: no two that are ever compared have
\* one digest.
IsStorable(C) ==
    /\ C \subseteq Certificate /\ IsFiniteSet(C)
    /\ \A c, d \in C : Compared(c, d) /\ c.digest = d.digest => c = d

OfKind(C, k) == {c \in C : c.kind = k}

\* No device is bound to two users, and the founder only to itself.
ConflictFree(C) ==
    \A b \in OfKind(C, "binding") \union {Binding(Founder, Founder, Founder, 0)} :
        \A c \in OfKind(C, "binding") : b.device = c.device => b.user = c.user

\* Nobody proposes a role, and nobody is granted two: everyone has the role of
\* their first grant, the founder that of an administrator.
NoRoleProposals(C) == \A p \in OfKind(C, "proposal") : p.action.do # "setrole"
OneRoleEach(C) ==
    \A g, h \in OfKind(C, "grant") :
        /\ g.subject = h.subject => g.capability = h.capability
        /\ g.subject = Founder => g.capability = "Admin"

-----------------------------------------------------------------------------
(***************************************************************************)
(* The fixpoint.  Its state: `user`, a partial function from devices to    *)
(* the user each acts for (device_user); `admin`, the users who have ever  *)
(* been administrators (ever_admin); `executed`, the digests of the        *)
(* proposals that reached quorum.                                          *)
(***************************************************************************)

\* Mutant: a workspace without a policy has no threshold at all.
ResolveThresholdZero(C) ==
    Max({0} \union {p.threshold : p \in {q \in OfKind(C, "policy") :
                                            q.issuer = Founder}})

\* resolve_threshold: the founder's policies only, the largest, at least one.
ResolveThreshold(C) ==
    Max({1} \union {p.threshold : p \in {q \in OfKind(C, "policy") :
                                            q.issuer = Founder}})

\* Mutant: approvals are counted by device.
ApprovingDevices(C, st, proposal) ==
    {a.issuer : a \in {b \in OfKind(C, "approval") :
                          /\ b.proposal = proposal
                          /\ b.issuer \in DOMAIN st.user
                          /\ st.user[b.issuer] \in st.admin}}

\* approving_users: distinct users, each certified and once an administrator.
ApprovingUsers(C, st, proposal) ==
    {st.user[a.issuer] : a \in {b \in OfKind(C, "approval") :
                                    /\ b.proposal = proposal
                                    /\ b.issuer \in DOMAIN st.user}}
    \intersect st.admin

\* is_executed_action: some proposal of exactly this action has its quorum.
IsExecutedAction(C, executed, action) ==
    \E p \in OfKind(C, "proposal") :
        p.digest \in executed /\ p.action = action

\* grant_is_authorised, of a grant whose issuer acts for the user `by`.
GrantIsAuthorised(C, threshold, executed, by, g) ==
    \/ threshold <= 1
    \/ by = Founder
    \/ IsExecutedAction(C, executed, SetRoleAction(g.subject, g.capability))

\* A certificate whose issuer acts for someone who has been an administrator.
FromEverAdmin(st, c) ==
    c.issuer \in DOMAIN st.user /\ st.user[c.issuer] \in st.admin

\* Mutant: a binding any certified device may issue.
AdmitBindingFromAnyone(st, b) ==
    IF /\ b.device \notin DOMAIN st.user
       /\ b.issuer \in DOMAIN st.user
    THEN [st EXCEPT !.user = [d \in DOMAIN @ \union {b.device} |->
                                 IF d = b.device THEN b.user ELSE @[d]]]
    ELSE st

\* One binding of the loop in recompute: the first admitted one stays.
AdmitBinding(st, b) ==
    IF /\ b.device \notin DOMAIN st.user
       /\ b.issuer \in DOMAIN st.user
       /\ \/ st.user[b.issuer] = b.user
          \/ st.user[b.issuer] \in st.admin
    THEN [st EXCEPT !.user = [d \in DOMAIN @ \union {b.device} |->
                                 IF d = b.device THEN b.user ELSE @[d]]]
    ELSE st

\* One proposal: put forward by an administrator, approved by enough of them.
ExecuteProposal(C, threshold, st, p) ==
    IF /\ FromEverAdmin(st, p)
       /\ Cardinality(ApprovingUsers(C, st, p.digest)) >= threshold
    THEN [st EXCEPT !.executed = @ \union {p.digest}]
    ELSE st

\* One administrator grant.
AdmitGrant(C, threshold, st, g) ==
    IF /\ g.capability = "Admin"
       /\ FromEverAdmin(st, g)
       /\ GrantIsAuthorised(C, threshold, st.executed, st.user[g.issuer], g)
    THEN [st EXCEPT !.admin = @ \union {g.subject}]
    ELSE st

\* One certificate of the loop, whatever its kind.
AdmitCertificate(C, threshold, st, c) ==
    CASE c.kind = "binding" -> AdmitBinding(st, c)
      [] c.kind = "proposal" -> ExecuteProposal(C, threshold, st, c)
      [] c.kind = "grant" -> AdmitGrant(C, threshold, st, c)

\* The n-th certificate of S in digest order, the order of a BTreeMap.
NthByDigest(S, n) ==
    CHOOSE c \in S : Cardinality({d \in S : d.digest <= c.digest}) = n

\* The certificates of S, one after the other.
AdmitAll(C, threshold, S, st) ==
    LET after[n \in 0..Cardinality(S)] ==
            IF n = 0 THEN st
            ELSE AdmitCertificate(C, threshold, after[n - 1], NthByDigest(S, n))
    IN  after[Cardinality(S)]

\* The body of the loop: bindings, then proposals, then grants.
Pass(C, threshold, st) ==
    LET bound == AdmitAll(C, threshold, OfKind(C, "binding"), st)
        voted == AdmitAll(C, threshold, OfKind(C, "proposal"), bound)
    IN  AdmitAll(C, threshold, OfKind(C, "grant"), voted)

\* The axiom every chain of certificates ends in.
Seed == [user |-> [d \in {Founder} |-> Founder],
         admin |-> {Founder},
         executed |-> {}]

\* The loop itself: it stops after a round that changes nothing, and every
\* other round admits a certificate.
Fixpoint(C) ==
    LET round[n \in 0..(Cardinality(C) + 1)] ==
            IF n = 0 THEN [st |-> Seed, changed |-> TRUE]
            ELSE LET last == round[n - 1]
                     next == Pass(C, ResolveThreshold(C), last.st)
                 IN  IF last.changed THEN [st |-> next, changed |-> next # last.st]
                     ELSE last
    IN  round[Cardinality(C) + 1].st

-----------------------------------------------------------------------------
(***************************************************************************)
(* Roles: the decision about a user with the highest (seq, digest).        *)
(***************************************************************************)

\* The decisions in force: authorised grants, and executed role proposals.
RoleDecisions(C, threshold, st) ==
    {[user |-> g.subject, role |-> g.capability, seq |-> g.seq,
      digest |-> g.digest] :
        g \in {h \in OfKind(C, "grant") :
                 /\ FromEverAdmin(st, h)
                 /\ GrantIsAuthorised(C, threshold, st.executed,
                                      st.user[h.issuer], h)}}
    \union
    {[user |-> p.action.user, role |-> p.action.role, seq |-> p.seq,
      digest |-> p.digest] :
        p \in {q \in OfKind(C, "proposal") :
                 /\ q.digest \in st.executed
                 /\ q.action.do = "setrole"}}
    \union
    {[user |-> Founder, role |-> "Admin", seq |-> 0, digest |-> 0]}

Supersedes(d, e) ==
    d.seq > e.seq \/ (d.seq = e.seq /\ d.digest > e.digest)

\* The role of every user decided on, by the last decision about them.
LastDecisions(decisions) ==
    [u \in {d.user : d \in decisions} |->
        (CHOOSE d \in decisions :
            /\ d.user = u
            /\ \A e \in decisions \ {d} : e.user = u => Supersedes(d, e)).role]

\* resolve_roles: a partial function from users to roles.
ResolveRoles(C, threshold, st) ==
    LastDecisions(RoleDecisions(C, threshold, st))

\* recompute: everything the store derives from its certificates.
Derived(C, threshold, st) ==
    [user |-> st.user, admin |-> st.admin, executed |-> st.executed,
     threshold |-> threshold, role |-> ResolveRoles(C, threshold, st)]
Closure(C) == Derived(C, ResolveThreshold(C), Fixpoint(C))

-----------------------------------------------------------------------------
(***************************************************************************)
(* The questions the rest of the core asks of a store with closure K.      *)
(***************************************************************************)

IsCertifiedDevice(K, d) == d \in DOMAIN K.user

\* role_of_member: the role of the device's owner, if any.
HasRole(K, d, roles) ==
    /\ IsCertifiedDevice(K, d)
    /\ K.user[d] \in DOMAIN K.role
    /\ K.role[K.user[d]] \in roles

MayAdminister(K, d) == HasRole(K, d, {"Admin"})

MayBindDeviceTo(K, issuer, u) ==
    \/ IsCertifiedDevice(K, issuer) /\ K.user[issuer] = u
    \/ MayAdminister(K, issuer)

DevicesOf(K, u) == {d \in DOMAIN K.user : K.user[d] = u}

Admins(K) == {u \in DOMAIN K.role : K.role[u] = "Admin"}

\* next_seq and next_proposal_seq: one past the highest seen, admitted or not.
OnePast(seqs) == IF seqs = {} THEN 0 ELSE Max(seqs) + 1
NextSeq(C, u) == OnePast({g.seq : g \in {h \in OfKind(C, "grant") :
                                            h.subject = u}})
NextProposalSeq(C) == OnePast({p.seq : p \in OfKind(C, "proposal")})

\* executable: the executed proposals, which the code lists in digest order.
Executable(C, K) == {p \in OfKind(C, "proposal") : p.digest \in K.executed}

\* proof_of: the policy, the first executed proposal and its approvals.
ProofOf(C, K, action) ==
    LET matching == {p \in Executable(C, K) : p.action = action}
        first == CHOOSE p \in matching :
                    \A q \in matching : p.digest <= q.digest
    IN  IF matching = {} THEN {}
        ELSE {c \in OfKind(C, "policy") : c.issuer = Founder}
             \union {first}
             \union {a \in OfKind(C, "approval") : a.proposal = first.digest}
=============================================================================
