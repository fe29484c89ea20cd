--------------------------- MODULE CapabilityStore ---------------------------
(***************************************************************************)
(* CapabilityStore of iroh-beekem-core/src/capability.rs as a state        *)
(* machine: one replica's store, receiving in any order and any grouping   *)
(* the certificates the members of a workspace have issued.                *)
(***************************************************************************)
EXTENDS Capability

CONSTANTS
    Bundle,       \* what the founder mints in `found`, carried by every invite
    Histories     \* the sets of further certificates to be received

\* The founder's policy is "fixed by the founder at creation and never changed".
ASSUME StoreAssumption ==
    \A history \in Histories :
        /\ IsStorable(Bundle \union history)
        /\ \A c \in OfKind(history, "policy") : c.issuer # Founder

VARIABLES
    issued,       \* the certificates in circulation, beside the bundle
    stored,       \* the certificates stored
    derived       \* what the last recompute derived from them

storeVars == <<issued, stored, derived>>

-----------------------------------------------------------------------------
\* Mutant: a batch replaces what was stored.
AcceptReplacing(batch) ==
    /\ stored' = Bundle \union batch
    /\ derived' = Closure(stored')

\* stage and recompute: certificates are keyed by digest, so a known one
\* changes nothing, and the closure is recomputed when there is a new one.
Accept(batch) ==
    /\ stored' = stored \union batch
    /\ derived' = IF batch \subseteq stored THEN derived ELSE Closure(stored')

StoreInit ==
    /\ issued \in Histories
    /\ stored = {}
    /\ derived = Closure({})

\* A replica's first certificates: the founder's own in `found`, or the
\* certificates of the invite in `join`, which always include the founder's.
Open(batch) ==
    /\ stored = {}
    /\ Accept(Bundle \union batch)
    /\ UNCHANGED issued

\* insert: one certificate.
Insert(c) ==
    /\ stored # {}
    /\ c \in issued
    /\ Accept({c})
    /\ UNCHANGED issued

\* extend: the certificates that came with an operation or a log.
Extend(batch) ==
    /\ stored # {}
    /\ Accept(batch)
    /\ UNCHANGED issued

StoreNext ==
    \/ \E batch \in SUBSET issued : Open(batch)
    \/ \E c \in issued : Insert(c)
    \/ \E batch \in kSubset(2, issued) : Extend(batch)

StoreSpec == StoreInit /\ [][StoreNext]_storeVars

-----------------------------------------------------------------------------
(***************************************************************************)
(* The reference: the least set of certificates that justifies itself.     *)
(***************************************************************************)

\* d acts for u, and u has been an administrator, given the certificates A.
ActsFor(A, d, u) ==
    \/ d = Founder /\ u = Founder
    \/ \E b \in OfKind(A, "binding") : b.device = d /\ b.user = u
WasAdmin(A, u) ==
    \/ u = Founder
    \/ \E g \in OfKind(A, "grant") : g.subject = u
SpeaksAsAdmin(A, d) == \E u \in Member : ActsFor(A, d, u) /\ WasAdmin(A, u)

\* c, a certificate of C, follows from the certificates A.
Justified(C, A, c) ==
    CASE c.kind = "binding" ->
            ActsFor(A, c.issuer, c.user) \/ SpeaksAsAdmin(A, c.issuer)
      [] c.kind = "grant" ->
            /\ c.capability = "Admin"
            /\ SpeaksAsAdmin(A, c.issuer)
            /\ \/ ResolveThreshold(C) = 1
               \/ ActsFor(A, c.issuer, Founder)
               \/ \E p \in OfKind(A, "proposal") :
                     p.action = SetRoleAction(c.subject, "Admin")
      [] c.kind = "proposal" ->
            /\ SpeaksAsAdmin(A, c.issuer)
            /\ \E voters \in kSubset(ResolveThreshold(C), Member) :
                  \A u \in voters :
                      /\ WasAdmin(A, u)
                      /\ \E a \in OfKind(C, "approval") :
                            a.proposal = c.digest /\ ActsFor(A, a.issuer, u)
      [] OTHER -> FALSE

\* The certificates in every self-justifying set.
Admissible(C) ==
    LET claims == {c \in C : c.kind \in {"binding", "grant", "proposal"}}
        Closed(A) == \A c \in claims : Justified(C, A, c) => c \in A
    IN  {c \in claims : \A A \in SUBSET claims : Closed(A) => c \in A}

-----------------------------------------------------------------------------
(***************************************************************************)
(* Properties.                                                             *)
(***************************************************************************)

\* Every derived field has its type.
StoreTypeOK ==
    /\ stored \subseteq Bundle \union issued
    /\ DOMAIN derived.user \subseteq Member
    /\ \A d \in DOMAIN derived.user : derived.user[d] \in Member
    /\ derived.admin \subseteq Member
    /\ derived.executed \subseteq {p.digest : p \in OfKind(stored, "proposal")}
    /\ derived.threshold \in Nat \ {0}
    /\ DOMAIN derived.role \subseteq Member
    /\ \A u \in DOMAIN derived.role : derived.role[u] \in Role

\* The loop of recompute, which iterates in digest order and stops after a
\* pass that admits nothing, derives exactly what the least self-justifying
\* set of certificates says: nothing is admitted on its own authority and
\* nothing justified is missed, whatever the digests and the order of arrival.
ClosureIsLeast ==
    stored # {} /\ ConflictFree(stored) =>
        LET A == Admissible(stored)
        IN  /\ derived.executed = {p.digest : p \in OfKind(A, "proposal")}
            /\ derived.admin = {u \in Member : WasAdmin(A, u)}
            /\ \A d, u \in Member :
                  ActsFor(A, d, u) <=> d \in DOMAIN derived.user
                                       /\ derived.user[d] = u

\* What admits operations only grows (the module documentation's "Two
\* predicates, not one"): a certificate that arrives never un-certifies a
\* device, never takes back that a user has been an administrator, and never
\* undoes a quorum, as long as nobody binds one device to two users.
AdmissionMonotone ==
    [][stored # {} /\ ConflictFree(stored') =>
          /\ \A d \in DOMAIN derived.user :
                d \in DOMAIN derived'.user /\ derived'.user[d] = derived.user[d]
          /\ derived.admin \subseteq derived'.admin
          /\ derived.executed \subseteq derived'.executed]_storeVars

\* Above a threshold of one the first administrator beside the founder can
\* only be appointed by the founder (grant_is_authorised): as long as no grant
\* signed for the founder has arrived, no quorum exists and nobody else holds
\* a role.
OnlyFounderBootstraps ==
    derived.threshold > 1
    /\ (\A g \in OfKind(stored, "grant") :
            g.issuer \in DOMAIN derived.user =>
                derived.user[g.issuer] # Founder \/ g.subject = Founder)
    => derived.executed = {} /\ DOMAIN derived.role = {Founder}
=============================================================================
