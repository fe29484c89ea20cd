---------------------------- MODULE GroupProofs -----------------------------
(***************************************************************************)
(* The certificates and the log of a group together.  For any members,     *)
(* threshold and instance, under which conditions on the certificates the  *)
(* quorum binds, members have owners, invites can be redeemed and a group  *)
(* is never split for good.                                                *)
(*                                                                         *)
(* CapabilityProofs is extended for its lemmas on the closure and on the   *)
(* log; the constants and variables of one store do not occur here.        *)
(***************************************************************************)
EXTENDS CapabilityProofs

(* Most leaves are first-order: Zenon is tried first, SMT for the rest. *)
USE ZenonT(4), SMTT(15)

-----------------------------------------------------------------------------
(***************************************************************************)
(* Certificates: what CapabilityProofs shows of any set of them, in the    *)
(* terms of Group.                                                         *)
(***************************************************************************)

(* What admits operations in K admits them in M. *)
Grown(K, M) ==
    /\ \A d \in DOMAIN K.user : d \in DOMAIN M.user /\ M.user[d] = K.user[d]
    /\ K.admin \subseteq M.admin
    /\ K.executed \subseteq M.executed

LEMMA ClosuresGrow ==
    ASSUME NEW C, NEW D, IsStorable(D), C \subseteq D, ConflictFree(D),
           ResolveThreshold(C) = ResolveThreshold(D)
    PROVE  Grown(Closure(C), Closure(D))
<1>1. PICK K, M : K = Closure(C) /\ M = Closure(D)
  OBVIOUS
<1>2. /\ \A d \in DOMAIN K.user : d \in DOMAIN M.user /\ M.user[d] = K.user[d]
      /\ K.admin \subseteq M.admin
      /\ K.executed \subseteq M.executed
  BY <1>1, ClosureGrows
<1> QED BY <1>1, <1>2 DEF Grown

LEMMA Appointed ==
    ASSUME NEW C, IsStorable(C), NoRoleProposals(C), NEW K, K = Closure(C),
           NEW d, MayAdminister(K, d)
    PROVE  d \in DOMAIN K.user /\ K.user[d] \in K.admin
<1>1. PICK u : u = K.user[d]
  OBVIOUS
<1>2. d \in DOMAIN K.user /\ u \in DOMAIN K.role /\ K.role[u] = "Admin"
  BY <1>1 DEF MayAdminister, HasRole, IsCertifiedDevice
<1>3. u \in K.admin
  BY <1>2, AdminsAppointed
<1> QED BY <1>1, <1>2, <1>3

LEMMA AdministratorsStay ==
    ASSUME NEW C, NEW D, IsStorable(D), C \subseteq D, ConflictFree(D),
           ResolveThreshold(C) = ResolveThreshold(D), NoRoleProposals(D), OneRoleEach(D),
           NEW d, MayAdminister(Closure(C), d)
    PROVE  MayAdminister(Closure(D), d)
<1>1. PICK K, M : K = Closure(C) /\ M = Closure(D)
  OBVIOUS
<1>2. MayAdminister(M, d)
  BY <1>1, AdminsStay
<1> QED BY <1>1, <1>2

(* Numbers and certificates. *)

(* What a function makes of a finite set is finite. *)
LEMMA FiniteImage ==
    ASSUME NEW S, IsFiniteSet(S), NEW T, NEW f \in [S -> T], \A t \in T : \E c \in S : f[c] = t
    PROVE  IsFiniteSet(T)
<1>1. f \in Surjection(S, T)
  BY DEF Surjection
<1> QED BY <1>1, FS_Surjection

LEMMA MaxOfFinite ==
    ASSUME NEW S, IsFiniteSet(S), S \subseteq Nat, S # {}
    PROVE  Max(S) \in S /\ \A n \in S : n <= Max(S)
<1>1. PICK m \in S : \A n \in S : n <= m
  BY GreatestOfFinite
<1>2. \A n \in S : m >= n
  BY <1>1
<1> QED BY <1>2 DEF Max

LEMMA MinOfFinite ==
    ASSUME NEW S, IsFiniteSet(S), S \subseteq Nat, S # {}
    PROVE  Min(S) \in S /\ \A n \in S : Min(S) <= n
<1>1. PICK m \in S : \A n \in S : n <= m
  BY MaxOfFinite
<1>2. PICK T : T = {m - n : n \in S}
  OBVIOUS
<1>3. T \subseteq Nat /\ T # {}
  BY <1>1, <1>2
<1>4. IsFiniteSet(T)
  <2>1. PICK f : f = [n \in S |-> m - n]
    OBVIOUS
  <2>2. f \in [S -> T] /\ \A t \in T : \E n \in S : f[n] = t
    BY <1>2, <2>1
  <2> QED BY <2>2, FiniteImage
<1>5. Max(T) \in T /\ \A t \in T : t <= Max(T)
  BY <1>3, <1>4, MaxOfFinite
<1>6. PICK x \in S : Max(T) = m - x
  BY <1>2, <1>5
<1>7. \A n \in S : m - n \in T
  BY <1>2
<1>8. \A n \in S : x <= n
  BY <1>1, <1>5, <1>6, <1>7
<1> QED BY <1>8 DEF Min

LEMMA CertificateTypes ==
    ASSUME NEW i \in Member, NEW x \in Member, NEW u \in Member, NEW r \in Role, NEW s \in Nat,
           NEW a \in AdminAction, NEW p \in Digest, NEW g \in Digest, NEW t \in Nat
    PROVE  /\ Binding(i, x, u, g) \in Certificate /\ Grant(i, u, r, s, g) \in Certificate
           /\ Proposal(i, a, s, g) \in Certificate /\ Approval(i, p, g) \in Certificate
           /\ Policy(i, t, g) \in Certificate
<1>1. Binding(i, x, u, g) \in Certificate
  BY DEF Binding, Certificate
<1>2. Grant(i, u, r, s, g) \in Certificate
  BY DEF Grant, Certificate
<1>3. Proposal(i, a, s, g) \in Certificate
  BY DEF Proposal, Certificate
<1>4. Approval(i, p, g) \in Certificate
  BY DEF Approval, Certificate
<1>5. Policy(i, t, g) \in Certificate
  BY DEF Policy, Certificate
<1> QED BY <1>1, <1>2, <1>3, <1>4, <1>5

LEMMA FieldTypes ==
    ASSUME NEW c \in Certificate
    PROVE  /\ c.issuer \in Member /\ c.digest \in Digest
           /\ c.kind = "binding" => c.device \in Member /\ c.user \in Member
           /\ c.kind = "grant" => c.subject \in Member /\ c.capability \in Role /\ c.seq \in Nat
           /\ c.kind = "proposal" => c.action \in AdminAction /\ c.seq \in Nat
           /\ c.kind = "policy" => c.threshold \in Nat
  BY DEF Certificate

LEMMA SubsetStorable ==
    ASSUME NEW D, IsStorable(D), NEW C, C \subseteq D
    PROVE  IsStorable(C)
<1>1. C \in SUBSET D /\ IsFiniteSet(D)
  BY DEF IsStorable
<1>2. IsFiniteSet(C)
  BY <1>1, FS_Subset
<1> QED BY <1>2 DEF IsStorable

(* next_seq and next_proposal_seq of a store are numbers. *)
LEMMA SeqTypes ==
    ASSUME NEW C, IsStorable(C)
    PROVE  (\A u : NextSeq(C, u) \in Nat) /\ NextProposalSeq(C) \in Nat
<1>1. ASSUME NEW S, S \subseteq C, \A c \in S : c.kind \in {"grant", "proposal"}
      PROVE  OnePast({c.seq : c \in S}) \in Nat
  <2>1. PICK T : T = {c.seq : c \in S}
    OBVIOUS
  <2>2. T \subseteq Nat
    BY <1>1, <2>1, FieldTypes DEF IsStorable
  <2>3. IsFiniteSet(S)
    BY <1>1, SubsetStorable DEF IsStorable
  <2>4. IsFiniteSet(T)
    <3>1. PICK f : f = [c \in S |-> c.seq]
      OBVIOUS
    <3>2. f \in [S -> T] /\ \A t \in T : \E c \in S : f[c] = t
      BY <2>1, <3>1
    <3> QED BY <2>3, <3>2, FiniteImage
  <2>5. T # {} => Max(T) \in Nat
    BY <2>2, <2>4, MaxOfFinite
  <2>6. OnePast(T) \in Nat
    BY <2>5 DEF OnePast
  <2> QED BY <2>1, <2>6
<1>2. ASSUME NEW u
      PROVE  NextSeq(C, u) \in Nat
  <2>1. PICK S : S = {h \in OfKind(C, "grant") : h.subject = u}
    OBVIOUS
  <2>2. S \subseteq C /\ \A c \in S : c.kind \in {"grant", "proposal"}
    BY <2>1 DEF OfKind
  <2> QED BY <1>1, <2>1, <2>2 DEF NextSeq
<1>3. NextProposalSeq(C) \in Nat
  <2>1. PICK S : S = OfKind(C, "proposal")
    OBVIOUS
  <2>2. S \subseteq C /\ \A c \in S : c.kind \in {"grant", "proposal"}
    BY <2>1 DEF OfKind
  <2> QED BY <1>1, <2>1, <2>2 DEF NextProposalSeq
<1> QED BY <1>2, <1>3

(* quorum_proof puts together certificates of the store. *)
LEMMA ProofHeld ==
    ASSUME NEW C, IsStorable(C), NEW K, NEW m
    PROVE  QuorumProof(C, K, m) \subseteq C
<1>1. PICK Q : Q = {p \in Executable(C, K) : p.action = RemoveAction(m)}
  OBVIOUS
<1>2. Q \subseteq C
  BY <1>1 DEF Executable, OfKind
<1>3. PICK first : first = CHOOSE p \in Q : \A q \in Q : p.digest <= q.digest
  OBVIOUS
<1>4. ASSUME Q # {}
      PROVE  first \in Q
  <2>1. PICK T : T = {q.digest : q \in Q}
    OBVIOUS
  <2>2. IsFiniteSet(Q) /\ \A q \in Q : q.digest \in Nat
    BY <1>2, SubsetStorable, FieldTypes DEF IsStorable, Digest
  <2>3. IsFiniteSet(T)
    <3>1. PICK f : f = [q \in Q |-> q.digest]
      OBVIOUS
    <3>2. f \in [Q -> T] /\ \A t \in T : \E q \in Q : f[q] = t
      BY <2>1, <3>1
    <3> QED BY <2>2, <3>2, FiniteImage
  <2>4. T \subseteq Nat /\ T # {}
    BY <1>4, <2>1, <2>2
  <2>5. Min(T) \in T /\ \A n \in T : Min(T) <= n
    BY <2>3, <2>4, MinOfFinite
  <2>6. \E p \in Q : \A q \in Q : p.digest <= q.digest
    BY <2>1, <2>5
  <2> QED BY <1>3, <2>6
<1>5. ProofOf(C, K, RemoveAction(m))
      = IF Q = {} THEN {}
        ELSE {c \in OfKind(C, "policy") : c.issuer = Founder}
             \union {first}
             \union {a \in OfKind(C, "approval") : a.proposal = first.digest}
  BY <1>1, <1>3 DEF ProofOf
<1>6. ProofOf(C, K, RemoveAction(m)) \subseteq C
  BY <1>2, <1>4, <1>5 DEF OfKind
<1> QED BY <1>6 DEF QuorumProof

(* What one handler call mints under the digest g. *)
Minted(new, g) ==
    /\ new \subseteq Certificate /\ IsFiniteSet(new)
    /\ \A c \in new : c.digest = g /\ c.kind # "policy"
    /\ \A c, e \in new : Compared(c, e) => c = e

LEMMA MintedOne ==
    ASSUME NEW g, NEW c \in Certificate, c.digest = g, c.kind # "policy"
    PROVE  Minted({c}, g)
  BY FS_Singleton DEF Minted

LEMMA MintedTwo ==
    ASSUME NEW i \in Member, NEW x \in Member, NEW r \in Role, NEW s \in Nat, NEW g \in Digest
    PROVE  Minted({Binding(i, x, x, g), Grant(i, x, r, s, g)}, g)
<1>1. PICK b, c : b = Binding(i, x, x, g) /\ c = Grant(i, x, r, s, g)
  OBVIOUS
<1>2. b \in Certificate /\ c \in Certificate
  BY <1>1 DEF Binding, Grant, Certificate
<1>3. b.digest = g /\ c.digest = g /\ b.kind = "binding" /\ c.kind = "grant"
  BY <1>1 DEF Binding, Grant
<1>4. IsFiniteSet({b, c})
  <2>1. IsFiniteSet({b}) /\ IsFiniteSet({c})
    BY FS_Singleton
  <2>2. IsFiniteSet({b} \cup {c})
    BY <2>1, FS_Union
  <2>3. {b, c} = {b} \cup {c}
    OBVIOUS
  <2> QED BY <2>2, <2>3
<1>5. \A e, h \in {b, c} : Compared(e, h) => e = h
  BY <1>3 DEF Compared, Decision
<1>6. Minted({b, c}, g)
  BY <1>2, <1>3, <1>4, <1>5 DEF Minted
<1> QED BY <1>1, <1>6

LEMMA MintedStorable ==
    ASSUME NEW A, IsStorable(A), NEW new, NEW g, Minted(new, g), \A c \in A : c.digest # g
    PROVE  IsStorable(A \union new)
<1>1. IsFiniteSet(A \union new)
  BY FS_Union DEF IsStorable, Minted
<1>2. A \union new \subseteq Certificate
  BY DEF IsStorable, Minted
<1>3. \A c, e \in A \union new : Compared(c, e) /\ c.digest = e.digest => c = e
  BY DEF IsStorable, Minted
<1> QED BY <1>1, <1>2, <1>3 DEF IsStorable

-----------------------------------------------------------------------------
(* The certificates of the workspace. *)

(* Every device derives what it believes from the certificates it holds,   *)
(* the founder's among them.  The digests still free are below all those   *)
(* in use, the threshold is the founder's, and whatever is under way holds *)
(* no certificate that nobody stores.                                      *)
CertInv ==
    /\ certs \in [Member -> SUBSET Certificate]
    /\ caps = [d \in Member |-> Closure(certs[d])]
    /\ \A d \in live : FounderCerts \subseteq certs[d]
    /\ IsStorable(AllCerts)
    /\ \A c \in AllCerts :
          /\ MaxMints + 1 <= c.digest + mints
          /\ c.kind = "policy" => c.issuer = Founder /\ c.threshold = Threshold
    /\ \A o \in sent : o.proof \subseteq AllCerts
    /\ \A b \in certMsgs : b \subseteq AllCerts
    /\ \A i \in invites : FounderCerts \subseteq i.certs /\ i.certs \subseteq AllCerts

(* No certificate is ever lost. *)
CertsGrow ==
    /\ live \subseteq live' /\ AllCerts \subseteq AllCerts'
    /\ \A d \in live : certs[d] \subseteq certs'[d]

LEMMA FounderCertTypes ==
    /\ FounderCerts \subseteq Certificate /\ IsFiniteSet(FounderCerts)
    /\ \A c \in FounderCerts : c.digest = FounderDigest /\ c.issuer = Founder
    /\ \A c \in FounderCerts : c.kind = "policy" => c.threshold = Threshold
    /\ \A c, e \in FounderCerts : Compared(c, e) => c = e
    /\ \E c \in FounderCerts : c.kind = "policy" /\ c.threshold = Threshold
    /\ FounderCerts # {}
<1>1. PICK b, c, p : /\ b = Binding(Founder, Founder, Founder, FounderDigest)
                     /\ c = Grant(Founder, Founder, "Admin", 0, FounderDigest)
                     /\ p = Policy(Founder, Threshold, FounderDigest)
  OBVIOUS
<1>2. FounderDigest \in Digest
  BY BoundAssumption DEF FounderDigest, Digest
<1>3. b \in Certificate /\ c \in Certificate /\ p \in Certificate
  BY <1>1, <1>2, FounderAssumption, ThresholdAssumption
     DEF Binding, Grant, Policy, Certificate, Role
<1>4. /\ b.digest = FounderDigest /\ c.digest = FounderDigest /\ p.digest = FounderDigest
      /\ b.kind = "binding" /\ c.kind = "grant" /\ p.kind = "policy"
      /\ b.issuer = Founder /\ c.issuer = Founder /\ p.issuer = Founder
      /\ p.threshold = Threshold
  BY <1>1 DEF Binding, Grant, Policy
<1>5. FounderCerts = {b, c, p}
  BY <1>1 DEF FounderCerts
<1>6. IsFiniteSet({b, c, p})
  <2>1. IsFiniteSet({b}) /\ IsFiniteSet({c}) /\ IsFiniteSet({p})
    BY FS_Singleton
  <2>2. IsFiniteSet({b} \cup {c})
    BY <2>1, FS_Union
  <2>3. IsFiniteSet(({b} \cup {c}) \cup {p})
    BY <2>1, <2>2, FS_Union
  <2>4. {b, c, p} = ({b} \cup {c}) \cup {p}
    OBVIOUS
  <2> QED BY <2>3, <2>4
<1>7. \A e, h \in {b, c, p} : Compared(e, h) => e = h
  BY <1>4 DEF Compared, Decision
<1> QED BY <1>3, <1>4, <1>5, <1>6, <1>7

(* The threshold is the founder's. *)
LEMMA FounderDecides ==
    ASSUME NEW C, FounderCerts \subseteq C,
           \A c \in C : c.kind = "policy" => c.issuer = Founder /\ c.threshold = Threshold
    PROVE  ResolveThreshold(C) = Threshold
<1>1. {p.threshold : p \in {q \in OfKind(C, "policy") : q.issuer = Founder}} = {Threshold}
  <2>1. PICK c \in FounderCerts : c.kind = "policy" /\ c.threshold = Threshold
    BY FounderCertTypes
  <2>2. c \in {q \in OfKind(C, "policy") : q.issuer = Founder}
    BY <2>1 DEF OfKind
  <2>3. \A p \in {q \in OfKind(C, "policy") : q.issuer = Founder} : p.threshold = Threshold
    BY DEF OfKind
  <2> QED BY <2>1, <2>2, <2>3
<1>2. PICK S : S = {1} \union {Threshold}
  OBVIOUS
<1>3. Max(S) = Threshold
  <2>1. Threshold \in S /\ \A y \in S : Threshold >= y
    BY <1>2, ThresholdAssumption
  <2>2. Max(S) \in S /\ \A y \in S : Max(S) >= y
    BY <2>1 DEF Max
  <2> QED BY <1>2, <2>1, <2>2, ThresholdAssumption
<1> QED BY <1>1, <1>2, <1>3 DEF ResolveThreshold

(* A digest a handler draws is nobody's, and leaves room for the others. *)
LEMMA FreshDigest ==
    ASSUME Inv, CertInv, NEW d \in live, mints < MaxMints, NEW g \in NewDigests
    PROVE  /\ g \in Digest /\ \A c \in AllCerts : c.digest # g
           /\ MaxMints + 1 <= g + (mints + 1)
<1>1. PICK used : used = {c.digest : c \in AllCerts}
  OBVIOUS
<1>2. \A c \in AllCerts : c.digest \in Nat /\ MaxMints + 1 <= c.digest + mints
  BY FieldTypes DEF CertInv, IsStorable, Digest
<1>3. used \subseteq Nat /\ \A n \in used : MaxMints + 1 <= n + mints
  BY <1>1, <1>2
<1>4. used # {}
  BY <1>1, FounderCertTypes DEF CertInv, AllCerts
<1>5. IsFiniteSet(used)
  <2>1. PICK f : f = [c \in AllCerts |-> c.digest]
    OBVIOUS
  <2>2. f \in [AllCerts -> used] /\ \A t \in used : \E c \in AllCerts : f[c] = t
    BY <1>1, <2>1
  <2> QED BY <2>2, FiniteImage DEF CertInv, IsStorable
<1>6. Max(used) \in used /\ \A n \in used : n <= Max(used)
  BY <1>3, <1>4, <1>5, MaxOfFinite
<1>7. Min(used) \in used /\ \A n \in used : Min(used) <= n
  BY <1>3, <1>4, <1>5, MinOfFinite
<1>8. g = Max(used) + 1 \/ g = Min(used) - 1
  BY <1>1 DEF NewDigests
<1>9. mints \in Nat /\ MaxMints \in Nat
  BY BoundAssumption DEF Inv, TypeOK
<1>10. PICK hi \in used : hi = Max(used)
  BY <1>6
<1>11. PICK lo \in used : lo = Min(used)
  BY <1>7
<1>12. CASE g = hi + 1
  <2>1. g \in Nat /\ g # 0 /\ MaxMints + 1 <= g + (mints + 1)
    BY <1>3, <1>9, <1>12
  <2>2. \A n \in used : n # g
    BY <1>3, <1>6, <1>10, <1>12
  <2> QED BY <1>1, <2>1, <2>2 DEF Digest
<1>13. CASE g = lo - 1
  <2>1. g \in Nat /\ g # 0 /\ MaxMints + 1 <= g + (mints + 1)
    BY <1>3, <1>9, <1>13
  <2>2. \A n \in used : n # g
    BY <1>3, <1>7, <1>11, <1>13
  <2> QED BY <1>1, <2>1, <2>2 DEF Digest
<1> QED BY <1>8, <1>10, <1>11, <1>12, <1>13

(* A step in which d stores the certificates `new`. *)
LEMMA StoreStep ==
    ASSUME Inv, CertInv, NEW d \in live, NEW new, Absorb(d, new), live' = live,
           mints' \in Nat, mints <= mints',
           IsStorable(AllCerts \union new),
           \A c \in new : /\ MaxMints + 1 <= c.digest + mints'
                          /\ c.kind = "policy" => c.issuer = Founder /\ c.threshold = Threshold,
           \A o \in sent' : o \in sent \/ o.proof \subseteq certs[d] \union new,
           \A b \in certMsgs' : b \in certMsgs \/ b \subseteq certs[d] \union new,
           \A i \in invites' : i \in invites \/ i.certs = certs[d] \union new
    PROVE  /\ CertInv' /\ CertsGrow
           /\ certs'[d] = certs[d] \union new /\ caps'[d] = ClosureWith(d, new)
<1>1. d \in Member /\ live \subseteq Member
  BY DEF Inv, TypeOK
<1>2. /\ certs'[d] = certs[d] \union new
      /\ \A e \in Member \ {d} : certs'[e] = certs[e]
  BY <1>1 DEF Absorb, CertInv
<1>3. PICK A, B : A = AllCerts /\ B = AllCerts'
  OBVIOUS
<1>4. (\A c : c \in A <=> \E e \in live : c \in certs[e]) /\ (\A c : c \in B <=> \E e \in live : c \in certs'[e])
  BY <1>3 DEF AllCerts
<1>5. B = A \union new
  BY <1>1, <1>2, <1>4
<1>6. certs[d] \subseteq A
  BY <1>4
<1>7. IsStorable(B) /\ B \subseteq Certificate
  BY <1>3, <1>5 DEF IsStorable
<1>8. certs' \in [Member -> SUBSET Certificate]
  BY <1>1, <1>5, <1>7 DEF Absorb, CertInv
<1>9. ClosureWith(d, new) = Closure(certs'[d])
  <2>1. caps[d] = Closure(certs[d])
    BY <1>1 DEF CertInv
  <2>2. CASE new \subseteq certs[d]
    <3>1. certs'[d] = certs[d]
      BY <1>2, <2>2
    <3> QED BY <2>1, <2>2, <3>1 DEF ClosureWith
  <2>3. CASE ~(new \subseteq certs[d])
    BY <1>2, <2>3 DEF ClosureWith
  <2> QED BY <2>2, <2>3
<1>10. caps'[d] = ClosureWith(d, new) /\ \A e \in Member \ {d} : caps'[e] = caps[e]
  BY <1>1 DEF Absorb, CertInv
<1>11. caps' = [e \in Member |-> Closure(certs'[e])]
  <2>1. \A e \in Member : caps'[e] = Closure(certs'[e])
    <3>1. \A e \in Member : caps[e] = Closure(certs[e])
      BY DEF CertInv
    <3> QED BY <1>2, <1>9, <1>10, <3>1
  <2>2. caps' = [e \in Member |-> caps'[e]]
    BY DEF Absorb, CertInv
  <2> QED BY <2>1, <2>2
<1>12. \A e \in live : certs[e] \subseteq certs'[e]
  BY <1>1, <1>2
<1>13. (\A e \in live : FounderCerts \subseteq certs'[e]) /\ FounderCerts \subseteq certs[d] \union new
  BY <1>12 DEF CertInv
<1>14. \A c \in A : c.digest \in Nat /\ MaxMints + 1 <= c.digest + mints
  BY <1>3, FieldTypes DEF CertInv, IsStorable, Digest
<1>15. mints \in Nat /\ MaxMints \in Nat
  BY BoundAssumption DEF Inv, TypeOK
<1>16. \A c \in B : /\ MaxMints + 1 <= c.digest + mints'
                    /\ c.kind = "policy" => c.issuer = Founder /\ c.threshold = Threshold
  <2>1. \A c \in A : MaxMints + 1 <= c.digest + mints'
    BY <1>14, <1>15
  <2>2. \A c \in A : c.kind = "policy" => c.issuer = Founder /\ c.threshold = Threshold
    BY <1>3 DEF CertInv
  <2> QED BY <1>5, <2>1, <2>2
<1>17. certs[d] \union new \subseteq B /\ A \subseteq B
  BY <1>5, <1>6
<1>18. /\ \A o \in sent' : o.proof \subseteq B
       /\ \A b \in certMsgs' : b \subseteq B
       /\ \A i \in invites' : FounderCerts \subseteq i.certs /\ i.certs \subseteq B
  <2>1. /\ \A o \in sent : o.proof \subseteq A
        /\ \A b \in certMsgs : b \subseteq A
        /\ \A i \in invites : FounderCerts \subseteq i.certs /\ i.certs \subseteq A
    BY <1>3 DEF CertInv
  <2>2. \A o \in sent' : o.proof \subseteq B
    BY <1>17, <2>1
  <2>3. \A b \in certMsgs' : b \subseteq B
    BY <1>17, <2>1
  <2>4. \A i \in invites' : FounderCerts \subseteq i.certs /\ i.certs \subseteq B
    BY <1>13, <1>17, <2>1
  <2> QED BY <2>2, <2>3, <2>4
<1>19. FounderCerts' = FounderCerts
  BY DEF FounderCerts, Binding, Grant, Policy, FounderDigest
<1>20. CertInv'
  BY <1>3, <1>7, <1>8, <1>11, <1>13, <1>16, <1>18, <1>19 DEF CertInv, IsStorable, Compared
<1>21. CertsGrow
  BY <1>3, <1>12, <1>17 DEF CertsGrow
<1> QED BY <1>2, <1>10, <1>20, <1>21

(* A step of a handler that mints certificates. *)
LEMMA MintStep ==
    ASSUME Inv, CertInv, NEW d \in live, NEW g \in NewDigests, NEW new, Minted(new, g),
           Certify(d, new), live' = live,
           \A o \in sent' : o \in sent \/ o.proof \subseteq certs[d] \union new,
           \A b \in certMsgs' : b \in certMsgs \/ b \subseteq certs[d] \union new,
           \A i \in invites' : i \in invites \/ i.certs = certs[d] \union new
    PROVE  /\ CertInv' /\ CertsGrow
           /\ certs'[d] = certs[d] \union new /\ caps'[d] = ClosureWith(d, new)
<1>1. mints < MaxMints /\ mints' = mints + 1 /\ Absorb(d, new)
  BY DEF Certify, Mint
<1>2. /\ g \in Digest /\ \A c \in AllCerts : c.digest # g
      /\ MaxMints + 1 <= g + (mints + 1)
  BY <1>1, FreshDigest
<1>3. IsStorable(AllCerts \union new)
  BY <1>2, MintedStorable DEF CertInv
<1>4. \A c \in new : MaxMints + 1 <= c.digest + mints' /\ c.kind # "policy"
  BY <1>1, <1>2 DEF Minted
<1>5. mints' \in Nat /\ mints <= mints'
  BY <1>1, BoundAssumption DEF Inv, TypeOK
<1> QED BY <1>1, <1>3, <1>4, <1>5, StoreStep

(* A step of a handler that stores what others minted. *)
LEMMA HeardCerts ==
    ASSUME Inv, CertInv, NEW d \in live, NEW new, new \subseteq AllCerts, Absorb(d, new),
           UNCHANGED <<live, certMsgs, invites, mints>>,
           \A o \in sent' : o \in sent \/ o.proof \subseteq certs[d] \union new
    PROVE  /\ CertInv' /\ CertsGrow
           /\ certs'[d] = certs[d] \union new /\ caps'[d] = ClosureWith(d, new)
<1>1. AllCerts \union new = AllCerts
  OBVIOUS
<1>2. IsStorable(AllCerts \union new)
  BY <1>1 DEF CertInv
<1>3. mints' \in Nat /\ mints <= mints' /\ mints' = mints
  BY BoundAssumption DEF Inv, TypeOK
<1>4. \A c \in new : /\ MaxMints + 1 <= c.digest + mints'
                     /\ c.kind = "policy" => c.issuer = Founder /\ c.threshold = Threshold
  BY <1>3 DEF CertInv
<1>5. live' = live /\ (\A b \in certMsgs' : b \in certMsgs) /\ (\A i \in invites' : i \in invites)
  OBVIOUS
<1> QED BY <1>2, <1>3, <1>4, <1>5, StoreStep

(* A step that leaves the certificates alone. *)
LEMMA SameCerts ==
    ASSUME Inv, CertInv, NEW d \in live,
           UNCHANGED <<live, certs, caps, certMsgs, invites, mints>>,
           \A o \in sent' : o \in sent \/ o.proof \subseteq certs[d]
    PROVE  CertInv' /\ CertsGrow /\ certs'[d] = certs[d] /\ caps'[d] = caps[d]
<1>1. PICK none : none = {}
  OBVIOUS
<1>2. d \in Member
  BY DEF Inv, TypeOK
<1>3. certs[d] \union none = certs[d] /\ none \subseteq certs[d] /\ none \subseteq AllCerts
  BY <1>1
<1>4. ClosureWith(d, none) = caps[d]
  BY <1>3 DEF ClosureWith
<1>5. Absorb(d, none)
  <2>1. certs' = [certs EXCEPT ![d] = @ \union none]
    BY <1>2, <1>3 DEF CertInv
  <2>2. caps' = [caps EXCEPT ![d] = caps[d]]
    BY <1>2 DEF CertInv
  <2> QED BY <1>4, <2>1, <2>2 DEF Absorb
<1> QED BY <1>3, <1>4, <1>5, HeardCerts

-----------------------------------------------------------------------------
(* Why an operation is in a log. *)

(* What entitles d to an operation that a step adds to its log: its        *)
(* certificates authorise the issuer; or they show the decision d carries  *)
(* out; or d admits a member it has just bound to a user it may bind to.   *)
Reason(d, o) ==
    \/ IsCertifiedDevice(caps'[d], d) => Authorized(certs'[d], caps'[d], o)
    \/ /\ o.kind = "remove"
       /\ IsExecutedAction(certs'[d], caps'[d].executed, RemoveAction(o.member))
    \/ /\ d \in live /\ o.kind = "add" /\ o.issuer = d
       /\ \E b \in OfKind(certs'[d], "binding") :
             b.issuer = d /\ b.device = o.member /\ MayBindDeviceTo(caps[d], d, b.user)

(* What a step does to certificates, logs and invites. *)
Explains ==
    /\ CertInv' /\ CertsGrow
    /\ \A d \in live' : \A o \in log'[d] : (d \in live /\ o \in log[d]) \/ Reason(d, o)
    /\ \A i \in invites' :
          \/ i \in invites
          \/ \E d \in live' : i.log = log'[d] /\ i.certs = certs'[d] /\ i.to \in Known(i.log)
    /\ \A d \in live' \ live : IsCertifiedDevice(caps'[d], d)

LEMMA OneDevice ==
    ASSUME Inv, NEW d \in live, live' = live, NEW M, log' = [log EXCEPT ![d] = M],
           CertInv', CertsGrow,
           \A o \in M : o \in log[d] \/ Reason(d, o),
           \A i \in invites' : i \in invites \/ (i.log = M /\ i.certs = certs'[d] /\ i.to \in Known(i.log))
    PROVE  Explains
<1>1. d \in Member /\ live \subseteq Member
  BY DEF Inv, TypeOK
<1>2. log'[d] = M /\ \A e \in Member \ {d} : log'[e] = log[e]
  BY <1>1 DEF Inv, TypeOK
<1>3. \A e \in live' : \A o \in log'[e] : (e \in live /\ o \in log[e]) \/ Reason(e, o)
  BY <1>1, <1>2
<1>4. \A i \in invites' :
          \/ i \in invites
          \/ \E e \in live' : i.log = log'[e] /\ i.certs = certs'[e] /\ i.to \in Known(i.log)
  BY <1>2
<1> QED BY <1>3, <1>4 DEF Explains

(* The operations run_quorum_actions signs are removals decided on. *)
LEMMA QuorumReasons ==
    ASSUME NEW d, NEW n, NEW L, NEW C, IsStorable(C), NEW K, NEW done,
           NEW o \in QuorumOps(d, n, L, C, K, done)
    PROVE  /\ o.kind = "remove" /\ o.proof \subseteq C
           /\ IsExecutedAction(C, K.executed, RemoveAction(o.member))
<1> DEFINE FirstDigest(m) == Min({p.digest : p \in PendingRemovalsOf(C, K, done, m)})
           First(x, y) == FirstDigest(x) < FirstDigest(y)
           R == QuorumRemoves(C, K, L, done)
           op(m) == Op("remove", d, m, n,
                       Ids(L) \union {<<n, x>> : x \in {y \in R : First(y, m)}},
                       QuorumProof(C, K, m))
<1>1. QuorumOps(d, n, L, C, K, done) = {op(m) : m \in R}
  <2> HIDE DEF FirstDigest, R
  <2> QED BY DEF QuorumOps, Removals, FirstDigest, R
<1>2. \A m : op(m).kind = "remove" /\ op(m).member = m /\ op(m).proof = QuorumProof(C, K, m)
  BY DEF Op
<1> HIDE DEF op, R
<1>3. PICK m \in R : o = op(m)
  BY <1>1
<1>4. PICK p \in PendingRemovalsOf(C, K, done, m) : TRUE
  BY <1>3 DEF R, QuorumRemoves
<1>5. p \in OfKind(C, "proposal") /\ p.digest \in K.executed /\ p.action = RemoveAction(m)
  BY <1>4 DEF PendingRemovalsOf, PendingProposals, Executable
<1> QED BY <1>2, <1>3, <1>5, ProofHeld DEF IsExecutedAction

(* So are those merge_pending applies authorised. *)
LEMMA MergedReasons ==
    ASSUME NEW C, NEW K, NEW L, NEW P, NEW o \in Merged(C, K, L, P), o \notin L
    PROVE  Authorized(C, K, o)
<1>1. o \in Drained(C, K, L, P)
  BY DEF Merged
<1>2. Acceptable(C, K, L \union Drained(C, K, L, P), o)
  BY <1>1, DrainedAcceptable
<1> QED BY <1>2 DEF Acceptable

LEMMA WithCertsReasons ==
    ASSUME NEW d, NEW batch, NEW K, NEW o \in LogWithCerts(d, batch, K), o \notin log[d]
    PROVE  Authorized(certs[d] \union batch, K, o)
<1>1. o \in Merged(certs[d] \union batch, K, log[d], parked[d])
  BY DEF LogWithCerts
<1> QED BY <1>1, MergedReasons

-----------------------------------------------------------------------------
(* The reasons behind every step. *)

(* admit and build_invite. *)
LEMMA AdmitReasons ==
    ASSUME Inv, CertInv, NEW d \in live, NEW x \in Member, NEW g \in NewDigests,
           NEW new, Minted(new, g), Admit(d, x, new),
           NEW b \in new, b.kind = "binding", b.issuer = d, b.device = x,
           MayBindDeviceTo(caps[d], d, b.user)
    PROVE  Explains
<1> DEFINE add == Op("add", d, x, issues + 1, Ids(log[d]), new)
           N == IF x \in Tree(log[d]) THEN {} ELSE {add}
<1>1. add.kind = "add" /\ add.issuer = d /\ add.member = x /\ add.proof = new
  BY DEF Op
<1>2. /\ Certify(d, new) /\ Broadcast(d, N) /\ live' = live
      /\ certMsgs' = (IF N = {} THEN certMsgs \union {new} ELSE certMsgs)
      /\ invites' = invites \union {[to |-> x, log |-> log[d] \union N,
                                     certs |-> certs[d] \union new]}
  BY DEF Admit
<1>3. \A o \in N : o = add
  OBVIOUS
<1>4. x \in Known(log[d] \union N)
  <2>1. CASE x \in Tree(log[d])
    BY <2>1 DEF Tree, Known
  <2>2. CASE x \notin Tree(log[d])
    <3>1. add \in log[d] \union N
      BY <2>2
    <3> HIDE DEF N, add
    <3> QED BY <1>1, <3>1 DEF Known
  <2> QED BY <2>1, <2>2
<1> HIDE DEF add, N
<1>5. log' = [log EXCEPT ![d] = log[d] \union N] /\ sent' = sent \union N
  BY <1>2 DEF Broadcast
<1>6. \A o \in sent' : o \in sent \/ o.proof \subseteq certs[d] \union new
  BY <1>1, <1>3, <1>5
<1>7. \A c \in certMsgs' : c \in certMsgs \/ c \subseteq certs[d] \union new
  BY <1>2
<1>8. \A i \in invites' : i \in invites \/ i.certs = certs[d] \union new
  BY <1>2
<1>9. /\ CertInv' /\ CertsGrow
      /\ certs'[d] = certs[d] \union new
  BY <1>2, <1>6, <1>7, <1>8, MintStep
<1>10. PICK M : M = log[d] \union N
  OBVIOUS
<1>11. \A i \in invites' : i \in invites \/ (i.log = M /\ i.certs = certs'[d] /\ i.to \in Known(i.log))
  <2>1. PICK v : v = [to |-> x, log |-> M, certs |-> certs[d] \union new]
    OBVIOUS
  <2>2. invites' = invites \union {v}
    BY <1>2, <1>10, <2>1
  <2>3. v.to = x /\ v.log = M /\ v.certs = certs[d] \union new
    BY <2>1
  <2>4. v.log = M /\ v.certs = certs'[d] /\ v.to \in Known(v.log)
    BY <1>4, <1>9, <1>10, <2>3
  <2> QED BY <2>2, <2>4
<1>12. Reason(d, add)
  <2>1. b \in OfKind(certs'[d], "binding")
    BY <1>9 DEF OfKind
  <2> QED BY <1>1, <2>1 DEF Reason
<1>13. \A o \in M : o \in log[d] \/ Reason(d, o)
  BY <1>3, <1>10, <1>12
<1>14. log' = [log EXCEPT ![d] = M]
  BY <1>5, <1>10
<1>15. live' = live /\ CertInv' /\ CertsGrow
  BY <1>2, <1>9
<1> QED BY <1>11, <1>13, <1>14, <1>15, OneDevice, Zenon

(* on_add_user. *)
LEMMA AddUserReasons ==
    ASSUME Inv, CertInv, NEW d \in live, NEW x \in Enrollees, NEW r \in Roles,
           NEW g \in NewDigests, AddUser(d, x, r, g)
    PROVE  Explains
<1>1. PICK s, b, c : s = NextSeq(certs[d], x) /\ b = Binding(d, x, x, g) /\ c = Grant(d, x, r, s, g)
  OBVIOUS
<1>2. MayAdminister(caps[d], d) /\ Admit(d, x, {b, c})
  BY <1>1 DEF AddUser
<1>3. d \in Member /\ x \in Member /\ r \in Role
  BY AdmittedAssumption, CallAssumption DEF Inv, TypeOK
<1>4. certs[d] \subseteq AllCerts
  BY DEF AllCerts
<1>5. s \in Nat
  BY <1>1, <1>4, SubsetStorable, SeqTypes DEF CertInv
<1>6. mints < MaxMints
  BY <1>2 DEF Admit, Certify, Mint
<1>7. g \in Digest
  BY <1>6, FreshDigest
<1>8. Minted({b, c}, g)
  BY <1>1, <1>3, <1>5, <1>7, MintedTwo
<1>9. b.kind = "binding" /\ b.issuer = d /\ b.device = x /\ MayBindDeviceTo(caps[d], d, b.user)
  BY <1>1, <1>2 DEF Binding, MayBindDeviceTo
<1>10. PICK new : new = {b, c}
  OBVIOUS
<1>11. Minted(new, g) /\ Admit(d, x, new) /\ b \in new
  BY <1>2, <1>8, <1>10
<1> QED BY <1>3, <1>9, <1>11, AdmitReasons

(* on_add_device. *)
LEMMA AddDeviceReasons ==
    ASSUME Inv, CertInv, NEW d \in live, NEW x \in Enrollees, NEW u \in Member,
           NEW g \in NewDigests, AddDevice(d, x, u, g)
    PROVE  Explains
<1>1. PICK b : b = Binding(d, x, u, g)
  OBVIOUS
<1>2. MayBindDeviceTo(caps[d], d, u) /\ Admit(d, x, {b})
  BY <1>1 DEF AddDevice
<1>3. d \in Member /\ x \in Member
  BY AdmittedAssumption DEF Inv, TypeOK
<1>4. mints < MaxMints
  BY <1>2 DEF Admit, Certify, Mint
<1>5. g \in Digest
  BY <1>4, FreshDigest
<1>6. b.kind = "binding" /\ b.issuer = d /\ b.device = x /\ b.user = u /\ b.digest = g
  BY <1>1 DEF Binding
<1>7. b \in Certificate
  BY <1>1, <1>3, <1>5 DEF Binding, Certificate
<1>8. Minted({b}, g)
  BY <1>6, <1>7, MintedOne
<1>9. PICK new : new = {b}
  OBVIOUS
<1>10. Minted(new, g) /\ Admit(d, x, new) /\ b \in new /\ MayBindDeviceTo(caps[d], d, b.user)
  BY <1>2, <1>6, <1>8, <1>9
<1> QED BY <1>3, <1>6, <1>10, AdmitReasons

(* A handler that mints one certificate and does nothing else. *)
LEMMA CertifyReasons ==
    ASSUME Inv, CertInv, NEW d \in live, NEW g \in NewDigests, NEW c,
           g \in Digest => c \in Certificate, c.digest = g, c.kind # "policy",
           Certify(d, {c}), certMsgs' = certMsgs \union {{c}},
           UNCHANGED <<live, log, sent, invites>>
    PROVE  Explains
<1>1. mints < MaxMints
  BY DEF Certify, Mint
<1>2. g \in Digest
  BY <1>1, FreshDigest
<1>3. PICK new : new = {c}
  OBVIOUS
<1>4. Minted(new, g) /\ Certify(d, new)
  BY <1>2, <1>3, MintedOne
<1>5. /\ \A o \in sent' : o \in sent \/ o.proof \subseteq certs[d] \union new
      /\ \A b \in certMsgs' : b \in certMsgs \/ b \subseteq certs[d] \union new
      /\ \A i \in invites' : i \in invites \/ i.certs = certs[d] \union new
      /\ live' = live
  BY <1>3
<1>6. CertInv' /\ CertsGrow
  BY <1>4, <1>5, MintStep
<1>7. log' = [log EXCEPT ![d] = log[d]]
  BY DEF Inv, TypeOK
<1>8. PICK M : M = log[d]
  OBVIOUS
<1>9. log' = [log EXCEPT ![d] = M] /\ \A o \in M : o \in log[d]
  BY <1>7, <1>8
<1>10. live' = live /\ \A i \in invites' : i \in invites
  OBVIOUS
<1> QED BY <1>6, <1>9, <1>10, OneDevice

(* on_set_role. *)
LEMMA SetRoleReasons ==
    ASSUME Inv, CertInv, NEW d \in live, NEW u \in Subjects, NEW r \in Roles,
           NEW g \in NewDigests, SetRole(d, u, r, g)
    PROVE  Explains
<1>1. PICK s, c : s = NextSeq(certs[d], u) /\ c = Grant(d, u, r, s, g)
  OBVIOUS
<1>2. /\ Certify(d, {c}) /\ certMsgs' = certMsgs \union {{c}}
      /\ UNCHANGED <<live, log, sent, invites>>
  BY <1>1 DEF SetRole
<1>3. d \in Member /\ u \in Member /\ r \in Role
  BY CallAssumption DEF Inv, TypeOK
<1>4. certs[d] \subseteq AllCerts
  BY DEF AllCerts
<1>5. s \in Nat
  BY <1>1, <1>4, SubsetStorable, SeqTypes DEF CertInv
<1>6. c.digest = g /\ c.kind # "policy" /\ (g \in Digest => c \in Certificate)
  BY <1>1, <1>3, <1>5 DEF Grant, Certificate
<1> QED BY <1>2, <1>6, CertifyReasons

(* on_propose. *)
LEMMA ProposeReasons ==
    ASSUME Inv, CertInv, NEW d \in live, NEW a \in AdminAction,
           NEW g \in NewDigests, Propose(d, a, g)
    PROVE  Explains
<1>1. PICK s, c : s = NextProposalSeq(certs[d]) /\ c = Proposal(d, a, s, g)
  OBVIOUS
<1>2. /\ Certify(d, {c}) /\ certMsgs' = certMsgs \union {{c}}
      /\ UNCHANGED <<live, log, sent, invites>>
  BY <1>1 DEF Propose
<1>3. d \in Member
  BY DEF Inv, TypeOK
<1>4. certs[d] \subseteq AllCerts
  BY DEF AllCerts
<1>5. s \in Nat
  BY <1>1, <1>4, SubsetStorable, SeqTypes DEF CertInv
<1>6. c.digest = g /\ c.kind # "policy" /\ (g \in Digest => c \in Certificate)
  BY <1>1, <1>3, <1>5 DEF Proposal, Certificate
<1> QED BY <1>2, <1>6, CertifyReasons

(* on_approve. *)
LEMMA ApproveReasons ==
    ASSUME Inv, CertInv, NEW d \in live, NEW p \in OfKind(certs[d], "proposal"),
           NEW g \in NewDigests, Approve(d, p, g)
    PROVE  Explains
<1>1. PICK c : c = Approval(d, p.digest, g)
  OBVIOUS
<1>2. PICK new : new = {c}
  OBVIOUS
<1>3. PICK C, K : C = certs[d] \union new /\ K = ClosureWith(d, new)
  OBVIOUS
<1>4. PICK N : N = QuorumOps(d, issues + 1, log[d], C, K, executedHere[d])
  OBVIOUS
<1>5. /\ Certify(d, new) /\ Broadcast(d, N) /\ certMsgs' = certMsgs \union {new}
      /\ live' = live /\ invites' = invites
  BY <1>1, <1>2, <1>3, <1>4 DEF Approve
<1>6. d \in Member /\ p \in certs[d] /\ certs[d] \subseteq AllCerts
  BY DEF Inv, TypeOK, OfKind, AllCerts
<1>7. p.digest \in Digest
  BY <1>6, FieldTypes DEF CertInv, IsStorable
<1>8. mints < MaxMints
  BY <1>5 DEF Certify, Mint
<1>9. g \in Digest /\ \A e \in AllCerts : e.digest # g
  BY <1>8, FreshDigest
<1>10. c \in Certificate /\ c.digest = g /\ c.kind # "policy"
  BY <1>1, <1>6, <1>7, <1>9 DEF Approval, Certificate
<1>11. Minted(new, g)
  BY <1>2, <1>10, MintedOne
<1>12. IsStorable(C)
  <2>1. IsStorable(AllCerts \union new)
    BY <1>9, <1>11, MintedStorable DEF CertInv
  <2>2. C \subseteq AllCerts \union new
    BY <1>3, <1>6
  <2> QED BY <2>1, <2>2, SubsetStorable
<1>13. \A o \in N : /\ o.kind = "remove" /\ o.proof \subseteq C
                    /\ IsExecutedAction(C, K.executed, RemoveAction(o.member))
  BY <1>4, <1>12, QuorumReasons
<1>14. /\ log' = [log EXCEPT ![d] = log[d] \union N] /\ sent' = sent \union N
  BY <1>5 DEF Broadcast
<1>15. /\ \A o \in sent' : o \in sent \/ o.proof \subseteq certs[d] \union new
       /\ \A b \in certMsgs' : b \in certMsgs \/ b \subseteq certs[d] \union new
       /\ \A i \in invites' : i \in invites \/ i.certs = certs[d] \union new
  BY <1>3, <1>5, <1>13, <1>14
<1>16. /\ CertInv' /\ CertsGrow
       /\ certs'[d] = certs[d] \union new /\ caps'[d] = ClosureWith(d, new)
  BY <1>5, <1>11, <1>15, MintStep
<1>17. PICK M : M = log[d] \union N
  OBVIOUS
<1>18. \A o \in N : Reason(d, o)
  BY <1>3, <1>13, <1>16 DEF Reason
<1>19. log' = [log EXCEPT ![d] = M] /\ \A o \in M : o \in log[d] \/ Reason(d, o)
  BY <1>14, <1>17, <1>18
<1>20. \A i \in invites' : i \in invites
  BY <1>5
<1> QED BY <1>5, <1>16, <1>19, <1>20, OneDevice

(* A handler that signs operations on the certificates it has. *)
LEMMA BroadcastReasons ==
    ASSUME Inv, CertInv, NEW d \in live, NEW N, Broadcast(d, N),
           UNCHANGED <<live, certs, caps, certMsgs, invites, mints>>,
           \A o \in N : /\ o.proof \subseteq certs[d]
                        /\ IsCertifiedDevice(caps[d], d) => Authorized(certs[d], caps[d], o)
    PROVE  Explains
<1>1. log' = [log EXCEPT ![d] = log[d] \union N] /\ sent' = sent \union N
  BY DEF Broadcast
<1>2. \A o \in sent' : o \in sent \/ o.proof \subseteq certs[d]
  BY <1>1
<1>3. CertInv' /\ CertsGrow /\ certs'[d] = certs[d] /\ caps'[d] = caps[d]
  BY <1>2, SameCerts
<1>4. \A o \in N : Reason(d, o)
  BY <1>3 DEF Reason
<1>5. PICK M : M = log[d] \union N
  OBVIOUS
<1>6. log' = [log EXCEPT ![d] = M] /\ \A o \in M : o \in log[d] \/ Reason(d, o)
  BY <1>1, <1>4, <1>5
<1>7. live' = live /\ \A i \in invites' : i \in invites
  OBVIOUS
<1> QED BY <1>3, <1>6, <1>7, OneDevice

LEMMA StoresStorable ==
    ASSUME CertInv, NEW d \in live
    PROVE  IsStorable(certs[d])
<1>1. certs[d] \subseteq AllCerts
  BY DEF AllCerts
<1> QED BY <1>1, SubsetStorable DEF CertInv

(* on_remove_member. *)
LEMMA RemoveMemberReasons ==
    ASSUME Inv, CertInv, NEW d \in live, NEW x, RemoveMember(d, x)
    PROVE  Explains
<1>1. PICK K, Q : K = caps[d] /\ Q = QuorumProof(certs[d], caps[d], x)
  OBVIOUS
<1>2. PICK op : op = Op("remove", d, x, issues + 1, Ids(log[d]), Q)
  OBVIOUS
<1>3. Broadcast(d, {op})
  <2> DEFINE First(a, b) == FALSE
  <2>1. Removals(d, issues + 1, log[d], certs[d], caps[d], {x}, First) = {op}
    BY <1>1, <1>2 DEF Removals
  <2> QED BY <2>1 DEF RemoveMember
<1>4. op.kind = "remove" /\ op.issuer = d /\ op.member = x /\ op.proof = Q
  BY <1>2 DEF Op
<1>5. HasQuorum(d, K, RemoveAction(x))
  BY <1>1 DEF RemoveMember
<1>6. Q \subseteq certs[d]
  BY <1>1, StoresStorable, ProofHeld
<1>7. K.threshold <= 1 \/ K.threshold > 1
  <2>1. certs[d] \subseteq AllCerts /\ d \in Member
    BY DEF AllCerts, Inv, TypeOK
  <2>2. K = Closure(certs[d])
    BY <1>1, <2>1 DEF CertInv
  <2>3. K.threshold = ResolveThreshold(certs[d])
    BY <2>2, StoresStorable, ClosureTypes
  <2>4. ResolveThreshold(certs[d]) = Threshold
    BY <2>1, FounderDecides DEF CertInv
  <2> QED BY <2>3, <2>4, ThresholdAssumption
<1>8. Authorized(certs[d], K, op)
  BY <1>4, <1>5, <1>7 DEF Authorized, HasQuorum
<1>9. PICK N : N = {op}
  OBVIOUS
<1>10. /\ Broadcast(d, N)
       /\ \A o \in N : /\ o.proof \subseteq certs[d]
                       /\ IsCertifiedDevice(caps[d], d) => Authorized(certs[d], caps[d], o)
  BY <1>1, <1>3, <1>4, <1>6, <1>8, <1>9
<1>11. UNCHANGED <<live, certs, caps, certMsgs, invites, mints>>
  BY DEF RemoveMember
<1> QED BY <1>10, <1>11, BroadcastReasons

(* on_leave: a certified device removes devices of its own user. *)
LEMMA LeaveReasons ==
    ASSUME Inv, CertInv, NEW d \in live, Leave(d)
    PROVE  Explains
<1> DEFINE K == caps[d]
           user == IF IsCertifiedDevice(K, d) THEN K.user[d] ELSE d
           devices == IF DevicesOf(K, user) = {} THEN {d} ELSE DevicesOf(K, user)
           R == devices \intersect Tree(log[d])
           signed(m) == Op("remove", d, m, issues + 1,
                        Ids(log[d]) \union {<<issues + 1, x>> : x \in {y \in R : y < m}},
                        QuorumProof(certs[d], K, m))
           op(m) == [signed(m) EXCEPT !.proof = {}]
           N == {op(m) : m \in R}
<1>1. Broadcast(d, N)
  <2> DEFINE First(a, b) == a < b
             S == Removals(d, issues + 1, log[d], certs[d], K, R, First)
  <2>1. S = {signed(m) : m \in R}
    BY DEF Removals
  <2>2. Broadcast(d, {[o EXCEPT !.proof = {}] : o \in S})
    BY DEF Leave
  <2>3. {[o EXCEPT !.proof = {}] : o \in S} = N
    <3> HIDE DEF R, signed, S
    <3> QED BY <2>1
  <2> QED BY <2>2, <2>3
<1>2. ASSUME NEW m
      PROVE  op(m).kind = "remove" /\ op(m).issuer = d /\ op(m).member = m /\ op(m).proof = {}
  <2> HIDE DEF R
  <2> QED BY DEF Op
<1>3. ASSUME IsCertifiedDevice(K, d), NEW m \in R
      PROVE  IsCertifiedDevice(K, m) /\ K.user[m] = K.user[d]
  BY <1>3 DEF DevicesOf, IsCertifiedDevice
<1> HIDE DEF op, R
<1>4. ASSUME NEW o \in N
      PROVE  /\ o.proof \subseteq certs[d]
             /\ IsCertifiedDevice(caps[d], d) => Authorized(certs[d], caps[d], o)
  <2>1. PICK m \in R : o = op(m)
    OBVIOUS
  <2>2. o.kind = "remove" /\ o.issuer = d /\ o.member = m /\ o.proof = {}
    BY <1>2, <2>1
  <2> QED BY <1>3, <2>2 DEF Authorized
<1>5. UNCHANGED <<live, certs, caps, certMsgs, invites, mints>>
  BY DEF Leave
<1> HIDE DEF N
<1> QED BY <1>1, <1>4, <1>5, BroadcastReasons

(* Rotate. *)
LEMMA RotateReasons ==
    ASSUME Inv, CertInv, NEW d \in live, Rotate(d)
    PROVE  Explains
<1>1. PICK op : op = Op("update", d, d, issues + 1, Ids(log[d]), {})
  OBVIOUS
<1>2. op.kind = "update" /\ op.proof = {}
  BY <1>1 DEF Op
<1>3. PICK N : N = {op}
  OBVIOUS
<1>4. Broadcast(d, N) /\ UNCHANGED <<live, certs, caps, certMsgs, invites, mints>>
  BY <1>1, <1>3 DEF Rotate
<1>5. \A o \in N : /\ o.proof \subseteq certs[d]
                   /\ IsCertifiedDevice(caps[d], d) => Authorized(certs[d], caps[d], o)
  BY <1>2, <1>3 DEF Authorized
<1> QED BY <1>4, <1>5, BroadcastReasons

(* on_control_op. *)
LEMMA ControlOpReasons ==
    ASSUME Inv, CertInv, NEW d \in live, NEW o \in sent, ControlOp(d, o)
    PROVE  Explains
<1>1. PICK new : new = o.proof
  OBVIOUS
<1>2. new \subseteq AllCerts /\ Absorb(d, new) /\ UNCHANGED <<live, sent, certMsgs, invites, mints>>
  BY <1>1 DEF ControlOp, CertInv
<1>3. PICK C, K : C = certs[d] \union new /\ K = ClosureWith(d, new)
  OBVIOUS
<1>4. CertInv' /\ CertsGrow /\ certs'[d] = C /\ caps'[d] = K
  <2>1. /\ UNCHANGED <<live, certMsgs, invites, mints>>
        /\ \A q \in sent' : q \in sent \/ q.proof \subseteq certs[d] \union new
    BY <1>2
  <2> QED BY <1>2, <1>3, <2>1, HeardCerts
<1>5. \A q : Authorized(C, K, q) => Reason(d, q)
  BY <1>4 DEF Reason
<1>6. live' = live /\ \A i \in invites' : i \in invites
  BY <1>2
<1>7. CASE UNCHANGED log
  <2>1. PICK M : M = log[d]
    OBVIOUS
  <2>2. log' = [log EXCEPT ![d] = M] /\ \A q \in M : q \in log[d]
    BY <1>7, <2>1 DEF Inv, TypeOK
  <2> QED BY <1>4, <1>6, <2>2, OneDevice
<1>8. CASE MergeOp(d, o)
  <2>1. PICK M : M = Merged(C, K, log[d] \union {o}, parked[d])
    OBVIOUS
  <2>2. log' = [log EXCEPT ![d] = M] /\ Acceptable(C, K, log[d], o)
    BY <1>1, <1>3, <1>8, <2>1 DEF MergeOp
  <2>3. \A q \in M : q \in log[d] \union {o} \/ Authorized(C, K, q)
    BY <2>1, MergedReasons
  <2>4. Authorized(C, K, o)
    BY <2>2 DEF Acceptable
  <2>5. \A q \in M : q \in log[d] \/ Reason(d, q)
    BY <1>5, <2>3, <2>4
  <2> QED BY <1>4, <1>6, <2>2, <2>5, OneDevice
<1> QED BY <1>7, <1>8 DEF ControlOp, ParkOp, IgnoreOp

(* on_certs_arrived. *)
LEMMA CertsArrivedReasons ==
    ASSUME Inv, CertInv, NEW d \in live, NEW batch \in certMsgs, CertsArrived(d, batch)
    PROVE  Explains
<1>1. PICK C, K : C = certs[d] \union batch /\ K = ClosureWith(d, batch)
  OBVIOUS
<1>2. PICK L : L = LogWithCerts(d, batch, K)
  OBVIOUS
<1>3. PICK N : N = QuorumOpsWithCerts(d, batch, K, L)
  OBVIOUS
<1>4. /\ Absorb(d, batch) /\ log' = [log EXCEPT ![d] = L \union N] /\ sent' = sent \union N
      /\ UNCHANGED <<live, certMsgs, invites, mints>>
  BY <1>1, <1>2, <1>3 DEF CertsArrived
<1>5. batch \subseteq AllCerts /\ C \subseteq AllCerts
  BY <1>1 DEF CertInv, AllCerts
<1>6. IsStorable(C)
  BY <1>5, SubsetStorable DEF CertInv
<1>7. \A o \in N : /\ o.kind = "remove" /\ o.proof \subseteq C
                   /\ IsExecutedAction(C, K.executed, RemoveAction(o.member))
  BY <1>1, <1>3, <1>6, QuorumReasons DEF QuorumOpsWithCerts
<1>8. \A o \in L : o \in log[d] \/ Authorized(C, K, o)
  BY <1>1, <1>2, WithCertsReasons
<1>9. CertInv' /\ CertsGrow /\ certs'[d] = C /\ caps'[d] = K
  <2>1. \A o \in sent' : o \in sent \/ o.proof \subseteq certs[d] \union batch
    BY <1>1, <1>4, <1>7
  <2> QED BY <1>1, <1>4, <1>5, <2>1, HeardCerts
<1>10. PICK M : M = L \union N
  OBVIOUS
<1>11. \A o \in M : o \in log[d] \/ Reason(d, o)
  BY <1>7, <1>8, <1>9, <1>10 DEF Reason
<1>12. log' = [log EXCEPT ![d] = M] /\ live' = live /\ \A i \in invites' : i \in invites
  BY <1>4, <1>10
<1> QED BY <1>9, <1>11, <1>12, OneDevice

(* on_control of a Log. *)
LEMMA LogArrivedReasons ==
    ASSUME Inv, CertInv, NEW d \in live, NEW e \in live, LogArrived(d, e)
    PROVE  Explains
<1>0. PICK batch : batch = certs[e]
  OBVIOUS
<1>1. PICK C, K : C = certs[d] \union batch /\ K = ClosureWith(d, batch)
  OBVIOUS
<1>2. PICK L : L = LogWithCerts(d, batch, K)
  OBVIOUS
<1>3. PICK N : N = QuorumOpsWithCerts(d, batch, K, L)
  OBVIOUS
<1>4. PICK M : M = Merged(C, K, L \union N, parked[d] \union log[e])
  OBVIOUS
<1>5. /\ Absorb(d, batch) /\ log' = [log EXCEPT ![d] = M] /\ sent' = sent \union N
      /\ UNCHANGED <<live, certMsgs, invites, mints>>
  BY <1>0, <1>1, <1>2, <1>3, <1>4 DEF LogArrived
<1>6. batch \subseteq AllCerts /\ C \subseteq AllCerts
  BY <1>0, <1>1 DEF AllCerts
<1>7. IsStorable(C)
  BY <1>6, SubsetStorable DEF CertInv
<1>8. \A o \in N : /\ o.kind = "remove" /\ o.proof \subseteq C
                   /\ IsExecutedAction(C, K.executed, RemoveAction(o.member))
  <2>1. N = QuorumOps(d, issues + 1, L, C, K, executedHere[d])
    BY <1>1, <1>3 DEF QuorumOpsWithCerts
  <2> QED BY <1>7, <2>1, QuorumReasons
<1>9. \A o \in L : o \in log[d] \/ Authorized(C, K, o)
  BY <1>1, <1>2, WithCertsReasons
<1>10. \A o \in M : o \in L \union N \/ Authorized(C, K, o)
  BY <1>4, MergedReasons
<1>11. CertInv' /\ CertsGrow /\ certs'[d] = C /\ caps'[d] = K
  <2>1. \A o \in sent' : o \in sent \/ o.proof \subseteq certs[d] \union batch
    BY <1>1, <1>5, <1>8
  <2> QED BY <1>1, <1>5, <1>6, <2>1, HeardCerts
<1>12. \A o \in M : o \in log[d] \/ Reason(d, o)
  BY <1>8, <1>9, <1>10, <1>11 DEF Reason
<1>13. log' = [log EXCEPT ![d] = M] /\ live' = live /\ \A i \in invites' : i \in invites
  BY <1>5
<1> QED BY <1>11, <1>12, <1>13, OneDevice

(* A restart. *)
LEMMA RestartReasons ==
    ASSUME Inv, CertInv, NEW d \in live, Restart(d)
    PROVE  Explains
<1>1. UNCHANGED <<live, log, certs, caps, sent, certMsgs, invites, mints>>
  BY DEF Restart
<1>2. CertInv' /\ CertsGrow
  BY <1>1, SameCerts
<1>3. PICK M : M = log[d]
  OBVIOUS
<1>4. log' = [log EXCEPT ![d] = M] /\ \A o \in M : o \in log[d]
  BY <1>1, <1>3 DEF Inv, TypeOK
<1>5. live' = live /\ \A i \in invites' : i \in invites
  BY <1>1
<1> QED BY <1>2, <1>4, <1>5, OneDevice

(* Nothing happens. *)
LEMMA StutterReasons ==
    ASSUME CertInv, UNCHANGED vars
    PROVE  Explains
<1>1. AllCerts' = AllCerts /\ FounderCerts' = FounderCerts
  BY DEF AllCerts, vars, FounderCerts, Binding, Grant, Policy, FounderDigest
<1>2. IsStorable(AllCerts)'
  BY <1>1 DEF CertInv, IsStorable, Compared
<1>3. CertInv'
  BY <1>1, <1>2 DEF CertInv, vars
<1>4. CertsGrow
  BY <1>1 DEF CertsGrow, vars
<1> QED BY <1>3, <1>4 DEF Explains, vars

(* The founding Add is authorised by any certificates. *)
LEMMA FoundingAuthorized ==
    ASSUME NEW C, IsStorable(C)
    PROVE  Authorized(C, Closure(C), InitAdd)
<1>1. PICK K : K = Closure(C)
  OBVIOUS
<1>2. Founder \in DOMAIN K.user /\ K.user[Founder] = Founder
  BY <1>1, ClosureTypes
<1>3. InitAdd.kind = "add" /\ InitAdd.issuer = Founder /\ InitAdd.member = Founder
  BY DEF InitAdd, Op
<1>4. Authorized(C, K, InitAdd)
  BY <1>2, <1>3 DEF Authorized, IsCertifiedDevice, MayBindDeviceTo
<1> QED BY <1>1, <1>4

(* join. *)
LEMMA JoinReasons ==
    ASSUME Inv, CertInv, NEW i \in invites, Join(i)
    PROVE  Explains
<1>1. PICK j, B, K : j = i.to /\ B = i.certs /\ K = Closure(B)
  OBVIOUS
<1>2. j \in Member /\ j \notin live /\ live \subseteq Member
  BY <1>1 DEF Inv, TypeOK, Join
<1>3. FounderCerts \subseteq B /\ B \subseteq AllCerts
  BY <1>1 DEF CertInv
<1>4. /\ live' = live \union {j} /\ log' = [log EXCEPT ![j] = i.log]
      /\ certs' = [certs EXCEPT ![j] = B] /\ caps' = [caps EXCEPT ![j] = K]
      /\ UNCHANGED <<sent, certMsgs, invites, mints>>
  BY <1>1 DEF Join
<1>5. /\ certs'[j] = B /\ caps'[j] = K /\ log'[j] = i.log
      /\ \A e \in Member \ {j} : certs'[e] = certs[e] /\ caps'[e] = caps[e] /\ log'[e] = log[e]
  BY <1>2, <1>4 DEF CertInv, Inv, TypeOK
<1>6. PICK A : A = AllCerts
  OBVIOUS
<1>7. AllCerts' = A
  <2>1. PICK A2 : A2 = AllCerts'
    OBVIOUS
  <2>2. (\A c : c \in A <=> \E e \in live : c \in certs[e]) /\ (\A c : c \in A2 <=> \E e \in live' : c \in certs'[e])
    BY <1>6, <2>1 DEF AllCerts
  <2>3. A2 \subseteq A
    BY <1>2, <1>3, <1>4, <1>5, <1>6, <2>2
  <2>4. A \subseteq A2
    BY <1>2, <1>4, <1>5, <2>2
  <2> QED BY <2>1, <2>3, <2>4
<1>8. IsStorable(A) /\ A \subseteq Certificate /\ IsStorable(B)
  BY <1>3, <1>6, SubsetStorable DEF CertInv, IsStorable
<1>9. certs' \in [Member -> SUBSET Certificate]
  BY <1>2, <1>3, <1>4, <1>6, <1>8 DEF CertInv
<1>10. caps' = [e \in Member |-> Closure(certs'[e])]
  <2>1. \A e \in Member : caps[e] = Closure(certs[e])
    BY DEF CertInv
  <2>2. \A e \in Member : caps'[e] = Closure(certs'[e])
    BY <1>1, <1>5, <2>1
  <2>3. caps' = [e \in Member |-> caps'[e]]
    BY <1>4 DEF CertInv
  <2> QED BY <2>2, <2>3
<1>11. \A e \in live' : FounderCerts \subseteq certs'[e]
  BY <1>2, <1>3, <1>4, <1>5 DEF CertInv
<1>12. FounderCerts' = FounderCerts
  BY DEF FounderCerts, Binding, Grant, Policy, FounderDigest
<1>13. /\ \A c \in A : /\ MaxMints + 1 <= c.digest + mints
                       /\ c.kind = "policy" => c.issuer = Founder /\ c.threshold = Threshold
       /\ \A o \in sent : o.proof \subseteq A
       /\ \A b \in certMsgs : b \subseteq A
       /\ \A h \in invites : FounderCerts \subseteq h.certs /\ h.certs \subseteq A
  BY <1>6 DEF CertInv
<1>14. CertInv'
  BY <1>4, <1>7, <1>8, <1>9, <1>10, <1>11, <1>12, <1>13 DEF CertInv, IsStorable, Compared
<1>15. CertsGrow
  BY <1>2, <1>4, <1>5, <1>6, <1>7 DEF CertsGrow
<1>16. \A o \in i.log : Authorized(B, K, o)
  <2>1. \A o \in i.log \ {InitAdd} : Acceptable(B, K, i.log, o)
    BY <1>1 DEF Join, Redeemable
  <2> QED BY <1>1, <1>8, <2>1, FoundingAuthorized DEF Acceptable
<1>17. \A e \in live' : \A o \in log'[e] : (e \in live /\ o \in log[e]) \/ Reason(e, o)
  BY <1>2, <1>4, <1>5, <1>16 DEF Reason
<1>18. IsCertifiedDevice(K, j)
  <2>1. PICK a \in i.log : a.kind = "add" /\ a.member = j
    BY <1>1 DEF Join, Redeemable, Known
  <2> QED BY <1>16, <2>1 DEF Authorized
<1>19. \A e \in live' \ live : IsCertifiedDevice(caps'[e], e)
  BY <1>4, <1>5, <1>18
<1> QED BY <1>4, <1>14, <1>15, <1>17, <1>19 DEF Explains

(* Every step has its reasons. *)
LEMMA NextExplains ==
    ASSUME Inv, CertInv, [Next]_vars
    PROVE  Explains
<1>1. ASSUME NEW d \in live, Call(d) PROVE Explains
  <2>1. \/ \E x \in Enrollees, r \in Roles, g \in NewDigests : AddUser(d, x, r, g)
        \/ \E x \in Enrollees, u \in Member, g \in NewDigests : AddDevice(d, x, u, g)
        \/ \E u \in Subjects, r \in Roles, g \in NewDigests : SetRole(d, u, r, g)
        \/ \E x \in Subjects : RemoveMember(d, x)
        \/ Leave(d) \/ Rotate(d)
    BY <1>1 DEF Call
  <2> QED BY <2>1, AddUserReasons, AddDeviceReasons, SetRoleReasons, RemoveMemberReasons,
             LeaveReasons, RotateReasons
<1>2. ASSUME NEW d \in live, Quorum(d) PROVE Explains
  <2>1. ASSUME NEW x \in Subjects, NEW g \in NewDigests, Propose(d, RemoveAction(x), g)
        PROVE  Explains
    <3>1. PICK a : a = RemoveAction(x)
      OBVIOUS
    <3>2. a \in AdminAction
      BY <3>1, CallAssumption DEF RemoveAction, AdminAction
    <3> QED BY <2>1, <3>1, <3>2, ProposeReasons
  <2>2. ASSUME NEW u \in Subjects, NEW r \in Roles, NEW g \in NewDigests,
               Propose(d, SetRoleAction(u, r), g)
        PROVE  Explains
    <3>1. PICK a : a = SetRoleAction(u, r)
      OBVIOUS
    <3>2. a \in AdminAction
      BY <3>1, CallAssumption DEF SetRoleAction, AdminAction
    <3> QED BY <2>2, <3>1, <3>2, ProposeReasons
  <2>3. \/ \E x \in Subjects, g \in NewDigests : Propose(d, RemoveAction(x), g)
        \/ \E u \in Subjects, r \in Roles, g \in NewDigests : Propose(d, SetRoleAction(u, r), g)
        \/ \E p \in OfKind(certs[d], "proposal"), g \in NewDigests : Approve(d, p, g)
    BY <1>2 DEF Quorum
  <2> QED BY <2>1, <2>2, <2>3, ApproveReasons
<1>3. ASSUME NEW d \in live, Hear(d) PROVE Explains
  BY <1>3, ControlOpReasons, CertsArrivedReasons, LogArrivedReasons DEF Hear
<1>4. ASSUME NEW d \in live, Restart(d) PROVE Explains
  BY <1>4, RestartReasons
<1>5. ASSUME NEW i \in invites, Join(i) PROVE Explains
  BY <1>5, JoinReasons
<1>6. CASE UNCHANGED vars
  BY <1>6, StutterReasons
<1> QED BY <1>1, <1>2, <1>3, <1>4, <1>5, <1>6 DEF Next

(* What the founder and the first members start from. *)
LEMMA FirstCertsStorable ==
    /\ IsStorable(FirstCerts)
    /\ \A c \in FirstCerts :
          /\ MaxMints + 1 <= c.digest
          /\ c.kind = "policy" => c.issuer = Founder /\ c.threshold = Threshold
    /\ \A m \in Admitted : AdmissionCerts(m) \subseteq FirstCerts
    /\ FounderCerts \subseteq FirstCerts
<1>1. ASSUME NEW m \in Admitted
      PROVE  /\ AdmissionCerts(m) \subseteq Certificate /\ IsFiniteSet(AdmissionCerts(m))
             /\ \A c \in AdmissionCerts(m) : c.digest = FounderDigest + m /\ c.kind # "policy"
             /\ \A c, e \in AdmissionCerts(m) : Compared(c, e) => c = e
  <2>1. m \in Member /\ m \in Nat /\ AdmittedAs[m] \in Role
    BY AdmittedAssumption, MemberAssumption
  <2>2. PICK g : g = FounderDigest + m
    OBVIOUS
  <2>3. g \in Digest
    BY <2>1, <2>2, BoundAssumption DEF FounderDigest, Digest
  <2>4. PICK i, r, s : i = Founder /\ r = AdmittedAs[m] /\ s = 0
    OBVIOUS
  <2>5. i \in Member /\ r \in Role /\ s \in Nat
    BY <2>1, <2>4, FounderAssumption
  <2>6. Minted({Binding(i, m, m, g), Grant(i, m, r, s, g)}, g)
    BY <2>1, <2>3, <2>5, MintedTwo
  <2>7. Minted(AdmissionCerts(m), g)
    BY <2>2, <2>4, <2>6 DEF AdmissionCerts
  <2> QED BY <2>2, <2>7 DEF Minted
<1>2. PICK W : W = {AdmissionCerts(m) : m \in Admitted}
  OBVIOUS
<1>3. FirstCerts = FounderCerts \union UNION W
  BY <1>2 DEF FirstCerts
<1>4. IsFiniteSet(FirstCerts)
  <2>1. IsFiniteSet(Admitted)
    BY AdmittedAssumption, MemberAssumption, FS_Subset
  <2>2. PICK f : f = [m \in Admitted |-> AdmissionCerts(m)]
    OBVIOUS
  <2>3. f \in [Admitted -> W] /\ \A t \in W : \E m \in Admitted : f[m] = t
    BY <1>2, <2>2
  <2>4. IsFiniteSet(W)
    BY <2>1, <2>3, FiniteImage
  <2>5. \A T \in W : IsFiniteSet(T)
    BY <1>1, <1>2
  <2>6. IsFiniteSet(UNION W)
    BY <2>4, <2>5, FS_UNION
  <2> QED BY <1>3, <2>6, FounderCertTypes, FS_Union
<1>5. \A c \in FirstCerts : c \in FounderCerts \/ \E m \in Admitted : c \in AdmissionCerts(m)
  BY <1>2, <1>3
<1>6. FirstCerts \subseteq Certificate
  BY <1>1, <1>5, FounderCertTypes
<1>7. \A m \in Admitted : m \in Nat /\ m # 0
  BY AdmittedAssumption, MemberAssumption
<1>8. FounderDigest \in Nat /\ FounderDigest = MaxMints + 1
  BY BoundAssumption DEF FounderDigest
<1>9. ASSUME NEW c \in FirstCerts, NEW e \in FirstCerts, Compared(c, e), c.digest = e.digest
      PROVE  c = e
  <2>1. CASE c \in FounderCerts /\ e \in FounderCerts
    BY <1>9, <2>1, FounderCertTypes
  <2>2. CASE c \in FounderCerts /\ e \notin FounderCerts
    <3>1. PICK m \in Admitted : e \in AdmissionCerts(m)
      BY <1>5, <2>2
    <3>2. e.digest = FounderDigest + m /\ c.digest = FounderDigest
      BY <1>1, <2>2, <3>1, FounderCertTypes
    <3>3. FounderDigest + m # FounderDigest
      BY <1>7, <1>8
    <3> QED BY <1>9, <3>2, <3>3
  <2>3. CASE c \notin FounderCerts /\ e \in FounderCerts
    <3>1. PICK m \in Admitted : c \in AdmissionCerts(m)
      BY <1>5, <2>3
    <3>2. c.digest = FounderDigest + m /\ e.digest = FounderDigest
      BY <1>1, <2>3, <3>1, FounderCertTypes
    <3>3. FounderDigest + m # FounderDigest
      BY <1>7, <1>8
    <3> QED BY <1>9, <3>2, <3>3
  <2>4. CASE c \notin FounderCerts /\ e \notin FounderCerts
    <3>1. PICK m \in Admitted : c \in AdmissionCerts(m)
      BY <1>5, <2>4
    <3>2. PICK n \in Admitted : e \in AdmissionCerts(n)
      BY <1>5, <2>4
    <3>3. c.digest = FounderDigest + m /\ e.digest = FounderDigest + n
      BY <1>1, <3>1, <3>2
    <3>4. FounderDigest + m = FounderDigest + n
      BY <1>9, <3>3
    <3>5. m \in Nat /\ n \in Nat
      BY <1>7
    <3>6. m = n
      BY <1>8, <3>4, <3>5
    <3> QED BY <1>1, <1>9, <3>1, <3>2, <3>6
  <2> QED BY <2>1, <2>2, <2>3, <2>4
<1>10. IsStorable(FirstCerts)
  BY <1>4, <1>6, <1>9 DEF IsStorable
<1>11. ASSUME NEW c \in FirstCerts
       PROVE  /\ MaxMints + 1 <= c.digest
              /\ c.kind = "policy" => c.issuer = Founder /\ c.threshold = Threshold
  <2>1. CASE c \in FounderCerts
    BY <1>8, <2>1, FounderCertTypes
  <2>2. CASE c \notin FounderCerts
    <3>1. PICK m \in Admitted : c \in AdmissionCerts(m)
      BY <1>5, <2>2
    <3>2. c.digest = FounderDigest + m /\ c.kind # "policy"
      BY <1>1, <3>1
    <3> QED BY <1>7, <1>8, <3>2
  <2> QED BY <2>1, <2>2
<1>12. \A m \in Admitted : AdmissionCerts(m) \subseteq FirstCerts
  BY <1>2, <1>3
<1> QED BY <1>3, <1>10, <1>11, <1>12

LEMMA FirstAddsAre ==
    ASSUME NEW o \in FirstAdds
    PROVE  \E m \in Admitted : /\ o.kind = "add" /\ o.issuer = Founder /\ o.member = m
                               /\ o.proof = AdmissionCerts(m)
<1> DEFINE add(m) == Op("add", Founder, m, 0,
                        {<<0, x>> : x \in {Founder} \union {y \in Admitted : y < m}},
                        AdmissionCerts(m))
<1>1. PICK m \in Admitted : o = add(m)
  BY DEF FirstAdds
<1>2. add(m).kind = "add" /\ add(m).issuer = Founder /\ add(m).member = m
      /\ add(m).proof = AdmissionCerts(m)
  BY DEF Op
<1> HIDE DEF add
<1> QED BY <1>1, <1>2

LEMMA InitCerts == Init => CertInv
<1> SUFFICES ASSUME Init PROVE CertInv
  OBVIOUS
<1>1. /\ live = FirstMembers /\ sent = FirstAdds /\ certMsgs = {} /\ invites = {} /\ mints = 0
      /\ certs = [d \in Member |-> IF d \in FirstMembers THEN FirstCerts ELSE {}]
      /\ caps = [d \in Member |-> Closure(certs[d])]
  BY DEF Init
<1>2. FirstMembers \subseteq Member /\ FirstMembers # {}
  BY AdmittedAssumption, FounderAssumption DEF FirstMembers
<1>3. \A d \in live : certs[d] = FirstCerts
  BY <1>1, <1>2
<1>4. AllCerts = FirstCerts
  BY <1>1, <1>2, <1>3 DEF AllCerts
<1>5. FirstCerts \subseteq Certificate /\ \A c \in FirstCerts : c.digest \in Nat
  BY FirstCertsStorable, FieldTypes DEF IsStorable, Digest
<1>6. certs \in [Member -> SUBSET Certificate]
  BY <1>1, <1>5
<1>7. \A o \in sent : o.proof \subseteq AllCerts
  BY <1>1, <1>4, FirstAddsAre, FirstCertsStorable
<1>8. \A c \in AllCerts : MaxMints + 1 <= c.digest + mints
  BY <1>1, <1>4, <1>5, FirstCertsStorable, BoundAssumption
<1> QED BY <1>1, <1>3, <1>4, <1>6, <1>7, <1>8, FirstCertsStorable DEF CertInv

-----------------------------------------------------------------------------
(***************************************************************************)
(* What the certificates of a device still show when more have arrived.    *)
(***************************************************************************)

(* A set of certificates a member of this workspace can hold. *)
Held(C) ==
    /\ IsStorable(C) /\ FounderCerts \subseteq C
    /\ \A c \in C : c.kind = "policy" => c.issuer = Founder /\ c.threshold = Threshold

LEMMA StoresHeld ==
    ASSUME Inv, CertInv, NEW d \in live
    PROVE  Held(certs[d]) /\ caps[d] = Closure(certs[d]) /\ certs[d] \subseteq AllCerts
<1>1. certs[d] \subseteq AllCerts /\ d \in Member
  BY DEF AllCerts, Inv, TypeOK
<1>2. IsStorable(certs[d])
  BY <1>1, SubsetStorable DEF CertInv
<1> QED BY <1>1, <1>2 DEF CertInv, Held

LEMMA NextStoresHeld ==
    ASSUME Inv', CertInv', NEW d \in live'
    PROVE  Held(certs'[d]) /\ caps'[d] = Closure(certs'[d]) /\ certs'[d] \subseteq AllCerts'
<1>1. PICK A, C : A = AllCerts' /\ C = certs'[d]
  OBVIOUS
<1>2. C \subseteq A /\ d \in Member
  BY <1>1 DEF AllCerts, Inv, TypeOK
<1>3. IsStorable(A) /\ FounderCerts \subseteq C
  BY <1>1 DEF CertInv, IsStorable, Compared, FounderCerts, Binding, Grant, Policy, FounderDigest
<1>4. IsStorable(C)
  BY <1>2, <1>3, SubsetStorable
<1>5. \A c \in A : c.kind = "policy" => c.issuer = Founder /\ c.threshold = Threshold
  BY <1>1 DEF CertInv
<1>6. caps'[d] = Closure(certs'[d])
  BY <1>2 DEF CertInv
<1> QED BY <1>1, <1>2, <1>3, <1>4, <1>5, <1>6 DEF Held

LEMMA PartsConflictFree ==
    ASSUME NEW D, NEW C, C \subseteq D
    PROVE  /\ ConflictFree(D) => ConflictFree(C)
           /\ NoRoleProposals(D) => NoRoleProposals(C)
           /\ OneRoleEach(D) => OneRoleEach(C)
  BY DEF ConflictFree, NoRoleProposals, OneRoleEach, OfKind

LEMMA HeldGrows ==
    ASSUME NEW C, NEW D, Held(C), Held(D), C \subseteq D, ConflictFree(D),
           NEW K, K = Closure(C), NEW M, M = Closure(D)
    PROVE  Grown(K, M) /\ K.threshold = Threshold /\ M.threshold = Threshold
<1>1. ResolveThreshold(C) = Threshold /\ ResolveThreshold(D) = Threshold
  BY FounderDecides DEF Held
<1>2. Grown(K, M)
  BY <1>1, ClosuresGrow DEF Held
<1>3. K.threshold = ResolveThreshold(C) /\ M.threshold = ResolveThreshold(D)
  BY ClosureTypes DEF Held
<1> QED BY <1>1, <1>2, <1>3

(* A decision that has been taken stays taken. *)
LEMMA ExecutedStays ==
    ASSUME NEW C, NEW D, C \subseteq D, NEW K, NEW M, Grown(K, M), NEW a,
           IsExecutedAction(C, K.executed, a)
    PROVE  IsExecutedAction(D, M.executed, a)
  BY DEF IsExecutedAction, OfKind, Grown

LEMMA UsersStay ==
    ASSUME NEW K, NEW M, Grown(K, M), NEW x, IsCertifiedDevice(K, x)
    PROVE  IsCertifiedDevice(M, x) /\ M.user[x] = K.user[x]
  BY DEF IsCertifiedDevice, Grown

(* A device binds another, by the closure K it had, and stores the         *)
(* binding: its certificates D then name the owner.                        *)
LEMMA BoundIsCertified ==
    ASSUME NEW C, NEW D, Held(C), Held(D), C \subseteq D, ConflictFree(D), NoRoleProposals(D),
           NEW K, K = Closure(C), NEW M, M = Closure(D),
           NEW b \in OfKind(D, "binding"), MayBindDeviceTo(K, b.issuer, b.user)
    PROVE  IsCertifiedDevice(M, b.device) /\ M.user[b.device] = b.user
<1>1. Grown(K, M)
  BY HeldGrows
<1>2. CASE IsCertifiedDevice(K, b.issuer) /\ K.user[b.issuer] = b.user
  <2>1. b.issuer \in DOMAIN M.user /\ M.user[b.issuer] = b.user
    BY <1>1, <1>2, UsersStay DEF IsCertifiedDevice
  <2> QED BY <2>1, BindingCertifies DEF Held, IsCertifiedDevice
<1>3. CASE MayAdminister(K, b.issuer)
  <2>1. NoRoleProposals(C) /\ IsStorable(C)
    BY PartsConflictFree DEF Held
  <2>2. b.issuer \in DOMAIN K.user /\ K.user[b.issuer] \in K.admin
    BY <1>3, <2>1, Appointed
  <2>3. b.issuer \in DOMAIN M.user /\ M.user[b.issuer] \in M.admin
    BY <1>1, <2>2 DEF Grown
  <2> QED BY <2>3, BindingCertifies DEF Held, IsCertifiedDevice
<1> QED BY <1>2, <1>3 DEF MayBindDeviceTo

-----------------------------------------------------------------------------
(***************************************************************************)
(* The threshold binds the group.                                          *)
(***************************************************************************)

(* A removal is of the same user, or decided by the quorum. *)
Honoured(C, K, o) ==
    o.kind = "remove" /\ Threshold > 1 =>
        \/ IsExecutedAction(C, K.executed, RemoveAction(o.member))
        \/ /\ IsCertifiedDevice(K, o.member)
           /\ IsCertifiedDevice(K, o.issuer)
           /\ K.user[o.issuer] = K.user[o.member]

OwnCertified == \A d \in live : IsCertifiedDevice(caps[d], d)
AllHonoured == \A d \in live : \A o \in log[d] : Honoured(certs[d], caps[d], o)
QuorumInv == ConflictFree(AllCerts) => OwnCertified /\ AllHonoured

LEMMA HonouredStays ==
    ASSUME NEW C, NEW D, C \subseteq D, NEW K, NEW M, Grown(K, M), NEW o, Honoured(C, K, o)
    PROVE  Honoured(D, M, o)
<1>1. ASSUME IsExecutedAction(C, K.executed, RemoveAction(o.member))
      PROVE  IsExecutedAction(D, M.executed, RemoveAction(o.member))
  BY <1>1, ExecutedStays
<1>2. ASSUME IsCertifiedDevice(K, o.member), IsCertifiedDevice(K, o.issuer),
             K.user[o.issuer] = K.user[o.member]
      PROVE  /\ IsCertifiedDevice(M, o.member) /\ IsCertifiedDevice(M, o.issuer)
             /\ M.user[o.issuer] = M.user[o.member]
  BY <1>2, UsersStay
<1> QED BY <1>1, <1>2 DEF Honoured

LEMMA AuthorizedHonoured ==
    ASSUME NEW C, NEW K, K.threshold = Threshold, NEW o, Authorized(C, K, o)
    PROVE  Honoured(C, K, o)
<1>1. SUFFICES ASSUME o.kind = "remove", Threshold > 1
               PROVE  Honoured(C, K, o)
  BY DEF Honoured
<1>2. ~(K.threshold <= 1)
  BY <1>1, ThresholdAssumption
<1> QED BY <1>1, <1>2 DEF Authorized, Honoured

LEMMA QuorumStep ==
    ASSUME Inv, Inv', CertInv, Explains, QuorumInv
    PROVE  QuorumInv'
<1> SUFFICES ASSUME ConflictFree(AllCerts')
             PROVE  OwnCertified' /\ AllHonoured'
  BY DEF QuorumInv, ConflictFree, OfKind, Binding
<1>1. CertInv' /\ CertsGrow
  BY DEF Explains
<1>2. ConflictFree(AllCerts)
  BY <1>1, PartsConflictFree DEF CertsGrow
<1>3. ASSUME NEW d \in live'
      PROVE  Held(certs'[d]) /\ caps'[d] = Closure(certs'[d]) /\ ConflictFree(certs'[d])
  BY <1>1, NextStoresHeld, PartsConflictFree
<1>4. ASSUME NEW d \in live
      PROVE  d \in live' /\ certs[d] \subseteq certs'[d] /\ Grown(caps[d], caps'[d])
  <2>1. d \in live' /\ certs[d] \subseteq certs'[d]
    BY <1>1 DEF CertsGrow
  <2> QED BY <1>3, <2>1, StoresHeld, HeldGrows
<1>5. ASSUME NEW d \in live'
      PROVE  IsCertifiedDevice(caps'[d], d)
  <2>1. CASE d \in live
    BY <1>2, <1>4, <2>1, UsersStay DEF QuorumInv, OwnCertified
  <2>2. CASE d \notin live
    BY <2>2 DEF Explains
  <2> QED BY <2>1, <2>2
<1>6. ASSUME NEW d \in live', NEW o \in log'[d]
      PROVE  Honoured(certs'[d], caps'[d], o)
  <2>1. PICK D, M : D = certs'[d] /\ M = caps'[d]
    OBVIOUS
  <2>2. M.threshold = Threshold
    <3>1. Held(D) /\ M = Closure(D) /\ D \subseteq D /\ ConflictFree(D)
      BY <1>3, <2>1
    <3> QED BY <3>1, HeldGrows
  <2>3. CASE d \in live /\ o \in log[d]
    BY <1>2, <1>4, <2>3, HonouredStays DEF QuorumInv, AllHonoured
  <2>4. CASE Authorized(D, M, o)
    BY <2>1, <2>2, <2>4, AuthorizedHonoured
  <2>5. CASE IsExecutedAction(D, M.executed, RemoveAction(o.member))
    BY <2>1, <2>5 DEF Honoured
  <2>6. CASE o.kind = "add"
    BY <2>6 DEF Honoured
  <2>7. (d \in live /\ o \in log[d]) \/ Reason(d, o)
    BY DEF Explains
  <2>8. IsCertifiedDevice(M, d)
    BY <1>5, <2>1
  <2> QED BY <2>1, <2>3, <2>4, <2>5, <2>6, <2>7, <2>8 DEF Reason
<1>7. OwnCertified'
  BY <1>5 DEF OwnCertified, IsCertifiedDevice
<1>8. AllHonoured'
  BY <1>6 DEF AllHonoured, Honoured, IsExecutedAction, OfKind, RemoveAction, IsCertifiedDevice
<1> QED BY <1>7, <1>8

(* Each of the first members holds the binding the founder signed. *)
LEMMA FirstMembersCertified ==
    ASSUME ConflictFree(FirstCerts), NEW K, K = Closure(FirstCerts), NEW m \in FirstMembers
    PROVE  IsCertifiedDevice(K, m) /\ Held(FirstCerts) /\ K.user[m] = m
<1>1. Held(FirstCerts)
  BY FirstCertsStorable DEF Held
<1>2. Founder \in DOMAIN K.user /\ K.user[Founder] = Founder /\ Founder \in K.admin
  BY <1>1, ClosureTypes DEF Held
<1>3. CASE m = Founder
  BY <1>1, <1>2, <1>3 DEF IsCertifiedDevice
<1>4. CASE m \in Admitted
  <2>1. PICK b : b = Binding(Founder, m, m, FounderDigest + m)
    OBVIOUS
  <2>2. b.kind = "binding" /\ b.issuer = Founder /\ b.device = m /\ b.user = m
    BY <2>1 DEF Binding
  <2>3. b \in AdmissionCerts(m)
    BY <2>1 DEF AdmissionCerts
  <2>4. b \in OfKind(FirstCerts, "binding")
    BY <1>4, <2>2, <2>3, FirstCertsStorable DEF OfKind
  <2>5. b.device \in DOMAIN K.user /\ K.user[b.device] = b.user
    BY <1>1, <1>2, <2>2, <2>4, BindingCertifies DEF Held
  <2> QED BY <1>1, <2>2, <2>5 DEF IsCertifiedDevice
<1> QED BY <1>3, <1>4 DEF FirstMembers

(* At the start every device holds and believes the same. *)
LEMMA InitStores ==
    ASSUME Init
    PROVE  /\ live = FirstMembers /\ AllCerts = FirstCerts /\ invites = {}
           /\ \A d \in live : /\ certs[d] = FirstCerts /\ caps[d] = Closure(FirstCerts)
                              /\ log[d] = FirstLog
<1>1. FirstMembers \subseteq Member /\ FirstMembers # {}
  BY AdmittedAssumption, FounderAssumption DEF FirstMembers
<1>2. /\ live = FirstMembers /\ invites = {}
      /\ \A d \in live : certs[d] = FirstCerts /\ log[d] = FirstLog
  BY <1>1 DEF Init
<1>3. \A d \in live : caps[d] = Closure(certs[d])
  BY <1>1, <1>2 DEF Init
<1>4. AllCerts = FirstCerts
  BY <1>1, <1>2 DEF AllCerts
<1> QED BY <1>2, <1>3, <1>4

LEMMA InitQuorum == Init => QuorumInv
<1> SUFFICES ASSUME Init, ConflictFree(AllCerts) PROVE OwnCertified /\ AllHonoured
  BY DEF QuorumInv
<1>1. PICK K : K = Closure(FirstCerts)
  OBVIOUS
<1>2. ConflictFree(FirstCerts)
  BY InitStores
<1>3. OwnCertified
  BY <1>1, <1>2, InitStores, FirstMembersCertified DEF OwnCertified
<1>4. \A o \in FirstLog : o.kind = "add"
  BY FirstAddsAre DEF FirstLog, InitAdd, Op
<1>5. AllHonoured
  BY <1>4, InitStores DEF AllHonoured, Honoured
<1> QED BY <1>3, <1>5

-----------------------------------------------------------------------------
(***************************************************************************)
(* Members have owners.                                                    *)
(***************************************************************************)

AddsCertified ==
    \A d \in live : \A o \in log[d] : o.kind = "add" => IsCertifiedDevice(caps[d], o.member)
MemberInv == ConflictFree(AllCerts) /\ NoRoleProposals(AllCerts) => AddsCertified

LEMMA MemberStep ==
    ASSUME Inv, Inv', CertInv, Explains, QuorumInv', MemberInv
    PROVE  MemberInv'
<1> SUFFICES ASSUME ConflictFree(AllCerts'), NoRoleProposals(AllCerts')
             PROVE  AddsCertified'
  BY DEF MemberInv, ConflictFree, NoRoleProposals, OfKind, Binding
<1>1. CertInv' /\ CertsGrow
  BY DEF Explains
<1>2. ConflictFree(AllCerts) /\ NoRoleProposals(AllCerts)
  BY <1>1, PartsConflictFree DEF CertsGrow
<1>3. ASSUME NEW d \in live'
      PROVE  /\ Held(certs'[d]) /\ caps'[d] = Closure(certs'[d])
             /\ ConflictFree(certs'[d]) /\ NoRoleProposals(certs'[d])
  BY <1>1, NextStoresHeld, PartsConflictFree
<1>4. ASSUME NEW d \in live', NEW o \in log'[d], o.kind = "add"
      PROVE  IsCertifiedDevice(caps'[d], o.member)
  <2>1. PICK D, M : D = certs'[d] /\ M = caps'[d]
    OBVIOUS
  <2>2. Held(D) /\ M = Closure(D) /\ ConflictFree(D) /\ NoRoleProposals(D)
    BY <1>3, <2>1
  <2>3. IsCertifiedDevice(M, d)
    BY <2>1 DEF QuorumInv, OwnCertified, ConflictFree, OfKind, Binding, IsCertifiedDevice
  <2>4. PICK C, K : C = certs[d] /\ K = caps[d]
    OBVIOUS
  <2>5. ASSUME d \in live
        PROVE  Held(C) /\ C \subseteq D /\ K = Closure(C)
    BY <1>1, <2>1, <2>4, <2>5, StoresHeld DEF CertsGrow
  <2>6. CASE d \in live /\ o \in log[d]
    <3>1. IsCertifiedDevice(K, o.member)
      BY <1>2, <1>4, <2>4, <2>6 DEF MemberInv, AddsCertified
    <3>2. Grown(K, M)
      BY <2>2, <2>5, <2>6, HeldGrows
    <3> QED BY <2>1, <3>1, <3>2, UsersStay
  <2>7. CASE Authorized(D, M, o)
    BY <1>4, <2>1, <2>7 DEF Authorized
  <2>8. ASSUME d \in live, NEW b \in OfKind(D, "binding"), b.issuer = d, b.device = o.member,
               MayBindDeviceTo(K, d, b.user)
        PROVE  IsCertifiedDevice(M, o.member)
    BY <2>2, <2>5, <2>8, BoundIsCertified
  <2>9. (d \in live /\ o \in log[d]) \/ Reason(d, o)
    BY DEF Explains
  <2>10. ASSUME Reason(d, o)
         PROVE  \/ Authorized(D, M, o)
                \/ /\ d \in live
                   /\ \E b \in OfKind(D, "binding") :
                         b.issuer = d /\ b.device = o.member /\ MayBindDeviceTo(K, d, b.user)
    BY <1>4, <2>1, <2>3, <2>4, <2>10 DEF Reason
  <2> QED BY <2>1, <2>6, <2>7, <2>8, <2>9, <2>10
<1> QED BY <1>4 DEF AddsCertified, IsCertifiedDevice

LEMMA InitMembers == Init => MemberInv
<1> SUFFICES ASSUME Init, ConflictFree(AllCerts) PROVE AddsCertified
  BY DEF MemberInv
<1>1. PICK K : K = Closure(FirstCerts)
  OBVIOUS
<1>2. ConflictFree(FirstCerts)
  BY InitStores
<1>3. \A o \in FirstLog : o.member \in FirstMembers
  BY FirstAddsAre DEF FirstLog, FirstMembers, InitAdd, Op
<1> QED BY <1>1, <1>2, <1>3, InitStores, FirstMembersCertified DEF AddsCertified

-----------------------------------------------------------------------------
(***************************************************************************)
(* A settled group: no device is bound to two users, nobody's role is      *)
(* changed or put to the vote.  There a removal is either authorised or    *)
(* the execution of a decision, and stays so.                              *)
(***************************************************************************)

Settled(C) == ConflictFree(C) /\ NoRoleProposals(C) /\ OneRoleEach(C)

Decided(C, K, o) ==
    o.kind = "remove" /\ IsExecutedAction(C, K.executed, RemoveAction(o.member))
Merited(C, K, o) == Authorized(C, K, o) \/ Decided(C, K, o)

AllMerited ==
    /\ \A d \in live : \A o \in log[d] : Merited(certs[d], caps[d], o)
    /\ \A i \in invites : \A o \in i.log : Merited(i.certs, Closure(i.certs), o)
SettledInv == Settled(AllCerts) => AllMerited

(* What an invite hands over is a log of its own right, with the invitee   *)
(* in it.                                                                  *)
InvitesClosed == \A i \in invites : Closed(i.log) /\ i.to \in Known(i.log)

LEMMA MayBindStays ==
    ASSUME NEW C, NEW D, Held(C), Held(D), C \subseteq D, Settled(D),
           NEW K, K = Closure(C), NEW M, M = Closure(D), NEW x, NEW u, MayBindDeviceTo(K, x, u)
    PROVE  MayBindDeviceTo(M, x, u)
<1>1. Grown(K, M)
  BY HeldGrows DEF Settled
<1>2. CASE IsCertifiedDevice(K, x) /\ K.user[x] = u
  BY <1>1, <1>2, UsersStay DEF MayBindDeviceTo
<1>3. CASE MayAdminister(K, x)
  <2>1. ResolveThreshold(C) = ResolveThreshold(D)
    BY FounderDecides DEF Held
  <2>2. MayAdminister(M, x)
    BY <1>3, <2>1, AdministratorsStay DEF Held, Settled
  <2> QED BY <2>2 DEF MayBindDeviceTo
<1> QED BY <1>2, <1>3 DEF MayBindDeviceTo

LEMMA MeritStays ==
    ASSUME NEW C, NEW D, Held(C), Held(D), C \subseteq D, Settled(D),
           NEW K, K = Closure(C), NEW M, M = Closure(D), NEW o, Merited(C, K, o)
    PROVE  Merited(D, M, o)
<1>1. Grown(K, M) /\ K.threshold = Threshold /\ M.threshold = Threshold
  BY HeldGrows DEF Settled
<1>2. CASE Decided(C, K, o)
  BY <1>1, <1>2, ExecutedStays DEF Decided, Merited
<1>3. CASE Authorized(C, K, o) /\ o.kind = "add"
  <2>1. IsCertifiedDevice(K, o.member) /\ MayBindDeviceTo(K, o.issuer, K.user[o.member])
    BY <1>3 DEF Authorized
  <2>2. IsCertifiedDevice(M, o.member) /\ M.user[o.member] = K.user[o.member]
    BY <1>1, <2>1, UsersStay
  <2>3. MayBindDeviceTo(M, o.issuer, K.user[o.member])
    BY <2>1, MayBindStays
  <2> QED BY <1>3, <2>2, <2>3 DEF Authorized, Merited
<1>4. CASE Authorized(C, K, o) /\ o.kind = "remove"
  <2>1. CASE /\ IsCertifiedDevice(K, o.member) /\ IsCertifiedDevice(K, o.issuer)
             /\ K.user[o.issuer] = K.user[o.member]
    <3>1. /\ IsCertifiedDevice(M, o.member) /\ IsCertifiedDevice(M, o.issuer)
          /\ M.user[o.issuer] = M.user[o.member]
      BY <1>1, <2>1, UsersStay
    <3> QED BY <1>4, <3>1 DEF Authorized, Merited
  <2>2. CASE MayAdminister(K, o.issuer) /\ K.threshold <= 1
    <3>1. ResolveThreshold(C) = ResolveThreshold(D)
      BY FounderDecides DEF Held
    <3>2. MayAdminister(M, o.issuer)
      BY <2>2, <3>1, AdministratorsStay DEF Held, Settled
    <3> QED BY <1>1, <1>4, <2>2, <3>2 DEF Authorized, Merited
  <2>3. CASE IsExecutedAction(C, K.executed, RemoveAction(o.member))
    BY <1>1, <1>4, <2>3, ExecutedStays DEF Decided, Merited
  <2> QED BY <1>4, <2>1, <2>2, <2>3 DEF Authorized
<1>5. CASE o.kind # "add" /\ o.kind # "remove"
  BY <1>5 DEF Authorized, Merited
<1> QED BY <1>2, <1>3, <1>4, <1>5 DEF Merited

LEMMA SettledStep ==
    ASSUME Inv, Inv', CertInv, Explains, QuorumInv', SettledInv
    PROVE  SettledInv'
<1> SUFFICES ASSUME Settled(AllCerts')
             PROVE  AllMerited'
  BY DEF SettledInv, Settled, ConflictFree, NoRoleProposals, OneRoleEach, OfKind, Binding
<1>1. CertInv' /\ CertsGrow
  BY DEF Explains
<1>2. Settled(AllCerts) /\ AllMerited
  BY <1>1, PartsConflictFree DEF CertsGrow, Settled, SettledInv
<1>3. ASSUME NEW d \in live'
      PROVE  Held(certs'[d]) /\ caps'[d] = Closure(certs'[d]) /\ Settled(certs'[d])
  BY <1>1, NextStoresHeld, PartsConflictFree DEF Settled
<1>4. ASSUME NEW d \in live', NEW o \in log'[d]
      PROVE  Merited(certs'[d], caps'[d], o)
  <2>1. PICK D, M : D = certs'[d] /\ M = caps'[d]
    OBVIOUS
  <2>2. Held(D) /\ M = Closure(D) /\ Settled(D)
    BY <1>3, <2>1
  <2>3. IsCertifiedDevice(M, d)
    BY <2>1 DEF QuorumInv, OwnCertified, Settled, ConflictFree, OfKind, Binding, IsCertifiedDevice
  <2>4. PICK C, K : C = certs[d] /\ K = caps[d]
    OBVIOUS
  <2>5. ASSUME d \in live
        PROVE  Held(C) /\ C \subseteq D /\ K = Closure(C)
    BY <1>1, <2>1, <2>4, <2>5, StoresHeld DEF CertsGrow
  <2>6. CASE d \in live /\ o \in log[d]
    <3>1. Merited(C, K, o)
      BY <1>2, <2>4, <2>6 DEF AllMerited
    <3> QED BY <2>1, <2>2, <2>5, <2>6, <3>1, MeritStays
  <2>7. CASE Merited(D, M, o)
    BY <2>1, <2>7
  <2>8. ASSUME d \in live, o.kind = "add", o.issuer = d,
               NEW b \in OfKind(D, "binding"), b.issuer = d, b.device = o.member,
               MayBindDeviceTo(K, d, b.user)
        PROVE  Merited(D, M, o)
    <3>1. IsCertifiedDevice(M, o.member) /\ M.user[o.member] = b.user
      BY <2>2, <2>5, <2>8, BoundIsCertified DEF Settled
    <3>2. MayBindDeviceTo(M, d, b.user)
      BY <2>2, <2>5, <2>8, MayBindStays
    <3> QED BY <2>8, <3>1, <3>2 DEF Authorized, Merited
  <2>9. (d \in live /\ o \in log[d]) \/ Reason(d, o)
    BY DEF Explains
  <2>10. ASSUME Reason(d, o)
         PROVE  \/ Merited(D, M, o)
                \/ /\ d \in live /\ o.kind = "add" /\ o.issuer = d
                   /\ \E b \in OfKind(D, "binding") :
                         b.issuer = d /\ b.device = o.member /\ MayBindDeviceTo(K, d, b.user)
    BY <2>1, <2>3, <2>4, <2>10 DEF Reason, Merited, Decided
  <2> QED BY <2>1, <2>6, <2>7, <2>8, <2>9, <2>10
<1>5. ASSUME NEW i \in invites', NEW o \in i.log
      PROVE  Merited(i.certs, Closure(i.certs), o)
  <2>1. CASE i \in invites
    BY <1>2, <2>1 DEF AllMerited
  <2>2. CASE i \notin invites
    <3>1. PICK d \in live' : i.log = log'[d] /\ i.certs = certs'[d]
      BY <2>2 DEF Explains
    <3> QED BY <1>3, <1>4, <3>1
  <2> QED BY <2>1, <2>2
<1> QED BY <1>4, <1>5 DEF AllMerited

LEMMA InitSettled == Init => SettledInv /\ InvitesClosed
<1> SUFFICES ASSUME Init PROVE SettledInv /\ InvitesClosed
  OBVIOUS
<1>1. InvitesClosed
  BY DEF Init, InvitesClosed
<1>2. ASSUME Settled(AllCerts), NEW d \in live, NEW o \in log[d]
      PROVE  Authorized(certs[d], caps[d], o)
  <2>1. PICK C, K : C = FirstCerts /\ K = Closure(FirstCerts)
    OBVIOUS
  <2>2. certs[d] = C /\ caps[d] = K /\ o \in FirstLog /\ ConflictFree(FirstCerts) /\ IsStorable(C)
    BY <1>2, <2>1, InitStores, FirstCertsStorable DEF Settled
  <2>3. \A m \in FirstMembers : IsCertifiedDevice(K, m) /\ K.user[m] = m
    BY <2>1, <2>2, FirstMembersCertified
  <2>4. CASE o = InitAdd
    BY <2>1, <2>2, <2>4, FoundingAuthorized
  <2>5. CASE o \in FirstAdds
    <3>1. PICK m \in Admitted : o.kind = "add" /\ o.issuer = Founder /\ o.member = m
      BY <2>5, FirstAddsAre
    <3>2. IsCertifiedDevice(K, m) /\ K.user[m] = m /\ IsCertifiedDevice(K, Founder)
      BY <2>3 DEF FirstMembers
    <3>3. MayAdminister(K, Founder)
      BY <1>2, <2>1, <2>2, InitStores, FounderAdministers DEF Settled
    <3>4. Authorized(C, K, o)
      BY <3>1, <3>2, <3>3 DEF Authorized, MayBindDeviceTo
    <3> QED BY <2>2, <3>4
  <2> QED BY <2>2, <2>4, <2>5 DEF FirstLog
<1>3. SettledInv
  BY <1>2, InitStores DEF SettledInv, AllMerited, Merited
<1> QED BY <1>1, <1>3

LEMMA InvitesStep ==
    ASSUME Inv, Inv', Explains, InvitesClosed
    PROVE  InvitesClosed'
<1>1. ASSUME NEW i \in invites'
      PROVE  Closed(i.log) /\ i.to \in Known(i.log)
  <2>1. CASE i \in invites
    BY <2>1 DEF InvitesClosed
  <2>2. CASE i \notin invites
    <3>1. PICK d \in live' : i.log = log'[d] /\ i.to \in Known(i.log)
      BY <2>2 DEF Explains
    <3>2. PICK L : L = log'[d]
      OBVIOUS
    <3>3. \A o \in L : HasPredecessors(L, o) /\ o.issuer \in Known(L)
      BY <3>2 DEF Inv, CausallyClosed, HasPredecessors, Ids, Known
    <3> QED BY <3>1, <3>2, <3>3 DEF Closed
  <2> QED BY <2>1, <2>2
<1> QED BY <1>1 DEF InvitesClosed, Closed, HasPredecessors, Ids, Known

(* The whole inductive invariant. *)
FullInv == Inv /\ CertInv /\ QuorumInv /\ MemberInv /\ SettledInv /\ InvitesClosed

LEMMA FullInvariance == Spec => []FullInv
<1>1. Init => FullInv
  BY InitInv, InitCerts, InitQuorum, InitMembers, InitSettled DEF FullInv
<1>2. FullInv /\ [Next]_vars => FullInv'
  <2> SUFFICES ASSUME FullInv, [Next]_vars PROVE FullInv'
    OBVIOUS
  <2>1. Inv /\ CertInv /\ QuorumInv /\ MemberInv /\ SettledInv /\ InvitesClosed
    BY DEF FullInv
  <2>2. Inv'
    BY <2>1, NextInv
  <2>3. Explains
    BY <2>1, NextExplains
  <2>4. CertInv'
    BY <2>3 DEF Explains
  <2>5. QuorumInv'
    BY <2>1, <2>2, <2>3, QuorumStep
  <2>6. MemberInv' /\ SettledInv' /\ InvitesClosed'
    BY <2>1, <2>2, <2>3, <2>5, MemberStep, SettledStep, InvitesStep
  <2> QED BY <2>2, <2>4, <2>5, <2>6 DEF FullInv
<1> QED BY <1>1, <1>2, PTL DEF Spec

(* For any members and any threshold, and whatever is lost, delayed or     *)
(* heard twice: wherever a device of another user was removed, the quorum  *)
(* the founder decided on had decided it, as far as no device is bound to  *)
(* two users.  It is authorize and require_quorum, which every path into a *)
(* log goes through, and the closure, which never takes a decision back.   *)
THEOREM QuorumBinds == Spec => [](ConflictFree(AllCerts) => QuorumHonoured)
<1>1. FullInv => (ConflictFree(AllCerts) => QuorumHonoured)
  <2> SUFFICES ASSUME FullInv, ConflictFree(AllCerts) PROVE QuorumHonoured
    OBVIOUS
  <2>1. AllHonoured
    BY DEF FullInv, QuorumInv
  <2> QED BY <2>1 DEF AllHonoured, Honoured, QuorumHonoured
<1> QED BY <1>1, FullInvariance, PTL

(* Whoever a device counts as a member it can name the owner of, as far as *)
(* no device is bound to two users and no role was put to the vote.        *)
THEOREM MembersHaveOwners ==
    Spec => [](ConflictFree(AllCerts) /\ NoRoleProposals(AllCerts) => MembersCertified)
<1>1. FullInv => (ConflictFree(AllCerts) /\ NoRoleProposals(AllCerts) => MembersCertified)
  <2> SUFFICES ASSUME FullInv, ConflictFree(AllCerts), NoRoleProposals(AllCerts)
               PROVE  MembersCertified
    OBVIOUS
  <2>1. AddsCertified
    BY DEF FullInv, MemberInv
  <2> QED BY <2>1 DEF AddsCertified, MembersCertified, Known
<1> QED BY <1>1, FullInvariance, PTL

(* Every removal decided by a quorum, in a log and in an invite, was       *)
(* signed by a device that may administer.                                 *)
RemovedByAdmins ==
    \A d \in live : \A o \in log[d] :
        Decided(certs[d], caps[d], o) => MayAdminister(caps[d], o.issuer)
InvitedByAdmins ==
    \A i \in invites : \A o \in i.log :
        Decided(i.certs, Closure(i.certs), o) => MayAdminister(Closure(i.certs), o.issuer)

(* A decision an administrator carries out is authorised. *)
LEMMA DecidedAuthorized ==
    ASSUME NEW C, NEW K, NEW o, Merited(C, K, o),
           Decided(C, K, o) => MayAdminister(K, o.issuer)
    PROVE  Authorized(C, K, o)
  BY DEF Merited, Decided, Authorized

(* The invitee of a settled group is never turned away by the history it   *)
(* is handed, provided that only administrators carried out decisions:     *)
(* admit and build_invite hand over what join then replays.                *)
THEOREM SettledInvitesRedeemable ==
    Spec => [](Settled(AllCerts) /\ InvitedByAdmins => InvitesRedeemable)
<1>1. FullInv => (Settled(AllCerts) /\ InvitedByAdmins => InvitesRedeemable)
  <2> SUFFICES ASSUME FullInv, Settled(AllCerts), InvitedByAdmins PROVE InvitesRedeemable
    OBVIOUS
  <2>1. ASSUME NEW i \in invites
        PROVE  Redeemable(i)
    <3>1. PICK C, K : C = i.certs /\ K = Closure(i.certs)
      OBVIOUS
    <3>2. Closed(i.log) /\ i.to \in Known(i.log)
      BY DEF FullInv, InvitesClosed
    <3>3. ASSUME NEW o \in i.log
          PROVE  Acceptable(C, K, i.log, o)
      <4>1. Merited(C, K, o) /\ (Decided(C, K, o) => MayAdminister(K, o.issuer))
        BY <3>1 DEF FullInv, SettledInv, AllMerited, InvitedByAdmins
      <4>2. Authorized(C, K, o)
        BY <4>1, DecidedAuthorized
      <4> QED BY <3>2, <4>2 DEF Acceptable, Closed
    <3> QED BY <3>1, <3>2, <3>3 DEF Redeemable
  <2> QED BY <2>1 DEF InvitesRedeemable
<1> QED BY <1>1, FullInvariance, PTL

(* A settled group does not split for good: what one device has merged,    *)
(* another with the same certificates would merge too, provided that only  *)
(* administrators carried out decisions.  merge_verified asks for nothing  *)
(* that depends on the order in which operations arrive.                   *)
THEOREM SettledGroupIsWhole ==
    Spec => [](Settled(AllCerts) /\ RemovedByAdmins => NoPermanentSplit)
<1>1. FullInv => (Settled(AllCerts) /\ RemovedByAdmins => NoPermanentSplit)
  <2> SUFFICES ASSUME FullInv, Settled(AllCerts), RemovedByAdmins,
                      NEW d \in live, NEW e \in live, certs[d] = certs[e],
                      NEW o \in log[d] \ log[e], HasPredecessors(log[e], o)
               PROVE  Acceptable(certs[e], caps[e], log[e], o)
    BY DEF NoPermanentSplit
  <2>1. caps[d] = caps[e]
    BY StoresHeld DEF FullInv
  <2>2. PICK C, K : C = certs[d] /\ K = caps[d]
    OBVIOUS
  <2>3. Merited(C, K, o) /\ (Decided(C, K, o) => MayAdminister(K, o.issuer))
    BY <2>2 DEF FullInv, SettledInv, AllMerited, RemovedByAdmins
  <2>4. Authorized(C, K, o)
    BY <2>3, DecidedAuthorized
  <2>5. /\ log[d] \subseteq Existing /\ log[e] \subseteq Existing /\ InitAdd \in log[e]
        /\ \A q, r \in Existing : q.id = r.id => q = r
    BY DEF FullInv, Inv, TypeOK, Traced
  <2>6. o \in Existing \ {InitAdd}
    BY <2>5
  <2>7. PICK a \in Existing : a.kind = "add" /\ a.member = o.issuer /\ a.id \in o.past
    BY <2>6 DEF FullInv, Inv, Traced
  <2>8. PICK r \in log[e] : r.id = a.id
    BY <2>7 DEF HasPredecessors, Ids
  <2>9. r = a
    BY <2>5, <2>8
  <2>10. o.issuer \in Known(log[e])
    BY <2>7, <2>8, <2>9 DEF Known
  <2> QED BY <2>1, <2>2, <2>4, <2>10 DEF Acceptable
<1> QED BY <1>1, FullInvariance, PTL
=============================================================================
