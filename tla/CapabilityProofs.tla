-------------------------- MODULE CapabilityProofs ---------------------------
(***************************************************************************)
(* The certificates and the log of a group, each by itself.                *)
(*                                                                         *)
(* For any members, certificates and digests: the loop of recompute ends,  *)
(* and what it derives is what the least self-justifying set of            *)
(* certificates says; from this, that admission is monotone and that only  *)
(* the founder bootstraps a workspace with a threshold.                    *)
(*                                                                         *)
(* For any members, threshold and instance, whatever the certificates      *)
(* decide: the types of Group, that a merged log is causally closed, and   *)
(* that no parked operation misses its wake-up.  What merge_pending        *)
(* applies is defined as an intersection (Drained), so none of this needs  *)
(* an induction over the queue.                                            *)
(***************************************************************************)
EXTENDS CapabilityStore, Group, FiniteSetTheorems, TLAPS

(* Most leaves are first-order: Zenon is tried first, SMT for the rest. *)
USE ZenonT(4), SMTT(15)

-----------------------------------------------------------------------------
(* Induction over the numbers, with a set for the property.                *)

LEMMA MinimalIn ==
    ASSUME NEW R, IsWellFoundedOn(R, Nat), NEW T, T \subseteq Nat, T # {}
    PROVE  \E x \in T : \A y \in T : ~(<<y, x>> \in R)
<1>1. ASSUME NEW S, IsWellFoundedOn(R, S), T \subseteq S, T # {}
      PROVE  \E x \in T : \A y \in T : ~(<<y, x>> \in R)
  BY <1>1, WFMin
<1> QED BY <1>1

LEMMA Induction ==
    ASSUME NEW P, 0 \in P, \A n \in Nat : n \in P => n + 1 \in P
    PROVE  \A n \in Nat : n \in P
<1> SUFFICES ASSUME NEW k \in Nat, k \notin P PROVE FALSE
  OBVIOUS
<1> DEFINE R == OpToRel(<, Nat)
           T == {n \in Nat : n \notin P}
<1>1. \A x, y \in Nat : x < y => <<x, y>> \in R
  BY Zenon DEF OpToRel
<1>2. IsWellFoundedOn(R, Nat)
  BY NatLessThanWellFounded
<1>3. T \subseteq Nat /\ T # {}
  OBVIOUS
<1> HIDE DEF R, T
<1>4. PICK x \in T : \A y \in T : ~(<<y, x>> \in R)
  BY <1>2, <1>3, MinimalIn
<1>5. x \in Nat /\ x \notin P /\ x # 0
  BY <1>4 DEF T
<1>6. x - 1 \in Nat /\ (x - 1) + 1 = x /\ x - 1 < x
  BY <1>5
<1>7. x - 1 \notin P
  BY <1>5, <1>6
<1>8. x - 1 \in T
  BY <1>6, <1>7 DEF T
<1> QED BY <1>1, <1>4, <1>5, <1>6, <1>8

(* Induction up to a bound. *)
LEMMA InductionUpTo ==
    ASSUME NEW N \in Nat, NEW P, 0 \in P, \A n \in 1..N : n - 1 \in P => n \in P
    PROVE  \A n \in 0..N : n \in P
<1> DEFINE Q == {n \in Nat : n <= N => n \in P}
<1>1. 0 \in Q
  OBVIOUS
<1>2. ASSUME NEW n \in Nat, n \in Q
      PROVE  n + 1 \in Q
  <2>1. CASE n + 1 <= N
    <3>1. n + 1 \in 1..N /\ (n + 1) - 1 = n /\ n \in P
      BY <1>2, <2>1
    <3>2. n + 1 \in P
      BY <3>1
    <3> QED BY <3>2
  <2> QED BY <2>1
<1> HIDE DEF Q
<1>3. \A n \in Nat : n \in Q
  BY <1>1, <1>2, Induction
<1> QED BY <1>3 DEF Q

(* f starts with x0, and G makes each of its values from the one before. *)
Iterates(f, N, X, x0, G) ==
    f \in [0..N -> X] /\ f[0] = x0 /\ \A n \in 1..N : f[n] = G[<<n, f[n - 1]>>]

(* A function that is defined step by step exists. *)
LEMMA Recursion ==
    ASSUME NEW N \in Nat, NEW X, NEW x0 \in X, NEW G \in [(1..N) \X X -> X]
    PROVE  \E f : Iterates(f, N, X, x0, G)
<1>0. \A n \in 1..N, x \in X : G[<<n, x>>] \in X
  OBVIOUS
<1> DEFINE Runs(k, f) == f[0] = x0 /\ \A n \in 1..k : f[n] = G[<<n, f[n - 1]>>]
           P == {k \in 0..N : \E f \in [0..k -> X] : Runs(k, f)}
<1>1. 0 \in P
  <2> DEFINE f == [n \in 0..0 |-> x0]
  <2>1. f \in [0..0 -> X] /\ f[0] = x0
    OBVIOUS
  <2>2. Runs(0, f)
    BY <2>1
  <2> HIDE DEF f, Runs
  <2> QED BY <2>1, <2>2
<1>2. ASSUME NEW k \in 1..N, k - 1 \in P
      PROVE  k \in P
  <2>1. PICK f \in [0..(k - 1) -> X] : Runs(k - 1, f)
    BY <1>2
  <2> DEFINE g == [n \in 0..k |-> IF n = k THEN G[<<k, f[k - 1]>>] ELSE f[n]]
  <2>2. k - 1 \in 0..(k - 1) /\ f[k - 1] \in X
    BY <2>1
  <2>3. G[<<k, f[k - 1]>>] \in X
    BY <1>0, <2>2
  <2>4. g \in [0..k -> X]
    BY <2>1, <2>3
  <2>5. g[0] = x0
    BY <2>1
  <2>6. ASSUME NEW n \in 1..k
        PROVE  g[n] = G[<<n, g[n - 1]>>]
    <3>1. g[n - 1] = f[n - 1]
      OBVIOUS
    <3>2. CASE n = k
      <4>1. g[n] = G[<<k, f[k - 1]>>]
        BY <3>2
      <4> HIDE DEF g
      <4> QED BY <3>1, <3>2, <4>1
    <3>3. CASE n # k
      <4>1. n \in 1..(k - 1) /\ g[n] = f[n]
        BY <3>3
      <4>2. f[n] = G[<<n, f[n - 1]>>]
        BY <2>1, <4>1
      <4> QED BY <3>1, <4>1, <4>2
    <3> QED BY <3>2, <3>3
  <2>7. Runs(k, g)
    BY <2>5, <2>6
  <2> HIDE DEF g, Runs
  <2> QED BY <2>4, <2>7
<1>3. N \in P
  <2> HIDE DEF P
  <2> QED BY <1>1, <1>2, InductionUpTo
<1>4. PICK f \in [0..N -> X] : Runs(N, f)
  BY <1>3
<1>5. Iterates(f, N, X, x0, G)
  BY <1>4 DEF Iterates
<1> QED BY <1>5

(* A finite set of numbers has a greatest. *)
LEMMA GreatestOfFinite ==
    ASSUME NEW S, IsFiniteSet(S), S \subseteq Nat, S # {}
    PROVE  \E m \in S : \A n \in S : n <= m
<1> DEFINE HasMax(U) == U # {} => \E m \in U : \A n \in U : n <= m
           P == {k \in Nat : \A U \in SUBSET S : Cardinality(U) = k => HasMax(U)}
<1>1. \A U \in SUBSET S : IsFiniteSet(U) /\ Cardinality(U) \in Nat
  BY FS_Subset, FS_CardinalityType
<1>2. 0 \in P
  BY <1>1, FS_EmptySet
<1>3. ASSUME NEW k \in Nat, k \in P
      PROVE  k + 1 \in P
  <2> SUFFICES ASSUME NEW U \in SUBSET S, Cardinality(U) = k + 1, U # {}
               PROVE  \E m \in U : \A n \in U : n <= m
    OBVIOUS
  <2>1. PICK x \in U : TRUE
    OBVIOUS
  <2> DEFINE V == U \ {x}
  <2>2. Cardinality(V) = k
    BY <1>1, <2>1, FS_RemoveElement
  <2>3. HasMax(V)
    BY <1>3, <2>2
  <2>4. CASE V = {}
    BY <2>1, <2>4
  <2>5. CASE V # {}
    <3>1. PICK m \in V : \A n \in V : n <= m
      BY <2>3, <2>5
    <3>2. m \in Nat /\ x \in Nat /\ \A n \in U : n \in Nat /\ (n = x \/ n \in V)
      BY <2>1, <3>1
    <3>3. CASE m <= x
      BY <2>1, <3>1, <3>2, <3>3
    <3>4. CASE x <= m
      BY <2>1, <3>1, <3>2, <3>4
    <3> QED BY <3>2, <3>3, <3>4
  <2> QED BY <2>4, <2>5
<1>4. Cardinality(S) \in P
  <2> HIDE DEF P
  <2> QED BY <1>1, <1>2, <1>3, Induction
<1> QED BY <1>4

(* A set of at least k elements has a subset of k. *)
LEMMA SubsetOfSize ==
    ASSUME NEW S, IsFiniteSet(S), NEW k \in Nat, k <= Cardinality(S)
    PROVE  \E U \in SUBSET S : Cardinality(U) = k
<1> DEFINE P == {j \in Nat : j <= Cardinality(S) => \E U \in SUBSET S : Cardinality(U) = j}
<1>1. Cardinality(S) \in Nat
  BY FS_CardinalityType
<1>2. 0 \in P
  BY FS_EmptySet
<1>3. ASSUME NEW j \in Nat, j \in P
      PROVE  j + 1 \in P
  <2> SUFFICES ASSUME j + 1 <= Cardinality(S)
               PROVE  \E U \in SUBSET S : Cardinality(U) = j + 1
    OBVIOUS
  <2>1. PICK U \in SUBSET S : Cardinality(U) = j
    BY <1>1, <1>3
  <2>2. IsFiniteSet(U) /\ U # S
    BY <1>1, <2>1, FS_Subset
  <2>3. PICK x \in S : x \notin U
    BY <2>2
  <2>4. Cardinality(U \cup {x}) = j + 1
    BY <2>1, <2>2, <2>3, FS_AddElement
  <2> QED BY <2>3, <2>4
<1>4. k \in P
  <2> HIDE DEF P
  <2> QED BY <1>2, <1>3, Induction
<1> QED BY <1>4

-----------------------------------------------------------------------------
(* The states of the loop, and their order.                                *)

UserMap == UNION {[D -> Member] : D \in SUBSET Member}
LoopState == [user : UserMap, admin : SUBSET Member, executed : SUBSET Digest]

(* Nothing that s says is taken back in t. *)
Extends(s, t) ==
    /\ DOMAIN s.user \subseteq DOMAIN t.user
    /\ \A d \in DOMAIN s.user : t.user[d] = s.user[d]
    /\ s.admin \subseteq t.admin /\ s.executed \subseteq t.executed

ClaimKind == {"binding", "proposal", "grant"}

LEMMA UserMaps ==
    /\ \A u \in UserMap : DOMAIN u \subseteq Member /\ u \in [DOMAIN u -> Member]
    /\ \A D \in SUBSET Member : [D -> Member] \subseteq UserMap
BY DEF UserMap

LEMMA LoopStates ==
    ASSUME NEW st \in LoopState
    PROVE  /\ DOMAIN st.user \subseteq Member /\ st.user \in [DOMAIN st.user -> Member]
           /\ \A d \in DOMAIN st.user : st.user[d] \in Member
           /\ st.admin \subseteq Member /\ st.executed \subseteq Digest
<1>1. st.user \in UserMap
  BY DEF LoopState
<1>2. DOMAIN st.user \subseteq Member /\ st.user \in [DOMAIN st.user -> Member]
  BY <1>1, UserMaps
<1> QED BY <1>2 DEF LoopState

LEMMA ExtendsOrder ==
    /\ \A s \in LoopState : Extends(s, s)
    /\ \A s, t, u \in LoopState : Extends(s, t) /\ Extends(t, u) => Extends(s, u)
    /\ \A s, t \in LoopState : Extends(s, t) /\ Extends(t, s) => s = t
<1>1. \A s \in LoopState : Extends(s, s)
  BY DEF Extends
<1>2. \A s, t, u \in LoopState : Extends(s, t) /\ Extends(t, u) => Extends(s, u)
  BY DEF Extends
<1>3. ASSUME NEW s \in LoopState, NEW t \in LoopState, Extends(s, t), Extends(t, s)
      PROVE  s = t
  <2>1. s.user = t.user
    <3>1. DOMAIN s.user = DOMAIN t.user /\ \A d \in DOMAIN s.user : s.user[d] = t.user[d]
      BY <1>3 DEF Extends
    <3>2. s.user \in [DOMAIN s.user -> Member] /\ t.user \in [DOMAIN t.user -> Member]
      BY LoopStates
    <3> QED BY <3>1, <3>2
  <2>2. s.admin = t.admin /\ s.executed = t.executed
    BY <1>3 DEF Extends
  <2> QED BY <2>1, <2>2 DEF LoopState
<1> QED BY <1>1, <1>2, <1>3

LEMMA CertificateFields ==
    ASSUME NEW c \in Certificate
    PROVE  /\ c.issuer \in Member /\ c.digest \in Digest
           /\ c.kind = "binding" => c.device \in Member /\ c.user \in Member
           /\ c.kind = "grant" => c.subject \in Member /\ c.capability \in Role /\ c.seq \in Nat
           /\ c.kind = "proposal" => c.action \in AdminAction /\ c.seq \in Nat
           /\ c.kind = "policy" => c.threshold \in Nat
BY DEF Certificate

(* An admission gives a state of the loop, and takes nothing back. *)
LEMMA AdmitExtends ==
    ASSUME NEW C, NEW threshold, NEW st \in LoopState, NEW c \in Certificate, c.kind \in ClaimKind
    PROVE  /\ AdmitCertificate(C, threshold, st, c) \in LoopState
           /\ Extends(st, AdmitCertificate(C, threshold, st, c))
<1>1. Extends(st, st)
  BY ExtendsOrder
<1>2. CASE c.kind = "binding"
  <2> DEFINE u == [d \in DOMAIN st.user \union {c.device} |->
                     IF d = c.device THEN c.user ELSE st.user[d]]
  <2>1. AdmitCertificate(C, threshold, st, c) = AdmitBinding(st, c)
    BY <1>2 DEF AdmitCertificate
  <2>2. CASE AdmitBinding(st, c) = st
    BY <1>1, <2>1, <2>2
  <2>3. CASE c.device \notin DOMAIN st.user /\ AdmitBinding(st, c) = [st EXCEPT !.user = u]
    <3>1. c.device \in Member /\ c.user \in Member
      BY <1>2, CertificateFields
    <3>2. DOMAIN u \in SUBSET Member /\ u \in [DOMAIN u -> Member]
      BY <3>1, LoopStates
    <3>3. u \in UserMap
      <4> HIDE DEF u
      <4> QED BY <3>2, UserMaps
    <3>4. \A d \in DOMAIN st.user : d \in DOMAIN u /\ u[d] = st.user[d]
      BY <2>3
    <3> HIDE DEF u
    <3>5. [st EXCEPT !.user = u] \in LoopState /\ Extends(st, [st EXCEPT !.user = u])
      BY <3>3, <3>4 DEF LoopState, Extends
    <3> QED BY <2>1, <2>3, <3>5
  <2> QED BY <2>2, <2>3 DEF AdmitBinding
<1>3. CASE c.kind = "proposal"
  <2>1. AdmitCertificate(C, threshold, st, c) = ExecuteProposal(C, threshold, st, c)
    BY <1>3 DEF AdmitCertificate
  <2>2. c.digest \in Digest
    BY CertificateFields
  <2>3. [st EXCEPT !.executed = @ \union {c.digest}] \in LoopState
    BY <2>2 DEF LoopState
  <2>4. Extends(st, [st EXCEPT !.executed = @ \union {c.digest}])
    BY DEF LoopState, Extends
  <2> QED BY <1>1, <2>1, <2>3, <2>4 DEF ExecuteProposal
<1>4. CASE c.kind = "grant"
  <2>1. AdmitCertificate(C, threshold, st, c) = AdmitGrant(C, threshold, st, c)
    BY <1>4 DEF AdmitCertificate
  <2>2. c.subject \in Member
    BY <1>4, CertificateFields
  <2>3. [st EXCEPT !.admin = @ \union {c.subject}] \in LoopState
    BY <2>2 DEF LoopState
  <2>4. Extends(st, [st EXCEPT !.admin = @ \union {c.subject}])
    BY DEF LoopState, Extends
  <2> QED BY <1>1, <2>1, <2>3, <2>4 DEF AdmitGrant
<1> QED BY <1>2, <1>3, <1>4 DEF ClaimKind

-----------------------------------------------------------------------------
(* One loop over the certificates of a kind.                               *)

(* Digest order visits every certificate, and nothing else. *)
LEMMA DigestOrder ==
    ASSUME NEW S, IsFiniteSet(S), \A c \in S : c.digest \in Nat,
           \A c, d \in S : c.digest = d.digest => c = d
    PROVE  /\ Cardinality(S) \in Nat
           /\ \A n \in 1..Cardinality(S) : NthByDigest(S, n) \in S
           /\ \A c \in S : \E n \in 1..Cardinality(S) : NthByDigest(S, n) = c
<1> DEFINE UpTo(c) == {d \in S : d.digest <= c.digest}
           N == Cardinality(S)
           rank == [c \in S |-> Cardinality(UpTo(c))]
<1>1. N \in Nat
  BY FS_CardinalityType
<1>2. \A c \in S : IsFiniteSet(UpTo(c)) /\ Cardinality(UpTo(c)) \in 1..N
  <2>1. SUFFICES ASSUME NEW c \in S
                 PROVE  IsFiniteSet(UpTo(c)) /\ Cardinality(UpTo(c)) \in 1..N
    OBVIOUS
  <2>2. UpTo(c) \in SUBSET S /\ c \in UpTo(c)
    OBVIOUS
  <2> HIDE DEF UpTo
  <2>3. IsFiniteSet(UpTo(c)) /\ Cardinality(UpTo(c)) <= N
    BY <2>2, FS_Subset
  <2>4. Cardinality(UpTo(c)) \in Nat /\ Cardinality(UpTo(c)) # 0
    BY <2>2, <2>3, FS_CardinalityType, FS_EmptySet
  <2> QED BY <1>1, <2>3, <2>4
<1>3. ASSUME NEW c \in S, NEW d \in S, Cardinality(UpTo(c)) = Cardinality(UpTo(d)), c.digest <= d.digest
      PROVE  c = d
  <2>1. UpTo(c) \in SUBSET UpTo(d) /\ d \in UpTo(d)
    BY <1>3
  <2>2. UpTo(c) = UpTo(d)
    <3> HIDE DEF UpTo
    <3> QED BY <1>2, <1>3, <2>1, FS_Subset
  <2>3. d.digest <= c.digest
    BY <2>1, <2>2
  <2>4. c.digest = d.digest
    BY <1>3, <2>3
  <2> QED BY <2>4
<1>4. \A c, d \in S : Cardinality(UpTo(c)) = Cardinality(UpTo(d)) => c = d
  <2> SUFFICES ASSUME NEW c \in S, NEW d \in S, Cardinality(UpTo(c)) = Cardinality(UpTo(d))
               PROVE  c = d
    OBVIOUS
  <2>1. c.digest <= d.digest \/ d.digest <= c.digest
    OBVIOUS
  <2> QED BY <1>3, <2>1
<1>5. rank \in Injection(S, 1..N)
  <2>1. rank \in [S -> 1..N]
    BY <1>2
  <2>2. \A c, d \in S : rank[c] = rank[d] => c = d
    BY <1>4
  <2> QED BY <2>1, <2>2 DEF Injection, IsInjective
<1>6. IsFiniteSet(1..N) /\ Cardinality(1..N) = N
  BY <1>1, FS_Interval
<1>7. rank \in Surjection(S, 1..N)
  <2> HIDE DEF rank
  <2> QED BY <1>5, <1>6, FS_Injection
<1>8. \A n \in 1..N : \E c \in S : Cardinality(UpTo(c)) = n
  <2>1. \A n \in 1..N : \E c \in S : rank[c] = n
    BY <1>7 DEF Surjection
  <2> QED BY <2>1
<1>9. \A n \in 1..N : NthByDigest(S, n) \in S /\ Cardinality(UpTo(NthByDigest(S, n))) = n
  BY <1>8 DEF NthByDigest
<1>10. \A c \in S : NthByDigest(S, Cardinality(UpTo(c))) = c
  <2> SUFFICES ASSUME NEW c \in S
               PROVE  NthByDigest(S, Cardinality(UpTo(c))) = c
    OBVIOUS
  <2>1. PICK n : n = Cardinality(UpTo(c))
    OBVIOUS
  <2>2. n \in 1..N
    BY <1>2, <2>1
  <2> HIDE DEF UpTo
  <2>3. NthByDigest(S, n) \in S /\ Cardinality(UpTo(NthByDigest(S, n))) = n
    BY <1>9, <2>2
  <2>4. NthByDigest(S, n) = c
    BY <1>4, <2>1, <2>3
  <2> QED BY <2>1, <2>4
<1> HIDE DEF UpTo, rank
<1> QED BY <1>1, <1>2, <1>9, <1>10

(* Certificates a loop of recompute goes through: all of one kind. *)
Claims(S) == IsStorable(S) /\ \E k \in ClaimKind : \A c \in S : c.kind = k

LEMMA ClaimFacts ==
    ASSUME NEW S, Claims(S)
    PROVE  /\ Cardinality(S) \in Nat
           /\ \A n \in 1..Cardinality(S) : NthByDigest(S, n) \in S
           /\ \A c \in S : \E n \in 1..Cardinality(S) : NthByDigest(S, n) = c
           /\ \A c \in S : c \in Certificate /\ c.kind \in ClaimKind
<1>1. \A c \in S : c \in Certificate
  BY DEF Claims, IsStorable
<1>2. \A c \in S : c.digest \in Nat
  BY <1>1, CertificateFields DEF Digest
<1>3. IsFiniteSet(S) /\ \A c, d \in S : c.digest = d.digest => c = d
  BY DEF Claims, IsStorable, Compared
<1> QED BY <1>1, <1>2, <1>3, DigestOrder DEF Claims

LEMMA AdmitAllRuns ==
    ASSUME NEW C, NEW threshold, NEW S, Claims(S), NEW st \in LoopState
    PROVE  \E f \in [0..Cardinality(S) -> LoopState] :
             /\ f[0] = st
             /\ \A n \in 1..Cardinality(S) :
                  f[n] = AdmitCertificate(C, threshold, f[n - 1], NthByDigest(S, n))
             /\ AdmitAll(C, threshold, S, st) = f[Cardinality(S)]
<1>1. PICK N : N = Cardinality(S)
  OBVIOUS
<1>2. N \in Nat /\ \A n \in 1..N : NthByDigest(S, n) \in Certificate /\ NthByDigest(S, n).kind \in ClaimKind
  BY <1>1, ClaimFacts
<1> DEFINE G == [z \in (1..N) \X LoopState |-> AdmitCertificate(C, threshold, z[2], NthByDigest(S, z[1]))]
<1>3. \A n \in 1..N, x \in LoopState :
        G[<<n, x>>] = AdmitCertificate(C, threshold, x, NthByDigest(S, n))
  OBVIOUS
<1>4. G \in [(1..N) \X LoopState -> LoopState]
  <2> SUFFICES ASSUME NEW z \in (1..N) \X LoopState
               PROVE  AdmitCertificate(C, threshold, z[2], NthByDigest(S, z[1])) \in LoopState
    OBVIOUS
  <2>1. NthByDigest(S, z[1]) \in Certificate /\ NthByDigest(S, z[1]).kind \in ClaimKind
    BY <1>2
  <2> QED BY <2>1, AdmitExtends
<1> HIDE DEF G
<1>5. PICK f \in [0..N -> LoopState] : f[0] = st /\ \A n \in 1..N : f[n] = G[<<n, f[n - 1]>>]
  <2>1. \E f : Iterates(f, N, LoopState, st, G)
    BY <1>2, <1>4, Recursion
  <2> QED BY <2>1 DEF Iterates
<1>6. \A n \in 1..N : f[n] = AdmitCertificate(C, threshold, f[n - 1], NthByDigest(S, n))
  <2> SUFFICES ASSUME NEW n \in 1..N
               PROVE  f[n] = AdmitCertificate(C, threshold, f[n - 1], NthByDigest(S, n))
    OBVIOUS
  <2>1. f[n - 1] \in LoopState
    BY <1>2
  <2> QED BY <1>3, <1>5, <2>1
<1> DEFINE Runs(g) == g = [n \in 0..N |-> IF n = 0 THEN st
                             ELSE AdmitCertificate(C, threshold, g[n - 1], NthByDigest(S, n))]
           after == CHOOSE g : Runs(g)
<1>7. Runs(f)
  BY <1>2, <1>5, <1>6
<1>8. Runs(after)
  <2> HIDE DEF Runs
  <2> QED BY <1>7
<1>9. AdmitAll(C, threshold, S, st) = after[N]
  BY <1>1 DEF AdmitAll
<1> HIDE DEF after
<1>10. after[0] = st /\ \A n \in 1..N : after[n] = AdmitCertificate(C, threshold, after[n - 1], NthByDigest(S, n))
  BY <1>2, <1>8
<1> HIDE DEF Runs
<1> DEFINE P == {n \in 0..N : after[n] = f[n]}
<1>11. 0 \in P
  BY <1>2, <1>5, <1>10
<1>12. ASSUME NEW n \in 1..N, n - 1 \in P
       PROVE  n \in P
  BY <1>2, <1>6, <1>10, <1>12
<1>13. \A n \in 0..N : n \in P
  <2> HIDE DEF P
  <2> QED BY <1>2, <1>11, <1>12, InductionUpTo
<1>14. N \in P
  BY <1>2, <1>13
<1> QED BY <1>1, <1>5, <1>6, <1>9, <1>14

(* Induction over the certificates of a loop. *)
LEMMA AdmitAllIn ==
    ASSUME NEW C, NEW threshold, NEW S, Claims(S), NEW I, I \subseteq LoopState, NEW st \in I,
           \A x \in I, c \in S : AdmitCertificate(C, threshold, x, c) \in I
    PROVE  AdmitAll(C, threshold, S, st) \in I
<1>1. PICK f \in [0..Cardinality(S) -> LoopState] :
             /\ f[0] = st
             /\ \A n \in 1..Cardinality(S) :
                  f[n] = AdmitCertificate(C, threshold, f[n - 1], NthByDigest(S, n))
             /\ AdmitAll(C, threshold, S, st) = f[Cardinality(S)]
  BY AdmitAllRuns
<1>2. PICK N \in Nat : N = Cardinality(S)
  BY ClaimFacts
<1> DEFINE P == {n \in 0..N : f[n] \in I}
<1>3. 0 \in P
  BY <1>1, <1>2
<1>4. ASSUME NEW n \in 1..N, n - 1 \in P
      PROVE  n \in P
  <2>1. NthByDigest(S, n) \in S
    BY <1>2, ClaimFacts
  <2> QED BY <1>1, <1>2, <1>4, <2>1
<1>5. N \in P
  <2> HIDE DEF P
  <2> QED BY <1>2, <1>3, <1>4, InductionUpTo
<1> QED BY <1>1, <1>2, <1>5

LEMMA AdmitAllExtends ==
    ASSUME NEW C, NEW threshold, NEW S, Claims(S), NEW st \in LoopState
    PROVE  /\ AdmitAll(C, threshold, S, st) \in LoopState
           /\ Extends(st, AdmitAll(C, threshold, S, st))
<1> DEFINE I == {x \in LoopState : Extends(st, x)}
<1>1. I \subseteq LoopState /\ st \in I
  BY ExtendsOrder
<1>2. \A x \in I, c \in S : AdmitCertificate(C, threshold, x, c) \in I
  BY ClaimFacts, AdmitExtends, ExtendsOrder
<1>3. AdmitAll(C, threshold, S, st) \in I
  <2> HIDE DEF I
  <2> QED BY <1>1, <1>2, AdmitAllIn
<1> QED BY <1>3

(* A loop that leaves the state as it was had nothing to admit. *)
LEMMA AdmitAllQuiet ==
    ASSUME NEW C, NEW threshold, NEW S, Claims(S), NEW st \in LoopState,
           AdmitAll(C, threshold, S, st) = st, NEW c \in S
    PROVE  AdmitCertificate(C, threshold, st, c) = st
<1>1. PICK f \in [0..Cardinality(S) -> LoopState] :
             /\ f[0] = st
             /\ \A n \in 1..Cardinality(S) :
                  f[n] = AdmitCertificate(C, threshold, f[n - 1], NthByDigest(S, n))
             /\ AdmitAll(C, threshold, S, st) = f[Cardinality(S)]
  BY AdmitAllRuns
<1>2. PICK N \in Nat : N = Cardinality(S)
  BY ClaimFacts
<1>3. \A n \in 0..N : f[n] \in LoopState
  BY <1>1, <1>2
<1>4. \A n \in 1..N : Extends(f[n - 1], f[n])
  <2> SUFFICES ASSUME NEW n \in 1..N
               PROVE  Extends(f[n - 1], f[n])
    OBVIOUS
  <2>1. n - 1 \in 0..N /\ NthByDigest(S, n) \in Certificate /\ NthByDigest(S, n).kind \in ClaimKind
    BY <1>2, ClaimFacts
  <2>2. f[n - 1] \in LoopState
    BY <1>3, <2>1
  <2> QED BY <1>1, <1>2, <2>1, <2>2, AdmitExtends
<1>5. \A n \in 0..N : Extends(st, f[n])
  <2> DEFINE P == {n \in 0..N : Extends(st, f[n])}
  <2>1. 0 \in P
    BY <1>1, <1>2, ExtendsOrder
  <2>2. ASSUME NEW n \in 1..N, n - 1 \in P
        PROVE  n \in P
    <3>1. n \in 0..N /\ n - 1 \in 0..N /\ Extends(st, f[n - 1])
      BY <2>2
    <3>2. Extends(st, f[n])
      BY <1>3, <1>4, <3>1, ExtendsOrder
    <3> QED BY <3>1, <3>2
  <2> HIDE DEF P
  <2>3. \A n \in 0..N : n \in P
    BY <1>2, <2>1, <2>2, InductionUpTo
  <2> QED BY <2>3 DEF P
<1>6. \A n \in 0..N : Extends(f[n], st)
  <2> DEFINE P == {k \in 0..N : Extends(f[N - k], st)}
  <2>1. 0 \in P
    BY <1>1, <1>2, ExtendsOrder
  <2>2. ASSUME NEW k \in 1..N, k - 1 \in P
        PROVE  k \in P
    <3>1. N - k \in 0..N /\ N - (k - 1) \in 1..N /\ (N - (k - 1)) - 1 = N - k /\ N - (k - 1) \in 0..N
      BY <1>2
    <3>2. Extends(f[N - (k - 1)], st) /\ Extends(f[N - k], f[N - (k - 1)])
      BY <1>4, <2>2, <3>1
    <3>3. Extends(f[N - k], st)
      BY <1>3, <3>1, <3>2, ExtendsOrder
    <3> QED BY <3>3
  <2> HIDE DEF P
  <2>3. \A k \in 0..N : k \in P
    BY <1>2, <2>1, <2>2, InductionUpTo
  <2>4. \A n \in 0..N : N - n \in 0..N /\ N - (N - n) = n
    BY <1>2
  <2> QED BY <2>3, <2>4 DEF P
<1>7. \A n \in 0..N : f[n] = st
  BY <1>3, <1>5, <1>6, ExtendsOrder
<1>8. PICK n \in 1..N : NthByDigest(S, n) = c
  BY <1>2, ClaimFacts
<1>9. n - 1 \in 0..N /\ n \in 0..N
  BY <1>2
<1> QED BY <1>1, <1>2, <1>7, <1>8, <1>9

-----------------------------------------------------------------------------
(* The rounds of the loop.                                                 *)

(* What the loop of recompute looks at. *)
ClaimsOf(C) == {c \in C : c.kind \in ClaimKind}

LEMMA KindClaims ==
    ASSUME NEW C, IsStorable(C), NEW k \in ClaimKind
    PROVE  Claims(OfKind(C, k)) /\ OfKind(C, k) \subseteq ClaimsOf(C)
<1>1. OfKind(C, k) \in SUBSET C
  BY DEF OfKind
<1>2. IsFiniteSet(OfKind(C, k))
  BY <1>1, FS_Subset DEF IsStorable
<1> QED BY <1>1, <1>2 DEF Claims, IsStorable, OfKind, ClaimsOf

(* Induction over the certificates of a round. *)
LEMMA PassIn ==
    ASSUME NEW C, IsStorable(C), NEW threshold, NEW I, I \subseteq LoopState, NEW st \in I,
           \A x \in I, c \in ClaimsOf(C) : AdmitCertificate(C, threshold, x, c) \in I
    PROVE  Pass(C, threshold, st) \in I
<1>1. ASSUME NEW k \in ClaimKind, NEW x \in I
      PROVE  AdmitAll(C, threshold, OfKind(C, k), x) \in I
  <2>1. Claims(OfKind(C, k)) /\ OfKind(C, k) \subseteq ClaimsOf(C)
    BY KindClaims
  <2>2. \A y \in I, c \in OfKind(C, k) : AdmitCertificate(C, threshold, y, c) \in I
    BY <2>1
  <2> QED BY <2>1, <2>2, AdmitAllIn
<1> DEFINE bound == AdmitAll(C, threshold, OfKind(C, "binding"), st)
           voted == AdmitAll(C, threshold, OfKind(C, "proposal"), bound)
           granted == AdmitAll(C, threshold, OfKind(C, "grant"), voted)
<1>2. Pass(C, threshold, st) = granted
  BY DEF Pass
<1>3. bound \in I
  BY <1>1 DEF ClaimKind
<1> HIDE DEF bound
<1>4. voted \in I
  BY <1>1, <1>3 DEF ClaimKind
<1> HIDE DEF voted
<1>5. granted \in I
  BY <1>1, <1>4 DEF ClaimKind
<1> QED BY <1>2, <1>5

LEMMA ClaimsAdmit ==
    ASSUME NEW C, IsStorable(C), NEW threshold, NEW st \in LoopState, NEW c \in ClaimsOf(C)
    PROVE  /\ c \in Certificate /\ c \in C /\ c.kind \in ClaimKind
           /\ AdmitCertificate(C, threshold, st, c) \in LoopState
           /\ Extends(st, AdmitCertificate(C, threshold, st, c))
<1>1. c \in Certificate /\ c \in C /\ c.kind \in ClaimKind
  BY DEF ClaimsOf, IsStorable
<1> QED BY <1>1, AdmitExtends

LEMMA PassExtends ==
    ASSUME NEW C, IsStorable(C), NEW threshold, NEW st \in LoopState
    PROVE  Pass(C, threshold, st) \in LoopState /\ Extends(st, Pass(C, threshold, st))
<1> DEFINE I == {x \in LoopState : Extends(st, x)}
<1>1. I \subseteq LoopState /\ st \in I
  BY ExtendsOrder
<1>2. ASSUME NEW x \in I, NEW c \in ClaimsOf(C)
      PROVE  AdmitCertificate(C, threshold, x, c) \in I
  BY ClaimsAdmit, ExtendsOrder
<1>3. Pass(C, threshold, st) \in I
  <2> HIDE DEF I
  <2> QED BY <1>1, <1>2, PassIn
<1> QED BY <1>3

(* A round that changes nothing has nothing to admit. *)
LEMMA PassQuiet ==
    ASSUME NEW C, IsStorable(C), NEW threshold, NEW st \in LoopState,
           Pass(C, threshold, st) = st, NEW c \in ClaimsOf(C)
    PROVE  AdmitCertificate(C, threshold, st, c) = st
<1>1. PICK bound : bound = AdmitAll(C, threshold, OfKind(C, "binding"), st)
  OBVIOUS
<1>2. PICK voted : voted = AdmitAll(C, threshold, OfKind(C, "proposal"), bound)
  OBVIOUS
<1>3. st = AdmitAll(C, threshold, OfKind(C, "grant"), voted)
  BY <1>1, <1>2 DEF Pass
<1>4. /\ Claims(OfKind(C, "binding")) /\ Claims(OfKind(C, "proposal"))
      /\ Claims(OfKind(C, "grant"))
  BY KindClaims DEF ClaimKind
<1>5. bound \in LoopState /\ Extends(st, bound)
  BY <1>1, <1>4, AdmitAllExtends
<1>6. voted \in LoopState /\ Extends(bound, voted)
  BY <1>2, <1>4, <1>5, AdmitAllExtends
<1>7. Extends(voted, st)
  BY <1>3, <1>4, <1>6, AdmitAllExtends
<1>8. Extends(st, voted) /\ Extends(bound, st)
  BY <1>5, <1>6, <1>7, ExtendsOrder
<1>9. bound = st /\ voted = st
  BY <1>5, <1>6, <1>7, <1>8, ExtendsOrder
<1>10. \/ c \in OfKind(C, "binding") \/ c \in OfKind(C, "proposal") \/ c \in OfKind(C, "grant")
  BY DEF ClaimsOf, ClaimKind, OfKind
<1>11. CASE c \in OfKind(C, "binding")
  BY <1>1, <1>4, <1>9, <1>11, AdmitAllQuiet
<1>12. CASE c \in OfKind(C, "proposal")
  BY <1>2, <1>4, <1>9, <1>12, AdmitAllQuiet
<1>13. CASE c \in OfKind(C, "grant")
  BY <1>3, <1>4, <1>9, <1>13, AdmitAllQuiet
<1> QED BY <1>10, <1>11, <1>12, <1>13

LEMMA SeedType == Seed \in LoopState
<1>1. [d \in {Founder} |-> Founder] \in [{Founder} -> Member] /\ {Founder} \in SUBSET Member
  BY FounderAssumption
<1>2. [d \in {Founder} |-> Founder] \in UserMap
  BY <1>1, UserMaps
<1> QED BY <1>2, FounderAssumption DEF Seed, LoopState

Round == [st : LoopState, changed : BOOLEAN]

(* The round after round x. *)
NextRound(C, x) ==
    IF x.changed
    THEN [st |-> Pass(C, ResolveThreshold(C), x.st),
          changed |-> Pass(C, ResolveThreshold(C), x.st) # x.st]
    ELSE x

LEMMA NextRoundType ==
    ASSUME NEW C, IsStorable(C), NEW x \in Round
    PROVE  NextRound(C, x) \in Round
<1>1. x.st \in LoopState
  BY DEF Round
<1>2. Pass(C, ResolveThreshold(C), x.st) \in LoopState
  BY <1>1, PassExtends
<1> QED BY <1>2 DEF NextRound, Round

LEMMA FixpointRuns ==
    ASSUME NEW C, IsStorable(C), NEW N \in Nat, N = Cardinality(C) + 1
    PROVE  \E f \in [0..N -> Round] :
             /\ f[0] = [st |-> Seed, changed |-> TRUE]
             /\ \A n \in 1..N : f[n] = NextRound(C, f[n - 1])
             /\ Fixpoint(C) = f[N].st
<1> DEFINE first == [st |-> Seed, changed |-> TRUE]
           G == [z \in (1..N) \X Round |-> NextRound(C, z[2])]
<1>1. first \in Round
  BY SeedType DEF Round
<1>2. G \in [(1..N) \X Round -> Round]
  <2> SUFFICES ASSUME NEW z \in (1..N) \X Round
               PROVE  NextRound(C, z[2]) \in Round
    OBVIOUS
  <2> QED BY NextRoundType
<1>3. \A n \in 1..N, x \in Round : G[<<n, x>>] = NextRound(C, x)
  OBVIOUS
<1> HIDE DEF G, first
<1>4. PICK f \in [0..N -> Round] : f[0] = first /\ \A n \in 1..N : f[n] = G[<<n, f[n - 1]>>]
  <2>1. \E f : Iterates(f, N, Round, first, G)
    BY <1>1, <1>2, Recursion
  <2> QED BY <2>1 DEF Iterates
<1>5. \A n \in 1..N : f[n] = NextRound(C, f[n - 1])
  <2> SUFFICES ASSUME NEW n \in 1..N
               PROVE  f[n] = NextRound(C, f[n - 1])
    OBVIOUS
  <2>1. f[n - 1] \in Round
    OBVIOUS
  <2> QED BY <1>3, <1>4, <2>1
<1> DEFINE Runs(g) == g = [n \in 0..N |-> IF n = 0 THEN first ELSE NextRound(C, g[n - 1])]
           round == CHOOSE g : Runs(g)
<1>6. Runs(f)
  BY <1>4, <1>5
<1>7. Runs(round)
  <2> HIDE DEF Runs
  <2> QED BY <1>6
<1>8. Fixpoint(C) = round[N].st
  BY DEF Fixpoint, NextRound, first
<1> HIDE DEF round
<1>9. round[0] = first /\ \A n \in 1..N : round[n] = NextRound(C, round[n - 1])
  BY <1>7
<1> HIDE DEF Runs
<1> DEFINE P == {n \in 0..N : round[n] = f[n]}
<1>10. 0 \in P
  BY <1>4, <1>9
<1>11. ASSUME NEW n \in 1..N, n - 1 \in P
       PROVE  n \in P
  BY <1>5, <1>9, <1>11
<1>12. \A n \in 0..N : n \in P
  <2> HIDE DEF P
  <2> QED BY <1>10, <1>11, InductionUpTo
<1>13. round[N] = f[N]
  BY <1>12
<1> QED BY <1>4, <1>5, <1>8, <1>13 DEF first

(* Induction over the certificates of the whole loop. *)
LEMMA FixpointIn ==
    ASSUME NEW C, IsStorable(C), NEW I, I \subseteq LoopState, Seed \in I,
           \A x \in I, c \in ClaimsOf(C) : AdmitCertificate(C, ResolveThreshold(C), x, c) \in I
    PROVE  Fixpoint(C) \in I
<1>1. Cardinality(C) \in Nat
  BY FS_CardinalityType DEF IsStorable
<1>2. PICK N \in Nat : N = Cardinality(C) + 1
  BY <1>1
<1>3. PICK f \in [0..N -> Round] :
             /\ f[0] = [st |-> Seed, changed |-> TRUE]
             /\ \A n \in 1..N : f[n] = NextRound(C, f[n - 1])
             /\ Fixpoint(C) = f[N].st
  BY <1>2, FixpointRuns
<1> DEFINE P == {n \in 0..N : f[n].st \in I}
<1>4. 0 \in P
  BY <1>3
<1>5. ASSUME NEW n \in 1..N, n - 1 \in P
      PROVE  n \in P
  <2>1. PICK x : x = f[n - 1]
    OBVIOUS
  <2>2. x.st \in I
    BY <1>5, <2>1
  <2>3. Pass(C, ResolveThreshold(C), x.st) \in I
    BY <2>2, PassIn
  <2>4. NextRound(C, x).st \in I
    BY <2>2, <2>3 DEF NextRound
  <2> QED BY <1>3, <2>1, <2>4
<1>6. \A n \in 0..N : n \in P
  <2> HIDE DEF P
  <2> QED BY <1>4, <1>5, InductionUpTo
<1> QED BY <1>3, <1>6

-----------------------------------------------------------------------------
(* What one admission does, and when it does nothing.                      *)

(* t is what the certificate c makes of the state st of the loop. *)
AdmitEffect(C, threshold, st, c, t) ==
    \/ t = st
    \/ /\ c.kind = "binding" /\ c.issuer \in DOMAIN st.user
       /\ st.user[c.issuer] = c.user \/ st.user[c.issuer] \in st.admin
       /\ DOMAIN t.user = DOMAIN st.user \union {c.device}
       /\ \A d \in DOMAIN st.user : t.user[d] = st.user[d]
       /\ t.user[c.device] = c.user
       /\ t.admin = st.admin /\ t.executed = st.executed
    \/ /\ c.kind = "proposal" /\ FromEverAdmin(st, c)
       /\ Cardinality(ApprovingUsers(C, st, c.digest)) >= threshold
       /\ t.user = st.user /\ t.admin = st.admin
       /\ t.executed = st.executed \union {c.digest}
    \/ /\ c.kind = "grant" /\ c.capability = "Admin" /\ FromEverAdmin(st, c)
       /\ GrantIsAuthorised(C, threshold, st.executed, st.user[c.issuer], c)
       /\ t.user = st.user /\ t.executed = st.executed
       /\ t.admin = st.admin \union {c.subject}

LEMMA AdmitCases ==
    ASSUME NEW C, NEW threshold, NEW st \in LoopState, NEW c \in Certificate, c.kind \in ClaimKind,
           NEW t, t = AdmitCertificate(C, threshold, st, c)
    PROVE  AdmitEffect(C, threshold, st, c, t)
<1> USE DEF AdmitEffect
<1>1. CASE c.kind = "binding"
  <2>1. t = AdmitBinding(st, c)
    BY <1>1 DEF AdmitCertificate
  <2> DEFINE u == [d \in DOMAIN st.user \union {c.device} |->
                     IF d = c.device THEN c.user ELSE st.user[d]]
  <2>2. CASE c.device \notin DOMAIN st.user /\ t = [st EXCEPT !.user = u]
    <3>1. t.user = u /\ t.admin = st.admin /\ t.executed = st.executed
      BY <2>2 DEF LoopState
    <3>2. /\ DOMAIN u = DOMAIN st.user \union {c.device}
          /\ \A d \in DOMAIN st.user : u[d] = st.user[d]
          /\ u[c.device] = c.user
      BY <2>2
    <3> HIDE DEF u
    <3>3. t = st \/ (c.issuer \in DOMAIN st.user
                     /\ (st.user[c.issuer] = c.user \/ st.user[c.issuer] \in st.admin))
      BY <2>1 DEF AdmitBinding
    <3> QED BY <1>1, <3>1, <3>2, <3>3
  <2> QED BY <2>1, <2>2 DEF AdmitBinding
<1>2. CASE c.kind = "proposal"
  BY <1>2 DEF AdmitCertificate, ExecuteProposal, LoopState
<1>3. CASE c.kind = "grant"
  BY <1>3 DEF AdmitCertificate, AdmitGrant, LoopState
<1> QED BY <1>1, <1>2, <1>3 DEF ClaimKind

LEMMA AdmitNothing ==
    ASSUME NEW C, NEW threshold, NEW st \in LoopState, NEW c,
           AdmitCertificate(C, threshold, st, c) = st
    PROVE  /\ /\ c.kind = "binding" /\ c.issuer \in DOMAIN st.user
              /\ st.user[c.issuer] = c.user \/ st.user[c.issuer] \in st.admin
              => c.device \in DOMAIN st.user
           /\ /\ c.kind = "proposal" /\ FromEverAdmin(st, c)
              /\ Cardinality(ApprovingUsers(C, st, c.digest)) >= threshold
              => c.digest \in st.executed
           /\ /\ c.kind = "grant" /\ c.capability = "Admin" /\ FromEverAdmin(st, c)
              /\ GrantIsAuthorised(C, threshold, st.executed, st.user[c.issuer], c)
              => c.subject \in st.admin
<1>1. ASSUME c.kind = "binding", c.issuer \in DOMAIN st.user,
             st.user[c.issuer] = c.user \/ st.user[c.issuer] \in st.admin,
             c.device \notin DOMAIN st.user
      PROVE  FALSE
  <2> DEFINE u == [d \in DOMAIN st.user \union {c.device} |->
                     IF d = c.device THEN c.user ELSE st.user[d]]
  <2>1. st = [st EXCEPT !.user = u]
    BY <1>1 DEF AdmitCertificate, AdmitBinding
  <2>2. [st EXCEPT !.user = u].user = u
    BY DEF LoopState
  <2>3. DOMAIN u = DOMAIN st.user \union {c.device}
    OBVIOUS
  <2> HIDE DEF u
  <2>4. st.user = u
    BY <2>1, <2>2
  <2> QED BY <1>1, <2>3, <2>4
<1>2. ASSUME c.kind = "proposal", FromEverAdmin(st, c),
             Cardinality(ApprovingUsers(C, st, c.digest)) >= threshold
      PROVE  c.digest \in st.executed
  BY <1>2 DEF AdmitCertificate, ExecuteProposal, LoopState
<1>3. ASSUME c.kind = "grant", c.capability = "Admin", FromEverAdmin(st, c),
             GrantIsAuthorised(C, threshold, st.executed, st.user[c.issuer], c)
      PROVE  c.subject \in st.admin
  BY <1>3 DEF AdmitCertificate, AdmitGrant, LoopState
<1> QED BY <1>1, <1>2, <1>3

-----------------------------------------------------------------------------
(* The loop stops because it has nothing left to admit.                    *)

Devices(C) == {Founder} \union {b.device : b \in OfKind(C, "binding")}
Appointees(C) == {Founder} \union {g.subject : g \in OfKind(C, "grant")}
Digests(C) == {p.digest : p \in OfKind(C, "proposal")}

(* How much a state of the loop says. *)
Measure(st) == Cardinality(DOMAIN st.user) + Cardinality(st.admin) + Cardinality(st.executed)

(* What the certificates of C can make a state of the loop say. *)
Within(C) == {st \in LoopState : /\ DOMAIN st.user \subseteq Devices(C)
                                 /\ st.admin \subseteq Appointees(C)
                                 /\ st.executed \subseteq Digests(C)}

LEMMA WithinStep ==
    ASSUME NEW C, IsStorable(C), NEW threshold, NEW st \in Within(C), NEW c \in ClaimsOf(C)
    PROVE  AdmitCertificate(C, threshold, st, c) \in Within(C)
<1>1. PICK t : t = AdmitCertificate(C, threshold, st, c)
  OBVIOUS
<1>2. st \in LoopState
  BY DEF Within
<1>3. c \in C /\ c \in Certificate /\ c.kind \in ClaimKind /\ t \in LoopState
  BY <1>1, <1>2, ClaimsAdmit
<1>4. /\ c.kind = "binding" => c.device \in Devices(C)
      /\ c.kind = "grant" => c.subject \in Appointees(C)
      /\ c.kind = "proposal" => c.digest \in Digests(C)
  BY <1>3 DEF OfKind, Devices, Appointees, Digests
<1>8. AdmitEffect(C, threshold, st, c, t)
  BY <1>1, <1>2, <1>3, AdmitCases
<1>5. DOMAIN t.user \subseteq Devices(C)
  <2>1. \/ t = st
        \/ c.kind = "binding" /\ DOMAIN t.user = DOMAIN st.user \union {c.device}
        \/ t.user = st.user
    BY <1>8 DEF AdmitEffect
  <2> QED BY <1>4, <2>1 DEF Within
<1>6. t.admin \subseteq Appointees(C) /\ t.executed \subseteq Digests(C)
  <2>1. \/ t = st
        \/ t.admin = st.admin /\ t.executed = st.executed
        \/ c.kind = "proposal" /\ t.admin = st.admin /\ t.executed = st.executed \union {c.digest}
        \/ c.kind = "grant" /\ t.executed = st.executed /\ t.admin = st.admin \union {c.subject}
    BY <1>8 DEF AdmitEffect
  <2> QED BY <1>4, <2>1 DEF Within
<1>7. t \in Within(C)
  BY <1>3, <1>5, <1>6 DEF Within
<1> QED BY <1>1, <1>7

(* What a function makes of a finite set is finite, and not larger. *)
LEMMA ImageOfFinite ==
    ASSUME NEW S, IsFiniteSet(S), NEW T, NEW f \in [S -> T], \A t \in T : \E c \in S : f[c] = t
    PROVE  IsFiniteSet(T) /\ Cardinality(T) \in Nat /\ Cardinality(T) <= Cardinality(S)
<1>1. f \in Surjection(S, T)
  BY DEF Surjection
<1>2. IsFiniteSet(T) /\ Cardinality(T) <= Cardinality(S)
  BY <1>1, FS_Surjection
<1> QED BY <1>2, FS_CardinalityType

(* One more than a set's elements. *)
LEMMA OneMore ==
    ASSUME NEW S, IsFiniteSet(S), NEW x
    PROVE  /\ IsFiniteSet({x} \union S) /\ Cardinality({x} \union S) \in Nat
           /\ Cardinality({x} \union S) <= Cardinality(S) + 1
<1>1. {x} \union S = S \union {x}
  OBVIOUS
<1>2. IsFiniteSet(S \union {x}) /\ Cardinality(S) \in Nat
      /\ Cardinality(S \union {x}) = IF x \in S THEN Cardinality(S) ELSE Cardinality(S) + 1
  BY FS_AddElement, FS_CardinalityType
<1> QED BY <1>1, <1>2

LEMMA KindsCount ==
    ASSUME NEW C, IsStorable(C)
    PROVE  /\ \A k \in ClaimKind : IsFiniteSet(OfKind(C, k)) /\ Cardinality(OfKind(C, k)) \in Nat
           /\ Cardinality(OfKind(C, "binding")) + Cardinality(OfKind(C, "grant"))
                + Cardinality(OfKind(C, "proposal")) <= Cardinality(C)
           /\ Cardinality(C) \in Nat
<1>1. PICK B, G, P : B = OfKind(C, "binding") /\ G = OfKind(C, "grant") /\ P = OfKind(C, "proposal")
  OBVIOUS
<1>2. IsFiniteSet(C) /\ Cardinality(C) \in Nat
  BY FS_CardinalityType DEF IsStorable
<1>3. \A k \in ClaimKind : OfKind(C, k) \in SUBSET C
  BY DEF OfKind
<1>4. \A k \in ClaimKind : IsFiniteSet(OfKind(C, k)) /\ Cardinality(OfKind(C, k)) \in Nat
  BY <1>2, <1>3, FS_Subset, FS_CardinalityType
<1>5. /\ IsFiniteSet(B) /\ IsFiniteSet(G) /\ IsFiniteSet(P)
      /\ Cardinality(B) \in Nat /\ Cardinality(G) \in Nat /\ Cardinality(P) \in Nat
  BY <1>1, <1>4 DEF ClaimKind
<1>6. B \cap G = {} /\ (B \union G) \cap P = {} /\ (B \union G) \union P \in SUBSET C
  BY <1>1 DEF OfKind
<1>7. IsFiniteSet(B \union G) /\ Cardinality(B \union G) = Cardinality(B) + Cardinality(G)
  BY <1>5, <1>6, FS_Union, FS_EmptySet
<1>8. Cardinality((B \union G) \union P) = Cardinality(B \union G) + Cardinality(P)
  <2>1. PICK H : H = B \union G
    OBVIOUS
  <2>2. IsFiniteSet(H) /\ H \cap P = {} /\ Cardinality(H) \in Nat
    BY <1>6, <1>7, <2>1, FS_CardinalityType
  <2>3. Cardinality(H \union P) = Cardinality(H) + Cardinality(P)
    BY <1>5, <2>2, FS_Union, FS_EmptySet
  <2> QED BY <2>1, <2>3
<1>9. Cardinality((B \union G) \union P) <= Cardinality(C)
  BY <1>2, <1>6, FS_Subset
<1> QED BY <1>1, <1>2, <1>4, <1>5, <1>7, <1>8, <1>9

LEMMA WithinBound ==
    ASSUME NEW C, IsStorable(C), NEW st \in Within(C)
    PROVE  /\ IsFiniteSet(DOMAIN st.user) /\ IsFiniteSet(st.admin) /\ IsFiniteSet(st.executed)
           /\ Measure(st) \in Nat /\ Measure(st) <= Cardinality(C) + 2
<1>1. PICK B, G, P : B = OfKind(C, "binding") /\ G = OfKind(C, "grant") /\ P = OfKind(C, "proposal")
  OBVIOUS
<1>2. /\ IsFiniteSet(B) /\ IsFiniteSet(G) /\ IsFiniteSet(P)
      /\ Cardinality(B) \in Nat /\ Cardinality(G) \in Nat /\ Cardinality(P) \in Nat
      /\ Cardinality(B) + Cardinality(G) + Cardinality(P) <= Cardinality(C)
      /\ Cardinality(C) \in Nat
  BY <1>1, KindsCount DEF ClaimKind
<1>3. PICK D, S, E : /\ D = {b.device : b \in B} /\ S = {g.subject : g \in G}
                     /\ E = {p.digest : p \in P}
  OBVIOUS
<1>4. IsFiniteSet(D) /\ Cardinality(D) \in Nat /\ Cardinality(D) <= Cardinality(B)
  <2> DEFINE f == [b \in B |-> b.device]
  <2>1. f \in [B -> D] /\ \A t \in D : \E b \in B : f[b] = t
    BY <1>3
  <2> HIDE DEF f
  <2> QED BY <1>2, <2>1, ImageOfFinite
<1>5. IsFiniteSet(S) /\ Cardinality(S) \in Nat /\ Cardinality(S) <= Cardinality(G)
  <2> DEFINE f == [g \in G |-> g.subject]
  <2>1. f \in [G -> S] /\ \A t \in S : \E g \in G : f[g] = t
    BY <1>3
  <2> HIDE DEF f
  <2> QED BY <1>2, <2>1, ImageOfFinite
<1>6. IsFiniteSet(E) /\ Cardinality(E) \in Nat /\ Cardinality(E) <= Cardinality(P)
  <2> DEFINE f == [p \in P |-> p.digest]
  <2>1. f \in [P -> E] /\ \A t \in E : \E p \in P : f[p] = t
    BY <1>3
  <2> HIDE DEF f
  <2> QED BY <1>2, <2>1, ImageOfFinite
<1>7. /\ DOMAIN st.user \in SUBSET ({Founder} \union D)
      /\ st.admin \in SUBSET ({Founder} \union S)
      /\ st.executed \in SUBSET E
  BY <1>1, <1>3 DEF Within, Devices, Appointees, Digests
<1>8. /\ IsFiniteSet(DOMAIN st.user) /\ Cardinality(DOMAIN st.user) \in Nat
      /\ Cardinality(DOMAIN st.user) <= Cardinality(D) + 1
  <2>1. /\ IsFiniteSet({Founder} \union D) /\ Cardinality({Founder} \union D) \in Nat
        /\ Cardinality({Founder} \union D) <= Cardinality(D) + 1
    BY <1>4, OneMore
  <2>2. IsFiniteSet(DOMAIN st.user) /\ Cardinality(DOMAIN st.user) <= Cardinality({Founder} \union D)
    BY <1>7, <2>1, FS_Subset
  <2> QED BY <1>4, <2>1, <2>2, FS_CardinalityType
<1>9. /\ IsFiniteSet(st.admin) /\ Cardinality(st.admin) \in Nat
      /\ Cardinality(st.admin) <= Cardinality(S) + 1
  <2>1. /\ IsFiniteSet({Founder} \union S) /\ Cardinality({Founder} \union S) \in Nat
        /\ Cardinality({Founder} \union S) <= Cardinality(S) + 1
    BY <1>5, OneMore
  <2>2. IsFiniteSet(st.admin) /\ Cardinality(st.admin) <= Cardinality({Founder} \union S)
    BY <1>7, <2>1, FS_Subset
  <2> QED BY <1>5, <2>1, <2>2, FS_CardinalityType
<1>10. /\ IsFiniteSet(st.executed) /\ Cardinality(st.executed) \in Nat
       /\ Cardinality(st.executed) <= Cardinality(E)
  BY <1>6, <1>7, FS_Subset, FS_CardinalityType
<1> QED BY <1>2, <1>4, <1>5, <1>6, <1>8, <1>9, <1>10 DEF Measure

(* A round that changes something says more. *)
LEMMA MeasureGrows ==
    ASSUME NEW C, IsStorable(C), NEW s \in Within(C), NEW t \in Within(C), Extends(s, t), s # t
    PROVE  Measure(s) + 1 <= Measure(t)
<1>1. s \in LoopState /\ t \in LoopState
  BY DEF Within
<1>2. /\ IsFiniteSet(DOMAIN s.user) /\ IsFiniteSet(s.admin) /\ IsFiniteSet(s.executed)
      /\ IsFiniteSet(DOMAIN t.user) /\ IsFiniteSet(t.admin) /\ IsFiniteSet(t.executed)
  BY WithinBound
<1>3. /\ Cardinality(DOMAIN s.user) \in Nat /\ Cardinality(DOMAIN t.user) \in Nat
      /\ Cardinality(s.admin) \in Nat /\ Cardinality(t.admin) \in Nat
      /\ Cardinality(s.executed) \in Nat /\ Cardinality(t.executed) \in Nat
  BY <1>2, FS_CardinalityType
<1>4. /\ DOMAIN s.user \in SUBSET DOMAIN t.user
      /\ s.admin \in SUBSET t.admin /\ s.executed \in SUBSET t.executed
  BY DEF Extends
<1>5. /\ Cardinality(DOMAIN s.user) <= Cardinality(DOMAIN t.user)
      /\ Cardinality(DOMAIN t.user) = Cardinality(DOMAIN s.user) => DOMAIN t.user = DOMAIN s.user
  BY <1>2, <1>4, FS_Subset
<1>6. /\ Cardinality(s.admin) <= Cardinality(t.admin)
      /\ Cardinality(t.admin) = Cardinality(s.admin) => t.admin = s.admin
  BY <1>2, <1>4, FS_Subset
<1>7. /\ Cardinality(s.executed) <= Cardinality(t.executed)
      /\ Cardinality(t.executed) = Cardinality(s.executed) => t.executed = s.executed
  BY <1>2, <1>4, FS_Subset
<1>8. ~(DOMAIN t.user = DOMAIN s.user /\ t.admin = s.admin /\ t.executed = s.executed)
  <2> SUFFICES ASSUME DOMAIN t.user = DOMAIN s.user, t.admin = s.admin, t.executed = s.executed
               PROVE  FALSE
    OBVIOUS
  <2>1. Extends(t, s)
    BY DEF Extends
  <2> QED BY <1>1, <2>1, ExtendsOrder
<1> QED BY <1>3, <1>5, <1>6, <1>7, <1>8 DEF Measure

LEMMA SeedWithin ==
    ASSUME NEW C
    PROVE  Seed \in Within(C) /\ Measure(Seed) = 2
<1>1. DOMAIN Seed.user = {Founder} /\ Seed.admin = {Founder} /\ Seed.executed = {}
  BY DEF Seed
<1>2. Seed \in Within(C)
  BY <1>1, SeedType DEF Within, Devices, Appointees
<1>3. Cardinality({Founder}) = 1
  BY FS_Singleton
<1>4. Cardinality(Seed.executed) = 0
  BY <1>1, FS_EmptySet
<1> QED BY <1>1, <1>2, <1>3, <1>4 DEF Measure

(* recompute stops: a further round over the certificates, bindings,       *)
(* proposals and grants in digest order, would admit nothing.              *)
THEOREM FixpointReached ==
    ASSUME NEW C, IsStorable(C)
    PROVE  /\ Fixpoint(C) \in LoopState
           /\ Pass(C, ResolveThreshold(C), Fixpoint(C)) = Fixpoint(C)
<1>1. Cardinality(C) \in Nat
  BY KindsCount
<1>2. PICK N \in Nat : N = Cardinality(C) + 1
  BY <1>1
<1>3. PICK f \in [0..N -> Round] :
             /\ f[0] = [st |-> Seed, changed |-> TRUE]
             /\ \A n \in 1..N : f[n] = NextRound(C, f[n - 1])
             /\ Fixpoint(C) = f[N].st
  BY <1>2, FixpointRuns
<1> DEFINE Fits(n, x) == /\ x.st \in Within(C)
                         /\ IF x.changed THEN Measure(x.st) >= n + 2
                            ELSE Pass(C, ResolveThreshold(C), x.st) = x.st
           P == {n \in 0..N : Fits(n, f[n])}
<1>4. 0 \in P
  BY <1>3, SeedWithin
<1>5. ASSUME NEW n \in 1..N, n - 1 \in P
      PROVE  n \in P
  <2>1. PICK x \in Round : x = f[n - 1]
    OBVIOUS
  <2>2. Fits(n - 1, x) /\ f[n] = NextRound(C, x)
    BY <1>3, <1>5, <2>1
  <2>3. PICK y : y = Pass(C, ResolveThreshold(C), x.st)
    OBVIOUS
  <2>4. x.st \in LoopState /\ x.st \in Within(C)
    BY <2>2 DEF Within
  <2>5. Within(C) \subseteq LoopState
    BY DEF Within
  <2>6. \A z \in Within(C), c \in ClaimsOf(C) :
           AdmitCertificate(C, ResolveThreshold(C), z, c) \in Within(C)
    BY WithinStep
  <2>7. y \in Within(C)
    BY <2>3, <2>4, <2>5, <2>6, PassIn
  <2>8. Extends(x.st, y)
    BY <2>3, <2>4, PassExtends
  <2>12. x.changed => f[n] = [st |-> y, changed |-> y # x.st]
    BY <2>2, <2>3 DEF NextRound
  <2>9. CASE x.changed /\ y # x.st
    <3>1. Measure(x.st) + 1 <= Measure(y) /\ Measure(x.st) \in Nat /\ Measure(y) \in Nat
      BY <2>4, <2>7, <2>8, <2>9, MeasureGrows, WithinBound
    <3>2. f[n].st = y /\ f[n].changed
      <4>1. f[n] = [st |-> y, changed |-> TRUE]
        BY <2>9, <2>12
      <4>2. f[n].st = y /\ f[n].changed = TRUE
        BY <4>1
      <4> QED BY <4>2, Zenon
    <3>3. Measure(x.st) >= (n - 1) + 2
      BY <2>2, <2>9
    <3>4. Measure(y) >= n + 2
      BY <3>1, <3>3
    <3> QED BY <2>7, <3>2, <3>4
  <2>10. CASE x.changed /\ y = x.st
    <3>1. f[n].st = y /\ ~f[n].changed
      <4>1. f[n] = [st |-> y, changed |-> FALSE]
        BY <2>10, <2>12
      <4>2. f[n].st = y /\ f[n].changed = FALSE
        BY <4>1
      <4> QED BY <4>2, Zenon
    <3>2. Fits(n, f[n])
      BY <2>3, <2>7, <2>10, <3>1
    <3> QED BY <3>2
  <2>11. CASE ~x.changed
    <3>1. f[n] = x
      BY <2>2, <2>11 DEF NextRound
    <3> QED BY <2>2, <2>11, <3>1
  <2> QED BY <2>9, <2>10, <2>11
<1>6. \A n \in 0..N : n \in P
  <2> HIDE DEF P
  <2> QED BY <1>4, <1>5, InductionUpTo
<1>7. Fits(N, f[N])
  BY <1>6
<1>8. f[N].st \in LoopState /\ Measure(f[N].st) \in Nat /\ Measure(f[N].st) <= Cardinality(C) + 2
  BY <1>7, WithinBound DEF Within
<1>9. ~f[N].changed
  BY <1>1, <1>2, <1>7, <1>8
<1> QED BY <1>3, <1>7, <1>8, <1>9

-----------------------------------------------------------------------------
(* What the loop derives is what the least self-justifying set says.       *)

LEMMA ThresholdType ==
    ASSUME NEW C, IsStorable(C)
    PROVE  ResolveThreshold(C) \in Nat \ {0}
<1>1. PICK S : S = {q \in OfKind(C, "policy") : q.issuer = Founder}
  OBVIOUS
<1>2. PICK T : T = {p.threshold : p \in S}
  OBVIOUS
<1>3. IsFiniteSet(S) /\ \A p \in S : p \in Certificate /\ p.kind = "policy"
  <2>1. S \in SUBSET C /\ IsFiniteSet(C)
    BY <1>1 DEF OfKind, IsStorable
  <2> QED BY <1>1, <2>1, FS_Subset DEF OfKind, IsStorable
<1>4. T \subseteq Nat
  BY <1>2, <1>3, CertificateFields
<1>5. IsFiniteSet(T)
  <2> DEFINE f == [p \in S |-> p.threshold]
  <2>1. f \in [S -> T] /\ \A t \in T : \E p \in S : f[p] = t
    BY <1>2
  <2> HIDE DEF f
  <2> QED BY <1>3, <2>1, ImageOfFinite
<1>6. IsFiniteSet({1} \union T) /\ {1} \union T \subseteq Nat /\ {1} \union T # {}
  BY <1>4, <1>5, OneMore
<1>7. PICK m \in {1} \union T : \A n \in {1} \union T : n <= m
  <2>1. PICK U : U = {1} \union T
    OBVIOUS
  <2> QED BY <1>6, <2>1, GreatestOfFinite
<1>8. \A n \in {1} \union T : m >= n
  BY <1>6, <1>7
<1>9. Max({1} \union T) \in {1} \union T /\ \A n \in {1} \union T : Max({1} \union T) >= n
  BY <1>8 DEF Max
<1>10. ResolveThreshold(C) = Max({1} \union T)
  BY <1>1, <1>2 DEF ResolveThreshold
<1>11. Max({1} \union T) \in Nat /\ Max({1} \union T) >= 1
  BY <1>6, <1>9
<1> QED BY <1>10, <1>11

(* More certificates justify more. *)
LEMMA JustifiedMonotone ==
    ASSUME NEW C, NEW D, C \subseteq D, ResolveThreshold(C) = ResolveThreshold(D),
           NEW A, NEW B, A \subseteq B, NEW c, c.kind \in ClaimKind, Justified(C, A, c)
    PROVE  Justified(D, B, c)
<1>1. \A k : OfKind(A, k) \subseteq OfKind(B, k) /\ OfKind(C, k) \subseteq OfKind(D, k)
  BY DEF OfKind
<1>2. \A d, u : ActsFor(A, d, u) => ActsFor(B, d, u)
  BY <1>1 DEF ActsFor
<1>3. \A u : WasAdmin(A, u) => WasAdmin(B, u)
  BY <1>1 DEF WasAdmin
<1>4. \A d : SpeaksAsAdmin(A, d) => SpeaksAsAdmin(B, d)
  BY <1>2, <1>3 DEF SpeaksAsAdmin
<1>5. CASE c.kind = "binding"
  BY <1>2, <1>4, <1>5 DEF Justified
<1>6. CASE c.kind = "grant"
  BY <1>1, <1>2, <1>4, <1>6 DEF Justified
<1>7. CASE c.kind = "proposal"
  <2>1. PICK voters \in kSubset(ResolveThreshold(C), Member) :
                  \A u \in voters :
                      /\ WasAdmin(A, u)
                      /\ \E a \in OfKind(C, "approval") :
                            a.proposal = c.digest /\ ActsFor(A, a.issuer, u)
    BY <1>7 DEF Justified
  <2>2. \A u \in voters :
                      /\ WasAdmin(B, u)
                      /\ \E a \in OfKind(D, "approval") :
                            a.proposal = c.digest /\ ActsFor(B, a.issuer, u)
    BY <1>1, <1>2, <1>3, <2>1
  <2>3. SpeaksAsAdmin(B, c.issuer)
    BY <1>4, <1>7 DEF Justified
  <2> QED BY <1>7, <2>1, <2>2, <2>3 DEF Justified
<1> QED BY <1>5, <1>6, <1>7 DEF ClaimKind

(* A set of certificates that contains what it justifies. *)
SelfJustified(C, A) == \A c \in ClaimsOf(C) : Justified(C, A, c) => c \in A

LEMMA AdmissibleIs ==
    ASSUME NEW C
    PROVE  Admissible(C) = {c \in ClaimsOf(C) :
                              \A A \in SUBSET ClaimsOf(C) : SelfJustified(C, A) => c \in A}
<1>1. ClaimsOf(C) = {c \in C : c.kind \in {"binding", "grant", "proposal"}}
  BY DEF ClaimsOf, ClaimKind
<1> QED BY <1>1 DEF Admissible, SelfJustified

LEMMA AdmissibleLeast ==
    ASSUME NEW C
    PROVE  /\ Admissible(C) \subseteq ClaimsOf(C)
           /\ SelfJustified(C, Admissible(C))
           /\ \A B \in SUBSET ClaimsOf(C) : SelfJustified(C, B) => Admissible(C) \subseteq B
<1>1. Admissible(C) \subseteq ClaimsOf(C)
  BY AdmissibleIs
<1>2. \A B \in SUBSET ClaimsOf(C) : SelfJustified(C, B) => Admissible(C) \subseteq B
  BY AdmissibleIs
<1>3. ASSUME NEW c \in ClaimsOf(C), Justified(C, Admissible(C), c)
      PROVE  c \in Admissible(C)
  <2>1. ASSUME NEW A \in SUBSET ClaimsOf(C), SelfJustified(C, A)
        PROVE  c \in A
    <3>1. Admissible(C) \subseteq A
      BY <1>2, <2>1
    <3>2. c.kind \in ClaimKind
      BY DEF ClaimsOf
    <3>3. Justified(C, A, c)
      BY <1>3, <3>1, <3>2, JustifiedMonotone
    <3> QED BY <2>1, <3>3 DEF SelfJustified
  <2> QED BY <2>1, AdmissibleIs
<1> QED BY <1>1, <1>2, <1>3 DEF SelfJustified

(* Nothing in st is there on its own authority. *)
Sound(A, st) ==
    /\ \A d \in DOMAIN st.user : ActsFor(A, d, st.user[d])
    /\ \A u \in st.admin : WasAdmin(A, u)
    /\ \A g \in st.executed : \E p \in OfKind(A, "proposal") : p.digest = g

LEMMA ApprovingFinite ==
    ASSUME NEW C, IsStorable(C), NEW st, NEW proposal
    PROVE  IsFiniteSet(ApprovingUsers(C, st, proposal))
<1>1. PICK S : S = {b \in OfKind(C, "approval") : b.proposal = proposal /\ b.issuer \in DOMAIN st.user}
  OBVIOUS
<1>2. PICK T : T = {st.user[a.issuer] : a \in S}
  OBVIOUS
<1>3. S \in SUBSET C /\ IsFiniteSet(C)
  BY <1>1 DEF OfKind, IsStorable
<1>4. IsFiniteSet(S)
  BY <1>3, FS_Subset
<1>5. IsFiniteSet(T)
  <2> DEFINE f == [a \in S |-> st.user[a.issuer]]
  <2>1. f \in [S -> T] /\ \A t \in T : \E a \in S : f[a] = t
    BY <1>2
  <2> HIDE DEF f
  <2> QED BY <1>4, <2>1, ImageOfFinite
<1>6. ApprovingUsers(C, st, proposal) = T \cap st.admin
  BY <1>1, <1>2 DEF ApprovingUsers
<1>7. T \cap st.admin \in SUBSET T
  OBVIOUS
<1> QED BY <1>5, <1>6, <1>7, FS_Subset

LEMMA SpeaksInState ==
    ASSUME NEW A, NEW st \in LoopState, Sound(A, st), NEW c, FromEverAdmin(st, c)
    PROVE  SpeaksAsAdmin(A, c.issuer)
<1>1. c.issuer \in DOMAIN st.user /\ st.user[c.issuer] \in st.admin
  BY DEF FromEverAdmin
<1>2. st.user[c.issuer] \in Member
  BY <1>1, LoopStates
<1> QED BY <1>1, <1>2 DEF Sound, SpeaksAsAdmin

(* An admission that happens is justified. *)
LEMMA AdmitJustified ==
    ASSUME NEW C, IsStorable(C), NEW A, A = Admissible(C),
           NEW st \in LoopState, Sound(A, st), NEW c \in ClaimsOf(C),
           NEW t, t = AdmitCertificate(C, ResolveThreshold(C), st, c)
    PROVE  t = st \/ c \in A
<1>1. c \in C /\ c \in Certificate /\ c.kind \in ClaimKind
  BY ClaimsAdmit
<1>2. A \subseteq ClaimsOf(C) /\ SelfJustified(C, A)
  BY AdmissibleLeast
<1>3. AdmitEffect(C, ResolveThreshold(C), st, c, t)
  BY <1>1, AdmitCases
<1>4. SUFFICES ASSUME t # st
               PROVE  Justified(C, A, c)
  BY <1>2 DEF SelfJustified
<1>5. CASE c.kind = "binding"
  <2>1. /\ c.issuer \in DOMAIN st.user
        /\ st.user[c.issuer] = c.user \/ st.user[c.issuer] \in st.admin
    BY <1>3, <1>4, <1>5 DEF AdmitEffect
  <2>2. CASE st.user[c.issuer] = c.user
    BY <1>5, <2>1, <2>2 DEF Justified, Sound
  <2>3. CASE st.user[c.issuer] \in st.admin
    <3>1. FromEverAdmin(st, c)
      BY <2>1, <2>3 DEF FromEverAdmin
    <3>2. SpeaksAsAdmin(A, c.issuer)
      BY <3>1, SpeaksInState
    <3> QED BY <1>5, <3>2 DEF Justified
  <2> QED BY <2>1, <2>2, <2>3
<1>6. CASE c.kind = "proposal"
  <2>1. PICK S : S = ApprovingUsers(C, st, c.digest)
    OBVIOUS
  <2>2. FromEverAdmin(st, c) /\ Cardinality(S) >= ResolveThreshold(C)
    BY <1>3, <1>4, <1>6, <2>1 DEF AdmitEffect
  <2>3. SpeaksAsAdmin(A, c.issuer)
    BY <2>2, SpeaksInState
  <2>4. IsFiniteSet(S) /\ Cardinality(S) \in Nat /\ ResolveThreshold(C) \in Nat
    BY <2>1, ApprovingFinite, FS_CardinalityType, ThresholdType
  <2>5. PICK voters \in SUBSET S : Cardinality(voters) = ResolveThreshold(C)
    BY <2>2, <2>4, SubsetOfSize
  <2>6. ASSUME NEW u \in S
        PROVE  /\ u \in Member /\ WasAdmin(A, u)
               /\ \E a \in OfKind(C, "approval") :
                     a.proposal = c.digest /\ ActsFor(A, a.issuer, u)
    <3>1. u \in st.admin
      BY <2>1 DEF ApprovingUsers
    <3>2. PICK a \in OfKind(C, "approval") :
             a.proposal = c.digest /\ a.issuer \in DOMAIN st.user /\ u = st.user[a.issuer]
      BY <2>1 DEF ApprovingUsers
    <3>3. ActsFor(A, a.issuer, u)
      BY <3>2 DEF Sound
    <3> QED BY <3>1, <3>2, <3>3, LoopStates DEF Sound
  <2>7. voters \in kSubset(ResolveThreshold(C), Member)
    BY <2>5, <2>6 DEF kSubset
  <2>8. \A u \in voters : /\ WasAdmin(A, u)
                          /\ \E a \in OfKind(C, "approval") :
                                a.proposal = c.digest /\ ActsFor(A, a.issuer, u)
    BY <2>5, <2>6
  <2> QED BY <1>6, <2>3, <2>7, <2>8 DEF Justified
<1>7. CASE c.kind = "grant"
  <2>1. /\ c.capability = "Admin" /\ FromEverAdmin(st, c)
        /\ GrantIsAuthorised(C, ResolveThreshold(C), st.executed, st.user[c.issuer], c)
    BY <1>3, <1>4, <1>7 DEF AdmitEffect
  <2>2. SpeaksAsAdmin(A, c.issuer)
    BY <2>1, SpeaksInState
  <2>3. ResolveThreshold(C) <= 1 => ResolveThreshold(C) = 1
    BY ThresholdType
  <2>4. st.user[c.issuer] = Founder => ActsFor(A, c.issuer, Founder)
    BY <2>1 DEF FromEverAdmin, Sound
  <2>5. IsExecutedAction(C, st.executed, SetRoleAction(c.subject, c.capability))
        => \E p \in OfKind(A, "proposal") : p.action = SetRoleAction(c.subject, "Admin")
    <3> SUFFICES ASSUME NEW p \in OfKind(C, "proposal"), p.digest \in st.executed,
                        p.action = SetRoleAction(c.subject, "Admin")
                 PROVE  p \in OfKind(A, "proposal")
      BY <2>1 DEF IsExecutedAction
    <3>1. PICK q \in OfKind(A, "proposal") : q.digest = p.digest
      BY DEF Sound
    <3>2. p \in C /\ q \in C
      BY <1>2, <3>1 DEF OfKind, ClaimsOf
    <3>3. p = q
      BY <3>1, <3>2 DEF IsStorable, Compared, OfKind
    <3> QED BY <3>1, <3>3
  <2>6. \/ ResolveThreshold(C) = 1
        \/ ActsFor(A, c.issuer, Founder)
        \/ \E p \in OfKind(A, "proposal") : p.action = SetRoleAction(c.subject, "Admin")
    BY <2>1, <2>3, <2>4, <2>5 DEF GrantIsAuthorised
  <2> QED BY <1>7, <2>1, <2>2, <2>6 DEF Justified
<1> QED BY <1>1, <1>5, <1>6, <1>7 DEF ClaimKind

LEMMA SoundStep ==
    ASSUME NEW C, IsStorable(C), NEW A, A = Admissible(C),
           NEW st \in LoopState, Sound(A, st), NEW c \in ClaimsOf(C),
           NEW t, t = AdmitCertificate(C, ResolveThreshold(C), st, c)
    PROVE  Sound(A, t)
<1>1. c \in C /\ c \in Certificate /\ c.kind \in ClaimKind
  BY ClaimsAdmit
<1>2. AdmitEffect(C, ResolveThreshold(C), st, c, t)
  BY <1>1, AdmitCases
<1>3. SUFFICES ASSUME t # st, c \in A
               PROVE  Sound(A, t)
  BY AdmitJustified
<1>4. c \in OfKind(A, c.kind)
  BY <1>3 DEF OfKind
<1>5. CASE c.kind = "binding"
  <2>1. /\ DOMAIN t.user = DOMAIN st.user \union {c.device}
        /\ \A d \in DOMAIN st.user : t.user[d] = st.user[d]
        /\ t.user[c.device] = c.user
        /\ t.admin = st.admin /\ t.executed = st.executed
    BY <1>2, <1>3, <1>5 DEF AdmitEffect
  <2>2. ActsFor(A, c.device, c.user)
    BY <1>4, <1>5 DEF ActsFor
  <2> QED BY <2>1, <2>2 DEF Sound
<1>6. CASE c.kind = "proposal"
  BY <1>2, <1>3, <1>4, <1>6 DEF AdmitEffect, Sound
<1>7. CASE c.kind = "grant"
  <2>1. t.user = st.user /\ t.executed = st.executed /\ t.admin = st.admin \union {c.subject}
    BY <1>2, <1>3, <1>7 DEF AdmitEffect
  <2>2. WasAdmin(A, c.subject)
    BY <1>4, <1>7 DEF WasAdmin
  <2> QED BY <2>1, <2>2 DEF Sound
<1> QED BY <1>1, <1>5, <1>6, <1>7 DEF ClaimKind

LEMMA FixpointSound ==
    ASSUME NEW C, IsStorable(C), NEW A, A = Admissible(C)
    PROVE  /\ Fixpoint(C) \in LoopState /\ Sound(A, Fixpoint(C))
           /\ Extends(Seed, Fixpoint(C))
<1> DEFINE I == {st \in LoopState : Sound(A, st) /\ Extends(Seed, st)}
<1>1. I \subseteq LoopState
  OBVIOUS
<1>2. Seed \in I
  <2>1. Extends(Seed, Seed)
    BY SeedType, ExtendsOrder
  <2>2. Sound(A, Seed)
    BY DEF Sound, Seed, ActsFor, WasAdmin
  <2> QED BY <2>1, <2>2, SeedType
<1>3. ASSUME NEW x \in I, NEW c \in ClaimsOf(C)
      PROVE  AdmitCertificate(C, ResolveThreshold(C), x, c) \in I
  <2>1. PICK t : t = AdmitCertificate(C, ResolveThreshold(C), x, c)
    OBVIOUS
  <2>2. t \in LoopState /\ Extends(x, t)
    BY <2>1, ClaimsAdmit
  <2>3. Sound(A, t)
    BY <2>1, SoundStep
  <2>4. Extends(Seed, t)
    BY <2>2, SeedType, ExtendsOrder
  <2> QED BY <2>1, <2>2, <2>3, <2>4
<1>4. Fixpoint(C) \in I
  <2> HIDE DEF I
  <2> QED BY <1>1, <1>2, <1>3, FixpointIn
<1> QED BY <1>4

(* What the final state of the loop has admitted. *)
Supported(C, st) ==
    {c \in ClaimsOf(C) :
        /\ c.kind = "binding" => c.device \in DOMAIN st.user /\ st.user[c.device] = c.user
        /\ c.kind = "grant" => c.subject \in st.admin
        /\ c.kind = "proposal" => c.digest \in st.executed}

(* Nothing justified is missed. *)
LEMMA AdmittedSelfJustified ==
    ASSUME NEW C, IsStorable(C), ConflictFree(C), NEW st, st = Fixpoint(C)
    PROVE  SelfJustified(C, Supported(C, st))
<1>1. PICK A : A = Admissible(C)
  OBVIOUS
<1>2. PICK B : B = Supported(C, st)
  OBVIOUS
<1>3. st \in LoopState /\ Sound(A, st) /\ Extends(Seed, st)
  BY <1>1, FixpointSound
<1>4. Pass(C, ResolveThreshold(C), st) = st
  BY FixpointReached
<1>5. Founder \in DOMAIN st.user /\ st.user[Founder] = Founder /\ Founder \in st.admin
  BY <1>3 DEF Extends, Seed
<1>6. \A d, u : ActsFor(B, d, u) => d \in DOMAIN st.user /\ st.user[d] = u
  BY <1>2, <1>5 DEF ActsFor, OfKind, Supported
<1>7. \A u : WasAdmin(B, u) => u \in st.admin
  BY <1>2, <1>5 DEF WasAdmin, OfKind, Supported
<1>8. \A c : SpeaksAsAdmin(B, c.issuer) => FromEverAdmin(st, c)
  BY <1>6, <1>7 DEF SpeaksAsAdmin, FromEverAdmin
<1>9. SUFFICES ASSUME NEW c \in ClaimsOf(C), Justified(C, B, c)
               PROVE  c \in B
  BY <1>2 DEF SelfJustified
<1>10. AdmitCertificate(C, ResolveThreshold(C), st, c) = st
  BY <1>3, <1>4, PassQuiet
<1>11. c \in C /\ c \in Certificate /\ c.kind \in ClaimKind
  BY <1>3, ClaimsAdmit
<1>12. CASE c.kind = "binding"
  <2>1. ActsFor(B, c.issuer, c.user) \/ SpeaksAsAdmin(B, c.issuer)
    BY <1>9, <1>12 DEF Justified
  <2>2. /\ c.issuer \in DOMAIN st.user
        /\ st.user[c.issuer] = c.user \/ st.user[c.issuer] \in st.admin
    BY <1>6, <1>8, <2>1 DEF FromEverAdmin
  <2>3. c.device \in DOMAIN st.user
    BY <1>3, <1>10, <1>12, <2>2, AdmitNothing
  <2>4. ActsFor(A, c.device, st.user[c.device])
    BY <1>3, <2>3 DEF Sound
  <2>5. c \in OfKind(C, "binding")
    BY <1>11, <1>12 DEF OfKind
  <2>6. CASE c.device = Founder /\ st.user[c.device] = Founder
    <3>1. PICK b : b = Binding(Founder, Founder, Founder, 0)
      OBVIOUS
    <3>2. b.device = Founder /\ b.user = Founder
      BY <3>1 DEF Binding
    <3>3. b.device = c.device => b.user = c.user
      BY <2>5, <3>1 DEF ConflictFree
    <3> QED BY <1>2, <1>9, <1>12, <2>3, <2>6, <3>2, <3>3 DEF Supported
  <2>7. CASE \E b \in OfKind(A, "binding") : b.device = c.device /\ b.user = st.user[c.device]
    <3>1. PICK b \in OfKind(A, "binding") : b.device = c.device /\ b.user = st.user[c.device]
      BY <2>7
    <3>2. A \subseteq C
      BY <1>1, AdmissibleLeast DEF ClaimsOf
    <3>3. b \in OfKind(C, "binding")
      BY <3>1, <3>2 DEF OfKind
    <3>4. b.user = c.user
      BY <2>5, <3>1, <3>3 DEF ConflictFree
    <3> QED BY <1>2, <1>9, <1>12, <2>3, <3>1, <3>4 DEF Supported
  <2> QED BY <2>4, <2>6, <2>7 DEF ActsFor
<1>13. CASE c.kind = "grant"
  <2>1. /\ c.capability = "Admin" /\ SpeaksAsAdmin(B, c.issuer)
        /\ \/ ResolveThreshold(C) = 1
           \/ ActsFor(B, c.issuer, Founder)
           \/ \E p \in OfKind(B, "proposal") : p.action = SetRoleAction(c.subject, "Admin")
    BY <1>9, <1>13 DEF Justified
  <2>2. FromEverAdmin(st, c)
    BY <1>8, <2>1
  <2>3. ASSUME NEW p \in OfKind(B, "proposal")
        PROVE  p \in OfKind(C, "proposal") /\ p.digest \in st.executed
    BY <1>2 DEF OfKind, Supported, ClaimsOf
  <2>4. GrantIsAuthorised(C, ResolveThreshold(C), st.executed, st.user[c.issuer], c)
    BY <1>6, <2>1, <2>3 DEF GrantIsAuthorised, IsExecutedAction
  <2>5. c.subject \in st.admin
    BY <1>3, <1>10, <1>13, <2>1, <2>2, <2>4, AdmitNothing
  <2> QED BY <1>2, <1>9, <1>13, <2>5 DEF Supported
<1>14. CASE c.kind = "proposal"
  <2>1. SpeaksAsAdmin(B, c.issuer)
    BY <1>9, <1>14 DEF Justified
  <2>2. FromEverAdmin(st, c)
    BY <1>8, <2>1
  <2>3. PICK voters \in kSubset(ResolveThreshold(C), Member) :
           \A u \in voters : /\ WasAdmin(B, u)
                             /\ \E a \in OfKind(C, "approval") :
                                   a.proposal = c.digest /\ ActsFor(B, a.issuer, u)
    BY <1>9, <1>14 DEF Justified
  <2>4. PICK S : S = ApprovingUsers(C, st, c.digest)
    OBVIOUS
  <2>5. ASSUME NEW u \in voters
        PROVE  u \in S
    <3>1. PICK a \in OfKind(C, "approval") : a.proposal = c.digest /\ ActsFor(B, a.issuer, u)
      BY <2>3
    <3>2. a.issuer \in DOMAIN st.user /\ st.user[a.issuer] = u
      BY <1>6, <3>1
    <3>3. u \in st.admin
      BY <1>7, <2>3
    <3> QED BY <2>4, <3>1, <3>2, <3>3 DEF ApprovingUsers
  <2>6. IsFiniteSet(S) /\ voters \in SUBSET S /\ Cardinality(voters) = ResolveThreshold(C)
    BY <2>3, <2>4, <2>5, ApprovingFinite DEF kSubset
  <2>7. /\ Cardinality(voters) <= Cardinality(S)
        /\ ResolveThreshold(C) \in Nat /\ Cardinality(S) \in Nat
    BY <2>6, FS_Subset, FS_CardinalityType, ThresholdType
  <2>8. Cardinality(S) >= ResolveThreshold(C)
    BY <2>6, <2>7
  <2>9. c.digest \in st.executed
    BY <1>3, <1>10, <1>14, <2>2, <2>4, <2>8, AdmitNothing
  <2> QED BY <1>2, <1>9, <1>14, <2>9 DEF Supported
<1> QED BY <1>11, <1>12, <1>13, <1>14 DEF ClaimKind

(* The loop of recompute derives exactly what the least self-justifying    *)
(* set of certificates says, for every set a store can hold in which no    *)
(* device is bound to two users.                                           *)
THEOREM FixpointIsLeast ==
    ASSUME NEW C, IsStorable(C), ConflictFree(C), NEW st, st = Fixpoint(C),
           NEW A, A = Admissible(C)
    PROVE  /\ st.executed = {p.digest : p \in OfKind(A, "proposal")}
           /\ st.admin = {u \in Member : WasAdmin(A, u)}
           /\ \A d, u \in Member :
                 ActsFor(A, d, u) <=> d \in DOMAIN st.user /\ st.user[d] = u
<1>1. st \in LoopState /\ Sound(A, st) /\ Extends(Seed, st)
  BY FixpointSound
<1>2. Founder \in DOMAIN st.user /\ st.user[Founder] = Founder /\ Founder \in st.admin
  BY <1>1 DEF Extends, Seed
<1>3. Supported(C, st) \in SUBSET ClaimsOf(C)
  BY DEF Supported
<1>4. A \subseteq Supported(C, st)
  BY <1>3, AdmittedSelfJustified, AdmissibleLeast
<1>5. \A c \in A :
        /\ c.kind = "binding" => c.device \in DOMAIN st.user /\ st.user[c.device] = c.user
        /\ c.kind = "grant" => c.subject \in st.admin
        /\ c.kind = "proposal" => c.digest \in st.executed
  BY <1>4 DEF Supported
<1>6. st.executed = {p.digest : p \in OfKind(A, "proposal")}
  <2>1. \A g \in st.executed : \E p \in OfKind(A, "proposal") : p.digest = g
    BY <1>1 DEF Sound
  <2>2. \A p \in OfKind(A, "proposal") : p.digest \in st.executed
    BY <1>5 DEF OfKind
  <2> QED BY <2>1, <2>2
<1>7. st.admin = {u \in Member : WasAdmin(A, u)}
  <2>1. \A u \in st.admin : u \in Member /\ WasAdmin(A, u)
    BY <1>1, LoopStates DEF Sound
  <2>2. \A u : WasAdmin(A, u) => u \in st.admin
    BY <1>2, <1>5 DEF WasAdmin, OfKind
  <2> QED BY <2>1, <2>2
<1>8. \A d, u : ActsFor(A, d, u) => d \in DOMAIN st.user /\ st.user[d] = u
  BY <1>2, <1>5 DEF ActsFor, OfKind
<1>9. \A d \in DOMAIN st.user : ActsFor(A, d, st.user[d])
  BY <1>1 DEF Sound
<1> QED BY <1>6, <1>7, <1>8, <1>9

-----------------------------------------------------------------------------
(* Roles.                                                                  *)

LEMMA DecisionFacts ==
    ASSUME NEW C, IsStorable(C), NEW threshold, NEW st, NEW D, D = RoleDecisions(C, threshold, st)
    PROVE  /\ IsFiniteSet(D)
           /\ \A d \in D : d.user \in Member /\ d.role \in Role /\ d.seq \in Nat /\ d.digest \in Nat
           /\ \A d, e \in D : d.digest = e.digest => d = e
<1> DEFINE OfGrant(g) == [user |-> g.subject, role |-> g.capability, seq |-> g.seq,
                          digest |-> g.digest]
           OfProposal(p) == [user |-> p.action.user, role |-> p.action.role, seq |-> p.seq,
                             digest |-> p.digest]
<1>1. PICK G : G = {h \in OfKind(C, "grant") :
                      /\ FromEverAdmin(st, h)
                      /\ GrantIsAuthorised(C, threshold, st.executed, st.user[h.issuer], h)}
  OBVIOUS
<1>2. PICK P : P = {q \in OfKind(C, "proposal") : q.digest \in st.executed /\ q.action.do = "setrole"}
  OBVIOUS
<1>3. PICK X, Y, r : /\ X = {OfGrant(g) : g \in G} /\ Y = {OfProposal(p) : p \in P}
                     /\ r = [user |-> Founder, role |-> "Admin", seq |-> 0, digest |-> 0]
  OBVIOUS
<1>4. D = (X \union Y) \union {r}
  BY <1>1, <1>2, <1>3 DEF RoleDecisions
<1>5. /\ G \in SUBSET C /\ P \in SUBSET C /\ IsFiniteSet(C)
      /\ \A g \in G : g \in Certificate /\ g.kind = "grant"
      /\ \A p \in P : p \in Certificate /\ p.kind = "proposal" /\ p.action.do = "setrole"
  BY <1>1, <1>2 DEF OfKind, IsStorable
<1>6. IsFiniteSet(X)
  <2> DEFINE f == [g \in G |-> OfGrant(g)]
  <2>1. f \in [G -> X] /\ \A t \in X : \E g \in G : f[g] = t
    BY <1>3
  <2>2. IsFiniteSet(G)
    BY <1>5, FS_Subset
  <2> HIDE DEF f, OfGrant
  <2> QED BY <2>1, <2>2, ImageOfFinite
<1>7. IsFiniteSet(Y)
  <2> DEFINE f == [p \in P |-> OfProposal(p)]
  <2>1. f \in [P -> Y] /\ \A t \in Y : \E p \in P : f[p] = t
    BY <1>3
  <2>2. IsFiniteSet(P)
    BY <1>5, FS_Subset
  <2> HIDE DEF f, OfProposal
  <2> QED BY <2>1, <2>2, ImageOfFinite
<1>8. IsFiniteSet(D)
  <2>1. IsFiniteSet(X \union Y)
    BY <1>6, <1>7, FS_Union
  <2>2. (X \union Y) \union {r} = {r} \union (X \union Y)
    OBVIOUS
  <2> QED BY <1>4, <2>1, <2>2, OneMore
<1>9. \A g \in G : /\ OfGrant(g).user \in Member /\ OfGrant(g).role \in Role
                   /\ OfGrant(g).seq \in Nat /\ OfGrant(g).digest = g.digest /\ g.digest \in Digest
  BY <1>5, CertificateFields
<1>10. \A p \in P : /\ OfProposal(p).user \in Member /\ OfProposal(p).role \in Role
                    /\ OfProposal(p).seq \in Nat /\ OfProposal(p).digest = p.digest
                    /\ p.digest \in Digest
  <2> SUFFICES ASSUME NEW p \in P
               PROVE  /\ p.action.user \in Member /\ p.action.role \in Role
                      /\ p.seq \in Nat /\ p.digest \in Digest
    OBVIOUS
  <2>1. p.action \in AdminAction /\ p.seq \in Nat /\ p.digest \in Digest /\ p.action.do = "setrole"
    BY <1>5, CertificateFields
  <2> QED BY <2>1 DEF AdminAction
<1>11. r.user \in Member /\ r.role \in Role /\ r.seq \in Nat /\ r.digest = 0
  BY <1>3, FounderAssumption DEF Role
<1>12. \A c, d \in G \union P : c.digest = d.digest => c = d
  BY <1>5 DEF IsStorable, Compared, Decision
<1>13. \A d \in D : \/ \E g \in G : d = OfGrant(g)
                    \/ \E p \in P : d = OfProposal(p)
                    \/ d = r
  BY <1>3, <1>4
<1> HIDE DEF OfGrant, OfProposal
<1>14. \A d \in D : d.user \in Member /\ d.role \in Role /\ d.seq \in Nat /\ d.digest \in Nat
  BY <1>9, <1>10, <1>11, <1>13 DEF Digest
<1>15. ASSUME NEW d \in D, NEW e \in D, d.digest = e.digest
       PROVE  d = e
  <2>1. \A g \in G, p \in P : g # p
    BY <1>5
  <2> QED BY <1>5, <1>9, <1>10, <1>11, <1>12, <1>13, <1>15, <2>1 DEF Digest
<1> QED BY <1>8, <1>14, <1>15

(* Among finitely many decisions one supersedes the others. *)
LEMMA LastDecisionExists ==
    ASSUME NEW D, IsFiniteSet(D), NEW u, \E d \in D : d.user = u,
           \A d \in D : d.seq \in Nat /\ d.digest \in Nat,
           \A d, e \in D : d.digest = e.digest => d = e
    PROVE  \E d \in D : d.user = u /\ \A e \in D \ {d} : e.user = u => Supersedes(d, e)
<1>1. PICK E : E = {d \in D : d.user = u}
  OBVIOUS
<1>2. PICK S : S = {d.seq : d \in E}
  OBVIOUS
<1>3. E \in SUBSET D /\ IsFiniteSet(E)
  <2>1. E \in SUBSET D
    BY <1>1
  <2> QED BY <2>1, FS_Subset
<1>4. IsFiniteSet(S) /\ S \subseteq Nat /\ S # {}
  <2> DEFINE f == [d \in E |-> d.seq]
  <2>1. f \in [E -> S] /\ \A t \in S : \E d \in E : f[d] = t
    BY <1>2
  <2>2. IsFiniteSet(S)
    <3> HIDE DEF f
    <3> QED BY <1>3, <2>1, ImageOfFinite
  <2> QED BY <1>1, <1>2, <2>2
<1>5. PICK m \in S : \A n \in S : n <= m
  BY <1>4, GreatestOfFinite
<1>6. PICK F : F = {d \in E : d.seq = m}
  OBVIOUS
<1>7. PICK G : G = {d.digest : d \in F}
  OBVIOUS
<1>8. IsFiniteSet(G) /\ G \subseteq Nat /\ G # {}
  <2> DEFINE f == [d \in F |-> d.digest]
  <2>1. f \in [F -> G] /\ \A t \in G : \E d \in F : f[d] = t
    BY <1>7
  <2>2. F \in SUBSET E
    BY <1>6
  <2>3. IsFiniteSet(F)
    BY <1>3, <2>2, FS_Subset
  <2>4. IsFiniteSet(G)
    <3> HIDE DEF f
    <3> QED BY <2>1, <2>3, ImageOfFinite
  <2> QED BY <1>2, <1>3, <1>5, <1>6, <1>7, <2>4
<1>9. PICK k \in G : \A n \in G : n <= k
  BY <1>8, GreatestOfFinite
<1>10. PICK d \in F : d.digest = k
  BY <1>7
<1>11. d \in D /\ d.user = u /\ d.seq = m /\ d.seq \in Nat /\ d.digest \in Nat
  BY <1>1, <1>6, <1>10
<1>12. ASSUME NEW e \in D \ {d}, e.user = u
       PROVE  Supersedes(d, e)
  <2>1. e \in E /\ e.seq \in Nat /\ e.digest \in Nat /\ e.digest # d.digest
    BY <1>1, <1>11, <1>12
  <2>2. e.seq <= m
    BY <1>2, <1>5, <2>1
  <2>3. CASE e.seq = m
    <3>1. e.digest <= k
      BY <1>6, <1>7, <1>9, <2>1, <2>3
    <3> QED BY <1>10, <1>11, <2>1, <2>3, <3>1 DEF Supersedes
  <2>4. CASE e.seq # m
    BY <1>11, <2>1, <2>2, <2>4 DEF Supersedes
  <2> QED BY <2>3, <2>4
<1> QED BY <1>11, <1>12

(* The roles R are those of the decisions D: whoever is decided on has one. *)
Decides(D, R) ==
    /\ \A d \in D : d.user \in DOMAIN R
    /\ \A u \in DOMAIN R : \E d \in D : d.user = u /\ d.role = R[u]

LEMMA RoleDecided ==
    ASSUME NEW C, IsStorable(C), NEW threshold, NEW st, NEW R, R = ResolveRoles(C, threshold, st),
           NEW D, D = RoleDecisions(C, threshold, st)
    PROVE  Decides(D, R)
<1>2. /\ IsFiniteSet(D)
      /\ \A d \in D : d.user \in Member /\ d.role \in Role /\ d.seq \in Nat /\ d.digest \in Nat
      /\ \A d, e \in D : d.digest = e.digest => d = e
  BY DecisionFacts
<1>3. R = LastDecisions(D)
  BY DEF ResolveRoles
<1>4. DOMAIN R = {d.user : d \in D}
  BY <1>3 DEF LastDecisions
<1>5. ASSUME NEW u \in DOMAIN R
      PROVE  \E d \in D : d.user = u /\ d.role = R[u]
  <2> DEFINE Last(d) == d \in D /\ d.user = u /\ \A e \in D \ {d} : e.user = u => Supersedes(d, e)
  <2>1. \E d \in D : d.user = u
    BY <1>4
  <2>2. \E d \in D : Last(d)
    BY <1>2, <2>1, LastDecisionExists
  <2>3. PICK d : d = CHOOSE e \in D : e.user = u /\ \A f \in D \ {e} : f.user = u => Supersedes(e, f)
    OBVIOUS
  <2>4. d \in D /\ d.user = u
    BY <2>2, <2>3
  <2>5. R[u] = d.role
    BY <1>3, <1>4, <2>3 DEF LastDecisions
  <2> QED BY <2>4, <2>5
<1> QED BY <1>4, <1>5 DEF Decides

LEMMA RolesType ==
    ASSUME NEW C, IsStorable(C), NEW threshold, NEW st, NEW R, R = ResolveRoles(C, threshold, st)
    PROVE  DOMAIN R \subseteq Member /\ \A u \in DOMAIN R : R[u] \in Role
<1>1. PICK D : D = RoleDecisions(C, threshold, st)
  OBVIOUS
<1>2. \A d \in D : d.user \in Member /\ d.role \in Role
  BY <1>1, DecisionFacts
<1>3. Decides(D, R)
  BY <1>1, RoleDecided
<1> QED BY <1>2, <1>3 DEF Decides

-----------------------------------------------------------------------------
(* Bootstrapping.                                                          *)

(* A grant for someone else, signed by a device of the founder. *)
FounderGranted(C, st) ==
    \E g \in OfKind(C, "grant") : /\ g.issuer \in DOMAIN st.user
                                  /\ st.user[g.issuer] = Founder
                                  /\ g.subject # Founder

(* Above a threshold of one, nothing moves before the founder grants. *)
LEMMA FixpointBootstraps ==
    ASSUME NEW C, IsStorable(C), ResolveThreshold(C) > 1, NEW st, st = Fixpoint(C),
           ~FounderGranted(C, st)
    PROVE  st.admin = {Founder} /\ st.executed = {}
<1> DEFINE I == {x \in LoopState : (x.admin = {Founder} /\ x.executed = {}) \/ FounderGranted(C, x)}
<1>1. I \subseteq LoopState
  OBVIOUS
<1>2. Seed \in I
  BY SeedType DEF Seed
<1>3. ASSUME NEW x \in I, NEW c \in ClaimsOf(C)
      PROVE  AdmitCertificate(C, ResolveThreshold(C), x, c) \in I
  <2>1. PICK t : t = AdmitCertificate(C, ResolveThreshold(C), x, c)
    OBVIOUS
  <2>2. c \in C /\ c \in Certificate /\ c.kind \in ClaimKind /\ t \in LoopState /\ Extends(x, t)
    BY <2>1, ClaimsAdmit
  <2>3. CASE FounderGranted(C, x)
    <3>1. FounderGranted(C, t)
      BY <2>2, <2>3 DEF FounderGranted, Extends
    <3> QED BY <2>1, <2>2, <3>1
  <2>4. CASE x.admin = {Founder} /\ x.executed = {}
    <3>1. AdmitEffect(C, ResolveThreshold(C), x, c, t)
      BY <2>1, <2>2, AdmitCases
    <3>2. ~(c.kind = "proposal" /\ Cardinality(ApprovingUsers(C, x, c.digest)) >= ResolveThreshold(C))
      <4>1. ApprovingUsers(C, x, c.digest) \in SUBSET {Founder}
        BY <2>4 DEF ApprovingUsers
      <4>2. IsFiniteSet({Founder}) /\ Cardinality({Founder}) = 1
        BY FS_Singleton
      <4>3. /\ Cardinality(ApprovingUsers(C, x, c.digest)) <= 1
            /\ IsFiniteSet(ApprovingUsers(C, x, c.digest))
        BY <4>1, <4>2, FS_Subset
      <4>4. Cardinality(ApprovingUsers(C, x, c.digest)) \in Nat /\ ResolveThreshold(C) \in Nat
        BY <4>3, FS_CardinalityType, ThresholdType
      <4> QED BY <4>3, <4>4
    <3>3. \/ t.admin = {Founder} /\ t.executed = {}
          \/ /\ c.kind = "grant" /\ FromEverAdmin(x, c) /\ t.user = x.user
             /\ t.executed = {} /\ t.admin = {Founder} \union {c.subject}
      BY <2>4, <3>1, <3>2 DEF AdmitEffect
    <3>4. CASE c.kind = "grant" /\ FromEverAdmin(x, c) /\ t.user = x.user /\ c.subject # Founder
      <4>1. c.issuer \in DOMAIN t.user /\ t.user[c.issuer] = Founder /\ c \in OfKind(C, "grant")
        BY <2>2, <2>4, <3>4 DEF FromEverAdmin, OfKind
      <4>2. FounderGranted(C, t)
        BY <3>4, <4>1 DEF FounderGranted
      <4> QED BY <2>1, <2>2, <4>2
    <3>5. CASE t.admin = {Founder} /\ t.executed = {}
      BY <2>1, <2>2, <3>5
    <3>6. {Founder} \union {Founder} = {Founder}
      OBVIOUS
    <3> QED BY <3>3, <3>4, <3>5, <3>6
  <2> QED BY <2>3, <2>4
<1>4. Fixpoint(C) \in I
  <2> HIDE DEF I
  <2> QED BY <1>1, <1>2, <1>3, FixpointIn
<1> QED BY <1>4

LEMMA FounderDecidedOn ==
    ASSUME NEW C, NEW threshold, NEW st, st.admin = {Founder}, st.executed = {},
           ~FounderGranted(C, st), NEW R, R = ResolveRoles(C, threshold, st)
    PROVE  DOMAIN R = {Founder}
<1>1. PICK D : D = RoleDecisions(C, threshold, st)
  OBVIOUS
<1>2. DOMAIN R = {d.user : d \in D}
  BY <1>1 DEF ResolveRoles, LastDecisions
<1>3. \A g \in OfKind(C, "grant") : FromEverAdmin(st, g) => g.subject = Founder
  BY DEF FounderGranted, FromEverAdmin
<1>4. \A d \in D : d.user = Founder
  BY <1>1, <1>3 DEF RoleDecisions
<1>5. \E d \in D : d.user = Founder
  <2>1. PICK r : r = [user |-> Founder, role |-> "Admin", seq |-> 0, digest |-> 0]
    OBVIOUS
  <2>2. r \in D /\ r.user = Founder
    BY <1>1, <2>1 DEF RoleDecisions
  <2> QED BY <2>2
<1> QED BY <1>2, <1>4, <1>5

-----------------------------------------------------------------------------
(* The store.                                                              *)

(* What is derived is derived from all that is stored, and a store that is *)
(* not empty holds the founder's certificates.                             *)
StoreInv ==
    /\ issued \in Histories
    /\ stored \subseteq Bundle \union issued
    /\ stored # {} => Bundle \subseteq stored
    /\ derived = Closure(stored)

LEMMA StorableSubset ==
    ASSUME NEW D, IsStorable(D), NEW C, C \subseteq D
    PROVE  IsStorable(C)
<1>1. C \in SUBSET D /\ IsFiniteSet(D)
  BY DEF IsStorable
<1>2. IsFiniteSet(C)
  BY <1>1, FS_Subset
<1> QED BY <1>2 DEF IsStorable

LEMMA StoredIsStorable ==
    ASSUME StoreInv
    PROVE  IsStorable(stored)
BY StoreAssumption, StorableSubset DEF StoreInv

LEMMA AcceptStep ==
    ASSUME StoreInv, NEW batch, batch \subseteq Bundle \union issued, Accept(batch),
           UNCHANGED issued, stored' # {} => Bundle \subseteq stored'
    PROVE  StoreInv'
<1>1. stored' = stored \union batch
  BY DEF Accept
<1>2. derived' = Closure(stored')
  <2>1. CASE batch \subseteq stored
    <3>1. stored' = stored /\ derived' = derived
      BY <1>1, <2>1 DEF Accept
    <3> QED BY <3>1 DEF StoreInv
  <2>2. CASE ~(batch \subseteq stored)
    BY <2>2 DEF Accept
  <2> QED BY <2>1, <2>2
<1> QED BY <1>1, <1>2 DEF StoreInv

LEMMA StoreKeeps ==
    ASSUME StoreInv, [StoreNext]_storeVars
    PROVE  StoreInv' /\ issued' = issued /\ stored \subseteq stored'
<1>1. CASE UNCHANGED storeVars
  BY <1>1 DEF StoreInv, storeVars
<1>2. ASSUME NEW batch \in SUBSET issued, Open(batch)
      PROVE  StoreInv' /\ issued' = issued /\ stored \subseteq stored'
  <2>1. PICK all : all = Bundle \union batch
    OBVIOUS
  <2>2. Accept(all) /\ UNCHANGED issued /\ all \subseteq Bundle \union issued
    BY <1>2, <2>1 DEF Open
  <2>3. stored' = stored \union all
    BY <2>2 DEF Accept
  <2> QED BY <2>1, <2>2, <2>3, AcceptStep
<1>3. ASSUME NEW batch \in SUBSET issued, stored # {}, Accept(batch), UNCHANGED issued
      PROVE  StoreInv' /\ issued' = issued /\ stored \subseteq stored'
  <2>1. stored' = stored \union batch
    BY <1>3 DEF Accept
  <2>2. Bundle \subseteq stored' /\ batch \subseteq Bundle \union issued
    BY <1>3, <2>1 DEF StoreInv
  <2> QED BY <1>3, <2>1, <2>2, AcceptStep
<1>4. ASSUME NEW c \in issued, Insert(c)
      PROVE  StoreInv' /\ issued' = issued /\ stored \subseteq stored'
  <2>1. PICK batch \in SUBSET issued : batch = {c}
    OBVIOUS
  <2> QED BY <1>3, <1>4, <2>1 DEF Insert
<1>5. ASSUME NEW batch \in kSubset(2, issued), Extend(batch)
      PROVE  StoreInv' /\ issued' = issued /\ stored \subseteq stored'
  BY <1>3, <1>5 DEF Extend, kSubset
<1> QED BY <1>1, <1>2, <1>4, <1>5 DEF StoreNext

(* A store derives what it derives from exactly the certificates it holds, *)
(* in whatever order and grouping stage was given them.                    *)
THEOREM StoreInvariant == StoreSpec => []StoreInv
<1>1. StoreInit => StoreInv
  BY DEF StoreInit, StoreInv
<1>2. StoreInv /\ [StoreNext]_storeVars => StoreInv'
  BY StoreKeeps
<1> QED BY <1>1, <1>2, PTL DEF StoreSpec

LEMMA DerivedFields ==
    ASSUME NEW C, NEW K, K = Closure(C)
    PROVE  /\ K.user = Fixpoint(C).user /\ K.admin = Fixpoint(C).admin
           /\ K.executed = Fixpoint(C).executed
           /\ K.threshold = ResolveThreshold(C)
           /\ K.role = ResolveRoles(C, ResolveThreshold(C), Fixpoint(C))
BY DEF Closure, Derived

(* Every derived field has its type, whatever is stored: every device is a *)
(* member's, the threshold is at least one, and every user decided on has  *)
(* one last decision and so a role.                                        *)
THEOREM StoreTypes == StoreSpec => []StoreTypeOK
<1>1. ASSUME StoreInv PROVE StoreTypeOK
  <2>1. IsStorable(stored)
    BY <1>1, StoredIsStorable
  <2>2. PICK C : C = stored
    OBVIOUS
  <2>3. PICK st : st = Fixpoint(C)
    OBVIOUS
  <2>4. /\ derived.user = st.user /\ derived.admin = st.admin /\ derived.executed = st.executed
        /\ derived.threshold = ResolveThreshold(C)
        /\ derived.role = ResolveRoles(C, ResolveThreshold(C), st)
    BY <1>1, <2>2, <2>3, DerivedFields DEF StoreInv
  <2>5. st \in LoopState /\ Sound(Admissible(C), st)
    BY <2>1, <2>2, <2>3, FixpointSound
  <2>6. DOMAIN st.user \subseteq Member /\ (\A d \in DOMAIN st.user : st.user[d] \in Member)
        /\ st.admin \subseteq Member
    BY <2>5, LoopStates
  <2>7. st.executed \subseteq {p.digest : p \in OfKind(C, "proposal")}
    <3>1. Admissible(C) \subseteq C
      BY AdmissibleLeast DEF ClaimsOf
    <3> QED BY <2>5, <3>1 DEF Sound, OfKind
  <2>8. ResolveThreshold(C) \in Nat \ {0}
    BY <2>1, <2>2, ThresholdType
  <2>9. DOMAIN derived.role \subseteq Member /\ \A u \in DOMAIN derived.role : derived.role[u] \in Role
    BY <2>1, <2>2, <2>4, RolesType
  <2> QED BY <1>1, <2>2, <2>4, <2>6, <2>7, <2>8, <2>9 DEF StoreTypeOK, StoreInv
<1> QED BY <1>1, StoreInvariant, PTL

(* For any certificates, digests and order of arrival: nothing is admitted *)
(* on its own authority and nothing justified is missed.                   *)
THEOREM ClosureLeast == StoreSpec => []ClosureIsLeast
<1>1. ASSUME StoreInv PROVE ClosureIsLeast
  <2> SUFFICES ASSUME ConflictFree(stored)
               PROVE  /\ derived.executed = {p.digest : p \in OfKind(Admissible(stored), "proposal")}
                      /\ derived.admin = {u \in Member : WasAdmin(Admissible(stored), u)}
                      /\ \A d, u \in Member :
                            ActsFor(Admissible(stored), d, u) <=>
                               d \in DOMAIN derived.user /\ derived.user[d] = u
    BY DEF ClosureIsLeast
  <2>1. IsStorable(stored)
    BY <1>1, StoredIsStorable
  <2>2. PICK st : st = Fixpoint(stored)
    OBVIOUS
  <2>3. PICK A : A = Admissible(stored)
    OBVIOUS
  <2>4. /\ derived.user = st.user /\ derived.admin = st.admin /\ derived.executed = st.executed
    BY <1>1, <2>2, DerivedFields DEF StoreInv
  <2>5. /\ st.executed = {p.digest : p \in OfKind(A, "proposal")}
        /\ st.admin = {u \in Member : WasAdmin(A, u)}
        /\ \A d, u \in Member : ActsFor(A, d, u) <=> d \in DOMAIN st.user /\ st.user[d] = u
    BY <2>1, <2>2, <2>3, FixpointIsLeast
  <2> QED BY <2>3, <2>4, <2>5
<1> QED BY <1>1, StoreInvariant, PTL

(* Above a threshold of one, until a device of the founder has granted     *)
(* somebody a role, no quorum exists and nobody else holds a role.         *)
THEOREM FounderBootstraps == StoreSpec => []OnlyFounderBootstraps
<1>1. ASSUME StoreInv PROVE OnlyFounderBootstraps
  <2> SUFFICES ASSUME derived.threshold > 1,
                      \A g \in OfKind(stored, "grant") :
                          g.issuer \in DOMAIN derived.user =>
                              derived.user[g.issuer] # Founder \/ g.subject = Founder
               PROVE  derived.executed = {} /\ DOMAIN derived.role = {Founder}
    BY DEF OnlyFounderBootstraps
  <2>1. IsStorable(stored)
    BY <1>1, StoredIsStorable
  <2>2. PICK st : st = Fixpoint(stored)
    OBVIOUS
  <2>3. /\ derived.user = st.user /\ derived.admin = st.admin /\ derived.executed = st.executed
        /\ derived.threshold = ResolveThreshold(stored)
        /\ derived.role = ResolveRoles(stored, ResolveThreshold(stored), st)
    BY <1>1, <2>2, DerivedFields DEF StoreInv
  <2>4. ~FounderGranted(stored, st)
    BY <2>3 DEF FounderGranted
  <2>5. st.admin = {Founder} /\ st.executed = {}
    BY <2>1, <2>2, <2>3, <2>4, FixpointBootstraps
  <2>6. DOMAIN derived.role = {Founder}
    <3>1. PICK R : R = derived.role
      OBVIOUS
    <3>2. PICK threshold : threshold = ResolveThreshold(stored)
      OBVIOUS
    <3>3. R = ResolveRoles(stored, threshold, st)
      BY <2>3, <3>1, <3>2
    <3>4. DOMAIN R = {Founder}
      BY <2>4, <2>5, <3>3, FounderDecidedOn
    <3> QED BY <3>1, <3>4
  <2> QED BY <2>3, <2>5, <2>6
<1> QED BY <1>1, StoreInvariant, PTL

-----------------------------------------------------------------------------
(* Admission is monotone.                                                  *)

(* What is admissible stays so as certificates arrive. *)
LEMMA AdmissibleMonotone ==
    ASSUME NEW C, NEW D, C \subseteq D, ResolveThreshold(C) = ResolveThreshold(D)
    PROVE  Admissible(C) \subseteq Admissible(D)
<1>1. ClaimsOf(C) \subseteq ClaimsOf(D)
  BY DEF ClaimsOf
<1>2. ASSUME NEW A \in SUBSET ClaimsOf(D), SelfJustified(D, A)
      PROVE  Admissible(C) \subseteq A
  <2>1. PICK B : B = A \cap ClaimsOf(C)
    OBVIOUS
  <2>2. B \in SUBSET ClaimsOf(C) /\ B \subseteq A
    BY <2>1
  <2>3. ASSUME NEW c \in ClaimsOf(C), Justified(C, B, c)
        PROVE  c \in B
    <3>1. c.kind \in ClaimKind
      BY DEF ClaimsOf
    <3>2. Justified(D, A, c)
      BY <2>2, <2>3, <3>1, JustifiedMonotone
    <3> QED BY <1>1, <1>2, <2>1, <3>2 DEF SelfJustified
  <2>4. SelfJustified(C, B)
    BY <2>3 DEF SelfJustified
  <2> QED BY <2>2, <2>4, AdmissibleLeast
<1>3. Admissible(C) \subseteq ClaimsOf(D)
  BY <1>1, AdmissibleLeast
<1>4. Admissible(D) = {c \in ClaimsOf(D) :
                         \A A \in SUBSET ClaimsOf(D) : SelfJustified(D, A) => c \in A}
  BY AdmissibleIs
<1> QED BY <1>2, <1>3, <1>4

(* The threshold is fixed with the founder's certificates. *)
LEMMA ThresholdFixed ==
    ASSUME StoreInv, NEW D, stored # {}, stored \subseteq D, D \subseteq Bundle \union issued
    PROVE  ResolveThreshold(stored) = ResolveThreshold(D)
<1>1. \A c \in OfKind(issued, "policy") : c.issuer # Founder
  BY StoreAssumption DEF StoreInv
<1>2. Bundle \subseteq stored
  BY DEF StoreInv
<1>3. {q \in OfKind(stored, "policy") : q.issuer = Founder}
      = {q \in OfKind(D, "policy") : q.issuer = Founder}
  BY <1>1, <1>2 DEF OfKind
<1> QED BY <1>3 DEF ResolveThreshold

(* What admits operations only grows with the certificates, as long as     *)
(* nobody binds one device to two users.                                   *)
THEOREM ClosureGrows ==
    ASSUME NEW C, NEW D, IsStorable(D), C \subseteq D, ConflictFree(D),
           ResolveThreshold(C) = ResolveThreshold(D),
           NEW K, K = Closure(C), NEW M, M = Closure(D)
    PROVE  /\ \A d \in DOMAIN K.user : d \in DOMAIN M.user /\ M.user[d] = K.user[d]
           /\ K.admin \subseteq M.admin
           /\ K.executed \subseteq M.executed
<1>2. PICK st, su : st = Fixpoint(C) /\ su = Fixpoint(D)
  OBVIOUS
<1>3. IsStorable(C) /\ ConflictFree(C)
  BY StorableSubset DEF ConflictFree, OfKind
<1>8. PICK A, B : A = Admissible(C) /\ B = Admissible(D)
  OBVIOUS
<1>9. A \subseteq B
  BY <1>8, AdmissibleMonotone
<1>10. /\ st.executed = {p.digest : p \in OfKind(A, "proposal")}
       /\ st.admin = {u \in Member : WasAdmin(A, u)}
       /\ \A d, u \in Member : ActsFor(A, d, u) <=> d \in DOMAIN st.user /\ st.user[d] = u
  BY <1>2, <1>3, <1>8, FixpointIsLeast
<1>11. /\ su.executed = {p.digest : p \in OfKind(B, "proposal")}
       /\ su.admin = {u \in Member : WasAdmin(B, u)}
       /\ \A d, u \in Member : ActsFor(B, d, u) <=> d \in DOMAIN su.user /\ su.user[d] = u
  BY <1>2, <1>8, FixpointIsLeast
<1>12. \A k : OfKind(A, k) \subseteq OfKind(B, k)
  BY <1>9 DEF OfKind
<1>13. st.executed \subseteq su.executed
  BY <1>10, <1>11, <1>12
<1>14. st.admin \subseteq su.admin
  BY <1>10, <1>11, <1>12 DEF WasAdmin
<1>15. ASSUME NEW d \in DOMAIN st.user
       PROVE  d \in DOMAIN su.user /\ su.user[d] = st.user[d]
  <2>1. st \in LoopState
    BY <1>2, <1>3, FixpointReached
  <2>2. d \in Member /\ st.user[d] \in Member
    BY <2>1, LoopStates
  <2>3. ActsFor(A, d, st.user[d])
    BY <1>10, <2>2
  <2>4. ActsFor(B, d, st.user[d])
    BY <1>12, <2>3 DEF ActsFor
  <2> QED BY <1>11, <2>2, <2>4
<1>16. K.user = st.user /\ K.admin = st.admin /\ K.executed = st.executed
  BY <1>2, DerivedFields
<1>17. M.user = su.user /\ M.admin = su.admin /\ M.executed = su.executed
  BY <1>2, DerivedFields
<1> QED BY <1>13, <1>14, <1>15, <1>16, <1>17

(* A certificate that arrives never un-certifies a device, never takes     *)
(* back that a user has been an administrator and never undoes a quorum,   *)
(* as long as nobody binds one device to two users.                        *)
THEOREM AdmissionGrows == StoreSpec => AdmissionMonotone
<1>1. ASSUME StoreInv, StoreInv', issued' = issued, stored \subseteq stored',
             stored # {}, ConflictFree(stored')
      PROVE  /\ \A d \in DOMAIN derived.user :
                   d \in DOMAIN derived'.user /\ derived'.user[d] = derived.user[d]
             /\ derived.admin \subseteq derived'.admin
             /\ derived.executed \subseteq derived'.executed
  <2>1. PICK C, D : C = stored /\ D = stored'
    OBVIOUS
  <2>2. PICK K, M : K = derived /\ M = derived'
    OBVIOUS
  <2>3. K = Closure(C) /\ M = Closure(D)
    BY <1>1, <2>1, <2>2 DEF StoreInv
  <2>4. IsStorable(D)
    <3>1. D \subseteq Bundle \union issued /\ issued \in Histories
      BY <1>1, <2>1 DEF StoreInv
    <3> QED BY <3>1, StoreAssumption, StorableSubset
  <2>5. C \subseteq D /\ ConflictFree(D)
    BY <1>1, <2>1
  <2>6. ResolveThreshold(C) = ResolveThreshold(D)
    BY <1>1, <2>1, ThresholdFixed DEF StoreInv
  <2> QED BY <2>2, <2>3, <2>4, <2>5, <2>6, ClosureGrows
<1>2. StoreInv /\ [StoreNext]_storeVars =>
        [stored # {} /\ ConflictFree(stored') =>
          /\ \A d \in DOMAIN derived.user :
                d \in DOMAIN derived'.user /\ derived'.user[d] = derived.user[d]
          /\ derived.admin \subseteq derived'.admin
          /\ derived.executed \subseteq derived'.executed]_storeVars
  BY <1>1, StoreKeeps
<1> QED BY <1>2, StoreInvariant, PTL DEF StoreSpec, AdmissionMonotone

-----------------------------------------------------------------------------
(* What a store holds against what it derives.                             *)

LEMMA ClosureTypes ==
    ASSUME NEW C, IsStorable(C), NEW K, K = Closure(C)
    PROVE  /\ DOMAIN K.user \subseteq Member
           /\ \A d \in DOMAIN K.user : K.user[d] \in Member
           /\ Founder \in DOMAIN K.user /\ K.user[Founder] = Founder /\ Founder \in K.admin
           /\ K.threshold = ResolveThreshold(C)
<1>1. PICK st : st = Fixpoint(C)
  OBVIOUS
<1>2. st \in LoopState /\ Extends(Seed, st)
  BY <1>1, FixpointSound
<1>3. Founder \in DOMAIN st.user /\ st.user[Founder] = Founder /\ Founder \in st.admin
  BY <1>2 DEF Extends, Seed
<1> QED BY <1>1, <1>2, <1>3, LoopStates, DerivedFields

(* A binding by the user itself or by someone who has been an              *)
(* administrator certifies its device.                                     *)
LEMMA BindingCertifies ==
    ASSUME NEW C, IsStorable(C), ConflictFree(C), NEW K, K = Closure(C),
           NEW b \in OfKind(C, "binding"), b.issuer \in DOMAIN K.user,
           K.user[b.issuer] = b.user \/ K.user[b.issuer] \in K.admin
    PROVE  b.device \in DOMAIN K.user /\ K.user[b.device] = b.user
<1>1. PICK st : st = Fixpoint(C)
  OBVIOUS
<1>2. K.user = st.user /\ K.admin = st.admin
  BY <1>1, DerivedFields
<1>3. PICK A : A = Admissible(C)
  OBVIOUS
<1>4. /\ st.admin = {u \in Member : WasAdmin(A, u)}
      /\ \A d, u \in Member : ActsFor(A, d, u) <=> d \in DOMAIN st.user /\ st.user[d] = u
  BY <1>1, <1>3, FixpointIsLeast
<1>5. b \in C /\ b.kind = "binding" /\ b \in Certificate
  BY DEF OfKind, IsStorable
<1>6. b.issuer \in Member /\ b.device \in Member /\ b.user \in Member
  BY <1>5, CertificateFields
<1>7. st \in LoopState
  BY <1>1, FixpointReached
<1>8. st.user[b.issuer] \in Member
  BY <1>2, <1>7, LoopStates
<1>9. ActsFor(A, b.issuer, st.user[b.issuer])
  BY <1>2, <1>4, <1>6, <1>8
<1>10. ActsFor(A, b.issuer, b.user) \/ SpeaksAsAdmin(A, b.issuer)
  BY <1>2, <1>4, <1>8, <1>9 DEF SpeaksAsAdmin
<1>11. Justified(C, A, b)
  BY <1>5, <1>10 DEF Justified
<1>12. b \in ClaimsOf(C)
  BY <1>5 DEF ClaimsOf, ClaimKind
<1>13. b \in A
  BY <1>3, <1>11, <1>12, AdmissibleLeast DEF SelfJustified
<1>14. ActsFor(A, b.device, b.user)
  BY <1>5, <1>13 DEF ActsFor, OfKind
<1> QED BY <1>2, <1>4, <1>6, <1>14

(* The decisions about roles, when nobody proposes one. *)
LEMMA GrantsDecide ==
    ASSUME NEW C, IsStorable(C), NoRoleProposals(C), NEW threshold, NEW st,
           NEW D, D = RoleDecisions(C, threshold, st), NEW d \in D
    PROVE  \/ d.user = Founder /\ d.role = "Admin"
           \/ \E g \in OfKind(C, "grant") :
                 /\ g.subject = d.user /\ g.capability = d.role
                 /\ FromEverAdmin(st, g)
                 /\ GrantIsAuthorised(C, threshold, st.executed, st.user[g.issuer], g)
<1>1. {q \in OfKind(C, "proposal") : q.digest \in st.executed /\ q.action.do = "setrole"} = {}
  BY DEF NoRoleProposals
<1>2. \/ d = [user |-> Founder, role |-> "Admin", seq |-> 0, digest |-> 0]
      \/ \E g \in {h \in OfKind(C, "grant") :
                    /\ FromEverAdmin(st, h)
                    /\ GrantIsAuthorised(C, threshold, st.executed, st.user[h.issuer], h)} :
            d = [user |-> g.subject, role |-> g.capability, seq |-> g.seq, digest |-> g.digest]
  BY <1>1 DEF RoleDecisions
<1> QED BY <1>2

(* Without proposals about roles, an administrator has been appointed. *)
LEMMA AdminsAppointed ==
    ASSUME NEW C, IsStorable(C), NoRoleProposals(C), NEW K, K = Closure(C),
           NEW u \in DOMAIN K.role, K.role[u] = "Admin"
    PROVE  u \in K.admin
<1>1. PICK st : st = Fixpoint(C)
  OBVIOUS
<1>2. PICK th : th = ResolveThreshold(C)
  OBVIOUS
<1>3. PICK D : D = RoleDecisions(C, th, st)
  OBVIOUS
<1>4. K.admin = st.admin /\ K.role = ResolveRoles(C, th, st)
  BY <1>1, <1>2, DerivedFields
<1>5. PICK d \in D : d.user = u /\ d.role = "Admin"
  <2>1. Decides(D, K.role)
    BY <1>3, <1>4, RoleDecided
  <2> QED BY <2>1 DEF Decides
<1>6. st \in LoopState /\ Extends(Seed, st) /\ Pass(C, th, st) = st
  BY <1>1, <1>2, FixpointSound, FixpointReached
<1>7. CASE u = Founder
  BY <1>4, <1>6, <1>7 DEF Extends, Seed
<1>8. CASE u # Founder
  <2>1. PICK g \in OfKind(C, "grant") :
          /\ g.subject = u /\ g.capability = "Admin" /\ FromEverAdmin(st, g)
          /\ GrantIsAuthorised(C, th, st.executed, st.user[g.issuer], g)
    BY <1>3, <1>5, <1>8, GrantsDecide
  <2>2. g \in ClaimsOf(C) /\ g.kind = "grant"
    BY DEF OfKind, ClaimsOf, ClaimKind
  <2>3. AdmitCertificate(C, th, st, g) = st
    BY <1>6, <2>2, PassQuiet
  <2>4. g.subject \in st.admin
    BY <1>6, <2>1, <2>2, <2>3, AdmitNothing
  <2> QED BY <1>4, <2>1, <2>4
<1> QED BY <1>7, <1>8

(* Where everyone keeps the role of their first grant, an administrator    *)
(* stays one whatever certificates arrive.                                 *)
LEMMA AdminsStay ==
    ASSUME NEW C, NEW D, IsStorable(D), C \subseteq D, ConflictFree(D),
           ResolveThreshold(C) = ResolveThreshold(D), NoRoleProposals(D), OneRoleEach(D),
           NEW K, K = Closure(C), NEW M, M = Closure(D),
           NEW d, MayAdminister(K, d)
    PROVE  MayAdminister(M, d)
<1>1. PICK u : u = K.user[d]
  OBVIOUS
<1>2. d \in DOMAIN K.user /\ u \in DOMAIN K.role /\ K.role[u] = "Admin"
  BY <1>1 DEF MayAdminister, HasRole, IsCertifiedDevice
<1>3. /\ \A x \in DOMAIN K.user : x \in DOMAIN M.user /\ M.user[x] = K.user[x]
      /\ K.admin \subseteq M.admin /\ K.executed \subseteq M.executed
  BY ClosureGrows
<1>4. IsStorable(C) /\ NoRoleProposals(C)
  BY StorableSubset DEF NoRoleProposals, OfKind
<1>5. PICK st, su, th : st = Fixpoint(C) /\ su = Fixpoint(D) /\ th = ResolveThreshold(D)
  OBVIOUS
<1>6. /\ K.user = st.user /\ K.admin = st.admin /\ K.executed = st.executed
      /\ K.role = ResolveRoles(C, th, st)
      /\ M.user = su.user /\ M.admin = su.admin /\ M.executed = su.executed
      /\ M.role = ResolveRoles(D, th, su)
  BY <1>5, DerivedFields
<1>7. PICK X, Y : X = RoleDecisions(C, th, st) /\ Y = RoleDecisions(D, th, su)
  OBVIOUS
<1>8. /\ \A v \in DOMAIN K.role : \E x \in X : x.user = v /\ x.role = K.role[v]
      /\ \A y \in Y : y.user \in DOMAIN M.role
      /\ \A v \in DOMAIN M.role : \E y \in Y : y.user = v /\ y.role = M.role[v]
  <2>1. Decides(X, K.role)
    BY <1>4, <1>6, <1>7, RoleDecided
  <2>2. Decides(Y, M.role)
    BY <1>6, <1>7, RoleDecided
  <2> QED BY <2>1, <2>2 DEF Decides
<1>9. PICK x \in X : x.user = u /\ x.role = "Admin"
  BY <1>2, <1>8
<1>10. CASE u = Founder
  <2>1. [user |-> Founder, role |-> "Admin", seq |-> 0, digest |-> 0] \in Y
    BY <1>7 DEF RoleDecisions
  <2>2. u \in DOMAIN M.role
    BY <1>8, <1>10, <2>1
  <2>3. PICK y \in Y : y.user = u /\ y.role = M.role[u]
    BY <1>8, <2>2
  <2>4. y.role = "Admin"
    BY <1>7, <1>10, <2>3, GrantsDecide DEF OneRoleEach
  <2> QED BY <1>1, <1>2, <1>3, <2>2, <2>3, <2>4 DEF MayAdminister, HasRole, IsCertifiedDevice
<1>11. CASE u # Founder
  <2>1. PICK g \in OfKind(C, "grant") :
          /\ g.subject = u /\ g.capability = "Admin" /\ FromEverAdmin(st, g)
          /\ GrantIsAuthorised(C, th, st.executed, st.user[g.issuer], g)
    BY <1>4, <1>7, <1>9, <1>11, GrantsDecide
  <2>2. g \in OfKind(D, "grant")
    BY <2>1 DEF OfKind
  <2>3. FromEverAdmin(su, g) /\ su.user[g.issuer] = st.user[g.issuer]
    BY <1>3, <1>6, <2>1 DEF FromEverAdmin
  <2>4. GrantIsAuthorised(D, th, su.executed, su.user[g.issuer], g)
    BY <1>3, <1>6, <2>1, <2>3 DEF GrantIsAuthorised, IsExecutedAction, OfKind
  <2>5. [user |-> g.subject, role |-> g.capability, seq |-> g.seq, digest |-> g.digest] \in Y
    BY <1>7, <2>2, <2>3, <2>4 DEF RoleDecisions
  <2>6. u \in DOMAIN M.role
    BY <1>8, <2>1, <2>5
  <2>7. PICK y \in Y : y.user = u /\ y.role = M.role[u]
    BY <1>8, <2>6
  <2>8. PICK h \in OfKind(D, "grant") : h.subject = u /\ h.capability = y.role
    BY <1>7, <1>11, <2>7, GrantsDecide
  <2>9. y.role = "Admin"
    BY <2>1, <2>2, <2>8 DEF OneRoleEach
  <2> QED BY <1>1, <1>2, <1>3, <2>6, <2>7, <2>9 DEF MayAdminister, HasRole, IsCertifiedDevice
<1> QED BY <1>10, <1>11

(* The founder is an administrator as long as nobody decides otherwise. *)
LEMMA FounderAdministers ==
    ASSUME NEW C, IsStorable(C), NoRoleProposals(C), OneRoleEach(C), NEW K, K = Closure(C)
    PROVE  MayAdminister(K, Founder)
<1>1. PICK st, th : st = Fixpoint(C) /\ th = ResolveThreshold(C)
  OBVIOUS
<1>2. PICK X : X = RoleDecisions(C, th, st)
  OBVIOUS
<1>3. K.role = ResolveRoles(C, th, st)
  BY <1>1, DerivedFields
<1>4. Decides(X, K.role)
  BY <1>2, <1>3, RoleDecided
<1>5. [user |-> Founder, role |-> "Admin", seq |-> 0, digest |-> 0] \in X
  BY <1>2 DEF RoleDecisions
<1>6. Founder \in DOMAIN K.role
  BY <1>4, <1>5 DEF Decides
<1>7. PICK x \in X : x.user = Founder /\ x.role = K.role[Founder]
  BY <1>4, <1>6 DEF Decides
<1>8. x.role = "Admin"
  BY <1>2, <1>7, GrantsDecide DEF OneRoleEach
<1>9. Founder \in DOMAIN K.user /\ K.user[Founder] = Founder
  BY ClosureTypes
<1> QED BY <1>6, <1>7, <1>8, <1>9 DEF MayAdminister, HasRole, IsCertifiedDevice

-----------------------------------------------------------------------------
(***************************************************************************)
(* The log of a group, whatever the certificates decide.                   *)
(***************************************************************************)

(* A log without a hole and without an operation of a stranger. *)
Closed(L) == \A o \in L : HasPredecessors(L, o) /\ o.issuer \in Known(L)

(* N is what one handler call of d may sign on top of L: its own           *)
(* operations, one for each member concerned, under the next number, after *)
(* all of L and nothing but what L and N hold.                             *)
Signed(d, L, N) ==
    /\ \A o \in N : /\ o.issuer = d
                    /\ o.id[1] = issues + 1
                    /\ Ids(L) \subseteq o.past
                    /\ o.past \subseteq Ids(L \union N)
    /\ \A o, r \in N : o.id = r.id => o = r

(* Operations are numbered by the calls so far, and so is all they follow. *)
Numbered ==
    \A o \in Existing :
        /\ o.id[1] \in 0..issues
        /\ \A i \in o.past : i[1] \in 0..issues

(* Every device has merged the Add of its own leaf. *)
SelfKnown == \A d \in live : d \in Known(log[d])

(* An operation is named by its id, and follows the Add of its issuer; the *)
(* founding Add is in every log.                                           *)
Traced ==
    /\ \A o, r \in Existing : o.id = r.id => o = r
    /\ \A o \in Existing \ {InitAdd} :
          \E a \in Existing : a.kind = "add" /\ a.member = o.issuer /\ a.id \in o.past
    /\ \A d \in live : InitAdd \in log[d]
    /\ \A i \in invites : InitAdd \in i.log

Inv == TypeOK /\ Numbered /\ SelfKnown /\ Traced /\ CausallyClosed /\ ParkedAwaits

-----------------------------------------------------------------------------
(* What a log accepts, a larger one accepts: merge_verified asks only for  *)
(* operations that are there.                                              *)
LEMMA AcceptableMonotone ==
    ASSUME NEW C, NEW K, NEW L, NEW M, L \subseteq M, NEW o, Acceptable(C, K, L, o)
    PROVE  Acceptable(C, K, M, o)
<1>1. Ids(L) \subseteq Ids(M) /\ Known(L) \subseteq Known(M)
  BY DEF Ids, Known
<1> QED BY <1>1 DEF Acceptable, HasPredecessors

(* Whatever merge_pending applies was acceptable on top of the rest of it. *)
LEMMA DrainedAcceptable ==
    ASSUME NEW C, NEW K, NEW L, NEW P, NEW o \in Drained(C, K, L, P)
    PROVE  Acceptable(C, K, L \union Drained(C, K, L, P), o)
<1> DEFINE D == Drained(C, K, L, P)
<1> SUFFICES ASSUME ~Acceptable(C, K, L \union D, o) PROVE FALSE
  OBVIOUS
<1> DEFINE S == D \ {o}
<1>1. S \in SUBSET P
  BY DEF Drained
<1>2. ClosedUnder(C, K, L, P, S)
  <2> SUFFICES ASSUME NEW r \in P, Acceptable(C, K, L \union S, r) PROVE r \in S
    BY DEF ClosedUnder
  <2>1. Acceptable(C, K, L \union D, r)
    <3>1. L \union S \subseteq L \union D
      OBVIOUS
    <3> HIDE DEF S, D
    <3> QED BY <3>1, AcceptableMonotone
  <2>2. ASSUME NEW T \in SUBSET P, ClosedUnder(C, K, L, P, T) PROVE r \in T
    <3>1. L \union S \subseteq L \union T
      BY <2>2 DEF Drained
    <3>2. Acceptable(C, K, L \union T, r)
      <4> HIDE DEF S
      <4> QED BY <3>1, AcceptableMonotone
    <3> QED BY <2>2, <3>2 DEF ClosedUnder
  <2>3. r \in D
    BY <2>2 DEF Drained
  <2> QED BY <2>1, <2>3
<1> QED BY <1>1, <1>2 DEF Drained

(* merge_pending leaves a closed log closed, and adds what was queued. *)
LEMMA MergedClosed ==
    ASSUME NEW C, NEW K, NEW L, NEW P, Closed(L)
    PROVE  /\ Closed(Merged(C, K, L, P))
           /\ L \subseteq Merged(C, K, L, P)
           /\ Merged(C, K, L, P) \subseteq L \union P
<1> DEFINE M == Merged(C, K, L, P)
<1>1. L \subseteq M /\ M \subseteq L \union P
  BY DEF Merged, Drained
<1>2. ASSUME NEW o \in L PROVE HasPredecessors(M, o) /\ o.issuer \in Known(M)
  <2>1. Ids(L) \subseteq Ids(M) /\ Known(L) \subseteq Known(M)
    BY <1>1 DEF Ids, Known
  <2> QED BY <2>1, <1>2 DEF Closed, HasPredecessors
<1>3. ASSUME NEW o \in Drained(C, K, L, P)
      PROVE HasPredecessors(M, o) /\ o.issuer \in Known(M)
  BY DrainedAcceptable DEF Merged, Acceptable
<1>4. \A o \in M : o \in L \/ o \in Drained(C, K, L, P)
  BY DEF Merged
<1> HIDE DEF M
<1>5. Closed(M)
  BY <1>2, <1>3, <1>4 DEF Closed
<1> QED BY <1>1, <1>5 DEF M

(* What a member signs keeps its log closed. *)
LEMMA SignedClosed ==
    ASSUME NEW d, NEW L, NEW N, Closed(L), d \in Known(L), Signed(d, L, N)
    PROVE  Closed(L \union N)
<1>1. Ids(L) \subseteq Ids(L \union N) /\ Known(L) \subseteq Known(L \union N)
  BY DEF Ids, Known
<1> QED BY <1>1 DEF Closed, Signed, HasPredecessors

(* What a member signs is nobody's missing predecessor: the number of the  *)
(* call is new.                                                            *)
LEMMA SignedUnawaited ==
    ASSUME Inv, NEW d, NEW L, NEW N, Signed(d, L, N), NEW o \in Existing, NEW M,
           ~HasPredecessors(M, o)
    PROVE  ~HasPredecessors(M \union N, o)
<1>1. PICK i \in o.past : i \notin Ids(M)
  BY DEF HasPredecessors
<1>2. i[1] \in 0..issues
  BY DEF Inv, Numbered
<1>3. issues \in Nat
  BY BoundAssumption DEF Inv, TypeOK
<1>4. i \notin Ids(N)
  BY <1>2, <1>3 DEF Ids, Signed
<1>5. i \notin Ids(M \union N)
  BY <1>1, <1>4 DEF Ids
<1> QED BY <1>1, <1>5 DEF HasPredecessors
-----------------------------------------------------------------------------
(* The initial states satisfy the invariant: the founder's log is closed,  *)
(* and nobody has parked anything.                                         *)
LEMMA InitInv == Init => Inv
<1> SUFFICES ASSUME Init PROVE Inv
  OBVIOUS
<1> USE FounderAssumption, MemberAssumption, AdmittedAssumption, BoundAssumption
<1>1. /\ InitAdd.past = {} /\ InitAdd.issuer = Founder /\ InitAdd.member = Founder
      /\ InitAdd.kind = "add" /\ InitAdd.id = <<0, Founder>>
  BY DEF InitAdd, Op
<1>2. ASSUME NEW o \in FirstAdds
      PROVE  \E m \in Admitted :
                /\ o.issuer = Founder /\ o.member = m /\ o.kind = "add"
                /\ o.id = <<0, m>>
                /\ o.past = {<<0, x>> : x \in {Founder} \union {y \in Admitted : y < m}}
  BY DEF FirstAdds, Op
<1>3. ASSUME NEW m \in Admitted
      PROVE  \E o \in FirstAdds : o.member = m /\ o.kind = "add" /\ o.id = <<0, m>>
  <2> DEFINE first == Op("add", Founder, m, 0,
                         {<<0, x>> : x \in {Founder} \union {y \in Admitted : y < m}},
                         AdmissionCerts(m))
  <2>1. first \in FirstAdds
    BY DEF FirstAdds
  <2>2. first.member = m /\ first.kind = "add" /\ first.id = <<0, m>>
    BY DEF Op
  <2> QED BY <2>1, <2>2
<1>4. FirstMembers \subseteq Known(FirstLog)
  BY <1>1, <1>3 DEF FirstMembers, FirstLog, Known
<1>5. \A x \in {Founder} \union Admitted : <<0, x>> \in Ids(FirstLog)
  BY <1>1, <1>3 DEF FirstLog, Ids
<1>6. Closed(FirstLog)
  <2>1. Founder \in Known(FirstLog)
    BY <1>4 DEF FirstMembers
  <2>2. HasPredecessors(FirstLog, InitAdd)
    BY <1>1 DEF HasPredecessors
  <2>3. ASSUME NEW o \in FirstAdds
        PROVE HasPredecessors(FirstLog, o) /\ o.issuer = Founder
    BY <1>2, <1>5 DEF HasPredecessors
  <2> QED BY <1>1, <2>1, <2>2, <2>3 DEF Closed, FirstLog
<1>7. TypeOK
  BY DEF Init, TypeOK, Existing, FirstLog, FirstMembers
<1>8. Numbered
  <2>1. issues = 0 /\ Existing = FirstLog
    BY DEF Init, Existing, FirstLog
  <2>2. ASSUME NEW o \in FirstLog
        PROVE  o.id[1] = 0 /\ \A i \in o.past : i[1] = 0
    <3>1. CASE o = InitAdd
      BY <3>1, <1>1
    <3>2. CASE o \in FirstAdds
      BY <3>2, <1>2
    <3> QED BY <3>1, <3>2 DEF FirstLog
  <2> QED BY <2>1, <2>2 DEF Numbered
<1>9. SelfKnown /\ CausallyClosed /\ ParkedAwaits
  <2>1. \A d \in live : log[d] = FirstLog /\ parked[d] = {} /\ d \in FirstMembers
    BY DEF Init, FirstMembers
  <2>2. SelfKnown
    BY <1>4, <2>1 DEF SelfKnown
  <2>3. CausallyClosed
    BY <1>6, <2>1 DEF CausallyClosed, Closed
  <2> QED BY <2>1, <2>2, <2>3 DEF ParkedAwaits
<1>10. Traced
  <2>1. Existing = FirstLog /\ invites = {} /\ \A d \in live : log[d] = FirstLog
    BY DEF Init, Existing, FirstLog, FirstMembers
  <2>2. ASSUME NEW o \in FirstLog, NEW r \in FirstLog, o.id = r.id
        PROVE  o = r
    <3> DEFINE first(m) == Op("add", Founder, m, 0,
                              {<<0, x>> : x \in {Founder} \union {y \in Admitted : y < m}},
                              AdmissionCerts(m))
    <3>1. FirstAdds = {first(m) : m \in Admitted}
      BY DEF FirstAdds
    <3>2. \A m : first(m).id = <<0, m>>
      BY DEF Op
    <3> HIDE DEF first
    <3>3. \A q \in FirstLog : q = InitAdd \/ \E m \in Admitted : q = first(m)
      BY <3>1 DEF FirstLog
    <3>4. \A m \in Admitted : first(m).id # InitAdd.id
      BY <1>1, <3>2
    <3>5. CASE o = InitAdd \/ r = InitAdd
      BY <2>2, <3>3, <3>4, <3>5
    <3>6. CASE o # InitAdd /\ r # InitAdd
      <4>1. PICK m, n \in Admitted : o = first(m) /\ r = first(n)
        BY <3>3, <3>6
      <4>2. m = n
        BY <2>2, <3>2, <4>1
      <4> QED BY <4>1, <4>2
    <3> QED BY <3>5, <3>6
  <2>3. ASSUME NEW o \in FirstAdds
        PROVE  InitAdd.member = o.issuer /\ InitAdd.id \in o.past
    BY <1>1, <1>2
  <2>4. InitAdd \in FirstLog /\ \A o \in FirstLog \ {InitAdd} : o \in FirstAdds
    BY DEF FirstLog
  <2> QED BY <1>1, <2>1, <2>2, <2>3, <2>4 DEF Traced
<1> QED BY <1>7, <1>8, <1>9, <1>10 DEF Inv

-----------------------------------------------------------------------------
(* The common part of every action that changes one log: device d now has  *)
(* the log M and the queue Q, and N is what it signed.                     *)
LEMMA OneLogStep ==
    ASSUME Inv, NEW d \in live, NEW L, NEW M, NEW Q, NEW N,
           Signed(d, L, N), L \subseteq Existing, N # {} => d \in Known(L),
           log[d] \union L \union N \subseteq M,
           M \subseteq Existing \union N, Q \subseteq Existing, Closed(M),
           \A o \in Q : ~HasPredecessors(M, o),
           Issue(N),
           log' = [log EXCEPT ![d] = M],
           parked' = [parked EXCEPT ![d] = Q],
           sent' = sent \union N,
           live' = live,
           mints' \in 0..MaxMints,
           \A i \in invites' : i.to \in Member /\ i.log \subseteq Existing' /\ InitAdd \in i.log
    PROVE  Inv'
<1> USE BoundAssumption
<1>1. d \in Member /\ issues \in 0..MaxIssues
  BY DEF Inv, TypeOK
<1>2. issues' \in 0..MaxIssues /\ issues <= issues' /\ (N # {} => issues' = issues + 1)
  BY <1>1 DEF Issue
<1>3. Existing' = Existing \union N
  BY DEF Existing, InitAdd, Op
<1>4. TypeOK'
  <2>1. log' \in [Member -> SUBSET Existing']
    BY <1>1, <1>3 DEF Inv, TypeOK
  <2>2. parked' \in [Member -> SUBSET Existing']
    BY <1>1, <1>3 DEF Inv, TypeOK
  <2>3. \A e \in Member \ live' : log'[e] = {} /\ parked'[e] = {}
    BY <1>1 DEF Inv, TypeOK
  <2> QED BY <1>2, <2>1, <2>2, <2>3 DEF Inv, TypeOK
<1>5. Numbered'
  <2>1. 0..issues \subseteq 0..issues'
    BY <1>1, <1>2
  <2>2. ASSUME NEW o \in Existing
        PROVE  o.id[1] \in 0..issues' /\ \A i \in o.past : i[1] \in 0..issues'
    BY <2>1 DEF Inv, Numbered
  <2>3. ASSUME NEW o \in N
        PROVE  o.id[1] \in 0..issues' /\ \A i \in o.past : i[1] \in 0..issues'
    <3>1. \A r \in N : r.id[1] \in 0..issues'
      BY <1>1, <1>2 DEF Signed
    <3>2. \A r \in L \union N : r.id[1] \in 0..issues'
      BY <2>2, <3>1
    <3> QED BY <3>1, <3>2 DEF Signed, Ids
  <2> QED BY <1>3, <2>2, <2>3 DEF Numbered
<1>6. \A e \in live : e # d => log'[e] = log[e] /\ parked'[e] = parked[e]
  BY <1>1 DEF Inv, TypeOK
<1>7. log'[d] = M /\ parked'[d] = Q
  BY <1>1 DEF Inv, TypeOK
<1>8. SelfKnown'
  <2>1. d \in Known(M)
    BY DEF Inv, SelfKnown, Known
  <2> QED BY <1>6, <1>7, <2>1 DEF Inv, SelfKnown, Known
<1>11. InitAdd' = InitAdd
  BY DEF InitAdd, Op
<1>12. ASSUME NEW o \in Existing, NEW r \in N
       PROVE  o.id # r.id
  <2>1. o.id[1] \in 0..issues /\ r.id[1] = issues + 1
    BY DEF Inv, Numbered, Signed
  <2> QED BY <1>1, <2>1
<1>13. \A o, r \in Existing \union N : o.id = r.id => o = r
  BY <1>12 DEF Inv, Traced, Signed
<1>14. ASSUME NEW o \in N
       PROVE  \E a \in Existing : a.kind = "add" /\ a.member = o.issuer /\ a.id \in o.past
  <2>1. PICK a \in L : a.kind = "add" /\ a.member = d
    BY <1>14 DEF Known
  <2>2. a.id \in o.past /\ o.issuer = d
    BY <2>1 DEF Signed, Ids
  <2> QED BY <2>1, <2>2
<1>15. \A e \in live : InitAdd \in log'[e]
  BY <1>6, <1>7 DEF Inv, Traced
<1>16. Traced'
  <2>1. \A o \in Existing' \ {InitAdd} :
          \E a \in Existing' : a.kind = "add" /\ a.member = o.issuer /\ a.id \in o.past
    BY <1>3, <1>14 DEF Inv, Traced
  <2> QED BY <1>3, <1>11, <1>13, <1>15, <2>1 DEF Traced
<1>9. CausallyClosed'
  BY <1>6, <1>7 DEF Inv, CausallyClosed, Closed, HasPredecessors, Ids, Known
<1>10. ParkedAwaits'
  BY <1>6, <1>7 DEF Inv, ParkedAwaits, HasPredecessors, Ids
<1> QED BY <1>4, <1>5, <1>8, <1>9, <1>10, <1>16 DEF Inv

(* A step of a member that signs N on top of its own log. *)
LEMMA BroadcastStep ==
    ASSUME Inv, NEW d \in live, NEW N, Signed(d, log[d], N), Broadcast(d, N),
           live' = live, parked' = parked, mints' \in 0..MaxMints,
           \A i \in invites' : i \in invites \/ (i.to \in Member /\ i.log = log[d] \union N)
    PROVE  Inv'
<1> DEFINE M == log[d] \union N
<1>1. d \in Member /\ log[d] \subseteq Existing /\ parked[d] \subseteq Existing
  BY DEF Inv, TypeOK
<1>2. Closed(log[d]) /\ d \in Known(log[d])
  BY DEF Inv, CausallyClosed, SelfKnown, Closed
<1>3. Closed(M)
  BY <1>2, SignedClosed
<1>5. \A o \in parked[d] : ~HasPredecessors(M, o)
  BY <1>1, SignedUnawaited DEF Inv, ParkedAwaits
<1>6. Existing' = Existing \union N
  BY DEF Existing, Broadcast, InitAdd, Op
<1>7. \A i \in invites' : i.to \in Member /\ i.log \subseteq Existing' /\ InitAdd \in i.log
  BY <1>1, <1>6 DEF Inv, TypeOK, Traced
<1>8. parked' = [parked EXCEPT ![d] = parked[d]]
  BY <1>1 DEF Inv, TypeOK
<1>9. log' = [log EXCEPT ![d] = M] /\ sent' = sent \union N /\ Issue(N)
  BY DEF Broadcast
<1>10. M \subseteq Existing \union N /\ log[d] \union log[d] \union N \subseteq M
  BY <1>1
<1> HIDE DEF M
<1> QED BY <1>1, <1>2, <1>3, <1>5, <1>7, <1>8, <1>9, <1>10, OneLogStep

(* A step that leaves operations, queues and invites alone. *)
LEMMA QuietStep ==
    ASSUME Inv, mints' \in 0..MaxMints,
           UNCHANGED <<live, log, parked, sent, invites, issues>>
    PROVE  Inv'
<1>1. Existing' = Existing
  BY DEF Existing, InitAdd, Op
<1>2. TypeOK'
  BY <1>1 DEF Inv, TypeOK
<1>3. Numbered' /\ SelfKnown' /\ Traced' /\ CausallyClosed' /\ ParkedAwaits'
  <2>1. InitAdd' = InitAdd
    BY DEF InitAdd, Op
  <2>2. Traced'
    BY <1>1, <2>1 DEF Inv, Traced
  <2> QED BY <1>1, <2>2 DEF Inv, Numbered, SelfKnown, CausallyClosed, ParkedAwaits,
              HasPredecessors, Ids, Known
<1> QED BY <1>2, <1>3 DEF Inv

(* A call that signs certificates stays within the bound on such calls. *)
LEMMA MintBounded ==
    ASSUME Inv, Mint
    PROVE  mints' \in 0..MaxMints
<1>1. mints \in 0..MaxMints /\ MaxMints \in Nat
  BY BoundAssumption DEF Inv, TypeOK
<1>2. mints < MaxMints /\ mints' = mints + 1
  BY DEF Mint
<1> QED BY <1>1, <1>2

(* What run_quorum_actions signs, in the order of the proposals' digests. *)
LEMMA QuorumOpsSigned ==
    ASSUME NEW d, NEW L, NEW C, NEW K, NEW done
    PROVE  Signed(d, L, QuorumOps(d, issues + 1, L, C, K, done))
<1> DEFINE R == QuorumRemoves(C, K, L, done)
           FirstDigest(m) == Min({p.digest : p \in PendingRemovalsOf(C, K, done, m)})
           op(m) == Op("remove", d, m, issues + 1,
                       Ids(L) \union {<<issues + 1, x>> :
                                        x \in {y \in R : FirstDigest(y) < FirstDigest(m)}},
                       QuorumProof(C, K, m))
           N == QuorumOps(d, issues + 1, L, C, K, done)
<1>1. N = {op(m) : m \in R}
  BY DEF QuorumOps, Removals
<1>2. ASSUME NEW m \in R
      PROVE  /\ op(m).issuer = d /\ op(m).id = <<issues + 1, m>> /\ Ids(L) \subseteq op(m).past
             /\ \A i \in op(m).past :
                    i \in Ids(L) \/ \E x \in R : i = <<issues + 1, x>>
  BY DEF Op
<1> HIDE DEF op, N, R
<1>3. \A x \in R : <<issues + 1, x>> \in Ids(N)
  BY <1>1, <1>2 DEF Ids
<1>4. Ids(L) \subseteq Ids(L \union N) /\ Ids(N) \subseteq Ids(L \union N)
  BY DEF Ids
<1>5. ASSUME NEW o \in N
      PROVE  /\ o.issuer = d /\ o.id[1] = issues + 1
             /\ Ids(L) \subseteq o.past /\ o.past \subseteq Ids(L \union N)
  <2>1. PICK m \in R : o = op(m)
    BY <1>1
  <2>2. o.issuer = d /\ o.id = <<issues + 1, m>> /\ Ids(L) \subseteq o.past
    BY <1>2, <2>1
  <2>3. o.id[1] = issues + 1
    BY <2>2
  <2>4. \A i \in o.past : i \in Ids(L) \/ i \in Ids(N)
    BY <1>2, <1>3, <2>1
  <2> QED BY <1>4, <2>2, <2>3, <2>4
<1>6. ASSUME NEW o \in N, NEW r \in N, o.id = r.id
      PROVE  o = r
  <2>1. PICK m \in R : o = op(m)
    BY <1>1
  <2>2. PICK n \in R : r = op(n)
    BY <1>1
  <2>3. m = n
    BY <1>2, <1>6, <2>1, <2>2
  <2> QED BY <2>1, <2>2, <2>3
<1>7. Signed(d, L, N)
  BY <1>5, <1>6 DEF Signed
<1> QED BY <1>7 DEF N

(* admit and build_invite. *)
LEMMA AdmitStep ==
    ASSUME Inv, NEW d \in live, NEW x \in Member, NEW new, Admit(d, x, new)
    PROVE  Inv'
<1> DEFINE add == Op("add", d, x, issues + 1, Ids(log[d]), new)
           N == IF x \in Tree(log[d]) THEN {} ELSE {add}
<1>1. add.issuer = d /\ add.id = <<issues + 1, x>> /\ add.past = Ids(log[d])
  BY DEF Op
<1>2. Ids(log[d]) \subseteq Ids(log[d] \union N)
  BY DEF Ids
<1>3. \A o \in N : o = add
  OBVIOUS
<1>4. Signed(d, log[d], N)
  <2> HIDE DEF add, N
  <2> QED BY <1>1, <1>2, <1>3 DEF Signed
<1>5. Broadcast(d, N) /\ live' = live /\ parked' = parked
  BY DEF Admit
<1>6. mints' \in 0..MaxMints
  BY MintBounded DEF Admit, Certify
<1>7. invites' = invites \union {[to |-> x, log |-> log[d] \union N,
                                  certs |-> certs[d] \union new]}
  BY DEF Admit
<1> HIDE DEF N
<1>8. \A i \in invites' : i \in invites \/ (i.to \in Member /\ i.log = log[d] \union N)
  BY <1>7
<1> QED BY <1>4, <1>5, <1>6, <1>8, BroadcastStep

(* on_remove_member. *)
LEMMA RemoveMemberStep ==
    ASSUME Inv, NEW d \in live, NEW x, RemoveMember(d, x)
    PROVE  Inv'
<1> DEFINE op == Op("remove", d, x, issues + 1, Ids(log[d]), QuorumProof(certs[d], caps[d], x))
<1>1. Broadcast(d, {op})
  <2> DEFINE First(a, b) == FALSE
  <2>1. Removals(d, issues + 1, log[d], certs[d], caps[d], {x}, First) = {op}
    BY DEF Removals
  <2> QED BY <2>1 DEF RemoveMember
<1>2. op.issuer = d /\ op.id = <<issues + 1, x>> /\ op.past = Ids(log[d])
  BY DEF Op
<1> HIDE DEF op
<1>3. Signed(d, log[d], {op})
  BY <1>2 DEF Signed, Ids
<1>4. live' = live /\ parked' = parked /\ mints' \in 0..MaxMints /\ invites' = invites
  BY DEF RemoveMember, Inv, TypeOK
<1> QED BY <1>1, <1>3, <1>4, BroadcastStep

(* Rotate. *)
LEMMA RotateStep ==
    ASSUME Inv, NEW d \in live, Rotate(d)
    PROVE  Inv'
<1> DEFINE op == Op("update", d, d, issues + 1, Ids(log[d]), {})
<1>1. Broadcast(d, {op})
  BY DEF Rotate
<1>2. op.issuer = d /\ op.id = <<issues + 1, d>> /\ op.past = Ids(log[d])
  BY DEF Op
<1> HIDE DEF op
<1>3. Signed(d, log[d], {op})
  BY <1>2 DEF Signed, Ids
<1>4. live' = live /\ parked' = parked /\ mints' \in 0..MaxMints /\ invites' = invites
  BY DEF Rotate, Inv, TypeOK
<1> QED BY <1>1, <1>3, <1>4, BroadcastStep

(* on_approve, which may carry out what it completes. *)
LEMMA ApproveStep ==
    ASSUME Inv, NEW d \in live, NEW p, NEW g, Approve(d, p, g)
    PROVE  Inv'
<1> DEFINE new == {Approval(d, p.digest, g)}
           N == QuorumOps(d, issues + 1, log[d], certs[d] \union new,
                          ClosureWith(d, new), executedHere[d])
<1>1. Broadcast(d, N) /\ live' = live /\ parked' = parked /\ invites' = invites
  BY DEF Approve
<1>2. mints' \in 0..MaxMints
  BY MintBounded DEF Approve, Certify
<1>3. Signed(d, log[d], N)
  BY QuorumOpsSigned
<1> HIDE DEF N
<1> QED BY <1>1, <1>2, <1>3, BroadcastStep

(* on_leave: the leaves of the local user, in the order of the device ids. *)
LEMMA LeaveStep ==
    ASSUME Inv, NEW d \in live, Leave(d)
    PROVE  Inv'
<1> DEFINE K == caps[d]
           user == IF IsCertifiedDevice(K, d) THEN K.user[d] ELSE d
           devices == IF DevicesOf(K, user) = {} THEN {d} ELSE DevicesOf(K, user)
           R == devices \intersect Tree(log[d])
           op(m) == [Op("remove", d, m, issues + 1,
                        Ids(log[d]) \union {<<issues + 1, x>> : x \in {y \in R : y < m}},
                        QuorumProof(certs[d], K, m)) EXCEPT !.proof = {}]
           N == {op(m) : m \in R}
<1>1. Broadcast(d, N)
  <2> DEFINE First(a, b) == a < b
             S == Removals(d, issues + 1, log[d], certs[d], K, R, First)
  <2>1. S = {Op("remove", d, m, issues + 1,
                Ids(log[d]) \union {<<issues + 1, x>> : x \in {y \in R : y < m}},
                QuorumProof(certs[d], K, m)) : m \in R}
    BY DEF Removals
  <2>2. Broadcast(d, {[o EXCEPT !.proof = {}] : o \in S})
    BY DEF Leave
  <2>3. {[o EXCEPT !.proof = {}] : o \in S} = N
    <3> HIDE DEF R
    <3> QED BY <2>1
  <2> QED BY <2>2, <2>3
<1>2. ASSUME NEW m \in R
      PROVE  /\ op(m).issuer = d /\ op(m).id = <<issues + 1, m>>
             /\ Ids(log[d]) \subseteq op(m).past
             /\ \A i \in op(m).past :
                    i \in Ids(log[d]) \/ \E x \in R : i = <<issues + 1, x>>
  <2> HIDE DEF R
  <2> QED BY DEF Op
<1>3. ASSUME NEW o \in N PROVE \E m \in R : o = op(m)
  <2> HIDE DEF op, R
  <2> QED OBVIOUS
<1>4. \A m \in R : op(m) \in N
  <2> HIDE DEF op, R
  <2> QED OBVIOUS
<1> HIDE DEF op, R, N
<1>5. \A x \in R : <<issues + 1, x>> \in Ids(N)
  BY <1>2, <1>4 DEF Ids
<1>6. Ids(log[d]) \subseteq Ids(log[d] \union N) /\ Ids(N) \subseteq Ids(log[d] \union N)
  BY DEF Ids
<1>7. ASSUME NEW o \in N
      PROVE  /\ o.issuer = d /\ o.id[1] = issues + 1
             /\ Ids(log[d]) \subseteq o.past /\ o.past \subseteq Ids(log[d] \union N)
  <2>1. PICK m \in R : o = op(m)
    BY <1>3
  <2>2. o.issuer = d /\ o.id = <<issues + 1, m>> /\ Ids(log[d]) \subseteq o.past
    BY <1>2, <2>1
  <2>3. o.id[1] = issues + 1
    BY <2>2
  <2>4. \A i \in o.past : i \in Ids(log[d]) \/ i \in Ids(N)
    BY <1>2, <1>5, <2>1
  <2> QED BY <1>6, <2>2, <2>3, <2>4
<1>10. ASSUME NEW o \in N, NEW r \in N, o.id = r.id
       PROVE  o = r
  <2>1. PICK m \in R : o = op(m)
    BY <1>3
  <2>2. PICK n \in R : r = op(n)
    BY <1>3
  <2>3. m = n
    BY <1>2, <1>10, <2>1, <2>2
  <2> QED BY <2>1, <2>2, <2>3
<1>8. Signed(d, log[d], N)
  BY <1>7, <1>10 DEF Signed
<1>9. live' = live /\ parked' = parked /\ mints' \in 0..MaxMints /\ invites' = invites
  BY DEF Leave, Inv, TypeOK
<1> QED BY <1>1, <1>8, <1>9, BroadcastStep

(* join: the log of an invite is taken only if every operation replays. *)
LEMMA JoinStep ==
    ASSUME Inv, NEW i \in invites, Join(i)
    PROVE  Inv'
<1>1. i.to \in Member /\ i.log \subseteq Existing /\ i.to \notin live
  BY DEF Inv, TypeOK, Join
<1>2. Existing' = Existing
  BY DEF Join, Existing, InitAdd, Op
<1>3. /\ live' = live \union {i.to}
      /\ log' = [log EXCEPT ![i.to] = i.log]
      /\ UNCHANGED <<parked, sent, invites, issues, mints>>
  BY DEF Join
<1>4. i.to \in Known(i.log)
  BY DEF Join, Redeemable
<1>5. Closed(i.log)
  <2>1. \A o \in i.log \ {InitAdd} : HasPredecessors(i.log, o) /\ o.issuer \in Known(i.log)
    BY DEF Join, Redeemable, Acceptable
  <2>2. ASSUME InitAdd \in i.log
        PROVE  HasPredecessors(i.log, InitAdd) /\ InitAdd.issuer \in Known(i.log)
    <3>1. /\ InitAdd.past = {} /\ InitAdd.issuer = Founder
          /\ InitAdd.member = Founder /\ InitAdd.kind = "add"
      BY DEF InitAdd, Op
    <3> QED BY <2>2, <3>1 DEF HasPredecessors, Known
  <2> QED BY <2>1, <2>2 DEF Closed
<1>6. /\ log'[i.to] = i.log /\ parked'[i.to] = {}
      /\ \A e \in live : log'[e] = log[e] /\ parked'[e] = parked[e]
  BY <1>1, <1>3 DEF Inv, TypeOK
<1>7. TypeOK'
  <2>1. log' \in [Member -> SUBSET Existing']
    BY <1>1, <1>2, <1>3 DEF Inv, TypeOK
  <2>2. \A e \in Member \ live' : log'[e] = {} /\ parked'[e] = {}
    BY <1>1, <1>3 DEF Inv, TypeOK
  <2> QED BY <1>1, <1>2, <1>3, <2>1, <2>2 DEF Inv, TypeOK
<1>8. Numbered' /\ Traced'
  <2>1. InitAdd' = InitAdd
    BY DEF InitAdd, Op
  <2>2. Traced'
    BY <1>2, <1>3, <1>6, <2>1 DEF Inv, Traced
  <2> QED BY <1>2, <1>3, <2>2 DEF Inv, Numbered
<1>9. SelfKnown'
  BY <1>3, <1>4, <1>6 DEF Inv, SelfKnown, Known
<1>10. CausallyClosed'
  BY <1>3, <1>5, <1>6 DEF Inv, CausallyClosed, Closed, HasPredecessors, Ids, Known
<1>11. ParkedAwaits'
  BY <1>3, <1>6 DEF Inv, ParkedAwaits, HasPredecessors, Ids
<1> QED BY <1>7, <1>8, <1>9, <1>10, <1>11 DEF Inv

(* A step in which d signs nothing: it merges or parks what others sent. *)
LEMMA HearStep ==
    ASSUME Inv, NEW d \in live, NEW M, NEW Q,
           M \subseteq Existing, Q \subseteq Existing,
           Closed(M), log[d] \subseteq M, \A o \in Q : ~HasPredecessors(M, o),
           log' = [log EXCEPT ![d] = M], parked' = [parked EXCEPT ![d] = Q],
           UNCHANGED <<live, sent, invites, issues, mints>>
    PROVE  Inv'
<1>1. PICK none : none = {}
  OBVIOUS
<1>5. Signed(d, none, none) /\ Issue(none) /\ (none # {} => d \in Known(none))
  BY <1>1 DEF Signed, Issue
<1>2. Existing' = Existing /\ mints' \in 0..MaxMints
  BY DEF Existing, InitAdd, Op, Inv, TypeOK
<1>3. \A i \in invites' : i.to \in Member /\ i.log \subseteq Existing' /\ InitAdd \in i.log
  BY <1>2 DEF Inv, TypeOK, Traced
<1>4. /\ log[d] \union none \union none \subseteq M /\ none \subseteq Existing
      /\ M \subseteq Existing \union none /\ sent' = sent \union none
  BY <1>1
<1> QED BY <1>2, <1>3, <1>4, <1>5, OneLogStep

(* on_control_op, in its three outcomes. *)
LEMMA ControlOpStep ==
    ASSUME Inv, NEW d \in live, NEW o \in sent, ControlOp(d, o)
    PROVE  Inv'
<1> DEFINE C == certs[d] \union o.proof
           K == ClosureWith(d, o.proof)
<1>1. d \in Member /\ log[d] \subseteq Existing /\ parked[d] \subseteq Existing /\ o \in Existing
  BY DEF Inv, TypeOK, Existing
<1>2. Closed(log[d]) /\ d \in Known(log[d]) /\ \A r \in parked[d] : ~HasPredecessors(log[d], r)
  BY DEF Inv, CausallyClosed, SelfKnown, ParkedAwaits, Closed
<1>3. UNCHANGED <<live, sent, invites, issues, mints>>
  BY DEF ControlOp
<1>4. CASE ParkOp(d, o)
  <2>1. PICK evicted \in SUBSET parked[d] :
            parked' = [parked EXCEPT ![d] = (parked[d] \ evicted) \union {o}]
    BY <1>4 DEF ParkOp
  <2>2. log' = [log EXCEPT ![d] = log[d]] /\ ~HasPredecessors(log[d], o)
    BY <1>1, <1>4 DEF ParkOp, Inv, TypeOK
  <2> DEFINE Q == (parked[d] \ evicted) \union {o}
  <2>3. Q \subseteq Existing /\ \A r \in Q : ~HasPredecessors(log[d], r)
    BY <1>1, <1>2, <2>2
  <2> HIDE DEF Q
  <2> QED BY <1>1, <1>2, <1>3, <2>1, <2>2, <2>3, HearStep DEF Q
<1>5. CASE MergeOp(d, o)
  <2> DEFINE L == log[d] \union {o}
             M == Merged(C, K, L, parked[d])
             Q == StillWaiting(M, parked[d])
  <2>1. Closed(L)
    <3>1. HasPredecessors(log[d], o) /\ o.issuer \in Known(log[d])
      BY <1>5 DEF MergeOp, Acceptable
    <3>2. Ids(log[d]) \subseteq Ids(L) /\ Known(log[d]) \subseteq Known(L)
      BY DEF Ids, Known
    <3> QED BY <1>2, <3>1, <3>2 DEF Closed, HasPredecessors
  <2>2. Closed(M) /\ L \subseteq M /\ M \subseteq L \union parked[d]
    <3> HIDE DEF L, C, K
    <3> QED BY <2>1, MergedClosed
  <2>3. log' = [log EXCEPT ![d] = M] /\ parked' = [parked EXCEPT ![d] = Q]
    BY <1>5 DEF MergeOp
  <2>4. Q \subseteq Existing /\ \A r \in Q : ~HasPredecessors(M, r)
    BY <1>1 DEF StillWaiting
  <2> HIDE DEF M, Q
  <2>5. M \subseteq Existing /\ log[d] \subseteq M
    BY <1>1, <1>2, <2>2
  <2> QED BY <1>3, <2>2, <2>3, <2>4, <2>5, HearStep
<1>6. CASE IgnoreOp(d, o)
  <2>1. mints' \in 0..MaxMints
    BY <1>3 DEF Inv, TypeOK
  <2> QED BY <1>3, <1>6, <2>1, QuietStep DEF IgnoreOp
<1> QED BY <1>4, <1>5, <1>6 DEF ControlOp

(* The log of d once it has absorbed some certificates and retried. *)
LEMMA WithCertsClosed ==
    ASSUME Inv, NEW d \in live, NEW batch, NEW K
    PROVE  /\ Closed(LogWithCerts(d, batch, K))
           /\ log[d] \subseteq LogWithCerts(d, batch, K)
           /\ LogWithCerts(d, batch, K) \subseteq log[d] \union parked[d]
<1>1. Closed(log[d])
  BY DEF Inv, CausallyClosed, Closed
<1> QED BY <1>1, MergedClosed DEF LogWithCerts

(* on_certs_arrived. *)
LEMMA CertsArrivedStep ==
    ASSUME Inv, NEW d \in live, NEW batch, CertsArrived(d, batch)
    PROVE  Inv'
<1> DEFINE K == ClosureWith(d, batch)
           L == LogWithCerts(d, batch, K)
           N == QuorumOpsWithCerts(d, batch, K, L)
           M == L \union N
           Q == IF batch \subseteq certs[d] THEN parked[d] ELSE StillWaiting(L, parked[d])
<1>1. d \in Member /\ log[d] \subseteq Existing /\ parked[d] \subseteq Existing
  BY DEF Inv, TypeOK
<1>2. /\ Issue(N) /\ log' = [log EXCEPT ![d] = M] /\ sent' = sent \union N
      /\ parked' = [parked EXCEPT ![d] = Q]
      /\ UNCHANGED <<live, invites, mints>>
  BY DEF CertsArrived
<1>3. Closed(L) /\ log[d] \subseteq L /\ L \subseteq log[d] \union parked[d]
  <2> HIDE DEF K
  <2> QED BY WithCertsClosed
<1>4. Signed(d, L, N)
  BY QuorumOpsSigned DEF QuorumOpsWithCerts
<1>5. Q \subseteq parked[d] /\ \A o \in Q : ~HasPredecessors(L, o)
  <2>1. CASE batch \subseteq certs[d]
    BY <2>1 DEF LogWithCerts, Inv, ParkedAwaits
  <2>2. CASE ~(batch \subseteq certs[d])
    BY <2>2 DEF StillWaiting
  <2> QED BY <2>1, <2>2
<1> HIDE DEF K, L, N, Q
<1>6. d \in Known(L)
  BY <1>3 DEF Inv, SelfKnown, Known
<1>7. Closed(M)
  BY <1>3, <1>4, <1>6, SignedClosed
<1>8. \A o \in Q : ~HasPredecessors(M, o)
  BY <1>1, <1>4, <1>5, SignedUnawaited
<1>9. /\ M \subseteq Existing \union N /\ Q \subseteq Existing /\ L \subseteq Existing
      /\ log[d] \union L \union N \subseteq M
  BY <1>1, <1>3, <1>5
<1>10. Existing' = Existing \union N
  BY <1>2 DEF Existing, InitAdd, Op
<1>11. /\ mints' \in 0..MaxMints
       /\ \A i \in invites' : i.to \in Member /\ i.log \subseteq Existing' /\ InitAdd \in i.log
  BY <1>2, <1>10 DEF Inv, TypeOK, Traced
<1> HIDE DEF M
<1> QED BY <1>2, <1>4, <1>6, <1>7, <1>8, <1>9, <1>11, OneLogStep

(* A Log of e heard by d: its certificates, then its operations. *)
LEMMA LogArrivedStep ==
    ASSUME Inv, NEW d \in live, NEW e \in live, LogArrived(d, e)
    PROVE  Inv'
<1> DEFINE C == certs[d] \union certs[e]
           K == ClosureWith(d, certs[e])
           L == LogWithCerts(d, certs[e], K)
           N == QuorumOpsWithCerts(d, certs[e], K, L)
           P == parked[d] \union log[e]
           M == Merged(C, K, L \union N, P)
<1>1. /\ d \in Member /\ log[d] \subseteq Existing /\ parked[d] \subseteq Existing
      /\ log[e] \subseteq Existing
  BY DEF Inv, TypeOK
<1>2. /\ Issue(N) /\ log' = [log EXCEPT ![d] = M] /\ sent' = sent \union N
      /\ UNCHANGED <<live, invites, mints>>
  BY DEF LogArrived
<1>3. PICK kept \in SUBSET StillWaiting(M, P) : parked' = [parked EXCEPT ![d] = kept]
  BY DEF LogArrived
<1>4. Closed(L) /\ log[d] \subseteq L /\ L \subseteq log[d] \union parked[d]
  <2> HIDE DEF K
  <2> QED BY WithCertsClosed
<1>5. Signed(d, L, N)
  BY QuorumOpsSigned DEF QuorumOpsWithCerts
<1>6. kept \subseteq P /\ \A o \in kept : ~HasPredecessors(M, o)
  <2> HIDE DEF M, P
  <2> QED BY DEF StillWaiting
<1> HIDE DEF C, K, L, N
<1>7. d \in Known(L)
  BY <1>4 DEF Inv, SelfKnown, Known
<1>8. Closed(L \union N)
  BY <1>4, <1>5, <1>7, SignedClosed
<1>9. Closed(M) /\ L \union N \subseteq M /\ M \subseteq L \union N \union P
  <2> HIDE DEF P
  <2> QED BY <1>8, MergedClosed
<1>10. M \subseteq Existing \union N /\ kept \subseteq Existing
  BY <1>1, <1>4, <1>6, <1>9
<1> HIDE DEF M, P
<1>11. log[d] \union L \union N \subseteq M /\ L \subseteq Existing
  BY <1>1, <1>4, <1>9
<1>12. Existing' = Existing \union N
  BY <1>2 DEF Existing, InitAdd, Op
<1>13. /\ mints' \in 0..MaxMints
       /\ \A i \in invites' : i.to \in Member /\ i.log \subseteq Existing' /\ InitAdd \in i.log
  BY <1>2, <1>12 DEF Inv, TypeOK, Traced
<1>14. Closed(M) /\ (N # {} => d \in Known(L)) /\ \A o \in kept : ~HasPredecessors(M, o)
  BY <1>6, <1>7, <1>9
<1>15. live' = live
  BY <1>2
<1> QED BY <1>2, <1>3, <1>5, <1>10, <1>11, <1>13, <1>14, <1>15, OneLogStep

(* A restart forgets the queue. *)
LEMMA RestartStep ==
    ASSUME Inv, NEW d \in live, Restart(d)
    PROVE  Inv'
<1>1. /\ d \in Member /\ log[d] \subseteq Existing
      /\ log' = [log EXCEPT ![d] = log[d]] /\ parked' = [parked EXCEPT ![d] = {}]
      /\ UNCHANGED <<live, sent, invites, issues, mints>>
  BY DEF Restart, Inv, TypeOK
<1>2. Closed(log[d]) /\ d \in Known(log[d])
  BY DEF Inv, CausallyClosed, SelfKnown, Closed
<1>3. PICK M, none : M = log[d] /\ none = {}
  OBVIOUS
<1>4. /\ M \subseteq Existing /\ none \subseteq Existing /\ Closed(M) /\ log[d] \subseteq M
      /\ \A o \in none : ~HasPredecessors(M, o)
      /\ log' = [log EXCEPT ![d] = M] /\ parked' = [parked EXCEPT ![d] = none]
  BY <1>1, <1>2, <1>3
<1> QED BY <1>1, <1>4, HearStep

-----------------------------------------------------------------------------
(* What a member calls keeps the invariant. *)
LEMMA CallStep ==
    ASSUME Inv, NEW d \in live, Call(d) \/ Quorum(d)
    PROVE  Inv'
<1>1. ASSUME NEW x \in Enrollees, NEW r \in Roles, NEW g \in NewDigests, AddUser(d, x, r, g)
      PROVE  Inv'
  BY <1>1, AdmitStep, AdmittedAssumption DEF AddUser
<1>2. ASSUME NEW x \in Enrollees, NEW u \in Member, NEW g \in NewDigests, AddDevice(d, x, u, g)
      PROVE  Inv'
  BY <1>2, AdmitStep, AdmittedAssumption DEF AddDevice
<1>3. ASSUME NEW u \in Subjects, NEW r \in Roles, NEW g \in NewDigests, SetRole(d, u, r, g)
      PROVE  Inv'
  <2>1. mints' \in 0..MaxMints
    BY <1>3, MintBounded DEF SetRole, Certify
  <2> QED BY <1>3, <2>1, QuietStep DEF SetRole
<1>4. ASSUME NEW a, NEW g \in NewDigests, Propose(d, a, g)
      PROVE  Inv'
  <2>1. mints' \in 0..MaxMints
    BY <1>4, MintBounded DEF Propose, Certify
  <2> QED BY <1>4, <2>1, QuietStep DEF Propose
<1>5. CASE Call(d)
  BY <1>1, <1>2, <1>3, <1>5, RemoveMemberStep, LeaveStep, RotateStep DEF Call
<1>6. CASE Quorum(d)
  BY <1>4, <1>6, ApproveStep DEF Quorum
<1> QED BY <1>5, <1>6

(* Every step keeps the invariant. *)
LEMMA NextInv == Inv /\ [Next]_vars => Inv'
<1> SUFFICES ASSUME Inv, [Next]_vars PROVE Inv'
  OBVIOUS
<1>1. ASSUME NEW d \in live, Call(d) \/ Quorum(d) PROVE Inv'
  BY <1>1, CallStep
<1>2. ASSUME NEW d \in live, Hear(d) PROVE Inv'
  BY <1>2, ControlOpStep, CertsArrivedStep, LogArrivedStep DEF Hear
<1>3. ASSUME NEW d \in live, Restart(d) PROVE Inv'
  BY <1>3, RestartStep
<1>4. ASSUME NEW i \in invites, Join(i) PROVE Inv'
  BY <1>4, JoinStep
<1>5. CASE UNCHANGED vars
  <2>1. mints' \in 0..MaxMints
    BY <1>5 DEF vars, Inv, TypeOK
  <2> QED BY <1>5, <2>1, QuietStep DEF vars
<1> QED BY <1>1, <1>2, <1>3, <1>4, <1>5 DEF Next

LEMMA Invariance == Spec => []Inv
  BY InitInv, NextInv, PTL DEF Spec

(* Nothing is merged, parked or handed out that nobody signed, and the     *)
(* state keeps its types.                                                  *)
THEOREM TypeCorrect == Spec => []TypeOK
<1>1. Inv => TypeOK
  BY DEF Inv
<1> QED BY <1>1, Invariance, PTL

(* In every workspace and at every replica, a merged log has no hole and   *)
(* no stranger in it, whatever arrives in whatever order: merge_verified   *)
(* and merge_pending (keys.rs), join, and the handlers that sign.          *)
THEOREM LogsStayClosed == Spec => []CausallyClosed
<1>1. Inv => CausallyClosed
  BY DEF Inv
<1> QED BY <1>1, Invariance, PTL

(* No lost wake-up in any workspace: an operation is parked only while one *)
(* of its predecessors is missing (on_control_op, on_certs_arrived).       *)
THEOREM NoLostWakeUp == Spec => []ParkedAwaits
<1>1. Inv => ParkedAwaits
  BY DEF Inv
<1> QED BY <1>1, Invariance, PTL

=============================================================================
