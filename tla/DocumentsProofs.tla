--------------------------- MODULE DocumentsProofs ---------------------------
(***************************************************************************)
(* For any peers, documents, edits and budget: drain_pending ends, what it *)
(* leaves parked is blocked, and as long as nothing was evicted every      *)
(* chunk that ingest_all has handed to the core is accounted for.          *)
(***************************************************************************)
EXTENDS Documents, FiniteSetTheorems, TLAPS

(* Most leaves are first-order: Zenon is tried first, SMT for the rest. *)
USE ZenonT(4), SMTT(15)

-----------------------------------------------------------------------------
(* Induction over the numbers, with a set for the property.                *)

LEMMA MinimalIn ==
    ASSUME NEW R, IsWellFoundedOn(R, Nat), NEW T, T \subseteq Nat, T # {}
    PROVE  \E x \in T : \A y \in T : ~(<<y, x>> \in R)
<1>1. ASSUME NEW S, IsWellFoundedOn(R, S), T \subseteq S, T # {}
      PROVE  \E x \in T : \A y \in T : ~(<<y, x>> \in R)
  BY <1>1, WFMin
<1> QED BY <1>1

LEMMA Induction ==
    ASSUME NEW P, 0 \in P, \A n \in Nat : n \in P => n + 1 \in P
    PROVE  \A n \in Nat : n \in P
<1> SUFFICES ASSUME NEW k \in Nat, k \notin P PROVE FALSE
  OBVIOUS
<1> DEFINE R == OpToRel(<, Nat)
           T == {n \in Nat : n \notin P}
<1>1. \A x, y \in Nat : x < y => <<x, y>> \in R
  BY Zenon DEF OpToRel
<1>2. IsWellFoundedOn(R, Nat)
  BY NatLessThanWellFounded
<1>3. T \subseteq Nat /\ T # {}
  OBVIOUS
<1> HIDE DEF R, T
<1>4. PICK x \in T : \A y \in T : ~(<<y, x>> \in R)
  BY <1>2, <1>3, MinimalIn
<1>5. x \in Nat /\ x \notin P /\ x # 0
  BY <1>4 DEF T
<1>6. x - 1 \in Nat /\ (x - 1) + 1 = x /\ x - 1 < x
  BY <1>5
<1>7. x - 1 \notin P
  BY <1>5, <1>6
<1>8. x - 1 \in T
  BY <1>6, <1>7 DEF T
<1> QED BY <1>1, <1>4, <1>5, <1>6, <1>8

(* Induction up to a bound. *)
LEMMA InductionUpTo ==
    ASSUME NEW N \in Nat, NEW P, 0 \in P, \A n \in 1..N : n - 1 \in P => n \in P
    PROVE  \A n \in 0..N : n \in P
<1> DEFINE Q == {n \in Nat : n <= N => n \in P}
<1>1. 0 \in Q
  OBVIOUS
<1>2. ASSUME NEW n \in Nat, n \in Q
      PROVE  n + 1 \in Q
  <2>1. CASE n + 1 <= N
    <3>1. n + 1 \in 1..N /\ (n + 1) - 1 = n /\ n \in P
      BY <1>2, <2>1
    <3>2. n + 1 \in P
      BY <3>1
    <3> QED BY <3>2
  <2> QED BY <2>1
<1> HIDE DEF Q
<1>3. \A n \in Nat : n \in Q
  BY <1>1, <1>2, Induction
<1> QED BY <1>3 DEF Q

(* f starts with x0, and G makes each of its values from the one before. *)
Iterates(f, N, X, x0, G) ==
    f \in [0..N -> X] /\ f[0] = x0 /\ \A n \in 1..N : f[n] = G[<<n, f[n - 1]>>]

(* A function that is defined step by step exists. *)
LEMMA Recursion ==
    ASSUME NEW N \in Nat, NEW X, NEW x0 \in X, NEW G \in [(1..N) \X X -> X]
    PROVE  \E f : Iterates(f, N, X, x0, G)
<1>0. \A n \in 1..N, x \in X : G[<<n, x>>] \in X
  OBVIOUS
<1> DEFINE Runs(k, f) == f[0] = x0 /\ \A n \in 1..k : f[n] = G[<<n, f[n - 1]>>]
           P == {k \in 0..N : \E f \in [0..k -> X] : Runs(k, f)}
<1>1. 0 \in P
  <2> DEFINE f == [n \in 0..0 |-> x0]
  <2>1. f \in [0..0 -> X] /\ f[0] = x0
    OBVIOUS
  <2>2. Runs(0, f)
    BY <2>1
  <2> HIDE DEF f, Runs
  <2> QED BY <2>1, <2>2
<1>2. ASSUME NEW k \in 1..N, k - 1 \in P
      PROVE  k \in P
  <2>1. PICK f \in [0..(k - 1) -> X] : Runs(k - 1, f)
    BY <1>2
  <2> DEFINE g == [n \in 0..k |-> IF n = k THEN G[<<k, f[k - 1]>>] ELSE f[n]]
  <2>2. k - 1 \in 0..(k - 1) /\ f[k - 1] \in X
    BY <2>1
  <2>3. G[<<k, f[k - 1]>>] \in X
    BY <1>0, <2>2
  <2>4. g \in [0..k -> X]
    BY <2>1, <2>3
  <2>5. g[0] = x0
    BY <2>1
  <2>6. ASSUME NEW n \in 1..k
        PROVE  g[n] = G[<<n, g[n - 1]>>]
    <3>1. g[n - 1] = f[n - 1]
      OBVIOUS
    <3>2. CASE n = k
      <4>1. g[n] = G[<<k, f[k - 1]>>]
        BY <3>2
      <4> HIDE DEF g
      <4> QED BY <3>1, <3>2, <4>1
    <3>3. CASE n # k
      <4>1. n \in 1..(k - 1) /\ g[n] = f[n]
        BY <3>3
      <4>2. f[n] = G[<<n, f[n - 1]>>]
        BY <2>1, <4>1
      <4> QED BY <3>1, <4>1, <4>2
    <3> QED BY <3>2, <3>3
  <2>7. Runs(k, g)
    BY <2>5, <2>6
  <2> HIDE DEF g, Runs
  <2> QED BY <2>4, <2>7
<1>3. N \in P
  <2> HIDE DEF P
  <2> QED BY <1>1, <1>2, InductionUpTo
<1>4. PICK f \in [0..N -> X] : Runs(N, f)
  BY <1>3
<1>5. Iterates(f, N, X, x0, G)
  BY <1>4 DEF Iterates
<1> QED BY <1>5

-----------------------------------------------------------------------------
(* The states of a drain.                                                  *)

DrainState == [known : SUBSET Epoch, docs : [Doc -> SUBSET Operation], pending : Seq(Parked),
               asks : SUBSET (Target \X Doc), applied : Nat, evicted : BOOLEAN]

(* The chunk c of document d is in the queue. *)
Parks(s, d, c) == \E i \in DOMAIN s.pending : s.pending[i].doc = d /\ s.pending[i].chunk = c

(* p can derive the key of c, having merged the epochs known. *)
Readable(p, known, c) == c.epoch \in known /\ p \in leaves[c.epoch]

(* Nothing is left to do for the chunk c of document d. *)
Done(p, s, d, c) ==
    \/ c.ops \subseteq Attached(s.docs[d])
    \/ c.epoch \in s.known /\ p \notin leaves[c.epoch]

Accounted(p, s, d, c) == Done(p, s, d, c) \/ Parks(s, d, c)

LEMMA AttachedGrows ==
    ASSUME NEW X, NEW Y, X \subseteq Y
    PROVE  Attached(X) \subseteq Attached(Y) /\ Ids(X) \subseteq Ids(Y) /\ Attached(X) \subseteq X
BY DEF Attached, Ids

LEMMA ParkedFields ==
    ASSUME NEW e \in Parked
    PROVE  /\ e.doc \in Doc /\ e.chunk \in Chunk /\ e.drains \in 0..MAX_DEP_WAIT_DRAINS
           /\ e.chunk.ops \in SUBSET Operation /\ e.chunk.epoch \in Epoch
           /\ Aged(e) \in Parked /\ Aged(e).doc = e.doc /\ Aged(e).chunk = e.chunk
BY DocumentsAssumption DEF Parked, Chunk, Aged

(* What one retry of e does to s, by the verdict on its chunk. *)
Retried(p, s, e, t) ==
    /\ t.known = s.known /\ t.evicted = s.evicted
    /\ \/ /\ e.chunk.epoch \notin s.known
          /\ t.docs = s.docs /\ t.pending = Append(s.pending, Aged(e)) /\ t.applied = s.applied
       \/ /\ e.chunk.epoch \in s.known /\ p \notin leaves[e.chunk.epoch]
          /\ t.docs = s.docs /\ t.pending = s.pending /\ t.applied = s.applied
       \/ /\ Readable(p, s.known, e.chunk)
          /\ ~(e.chunk.ops \subseteq Attached(s.docs[e.doc] \cup e.chunk.ops))
          /\ t.docs = [s.docs EXCEPT ![e.doc] = @ \cup e.chunk.ops]
          /\ t.pending = Append(s.pending, Aged(e)) /\ t.applied = s.applied
       \/ /\ Readable(p, s.known, e.chunk)
          /\ e.chunk.ops \subseteq Attached(s.docs[e.doc] \cup e.chunk.ops)
          /\ t.docs = [s.docs EXCEPT ![e.doc] = @ \cup e.chunk.ops]
          /\ t.pending = s.pending /\ t.applied = s.applied + 1

LEMMA RetryIs ==
    ASSUME NEW p \in Peer, NEW s \in DrainState, NEW e \in Parked, NEW t, t = Retry(p, s, e)
    PROVE  t \in DrainState /\ Retried(p, s, e, t)
<1>1. PICK v : v = Verdict(p, s.known, s.docs[e.doc], e.chunk)
  OBVIOUS
<1>2. PICK asks : asks = s.asks \cup Asks(e, v)
  OBVIOUS
<1>3. PICK more : more = [s.docs EXCEPT ![e.doc] = @ \cup e.chunk.ops]
  OBVIOUS
<1>4. e.doc \in Doc /\ e.chunk.ops \in SUBSET Operation /\ Aged(e) \in Parked
  BY ParkedFields
<1>5. more \in [Doc -> SUBSET Operation] /\ s.docs = [s.docs EXCEPT ![e.doc] = @]
  BY <1>3, <1>4 DEF DrainState
<1>6. asks \in SUBSET (Target \X Doc)
  <2>1. Asks(e, v) \in SUBSET (Target \X Doc)
    BY <1>4 DEF Asks, Target
  <2> QED BY <1>2, <2>1 DEF DrainState
<1>7. Append(s.pending, Aged(e)) \in Seq(Parked)
  BY <1>4 DEF DrainState
<1>8. CASE v = "AwaitingKey"
  <2>1. e.chunk.epoch \notin s.known
    BY <1>1, <1>8 DEF Verdict
  <2>2. t = [s EXCEPT !.docs = s.docs, !.asks = asks, !.applied = s.applied,
                      !.pending = Append(s.pending, Aged(e))]
    BY <1>1, <1>2, <1>5, <1>8 DEF Retry, Keep, DrainState
  <2>3. t \in DrainState
    BY <1>6, <1>7, <2>2 DEF DrainState
  <2> QED BY <2>1, <2>2, <2>3 DEF DrainState, Retried
<1>9. CASE v = "Unreachable"
  <2>1. e.chunk.epoch \in s.known /\ p \notin leaves[e.chunk.epoch]
    BY <1>1, <1>9 DEF Verdict
  <2>2. t = [s EXCEPT !.docs = s.docs, !.asks = asks, !.applied = s.applied]
    BY <1>1, <1>2, <1>5, <1>9 DEF Retry, DrainState
  <2>3. t \in DrainState
    BY <1>6, <2>2 DEF DrainState
  <2> QED BY <2>1, <2>2, <2>3 DEF DrainState, Retried
<1>10. CASE v = "AwaitingDeps"
  <2>1. /\ Readable(p, s.known, e.chunk)
        /\ ~(e.chunk.ops \subseteq Attached(s.docs[e.doc] \cup e.chunk.ops))
    BY <1>1, <1>10 DEF Verdict, Readable
  <2>2. t = [s EXCEPT !.docs = more, !.asks = asks, !.applied = s.applied,
                      !.pending = Append(s.pending, Aged(e))]
    BY <1>1, <1>2, <1>3, <1>10 DEF Retry, Keep, DrainState
  <2>3. t \in DrainState
    BY <1>5, <1>6, <1>7, <2>2 DEF DrainState
  <2> QED BY <1>3, <2>1, <2>2, <2>3 DEF DrainState, Retried
<1>11. CASE v = "Applied"
  <2>1. /\ Readable(p, s.known, e.chunk)
        /\ e.chunk.ops \subseteq Attached(s.docs[e.doc] \cup e.chunk.ops)
    BY <1>1, <1>11 DEF Verdict, Readable
  <2>2. t = [s EXCEPT !.docs = more, !.asks = asks, !.applied = s.applied + 1]
    BY <1>1, <1>2, <1>3, <1>11 DEF Retry, DrainState
  <2>3. t \in DrainState
    <3>1. s.applied + 1 \in Nat
      BY DEF DrainState
    <3> QED BY <1>5, <1>6, <2>2, <3>1 DEF DrainState
  <2> QED BY <1>3, <2>1, <2>2, <2>3 DEF DrainState, Retried
<1>12. v \in {"AwaitingKey", "Unreachable", "AwaitingDeps", "Applied"}
  BY <1>1 DEF Verdict
<1> QED BY <1>8, <1>9, <1>10, <1>11, <1>12

(* t can come after s in a drain of p: what was parked is accounted for,   *)
(* and what is new in the documents was parked and is readable.            *)
Leads(p, s, t) ==
    /\ t.known = s.known /\ t.evicted = s.evicted
    /\ \A d \in Doc : s.docs[d] \subseteq t.docs[d]
    /\ \A d \in Doc, c \in Chunk : Parks(t, d, c) => Parks(s, d, c)
    /\ \A d \in Doc, c \in Chunk : Parks(s, d, c) => Accounted(p, t, d, c)
    /\ \A d \in Doc : \A o \in t.docs[d] :
          \/ o \in s.docs[d]
          \/ \E c \in Chunk : Parks(s, d, c) /\ o \in c.ops /\ Readable(p, s.known, c)
    /\ Len(t.pending) <= Len(s.pending)

LEMMA DoneStays ==
    ASSUME NEW p, NEW s, NEW t, t.known = s.known, \A d \in Doc : s.docs[d] \subseteq t.docs[d],
           NEW d \in Doc, NEW c, Done(p, s, d, c)
    PROVE  Done(p, t, d, c)
<1>1. Attached(s.docs[d]) \subseteq Attached(t.docs[d])
  BY AttachedGrows
<1> QED BY <1>1 DEF Done

LEMMA LeadsOrder ==
    ASSUME NEW p
    PROVE  /\ \A s \in DrainState : Leads(p, s, s)
           /\ \A s, t, u \in DrainState : Leads(p, s, t) /\ Leads(p, t, u) => Leads(p, s, u)
<1>1. \A s \in DrainState : Leads(p, s, s)
  <2> SUFFICES ASSUME NEW s \in DrainState PROVE Leads(p, s, s)
    OBVIOUS
  <2>1. Len(s.pending) \in Nat
    BY DEF DrainState
  <2> QED BY <2>1 DEF Leads, Accounted
<1>2. ASSUME NEW s \in DrainState, NEW t \in DrainState, NEW u \in DrainState,
             Leads(p, s, t), Leads(p, t, u)
      PROVE  Leads(p, s, u)
  <2>1. u.known = s.known /\ u.evicted = s.evicted
    BY <1>2 DEF Leads
  <2>2. \A d \in Doc : s.docs[d] \subseteq u.docs[d]
    BY <1>2 DEF Leads
  <2>3. \A d \in Doc, c \in Chunk : Parks(u, d, c) => Parks(s, d, c)
    BY <1>2 DEF Leads
  <2>4. ASSUME NEW d \in Doc, NEW c \in Chunk, Parks(s, d, c)
        PROVE  Accounted(p, u, d, c)
    <3>1. Accounted(p, t, d, c)
      BY <1>2, <2>4 DEF Leads
    <3>2. CASE Done(p, t, d, c)
      <4>1. u.known = t.known /\ \A x \in Doc : t.docs[x] \subseteq u.docs[x]
        BY <1>2 DEF Leads
      <4>2. Done(p, u, d, c)
        BY <3>2, <4>1, DoneStays
      <4> QED BY <4>2 DEF Accounted
    <3>3. CASE Parks(t, d, c)
      BY <1>2, <3>3 DEF Leads
    <3> QED BY <3>1, <3>2, <3>3 DEF Accounted
  <2>5. ASSUME NEW d \in Doc, NEW o \in u.docs[d]
        PROVE  \/ o \in s.docs[d]
               \/ \E c \in Chunk : Parks(s, d, c) /\ o \in c.ops /\ Readable(p, s.known, c)
    BY <1>2 DEF Leads
  <2>6. Len(u.pending) <= Len(s.pending)
    <3>1. Len(s.pending) \in Nat /\ Len(t.pending) \in Nat /\ Len(u.pending) \in Nat
      BY DEF DrainState
    <3> QED BY <1>2, <3>1 DEF Leads
  <2> QED BY <2>1, <2>2, <2>3, <2>4, <2>5, <2>6 DEF Leads
<1> QED BY <1>1, <1>2

(* What is parked is blocked, as ParkedIsBlocked says of the queue of p. *)
Blocked(p, s) ==
    \A i \in DOMAIN s.pending :
        /\ s.pending[i].chunk.epoch \in s.known =>
              /\ p \in leaves[s.pending[i].chunk.epoch]
              /\ s.pending[i].chunk.ops \subseteq s.docs[s.pending[i].doc]
        /\ (\A j \in DOMAIN s.pending : s.pending[j].doc = s.pending[i].doc => j <= i) =>
              \/ s.pending[i].chunk.epoch \notin s.known
              \/ ~(s.pending[i].chunk.ops \subseteq
                      Attached(s.docs[s.pending[i].doc] \cup s.pending[i].chunk.ops))

(* A round of p over the queue of s that has come to its n-th chunk. *)
Halfway(p, s, n, t) ==
    /\ t.known = s.known /\ t.evicted = s.evicted
    /\ \A d \in Doc : s.docs[d] \subseteq t.docs[d]
    /\ \A d \in Doc, c \in Chunk : Parks(t, d, c) => Parks(s, d, c)
    /\ \A i \in 1..n : Accounted(p, t, s.pending[i].doc, s.pending[i].chunk)
    /\ \A d \in Doc : \A o \in t.docs[d] :
          \/ o \in s.docs[d]
          \/ \E c \in Chunk : Parks(s, d, c) /\ o \in c.ops /\ Readable(p, s.known, c)
    /\ Len(t.pending) + t.applied <= n
    /\ t.applied = 0 => Blocked(p, t)

(* A round begins with an empty queue to rebuild. *)
RoundStart(s) == [s EXCEPT !.pending = <<>>, !.applied = 0]

LEMMA RoundRuns ==
    ASSUME NEW p \in Peer, NEW s \in DrainState, NEW N \in Nat, N = Len(s.pending)
    PROVE  \E f \in [0..N -> DrainState] :
             /\ f[0] = RoundStart(s)
             /\ \A n \in 1..N : f[n] = Retry(p, f[n - 1], s.pending[n])
             /\ Round(p, s) = f[N]
<1> DEFINE first == RoundStart(s)
           G == [z \in (1..N) \X DrainState |-> Retry(p, z[2], s.pending[z[1]])]
<1>1. first \in DrainState
  <2>1. \A q \in Seq(Parked), n \in Nat : [s EXCEPT !.pending = q, !.applied = n] \in DrainState
    BY DEF DrainState
  <2>2. <<>> \in Seq(Parked) /\ 0 \in Nat
    OBVIOUS
  <2> QED BY <2>1, <2>2 DEF RoundStart
<1>2. \A n \in 1..N : s.pending[n] \in Parked
  BY DEF DrainState
<1>3. G \in [(1..N) \X DrainState -> DrainState]
  <2> SUFFICES ASSUME NEW z \in (1..N) \X DrainState
               PROVE  Retry(p, z[2], s.pending[z[1]]) \in DrainState
    OBVIOUS
  <2>1. s.pending[z[1]] \in Parked /\ z[2] \in DrainState
    BY <1>2
  <2> QED BY <2>1, RetryIs
<1>4. \A n \in 1..N, x \in DrainState : G[<<n, x>>] = Retry(p, x, s.pending[n])
  OBVIOUS
<1> HIDE DEF G, first
<1>5. PICK f \in [0..N -> DrainState] : f[0] = first /\ \A n \in 1..N : f[n] = G[<<n, f[n - 1]>>]
  <2>1. \E f : Iterates(f, N, DrainState, first, G)
    BY <1>1, <1>3, Recursion
  <2> QED BY <2>1 DEF Iterates
<1>6. \A n \in 1..N : f[n] = Retry(p, f[n - 1], s.pending[n])
  <2> SUFFICES ASSUME NEW n \in 1..N
               PROVE  f[n] = Retry(p, f[n - 1], s.pending[n])
    OBVIOUS
  <2>1. f[n - 1] \in DrainState
    OBVIOUS
  <2> QED BY <1>4, <1>5, <2>1
<1> DEFINE Runs(g) == g = [n \in 0..N |-> IF n = 0 THEN first ELSE Retry(p, g[n - 1], s.pending[n])]
           after == CHOOSE g : Runs(g)
<1>7. Runs(f)
  BY <1>5, <1>6
<1>8. Runs(after)
  <2> HIDE DEF Runs
  <2> QED BY <1>7
<1>9. Round(p, s) = after[N]
  BY DEF Round, RoundStart, first
<1> HIDE DEF after
<1>10. after[0] = first /\ \A n \in 1..N : after[n] = Retry(p, after[n - 1], s.pending[n])
  <2>1. PICK h : h = [n \in 0..N |-> IF n = 0 THEN first ELSE Retry(p, after[n - 1], s.pending[n])]
    OBVIOUS
  <2>2. h[0] = first /\ \A n \in 1..N : h[n] = Retry(p, after[n - 1], s.pending[n])
    BY <2>1
  <2>3. after = h
    BY <1>8, <2>1
  <2> QED BY <2>2, <2>3
<1> HIDE DEF Runs
<1> DEFINE P == {n \in 0..N : after[n] = f[n]}
<1>11. 0 \in P
  BY <1>5, <1>10
<1>12. ASSUME NEW n \in 1..N, n - 1 \in P
       PROVE  n \in P
  BY <1>6, <1>10, <1>12
<1>13. \A n \in 0..N : n \in P
  <2> HIDE DEF P
  <2> QED BY <1>11, <1>12, InductionUpTo
<1>14. after[N] = f[N]
  BY <1>13
<1> QED BY <1>5, <1>6, <1>9, <1>14 DEF first

(* What a retry does to the queue: it stays as it is or grows by e, aged. *)
LEMMA RetriedQueue ==
    ASSUME NEW p \in Peer, NEW s \in DrainState, NEW e \in Parked, NEW t \in DrainState,
           Retried(p, s, e, t)
    PROVE  /\ t.known = s.known /\ t.evicted = s.evicted
           /\ \A d \in Doc : s.docs[d] \subseteq t.docs[d]
           /\ \A d \in Doc : \A c : Parks(s, d, c) => Parks(t, d, c)
           /\ \A d \in Doc : \A c : Parks(t, d, c) => Parks(s, d, c) \/ (d = e.doc /\ c = e.chunk)
           /\ Accounted(p, t, e.doc, e.chunk)
           /\ \A d \in Doc : \A o \in t.docs[d] :
                 \/ o \in s.docs[d]
                 \/ d = e.doc /\ o \in e.chunk.ops /\ Readable(p, s.known, e.chunk)
           /\ Len(t.pending) + t.applied <= Len(s.pending) + s.applied + 1
           /\ t.applied >= s.applied
<1>1. t.known = s.known /\ t.evicted = s.evicted
  BY DEF Retried
<1>2. e.doc \in Doc /\ Aged(e) \in Parked /\ Aged(e).doc = e.doc /\ Aged(e).chunk = e.chunk
  BY ParkedFields
<1>3. \/ t.docs = s.docs
      \/ t.docs = [s.docs EXCEPT ![e.doc] = @ \cup e.chunk.ops] /\ Readable(p, s.known, e.chunk)
  BY DEF Retried
<1>4. s.docs \in [Doc -> SUBSET Operation]
  BY DEF DrainState
<1>5. \A d \in Doc : s.docs[d] \subseteq t.docs[d]
  BY <1>3, <1>4
<1>6. ASSUME NEW d \in Doc, NEW o \in t.docs[d]
      PROVE  \/ o \in s.docs[d]
             \/ d = e.doc /\ o \in e.chunk.ops /\ Readable(p, s.known, e.chunk)
  BY <1>3, <1>4
<1>7. PICK a : a = Aged(e)
  OBVIOUS
<1>8. s.pending \in Seq(Parked) /\ t.pending \in Seq(Parked) /\ a \in Parked
      /\ a.doc = e.doc /\ a.chunk = e.chunk
  BY <1>2, <1>7 DEF DrainState
<1>9. t.pending = s.pending \/ t.pending = Append(s.pending, a)
  BY <1>7 DEF Retried
<1>10. /\ \A i \in DOMAIN s.pending : i \in DOMAIN t.pending /\ t.pending[i] = s.pending[i]
       /\ \A i \in DOMAIN t.pending :
             (i \in DOMAIN s.pending /\ t.pending[i] = s.pending[i]) \/ t.pending[i] = a
       /\ t.pending = Append(s.pending, a) =>
             Len(s.pending) + 1 \in DOMAIN t.pending /\ t.pending[Len(s.pending) + 1] = a
  BY <1>8, <1>9
<1>11. \A d \in Doc : \A c : Parks(s, d, c) => Parks(t, d, c)
  BY <1>10 DEF Parks
<1>12. \A d \in Doc : \A c : Parks(t, d, c) => Parks(s, d, c) \/ (d = e.doc /\ c = e.chunk)
  BY <1>8, <1>10 DEF Parks
<1>13. Accounted(p, t, e.doc, e.chunk)
  <2>1. CASE t.pending = Append(s.pending, a)
    <3>1. Parks(t, e.doc, e.chunk)
      BY <1>8, <1>10, <2>1 DEF Parks
    <3> QED BY <3>1 DEF Accounted
  <2>2. CASE e.chunk.epoch \in s.known /\ p \notin leaves[e.chunk.epoch]
    BY <1>1, <2>2 DEF Accounted, Done
  <2>3. CASE /\ e.chunk.ops \subseteq Attached(s.docs[e.doc] \cup e.chunk.ops)
             /\ t.docs = [s.docs EXCEPT ![e.doc] = @ \cup e.chunk.ops]
    <3>1. t.docs[e.doc] = s.docs[e.doc] \cup e.chunk.ops
      BY <1>2, <1>4, <2>3
    <3> QED BY <2>3, <3>1 DEF Accounted, Done
  <2> QED BY <1>7, <2>1, <2>2, <2>3 DEF Retried
<1>14. s.applied \in Nat /\ t.applied \in Nat /\ Len(s.pending) \in Nat /\ Len(t.pending) \in Nat
  BY DEF DrainState
<1>15. Len(Append(s.pending, a)) = Len(s.pending) + 1
  BY <1>8
<1>16. /\ Len(t.pending) + t.applied <= Len(s.pending) + s.applied + 1
       /\ t.applied >= s.applied
  <2>1. \/ t.pending = s.pending /\ t.applied = s.applied
        \/ t.pending = s.pending /\ t.applied = s.applied + 1
        \/ t.pending = Append(s.pending, a) /\ t.applied = s.applied
    BY <1>7 DEF Retried
  <2> QED BY <1>14, <1>15, <2>1
<1> QED BY <1>1, <1>5, <1>6, <1>11, <1>12, <1>13, <1>16

(* A retry that does not apply its chunk leaves the queue blocked. *)
LEMMA RetriedBlocked ==
    ASSUME NEW p \in Peer, NEW s \in DrainState, NEW e \in Parked, NEW t \in DrainState,
           Retried(p, s, e, t), Blocked(p, s), t.applied = s.applied
    PROVE  Blocked(p, t)
<1>1. s.docs \in [Doc -> SUBSET Operation] /\ s.pending \in Seq(Parked) /\ s.applied \in Nat
  BY DEF DrainState
<1>2. PICK a : a = Aged(e)
  OBVIOUS
<1>3. e.doc \in Doc /\ a \in Parked /\ a.doc = e.doc /\ a.chunk = e.chunk
  BY <1>2, ParkedFields
<1>4. CASE t.docs = s.docs /\ t.pending = s.pending /\ t.known = s.known
  BY <1>4 DEF Blocked
<1>5. ASSUME t.known = s.known, t.pending = Append(s.pending, a),
             \A d \in Doc : s.docs[d] \subseteq t.docs[d],
             \A d \in Doc : d # e.doc => t.docs[d] = s.docs[d],
             e.chunk.epoch \in s.known => /\ p \in leaves[e.chunk.epoch]
                                          /\ e.chunk.ops \subseteq t.docs[e.doc],
             \/ e.chunk.epoch \notin s.known
             \/ ~(e.chunk.ops \subseteq Attached(t.docs[e.doc] \cup e.chunk.ops))
      PROVE  Blocked(p, t)
  <2>1. PICK L \in Nat : L = Len(s.pending)
    BY <1>1
  <2>2. /\ DOMAIN s.pending = 1..L /\ DOMAIN t.pending = 1..(L + 1) /\ t.pending[L + 1] = a
        /\ \A i \in 1..L : t.pending[i] = s.pending[i] /\ s.pending[i] \in Parked
    BY <1>1, <1>3, <1>5, <2>1
  <2> SUFFICES ASSUME NEW i \in 1..(L + 1)
               PROVE  /\ t.pending[i].chunk.epoch \in t.known =>
                           /\ p \in leaves[t.pending[i].chunk.epoch]
                           /\ t.pending[i].chunk.ops \subseteq t.docs[t.pending[i].doc]
                      /\ (\A j \in 1..(L + 1) : t.pending[j].doc = t.pending[i].doc => j <= i) =>
                           \/ t.pending[i].chunk.epoch \notin t.known
                           \/ ~(t.pending[i].chunk.ops \subseteq
                                  Attached(t.docs[t.pending[i].doc] \cup t.pending[i].chunk.ops))
    BY <2>2 DEF Blocked
  <2>3. CASE i = L + 1
    BY <1>3, <1>5, <2>2, <2>3
  <2>4. CASE i # L + 1
    <3>1. PICK x \in Parked : x = s.pending[i] /\ x = t.pending[i]
      BY <2>2, <2>4
    <3>2. i \in DOMAIN s.pending /\ i \in 1..L /\ x.doc \in Doc
      BY <2>2, <2>4, <3>1, ParkedFields
    <3>3. /\ x.chunk.epoch \in s.known => p \in leaves[x.chunk.epoch] /\ x.chunk.ops \subseteq s.docs[x.doc]
          /\ (\A j \in 1..L : s.pending[j].doc = x.doc => j <= i) =>
                \/ x.chunk.epoch \notin s.known
                \/ ~(x.chunk.ops \subseteq Attached(s.docs[x.doc] \cup x.chunk.ops))
      BY <2>2, <3>1, <3>2 DEF Blocked
    <3>4. CASE x.doc = e.doc
      <4>1. ~(\A j \in 1..(L + 1) : t.pending[j].doc = x.doc => j <= i)
        <5>1. t.pending[L + 1].doc = x.doc /\ L + 1 \in 1..(L + 1) /\ ~(L + 1 <= i)
          BY <1>3, <2>2, <3>2, <3>4
        <5> QED BY <5>1
      <4>2. x.chunk.epoch \in t.known => p \in leaves[x.chunk.epoch] /\ x.chunk.ops \subseteq t.docs[x.doc]
        BY <1>5, <3>2, <3>3
      <4> QED BY <3>1, <4>1, <4>2
    <3>5. CASE x.doc # e.doc
      <4>1. t.docs[x.doc] = s.docs[x.doc]
        BY <1>5, <3>2, <3>5
      <4>2. (\A j \in 1..(L + 1) : t.pending[j].doc = x.doc => j <= i)
            => (\A j \in 1..L : s.pending[j].doc = x.doc => j <= i)
        BY <2>2
      <4> QED BY <1>5, <3>1, <3>3, <4>1, <4>2
    <3> QED BY <3>4, <3>5
  <2> QED BY <2>3, <2>4
<1>6. CASE /\ e.chunk.epoch \notin s.known
           /\ t.docs = s.docs /\ t.pending = Append(s.pending, Aged(e)) /\ t.known = s.known
  BY <1>2, <1>5, <1>6
<1>7. CASE /\ Readable(p, s.known, e.chunk)
           /\ ~(e.chunk.ops \subseteq Attached(s.docs[e.doc] \cup e.chunk.ops))
           /\ t.docs = [s.docs EXCEPT ![e.doc] = @ \cup e.chunk.ops]
           /\ t.pending = Append(s.pending, Aged(e)) /\ t.known = s.known
  <2>1. t.docs[e.doc] = s.docs[e.doc] \cup e.chunk.ops
    BY <1>1, <1>3, <1>7
  <2>2. t.docs[e.doc] \cup e.chunk.ops = s.docs[e.doc] \cup e.chunk.ops
    BY <2>1
  <2>3. ~(e.chunk.ops \subseteq Attached(t.docs[e.doc] \cup e.chunk.ops))
    BY <1>7, <2>2
  <2>4. /\ \A d \in Doc : s.docs[d] \subseteq t.docs[d]
        /\ \A d \in Doc : d # e.doc => t.docs[d] = s.docs[d]
    BY <1>1, <1>3, <1>7
  <2>5. p \in leaves[e.chunk.epoch] /\ e.chunk.ops \subseteq t.docs[e.doc]
    BY <1>7, <2>1 DEF Readable
  <2> QED BY <1>2, <1>5, <1>7, <2>3, <2>4, <2>5
<1>8. s.applied # s.applied + 1
  BY <1>1
<1> QED BY <1>4, <1>6, <1>7, <1>8 DEF Retried

LEMMA HalfwayStep ==
    ASSUME NEW p \in Peer, NEW s \in DrainState, NEW n \in 1..Len(s.pending),
           NEW t \in DrainState, Halfway(p, s, n - 1, t),
           NEW u, u = Retry(p, t, s.pending[n])
    PROVE  Halfway(p, s, n, u)
<1>1. Len(s.pending) \in Nat /\ DOMAIN s.pending = 1..Len(s.pending)
  BY DEF DrainState
<1>2. PICK e \in Parked : e = s.pending[n]
  BY <1>1 DEF DrainState
<1>3. u \in DrainState /\ Retried(p, t, e, u)
  BY <1>2, RetryIs
<1>4. /\ u.known = t.known /\ u.evicted = t.evicted
      /\ \A d \in Doc : t.docs[d] \subseteq u.docs[d]
      /\ \A d \in Doc : \A c : Parks(t, d, c) => Parks(u, d, c)
      /\ \A d \in Doc : \A c : Parks(u, d, c) => Parks(t, d, c) \/ (d = e.doc /\ c = e.chunk)
      /\ Accounted(p, u, e.doc, e.chunk)
      /\ \A d \in Doc : \A o \in u.docs[d] :
            \/ o \in t.docs[d]
            \/ d = e.doc /\ o \in e.chunk.ops /\ Readable(p, t.known, e.chunk)
      /\ Len(u.pending) + u.applied <= Len(t.pending) + t.applied + 1
      /\ u.applied >= t.applied
  BY <1>3, RetriedQueue
<1>5. Parks(s, e.doc, e.chunk) /\ e.doc \in Doc /\ e.chunk \in Chunk
  BY <1>1, <1>2, ParkedFields DEF Parks
<1>6. u.known = s.known /\ u.evicted = s.evicted
  BY <1>4 DEF Halfway
<1>7. \A d \in Doc : s.docs[d] \subseteq u.docs[d]
  BY <1>4 DEF Halfway
<1>8. \A d \in Doc, c \in Chunk : Parks(u, d, c) => Parks(s, d, c)
  BY <1>4, <1>5 DEF Halfway
<1>9. ASSUME NEW i \in 1..n
      PROVE  Accounted(p, u, s.pending[i].doc, s.pending[i].chunk)
  <2>1. CASE i = n
    BY <1>2, <1>4, <2>1
  <2>2. CASE i # n
    <3>1. i \in 1..(n - 1) /\ i \in DOMAIN s.pending
      BY <1>1, <2>2
    <3>2. PICK x \in Parked : x = s.pending[i]
      BY <3>1 DEF DrainState
    <3>3. x.doc \in Doc /\ Accounted(p, t, x.doc, x.chunk)
      BY <3>1, <3>2, ParkedFields DEF Halfway
    <3>4. CASE Done(p, t, x.doc, x.chunk)
      <4>1. Done(p, u, x.doc, x.chunk)
        BY <1>4, <3>3, <3>4, DoneStays
      <4> QED BY <3>2, <4>1 DEF Accounted
    <3>5. CASE Parks(t, x.doc, x.chunk)
      BY <1>4, <3>2, <3>3, <3>5 DEF Accounted
    <3> QED BY <3>3, <3>4, <3>5 DEF Accounted
  <2> QED BY <2>1, <2>2
<1>10. ASSUME NEW d \in Doc, NEW o \in u.docs[d]
       PROVE  \/ o \in s.docs[d]
              \/ \E c \in Chunk : Parks(s, d, c) /\ o \in c.ops /\ Readable(p, s.known, c)
  <2>1. t.known = s.known
    BY DEF Halfway
  <2> QED BY <1>4, <1>5, <2>1 DEF Halfway
<1>11. t.applied \in Nat /\ u.applied \in Nat /\ Len(t.pending) \in Nat /\ Len(u.pending) \in Nat
  BY <1>3 DEF DrainState
<1>12. Len(u.pending) + u.applied <= n
  BY <1>4, <1>11 DEF Halfway
<1>13. ASSUME u.applied = 0
       PROVE  Blocked(p, u)
  <2>1. t.applied = 0
    BY <1>4, <1>11, <1>13
  <2>2. Blocked(p, t)
    BY <2>1 DEF Halfway
  <2> QED BY <1>3, <1>13, <2>1, <2>2, RetriedBlocked
<1> QED BY <1>6, <1>7, <1>8, <1>9, <1>10, <1>12, <1>13 DEF Halfway

LEMMA HalfwayStart ==
    ASSUME NEW p \in Peer, NEW s \in DrainState, NEW t,
           t = RoundStart(s)
    PROVE  Halfway(p, s, 0, t)
<1>1. /\ t.known = s.known /\ t.evicted = s.evicted /\ t.docs = s.docs
      /\ t.pending = <<>> /\ t.applied = 0
  BY DEF DrainState, RoundStart
<1>2. DOMAIN t.pending = {} /\ Len(t.pending) = 0
  BY <1>1
<1>3. \A d, c : ~Parks(t, d, c)
  BY <1>2 DEF Parks
<1>4. Blocked(p, t)
  BY <1>2 DEF Blocked
<1> QED BY <1>1, <1>2, <1>3, <1>4 DEF Halfway

LEMMA RoundLeads ==
    ASSUME NEW p \in Peer, NEW s \in DrainState, NEW t, t = Round(p, s)
    PROVE  /\ t \in DrainState /\ Leads(p, s, t)
           /\ Len(t.pending) + t.applied <= Len(s.pending)
           /\ t.applied = 0 => Blocked(p, t)
<1>1. PICK N \in Nat : N = Len(s.pending)
  BY DEF DrainState
<1>2. PICK f \in [0..N -> DrainState] :
             /\ f[0] = RoundStart(s)
             /\ \A n \in 1..N : f[n] = Retry(p, f[n - 1], s.pending[n])
             /\ Round(p, s) = f[N]
  BY <1>1, RoundRuns
<1> DEFINE P == {n \in 0..N : Halfway(p, s, n, f[n])}
<1>3. 0 \in P
  BY <1>2, HalfwayStart
<1>4. ASSUME NEW n \in 1..N, n - 1 \in P
      PROVE  n \in P
  <2>1. PICK x \in DrainState : x = f[n - 1]
    OBVIOUS
  <2>2. Halfway(p, s, n - 1, x)
    BY <1>4, <2>1
  <2>3. f[n] = Retry(p, x, s.pending[n])
    BY <1>2, <2>1
  <2>4. Halfway(p, s, n, f[n])
    BY <1>1, <2>2, <2>3, HalfwayStep
  <2> QED BY <2>4
<1>5. \A n \in 0..N : n \in P
  <2> HIDE DEF P
  <2> QED BY <1>3, <1>4, InductionUpTo
<1>6. Halfway(p, s, N, t) /\ t \in DrainState
  BY <1>2, <1>5
<1>7. ASSUME NEW d \in Doc, NEW c \in Chunk, Parks(s, d, c)
      PROVE  Accounted(p, t, d, c)
  <2>1. DOMAIN s.pending = 1..N
    BY <1>1 DEF DrainState
  <2> QED BY <1>6, <1>7, <2>1 DEF Halfway, Parks
<1>8. Len(t.pending) \in Nat /\ t.applied \in Nat
  BY <1>6 DEF DrainState
<1>9. Len(t.pending) + t.applied <= N /\ Len(t.pending) <= N
  BY <1>6, <1>8 DEF Halfway
<1>10. Leads(p, s, t)
  BY <1>1, <1>6, <1>7, <1>9 DEF Leads, Halfway
<1> QED BY <1>1, <1>6, <1>9, <1>10 DEF Halfway

NextRound(p, x) == IF x.applied = 0 THEN x ELSE Round(p, x)

LEMMA DrainRuns ==
    ASSUME NEW p \in Peer, NEW s \in DrainState, NEW N \in Nat, N = Len(s.pending) + 1
    PROVE  \E f \in [0..N -> DrainState] :
             /\ f[0] = [s EXCEPT !.applied = 1]
             /\ \A n \in 1..N : f[n] = NextRound(p, f[n - 1])
             /\ Drained(p, s) = f[N]
<1> DEFINE first == [s EXCEPT !.applied = 1]
           G == [z \in (1..N) \X DrainState |-> NextRound(p, z[2])]
<1>1. first \in DrainState
  BY DEF DrainState
<1>2. G \in [(1..N) \X DrainState -> DrainState]
  <2> SUFFICES ASSUME NEW z \in (1..N) \X DrainState
               PROVE  NextRound(p, z[2]) \in DrainState
    OBVIOUS
  <2>1. z[2] \in DrainState
    OBVIOUS
  <2> QED BY <2>1, RoundLeads DEF NextRound
<1>3. \A n \in 1..N, x \in DrainState : G[<<n, x>>] = NextRound(p, x)
  OBVIOUS
<1> HIDE DEF G, first
<1>4. PICK f \in [0..N -> DrainState] : f[0] = first /\ \A n \in 1..N : f[n] = G[<<n, f[n - 1]>>]
  <2>1. \E f : Iterates(f, N, DrainState, first, G)
    BY <1>1, <1>2, Recursion
  <2> QED BY <2>1 DEF Iterates
<1>5. \A n \in 1..N : f[n] = NextRound(p, f[n - 1])
  <2> SUFFICES ASSUME NEW n \in 1..N
               PROVE  f[n] = NextRound(p, f[n - 1])
    OBVIOUS
  <2>1. f[n - 1] \in DrainState
    OBVIOUS
  <2> QED BY <1>3, <1>4, <2>1
<1> DEFINE Runs(g) == g = [n \in 0..N |-> IF n = 0 THEN first ELSE NextRound(p, g[n - 1])]
           round == CHOOSE g : Runs(g)
<1>6. Runs(f)
  BY <1>4, <1>5
<1>7. Runs(round)
  <2> HIDE DEF Runs
  <2> QED BY <1>6
<1>8. Drained(p, s) = round[N]
  BY DEF Drained, NextRound, first
<1> HIDE DEF round
<1>9. round[0] = first /\ \A n \in 1..N : round[n] = NextRound(p, round[n - 1])
  <2>1. PICK h : h = [n \in 0..N |-> IF n = 0 THEN first ELSE NextRound(p, round[n - 1])]
    OBVIOUS
  <2>2. h[0] = first /\ \A n \in 1..N : h[n] = NextRound(p, round[n - 1])
    BY <2>1
  <2>3. round = h
    BY <1>7, <2>1
  <2> QED BY <2>2, <2>3
<1> HIDE DEF Runs
<1> DEFINE P == {n \in 0..N : round[n] = f[n]}
<1>10. 0 \in P
  BY <1>4, <1>9
<1>11. ASSUME NEW n \in 1..N, n - 1 \in P
       PROVE  n \in P
  BY <1>5, <1>9, <1>11
<1>12. \A n \in 0..N : n \in P
  <2> HIDE DEF P
  <2> QED BY <1>10, <1>11, InductionUpTo
<1>13. round[N] = f[N]
  BY <1>12
<1> QED BY <1>4, <1>5, <1>8, <1>13 DEF first

(* drain_pending ends: its last round applies nothing.  What it leaves     *)
(* parked is blocked, what was parked is accounted for, and nothing gets   *)
(* into a document except from a parked chunk whose key is there.          *)
THEOREM DrainEnds ==
    ASSUME NEW p \in Peer, NEW s \in DrainState, NEW t, t = Drained(p, s)
    PROVE  t \in DrainState /\ t.applied = 0 /\ Blocked(p, t) /\ Leads(p, s, t)
<1>1. PICK L \in Nat : L = Len(s.pending)
  BY DEF DrainState
<1>2. PICK N \in Nat : N = L + 1
  OBVIOUS
<1>3. PICK f \in [0..N -> DrainState] :
             /\ f[0] = [s EXCEPT !.applied = 1]
             /\ \A n \in 1..N : f[n] = NextRound(p, f[n - 1])
             /\ Drained(p, s) = f[N]
  BY <1>1, <1>2, DrainRuns
<1> DEFINE Fits(n, x) == /\ Leads(p, s, x)
                         /\ IF x.applied = 0 THEN Blocked(p, x) ELSE Len(x.pending) + n <= L
           P == {n \in 0..N : Fits(n, f[n])}
<1>4. 0 \in P
  <2>1. PICK x \in DrainState : x = f[0]
    OBVIOUS
  <2>2. /\ x.known = s.known /\ x.evicted = s.evicted /\ x.docs = s.docs
        /\ x.pending = s.pending /\ x.applied = 1
    BY <1>3, <2>1 DEF DrainState
  <2>3. Leads(p, s, s)
    BY LeadsOrder
  <2>4. Leads(p, s, x)
    BY <2>2, <2>3 DEF Leads, Accounted, Done, Parks
  <2> QED BY <1>1, <2>1, <2>2, <2>4
<1>5. ASSUME NEW n \in 1..N, n - 1 \in P
      PROVE  n \in P
  <2>1. PICK x \in DrainState : x = f[n - 1]
    OBVIOUS
  <2>2. PICK y \in DrainState : y = f[n]
    OBVIOUS
  <2>3. Fits(n - 1, x) /\ y = NextRound(p, x)
    BY <1>3, <1>5, <2>1, <2>2
  <2>4. CASE x.applied = 0
    <3>1. y = x
      BY <2>3, <2>4 DEF NextRound
    <3> QED BY <2>2, <2>3, <2>4, <3>1
  <2>5. CASE x.applied # 0
    <3>1. y = Round(p, x)
      BY <2>3, <2>5 DEF NextRound
    <3>2. /\ Leads(p, x, y) /\ Len(y.pending) + y.applied <= Len(x.pending)
          /\ y.applied = 0 => Blocked(p, y)
      BY <3>1, RoundLeads
    <3>3. Leads(p, s, y)
      BY <2>3, <3>2, LeadsOrder
    <3>4. Len(x.pending) \in Nat /\ Len(y.pending) \in Nat /\ y.applied \in Nat
      BY DEF DrainState
    <3>5. Len(x.pending) + (n - 1) <= L
      BY <2>3, <2>5
    <3>6. y.applied # 0 => Len(y.pending) + n <= L
      BY <3>2, <3>4, <3>5
    <3>7. Fits(n, y)
      BY <3>2, <3>3, <3>6
    <3> QED BY <2>2, <3>7
  <2> QED BY <2>4, <2>5
<1>6. \A n \in 0..N : n \in P
  <2> HIDE DEF P
  <2> QED BY <1>4, <1>5, InductionUpTo
<1>7. Fits(N, t) /\ t \in DrainState
  BY <1>3, <1>6
<1>8. Len(t.pending) \in Nat
  BY <1>7 DEF DrainState
<1>9. t.applied = 0
  <2> SUFFICES ASSUME t.applied # 0 PROVE FALSE
    OBVIOUS
  <2>1. PICK k \in Nat : k = Len(t.pending)
    BY <1>8
  <2>2. k + N <= L
    BY <1>7, <2>1
  <2> QED BY <1>2, <2>2
<1> QED BY <1>7, <1>9

-----------------------------------------------------------------------------
(* An arrival.                                                             *)

(* What a document holds without its history is in a readable parked chunk. *)
Anchored(p, s) ==
    ~s.evicted =>
        \A d \in Doc : \A o \in s.docs[d] \ Attached(s.docs[d]) :
            \E c \in Chunk : Parks(s, d, c) /\ o \in c.ops /\ Readable(p, s.known, c)

(* M has, per document, the operations there are; the keys are minted. *)
Within(s, M) ==
    /\ \A d \in Doc : s.docs[d] \subseteq M[d]
    /\ \A d \in Doc, c \in Chunk : Parks(s, d, c) => c.ops \subseteq M[d] /\ c.epoch <= Len(leaves)

LEMMA LeadsKeeps ==
    ASSUME NEW p \in Peer, NEW s \in DrainState, NEW t \in DrainState, Leads(p, s, t)
    PROVE  /\ Anchored(p, s) => Anchored(p, t)
           /\ \A M : Within(s, M) => Within(t, M)
           /\ \A d \in Doc, c \in Chunk : Accounted(p, s, d, c) => Accounted(p, t, d, c)
<1>1. ASSUME Anchored(p, s)
      PROVE  Anchored(p, t)
  <2> SUFFICES ASSUME ~t.evicted, NEW d \in Doc, NEW o \in t.docs[d] \ Attached(t.docs[d])
               PROVE  \E c \in Chunk : Parks(t, d, c) /\ o \in c.ops /\ Readable(p, t.known, c)
    BY DEF Anchored
  <2>1. ~s.evicted /\ s.docs[d] \subseteq t.docs[d] /\ t.known = s.known
    BY DEF Leads
  <2>2. Attached(s.docs[d]) \subseteq Attached(t.docs[d])
    BY <2>1, AttachedGrows
  <2>3. PICK c \in Chunk : Parks(s, d, c) /\ o \in c.ops /\ Readable(p, s.known, c)
    BY <1>1, <2>1, <2>2 DEF Anchored, Leads
  <2>4. Accounted(p, t, d, c)
    BY <2>3 DEF Leads
  <2>5. ~Done(p, t, d, c)
    BY <2>3 DEF Done, Readable
  <2> QED BY <2>1, <2>3, <2>4, <2>5 DEF Accounted
<1>2. ASSUME NEW M, Within(s, M)
      PROVE  Within(t, M)
  BY <1>2 DEF Within, Leads
<1>3. ASSUME NEW d \in Doc, NEW c \in Chunk, Accounted(p, s, d, c)
      PROVE  Accounted(p, t, d, c)
  <2>1. t.known = s.known /\ \A x \in Doc : s.docs[x] \subseteq t.docs[x]
    BY DEF Leads
  <2>2. Done(p, s, d, c) => Done(p, t, d, c)
    BY <2>1, DoneStays
  <2>3. Parks(s, d, c) => Accounted(p, t, d, c)
    BY DEF Leads
  <2> QED BY <1>3, <2>2, <2>3 DEF Accounted
<1> QED BY <1>1, <1>2, <1>3

(* s with the chunk c of document d parked, if it was not already. *)
WithParked(s, d, c) ==
    IF \E i \in DOMAIN s.pending : s.pending[i].doc = d /\ s.pending[i].chunk = c
    THEN s
    ELSE [s EXCEPT !.pending = Park(@, d, c),
                   !.evicted = @ \/ Len(s.pending) >= MAX_PENDING_CHUNKS]

LEMMA ChunkArrivedIs ==
    ASSUME NEW p, NEW s, NEW d, NEW c
    PROVE  ChunkArrived(p, s, d, c) = Drained(p, WithParked(s, d, c))
BY DEF ChunkArrived, WithParked

(* The queue r is q with the chunk c of document d at its end. *)
Queued(q, d, c, r) ==
    /\ r \in Seq(Parked) /\ Len(r) <= MAX_PENDING_CHUNKS
    /\ \E i \in DOMAIN r : r[i].doc = d /\ r[i].chunk = c
    /\ \A i \in DOMAIN r : \/ r[i].doc = d /\ r[i].chunk = c
                           \/ \E j \in DOMAIN q : q[j] = r[i]
    /\ ~(Len(q) >= MAX_PENDING_CHUNKS) => \A j \in DOMAIN q : \E i \in DOMAIN r : r[i] = q[j]

LEMMA ParkedQueue ==
    ASSUME NEW q \in Seq(Parked), Len(q) <= MAX_PENDING_CHUNKS, NEW d \in Doc, NEW c \in Chunk,
           NEW r, r = Park(q, d, c)
    PROVE  Queued(q, d, c, r)
<1>1. PICK e : e = [doc |-> d, chunk |-> c, drains |-> 0]
  OBVIOUS
<1>2. e \in Parked /\ e.doc = d /\ e.chunk = c
  BY <1>1, DocumentsAssumption DEF Parked
<1>3. MAX_PENDING_CHUNKS \in Nat \ {0} /\ Len(q) \in Nat
  BY DocumentsAssumption
<1>4. CASE Len(q) >= MAX_PENDING_CHUNKS
  <2>1. r = Append(Tail(q), e) /\ q # <<>> /\ Len(q) = MAX_PENDING_CHUNKS
    BY <1>1, <1>3, <1>4 DEF Park
  <2>2. PICK b : b = Tail(q)
    OBVIOUS
  <2>3. b \in Seq(Parked) /\ Len(b) = Len(q) - 1 /\ \A i \in 1..Len(b) : b[i] = q[i + 1]
    BY <2>1, <2>2
  <2>4. /\ r \in Seq(Parked) /\ Len(r) = Len(b) + 1 /\ r[Len(b) + 1] = e
        /\ \A i \in 1..Len(b) : r[i] = b[i]
    BY <1>2, <2>1, <2>2, <2>3
  <2>5. DOMAIN r = 1..Len(r) /\ DOMAIN q = 1..Len(q) /\ Len(b) \in Nat
    BY <2>3, <2>4
  <2>6. \A i \in DOMAIN r : r[i] = e \/ \E j \in DOMAIN q : q[j] = r[i]
    <3> SUFFICES ASSUME NEW i \in DOMAIN r, i # Len(b) + 1
                 PROVE  \E j \in DOMAIN q : q[j] = r[i]
      BY <2>4
    <3>1. i \in 1..Len(b)
      BY <2>4, <2>5
    <3>2. i + 1 \in DOMAIN q /\ q[i + 1] = r[i]
      BY <2>3, <2>4, <2>5, <3>1
    <3> QED BY <3>2
  <2>7. Len(b) + 1 \in DOMAIN r
    BY <2>4, <2>5
  <2> QED BY <1>2, <1>3, <1>4, <2>1, <2>3, <2>4, <2>6, <2>7 DEF Queued
<1>5. CASE ~(Len(q) >= MAX_PENDING_CHUNKS)
  <2>1. r = Append(q, e)
    BY <1>1, <1>5 DEF Park
  <2>2. /\ r \in Seq(Parked) /\ Len(r) = Len(q) + 1 /\ r[Len(q) + 1] = e
        /\ \A i \in 1..Len(q) : r[i] = q[i]
        /\ DOMAIN r = 1..(Len(q) + 1) /\ DOMAIN q = 1..Len(q)
    BY <1>2, <2>1
  <2>3. \A i \in DOMAIN r : r[i] = e \/ \E j \in DOMAIN q : q[j] = r[i]
    BY <2>2
  <2>4. \A j \in DOMAIN q : \E i \in DOMAIN r : r[i] = q[j]
    BY <1>3, <2>2
  <2>5. Len(q) + 1 \in DOMAIN r
    BY <1>3, <2>2
  <2> QED BY <1>2, <1>3, <1>5, <2>2, <2>3, <2>4, <2>5 DEF Queued
<1> QED BY <1>4, <1>5

LEMMA WithParkedIs ==
    ASSUME NEW s \in DrainState, Len(s.pending) <= MAX_PENDING_CHUNKS, NEW d \in Doc,
           NEW c \in Chunk, NEW t, t = WithParked(s, d, c)
    PROVE  /\ t \in DrainState /\ Len(t.pending) <= MAX_PENDING_CHUNKS
           /\ t.known = s.known /\ t.docs = s.docs /\ (s.evicted => t.evicted)
           /\ Parks(t, d, c)
           /\ \A x, y : Parks(t, x, y) => Parks(s, x, y) \/ (x = d /\ y = c)
           /\ ~t.evicted => \A x, y : Parks(s, x, y) => Parks(t, x, y)
<1>1. CASE Parks(s, d, c)
  <2>1. t = s
    BY <1>1 DEF WithParked, Parks
  <2> QED BY <1>1, <2>1
<1>2. CASE ~Parks(s, d, c)
  <2>1. PICK r : r = Park(s.pending, d, c)
    OBVIOUS
  <2>2. PICK v \in BOOLEAN : v = (s.evicted \/ Len(s.pending) >= MAX_PENDING_CHUNKS)
    OBVIOUS
  <2>3. t = [s EXCEPT !.pending = r, !.evicted = v]
    BY <1>2, <2>1, <2>2 DEF WithParked, Parks
  <2>4. s.pending \in Seq(Parked)
    BY DEF DrainState
  <2>5. /\ r \in Seq(Parked) /\ Len(r) <= MAX_PENDING_CHUNKS
        /\ \E i \in DOMAIN r : r[i].doc = d /\ r[i].chunk = c
        /\ \A i \in DOMAIN r : \/ r[i].doc = d /\ r[i].chunk = c
                               \/ \E j \in DOMAIN s.pending : s.pending[j] = r[i]
        /\ ~(Len(s.pending) >= MAX_PENDING_CHUNKS) =>
              \A j \in DOMAIN s.pending : \E i \in DOMAIN r : r[i] = s.pending[j]
    <3>1. Queued(s.pending, d, c, r)
      BY <2>1, <2>4, ParkedQueue
    <3> QED BY <3>1 DEF Queued
  <2>6. t \in DrainState /\ t.pending = r /\ t.evicted = v /\ t.known = s.known /\ t.docs = s.docs
    BY <2>2, <2>3, <2>5 DEF DrainState
  <2>7. s.evicted => t.evicted
    BY <2>2, <2>6
  <2>8. Parks(t, d, c) /\ \A x, y : Parks(t, x, y) => Parks(s, x, y) \/ (x = d /\ y = c)
    BY <2>5, <2>6 DEF Parks
  <2>9. ASSUME ~t.evicted
        PROVE  \A x, y : Parks(s, x, y) => Parks(t, x, y)
    <3>1. ~(Len(s.pending) >= MAX_PENDING_CHUNKS)
      BY <2>2, <2>6, <2>9
    <3> QED BY <2>5, <2>6, <3>1 DEF Parks
  <2> QED BY <2>5, <2>6, <2>7, <2>8, <2>9
<1> QED BY <1>1, <1>2

(* What holds of the state of a peer between two arrivals. *)
Tidy(p, s, M) ==
    /\ s \in DrainState /\ Len(s.pending) <= MAX_PENDING_CHUNKS
    /\ Blocked(p, s) /\ Anchored(p, s) /\ Within(s, M)

LEMMA Arrival ==
    ASSUME NEW p \in Peer, NEW s, NEW M, Tidy(p, s, M), NEW d \in Doc, NEW c \in Chunk,
           c.ops \subseteq M[d], c.epoch <= Len(leaves), NEW t, t = ChunkArrived(p, s, d, c)
    PROVE  /\ Tidy(p, t, M) /\ t.known = s.known
           /\ s.evicted => t.evicted
           /\ \A x \in Doc : s.docs[x] \subseteq t.docs[x]
           /\ ~t.evicted => /\ Accounted(p, t, d, c)
                            /\ \A x \in Doc, y \in Chunk : Accounted(p, s, x, y) => Accounted(p, t, x, y)
<1>1. s \in DrainState /\ Len(s.pending) <= MAX_PENDING_CHUNKS /\ Anchored(p, s) /\ Within(s, M)
  BY DEF Tidy
<1>2. PICK r : r = WithParked(s, d, c)
  OBVIOUS
<1>3. /\ r \in DrainState /\ Len(r.pending) <= MAX_PENDING_CHUNKS
      /\ r.known = s.known /\ r.docs = s.docs /\ (s.evicted => r.evicted)
      /\ Parks(r, d, c)
      /\ \A x, y : Parks(r, x, y) => Parks(s, x, y) \/ (x = d /\ y = c)
      /\ ~r.evicted => \A x, y : Parks(s, x, y) => Parks(r, x, y)
  BY <1>1, <1>2, WithParkedIs
<1>4. t = Drained(p, r)
  BY <1>2, ChunkArrivedIs
<1>5. t \in DrainState /\ Blocked(p, t) /\ Leads(p, r, t)
  BY <1>3, <1>4, DrainEnds
<1>6. t.known = s.known /\ t.evicted = r.evicted /\ Len(t.pending) <= Len(r.pending)
  BY <1>3, <1>5 DEF Leads
<1>7. Len(t.pending) <= MAX_PENDING_CHUNKS
  <2>1. Len(t.pending) \in Nat /\ Len(r.pending) \in Nat /\ MAX_PENDING_CHUNKS \in Nat
    BY <1>3, <1>5, DocumentsAssumption DEF DrainState
  <2> QED BY <1>3, <1>6, <2>1
<1>8. Anchored(p, r)
  BY <1>1, <1>3 DEF Anchored
<1>9. Within(r, M)
  BY <1>1, <1>3 DEF Within
<1>10. Anchored(p, t) /\ Within(t, M)
  BY <1>3, <1>5, <1>8, <1>9, LeadsKeeps
<1>11. Accounted(p, t, d, c)
  BY <1>3, <1>5 DEF Leads
<1>12. ASSUME ~t.evicted, NEW x \in Doc, NEW y \in Chunk, Accounted(p, s, x, y)
       PROVE  Accounted(p, t, x, y)
  <2>1. ~r.evicted
    BY <1>6, <1>12
  <2>2. Accounted(p, r, x, y)
    BY <1>3, <1>12, <2>1 DEF Accounted, Done
  <2> QED BY <1>3, <1>5, <2>2, LeadsKeeps
<1>13. s.evicted => t.evicted
  BY <1>3, <1>6
<1>14. \A x \in Doc : s.docs[x] \subseteq t.docs[x]
  BY <1>3, <1>5 DEF Leads
<1> QED BY <1>5, <1>6, <1>7, <1>10, <1>11, <1>12, <1>13, <1>14 DEF Tidy

-----------------------------------------------------------------------------
(* Finite sets: their order, their maximum, their size.                    *)

LEMMA SequenceOfSet ==
    ASSUME NEW S, IsFiniteSet(S), NEW f, f = InSomeOrder(S)
    PROVE  /\ Cardinality(S) \in Nat /\ f \in [1..Cardinality(S) -> S]
           /\ Len(f) = Cardinality(S)
           /\ \A x \in S : \E n \in 1..Cardinality(S) : f[n] = x
<1>1. PICK N \in Nat : N = Cardinality(S)
  BY FS_CardinalityType
<1>2. PICK g : g \in Bijection(1..N, S)
  BY <1>1, FS_CardinalityType DEF ExistsBijection
<1>3. g \in [1..N -> S] /\ IsInjective(g)
  BY <1>2 DEF Bijection, Injection, IsInjective
<1>4. f \in [1..N -> S] /\ IsInjective(f)
  <2>1. \E h \in [1..Cardinality(S) -> S] : \A i, j \in DOMAIN h : h[i] = h[j] => i = j
    BY <1>1, <1>3 DEF IsInjective
  <2>2. f \in [1..Cardinality(S) -> S] /\ \A i, j \in DOMAIN f : f[i] = f[j] => i = j
    BY <2>1 DEF InSomeOrder
  <2> QED BY <1>1, <2>2 DEF IsInjective
<1>5. f \in Injection(1..N, S)
  BY <1>4 DEF Injection
<1>6. Cardinality(1..N) = N
  BY FS_Interval
<1>7. f \in Surjection(1..N, S)
  BY <1>1, <1>5, <1>6, FS_Injection
<1>8. \A x \in S : \E n \in 1..N : f[n] = x
  BY <1>7 DEF Surjection
<1>9. Len(f) = N
  BY <1>4
<1> QED BY <1>1, <1>4, <1>8, <1>9

LEMMA NewestIn ==
    ASSUME NEW N \in Nat, NEW S, S \subseteq 1..N, S # {}
    PROVE  Newest(S) \in S
<1> DEFINE P == {n \in 0..N : (\E x \in S : x <= n) => \E x \in S : x <= n /\ \A y \in S : y <= n => x >= y}
<1>1. 0 \in P
  OBVIOUS
<1>2. ASSUME NEW n \in 1..N, n - 1 \in P
      PROVE  n \in P
  <2>1. CASE n \in S
    BY <2>1
  <2>2. CASE n \notin S
    <3>1. \A y \in S : y <= n => y <= n - 1
      BY <2>2
    <3> QED BY <1>2, <3>1
  <2> QED BY <2>1, <2>2
<1> HIDE DEF P
<1>3. N \in P
  <2>1. \A n \in 0..N : n \in P
    BY <1>1, <1>2, InductionUpTo
  <2> QED BY <2>1
<1>4. \E x \in S : \A y \in S : x >= y
  <2>1. (\E x \in S : x <= N) => \E x \in S : x <= N /\ \A y \in S : y <= N => x >= y
    BY <1>3 DEF P
  <2>2. \A y \in S : y <= N
    OBVIOUS
  <2> QED BY <2>1, <2>2
<1> QED BY <1>4 DEF Newest

LEMMA SizeOfImage ==
    ASSUME NEW S, NEW T, IsFiniteSet(T), NEW f \in [S -> T], \A x, y \in S : f[x] = f[y] => x = y
    PROVE  IsFiniteSet(S) /\ Cardinality(S) \in Nat /\ Cardinality(T) \in Nat
           /\ Cardinality(S) <= Cardinality(T)
<1>1. f \in Injection(S, T)
  BY DEF Injection, IsInjective
<1>2. IsFiniteSet(S) /\ Cardinality(S) <= Cardinality(T)
  BY <1>1, FS_Injection
<1> QED BY <1>2, FS_CardinalityType

-----------------------------------------------------------------------------
(* The operations there are.                                               *)

(* Per document, every operation a replica has. *)
Made == [d \in Doc |-> UNION {docs[p][d] : p \in Peer}]

Own(p, d) == {o \in docs[p][d] : o.id[1] = p}

(* Operations are unique by identity and name all that came before; each is *)
(* attached at its author, who numbers them in order.                       *)
History(d) ==
    /\ \A o, r \in Made[d] : o.id = r.id => o = r
    /\ \A o \in Made[d] : o.deps \subseteq Ids(Made[d])
    /\ \A o, r \in Made[d] : r.id \in o.deps => r.deps \subseteq o.deps
    /\ \A o \in Made[d] : o \in Attached(docs[o.id[1]][d])
    /\ \A p \in Peer : /\ IsFiniteSet(Own(p, d))
                       /\ \A o \in Own(p, d) : o.id[2] <= Cardinality(Own(p, d))

LEMMA OperationFields ==
    ASSUME NEW o \in Operation
    PROVE  o.id \in Id /\ o.deps \subseteq Id /\ o.id[1] \in Peer /\ o.id[2] \in 1..MaxEdits
BY DEF Operation, Id

LEMMA DocsTyped ==
    ASSUME TypeOK, NEW q \in Peer, NEW d \in Doc
    PROVE  docs[q][d] \in SUBSET Operation
<1>1. docs \in [Peer -> [Doc -> SUBSET Operation]]
  BY DEF TypeOK
<1> QED BY <1>1

LEMMA EpochsTyped ==
    ASSUME TypeOK
    PROVE  leaves \in Seq(SUBSET Peer) /\ Len(leaves) \in Nat /\ Len(leaves) <= MaxEpochs
<1>1. leaves \in Seq(SUBSET Peer) /\ Len(leaves) <= MaxEpochs
  BY DEF TypeOK
<1> QED BY <1>1

LEMMA CopiesTyped ==
    ASSUME TypeOK, NEW d \in Doc, NEW a \in Peer
    PROVE  /\ index[d][a] # None => index[d][a] \in Chunk
           /\ \A q \in Peer : /\ replica[q][d][a] # None => replica[q][d][a] \in Chunk
                              /\ seen[q][d][a] # None => seen[q][d][a] \in Chunk
<1>1. /\ index \in [Doc -> [Peer -> Chunk \cup {None}]]
      /\ replica \in [Peer -> [Doc -> [Peer -> Chunk \cup {None}]]]
      /\ seen \in [Peer -> [Doc -> [Peer -> Chunk \cup {None}]]]
  BY DEF TypeOK
<1> QED BY <1>1

LEMMA MadeHas ==
    ASSUME NEW d \in Doc
    PROVE  \A o : o \in Made[d] <=> \E p \in Peer : o \in docs[p][d]
BY DEF Made

LEMMA MadeTyped ==
    ASSUME TypeOK, NEW d \in Doc, NEW o \in Made[d]
    PROVE  o \in Operation
<1>1. PICK p \in Peer : o \in docs[p][d]
  BY MadeHas
<1> QED BY <1>1, DocsTyped

(* What is attached stays attached when the rest is left out. *)
LEMMA AttachedTwice ==
    ASSUME NEW d \in Doc, History(d), NEW X, X \subseteq Made[d]
    PROVE  Attached(Attached(X)) = Attached(X)
<1> SUFFICES ASSUME NEW o \in Attached(X), NEW i \in o.deps
             PROVE  i \in Ids(Attached(X))
  BY DEF Attached
<1>1. o \in X /\ o.deps \subseteq Ids(X)
  BY DEF Attached
<1>2. PICK r \in X : r.id = i
  BY <1>1 DEF Ids
<1>3. r.deps \subseteq o.deps
  BY <1>1, <1>2 DEF History
<1>4. r \in Attached(X)
  BY <1>1, <1>3 DEF Attached
<1> QED BY <1>2, <1>4 DEF Ids

(* No operation is made or lost when replicas only exchange them. *)
LEMMA HistoryKept ==
    ASSUME TypeOK, TypeOK', NEW d \in Doc, History(d),
           \A q \in Peer : /\ Attached(docs[q][d]) \subseteq Attached(docs'[q][d])
                           /\ docs'[q][d] \subseteq Made[d]
    PROVE  Made'[d] = Made[d] /\ History(d)'
<1>1. \A o \in Made[d] : o.id[1] \in Peer
  BY MadeTyped, OperationFields
<1>2. \A o : o \in Made'[d] <=> \E p \in Peer : o \in docs'[p][d]
  BY DEF Made
<1>3. \A o \in Made[d] : o \in Attached(docs'[o.id[1]][d])
  BY <1>1 DEF History
<1>4. Made'[d] = Made[d]
  <2>1. \A o \in Made[d] : o \in docs'[o.id[1]][d]
    BY <1>3 DEF Attached
  <2> QED BY <1>1, <1>2, <2>1
<1>5. \A p \in Peer : Own(p, d)' = Own(p, d)
  <2> SUFFICES ASSUME NEW p \in Peer, NEW o
               PROVE  o \in Own(p, d)' <=> o \in Own(p, d)
    OBVIOUS
  <2>1. ASSUME o \in Own(p, d)'
        PROVE  o \in Own(p, d)
    <3>1. o \in docs'[p][d] /\ o.id[1] = p
      BY <2>1 DEF Own
    <3>2. o \in Attached(docs[p][d])
      BY <3>1 DEF History
    <3> QED BY <3>1, <3>2 DEF Own, Attached
  <2>2. ASSUME o \in Own(p, d)
        PROVE  o \in Own(p, d)'
    <3>1. o \in docs[p][d] /\ o.id[1] = p
      BY <2>2 DEF Own
    <3>2. o \in Made[d]
      BY <3>1, MadeHas
    <3>3. o \in Attached(docs'[p][d])
      BY <1>3, <3>1, <3>2
    <3> QED BY <3>1, <3>3 DEF Own, Attached
  <2> QED BY <2>1, <2>2
<1>6. /\ \A o, r \in Made'[d] : o.id = r.id => o = r
      /\ \A o \in Made'[d] : o.deps \subseteq Ids(Made'[d])
      /\ \A o, r \in Made'[d] : r.id \in o.deps => r.deps \subseteq o.deps
  BY <1>4 DEF History
<1>7. \A o \in Made'[d] : o \in Attached(docs'[o.id[1]][d])
  BY <1>3, <1>4
<1>8. \A p \in Peer : /\ IsFiniteSet(Own(p, d)')
                      /\ \A o \in Own(p, d)' : o.id[2] <= Cardinality(Own(p, d)')
  BY <1>5 DEF History
<1> QED BY <1>4, <1>6, <1>7, <1>8 DEF History, Ids, Attached

-----------------------------------------------------------------------------
(* The inductive invariant.                                                *)

View(p) == Progress(p, merged[p])

(* The operations of c are made, and its key is minted. *)
Minted(d, c) == c.ops \subseteq Made[d] /\ c.epoch <= Len(leaves)

Circulating ==
    /\ \A p \in Peer : \A e \in outbox[p] : Minted(e.doc, e.chunk)
    /\ \A d \in Doc, a \in Peer : index[d][a] # None => Minted(d, index[d][a])
    /\ \A p \in Peer, d \in Doc, a \in Peer :
          replica[p][d][a] # None => Minted(d, replica[p][d][a])
    /\ \A p \in Peer : merged[p] \subseteq 1..Len(leaves)

(* A device that has not joined holds nothing. *)
Waits(p) == ~Joined(p) => /\ pending[p] = <<>> /\ seen[p] = NoEntries
                          /\ \A d \in Doc : docs[p][d] = {}

SeenAccounted(p) ==
    ~evicted[p] => \A d \in Doc, a \in Peer :
        seen[p][d][a] # None => Accounted(p, View(p), d, seen[p][d][a])

Orderly(p) ==
    /\ Blocked(p, View(p)) /\ Anchored(p, View(p)) /\ Within(View(p), Made)
    /\ SeenAccounted(p)
    /\ Waits(p)

IInv ==
    /\ TypeOK
    /\ \A d \in Doc : History(d)
    /\ Circulating
    /\ \A p \in Peer : Orderly(p)

LEMMA ViewFields ==
    ASSUME NEW p
    PROVE  /\ View(p).known = merged[p] /\ View(p).docs = docs[p]
           /\ View(p).pending = pending[p] /\ View(p).evicted = evicted[p]
BY DEF View, Progress

LEMMA ProgressTyped ==
    ASSUME TypeOK, NEW p \in Peer, NEW known \in SUBSET Epoch
    PROVE  /\ Progress(p, known) \in DrainState
           /\ Progress(p, known).known = known /\ Progress(p, known).docs = docs[p]
           /\ Progress(p, known).pending = pending[p] /\ Progress(p, known).evicted = evicted[p]
<1>1. /\ docs[p] \in [Doc -> SUBSET Operation] /\ pending[p] \in Seq(Parked)
      /\ evicted[p] \in BOOLEAN
  BY DEF TypeOK
<1>2. {} \in SUBSET (Target \X Doc) /\ 0 \in Nat
  OBVIOUS
<1> QED BY <1>1, <1>2 DEF Progress, DrainState

(* A step that leaves the queue of q alone, adds no operation without its  *)
(* history and merges no key that was there before.                        *)
Calm(q) ==
    /\ pending'[q] = pending[q] /\ evicted'[q] = evicted[q] /\ seen'[q] = seen[q]
    /\ \A d \in Doc :
          /\ docs[q][d] \subseteq docs'[q][d]
          /\ docs'[q][d] \ Attached(docs'[q][d]) = docs[q][d] \ Attached(docs[q][d])
          /\ docs'[q][d] = docs[q][d] \/ Joined(q)
    /\ merged[q] \subseteq merged'[q]
    /\ \A e \in merged'[q] : e <= Len(leaves) => e \in merged[q]
    /\ Joined(q) => Joined(q)'

(* Keys and operations are only added. *)
Grows ==
    /\ Len(leaves) <= Len(leaves') /\ \A e \in 1..Len(leaves) : leaves'[e] = leaves[e]
    /\ \A d \in Doc : Made[d] \subseteq Made'[d]

LEMMA AnchoredNext ==
    ASSUME NEW p, NEW t, t = View(p)',
           ~t.evicted => \A d \in Doc : \A o \in t.docs[d] \ Attached(t.docs[d]) :
               \E c \in Chunk : Parks(t, d, c) /\ o \in c.ops
                                /\ c.epoch \in t.known /\ p \in leaves'[c.epoch]
    PROVE  Anchored(p, View(p))'
BY DEF Anchored, Attached, Ids, Parks, Readable

LEMMA OrderlyKept ==
    ASSUME TypeOK, TypeOK', NEW q \in Peer, Orderly(q), merged[q] \subseteq 1..Len(leaves),
           Grows, Calm(q)
    PROVE  Orderly(q)'
<1>1. PICK s : s = View(q)
  OBVIOUS
<1>2. PICK t : t = View(q)'
  OBVIOUS
<1>3. s.known = merged[q] /\ s.docs = docs[q] /\ s.pending = pending[q] /\ s.evicted = evicted[q]
  BY <1>1, ViewFields
<1>4. t.known = merged'[q] /\ t.docs = docs'[q] /\ t.pending = s.pending /\ t.evicted = s.evicted
  BY <1>2, <1>3 DEF View, Progress, Calm
<1>5. \A d, c : Parks(t, d, c) <=> Parks(s, d, c)
  BY <1>4 DEF Parks
<1>6. Len(leaves) \in Nat /\ Len(leaves') \in Nat
  BY EpochsTyped
<1>7. \A d \in Doc, c \in Chunk : Parks(s, d, c) => c.epoch \in 1..Len(leaves) /\ c.ops \subseteq Made[d]
  <2>1. \A c \in Chunk : c.epoch \in Nat /\ c.epoch >= 1
    BY DocumentsAssumption DEF Chunk, Epoch
  <2> QED BY <1>1, <1>6, <2>1 DEF Orderly, Within
<1>8. \A i \in DOMAIN s.pending : /\ s.pending[i] \in Parked /\ s.pending[i].doc \in Doc
                                  /\ s.pending[i].chunk \in Chunk
                                  /\ Parks(s, s.pending[i].doc, s.pending[i].chunk)
  <2>1. s.pending \in Seq(Parked)
    BY <1>3 DEF TypeOK
  <2>2. \A i \in DOMAIN s.pending : s.pending[i] \in Parked
    BY <2>1
  <2> QED BY <2>2, ParkedFields DEF Parks
<1>9. \A e \in 1..Len(leaves) : (e \in t.known <=> e \in s.known) /\ leaves'[e] = leaves[e]
  BY <1>3, <1>4, <1>6 DEF Calm, Grows
<1>10. Blocked(q, View(q))'
  <2> SUFFICES ASSUME NEW i \in DOMAIN t.pending
               PROVE  /\ t.pending[i].chunk.epoch \in t.known =>
                            /\ q \in leaves'[t.pending[i].chunk.epoch]
                            /\ t.pending[i].chunk.ops \subseteq t.docs[t.pending[i].doc]
                      /\ (\A j \in DOMAIN t.pending : t.pending[j].doc = t.pending[i].doc => j <= i) =>
                            \/ t.pending[i].chunk.epoch \notin t.known
                            \/ ~(t.pending[i].chunk.ops \subseteq
                                    Attached(t.docs[t.pending[i].doc] \cup t.pending[i].chunk.ops))
    BY <1>2 DEF Blocked, Attached, Ids
  <2>1. PICK e \in Parked : e = s.pending[i] /\ e.doc \in Doc /\ e.chunk \in Chunk
    BY <1>4, <1>8
  <2>2. e.chunk.epoch \in 1..Len(leaves)
    BY <1>4, <1>7, <1>8, <2>1
  <2>3. /\ e.chunk.epoch \in s.known => q \in leaves[e.chunk.epoch] /\ e.chunk.ops \subseteq s.docs[e.doc]
        /\ (\A j \in DOMAIN s.pending : s.pending[j].doc = e.doc => j <= i) =>
              e.chunk.epoch \notin s.known \/ ~(e.chunk.ops \subseteq Attached(s.docs[e.doc] \cup e.chunk.ops))
    BY <1>1, <1>4, <2>1 DEF Orderly, Blocked
  <2>4. /\ s.docs[e.doc] \subseteq t.docs[e.doc]
        /\ t.docs[e.doc] \ Attached(t.docs[e.doc]) = s.docs[e.doc] \ Attached(s.docs[e.doc])
    BY <1>3, <1>4, <2>1 DEF Calm
  <2>5. ASSUME e.chunk.epoch \in t.known
        PROVE  q \in leaves'[e.chunk.epoch] /\ e.chunk.ops \subseteq t.docs[e.doc]
    BY <1>9, <2>2, <2>3, <2>4, <2>5
  <2>6. ASSUME \A j \in DOMAIN s.pending : s.pending[j].doc = e.doc => j <= i, e.chunk.epoch \in t.known
        PROVE  ~(e.chunk.ops \subseteq Attached(t.docs[e.doc] \cup e.chunk.ops))
    <3>1. /\ e.chunk.ops \subseteq s.docs[e.doc]
          /\ ~(e.chunk.ops \subseteq Attached(s.docs[e.doc] \cup e.chunk.ops))
      BY <1>9, <2>2, <2>3, <2>6
    <3>2. s.docs[e.doc] \cup e.chunk.ops = s.docs[e.doc] /\ t.docs[e.doc] \cup e.chunk.ops = t.docs[e.doc]
      BY <2>4, <3>1
    <3> QED BY <2>4, <3>1, <3>2
  <2> QED BY <1>4, <2>1, <2>5, <2>6
<1>11. Anchored(q, View(q))'
  <2> SUFFICES ASSUME ~t.evicted, NEW d \in Doc, NEW o \in t.docs[d] \ Attached(t.docs[d])
               PROVE  \E c \in Chunk : Parks(t, d, c) /\ o \in c.ops
                                       /\ c.epoch \in t.known /\ q \in leaves'[c.epoch]
    BY <1>2, AnchoredNext
  <2>1. o \in s.docs[d] \ Attached(s.docs[d]) /\ ~s.evicted
    BY <1>3, <1>4 DEF Calm
  <2>2. PICK c \in Chunk : Parks(s, d, c) /\ o \in c.ops /\ Readable(q, s.known, c)
    BY <1>1, <2>1 DEF Orderly, Anchored
  <2> QED BY <1>5, <1>7, <1>9, <2>2 DEF Readable
<1>12. Within(View(q), Made)'
  <2>1. \A d \in Doc : docs'[q][d] \subseteq Made'[d]
    BY DEF Made
  <2>2. \A d \in Doc, c \in Chunk : Parks(t, d, c) => c.ops \subseteq Made'[d] /\ c.epoch <= Len(leaves')
    <3> SUFFICES ASSUME NEW d \in Doc, NEW c \in Chunk, Parks(t, d, c)
                 PROVE  c.ops \subseteq Made'[d] /\ c.epoch <= Len(leaves')
      OBVIOUS
    <3>1. c.epoch \in 1..Len(leaves) /\ c.ops \subseteq Made[d]
      BY <1>5, <1>7
    <3> QED BY <1>6, <3>1 DEF Grows
  <2> QED BY <1>2, <1>4, <2>1, <2>2 DEF Within, Parks
<1>13. SeenAccounted(q)'
  <2> SUFFICES ASSUME ~evicted'[q], NEW d \in Doc, NEW a \in Peer, seen'[q][d][a] # None
               PROVE  Accounted(q, View(q), d, seen[q][d][a])'
    BY DEF SeenAccounted
  <2>1. PICK c : c = seen[q][d][a]
    OBVIOUS
  <2>2. Accounted(q, s, d, c)
    BY <1>1, <2>1 DEF Orderly, SeenAccounted, Calm
  <2>3. Attached(s.docs[d]) \subseteq Attached(t.docs[d])
    BY <1>3, <1>4, AttachedGrows DEF Calm
  <2>4. \/ c.ops \subseteq Attached(t.docs[d])
        \/ c.epoch \in t.known /\ q \notin leaves'[c.epoch]
        \/ Parks(t, d, c)
    BY <1>3, <1>5, <1>9, <2>2, <2>3 DEF Accounted, Done
  <2>5. seen'[q][d][a] = c
    BY <2>1 DEF Calm
  <2> QED BY <1>2, <2>4, <2>5 DEF Accounted, Done, Parks, Attached, Ids
<1>14. Waits(q)'
  <2>1. Waits(q)
    BY DEF Orderly
  <2>2. CASE Joined(q)
    BY <2>2 DEF Waits, Calm
  <2>3. CASE ~Joined(q)
    BY <2>1, <2>3 DEF Waits, Calm, NoEntries
  <2> QED BY <2>2, <2>3
<1> QED BY <1>10, <1>11, <1>12, <1>13, <1>14 DEF Orderly

-----------------------------------------------------------------------------
(* Steps that drain no queue.                                              *)

LEMMA MintedStays ==
    ASSUME TypeOK, TypeOK', Grows, NEW d \in Doc, NEW c \in Chunk, Minted(d, c)
    PROVE  Minted(d, c)'
<1>1. Len(leaves) \in Nat /\ Len(leaves') \in Nat /\ c.epoch \in Nat
  BY EpochsTyped, DocumentsAssumption DEF Chunk, Epoch
<1> QED BY <1>1 DEF Minted, Grows

(* What was stored stays minted; what is new is. *)
LEMMA CirculatingKept ==
    ASSUME TypeOK, TypeOK', Grows, Circulating,
           \A p \in Peer : \A e \in outbox'[p] : e \in outbox[p] \/ Minted(e.doc, e.chunk)',
           \A d \in Doc, a \in Peer :
              \/ index'[d][a] = index[d][a]
              \/ \E e \in outbox[a] : e.doc = d /\ e.chunk = index'[d][a],
           \A p, a \in Peer, d \in Doc :
              replica'[p][d][a] \in {replica[p][d][a], index[d][a]},
           \A p \in Peer : merged'[p] \subseteq 1..Len(leaves')
    PROVE  Circulating'
<1>1. ASSUME NEW p \in Peer, NEW e \in outbox'[p]
      PROVE  Minted(e.doc, e.chunk)'
  <2>1. CASE e \in outbox[p]
    <3>1. e \in Entry /\ Minted(e.doc, e.chunk)
      BY <2>1 DEF TypeOK, Circulating
    <3>2. e.doc \in Doc /\ e.chunk \in Chunk
      BY <3>1 DEF Entry
    <3> QED BY <3>1, <3>2, MintedStays
  <2> QED BY <1>1, <2>1
<1>2. ASSUME NEW d \in Doc, NEW a \in Peer, index'[d][a] # None
      PROVE  Minted(d, index[d][a])'
  <2>1. PICK c : c = index'[d][a]
    OBVIOUS
  <2>2. c \in Chunk
    <3>1. index' \in [Doc -> [Peer -> Chunk \cup {None}]]
      BY DEF TypeOK
    <3> QED BY <1>2, <2>1, <3>1
  <2>3. Minted(d, c)
    BY <1>2, <2>1 DEF Circulating
  <2>4. Minted(d, c)'
    BY <2>2, <2>3, MintedStays
  <2> QED BY <2>1, <2>4 DEF Minted
<1>3. ASSUME NEW p \in Peer, NEW d \in Doc, NEW a \in Peer, replica'[p][d][a] # None
      PROVE  Minted(d, replica[p][d][a])'
  <2>1. PICK c : c = replica'[p][d][a]
    OBVIOUS
  <2>2. c \in Chunk
    BY <1>3, <2>1, CopiesTyped
  <2>3. Minted(d, c)
    BY <1>3, <2>1 DEF Circulating
  <2>4. Minted(d, c)'
    BY <2>2, <2>3, MintedStays
  <2> QED BY <2>1, <2>4 DEF Minted
<1> QED BY <1>1, <1>2, <1>3 DEF Circulating

LEMMA SameDocs ==
    ASSUME docs' = docs
    PROVE  /\ \A d \in Doc : Made'[d] = Made[d]
           /\ \A d \in Doc : History(d) => History(d)'
<1>1. Made' = Made
  BY DEF Made
<1>2. ASSUME NEW d \in Doc, History(d)
      PROVE  History(d)'
  BY <1>1, <1>2 DEF History, Own, Attached, Ids
<1> QED BY <1>1, <1>2

(* A step that leaves documents, queues and what was seen alone. *)
LEMMA QuietStep ==
    ASSUME IInv, TypeOK', UNCHANGED <<docs, pending, evicted, seen>>,
           Len(leaves) <= Len(leaves'), \A e \in 1..Len(leaves) : leaves'[e] = leaves[e],
           \A q \in Peer : /\ merged[q] \subseteq merged'[q]
                           /\ \A e \in merged'[q] : e <= Len(leaves) => e \in merged[q],
           \A q \in Peer : Joined(q) => Joined(q)',
           Grows => Circulating'
    PROVE  IInv'
<1>1. Grows
  BY SameDocs DEF Grows
<1>2. \A q \in Peer : Calm(q)
  BY DEF Calm
<1>3. \A q \in Peer : Orderly(q)'
  BY <1>1, <1>2, OrderlyKept DEF IInv, Circulating
<1>4. \A d \in Doc : History(d)'
  BY SameDocs DEF IInv
<1> QED BY <1>1, <1>3, <1>4 DEF IInv

(* What publish_keyed changes. *)
Publishes(p, d, ops) ==
    /\ leaves' \in Seq(SUBSET Peer) /\ Len(leaves') <= MaxEpochs
    /\ Len(leaves) <= Len(leaves') /\ \A e \in 1..Len(leaves) : leaves'[e] = leaves[e]
    /\ merged' \in [Peer -> SUBSET Epoch]
    /\ \A q \in Peer : /\ merged[q] \subseteq merged'[q] /\ merged'[q] \subseteq 1..Len(leaves')
                       /\ \A e \in merged'[q] : e <= Len(leaves) => e \in merged[q]
    /\ published' \in [Peer -> [Doc -> (SUBSET Id) \cup {None}]]
    /\ deltas' \in [Peer -> [Doc -> 0..FULL_PUBLISH_EVERY]]
    /\ outbox' \in [Peer -> SUBSET Entry]
    /\ \A q \in Peer : \A e \in outbox'[q] :
          e \in outbox[q] \/ (e.doc = d /\ e.chunk.ops \subseteq ops /\ e.chunk.epoch <= Len(leaves'))
    /\ tree' = tree

LEMMA PublishKeyedIs ==
    ASSUME TypeOK, Circulating, NEW p \in Peer, NEW d \in Doc, NEW ops \in SUBSET Operation,
           NEW keying, NEW extent, PublishKeyed(p, d, ops, keying, extent),
           extent = "Delta" => deltas[p][d] < FULL_PUBLISH_EVERY
    PROVE  Publishes(p, d, ops)
<1>1. PICK fresh \in BOOLEAN :
        LET epoch == IF fresh THEN Len(leaves) + 1 ELSE Newest(Derivable(p))
            out == IF extent = "Delta"
                     THEN {o \in Attached(ops) : o.id \notin published[p][d]}
                     ELSE Attached(ops)
        IN /\ MayMint(p, keying, fresh)
           /\ epoch \in Epoch
           /\ leaves' = IF fresh THEN Append(leaves, tree[p]) ELSE leaves
           /\ merged' = [merged EXCEPT ![p] = @ \cup {epoch}]
           /\ published' = [published EXCEPT ![p][d] = Ids(Attached(ops))]
           /\ deltas' = [deltas EXCEPT ![p][d] = IF extent = "Delta" THEN @ + 1 ELSE 0]
           /\ outbox' = [outbox EXCEPT ![p] =
                  @ \cup {[doc |-> d, chunk |-> [ops |-> out, epoch |-> epoch]]}]
           /\ UNCHANGED tree
  BY DEF PublishKeyed
<1>2. PICK epoch : epoch = IF fresh THEN Len(leaves) + 1 ELSE Newest(Derivable(p))
  OBVIOUS
<1>3. PICK out : out = IF extent = "Delta"
                         THEN {o \in Attached(ops) : o.id \notin published[p][d]}
                         ELSE Attached(ops)
  OBVIOUS
<1>4. /\ MayMint(p, keying, fresh)
      /\ epoch \in Epoch
      /\ leaves' = IF fresh THEN Append(leaves, tree[p]) ELSE leaves
      /\ merged' = [merged EXCEPT ![p] = @ \cup {epoch}]
      /\ published' = [published EXCEPT ![p][d] = Ids(Attached(ops))]
      /\ deltas' = [deltas EXCEPT ![p][d] = IF extent = "Delta" THEN @ + 1 ELSE 0]
      /\ outbox' = [outbox EXCEPT ![p] = @ \cup {[doc |-> d, chunk |-> [ops |-> out, epoch |-> epoch]]}]
      /\ tree' = tree
  BY <1>1, <1>2, <1>3
<1>5. out \subseteq ops /\ Attached(ops) \subseteq ops
  BY <1>3 DEF Attached
<1>6. /\ leaves \in Seq(SUBSET Peer) /\ Len(leaves) \in Nat /\ Len(leaves) <= MaxEpochs
      /\ MaxEpochs \in Nat /\ tree[p] \in SUBSET Peer /\ merged[p] \subseteq 1..Len(leaves)
  BY DocumentsAssumption DEF TypeOK, Circulating
<1>7. /\ leaves' \in Seq(SUBSET Peer) /\ Len(leaves') \in Nat /\ Len(leaves') <= MaxEpochs
      /\ Len(leaves) <= Len(leaves') /\ \A e \in 1..Len(leaves) : leaves'[e] = leaves[e]
      /\ epoch \in 1..Len(leaves') /\ (epoch <= Len(leaves) => epoch \in merged[p])
  <2>1. CASE fresh
    <3>1. epoch = Len(leaves) + 1 /\ leaves' = Append(leaves, tree[p])
      BY <1>2, <1>4, <2>1
    <3>2. /\ leaves' \in Seq(SUBSET Peer) /\ Len(leaves') = Len(leaves) + 1
          /\ \A e \in 1..Len(leaves) : leaves'[e] = leaves[e]
      BY <1>6, <3>1
    <3>3. Len(leaves) + 1 <= MaxEpochs
      BY <1>4, <1>6, <3>1 DEF Epoch
    <3> QED BY <1>6, <3>1, <3>2, <3>3
  <2>2. CASE ~fresh
    <3>1. epoch = Newest(Derivable(p)) /\ leaves' = leaves
      BY <1>2, <1>4, <2>2
    <3>2. Derivable(p) # {}
      BY <1>4, <2>2 DEF MayMint
    <3>3. Derivable(p) \subseteq 1..Len(leaves) /\ Derivable(p) \subseteq merged[p]
      BY <1>6 DEF Derivable
    <3>4. epoch \in Derivable(p)
      BY <1>6, <3>1, <3>2, <3>3, NewestIn
    <3> QED BY <1>6, <3>1, <3>3, <3>4
  <2> QED BY <2>1, <2>2
<1>8. merged' \in [Peer -> SUBSET Epoch]
  BY <1>4 DEF TypeOK
<1>9. ASSUME NEW q \in Peer
      PROVE  /\ merged[q] \subseteq merged'[q] /\ merged'[q] \subseteq 1..Len(leaves')
             /\ \A e \in merged'[q] : e <= Len(leaves) => e \in merged[q]
  <2>1. merged[q] \subseteq 1..Len(leaves)
    BY DEF Circulating
  <2>2. merged[q] \subseteq 1..Len(leaves')
    BY <1>6, <1>7, <2>1
  <2>3. merged'[q] = IF q = p THEN merged[p] \cup {epoch} ELSE merged[q]
    BY <1>4 DEF TypeOK
  <2> QED BY <1>7, <2>2, <2>3
<1>10. published' \in [Peer -> [Doc -> (SUBSET Id) \cup {None}]]
  <2>1. Ids(Attached(ops)) \in SUBSET Id
    BY <1>5, OperationFields DEF Ids
  <2> QED BY <1>4, <2>1 DEF TypeOK
<1>11. deltas' \in [Peer -> [Doc -> 0..FULL_PUBLISH_EVERY]]
  <2>1. PICK n : n = IF extent = "Delta" THEN deltas[p][d] + 1 ELSE 0
    OBVIOUS
  <2>2. n \in 0..FULL_PUBLISH_EVERY
    BY <2>1, DocumentsAssumption DEF TypeOK
  <2>3. deltas' = [deltas EXCEPT ![p][d] = n]
    BY <1>4, <2>1 DEF TypeOK
  <2> QED BY <2>2, <2>3 DEF TypeOK
<1>12. PICK entry : entry = [doc |-> d, chunk |-> [ops |-> out, epoch |-> epoch]]
  OBVIOUS
<1>13. /\ entry \in Entry /\ entry.doc = d /\ entry.chunk.ops \subseteq ops
       /\ entry.chunk.epoch <= Len(leaves')
  BY <1>4, <1>5, <1>7, <1>12 DEF Entry, Chunk
<1>14. \A q \in Peer : outbox'[q] = IF q = p THEN outbox[p] \cup {entry} ELSE outbox[q]
  BY <1>4, <1>12 DEF TypeOK
<1>15. outbox' \in [Peer -> SUBSET Entry]
  BY <1>4, <1>12, <1>13 DEF TypeOK
<1>16. \A q \in Peer : \A e \in outbox'[q] :
          e \in outbox[q] \/ (e.doc = d /\ e.chunk.ops \subseteq ops /\ e.chunk.epoch <= Len(leaves'))
  BY <1>13, <1>14
<1> QED BY <1>4, <1>7, <1>8, <1>9, <1>10, <1>11, <1>15, <1>16 DEF Publishes

(* A publication of what the documents hold. *)
LEMMA PublicationKeeps ==
    ASSUME IInv, NEW p \in Peer, NEW d \in Doc, NEW ops, Publishes(p, d, ops),
           ops \subseteq docs[p][d], UNCHANGED <<docs, pending, evicted, index, replica, seen>>,
           repairs' \subseteq Repair, answered' \in [Peer -> SUBSET Peer], restarts' \in 0..MaxRestarts
    PROVE  IInv'
<1>1. TypeOK'
  BY DEF IInv, TypeOK, Publishes
<1>2. ASSUME Grows
      PROVE  Circulating'
  <2>1. \A q \in Peer : \A e \in outbox'[q] : e \in outbox[q] \/ Minted(e.doc, e.chunk)'
    <3>1. ops \subseteq Made'[d]
      BY SameDocs, MadeHas
    <3> QED BY <3>1 DEF Publishes, Minted
  <2>2. \A q \in Peer : merged'[q] \subseteq 1..Len(leaves')
    BY DEF Publishes
  <2> QED BY <1>1, <1>2, <2>1, <2>2, CirculatingKept DEF IInv
<1>3. \A q \in Peer : Joined(q) => Joined(q)'
  BY DEF Publishes, Joined
<1> QED BY <1>1, <1>2, <1>3, QuietStep DEF Publishes

LEMMA ResyncKeeps ==
    ASSUME IInv, NEW p \in Peer, NEW d \in Doc, Resync(p, d)
    PROVE  IInv'
<1>1. docs[p][d] \in SUBSET Operation
  BY DocsTyped DEF IInv
<1>2. Publishes(p, d, docs[p][d])
  <2>1. TypeOK /\ Circulating /\ PublishKeyed(p, d, docs[p][d], "Current", "Full")
    BY DEF IInv, Resync
  <2> QED BY <1>1, <2>1, PublishKeyedIs
<1>3. /\ UNCHANGED <<docs, pending, evicted, index, replica, seen>>
      /\ repairs' \subseteq Repair /\ answered' \in [Peer -> SUBSET Peer] /\ restarts' \in 0..MaxRestarts
  BY DEF IInv, TypeOK, Resync
<1> QED BY <1>2, <1>3, PublicationKeeps

LEMMA StoreChunkKeeps ==
    ASSUME IInv, NEW p \in Peer, NEW e \in outbox[p], StoreChunk(p, e)
    PROVE  IInv'
<1>1. e \in Entry /\ e.doc \in Doc /\ e.chunk \in Chunk
  BY DEF IInv, TypeOK, Entry
<1>2. TypeOK'
  <2>1. outbox' \in [Peer -> SUBSET Entry]
    BY DEF IInv, TypeOK, StoreChunk
  <2>2. index' \in [Doc -> [Peer -> Chunk \cup {None}]]
    BY <1>1 DEF IInv, TypeOK, StoreChunk
  <2> QED BY <2>1, <2>2 DEF IInv, TypeOK, StoreChunk, core, keys
<1>3. ASSUME Grows
      PROVE  Circulating'
  <2>1. \A q \in Peer : outbox'[q] \subseteq outbox[q]
    BY DEF IInv, TypeOK, StoreChunk
  <2>2. ASSUME NEW d \in Doc, NEW a \in Peer, index'[d][a] # index[d][a]
        PROVE  d = e.doc /\ a = p /\ index'[d][a] = e.chunk
    BY <1>1, <2>2 DEF IInv, TypeOK, StoreChunk
  <2>3. \A q \in Peer : merged'[q] \subseteq 1..Len(leaves')
    BY DEF IInv, Circulating, StoreChunk, keys
  <2>4. \A q, a \in Peer, d \in Doc : replica'[q][d][a] \in {replica[q][d][a], index[d][a]}
    BY DEF StoreChunk
  <2> QED BY <1>2, <1>3, <2>1, <2>2, <2>3, <2>4, CirculatingKept DEF IInv
<1>4. UNCHANGED <<docs, pending, evicted, seen, leaves, merged, tree>>
  BY DEF StoreChunk, core, keys
<1>5. Len(leaves) <= Len(leaves')
  <2>1. Len(leaves) \in Nat
    BY EpochsTyped DEF IInv
  <2> QED BY <1>4, <2>1
<1> QED BY <1>2, <1>3, <1>4, <1>5, QuietStep DEF Joined

LEMMA ElapseKeeps ==
    ASSUME IInv, NEW p \in Peer, Elapse(p)
    PROVE  IInv'
<1>1. TypeOK'
  BY DEF IInv, TypeOK, Elapse, core, facade, keys
<1>2. UNCHANGED <<docs, pending, evicted, seen, leaves, merged, tree, outbox, index, replica>>
  BY DEF Elapse, core, facade, keys
<1>3. ASSUME Grows
      PROVE  Circulating'
  BY <1>1, <1>2, <1>3, CirculatingKept DEF IInv, Circulating
<1>4. Len(leaves) <= Len(leaves')
  <2>1. Len(leaves) \in Nat
    BY EpochsTyped DEF IInv
  <2> QED BY <1>2, <2>1
<1> QED BY <1>1, <1>2, <1>3, <1>4, QuietStep DEF Joined

LEMMA AnswerKeeps ==
    ASSUME IInv, NEW m \in repairs, Answer(m)
    PROVE  IInv'
<1>1. m \in Repair /\ m.to \in Peer /\ m.member \in Peer /\ m.doc \in Doc
  BY DEF IInv, TypeOK, Repair
<1>2. repairs' \subseteq Repair
  BY DEF IInv, TypeOK, Answer
<1>3. answered' \in [Peer -> SUBSET Peer]
  BY <1>1 DEF IInv, TypeOK, Answer
<1>4. UNCHANGED <<docs, pending, evicted, index, replica, seen, restarts>>
  BY DEF Answer
<1>5. restarts' \in 0..MaxRestarts
  BY <1>4 DEF IInv, TypeOK
<1>6. ASSUME NEW keying, PublishKeyed(m.to, m.doc, docs[m.to][m.doc], keying, "Full")
      PROVE  IInv'
  <2>1. docs[m.to][m.doc] \in SUBSET Operation /\ TypeOK /\ Circulating
    BY <1>1, DocsTyped DEF IInv
  <2>2. Publishes(m.to, m.doc, docs[m.to][m.doc])
    BY <1>1, <1>6, <2>1, PublishKeyedIs
  <2> QED BY <1>1, <1>2, <1>3, <1>4, <1>5, <2>2, PublicationKeeps
<1>7. ASSUME UNCHANGED <<published, deltas, outbox, keys>>
      PROVE  IInv'
  <2>1. UNCHANGED <<tree, merged, leaves, outbox>>
    BY <1>7 DEF keys
  <2>2. TypeOK'
    BY <1>2, <1>3, <1>4, <1>7, <2>1 DEF IInv, TypeOK
  <2>3. ASSUME Grows
        PROVE  Circulating'
    BY <1>4, <2>1, <2>2, <2>3, CirculatingKept DEF IInv, Circulating
  <2>4. Len(leaves) <= Len(leaves')
    <3>1. Len(leaves) \in Nat
      BY EpochsTyped DEF IInv
    <3> QED BY <2>1, <3>1
  <2> QED BY <1>4, <2>1, <2>2, <2>3, <2>4, QuietStep DEF Joined
<1> QED BY <1>6, <1>7 DEF Answer

(* Who is admitted holds nothing yet. *)
LEMMA AdmitKeeps ==
    ASSUME IInv, NEW p \in Peer, NEW q \in Peer, Admit(p, q)
    PROVE  IInv'
<1>1. TypeOK /\ Circulating /\ p # q /\ Joined(p) /\ ~Joined(q)
  BY DEF IInv, Admit, Joined
<1>2. UNCHANGED <<docs, published, deltas, pending, evicted, outbox, index, replica, seen, leaves,
                  repairs, answered, restarts>>
  BY DEF Admit, core, facade
<1>3. \A x \in Peer : /\ tree'[x] = IF x = q THEN tree[p] \cup {q}
                                    ELSE IF x = p THEN tree[p] \cup {q} ELSE tree[x]
                      /\ merged'[x] = IF x = q THEN merged[p] ELSE merged[x]
  BY <1>1 DEF Admit, TypeOK
<1>4. TypeOK'
  <2>1. tree' \in [Peer -> SUBSET Peer] /\ merged' \in [Peer -> SUBSET Epoch]
    BY DEF Admit, IInv, TypeOK
  <2> QED BY <1>1, <1>2, <2>1 DEF TypeOK
<1>5. Len(leaves) \in Nat
  BY <1>1, EpochsTyped
<1>6. Grows
  BY <1>2, <1>5, SameDocs DEF Grows
<1>7. Circulating'
  <2>1. \A x \in Peer : merged'[x] \subseteq 1..Len(leaves')
    BY <1>1, <1>2, <1>3 DEF Circulating
  <2> QED BY <1>1, <1>2, <1>4, <1>6, <2>1, CirculatingKept
<1>8. ASSUME NEW x \in Peer, x # q
      PROVE  Orderly(x)'
  <2>1. Calm(x)
    BY <1>2, <1>3, <1>8 DEF Calm, Joined
  <2> QED BY <1>1, <1>4, <1>6, <2>1, OrderlyKept DEF IInv, Circulating
<1>9. Orderly(q)'
  <2>1. pending'[q] = <<>> /\ seen'[q] = NoEntries /\ \A d \in Doc : docs'[q][d] = {}
    BY <1>1, <1>2 DEF IInv, Orderly, Waits
  <2>2. DOMAIN pending'[q] = {}
    BY <2>1
  <2>3. /\ View(q)'.docs = docs'[q] /\ View(q)'.pending = pending'[q]
    BY DEF View, Progress
  <2>4. Blocked(q, View(q))'
    BY <2>2, <2>3 DEF Blocked
  <2>5. Anchored(q, View(q))'
    BY <2>1, <2>3 DEF Anchored
  <2>6. Within(View(q), Made)'
    BY <2>1, <2>2, <2>3 DEF Within, Parks
  <2>7. SeenAccounted(q)'
    BY <2>1 DEF SeenAccounted, NoEntries
  <2>8. Waits(q)'
    <3>1. Joined(q)'
      BY <1>3 DEF Joined
    <3> QED BY <3>1 DEF Waits
  <2> QED BY <2>4, <2>5, <2>6, <2>7, <2>8 DEF Orderly
<1>10. \A d \in Doc : History(d)'
  BY <1>2, SameDocs DEF IInv
<1> QED BY <1>4, <1>7, <1>8, <1>9, <1>10 DEF IInv

(* A snapshot holds what is attached, and nothing parked. *)
LEMMA RestartKeeps ==
    ASSUME IInv, NEW p \in Peer, Restart(p)
    PROVE  IInv'
<1>1. TypeOK /\ Circulating /\ Joined(p)
  BY DEF IInv, Restart
<1>2. UNCHANGED <<published, outbox, index, replica, tree, merged, leaves, repairs>>
  BY DEF Restart, keys
<1>3. \A q \in Peer : /\ q # p => /\ docs'[q] = docs[q] /\ pending'[q] = pending[q]
                                  /\ evicted'[q] = evicted[q] /\ seen'[q] = seen[q]
                      /\ q = p => /\ \A d \in Doc : docs'[q][d] = Attached(docs[q][d])
                                  /\ pending'[q] = <<>> /\ evicted'[q] = FALSE
                                  /\ seen'[q] = NoEntries
  <2>1. \A q \in Peer : /\ q # p => docs'[q] = docs[q]
                        /\ q = p => \A d \in Doc : docs'[q][d] = Attached(docs[q][d])
    BY <1>1 DEF Restart, TypeOK
  <2>2. \A q \in Peer : /\ q # p => evicted'[q] = evicted[q] /\ seen'[q] = seen[q]
                        /\ q = p => evicted'[q] = FALSE /\ seen'[q] = NoEntries
    BY <1>1 DEF Restart, TypeOK
  <2>3. \A q \in Peer : /\ q # p => pending'[q] = pending[q]
                        /\ q = p => pending'[q] = <<>>
    BY <1>1 DEF Restart, TypeOK
  <2> QED BY <2>1, <2>2, <2>3
<1>4. TypeOK'
  <2>1. docs' \in [Peer -> [Doc -> SUBSET Operation]]
    <3>1. [d \in Doc |-> Attached(docs[p][d])] \in [Doc -> SUBSET Operation]
      BY <1>1, DocsTyped DEF Attached
    <3> QED BY <1>1, <3>1 DEF Restart, TypeOK
  <2>2. deltas' \in [Peer -> [Doc -> 0..FULL_PUBLISH_EVERY]]
    <3>1. [d \in Doc |-> 0] \in [Doc -> 0..FULL_PUBLISH_EVERY]
      BY DocumentsAssumption
    <3> QED BY <1>1, <3>1 DEF Restart, TypeOK
  <2>3. seen' \in [Peer -> [Doc -> [Peer -> Chunk \cup {None}]]]
    <3>1. NoEntries \in [Doc -> [Peer -> Chunk \cup {None}]]
      BY DEF NoEntries
    <3> QED BY <1>1, <3>1 DEF Restart, TypeOK
  <2>4. /\ pending' \in [Peer -> Seq(Parked)]
        /\ \A q \in Peer : Len(pending'[q]) <= MAX_PENDING_CHUNKS
    <3>1. <<>> \in Seq(Parked) /\ Len(<<>>) = 0 /\ 0 <= MAX_PENDING_CHUNKS
      BY DocumentsAssumption
    <3>2. \A q \in Peer : Len(pending'[q]) <= MAX_PENDING_CHUNKS
      BY <1>1, <1>3, <3>1 DEF TypeOK
    <3> QED BY <1>1, <3>1, <3>2 DEF TypeOK, Restart
  <2>5. evicted' \in [Peer -> BOOLEAN] /\ answered' \in [Peer -> SUBSET Peer]
    BY <1>1 DEF Restart, TypeOK
  <2>6. restarts' \in 0..MaxRestarts
    BY <1>1, DocumentsAssumption DEF Restart, TypeOK
  <2> QED BY <1>1, <1>2, <2>1, <2>2, <2>3, <2>4, <2>5, <2>6 DEF TypeOK
<1>5. ASSUME NEW d \in Doc
      PROVE  Made'[d] = Made[d] /\ History(d)'
  <2>1. History(d)
    BY DEF IInv
  <2>2. ASSUME NEW q \in Peer
        PROVE  /\ Attached(docs[q][d]) \subseteq Attached(docs'[q][d])
               /\ docs'[q][d] \subseteq Made[d]
    <3>1. docs[q][d] \subseteq Made[d]
      BY MadeHas
    <3>2. CASE q # p
      BY <1>3, <3>1, <3>2
    <3>3. CASE q = p
      <4>1. docs'[q][d] = Attached(docs[q][d])
        BY <1>3, <3>3
      <4>2. Attached(Attached(docs[q][d])) = Attached(docs[q][d])
        BY <2>1, <3>1, AttachedTwice
      <4>3. Attached(docs[q][d]) \subseteq docs[q][d]
        BY DEF Attached
      <4> QED BY <3>1, <4>1, <4>2, <4>3
    <3> QED BY <3>2, <3>3
  <2> QED BY <1>1, <1>4, <2>1, <2>2, HistoryKept
<1>6. Grows
  <2>1. Len(leaves) \in Nat
    BY <1>1, EpochsTyped
  <2> QED BY <1>2, <1>5, <2>1 DEF Grows
<1>7. Circulating'
  <2>1. \A q \in Peer : merged'[q] \subseteq 1..Len(leaves')
    BY <1>1, <1>2 DEF Circulating
  <2> QED BY <1>1, <1>2, <1>4, <1>6, <2>1, CirculatingKept
<1>8. ASSUME NEW q \in Peer, q # p
      PROVE  Orderly(q)'
  <2>1. Calm(q)
    BY <1>2, <1>3, <1>8 DEF Calm, Joined
  <2> QED BY <1>1, <1>4, <1>6, <2>1, OrderlyKept DEF IInv, Circulating
<1>9. Orderly(p)'
  <2>1. /\ pending'[p] = <<>> /\ seen'[p] = NoEntries
        /\ \A d \in Doc : docs'[p][d] = Attached(docs[p][d])
    BY <1>3
  <2>2. DOMAIN pending'[p] = {}
    BY <2>1
  <2>3. View(p)'.docs = docs'[p] /\ View(p)'.pending = pending'[p]
    BY DEF View, Progress
  <2>4. \A d \in Doc : docs'[p][d] \subseteq Attached(docs'[p][d]) /\ docs'[p][d] \subseteq Made'[d]
    <3> SUFFICES ASSUME NEW d \in Doc
                 PROVE  docs'[p][d] \subseteq Attached(docs'[p][d]) /\ docs'[p][d] \subseteq Made'[d]
      OBVIOUS
    <3>1. docs[p][d] \subseteq Made[d] /\ History(d)
      BY MadeHas DEF IInv
    <3>2. Attached(Attached(docs[p][d])) = Attached(docs[p][d])
      BY <3>1, AttachedTwice
    <3>3. Attached(docs[p][d]) \subseteq docs[p][d]
      BY DEF Attached
    <3> QED BY <1>5, <2>1, <3>1, <3>2, <3>3
  <2>5. Blocked(p, View(p))'
    BY <2>2, <2>3 DEF Blocked
  <2>6. Anchored(p, View(p))'
    BY <2>3, <2>4 DEF Anchored, Attached, Ids
  <2>7. Within(View(p), Made)'
    BY <2>2, <2>3, <2>4 DEF Within, Parks
  <2>8. SeenAccounted(p)'
    BY <2>1 DEF SeenAccounted, NoEntries
  <2>9. Waits(p)'
    BY <1>1, <1>2 DEF Waits, Joined
  <2> QED BY <2>5, <2>6, <2>7, <2>8, <2>9 DEF Orderly
<1> QED BY <1>4, <1>5, <1>7, <1>8, <1>9 DEF IInv

(* The bound on edits bounds the number of each. *)
LEMMA EditNumber ==
    ASSUME TypeOK, NEW p \in Peer, NEW d \in Doc, History(d),
           Cardinality(Edits) < MaxEdits
    PROVE  Cardinality(Own(p, d)) \in Nat /\ Cardinality(Own(p, d)) + 1 \in 1..MaxEdits
<1>1. PICK T : T = Edits
  OBVIOUS
<1>2. IsFiniteSet(T)
  <2>1. IsFiniteSet(1..MaxEdits)
    BY DocumentsAssumption, FS_Interval
  <2>2. IsFiniteSet(Id)
    BY <2>1, DocumentsAssumption, FS_Product DEF Id
  <2>3. IsFiniteSet(Doc \X Id)
    BY <2>2, DocumentsAssumption, FS_Product
  <2>4. T \in SUBSET (Doc \X Id)
    BY <1>1 DEF Edits
  <2> QED BY <2>3, <2>4, FS_Subset
<1>3. PICK S : S = Own(p, d)
  OBVIOUS
<1>4. PICK f : f = [o \in S |-> <<d, o.id>>]
  OBVIOUS
<1>5. \A o \in S : o \in docs[p][d] /\ o \in Made[d]
  BY <1>3, MadeHas DEF Own
<1>6. f \in [S -> T]
  <2> SUFFICES ASSUME NEW o \in S PROVE <<d, o.id>> \in T
    BY <1>4
  <2>1. o.id \in Ids(docs[p][d])
    BY <1>5 DEF Ids
  <2>2. o.id \in Id
    BY <1>5, MadeTyped, OperationFields
  <2> QED BY <1>1, <2>1, <2>2 DEF Edits
<1>7. \A o, r \in S : f[o] = f[r] => o = r
  BY <1>4, <1>5 DEF History
<1>8. Cardinality(S) \in Nat /\ Cardinality(T) \in Nat /\ Cardinality(S) <= Cardinality(T)
  BY <1>2, <1>6, <1>7, SizeOfImage
<1>9. Cardinality(T) < MaxEdits /\ MaxEdits \in Nat
  BY <1>1, DocumentsAssumption
<1> QED BY <1>3, <1>8, <1>9

(* A change is a new operation on top of what its author can see. *)
LEMMA ChangeIs ==
    ASSUME TypeOK, NEW p \in Peer, NEW d \in Doc, History(d),
           Cardinality(Edits) < MaxEdits,
           NEW op, op = Change(p, d)
    PROVE  /\ op \in Operation /\ op.id = <<p, Cardinality(Own(p, d)) + 1>>
           /\ op.deps = Ids(Attached(docs[p][d]))
           /\ \A o \in Made[d] : o.id # op.id
           /\ Attached(docs[p][d] \cup {op}) = Attached(docs[p][d]) \cup {op}
<1>1. PICK n : n = Cardinality(Own(p, d))
  OBVIOUS
<1>2. n \in Nat /\ n + 1 \in 1..MaxEdits
  BY <1>1, EditNumber
<1>3. op = [id |-> <<p, n + 1>>, deps |-> Ids(Attached(docs[p][d]))]
  BY <1>1 DEF Change, Own
<1>4. Ids(Attached(docs[p][d])) \in SUBSET Id
  <2>1. Attached(docs[p][d]) \subseteq Operation
    BY DocsTyped DEF Attached
  <2> QED BY <2>1, OperationFields DEF Ids
<1>5. op \in Operation /\ op.id = <<p, n + 1>> /\ op.deps = Ids(Attached(docs[p][d]))
  BY <1>2, <1>3, <1>4 DEF Operation, Id
<1>6. ASSUME NEW o \in Made[d], o.id = op.id
      PROVE  FALSE
  <2>1. o.id[1] = p /\ o.id[2] = n + 1
    BY <1>5, <1>6
  <2>2. o \in Attached(docs[p][d])
    BY <2>1 DEF History
  <2>3. o \in Own(p, d)
    BY <2>1, <2>2 DEF Own, Attached
  <2>4. o.id[2] <= n
    BY <1>1, <2>3 DEF History
  <2> QED BY <1>2, <2>1, <2>4
<1>7. docs[p][d] \subseteq Made[d]
  BY MadeHas
<1>8. Ids(docs[p][d] \cup {op}) = Ids(docs[p][d]) \cup {op.id}
  BY DEF Ids
<1>9. op.deps \subseteq Ids(docs[p][d])
  BY <1>5 DEF Ids, Attached
<1>10. \A o \in docs[p][d] : op.id \notin o.deps
  <2>1. op.id \notin Ids(Made[d])
    BY <1>6 DEF Ids
  <2> QED BY <1>7, <2>1 DEF History
<1>11. Attached(docs[p][d] \cup {op}) = Attached(docs[p][d]) \cup {op}
  <2> SUFFICES ASSUME NEW o
               PROVE  o \in Attached(docs[p][d] \cup {op}) <=> o \in Attached(docs[p][d]) \/ o = op
    OBVIOUS
  <2>1. o \in Attached(docs[p][d] \cup {op}) <=>
           (o \in docs[p][d] \/ o = op) /\ o.deps \subseteq Ids(docs[p][d]) \cup {op.id}
    BY <1>8 DEF Attached
  <2>2. o \in Attached(docs[p][d]) <=> o \in docs[p][d] /\ o.deps \subseteq Ids(docs[p][d])
    BY DEF Attached
  <2> QED BY <1>9, <1>10, <2>1, <2>2
<1> QED BY <1>1, <1>5, <1>6, <1>11

LEMMA EditHistory ==
    ASSUME TypeOK, TypeOK', NEW p \in Peer, NEW d \in Doc, \A x \in Doc : History(x),
           NEW op \in Operation, op.id = <<p, Cardinality(Own(p, d)) + 1>>,
           op.deps = Ids(Attached(docs[p][d])), \A o \in Made[d] : o.id # op.id,
           Attached(docs[p][d] \cup {op}) = Attached(docs[p][d]) \cup {op},
           docs' = [docs EXCEPT ![p][d] = @ \cup {op}]
    PROVE  /\ \A x \in Doc : History(x)'
           /\ \A x \in Doc : Made[x] \subseteq Made'[x]
<1>1. \A q \in Peer, x \in Doc :
         docs'[q][x] = IF q = p /\ x = d THEN docs[p][d] \cup {op} ELSE docs[q][x]
  <2>1. docs \in [Peer -> [Doc -> SUBSET Operation]]
    BY DEF TypeOK
  <2> QED BY <2>1
<1>2. \A x \in Doc : \A o : o \in Made'[x] <=> \E q \in Peer : o \in docs'[q][x]
  BY DEF Made
<1>3. ASSUME NEW x \in Doc, x # d
      PROVE  History(x)' /\ Made[x] \subseteq Made'[x]
  <2>1. \A q \in Peer : docs'[q][x] = docs[q][x] /\ docs[q][x] \subseteq Made[x]
    BY <1>1, <1>3, MadeHas
  <2>2. Made'[x] = Made[x] /\ History(x)'
    BY <2>1, HistoryKept
  <2> QED BY <2>2
<1>4. Made'[d] = Made[d] \cup {op}
  <2> SUFFICES ASSUME NEW o PROVE o \in Made'[d] <=> o \in Made[d] \/ o = op
    OBVIOUS
  <2> QED BY <1>1, <1>2, MadeHas
<1>5. History(d)'
  <2>1. History(d) /\ docs[p][d] \subseteq Made[d]
    BY MadeHas
  <2>2. ASSUME NEW o \in Made'[d], NEW r \in Made'[d], o.id = r.id
        PROVE  o = r
    BY <1>4, <2>1, <2>2 DEF History
  <2>3. Ids(Made'[d]) = Ids(Made[d]) \cup {op.id} /\ Attached(docs[p][d]) \subseteq Made[d]
    <3>1. Ids(Made[d] \cup {op}) = Ids(Made[d]) \cup {op.id}
      BY DEF Ids
    <3>2. Attached(docs[p][d]) \subseteq docs[p][d]
      BY DEF Attached
    <3> QED BY <1>4, <2>1, <3>1, <3>2
  <2>4. op.deps \subseteq Ids(Made[d])
    BY <2>3 DEF Ids
  <2>5. \A o \in Made'[d] : o.deps \subseteq Ids(Made'[d])
    BY <1>4, <2>1, <2>3, <2>4 DEF History
  <2>6. ASSUME NEW o \in Made'[d], NEW r \in Made'[d], r.id \in o.deps
        PROVE  r.deps \subseteq o.deps
    <3>1. op.id \notin Ids(Made[d])
      BY DEF Ids
    <3>2. r # op
      BY <1>4, <2>1, <2>4, <2>6, <3>1 DEF History
    <3>3. r \in Made[d]
      BY <1>4, <3>2
    <3>4. CASE o = op
      <4>1. PICK z \in Attached(docs[p][d]) : z.id = r.id
        BY <2>6, <3>4 DEF Ids
      <4>2. z = r
        BY <2>1, <2>3, <3>3, <4>1 DEF History
      <4>3. Attached(Attached(docs[p][d])) = Attached(docs[p][d])
        BY <2>1, AttachedTwice
      <4>4. r \in Attached(Attached(docs[p][d]))
        BY <4>1, <4>2, <4>3
      <4>5. r.deps \subseteq Ids(Attached(docs[p][d]))
        BY <4>4 DEF Attached
      <4> QED BY <3>4, <4>5
    <3>5. CASE o # op
      BY <1>4, <2>1, <2>6, <3>3, <3>5 DEF History
    <3> QED BY <3>4, <3>5
  <2>7. ASSUME NEW o \in Made'[d]
        PROVE  o \in Attached(docs'[o.id[1]][d])
    <3>1. CASE o = op
      <4>1. o.id[1] = p /\ docs'[p][d] = docs[p][d] \cup {op}
        BY <1>1, <3>1
      <4> QED BY <3>1, <4>1
    <3>2. CASE o # op
      <4>1. o \in Made[d] /\ o.id[1] \in Peer
        BY <1>4, <3>2, MadeTyped, OperationFields
      <4>2. o \in Attached(docs[o.id[1]][d])
        BY <2>1, <4>1 DEF History
      <4>3. PICK q \in Peer : q = o.id[1]
        BY <4>1
      <4>4. Attached(docs[q][d]) \subseteq Attached(docs'[q][d])
        <5>1. CASE q = p
          <6>1. docs'[q][d] = docs[p][d] \cup {op}
            BY <1>1, <5>1
          <6> QED BY <5>1, <6>1
        <5>2. CASE q # p
          BY <1>1, <5>2
        <5> QED BY <5>1, <5>2
      <4> QED BY <4>2, <4>3, <4>4
    <3> QED BY <3>1, <3>2
  <2>8. ASSUME NEW q \in Peer
        PROVE  /\ IsFiniteSet(Own(q, d)')
               /\ \A o \in Own(q, d)' : o.id[2] <= Cardinality(Own(q, d)')
    <3>1. CASE q # p
      <4>1. Own(q, d)' = Own(q, d)
        BY <1>1, <3>1 DEF Own
      <4> QED BY <2>1, <4>1 DEF History
    <3>2. CASE q = p
      <4>1. PICK S : S = Own(p, d)
        OBVIOUS
      <4>2. Own(p, d)' = S \cup {op}
        <5>1. op.id[1] = p
          OBVIOUS
        <5> QED BY <1>1, <4>1, <5>1 DEF Own
      <4>3. IsFiniteSet(S) /\ \A o \in S : o.id[2] <= Cardinality(S)
        BY <2>1, <4>1 DEF History
      <4>4. op \notin S
        BY <2>1, <4>1 DEF Own
      <4>5. /\ Cardinality(S) \in Nat /\ IsFiniteSet(S \cup {op})
            /\ Cardinality(S \cup {op}) = Cardinality(S) + 1
        BY <4>3, <4>4, FS_CardinalityType, FS_AddElement
      <4>6. \A o \in S : o.id[2] \in Nat
        <5>1. \A o \in S : o \in Operation
          BY <4>1, DocsTyped DEF Own
        <5> QED BY <5>1, OperationFields
      <4>7. \A o \in S : o.id[2] <= Cardinality(S) + 1
        BY <4>3, <4>5, <4>6
      <4>8. op.id[2] = Cardinality(S) + 1
        BY <4>1
      <4>9. \A o \in S \cup {op} : o.id[2] <= Cardinality(S) + 1
        BY <4>5, <4>7, <4>8
      <4> QED BY <3>2, <4>2, <4>5, <4>9
    <3> QED BY <3>1, <3>2
  <2> QED BY <2>2, <2>5, <2>6, <2>7, <2>8 DEF History, Ids, Attached
<1> QED BY <1>3, <1>4, <1>5

LEMMA EditKeeps ==
    ASSUME IInv, NEW p \in Peer, NEW d \in Doc, Edit(p, d)
    PROVE  IInv'
<1>1. TypeOK /\ Circulating /\ Joined(p) /\ \A x \in Doc : History(x)
  BY DEF IInv, Edit
<1>2. PICK op : op = Change(p, d)
  OBVIOUS
<1>3. /\ docs' = [docs EXCEPT ![p][d] = @ \cup {op}]
      /\ UNCHANGED <<pending, evicted, index, replica, seen, repairs, answered, restarts>>
      /\ Cardinality(Edits) < MaxEdits
  BY <1>2 DEF Edit
<1>4. /\ op \in Operation /\ op.id = <<p, Cardinality(Own(p, d)) + 1>>
      /\ op.deps = Ids(Attached(docs[p][d]))
      /\ \A o \in Made[d] : o.id # op.id
      /\ Attached(docs[p][d] \cup {op}) = Attached(docs[p][d]) \cup {op}
  <2>1. History(d) /\ TypeOK /\ Cardinality(Edits) < MaxEdits
    BY <1>1, <1>3
  <2> QED BY <1>2, <2>1, ChangeIs
<1>5. PICK ops \in SUBSET Operation : ops = docs[p][d] \cup {op}
  <2>1. docs[p][d] \cup {op} \in SUBSET Operation
    BY <1>1, <1>4, DocsTyped
  <2> QED BY <2>1
<1>6. Publishes(p, d, ops)
  <2>1. PICK extent : extent = IF published[p][d] # None /\ deltas[p][d] < FULL_PUBLISH_EVERY
                                 THEN "Delta" ELSE "Full"
    OBVIOUS
  <2>2. PublishKeyed(p, d, docs[p][d] \cup {op}, "Current", extent)
    BY <1>2, <2>1, Zenon DEF Edit
  <2>3. PublishKeyed(p, d, ops, "Current", extent)
    BY <1>5, <2>2
  <2>4. extent = "Delta" => deltas[p][d] < FULL_PUBLISH_EVERY
    BY <2>1
  <2> QED BY <1>1, <2>3, <2>4, PublishKeyedIs
<1>7. TypeOK'
  <2>1. docs' \in [Peer -> [Doc -> SUBSET Operation]]
    <3>1. docs \in [Peer -> [Doc -> SUBSET Operation]]
      BY <1>1 DEF TypeOK
    <3>2. docs[p][d] \cup {op} \in SUBSET Operation
      BY <1>5
    <3> QED BY <1>3, <3>1, <3>2
  <2> QED BY <1>1, <1>3, <1>6, <2>1 DEF TypeOK, Publishes
<1>8. (\A x \in Doc : History(x)') /\ (\A x \in Doc : Made[x] \subseteq Made'[x])
  BY <1>1, <1>3, <1>4, <1>7, EditHistory
<1>9. Grows
  BY <1>6, <1>8 DEF Grows, Publishes
<1>10. \A q \in Peer, x \in Doc :
         docs'[q][x] = IF q = p /\ x = d THEN docs[p][d] \cup {op} ELSE docs[q][x]
  BY <1>1, <1>3 DEF TypeOK
<1>11. Circulating'
  <2>1. ops \subseteq Made'[d]
    BY <1>5, <1>10 DEF Made
  <2>2. \A q \in Peer : \A e \in outbox'[q] : e \in outbox[q] \/ Minted(e.doc, e.chunk)'
    BY <1>6, <2>1 DEF Publishes, Minted
  <2>3. \A q \in Peer : merged'[q] \subseteq 1..Len(leaves')
    BY <1>6 DEF Publishes
  <2> QED BY <1>1, <1>3, <1>7, <1>9, <2>2, <2>3, CirculatingKept
<1>12. ASSUME NEW q \in Peer
       PROVE  Orderly(q)'
  <2>1. ASSUME NEW x \in Doc
        PROVE  /\ docs[q][x] \subseteq docs'[q][x]
               /\ docs'[q][x] \ Attached(docs'[q][x]) = docs[q][x] \ Attached(docs[q][x])
               /\ docs'[q][x] = docs[q][x] \/ Joined(q)
    <3>1. CASE q = p /\ x = d
      <4>1. op \notin docs[p][d]
        BY <1>4, MadeHas
      <4>2. docs'[q][x] = docs[q][x] \cup {op} /\ Attached(docs'[q][x]) = Attached(docs[q][x]) \cup {op}
        BY <1>4, <1>10, <3>1
      <4> QED BY <1>1, <3>1, <4>1, <4>2
    <3>2. CASE ~(q = p /\ x = d)
      BY <1>10, <3>2
    <3> QED BY <3>1, <3>2
  <2>2. Calm(q)
    BY <1>3, <1>6, <2>1 DEF Calm, Publishes, Joined
  <2> QED BY <1>1, <1>7, <1>9, <2>2, OrderlyKept DEF IInv, Circulating
<1> QED BY <1>7, <1>8, <1>11, <1>12 DEF IInv

-----------------------------------------------------------------------------
(* Steps that drain a queue.                                               *)

(* The state t that a drain of p ends in keeps the invariant. *)
LEMMA SettleKeeps ==
    ASSUME IInv, NEW p \in Peer, Joined(p), NEW t, Tidy(p, t, Made), Settle(p, t),
           t.known = merged'[p], \A d \in Doc : docs[p][d] \subseteq t.docs[d],
           UNCHANGED <<published, deltas, outbox, index, leaves, restarts, answered>>,
           merged' \in [Peer -> SUBSET Epoch], merged'[p] \subseteq 1..Len(leaves),
           tree' \in [Peer -> SUBSET Peer], Joined(p)',
           \A q \in Peer : q # p => merged'[q] = merged[q] /\ tree'[q] = tree[q] /\ seen'[q] = seen[q],
           replica' \in [Peer -> [Doc -> [Peer -> Chunk \cup {None}]]],
           seen' \in [Peer -> [Doc -> [Peer -> Chunk \cup {None}]]],
           \A q, a \in Peer, d \in Doc : replica'[q][d][a] \in {replica[q][d][a], index[d][a]},
           ~t.evicted => \A d \in Doc, a \in Peer :
               seen'[p][d][a] # None => Accounted(p, t, d, seen'[p][d][a])
    PROVE  IInv'
<1>1. TypeOK /\ Circulating /\ \A d \in Doc : History(d)
  BY DEF IInv
<1>2. /\ t \in DrainState /\ Len(t.pending) <= MAX_PENDING_CHUNKS
      /\ Blocked(p, t) /\ Anchored(p, t) /\ Within(t, Made)
  BY DEF Tidy
<1>3. /\ t.docs \in [Doc -> SUBSET Operation] /\ t.pending \in Seq(Parked) /\ t.evicted \in BOOLEAN
      /\ t.asks \subseteq Target \X Doc
  BY <1>2 DEF DrainState
<1>4. \A q \in Peer : /\ docs'[q] = IF q = p THEN t.docs ELSE docs[q]
                      /\ pending'[q] = IF q = p THEN t.pending ELSE pending[q]
                      /\ evicted'[q] = IF q = p THEN t.evicted ELSE evicted[q]
  BY <1>1 DEF Settle, TypeOK
<1>5. TypeOK'
  <2>1. docs' \in [Peer -> [Doc -> SUBSET Operation]]
    BY <1>1, <1>3 DEF Settle, TypeOK
  <2>2. pending' \in [Peer -> Seq(Parked)]
    BY <1>1, <1>3 DEF Settle, TypeOK
  <2>3. \A q \in Peer : Len(pending'[q]) <= MAX_PENDING_CHUNKS
    BY <1>1, <1>2, <1>4 DEF TypeOK
  <2>4. evicted' \in [Peer -> BOOLEAN]
    BY <1>1, <1>3 DEF Settle, TypeOK
  <2>5. repairs' \subseteq Repair
    BY <1>1 DEF Settle, TypeOK
  <2> QED BY <1>1, <2>1, <2>2, <2>3, <2>4, <2>5 DEF TypeOK
<1>6. ASSUME NEW d \in Doc
      PROVE  Made'[d] = Made[d] /\ History(d)'
  <2>1. ASSUME NEW q \in Peer
        PROVE  /\ Attached(docs[q][d]) \subseteq Attached(docs'[q][d])
               /\ docs'[q][d] \subseteq Made[d]
    <3>1. CASE q = p
      <4>1. docs'[q][d] = t.docs[d] /\ docs[q][d] \subseteq docs'[q][d]
        BY <1>4, <3>1
      <4>2. t.docs[d] \subseteq Made[d]
        BY <1>2 DEF Within
      <4>3. PICK X, Y : X = docs[q][d] /\ Y = docs'[q][d]
        OBVIOUS
      <4>4. X \subseteq Y
        BY <4>1, <4>3
      <4>5. Attached(X) \subseteq Attached(Y)
        BY ONLY <4>4, AttachedGrows, Zenon
      <4> QED BY <4>1, <4>2, <4>3, <4>5
    <3>2. CASE q # p
      BY <1>4, <3>2, MadeHas
    <3> QED BY <3>1, <3>2
  <2> QED BY <1>1, <1>5, <2>1, HistoryKept
<1>7. Len(leaves) \in Nat
  BY <1>1, EpochsTyped
<1>8. Grows
  <2>1. \A d \in Doc : Made[d] \subseteq Made'[d]
    BY <1>6
  <2>2. leaves' = leaves
    OBVIOUS
  <2>3. Len(leaves) <= Len(leaves)
    BY ONLY <1>7
  <2> QED BY <2>1, <2>2, <2>3 DEF Grows
<1>9. Circulating'
  <2>1. \A q \in Peer : merged'[q] \subseteq 1..Len(leaves')
    BY <1>1 DEF Circulating
  <2> QED BY <1>1, <1>5, <1>8, <2>1, CirculatingKept
<1>10. ASSUME NEW q \in Peer, q # p
       PROVE  Orderly(q)'
  <2>1. Calm(q)
    BY <1>4, <1>10 DEF Calm, Joined
  <2> QED BY <1>1, <1>5, <1>8, <2>1, OrderlyKept DEF IInv, Circulating
<1>11. Orderly(p)'
  <2>1. PICK u : u = View(p)'
    OBVIOUS
  <2>2. u.known = t.known /\ u.docs = t.docs /\ u.pending = t.pending /\ u.evicted = t.evicted
    BY <1>4, <2>1 DEF View, Progress
  <2>3. \A d, c : Parks(u, d, c) <=> Parks(t, d, c)
    BY <2>2 DEF Parks
  <2>4. Blocked(p, View(p))'
    <3>1. Blocked(p, u)
      BY <1>2, <2>2 DEF Blocked
    <3> QED BY <2>1, <3>1 DEF Blocked, Attached, Ids
  <2>5. Anchored(p, View(p))'
    <3> SUFFICES ASSUME ~u.evicted, NEW d \in Doc, NEW o \in u.docs[d] \ Attached(u.docs[d])
                 PROVE  \E c \in Chunk : Parks(u, d, c) /\ o \in c.ops
                                         /\ c.epoch \in u.known /\ p \in leaves'[c.epoch]
      BY <2>1, AnchoredNext
    <3>1. PICK c \in Chunk : Parks(t, d, c) /\ o \in c.ops /\ Readable(p, t.known, c)
      BY <1>2, <2>2 DEF Anchored
    <3> QED BY <2>2, <2>3, <3>1 DEF Readable
  <2>6. Within(View(p), Made)'
    <3>1. \A d \in Doc : u.docs[d] \subseteq Made'[d]
      BY <1>2, <1>6, <2>2 DEF Within
    <3>2. \A d \in Doc, c \in Chunk : Parks(u, d, c) => c.ops \subseteq Made'[d] /\ c.epoch <= Len(leaves')
      BY <1>2, <1>6, <2>3 DEF Within
    <3> QED BY <2>1, <3>1, <3>2 DEF Within, Parks
  <2>7. SeenAccounted(p)'
    <3> SUFFICES ASSUME ~evicted'[p], NEW d \in Doc, NEW a \in Peer, seen'[p][d][a] # None
                 PROVE  Accounted(p, View(p), d, seen[p][d][a])'
      BY DEF SeenAccounted
    <3>1. Accounted(p, t, d, seen'[p][d][a])
      BY <1>4
    <3>2. Accounted(p, u, d, seen'[p][d][a])
      BY <2>2, <2>3, <3>1 DEF Accounted, Done
    <3> QED BY <2>1, <3>2 DEF Accounted, Done, Parks, Attached, Ids
  <2>8. Waits(p)'
    BY DEF Waits
  <2> QED BY <2>4, <2>5, <2>6, <2>7, <2>8 DEF Orderly
<1> QED BY <1>5, <1>6, <1>9, <1>10, <1>11 DEF IInv

LEMMA KeysArriveKeeps ==
    ASSUME IInv, NEW p \in Peer, NEW q \in Peer, KeysArrive(p, q)
    PROVE  IInv'
<1>1. TypeOK /\ Circulating /\ Joined(p) /\ Orderly(p)
  BY DEF IInv, KeysArrive
<1>2. PICK known : known = merged[p] \cup merged[q]
  OBVIOUS
<1>3. known \in SUBSET Epoch /\ merged[p] \subseteq known /\ known \subseteq 1..Len(leaves)
  BY <1>1, <1>2 DEF TypeOK, Circulating
<1>4. PICK s : s = Progress(p, known)
  OBVIOUS
<1>5. /\ s \in DrainState /\ s.known = known /\ s.docs = docs[p] /\ s.pending = pending[p]
      /\ s.evicted = evicted[p]
  BY <1>1, <1>3, <1>4, ProgressTyped
<1>6. PICK v : v = View(p)
  OBVIOUS
<1>7. /\ v.known = merged[p] /\ v.docs = docs[p] /\ v.pending = pending[p] /\ v.evicted = evicted[p]
  BY <1>6, ViewFields
<1>8. \A d, c : Parks(v, d, c) <=> Parks(s, d, c)
  BY <1>5, <1>7 DEF Parks
<1>9. Anchored(p, s)
  <2>1. Anchored(p, v)
    BY <1>1, <1>6 DEF Orderly
  <2>2. \A c : Readable(p, v.known, c) => Readable(p, s.known, c)
    BY <1>3, <1>5, <1>7 DEF Readable
  <2> QED BY <1>5, <1>7, <1>8, <2>1, <2>2 DEF Anchored
<1>10. Within(s, Made)
  <2>1. Within(v, Made)
    BY <1>1, <1>6 DEF Orderly
  <2> QED BY <1>5, <1>7, <1>8, <2>1 DEF Within
<1>11. PICK t : t = Drained(p, s)
  OBVIOUS
<1>12. t \in DrainState /\ Blocked(p, t) /\ Leads(p, s, t)
  BY <1>5, <1>11, DrainEnds
<1>13. Tidy(p, t, Made)
  <2>1. Anchored(p, t) /\ Within(t, Made)
    BY <1>5, <1>9, <1>10, <1>12, LeadsKeeps
  <2>2. Len(t.pending) <= MAX_PENDING_CHUNKS
    <3>1. PICK n : n = Len(pending[p])
      OBVIOUS
    <3>2. PICK m : m = Len(t.pending)
      OBVIOUS
    <3>3. n \in Nat /\ m \in Nat /\ n <= MAX_PENDING_CHUNKS /\ MAX_PENDING_CHUNKS \in Nat
      <4>1. pending \in [Peer -> Seq(Parked)] /\ n <= MAX_PENDING_CHUNKS
        BY <1>1, <3>1 DEF TypeOK
      <4>2. t.pending \in Seq(Parked)
        BY <1>12 DEF DrainState
      <4> QED BY <3>1, <3>2, <4>1, <4>2, DocumentsAssumption
    <3>4. m <= n
      BY <1>5, <1>12, <3>1, <3>2 DEF Leads
    <3>5. m <= MAX_PENDING_CHUNKS
      BY <3>3, <3>4
    <3> QED BY <3>2, <3>5
  <2> QED BY <1>12, <2>1, <2>2 DEF Tidy
<1>14. /\ merged' = [merged EXCEPT ![p] = @ \cup merged[q]] /\ tree' = [tree EXCEPT ![p] = @ \cup tree[q]]
       /\ Settle(p, t)
       /\ UNCHANGED <<published, deltas, outbox, index, replica, seen, leaves, answered, restarts>>
  BY <1>2, <1>4, <1>11 DEF KeysArrive, facade
<1>15. /\ merged' \in [Peer -> SUBSET Epoch] /\ merged'[p] = known
       /\ tree' \in [Peer -> SUBSET Peer] /\ p \in tree'[p]
       /\ \A x \in Peer : x # p => merged'[x] = merged[x] /\ tree'[x] = tree[x]
  BY <1>1, <1>2, <1>14 DEF TypeOK, Joined
<1>16. t.known = known /\ \A d \in Doc : docs[p][d] \subseteq t.docs[d]
  BY <1>5, <1>12 DEF Leads
<1>17. ASSUME ~t.evicted, NEW d \in Doc, NEW a \in Peer, seen'[p][d][a] # None
       PROVE  Accounted(p, t, d, seen'[p][d][a])
  <2>1. PICK c \in Chunk : c = seen[p][d][a]
    BY <1>1, <1>14, <1>17, CopiesTyped
  <2>2. t.evicted = evicted[p]
    BY <1>5, <1>12 DEF Leads
  <2>3. Accounted(p, v, d, c)
    BY <1>1, <1>6, <1>14, <1>17, <2>1, <2>2 DEF Orderly, SeenAccounted
  <2>4. Accounted(p, s, d, c)
    BY <1>3, <1>5, <1>7, <1>8, <2>3 DEF Accounted, Done
  <2>5. Accounted(p, t, d, c)
    BY <1>5, <1>12, <2>4, LeadsKeeps
  <2> QED BY <1>14, <2>1, <2>5
<1>18. /\ replica' \in [Peer -> [Doc -> [Peer -> Chunk \cup {None}]]]
       /\ seen' \in [Peer -> [Doc -> [Peer -> Chunk \cup {None}]]]
       /\ Joined(p)'
  BY <1>1, <1>14, <1>15 DEF TypeOK, Joined
<1> QED BY <1>1, <1>3, <1>13, <1>14, <1>15, <1>16, <1>17, <1>18, SettleKeeps

(* The states of p between two arrivals, and what one arrival makes of them. *)
TidyStates(p, M) == {s \in DrainState : Tidy(p, s, M)}

(* The chunk of copy that the n-th entry of order names. *)
NthChunk(copy, order, n) == copy[order[n][1]][order[n][2]]

(* The first N entries of order name chunks that are minted. *)
Arriving(copy, order, N, M) ==
    \A n \in 1..N : /\ NthChunk(copy, order, n) \in Chunk
                    /\ NthChunk(copy, order, n).ops \subseteq M[order[n][1]]
                    /\ NthChunk(copy, order, n).epoch <= Len(leaves)

(* f has the states of p as the entries of order are handed over. *)
Hands(f, p, copy, order, N, M, first) ==
    /\ f \in [0..N -> TidyStates(p, M)]
    /\ f[0] = first
    /\ \A n \in 1..N : f[n] = ChunkArrived(p, f[n - 1], order[n][1], NthChunk(copy, order, n))
    /\ Handed(p, copy, order) = f[N]

LEMMA HandedRuns ==
    ASSUME NEW p \in Peer, NEW M, NEW copy, NEW N \in Nat, NEW order \in [1..N -> Doc \X Peer],
           Len(order) = N,
           Arriving(copy, order, N, M),
           NEW first, first = Progress(p, merged[p]), first \in TidyStates(p, M)
    PROVE  \E f : Hands(f, p, copy, order, N, M, first)
<1> DEFINE X == TidyStates(p, M)
           G == [z \in (1..N) \X X |-> ChunkArrived(p, z[2], order[z[1]][1], NthChunk(copy, order, z[1]))]
<1>1. G \in [(1..N) \X X -> X]
  <2> SUFFICES ASSUME NEW n \in 1..N, NEW s \in X
               PROVE  ChunkArrived(p, s, order[n][1], NthChunk(copy, order, n)) \in X
    OBVIOUS
  <2>1. PICK t : t = ChunkArrived(p, s, order[n][1], NthChunk(copy, order, n))
    OBVIOUS
  <2>2. PICK c \in Chunk : c = NthChunk(copy, order, n)
    BY DEF Arriving
  <2>3. PICK d \in Doc : d = order[n][1]
    OBVIOUS
  <2>4. c.ops \subseteq M[d] /\ c.epoch <= Len(leaves) /\ Tidy(p, s, M)
    BY <2>2, <2>3 DEF TidyStates, Arriving
  <2>5. t = ChunkArrived(p, s, d, c)
    BY <2>1, <2>2, <2>3
  <2>6. Tidy(p, t, M)
    BY <2>4, <2>5, Arrival
  <2> QED BY <2>1, <2>6 DEF TidyStates, Tidy
<1>2. \A n \in 1..N, x \in X :
         G[<<n, x>>] = ChunkArrived(p, x, order[n][1], NthChunk(copy, order, n))
  OBVIOUS
<1> HIDE DEF G, X
<1>3. PICK f \in [0..N -> X] : f[0] = first /\ \A n \in 1..N : f[n] = G[<<n, f[n - 1]>>]
  <2>1. \E f : Iterates(f, N, X, first, G)
    <3>1. first \in X
      BY DEF X
    <3> QED BY <1>1, <3>1, Recursion
  <2> QED BY <2>1 DEF Iterates
<1>4. \A n \in 1..N : f[n] = ChunkArrived(p, f[n - 1], order[n][1], NthChunk(copy, order, n))
  <2> SUFFICES ASSUME NEW n \in 1..N
               PROVE  f[n] = ChunkArrived(p, f[n - 1], order[n][1], NthChunk(copy, order, n))
    OBVIOUS
  <2>1. f[n - 1] \in X
    BY <1>3
  <2> QED BY <1>2, <1>3, <2>1
<1> DEFINE Runs(g) == g = [n \in 0..N |->
                             IF n = 0 THEN first
                             ELSE ChunkArrived(p, g[n - 1], order[n][1], NthChunk(copy, order, n))]
           after == CHOOSE g : Runs(g)
<1>5. Runs(f)
  BY <1>3, <1>4
<1>6. Runs(after)
  <2> HIDE DEF Runs
  <2> QED BY <1>5
<1>7. Handed(p, copy, order) = after[N]
  BY DEF Handed, NthChunk
<1> HIDE DEF after
<1>8. /\ after[0] = first
      /\ \A n \in 1..N : after[n] = ChunkArrived(p, after[n - 1], order[n][1], NthChunk(copy, order, n))
  <2>1. PICK h : h = [n \in 0..N |->
                        IF n = 0 THEN first
                        ELSE ChunkArrived(p, after[n - 1], order[n][1], NthChunk(copy, order, n))]
    OBVIOUS
  <2>2. /\ h[0] = first
        /\ \A n \in 1..N : h[n] = ChunkArrived(p, after[n - 1], order[n][1], NthChunk(copy, order, n))
    BY <2>1
  <2>3. after = h
    BY <1>6, <2>1
  <2> QED BY <2>2, <2>3
<1> HIDE DEF Runs
<1> DEFINE P == {n \in 0..N : after[n] = f[n]}
<1>9. 0 \in P
  BY <1>3, <1>8
<1>10. ASSUME NEW n \in 1..N, n - 1 \in P
       PROVE  n \in P
  BY <1>4, <1>8, <1>10
<1>11. \A n \in 0..N : n \in P
  <2> HIDE DEF P
  <2> QED BY <1>9, <1>10, InductionUpTo
<1>12. after[N] = f[N]
  BY <1>11
<1> QED BY <1>3, <1>4, <1>7, <1>12 DEF X, Hands

(* p after n of the entries of order, if nothing was evicted: these and    *)
(* all that was accounted for before are.                                  *)
HandedUpTo(p, copy, order, n, s, t) ==
    /\ t.known = s.known /\ (s.evicted => t.evicted)
    /\ \A d \in Doc : s.docs[d] \subseteq t.docs[d]
    /\ ~t.evicted => /\ \A i \in 1..n : Accounted(p, t, order[i][1], NthChunk(copy, order, i))
                     /\ \A d \in Doc, c \in Chunk : Accounted(p, s, d, c) => Accounted(p, t, d, c)

LEMMA HandedStep ==
    ASSUME NEW p \in Peer, NEW M, NEW copy, NEW N \in Nat, NEW order \in [1..N -> Doc \X Peer],
           NEW n \in 1..N, Arriving(copy, order, N, M),
           NEW s, NEW t \in TidyStates(p, M), HandedUpTo(p, copy, order, n - 1, s, t),
           NEW u, u = ChunkArrived(p, t, order[n][1], NthChunk(copy, order, n))
    PROVE  HandedUpTo(p, copy, order, n, s, u)
<1>1. PICK c \in Chunk : c = NthChunk(copy, order, n)
  BY DEF Arriving
<1>2. PICK d \in Doc : d = order[n][1]
  OBVIOUS
<1>3. c.ops \subseteq M[d] /\ c.epoch <= Len(leaves) /\ Tidy(p, t, M) /\ u = ChunkArrived(p, t, d, c)
  BY <1>1, <1>2 DEF TidyStates, Arriving
<1>4. /\ u.known = t.known
      /\ t.evicted => u.evicted
      /\ \A x \in Doc : t.docs[x] \subseteq u.docs[x]
      /\ ~u.evicted => /\ Accounted(p, u, d, c)
                       /\ \A x \in Doc, y \in Chunk : Accounted(p, t, x, y) => Accounted(p, u, x, y)
  BY <1>3, Arrival
<1>5. u.known = s.known /\ (s.evicted => u.evicted) /\ \A x \in Doc : s.docs[x] \subseteq u.docs[x]
  BY <1>4 DEF HandedUpTo
<1>6. ASSUME ~u.evicted
      PROVE  /\ \A i \in 1..n : Accounted(p, u, order[i][1], NthChunk(copy, order, i))
             /\ \A x \in Doc, y \in Chunk : Accounted(p, s, x, y) => Accounted(p, u, x, y)
  <2>1. ~t.evicted
    BY <1>4, <1>6
  <2>2. /\ \A i \in 1..(n - 1) : Accounted(p, t, order[i][1], NthChunk(copy, order, i))
        /\ \A x \in Doc, y \in Chunk : Accounted(p, s, x, y) => Accounted(p, t, x, y)
    BY <2>1 DEF HandedUpTo
  <2>3. \A x \in Doc, y \in Chunk : Accounted(p, s, x, y) => Accounted(p, u, x, y)
    BY <1>4, <1>6, <2>2
  <2>4. ASSUME NEW i \in 1..n
        PROVE  Accounted(p, u, order[i][1], NthChunk(copy, order, i))
    <3>1. CASE i = n
      BY <1>1, <1>2, <1>4, <1>6, <3>1
    <3>2. CASE i # n
      <4>1. i \in 1..(n - 1) /\ i \in 1..N
        BY <3>2
      <4>2. PICK x \in Doc : x = order[i][1]
        BY <4>1
      <4>3. PICK y \in Chunk : y = NthChunk(copy, order, i)
        BY <4>1 DEF Arriving
      <4>4. Accounted(p, t, x, y)
        BY <2>2, <4>1, <4>2, <4>3
      <4>5. Accounted(p, u, x, y)
        BY <1>4, <1>6, <4>4
      <4> QED BY <4>2, <4>3, <4>5
    <3> QED BY <3>1, <3>2
  <2> QED BY <2>3, <2>4
<1> QED BY <1>5, <1>6 DEF HandedUpTo

LEMMA HandedIs ==
    ASSUME NEW p \in Peer, NEW M, NEW copy, NEW N \in Nat, NEW order \in [1..N -> Doc \X Peer],
           Len(order) = N,
           Arriving(copy, order, N, M),
           NEW s, s = Progress(p, merged[p]), s \in TidyStates(p, M),
           NEW t, t = Handed(p, copy, order)
    PROVE  Tidy(p, t, M) /\ HandedUpTo(p, copy, order, N, s, t)
<1>0. PICK f : Hands(f, p, copy, order, N, M, s)
  BY HandedRuns
<1>1. /\ f \in [0..N -> TidyStates(p, M)]
      /\ f[0] = s
      /\ \A n \in 1..N : f[n] = ChunkArrived(p, f[n - 1], order[n][1], NthChunk(copy, order, n))
      /\ Handed(p, copy, order) = f[N]
  BY <1>0 DEF Hands
<1> DEFINE P == {n \in 0..N : HandedUpTo(p, copy, order, n, s, f[n])}
<1>2. 0 \in P
  <2>1. HandedUpTo(p, copy, order, 0, s, s)
    BY DEF HandedUpTo
  <2> QED BY <1>1, <2>1
<1>3. ASSUME NEW n \in 1..N, n - 1 \in P
      PROVE  n \in P
  <2>1. PICK u \in TidyStates(p, M) : u = f[n - 1]
    BY <1>1
  <2>2. HandedUpTo(p, copy, order, n - 1, s, u)
    BY <1>3, <2>1
  <2>3. PICK v : v = f[n]
    OBVIOUS
  <2>4. v = ChunkArrived(p, u, order[n][1], NthChunk(copy, order, n))
    BY <1>1, <2>1, <2>3
  <2>5. HandedUpTo(p, copy, order, n, s, v)
    BY <2>2, <2>4, HandedStep
  <2> QED BY <2>3, <2>5
<1>4. \A n \in 0..N : n \in P
  <2> HIDE DEF P
  <2> QED BY <1>2, <1>3, InductionUpTo
<1>5. HandedUpTo(p, copy, order, N, s, f[N]) /\ f[N] \in TidyStates(p, M)
  BY <1>1, <1>4
<1> QED BY <1>1, <1>5 DEF TidyStates

LEMMA IngestKeeps ==
    ASSUME IInv, NEW p \in Peer, NEW E, Ingest(p, E)
    PROVE  IInv'
<1>1. TypeOK /\ Circulating /\ Joined(p) /\ Orderly(p)
  BY DEF IInv, Ingest
<1>2. PICK copy : copy = [d \in Doc |-> [a \in Peer |->
                            IF <<d, a>> \in E THEN index[d][a] ELSE replica[p][d][a]]]
  OBVIOUS
<1>3. PICK U : U = Unseen(p, copy)
  OBVIOUS
<1>4. PICK order : order = InSomeOrder(U)
  OBVIOUS
<1>5. PICK t : t = Handed(p, copy, order)
  OBVIOUS
<1>6. /\ Settle(p, t)
      /\ replica' = [replica EXCEPT ![p] = copy]
      /\ seen' = [seen EXCEPT ![p] = Cached(copy, t.pending)]
      /\ UNCHANGED <<published, deltas, outbox, index, tree, merged, leaves, answered, restarts>>
  BY <1>2, <1>3, <1>4, <1>5 DEF Ingest, keys
<1>7. copy \in [Doc -> [Peer -> Chunk \cup {None}]]
  BY <1>1, <1>2 DEF TypeOK
<1>8. \A d \in Doc, a \in Peer : copy[d][a] \in {replica[p][d][a], index[d][a]}
  BY <1>2
<1>9. ASSUME NEW d \in Doc, NEW a \in Peer, copy[d][a] # None
      PROVE  copy[d][a] \in Chunk /\ Minted(d, copy[d][a])
  <2>1. PICK c : c = copy[d][a]
    OBVIOUS
  <2>2. c # None /\ (c = replica[p][d][a] \/ c = index[d][a])
    BY <1>8, <1>9, <2>1
  <2>3. c \in Chunk
    BY <1>1, <2>2, CopiesTyped
  <2>4. Minted(d, c)
    BY <1>1, <2>2 DEF Circulating
  <2> QED BY <2>1, <2>3, <2>4
<1>10. IsFiniteSet(U) /\ U \subseteq Doc \X Peer
  <2>1. U \in SUBSET (Doc \X Peer)
    BY <1>3 DEF Unseen
  <2>2. IsFiniteSet(Doc \X Peer)
    BY DocumentsAssumption, FS_Product
  <2> QED BY <2>1, <2>2, FS_Subset
<1>11. PICK N : N = Cardinality(U)
  OBVIOUS
<1>12. /\ N \in Nat /\ order \in [1..N -> U] /\ Len(order) = N
       /\ \A x \in U : \E n \in 1..N : order[n] = x
  BY <1>4, <1>10, <1>11, SequenceOfSet
<1>13. order \in [1..N -> Doc \X Peer]
  BY <1>10, <1>12
<1>14. Arriving(copy, order, N, Made)
  <2> SUFFICES ASSUME NEW n \in 1..N
               PROVE  /\ NthChunk(copy, order, n) \in Chunk
                      /\ NthChunk(copy, order, n).ops \subseteq Made[order[n][1]]
                      /\ NthChunk(copy, order, n).epoch <= Len(leaves)
    BY DEF Arriving
  <2>1. order[n] \in U /\ order[n] \in Doc \X Peer
    BY <1>12, <1>13
  <2>2. NthChunk(copy, order, n) # None
    BY <1>3, <2>1 DEF Unseen, NthChunk
  <2> QED BY <1>9, <2>1, <2>2 DEF NthChunk, Minted
<1>15. PICK s : s = Progress(p, merged[p])
  OBVIOUS
<1>16. /\ s \in DrainState /\ s.known = merged[p] /\ s.docs = docs[p] /\ s.pending = pending[p]
       /\ s.evicted = evicted[p] /\ s = View(p)
  <2>1. merged[p] \in SUBSET Epoch
    BY <1>1 DEF TypeOK
  <2> QED BY <1>1, <1>15, <2>1, ProgressTyped DEF View
<1>17. s \in TidyStates(p, Made)
  BY <1>1, <1>16 DEF TidyStates, Tidy, Orderly, TypeOK
<1>18. Tidy(p, t, Made) /\ HandedUpTo(p, copy, order, N, s, t)
  <2>1. PICK M : M = Made
    OBVIOUS
  <2> QED BY <1>5, <1>12, <1>13, <1>14, <1>15, <1>17, <2>1, HandedIs
<1>19. t.known = merged[p] /\ \A d \in Doc : docs[p][d] \subseteq t.docs[d]
  BY <1>16, <1>18 DEF HandedUpTo
<1>20. /\ merged' \in [Peer -> SUBSET Epoch] /\ merged'[p] \subseteq 1..Len(leaves)
       /\ tree' \in [Peer -> SUBSET Peer] /\ Joined(p)' /\ t.known = merged'[p]
  BY <1>1, <1>6, <1>19 DEF TypeOK, Circulating, Joined
<1>21. replica' \in [Peer -> [Doc -> [Peer -> Chunk \cup {None}]]]
  BY <1>1, <1>6, <1>7 DEF TypeOK
<1>22. PICK cached : cached = Cached(copy, t.pending)
  OBVIOUS
<1>23. cached \in [Doc -> [Peer -> Chunk \cup {None}]]
  BY <1>7, <1>22 DEF Cached
<1>24. seen' \in [Peer -> [Doc -> [Peer -> Chunk \cup {None}]]] /\ seen'[p] = cached
  BY <1>1, <1>6, <1>22, <1>23 DEF TypeOK
<1>25. \A q \in Peer : q # p => merged'[q] = merged[q] /\ tree'[q] = tree[q] /\ seen'[q] = seen[q]
  BY <1>1, <1>6 DEF TypeOK
<1>26. \A q, a \in Peer, d \in Doc : replica'[q][d][a] \in {replica[q][d][a], index[d][a]}
  BY <1>1, <1>6, <1>8 DEF TypeOK
<1>27. ASSUME ~t.evicted, NEW d \in Doc, NEW a \in Peer, seen'[p][d][a] # None
       PROVE  Accounted(p, t, d, seen'[p][d][a])
  <2>1. seen'[p][d][a] = copy[d][a] /\ copy[d][a] # None
    <3>1. cached[d] = IF \E i \in DOMAIN t.pending : t.pending[i].doc = d
                        THEN [x \in Peer |-> None] ELSE copy[d]
      BY <1>22 DEF Cached
    <3> QED BY <1>24, <1>27, <3>1
  <2>2. PICK c \in Chunk : c = copy[d][a]
    BY <1>9, <2>1
  <2>3. CASE <<d, a>> \in U
    <3>1. PICK n \in 1..N : order[n] = <<d, a>>
      BY <1>12, <2>3
    <3>2. NthChunk(copy, order, n) = c /\ order[n][1] = d
      BY <2>2, <3>1 DEF NthChunk
    <3>3. Accounted(p, t, d, c)
      BY <1>18, <1>27, <3>2 DEF HandedUpTo
    <3> QED BY <2>1, <2>2, <3>3
  <2>4. CASE <<d, a>> \notin U
    <3>1. seen[p][d][a] = c
      BY <1>3, <2>1, <2>2, <2>4 DEF Unseen
    <3>2. ~evicted[p]
      BY <1>16, <1>18, <1>27 DEF HandedUpTo
    <3>3. Accounted(p, s, d, c)
      BY <1>1, <1>16, <2>1, <2>2, <3>1, <3>2 DEF Orderly, SeenAccounted
    <3>4. Accounted(p, t, d, c)
      BY <1>18, <1>27, <3>3 DEF HandedUpTo
    <3> QED BY <2>1, <2>2, <3>4
  <2> QED BY <2>3, <2>4
<1> QED BY <1>1, <1>6, <1>18, <1>19, <1>20, <1>21, <1>24, <1>25, <1>26, <1>27, SettleKeeps


-----------------------------------------------------------------------------
(* The specification keeps the invariant.                                  *)

LEMMA InitKeeps == Init => IInv
<1> SUFFICES ASSUME Init
             PROVE  IInv
  OBVIOUS
<1>1. \A p \in Peer : /\ pending[p] = <<>> /\ seen[p] = NoEntries /\ replica[p] = NoEntries
                      /\ evicted[p] = FALSE /\ outbox[p] = {} /\ merged[p] \subseteq {1}
                      /\ \A d \in Doc : docs[p][d] = {}
  BY DEF Init
<1>2. \A d \in Doc, a \in Peer : index[d][a] = None /\ NoEntries[d][a] = None
  BY DEF Init, NoEntries
<1>3. leaves \in Seq(SUBSET Peer) /\ Len(leaves) = 1
  BY DocumentsAssumption DEF Init
<1>4. TypeOK
  <2>1. 1 \in Epoch /\ 1 <= MaxEpochs
    BY DocumentsAssumption DEF Epoch
  <2>2. NoEntries \in [Doc -> [Peer -> Chunk \cup {None}]]
    BY DEF NoEntries
  <2>3. /\ tree \in [Peer -> SUBSET Peer] /\ merged \in [Peer -> SUBSET Epoch]
    BY <2>1, DocumentsAssumption DEF Init
  <2>4. /\ index \in [Doc -> [Peer -> Chunk \cup {None}]]
        /\ replica \in [Peer -> [Doc -> [Peer -> Chunk \cup {None}]]]
        /\ seen \in [Peer -> [Doc -> [Peer -> Chunk \cup {None}]]]
    BY <2>2 DEF Init
  <2>5. pending \in [Peer -> Seq(Parked)] /\ \A p \in Peer : Len(pending[p]) <= MAX_PENDING_CHUNKS
    BY DocumentsAssumption DEF Init
  <2>6. /\ docs \in [Peer -> [Doc -> SUBSET Operation]]
        /\ published \in [Peer -> [Doc -> (SUBSET Id) \cup {None}]]
        /\ deltas \in [Peer -> [Doc -> 0..FULL_PUBLISH_EVERY]]
        /\ evicted \in [Peer -> BOOLEAN] /\ outbox \in [Peer -> SUBSET Entry]
        /\ repairs \subseteq Repair /\ answered \in [Peer -> SUBSET Peer]
        /\ restarts \in 0..MaxRestarts
    BY DocumentsAssumption DEF Init
  <2> QED BY <1>3, <2>1, <2>3, <2>4, <2>5, <2>6 DEF TypeOK
<1>5. ASSUME NEW d \in Doc
      PROVE  History(d)
  <2>1. Made[d] = {}
    BY <1>1 DEF Made
  <2>2. \A p \in Peer : Own(p, d) = {}
    BY <1>1 DEF Own
  <2>3. IsFiniteSet({})
    BY FS_EmptySet
  <2> QED BY <2>1, <2>2, <2>3 DEF History
<1>6. Circulating
  BY <1>1, <1>2, <1>3 DEF Circulating
<1>7. ASSUME NEW p \in Peer
      PROVE  Orderly(p)
  <2>1. PICK s : s = View(p)
    OBVIOUS
  <2>2. s.pending = <<>> /\ DOMAIN s.pending = {} /\ \A d \in Doc : s.docs[d] = {}
    BY <1>1, <2>1, ViewFields
  <2>3. Blocked(p, s)
    BY <2>2 DEF Blocked
  <2>4. Anchored(p, s) /\ Within(s, Made)
    BY <2>2 DEF Anchored, Within, Parks
  <2>5. SeenAccounted(p) /\ Waits(p)
    BY <1>1, <1>2 DEF SeenAccounted, Waits
  <2> QED BY <2>1, <2>3, <2>4, <2>5 DEF Orderly
<1> QED BY <1>4, <1>5, <1>6, <1>7 DEF IInv

LEMMA StutterKeeps == IInv /\ UNCHANGED vars => IInv'
<1> SUFFICES ASSUME IInv, UNCHANGED vars
             PROVE  IInv'
  OBVIOUS
<1>1. UNCHANGED <<docs, published, deltas, pending, evicted, outbox, index, replica, seen, tree,
                  merged, leaves, repairs, answered, restarts>>
  BY DEF vars, core, facade, keys
<1>2. TypeOK' /\ Len(leaves) \in Nat
  <2>1. TypeOK'
    BY <1>1 DEF IInv, TypeOK
  <2> QED BY <2>1, EpochsTyped DEF IInv
<1>3. ASSUME Grows
      PROVE  Circulating'
  BY <1>1, <1>2, <1>3, CirculatingKept DEF IInv, Circulating
<1>4. Len(leaves) <= Len(leaves')
  BY <1>1, <1>2
<1> QED BY <1>1, <1>2, <1>3, <1>4, QuietStep DEF Joined

LEMMA InvStep == IInv /\ [Next]_vars => IInv'
<1> SUFFICES ASSUME IInv, [Next]_vars
             PROVE  IInv'
  OBVIOUS
<1>1. CASE \E p \in Peer, d \in Doc : Edit(p, d) \/ Resync(p, d)
  BY <1>1, EditKeeps, ResyncKeeps
<1>2. CASE \E p \in Peer : \E e \in outbox[p] : StoreChunk(p, e)
  BY <1>2, StoreChunkKeeps
<1>3. CASE \E p \in Peer : Pass(p) \/ Elapse(p) \/ Restart(p)
  BY <1>3, IngestKeeps, ElapseKeeps, RestartKeeps DEF Pass
<1>4. CASE \E p, q \in Peer : KeysArrive(p, q) \/ Admit(p, q)
  BY <1>4, KeysArriveKeeps, AdmitKeeps
<1>5. CASE \E m \in repairs : Answer(m)
  BY <1>5, AnswerKeeps
<1>6. CASE UNCHANGED vars
  BY <1>6, StutterKeeps
<1> QED BY <1>1, <1>2, <1>3, <1>4, <1>5, <1>6 DEF Next

(* Every step of every device, whatever arrives in whatever order, keeps    *)
(* the queues, the oplogs, the cache of entries and the keys consistent     *)
(* with each other.                                                         *)
THEOREM DocumentsInvariant == Spec => []IInv
<1> QED BY InitKeeps, InvStep, PTL DEF Spec

(* The variables keep their types; the pending queue of no device grows     *)
(* past its budget.                                                         *)
THEOREM DocumentsTypes == Spec => []TypeOK
<1>1. IInv => TypeOK
  BY DEF IInv
<1> QED BY <1>1, DocumentsInvariant, PTL

(* drain_pending leaves no chunk in the queue without a reason.             *)
THEOREM QueueIsBlocked == Spec => []ParkedIsBlocked
<1>1. IInv => ParkedIsBlocked
  <2> SUFFICES ASSUME IInv, NEW p \in Peer, NEW i \in DOMAIN pending[p]
               PROVE  /\ pending[p][i].chunk.epoch \in merged[p] =>
                            /\ p \in leaves[pending[p][i].chunk.epoch]
                            /\ pending[p][i].chunk.ops \subseteq docs[p][pending[p][i].doc]
                      /\ (\A j \in DOMAIN pending[p] :
                             pending[p][j].doc = pending[p][i].doc => j <= i) =>
                            Verdict(p, merged[p], docs[p][pending[p][i].doc], pending[p][i].chunk)
                                \in {"AwaitingKey", "AwaitingDeps"}
    BY DEF ParkedIsBlocked
  <2>1. PICK e : e = pending[p][i]
    OBVIOUS
  <2>2. Blocked(p, View(p))
    BY DEF IInv, Orderly
  <2>3. /\ e.chunk.epoch \in merged[p] =>
              p \in leaves[e.chunk.epoch] /\ e.chunk.ops \subseteq docs[p][e.doc]
        /\ (\A j \in DOMAIN pending[p] : pending[p][j].doc = e.doc => j <= i) =>
              \/ e.chunk.epoch \notin merged[p]
              \/ ~(e.chunk.ops \subseteq Attached(docs[p][e.doc] \cup e.chunk.ops))
    BY <2>1, <2>2, ViewFields DEF Blocked
  <2>4. ASSUME \/ e.chunk.epoch \notin merged[p]
               \/ p \in leaves[e.chunk.epoch] /\ ~(e.chunk.ops \subseteq Attached(docs[p][e.doc] \cup e.chunk.ops))
        PROVE  Verdict(p, merged[p], docs[p][e.doc], e.chunk) \in {"AwaitingKey", "AwaitingDeps"}
    BY <2>4 DEF Verdict
  <2> QED BY <2>1, <2>3, <2>4
<1> QED BY <1>1, DocumentsInvariant, PTL

(* As long as no chunk was evicted, whatever seen_entries lets a pass skip  *)
(* is applied, parked, or never readable by this device.                    *)
THEOREM SkippedIsAccountedFor == Spec => []SeenIsAccountedFor
<1>1. IInv => SeenIsAccountedFor
  <2> SUFFICES ASSUME IInv, NEW p \in Peer, NEW a \in Peer, NEW d \in Doc,
                      seen[p][d][a] # None, ~evicted[p]
               PROVE  \/ seen[p][d][a].ops \subseteq Attached(docs[p][d])
                      \/ \E i \in DOMAIN pending[p] :
                            pending[p][i].doc = d /\ pending[p][i].chunk = seen[p][d][a]
                      \/ /\ seen[p][d][a].epoch \in merged[p]
                         /\ p \notin leaves[seen[p][d][a].epoch]
    BY DEF SeenIsAccountedFor
  <2>1. PICK c : c = seen[p][d][a]
    OBVIOUS
  <2>2. Accounted(p, View(p), d, c)
    BY <2>1 DEF IInv, Orderly, SeenAccounted
  <2> QED BY <2>1, <2>2, ViewFields DEF Accounted, Done, Parks
<1> QED BY <1>1, DocumentsInvariant, PTL

(* As long as no chunk was evicted, every operation without its history is  *)
(* in a chunk of the queue.                                                 *)
THEOREM UnattachedStaysParked == Spec => []UnattachedIsParked
<1>1. IInv => UnattachedIsParked
  <2> SUFFICES ASSUME IInv, NEW p \in Peer, NEW d \in Doc,
                      NEW o \in docs[p][d] \ Attached(docs[p][d]), ~evicted[p]
               PROVE  \E i \in DOMAIN pending[p] :
                          pending[p][i].doc = d /\ o \in pending[p][i].chunk.ops
    BY DEF UnattachedIsParked
  <2>1. Anchored(p, View(p))
    BY DEF IInv, Orderly
  <2>2. PICK c \in Chunk : Parks(View(p), d, c) /\ o \in c.ops
    BY <2>1, ViewFields DEF Anchored
  <2> QED BY <2>2, ViewFields DEF Parks
<1> QED BY <1>1, DocumentsInvariant, PTL
=============================================================================
