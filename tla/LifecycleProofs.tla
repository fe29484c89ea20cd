-------------------------- MODULE LifecycleProofs ---------------------------
(***************************************************************************)
(* For any tickets, callers, pumps, faults and stops: that the redemption  *)
(* of tickets implements Redemption, that a ticket is used once, that the  *)
(* endpoint key is stable, and what a snapshot on disk is worth.           *)
(*                                                                         *)
(* The node and the tickets, and the handle and its snapshot, have an      *)
(* invariant each; an action that touches one group of variables leaves    *)
(* the invariant of the other alone.                                       *)
(***************************************************************************)
EXTENDS Lifecycle, TLAPS

(* Most leaves are first-order: Zenon is tried first, SMT for the rest. *)
USE ZenonT(4), SMTT(15)

Recorded == LoadRedeemed(ledger.final)

NodeType ==
  /\ clock \in Nat /\ notAfter \in [Nonces -> Nat]
  /\ phase \in {"down", "keying", "up"}
  /\ key \in Nat /\ keyFile \in Nat /\ made \in Nat /\ bound \subseteq Nat
  /\ redeemed \subseteq Nonces
  /\ ledger \in [final : Ledgers, tmp : Ledgers]
  /\ join \in [Callers -> [at : {"idle", "verified", "recording", "recorded", "claimed"},
                           nonce : Nonces]]
  /\ uses \in [Nonces -> Nat]

LimitType == limit \in Limits /\ faults \in 0..limit.faults /\ stops \in 0..limit.stops

TaskRecord ==
  [at : {"idle", "effects", "exported", "opened", "filled"}, mine : Nat, core : Nat,
   fd : {"tmp", "final", "gone"}, attached : BOOLEAN]

SpaceType ==
  /\ ws \in {"none", "live", "dropped", "removed"}
  /\ core \in Nat /\ replica \in BOOLEAN
  /\ snap \in [final : Snapshots, tmp : Snapshots]
  /\ task \in [Tasks -> TaskRecord]
  /\ acked \in Nat /\ failed \in BOOLEAN /\ raced \in BOOLEAN /\ gone \in BOOLEAN

(* The endpoint key is bound only once it is the one on disk. *)
KeyInv ==
  /\ phase = "keying" => keyFile = 0 /\ made # 0
  /\ keyFile = 0 => bound = {}
  /\ bound \subseteq {keyFile}

(* What is on disk is known in memory, one caller at a time has a nonce    *)
(* between the two, and without faults whoever was told Ok is on disk.     *)
TicketInv ==
  /\ phase # "up" => \A c \in Callers : join[c].at = "idle"
  /\ phase = "up" => Recorded \subseteq redeemed
  /\ \A c, d \in Callers : Holds(c) /\ Holds(d) => c = d
  /\ \A c \in Callers : Holds(c) => join[c].nonce \in redeemed
  /\ faults = 0 =>
       /\ \A c \in Callers : join[c].at = "recorded" => join[c].nonce \in Recorded
       /\ \A n \in Nonces : uses[n] # 0 => n \in Recorded \cap Spent /\ uses[n] = 1

NodeInv == NodeType /\ LimitType /\ KeyInv /\ TicketInv

-----------------------------------------------------------------------------
LEMMA NodeInit == Init => NodeInv
<1> SUFFICES ASSUME Init PROVE NodeInv
  OBVIOUS
<1>1. AnyNonce \in Nonces
  BY LifecycleAssumption DEF AnyNonce
<1>2. NodeType
  BY <1>1 DEF Init, NodeType, Ledgers, WholeLedger, TornLedger, NotJoining
<1>3. LimitType
  BY LifecycleAssumption DEF Init, LimitType
<1>4. KeyInv
  BY DEF Init, KeyInv
<1>5. \A c \in Callers : join[c].at = "idle"
  BY DEF Init, NotJoining
<1>6. TicketInv
  BY <1>5 DEF Init, TicketInv, Holds
<1> QED BY <1>2, <1>3, <1>4, <1>6 DEF NodeInv

(* An action of the workspace alone: it may count a fault or open the      *)
(* handle, and changes nothing of the node and the tickets.                *)
LEMMA NodeIdle ==
  ASSUME NodeInv, UNCHANGED <<nodeVars, ticketVars, limit, stops>>,
         faults' \in 0..limit.faults, faults' = 0 => faults = 0
  PROVE  NodeInv'
<1>1. NodeType'
  BY DEF NodeInv, NodeType, nodeVars, ticketVars
<1>2. LimitType'
  BY DEF NodeInv, LimitType
<1>3. KeyInv'
  BY DEF NodeInv, KeyInv, nodeVars
<1>4. Recorded' = Recorded /\ Spent' = Spent
  BY DEF nodeVars, ticketVars, Recorded, LoadRedeemed, Spent, InFlight, Holds
<1>5. TicketInv'
  BY <1>4 DEF NodeInv, TicketInv, nodeVars, ticketVars, Holds
<1> QED BY <1>1, <1>2, <1>3, <1>5 DEF NodeInv

(* The file system counts a failed write, or nothing. *)
LEMMA FaultCounted ==
  ASSUME NodeInv, Fault \/ UNCHANGED limitVars
  PROVE  /\ UNCHANGED <<limit, stops>>
         /\ faults' \in 0..limit.faults
         /\ faults' = 0 => faults = 0
<1>1. faults \in 0..limit.faults /\ limit.faults \in Nat
  BY LifecycleAssumption DEF NodeInv, LimitType
<1>2. CASE Fault
  BY <1>1, <1>2 DEF Fault
<1>3. CASE UNCHANGED limitVars
  BY <1>1, <1>3 DEF limitVars
<1> QED BY <1>2, <1>3

(* Starting the node: its key, then its ledger. *)
LEMMA NodeSpawns ==
  ASSUME NodeInv, SpawnNode
  PROVE  NodeInv'
<1>1. UNCHANGED ticketVars
  BY DEF SpawnNode, Start, GenerateKey, KeyWritten, KeyFails
<1>2. LimitType' /\ (faults' = 0 => faults = 0)
  BY FaultCounted DEF SpawnNode, Start, GenerateKey, KeyWritten, KeyFails, NodeInv, LimitType
<1>3. phase # "up" /\ \A c \in Callers : join[c].at = "idle" /\ join'[c].at = "idle"
  BY <1>1 DEF SpawnNode, Start, GenerateKey, KeyWritten, KeyFails, NodeInv, TicketInv,
              ticketVars
<1>4. Recorded \in SUBSET Nonces /\ Recorded' = Recorded
  BY <1>1 DEF NodeInv, NodeType, Recorded, LoadRedeemed, Ledgers, ticketVars
<1>5. NodeType'
  <2>1. UNCHANGED <<clock, notAfter, ledger, join, uses>>
    BY <1>1 DEF ticketVars
  <2>2. CASE Start
    BY <1>4, <2>1, <2>2 DEF Start, Bind, NodeInv, NodeType, Recorded
  <2>3. CASE GenerateKey
    BY <2>1, <2>3 DEF GenerateKey, NodeInv, NodeType
  <2>4. CASE KeyWritten
    BY <1>4, <2>1, <2>4 DEF KeyWritten, Bind, NodeInv, NodeType, Recorded
  <2>5. CASE KeyFails
    BY <2>1, <2>5 DEF KeyFails, NodeInv, NodeType
  <2> QED BY <2>2, <2>3, <2>4, <2>5 DEF SpawnNode
<1>6. KeyInv'
  <2>1. made \in Nat
    BY DEF NodeInv, NodeType
  <2>2. CASE Start
    BY <2>2 DEF Start, Bind, NodeInv, KeyInv
  <2>3. CASE GenerateKey
    BY <2>1, <2>3 DEF GenerateKey, NodeInv, KeyInv
  <2>4. CASE KeyWritten
    BY <2>4 DEF KeyWritten, Bind, NodeInv, KeyInv
  <2>5. CASE KeyFails
    BY <2>5 DEF KeyFails, NodeInv, KeyInv
  <2> QED BY <2>2, <2>3, <2>4, <2>5 DEF SpawnNode
<1>7. phase' = "up" => redeemed' = Recorded
  BY <1>3 DEF SpawnNode, Start, GenerateKey, KeyWritten, KeyFails, Bind, Recorded
<1>8. Spent = Recorded /\ Spent' = Recorded
  <2>1. InFlight' = {}
    BY <1>3 DEF InFlight, Holds
  <2> QED BY <1>3, <1>4, <1>7, <2>1 DEF Spent, Recorded
<1>9. TicketInv'
  <2>1. uses' = uses
    BY <1>1 DEF ticketVars
  <2> QED BY <1>2, <1>3, <1>4, <1>7, <1>8, <2>1 DEF NodeInv, TicketInv, Holds
<1> QED BY <1>2, <1>5, <1>6, <1>9 DEF NodeInv

(* A stop forgets the claims under way; the ledger is what it was. *)
LEMMA NodeStops ==
  ASSUME NodeInv, ProcessStops
  PROVE  NodeInv'
<1>1. NodeType'
  BY DEF ProcessStops, NodeInv, NodeType, NotJoining
<1>2. LimitType'
  BY LifecycleAssumption DEF ProcessStops, NodeInv, LimitType
<1>3. KeyInv'
  BY DEF ProcessStops, NodeInv, KeyInv
<1>4. \A c \in Callers : join'[c].at = "idle"
  BY DEF ProcessStops, NotJoining
<1>5. Recorded' = Recorded /\ Spent' = Recorded
  BY DEF ProcessStops, Recorded, Spent
<1>6. TicketInv'
  BY <1>4, <1>5 DEF ProcessStops, NodeInv, TicketInv, Holds
<1> QED BY <1>1, <1>2, <1>3, <1>6 DEF NodeInv

Steps == {"idle", "verified", "recording", "recorded", "claimed"}

LEMMA JoinMoves ==
  ASSUME NodeType, NEW c \in Callers, NEW from, NEW to \in Steps, JoinStep(c, from, to)
  PROVE  /\ join[c].at = from
         /\ join' \in [Callers -> [at : Steps, nonce : Nonces]]
         /\ join'[c].at = to /\ join'[c].nonce = join[c].nonce
         /\ \A d \in Callers \ {c} : join'[d] = join[d]
BY DEF NodeType, JoinStep, Steps

(* One call of join moves between steps that hold no nonce. *)
LEMMA JoinQuiet ==
  ASSUME NodeInv, phase = "up", UNCHANGED <<phase, redeemed, ledger, uses>>,
         faults' = 0 => faults = 0,
         NEW c \in Callers, ~Holds(c), join'[c].at \in {"idle", "verified", "claimed"},
         \A d \in Callers \ {c} : join'[d] = join[d]
  PROVE  /\ TicketInv'
         /\ InFlight' = InFlight /\ Spent' = Spent /\ Recorded' = Recorded
<1>1. \A d \in Callers : /\ Holds(d) <=> Holds(d)'
                         /\ Holds(d) => join'[d] = join[d]
  BY DEF Holds
<1>2. InFlight' = InFlight
  BY <1>1 DEF InFlight
<1>3. Recorded' = Recorded /\ Spent' = Spent
  BY <1>2 DEF Recorded, Spent
<1>4. \A d \in Callers : join'[d].at = "recorded" => join[d].at = "recorded" /\ join'[d] = join[d]
  BY <1>1 DEF Holds
<1>5. TicketInv'
  BY <1>1, <1>3, <1>4 DEF NodeInv, TicketInv
<1> QED BY <1>2, <1>3, <1>5

(* Nonces in flight: none before a claim, one from the claim to its return. *)
LEMMA OneInFlight ==
  ASSUME NodeInv, NEW c \in Callers, Holds(c)
  PROVE  InFlight = {join[c].nonce} /\ phase = "up"
BY DEF NodeInv, TicketInv, InFlight, Holds

LEMMA NoneInFlight ==
  ASSUME \A d \in Callers : ~Holds(d)
  PROVE  InFlight = {}
BY DEF InFlight

LEMMA NodeClaimsFresh ==
  ASSUME NodeInv, NEW c \in Callers, ClaimFresh(c)
  PROVE  NodeInv' /\ Spent' = Spent /\ Recorded' = Recorded /\ uses' = uses
<1> DEFINE n == join[c].nonce
<1>1. /\ join[c].at = "verified"
      /\ join' \in [Callers -> [at : Steps, nonce : Nonces]]
      /\ join'[c].at = "recording" /\ join'[c].nonce = n
      /\ \A d \in Callers \ {c} : join'[d] = join[d]
  BY JoinMoves DEF NodeInv, ClaimFresh, Steps
<1>2. n \in Nonces /\ phase = "up" /\ phase' = "up"
  BY <1>1 DEF NodeInv, NodeType, TicketInv, ClaimFresh
<1>3. \A d \in Callers : (Holds(d) <=> FALSE) /\ (Holds(d)' <=> d = c)
  BY <1>1 DEF ClaimFresh, Holds
<1>4. InFlight = {} /\ InFlight' = {n}
  BY <1>1, <1>3 DEF InFlight
<1>5. Recorded' = Recorded
  BY DEF ClaimFresh, Recorded, NodeInv, NodeType
<1>6. Spent' = Spent
  BY <1>2, <1>4 DEF Spent, ClaimFresh
<1>7. NodeType'
  BY <1>1, <1>2 DEF NodeInv, NodeType, ClaimFresh, Steps, TornLedger, Ledgers
<1>8. LimitType' /\ KeyInv' /\ faults' = faults
  BY DEF ClaimFresh, NodeInv, LimitType, KeyInv, limitVars
<1>9. \A d \in Callers : join'[d].at # "recorded"
  BY <1>1, <1>3 DEF Holds
<1>10. TicketInv'
  BY <1>1, <1>2, <1>3, <1>5, <1>6, <1>8, <1>9 DEF NodeInv, TicketInv, ClaimFresh
<1> QED BY <1>5, <1>6, <1>7, <1>8, <1>10 DEF NodeInv, ClaimFresh

LEMMA NodeStoresRedeemed ==
  ASSUME NodeInv, NEW c \in Callers, StoreRedeemed(c)
  PROVE  NodeInv' /\ Spent' = Spent /\ Recorded' = redeemed /\ Spent \subseteq redeemed
<1>1. /\ join[c].at = "recording"
      /\ join' \in [Callers -> [at : Steps, nonce : Nonces]]
      /\ join'[c].at = "recorded" /\ join'[c].nonce = join[c].nonce
      /\ \A d \in Callers \ {c} : join'[d] = join[d]
  BY JoinMoves DEF NodeInv, StoreRedeemed, Steps
<1>2. Holds(c)
  BY <1>1 DEF Holds
<1>3. phase = "up" /\ UNCHANGED <<phase, redeemed, uses, faults>>
  BY <1>2, OneInFlight DEF StoreRedeemed, nodeVars, limitVars
<1>4. \A d \in Callers : (Holds(d)' <=> Holds(d)) /\ join'[d].nonce = join[d].nonce
  BY <1>1 DEF Holds
<1>5. InFlight' = InFlight
  BY <1>4 DEF InFlight
<1>6. Spent' = Spent /\ Spent \subseteq redeemed
  BY <1>3, <1>5 DEF Spent
<1>7. Recorded' = redeemed
  BY DEF StoreRedeemed, Recorded, LoadRedeemed, WholeLedger
<1>8. NodeType'
  BY <1>1 DEF NodeInv, NodeType, StoreRedeemed, Steps, TornLedger, WholeLedger, Ledgers, nodeVars
<1>9. LimitType' /\ KeyInv'
  BY DEF StoreRedeemed, NodeInv, LimitType, KeyInv, limitVars, nodeVars
<1>10. Recorded \subseteq redeemed
  BY <1>3 DEF NodeInv, TicketInv
<1>11. TicketInv'
  BY <1>3, <1>4, <1>6, <1>7, <1>10 DEF NodeInv, TicketInv, Holds
<1> QED BY <1>6, <1>7, <1>8, <1>9, <1>11 DEF NodeInv

LEMMA NodeStoreFails ==
  ASSUME NodeInv, NEW c \in Callers, StoreRedeemedFails(c)
  PROVE  NodeInv' /\ Spent' = Spent /\ Recorded' = Recorded /\ uses' = uses
<1>1. /\ join[c].at = "recording"
      /\ join' \in [Callers -> [at : Steps, nonce : Nonces]]
      /\ join'[c].at = "recorded" /\ join'[c].nonce = join[c].nonce
      /\ \A d \in Callers \ {c} : join'[d] = join[d]
  BY JoinMoves DEF NodeInv, StoreRedeemedFails, Steps
<1>2. UNCHANGED <<nodeVars, clock, notAfter, ledger, uses>>
  BY DEF StoreRedeemedFails
<1>3. faults' # 0 /\ LimitType'
  BY FaultCounted, LifecycleAssumption DEF StoreRedeemedFails, Fault, NodeInv, LimitType
<1>4. \A d \in Callers : (Holds(d)' <=> Holds(d)) /\ join'[d].nonce = join[d].nonce
  BY <1>1 DEF Holds
<1>5. InFlight' = InFlight
  BY <1>4 DEF InFlight
<1>6. Spent' = Spent /\ Recorded' = Recorded
  BY <1>2, <1>5 DEF Spent, Recorded, nodeVars
<1>7. NodeType'
  BY <1>1, <1>2 DEF NodeInv, NodeType, Steps, nodeVars
<1>8. KeyInv'
  BY <1>2 DEF NodeInv, KeyInv, nodeVars
<1>9. phase = "up"
  BY <1>1 DEF NodeInv, TicketInv
<1>10. TicketInv'
  BY <1>2, <1>3, <1>4, <1>6, <1>9 DEF NodeInv, TicketInv, nodeVars
<1> QED BY <1>2, <1>3, <1>6, <1>7, <1>8, <1>10 DEF NodeInv

LEMMA NodeClaimReturns ==
  ASSUME NodeInv, NEW c \in Callers, ClaimReturns(c)
  PROVE  /\ NodeInv' /\ Recorded' = Recorded
         /\ join[c].nonce \in Nonces \ Spent /\ Spent' = Spent \cup {join[c].nonce}
         /\ uses' = [uses EXCEPT ![join[c].nonce] = @ + 1]
<1> DEFINE n == join[c].nonce
<1>1. /\ join[c].at = "recorded"
      /\ join' \in [Callers -> [at : Steps, nonce : Nonces]]
      /\ join'[c].at = "claimed" /\ join'[c].nonce = n
      /\ \A d \in Callers \ {c} : join'[d] = join[d]
  BY JoinMoves DEF NodeInv, ClaimReturns, Steps
<1>2. Holds(c) /\ n \in Nonces
  BY <1>1 DEF Holds, NodeInv, NodeType
<1>3. InFlight = {n} /\ phase = "up" /\ n \in redeemed
  BY <1>2, OneInFlight DEF NodeInv, TicketInv
<1>4. \A d \in Callers : ~Holds(d)'
  BY <1>1, <1>2 DEF Holds, NodeInv, TicketInv
<1>5. InFlight' = {}
  BY <1>4 DEF InFlight
<1>6. UNCHANGED <<nodeVars, clock, notAfter, ledger, limitVars>>
  BY DEF ClaimReturns
<1>7. Recorded' = Recorded /\ n \notin Spent /\ Spent' = Spent \cup {n}
  BY <1>3, <1>5, <1>6 DEF Spent, Recorded, nodeVars
<1>8. uses' = [uses EXCEPT ![n] = @ + 1]
  BY DEF ClaimReturns
<1>9. NodeType'
  <2>1. uses' \in [Nonces -> Nat]
    BY <1>2, <1>8 DEF NodeInv, NodeType
  <2> QED BY <1>1, <1>6, <2>1 DEF NodeInv, NodeType, Steps, nodeVars
<1>10. LimitType' /\ KeyInv'
  BY <1>6 DEF NodeInv, LimitType, KeyInv, nodeVars, limitVars
<1>11. ASSUME faults' = 0, NEW m \in Nonces, uses'[m] # 0
       PROVE  m \in Recorded' \cap Spent' /\ uses'[m] = 1
  <2>1. faults = 0
    BY <1>6, <1>11 DEF limitVars
  <2>2. CASE m = n
    <3>1. uses[n] = 0
      BY <1>2, <1>7, <2>1 DEF NodeInv, TicketInv
    <3>2. n \in Recorded
      BY <1>1, <2>1 DEF NodeInv, TicketInv
    <3> QED BY <1>2, <1>7, <1>8, <2>2, <3>1, <3>2 DEF NodeInv, NodeType
  <2>3. CASE m # n
    <3>1. uses'[m] = uses[m]
      BY <1>8, <2>3 DEF NodeInv, NodeType
    <3> QED BY <1>7, <1>11, <2>1, <3>1 DEF NodeInv, TicketInv
  <2> QED BY <2>2, <2>3
<1>12. TicketInv'
  <2>1. \A d \in Callers : join'[d].at # "recorded"
    BY <1>4 DEF Holds
  <2> QED BY <1>3, <1>4, <1>6, <1>7, <1>11, <2>1 DEF NodeInv, TicketInv, nodeVars
<1> QED BY <1>2, <1>7, <1>8, <1>9, <1>10, <1>12 DEF NodeInv

(* Verify, a replayed claim, and a join that ends: no nonce changes hands. *)
LEMMA NodeJoins ==
  ASSUME NodeInv, NEW c \in Callers,
         \/ \E n \in Nonces : Verify(c, n)
         \/ ClaimReplayed(c) \/ JoinFails(c) \/ JoinWorkspace(c)
  PROVE  NodeInv' /\ Spent' = Spent /\ Recorded' = Recorded /\ uses' = uses
<1>1. UNCHANGED <<nodeVars, clock, notAfter, ledger, uses, limitVars>>
  BY DEF Verify, ClaimReplayed, JoinFails, JoinWorkspace
<1>2. /\ ~Holds(c) /\ phase = "up"
      /\ join' \in [Callers -> [at : Steps, nonce : Nonces]]
      /\ join'[c].at \in {"idle", "verified", "claimed"}
      /\ \A d \in Callers \ {c} : join'[d] = join[d]
  <2>1. CASE \E n \in Nonces : Verify(c, n)
    BY <2>1 DEF Verify, Holds, NodeInv, NodeType, Steps
  <2>2. CASE ClaimReplayed(c)
    <3>1. JoinStep(c, "verified", "idle")
      BY <2>2 DEF ClaimReplayed
    <3>2. join[c].at = "verified" /\ join'[c].at = "idle"
      BY <3>1, JoinMoves DEF NodeInv, Steps
    <3>3. phase = "up"
      BY <3>2 DEF NodeInv, TicketInv
    <3> QED BY <3>1, <3>2, <3>3, JoinMoves DEF NodeInv, Steps, Holds
  <2>3. CASE JoinFails(c) \/ JoinWorkspace(c)
    <3>1. JoinStep(c, "claimed", "idle")
      BY <2>3 DEF JoinFails, JoinWorkspace
    <3>2. join[c].at = "claimed" /\ join'[c].at = "idle"
      BY <3>1, JoinMoves DEF NodeInv, Steps
    <3>3. phase = "up"
      BY <3>2 DEF NodeInv, TicketInv
    <3> QED BY <3>1, <3>2, <3>3, JoinMoves DEF NodeInv, Steps, Holds
  <2> QED BY <2>1, <2>2, <2>3
<1>3. UNCHANGED <<phase, redeemed, ledger, uses>> /\ (faults' = 0 => faults = 0)
  BY <1>1 DEF nodeVars, limitVars
<1>4. TicketInv' /\ Spent' = Spent /\ Recorded' = Recorded
  BY <1>2, <1>3, JoinQuiet
<1>5. NodeType'
  BY <1>1, <1>2 DEF NodeInv, NodeType, Steps, nodeVars
<1>6. LimitType' /\ KeyInv'
  BY <1>1 DEF NodeInv, LimitType, KeyInv, nodeVars, limitVars
<1> QED BY <1>1, <1>4, <1>5, <1>6 DEF NodeInv

(* The clock, and a ticket that is issued. *)
LEMMA NodeTicks ==
  ASSUME NodeInv, Tick \/ \E n \in Nonces : IssueInvite(n)
  PROVE  NodeInv' /\ Spent' = Spent /\ Recorded' = Recorded /\ uses' = uses
<1>1. UNCHANGED <<nodeVars, join, ledger, uses, limitVars>>
  BY DEF Tick, IssueInvite
<1>2. clock' \in Nat /\ notAfter' \in [Nonces -> Nat]
  BY LifecycleAssumption DEF Tick, IssueInvite, NodeInv, NodeType
<1>3. NodeType'
  BY <1>1, <1>2 DEF NodeInv, NodeType, nodeVars
<1>4. LimitType' /\ KeyInv'
  BY <1>1 DEF NodeInv, LimitType, KeyInv, nodeVars, limitVars
<1>5. Recorded' = Recorded /\ Spent' = Spent
  BY <1>1 DEF nodeVars, Recorded, LoadRedeemed, Spent, InFlight, Holds
<1>6. TicketInv'
  BY <1>1, <1>5 DEF NodeInv, TicketInv, nodeVars, limitVars, Holds
<1> QED BY <1>1, <1>3, <1>4, <1>5, <1>6 DEF NodeInv

(* The actions of the handle and its snapshot. *)
SpaceStep ==
  \/ Create \/ Open \/ Close \/ Delete
  \/ \E t \in Tasks : Handle(t) \/ Persist(t)

LEMMA SpaceLeavesNode ==
  ASSUME NodeInv, SpaceStep
  PROVE  UNCHANGED <<nodeVars, ticketVars>> /\ (Fault \/ UNCHANGED limitVars)
BY DEF SpaceStep, Create, Open, Close, Delete, DropDoc, DropDocFails, RemoveSnapshot,
       RemoveSnapshotFails, DeleteReturns, Handle, Persist, Export, OpenTmp, Fill, Rename,
       RenameMissing, WriteFails

(* What an action of the handle does to the abstract tickets: nothing. *)
LEMMA NodeRests ==
  ASSUME NodeInv, SpaceStep \/ UNCHANGED vars
  PROVE  NodeInv' /\ Spent' = Spent /\ Recorded' = Recorded /\ uses' = uses
<1>1. UNCHANGED <<nodeVars, ticketVars>> /\ (Fault \/ UNCHANGED limitVars)
  BY SpaceLeavesNode DEF vars
<1>2. NodeInv'
  BY <1>1, FaultCounted, NodeIdle
<1> QED BY <1>1, <1>2 DEF nodeVars, ticketVars, Recorded, LoadRedeemed, Spent, InFlight, Holds

LEMMA NodeStep == NodeInv /\ [Next]_vars => NodeInv'
<1> SUFFICES ASSUME NodeInv, [Next]_vars PROVE NodeInv'
  OBVIOUS
<1>1. CASE Tick \/ \E n \in Nonces : IssueInvite(n)
  BY <1>1, NodeTicks
<1>2. CASE SpawnNode
  BY <1>2, NodeSpawns
<1>3. CASE ProcessStops
  BY <1>3, NodeStops
<1>4. CASE \E c \in Callers : (\E n \in Nonces : Verify(c, n)) \/ JoinFails(c) \/ JoinWorkspace(c)
  BY <1>4, NodeJoins
<1>5. CASE \E c \in Callers : ClaimInvite(c)
  BY <1>5, NodeJoins, NodeClaimsFresh, NodeStoresRedeemed, NodeStoreFails, NodeClaimReturns
     DEF ClaimInvite
<1>6. CASE SpaceStep \/ UNCHANGED vars
  BY <1>6, NodeRests
<1> QED BY <1>1, <1>2, <1>3, <1>4, <1>5, <1>6 DEF Next, SpaceStep

LEMMA NodeInvariant == Spec => []NodeInv
BY NodeInit, NodeStep, PTL DEF Spec

-----------------------------------------------------------------------------
(* While no write has failed, a ticket is honoured at most once, however   *)
(* many calls of join race for it and wherever the process stops: a nonce  *)
(* that was reported spent is in memory and on disk (Node::claim_invite).  *)
THEOREM TicketsAreSingleUse == Spec => []SingleUse
<1>1. NodeInv => SingleUse
  BY DEF NodeInv, NodeType, TicketInv, SingleUse
<1> QED BY <1>1, NodeInvariant, PTL

(* The node has one endpoint key in all its runs, for any stops and failed *)
(* writes: a key that was not written is never bound (Store::endpoint_key).*)
THEOREM OneEndpoint == Spec => []EndpointStable
<1>1. NodeInv => EndpointStable
  BY DEF NodeInv, KeyInv, EndpointStable
<1> QED BY <1>1, NodeInvariant, PTL

(* The abstract tickets of a state. *)
LEMMA AbstractTypes ==
  ASSUME NodeInv
  PROVE  Spent \subseteq Nonces /\ Recorded \subseteq Nonces
BY DEF NodeInv, NodeType, Spent, Recorded, LoadRedeemed, Ledgers

(* Every step of the node is a step of the abstract tickets, or none. *)
LEMMA RedemptionStep ==
  ASSUME NodeInv, [Next]_vars
  PROVE  [R!Next]_(R!vars)
<1> USE DEF R!vars
<1>1. ASSUME Spent' = Spent, Recorded' = Recorded, uses' = uses PROVE [R!Next]_(R!vars)
  BY <1>1 DEF Recorded
<1>2. CASE (Tick \/ \E n \in Nonces : IssueInvite(n)) \/ SpaceStep \/ UNCHANGED vars
  BY <1>1, <1>2, NodeTicks, NodeRests
<1>3. CASE SpawnNode
  <2>1. uses' = uses /\ Recorded' = Recorded
    BY <1>3 DEF SpawnNode, Start, GenerateKey, KeyWritten, KeyFails, ticketVars, Recorded
  <2>2. phase # "up" /\ \A c \in Callers : join'[c].at = "idle"
    BY <1>3 DEF SpawnNode, Start, GenerateKey, KeyWritten, KeyFails, NodeInv, TicketInv, ticketVars
  <2>3. InFlight' = {}
    BY <2>2 DEF InFlight, Holds
  <2>4. phase' = "up" => redeemed' = Recorded
    BY <1>3 DEF SpawnNode, Start, GenerateKey, KeyWritten, KeyFails, Bind, Recorded
  <2>5. Spent' = Spent
    BY <2>1, <2>2, <2>3, <2>4 DEF Spent, Recorded
  <2> QED BY <1>1, <2>1, <2>5
<1>4. CASE \E c \in Callers : (\E n \in Nonces : Verify(c, n)) \/ JoinFails(c) \/ JoinWorkspace(c)
  BY <1>1, <1>4, NodeJoins
<1>5. CASE \E c \in Callers : ClaimReplayed(c) \/ ClaimFresh(c) \/ StoreRedeemedFails(c)
  BY <1>1, <1>5, NodeJoins, NodeClaimsFresh, NodeStoreFails
<1>6. ASSUME NEW c \in Callers, StoreRedeemed(c) PROVE [R!Next]_(R!vars)
  <2>1. Spent' = Spent /\ Recorded' = redeemed /\ Spent \subseteq redeemed
    BY <1>6, NodeStoresRedeemed
  <2>2. uses' = uses
    BY <1>6 DEF StoreRedeemed
  <2>3. R!Record
    BY <2>1, <2>2 DEF R!Record, Recorded
  <2> QED BY <2>3 DEF R!Next
<1>7. ASSUME NEW c \in Callers, ClaimReturns(c) PROVE [R!Next]_(R!vars)
  <2> DEFINE n == join[c].nonce
  <2>1. /\ Recorded' = Recorded /\ n \in Nonces \ Spent /\ Spent' = Spent \cup {n}
        /\ uses' = [uses EXCEPT ![n] = @ + 1]
    BY <1>7, NodeClaimReturns
  <2>2. Nonces \ Spent' = (Nonces \ Spent) \ {n}
    BY <2>1
  <2>3. Spent' \ Recorded' \in {Spent \ Recorded, (Spent \ Recorded) \cup {n}}
    BY <2>1
  <2>4. R!Redeem(n)
    BY <2>1, <2>2, <2>3 DEF R!Redeem, Recorded
  <2> QED BY <2>1, <2>4 DEF R!Next
<1>8. CASE ProcessStops
  <2>1. uses' = uses /\ Recorded' = Recorded /\ Spent' = Recorded
    BY <1>8 DEF ProcessStops, Recorded, Spent
  <2> DEFINE burnt == Recorded \ Spent
  <2>2. burnt \subseteq Nonces \ Spent
    BY AbstractTypes
  <2>3. \A m, n \in burnt : m = n
    <3>1. CASE phase = "up"
      <4>1. burnt \subseteq InFlight
        BY <3>1 DEF Spent, NodeInv, TicketInv
      <4>2. \A m, n \in InFlight : m = n
        BY DEF InFlight, NodeInv, TicketInv
      <4> QED BY <4>1, <4>2
    <3>2. CASE phase # "up"
      BY <3>2 DEF Spent, Recorded
    <3> QED BY <3>1, <3>2
  <2>4. Nonces \ Spent' = ((Nonces \ Spent) \ burnt) \cup (Spent \ Recorded)
    BY <2>1, AbstractTypes
  <2>5. Spent' \ Recorded' = {}
    BY <2>1
  <2>6. R!Stop
    BY <2>1, <2>2, <2>3, <2>4, <2>5 DEF R!Stop, Recorded
  <2> QED BY <2>6 DEF R!Next
<1> QED BY <1>2, <1>3, <1>4, <1>5, <1>6, <1>7, <1>8 DEF Next, SpaceStep, ClaimInvite

(* The node, with its ledger file, its mutex, concurrent joins, stops and  *)
(* failed writes, implements the abstract redemption of tickets, for any   *)
(* tickets and callers.                                                    *)
THEOREM ImplementsRedemption == Spec => RedeemsOnce
<1>1. Init => R!Init
  <2> SUFFICES ASSUME Init PROVE R!Init
    OBVIOUS
  <2>1. Spent = {} /\ LoadRedeemed(ledger.final) = {}
    BY DEF Init, Spent, LoadRedeemed, WholeLedger
  <2> QED BY <2>1 DEF Init, R!Init
<1> QED BY <1>1, RedemptionStep, NodeInvariant, PTL DEF Spec, RedeemsOnce, R!Spec

-----------------------------------------------------------------------------
(* The handle and its snapshot.                                            *)

(* A task works for the handle it belongs to, and leaves it when detached; *)
(* delete drops the replica before anything else.                          *)
HandleInv ==
  /\ \A t \in Tasks : task[t].at = "effects" => ws # "none" /\ task[t].attached
  /\ \A t \in Tasks : task[t].at # "idle" /\ task[t].attached =>
                        ws # "none" /\ task[t].mine <= core
  /\ \A t \in Tasks : Writing(t) => task[t].mine <= task[t].core
  /\ \A t \in Tasks : ~Writing(t) => task[t].fd = "tmp"
  /\ ws \in {"dropped", "removed"} => ~replica

(* While persists have not overlapped, there is one writer, it owns the    *)
(* temporary file, and a file that was renamed is whole.                   *)
FileInv ==
  ~raced =>
    /\ \A t, u \in Tasks : Writing(t) /\ Writing(u) => t = u
    /\ \A t \in Tasks : Writing(t) => task[t].fd = "tmp"
    /\ \A t \in Tasks : task[t].at = "opened" => snap.tmp = TornSnapshot
    /\ \A t \in Tasks : task[t].at = "filled" => snap.tmp = WholeSnapshot(task[t].core)
    /\ snap.final.is # "torn"
    /\ gone => /\ snap.final = NoSnapshot
               /\ ws \in {"none", "removed"}
               /\ \A t \in Tasks : ~Writing(t)

(* While no write has failed either, whatever is, or will be, the file     *)
(* holds every acknowledged event.                                         *)
AckInv ==
  ~raced /\ ~failed =>
    /\ acked <= snap.final.core
    /\ ws # "none" => acked <= core
    /\ \A t \in Tasks : Writing(t) => acked <= task[t].core

SpaceInv == SpaceType /\ HandleInv /\ FileInv /\ AckInv

LEMMA SpaceInit == Init => SpaceInv
<1> SUFFICES ASSUME Init PROVE SpaceInv
  OBVIOUS
<1>1. \A t \in Tasks : task[t] = Resting /\ Resting.at = "idle" /\ Resting.fd = "tmp"
  BY DEF Init, Resting
<1>2. SpaceType
  BY DEF Init, SpaceType, Snapshots, NoSnapshot, Resting, TaskRecord
<1>3. \A t \in Tasks : ~Writing(t) /\ task[t].at = "idle"
  BY <1>1 DEF Writing
<1>4. snap.final = NoSnapshot /\ NoSnapshot.is = "none" /\ NoSnapshot.core = 0
  BY DEF Init, NoSnapshot
<1>5. HandleInv /\ FileInv /\ AckInv
  BY <1>1, <1>3, <1>4 DEF Init, HandleInv, FileInv, AckInv
<1> QED BY <1>2, <1>5 DEF SpaceInv

LEMMA SpaceIdle ==
  ASSUME SpaceInv, UNCHANGED spaceVars
  PROVE  SpaceInv'
<1>1. SpaceType'
  BY DEF SpaceInv, SpaceType, spaceVars
<1>2. HandleInv' /\ FileInv' /\ AckInv'
  BY DEF SpaceInv, HandleInv, FileInv, AckInv, spaceVars, Writing
<1> QED BY <1>1, <1>2 DEF SpaceInv

LEMMA SpaceStops ==
  ASSUME SpaceInv, ProcessStops
  PROVE  SpaceInv'
<1>1. \A t \in Tasks : task'[t].at = "idle" /\ task'[t].fd = "tmp" /\ ~Writing(t)'
  BY DEF ProcessStops, Resting, Writing
<1>2. UNCHANGED <<replica, snap, acked, failed, raced, gone>> /\ ws' = "none" /\ core' = 0
  BY DEF ProcessStops
<1>3. SpaceType'
  BY <1>2 DEF ProcessStops, SpaceInv, SpaceType, Resting, TaskRecord
<1>4. HandleInv'
  BY <1>1, <1>2 DEF HandleInv
<1>5. FileInv' /\ AckInv'
  BY <1>1, <1>2 DEF SpaceInv, FileInv, AckInv
<1> QED BY <1>3, <1>4, <1>5 DEF SpaceInv

(* The files are untouched, and whoever writes was writing. *)
LEMMA FileKept ==
  ASSUME SpaceInv, UNCHANGED <<snap, raced>>, gone' => gone /\ ws' \in {"none", "removed"},
         \A t \in Tasks : Writing(t)' => /\ Writing(t) /\ task'[t].at = task[t].at
                                        /\ task'[t].core = task[t].core
                                        /\ task'[t].fd = task[t].fd
  PROVE  FileInv'
<1> SUFFICES ASSUME ~raced
             PROVE  /\ \A t, u \in Tasks : Writing(t)' /\ Writing(u)' => t = u
                    /\ \A t \in Tasks : Writing(t)' => task'[t].fd = "tmp"
                    /\ \A t \in Tasks : task'[t].at = "opened" => snap.tmp = TornSnapshot
                    /\ \A t \in Tasks : task'[t].at = "filled" =>
                                          snap.tmp = WholeSnapshot(task'[t].core)
                    /\ snap.final.is # "torn"
                    /\ gone' => /\ snap.final = NoSnapshot /\ ws' \in {"none", "removed"}
                               /\ \A t \in Tasks : ~Writing(t)'
  BY DEF FileInv
<1>1. FileInv
  BY DEF SpaceInv
<1>2. \A t \in Tasks : task'[t].at \in {"opened", "filled"} => Writing(t)'
  BY DEF Writing
<1>3. \A t, u \in Tasks : Writing(t)' /\ Writing(u)' => t = u
  BY <1>1 DEF FileInv
<1>4. \A t \in Tasks : Writing(t)' => task'[t].fd = "tmp"
  BY <1>1 DEF FileInv
<1>5. \A t \in Tasks : task'[t].at = "opened" => snap.tmp = TornSnapshot
  BY <1>1, <1>2 DEF FileInv
<1>6. \A t \in Tasks : task'[t].at = "filled" => snap.tmp = WholeSnapshot(task'[t].core)
  BY <1>1, <1>2 DEF FileInv
<1>7. gone' => snap.final = NoSnapshot /\ \A t \in Tasks : ~Writing(t)'
  BY <1>1 DEF FileInv
<1> QED BY <1>1, <1>3, <1>4, <1>5, <1>6, <1>7 DEF FileInv

(* A handle is dropped: tasks rest, or go on writing for nobody. *)
LEMMA DropLeaves ==
  ASSUME SpaceInv, DropHandle
  PROVE  /\ ws' = "none" /\ core' = 0
         /\ task' \in [Tasks -> TaskRecord]
         /\ \A t \in Tasks :
              /\ Writing(t)' <=> Writing(t)
              /\ Writing(t) => /\ task'[t].at = task[t].at /\ task'[t].mine = task[t].mine
                               /\ task'[t].core = task[t].core /\ task'[t].fd = task[t].fd
                               /\ task'[t].attached = FALSE
              /\ ~Writing(t) => task'[t].at = "idle" /\ task'[t].fd = "tmp"
<1>1. ws' = "none" /\ core' = 0
  BY DEF DropHandle
<1>2. Resting \in TaskRecord /\ Resting.at = "idle" /\ Resting.fd = "tmp"
  BY DEF Resting, TaskRecord
<1>3. \A t \in Tasks : task'[t] = IF Writing(t) THEN [task[t] EXCEPT !.attached = FALSE]
                                  ELSE Resting
  BY DEF DropHandle
<1>4. \A t \in Tasks : task[t] \in TaskRecord
  BY DEF SpaceInv, SpaceType
<1>5. \A t \in Tasks :
        /\ Writing(t) => /\ task'[t].at = task[t].at /\ task'[t].mine = task[t].mine
                         /\ task'[t].core = task[t].core /\ task'[t].fd = task[t].fd
                         /\ task'[t].attached = FALSE
        /\ ~Writing(t) => task'[t].at = "idle" /\ task'[t].fd = "tmp"
  <2> TAKE t \in Tasks
  <2>1. CASE Writing(t)
    <3>1. task[t] \in TaskRecord /\ task'[t] = [task[t] EXCEPT !.attached = FALSE]
      BY <1>3, <1>4, <2>1
    <3> QED BY <2>1, <3>1 DEF TaskRecord
  <2>2. CASE ~Writing(t)
    BY <1>2, <1>3, <2>2
  <2> QED BY <2>1, <2>2
<1>6. \A t \in Tasks : Writing(t)' <=> Writing(t)
  BY <1>5 DEF Writing
<1>7. task' \in [Tasks -> TaskRecord]
  BY <1>2, <1>4 DEF DropHandle, TaskRecord
<1> QED BY <1>1, <1>5, <1>6, <1>7

(* Close, a delete that fails, and the end of a delete. *)
LEMMA SpaceDrops ==
  ASSUME SpaceInv, DropHandle, UNCHANGED <<replica, snap, acked, failed, raced, gone>>
  PROVE  SpaceInv'
<1>1. SpaceType'
  <2>1. ws' = "none" /\ core' = 0 /\ task' \in [Tasks -> TaskRecord]
    BY DropLeaves
  <2> QED BY <2>1 DEF SpaceInv, SpaceType
<1>2. HandleInv'
  <2>1. \A t \in Tasks : task'[t].at # "idle" => Writing(t) /\ task'[t].attached = FALSE
    BY DropLeaves
  <2>2. \A t \in Tasks : task'[t].at # "effects"
    BY <2>1, DropLeaves DEF Writing
  <2>3. \A t \in Tasks : Writing(t)' => task'[t].mine <= task'[t].core
    BY DropLeaves DEF SpaceInv, HandleInv
  <2>4. ws' = "none"
    BY DropLeaves
  <2>5. \A t \in Tasks : ~Writing(t)' => task'[t].fd = "tmp"
    BY DropLeaves
  <2> QED BY <2>1, <2>2, <2>3, <2>4, <2>5 DEF HandleInv
<1>3. FileInv'
  <2>1. \A t \in Tasks : Writing(t)' => /\ Writing(t) /\ task'[t].at = task[t].at
                                       /\ task'[t].core = task[t].core
                                       /\ task'[t].fd = task[t].fd
    BY DropLeaves
  <2>2. ws' = "none"
    BY DropLeaves
  <2> QED BY <2>1, <2>2, FileKept
<1>4. AckInv'
  BY DropLeaves DEF SpaceInv, AckInv
<1> QED BY <1>1, <1>2, <1>3, <1>4 DEF SpaceInv

(* Tasks other than t are as they were. *)
Others(t) == \A u \in Tasks \ {t} : task'[u] = task[u] /\ (Writing(u)' <=> Writing(u))

LEMMA Begins ==
  ASSUME SpaceType, NEW t \in Tasks, NEW event \in Nat, Begin(t, event)
  PROVE  /\ task' \in [Tasks -> TaskRecord] /\ Others(t)
         /\ task'[t].at = "effects" /\ task'[t].mine = event /\ task'[t].attached
         /\ ~Writing(t)' /\ task'[t].fd = "tmp"
<1> DEFINE r == [Resting EXCEPT !.at = "effects", !.mine = event, !.attached = TRUE]
<1>1. Resting \in TaskRecord /\ Resting.fd = "tmp"
  BY DEF Resting, TaskRecord
<1>2. r \in TaskRecord /\ r.at = "effects" /\ r.mine = event /\ r.attached /\ r.fd = "tmp"
  BY <1>1 DEF TaskRecord
<1>3. task' = [task EXCEPT ![t] = r]
  BY DEF Begin
<1> HIDE DEF r
<1>4. task' \in [Tasks -> TaskRecord] /\ task'[t] = r /\ \A u \in Tasks \ {t} : task'[u] = task[u]
  BY <1>2, <1>3 DEF SpaceType
<1>5. Others(t) /\ ~Writing(t)'
  BY <1>2, <1>4 DEF Others, Writing
<1> QED BY <1>2, <1>4, <1>5

(* A task begins for a live handle. *)
LEMMA BeginsHandle ==
  ASSUME SpaceInv, NEW t \in Tasks, Others(t), ws' # "none",
         task'[t].at = "effects", task'[t].attached, task'[t].mine <= core',
         ~Writing(t)', task'[t].fd = "tmp",
         ws' \in {"dropped", "removed"} => ~replica',
         \A u \in Tasks \ {t} : task[u].at # "idle" /\ task[u].attached => task[u].mine <= core'
  PROVE  HandleInv'
<1>1. HandleInv
  BY DEF SpaceInv
<1>2. ASSUME NEW u \in Tasks
      PROVE  /\ task'[u].at = "effects" => task'[u].attached
             /\ task'[u].at # "idle" /\ task'[u].attached => task'[u].mine <= core'
             /\ Writing(u)' => task'[u].mine <= task'[u].core
             /\ ~Writing(u)' => task'[u].fd = "tmp"
  <2>1. CASE u = t
    BY <2>1
  <2>2. CASE u # t
    BY <1>1, <2>2 DEF HandleInv, Others
  <2> QED BY <2>1, <2>2
<1> QED BY <1>2 DEF HandleInv

(* create and join: a new workspace, nothing of which is promised yet. *)
LEMMA SpaceNew ==
  ASSUME SpaceInv, NewWorkspace
  PROVE  SpaceInv'
<1>1. /\ ws = "none" /\ ws' = "live" /\ core' = 1 /\ replica' = TRUE /\ acked' = 0
      /\ gone' = FALSE /\ UNCHANGED <<snap, failed, raced>>
      /\ task[App].at = "idle" /\ Begin(App, 1) /\ App \in Tasks
  BY DEF NewWorkspace, Assemble, Tasks
<1>2. /\ task' \in [Tasks -> TaskRecord] /\ Others(App)
      /\ task'[App].at = "effects" /\ task'[App].mine = 1 /\ task'[App].attached
      /\ ~Writing(App)' /\ task'[App].fd = "tmp"
  BY <1>1, Begins DEF SpaceInv
<1>3. SpaceType'
  BY <1>1, <1>2 DEF SpaceInv, SpaceType
<1>4. \A u \in Tasks \ {App} : ~(task[u].at # "idle" /\ task[u].attached)
  BY <1>1 DEF SpaceInv, HandleInv
<1>5. HandleInv'
  <2>1. task'[App].mine <= core' /\ ws' # "none" /\ ws' \notin {"dropped", "removed"}
    <3>1. core' = 1 /\ task'[App].mine = 1 /\ ws' = "live"
      BY <1>1, <1>2, Zenon
    <3> QED BY <3>1
  <2>2. \A u \in Tasks \ {App} : task[u].at # "idle" /\ task[u].attached => task[u].mine <= core'
    BY <1>4
  <2> QED BY <1>1, <1>2, <2>1, <2>2, BeginsHandle
<1>6. FileInv'
  BY <1>1, <1>2, FileKept DEF Others
<1>7. AckInv'
  <2>1. \A t \in Tasks : task'[t].core \in Nat
    BY <1>2 DEF TaskRecord
  <2>2. snap.final.core \in Nat
    BY DEF SpaceInv, SpaceType, Snapshots
  <2> QED BY <1>1, <2>1, <2>2 DEF AckInv
<1> QED BY <1>3, <1>5, <1>6, <1>7 DEF SpaceInv

(* open: the core is what the file holds. *)
LEMMA SpaceOpens ==
  ASSUME SpaceInv, Open
  PROVE  SpaceInv'
<1>1. snap.final.core \in Nat
  BY DEF SpaceInv, SpaceType, Snapshots
<1>2. /\ ws = "none" /\ ws' = "live" /\ core' = snap.final.core
      /\ gone' = FALSE /\ UNCHANGED <<replica, snap, acked, failed, raced>>
      /\ task[App].at = "idle" /\ Begin(App, snap.final.core) /\ App \in Tasks
  BY DEF Open, Assemble, Tasks
<1>3. /\ task' \in [Tasks -> TaskRecord] /\ Others(App)
      /\ task'[App].at = "effects" /\ task'[App].mine = core' /\ task'[App].attached
      /\ ~Writing(App)' /\ task'[App].fd = "tmp"
  BY <1>1, <1>2, Begins DEF SpaceInv
<1>4. SpaceType'
  BY <1>1, <1>2, <1>3 DEF SpaceInv, SpaceType
<1>5. \A u \in Tasks \ {App} : ~(task[u].at # "idle" /\ task[u].attached)
  BY <1>2 DEF SpaceInv, HandleInv
<1>6. HandleInv'
  <2>0. core' \in Nat /\ task'[App].mine = core' /\ ws' = "live"
    BY <1>1, <1>2, <1>3
  <2>1. task'[App].mine <= core' /\ ws' # "none" /\ ws' \notin {"dropped", "removed"}
    BY <2>0
  <2>2. \A u \in Tasks \ {App} : task[u].at # "idle" /\ task[u].attached => task[u].mine <= core'
    BY <1>5
  <2> QED BY <1>2, <1>3, <2>1, <2>2, BeginsHandle
<1>7. FileInv'
  BY <1>2, <1>3, FileKept DEF Others
<1>8. AckInv'
  BY <1>2, <1>3 DEF SpaceInv, AckInv, Others
<1> QED BY <1>4, <1>6, <1>7, <1>8 DEF SpaceInv

LEMMA SpaceHandles ==
  ASSUME SpaceInv, NEW t \in Tasks, Handle(t)
  PROVE  SpaceInv'
<1>1. core \in Nat /\ core' = core + 1
  BY DEF Handle, SpaceInv, SpaceType
<1>2. /\ ws # "none" /\ task[t].at = "idle" /\ Begin(t, core')
      /\ UNCHANGED <<ws, replica, snap, acked, failed, raced, gone>>
  BY DEF Handle
<1>3. /\ task' \in [Tasks -> TaskRecord] /\ Others(t)
      /\ task'[t].at = "effects" /\ task'[t].mine = core' /\ task'[t].attached
      /\ ~Writing(t)' /\ task'[t].fd = "tmp"
  <2>1. SpaceType /\ core' \in Nat
    BY <1>1 DEF SpaceInv
  <2> QED BY <1>2, <2>1, Begins
<1>4. SpaceType'
  BY <1>1, <1>2, <1>3 DEF SpaceInv, SpaceType
<1>5. HandleInv'
  <2>1. \A u \in Tasks \ {t} : task[u].mine \in Nat
    BY DEF SpaceInv, SpaceType, TaskRecord
  <2>2. \A u \in Tasks \ {t} : task[u].at # "idle" /\ task[u].attached => task[u].mine <= core
    BY DEF SpaceInv, HandleInv
  <2>3. \A u \in Tasks \ {t} : task[u].at # "idle" /\ task[u].attached => task[u].mine <= core'
    BY <1>1, <2>1, <2>2
  <2>4. ws \in {"dropped", "removed"} => ~replica
    BY DEF SpaceInv, HandleInv
  <2>5. ws' # "none" /\ (ws' \in {"dropped", "removed"} => ~replica') /\ task'[t].mine <= core'
    BY <1>1, <1>2, <1>3, <2>4
  <2> QED BY <1>3, <2>3, <2>5, BeginsHandle
<1>6. FileInv'
  <2>1. gone => ws \in {"none", "removed"} \/ raced
    BY DEF SpaceInv, FileInv
  <2>2. CASE raced
    BY <1>2, <2>2 DEF FileInv
  <2>3. CASE ~raced
    BY <1>2, <1>3, <2>1, <2>3, FileKept DEF Others
  <2> QED BY <2>2, <2>3
<1>7. AckInv'
  BY <1>1, <1>2, <1>3 DEF SpaceInv, SpaceType, AckInv, Others
<1> QED BY <1>4, <1>5, <1>6, <1>7 DEF SpaceInv

(* The export is of the current core, and the writer is alone or it is a   *)
(* race.                                                                   *)
LEMMA SpaceExports ==
  ASSUME SpaceInv, NEW t \in Tasks, Export(t)
  PROVE  SpaceInv'
<1>1. /\ task[t].at = "effects"
      /\ task' = [task EXCEPT ![t].at = "exported", ![t].core = core]
      /\ UNCHANGED <<ws, core, replica, snap, acked, failed, gone>>
  BY DEF Export
<1>2. raced' \in BOOLEAN
      /\ (~raced' => ~raced /\ ws # "removed" /\ \A u \in Tasks \ {t} : ~Writing(u))
  BY DEF Export, SpaceInv, SpaceType
<1>3. task[t] \in TaskRecord /\ core \in Nat
  BY DEF SpaceInv, SpaceType
<1>4. /\ task' \in [Tasks -> TaskRecord]
      /\ task'[t].at = "exported" /\ task'[t].core = core
      /\ task'[t].mine = task[t].mine /\ task'[t].fd = task[t].fd
      /\ task'[t].attached = task[t].attached
      /\ \A u \in Tasks \ {t} : task'[u] = task[u]
  BY <1>1, <1>3 DEF SpaceInv, SpaceType, TaskRecord
<1>5. Others(t) /\ Writing(t)'
  BY <1>4 DEF Others, Writing
<1>6. SpaceType'
  BY <1>1, <1>2, <1>4 DEF SpaceInv, SpaceType
<1>7. ws # "none" /\ task[t].mine <= core
  BY <1>1 DEF SpaceInv, HandleInv
<1>8. HandleInv'
  BY <1>1, <1>4, <1>5, <1>7 DEF SpaceInv, HandleInv, Others
<1>9. FileInv'
  <2>1. ~Writing(t) /\ task[t].fd = "tmp"
    BY <1>1 DEF SpaceInv, HandleInv, Writing
  <2> QED BY <1>1, <1>2, <1>4, <1>5, <1>7, <2>1 DEF SpaceInv, FileInv, Others
<1>10. AckInv'
  BY <1>1, <1>2, <1>4, <1>5, <1>7 DEF SpaceInv, AckInv, Others
<1> QED BY <1>6, <1>8, <1>9, <1>10 DEF SpaceInv

(* t goes on to its next step of writing, and nothing else about it changes. *)
LEMMA Advances ==
  ASSUME SpaceType, NEW t \in Tasks, NEW step \in {"opened", "filled"},
         task' = [task EXCEPT ![t].at = step]
  PROVE  /\ task' \in [Tasks -> TaskRecord] /\ Others(t) /\ Writing(t)'
         /\ task'[t].at = step /\ task'[t].mine = task[t].mine /\ task'[t].core = task[t].core
         /\ task'[t].fd = task[t].fd /\ task'[t].attached = task[t].attached
<1>1. task[t] \in TaskRecord
  BY DEF SpaceType
<1>2. /\ task' \in [Tasks -> TaskRecord]
      /\ task'[t].at = step /\ task'[t].mine = task[t].mine /\ task'[t].core = task[t].core
      /\ task'[t].fd = task[t].fd /\ task'[t].attached = task[t].attached
      /\ \A u \in Tasks \ {t} : task'[u] = task[u]
  BY <1>1 DEF SpaceType, TaskRecord
<1> QED BY <1>2 DEF Others, Writing

LEMMA SnapshotTypes ==
  ASSUME NEW c \in Nat
  PROVE  /\ NoSnapshot \in Snapshots /\ TornSnapshot \in Snapshots
         /\ WholeSnapshot(c) \in Snapshots
         /\ NoSnapshot.is = "none" /\ TornSnapshot.is = "torn"
         /\ WholeSnapshot(c).is = "whole" /\ WholeSnapshot(c).core = c
BY DEF Snapshots, NoSnapshot, TornSnapshot, WholeSnapshot

(* A descriptor that opens is that of the temporary file, whatever it was. *)
LEMMA Reopens ==
  ASSUME SpaceType, NEW t \in Tasks,
         task' = [task EXCEPT ![t].at = "opened", ![t].fd = "tmp"]
  PROVE  /\ task' \in [Tasks -> TaskRecord] /\ Others(t) /\ Writing(t)'
         /\ task'[t].at = "opened" /\ task'[t].mine = task[t].mine
         /\ task'[t].core = task[t].core /\ task'[t].fd = "tmp"
         /\ task'[t].attached = task[t].attached
<1>1. task[t] \in TaskRecord
  BY DEF SpaceType
<1>2. /\ task' \in [Tasks -> TaskRecord]
      /\ task'[t].at = "opened" /\ task'[t].mine = task[t].mine
      /\ task'[t].core = task[t].core /\ task'[t].fd = "tmp"
      /\ task'[t].attached = task[t].attached
      /\ \A u \in Tasks \ {t} : task'[u] = task[u]
  BY <1>1 DEF SpaceType, TaskRecord
<1> QED BY <1>2 DEF Others, Writing

LEMMA SpaceOpensTmp ==
  ASSUME SpaceInv, NEW t \in Tasks, OpenTmp(t)
  PROVE  SpaceInv'
<1>1. /\ task[t].at = "exported" /\ Writing(t)
      /\ snap' = [snap EXCEPT !.tmp = TornSnapshot]
      /\ UNCHANGED <<ws, core, replica, acked, failed, raced, gone>>
  BY DEF OpenTmp, Writing
<1>2. /\ task' \in [Tasks -> TaskRecord] /\ Others(t) /\ Writing(t)'
      /\ task'[t].at = "opened" /\ task'[t].mine = task[t].mine
      /\ task'[t].core = task[t].core /\ task'[t].fd = "tmp"
      /\ task'[t].attached = task[t].attached
  BY Reopens DEF OpenTmp, SpaceInv
<1>3. /\ snap' \in [final : Snapshots, tmp : Snapshots]
      /\ snap'.final = snap.final /\ snap'.tmp = TornSnapshot
  BY <1>1, SnapshotTypes DEF SpaceInv, SpaceType
<1>4. SpaceType'
  BY <1>1, <1>2, <1>3 DEF SpaceInv, SpaceType
<1>5. HandleInv'
  BY <1>1, <1>2 DEF SpaceInv, HandleInv, Others
<1>6. FileInv'
  <2>1. ~raced => \A u \in Tasks \ {t} : ~Writing(u)
    BY <1>1 DEF SpaceInv, FileInv
  <2>2. \A u \in Tasks \ {t} : task'[u].at \in {"opened", "filled"} => Writing(u)
    BY <1>2 DEF Others, Writing
  <2> QED BY <1>1, <1>2, <1>3, <2>1, <2>2 DEF SpaceInv, FileInv, Others
<1>7. AckInv'
  BY <1>1, <1>2, <1>3 DEF SpaceInv, AckInv, Others
<1> QED BY <1>4, <1>5, <1>6, <1>7 DEF SpaceInv

LEMMA SpaceFills ==
  ASSUME SpaceInv, NEW t \in Tasks, Fill(t)
  PROVE  SpaceInv'
<1> DEFINE new == WholeSnapshot(task[t].core)
<1>1. /\ task[t].at = "opened" /\ Writing(t)
      /\ task' = [task EXCEPT ![t].at = "filled"]
      /\ UNCHANGED <<ws, core, replica, acked, failed, raced, gone>>
  BY DEF Fill, Writing
<1>2. /\ task' \in [Tasks -> TaskRecord] /\ Others(t) /\ Writing(t)'
      /\ task'[t].at = "filled" /\ task'[t].mine = task[t].mine
      /\ task'[t].core = task[t].core /\ task'[t].fd = task[t].fd
      /\ task'[t].attached = task[t].attached
  BY <1>1, Advances DEF SpaceInv
<1>3. new \in Snapshots /\ TornSnapshot \in Snapshots /\ TornSnapshot.is = "torn"
  <2>1. task[t].core \in Nat
    BY DEF SpaceInv, SpaceType, TaskRecord
  <2> QED BY <2>1, SnapshotTypes
<1>4. snap' \in [final : Snapshots, tmp : Snapshots]
  <2>1. \A old \in Snapshots : Over(old, new) \subseteq Snapshots
    BY <1>3 DEF Over
  <2>2. snap.final \in Snapshots /\ snap.tmp \in Snapshots
    BY DEF SpaceInv, SpaceType
  <2> HIDE DEF new
  <2>3. CASE \E file \in Over(snap.tmp, new) : snap' = [snap EXCEPT !.tmp = file]
    BY <2>1, <2>2, <2>3 DEF SpaceInv, SpaceType
  <2>4. CASE \E file \in Over(snap.final, new) : snap' = [snap EXCEPT !.final = file]
    BY <2>1, <2>2, <2>4 DEF SpaceInv, SpaceType
  <2>5. CASE UNCHANGED snap
    BY <2>5 DEF SpaceInv, SpaceType
  <2> QED BY <2>3, <2>4, <2>5 DEF Fill, new
<1>5. ~raced => snap'.final = snap.final /\ snap'.tmp = new
  <2> SUFFICES ASSUME ~raced PROVE snap'.final = snap.final /\ snap'.tmp = new
    OBVIOUS
  <2>1. task[t].fd = "tmp" /\ snap.tmp = TornSnapshot
    BY <1>1 DEF SpaceInv, FileInv
  <2>2. Over(snap.tmp, new) = {new}
    BY <1>3, <2>1 DEF Over
  <2>3. snap' = [snap EXCEPT !.tmp = new]
    BY <2>1, <2>2 DEF Fill
  <2> HIDE DEF new
  <2> QED BY <2>3 DEF SpaceInv, SpaceType
<1>6. SpaceType'
  BY <1>1, <1>2, <1>4 DEF SpaceInv, SpaceType
<1>7. HandleInv'
  BY <1>1, <1>2 DEF SpaceInv, HandleInv, Others
<1>8. FileInv'
  <2>1. ~raced => \A u \in Tasks \ {t} : ~Writing(u)
    BY <1>1 DEF SpaceInv, FileInv
  <2>2. \A u \in Tasks \ {t} : task'[u].at \in {"opened", "filled"} => Writing(u)
    BY <1>2 DEF Others, Writing
  <2> QED BY <1>1, <1>2, <1>5, <2>1, <2>2 DEF SpaceInv, FileInv, Others
<1>9. AckInv'
  BY <1>1, <1>2, <1>5 DEF SpaceInv, AckInv, Others
<1> QED BY <1>6, <1>7, <1>8, <1>9 DEF SpaceInv

(* What t leaves behind when it is done, for the other tasks. *)
LEMMA Rests ==
  ASSUME SpaceType, NEW t \in Tasks, task' = [task EXCEPT ![t] = Resting]
  PROVE  /\ task' \in [Tasks -> TaskRecord] /\ Others(t) /\ ~Writing(t)'
         /\ task'[t].at = "idle" /\ task'[t].fd = "tmp"
<1>1. Resting \in TaskRecord /\ Resting.at = "idle" /\ Resting.fd = "tmp"
  BY DEF Resting, TaskRecord
<1>2. /\ task' \in [Tasks -> TaskRecord] /\ task'[t] = Resting
      /\ \A u \in Tasks \ {t} : task'[u] = task[u]
  BY <1>1 DEF SpaceType
<1> QED BY <1>1, <1>2 DEF Others, Writing

(* acked names an event the core has applied, or stays. *)
LEMMA Acknowledges ==
  ASSUME SpaceInv, NEW t \in Tasks, Writing(t), Acknowledge(t)
  PROVE  /\ acked' \in Nat
         /\ acked' # acked => acked' = task[t].mine /\ ws # "none" /\ task[t].mine <= core
<1>1. task[t].mine \in Nat /\ acked \in Nat
  BY DEF SpaceInv, SpaceType, TaskRecord
<1>2. task[t].at # "idle"
  BY DEF Writing
<1> QED BY <1>1, <1>2 DEF Acknowledge, SpaceInv, HandleInv

LEMMA SpaceRenames ==
  ASSUME SpaceInv, NEW t \in Tasks, Rename(t)
  PROVE  SpaceInv' /\ (~raced => snap'.final.is = "whole")
<1>1. /\ task[t].at = "filled" /\ Writing(t) /\ Acknowledge(t)
      /\ snap' = [final |-> snap.tmp, tmp |-> NoSnapshot]
      /\ UNCHANGED <<ws, core, replica, failed, raced, gone>>
  BY DEF Rename, Writing
<1>2. \A u \in Tasks : task[u] \in TaskRecord
  BY DEF SpaceInv, SpaceType
<1>3. Resting \in TaskRecord /\ Resting.at = "idle" /\ Resting.fd = "tmp"
  BY DEF Resting, TaskRecord
<1>4. \A u \in Tasks : Follow(task[u].fd) \in {"final", "gone"}
  BY DEF Follow
<1>5. task' = [u \in Tasks |-> IF u = t THEN Resting
                               ELSE IF Writing(u) THEN [task[u] EXCEPT !.fd = Follow(@)]
                               ELSE task[u]]
  BY DEF Rename
<1>6. \A u \in Tasks \ {t} :
        /\ task'[u] \in TaskRecord
        /\ task'[u].at = task[u].at /\ task'[u].mine = task[u].mine
        /\ task'[u].core = task[u].core /\ task'[u].attached = task[u].attached
        /\ ~Writing(u) => task'[u].fd = task[u].fd
  BY <1>2, <1>4, <1>5 DEF TaskRecord
<1>7. task'[t] = Resting
  BY <1>5
<1>8. task' \in [Tasks -> TaskRecord]
  BY <1>3, <1>5, <1>6, <1>7
<1>9. ~Writing(t)' /\ \A u \in Tasks \ {t} : Writing(u)' <=> Writing(u)
  BY <1>3, <1>6, <1>7 DEF Writing
<1>10. task[t].core \in Nat /\ task[t].mine \in Nat
  BY <1>2 DEF TaskRecord
<1>11. snap.tmp \in Snapshots /\ NoSnapshot \in Snapshots
  BY <1>10, SnapshotTypes DEF SpaceInv, SpaceType
<1>12. snap'.final = snap.tmp /\ snap'.tmp = NoSnapshot
       /\ snap' \in [final : Snapshots, tmp : Snapshots]
  BY <1>1, <1>11
<1>13. acked' \in Nat
       /\ (acked' # acked => acked' = task[t].mine /\ ws # "none" /\ task[t].mine <= core)
  BY <1>1, Acknowledges
<1>14. SpaceType'
  BY <1>1, <1>8, <1>12, <1>13 DEF SpaceInv, SpaceType
<1>15. HandleInv'
  BY <1>1, <1>3, <1>6, <1>7, <1>9 DEF SpaceInv, HandleInv
<1>16. ~raced => /\ snap'.final.is = "whole" /\ snap'.final.core = task[t].core
                 /\ \A u \in Tasks : ~Writing(u)' /\ task'[u].at \notin {"opened", "filled"}
                 /\ ~gone
  <2> SUFFICES ASSUME ~raced
               PROVE  /\ snap'.final.is = "whole" /\ snap'.final.core = task[t].core
                      /\ \A u \in Tasks : ~Writing(u)' /\ task'[u].at \notin {"opened", "filled"}
                      /\ ~gone
    OBVIOUS
  <2>1. snap.tmp = WholeSnapshot(task[t].core) /\ ~gone
    BY <1>1 DEF SpaceInv, FileInv
  <2>2. \A u \in Tasks \ {t} : ~Writing(u)
    BY <1>1 DEF SpaceInv, FileInv
  <2>3. \A u \in Tasks : ~Writing(u)'
    BY <1>9, <2>2
  <2>4. \A u \in Tasks : task'[u].at \notin {"opened", "filled"}
    BY <2>3 DEF Writing
  <2>5. snap'.final.is = "whole" /\ snap'.final.core = task[t].core
    <3>1. snap'.final = WholeSnapshot(task[t].core)
      BY <1>12, <2>1, Zenon
    <3>2. /\ WholeSnapshot(task[t].core).is = "whole"
          /\ WholeSnapshot(task[t].core).core = task[t].core
      BY <1>10, SnapshotTypes
    <3> QED BY <3>1, <3>2, Zenon
  <2> QED BY <2>1, <2>3, <2>4, <2>5
<1>17. FileInv'
  BY <1>1, <1>16 DEF FileInv
<1>18. AckInv'
  <2>1. task[t].mine <= task[t].core
    BY <1>1 DEF SpaceInv, HandleInv
  <2> QED BY <1>1, <1>13, <1>16, <2>1 DEF SpaceInv, AckInv
<1> QED BY <1>14, <1>15, <1>16, <1>17, <1>18 DEF SpaceInv

(* A rename finds no temporary file only after a race; a write that fails  *)
(* leaves the final file alone.                                            *)
LEMMA SpaceGivesUp ==
  ASSUME SpaceInv, NEW t \in Tasks, RenameMissing(t) \/ WriteFails(t)
  PROVE  SpaceInv' /\ UNCHANGED <<ws, replica, snap>>
<1>1. /\ Writing(t) /\ Acknowledge(t) /\ task' = [task EXCEPT ![t] = Resting]
      /\ UNCHANGED <<ws, core, replica, snap, raced, gone>>
  BY DEF RenameMissing, WriteFails, Writing
<1>2. failed' \in BOOLEAN /\ (~failed' => ~failed /\ raced)
  <2>1. CASE RenameMissing(t)
    <3>1. task[t].at = "filled" /\ snap.tmp = NoSnapshot /\ failed' = failed
      BY <2>1 DEF RenameMissing
    <3>2. task[t].core \in Nat
      BY DEF SpaceInv, SpaceType, TaskRecord
    <3>3. raced
      BY <3>1, <3>2, SnapshotTypes DEF SpaceInv, FileInv
    <3> QED BY <3>1, <3>3 DEF SpaceInv, SpaceType
  <2>2. CASE WriteFails(t)
    BY <2>2 DEF WriteFails
  <2> QED BY <2>1, <2>2
<1>3. /\ task' \in [Tasks -> TaskRecord] /\ Others(t) /\ ~Writing(t)'
      /\ task'[t].at = "idle" /\ task'[t].fd = "tmp"
  BY <1>1, Rests DEF SpaceInv
<1>4. acked' \in Nat
  BY <1>1, Acknowledges
<1>5. SpaceType'
  BY <1>1, <1>2, <1>3, <1>4 DEF SpaceInv, SpaceType
<1>6. HandleInv'
  BY <1>1, <1>3 DEF SpaceInv, HandleInv, Others
<1>7. FileInv'
  BY <1>1, <1>3 DEF SpaceInv, FileInv, Others
<1>8. AckInv'
  BY <1>1, <1>2 DEF AckInv
<1> QED BY <1>1, <1>5, <1>6, <1>7, <1>8 DEF SpaceInv

(* delete: the replica first, then the snapshot. *)
LEMMA SpaceDropsDoc ==
  ASSUME SpaceInv, DropDoc
  PROVE  SpaceInv'
<1>1. /\ ws = "live" /\ ws' = "dropped" /\ replica' = FALSE
      /\ UNCHANGED <<core, snap, task, acked, failed, raced, gone>>
  BY DEF DropDoc
<1>2. SpaceType'
  BY <1>1 DEF SpaceInv, SpaceType
<1>3. HandleInv' /\ FileInv' /\ AckInv'
  BY <1>1 DEF SpaceInv, HandleInv, FileInv, AckInv, Writing
<1> QED BY <1>2, <1>3 DEF SpaceInv

LEMMA SpaceRemoves ==
  ASSUME SpaceInv, RemoveSnapshot
  PROVE  SpaceInv' /\ UNCHANGED replica
<1>1. /\ ws = "dropped" /\ ws' = "removed" /\ acked' = 0 /\ gone' = TRUE
      /\ snap' = [snap EXCEPT !.final = NoSnapshot]
      /\ UNCHANGED <<core, replica, failed>>
  BY DEF RemoveSnapshot
<1>2. raced' \in BOOLEAN /\ (~raced' => ~raced /\ \A t \in Tasks : ~Writing(t))
  BY DEF RemoveSnapshot, SpaceInv, SpaceType
<1>3. \A t \in Tasks : task[t] \in TaskRecord
  BY DEF SpaceInv, SpaceType
<1>4. task' = [t \in Tasks |-> [task[t] EXCEPT !.fd = IF @ = "final" THEN "gone" ELSE @]]
  BY DEF RemoveSnapshot
<1>5. \A t \in Tasks :
        /\ task'[t] \in TaskRecord
        /\ task'[t].at = task[t].at /\ task'[t].mine = task[t].mine
        /\ task'[t].core = task[t].core /\ task'[t].attached = task[t].attached
        /\ task[t].fd = "tmp" => task'[t].fd = "tmp"
  BY <1>3, <1>4 DEF TaskRecord
<1>6. task' \in [Tasks -> TaskRecord]
  BY <1>4, <1>5
<1>7. \A t \in Tasks : Writing(t)' <=> Writing(t)
  BY <1>5 DEF Writing
<1>8. NoSnapshot \in Snapshots /\ NoSnapshot.is = "none" /\ NoSnapshot.core = 0
  BY DEF Snapshots, NoSnapshot
<1>9. /\ snap' \in [final : Snapshots, tmp : Snapshots]
      /\ snap'.final = NoSnapshot /\ snap'.tmp = snap.tmp
  BY <1>1, <1>8 DEF SpaceInv, SpaceType
<1>10. SpaceType'
  BY <1>1, <1>2, <1>6, <1>9 DEF SpaceInv, SpaceType
<1>11. HandleInv'
  BY <1>1, <1>5, <1>7 DEF SpaceInv, HandleInv
<1>12. FileInv'
  <2>1. ~raced' => \A t \in Tasks : ~Writing(t)' /\ task'[t].at \notin {"opened", "filled"}
    BY <1>2, <1>5 DEF Writing
  <2> QED BY <1>1, <1>8, <1>9, <2>1 DEF FileInv
<1>13. AckInv'
  BY <1>1, <1>2, <1>7, <1>8, <1>9 DEF SpaceInv, SpaceType, AckInv
<1> QED BY <1>1, <1>10, <1>11, <1>12, <1>13 DEF SpaceInv

(* The actions that do not touch the handle and its snapshot. *)
LEMMA NodeLeavesSpace ==
  ASSUME Tick \/ SpawnNode \/ (\E n \in Nonces : IssueInvite(n))
         \/ (\E c \in Callers, n \in Nonces : Verify(c, n))
         \/ (\E c \in Callers : ClaimInvite(c) \/ JoinFails(c)) \/ UNCHANGED vars
  PROVE  UNCHANGED spaceVars
BY DEF Tick, SpawnNode, Start, GenerateKey, KeyWritten, KeyFails, IssueInvite, Verify,
       ClaimInvite, ClaimReplayed, ClaimFresh, StoreRedeemed, StoreRedeemedFails, ClaimReturns,
       JoinFails, vars

(* Closing the handle, or a delete that fails or ends. *)
Drops == DropHandle /\ UNCHANGED <<replica, snap, acked, failed, raced, gone>>

(* Every step, by what it does to the handle and the file. *)
LEMMA SpaceCases ==
  ASSUME [Next]_vars
  PROVE  \/ UNCHANGED spaceVars \/ ProcessStops \/ NewWorkspace \/ Open \/ Drops
         \/ DropDoc \/ RemoveSnapshot
         \/ \E t \in Tasks : Handle(t) \/ Persist(t)
<1>1. CASE \/ Tick \/ SpawnNode \/ (\E n \in Nonces : IssueInvite(n))
           \/ (\E c \in Callers, n \in Nonces : Verify(c, n))
           \/ (\E c \in Callers : ClaimInvite(c) \/ JoinFails(c)) \/ UNCHANGED vars
  BY <1>1, NodeLeavesSpace
<1>2. CASE (\E c \in Callers : JoinWorkspace(c)) \/ Create
  BY <1>2 DEF JoinWorkspace, Create
<1>3. CASE Close \/ Delete
  BY <1>3 DEF Close, Delete, DropDocFails, RemoveSnapshotFails, DeleteReturns, Drops
<1>4. CASE ProcessStops \/ Open \/ \E t \in Tasks : Handle(t) \/ Persist(t)
  BY <1>4
<1> QED BY <1>1, <1>2, <1>3, <1>4 DEF Next

LEMMA SpaceStepInv == SpaceInv /\ [Next]_vars => SpaceInv'
<1> SUFFICES ASSUME SpaceInv, [Next]_vars PROVE SpaceInv'
  OBVIOUS
<1>1. CASE UNCHANGED spaceVars \/ ProcessStops \/ Drops
  BY <1>1, SpaceIdle, SpaceStops, SpaceDrops DEF Drops
<1>2. CASE NewWorkspace \/ Open \/ DropDoc \/ RemoveSnapshot
  BY <1>2, SpaceNew, SpaceOpens, SpaceDropsDoc, SpaceRemoves
<1>3. CASE \E t \in Tasks : Handle(t) \/ Persist(t)
  BY <1>3, SpaceHandles, SpaceExports, SpaceOpensTmp, SpaceFills, SpaceRenames, SpaceGivesUp
     DEF Persist
<1> QED BY <1>1, <1>2, <1>3, SpaceCases

LEMMA SpaceInvariant == Spec => []SpaceInv
BY SpaceInit, SpaceStepInv, PTL DEF Spec

(* Every variable of the node, its tickets and its workspace keeps its     *)
(* type, and no behaviour exceeds its bounds.                              *)
THEOREM TypeCorrect == Spec => []TypeOK
<1>1. NodeInv /\ SpaceInv => TypeOK
  BY DEF NodeInv, NodeType, LimitType, SpaceInv, SpaceType, TaskRecord, TypeOK
<1> QED BY <1>1, NodeInvariant, SpaceInvariant, PTL

(* What a caller was told is on disk is on disk, for any number of tasks,  *)
(* events and stops, as long as no write has failed and no two persists    *)
(* have overlapped (drive, persist).                                       *)
THEOREM AcknowledgedIsKept == Spec => []AcknowledgedSurvives
<1>1. SpaceInv => AcknowledgedSurvives
  BY DEF SpaceInv, AckInv, AcknowledgedSurvives
<1> QED BY <1>1, SpaceInvariant, PTL

(* No stop and no failed write leaves a snapshot that does not decode, as  *)
(* long as no two persists have overlapped (write_private).                *)
THEOREM NeverTorn == Spec => []SnapshotWhole
<1>1. SpaceInv => SnapshotWhole
  BY DEF SpaceInv, FileInv, SnapshotWhole
<1> QED BY <1>1, SpaceInvariant, PTL

(* A deleted workspace has no snapshot until it is created or joined anew, *)
(* as long as its delete met no persist (Workspace::delete).               *)
THEOREM DeletedStaysDeleted == Spec => []DeletedIsGone
<1>1. SpaceInv => DeletedIsGone
  BY DEF SpaceInv, FileInv, DeletedIsGone
<1> QED BY <1>1, SpaceInvariant, PTL

(* A workspace that opens goes on opening until a delete drops its         *)
(* replica: delete drops the replica before it removes the snapshot, and   *)
(* what a persist renames is whole.                                        *)
THEOREM OnlyDeleteDrops == Spec => DroppedOnlyByDelete
<1>1. ASSUME SpaceInv, [Next]_vars
      PROVE  [Opens /\ ~raced' => Opens' \/ (ws = "live" /\ ws' = "dropped")]_vars
  <2> SUFFICES ASSUME Opens, ~raced' PROVE Opens' \/ (ws = "live" /\ ws' = "dropped")
    OBVIOUS
  <2>1. CASE UNCHANGED spaceVars \/ ProcessStops \/ Drops \/ Open
    BY <2>1 DEF spaceVars, ProcessStops, Drops, Open, Opens
  <2>2. CASE NewWorkspace
    BY <2>2 DEF NewWorkspace, Opens
  <2>3. CASE DropDoc
    BY <2>3 DEF DropDoc
  <2>4. CASE RemoveSnapshot
    BY <1>1, <2>4 DEF RemoveSnapshot, Opens, SpaceInv, HandleInv
  <2>5. ASSUME NEW t \in Tasks, Handle(t) \/ Persist(t)
        PROVE  Opens' \/ (ws = "live" /\ ws' = "dropped")
    <3>1. CASE Handle(t) \/ Export(t)
      BY <3>1 DEF Handle, Export, Opens
    <3>2. CASE OpenTmp(t)
      <4>1. snap' = [snap EXCEPT !.tmp = TornSnapshot] /\ replica' = replica
        BY <3>2 DEF OpenTmp
      <4> QED BY <1>1, <4>1 DEF Opens, SpaceInv, SpaceType
    <3>3. CASE Fill(t)
      <4>1. task[t].at = "opened" /\ Writing(t) /\ ~raced /\ replica' = replica
        BY <3>3 DEF Fill, Writing
      <4>2. task[t].fd = "tmp"
        BY <1>1, <4>1 DEF SpaceInv, FileInv
      <4>3. \E file : snap' = [snap EXCEPT !.tmp = file]
        BY <3>3, <4>2 DEF Fill
      <4> QED BY <1>1, <4>1, <4>3 DEF Opens, SpaceInv, SpaceType
    <3>4. CASE Rename(t)
      BY <1>1, <3>4, SpaceRenames DEF Rename, Opens
    <3>5. CASE RenameMissing(t) \/ WriteFails(t)
      BY <1>1, <3>5, SpaceGivesUp DEF Opens
    <3> QED BY <2>5, <3>1, <3>2, <3>3, <3>4, <3>5 DEF Persist
  <2> QED BY <2>1, <2>2, <2>3, <2>4, <2>5, <1>1, SpaceCases
<1> QED BY <1>1, SpaceInvariant, PTL DEF Spec, DroppedOnlyByDelete

=============================================================================
