----------------------------- MODULE Lifecycle -----------------------------
(***************************************************************************)
(* One persistent node and the workspace it holds: starting the node       *)
(* (node.rs, store.rs), redeeming invite tickets (invite.rs, the ledger of *)
(* spent nonces), and creating, joining, opening, writing, closing and     *)
(* deleting the workspace (workspace.rs), with a stop of the process       *)
(* between any two steps and failures of the disk.                         *)
(*                                                                         *)
(* Every file is written by write_private: fill a sibling temporary file,  *)
(* then rename it.  The node key has one writer, the ledger is written     *)
(* under its mutex; snapshots are written by whichever tasks persist, with *)
(* no lock and through one temporary name.                                 *)
(***************************************************************************)
EXTENDS Naturals, FiniteSets

CONSTANTS
  Nonces,      \* tickets, named by their nonces
  Genuine,     \* tickets with the right domain, signature, issuer and invitee
  Callers,     \* concurrent calls of join
  App,         \* the task of the application that drives the workspace
  Pumps,       \* its background tasks
  Lifetime,    \* INVITE_LIFETIME_SECS
  Limits       \* bounds of a behaviour: the tickets issued, the clock, the events
               \* of the core, the failed writes or calls and the stops of the process

Tasks == Pumps \cup {App}

ASSUME LifecycleAssumption ==
  /\ Nonces # {}
  /\ Genuine \subseteq Nonces
  /\ App \notin Pumps
  /\ Lifetime \in Nat
  /\ Limits \subseteq [tickets : SUBSET Nonces, clock : Nat, events : Nat, faults : Nat,
                       stops : Nat]

VARIABLES
  clock,       \* the wall clock
  notAfter,    \* expiry of each issued ticket; 0 is not issued
  phase,       \* the node: "down", "keying", "up"
  key,         \* the endpoint key of this run, 0 for none
  redeemed,    \* Node.redeemed: nonces spent in this run
  keyFile,     \* endpoint.key: 0 for no file
  made,        \* keys generated so far
  ledger,      \* the file of spent nonces, final and temporary
  join,        \* each call of join: step and nonce
  ws,          \* the handle: "none", "live", "dropped", "removed"
  core,        \* the core in memory, as the number of events it has applied
  replica,     \* the docs store holds the workspace's replica
  snap,        \* the snapshot file, final and temporary
  task,        \* what each task is persisting
  limit,       \* the bounds of this behaviour
  faults, stops,
  uses,        \* history: how often each ticket was honoured
  bound,       \* history: the endpoint keys the node has run with
  acked,       \* history: the last event whose caller was told Ok
  failed,      \* history: a snapshot write has failed
  raced,       \* history: two snapshot writes overlapped, or one a delete
  gone         \* history: the workspace has been deleted

nodeVars == <<phase, key, redeemed, keyFile, made, bound>>
ticketVars == <<clock, notAfter, join, ledger, uses>>
spaceVars == <<ws, core, replica, snap, task, acked, failed, raced, gone>>
limitVars == <<limit, faults, stops>>
vars == <<nodeVars, ticketVars, spaceVars, limitVars>>

(***************************************************************************)
(* Files.  A ledger is whole or torn; a torn one is read as empty.  A      *)
(* snapshot is missing, torn or whole, and holds a state of the core.      *)
(***************************************************************************)
Ledgers == [whole : BOOLEAN, nonces : SUBSET Nonces]
TornLedger == [whole |-> FALSE, nonces |-> {}]
WholeLedger(s) == [whole |-> TRUE, nonces |-> s]
LoadRedeemed(file) == IF file.whole THEN file.nonces ELSE {}

Snapshots == [is : {"none", "torn", "whole"}, core : Nat]
NoSnapshot == [is |-> "none", core |-> 0]
TornSnapshot == [is |-> "torn", core |-> 0]
WholeSnapshot(c) == [is |-> "whole", core |-> c]

Resting == [at |-> "idle", mine |-> 0, core |-> 0, fd |-> "tmp", attached |-> FALSE]
NotJoining(n) == [at |-> "idle", nonce |-> n]
AnyNonce == CHOOSE n \in Nonces : TRUE

Writing(t) == task[t].at \in {"exported", "opened", "filled"}
Holds(c) == join[c].at \in {"recording", "recorded"}

Init ==
  /\ clock = 1 /\ notAfter = [n \in Nonces |-> 0]
  /\ phase = "down" /\ key = 0 /\ redeemed = {}
  /\ keyFile = 0 /\ made = 0 /\ bound = {}
  /\ ledger = [final |-> WholeLedger({}), tmp |-> TornLedger]
  /\ join = [c \in Callers |-> NotJoining(AnyNonce)]
  /\ ws = "none" /\ core = 0 /\ replica = FALSE
  /\ snap = [final |-> NoSnapshot, tmp |-> NoSnapshot]
  /\ task = [t \in Tasks |-> Resting]
  /\ limit \in Limits /\ faults = 0 /\ stops = 0
  /\ uses = [n \in Nonces |-> 0]
  /\ acked = 0 /\ failed = FALSE /\ raced = FALSE /\ gone = FALSE

Tick ==
  /\ clock < limit.clock
  /\ clock' = clock + 1
  /\ UNCHANGED <<nodeVars, notAfter, join, ledger, uses, spaceVars, limitVars>>

Fault ==
  /\ faults < limit.faults
  /\ faults' = faults + 1
  /\ UNCHANGED <<limit, stops>>

(***************************************************************************)
(* Node::spawn_persistent_with_options.  Store::endpoint_key reads the key *)
(* or generates one and writes it before the endpoint is bound to it;      *)
(* then the ledger is loaded.                                              *)
(***************************************************************************)
Bind(k) ==
  /\ phase' = "up"
  /\ key' = k
  /\ bound' = bound \cup {k}
  /\ redeemed' = LoadRedeemed(ledger.final)

Start ==
  /\ phase = "down" /\ keyFile # 0
  /\ Bind(keyFile)
  /\ UNCHANGED <<keyFile, made, ticketVars, spaceVars, limitVars>>

GenerateKeyBound ==
  /\ phase = "down" /\ keyFile = 0
  /\ made' = made + 1
  /\ phase' = "keying"
  /\ bound' = bound \cup {made'}
  /\ UNCHANGED <<key, redeemed, keyFile, ticketVars, spaceVars, limitVars>>

GenerateKey ==
  /\ phase = "down" /\ keyFile = 0
  /\ made' = made + 1
  /\ phase' = "keying"
  /\ UNCHANGED <<key, redeemed, keyFile, bound, ticketVars, spaceVars, limitVars>>

KeyWritten ==
  /\ phase = "keying"
  /\ keyFile' = made
  /\ Bind(made)
  /\ UNCHANGED <<made, ticketVars, spaceVars, limitVars>>

KeyFails ==
  /\ phase = "keying"
  /\ phase' = "down"
  /\ Fault
  /\ UNCHANGED <<key, redeemed, keyFile, made, bound, ticketVars, spaceVars>>

(***************************************************************************)
(* The process stops: memory is lost, files stay as they are.              *)
(***************************************************************************)
ProcessStops ==
  /\ phase # "down" /\ stops < limit.stops
  /\ stops' = stops + 1
  /\ phase' = "down" /\ key' = 0 /\ redeemed' = {}
  /\ join' = [c \in Callers |-> NotJoining(join[c].nonce)]
  /\ ws' = "none" /\ core' = 0
  /\ task' = [t \in Tasks |-> Resting]
  /\ UNCHANGED <<keyFile, made, bound, clock, notAfter, ledger, uses, replica,
                 snap, acked, failed, raced, gone, limit, faults>>

(***************************************************************************)
(* Tickets.  An inviter mints one (build_invite, terms_now); join checks   *)
(* it (Invite::verify), claims its nonce (Node::claim_invite, which writes *)
(* the ledger before it returns and holds the mutex meanwhile), and only   *)
(* then replays the log and imports the replica.                           *)
(***************************************************************************)
IssueInvite(n) ==
  /\ n \in limit.tickets /\ notAfter[n] = 0
  /\ notAfter' = [notAfter EXCEPT ![n] = clock + Lifetime]
  /\ UNCHANGED <<nodeVars, clock, join, ledger, uses, spaceVars, limitVars>>

Verifies(n) == n \in Genuine /\ notAfter[n] # 0 /\ notAfter[n] >= clock

JoinStep(c, from, to) ==
  /\ join[c].at = from
  /\ join' = [join EXCEPT ![c].at = to]

Verify(c, n) ==
  /\ phase = "up" /\ ws = "none" /\ join[c].at = "idle"
  /\ Verifies(n)
  /\ join' = [join EXCEPT ![c] = [at |-> "verified", nonce |-> n]]
  /\ UNCHANGED <<nodeVars, clock, notAfter, ledger, uses, spaceVars, limitVars>>

ClaimReplayed(c) ==
  /\ \A d \in Callers : ~Holds(d)
  /\ join[c].nonce \in redeemed
  /\ JoinStep(c, "verified", "idle")
  /\ UNCHANGED <<nodeVars, clock, notAfter, ledger, uses, spaceVars, limitVars>>

ClaimFreshUnrecorded(c) ==
  /\ \A d \in Callers : ~Holds(d)
  /\ join[c].nonce \notin redeemed
  /\ JoinStep(c, "verified", "recorded")
  /\ redeemed' = redeemed \cup {join[c].nonce}
  /\ UNCHANGED <<phase, key, keyFile, made, bound, clock, notAfter, ledger, uses,
                 spaceVars, limitVars>>

ClaimFresh(c) ==
  /\ \A d \in Callers : ~Holds(d)
  /\ join[c].nonce \notin redeemed
  /\ JoinStep(c, "verified", "recording")
  /\ redeemed' = redeemed \cup {join[c].nonce}
  /\ ledger' = [ledger EXCEPT !.tmp = TornLedger]
  /\ UNCHANGED <<phase, key, keyFile, made, bound, clock, notAfter, uses, spaceVars,
                 limitVars>>

StoreRedeemedOne(c) ==
  /\ JoinStep(c, "recording", "recorded")
  /\ ledger' = [final |-> WholeLedger({join[c].nonce}), tmp |-> TornLedger]
  /\ UNCHANGED <<nodeVars, clock, notAfter, uses, spaceVars, limitVars>>

StoreRedeemed(c) ==
  /\ JoinStep(c, "recording", "recorded")
  /\ ledger' = [final |-> WholeLedger(redeemed), tmp |-> TornLedger]
  /\ UNCHANGED <<nodeVars, clock, notAfter, uses, spaceVars, limitVars>>

StoreRedeemedFails(c) ==
  /\ JoinStep(c, "recording", "recorded")
  /\ Fault
  /\ UNCHANGED <<nodeVars, clock, notAfter, ledger, uses, spaceVars>>

ClaimReturns(c) ==
  /\ JoinStep(c, "recorded", "claimed")
  /\ uses' = [uses EXCEPT ![join[c].nonce] = @ + 1]
  /\ UNCHANGED <<nodeVars, clock, notAfter, ledger, spaceVars, limitVars>>

JoinFails(c) ==
  /\ JoinStep(c, "claimed", "idle")
  /\ UNCHANGED <<nodeVars, clock, notAfter, ledger, uses, spaceVars, limitVars>>

ClaimInvite(c) ==
  ClaimReplayed(c) \/ ClaimFresh(c) \/ StoreRedeemed(c) \/ StoreRedeemedFails(c)
  \/ ClaimReturns(c)

(***************************************************************************)
(* The handle.  Workspace::assemble spawns the pumps and persists before   *)
(* create, join or open returns.  The application holds one handle at a    *)
(* time.                                                                   *)
(***************************************************************************)
Begin(t, event) ==
  task' = [task EXCEPT ![t] = [Resting EXCEPT !.at = "effects", !.mine = event,
                                              !.attached = TRUE]]

Assemble(event) ==
  /\ phase = "up" /\ ws = "none" /\ task[App].at = "idle"
  /\ ws' = "live" /\ core' = event
  /\ Begin(App, event)
  /\ gone' = FALSE

NewWorkspace ==
  /\ Assemble(1)
  /\ replica' = TRUE
  /\ acked' = 0
  /\ UNCHANGED <<snap, failed, raced>>

Create ==
  /\ NewWorkspace
  /\ UNCHANGED <<nodeVars, ticketVars, limitVars>>

JoinWorkspace(c) ==
  /\ JoinStep(c, "claimed", "idle")
  /\ NewWorkspace
  /\ UNCHANGED <<nodeVars, clock, notAfter, ledger, uses, limitVars>>

Opens == snap.final.is = "whole" /\ replica

Open ==
  /\ Opens
  /\ Assemble(snap.final.core)
  /\ UNCHANGED <<nodeVars, ticketVars, limitVars, replica, snap, acked, failed, raced>>

(***************************************************************************)
(* drive, and the pumps: handle an event under the lock, perform its       *)
(* effects, persist.  persist exports the core under the lock and writes   *)
(* the file after it, on a blocking thread.                                *)
(***************************************************************************)
HandleAcknowledged(t) ==
  /\ ws # "none" /\ (t = App => ws = "live")
  /\ task[t].at = "idle" /\ core < limit.events
  /\ core' = core + 1
  /\ Begin(t, core')
  /\ acked' = IF t = App THEN core' ELSE acked
  /\ UNCHANGED <<nodeVars, ticketVars, limitVars, ws, replica, snap, failed, raced, gone>>

Handle(t) ==
  /\ ws # "none" /\ (t = App => ws = "live")
  /\ task[t].at = "idle" /\ core < limit.events
  /\ core' = core + 1
  /\ Begin(t, core')
  /\ UNCHANGED <<nodeVars, ticketVars, limitVars, ws, replica, snap, acked, failed,
                 raced, gone>>

Export(t) ==
  /\ task[t].at = "effects"
  /\ task' = [task EXCEPT ![t].at = "exported", ![t].core = core]
  /\ raced' = (raced \/ ws = "removed" \/ \E u \in Tasks \ {t} : Writing(u))
  /\ UNCHANGED <<nodeVars, ticketVars, limitVars, ws, core, replica, snap, acked,
                 failed, gone>>

OpenInPlace(t) ==
  /\ task[t].at = "exported"
  /\ task' = [task EXCEPT ![t].at = "opened", ![t].fd = "tmp"]
  /\ snap' = [final |-> TornSnapshot, tmp |-> TornSnapshot]
  /\ UNCHANGED <<nodeVars, ticketVars, limitVars, ws, core, replica, acked, failed,
                 raced, gone>>

OpenTmp(t) ==
  /\ task[t].at = "exported"
  /\ task' = [task EXCEPT ![t].at = "opened", ![t].fd = "tmp"]
  /\ snap' = [snap EXCEPT !.tmp = TornSnapshot]
  /\ UNCHANGED <<nodeVars, ticketVars, limitVars, ws, core, replica, acked, failed,
                 raced, gone>>

\* What a file holds once t has written its bytes over what is there.
Over(old, new) == IF old.is = "whole" THEN {new, TornSnapshot} ELSE {new}

Fill(t) ==
  LET new == WholeSnapshot(task[t].core) IN
  /\ task[t].at = "opened"
  /\ task' = [task EXCEPT ![t].at = "filled"]
  /\ \/ /\ task[t].fd = "tmp"
        /\ \E file \in Over(snap.tmp, new) : snap' = [snap EXCEPT !.tmp = file]
     \/ /\ task[t].fd = "final"
        /\ \E file \in Over(snap.final, new) : snap' = [snap EXCEPT !.final = file]
     \/ /\ task[t].fd = "gone"
        /\ UNCHANGED snap
  /\ UNCHANGED <<nodeVars, ticketVars, limitVars, ws, core, replica, acked, failed,
                 raced, gone>>

\* The other descriptors follow the file they opened.
Follow(fd) == IF fd = "tmp" THEN "final" ELSE "gone"

Acknowledge(t) ==
  acked' = IF t = App /\ task[t].attached THEN task[t].mine ELSE acked

Rename(t) ==
  /\ task[t].at = "filled" /\ snap.tmp # NoSnapshot
  /\ snap' = [final |-> snap.tmp, tmp |-> NoSnapshot]
  /\ task' = [u \in Tasks |-> IF u = t THEN Resting
                              ELSE IF Writing(u) THEN [task[u] EXCEPT !.fd = Follow(@)]
                              ELSE task[u]]
  /\ Acknowledge(t)
  /\ UNCHANGED <<nodeVars, ticketVars, limitVars, ws, core, replica, failed, raced,
                 gone>>

RenameMissing(t) ==
  /\ task[t].at = "filled" /\ snap.tmp = NoSnapshot
  /\ task' = [task EXCEPT ![t] = Resting]
  /\ Acknowledge(t)
  /\ UNCHANGED <<nodeVars, ticketVars, limitVars, ws, core, replica, snap, failed,
                 raced, gone>>

WriteFails(t) ==
  /\ Writing(t)
  /\ Fault
  /\ task' = [task EXCEPT ![t] = Resting]
  /\ failed' = TRUE
  /\ Acknowledge(t)
  /\ UNCHANGED <<nodeVars, ticketVars, ws, core, replica, snap, raced, gone>>

Persist(t) ==
  Export(t) \/ OpenTmp(t) \/ Fill(t) \/ Rename(t) \/ RenameMissing(t) \/ WriteFails(t)

(***************************************************************************)
(* Dropping the handle aborts the tasks; a write that has reached the      *)
(* blocking thread goes on.  delete drops the replica, forgets the roster, *)
(* removes the snapshot, and drops the handle at its end.                  *)
(***************************************************************************)
DropHandleOnly ==
  /\ ws' = "none"
  /\ UNCHANGED <<core, task>>

DropHandle ==
  /\ ws' = "none" /\ core' = 0
  /\ task' = [t \in Tasks |-> IF Writing(t) THEN [task[t] EXCEPT !.attached = FALSE]
                              ELSE Resting]

Close ==
  /\ ws = "live"
  /\ DropHandle
  /\ UNCHANGED <<nodeVars, ticketVars, limitVars, replica, snap, acked, failed, raced,
                 gone>>

DropDoc ==
  /\ ws = "live" /\ task[App].at = "idle"
  /\ ws' = "dropped"
  /\ replica' = FALSE
  /\ UNCHANGED <<nodeVars, ticketVars, limitVars, core, snap, task, acked, failed,
                 raced, gone>>

DropDocFailsLate ==
  /\ ws = "live" /\ task[App].at = "idle"
  /\ Fault
  /\ DropHandle
  /\ snap' = [snap EXCEPT !.final = NoSnapshot] /\ acked' = 0
  /\ UNCHANGED <<nodeVars, ticketVars, replica, failed, raced, gone>>

DropDocFails ==
  /\ ws = "live" /\ task[App].at = "idle"
  /\ Fault
  /\ DropHandle
  /\ UNCHANGED <<nodeVars, ticketVars, replica, snap, acked, failed, raced, gone>>

RemoveSnapshot ==
  /\ ws = "dropped"
  /\ ws' = "removed"
  /\ snap' = [snap EXCEPT !.final = NoSnapshot]
  /\ task' = [t \in Tasks |-> [task[t] EXCEPT !.fd = IF @ = "final" THEN "gone" ELSE @]]
  /\ acked' = 0 /\ gone' = TRUE
  /\ raced' = (raced \/ \E t \in Tasks : Writing(t))
  /\ UNCHANGED <<nodeVars, ticketVars, limitVars, core, replica, failed>>

RemoveSnapshotFails ==
  /\ ws = "dropped"
  /\ Fault
  /\ DropHandle
  /\ UNCHANGED <<nodeVars, ticketVars, replica, snap, acked, failed, raced, gone>>

DeleteReturns ==
  /\ ws = "removed"
  /\ DropHandle
  /\ UNCHANGED <<nodeVars, ticketVars, limitVars, replica, snap, acked, failed, raced,
                 gone>>

Delete ==
  DropDoc \/ DropDocFails \/ RemoveSnapshot \/ RemoveSnapshotFails \/ DeleteReturns

SpawnNode == Start \/ GenerateKey \/ KeyWritten \/ KeyFails

Next ==
  \/ Tick \/ SpawnNode \/ ProcessStops
  \/ \E n \in Nonces : IssueInvite(n)
  \/ \E c \in Callers, n \in Nonces : Verify(c, n)
  \/ \E c \in Callers : ClaimInvite(c) \/ JoinFails(c) \/ JoinWorkspace(c)
  \/ Create \/ Open \/ Close \/ Delete
  \/ \E t \in Tasks : Handle(t) \/ Persist(t)

Spec == Init /\ [][Next]_vars

-----------------------------------------------------------------------------
\* Types of the variables.
TypeOK ==
  /\ clock \in Nat /\ notAfter \in [Nonces -> Nat]
  /\ phase \in {"down", "keying", "up"}
  /\ key \in Nat /\ keyFile \in Nat /\ made \in Nat /\ bound \subseteq Nat
  /\ redeemed \subseteq Nonces
  /\ ledger \in [final : Ledgers, tmp : Ledgers]
  /\ join \in [Callers -> [at : {"idle", "verified", "recording", "recorded", "claimed"},
                           nonce : Nonces]]
  /\ ws \in {"none", "live", "dropped", "removed"}
  /\ core \in Nat /\ replica \in BOOLEAN
  /\ snap \in [final : Snapshots, tmp : Snapshots]
  /\ task \in [Tasks -> [at : {"idle", "effects", "exported", "opened", "filled"},
                         mine : Nat, core : Nat, fd : {"tmp", "final", "gone"},
                         attached : BOOLEAN]]
  /\ limit \in Limits /\ faults \in 0..limit.faults /\ stops \in 0..limit.stops
  /\ uses \in [Nonces -> Nat]
  /\ acked \in Nat /\ failed \in BOOLEAN /\ raced \in BOOLEAN /\ gone \in BOOLEAN

(***************************************************************************)
(* The node as the abstract redemption of tickets.  A nonce whose ledger   *)
(* write is under way is still open: its caller has not been told.         *)
(***************************************************************************)
InFlight == {join[c].nonce : c \in {d \in Callers : Holds(d)}}
Spent == IF phase = "up" THEN redeemed \ InFlight ELSE LoadRedeemed(ledger.final)

R == INSTANCE Redemption WITH
       open <- Nonces \ Spent,
       unrecorded <- Spent \ LoadRedeemed(ledger.final)

\* The redemption of tickets, with its ledger file, its mutex, concurrent
\* joins, stops and failed writes, implements Redemption: a ticket is honoured
\* only while open, and a stop reopens only what could not be recorded
\* (claim_invite, node.rs:388).
RedeemsOnce == R!Spec

\* While no write has failed, no ticket is honoured twice, through any number
\* of concurrent joins, stops and restarts.
SingleUse == faults = 0 => \A n \in Nonces : uses[n] <= 1

\* The node runs under one endpoint key for ever: a key the endpoint was bound
\* to is on disk, also when the process stopped while writing it
\* (Store::endpoint_key).
EndpointStable == \A a, b \in bound : a = b

\* The promise of drive, "a caller told its write succeeded must find that
\* write again after a restart": while no write has failed and
\* persists have not overlapped, the file holds every acknowledged event.
AcknowledgedSurvives == ~raced /\ ~failed => acked <= snap.final.core

\* A snapshot on disk can be decoded, whatever moment the process stopped at,
\* as long as persists have not overlapped (write_private).
SnapshotWhole == ~raced => snap.final.is # "torn"

\* A workspace that opens goes on opening until delete drops its replica: no
\* stop, failed write, or failed delete takes it away, as long as persists have
\* not overlapped (delete removes the snapshot last).
DroppedOnlyByDelete ==
  [][Opens /\ ~raced' => Opens' \/ (ws = "live" /\ ws' = "dropped")]_vars

\* A deleted workspace stays deleted until it is created or joined anew, as
\* long as delete did not overlap a persist of a pump.
DeletedIsGone == gone /\ ~raced => snap.final = NoSnapshot

\* The unconditional promise: what a caller was told is on disk, if no write
\* has failed.
AcknowledgedIsDurable == faults = 0 => acked <= snap.final.core

=============================================================================
