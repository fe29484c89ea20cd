----------------------------- MODULE Namespace ------------------------------
(***************************************************************************)
(* Namespace rotation: a removal abandons the replicated index for a fresh *)
(* one, whose capability (the ticket) is announced under the group key.    *)
(* The core half is WorkspaceState (state.rs); the facade half is the task *)
(* that mints the replica and the tasks that switch this node onto it      *)
(* (workspace.rs).  The core steps under the state lock; the effects it    *)
(* returns are performed after the lock is released, by the task that      *)
(* drove the step.  A node has one control loop and, here, one caller of   *)
(* drive; the two interleave.                                              *)
(*                                                                         *)
(* beekem is external.  A member merges a removal once it has merged what  *)
(* the removal depends on, and reads an announcement iff it has merged the *)
(* removals its author had merged and is not among the removed.  A ticket  *)
(* stands for its own digest; 0 is the empty ticket and its all-zero       *)
(* digest.  Every user has one device and membership only shrinks here.    *)
(***************************************************************************)
EXTENDS Integers, FiniteSets

CONSTANTS
    Peer,           \* the devices of the workspace
    Admin,          \* those whose user holds the Admin role
    Ticket,         \* the capabilities that may be minted, by digest
    MaxEpoch,       \* bound on the generation counter
    MaxRemovals,    \* bound on the distinct removals issued
    Lossy,          \* whether gossip may lose an announcement for good
    MaxFaults,      \* bound on restarts, failed mints and failed imports
    NoPeer          \* the minter of a ticket nobody has minted

ASSUME NamespaceAssumption ==
    /\ Admin \subseteq Peer
    /\ Ticket \subseteq Nat \ {0}
    /\ NoPeer \notin Peer

VARIABLES
    view,           \* the removals each peer has merged
    ns,             \* WorkspaceState.namespace with its namespace_ticket
    open,           \* Inner.doc: the replica the facade reads and writes
    task,           \* where each peer's two tasks are in their effects
    removals,       \* the Remove operations on the control plane
    announced,      \* the namespace announcements on the control plane
    disk,           \* the persisted WorkspaceRecord
    excluded,       \* history: who was removed in the minter's view of a ticket
    minter,         \* history: who minted a ticket
    born,           \* history: the generation a ticket was minted for
    learnt,         \* history: the tickets a peer has ever held
    faults          \* restarts and failures so far

core == <<view, ns>>
history == <<excluded, minter, born, learnt>>
vars == <<view, ns, open, task, removals, announced, disk, history, faults>>

Generation == [epoch : Nat, ticket : Ticket \cup {0}]
Task == {"drive", "loop"}
Stage == [at : {"idle", "mint", "adopt"}, epoch : Nat, ticket : Ticket \cup {0}]
Record == [view : SUBSET Peer, ns : Generation, open : Ticket \cup {0}]
Removal == [member : Peer, deps : SUBSET Peer]
Announcement == [from : Peer, epoch : Nat, ticket : Ticket, view : SUBSET Peer]

Initial == [epoch |-> 0, ticket |-> 0]
Idle == [at |-> "idle", epoch |-> 0, ticket |-> 0]

TypeOK ==
    /\ view \in [Peer -> SUBSET Peer]
    /\ ns \in [Peer -> Generation]
    /\ open \in [Peer -> Ticket \cup {0}]
    /\ task \in [Peer -> [Task -> Stage]]
    /\ removals \subseteq Removal
    /\ announced \subseteq Announcement
    /\ disk \in [Peer -> Record]
    /\ excluded \in [Ticket -> SUBSET Peer]
    /\ minter \in [Ticket -> Peer \cup {NoPeer}]
    /\ born \in [Ticket -> Nat]
    /\ learnt \in [Peer -> SUBSET Ticket]
    /\ faults \in Nat

Init ==
    /\ view = [p \in Peer |-> {}]
    /\ ns = [p \in Peer |-> Initial]
    /\ open = [p \in Peer |-> 0]
    /\ task = [p \in Peer |-> [w \in Task |-> Idle]]
    /\ removals = {} /\ announced = {}
    /\ disk = [p \in Peer |-> [view |-> {}, ns |-> Initial, open |-> 0]]
    /\ excluded = [t \in Ticket |-> {}]
    /\ minter = [t \in Ticket |-> NoPeer]
    /\ born = [t \in Ticket |-> 0]
    /\ learnt = [p \in Peer |-> {}]
    /\ faults = 0

-----------------------------------------------------------------------------
NewerByEpoch(a, b) == a.epoch > b.epoch

(* The derived order on NamespaceEpoch: epoch first, digest second. *)
Newer(a, b) ==
    \/ a.epoch > b.epoch
    \/ a.epoch = b.epoch /\ a.ticket > b.ticket

ReadableEarly(p, m) == p \notin m.view

(* decrypt: the key is derivable by whoever the author had not removed,    *)
(* once the operation that established it has been merged.                 *)
Readable(p, m) == p \notin m.view /\ m.view \subseteq view[p]

(* What republish_namespace puts on the wire: nothing for an empty ticket. *)
Announce(p) ==
    {[from |-> p, epoch |-> ns[p].epoch, ticket |-> t, view |-> view[p]] :
        t \in {ns[p].ticket} \ {0}}

PersistedTorn(p) ==
    disk' = [disk EXCEPT ![p] =
        [view |-> disk[p].view, ns |-> ns'[p], open |-> open'[p]]]

(* persist: the handle and the core, as one record. *)
Persisted(p) ==
    disk' = [disk EXCEPT ![p] =
        [view |-> view'[p], ns |-> ns'[p], open |-> open'[p]]]

Fault == faults < MaxFaults /\ faults' = faults + 1

(* The operation is encoded and sent to the control plane. *)
Issue(op) ==
    /\ removals' = removals \cup {op}
    /\ Cardinality(removals') <= MaxRemovals

Goto(p, w, stage) == task' = [task EXCEPT ![p][w] = stage]

-----------------------------------------------------------------------------
(* Event::RemoveMember through drive: perform_removal retracts the leaf,   *)
(* advances the generation and asks for a namespace.                       *)
RemoveMember(p, x) ==
    /\ task[p]["drive"] = Idle
    /\ p \in Admin
    /\ Admin # {x}
    /\ x \notin view[p]
    /\ ns[p].epoch < MaxEpoch
    /\ view' = [view EXCEPT ![p] = @ \cup {x}]
    /\ ns' = [ns EXCEPT ![p].epoch = @ + 1]
    /\ Issue([member |-> x, deps |-> view[p]])
    /\ Goto(p, "drive", [at |-> "mint", epoch |-> ns[p].epoch + 1, ticket |-> 0])
    /\ UNCHANGED <<open, announced, disk, history, faults>>

(* Event::Leave: the caller's own leaf goes, and nothing is rotated. *)
Leave(p) ==
    /\ task[p]["drive"] = Idle
    /\ Admin # {p}
    /\ p \notin view[p]
    /\ view' = [view EXCEPT ![p] = @ \cup {p}]
    /\ Issue([member |-> p, deps |-> view[p]])
    /\ UNCHANGED <<ns, open, task, announced, history, faults>>
    /\ Persisted(p)

(* Event::NamespaceMinted with the reply it was waiting for: the ticket is *)
(* encrypted under a fresh key, recorded, announced, and handed over for   *)
(* adoption.                                                               *)
Rotate(p, epoch, t) ==
    /\ minter[t] = NoPeer
    /\ minter' = [minter EXCEPT ![t] = p]
    /\ excluded' = [excluded EXCEPT ![t] = view[p]]
    /\ born' = [born EXCEPT ![t] = epoch]
    /\ learnt' = [learnt EXCEPT ![p] = @ \cup {t}]
    /\ ns' = [ns EXCEPT ![p] = [epoch |-> epoch, ticket |-> t]]
    /\ announced' = announced \cup
            {[from |-> p, epoch |-> epoch, ticket |-> t, view |-> view[p]]}
    /\ Goto(p, "drive", [at |-> "adopt", epoch |-> epoch, ticket |-> t])
    /\ UNCHANGED <<view, open, removals, disk, faults>>

(* mint_namespace: the reply is dropped unless the core is still at the    *)
(* generation it was asked for.                                            *)
NamespaceMinted(p) ==
    LET epoch == task[p]["drive"].epoch IN
    /\ task[p]["drive"].at = "mint"
    /\ \/ /\ epoch # ns[p].epoch
          /\ Goto(p, "drive", Idle)
          /\ UNCHANGED <<core, open, removals, announced, history, faults>>
          /\ Persisted(p)
       \/ /\ epoch = ns[p].epoch
          /\ \E t \in Ticket : Rotate(p, epoch, t)

(* create, share or encrypt_fresh failed: logged, and nothing retries. *)
MintFails(p) ==
    /\ task[p]["drive"].at = "mint"
    /\ Fault
    /\ Goto(p, "drive", Idle)
    /\ UNCHANGED <<core, open, removals, announced, history>>
    /\ Persisted(p)

(* Event::ControlOp with a removal whose predecessors have been merged. *)
MergeRemoval(p, op) ==
    /\ task[p]["loop"] = Idle
    /\ op.deps \subseteq view[p]
    /\ op.member \notin view[p]
    /\ view' = [view EXCEPT ![p] = @ \cup {op.member}]
    /\ UNCHANGED <<ns, open, task, removals, announced, history, faults>>
    /\ Persisted(p)

(* Event::NamespaceArrived: adopt a readable, strictly newer generation.   *)
(* Anything else is dropped.  Gossip does not echo a node's own messages.  *)
NamespaceArrived(p, m) ==
    /\ task[p]["loop"] = Idle
    /\ m.from # p
    /\ Readable(p, m)
    /\ Newer(m, ns[p])
    /\ ns' = [ns EXCEPT ![p] = [epoch |-> m.epoch, ticket |-> m.ticket]]
    /\ learnt' = [learnt EXCEPT ![p] = @ \cup {m.ticket}]
    /\ Goto(p, "loop", [at |-> "adopt", epoch |-> m.epoch, ticket |-> m.ticket])
    /\ UNCHANGED <<view, open, removals, announced, disk, excluded, minter, born, faults>>

(* Effect::AdoptNamespace: adopt_namespace swaps the handle for the ticket *)
(* of the effect and republishes, which re-announces what the core holds.  *)
AdoptNamespace(p, w) ==
    /\ task[p][w].at = "adopt"
    /\ open' = [open EXCEPT ![p] = task[p][w].ticket]
    /\ announced' = announced \cup Announce(p)
    /\ Goto(p, w, Idle)
    /\ UNCHANGED <<core, removals, history, faults>>
    /\ Persisted(p)

(* The import failed: logged, and the handle stays where it was. *)
AdoptFails(p, w) ==
    /\ task[p][w].at = "adopt"
    /\ minter[task[p][w].ticket] # p
    /\ Fault
    /\ Goto(p, w, Idle)
    /\ UNCHANGED <<core, open, removals, announced, history>>
    /\ Persisted(p)

(* Event::ResyncNamespace from republish, when a neighbour appears, and    *)
(* the answer to a repair request for the namespace.                       *)
ResyncNamespace(p) ==
    /\ announced' = announced \cup Announce(p)
    /\ UNCHANGED <<core, open, task, removals, history, faults>>
    /\ Persisted(p)

(* Gossip loses an announcement. *)
Lose(m) ==
    /\ Lossy
    /\ announced' = announced \ {m}
    /\ UNCHANGED <<core, open, task, removals, disk, history, faults>>

(* The process stops and Workspace::open resumes from the record. *)
Restart(p) ==
    /\ Fault
    /\ view' = [view EXCEPT ![p] = disk[p].view]
    /\ ns' = [ns EXCEPT ![p] = disk[p].ns]
    /\ open' = [open EXCEPT ![p] = disk[p].open]
    /\ task' = [task EXCEPT ![p] = [w \in Task |-> Idle]]
    /\ UNCHANGED <<removals, announced, disk, history>>

Next ==
    \/ \E p \in Peer :
        \/ \E x \in Peer : RemoveMember(p, x)
        \/ Leave(p)
        \/ NamespaceMinted(p)
        \/ MintFails(p)
        \/ \E op \in removals : MergeRemoval(p, op)
        \/ \E m \in announced : NamespaceArrived(p, m)
        \/ \E w \in Task : AdoptNamespace(p, w) \/ AdoptFails(p, w)
        \/ ResyncNamespace(p)
        \/ Restart(p)
    \/ \E m \in announced : Lose(m)

Spec == Init /\ [][Next]_vars

(* Minting and adopting are awaited by the task that started them.  The    *)
(* log is re-sent and the namespace re-announced whenever a neighbour      *)
(* appears, so with a live overlay an operation reaches every peer and an  *)
(* announcement that keeps being repeated is eventually heard.             *)
Fairness ==
    \A p \in Peer :
        /\ WF_vars(NamespaceMinted(p))
        /\ \A w \in Task : WF_vars(AdoptNamespace(p, w))
        /\ WF_vars(ResyncNamespace(p))
        /\ WF_vars(\E op \in removals : MergeRemoval(p, op))
        /\ SF_vars(\E m \in announced : NamespaceArrived(p, m))

FairSpec == Spec /\ Fairness

-----------------------------------------------------------------------------
Removed == {op.member : op \in removals}

Unminted(t) == minter[t] = NoPeer

(* Where a ticket travels, the removals it answers travel with it: in the  *)
(* core, on disk and under the key of an announcement.  This is what the   *)
(* order of perform_removal and on_namespace_minted buys, and the          *)
(* inductive core of ExcludedNeverLearns.                                  *)
TicketCarriesRemovals ==
    /\ \A p \in Peer : \A t \in {ns[p].ticket} \ {0} :
            ~Unminted(t) /\ excluded[t] \subseteq view[p]
    /\ \A p \in Peer : \A t \in {disk[p].ns.ticket} \ {0} :
            ~Unminted(t) /\ excluded[t] \subseteq disk[p].view
    /\ \A m \in announced : ~Unminted(m.ticket) /\ excluded[m.ticket] \subseteq m.view
    /\ \A p \in Peer : \A t \in learnt[p] : ~Unminted(t)

(* A device that was out of the tree when a namespace was minted never     *)
(* learns its capability (but for a minter that removed itself), through   *)
(* whatever chain of re-announcements, restarts and late merges:           *)
(* "Ordering is the security property" in perform_removal (state.rs).      *)
ExcludedNeverLearns ==
    \A t \in Ticket : \A x \in excluded[t] : x # minter[t] => t \notin learnt[x]

(* A running node never returns to an earlier generation: only a restart   *)
(* from an older record lowers its epoch.                                  *)
EpochNeverFalls ==
    [][\A p \in Peer : ns'[p].epoch >= ns[p].epoch \/ Restart(p)]_vars

(* A running node leaves one capability only for another. *)
Moves(p) ==
    /\ ns[p].ticket # 0
    /\ ns'[p].ticket # ns[p].ticket
    /\ ~Restart(p)

(* No node moves from a capability back to one minted for an earlier       *)
(* generation: the epoch is "ordered first, so a later rotation always     *)
(* wins" (NamespaceEpoch, state.rs).                                       *)
LaterRotationWins ==
    [][\A p \in Peer : Moves(p) => born[ns[p].ticket] <= born'[ns'[p].ticket]]_vars

(* The members nobody removed end up on one capability: "both sides        *)
(* converge on the same winner without a coordinator" (NamespaceEpoch).    *)
Convergence ==
    <>[](\A p, q \in Peer \ Removed : ns[p].ticket = ns[q].ticket)

=============================================================================
