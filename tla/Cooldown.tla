------------------------------ MODULE Cooldown ------------------------------
(***************************************************************************)
(* The rate limiter of crates/iroh-beekem-core/src/cooldown.rs, which the  *)
(* facade puts in front of neighbour-up repairs, outgoing repair requests, *)
(* answers to repair requests and evictions.  Every caller holds the mutex *)
(* around Instant::now() and claim, so claims of one limiter are atomic    *)
(* and their instants do not decrease.                                     *)
(***************************************************************************)
EXTENDS Integers

CONSTANTS
    Key,        \* what distinguishes one occasion from the next
    Window,     \* the suppression window; zero switches the limiter off
    Horizon     \* bound on the clock, for TLC

ASSUME WindowAssumption == Window \in Nat

VARIABLES
    seen,       \* the table: the instant of the admitted claim, or Absent
    clock,      \* the monotonic instant the caller passes in
    last,       \* history: the instant of each key's latest admitted claim
    verdict     \* history: the key of the latest claim and its answer

cooldownVars == <<seen, clock, last, verdict>>

Absent == -1

None == [key |-> Absent, ok |-> FALSE]

-----------------------------------------------------------------------------
(* Deadline::since saturates at zero. *)
Since(now, earlier) == IF now < earlier THEN 0 ELSE now - earlier

Fresh(at, now) == at # Absent /\ Since(now, at) < Window

RetainedNothing(table, now) == [k \in Key |-> Absent]

RetainedEverything(table, now) == table

(* The table after expired entries have been dropped. *)
Retained(table, now) ==
    [k \in Key |-> IF Fresh(table[k], now) THEN table[k] ELSE Absent]

Tracked(table) == {k \in Key : table[k] # Absent}

CooldownTypeOK ==
    /\ seen \in [Key -> Nat \cup {Absent}]
    /\ last \in [Key -> Nat \cup {Absent}]
    /\ clock \in Nat
    /\ verdict \in [key : Key \cup {Absent}, ok : BOOLEAN]

CooldownInit ==
    /\ seen = [k \in Key |-> Absent]
    /\ last = [k \in Key |-> Absent]
    /\ clock = 0
    /\ verdict = None

ClaimSliding(key) ==
    LET pruned == Retained(seen, clock)
        allowed == ~Fresh(pruned[key], clock)
    IN  /\ seen' = [pruned EXCEPT ![key] = clock]
        /\ last' = IF allowed THEN [last EXCEPT ![key] = clock] ELSE last
        /\ verdict' = [key |-> key, ok |-> allowed]
        /\ UNCHANGED clock

(* Cooldown::claim: prune, then refuse a fresh key or record a new claim. *)
Claim(key) ==
    LET pruned == Retained(seen, clock)
        allowed == ~Fresh(pruned[key], clock)
    IN  /\ seen' = IF allowed THEN [pruned EXCEPT ![key] = clock] ELSE pruned
        /\ last' = IF allowed THEN [last EXCEPT ![key] = clock] ELSE last
        /\ verdict' = [key |-> key, ok |-> allowed]
        /\ UNCHANGED clock

Tick ==
    /\ clock < Horizon
    /\ clock' = clock + 1
    /\ UNCHANGED <<seen, last, verdict>>

CooldownNext == Tick \/ \E key \in Key : Claim(key)

CooldownSpec == CooldownInit /\ [][CooldownNext]_cooldownVars

-----------------------------------------------------------------------------
(* The strengthening the proofs use: an entry is the key's latest          *)
(* admission, and pruning has never dropped one still inside its window.   *)
SeenIsLast ==
    \A k \in Key :
        /\ last[k] <= clock
        /\ seen[k] # Absent => seen[k] = last[k]
        /\ last[k] # Absent /\ clock - last[k] < Window => seen[k] = last[k]

(* Two admitted claims of one key are a full window apart, however claims  *)
(* of other keys prune the shared table in between (claim, cooldown.rs).   *)
AdmissionSpacing ==
    [][\A k \in Key : last[k] # Absent /\ last'[k] # last[k]
            => last'[k] - last[k] >= Window]_cooldownVars

(* A claim is refused only because the same key was admitted less than a   *)
(* window ago: a refusal does not extend the window, so a caller that      *)
(* keeps asking is admitted as soon as the window has passed.              *)
RefusalJustified ==
    [][\A k \in Key : Claim(k) /\ ~verdict'.ok
            => last[k] # Absent /\ clock - last[k] < Window]_cooldownVars

(* After any claim the table holds only keys admitted inside the current   *)
(* window (and the key just admitted): "the map stays proportional to the  *)
(* keys seen in one window rather than to every key ever seen".            *)
TableProportional ==
    [][\A k \in Key : Claim(k)
            => \A j \in Tracked(seen') : j = k \/ clock - last[j] < Window]_cooldownVars

=============================================================================
