----------------------------- MODULE Redemption -----------------------------
(***************************************************************************)
(* What a node promises about invite tickets, without its files: a ticket  *)
(* is honoured while it is open and closes when it is honoured.  Stopping  *)
(* the node may close one more ticket, the one whose redemption was under  *)
(* way, and reopens exactly the tickets that could not be recorded.        *)
(* Lifecycle implements this specification.                                *)
(***************************************************************************)
EXTENDS Naturals

CONSTANT Nonces

VARIABLES
  open,        \* tickets that would be honoured now
  unrecorded,  \* honoured tickets that a stop would reopen
  uses         \* how often each ticket has been honoured

vars == <<open, unrecorded, uses>>

Init ==
  /\ open = Nonces
  /\ unrecorded = {}
  /\ uses = [n \in Nonces |-> 0]

Redeem(n) ==
  /\ n \in open
  /\ open' = open \ {n}
  /\ uses' = [uses EXCEPT ![n] = @ + 1]
  /\ unrecorded' \in {unrecorded, unrecorded \cup {n}}

Record ==
  /\ unrecorded' = {}
  /\ UNCHANGED <<open, uses>>

Stop ==
  /\ \E burnt \in SUBSET open :
       /\ \A m, n \in burnt : m = n
       /\ open' = (open \ burnt) \cup unrecorded
  /\ unrecorded' = {}
  /\ UNCHANGED uses

Next == (\E n \in Nonces : Redeem(n)) \/ Record \/ Stop

Spec == Init /\ [][Next]_vars

=============================================================================
