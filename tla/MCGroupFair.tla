----------------------------- MODULE MCGroupFair -----------------------------
(***************************************************************************)
(* Two administrators, 1 and 2, in a workspace with a threshold of two.    *)
(***************************************************************************)
EXTENDS GroupExchange

Two == 1..2
Nobody == {}
Second == {2}
SecondAdmin == [m \in {2} |-> "Admin"]
Ascending == {"up"}
CallPropose == {"ProposeRemove", "ProposeRole"}
=============================================================================
