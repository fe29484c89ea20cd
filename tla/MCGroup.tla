------------------------------- MODULE MCGroup -------------------------------
(***************************************************************************)
(* Small instances of Group.                                               *)
(***************************************************************************)
EXTENDS Group

Two == 1..2
Three == 1..3
BothWays == {"up", "down"}
Ascending == {"up"}

\* Who is there at the start.
Nobody == {}
NoRoles == [m \in {} |-> "Admin"]
Second == {2}
SecondAdmin == [m \in {2} |-> "Admin"]
SecondThird == {2, 3}
Third == {3}
BothAdmins == [m \in {2, 3} |-> "Admin"]
ThirdViewer == [m \in {2, 3} |-> IF m = 2 THEN "Admin" ELSE "Viewer"]

\* What the members call.
CallAdmission == {"AddUser", "AddDevice", "SetRole", "RemoveMember", "Leave",
                  "Rotate", "Restart"}
CallQuorum == {"ProposeRemove", "RemoveMember"}
CallDemote == {"SetRole", "RemoveMember"}
=============================================================================
