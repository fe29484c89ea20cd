----------------------------- MODULE MCAssets ------------------------------
(* Six kinds of behaviours: two attachments of one device that stops and   *)
(* meets a fault; one attachment in one or two segments, met by an         *)
(* adoption, a fault and a stop; one that a joiner finds in a new          *)
(* namespace; one whose reader joins later and asks for its key, with a    *)
(* demotion and a deletion; two members that attach concurrently; reverts  *)
(* and a stop.                                                             *)
EXTENDS Assets, TLC

CONSTANTS p1, p2, t1, t2, t3, e1

MCOwner == t1 :> p1 @@ t2 :> p1 @@ t3 :> p2
MCLimits ==
  {[tasks |-> {t1, t2}, sizes |-> {0}, contents |-> {1, 2}, times |-> {1},
     kinds |-> {"stop", "fault", "delete"}],
   [tasks |-> {t1}, sizes |-> {2, 3}, contents |-> {1}, times |-> {1},
     kinds |-> {"stop", "adopt", "delete", "fault"}],
   [tasks |-> {t1}, sizes |-> {0}, contents |-> {1}, times |-> {1}, kinds |-> {"adopt", "join"}],
   [tasks |-> {t1}, sizes |-> {0}, contents |-> {1}, times |-> {1},
     kinds |-> {"join", "demote", "revert", "delete", "repair"}],
   [tasks |-> {t1, t3}, sizes |-> {0}, contents |-> {1, 2}, times |-> {1, 2},
     kinds |-> {"join"}],
   [tasks |-> {t1}, sizes |-> {0}, contents |-> {1, 2}, times |-> {1, 2},
     kinds |-> {"revert", "stop"}]}

\* One attachment and a stop.
MCStopLimits ==
  {[tasks |-> {t1}, sizes |-> {3}, contents |-> {1}, times |-> {1}, kinds |-> {"stop"}]}
\* One attachment and a member that joins.
MCJoinLimits ==
  {[tasks |-> {t1}, sizes |-> {3}, contents |-> {1}, times |-> {1}, kinds |-> {"join", "delete"}]}
=============================================================================
