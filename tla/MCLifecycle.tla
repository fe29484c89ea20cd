---------------------------- MODULE MCLifecycle ----------------------------
(* Two kinds of behaviours: two tickets and two concurrent joins of a      *)
(* workspace that handles no further event, and one ticket and a workspace *)
(* whose application and pump both write.                                  *)
EXTENDS Lifecycle

CONSTANTS n1, n2

MCNonces == {n1, n2}
MCLimits == {[tickets |-> {n1, n2}, clock |-> 2, events |-> 1, faults |-> 1, stops |-> 1],
             [tickets |-> {}, clock |-> 1, events |-> 3, faults |-> 1, stops |-> 1]}
MCRaceLimits ==
  {[tickets |-> {}, clock |-> 1, events |-> 3, faults |-> 0, stops |-> 0]}
=============================================================================
