------------------------------ MODULE MCRoster ------------------------------
(***************************************************************************)
(* A founder who administers, and two others: a third device joins a       *)
(* workspace of two, with every operation ahead of the entries that need   *)
(* it; a first device joins, is removed and restarts in any order; one of  *)
(* three is removed.                                                       *)
(***************************************************************************)
EXTENDS Roster

CONSTANTS f, a, b

Everyone == {f, a, b}
Founders == {f}
Scenarios ==
    {[settled |-> {a}, adds |-> 1, removes |-> 0, restarts |-> 0, ahead |-> FALSE],
     [settled |-> {}, adds |-> 1, removes |-> 1, restarts |-> 1, ahead |-> TRUE],
     [settled |-> {a, b}, adds |-> 0, removes |-> 1, restarts |-> 1, ahead |-> TRUE]}

\* The third device joins while entries may come ahead of their operations.
Ahead == {[settled |-> {a}, adds |-> 1, removes |-> 0, restarts |-> 0, ahead |-> TRUE]}
=============================================================================
