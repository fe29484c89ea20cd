----------------------------- MODULE MCDocuments -----------------------------
(***************************************************************************)
(* Instances of Documents: p1 founds the workspace and admits p2 later.    *)
(***************************************************************************)
EXTENDS Documents
=============================================================================
