---------------------------- MODULE MCNamespace -----------------------------
(* Two administrators and one other member.  The administrators are        *)
(* interchangeable: nothing orders peers, and tickets are not permuted.    *)
EXTENDS Namespace, TLC

CONSTANTS a, b, c

Administrators == {a, b}
Everyone == {a, b, c}
Symmetry == Permutations(Administrators)

=============================================================================
