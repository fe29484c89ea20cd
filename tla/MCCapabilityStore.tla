-------------------------- MODULE MCCapabilityStore --------------------------
(***************************************************************************)
(* Small instances of CapabilityStore.  Device 1 founds the workspace with *)
(* a threshold of two; 2 is a second administrator with a further device   *)
(* 4; 5 is a second device of the founder; 3 is appointed by a quorum.     *)
(***************************************************************************)
EXTENDS CapabilityStore

MCMember == 1..5

\* D(n): the digest of the n-th certificate below.  Ascending digests make
\* one pass of the loop enough; descending ones make it need a pass per link.
MCBundleOf(D(_)) == {Binding(1, 1, 1, D(1)), Grant(1, 1, "Admin", 0, D(2)),
                     Policy(1, 2, D(3))}
MCIssuedOf(D(_)) ==
    { Binding(1, 2, 2, D(4)),
      Grant(1, 2, "Admin", 0, D(5)),
      Binding(2, 4, 2, D(6)),
      Binding(4, 3, 3, D(7)),
      Proposal(1, SetRoleAction(3, "Admin"), 0, D(8)),
      Approval(2, D(8), D(9)),
      Binding(1, 5, 1, D(10)),
      Approval(5, D(8), D(11)),
      Approval(1, D(8), D(14)),
      Grant(4, 3, "Admin", 0, D(12)),
      Grant(1, 2, "Viewer", 1, D(13)) }

Up(n) == IF n <= 3 THEN n ELSE n + 20
Down(n) == IF n <= 3 THEN n ELSE 20 - n

MCBundle == MCBundleOf(Up)
MCHistories == {MCIssuedOf(Up), MCIssuedOf(Down)}
=============================================================================
