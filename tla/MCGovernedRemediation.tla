----------------------- MODULE MCGovernedRemediation -----------------------
(* Small instances of GovernedRemediation for TLC. *)
EXTENDS GovernedRemediation, TLC

CONSTANTS w1, w2, k1, k2, a1, tagP, tagX

\* Two decisions of the same approval: k1 approves, k2 rejects.
MCApprovalOf == [k \in Keys |-> a1]
MCExpiresAt == [a \in Approvals |-> 1]

Symmetry == Permutations(Workers)
=============================================================================
