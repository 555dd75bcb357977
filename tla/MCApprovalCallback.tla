------------------------- MODULE MCApprovalCallback -------------------------
(* Small instances of ApprovalCallback for TLC: two messages with one binding
   are two entries of the same waiting state. *)
EXTENDS ApprovalCallback

CONSTANTS r1, r2, h1

MCBinding == [m \in {"first", "again"} |-> "binding"]

=============================================================================
