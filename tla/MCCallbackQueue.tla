--------------------------- MODULE MCCallbackQueue ---------------------------
(* Small instances of CallbackQueue for TLC: one message of any kind. *)
EXTENDS CallbackQueue

CONSTANTS w1, w2, m1
=============================================================================
