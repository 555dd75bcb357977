---------------------------- MODULE MCControlRun ----------------------------
(* Small instances of ControlRun for TLC. *)
EXTENDS ControlRun
=============================================================================
