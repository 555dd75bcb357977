-------------------------- MODULE MCCoreLifecycle --------------------------
(* An instance of CoreLifecycle for TLC. *)
EXTENDS CoreLifecycle

CONSTANTS s1, s2, e1, e2, h1, h2
=============================================================================
