-------------------------- MODULE MCCloudMutation --------------------------
(***************************************************************************)
(* Instances of CloudMutation for TLC.  ExecTime < Window < LeaseTime as   *)
(* in the code (180 s, 300 s, 720 s); the clock runs until a claim whose   *)
(* worker died has lapsed and the job has been claimed again.              *)
(***************************************************************************)
EXTENDS CloudMutation
=============================================================================
