------------------------------ MODULE RunStatus ------------------------------
(***************************************************************************)
(* What a status request may answer about a control run, as the phase in   *)
(* which it is under way, and what may follow what.  ControlRun is shown   *)
(* to move as said here, and the page of JudgePage is looked at beside any *)
(* server that does.                                                       *)
(***************************************************************************)

\* An outcome.  EXPIRED, which is answered as FAILED with APPROVAL_EXPIRED, may
\* yet give way to a decision that was on its way; ERROR is a request that fails
\* from then on.
Outcomes == {"SUCCEEDED", "REJECTED", "FAILED"}

\* RUNNING.
UnderWay == {"ANALYZING", "READING_GOVERNED_STATE", "IMPROVING_CONTEXT",
             "APPLYING_GOVERNED_WRITE", "VERIFYING_CONTEXT_DELTA"}

\* Up to the judge.
Awaiting == {"AWAITING_IMPROVEMENT", "AWAITING_APPROVAL"}

Statuses == {"NONE", "EXPIRED", "ERROR"} \cup Outcomes \cup UnderWay \cup Awaiting

\* By the work on its jobs and the clock.
OnItsOwn ==
  {"ANALYZING"} \X {"READING_GOVERNED_STATE", "AWAITING_IMPROVEMENT", "SUCCEEDED", "FAILED"}
  \cup {"READING_GOVERNED_STATE"} \X {"AWAITING_IMPROVEMENT", "FAILED"}
  \cup {"IMPROVING_CONTEXT"} \X {"AWAITING_APPROVAL", "FAILED"}
  \cup {"AWAITING_APPROVAL"} \X {"EXPIRED"}
  \cup {"APPLYING_GOVERNED_WRITE"} \X {"VERIFYING_CONTEXT_DELTA", "FAILED"}
  \cup {"VERIFYING_CONTEXT_DELTA"} \X {"SUCCEEDED", "FAILED", "ERROR"}

\* By a request of the judge.
ByRequest ==
  {<<"NONE", "ANALYZING">>, <<"AWAITING_IMPROVEMENT", "IMPROVING_CONTEXT">>}
  \cup {"AWAITING_APPROVAL", "EXPIRED"} \X {"APPLYING_GOVERNED_WRITE", "REJECTED"}
=============================================================================
