------------------------------ MODULE LiveProof ------------------------------
(***************************************************************************)
(* The live governed proof: one run of .github/workflows/                  *)
(* live-governed-proof.yml, whose execute job adds one approved tag, whose *)
(* rollback job takes it off again, and the later recover runs for a run   *)
(* that failed.  Jobs follow one another (the workflow's concurrency group *)
(* holds one run at a time) but share nothing except uploaded artifacts    *)
(* and the DataHub column itself: a job may die anywhere, an upload or a   *)
(* download may fail, a request may be carried out after its sender gave   *)
(* up, and other people edit the column.                                   *)
(*                                                                         *)
(* The run starts with its prepare artifact uploaded.  The execute job has *)
(* a journal of its own, in memory, so of executeApprovedRemediation only  *)
(* the way of a first owner is taken; GovernedRemediation models the rest. *)
(***************************************************************************)
EXTENDS Naturals, FiniteSets

CONSTANTS
  MaxEdits,       \* bound: edits of the column by other people
  MaxMishaps,     \* bound: failed reads, uploads, downloads, approvals, runners
  MaxRecoveries   \* bound: runs in recover mode

ASSUME BoundsAssumption ==
  /\ MaxEdits \in Nat
  /\ MaxMishaps \in Nat
  /\ MaxRecoveries \in Nat

VARIABLES
  catalog,    \* the tags of the column: the plan's, and one it knows nothing of
  wire,       \* requests given up by their sender that may yet be carried out
  phase,      \* the job that runs, or how the proof run ended
  pc,         \* where that job is
  files,      \* the artifacts the job has downloaded
  plan,       \* what the rollback job will have done, once it is read back
  artifacts,  \* those uploaded: the prepared plan, the execution evidence with
              \* its rollback proposal
  evidence,   \* the outcome of the last uploaded rollback or recovery
  edits, mishaps, recoveries

vars == <<catalog, wire, phase, pc, files, plan, artifacts, evidence, edits,
          mishaps, recoveries>>
counters == <<edits, mishaps, recoveries>>

Tags == {"plan", "other"}
BeforeState == {}
AfterState == {"plan"}

Jobs == {"execute", "rollback", "recover"}
Outcomes == {"VERIFIED", "restored", "already-baseline"}

TypeOK ==
  /\ catalog \subseteq Tags
  /\ wire \subseteq {"add", "remove"}
  /\ phase \in Jobs \cup {"passed", "failed"}
  /\ pc \in {"approval", "read", "add", "check", "propose", "upload", "remove",
             "readback", "end"}
  /\ {"prepared"} \subseteq files /\ files \subseteq artifacts
  /\ artifacts \subseteq {"prepared", "executed"}
  /\ plan \in Outcomes \cup {"none"}
  /\ evidence \in Outcomes \cup {"none"}
  /\ edits \in 0..MaxEdits
  /\ mishaps \in 0..MaxMishaps
  /\ recoveries \in 0..MaxRecoveries
  /\ pc = "end" <=> phase \notin Jobs
  /\ "executed" \in artifacts => phase # "execute"

Init ==
  /\ catalog = BeforeState
  /\ wire = {}
  /\ phase = "execute" /\ pc = "approval"
  /\ files = {"prepared"} /\ artifacts = {"prepared"}
  /\ plan = "none" /\ evidence = "none"
  /\ edits = 0 /\ mishaps = 0 /\ recoveries = 0

-----------------------------------------------------------------------------
(* Jobs *)

\* The job goes on.
Goto(next) == pc' = next /\ UNCHANGED phase

\* The next job, or the end of the run.
NextJob(next, at) ==
  /\ phase' = next /\ pc' = at
  /\ files' = {"prepared"} /\ plan' = "none"

\* A job that fails leaves no artifact.  The rollback job runs whether the
\* execute job failed or not.
FailJob ==
  IF phase = "execute" THEN NextJob("rollback", "approval")
                       ELSE NextJob("failed", "end")

\* Anything else that can go wrong at an await: a read error, a declined
\* approval, a lost runner, a failed upload.
Mishap ==
  /\ phase \in Jobs
  /\ mishaps < MaxMishaps
  /\ mishaps' = mishaps + 1
  /\ FailJob
  /\ UNCHANGED <<catalog, wire, artifacts, evidence, edits, recoveries>>

\* What a request does to the column when DataHub carries it out.
Effect(request) ==
  IF request = "add" THEN catalog \cup {"plan"} ELSE catalog \ {"plan"}

\* Mutant: a request that is not answered is sent again.
MutateRetried(request, next) ==
  \/ /\ catalog' = Effect(request)
     /\ Goto(next)
     /\ UNCHANGED <<wire, files, plan, mishaps>>
  \/ /\ mishaps < MaxMishaps
     /\ mishaps' = mishaps + 1
     /\ UNCHANGED wire \/ wire' = wire \cup {request}
     /\ UNCHANGED <<catalog, phase, pc, files, plan>>

\* A mutation is answered, refused before it reached DataHub, or given up while
\* it may still be carried out; the last two end the job.
Mutate(request, next) ==
  \/ /\ catalog' = Effect(request)
     /\ Goto(next)
     /\ UNCHANGED <<wire, files, plan, mishaps>>
  \/ /\ mishaps < MaxMishaps
     /\ mishaps' = mishaps + 1
     /\ UNCHANGED wire \/ wire' = wire \cup {request}
     /\ FailJob
     /\ UNCHANGED catalog

-----------------------------------------------------------------------------
(* The execute job *)

ApproveWrite ==
  /\ phase = "execute" /\ pc = "approval"
  /\ Goto("read")
  /\ UNCHANGED <<catalog, wire, files, plan, artifacts, evidence, counters>>

\* A column that is not in the approved state closes the execution as STALE.
ReadBefore ==
  /\ phase = "execute" /\ pc = "read"
  /\ \/ catalog = BeforeState /\ Goto("add") /\ UNCHANGED <<files, plan>>
     \/ catalog # BeforeState /\ FailJob
  /\ UNCHANGED <<catalog, wire, artifacts, evidence, counters>>

AddTag ==
  /\ phase = "execute" /\ pc = "add"
  /\ Mutate("add", "check")
  /\ UNCHANGED <<artifacts, evidence, edits, recoveries>>

\* The read after the write, and the read the rollback proposal is made from:
\* both must find the approved post-state.
CheckAfter ==
  /\ phase = "execute" /\ pc \in {"check", "propose"}
  /\ \/ /\ catalog = AfterState
        /\ Goto(IF pc = "check" THEN "propose" ELSE "upload")
        /\ UNCHANGED <<files, plan>>
     \/ catalog # AfterState /\ FailJob
  /\ UNCHANGED <<catalog, wire, artifacts, evidence, counters>>

\* The evidence leaves the runner with the job's last step only.
UploadExecution ==
  /\ phase = "execute" /\ pc = "upload"
  /\ artifacts' = artifacts \cup {"executed"}
  /\ NextJob("rollback", "approval")
  /\ UNCHANGED <<catalog, wire, evidence, counters>>

-----------------------------------------------------------------------------
(* The rollback job, and a later run in recover mode *)

\* The rollback job goes on without the execution evidence when there is none,
\* or when it cannot be downloaded.
ApproveRollback ==
  /\ phase = "rollback" /\ pc = "approval"
  /\ Goto("read")
  /\ \/ files' = artifacts /\ UNCHANGED mishaps
     \/ /\ "executed" \in artifacts /\ UNCHANGED files
        /\ mishaps < MaxMishaps /\ mishaps' = mishaps + 1
  /\ UNCHANGED <<catalog, wire, plan, artifacts, evidence, edits, recoveries>>

\* Mutant: a run can be recovered only once.
RecoverableOnce ==
  phase = "failed" /\ "executed" \in artifacts /\ recoveries = 0

\* Recover mode is for a failed run, and needs what the execute job uploaded.
Recoverable == phase = "failed" /\ "executed" \in artifacts

StartRecovery ==
  /\ Recoverable
  /\ recoveries < MaxRecoveries
  /\ recoveries' = recoveries + 1
  /\ phase' = "recover" /\ pc' = "read"
  /\ files' = {"prepared", "executed"}
  /\ UNCHANGED <<catalog, wire, plan, artifacts, evidence, edits, mishaps>>

\* Without the execution evidence the approved plan says which two states are
\* known.
Restore ==
  \/ catalog = BeforeState /\ plan' = "already-baseline" /\ Goto("readback")
  \/ catalog = AfterState /\ plan' = "restored" /\ Goto("remove")

\* With it the column must still be as the write left it: the proposal made from
\* the column now is the one that was uploaded.
Reverse == catalog = AfterState /\ plan' = "VERIFIED" /\ Goto("remove")

\* Any other state ends the job.
ReadCurrent ==
  /\ phase \in {"rollback", "recover"} /\ pc = "read"
  /\ \/ "executed" \in files /\ Reverse /\ UNCHANGED files
     \/ "executed" \notin files /\ Restore /\ UNCHANGED files
     \/ /\ catalog # AfterState
        /\ "executed" \notin files => catalog # BeforeState
        /\ FailJob
  /\ UNCHANGED <<catalog, wire, artifacts, evidence, counters>>

RemoveTag ==
  /\ phase \in {"rollback", "recover"} /\ pc = "remove"
  /\ Mutate("remove", "readback")
  /\ UNCHANGED <<artifacts, evidence, edits, recoveries>>

ReadBack ==
  /\ phase \in {"rollback", "recover"} /\ pc = "readback"
  /\ \/ catalog = BeforeState /\ Goto("upload") /\ UNCHANGED <<files, plan>>
     \/ catalog # BeforeState /\ FailJob
  /\ UNCHANGED <<catalog, wire, artifacts, evidence, counters>>

\* The run passes when both its jobs did; a recovered run stays a failed one.
UploadRestored ==
  /\ phase \in {"rollback", "recover"} /\ pc = "upload"
  /\ evidence' = plan
  /\ \/ phase = "rollback" /\ "executed" \in artifacts /\ NextJob("passed", "end")
     \/ ~(phase = "rollback" /\ "executed" \in artifacts) /\ NextJob("failed", "end")
  /\ UNCHANGED <<catalog, wire, artifacts, counters>>

-----------------------------------------------------------------------------
(* DataHub and the other people who use it *)

Lands ==
  \E request \in wire :
    /\ wire' = wire \ {request}
    /\ catalog' = Effect(request)
    /\ UNCHANGED <<phase, pc, files, plan, artifacts, evidence, counters>>

Edit ==
  /\ edits < MaxEdits
  /\ edits' = edits + 1
  /\ \E t \in Tags : catalog' \in {catalog \cup {t}, catalog \ {t}}
  /\ UNCHANGED <<wire, phase, pc, files, plan, artifacts, evidence, mishaps,
                 recoveries>>

Execute == ApproveWrite \/ ReadBefore \/ AddTag \/ CheckAfter \/ UploadExecution
RollBack ==
  ApproveRollback \/ ReadCurrent \/ RemoveTag \/ ReadBack \/ UploadRestored

Next == Execute \/ RollBack \/ StartRecovery \/ Mishap \/ Lands \/ Edit

Spec == Init /\ [][Next]_vars

\* A job that runs goes on, and the owner recovers a failed run that can be.
FairSpec ==
  Spec /\ WF_vars(Execute) /\ WF_vars(RollBack) /\ WF_vars(StartRecovery)

-----------------------------------------------------------------------------
(* Properties *)

\* A run that passed has left nothing behind when nobody else touched the
\* column: the tag is off, and no request of the run can bring it back.
PassedLeavesBaseline ==
  phase = "passed" /\ edits = 0 => catalog = BeforeState /\ "add" \notin wire

\* An uploaded VERIFIED or restored is final when nobody else touched the
\* column: the write itself was seen and taken back, so no request of any of the
\* run's jobs can put the tag on again.  An already-baseline says less: a write
\* that was given up on may be carried out after it was read.
RestoredIsLasting ==
  evidence \in {"VERIFIED", "restored"} /\ edits = 0 =>
    "plan" \notin catalog /\ "add" \notin wire

\* Both together: a run that ends well, at once or after its recovery, leaves the
\* column as it was for good (the verdict of the workflow, recoverPreparedBaseline).
BaselineIsLasting == PassedLeavesBaseline /\ RestoredIsLasting

\* Once the execution evidence is uploaded the tag comes off again, whatever
\* fails on the way, if nobody else touches the column: a rollback whose answer
\* was lost has either worked or can be repeated.
PublishedIsUndone ==
  "executed" \in artifacts ~> "plan" \notin catalog \/ edits > 0

\* "If the forward job cannot publish its receipt after changing state, recovery
\* uses the prepared evidence" (docs/JUDGE_TESTING.md): a failed run which left
\* the column in the approved post-state can be recovered.
UnpublishedIsRecoverable ==
  phase = "failed" /\ edits = 0 /\ catalog = AfterState => Recoverable
=============================================================================
