----------------------------- MODULE AuditStatus -----------------------------
(***************************************************************************)
(* The status of one execution of the first control API: what the worker    *)
(* services leave of it in S3 and DynamoDB, the lambda that reads it in four *)
(* requests and verifies it against itself, and the page that polls the     *)
(* lambda and checks the answer once more.                                  *)
(*                                                                          *)
(* The digest of a document is the document, and a document named by its    *)
(* digest is that document.  Another execution of the same finding ended    *)
(* before; what is stored of this one may be altered: its documents are     *)
(* exchanged with those of the other one, or edited and sealed anew.        *)
(***************************************************************************)
EXTENDS Integers, Sequences, FiniteSets

CONSTANTS
  Window,        \* APPROVAL_WINDOW_MS
  MaxClockSkew,  \* MAX_CLOCK_SKEW_MS
  MaxTime,       \* bound: end of time
  MaxAlterings,  \* bound: documents that are altered
  MaxFaults,     \* bound: requests that fail
  None           \* undefined

VARIABLES
  now, lead,     \* the approval lambda's clock, and by how much the worker's is ahead
  release,       \* what the audit worker writes: the current schema or the retired one
  execution,     \* [status, output] in Step Functions
  objects,       \* S3: what is stored under the digests of this execution
  checkpoint,    \* AUDIT#execution, RESULT
  row,           \* APPROVAL#id, STATE
  altered, faults, \* the documents that were altered, the requests that failed
  reader,        \* a status request: where it is, and what it has read
  view           \* the page: what it does, failed polls, and the answer of the lambda

world == <<now, lead, release, execution, objects, checkpoint, row, altered>>
vars == <<world, faults, reader, view>>

Times == 0 .. MaxTime
Runs == {"this", "other"}

-----------------------------------------------------------------------------
(* What the services write: service.ts, planner.ts, control-loop.ts, receipt.ts *)

Pii == "pii"
Before == [x \in Runs |-> IF x = "this" THEN {"key"} ELSE {}]
Action == [tool |-> "add_tags", tag |-> Pii, target |-> "column"]
Inverse == [Action EXCEPT !.tool = "remove_tags"]
Approver == [subject |-> "steward", roles |-> {"DataSteward"}]

AuditReport(x, found) ==
  [scanId |-> x, finding |-> IF found THEN "g6" ELSE None, schema |-> "current"]
PlanRemediation(x, at) ==
  LET dossier == [scanId |-> x, finding |-> "g6", before |-> Before[x], createdAt |-> at]
  IN [dossier |-> dossier,
      plan |-> [dossier |-> dossier, action |-> Action, before |-> dossier.before,
                after |-> dossier.before \cup {Pii}]]
CreateApprovalRequest(planned, at, until) ==
  [dossier |-> planned.dossier, plan |-> planned.plan, before |-> planned.plan.before,
   requestedAt |-> at, expiresAt |-> until]
Actionable(x, at) ==
  LET planned == PlanRemediation(x, at)
  IN [reason |-> None, dossier |-> planned.dossier, plan |-> planned.plan,
      request |-> CreateApprovalRequest(planned, at, at + Window)]
ManualOnly(reason) == [reason |-> reason, dossier |-> None, plan |-> None, request |-> None]
ManualOnlyReasons ==
  {"READ_ONLY_REQUEST", "NO_ACTIONABLE_G6_FINDING", "REMEDIATION_PRESTATE_UNAVAILABLE",
   "POLICY_REJECTED_PROPOSAL"}

AuditEvidence(x, report, remediation, at) ==
  [executionId |-> x, report |-> report, remediation |-> remediation, createdAt |-> at]
\* The evidence of an audit that found something to remediate, or why there is nothing.
AuditOf(remediation, schema, at) ==
  LET found == remediation.reason \notin {"READ_ONLY_REQUEST", "NO_ACTIONABLE_G6_FINDING"}
  IN AuditEvidence("this", [AuditReport("this", found) EXCEPT !.schema = schema], remediation, at)
Output(evidence) ==
  LET r == evidence.remediation
  IN [schema |-> "v2", report |-> evidence.report, evidence |-> evidence, reason |-> r.reason,
      requiresApproval |-> r.reason = None, request |-> r.request, plan |-> r.plan,
      approvalId |-> r.request, window |-> IF r.reason = None
                                           THEN <<r.request.requestedAt, r.request.expiresAt>> ELSE None]

\* None: it throws.
CreateApprovalDecision(request, choice, approver, at) ==
  IF at \notin request.requestedAt .. request.expiresAt THEN None
  ELSE [approvalId |-> request, plan |-> request.plan, decision |-> choice,
        approver |-> approver, decidedAt |-> at]

CheckIds == <<"TARGET_UNCHANGED", "PREEXISTING_TAGS_PRESERVED", "POLICY_TAG_PRESENT",
              "NO_UNEXPECTED_TAGS", "APPROVAL_BINDING_VALID">>
VerifyPostcondition(plan, after, mutation) ==
  <<TRUE, plan.before \subseteq after, plan.action.tag \in after, after = plan.after,
    mutation = plan.action>>

Event(kind, payload, at) == [kind |-> kind, payload |-> payload, at |-> at]
EventPayloads(r) ==
  <<Event("DOSSIER_BOUND", r.dossier, r.startedAt), Event("PLAN_BOUND", r.plan, r.startedAt),
    Event("APPROVAL_BOUND", r.decision, r.startedAt),
    Event("PRECONDITION_CHECKED", r.before, r.startedAt)>>
  \o (IF r.mutation = None THEN <<>> ELSE <<Event("MUTATION_INVOKED", r.mutation, r.completedAt)>>)
  \o (IF r.after = None /\ r.checks = <<>> THEN <<>>
      ELSE <<Event("POSTCONDITION_CHECKED", <<r.after, r.checks>>, r.completedAt)>>)
  \o <<Event("ROLLBACK_ANCHORED", r.rollback, r.completedAt)>>

IdempotencyKey(x, request, decision) == <<x, request, decision>>
\* A receipt without its events, then with their chain: a prefix is its hash.
Unchained(x, artifacts, decision, outcome, from, to) ==
  LET verified == outcome = "VERIFIED"
      plan == artifacts.plan
  IN [executionId |-> <<decision, IdempotencyKey(x, artifacts.request, decision)>>,
      key |-> IdempotencyKey(x, artifacts.request, decision), outcome |-> outcome,
      dossier |-> artifacts.dossier, plan |-> plan, decision |-> decision, action |-> plan.action,
      before |-> IF verified THEN plan.before ELSE None, after |-> IF verified THEN plan.after ELSE None,
      mutation |-> IF verified THEN plan.action ELSE None,
      checks |-> IF verified THEN VerifyPostcondition(plan, plan.after, plan.action) ELSE <<>>,
      rollback |-> IF verified THEN <<"ELIGIBLE", Inverse, plan.before>> ELSE <<"NOT_APPLICABLE">>,
      startedAt |-> from, completedAt |-> to, events |-> <<>>]
Chained(r) == [r EXCEPT !.events = EventPayloads(r)]
CreateExecutionReceipt(x, artifacts, decision, outcome, from, to) ==
  Chained(Unchained(x, artifacts, decision, outcome, from, to))

ExecutionEvidence(x, audit, decision, receipt) ==
  [executionId |-> x, approvalId |-> audit.remediation.request, audit |-> audit,
   decision |-> decision, receipt |-> receipt, createdAt |-> receipt.completedAt]
RemediationResult(evidence) ==
  [approvalId |-> evidence.approvalId, plan |-> evidence.audit.remediation.plan,
   evidence |-> evidence.audit, receipt |-> evidence.receipt, execution |-> evidence,
   outcome |-> evidence.receipt.outcome]

OutcomeOf(choice) == IF choice = "APPROVE" THEN "VERIFIED" ELSE "REJECTED"

\* The evidence of a decision that was executed.
ExecutionOf(audit, choice, decidedAt, at) ==
  LET artifacts == audit.remediation
      decision == CreateApprovalDecision(artifacts.request, choice, Approver, decidedAt)
  IN ExecutionEvidence("this", audit, decision,
       CreateExecutionReceipt("this", artifacts, decision, OutcomeOf(choice), at, at))

\* The item of an approval; proof is the decisionEvidence and sealed its digest.
Row(evidence) ==
  [status |-> "PENDING", evidence |-> evidence, plan |-> evidence.remediation.plan,
   expiresAt |-> evidence.remediation.request.expiresAt, decision |-> None, decidedAt |-> None,
   proof |-> None, sealed |-> None]
Proof(evidence, choice) ==
  [approvalId |-> evidence.remediation.request, executionId |-> evidence.executionId,
   evidence |-> evidence, plan |-> evidence.remediation.plan,
   request |-> evidence.remediation.request, decision |-> choice, approver |-> Approver]
Decided(r, choice, at) ==
  [r EXCEPT !.status = "DECIDED", !.decision = choice, !.decidedAt = at,
            !.proof = Proof(r.evidence, choice), !.sealed = Proof(r.evidence, choice)]

-----------------------------------------------------------------------------
(* The documents, and what None is not *)

Labels == {"key", Pii}
Choices == {"APPROVE", "REJECT"}
Dossiers == [scanId : Runs, finding : {"g6"}, before : SUBSET Labels, createdAt : Int]
ActionPlans ==
  [dossier : Dossiers, action : {Action}, before : SUBSET Labels, after : SUBSET Labels]
Requests ==
  [dossier : Dossiers, plan : ActionPlans, before : SUBSET Labels, requestedAt : Int, expiresAt : Int]
Approvers == [subject : {"steward"}, roles : SUBSET {"DataSteward"}]
Decisions ==
  [approvalId : Requests, plan : ActionPlans, decision : Choices, approver : Approvers, decidedAt : Int]

\* The clock of the worker.
Moments == 0 .. MaxTime + 1

\* What the constants are; None is none of the strings and documents that are compared
\* with it (the instances assume it).
StatusAssumption ==
  /\ Window \in Nat \ {0} /\ MaxClockSkew \in Nat /\ MaxTime \in Nat \ {0}
  /\ {MaxAlterings, MaxFaults} \subseteq Nat
  /\ None \notin ManualOnlyReasons \cup Choices \cup {"RUNNING", "SUCCEEDED"} \cup Decisions
  /\ None # Action /\ None # [outcome |-> "READ_ONLY_COMPLETE", receipt |-> None]
  /\ \A at, by, done \in Moments, choice \in Choices :
       LET audit == AuditOf(Actionable("this", at), "current", at)
           v == ExecutionOf(audit, choice, by, done)
       IN /\ None # Proof(audit, choice) /\ None # RemediationResult(v)
          /\ None # [outcome |-> v.receipt.outcome, receipt |-> v.receipt]

-----------------------------------------------------------------------------
(* What the lambda verifies: index.js *)

VerifyApprover(a) == "DataSteward" \in a.roles

VerifyApprovalDecision(d, expected) == d = expected /\ VerifyApprover(d.approver)

VerifyDossier(d) == d.finding = "g6"

VerifyPlan(p, dossier) ==
  /\ p.dossier = dossier /\ p.action = Action
  /\ p.before = dossier.before /\ p.after = p.before \cup {p.action.tag}

VerifyApprovalRequest(r, dossier, plan) ==
  /\ r.dossier = dossier /\ r.plan = plan /\ r.before = plan.before
  /\ r.expiresAt > r.requestedAt

VerifyMutation(mutation, action) == mutation = action

ExpectedCheckPasses(r) ==
  <<TRUE, r.before \subseteq r.after, r.action.tag \in r.after,
    r.after = r.before \cup {r.action.tag}, VerifyMutation(r.mutation, r.action)>>

VerifyChecks(r) ==
  IF r.outcome = "REJECTED" THEN r.checks = <<>>
  ELSE r.checks = [i \in DOMAIN CheckIds |-> TRUE] /\ r.checks = ExpectedCheckPasses(r)

VerifyRollback(r) ==
  r.rollback = IF r.outcome = "REJECTED" THEN <<"NOT_APPLICABLE">> ELSE <<"ELIGIBLE", Inverse, r.before>>

\* Mutant: the chain is checked for itself, and not against what the receipt says.
VerifyReceiptLength(r) == Len(r.events) \in 5 .. 7

VerifyReceiptEvents(r) == Len(r.events) \in 5 .. 7 /\ r.events = EventPayloads(r)

\* expected is what the evidence, the decision and the execution call for.
VerifyExecutionReceipt(r, expected) ==
  /\ r.outcome = expected.outcome /\ r.dossier = expected.dossier /\ r.plan = expected.plan
  /\ r.decision = expected.decision
  /\ r.startedAt + MaxClockSkew >= expected.decision.decidedAt
  /\ r.completedAt + MaxClockSkew >= r.startedAt
  /\ r.action = Action /\ r.action = expected.plan.action
  /\ r.key = IdempotencyKey("this", expected.approvalId, expected.decision)
  /\ r.executionId = <<expected.decision, r.key>>
  /\ IF r.outcome = "VERIFIED"
     THEN r.before = expected.plan.before /\ r.after = expected.plan.after
          /\ VerifyMutation(r.mutation, r.action)
     ELSE r.before = None /\ r.after = None /\ r.mutation = None
  /\ VerifyChecks(r) /\ VerifyRollback(r) /\ VerifyReceiptEvents(r)

ValidCheckpoint(c) ==
  IF c.requiresApproval
  THEN c.window # None => c.window[2] > c.window[1]
  ELSE c.reason \in ManualOnlyReasons

VerifyAuditEvidence(e, c, schema) ==
  e.executionId = "this" /\ e = c.evidence /\ e.report = c.report /\ e.report.schema = schema

CheckpointBindsEvidence(c, e) ==
  LET r == e.remediation IN
  IF ~c.requiresApproval THEN r.reason = c.reason
  ELSE /\ r.reason = None /\ r.plan = c.plan /\ r.request = c.approvalId
       /\ \/ c.schema = "v1" /\ c.window = None
          \/ r.request = c.request /\ <<r.request.requestedAt, r.request.expiresAt>> = c.window

ActionableArtifacts(e, c) ==
  LET r == e.remediation IN
  /\ c.schema = "v2" /\ c.requiresApproval /\ r.reason = None
  /\ VerifyDossier(r.dossier) /\ VerifyPlan(r.plan, r.dossier)
  /\ VerifyApprovalRequest(r.request, r.dossier, r.plan)
  /\ e.report.finding = r.dossier.finding /\ r.dossier.scanId = e.report.scanId
  /\ r.dossier.createdAt = e.createdAt /\ r.request.requestedAt = e.createdAt
  /\ r.plan = c.plan /\ r.request = c.approvalId /\ r.request = c.request
  /\ <<r.request.requestedAt, r.request.expiresAt>> = c.window

\* "retired": the answer is to run the audit again.  "invalid": it throws.
ReadAuditEvidence(c, e) ==
  IF e = None \/ ~CheckpointBindsEvidence(c, e) THEN "invalid"
  ELSE IF c.schema = "v2"
       THEN IF VerifyAuditEvidence(e, c, "current") /\ (c.requiresApproval => ActionableArtifacts(e, c))
            THEN "read" ELSE "invalid"
       ELSE IF VerifyAuditEvidence(e, c, "retired") THEN "retired" ELSE "invalid"

ParseDecisionEvidence(r, c, e) ==
  /\ r.proof # None
  /\ r.proof.approvalId = c.approvalId /\ r.proof.executionId = "this"
  /\ r.proof.evidence = c.evidence /\ r.proof.plan = c.plan
  /\ r.proof.request = e.remediation.request
  /\ VerifyApprover(r.proof.approver) /\ r.proof = r.sealed

ValidApproval(r, c, e) ==
  /\ r.evidence = c.evidence /\ r.plan = c.plan
  /\ r.expiresAt = e.remediation.request.expiresAt
  /\ r.status = "DECIDED" => ParseDecisionEvidence(r, c, e) /\ r.decision = r.proof.decision

VerifyExecutionEvidence(v, result, c, approval, audit) ==
  LET r == audit.remediation
      decision == [approvalId |-> c.approvalId, plan |-> c.plan, decision |-> approval.decision,
                   approver |-> approval.proof.approver, decidedAt |-> approval.decidedAt]
  IN /\ v.executionId = "this" /\ v.approvalId = c.approvalId /\ v.audit = c.evidence
     /\ v = result.execution
     /\ ActionableArtifacts(audit, c)
     /\ approval.decidedAt \in r.request.requestedAt .. r.request.expiresAt
     /\ VerifyApprovalDecision(v.decision, decision)
     /\ result.outcome = OutcomeOf(approval.decision)
     /\ VerifyExecutionReceipt(v.receipt,
          [outcome |-> result.outcome, dossier |-> r.dossier, plan |-> c.plan,
           decision |-> v.decision, approvalId |-> c.approvalId])
     /\ v.receipt = result.receipt
     /\ v.createdAt + MaxClockSkew >= v.receipt.completedAt

ResultVerified(output, object, c, approval, audit) ==
  /\ output # None /\ output.outcome \in {"VERIFIED", "REJECTED"}
  /\ output.approvalId = c.approvalId /\ output.plan = c.plan /\ output.evidence = c.evidence
  /\ object # None /\ VerifyExecutionEvidence(object, output, c, approval, audit)

PublicStatus(status, approval) ==
  IF status = "RUNNING" /\ approval # None /\ approval.status = "PENDING"
  THEN "AWAITING_APPROVAL" ELSE status

\* resultProjection; "invalid": it throws.
NoResult == "none"
ResultProjection(x, c, approval, audit, object) ==
  IF x.status # "SUCCEEDED" THEN NoResult
  ELSE IF c = None THEN "invalid"
  ELSE IF ~c.requiresApproval THEN "READ_ONLY_COMPLETE"
  ELSE IF approval = None \/ approval.status # "DECIDED" \/
          ~ResultVerified(x.output, object, c, approval, audit) THEN "invalid"
  ELSE x.output.outcome

\* What the page accepts of an answer: api.ts.
IsControlLoopApproval(a) == a.status = "PENDING" <=> a.decision = None
IsControlLoopResult(r) ==
  r.outcome = "READ_ONLY_COMPLETE" \/
    /\ \A i \in DOMAIN r.receipt.checks : r.receipt.checks[i]
    /\ <<r.outcome, Len(r.receipt.checks), Len(r.receipt.events), r.receipt.rollback[1]>>
         \in {<<"VERIFIED", 5, 7, "ELIGIBLE">>, <<"REJECTED", 0, 5, "NOT_APPLICABLE">>}
ParseControlLoopStatus(a) ==
  /\ a.approval # None => IsControlLoopApproval(a.approval)
  /\ a.result # None => IsControlLoopResult(a.result)
  /\ a.status = "SUCCEEDED" <=> a.result # None
  /\ a.result # None =>
       IF a.result.outcome = "READ_ONLY_COMPLETE" THEN a.approval = None
       ELSE /\ a.approval # None /\ a.approval.status = "DECIDED"
            /\ a.result.outcome = OutcomeOf(a.approval.decision)

Terminal == {"SUCCEEDED", "FAILED", "TIMED_OUT", "ABORTED"}

-----------------------------------------------------------------------------

NoAnswer == [code |-> 0, fault |-> FALSE, status |-> None, evidence |-> None, approval |-> None,
             result |-> None]
Idle == [at |-> "idle", execution |-> None, checkpoint |-> None, evidence |-> None, approval |-> None]

Init ==
  /\ now = 1
  /\ lead \in -1 .. 1
  /\ release \in {"current", "retired"}
  /\ execution = [status |-> None, output |-> None]
  /\ objects = [audit |-> None, execution |-> None]
  /\ checkpoint = None /\ row = None
  /\ altered = {} /\ faults = 0
  /\ reader = Idle
  /\ view = [at |-> "start", failures |-> 0, answer |-> NoAnswer]

Running == execution.status = "RUNNING"
WorkerNow == now + lead

\* Nothing depends on the time once the execution succeeded.
Tick ==
  /\ now < MaxTime /\ execution.status # "SUCCEEDED" /\ now' = now + 1
  /\ UNCHANGED <<lead, release, execution, objects, checkpoint, row, altered, faults, reader, view>>

\* The audit worker stores its evidence.
StoreEvidence ==
  /\ Running /\ objects.audit = None
  /\ \E remediation \in {Actionable("this", WorkerNow)} \cup {ManualOnly(r) : r \in ManualOnlyReasons} :
       objects' = [objects EXCEPT !.audit = AuditOf(remediation, release, WorkerNow)]
  /\ UNCHANGED <<now, lead, release, execution, checkpoint, row, altered, faults, reader, view>>

\* The output of an older release has another schema, and not always a window.
Outputs(evidence) ==
  LET retired == [Output(evidence) EXCEPT !.schema = "v1"] IN
  IF release = "current" THEN {Output(evidence)}
  ELSE {retired, [[retired EXCEPT !.request = None] EXCEPT !.window = None]}
PutCheckpoint ==
  /\ Running /\ objects.audit # None /\ checkpoint = None
  /\ checkpoint' \in Outputs(objects.audit)
  /\ UNCHANGED <<now, lead, release, execution, objects, row, altered, faults, reader, view>>

\* The handoff refuses what is over, and puts the item once.
Handoff ==
  /\ Running /\ checkpoint # None /\ checkpoint.requiresApproval /\ row = None
  /\ checkpoint.evidence.remediation.request.expiresAt > now
  /\ row' = Row(checkpoint.evidence)
  /\ UNCHANGED <<now, lead, release, execution, objects, checkpoint, altered, faults, reader, view>>

Decide ==
  /\ row # None /\ row.status = "PENDING" /\ row.expiresAt > now /\ altered = {}
  /\ \E choice \in {"APPROVE", "REJECT"} : row' = Decided(row, choice, now)
  /\ UNCHANGED <<now, lead, release, execution, objects, checkpoint, altered, faults, reader, view>>

TimeToLive ==
  /\ row # None /\ row.status = "PENDING" /\ row.expiresAt <= now /\ altered = {}
  /\ row' = None
  /\ UNCHANGED <<now, lead, release, execution, objects, checkpoint, altered, faults, reader, view>>

\* remediate: it throws before the decision and after the window of it, and has no
\* evidence of another outcome than these that the execution could succeed with.
Remediate ==
  LET audit == objects.audit
      decision == CreateApprovalDecision(audit.remediation.request, row.decision, Approver, row.decidedAt)
  IN /\ Running /\ row # None /\ row.status = "DECIDED" /\ objects.execution = None
     /\ decision # None /\ WorkerNow >= row.decidedAt
     /\ OutcomeOf(row.decision) = "VERIFIED" => WorkerNow <= audit.remediation.request.expiresAt
     /\ objects' = [objects EXCEPT !.execution =
                       ExecutionOf(audit, row.decision, row.decidedAt, WorkerNow)]
     /\ UNCHANGED <<now, lead, release, execution, checkpoint, row, altered, faults, reader, view>>

\* Step Functions: with the result of the worker, or at a checkpoint without approval.
Succeed ==
  /\ Running /\ checkpoint # None
  /\ checkpoint.requiresApproval => objects.execution # None
  /\ execution' = [status |-> "SUCCEEDED",
                   output |-> IF checkpoint.requiresApproval
                              THEN RemediationResult(objects.execution) ELSE None]
  /\ UNCHANGED <<now, lead, release, objects, checkpoint, row, altered, faults, reader, view>>
EndOtherwise ==
  /\ Running
  /\ \E s \in Terminal \ {"SUCCEEDED"} : execution' = [status |-> s, output |-> None]
  /\ UNCHANGED <<now, lead, release, objects, checkpoint, row, altered, faults, reader, view>>

-----------------------------------------------------------------------------
(* Alterations of what is stored of an execution that succeeded *)

OtherAudit == AuditEvidence("other", AuditReport("other", TRUE), Actionable("other", 0), 0)
OtherRow == Decided(Row(OtherAudit), "APPROVE", 1)
OtherExecution ==
  LET artifacts == OtherAudit.remediation
      decision == CreateApprovalDecision(artifacts.request, "APPROVE", Approver, 1)
  IN ExecutionEvidence("other", OtherAudit, decision,
       CreateExecutionReceipt("other", artifacts, decision, "VERIFIED", 1, 1))

\* An audit with an artifact of the other one, or a wrong one of its own.
AuditEdits(e) ==
  LET r == e.remediation
      other == OtherAudit.remediation
      With(edited) == [e EXCEPT !.remediation = edited]
  IN {OtherAudit, [e EXCEPT !.report = OtherAudit.report], [e EXCEPT !.executionId = "other"],
      [e EXCEPT !.report.finding = None], [e EXCEPT !.createdAt = 0]}
     \cup (IF r.reason # None THEN {With(other)}
           ELSE {With([r EXCEPT !.dossier = other.dossier]), With([r EXCEPT !.plan = other.plan]),
                 With([r EXCEPT !.request = other.request]), With(other),
                 With([r EXCEPT !.plan.after = r.plan.before]),
                 With([r EXCEPT !.request.expiresAt = 0]),
                 With(ManualOnly("READ_ONLY_REQUEST"))})

RowEdits(r) ==
  {OtherRow, [r EXCEPT !.status = "PENDING"], [r EXCEPT !.expiresAt = @ + 1]}
    \cup (IF r.status = "PENDING" THEN {Decided(r, "APPROVE", r.expiresAt)}
          ELSE {Decided(r, choice, r.decidedAt) : choice \in {"APPROVE", "REJECT"}}
               \cup {[r EXCEPT !.decidedAt = t] : t \in {0, r.expiresAt}}
               \cup {[r EXCEPT !.proof = OtherRow.proof],
                     [r EXCEPT !.proof.approver.roles = {}, !.sealed.approver.roles = {}]})

\* Every field of a receipt taken from the other one, from one with the other
\* outcome, or wrong; its events as they were, or made again.
OtherReceipts(v) ==
  {OtherExecution.receipt,
   CreateExecutionReceipt("this", v.audit.remediation, v.decision,
     IF v.receipt.outcome = "VERIFIED" THEN "REJECTED" ELSE "VERIFIED", 1, 1)}
EditedReceipts(v) ==
  LET r == v.receipt
  IN OtherReceipts(v) \cup {[r EXCEPT ![f] = o[f]] : f \in DOMAIN r, o \in OtherReceipts(v)}
       \cup {[r EXCEPT !.startedAt = 0], [r EXCEPT !.rollback = <<"BLOCKED">>],
             [r EXCEPT !.events = SubSeq(@, 1, 5)]}
ReceiptEdits(v) == EditedReceipts(v) \cup {Chained(e) : e \in EditedReceipts(v)}
ExecutionEdits(v) ==
  {OtherExecution, [v EXCEPT !.decision = OtherExecution.decision], [v EXCEPT !.executionId = "other"],
   [v EXCEPT !.decision.decidedAt = 0], [v EXCEPT !.createdAt = 0]}
    \cup {[v EXCEPT !.receipt = r] : r \in ReceiptEdits(v)}

\* Each document once, before the first answer; no time passes after it, and one
\* status is read.
Alter(document, A) ==
  /\ execution.status = "SUCCEEDED" /\ reader = Idle /\ view.answer = NoAnswer
  /\ lead = 0 /\ faults = 0 /\ release = "current"
  /\ document \notin altered /\ Cardinality(altered) < MaxAlterings
  /\ altered' = altered \cup {document}
  /\ A
  /\ UNCHANGED <<now, lead, release, faults, reader, view>>

\* The object alone, or with the checkpoint that names it.
AlterAudit ==
  /\ checkpoint # None /\ objects.audit # None
  /\ \E e \in AuditEdits(objects.audit) :
       /\ objects' = [objects EXCEPT !.audit = e]
       /\ checkpoint' \in {checkpoint, Output(e)}
  /\ UNCHANGED <<execution, row>>
AlterRow ==
  /\ row # None /\ row' \in RowEdits(row)
  /\ UNCHANGED <<execution, objects, checkpoint>>
\* The object alone, or with the output that names it.
AlterExecution ==
  /\ objects.execution # None /\ execution.output # None
  /\ \E v \in ExecutionEdits(objects.execution) :
       /\ objects' = [objects EXCEPT !.execution = v]
       /\ execution' \in {execution, [execution EXCEPT !.output = RemediationResult(v)]}
  /\ UNCHANGED <<checkpoint, row>>

-----------------------------------------------------------------------------
(* A status request: DescribeExecution, the checkpoint and its evidence, the
   approval, the execution evidence *)

Goto(r) == reader' = r /\ UNCHANGED <<world, faults, view>>

\* The page shows what it accepts, polls again, or gives up.
Accept(a) ==
  view' = [at |-> IF a.status \in Terminal THEN (IF a.status = "SUCCEEDED" THEN "shown" ELSE "failed") ELSE "poll",
           failures |-> 0, answer |-> a]
Refuse(a) ==
  LET more == a.code \in {404, 502} /\ view.failures < 3
  IN view' = [at |-> IF more THEN "poll" ELSE "failed",
              failures |-> IF more THEN view.failures + 1 ELSE view.failures, answer |-> a]
Answer(a) ==
  /\ reader' = Idle
  /\ IF a.code = 200 /\ ParseControlLoopStatus(a) THEN Accept(a)
     ELSE Refuse(IF a.code = 200 THEN [a EXCEPT !.code = 502] ELSE a)
  /\ UNCHANGED world
Code(c) == [NoAnswer EXCEPT !.code = c]

Faulty ==
  /\ reader.at # "idle" /\ faults < MaxFaults /\ altered = {}
  /\ faults' = faults + 1
  /\ Answer([Code(502) EXCEPT !.fault = TRUE])

Describe ==
  /\ reader.at = "idle" /\ view.at = "poll" /\ (altered = {} \/ view.answer = NoAnswer)
  /\ Goto([Idle EXCEPT !.at = "checkpoint", !.execution = execution])

ReadCheckpoint ==
  /\ reader.at = "checkpoint"
  /\ IF checkpoint = None THEN Goto([reader EXCEPT !.at = "result"])
     ELSE IF ValidCheckpoint(checkpoint)
     THEN Goto([reader EXCEPT !.at = "evidence", !.checkpoint = checkpoint])
     ELSE Answer(Code(502)) /\ UNCHANGED faults

ReadEvidence ==
  LET read == ReadAuditEvidence(reader.checkpoint, objects.audit) IN
  /\ reader.at = "evidence"
  /\ CASE read = "retired" -> Answer(Code(410)) /\ UNCHANGED faults
       [] read = "invalid" -> Answer(Code(502)) /\ UNCHANGED faults
       [] read = "read" ->
            Goto([reader EXCEPT !.at = IF reader.checkpoint.requiresApproval THEN "approval" ELSE "result",
                                !.evidence = objects.audit])

ReadApproval ==
  /\ reader.at = "approval"
  /\ IF row = None \/ ValidApproval(row, reader.checkpoint, reader.evidence)
     THEN Goto([reader EXCEPT !.at = "result", !.approval = row])
     ELSE Answer(Code(502)) /\ UNCHANGED faults

\* What the lambda answers; the receipt stands for what is projected of it.
StatusBody(x, result) ==
  [NoAnswer EXCEPT !.code = 200, !.status = PublicStatus(x.status, reader.approval),
     !.evidence = reader.evidence, !.approval = reader.approval,
     !.result = IF result = NoResult THEN None
                ELSE [outcome |-> result,
                      receipt |-> IF result = "READ_ONLY_COMPLETE" THEN None
                                  ELSE objects.execution.receipt]]
\* Mutant: the execution is described after what it left was read.
DescribedLast == execution
\* The execution of the answer: the one described at the start.
Described == reader.execution
ReadResult ==
  LET result == ResultProjection(Described, reader.checkpoint, reader.approval, reader.evidence,
                                 objects.execution)
  IN /\ reader.at = "result"
     /\ Answer(IF result = "invalid" THEN Code(502) ELSE StatusBody(Described, result))
     /\ UNCHANGED faults

\* POST /api/control-loops; without an answer of use the page shows its fixture, and
\* the execution may run all the same.
StartControlLoop ==
  /\ view.at = "start"
  /\ execution' = [execution EXCEPT !.status = "RUNNING"]
  /\ \/ view' = [view EXCEPT !.at = "poll"] /\ UNCHANGED faults
     \/ faults < MaxFaults /\ faults' = faults + 1 /\ view' = [view EXCEPT !.at = "fixture"]
  /\ UNCHANGED <<now, lead, release, objects, checkpoint, row, altered, reader>>

Next ==
  \/ Tick \/ StoreEvidence \/ PutCheckpoint \/ Handoff \/ Decide \/ TimeToLive \/ Remediate
  \/ Succeed \/ EndOtherwise
  \/ Alter("audit", AlterAudit) \/ Alter("row", AlterRow) \/ Alter("execution", AlterExecution)
  \/ StartControlLoop \/ Describe \/ ReadCheckpoint \/ ReadEvidence \/ ReadApproval
  \/ ReadResult \/ Faulty

Spec == Init /\ [][Next]_vars

-----------------------------------------------------------------------------

\* The lambda reads an execution that goes on in four requests, and still every answer
\* about what the services wrote is one the page accepts: only a failed request, an
\* alteration or a retired audit makes it unreadable (status, parseControlLoopStatus).
HonestIsShown ==
  view.answer.code \in {410, 502} =>
    view.answer.fault \/ altered # {} \/ (view.answer.code = 410 /\ release = "retired")

\* The artifacts of an audit are one another's.
OneAudit(e) ==
  LET r == e.remediation IN
  /\ r.dossier.scanId = e.report.scanId /\ r.dossier.createdAt = e.createdAt
  /\ r.plan = [dossier |-> r.dossier, action |-> Action, before |-> r.dossier.before,
               after |-> r.dossier.before \cup {Pii}]
  /\ r.request = CreateApprovalRequest(r, e.createdAt, r.request.expiresAt)

\* A result that is shown is the receipt that the worker makes of the audit and the
\* decision that are shown with it, and of no others, whatever was altered
\* (verifyExecutionEvidence, executeApprovedRemediation).
ShownIsEarned ==
  LET a == view.answer IN
  view.at = "shown" /\ a.result.outcome # "READ_ONLY_COMPLETE" =>
    LET audit == a.evidence
        decision == CreateApprovalDecision(audit.remediation.request, a.approval.decision,
                                           a.approval.proof.approver, a.approval.decidedAt)
    IN /\ OneAudit(audit) /\ audit.executionId = "this" /\ decision # None
       /\ a.result.receipt =
            CreateExecutionReceipt("this", audit.remediation, decision, OutcomeOf(a.approval.decision),
                                   a.result.receipt.startedAt, a.result.receipt.completedAt)
=============================================================================
