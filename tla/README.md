# Archon DataHub: TLA+ models and proofs

Archon audits a DataHub catalog with a bounded agent, proposes one reversible tag change per finding,
has a human approve it, carries it out, and keeps evidence of what happened. What it promises is about
order, time and failure: an approved change is made at most once, inside its window, by one owner; a
receipt says what is true; a failed run can be undone; a page shows nothing that is not so; nothing waits
for ever. This directory models the parts of the repository that keep those promises, checks them with
TLC on small instances, and proves the most important ones with TLAPS for every value of the constants.

`PROJECT.json` is the machine-readable side: the components, the runs, the mutants (for each property
of a passing run a plausible bug in the code that breaks it), the source lines each definition
translates, the findings, the hazards at the lines where they bite, and the theorems.

## 1. The system

Three write paths exist side by side. The *library* (`src/src`): an audit worker and a remediation worker
take messages from SQS, run under a Step Functions task and keep their state in DynamoDB and S3; approvals
pass through two Lambdas. The *control API* (`src/infra/aws/lambda`): a judge starts a runtime session and a
control run on it, which puts jobs; on the Cloud profile a Lambda takes them from a DynamoDB stream
(`src/services/datahub-cloud-runtime`), on the Core profile a host that the Core lifecycle launched
(`src/infra/aws/image`). And two GitHub *workflows*, the live governed proof and the governed canary, drive
the same writes and take them back. The page (`src/web`) shows all of it.

| Component | State | Operations | Interacts with |
|---|---|---|---|
| Remediation control loop (`src/src/remediation/control-loop.ts`, `rollback.ts`) | the locals of a delivery; the DataHub target | `executeApprovedRemediation`, `executeApprovedRollback` | journal, DataHub, approval |
| Execution journal (`src/src/worker/aws-adapters.ts`) | items `EXECUTION#`, `APPROVAL_EXECUTION#` | `claim`, `resume`, `complete` under a fenced lease | DynamoDB transactions |
| Queue workers (`aws-adapters.ts`, `service.ts`) | the SQS message, its task token, lease timer, quarantine queue | receive, renew, report, `finalizePoison`, delete | SQS, Step Functions, both services |
| Audit result checkpoint, evidence store | checkpoint item, S3 objects | `get`, `put`, `store` | queue workers |
| Audit (`src/src/ap`, `audit`, `datahub`) | harvest, facts, findings, plan; the loop's snapshot and counters | harvest, checks, rules, impact, plan; one tool per model answer | DataHub reads, language model |
| Approval lambdas (`src/infra/aws/lambda/approval`) | item `APPROVAL#` with token, decision, delivery lease | handoff, decide, deliver, close | Step Functions, approvers |
| Live proof and canary (`src/scripts`, `src/.github/workflows`) | artifacts, manifest, the column | execute, rollback, recover | DataHub, artifact store |
| Cloud mutation (`runtime_store.py`, `handlers.py`, `mutation_runtime.py`), fixture reset | the job item with claim and ledger; the reset's ledger | claim, begin, send, acknowledge, verify, terminal, release, recover; begin, reset, complete | DynamoDB stream, session, DataHub |
| Runtime sessions (`runtime-control`) | session item with revision | start, status with reconcile, activity, stop | health of Cloud and Core, commands to Core |
| Core lifecycle (`core-lifecycle/lifecycle.py`, bootstrap) | lease and health items, scaling group, endpoints, hosts | START, ACTIVITY, STOP, REAP, WATCH, FINALIZE | Step Functions, EC2 |
| Control run (`control/runtime-v2.js`) and Core jobs (`core_job_adapter.py`, `governed_datahub_gateway.py`) | run markers, approval, jobs, authorization | start, improve, decide, stream handlers; claim, run, consume, send, complete | sessions, stream, hosts |
| Execution status of the first version (`control/index.js`) | none of its own: history, result, report, checkpoint | derive, verify, answer | worker services, page |
| Page (`src/web`) | session panel, run, evidence pack, sign-in | launch, poll, decide, resume; build, verify, download; sign in, exchange | control API, Cognito |

What is hard in it:

* **Interleaving.** Every call to DynamoDB, DataHub, S3, SQS, EC2 or Step Functions is an await; another
  worker, approver, delivery, execution or person may act between any two.
* **Time.** Leases, delivery leases, approval, authorization and session windows are compared with clocks
  read earlier than the write they guard.
* **Lost answers.** A conditional write or a DataHub request may be carried out although its sender saw an
  error; it may even be carried out later. The AWS client repeats a conditional write and is then refused
  by its own first attempt.
* **Redelivery and crashes.** Messages and stream records come again, also while the first delivery is
  still at work; a process, a host or a page may die between any two calls, and a gateway that was given up
  on goes on.
* **No fencing at the end.** DataHub has no conditional write: the read, the comparison and the write are
  three requests. Nor has it a snapshot: an audit reads page by page what others edit.
* **Contracts that are stated several times.** The pipeline, the checkpoint, the control function and the
  page each check a document by rules of their own.

What makes each component correct is what its properties say (section 3).

## 2. Modules

| Module | What it is |
|---|---|
| `OnceOnlyExecution` | abstract specification: an approval is consumed once, gets one receipt, only that is published |
| `GovernedRemediation` (+ `Proofs`) | journal, control loop, DataHub and several workers; implements `OnceOnlyExecution` |
| `AuditStatus` | the status of an execution of the first control API, against altered documents; composed in `MCRemediation` |
| `CallbackQueue` (+ `Proofs`) | SQS messages with task tokens, audit service, checkpoint, evidence, quarantine |
| `ApprovalCallback` (+ `Proofs`) | handoff and decision lambdas |
| `CatalogHarvest` | one live harvest, request by request, beside a catalog that is edited |
| `AuditChecks`, `AuditRun` | what an audit computes from a harvest, as operators, and the pipeline that runs them |
| `AuditLoop` | the bounded agent loop; composed in `MCRemediation` |
| `ReportContract` | the report's contract as five programs state it; composed with the harvest and the pipeline in `MCAudit` |
| `LiveProof` (+ `Proofs`) | the live governed proof with its recovery |
| `CanaryRecovery`, `EvidencePack` | the governed canary; the evidence pack of the page; composed with `LiveProof` in `MCLiveProof` |
| `CloudMutation` (+ `Proofs`) | the Cloud mutation job, its worker, the fixture reset |
| `CoreLease` | abstract specification: what the ephemeral Core promises to whoever reads its lease and health |
| `CoreLifecycle` (+ `Proofs`) | the lease item, its executions, the scaling group, endpoints and hosts; implements `CoreLease` |
| `RuntimeSession` (+ `Proofs`) | the session item and its requests, on `CoreLease` |
| `CoreJobs`, `ControlRun` (+ `Proofs`) | the jobs of a run on Core with their hosts and the gateway; the run itself, on top of them |
| `RunStatus` | how the status of a run may move: what `ControlRun` guarantees and `JudgePage` assumes |
| `JudgePage`, `SignIn` | the session panel and the run on the page; the steward's sign-in; composed in `MCJudgePage` |
| `MC*` | instances for TLC |

Four modules with `MC` names compose parts that never interact: a behaviour of `MCAudit`, `MCLiveProof`,
`MCRemediation` or `MCJudgePage` is a behaviour of one of its parts, chosen at the start, so that a property
of a part is exactly that part's.

**GovernedRemediation.** A worker's `pc` names the await it is at, `job[w]` its locals. `Deliver` starts
`executeApprovedRemediation` with the start instant that every later check uses. `journal` and `consumed` are
the two kinds of items; a claim or takeover is one conditional transaction, so one step, and its lost answer
is a step of its own. The lease is compared with, and renewed from, the instant at which the claim *began*, as
in the code. A write to DataHub is split into `sent` (it left the worker) and `applied` (it was carried out),
because a worker may give up between the two; a request is recorded with the token of its attempt. Other
people change the tags (`external`). `complete` is conditional on the token. The refinement of
`OnceOnlyExecution`, which knows no lease, token or worker, maps `owner` to the consumed items, `result` to the
stored receipts, `wrote` to the keys that sent, `published` to the evidence.

**AuditStatus.** What the services left of one execution may be altered before it is read: its documents
exchanged with those of another execution of the same finding, or edited and sealed anew. The lambda reads in
four requests and verifies each document against the others; the page checks the answer once more. A digest is
the document it is of.

**CallbackQueue.** One message, its task and its workers. `kind` covers audit, remediation, messages that
cannot be parsed but whose token can be recovered, and those whose token cannot. The lease timer (`Renew`)
runs beside the service: a lost lease is latched and found out at the end, and whether it was lost because the
task is closed or for now decides between deleting and retrying. The audit service is modelled call by call;
the remediation service is one step on a durable result, since `GovernedRemediation` models its inside.

**ApprovalCallback.** One approval: handoff runs (`hpc`), approval runs (`rpc`) and the item. An update applied
late compares with the instant read earlier. A delivery lease lets one run deliver; a run that was overtaken
changes nothing. Step Functions answers an attempt on a closed task with an error, from which the code
concludes CLOSED. Two messages may name one binding.

**The audit.** `CatalogHarvest` splits a harvest into its requests: search pages fix the roots, then three
strands read entities and schemas, resolved lineage, and aspects version by version with bounded concurrency,
and the harvest is accepted whole or rejected. It takes for granted that the lineage index reflects the
aspects at once, that versions move by a slot at each write as the comment in the reader says, and that the
live provider gives exact least distances; one versioned aspect stands for four, and a declared limit that is
exceeded rejects at the read. `AuditChecks` has the consistency audit over facts and histories, rules G1 to
G6, the blast radius as the bounded search the code runs, and the plan. `AuditRun` runs them in the pipeline's
order and reads the tags again for the plan. In `AuditLoop` the language model is a free choice of tool.
In `ReportContract` a text is the set of the things that some contract looks for in it.

**LiveProof, CanaryRecovery, EvidencePack.** Jobs follow one another in one concurrency group and share only
artifacts and the column; a request is answered, refused, or given up while it stays on the `wire` and may land
later. In the canary the write is made by the Cloud worker, which may act when the journey has long failed. The
pack is built, verified and downloaded by asynchronous jobs while what the page shows changes.

**CloudMutation.** `record` is the job's stream record, `worker` the one invocation that can exist (reserved
concurrency and parallelization factor are 1, `src/infra/aws/lib/judge-cloud-runtime.ts`), `job` the item with
claim and ledger. Every conditional write ends in one of `Outcomes`: done, refused, an error with or without
effect, or refused after it took effect, because the AWS client repeated it. `Deliver` is
`validate_runtime_context`; its verdict is used after the claim. `Begin` consumes the authorization before
`Send`. `Recover` is the way of a later delivery, by the phase of the ledger. `EndSession` and the `Reset*`
actions are the session's end and `fixture_reset.py`; both sides meet only in the column.

**CoreLifecycle.** The lease item, the executions that ask the lifecycle function for a decision, scale the
group and report back, and hosts that boot, report and are terminated; a start is split where the code makes
a request, so that endpoints exist before the lease that names them. `CoreLease` is what a reader of lease and
health sees of it.

**RuntimeSession.** A request takes the time, reads the session and the health, computes the next session,
sends a command to Core and updates the item if its revision is still the one it read. Commands are names of
executions: a name is taken for ever, a repeated request is answered like the first.

**CoreJobs, ControlRun, RunStatus.** A run puts jobs. One host serves a session: the loop is entered by the
process that moves the lease from STARTING to READY, and nothing starts another one for a lease that is READY
(`datahub_core_bootstrap.py:1615-1625`, the unit's `Restart=no`, a scaling group of one). `host` is what its
adapter is at, `gateway` what the gateway, a process of its own, is at with the one mutation it is called for; the
adapter may give up on it while it goes on. A job has one attempt. The code means to put a RUNNING job whose
deadline passed back into the queue, but `boto3.resource` (`core_job_adapter.py:332`) returns numbers as `Decimal`,
so that `_recover_expired` (456-469) finds the deadline and the count malformed and rejects every RUNNING job
that a pass of the loop meets, before its deadline as well as after it: `Reject`. Lines 470-506 are never reached,
and neither attempts nor deadlines are modelled. The stream handlers turn a stored approval into a job and a
receipt into the jobs that verify it. `IsoDefined` says whether the name `ISO_RE`,
which `core_job_adapter.py` uses and never defines, is defined: the runs and proofs about everything else take
it as defined, `undefined_name` takes the code as it is.

**JudgePage, SignIn.** The handlers of the page with the requests they have in flight; answers are lost or
overtake each other and the page is reloaded. The buttons wait until nothing is under way; the form of the header
(`App.tsx:1833-1842`) does not, so `RunAudit` may abort the handler that is at work, whose POST may still be
carried out (`Abandoned`). The server beside it moves as `RunStatus` says, so `JudgePage`
and `ControlRun` are two halves of an assume-guarantee argument.

## 3. Runs

| Run | What it shows | Distinct states |
|---|---|---|
| `governed` | only the last owner closes; writes are authorised; receipts do not deny or invent their own write; the journal implements `OnceOnlyExecution`; an audit that a loop counts as done is reported; a status that is shown is the one its audit and decision call for | 3.1 M (status: 0.5 M) |
| `callback_queue` | a message is deleted only when nobody waits; no failure without quarantine; the task gets the one durable result with evidence; every message ends | 0.9 M |
| `audit` | an accepted harvest leaves nothing out; a contradiction has two sources; an impact names every asset or says it is cut; a plan can be taken back; what the pipeline accepts is shown as it is | 1.4 M |
| `approval` | one decision, in time, for good; the task gets that one; it is delivered or closed | 0.3 M |
| `live_proof` | a passed or recovered run left nothing behind; what a canary's recovery evidence says of the column holds; a verified pack is of one report and a download of what is shown; what was published is undone | 1.5 M |
| `cloud_mutation` | at most one request, consumed and timely; true and final receipts; no lost job; when the reset lasts | 6.3 M |
| `core_lifecycle` | readiness is complete; lease and health are `CoreLease`; a lapsed lease is drained, orphaned endpoints are swept | 1.0 M |
| `runtime_session` | an ended session stays ended; a session is ACTIVE only on its own Core; its recorded end was sent | 4.8 M |
| `control_run` | one authorised write; a mutation reported as done was sent; a job stays as it ended; a status that never moves back; an approved run ends | 0.5 M |
| `judge_page` | what the page shows of a run is true and what it refuses has succeeded; the latest session is shown; a run that ended is not polled for ever; a steward's session is earned | 1.2 M |
| `undefined_name` | *counterexample*: with `ISO_RE` undefined a write that was carried out is reported as failed | |
| `refused_success` | *counterexample*: the page refuses the status of a run that succeeded | |

### Bounds, and why they are enough

* Time is an abstract clock. Only the order of the instants the code compares matters, so windows of one to
  three units and a clock that runs until a lapsed lease has been taken over reach every order. `CloudMutation` keeps `ExecTime < Window < LeaseTime`, as 180, 300 and
  720 seconds are. `CoreLifecycle` takes `LambdaTime` as 0: a decision is made in the instant in which its
  execution asks for it, and executions are slow in between. `SignIn` has `Ttl` 2 and `Skew` 1.
* `MaxMishaps` (`MaxCrashes`, `MaxFaults`) bounds what goes wrong: failed requests, lost answers, deaths,
  edits by others. Two, three in `LiveProof`, give every pair, for example a lost answer in the delivery that
  recovers from a death; where there is one (`judge_page`, `core_lifecycle`, `approval`, `runtime_session`)
  the overlap of handlers, executions or requests is there without it. In `control_run` two mishaps are as many as
  the stream has deliveries, so that a record is given up with its session still active.
* Two workers, hosts or executions are enough for an overtaken owner and its successor, and the proofs hold
  for any number. Workers and requests are symmetric in `governed` and `runtime_session`, which check no
  liveness.
* `MaxExternal`, `MaxEdits`, `MaxTagEdits`: one foreign change before and one after the write is what the readers
  can tell apart; the proof and the harvest take two.
* `received` in `CallbackQueue` saturates above `MaxReceive`, the comparison is all the code does, and
  `MaxRuns` is the most runs there can be. `MaxRecoveries` exceeds `MaxMishaps` in `LiveProof`, so the bound never
  stops a recovery that nothing disturbs.
* `audit`: four live catalogs under two edits; all lineages of three datasets times all audited sets; every
  history of up to three versions; reports with one peculiar text each.
* `live_proof`: for the canary all 64 initial columns of three tags one of which sorts differently, two recovery
  runs; for the pack six inputs, two jobs, alterations between downloads only.
* `governed`, loop: seven steps, a clean catalog and one with a contradiction and two violations. Status: a
  succeeded execution of which up to two documents are altered, each once, before the first answer, without
  clock offset or fault; or an untouched one with either. One status is read after the other.
* `judge_page`: two sessions and one run, or one session and two runs (`MaxBegun`), two status requests of the
  panel, one failure in a row that a poll stands where the code has three, one mishap; a status that is computed
  while the window closes counts as a failed poll, and of three kinds of errors only whether a status was refused
  is told apart. `refused_success` has no mishap and all three retries. The sign-in has two sign-ins, three page loads, two mishaps, one of
  them possibly a set-back of the clock, and one redeployment.

`CHECK_DEADLOCK FALSE` stands where the system really stops: a message is deleted, a run has ended, an
approval is closed, a job is dealt with, a session has ended.

### Fairness

* Workers make progress (`WF` of the steps of a live worker): a process that is not dead runs its next await.
* A message that is not deleted becomes visible (`WF`) and is received by a worker that is free again and again
  (`SF`): SQS redelivers, and workers poll for ever. `MessagesEnd` is about the message, which the worker itself
  may delete: at the fifth receive a retryable error is final, and a task that is closed or timed out has its
  message deleted (`aws-adapters.ts` 815-827, 1025-1035, 1045-1061). For the same reason no liveness of
  `GovernedRemediation` is claimed: after the last delivery a claimed execution may stay IN_PROGRESS for good.
* Time passes (`WF` of `Tick`).
* `approval`: approvers repeat a request that was not answered with success (`SF`). Nothing in the code
  delivers a recorded decision by itself, so liveness rests on the human, and the property says so.
* `live_proof`: a job that runs goes on, and the owner starts recover mode for a failed run that has the
  evidence it needs.
* `core_lifecycle`: an execution that was started goes on (`WF` of its next step), and the reaper, which the
  schedule starts every five minutes, gets its turn (`SF`: another execution may be in its way). Nothing is
  assumed of hosts: the property must not rest on them.
* `control_run`: the host of an active session and its gateway go on (`WF`) unless they die, after which nobody
  takes their place and nothing is claimed; the stream hands over what it has (`WF`), and the judge's window passes.
* `judge_page`: the page runs its handlers (`WF`); a request that is under way is answered or fails.

No fairness is assumed of mishaps, edits, late requests or crashes. Liveness of `CloudMutation` is not
claimed: when every delivery falls into one claim's lease the record is discarded and the job stays RUNNING.

## 4. Proofs

All theorems have the form `Spec => []P`, `Spec => [][A]_vars` or `Spec => Abstract!Spec` and hold for every
value of the constants under the named assumptions of the modules: counters and times are natural numbers,
a key has its approval, "nobody" is not somebody, what is audited are datasets. TLC evaluates these assumptions in every run. Each inductive
invariant was first checked by TLC on the component's own small instance.

The proof modules share one layout: lemmas about the shapes of steps (what leaves the items alone, what
concludes, what a caller may conclude from a request), one lemma per action or one case per action, under it
one step per conjunct that the action can disturb, and a temporal step at the end.

| Component | Inductive invariant | Why it is needed | Theorems |
|---|---|---|---|
| `GovernedRemediation` | `ClaimsAgree`: both kinds of items tell one story; `MemoryHolds`: what a worker remembers of items read several awaits ago has not become false; `EvidenceIsReceipt`; beside them `AttemptsAgree`: a claim's token is on what it sent, a claim that sent nothing owns no request, an outcome that denies a write is one of such a claim | fencing alone is not inductive: that a takeover excludes the old owner depends on what that owner still believes | `TypeCorrect`, `Invariant`, `FencingHolds`, `LastOwnerCompletes`, `WritesAreAuthorized`, `TruthfulReceipts`, `Refinement` |
| `CallbackQueue` | `Agrees`: a task that a worker found closed stays closed, it answers only with the result that is durable, an audit becomes durable behind its evidence, quarantine precedes failure; `OneReceipt`: a message has one receipt that counts | the durable result is fixed before the answer is under way, so a second run can only repeat it | `TypeCorrect`, `Invariant`, `NoMessageIsLost` |
| `ApprovalCallback` | `Stands`: what a run read of the item, or did to the task, still holds when it acts on it | a run acts up to five awaits after it read; a decision and a delivered outcome are never unmade, a lease may be | `TypeCorrect`, `Invariant`, `DecisionsStand`, `RecordsAreFinal` |
| `LiveProof` | where a request may still be on the wire, that a write which was seen is not on it, and that a removal which was read back leaves nothing that could undo it; guarded by `edits = 0` | a request a job gave up on may land in a later job | `TypeCorrect`, `Passed`, `Lasting`, `EndsAtBaseline` |
| `CanaryRecovery` | `OneAddition`: while nobody else edits, the tag and the request that adds it exclude each other; `FoundForGood`: what a recovery found there nothing brings back; `MadeAfter`: evidence says when it was made | the approved addition is the worker's and may land in any later job; only its absence from what is pending makes a read-back final | `RecoveryHolds`, `RecoveryHoldsComposed` |
| `EvidencePack` | `OneBuild`: one preparation has the token that counts, and until it ends nothing is ready; `OfReady`: a download whose token counts is of the pack that is ready; `Prepared`, `FilesHold`: that pack is the build of its input unless it was altered, and a file about to leave is of a verified pack | a click is three awaits after the pack it is for was rendered, and only the token says whether it still is | `DownloadsHold` |
| `EvidencePack`, verification | `Shaped`: what is ready, however often it was altered, is a pack: files whose contents have the form that their path says, and a manifest that lists files | the nine checks bind the parts of a pack to each other, which determines it only if the parts are of these forms | `VerificationHolds` |
| `CloudMutation` | `Counted`: deliveries and records agree; `LedgerLeads`: the ledger is as far as the worker; `Holding`, `Timely`: a sender has the job, and began while the session lived. For the reset a second one, `LInv`: `Pending` (where a request can still come from), `Seen` (what the resetter saw after the last worker), `Lasting` | the reset and the worker share nothing but the column; only the timeout of the invocation bounds how late it writes | `TypeCorrect`, `SendsOnce`, `ConsumedFirst`, `SuccessIsProven`, `NoJobIsLost`, `ReceiptsHold`, `ReceiptIsFinal`, `StaleUseIsBounded`, `LateIsHarmless`, `ResetIsLasting` |
| `CoreLifecycle` | `Leased`: the lease is of a session that was started, and a READY one has no operation pending; `Starts`: a start is of a revision at which its session did not have the lease; `Stops`, `Serves`: a later step finds the lease where its execution left it, or finds its revision gone | a host or an execution acts on a revision it was given when it was started | `TypeCorrect`, `Invariant`, `ReadinessIsEarned`, `RefinesCoreLease` |
| `RuntimeSession` | `Creates`, `Serves`: a request whose revision is still the item's knows the item, and what it is about to record is what Core did or was told; `Follows`: the same of what is recorded | every save raises the revision, so a request that was overtaken loses its update; the one that is not must not record more than it did | `TypeCorrect`, `Invariant`, `RecordsHold`, `EndsAreFinal` |
| `JudgePage` | `PanelIInv`: session ids are given in order, and every poll or command in flight is about the session shown or a later one; `RunIInv`: with the property, a handler that is at work has the run it is for | an answer is applied several requests after it was asked for, and only what it is about says whether the page may take it | `PageHolds`, `LatestShown` |
| `SignIn` | `AuthIInv`: `Unspent`: a request that may still be stored or exchanged has not been exchanged; `Booting`: what the document holds before its start is over; `Timed`: token, timer and clock tell one time while the clock is not set back; `Own`: a session is of the last request | the transaction, the callback and the token are in three places, and any document may come with any of them | `SessionEarned` |
| `AuditStatus` | `StatusTypes`; `Verified`: what was read and let through is bound to what was read before; as long as nothing was altered, `Written` and `Read`: the documents are those the services wrote, and those that were read are among them; `Unstarted` | an answer is made of four reads at four moments | `HonestStatusIsShown`, `ShownResultIsEarned` |
| `AuditLoop` | `LoopIInv`: an audit that is done is among the findings as it was found, behind every audit there is a harvest, and behind every harvest its trace | what was found is compared with the snapshot, which a later harvest replaces | `DoneAuditsAreReported` |
| `AuditRun` | `PlanIInv`: a G6 finding is about a dataset, a report that goes on to a plan has one, and the plan is the last step | the plan is for the first candidate, which exists only because findings are about datasets, and those have an order | `PlansAreReversible` |
| `CoreJobs` with `ControlRun` | `HostAgrees`: the adapter is at a job that was claimed; `WritesAgree`: how far the gateway is says whether it sent, and what is about to be reported as done was sent; `JobsAreNew`; `WindowIsFixed`; `JobIsApproved`; `TriesAgree`; and `StagesAgree`, from which the status argument follows stage by stage | the adapter may give up on a gateway that goes on, and an answer that was lost may have been carried out: only the state of the item, tested in every condition, keeps an ended job as it is | `TypeCorrect`, `Invariant`, `EndedStays`, `LateApprovals`, `OneApproval`, `Authorization`, `EarnedReceipts`, `Staged`, `StatusMoves` |

Two refinements are proved step by step. Every action of `GovernedRemediation` maps to a step of
`OnceOnlyExecution` or to a stutter: `owner` is the consumed items, `result` the stored receipts, `wrote` the
keys that sent, `published` the evidence. Every action of `CoreLifecycle` maps to one of `CoreLease` or to a
stutter: executions, endpoints and hosts disappear, and a drained session's start finds its revision gone.
`RecoveryHoldsComposed`, `DownloadsHold` and `VerificationHolds` are about the composition of `MCLiveProof`, the
theorems of `AuditStatus` and `AuditLoop` about that of `MCRemediation`, those of `JudgePage` and `SignIn` about
that of `MCJudgePage` (they are in `RuntimeSessionProofs`; `AuditRun`'s is in `ApprovalCallbackProofs`): each
rests on an invariant of its part, which the steps of the other parts leave alone. Those of the pack hold for
any set of inputs the page may show. `StatusAssumption`, `SignInAssumption` say what `None` is not.
`VerifiedPack` is the lemma behind the last: a pack that passes the nine checks is the one written from the
report and the terminal proof it holds.
`StatusMoves` proves the guarantee (`RunStatus`) that `JudgePage` takes as its assumption.

`CloudMutationProofs` rests on `OutcomeFacts`: what a caller may conclude from a conditional write that ends
done, refused, in an error, or refused by its own first attempt. Every action that writes the job uses only
that, so the proof covers every combination of lost and repeated answers.

### Only model-checked

* Liveness (`MessagesEnd`, `DecisionIsDelivered`, `PublishedIsUndone`, `LapsedIsDrained`,
  `OrphansAreRemoved`, `ApprovedRunConcludes`, `PollsEnd`), since `ENABLED` and fairness are out of the prover's
  reach.
* What rests on data computed step by step, which needs induction over that data: the harvest
  (`HarvestIsFaithful`), the audit's findings and their impact (`FindingsAreReal`), the contracts of a report
  (`ReportIsKept`). `AuditChecks` and `CatalogHarvest` compute their rings and lengths of ways with recursive
  functions, whose values at every argument need such an induction.

## 5. Where the code and its documents differ

Two runs show one each. `undefined_name`: `core_job_adapter.py` refers to `ISO_RE`, which it does not define, so a
Core job that carried out its write is completed as failed. `refused_success`: the page refuses every governed run
that succeeded. The control function binds the `skillCompletion` of the status to the analysis made before the
write (`runtime-v2.js:1273-1277`), while the `agentStackResult` beside it is the analysis made after it
(line 1281); the page (`skillCompletionProjection`, `runtime-api.ts:1371`) demands that the completion names the
preview and the grounding of that `agentStackResult`. The tests of the page accept a success
(`runtime-api.test.ts:618-675`, `App.test.tsx:355-541`) because their document takes both from one analysis.

The others were met while modelling. Where a property is named, its module states it and no run checks it,
since the code does not keep it; each was seen to fail.

* `OfferedIsNotFailed` (`CallbackQueue`): a result that is stored, and offered to a task whose answer was lost, may
  end in quarantine and `SendTaskFailure`. The receive limit counts deliveries that met a slow owner.
* `StaleMeansNoWrite` (`GovernedRemediation`): after a takeover a receipt STALE may stand over a write of an
  earlier owner that landed late; `ReceiptsAreTruthful` is what remains.
* `FindingsAreOfOneHarvest` (`AuditLoop`): a second harvest between the two audits replaces the snapshot
  (`loop.ts:204`), and one report mixes findings of two states of the catalog. `DoneIsReported` does not rule it
  out: it asks for each audit that its findings are those of some harvest.
* `RerunIsNoProgress` (`AuditLoop`): a repeated audit appends its findings once more, so it counts as progress
  although it found nothing new, and its findings are doubled.
* `DecidedIsNotFailed` (`ApprovalCallback`): a handoff message that comes again after the expiry fails the task
  although a decision was recorded in time and only its delivery is outstanding.
* `UnpublishedIsRecoverable` (`LiveProof`): a run that wrote and failed before its artifact was uploaded has no
  recovery.
* `core_job_adapter.py:470-506`: an attempt whose deadline passed should be put back, or completed as
  `CORE_JOB_ATTEMPTS_EXHAUSTED` after the last one. Neither happens with numbers as boto3 returns them (456-469
  reject the job first, whatever its deadline), and no test drives either.
* `ReaperReturnsCapacity` (`CoreLifecycle`): once a lease is STOPPED the reaper sweeps endpoints only; capacity
  that a slow start asked for after the stop stays.
* `DriftIsNotReported` (`AuditRun`): `version-history.ts:255-258` keeps drift apart from contradictions. The
  registry is asked for its first 100 sources and their first 100 executions only; a version beyond them gets
  its pipeline's name where the others get the registry's, so one pipeline may contradict itself.
* A text with a line break passes `narrator.ts`, the pipeline and `public-audit-report.ts` and is refused by
  the control function (`boundedReportText`) and by the page (`isBoundedText`), against
  `public-audit-report.ts:5-8`; the same goes for column names with line breaks and for details that are too
  long, and a text that looks like a credential makes a status unreadable for ever. G6 lists all columns, so a
  wide dataset can exceed the 4000 characters and fail the audit.
* No provenance event of a contradiction is shown as trusted: the values list the earliest carrier of each
  value (`consistency.ts:353-366`), the recommendation names the latest.
* `exactProjection` (`governed-canary.ts:307`) wants tags in code-unit order and the projection sorts them by
  locale (`planner.ts:34-36`): a column whose other tags sort differently can never be recovered
  (`docs/GOVERNED_CANARY.md`). A recovery may also be sealed as already-baseline while an approved addition is
  still under way, and it removes a tag that was there before the run, which the manifest does not record.
* A mutation client whose initialization timed out may leave its connection open
  (`mutation-client-live.ts:300-317` against the comment at 462-465).
* When the 202 of a start is lost the page shows the fixture while a run exists.
* `auth.ts` has a message for a redirect that no longer matches the deployment, which cannot appear, since
  `parseAppUri` makes the redirect the root of the page.
* A harvest accepts a list in which one dataset took another's place between two pages, since only the count is
  compared; `HarvestIsFaithful` says what holds when no such exchange went unnoticed.

## 6. Not modelled

* Content: digests, signatures, canonical JSON, formats, prompts. A digest is the document it is of, and a
  validation that only looks at shape is a choice or is taken as passed.
* Pure functions without a property of their own, HTTP, presentation, reporting, infrastructure as code,
  operations scripts, vendored and contributed code: the components with status `not_modelled`, each with its
  reason. The state machine that would start the first version's audits is not in the repository's stacks.
* The read and analytics jobs of the Cloud runtime share claim, release and receipt with the mutation job; they
  change nothing outside their own item.
* Limits that another limit makes redundant: the pack's eight megabytes (four files of two), the skew allowance
  of the control function (the worker refuses the order it allows for), the 256 tags of a projection that the
  control function checks and the worker does not.
* Branches that change nothing the models tell apart, or that the shipped parts cannot reach: `MUTATION_FAILED` and
  the read after a failed `addTags` (`control-loop.ts:608-617`; `LiveDataHubMutationClient` does not give the
  answer they are for); the records of a batch that `handlers.py` passes over (325, 345-346); the idempotent
  answers of START and ACTIVITY (`lifecycle.py:783-791`, 901-915, 1007-1021); a FAILED lease without a session
  (`runtime-control/index.js:446-449`: the lifecycle never removes the session from a lease); the finding type that
  `evidence-pack.ts:738` writes into the marked-down report; the second look at the relations of a dataset
  (`mcp-client-live.ts:663`).
* A cancelled or timed-out run of the live proof, which the recover job refuses: every mishap of `LiveProof` is a
  failure of the run. A run of the canary or the proof that nobody recovers stays as it is.
* How a lease that a stop left DRAINING gets to STOPPED (`lifecycle.py:1046`): `LapsedIsDrained` counts it as drained.
* Stream records out of order (a shard keeps a job's in order), duplicated tabs and the back and forward cache of a
  signed-in page, `loadAudit` of the page, which nothing calls any more and which `AuditStatus` models as the
  contract it states.

## 7. Plan

1. Proofs: `JudgePage` and `ControlRun` could be composed by proof: the guarantee (`StatusMoves`) and what the page
   makes of it (`PageHolds`) are both proved, the step between them is the correspondence of their runs.
2. Models: the read and analytics jobs and the checkpoint store of the Cloud runtime, the Cloud profile of the
   control run, the classifier and the narrator's bounds.
