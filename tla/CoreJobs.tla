------------------------------ MODULE CoreJobs ------------------------------
(***************************************************************************)
(* The jobs of one control run on the ephemeral Core: CoreJobAdapter, the  *)
(* loop on the host that claims the jobs of its session, carries them out  *)
(* and stores a receipt, and the governed gateway, a service of its own    *)
(* beside it, which consumes a signed authorization and lets one tag       *)
(* change through, also when the adapter no longer waits for it.           *)
(*                                                                         *)
(* One process runs the loop of a session: it gets there by moving the     *)
(* lease from STARTING to READY, and neither systemd nor a new instance    *)
(* starts another for a lease that is READY (CoreLifecycle).  A job is put *)
(* back by nobody: boto3 returns the numbers of an item as Decimal, which  *)
(* _recover_expired takes for a malformed attempt, so that a RUNNING job   *)
(* it meets is rejected, before its deadline as well as after.  Hence no   *)
(* job has a second attempt, and neither attempts nor deadlines are here.  *)
(* Requests, digests and signatures are those the control function made:   *)
(* what a job may ask for is in ControlRun.                                *)
(***************************************************************************)
EXTENDS Naturals, FiniteSets

CONSTANTS
  Tags,        \* tags of the governed column
  PII,         \* the tag a plan adds
  IsoDefined,  \* whether ISO_RE, a name the check of a gateway receipt uses, is
               \* defined: the module of the adapter does not define it
  MaxClock,    \* bound: the clock
  MaxMishaps   \* bound: crashes, failed requests, lost answers and changes of
               \* the column by others

ASSUME JobsAssumption ==
  /\ PII \in Tags
  /\ IsoDefined \in BOOLEAN
  /\ MaxClock \in Nat /\ MaxMishaps \in Nat

VARIABLES
  jobs,    \* JOB#id items of the session
  host,    \* what the adapter is at
  gateway, \* what the gateway is at with the one call it gets
  column,  \* the tags of the column in DataHub
  session, \* whether the runtime session is ACTIVE, as its item says
  clock, mishaps,
  sends    \* history: how many times add_tags was carried out

jvars == <<jobs, host, gateway, column, session, clock, mishaps, sends>>

Jobs == {"analyze", "read", "improve", "mutation", "postAnalyze", "postRead"}
PostJobs == {"postAnalyze", "postRead"}

\* What a request binds: the column before and after, and the last instant of
\* its authorization; only the mutation and the jobs after it look at them.
NoRequest == [before |-> {}, after |-> {}, expires |-> 0]
Requests == [before : SUBSET Tags, after : SUBSET Tags, expires : Nat]

\* A receipt: what the job saw of the column, and the time of the one that opens
\* a window.
NoReceipt == [saw |-> {}, at |-> 0]

NoItem == [state |-> "NONE", consumed |-> FALSE, request |-> NoRequest, receipt |-> NoReceipt]
Queued(request) == [NoItem EXCEPT !.state = "QUEUED", !.request = request]

AtRest == [at |-> "idle", job |-> "none", saw |-> {}]

JobsInit ==
  /\ jobs = [j \in Jobs |-> NoItem]
  /\ host = AtRest
  /\ gateway = "none"
  /\ column \in {{}} \cup {{t} : t \in Tags}
  /\ session = "ACTIVE"
  /\ clock = 0 /\ mishaps = 0
  /\ sends = 0

State(j) == jobs[j].state
Ended(j) == State(j) \in {"SUCCEEDED", "FAILED"}
Mishap == mishaps < MaxMishaps /\ mishaps' = mishaps + 1

To(at) == host' = [host EXCEPT !.at = at]
See(at) == host' = [host EXCEPT !.at = at, !.saw = column]
Job == jobs[host.job]

-----------------------------------------------------------------------------
(* The queue *)

\* _valid: a verification may expect no tag on the column, or PII alone.
Valid(j) == j \in PostJobs => jobs[j].request.after \in {{}, {PII}}

Claimable(j) == host.at = "idle" /\ State(j) = "QUEUED" /\ Valid(j)
Running(j) == [jobs EXCEPT ![j].state = "RUNNING"]

Claim(j) ==
  /\ Claimable(j)
  /\ jobs' = Running(j)
  /\ host' = [AtRest EXCEPT !.at = "work", !.job = j]
  /\ UNCHANGED <<gateway, column, session, clock, mishaps, sends>>

\* The claim is carried out and its answer lost: sent again it is refused, and
\* the job is nobody's.
ClaimLost(j) ==
  /\ Claimable(j)
  /\ Mishap
  /\ jobs' = Running(j)
  /\ UNCHANGED <<host, gateway, column, session, clock, sends>>

\* _complete and _reject_invalid: the receipt ends the job.
Closed(j, state, saw) ==
  [jobs EXCEPT ![j].state = state,
               ![j].receipt = [saw |-> saw, at |-> IF j = "improve" THEN clock ELSE 0]]

\* The claim failed for another reason than its condition, carried out or not:
\* the item is rejected as it stands.
ClaimFails(j) ==
  /\ Claimable(j)
  /\ Mishap
  /\ jobs' = Closed(j, "FAILED", {})
  /\ UNCHANGED <<host, gateway, column, session, clock, sends>>

\* A request that is not valid, or an attempt that is still RUNNING when the next
\* pass begins, whose deadline and count are not of type int.
Rejectable(j) == State(j) = "RUNNING" \/ (State(j) = "QUEUED" /\ ~Valid(j))

Reject(j) ==
  /\ host.at = "idle"
  /\ Rejectable(j)
  /\ jobs' = Closed(j, "FAILED", {})
  /\ UNCHANGED <<host, gateway, column, session, clock, mishaps, sends>>

\* Mutant: whatever the state.
Anyhow == TRUE

\* The condition of _complete: the job is RUNNING, which makes it this attempt's.
OwnAttempt == Job.state = "RUNNING"

Store(state) ==
  jobs' = IF OwnAttempt
          THEN Closed(host.job, state, IF state = "SUCCEEDED" THEN host.saw ELSE {})
          ELSE jobs

Complete ==
  /\ \/ host.at = "done" /\ Store("SUCCEEDED")
     \/ host.at = "failed" /\ Store("FAILED")
  /\ host' = AtRest
  /\ UNCHANGED <<gateway, column, session, clock, mishaps, sends>>

\* The receipt of a success is too large, or its update failed, carried out or
\* not: a failure is stored instead, or, when that fails too, the item rejected.
CompleteFails ==
  /\ host.at = "done"
  /\ Mishap
  /\ Store("SUCCEEDED") \/ UNCHANGED jobs
  /\ To("failed")
  /\ UNCHANGED <<gateway, column, session, clock, sends>>

-----------------------------------------------------------------------------
(* The operations *)

\* A read of the column, or an analysis, which sees its tags as well.  An
\* improvement looks at the handle of the analysis only.
Read ==
  /\ host.at = "work"
  /\ \/ host.job \in {"analyze", "read"} /\ See("done")
     \/ host.job = "improve" /\ To("done")
  /\ UNCHANGED <<jobs, gateway, column, session, clock, mishaps, sends>>

\* _post_mutation: the column as the plan left it, or nothing.
PostRead ==
  /\ host.at = "work"
  /\ host.job \in PostJobs
  /\ IF column = Job.request.after
       THEN See(IF host.job = "postRead" THEN "done" ELSE "unchanged")
       ELSE To("failed")
  /\ UNCHANGED <<jobs, gateway, column, session, clock, mishaps, sends>>

\* The analysis after the write looks at DataHub once more.
PostAnalyze ==
  /\ host.at = "unchanged"
  /\ See("done")
  /\ UNCHANGED <<jobs, gateway, column, session, clock, mishaps, sends>>

\* The mutation is the gateway's.
Call ==
  /\ host.at = "work"
  /\ host.job = "mutation"
  /\ To("waiting")
  /\ gateway' = "called"
  /\ UNCHANGED <<jobs, column, session, clock, mishaps, sends>>

\* The check of the receipt: without ISO_RE every one raises.
Believed == gateway = "confirmed" /\ IsoDefined

Answer ==
  /\ host.at = "waiting"
  /\ gateway \in {"confirmed", "refused"}
  /\ host' = IF Believed THEN [host EXCEPT !.at = "done", !.saw = Job.request.after]
             ELSE [host EXCEPT !.at = "failed"]
  /\ UNCHANGED <<jobs, gateway, column, session, clock, mishaps, sends>>

-----------------------------------------------------------------------------
(* The gateway *)

Mutation == jobs["mutation"]
Then(at) == gateway' = at

\* _validate_request: the signature has not run out, and the lease is READY.
\* The lease outlives the session by the time a drain takes.
Authorized == Mutation.request.expires > clock

Validate ==
  /\ gateway = "called"
  /\ \/ Authorized /\ Then("valid")
     \/ ~Authorized /\ Then("refused")
     \/ session # "ACTIVE" /\ Then("refused")
  /\ UNCHANGED <<jobs, host, column, session, clock, mishaps, sends>>

\* Mutant: the authorization alone.
Unused == ~Mutation.consumed

\* The condition of _consume.
Unconsumed == Mutation.state = "RUNNING" /\ ~Mutation.consumed

Consume ==
  /\ gateway = "valid"
  /\ IF Unconsumed
       THEN jobs' = [jobs EXCEPT !["mutation"].consumed = TRUE] /\ Then("consumed")
       ELSE UNCHANGED jobs /\ Then("refused")
  /\ UNCHANGED <<host, column, session, clock, mishaps, sends>>

\* The answer of the update is lost; the client sends it again and is refused.
ConsumeFails ==
  /\ gateway = "valid"
  /\ Unconsumed
  /\ Mishap
  /\ jobs' = [jobs EXCEPT !["mutation"].consumed = TRUE]
  /\ Then("refused")
  /\ UNCHANGED <<host, column, session, clock, sends>>

\* Mutant: a column that has the tag already needs no write.
SkipWrite ==
  /\ gateway = "consumed"
  /\ Then(CASE column = Mutation.request.before -> "send"
             [] column = Mutation.request.after -> "sent"
             [] OTHER -> "refused")
  /\ UNCHANGED <<jobs, host, column, session, clock, mishaps, sends>>

ReadBefore ==
  /\ gateway = "consumed"
  /\ Then(IF column = Mutation.request.before THEN "send" ELSE "refused")
  /\ UNCHANGED <<jobs, host, column, session, clock, mishaps, sends>>

Tagged ==
  /\ column' = column \cup {PII}
  /\ sends' = sends + 1

Send ==
  /\ gateway = "send"
  /\ Tagged
  /\ Then("sent")
  /\ UNCHANGED <<jobs, host, session, clock, mishaps>>

\* The request failed, or its answer did.
SendFails ==
  /\ gateway = "send"
  /\ Mishap
  /\ Tagged \/ UNCHANGED <<column, sends>>
  /\ Then("refused")
  /\ UNCHANGED <<jobs, host, session, clock>>

\* The state after, which the receipt of the gateway is about.
ReadAfter ==
  /\ gateway = "sent"
  /\ Then(IF column = Mutation.request.after THEN "confirmed" ELSE "refused")
  /\ UNCHANGED <<jobs, host, column, session, clock, mishaps, sends>>

-----------------------------------------------------------------------------
(* Failures and the surroundings *)

\* A request to DataHub or to the companion fails, or the adapter gives up on the
\* gateway, which goes on.
WorkFails ==
  /\ host.at \in {"work", "unchanged", "waiting"}
  /\ Mishap
  /\ To("failed")
  /\ UNCHANGED <<jobs, gateway, column, session, clock, sends>>

\* A read of the gateway fails, or the service does.
GatewayFails ==
  /\ gateway \in {"called", "valid", "consumed", "sent"}
  /\ Mishap
  /\ Then("refused")
  /\ UNCHANGED <<jobs, host, column, session, clock, sends>>

\* The supervisor ends, and nobody takes its place; the gateway may get on with
\* what it is at.
Crash ==
  /\ host.at # "gone"
  /\ Mishap
  /\ host' = [AtRest EXCEPT !.at = "gone"]
  /\ UNCHANGED <<jobs, gateway, column, session, clock, sends>>

Edit(tags) ==
  /\ column # tags
  /\ Mishap
  /\ column' = tags
  /\ UNCHANGED <<jobs, host, gateway, session, clock, sends>>

\* Stopped, expired or failed: RuntimeSession says when.
EndSession ==
  /\ session = "ACTIVE"
  /\ session' = "ENDED"
  /\ UNCHANGED <<jobs, host, gateway, column, clock, mishaps, sends>>

Tick ==
  /\ clock < MaxClock
  /\ clock' = clock + 1
  /\ UNCHANGED <<jobs, host, gateway, column, session, mishaps, sends>>

Serve ==
  \/ \E j \in Jobs : Claim(j) \/ Reject(j)
  \/ Complete
  \/ Read \/ PostRead \/ PostAnalyze \/ Call \/ Answer
  \/ Validate \/ Consume \/ ReadBefore \/ Send \/ ReadAfter

Fails ==
  \/ \E j \in Jobs : ClaimLost(j) \/ ClaimFails(j)
  \/ CompleteFails \/ WorkFails \/ Crash
  \/ ConsumeFails \/ SendFails \/ GatewayFails

Surroundings == EndSession \/ Tick \/ \E tags \in SUBSET Tags : Edit(tags)
=============================================================================
