---------------------------- MODULE CloudMutation ----------------------------
(***************************************************************************)
(* The governed mutation of the Cloud runtime: one approved action becomes *)
(* a job (runtime-v2.js), the job's stream record invokes the mutation     *)
(* worker (services/datahub-cloud-runtime: handlers, runtime_store,        *)
(* mutation_runtime), which sends add_tags at most once, and the end of    *)
(* the session invokes the fixture reset, which takes the tag off again.   *)
(*                                                                         *)
(* Both functions have a reserved concurrency of one, so there is one      *)
(* worker and one resetter.  An invocation lives for at most ExecTime, and *)
(* a record whose invocation failed, timed out or died is delivered again, *)
(* MaxRetries times.  A conditional write may take effect and lose its     *)
(* answer, and then the AWS client's own retry sees its condition fail.    *)
(***************************************************************************)
EXTENDS Naturals

CONSTANTS
  ExecTime,      \* the function's timeout (180 s)
  LeaseTime,     \* of a claim (CLAIM_SECONDS, 720 s)
  Window,        \* longest life of an authorization (300 s)
  ApprovalTime,  \* when the approval request expires
  MaxRetries,    \* further deliveries of a record that failed
  MaxTime,       \* bound: the clock
  MaxMishaps,    \* bound: lost, refused and failed calls, dead invocations
  MaxEdits       \* bound: edits of the column by other people

ASSUME TimesAssumption ==
  /\ ExecTime \in Nat /\ LeaseTime \in Nat /\ Window \in Nat /\ ApprovalTime \in Nat
  /\ MaxRetries \in Nat /\ MaxTime \in Nat /\ MaxMishaps \in Nat /\ MaxEdits \in Nat

VARIABLES
  now,
  session,    \* its state, and when it ended
  job,        \* the job's item
  record,     \* the job's stream record
  worker,     \* the invocation of the mutation function
  reset,      \* the fixture reset's ledger item and its stream record
  resetter,   \* the invocation of the reset function
  tagged,     \* whether the governed column has the tag; other tags, which fail the
              \* comparisons with the approved states too, are left to the mishaps
  wire,       \* requests given up by their sender that may yet be carried out
  sent,       \* add_tags requests sent so far
  applied,    \* whether one was carried out
  mishaps, edits

aws == <<session, job, record, reset>>
datahub == <<tagged, wire, sent, applied>>
vars == <<now, aws, worker, resetter, datahub, mishaps, edits>>

Times == 0..(MaxTime + LeaseTime + Window)
Terminal == {"SUCCEEDED", "FAILED"}
WorkerSteps == {"idle", "claim", "authorize", "before", "begin", "send", "ack", "after",
                "verify", "recover", "succeed", "fail", "release"}

Job == [state : {"ABSENT", "QUEUED", "RUNNING"} \cup Terminal,
        owner : 0..(MaxRetries + 1), lease : Times, expires : Times,
        phase : {"none", "AUTHORIZED", "PROVIDER_ACKNOWLEDGED", "VERIFIED"},
        consumed : Times]
Worker == [pc : WorkerSteps, attempt : 0..(MaxRetries + 1), started : Times,
           valid : BOOLEAN, consumed : Times]
Record == {"none", "waiting", "delivered", "handled", "discarded"}
Reset == [phase : {"none", "EXECUTING", "COMPLETE"}, asOf : Times, record : Record]
Resetter == [pc : {"idle", "begin", "read", "remove", "check", "complete"},
             attempt : 0..(MaxRetries + 1), started : Times, read : Times]

TypeOK ==
  /\ now \in 0..MaxTime
  /\ session \in [state : {"ACTIVE", "EXPIRED", "STOPPED"}, at : Times]
  /\ job \in Job /\ record \in Record /\ worker \in Worker
  /\ reset \in Reset /\ resetter \in Resetter
  /\ tagged \in BOOLEAN
  /\ wire \subseteq {"add", "remove"}
  /\ sent \in Nat /\ applied \in BOOLEAN
  /\ mishaps \in 0..MaxMishaps /\ edits \in 0..MaxEdits

Init ==
  /\ now = 0
  /\ session = [state |-> "ACTIVE", at |-> 0]
  /\ job = [state |-> "ABSENT", owner |-> 0, lease |-> 0, expires |-> 0, phase |-> "none",
            consumed |-> 0]
  /\ record = "none"
  /\ worker = [pc |-> "idle", attempt |-> 0, started |-> 0, valid |-> FALSE, consumed |-> 0]
  /\ reset = [phase |-> "none", asOf |-> 0, record |-> "none"]
  /\ resetter = [pc |-> "idle", attempt |-> 0, started |-> 0, read |-> 0]
  /\ tagged = FALSE /\ wire = {} /\ sent = 0 /\ applied = FALSE
  /\ mishaps = 0 /\ edits = 0

Mishap == mishaps < MaxMishaps /\ mishaps' = mishaps + 1
Well == mishaps' = mishaps

----------------------------------------------------------------------------
(* The job is created, once, when the approval reaches the stream handler. *)

\* processApprovalEnvelope: the authorization expires with the approval at the latest.
Dispatch ==
  /\ job.state = "ABSENT"
  /\ session.state = "ACTIVE" /\ now < ApprovalTime
  /\ job' = [job EXCEPT !.state = "QUEUED",
               !.expires = IF now + Window < ApprovalTime THEN now + Window ELSE ApprovalTime]
  /\ record' = "waiting"
  /\ UNCHANGED <<now, session, worker, reset, resetter, datahub, mishaps, edits>>

----------------------------------------------------------------------------
(* The worker.                                                             *)

worked == <<now, session, reset, resetter, edits>>

Go(pc) == worker' = [worker EXCEPT !.pc = pc]

\* What a conditional write of the job may come to: the job it leaves, what its
\* caller learns, and whether that took a mishap.
Outcomes(holds, new) ==
  LET after == IF holds THEN new ELSE job
      Clear == [job |-> after, is |-> IF holds THEN "ok" ELSE "refused", cost |-> 0]
      Lost == {[job |-> j, is |-> "error", cost |-> 1] : j \in {job, after}}
      Repeated == IF holds THEN {[job |-> new, is |-> "refused", cost |-> 1]} ELSE {}
  IN {Clear} \cup {r \in Lost \cup Repeated : mishaps < MaxMishaps}

Wrote(r) == job' = r.job /\ mishaps' = mishaps + r.cost

\* The invocation ends, and its record is done with, delivered again or given up.
Idle == worker' = [pc |-> "idle", attempt |-> worker.attempt, started |-> 0, valid |-> FALSE,
                   consumed |-> 0]
Handled == Idle /\ record' = "handled"

Report == Idle /\ record' = IF worker.attempt > MaxRetries THEN "discarded" ELSE "waiting"

\* validate_runtime_context: a session that is over, or a stale registry, makes the
\* context invalid; what cannot be read makes the record a failed one.
Deliver ==
  /\ worker.pc = "idle" /\ record = "waiting"
  /\ \/ /\ worker' = [pc |-> "claim", attempt |-> worker.attempt + 1, started |-> now,
                      valid |-> session.state = "ACTIVE", consumed |-> 0]
        /\ record' = "delivered" /\ Well
     \/ /\ worker' = [pc |-> "claim", attempt |-> worker.attempt + 1, started |-> now,
                      valid |-> FALSE, consumed |-> 0]
        /\ record' = "delivered" /\ Mishap
     \/ /\ worker' = [worker EXCEPT !.attempt = @ + 1]
        /\ record' = IF worker.attempt + 1 > MaxRetries THEN "discarded" ELSE "waiting"
        /\ Mishap
  /\ UNCHANGED <<worked, job, datahub>>

Claimable ==
  \/ job.state = "QUEUED"
  \/ job.state = "RUNNING" /\ job.lease < now

\* Mutant: the context is read and not heeded.
ContextIgnored == "authorize"

\* A job whose context is not valid is claimed all the same, to be failed.
Context == IF worker.valid THEN "authorize" ELSE "fail"

Claim ==
  /\ worker.pc = "claim"
  /\ \E r \in Outcomes(Claimable, [job EXCEPT !.state = "RUNNING", !.owner = worker.attempt,
                                             !.lease = now + LeaseTime]) :
       /\ Wrote(r)
       /\ \/ r.is = "ok" /\ Go(Context) /\ UNCHANGED record
          \/ r.is = "refused" /\ r.job.state \in Terminal /\ Handled
          \/ r.is = "refused" /\ r.job.state \notin Terminal /\ Report
          \/ r.is = "error" /\ Report
  /\ UNCHANGED <<worked, datahub>>

\* The secret, verify_mutation_request, and the ledger as far as it has got.
Authorize ==
  /\ worker.pc = "authorize"
  /\ \/ Mishap /\ (Go("release") \/ Go("fail"))
     \/ Well /\ now > job.expires /\ Go("fail")
     \/ /\ Well /\ now <= job.expires
        /\ Go(IF job.phase = "none" THEN "before" ELSE "recover")
  /\ UNCHANGED <<worked, job, record, datahub>>

ReadBefore ==
  /\ worker.pc = "before"
  /\ \/ Mishap /\ Go("fail")
     \/ Well /\ tagged /\ Go("fail")
     \/ /\ Well /\ ~tagged
        /\ worker' = [worker EXCEPT !.pc = "begin", !.consumed = now]
  /\ UNCHANGED <<worked, job, record, datahub>>

Owned == job.state = "RUNNING" /\ job.owner = worker.attempt

Consumable == Owned /\ job.phase = "none"

\* Only a request whose consumption is known to be its own is sent; one that was
\* consumed already is recovered.
Begun(reply) ==
  CASE reply.is = "ok" -> IF worker.consumed <= job.expires THEN "send" ELSE "fail"
    [] reply.is = "error" -> "release"
    [] reply.is = "refused" -> IF reply.job.phase = "none" THEN "release" ELSE "recover"

\* begin_mutation_once: the authorization is consumed before the request is sent.
Begin ==
  /\ worker.pc = "begin"
  /\ \E r \in Outcomes(Consumable, [job EXCEPT !.phase = "AUTHORIZED",
                                              !.consumed = worker.consumed]) :
       Wrote(r) /\ Go(Begun(r))
  /\ UNCHANGED <<worked, record, datahub>>

\* Mutant: a request that failed is acknowledged as well.
SendSwallowed ==
  /\ worker.pc = "send"
  /\ sent' = sent + 1
  /\ Go("ack")
  /\ \/ Well /\ tagged' = TRUE /\ applied' = TRUE /\ UNCHANGED wire
     \/ Mishap /\ wire' = wire \cup {"add"} /\ UNCHANGED <<tagged, applied>>
     \/ Mishap /\ UNCHANGED <<tagged, applied, wire>>
  /\ UNCHANGED <<worked, job, record>>

\* The request is carried out, or fails, or fails for its sender alone.
Send ==
  /\ worker.pc = "send"
  /\ sent' = sent + 1
  /\ \/ Well /\ Go("ack") /\ tagged' = TRUE /\ applied' = TRUE /\ UNCHANGED wire
     \/ Mishap /\ Go("fail") /\ tagged' = TRUE /\ applied' = TRUE /\ UNCHANGED wire
     \/ Mishap /\ Go("fail") /\ wire' = wire \cup {"add"} /\ UNCHANGED <<tagged, applied>>
     \/ Mishap /\ Go("fail") /\ UNCHANGED <<tagged, applied, wire>>
  /\ UNCHANGED <<worked, job, record>>

\* After a write that failed the ledger is read again and counts if it says the
\* same; a read that fails as well makes the job a retryable one.
Advance(from, to, steps, next) ==
  \E r \in Outcomes(Owned /\ job.phase = from, [job EXCEPT !.phase = to]) :
    /\ Wrote(r)
    /\ \/ (r.is = "ok" \/ r.job.phase \in steps) /\ Go(next)
       \/ r.is # "ok" /\ Go("release")

Acknowledge ==
  /\ worker.pc = "ack"
  /\ Advance("AUTHORIZED", "PROVIDER_ACKNOWLEDGED", {"PROVIDER_ACKNOWLEDGED", "VERIFIED"}, "after")
  /\ UNCHANGED <<worked, record, datahub>>

ReadAfter ==
  /\ worker.pc = "after"
  /\ \/ Mishap /\ Go("fail")
     \/ Well /\ Go(IF tagged THEN "verify" ELSE "fail")
  /\ UNCHANGED <<worked, job, record, datahub>>

Verify ==
  /\ worker.pc = "verify"
  /\ Advance("PROVIDER_ACKNOWLEDGED", "VERIFIED", {"VERIFIED"}, "succeed")
  /\ UNCHANGED <<worked, record, datahub>>

\* Mutant: a request whose effect is not to be seen is sent again.
RecoveryResent ==
  IF job.phase = "AUTHORIZED" THEN IF tagged THEN "fail" ELSE "send"
  ELSE IF job.consumed > job.expires \/ ~tagged THEN "fail"
  ELSE IF job.phase = "VERIFIED" THEN "succeed" ELSE "verify"

\* Mutant: a tag that is there counts as the job's own.
RecoveryTrusting ==
  IF job.consumed > job.expires \/ ~tagged THEN "fail"
  ELSE IF job.phase = "PROVIDER_ACKNOWLEDGED" THEN "verify" ELSE "succeed"

\* _recover_mutation: an acknowledged request is verified, any other is given up.
Recovery ==
  IF job.consumed > job.expires \/ job.phase = "AUTHORIZED" \/ ~tagged
  THEN "fail"
  ELSE IF job.phase = "VERIFIED" THEN "succeed" ELSE "verify"

Recover ==
  /\ worker.pc = "recover"
  /\ \/ Mishap /\ Go("fail")
     \/ Well /\ Go(Recovery)
  /\ UNCHANGED <<worked, job, record, datahub>>

Succeed ==
  /\ worker.pc = "succeed"
  /\ \E r \in Outcomes(Owned, [job EXCEPT !.state = "SUCCEEDED", !.lease = 0]) :
       /\ Wrote(r)
       /\ \/ r.is = "ok" /\ Handled
          \/ r.is # "ok" /\ Go("release") /\ UNCHANGED record
  /\ UNCHANGED <<worked, datahub>>

\* _write_failure: when it cannot be written the claim is kept until it lapses.
Fail ==
  /\ worker.pc = "fail"
  /\ \E r \in Outcomes(Owned, [job EXCEPT !.state = "FAILED", !.lease = 0]) :
       Wrote(r) /\ IF r.is = "ok" THEN Handled ELSE Report
  /\ UNCHANGED <<worked, datahub>>

Release ==
  /\ worker.pc = "release"
  /\ \E r \in Outcomes(Owned, [job EXCEPT !.state = "QUEUED", !.owner = 0, !.lease = 0]) :
       Wrote(r) /\ Report
  /\ UNCHANGED <<worked, datahub>>

\* The invocation dies, at its timeout at the latest.
Die ==
  /\ worker.pc # "idle"
  /\ \/ Mishap
     \/ Well /\ now = worker.started + ExecTime
  /\ Report
  /\ UNCHANGED <<worked, job, datahub>>

----------------------------------------------------------------------------
(* The end of the session, and the fixture reset.                          *)

rest == <<now, job, record, worker, edits>>

\* Only an expired session resets the fixture, not one the user stopped.
EndSession ==
  /\ session.state = "ACTIVE"
  /\ \E state \in {"EXPIRED", "STOPPED"} :
       /\ session' = [state |-> state, at |-> now]
       /\ reset' = [reset EXCEPT !.record = IF state = "EXPIRED" THEN "waiting" ELSE "none"]
  /\ UNCHANGED <<rest, resetter, datahub, mishaps>>

Resetting(pc) == resetter' = [resetter EXCEPT !.pc = pc]
ResetIdle == resetter' = [pc |-> "idle", attempt |-> resetter.attempt, started |-> 0, read |-> 0]
Ledger(phase, item) == reset' = [reset EXCEPT !.phase = phase, !.record = item]
Complete(item) ==
  reset' = [phase |-> "COMPLETE", record |-> item, asOf |-> resetter.read]
Redelivered == IF resetter'.attempt > MaxRetries THEN "discarded" ELSE "waiting"

\* _begin: an execution that was interrupted is continued.
ResetBegin ==
  /\ resetter.pc = "idle" /\ reset.record = "waiting"
  /\ \/ /\ Well /\ reset.phase = "COMPLETE" /\ Ledger("COMPLETE", "handled")
        /\ resetter' = [resetter EXCEPT !.attempt = @ + 1]
     \/ /\ Well /\ reset.phase # "COMPLETE" /\ Ledger("EXECUTING", "delivered")
        /\ resetter' = [resetter EXCEPT !.pc = "read", !.attempt = @ + 1, !.started = now]
     \/ /\ Mishap
        /\ resetter' = [resetter EXCEPT !.attempt = @ + 1]
        /\ \E phase \in {reset.phase, IF reset.phase = "none" THEN "EXECUTING" ELSE reset.phase} :
             Ledger(phase, Redelivered)
  /\ UNCHANGED <<rest, session, datahub>>

\* A call of DataHub that fails: an answer that breaks its contract ends the
\* reset for good, any other exception has the record delivered again.
ResetBroken ==
  /\ Mishap /\ ResetIdle
  /\ Ledger(reset.phase, "handled") \/ Ledger(reset.phase, Redelivered)

ResetRead ==
  /\ resetter.pc = "read"
  /\ \/ ResetBroken
     \/ /\ Well /\ UNCHANGED reset
        /\ resetter' = [resetter EXCEPT !.pc = IF tagged THEN "remove" ELSE "check",
                                        !.read = now]
  /\ UNCHANGED <<rest, session, datahub>>

ResetRemove ==
  /\ resetter.pc = "remove"
  /\ \/ Well /\ Resetting("check") /\ tagged' = FALSE /\ UNCHANGED <<reset, wire>>
     \/ ResetBroken /\ tagged' = FALSE /\ UNCHANGED wire
     \/ ResetBroken /\ wire' = wire \cup {"remove"} /\ UNCHANGED tagged
     \/ ResetBroken /\ UNCHANGED <<tagged, wire>>
  /\ UNCHANGED <<rest, session, sent, applied>>

\* The postcondition: a column that still has the tag ends the reset for good.
ResetCheck ==
  /\ resetter.pc = "check"
  /\ \/ ResetBroken
     \/ Well /\ tagged /\ ResetIdle /\ Ledger(reset.phase, "handled")
     \/ Well /\ ~tagged /\ Resetting("complete") /\ UNCHANGED reset
  /\ UNCHANGED <<rest, session, datahub>>

ResetComplete ==
  /\ resetter.pc = "complete" /\ ResetIdle
  /\ \/ Well /\ Complete("handled")
     \/ Mishap /\ (Complete(Redelivered) \/ Ledger(reset.phase, Redelivered))
  /\ UNCHANGED <<rest, session, datahub>>

ResetDies ==
  /\ resetter.pc # "idle" /\ ResetIdle
  /\ \/ Mishap
     \/ Well /\ now = resetter.started + ExecTime
  /\ Ledger(reset.phase, Redelivered)
  /\ UNCHANGED <<rest, session, datahub>>

----------------------------------------------------------------------------
(* The environment.                                                        *)

\* A request its sender gave up on is carried out after all.
Lands ==
  /\ \E request \in wire :
       /\ wire' = wire \ {request}
       /\ tagged' = (request = "add")
       /\ applied' = (applied \/ request = "add")
  /\ UNCHANGED <<now, aws, worker, resetter, sent, mishaps, edits>>

Edit ==
  /\ edits < MaxEdits /\ edits' = edits + 1
  /\ tagged' = ~tagged
  /\ UNCHANGED <<now, aws, worker, resetter, wire, sent, applied, mishaps>>

InTime(invocation) == invocation.pc # "idle" => now < invocation.started + ExecTime

Tick ==
  /\ now < MaxTime /\ now' = now + 1
  /\ InTime(worker) /\ InTime(resetter)
  /\ UNCHANGED <<aws, worker, resetter, datahub, mishaps, edits>>

Next ==
  \/ Dispatch \/ Deliver \/ Claim \/ Authorize \/ ReadBefore \/ Begin \/ Send
  \/ Acknowledge \/ ReadAfter \/ Verify \/ Recover \/ Succeed \/ Fail \/ Release \/ Die
  \/ EndSession \/ ResetBegin \/ ResetRead \/ ResetRemove \/ ResetCheck \/ ResetComplete
  \/ ResetDies \/ Lands \/ Edit \/ Tick

Spec == Init /\ [][Next]_vars

----------------------------------------------------------------------------
(* Properties.                                                             *)

\* One approved action never sends more than one add_tags request, whatever is
\* lost, repeated or delivered again (begin_mutation_once and the recovery).
AtMostOnce == sent <= 1

\* What was sent had consumed its authorization in the ledger, while it was valid
\* (begin_mutation_once, _validate_ledger).
SentIsConsumed == sent > 0 => job.phase # "none" /\ job.consumed <= job.expires

\* A SUCCEEDED receipt stands for the job's own write, carried out and verified,
\* not for a tag somebody else put there (_recover_mutation).
SucceededIsProven == job.state = "SUCCEEDED" => job.phase = "VERIFIED" /\ applied

\* A record that is done with left a receipt behind: no failure loses its job
\* (batchItemFailures of _process).
HandledIsTerminal == record = "handled" => job.state \in Terminal

\* Every job that is done with has a receipt, and one that reports success is true.
ReceiptsAreTrue == SucceededIsProven /\ HandledIsTerminal

\* A job with a receipt keeps it and sends nothing any more, also when its worker
\* learned nothing of the receipt it wrote (claim, release).
TerminalIsFinal ==
  [][job.state \in Terminal => UNCHANGED <<job, sent>>]_vars

\* Nothing is sent for a session that ended longer ago than a worker lives
\* (validate_runtime_context before every claim).
SendIsTimely ==
  [][sent' # sent => session.state = "ACTIVE" \/ now <= session.at + ExecTime]_vars

\* What comes late changes nothing: neither a receipt nor the column of an old session.
NothingIsLate == TerminalIsFinal /\ SendIsTimely

\* A reset that looked at the column after the last worker of its session was gone
\* is lasting, unless the job's ledger says that a request is unaccounted for.
LateResetIsLasting ==
  /\ reset.phase = "COMPLETE" /\ reset.asOf > session.at + ExecTime
  /\ edits = 0 /\ job.phase # "AUTHORIZED"
  => ~tagged
=============================================================================
