---------------------------- MODULE CallbackQueue ----------------------------
(***************************************************************************)
(* The queue workers (AwsQueueWorker): SQS messages, each with the token of *)
(* a waiting Step Functions task, are handled by an audit or a remediation *)
(* service and answered by a callback.  Deliveries are at least once,      *)
(* requests fail or lose their response, workers die, the task may time    *)
(* out.  The audit service is modelled step by step; what the remediation  *)
(* service does inside is GovernedRemediation, seen here as one step on a  *)
(* durable result.                                                         *)
(***************************************************************************)
EXTENDS Naturals

CONSTANTS
  Workers,
  Messages,
  Kinds,         \* kinds of messages that are sent, see below
  MaxReceive,    \* maxReceiveCount
  MaxRuns,       \* bound: audit runs per message, never reached
  MaxMishaps     \* bound: requests that fail and workers that die

ASSUME QueueAssumption ==
  /\ Kinds \subseteq {"audit", "remediation", "malformed", "tokenless"}
  /\ MaxReceive \in Nat \ {0} /\ MaxRuns \in Nat \ {0}
  /\ MaxMishaps \in Nat

VARIABLES
  kind,        \* audit, remediation, or a message that does not parse, from which
               \* the task token can be recovered (malformed) or not (tokenless)
  queue,       \* is a message visible, held by a receive, or deleted
  received,    \* ApproximateReceiveCount, saturated above MaxReceive
  task,        \* the Step Functions task of a message
  output,      \* the result the task was given, 0 for none
  durable,     \* the audit checkpoint or the journal's receipt, 0 for none
  evidence,    \* the results whose evidence object is in S3
  quarantined, \* the messages recorded in the quarantine queue
  offered,     \* the messages whose durable result a worker tried to report
  runs,        \* audit runs so far
  mishaps,     \* what went wrong so far
  pc, job      \* workers

durables == <<durable, evidence, runs>>
vars == <<kind, queue, received, task, output, durable, evidence, quarantined,
          offered, runs, mishaps, pc, job>>

Results == 1 .. MaxRuns
NoMessage == "none"
\* msg, the receive count read with it, the result so far, and whether the
\* callback lease was lost ("no", for good, or for now).
Job == [msg : Messages \cup {NoMessage}, count : 0 .. MaxReceive + 1,
        result : Results \cup {0}, lost : {"no", "terminal", "transient"}]
NoJob == [msg |-> NoMessage, count |-> 0, result |-> 0, lost |-> "no"]

Working == {"get", "run", "store", "put", "remediate"}
Answering == {"finish", "success"}
PCs == {"idle", "begin", "delete", "quarantine", "failure"}
         \cup Working \cup Answering

\* The types; a worker answers only with a result and is idle only without a job.

TypeOK ==
  /\ kind \in [Messages -> Kinds]
  /\ queue \in [Messages -> {"visible", "held", "deleted"}]
  /\ received \in [Messages -> 0 .. MaxReceive + 1]
  /\ task \in [Messages -> {"OPEN", "SUCCEEDED", "FAILED", "TIMED_OUT"}]
  /\ output \in [Messages -> Results \cup {0}]
  /\ durable \in [Messages -> Results \cup {0}]
  /\ evidence \in [Messages -> SUBSET Results]
  /\ quarantined \subseteq Messages
  /\ offered \subseteq Messages
  /\ runs \in [Messages -> 0 .. MaxRuns]
  /\ mishaps \in 0 .. MaxMishaps
  /\ pc \in [Workers -> PCs]
  /\ job \in [Workers -> Job]
  /\ \A w \in Workers :
       /\ pc[w] = "idle" <=> job[w] = NoJob
       /\ pc[w] \in Answering => job[w].result # 0

Init ==
  /\ kind \in [Messages -> Kinds]
  /\ queue = [m \in Messages |-> "visible"]
  /\ received = [m \in Messages |-> 0]
  /\ task = [m \in Messages |-> "OPEN"]
  /\ output = [m \in Messages |-> 0]
  /\ durable = [m \in Messages |-> 0]
  /\ evidence = [m \in Messages |-> {}]
  /\ quarantined = {}
  /\ offered = {}
  /\ runs = [m \in Messages |-> 0]
  /\ mishaps = 0
  /\ pc = [w \in Workers |-> "idle"]
  /\ job = [w \in Workers |-> NoJob]

Goto(w, next) == pc' = [pc EXCEPT ![w] = next] /\ UNCHANGED job

GotoWith(w, next, result) ==
  /\ pc' = [pc EXCEPT ![w] = next]
  /\ job' = [job EXCEPT ![w].result = result]

\* The worker is done with the delivery.  Unless it deleted the message, SQS
\* shows it again, after the delay that retrySoon asked for or the visibility
\* timeout: see Reappear.  (A delete with the receipt handle of an overtaken
\* delivery may have no effect; that is a delivery given up at "delete".)
Leave(w) ==
  /\ pc' = [pc EXCEPT ![w] = "idle"]
  /\ job' = [job EXCEPT ![w] = NoJob]

\* A request failed for now: the delivery ends and is tried again.
Mishap == mishaps < MaxMishaps /\ mishaps' = mishaps + 1
GiveUp(w) == Mishap /\ Leave(w)

-----------------------------------------------------------------------------
(* Receiving *)

FirstStep(m) ==
  IF kind[m] \in {"malformed", "tokenless"} THEN "quarantine" ELSE "begin"

Receive(w, m) ==
  LET n == IF received[m] > MaxReceive THEN received[m] ELSE received[m] + 1 IN
  /\ pc[w] = "idle"
  /\ queue[m] = "visible"
  /\ queue' = [queue EXCEPT ![m] = "held"]
  /\ received' = [received EXCEPT ![m] = n]
  /\ pc' = [pc EXCEPT ![w] = FirstStep(m)]
  /\ job' = [job EXCEPT ![w] = [NoJob EXCEPT !.msg = m, !.count = n]]
  /\ UNCHANGED <<kind, task, output, durables, quarantined, offered, mishaps>>

\* Mutant: every lost lease counts as a closed task.
AssertActiveAnyLoss(w, next) ==
  \/ job[w].lost = "no" /\ Goto(w, next) /\ UNCHANGED mishaps
  \/ Goto(w, "delete") /\ UNCHANGED mishaps

\* Mutant: a closed task is retried like a lost lease.
AssertActiveNeverTerminal(w, next) ==
  /\ IF job[w].lost = "no" /\ task[job[w].msg] = "OPEN" THEN Goto(w, next) ELSE Leave(w)
  /\ UNCHANGED mishaps

\* assertActive: a heartbeat on the task, then a longer visibility.  A closed
\* task ends the delivery for good and its message is deleted; a failing
\* request, or a lease lost earlier, ends it for now.
AssertActive(w, next) ==
  LET m == job[w].msg IN
  \/ /\ job[w].lost = "no"
     /\ Goto(w, IF task[m] = "OPEN" THEN next ELSE "delete")
     /\ UNCHANGED mishaps
  \/ job[w].lost = "no" /\ GiveUp(w)
  \/ job[w].lost = "terminal" /\ Goto(w, "delete") /\ UNCHANGED mishaps
  \/ job[w].lost = "transient" /\ Leave(w) /\ UNCHANGED mishaps

Begin(w) ==
  /\ pc[w] = "begin"
  /\ AssertActive(w, IF kind[job[w].msg] = "audit" THEN "get" ELSE "remediate")
  /\ UNCHANGED <<kind, queue, received, task, output, durables, quarantined, offered>>

\* The timer renews the lease every minute while the service works.  A failure
\* is latched; the service goes on and only finds out at the end.
Renew(w) ==
  /\ pc[w] \in Working
  /\ job[w].lost = "no"
  /\ \/ /\ task[job[w].msg] # "OPEN"
        /\ job' = [job EXCEPT ![w].lost = "terminal"]
        /\ UNCHANGED mishaps
     \/ Mishap /\ job' = [job EXCEPT ![w].lost = "transient"]
  /\ UNCHANGED <<kind, queue, received, task, output, durables, quarantined, offered, pc>>

-----------------------------------------------------------------------------
(* The audit service *)

GetCheckpoint(w) ==
  LET m == job[w].msg IN
  /\ pc[w] = "get"
  /\ \/ durable[m] # 0 /\ GotoWith(w, "finish", durable[m])
     \/ durable[m] = 0 /\ Goto(w, "run")
  /\ UNCHANGED <<kind, queue, received, task, output, durables, quarantined, offered, mishaps>>

\* Clock and nonce make the evidence of every run a different one.
RunAudit(w) ==
  LET m == job[w].msg IN
  /\ pc[w] = "run"
  /\ runs[m] < MaxRuns
  /\ runs' = [runs EXCEPT ![m] = runs[m] + 1]
  /\ GotoWith(w, "store", runs[m] + 1)
  /\ UNCHANGED <<kind, queue, received, task, output, durable, evidence, quarantined,
                 offered, mishaps>>

StoreEvidence(w) ==
  LET m == job[w].msg IN
  /\ pc[w] = "store"
  /\ evidence' = [evidence EXCEPT ![m] = evidence[m] \cup {job[w].result}]
  /\ Goto(w, IF kind[m] = "audit" THEN "put" ELSE "finish")
  /\ UNCHANGED <<kind, queue, received, task, output, durable, runs, quarantined,
                 offered, mishaps>>

\* Mutant: a conflict is taken for success.
PutCheckpointOwn(w) ==
  LET m == job[w].msg IN
  /\ pc[w] = "put"
  /\ durable' = [durable EXCEPT ![m] = IF durable[m] = 0 THEN job[w].result ELSE durable[m]]
  /\ Goto(w, "finish")
  /\ UNCHANGED <<kind, queue, received, task, output, evidence, runs, quarantined,
                 offered, mishaps>>

\* The first result stays; a conflict is answered by the stored one.
PutCheckpoint(w) ==
  LET m == job[w].msg IN
  /\ pc[w] = "put"
  /\ \/ /\ durable[m] = 0
        /\ durable' = [durable EXCEPT ![m] = job[w].result]
        /\ Goto(w, "finish")
     \/ /\ durable[m] # 0
        /\ GotoWith(w, "finish", durable[m])
        /\ UNCHANGED durable
  /\ UNCHANGED <<kind, queue, received, task, output, evidence, runs, quarantined,
                 offered, mishaps>>

\* The remediation service: the journal holds the one receipt of the execution,
\* whose evidence is stored next, by every delivery; or the execution is in
\* another worker's hands, which never counts as a failure of the message.
Remediate(w) ==
  LET m == job[w].msg IN
  /\ pc[w] = "remediate"
  /\ \/ /\ durable' = [durable EXCEPT ![m] = 1]
        /\ GotoWith(w, "store", 1)
        /\ UNCHANGED mishaps
     \/ durable[m] = 0 /\ GiveUp(w) /\ UNCHANGED durable
  /\ UNCHANGED <<kind, queue, received, task, output, evidence, runs, quarantined, offered>>

\* shouldFinalizePoisonDelivery
Poisoned(w, retryable) == ~retryable \/ job[w].count >= MaxReceive

\* The service throws.
Fail(w) ==
  /\ pc[w] \in Working
  /\ \E retryable \in BOOLEAN :
       \/ Poisoned(w, retryable) /\ Goto(w, "quarantine") /\ UNCHANGED mishaps
       \/ ~Poisoned(w, retryable) /\ GiveUp(w)
  /\ UNCHANGED <<kind, queue, received, task, output, durables, quarantined, offered>>

-----------------------------------------------------------------------------
(* Answering *)

Finish(w) ==
  /\ pc[w] = "finish"
  /\ AssertActive(w, "success")
  /\ UNCHANGED <<kind, queue, received, task, output, durables, quarantined, offered>>

\* SendTaskSuccess: accepted, refused because the task is closed, or failed, in
\* which case the message is retried.
Success(w) ==
  LET m == job[w].msg IN
  /\ pc[w] = "success"
  /\ offered' = offered \cup {m}
  /\ \/ /\ task[m] = "OPEN"
        /\ task' = [task EXCEPT ![m] = "SUCCEEDED"]
        /\ output' = [output EXCEPT ![m] = job[w].result]
        /\ Goto(w, "delete")
        /\ UNCHANGED mishaps
     \/ task[m] # "OPEN" /\ Goto(w, "delete") /\ UNCHANGED <<task, output, mishaps>>
     \/ GiveUp(w) /\ UNCHANGED <<task, output>>
  /\ UNCHANGED <<kind, queue, received, durables, quarantined>>

DeleteMessage(w) ==
  /\ pc[w] = "delete"
  /\ \/ /\ queue' = [queue EXCEPT ![job[w].msg] = "deleted"]
        /\ Leave(w)
        /\ UNCHANGED mishaps
     \/ GiveUp(w) /\ UNCHANGED queue
  /\ UNCHANGED <<kind, received, task, output, durables, quarantined, offered>>

\* finalizePoison: record, fail the task, delete; a failing request ends it
\* early and the message is retried.
Quarantine(w) ==
  LET m == job[w].msg IN
  /\ pc[w] = "quarantine"
  /\ \/ /\ quarantined' = quarantined \cup {m}
        /\ Goto(w, IF kind[m] = "tokenless" THEN "delete" ELSE "failure")
        /\ UNCHANGED mishaps
     \/ GiveUp(w) /\ UNCHANGED quarantined
  /\ UNCHANGED <<kind, queue, received, task, output, durables, offered>>

FailTask(w) ==
  LET m == job[w].msg IN
  /\ pc[w] = "failure"
  /\ \/ /\ task[m] = "OPEN"
        /\ task' = [task EXCEPT ![m] = "FAILED"]
        /\ Goto(w, "delete")
        /\ UNCHANGED mishaps
     \/ task[m] # "OPEN" /\ Goto(w, "delete") /\ UNCHANGED <<task, mishaps>>
     \/ GiveUp(w) /\ UNCHANGED task
  /\ UNCHANGED <<kind, queue, received, output, durables, quarantined, offered>>

\* The process dies, or the response of the step it just made is lost.
Abandon(w) ==
  /\ pc[w] # "idle"
  /\ GiveUp(w)
  /\ UNCHANGED <<kind, queue, received, task, output, durables, quarantined, offered>>

-----------------------------------------------------------------------------
(* SQS and Step Functions *)

\* The visibility ends, even under a worker that is only slow.
Reappear(m) ==
  /\ queue[m] = "held"
  /\ queue' = [queue EXCEPT ![m] = "visible"]
  /\ UNCHANGED <<kind, received, task, output, durables, quarantined, offered, mishaps, pc, job>>

TimeOut(m) ==
  /\ task[m] = "OPEN"
  /\ task' = [task EXCEPT ![m] = "TIMED_OUT"]
  /\ UNCHANGED <<kind, queue, received, output, durables, quarantined, offered, mishaps, pc, job>>

-----------------------------------------------------------------------------

Service(w) ==
  GetCheckpoint(w) \/ RunAudit(w) \/ StoreEvidence(w) \/ PutCheckpoint(w)
    \/ Remediate(w)
Callback(w) ==
  Finish(w) \/ Success(w) \/ DeleteMessage(w) \/ Quarantine(w) \/ FailTask(w)

Next ==
  \/ \E w \in Workers, m \in Messages : Receive(w, m)
  \/ \E w \in Workers : \/ Begin(w) \/ Renew(w) \/ Fail(w) \/ Abandon(w)
                        \/ Service(w) \/ Callback(w)
  \/ \E m \in Messages : Reappear(m) \/ TimeOut(m)

Spec == Init /\ [][Next]_vars

\* SQS shows a message again, live workers go on.
Fairness ==
  /\ \A m \in Messages : WF_vars(Reappear(m))
  /\ \A m \in Messages : SF_vars(\E w \in Workers : Receive(w, m))
  /\ \A w \in Workers : WF_vars(Begin(w) \/ Service(w) \/ Callback(w))

FairSpec == Spec /\ Fairness

-----------------------------------------------------------------------------
(* Properties *)

\* A message is only deleted when nobody waits for it any more: its task was
\* answered, failed or timed out (every delete of AwsQueueWorker, on the
\* success, the lease and the poison path).
DeletedIsClosed ==
  \A m \in Messages :
    queue[m] = "deleted" /\ kind[m] # "tokenless" => task[m] # "OPEN"

\* The task got the durable result and its evidence is in S3, whichever of
\* several concurrent deliveries answered (AuditWorkerService.audit and
\* DynamoAuditResultCheckpoint.put: the first checkpoint wins; the remediation
\* service stores the evidence before it returns).
TaskGotTheDurable ==
  \A m \in Messages : task[m] = "SUCCEEDED" =>
    output[m] # 0 /\ output[m] = durable[m] /\ output[m] \in evidence[m]

\* An audit's durable result never names evidence that is not stored yet: a
\* redelivery answers from the checkpoint alone.
DurableHasEvidence ==
  \A m \in Messages :
    kind[m] = "audit" /\ durable[m] # 0 => durable[m] \in evidence[m]

\* No task is failed without a quarantine record (finalizePoison's order).
FailedIsQuarantined ==
  \A m \in Messages : task[m] = "FAILED" => m \in quarantined

\* What left the queue is closed, what was closed as failed is on record, and what
\* was closed as done told the one durable result, whose evidence is stored.
NothingIsLost ==
  DeletedIsClosed /\ FailedIsQuarantined /\ TaskGotTheDurable /\ DurableHasEvidence

\* What makes the above inductive: what a delivery has established and its next step
\* relies on.  A task that was found closed stays closed, a worker only answers with
\* the durable result, and an audit's result only becomes durable behind its evidence.
Agrees(w) ==
  LET m == job[w].msg IN
  /\ m \in Messages
  /\ job[w].lost = "terminal" => task[m] # "OPEN"
  /\ pc[w] \in {"get", "run", "put"} => kind[m] = "audit"
  /\ pc[w] = "remediate" => kind[m] # "audit"
  /\ pc[w] = "store" => job[w].result # 0 /\ (kind[m] # "audit" => job[w].result = durable[m])
  /\ pc[w] = "put" => job[w].result # 0 /\ job[w].result \in evidence[m]
  /\ pc[w] \in Answering => job[w].result = durable[m] /\ durable[m] \in evidence[m]
  /\ pc[w] = "failure" => m \in quarantined
  /\ pc[w] = "delete" => task[m] # "OPEN" \/ kind[m] = "tokenless"

\* The journal holds one receipt of an execution, whoever asks for it.
OneReceipt == \A m \in Messages : kind[m] # "audit" => durable[m] \in {0, 1}

IInv ==
  /\ TypeOK /\ OneReceipt /\ NothingIsLost
  /\ \A w \in Workers : pc[w] # "idle" => Agrees(w)

\* "The operation is already durable.  A transient callback failure is retried
\* through the idempotent audit checkpoint or remediation execution journal":
\* a task whose durable result was offered is not failed afterwards.
OfferedIsNotFailed == \A m \in offered : task[m] # "FAILED"

\* Once requests stop failing every message is deleted, through whichever path.
MessagesEnd == \A m \in Messages : <>(queue[m] = "deleted")
=============================================================================
