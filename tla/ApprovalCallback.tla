-------------------------- MODULE ApprovalCallback --------------------------
(***************************************************************************)
(* One approval: the handoff lambda stores the token of the task that       *)
(* waits for it, the approval lambda records the first decision made in    *)
(* time and reports it to the task under a short delivery lease.  Both run *)
(* concurrently with themselves; a run may die after any request.          *)
(***************************************************************************)
EXTENDS Naturals

CONSTANTS
  Messages,      \* APPROVAL_REQUESTED messages, one per task token
  Binding,       \* [Messages -> what the message binds the approval to]
  Deciders,      \* a decision with its approver and comment: a decisionDigest
  Handoffs,      \* concurrent runs of the handoff lambda
  Requests,      \* concurrent runs of the approval lambda
  Expiry,        \* expiresAt of the approval
  Lease,         \* the delivery lease, 30 s in the code
  MaxTime,       \* bound: end of time
  MaxDeliveries, \* bound: deliveries per message
  MaxMishaps     \* bound: runs that die and requests that fail

ASSUME ApprovalAssumption ==
  /\ Expiry \in Nat /\ Lease \in Nat \ {0} /\ MaxTime \in Nat \ {0}
  /\ MaxDeliveries \in Nat /\ MaxMishaps \in Nat

VARIABLES
  now,        \* the clock, in steps short enough to order what the code compares
  row,        \* the item APPROVAL#id
  task,       \* the waiting task of each message
  output,     \* the decision a task was given
  deliveries, \* deliveries so far of each message
  told,       \* the decisions answered with "recorded"
  mishaps,
  hpc, hjob,  \* handoff runs and their messages
  rpc, rjob   \* approval runs: who asks, the start of the run, the token read

handoffs == <<deliveries, hpc, hjob>>
requests == <<told, rpc, rjob>>
vars == <<now, row, task, output, deliveries, told, mishaps,
          hpc, hjob, rpc, rjob>>

Nobody == "nobody"
Times == 0 .. MaxTime

ASSUME NobodyAssumption == Nobody \notin Messages \cup Deciders \cup Requests

\* token and by are the message whose token is held and the decision; a token
\* is held until the callback is delivered or closed.
NoRow == [status |-> "ABSENT", token |-> Nobody, by |-> Nobody, decidedAt |-> 0,
          attempt |-> Nobody, leaseUntil |-> 0, delivered |-> FALSE, closed |-> FALSE]

Rows == [status : {"ABSENT", "PENDING", "DECIDED"},
         token : Messages \cup {Nobody}, by : Deciders \cup {Nobody},
         decidedAt : Times, attempt : Requests \cup {Nobody},
         leaseUntil : 0 .. MaxTime + Lease, delivered : BOOLEAN, closed : BOOLEAN]

Job == [who : Deciders \cup {Nobody}, at : Times, token : Messages \cup {Nobody}]
NoJob == [who |-> Nobody, at |-> 0, token |-> Nobody]

\* What a run does once it has read its decision on the item, and all it does.
Delivering == {"lease", "send", "deliver", "close"}
RPCs == {"idle", "read", "decide", "reread"} \cup Delivering

TypeOK ==
  /\ now \in 1 .. MaxTime
  /\ row \in Rows
  /\ task \in [Messages -> {"OPEN", "SUCCEEDED", "FAILED", "TIMED_OUT"}]
  /\ output \in [Messages -> Deciders \cup {Nobody}]
  /\ deliveries \in [Messages -> 0 .. MaxDeliveries]
  /\ told \subseteq Deciders
  /\ mishaps \in 0 .. MaxMishaps
  /\ hpc \in [Handoffs -> {"idle", "put", "get", "fail"}]
  /\ hjob \in [Handoffs -> Messages \cup {Nobody}]
  /\ rpc \in [Requests -> RPCs]
  /\ rjob \in [Requests -> Job]
  /\ row.status = "DECIDED" <=> row.by # Nobody
  /\ row.status = "ABSENT" <=> row.token = Nobody
  /\ ~(row.delivered /\ row.closed)

Init ==
  /\ now = 1
  /\ row = NoRow
  /\ task = [m \in Messages |-> "OPEN"]
  /\ output = [m \in Messages |-> Nobody]
  /\ deliveries = [m \in Messages |-> 0]
  /\ told = {}
  /\ mishaps = 0
  /\ hpc = [h \in Handoffs |-> "idle"]
  /\ hjob = [h \in Handoffs |-> Nobody]
  /\ rpc = [r \in Requests |-> "idle"]
  /\ rjob = [r \in Requests |-> NoJob]

\* A dead run leaves its lease behind: none dies so late that the lease could
\* not run out any more.
Mishap ==
  /\ mishaps < MaxMishaps /\ now + Lease < MaxTime
  /\ mishaps' = mishaps + 1

-----------------------------------------------------------------------------
(* The handoff lambda *)

HGoto(h, next) == hpc' = [hpc EXCEPT ![h] = next] /\ UNCHANGED hjob
HLeave(h) ==
  /\ hpc' = [hpc EXCEPT ![h] = "idle"]
  /\ hjob' = [hjob EXCEPT ![h] = Nobody]

\* A delivery; parse refuses a message whose window is over.
Handoff(h, m) ==
  /\ hpc[h] = "idle"
  /\ deliveries[m] < MaxDeliveries
  /\ deliveries' = [deliveries EXCEPT ![m] = @ + 1]
  /\ hpc' = [hpc EXCEPT ![h] = IF Expiry <= now THEN "fail" ELSE "put"]
  /\ hjob' = [hjob EXCEPT ![h] = m]
  /\ UNCHANGED <<now, row, task, output, mishaps, requests>>

Put(h) ==
  /\ hpc[h] = "put"
  /\ \/ /\ row.status = "ABSENT"
        /\ row' = [NoRow EXCEPT !.status = "PENDING", !.token = hjob[h]]
        /\ HLeave(h)
     \/ /\ row.status # "ABSENT"
        /\ HGoto(h, "get")
        /\ UNCHANGED row
  /\ UNCHANGED <<now, task, output, deliveries, mishaps, requests>>

\* The stored item decides: the same binding and, until it is decided, the same
\* token.
SameBinding(m) ==
  /\ row.status # "ABSENT"
  /\ Binding[row.token] = Binding[m]
  /\ row.status = "PENDING" => row.token = m

Compare(h) ==
  /\ hpc[h] = "get"
  /\ IF SameBinding(hjob[h]) THEN HLeave(h) ELSE HGoto(h, "fail")
  /\ UNCHANGED <<now, row, task, output, deliveries, mishaps, requests>>

\* The HANDOFF_FAILURE item is put first, and nothing reads it; then the task
\* is failed, if it still waits.
FailCallback(h) ==
  LET m == hjob[h] IN
  /\ hpc[h] = "fail"
  /\ task' = [task EXCEPT ![m] = IF @ = "OPEN" THEN "FAILED" ELSE @]
  /\ HLeave(h)
  /\ UNCHANGED <<now, row, output, deliveries, mishaps, requests>>

HandoffDies(h) ==
  /\ hpc[h] # "idle"
  /\ Mishap
  /\ HLeave(h)
  /\ UNCHANGED <<now, row, task, output, deliveries, requests>>

-----------------------------------------------------------------------------
(* The approval lambda *)

RGoto(r, next) == rpc' = [rpc EXCEPT ![r] = next] /\ UNCHANGED <<rjob, told>>
Answer(r, recorded) ==
  /\ rpc' = [rpc EXCEPT ![r] = "idle"]
  /\ rjob' = [rjob EXCEPT ![r] = NoJob]
  /\ told' = IF recorded THEN told \cup {rjob[r].who} ELSE told

Start(r, d) ==
  /\ rpc[r] = "idle"
  /\ rpc' = [rpc EXCEPT ![r] = "read"]
  /\ rjob' = [rjob EXCEPT ![r] = [who |-> d, at |-> now, token |-> Nobody]]
  /\ UNCHANGED <<now, row, task, output, mishaps, handoffs, told>>

\* The item holds exactly the decision this run was asked for.
OwnDecision(who) == row.by = who

\* What a run makes of a decided item it reads.
Check(r) ==
  IF ~OwnDecision(rjob[r].who) THEN Answer(r, FALSE)
  ELSE IF row.delivered \/ row.closed THEN Answer(r, TRUE)
  ELSE /\ rpc' = [rpc EXCEPT ![r] = "lease"]
       /\ rjob' = [rjob EXCEPT ![r].token = row.token]
       /\ UNCHANGED told

\* Not found, expired, to be decided, or decided before.
Read(r) ==
  /\ rpc[r] = "read"
  /\ CASE row.status = "ABSENT"  -> Answer(r, FALSE)
       [] row.status = "PENDING" -> IF Expiry <= rjob[r].at
                                    THEN Answer(r, FALSE)
                                    ELSE RGoto(r, "decide")
       [] row.status = "DECIDED" -> Check(r)
  /\ UNCHANGED <<now, row, task, output, mishaps, handoffs>>

\* The condition of the decision's update.
Undecided(status) == status = "PENDING"

\* Mutant: the decision is dated by the write and not by the run that was
\* checked against the window.
DecideDated(r) ==
  /\ rpc[r] = "decide"
  /\ row' = IF Undecided(row.status)
            THEN [row EXCEPT !.status = "DECIDED", !.by = rjob[r].who, !.decidedAt = now]
            ELSE row
  /\ RGoto(r, "reread")
  /\ UNCHANGED <<now, task, output, mishaps, handoffs>>

\* Whether the update succeeded or found the approval decided, it is read again.
Decide(r) ==
  /\ rpc[r] = "decide"
  /\ row' = IF Undecided(row.status)
            THEN [row EXCEPT !.status = "DECIDED", !.by = rjob[r].who,
                             !.decidedAt = rjob[r].at]
            ELSE row
  /\ RGoto(r, "reread")
  /\ UNCHANGED <<now, task, output, mishaps, handoffs>>

Reread(r) ==
  /\ rpc[r] = "reread"
  /\ Check(r)
  /\ UNCHANGED <<now, row, task, output, mishaps, handoffs>>

\* Mutant: a lease is never given up.
Unleased(at) == row.leaseUntil = 0

\* attribute_not_exists(callbackLeaseUntil) OR callbackLeaseUntil < now
LeaseFree(at) == row.leaseUntil < at

\* Delivered, closed or being delivered: the decision is recorded in any case.
\* An update that was carried out may still be answered as refused, when it is
\* the second try of a request.
TakeLease(r) ==
  /\ rpc[r] = "lease"
  /\ IF row.by = rjob[r].who /\ ~row.delivered /\ LeaseFree(rjob[r].at)
     THEN /\ row' = [row EXCEPT !.attempt = r, !.leaseUntil = rjob[r].at + Lease]
          /\ \/ RGoto(r, "send") /\ UNCHANGED mishaps
             \/ Mishap /\ Answer(r, TRUE)
     ELSE Answer(r, TRUE) /\ UNCHANGED <<row, mishaps>>
  /\ UNCHANGED <<now, task, output, handoffs>>

\* SendTaskSuccess with the token read before the lease; any other error than a
\* closed task ends the run and leaves the lease.
Send(r) ==
  LET m == rjob[r].token IN
  /\ rpc[r] = "send"
  /\ \/ /\ task[m] = "OPEN"
        /\ task' = [task EXCEPT ![m] = "SUCCEEDED"]
        /\ output' = [output EXCEPT ![m] = rjob[r].who]
        /\ RGoto(r, "deliver")
     \/ /\ task[m] # "OPEN"
        /\ RGoto(r, "close")
        /\ UNCHANGED <<task, output>>
  /\ UNCHANGED <<now, row, mishaps, handoffs>>

\* Mutant: the attempt is not part of the condition.
AnyAttempt(r) == row.by = rjob[r].who /\ ~row.delivered
\* The condition of both concluding updates.
OwnAttempt(r) == row.by = rjob[r].who /\ row.attempt = r /\ ~row.delivered

\* A refused update throws: the run ends without an answer.
Deliver(r) ==
  /\ rpc[r] = "deliver"
  /\ row' = IF OwnAttempt(r)
            THEN [row EXCEPT !.delivered = TRUE, !.leaseUntil = 0] ELSE row
  /\ Answer(r, OwnAttempt(r))
  /\ UNCHANGED <<now, task, output, mishaps, handoffs>>

Close(r) ==
  /\ rpc[r] = "close"
  /\ row' = IF OwnAttempt(r)
            THEN [row EXCEPT !.closed = TRUE, !.leaseUntil = 0] ELSE row
  /\ Answer(r, OwnAttempt(r))
  /\ UNCHANGED <<now, task, output, mishaps, handoffs>>

RequestDies(r) ==
  /\ rpc[r] # "idle"
  /\ Mishap
  /\ Answer(r, FALSE)
  /\ UNCHANGED <<now, row, task, output, handoffs>>

-----------------------------------------------------------------------------
(* Time, Step Functions and DynamoDB *)

Tick ==
  /\ now < MaxTime
  /\ now' = now + 1
  /\ UNCHANGED <<row, task, output, mishaps, handoffs, requests>>

\* Of a task that times out before its token is handed over, nobody knows.
TimeOut(m) ==
  /\ task[m] = "OPEN"
  /\ deliveries[m] > 0
  /\ task' = [task EXCEPT ![m] = "TIMED_OUT"]
  /\ UNCHANGED <<now, row, output, mishaps, handoffs, requests>>

\* The item's time to live is the expiry until it is decided, and 90 days then.
TimeToLive ==
  /\ row.status = "PENDING"
  /\ Expiry <= now
  /\ row' = NoRow
  /\ UNCHANGED <<now, task, output, mishaps, handoffs, requests>>

-----------------------------------------------------------------------------

HandoffStep(h) == Put(h) \/ Compare(h) \/ FailCallback(h)
RequestStep(r) ==
  \/ Read(r) \/ Decide(r) \/ Reread(r) \/ TakeLease(r) \/ Send(r) \/ Deliver(r) \/ Close(r)

Next ==
  \/ \E h \in Handoffs : \/ \E m \in Messages : Handoff(h, m)
                         \/ HandoffStep(h) \/ HandoffDies(h)
  \/ \E r \in Requests : \/ \E d \in Deciders : Start(r, d)
                         \/ RequestStep(r) \/ RequestDies(r)
  \/ Tick \/ TimeToLive
  \/ \E m \in Messages : TimeOut(m)

Spec == Init /\ [][Next]_vars

\* Runs go on, time passes, and every approver repeats the request until it is
\* answered for good; nothing in the code does so for them.
Fairness ==
  /\ \A r \in Requests : WF_vars(RequestStep(r))
  /\ \A d \in Deciders : SF_vars(\E r \in Requests : Start(r, d))
  /\ WF_vars(Tick)

FairSpec == Spec /\ Fairness

-----------------------------------------------------------------------------
(* Properties *)

\* The first decision stays: of two approvers, or of two clicks that disagree,
\* one wins for good (condition of the decision's update).
DecisionIsFinal ==
  [][row.status = "DECIDED" =>
       row'.status = "DECIDED" /\ row'.by = row.by /\ row'.decidedAt = row.decidedAt]_row

\* The recorded decision is dated inside the window, however late the update
\* and whoever else expired or redelivered the approval meanwhile.
DecidedInWindow == row.status = "DECIDED" => row.decidedAt < Expiry

\* The task is given the recorded decision and nothing else, under every
\* interleaving of runs of different approvers.
TaskGotTheDecision ==
  \A m \in Messages : task[m] = "SUCCEEDED" =>
    row.status = "DECIDED" /\ row.by = output[m] /\ row.token = m

\* DELIVERED is only recorded when the task was given the decision, and CLOSED
\* when it waits no more.
ConclusionIsReal ==
  /\ row.delivered => task[row.token] = "SUCCEEDED" /\ output[row.token] = row.by
  /\ row.closed => task[row.token] # "OPEN"

\* A run that overtook the delivery of another concludes it; the overtaken one
\* changes nothing (condition on callbackAttemptId).
OnlyHolderConcludes ==
  [][row'.delivered # row.delivered \/ row'.closed # row.closed =>
       \E r \in Requests : row.attempt = r /\ rpc[r] \in {"deliver", "close"} /\ rpc'[r] = "idle"]_row

\* Both together: what is on record is not overwritten by whoever comes late.
RecordIsFinal == DecisionIsFinal /\ OnlyHolderConcludes

\* Who is told that the decision is recorded asked for the one that is.
ToldIsRecorded ==
  \A d \in told : row.status = "DECIDED" /\ row.by = d

\* All of it together: the decision of the record was made in time, it is the one that
\* its approver was told of, and the one that the task was given, if it still waited
\* (the approval lambda's handler, from its first read to its last update).
DecisionStands == DecidedInWindow /\ ToldIsRecorded /\ TaskGotTheDecision /\ ConclusionIsReal

\* What makes that inductive: what a run has read of the item, or done to the task,
\* still stands when it acts on it.  A decided item keeps its decision and its token,
\* and of two runs that hold a lease one after the other only one concludes.
Stands(r) ==
  LET j == rjob[r] IN
  /\ rpc[r] # "idle" => j.who \in Deciders
  /\ rpc[r] = "decide" => j.at < Expiry
  /\ rpc[r] \in Delivering => row.status = "DECIDED" /\ row.by = j.who /\ row.token = j.token
  /\ rpc[r] = "deliver" =>
       /\ task[j.token] = "SUCCEEDED" /\ output[j.token] = j.who
       /\ row.attempt = r => ~row.closed
  /\ rpc[r] = "close" => task[j.token] # "OPEN"

IInv ==
  /\ TypeOK /\ DecisionStands
  /\ row.delivered \/ row.closed => row.status = "DECIDED"
  /\ \A h \in Handoffs : hpc[h] # "idle" => hjob[h] \in Messages
  /\ \A r \in Requests : Stands(r)

\* "accepts an idempotent redelivery": once an approval is decided in time, its
\* task is not failed by the handoff of the same message.
DecidedIsNotFailed ==
  row.status = "DECIDED" => task[row.token] # "FAILED"

\* When the approver repeats the request, a recorded decision ends up delivered
\* or its callback closed, whatever died on the way.
DecisionIsDelivered ==
  row.status = "DECIDED" ~> row.delivered \/ row.closed
=============================================================================
