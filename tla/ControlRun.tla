----------------------------- MODULE ControlRun -----------------------------
(***************************************************************************)
(* A control run of the second version of the control API, from its start  *)
(* to the verified change of the context: requests of the operator and the *)
(* approver, each of which reads, checks and then writes under a condition;*)
(* the stream function, which turns a stored approval into a signed        *)
(* mutation job and a mutation receipt into the jobs that verify it, and   *)
(* is invoked again after a failure and perhaps after a success; the jobs  *)
(* of CoreJobs; and the status, which is computed from what is stored.     *)
(* One run is looked at: another has other items and other jobs.           *)
(***************************************************************************)
EXTENDS CoreJobs, RunStatus

CONSTANTS
  Clients,      \* requests at one time
  Window,       \* 30 minutes: how long an approval may be given
  AuthTime,     \* 5 minutes: how long an authorization lasts
  MaxDeliveries \* 1 + retryAttempts of the stream

ASSUME RunAssumption ==
  Window \in Nat \ {0} /\ AuthTime \in Nat \ {0} /\ MaxDeliveries \in Nat \ {0}

VARIABLES
  mode,     \* of the stored run; NONE before it is
  markers,  \* the items IMPROVE and POST_VERIFY
  approval, \* the item APPROVAL
  client,   \* requests under way
  record    \* the two stream records

cvars == <<mode, markers, approval, client, record>>
vars == <<jvars, cvars>>

Records == {"approval", "receipt"}
Waiting == [at |-> "idle", decision |-> "none"]
\* late is history: the approval was stored after it could be given.
NoApproval == [decision |-> "none", late |-> FALSE]
NoRecord == [at |-> "none", tries |-> 0, active |-> FALSE]

Init ==
  /\ JobsInit
  /\ mode = "NONE"
  /\ markers = {}
  /\ approval = NoApproval
  /\ client = [c \in Clients |-> Waiting]
  /\ record = [r \in Records |-> NoRecord]

Succeeded(j) == State(j) = "SUCCEEDED"
Failed(j) == State(j) = "FAILED"
Decided == approval.decision # "none"

\* planFor: what the read saw, with the tag added.
Before == jobs["read"].receipt.saw
After == Before \cup {PII}
Plan == [before |-> Before, after |-> After, expires |-> 0]

\* The approval request ends thirty minutes after the improvement, and no later
\* than the session, which this module does not date.
ExpiresAt == jobs["improve"].receipt.at + Window
Expired == ExpiresAt <= clock

Analysed == mode # "NONE" /\ Succeeded("analyze")
Prepared == mode = "GOVERNED" /\ Analysed /\ Succeeded("read")
Planned == Prepared /\ "IMPROVE" \in markers /\ Succeeded("improve")

Put(new) == jobs' = [j \in Jobs |-> IF j \in DOMAIN new THEN Queued(new[j]) ELSE jobs[j]]
Absent(js) == \A j \in js : State(j) = "NONE"

-----------------------------------------------------------------------------
(* Requests *)

Step(c, at) == client' = [client EXCEPT ![c].at = at]
Return(c) == client' = [client EXCEPT ![c] = Waiting]

\* Every request first reads the session, which must be active at that time.
Begin(c, at) ==
  /\ client[c].at = "idle"
  /\ session = "ACTIVE"
  /\ IF at = "start" THEN mode = "NONE" ELSE mode # "NONE"
  /\ Step(c, at)
  /\ UNCHANGED <<jvars, mode, markers, approval, record>>

\* putRunAndJobs: the run and its first jobs in one transaction.  What a second
\* start stores is another run.
Start(c, m) ==
  /\ client[c].at = "start"
  /\ IF mode = "NONE"
       THEN /\ mode' = m
            /\ Put([j \in IF m = "GOVERNED" THEN {"analyze", "read"} ELSE {"analyze"}
                       |-> NoRequest])
       ELSE UNCHANGED <<mode, jobs>>
  /\ Return(c)
  /\ UNCHANGED <<host, gateway, column, session, clock, mishaps, sends, markers, approval, record>>

\* requestImprove: the marker and the job in one transaction, or the ones of
\* another request.
Improvable == Prepared /\ ~Decided /\ "IMPROVE" \notin markers

RequestImprove(c) ==
  /\ client[c].at = "improve"
  /\ IF Improvable
       THEN /\ markers' = markers \cup {"IMPROVE"}
            /\ Put([j \in {"improve"} |-> NoRequest])
       ELSE UNCHANGED <<markers, jobs>>
  /\ Return(c)
  /\ UNCHANGED <<host, gateway, column, session, clock, mishaps, sends, mode, approval, record>>

\* decide, up to its write.
Decidable == Planned /\ ~Expired /\ ~Decided

CheckDecision(c, decision) ==
  /\ client[c].at = "decide"
  /\ client' = [client EXCEPT ![c] = IF Decidable THEN [at |-> "put", decision |-> decision]
                                     ELSE Waiting]
  /\ UNCHANGED <<jvars, mode, markers, approval, record>>

\* The write is conditioned on the item alone, and comes when it comes.
Decide(c) ==
  /\ client[c].at = "put"
  /\ IF Decided
       THEN UNCHANGED <<approval, record>>
       ELSE /\ approval' = [decision |-> client[c].decision, late |-> Expired]
            /\ record' = [record EXCEPT !["approval"].at = "pending"]
  /\ Return(c)
  /\ UNCHANGED <<jvars, mode, markers>>

\* A request ends without its write.
Drop(c) ==
  /\ client[c].at # "idle"
  /\ Mishap
  /\ Return(c)
  /\ UNCHANGED <<jobs, host, gateway, column, session, clock, sends, mode, markers, approval, record>>

-----------------------------------------------------------------------------
(* The stream function *)

At(r, at) == record' = [record EXCEPT ![r].at = at]

\* Mutant: an invocation that failed counts as one that was carried out.
ThrowAway(r) == At(r, "done")

\* An invocation that throws comes again until the retries are used up.
Throw(r) ==
  record' = [record EXCEPT ![r].at = IF record[r].tries + 1 < MaxDeliveries THEN "pending" ELSE "dead",
                           ![r].tries = @ + 1, ![r].active = FALSE]

StreamKeeps == <<host, gateway, column, session, clock, mishaps, sends, mode, approval, client>>

\* processApprovalEnvelope up to the job that may exist: the session is read
\* here and its state tested with the time of the signature.
ReadApproved ==
  /\ record["approval"].at = "pending"
  /\ IF approval.decision = "REJECT" THEN At("approval", "done")
     ELSE record' = [record EXCEPT !["approval"].at = "read",
                                   !["approval"].active = session = "ACTIVE"]
  /\ UNCHANGED <<StreamKeeps, jobs, markers>>

\* Mutant: the decision was in time, so that only the session counts.
IssuableDecided == record["approval"].active

\* The window, with the session as it was read.
Issuable == record["approval"].active /\ ~Expired

\* createMutationAuthorization: the signature is made before the job is put.
Deadline == IF clock + AuthTime < ExpiresAt THEN clock + AuthTime ELSE ExpiresAt

Dispatch ==
  /\ record["approval"].at = "read"
  /\ IF State("mutation") # "NONE"
       THEN At("approval", "done") /\ UNCHANGED jobs
       ELSE IF Issuable
         THEN At("approval", "done") /\ Put([j \in {"mutation"} |-> [Plan EXCEPT !.expires = Deadline]])
         ELSE Throw("approval") /\ UNCHANGED jobs
  /\ UNCHANGED <<StreamKeeps, markers>>

\* processMutationReceipt: only for a session that is active.
Verifiable == session = "ACTIVE"

Announce(r) == record[r].at = "none" /\ At(r, "pending")

\* The stream carries what became of the mutation.
Observe ==
  /\ Succeeded("mutation")
  /\ Announce("receipt")
  /\ UNCHANGED <<StreamKeeps, jobs, markers>>

ReadReceipt ==
  /\ record["receipt"].at = "pending"
  /\ IF Verifiable THEN At("receipt", "read") ELSE Throw("receipt")
  /\ UNCHANGED <<StreamKeeps, jobs, markers>>

\* The marker and the two jobs in one transaction; if they are there already
\* they are the same ones.
PutVerification ==
  /\ record["receipt"].at = "read"
  /\ At("receipt", "done")
  /\ IF "POST_VERIFY" \notin markers /\ Absent(PostJobs)
       THEN /\ markers' = markers \cup {"POST_VERIFY"}
            /\ Put([j \in PostJobs |-> Plan])
       ELSE UNCHANGED <<markers, jobs>>
  /\ UNCHANGED StreamKeeps

\* The invocation fails at any point, or its answer is lost.
StreamFails(r) ==
  /\ record[r].at \in {"read", "done"}
  /\ Mishap
  /\ Throw(r)
  /\ UNCHANGED <<jobs, host, gateway, column, session, clock, sends, markers, mode, approval, client>>

-----------------------------------------------------------------------------
(* The status *)

\* A job that is not there yet counts as queued.
Await(phase, js, next) ==
  IF \E j \in js : State(j) \in {"NONE", "QUEUED", "RUNNING"} THEN phase
  ELSE IF \E j \in js : Failed(j) THEN "FAILED" ELSE next

\* verifiedContextDelta: the read is the one that was planned, and the analysis
\* sees the tag and differs from the first one.  If not the request fails.
ContextDelta ==
  /\ jobs["postRead"].receipt.saw = After
  /\ PII \in jobs["postAnalyze"].receipt.saw
  /\ jobs["postAnalyze"].receipt.saw # jobs["analyze"].receipt.saw

Verification ==
  IF "POST_VERIFY" \notin markers THEN "VERIFYING_CONTEXT_DELTA"
  ELSE Await("VERIFYING_CONTEXT_DELTA", PostJobs, IF ContextDelta THEN "SUCCEEDED" ELSE "ERROR")

Approval ==
  CASE approval.decision = "none" -> IF Expired THEN "EXPIRED" ELSE "AWAITING_APPROVAL"
    [] approval.decision = "REJECT" -> "REJECTED"
    [] approval.decision = "APPROVE" -> Await("APPLYING_GOVERNED_WRITE", {"mutation"}, Verification)

Governed ==
  Await("READING_GOVERNED_STATE", {"read"},
        IF "IMPROVE" \in markers THEN Await("IMPROVING_CONTEXT", {"improve"}, Approval)
        ELSE "AWAITING_IMPROVEMENT")

Status ==
  IF mode = "NONE" THEN "NONE"
  ELSE Await("ANALYZING", {"analyze"}, IF mode = "READ_ONLY" THEN "SUCCEEDED" ELSE Governed)

-----------------------------------------------------------------------------
Request(c) ==
  \/ \E at \in {"start", "improve", "decide"} : Begin(c, at)
  \/ \E m \in {"READ_ONLY", "GOVERNED"} : Start(c, m)
  \/ RequestImprove(c)
  \/ \E decision \in {"APPROVE", "REJECT"} : CheckDecision(c, decision)
  \/ Decide(c)
  \/ Drop(c)

StreamStep == ReadApproved \/ Dispatch \/ Observe \/ ReadReceipt \/ PutVerification

Work ==
  /\ Serve \/ Fails \/ Surroundings
  /\ UNCHANGED cvars

Served == session = "ACTIVE" /\ Serve /\ UNCHANGED cvars

Next ==
  \/ Work
  \/ \E c \in Clients : Request(c)
  \/ StreamStep
  \/ \E r \in Records : StreamFails(r)

Spec == Init /\ [][Next]_vars

\* The host of an active session takes up what is there, the stream is read and
\* time passes; nobody has to make a request.
Fairness ==
  /\ WF_vars(Served)
  /\ WF_vars(StreamStep)
  /\ WF_vars(Tick /\ UNCHANGED cvars)

FairSpec == Spec /\ Fairness

-----------------------------------------------------------------------------
(* Properties *)

TypeOK ==
  /\ jobs \in [Jobs -> [state : {"NONE", "QUEUED", "RUNNING", "SUCCEEDED", "FAILED"},
                        consumed : BOOLEAN, request : Requests,
                        receipt : [saw : SUBSET Tags, at : Nat]]]
  /\ host \in [at : {"idle", "work", "unchanged", "waiting", "done", "failed", "gone"},
               job : Jobs \cup {"none"}, saw : SUBSET Tags]
  /\ gateway \in {"none", "called", "valid", "consumed", "send", "sent", "confirmed", "refused"}
  /\ column \in SUBSET Tags
  /\ session \in {"ACTIVE", "ENDED"}
  /\ clock \in 0 .. MaxClock /\ mishaps \in 0 .. MaxMishaps
  /\ sends \in Nat
  /\ mode \in {"NONE", "READ_ONLY", "GOVERNED"}
  /\ markers \in SUBSET {"IMPROVE", "POST_VERIFY"}
  /\ approval \in [decision : {"none", "APPROVE", "REJECT"}, late : BOOLEAN]
  /\ client \in [Clients -> [at : {"idle", "start", "improve", "decide", "put"},
                             decision : {"none", "APPROVE", "REJECT"}]]
  /\ record \in [Records -> [at : {"none", "pending", "read", "done", "dead"},
                             tries : 0 .. MaxDeliveries, active : BOOLEAN]]

\* At most one tag change of a run reaches DataHub, whatever is lost, rejected or
\* still under way, and only for an approval that was given in time (_consume,
\* processApprovalEnvelope).
WritesAreAuthorized ==
  /\ sends <= 1
  /\ sends > 0 => approval = [decision |-> "APPROVE", late |-> FALSE]

\* An approval that was stored after its window, behind a check that was in time,
\* has been reported EXPIRED and leads to no mutation job (decide,
\* processApprovalEnvelope).
LateApprovalIsInert == approval.late => State("mutation") = "NONE"

\* Both together: what is written, and what is even queued to be written, rests on
\* one approval that was given in time.
WriteIsApproved == WritesAreAuthorized /\ LateApprovalIsInert

\* A mutation that is reported as carried out was sent, whoever else tags the
\* column, and a run that is complete rests on one (_execute of the gateway,
\* _governed_mutation).
ReceiptsAreEarned ==
  /\ Succeeded("mutation") => sends = 1
  /\ mode = "GOVERNED" /\ Status = "SUCCEEDED" => Succeeded("mutation")

\* A job that ended stays as it ended, with its receipt and with what it says of
\* its authorization, whatever answers are lost and although the gateway may go on
\* after the adapter gave up on it (_complete, _reject_invalid, _consume): what is
\* FAILED and not consumed will never be written.
EndedIsFinal == [][\A j \in Jobs : Ended(j) => jobs'[j] = jobs[j]]_vars

\* A change that reached DataHub, with no failure and no edit of others, is not
\* reported as failed (_governed_mutation); it is when ISO_RE is not defined.
SentIsNotFailed == (mishaps = 0 /\ sends > 0) => ~Failed("mutation")

\* The status moves as RunStatus says, whatever jobs are rejected and answers are
\* lost: never back, never out of an outcome, and where the judge has to ask for
\* the next step only with the request that asks for it (status).
StatusFollows ==
  [][(Status' # Status) =>
       \/ <<Status, Status'>> \in OnItsOwn
       \/ /\ <<Status, Status'>> \in ByRequest
          /\ mode' # mode \/ markers' # markers \/ approval' # approval]_vars

\* A run that was approved in time comes to an outcome while its session and its
\* host last, unless the stream used up the retries of one of its records: because
\* of failures, or because the window closed before the mutation was signed
\* (remediationStream, process_once).  ERROR is the outcome of a status request
\* that fails for ever.
Concluded ==
  \/ Status \in Outcomes \cup {"ERROR"}
  \/ session = "ENDED" \/ host.at = "gone"
  \/ \E r \in Records : record[r].at = "dead"
ApprovedRunConcludes ==
  (approval.decision = "APPROVE" /\ ~approval.late) ~> Concluded
=============================================================================
