------------------------- MODULE ControlRunProofs -------------------------
(***************************************************************************)
(* Proofs about ControlRun, for any numbers of clients, tags, deliveries   *)
(* and mishaps: one write, under an approval that was given in time; late  *)
(* approvals lead to nothing; a job that ended stays as it ended; a run    *)
(* that is complete rests on a write that was sent; and its status moves   *)
(* as RunStatus says, which is what JudgePage assumes.                     *)
(***************************************************************************)
EXTENDS ControlRun, TLAPS

\* The adapter is at a job.
Busy == host.at \notin {"idle", "gone"}

\* It is at one that was claimed, at the mutation where it waits for the gateway,
\* and calls that once.
HostAgrees ==
  /\ Busy => host.job \in Jobs /\ State(host.job) \notin {"NONE", "QUEUED"}
  /\ host.at = "waiting" => host.job = "mutation"
  /\ host.at = "unchanged" => host.job \in PostJobs
  /\ host.at = "work" /\ host.job = "mutation" => gateway = "none"

\* The gateway is called for a mutation that was claimed, and sends it once; what
\* is about to be reported as carried out was sent.
WritesAgree ==
  /\ gateway # "none" => State("mutation") \notin {"NONE", "QUEUED"}
  /\ gateway \in {"none", "called", "valid", "consumed", "send"} => sends = 0
  /\ gateway \in {"sent", "confirmed"} => sends = 1
  /\ sends \in {0, 1}
  /\ host.at = "done" /\ host.job = "mutation" => sends = 1
  /\ Succeeded("mutation") => sends = 1

\* What a request puts was not there.
JobsAreNew ==
  /\ mode = "NONE" => State("analyze") = "NONE" /\ State("read") = "NONE"
  /\ "IMPROVE" \notin markers => State("improve") = "NONE"

\* The window of an approval is fixed before anybody may decide.
WindowIsFixed ==
  /\ \A c \in Clients : client[c].at = "put" => /\ Succeeded("improve")
                                                /\ client[c].decision # "none"
  /\ Decided => Succeeded("improve")
  /\ approval.late => Decided /\ Expired

\* The stream acts on a decision that is stored, and a mutation job on an approval
\* that was in time.
JobIsApproved ==
  /\ record["approval"].at # "none" => Decided
  /\ record["approval"].at = "read" => approval.decision = "APPROVE"
  /\ State("mutation") # "NONE" => approval.decision = "APPROVE" /\ ~approval.late

\* A stream record that is not given up may be tried again.
TriesAgree == \A r \in Records : record[r].at # "dead" => record[r].tries < MaxDeliveries

Inv ==
  /\ TypeOK
  /\ HostAgrees /\ WritesAgree /\ JobsAreNew
  /\ WindowIsFixed /\ JobIsApproved /\ TriesAgree

-----------------------------------------------------------------------------
(* Typed changes of the items and of the adapter *)

\* What the values of TypeOK are called here.
Receipts == [saw : SUBSET Tags, at : Nat]
Items == [state : {"NONE", "QUEUED", "RUNNING", "SUCCEEDED", "FAILED"},
          consumed : BOOLEAN, request : Requests, receipt : Receipts]
Places == {"idle", "work", "unchanged", "waiting", "done", "failed", "gone"}
Locals == [at : Places, job : Jobs \cup {"none"}, saw : SUBSET Tags]

\* What is left of a step of the adapter when the reads are forgotten.
Turn(at, job) == host' \in Locals /\ host'.at = at /\ host'.job = job

\* And of a change of job j.
Item(j, state) ==
  /\ jobs' \in [Jobs -> Items]
  /\ \A k \in Jobs \ {j} : jobs'[k] = jobs[k]
  /\ jobs'[j].state = state

\* The window of a plan counts from the receipt of the improvement.
Dated(j) == j = "improve" => jobs'[j].receipt.at = clock

\* The part of TypeOK these steps need.
Typed ==
  /\ jobs \in [Jobs -> Items]
  /\ host \in Locals
  /\ column \in SUBSET Tags
  /\ clock \in 0 .. MaxClock

\* It is a part.
LEMMA TypedJobs == TypeOK => Typed
BY DEF TypeOK, Typed, Items, Receipts, Locals, Places

\* An adapter that goes on keeps its job.
LEMMA ToTurns ==
  ASSUME Typed, NEW at \in Places, To(at) \/ See(at)
  PROVE  Turn(at, host.job)
BY DEF Typed, To, See, Turn, Locals

\* One that rests has none.
LEMMA RestTurns ==
  ASSUME NEW at \in {"idle", "gone"}, host' = [AtRest EXCEPT !.at = at]
  PROVE  Turn(at, "none")
BY DEF AtRest, Turn, Locals, Places

\* AtRest as it is.
LEMMA AtRestTurns == ASSUME host' = AtRest PROVE Turn("idle", "none")
BY DEF AtRest, Turn, Locals, Places

\* An item stays one when its job is claimed,
LEMMA TakenUp == ASSUME NEW e \in Items PROVE [e EXCEPT !.state = "RUNNING"] \in Items
BY DEF Items

\* closed,
LEMMA GivenReceipt ==
  ASSUME NEW e \in Items, NEW s \in {"SUCCEEDED", "FAILED"}, NEW r \in Receipts
  PROVE  [e EXCEPT !.state = s, !.receipt = r] \in Items
BY DEF Items

\* or has its authorization consumed.
LEMMA UsedUp == ASSUME NEW e \in Items PROVE [e EXCEPT !.consumed = TRUE] \in Items
BY DEF Items

\* A job that is put is queued.
LEMMA NewItem ==
  ASSUME NEW r \in Requests
  PROVE  Queued(r) \in Items /\ Queued(r).state = "QUEUED"
<1>1. NoReceipt \in Receipts /\ NoRequest \in Requests
  BY DEF NoReceipt, Receipts, NoRequest, Requests
<1>2. NoItem \in Items
  BY <1>1 DEF NoItem, Items
<1>3. ASSUME NEW e \in Items
      PROVE  LET q == [e EXCEPT !.state = "QUEUED", !.request = r]
             IN  q \in Items /\ q.state = "QUEUED"
  BY <1>3 DEF Items
<1> QED
  BY <1>2, <1>3 DEF Queued

\* What a claim does to an item.
LEMMA ClaimedItem ==
  ASSUME Typed, NEW j \in Jobs, jobs' = Running(j)
  PROVE  Item(j, "RUNNING")
<1> DEFINE new == [jobs[j] EXCEPT !.state = "RUNNING"]
<1>1. jobs[j] \in Items
  BY DEF Typed
<1>2. new \in Items /\ new.state = "RUNNING"
  BY <1>1, TakenUp DEF Items
<1>3. jobs' = [jobs EXCEPT ![j] = new]
  BY DEF Running
<1> HIDE DEF new
<1> QED
  BY <1>2, <1>3 DEF Item, Typed

\* What a receipt does to it, which dates the improvement.
LEMMA ClosedItem ==
  ASSUME Typed, NEW j \in Jobs, NEW state \in {"SUCCEEDED", "FAILED"},
         NEW saw \in SUBSET Tags, jobs' = Closed(j, state, saw)
  PROVE  Item(j, state) /\ Dated(j)
<1> DEFINE r == [saw |-> saw, at |-> IF j = "improve" THEN clock ELSE 0]
           new == [jobs[j] EXCEPT !.state = state, !.receipt = r]
<1>1. r \in Receipts /\ (j = "improve" => r.at = clock)
  BY JobsAssumption DEF Receipts, Typed
<1>2. jobs' = [jobs EXCEPT ![j] = new]
  BY DEF Closed
<1>3. jobs[j] \in Items
  BY DEF Typed
<1> HIDE DEF r
<1>4. new \in Items
  BY <1>1, <1>3, GivenReceipt
<1>5. new.state = state /\ new.receipt = r
  BY <1>3 DEF Items
<1> HIDE DEF new
<1> QED
  BY <1>1, <1>2, <1>4, <1>5 DEF Item, Dated, Typed

\* What the gateway does to the item of the mutation.
LEMMA ConsumedItem ==
  ASSUME Typed, jobs' = [jobs EXCEPT !["mutation"].consumed = TRUE]
  PROVE  Item("mutation", State("mutation"))
<1> DEFINE new == [jobs["mutation"] EXCEPT !.consumed = TRUE]
<1>1. "mutation" \in Jobs
  BY DEF Jobs
<1>2. jobs' = [jobs EXCEPT !["mutation"] = new]
  BY <1>1
<1>3. jobs["mutation"] \in Items
  BY <1>1 DEF Typed
<1>4. new \in Items /\ new.state = jobs["mutation"].state
  BY <1>3, UsedUp DEF Items
<1> HIDE DEF new
<1> QED
  BY <1>1, <1>2, <1>4 DEF Item, State, Typed

-----------------------------------------------------------------------------
(* What the invariant sees of a step of the adapter or the gateway *)

\* A job is claimed, by the adapter or for nobody; rejected; or closed by the
\* adapter, which may not know it.
Claims ==
  \E j \in Jobs :
    /\ host.at = "idle" /\ State(j) = "QUEUED"
    /\ Item(j, "RUNNING")
    /\ Turn("work", j) \/ host' = host
    /\ UNCHANGED <<gateway, sends>>

Rejects ==
  \E j \in Jobs :
    /\ State(j) \in {"QUEUED", "RUNNING"}
    /\ Item(j, "FAILED")
    /\ UNCHANGED <<host, gateway, sends>>

Ends ==
  \E state \in {"SUCCEEDED", "FAILED"} :
    /\ host.at = (IF state = "SUCCEEDED" THEN "done" ELSE "failed")
    /\ State(host.job) = "RUNNING"
    /\ Item(host.job, state) /\ Dated(host.job)
    /\ Turn("idle", "none") \/ Turn("failed", host.job)
    /\ UNCHANGED <<gateway, sends>>

\* The adapter leaves its job as it is, goes on with it, or calls the gateway.
Leaves == (\E at \in {"idle", "gone"} : Turn(at, "none")) /\ UNCHANGED <<jobs, gateway, sends>>

GoesOn ==
  \E at \in {"unchanged", "done", "failed"} :
    /\ Busy /\ Turn(at, host.job)
    /\ at = "unchanged" => host.job \in PostJobs
    /\ at = "done" => host.job # "mutation" \/ gateway = "confirmed"
    /\ UNCHANGED <<jobs, gateway, sends>>

Calls ==
  /\ host.at = "work" /\ host.job = "mutation"
  /\ Turn("waiting", host.job)
  /\ gateway' = "called"
  /\ UNCHANGED <<jobs, sends>>

\* The gateway goes on, consumes the authorization, or sends.
Passes ==
  /\ gateway \notin {"none", "send"}
  /\ \/ gateway' = "refused"
     \/ gateway \in {"called", "valid", "consumed"} /\ gateway' \in {"valid", "send"}
     \/ gateway = "sent" /\ gateway' = "confirmed"
  /\ UNCHANGED <<jobs, host, sends>>

Consumes ==
  /\ gateway = "valid" /\ gateway' \in {"consumed", "refused"}
  /\ State("mutation") = "RUNNING"
  /\ Item("mutation", "RUNNING")
  /\ UNCHANGED <<host, sends>>

Sends ==
  /\ gateway = "send"
  /\ \/ gateway' \in {"sent", "refused"} /\ sends' = sends + 1
     \/ gateway' = "refused" /\ sends' = sends
  /\ UNCHANGED <<jobs, host>>

CoreMoves ==
  Claims \/ Rejects \/ Ends \/ Leaves \/ GoesOn \/ Calls \/ Passes \/ Consumes \/ Sends

\* The queue, step by step.
LEMMA Queue ==
  ASSUME Typed, NEW j \in Jobs, Claim(j) \/ ClaimLost(j) \/ ClaimFails(j) \/ Reject(j)
  PROVE  CoreMoves
<1>1. CASE Claim(j) \/ ClaimLost(j)
  <2>1. /\ host.at = "idle" /\ State(j) = "QUEUED" /\ jobs' = Running(j)
        /\ UNCHANGED <<gateway, sends>>
    BY <1>1 DEF Claim, ClaimLost, Claimable
  <2>2. Item(j, "RUNNING")
    BY <2>1, ClaimedItem
  <2>3. Turn("work", j) \/ host' = host
    BY <1>1 DEF Claim, ClaimLost, AtRest, Turn, Locals, Places
  <2> QED
    BY <2>1, <2>2, <2>3 DEF CoreMoves, Claims
<1>2. CASE ClaimFails(j) \/ Reject(j)
  <2>1. /\ State(j) \in {"QUEUED", "RUNNING"} /\ jobs' = Closed(j, "FAILED", {})
        /\ UNCHANGED <<host, gateway, sends>>
    BY <1>2 DEF ClaimFails, Reject, Claimable, Rejectable
  <2>2. Item(j, "FAILED")
    BY <2>1, ClosedItem
  <2> QED
    BY <2>1, <2>2 DEF CoreMoves, Rejects
<1> QED
  BY <1>1, <1>2

\* The adapter stores a receipt, which it may not learn, or dies.
LEMMA Ending ==
  ASSUME Typed, HostAgrees, Complete \/ CompleteFails \/ Crash
  PROVE  CoreMoves
<1>1. CASE Crash \/ (Complete /\ jobs' = jobs)
  BY <1>1, RestTurns, AtRestTurns DEF Complete, Crash, CoreMoves, Leaves
<1>2. CASE CompleteFails /\ jobs' = jobs
  <2>1. Turn("failed", host.job)
    BY <1>2, ToTurns DEF CompleteFails, Places
  <2> QED
    BY <1>2, <2>1 DEF CompleteFails, CoreMoves, GoesOn, Busy
<1>3. CASE (Complete \/ CompleteFails) /\ jobs' # jobs
  <2>1. PICK state \in {"SUCCEEDED", "FAILED"} :
          /\ host.at = (IF state = "SUCCEEDED" THEN "done" ELSE "failed")
          /\ Store(state)
    BY <1>3 DEF Complete, CompleteFails
  <2>2. host.job \in Jobs /\ host.saw \in SUBSET Tags
    BY <2>1 DEF HostAgrees, Busy, Typed, Locals
  <2>3. /\ State(host.job) = "RUNNING"
        /\ jobs' = Closed(host.job, state, IF state = "SUCCEEDED" THEN host.saw ELSE {})
    BY <1>3, <2>1 DEF Store, OwnAttempt, Job, State
  <2>4. Item(host.job, state) /\ Dated(host.job)
    <3> DEFINE saw == IF state = "SUCCEEDED" THEN host.saw ELSE {}
    <3>1. saw \in SUBSET Tags /\ jobs' = Closed(host.job, state, saw)
      BY <2>2, <2>3
    <3> HIDE DEF saw
    <3> QED
      BY <2>2, <3>1, ClosedItem
  <2>5. Turn("idle", "none") \/ Turn("failed", host.job)
    BY <1>3, AtRestTurns, ToTurns DEF Complete, CompleteFails, Places
  <2>6. UNCHANGED <<gateway, sends>>
    BY <1>3 DEF Complete, CompleteFails
  <2> QED
    BY <2>1, <2>3, <2>4, <2>5, <2>6 DEF CoreMoves, Ends
<1> QED
  BY <1>1, <1>2, <1>3

\* The steps of an operation.
LEMMA Operation ==
  ASSUME Typed, HostAgrees,
         Read \/ PostRead \/ PostAnalyze \/ Call \/ Answer \/ WorkFails
  PROVE  CoreMoves
<1>1. CASE Call
  BY <1>1, ToTurns DEF Call, Places, CoreMoves, Calls
<1>2. CASE Answer /\ Believed
  <2>1. /\ Busy /\ gateway = "confirmed" /\ UNCHANGED <<jobs, gateway, sends>>
        /\ host' = [host EXCEPT !.at = "done", !.saw = Job.request.after]
    BY <1>2 DEF Answer, Believed, Busy
  <2>2. host.job \in Jobs
    BY <2>1 DEF HostAgrees
  <2>3. Job.request.after \in SUBSET Tags
    BY <2>2 DEF Job, Typed, Items, Requests
  <2>4. Turn("done", host.job)
    <3> DEFINE after == Job.request.after
    <3>1. after \in SUBSET Tags /\ host' = [host EXCEPT !.at = "done", !.saw = after]
      BY <2>1, <2>3
    <3> HIDE DEF after
    <3> QED
      BY <3>1 DEF Turn, Locals, Places, Typed
  <2> QED
    BY <2>1, <2>4 DEF CoreMoves, GoesOn
<1>3. CASE ~Call /\ ~(Answer /\ Believed)
  <2>1. PICK at \in {"unchanged", "done", "failed"} :
          /\ Busy /\ (To(at) \/ See(at))
          /\ at = "unchanged" => host.job \in PostJobs
          /\ at = "done" => host.job # "mutation" \/ gateway = "confirmed"
          /\ UNCHANGED <<jobs, gateway, sends>>
    <3>1. CASE Read
      BY <3>1 DEF Read, Busy
    <3>2. CASE PostRead
      BY <3>2 DEF PostRead, PostJobs, Busy
    <3>3. CASE PostAnalyze
      BY <3>3 DEF PostAnalyze, HostAgrees, PostJobs, Busy
    <3>4. CASE WorkFails
      BY <3>4 DEF WorkFails, Busy
    <3>5. CASE Answer /\ ~Believed
      BY <3>5 DEF Answer, To, Busy
    <3> QED
      BY <1>3, <3>1, <3>2, <3>3, <3>4, <3>5
  <2>2. Turn(at, host.job)
    BY <2>1, ToTurns DEF Places
  <2> QED
    BY <2>1, <2>2 DEF CoreMoves, GoesOn
<1> QED
  BY <1>1, <1>2, <1>3

\* The steps of the gateway.
LEMMA Gating ==
  ASSUME Typed,
         \/ Validate \/ Consume \/ ConsumeFails \/ ReadBefore \/ Send \/ SendFails \/ ReadAfter
         \/ GatewayFails
  PROVE  CoreMoves
<1> USE DEF Then
<1>1. CASE Validate \/ ReadBefore \/ ReadAfter \/ GatewayFails
  BY <1>1 DEF Validate, ReadBefore, ReadAfter, GatewayFails, CoreMoves, Passes
<1>2. CASE (Consume \/ ConsumeFails) /\ Unconsumed
  <2>1. /\ gateway = "valid" /\ gateway' \in {"consumed", "refused"}
        /\ State("mutation") = "RUNNING" /\ UNCHANGED <<host, sends>>
        /\ jobs' = [jobs EXCEPT !["mutation"].consumed = TRUE]
    BY <1>2 DEF Consume, ConsumeFails, Unconsumed, Mutation, State
  <2> QED
    BY <2>1, ConsumedItem DEF CoreMoves, Consumes
<1>3. CASE (Consume \/ ConsumeFails) /\ ~Unconsumed
  BY <1>3 DEF Consume, ConsumeFails, CoreMoves, Passes
<1>4. CASE Send \/ SendFails
  BY <1>4 DEF Send, SendFails, Tagged, CoreMoves, Sends
<1> QED
  BY <1>1, <1>2, <1>3, <1>4

\* So every step on Core is one of these.
LEMMA CoreSummary ==
  ASSUME Typed, HostAgrees, Serve \/ Fails
  PROVE  CoreMoves
BY Queue, Ending, Operation, Gating DEF Serve, Fails

-----------------------------------------------------------------------------
(* Every such step keeps the invariant *)

\* Jobs that are there stay, and what is closed is closed for good.
Settled(j) ==
  /\ State(j) # "NONE" => jobs'[j].state # "NONE"
  /\ State(j) \notin {"NONE", "QUEUED"} => jobs'[j].state \notin {"NONE", "QUEUED"}
  /\ Ended(j) => jobs'[j] = jobs[j]

\* No step on Core undoes what is settled,
LEMMA CoreSettles ==
  ASSUME Typed, HostAgrees, CoreMoves
  PROVE  \A j \in Jobs : Settled(j)
<1> USE DEF Settled, Item, State, Ended
<1>1. CASE Claims \/ Rejects
  BY <1>1 DEF Claims, Rejects
<1>2. CASE Ends
  BY <1>2 DEF Ends, HostAgrees, Busy
<1>3. CASE Leaves \/ GoesOn \/ Calls \/ Passes \/ Sends
  BY <1>3 DEF Leaves, GoesOn, Calls, Passes, Sends
<1>4. CASE Consumes
  BY <1>4 DEF Consumes
<1> QED
  BY <1>1, <1>2, <1>3, <1>4 DEF CoreMoves

\* or puts a job.
LEMMA CoreCreates ==
  ASSUME Typed, HostAgrees, CoreMoves, NEW j \in Jobs, State(j) = "NONE"
  PROVE  jobs'[j].state = "NONE"
<1> USE DEF Item, State
<1>1. CASE Claims \/ Rejects
  BY <1>1 DEF Claims, Rejects
<1>2. CASE Ends
  BY <1>2 DEF Ends, HostAgrees, Busy
<1>3. CASE Leaves \/ GoesOn \/ Calls \/ Passes \/ Sends
  BY <1>3 DEF Leaves, GoesOn, Calls, Passes, Sends
<1>4. CASE Consumes
  BY <1>4 DEF Consumes
<1> QED
  BY <1>1, <1>2, <1>3, <1>4 DEF CoreMoves

\* The types,
LEMMA CoreKeepsTypes ==
  ASSUME Typed, CoreMoves
  PROVE  /\ jobs' \in [Jobs -> Items] /\ host' \in Locals
         /\ gateway' = gateway \/ gateway' \in {"called", "valid", "consumed", "send", "sent", "confirmed", "refused"}
BY DEF CoreMoves, Claims, Rejects, Ends, Leaves, GoesOn, Calls, Passes, Consumes, Sends, Typed, Item, Turn

\* the conjuncts about the adapter,
LEMMA CoreKeepsHost ==
  ASSUME Typed, HostAgrees, WritesAgree, CoreMoves
  PROVE  HostAgrees'
<1> USE DEF HostAgrees, Busy, Turn, State
<1>0. "mutation" \in Jobs /\ "mutation" \notin PostJobs
      /\ \A j \in Jobs : State(j) \notin {"NONE", "QUEUED"} => jobs'[j].state \notin {"NONE", "QUEUED"}
  BY CoreSettles DEF Settled, Jobs, PostJobs
<1>1. CASE Claims
  <2>1. PICK j \in Jobs : /\ host.at = "idle" /\ State(j) = "QUEUED" /\ Item(j, "RUNNING")
                          /\ Turn("work", j) \/ host' = host
                          /\ gateway' = gateway
    BY <1>1 DEF Claims
  <2>2. jobs'[j].state = "RUNNING" /\ (j = "mutation" => gateway = "none")
    BY <2>1 DEF Item, WritesAgree
  <2> QED
    BY <1>0, <2>1, <2>2
<1>2. CASE Rejects
  BY <1>0, <1>2 DEF Rejects
<1>3. CASE Ends \/ Leaves \/ GoesOn
  BY <1>0, <1>3 DEF Ends, Leaves, GoesOn
<1>4. CASE Calls
  BY <1>0, <1>4 DEF Calls
<1>5. CASE Passes \/ Consumes \/ Sends
  BY <1>0, <1>5 DEF Passes, Consumes, Sends
<1> QED
  BY <1>1, <1>2, <1>3, <1>4, <1>5 DEF CoreMoves

\* about the gateway,
LEMMA CoreKeepsWrites ==
  ASSUME Typed, HostAgrees, WritesAgree, CoreMoves
  PROVE  WritesAgree'
<1> USE DEF WritesAgree, Turn, State, Succeeded
<1>0. /\ "mutation" \in Jobs
      /\ State("mutation") \notin {"NONE", "QUEUED"} => jobs'["mutation"].state \notin {"NONE", "QUEUED"}
      /\ Succeeded("mutation") => jobs'["mutation"].state = "SUCCEEDED"
  BY CoreSettles DEF Settled, Jobs, Ended
<1>1. CASE Claims
  BY <1>0, <1>1 DEF Claims, Item
<1>2. CASE Rejects
  BY <1>0, <1>2 DEF Rejects, Item
<1>3. CASE Ends
  <2>1. jobs'["mutation"].state = "SUCCEEDED" => sends = 1
    BY <1>0, <1>3 DEF Ends, Item, HostAgrees, Busy
  <2> QED
    BY <1>0, <1>3, <2>1 DEF Ends
<1>4. CASE Leaves \/ GoesOn
  BY <1>0, <1>4 DEF Leaves, GoesOn
<1>5. CASE Calls
  BY <1>0, <1>5 DEF Calls, HostAgrees, Busy
<1>6. CASE Passes
  BY <1>0, <1>6 DEF Passes
<1>7. CASE Consumes
  BY <1>0, <1>7 DEF Consumes, Item
<1>8. CASE Sends
  BY <1>0, <1>8 DEF Sends
<1> QED
  BY <1>1, <1>2, <1>3, <1>4, <1>5, <1>6, <1>7, <1>8 DEF CoreMoves

\* and about the run.
LEMMA CoreKeepsRun ==
  ASSUME Typed, HostAgrees, JobsAreNew, WindowIsFixed, JobIsApproved, CoreMoves,
         clock' = clock, UNCHANGED cvars
  PROVE  JobsAreNew' /\ WindowIsFixed' /\ JobIsApproved'
<1>0. "improve" \in Jobs /\ "mutation" \in Jobs /\ "analyze" \in Jobs /\ "read" \in Jobs
  BY DEF Jobs
<1>1. Settled("improve") /\ Settled("mutation")
  BY <1>0, CoreSettles
<1>2. \A j \in Jobs : State(j) = "NONE" => jobs'[j].state = "NONE"
  BY CoreCreates
<1>3. JobsAreNew'
  BY <1>0, <1>2 DEF JobsAreNew, State, cvars
<1>4. WindowIsFixed'
  BY <1>0, <1>1 DEF WindowIsFixed, Settled, Succeeded, State, Decided, Expired, ExpiresAt, Ended, cvars
<1>5. JobIsApproved'
  BY <1>0, <1>2 DEF JobIsApproved, State, Decided, cvars
<1> QED
  BY <1>3, <1>4, <1>5

-----------------------------------------------------------------------------
(* What the invariant sees of a step of a request or of the stream *)

\* What the values of TypeOK are called here.
Stages == {"none", "pending", "read", "done", "dead"}
Entries == [at : Stages, tries : 0 .. MaxDeliveries, active : BOOLEAN]
Decisions == {"none", "APPROVE", "REJECT"}
Asking == [at : {"idle", "start", "improve", "decide", "put"}, decision : Decisions]

\* A change of what a request is at, and of a stream record.
Turns(c, at, decision) ==
  /\ client' \in [Clients -> Asking]
  /\ \A d \in Clients \ {c} : client'[d] = client[d]
  /\ client'[c].at = at /\ client'[c].decision = decision

Entry(r, at) ==
  /\ record' \in [Records -> Entries]
  /\ \A q \in Records \ {r} : record'[q] = record[q]
  /\ record'[r].at = at
  /\ at # "dead" => record'[r].tries < MaxDeliveries

\* The part of the invariant these steps need.
TypedRun ==
  /\ client \in [Clients -> Asking]
  /\ record \in [Records -> Entries]
  /\ TriesAgree

\* A request that is over.
LEMMA ReturnTurns ==
  ASSUME client \in [Clients -> Asking], NEW c \in Clients, Return(c)
  PROVE  Turns(c, "idle", "none")
BY DEF Return, Waiting, Turns, Asking, Decisions

\* A request that was begun.
LEMMA StepTurns ==
  ASSUME client \in [Clients -> Asking], NEW c \in Clients,
         NEW at \in {"start", "improve", "decide"}, Step(c, at)
  PROVE  Turns(c, at, client[c].decision)
<1> DEFINE new == [client[c] EXCEPT !.at = at]
<1>1. client[c] \in Asking /\ client' = [client EXCEPT ![c] = new]
  BY DEF Step
<1>2. new \in Asking /\ new.at = at /\ new.decision = client[c].decision
  BY <1>1 DEF Asking
<1> HIDE DEF new
<1> QED
  BY <1>1, <1>2 DEF Turns

\* A decision that was checked.
LEMMA CheckTurns ==
  ASSUME client \in [Clients -> Asking], NEW c \in Clients, NEW decision \in {"APPROVE", "REJECT"},
         CheckDecision(c, decision)
  PROVE  \/ Turns(c, "idle", "none")
         \/ Decidable /\ Turns(c, "put", decision)
BY DEF CheckDecision, Waiting, Turns, Asking, Decisions

\* A record that goes on keeps its count.
LEMMA AtEntry ==
  ASSUME TypedRun, NEW r \in Records, NEW at \in Stages, record[r].at # "dead",
         \/ At(r, at)
         \/ \E active \in BOOLEAN : record' = [record EXCEPT ![r].at = at, ![r].active = active]
  PROVE  Entry(r, at)
<1>1. PICK active \in BOOLEAN :
        \/ record' = [record EXCEPT ![r] = [record[r] EXCEPT !.at = at]]
        \/ record' = [record EXCEPT ![r] = [record[r] EXCEPT !.at = at, !.active = active]]
  BY DEF At
<1>2. record[r] \in Entries /\ record[r].tries < MaxDeliveries
  BY DEF TypedRun, TriesAgree
<1>3. ASSUME NEW e \in Entries
      PROVE  LET one == [e EXCEPT !.at = at]
                 two == [e EXCEPT !.at = at, !.active = active]
             IN  /\ one \in Entries /\ one.at = at /\ one.tries = e.tries
                 /\ two \in Entries /\ two.at = at /\ two.tries = e.tries
  BY <1>3 DEF Entries
<1>4. PICK new \in Entries : /\ record' = [record EXCEPT ![r] = new]
                             /\ new.at = at /\ new.tries = record[r].tries
  BY <1>1, <1>2, <1>3
<1> QED
  BY <1>2, <1>4 DEF Entry, TypedRun

\* A record whose invocation threw is counted, and tried again or given up.
LEMMA ThrowEntry ==
  ASSUME TypedRun, NEW r \in Records, record[r].at # "dead", Throw(r)
  PROVE  Entry(r, "pending") \/ Entry(r, "dead")
<1> DEFINE n == record[r].tries + 1
           at == IF n < MaxDeliveries THEN "pending" ELSE "dead"
           new == [record[r] EXCEPT !.at = at, !.tries = n, !.active = FALSE]
<1>1. record[r] \in Entries /\ record[r].tries < MaxDeliveries
  BY DEF TypedRun, TriesAgree
<1>2. n \in 0 .. MaxDeliveries /\ at \in Stages /\ (at # "dead" => n < MaxDeliveries)
  BY <1>1, RunAssumption DEF Entries, Stages
<1>3. record' = [record EXCEPT ![r] = new]
  BY DEF Throw
<1>4. new \in Entries /\ new.at = at /\ new.tries = n
  <2> HIDE DEF n, at
  <2> QED
    BY <1>1, <1>2 DEF Entries
<1>5. at = "pending" \/ at = "dead"
  OBVIOUS
<1> HIDE DEF new, n, at
<1> QED
  BY <1>2, <1>3, <1>4, <1>5 DEF Entry, TypedRun

\* It is a part.
LEMMA TypedRest == ASSUME TypeOK, TriesAgree PROVE TypedRun
BY DEF TypeOK, TypedRun, Entries, Asking, Stages, Decisions

\* Jobs that were put are new.
Puts(js) ==
  /\ jobs' \in [Jobs -> Items]
  /\ \A j \in Jobs \ js : jobs'[j] = jobs[j]
  /\ \A j \in js : State(j) = "NONE" /\ jobs'[j].state = "QUEUED"

\* As Put does it where nothing stands.
LEMMA PutsNew ==
  ASSUME Typed, NEW js \in SUBSET Jobs, NEW new \in [js -> Requests], Put(new), Absent(js)
  PROVE  Puts(js)
<1>1. DOMAIN new = js
  OBVIOUS
<1>2. jobs' = [j \in Jobs |-> IF j \in js THEN Queued(new[j]) ELSE jobs[j]]
  BY <1>1 DEF Put
<1> QED
  BY <1>2, NewItem DEF Puts, Absent, Typed

\* New jobs disturb nothing on Core,
LEMMA PutKeeps ==
  ASSUME Typed, HostAgrees, WritesAgree, NEW js \in SUBSET Jobs, Puts(js), UNCHANGED <<host, gateway, sends>>
  PROVE  HostAgrees' /\ WritesAgree'
<1>0. "mutation" \in Jobs
  BY DEF Jobs
<1>1. HostAgrees'
  BY DEF HostAgrees, Busy, Puts, State
<1>2. WritesAgree'
  BY <1>0 DEF WritesAgree, Puts, State, Succeeded
<1> QED
  BY <1>1, <1>2

\* and undo nothing.
LEMMA PutSettles == ASSUME NEW js \in SUBSET Jobs, Puts(js) PROVE \A j \in Jobs : Settled(j)
BY DEF Puts, Settled, State, Ended

\* Nor does a step that leaves all of it alone.
LEMMA SameKeeps ==
  ASSUME HostAgrees, WritesAgree, UNCHANGED <<jobs, host, gateway, sends>>
  PROVE  HostAgrees' /\ WritesAgree'
BY DEF HostAgrees, Busy, WritesAgree, State, Succeeded

\* Nothing is undone where nothing changes.
LEMMA SameSettles == ASSUME jobs' = jobs PROVE \A j \in Jobs : Settled(j)
BY DEF Settled, State

\* The plan is a request.
LEMMA PlanIsRequest ==
  ASSUME Typed
  PROVE  Plan \in Requests /\ \A e \in Nat : [Plan EXCEPT !.expires = e] \in Requests
<1>1. Before \in SUBSET Tags /\ After \in SUBSET Tags
  BY JobsAssumption DEF Before, After, Typed, Items, Receipts, Jobs
<1> HIDE DEF Before, After
<1> QED
  BY <1>1 DEF Plan, Requests

\* Time, edits and the end of the session.
LEMMA Surrounded ==
  ASSUME Inv, Surroundings, UNCHANGED cvars
  PROVE  Inv'
<1>1. UNCHANGED <<jobs, host, gateway, sends>>
  BY DEF Surroundings, EndSession, Tick, Edit
<1>2. clock <= clock' /\ clock' \in 0 .. MaxClock
  BY JobsAssumption DEF Surroundings, EndSession, Tick, Edit, Inv, TypeOK
<1>3. WindowIsFixed'
  <2>1. Expired => Expired'
    <3>1. jobs["improve"].receipt.at \in Nat
      BY DEF Inv, TypeOK, Jobs
    <3> QED
      BY <1>1, <1>2, <3>1, JobsAssumption, RunAssumption DEF Expired, ExpiresAt, Inv, TypeOK
  <2> QED
    BY <1>1, <2>1 DEF Inv, WindowIsFixed, State, Succeeded, Decided, cvars
<1>4. JobIsApproved' /\ TriesAgree' /\ JobsAreNew'
  BY <1>1 DEF Inv, JobIsApproved, TriesAgree, JobsAreNew, State, Decided, cvars
<1>5. TypeOK'
  BY <1>1, <1>2, JobsAssumption DEF Inv, TypeOK, Surroundings, EndSession, Tick, Edit, Mishap, cvars
<1> QED
  BY <1>1, <1>3, <1>4, <1>5, SameKeeps DEF Inv

\* What such a step leaves alone.
LEMMA CoreFrame ==
  ASSUME TypeOK, Serve \/ Fails
  PROVE  session' = session /\ clock' = clock /\ mishaps' \in 0 .. MaxMishaps /\ column' \in SUBSET Tags
<1> USE JobsAssumption DEF TypeOK
<1>1. CASE Serve
  BY <1>1 DEF Serve, Claim, Reject, Complete, Read, PostRead, PostAnalyze, Call, Answer, Validate, Consume,
              ReadBefore, Send, Tagged, ReadAfter
<1>2. CASE Fails
  BY <1>2 DEF Fails, ClaimLost, ClaimFails, CompleteFails, WorkFails, Crash, ConsumeFails, SendFails,
              GatewayFails, Tagged, Mishap
<1> QED
  BY <1>1, <1>2

\* A step on Core.
LEMMA CoreStep ==
  ASSUME Inv, Serve \/ Fails, UNCHANGED cvars
  PROVE  Inv'
<1> USE DEF Inv
<1>1. Typed /\ CoreMoves
  BY TypedJobs, CoreSummary
<1>2. session' = session /\ clock' = clock /\ mishaps' \in 0 .. MaxMishaps /\ column' \in SUBSET Tags
  BY CoreFrame
<1>3. HostAgrees' /\ WritesAgree'
  BY <1>1, CoreKeepsHost, CoreKeepsWrites
<1>4. JobsAreNew' /\ WindowIsFixed' /\ JobIsApproved'
  BY <1>1, <1>2, CoreKeepsRun
<1>5. sends' \in Nat
  BY <1>3 DEF WritesAgree
<1>6. /\ jobs' \in [Jobs -> Items] /\ host' \in Locals
      /\ gateway' \in {"none", "called", "valid", "consumed", "send", "sent", "confirmed", "refused"}
  BY <1>1, CoreKeepsTypes DEF TypeOK
<1>7. TypeOK'
  BY <1>2, <1>5, <1>6 DEF TypeOK, Items, Receipts, Locals, Places, cvars
<1> QED
  BY <1>3, <1>4, <1>7 DEF TriesAgree, cvars

\* A step that leaves Core alone, or puts new jobs, keeps the invariant when it
\* keeps what is about the run.
LEMMA RunStep ==
  ASSUME Inv, UNCHANGED <<host, gateway, column, session, clock, sends>>, mishaps' \in 0 .. MaxMishaps,
         jobs' = jobs \/ (\E js \in SUBSET Jobs : Puts(js)),
         mode' \in {"NONE", "READ_ONLY", "GOVERNED"}, markers' \in SUBSET {"IMPROVE", "POST_VERIFY"},
         approval' \in [decision : Decisions, late : BOOLEAN],
         client' \in [Clients -> Asking], record' \in [Records -> Entries],
         JobsAreNew', WindowIsFixed', JobIsApproved', TriesAgree'
  PROVE  Inv'
<1> USE DEF Inv
<1>1. Typed
  BY TypedJobs
<1>2. HostAgrees' /\ WritesAgree'
  BY <1>1, PutKeeps, SameKeeps
<1>3. jobs' \in [Jobs -> Items]
  BY <1>1 DEF Typed, Puts
<1>4. TypeOK'
  BY <1>1, <1>3 DEF TypeOK, Typed, Items, Receipts, Locals, Places, Decisions, Asking, Entries, Stages
<1> QED
  BY <1>2, <1>4

\* A mishap is counted.
LEMMA Counting == ASSUME TypeOK, Mishap PROVE mishaps' \in 0 .. MaxMishaps
BY JobsAssumption DEF TypeOK, Mishap

\* The types of what the run keeps.
LEMMA Given ==
  ASSUME TypeOK
  PROVE  /\ mode \in {"NONE", "READ_ONLY", "GOVERNED"} /\ markers \in SUBSET {"IMPROVE", "POST_VERIFY"}
         /\ approval \in [decision : Decisions, late : BOOLEAN] /\ mishaps \in 0 .. MaxMishaps
BY DEF TypeOK, Decisions

\* A step of a request.
LEMMA RequestStep ==
  ASSUME Inv, NEW c \in Clients, Request(c)
  PROVE  Inv'
<1>1. TypeOK /\ Typed /\ TypedRun /\ JobsAreNew /\ WindowIsFixed /\ JobIsApproved /\ TriesAgree
  BY TypedJobs, TypedRest DEF Inv
<1>2. client \in [Clients -> Asking] /\ record \in [Records -> Entries]
  BY <1>1 DEF TypedRun
<1>3. ASSUME NEW at \in {"start", "improve", "decide"}, Begin(c, at) PROVE Inv'
  <2>1. Turns(c, at, client[c].decision)
    BY <1>2, <1>3, StepTurns DEF Begin
  <2>2. UNCHANGED <<jobs, host, gateway, column, session, clock, mishaps, sends, mode, markers, approval, record>>
    BY <1>3 DEF Begin, jvars
  <2>3. JobsAreNew' /\ WindowIsFixed' /\ JobIsApproved' /\ TriesAgree'
    BY <1>1, <2>1, <2>2
    DEF JobsAreNew, WindowIsFixed, JobIsApproved, TriesAgree, State, Succeeded, Decided, Expired, ExpiresAt, Turns
  <2> QED
    BY <1>1, <1>2, <2>1, <2>2, <2>3, RunStep, Given DEF Turns
<1>4. ASSUME NEW m \in {"READ_ONLY", "GOVERNED"}, Start(c, m) PROVE Inv'
  <2>1. Turns(c, "idle", "none")
    BY <1>2, <1>4, ReturnTurns DEF Start
  <2>2. UNCHANGED <<host, gateway, column, session, clock, mishaps, sends, markers, approval, record>>
    BY <1>4 DEF Start
  <2>3. mode' \in {"NONE", "READ_ONLY", "GOVERNED"}
    BY <1>1, <1>4, Given DEF Start
  <2>4. \/ jobs' = jobs
        \/ \E js \in SUBSET Jobs : Puts(js) /\ "mutation" \notin js /\ "improve" \notin js
    <3> DEFINE js == IF m = "GOVERNED" THEN {"analyze", "read"} ELSE {"analyze"}
    <3>1. js \in SUBSET Jobs /\ "mutation" \notin js /\ "improve" \notin js
      BY DEF Jobs
    <3>2. NoRequest \in Requests
      BY DEF NoRequest, Requests
    <3>3. [j \in js |-> NoRequest] \in [js -> Requests]
      BY <3>2
    <3>4. jobs' = jobs \/ (mode = "NONE" /\ Put([j \in js |-> NoRequest]))
      BY <1>4 DEF Start
    <3>5. mode = "NONE" => Absent(js)
      BY <1>1 DEF JobsAreNew, Absent
    <3> HIDE DEF js
    <3> QED
      BY <1>1, <3>1, <3>3, <3>4, <3>5, PutsNew
  <2>5. jobs'["improve"] = jobs["improve"] /\ jobs'["mutation"] = jobs["mutation"]
    BY <2>4 DEF Puts, Jobs
  <2>7. mode' # "NONE" \/ UNCHANGED <<mode, jobs>>
    BY <1>4 DEF Start
  <2>6. JobsAreNew' /\ WindowIsFixed' /\ JobIsApproved' /\ TriesAgree'
    BY <1>1, <2>1, <2>2, <2>5, <2>7
    DEF JobsAreNew, WindowIsFixed, JobIsApproved, TriesAgree, State, Succeeded, Decided, Expired, ExpiresAt, Turns
  <2> QED
    BY <1>1, <1>2, <2>1, <2>2, <2>3, <2>4, <2>6, RunStep, Given DEF Turns
<1>5. CASE RequestImprove(c)
  <2>1. Turns(c, "idle", "none")
    BY <1>2, <1>5, ReturnTurns DEF RequestImprove
  <2>2. UNCHANGED <<host, gateway, column, session, clock, mishaps, sends, mode, approval, record>>
    BY <1>5 DEF RequestImprove
  <2>3. \/ jobs' = jobs /\ markers' = markers
        \/ Puts({"improve"}) /\ markers' = markers \cup {"IMPROVE"} /\ "IMPROVE" \notin markers
    <3>1. NoRequest \in Requests
      BY DEF NoRequest, Requests
    <3>2. [j \in {"improve"} |-> NoRequest] \in [{"improve"} -> Requests] /\ {"improve"} \in SUBSET Jobs
      BY <3>1 DEF Jobs
    <3>3. "IMPROVE" \notin markers => Absent({"improve"})
      BY <1>1 DEF JobsAreNew, Absent
    <3> QED
      BY <1>1, <1>5, <3>2, <3>3, PutsNew DEF RequestImprove, Improvable
  <2>4. jobs'["mutation"] = jobs["mutation"]
    BY <2>3 DEF Puts, Jobs
  <2>5. WindowIsFixed'
    <3>1. CASE jobs' = jobs /\ markers' = markers
      BY <1>1, <2>1, <2>2, <3>1
      DEF WindowIsFixed, State, Succeeded, Decided, Expired, ExpiresAt, Turns
    <3>2. CASE markers' = markers \cup {"IMPROVE"} /\ "IMPROVE" \notin markers
      BY <1>1, <2>1, <2>2, <3>2 DEF JobsAreNew, WindowIsFixed, State, Succeeded, Decided, Turns
    <3> QED
      BY <2>3, <3>1, <3>2
  <2>8. jobs' = jobs \/ (mode # "NONE" /\ "IMPROVE" \in markers')
    BY <1>5 DEF RequestImprove, Improvable, Prepared
  <2>9. JobsAreNew'
    BY <1>1, <2>2, <2>3, <2>8 DEF JobsAreNew, State
  <2>6. JobsAreNew' /\ JobIsApproved' /\ TriesAgree'
    BY <1>1, <2>2, <2>4, <2>9 DEF JobIsApproved, TriesAgree, State, Decided
  <2>7. {"improve"} \in SUBSET Jobs /\ markers' \in SUBSET {"IMPROVE", "POST_VERIFY"}
    BY <1>1, <2>3, Given DEF Jobs
  <2> QED
    BY <1>1, <1>2, <2>1, <2>2, <2>3, <2>5, <2>6, <2>7, RunStep, Given DEF Turns
<1>6. ASSUME NEW decision \in {"APPROVE", "REJECT"}, CheckDecision(c, decision) PROVE Inv'
  <2>1. Turns(c, "idle", "none") \/ (Decidable /\ Turns(c, "put", decision))
    BY <1>2, <1>6, CheckTurns
  <2>2. UNCHANGED <<jobs, host, gateway, column, session, clock, mishaps, sends, mode, markers, approval, record>>
    BY <1>6 DEF CheckDecision, jvars
  <2>3. WindowIsFixed'
    BY <1>1, <2>1, <2>2
    DEF WindowIsFixed, State, Succeeded, Decided, Expired, ExpiresAt, Turns, Decidable, Planned
  <2>4. JobsAreNew' /\ JobIsApproved' /\ TriesAgree'
    BY <1>1, <2>2 DEF JobsAreNew, JobIsApproved, TriesAgree, State, Decided
  <2> QED
    BY <1>1, <1>2, <2>1, <2>2, <2>3, <2>4, RunStep, Given DEF Turns
<1>7. CASE Decide(c)
  <2>1. Turns(c, "idle", "none")
    BY <1>2, <1>7, ReturnTurns DEF Decide
  <2>2. UNCHANGED <<jobs, host, gateway, column, session, clock, mishaps, sends, mode, markers>>
    BY <1>7 DEF Decide, jvars
  <2>3. CASE Decided
    <3>1. UNCHANGED <<approval, record>>
      BY <1>7, <2>3 DEF Decide
    <3>2. JobsAreNew' /\ WindowIsFixed' /\ JobIsApproved' /\ TriesAgree'
      BY <1>1, <2>1, <2>2, <3>1
      DEF JobsAreNew, WindowIsFixed, JobIsApproved, TriesAgree, State, Succeeded, Decided, Expired, ExpiresAt, Turns
    <3> QED
      BY <1>1, <1>2, <2>1, <2>2, <3>1, <3>2, RunStep, Given DEF Turns
  <2>4. CASE ~Decided
    <3>1. /\ approval' = [decision |-> client[c].decision, late |-> Expired]
          /\ At("approval", "pending") /\ client[c].at = "put"
      BY <1>7, <2>4 DEF Decide, At
    <3>2. client[c].decision \in Decisions /\ client[c].decision # "none" /\ Succeeded("improve")
      BY <1>1, <1>2, <3>1 DEF WindowIsFixed, Asking
    <3>3. /\ approval' \in [decision : Decisions, late : BOOLEAN]
          /\ approval'.decision # "none" /\ (approval'.late => Expired)
      <4>1. Expired \in BOOLEAN
        BY DEF Expired
      <4>2. approval'.decision = client[c].decision /\ approval'.late = Expired
        BY <3>1
      <4> QED
        BY <3>1, <3>2, <4>1, <4>2
    <3>4. Entry("approval", "pending")
      <4>1. "approval" \in Records /\ "pending" \in Stages /\ record["approval"].at # "dead"
        BY <1>1, <2>4 DEF Records, Stages, JobIsApproved
      <4> QED
        BY <1>1, <3>1, <4>1, AtEntry
    <3>5. State("mutation") = "NONE"
      BY <1>1, <2>4 DEF JobIsApproved, Decided
    <3>6. JobsAreNew' /\ WindowIsFixed'
      BY <1>1, <2>1, <2>2, <3>2, <3>3
      DEF JobsAreNew, WindowIsFixed, State, Succeeded, Decided, Expired, ExpiresAt, Turns
    <3>7. JobIsApproved'
      BY <2>2, <3>3, <3>4, <3>5 DEF JobIsApproved, State, Decided, Entry
    <3>8. TriesAgree'
      BY <1>1, <3>4 DEF TriesAgree, Entry
    <3> QED
      BY <1>1, <1>2, <2>1, <2>2, <3>3, <3>4, <3>6, <3>7, <3>8, RunStep, Given DEF Turns, Entry
  <2> QED
    BY <2>3, <2>4
<1>8. CASE Drop(c)
  <2>1. Turns(c, "idle", "none") /\ mishaps' \in 0 .. MaxMishaps
    BY <1>1, <1>2, <1>8, ReturnTurns, Counting DEF Drop
  <2>2. UNCHANGED <<jobs, host, gateway, column, session, clock, sends, mode, markers, approval, record>>
    BY <1>8 DEF Drop
  <2>3. JobsAreNew' /\ WindowIsFixed' /\ JobIsApproved' /\ TriesAgree'
    BY <1>1, <2>1, <2>2
    DEF JobsAreNew, WindowIsFixed, JobIsApproved, TriesAgree, State, Succeeded, Decided, Expired, ExpiresAt, Turns
  <2> QED
    BY <1>1, <1>2, <2>1, <2>2, <2>3, RunStep, Given DEF Turns
<1> QED
  BY <1>3, <1>4, <1>5, <1>6, <1>7, <1>8 DEF Request

\* A step of the stream function.
LEMMA StreamRuns ==
  ASSUME Inv, StreamStep \/ (\E r \in Records : StreamFails(r))
  PROVE  Inv'
<1>1. TypeOK /\ Typed /\ TypedRun /\ JobsAreNew /\ WindowIsFixed /\ JobIsApproved /\ TriesAgree
  BY TypedJobs, TypedRest DEF Inv
<1>2. client \in [Clients -> Asking] /\ record \in [Records -> Entries]
  BY <1>1 DEF TypedRun
<1>3. Stages = {"none", "pending", "read", "done", "dead"} /\ Records = {"approval", "receipt"}
  BY DEF Stages, Records
<1>4. ASSUME NEW r \in Records, NEW at \in Stages, Entry(r, at), r = "approval" => at # "none" /\ Decided,
             r = "approval" /\ at = "read" => approval.decision = "APPROVE",
             UNCHANGED <<jobs, host, gateway, column, session, clock, sends, mode, markers, approval, client>>,
             mishaps' \in 0 .. MaxMishaps
      PROVE  Inv'
  <2>1. JobsAreNew' /\ WindowIsFixed' /\ TriesAgree'
    BY <1>1, <1>4
    DEF JobsAreNew, WindowIsFixed, TriesAgree, State, Succeeded, Decided, Expired, ExpiresAt, Entry
  <2>2. JobIsApproved'
    BY <1>1, <1>3, <1>4 DEF JobIsApproved, State, Decided, Entry
  <2> QED
    BY <1>1, <1>2, <1>4, <2>1, <2>2, RunStep, Given DEF Entry
<1>5. CASE ReadApproved
  <2>1. Decided /\ record["approval"].at # "dead"
    BY <1>1, <1>5 DEF ReadApproved, JobIsApproved
  <2>2. \/ At("approval", "done")
        \/ /\ approval.decision = "APPROVE"
           /\ \E active \in BOOLEAN : record' = [record EXCEPT !["approval"].at = "read",
                                                               !["approval"].active = active]
    <3>1. approval.decision \in Decisions
      BY <1>1, Given
    <3>2. (session = "ACTIVE") \in BOOLEAN
      OBVIOUS
    <3>3. CASE approval.decision = "REJECT"
      BY <1>5, <3>3 DEF ReadApproved
    <3>4. CASE approval.decision # "REJECT"
      <4>1. approval.decision = "APPROVE"
        BY <2>1, <3>1, <3>4 DEF Decided, Decisions
      <4>2. record' = [record EXCEPT !["approval"].at = "read",
                                     !["approval"].active = (session = "ACTIVE")]
        BY <1>5, <3>4 DEF ReadApproved
      <4> QED
        BY <3>2, <4>1, <4>2
    <3> QED
      BY <3>3, <3>4
  <2>3. UNCHANGED <<jobs, host, gateway, column, session, clock, mishaps, sends, mode, markers, approval, client>>
    BY <1>5 DEF ReadApproved, StreamKeeps
  <2>4. mishaps' \in 0 .. MaxMishaps
    BY <1>1, <2>3, Given
  <2>5. Entry("approval", "done") \/ (approval.decision = "APPROVE" /\ Entry("approval", "read"))
    BY <1>1, <1>3, <2>1, <2>2, AtEntry
  <2> QED
    BY <1>3, <1>4, <2>1, <2>3, <2>4, <2>5
<1>6. CASE Dispatch
  <2>1. /\ record["approval"].at = "read" /\ Decided
        /\ approval.decision = "APPROVE"
        /\ UNCHANGED <<host, gateway, column, session, clock, mishaps, sends, mode, markers, approval, client>>
    BY <1>1, <1>6 DEF Dispatch, StreamKeeps, JobIsApproved
  <2>2. mishaps' \in 0 .. MaxMishaps
    BY <1>1, <2>1, Given
  <2>3. CASE jobs' = jobs
    <3>1. At("approval", "done") \/ Throw("approval")
      BY <1>6 DEF Dispatch
    <3>2. Entry("approval", "done") \/ Entry("approval", "pending") \/ Entry("approval", "dead")
      BY <1>1, <1>3, <2>1, <3>1, AtEntry, ThrowEntry
    <3> QED
      BY <1>3, <1>4, <2>1, <2>2, <2>3, <3>2
  <2>4. CASE jobs' # jobs
    <3>1. /\ State("mutation") = "NONE" /\ Issuable /\ At("approval", "done")
          /\ Put([j \in {"mutation"} |-> [Plan EXCEPT !.expires = Deadline]])
      BY <1>6, <2>4 DEF Dispatch
    <3>2. Puts({"mutation"}) /\ {"mutation"} \in SUBSET Jobs /\ Absent({"mutation"})
      <4>1. Deadline \in Nat
        BY <1>1, RunAssumption, JobsAssumption
        DEF Deadline, ExpiresAt, TypeOK, Jobs
      <4> DEFINE new == [j \in {"mutation"} |-> [Plan EXCEPT !.expires = Deadline]]
      <4>2. new \in [{"mutation"} -> Requests] /\ {"mutation"} \in SUBSET Jobs
        BY <1>1, <4>1, PlanIsRequest DEF Jobs
      <4>4. Absent({"mutation"})
        BY <3>1 DEF Absent
      <4> HIDE DEF new
      <4>3. Put(new)
        BY <3>1 DEF new
      <4> QED
        BY <1>1, <4>2, <4>3, <4>4, PutsNew
    <3>3. Entry("approval", "done")
      BY <1>1, <1>3, <2>1, <3>1, AtEntry
    <3>4. ~approval.late
      BY <1>1, <3>1 DEF WindowIsFixed, Issuable
    <3>5. /\ \A j \in {"analyze", "read", "improve"} : jobs'[j] = jobs[j]
          /\ jobs'["mutation"].state = "QUEUED"
      BY <3>2 DEF Puts, Jobs
    <3>6. JobsAreNew' /\ WindowIsFixed' /\ TriesAgree'
      BY <1>1, <2>1, <3>3, <3>5
      DEF JobsAreNew, WindowIsFixed, TriesAgree, State, Succeeded, Decided, Expired, ExpiresAt, Entry
    <3>7. JobIsApproved'
      BY <1>1, <2>1, <3>3, <3>4, <3>5 DEF JobIsApproved, State, Decided, Entry
    <3> QED
      BY <1>1, <1>2, <2>1, <2>2, <3>1, <3>2, <3>3, <3>6, <3>7, RunStep, Given DEF Entry
  <2> QED
    BY <2>3, <2>4
<1>7. CASE Observe \/ ReadReceipt
  <2>1. /\ UNCHANGED <<jobs, host, gateway, column, session, clock, mishaps, sends, mode, markers, approval, client>>
        /\ record["receipt"].at # "dead"
        /\ \/ At("receipt", "pending") \/ At("receipt", "read") \/ Throw("receipt")
    BY <1>7 DEF Observe, ReadReceipt, Announce, StreamKeeps
  <2>2. mishaps' \in 0 .. MaxMishaps
    BY <1>1, <2>1, Given
  <2>3. \E at \in Stages : Entry("receipt", at)
    BY <1>1, <1>3, <2>1, AtEntry, ThrowEntry
  <2> QED
    BY <1>3, <1>4, <2>1, <2>2, <2>3
<1>8. CASE PutVerification
  <2>1. /\ record["receipt"].at = "read" /\ At("receipt", "done")
        /\ UNCHANGED <<host, gateway, column, session, clock, mishaps, sends, mode, approval, client>>
    BY <1>8 DEF PutVerification, StreamKeeps
  <2>2. Entry("receipt", "done") /\ mishaps' \in 0 .. MaxMishaps
    BY <1>1, <1>3, <2>1, AtEntry, Given
  <2>3. PostJobs \in SUBSET Jobs /\ PostJobs \cap {"analyze", "read", "improve", "mutation"} = {}
    BY DEF Jobs, PostJobs
  <2>4. \/ jobs' = jobs /\ markers' = markers
        \/ Puts(PostJobs) /\ markers' = markers \cup {"POST_VERIFY"}
    <3> DEFINE new == [j \in PostJobs |-> Plan]
    <3>1. new \in [PostJobs -> Requests]
      BY <1>1, PlanIsRequest
    <3>2. \/ jobs' = jobs /\ markers' = markers
          \/ Put(new) /\ Absent(PostJobs) /\ markers' = markers \cup {"POST_VERIFY"}
      BY <1>8 DEF PutVerification
    <3> HIDE DEF new
    <3> QED
      BY <1>1, <2>3, <3>1, <3>2, PutsNew
  <2>5. /\ \A j \in {"analyze", "read", "improve", "mutation"} : jobs'[j] = jobs[j]
        /\ markers' \in SUBSET {"IMPROVE", "POST_VERIFY"} /\ markers \subseteq markers'
    <3>1. markers \in SUBSET {"IMPROVE", "POST_VERIFY"}
      BY <1>1, Given
    <3> QED
      BY <2>3, <2>4, <3>1 DEF Puts, Jobs
  <2>6. JobsAreNew' /\ WindowIsFixed' /\ TriesAgree'
    BY <1>1, <2>1, <2>2, <2>5
    DEF JobsAreNew, WindowIsFixed, TriesAgree, State, Succeeded, Decided, Expired, ExpiresAt, Entry
  <2>7. JobIsApproved'
    BY <1>1, <1>3, <2>1, <2>2, <2>5 DEF JobIsApproved, State, Decided, Entry
  <2> QED
    BY <1>1, <1>2, <2>1, <2>2, <2>3, <2>4, <2>5, <2>6, <2>7, RunStep, Given DEF Entry
<1>9. ASSUME NEW r \in Records, StreamFails(r) PROVE Inv'
  <2>1. /\ record[r].at \in {"read", "done"} /\ Throw(r)
        /\ UNCHANGED <<jobs, host, gateway, column, session, clock, sends, mode, markers, approval, client>>
        /\ mishaps' \in 0 .. MaxMishaps
    BY <1>1, <1>9, Counting DEF StreamFails
  <2>2. Entry(r, "pending") \/ Entry(r, "dead")
    BY <1>1, <2>1, ThrowEntry
  <2>3. r = "approval" => Decided
    BY <1>1, <2>1 DEF JobIsApproved
  <2> QED
    BY <1>3, <1>4, <2>1, <2>2, <2>3
<1> QED
  BY <1>5, <1>6, <1>7, <1>8, <1>9 DEF StreamStep

\* The invariant holds at first.
LEMMA InitInv == Init => Inv
<1> SUFFICES ASSUME Init PROVE Inv
  OBVIOUS
<1> USE JobsAssumption, RunAssumption
<1>1. NoItem \in Items /\ NoItem.state = "NONE"
  BY DEF NoItem, Items, NoReceipt, Receipts, NoRequest, Requests
<1>2. AtRest \in Locals /\ AtRest.at = "idle"
  BY DEF AtRest, Locals, Places
<1>3. Waiting \in Asking /\ Waiting.at = "idle" /\ NoRecord \in Entries /\ NoRecord.at = "none"
      /\ NoRecord.tries = 0
  BY DEF Waiting, Asking, Decisions, NoRecord, Entries, Stages
<1>4. NoApproval \in [decision : Decisions, late : BOOLEAN] /\ NoApproval.decision = "none"
      /\ NoApproval.late = FALSE
  BY DEF NoApproval, Decisions
<1>5. jobs \in [Jobs -> Items] /\ host \in Locals /\ client \in [Clients -> Asking]
      /\ record \in [Records -> Entries]
  BY <1>1, <1>2, <1>3 DEF Init, JobsInit
<1>6. TypeOK
  BY <1>4, <1>5 DEF Init, JobsInit, TypeOK, Items, Receipts, Locals, Places, Asking, Entries, Stages, Decisions
<1>7. HostAgrees
  BY <1>2 DEF Init, JobsInit, HostAgrees, Busy
<1>8. WritesAgree
  BY <1>1, <1>2 DEF Init, JobsInit, WritesAgree, Succeeded, State, Jobs
<1>9. JobsAreNew /\ WindowIsFixed /\ JobIsApproved /\ TriesAgree
  BY <1>1, <1>3, <1>4
  DEF Init, JobsInit, JobsAreNew, WindowIsFixed, JobIsApproved, TriesAgree, State, Decided, Jobs, Records
<1> QED
  BY <1>6, <1>7, <1>8, <1>9 DEF Inv

\* Every step keeps it.
LEMMA NextInv == Inv /\ [Next]_vars => Inv'
<1> SUFFICES ASSUME Inv, [Next]_vars PROVE Inv'
  OBVIOUS
<1>1. CASE Next
  BY <1>1, CoreStep, Surrounded, RequestStep, StreamRuns DEF Next, Work
<1>2. CASE UNCHANGED vars
  <2>1. UNCHANGED <<jobs, host, gateway, sends, column, session, clock, mishaps, mode, markers, approval, client, record>>
    BY <1>2 DEF vars, jvars, cvars
  <2> QED
    BY <2>1 DEF Inv, TypeOK, HostAgrees, Busy, WritesAgree, JobsAreNew, WindowIsFixed, JobIsApproved,
                TriesAgree, State, Succeeded, Decided, Expired, ExpiresAt
<1> QED
  BY <1>1, <1>2

\* The inductive invariant, from which the others follow.
THEOREM Invariant == Spec => []Inv
BY InitInv, NextInv, PTL DEF Spec

\* Every variable keeps its type.
THEOREM TypeCorrect == Spec => []TypeOK
<1>1. Inv => TypeOK
  BY DEF Inv
<1> QED
  BY <1>1, Invariant, PTL

\* Every step leaves alone what is settled: on Core by the conditions of the
\* updates, elsewhere because what is put was not there.
LEMMA NextSettles == Inv /\ [Next]_vars => \A j \in Jobs : Settled(j)
<1> SUFFICES ASSUME Inv, [Next]_vars PROVE \A j \in Jobs : Settled(j)
  OBVIOUS
<1>1. CASE Serve \/ Fails
  BY <1>1, TypedJobs, CoreSummary, CoreSettles DEF Inv
<1>2. ASSUME NEW js \in SUBSET Jobs, NEW new \in [js -> Requests], Put(new), Absent(js)
      PROVE  \A j \in Jobs : Settled(j)
  BY <1>2, TypedJobs, PutsNew, PutSettles DEF Inv
<1>3. CASE jobs' = jobs
  BY <1>3, SameSettles
<1>4. ASSUME NEW c \in Clients, NEW m \in {"READ_ONLY", "GOVERNED"}, Start(c, m), mode = "NONE"
      PROVE  \A j \in Jobs : Settled(j)
  <2> DEFINE js == IF m = "GOVERNED" THEN {"analyze", "read"} ELSE {"analyze"}
  <2>1. NoRequest \in Requests
    BY DEF NoRequest, Requests
  <2>2. js \in SUBSET Jobs /\ Absent(js)
    BY <1>4 DEF Jobs, Absent, Inv, JobsAreNew
  <2>3. Put([j \in js |-> NoRequest]) /\ [j \in js |-> NoRequest] \in [js -> Requests]
    BY <1>4, <2>1 DEF Start
  <2> HIDE DEF js
  <2> QED
    BY <1>2, <2>2, <2>3
<1>5. ASSUME NEW c \in Clients, RequestImprove(c), Improvable
      PROVE  \A j \in Jobs : Settled(j)
  <2>1. NoRequest \in Requests
    BY DEF NoRequest, Requests
  <2>2. {"improve"} \in SUBSET Jobs /\ Absent({"improve"})
    BY <1>5 DEF Jobs, Absent, Inv, JobsAreNew, Improvable
  <2>3. /\ Put([j \in {"improve"} |-> NoRequest])
        /\ [j \in {"improve"} |-> NoRequest] \in [{"improve"} -> Requests]
    BY <1>5, <2>1 DEF RequestImprove
  <2> QED
    BY <1>2, <2>2, <2>3
<1>6. CASE Dispatch /\ jobs' # jobs
  <2> DEFINE new == [j \in {"mutation"} |-> [Plan EXCEPT !.expires = Deadline]]
  <2>1. Deadline \in Nat
    BY RunAssumption, JobsAssumption DEF Deadline, ExpiresAt, Inv, TypeOK, Jobs
  <2>2. new \in [{"mutation"} -> Requests]
    BY <2>1, TypedJobs, PlanIsRequest DEF Inv
  <2>3. Put(new) /\ {"mutation"} \in SUBSET Jobs /\ Absent({"mutation"})
    BY <1>6 DEF Dispatch, Jobs, Absent
  <2> HIDE DEF new
  <2> QED
    BY <1>2, <2>2, <2>3
<1>7. CASE PutVerification /\ jobs' # jobs
  <2> DEFINE new == [j \in PostJobs |-> Plan]
  <2>1. new \in [PostJobs -> Requests]
    BY TypedJobs, PlanIsRequest DEF Inv
  <2>2. Put(new) /\ PostJobs \in SUBSET Jobs /\ Absent(PostJobs)
    BY <1>7 DEF PutVerification, Jobs, PostJobs
  <2> HIDE DEF new
  <2> QED
    BY <1>2, <2>1, <2>2
<1>8. CASE Next
  <2>1. CASE Work
    BY <1>1, <1>3, <2>1 DEF Work, Surroundings, EndSession, Tick, Edit
  <2>2. ASSUME NEW c \in Clients, Request(c) PROVE \A j \in Jobs : Settled(j)
    BY <1>3, <1>4, <1>5, <2>2
    DEF Request, Begin, Start, RequestImprove, CheckDecision, Decide, Drop, jvars
  <2>3. CASE StreamStep \/ \E r \in Records : StreamFails(r)
    BY <1>3, <1>6, <1>7, <2>3 DEF StreamStep, ReadApproved, Dispatch, Observe, ReadReceipt, PutVerification, StreamFails
  <2> QED
    BY <1>8, <2>1, <2>2, <2>3 DEF Next
<1>9. CASE UNCHANGED vars
  BY <1>3, <1>9 DEF vars, jvars
<1> QED
  BY <1>8, <1>9

\* A job that ended stays as it ended, whoever still works for it (_complete,
\* _reject_invalid, _consume).
THEOREM EndedStays == Spec => EndedIsFinal
<1>1. Inv /\ [Next]_vars => [\A j \in Jobs : Ended(j) => jobs'[j] = jobs[j]]_vars
  BY NextSettles DEF Settled
<1> QED
  BY <1>1, Invariant, PTL DEF Spec, EndedIsFinal

\* An approval that was stored after its window never leads to a mutation job
\* (decide, processApprovalEnvelope).
THEOREM LateApprovals == Spec => []LateApprovalIsInert
<1>1. Inv => LateApprovalIsInert
  BY DEF Inv, JobIsApproved, LateApprovalIsInert
<1> QED
  BY <1>1, Invariant, PTL

\* At most one tag change of a run reaches DataHub, and only under an approval
\* that was given in time (_consume, processApprovalEnvelope).
THEOREM Authorization == Spec => []WritesAreAuthorized
<1>1. Inv => WritesAreAuthorized
  <2> SUFFICES ASSUME Inv PROVE WritesAreAuthorized
    OBVIOUS
  <2>1. sends <= 1
    BY DEF Inv, WritesAgree
  <2>2. ASSUME sends > 0 PROVE approval = [decision |-> "APPROVE", late |-> FALSE]
    <3>1. approval.decision = "APPROVE" /\ ~approval.late
      <4>1. State("mutation") # "NONE"
        BY <2>2 DEF Inv, WritesAgree
      <4> QED
        BY <4>1 DEF Inv, JobIsApproved
    <3>2. approval \in [decision : Decisions, late : BOOLEAN]
      BY Given DEF Inv
    <3> QED
      BY <3>1, <3>2
  <2> QED
    BY <2>1, <2>2 DEF WritesAreAuthorized
<1> QED
  BY <1>1, Invariant, PTL

\* A mutation that is reported as carried out was sent, and a complete run rests on
\* one (_governed_mutation, _execute of the gateway, status).
THEOREM EarnedReceipts == Spec => []ReceiptsAreEarned
<1>1. Inv => ReceiptsAreEarned
  <2> SUFFICES ASSUME Inv PROVE ReceiptsAreEarned
    OBVIOUS
  <2>1. ASSUME mode = "GOVERNED", Status = "SUCCEEDED" PROVE Succeeded("mutation")
    <3>1. Governed = "SUCCEEDED"
      BY <2>1 DEF Status, Await
    <3>2. Approval = "SUCCEEDED"
      BY <3>1 DEF Governed, Await
    <3>3. approval.decision = "APPROVE" /\ Await("APPLYING_GOVERNED_WRITE", {"mutation"}, Verification) = "SUCCEEDED"
      <4>1. approval.decision \in Decisions
        BY Given DEF Inv
      <4> QED
        BY <3>2, <4>1 DEF Approval, Decisions
    <3>4. State("mutation") \notin {"NONE", "QUEUED", "RUNNING", "FAILED"}
      BY <3>3 DEF Await, Failed
    <3> QED
      BY <3>4 DEF Inv, TypeOK, Succeeded, State, Jobs
  <2> QED
    BY <2>1 DEF Inv, WritesAgree, ReceiptsAreEarned
<1> QED
  BY <1>1, Invariant, PTL

\* What is written or queued to be written rests on one approval that was given
\* in time (processApprovalEnvelope, _consume).
THEOREM OneApproval == Spec => []WriteIsApproved
<1>1. WritesAreAuthorized /\ LateApprovalIsInert => WriteIsApproved
  BY DEF WriteIsApproved
<1> QED
  BY <1>1, Authorization, LateApprovals, PTL

-----------------------------------------------------------------------------
(* The status: it moves as RunStatus says, which is what JudgePage assumes *)

\* Up to its receipt a job counts as queued.
Open(j) == State(j) \in {"NONE", "QUEUED", "RUNNING"}

\* Each stage of a run rests on the one before.
StagesAgree ==
  /\ "IMPROVE" \in markers => mode = "GOVERNED" /\ Succeeded("analyze") /\ Succeeded("read")
  /\ record["receipt"].at # "none" => Succeeded("mutation")
  /\ "POST_VERIFY" \in markers => Succeeded("mutation")

\* With the stages, what is inductive.
RunInv == Inv /\ StagesAgree

-----------------------------------------------------------------------------
(* The status, one stage at a time *)

\* After the improvement, and after the write.
Improving == Await("IMPROVING_CONTEXT", {"improve"}, Approval)
Applying == Await("APPLYING_GOVERNED_WRITE", {"mutation"}, Verification)

\* The status by the stages that are closed and the markers that are set.
Analysis ==
  /\ mode = "NONE" => Status = "NONE"
  /\ mode # "NONE" /\ Open("analyze") => Status = "ANALYZING"
  /\ mode # "NONE" /\ Failed("analyze") => Status = "FAILED"
  /\ mode = "READ_ONLY" /\ Succeeded("analyze") => Status = "SUCCEEDED"
  /\ mode = "GOVERNED" /\ Succeeded("analyze") => Status = Governed

Reading ==
  /\ Open("read") => Governed = "READING_GOVERNED_STATE"
  /\ Failed("read") => Governed = "FAILED"
  /\ Succeeded("read") /\ "IMPROVE" \notin markers => Governed = "AWAITING_IMPROVEMENT"
  /\ Succeeded("read") /\ "IMPROVE" \in markers => Governed = Improving

Deciding ==
  /\ Open("improve") => Improving = "IMPROVING_CONTEXT"
  /\ Failed("improve") => Improving = "FAILED"
  /\ Succeeded("improve") => Improving = Approval
  /\ ~Decided => Approval = IF Expired THEN "EXPIRED" ELSE "AWAITING_APPROVAL"
  /\ approval.decision = "REJECT" => Approval = "REJECTED"
  /\ approval.decision = "APPROVE" => Approval = Applying

Writes ==
  /\ Open("mutation") => Applying = "APPLYING_GOVERNED_WRITE"
  /\ Failed("mutation") => Applying = "FAILED"
  /\ Succeeded("mutation") => Applying = Verification
  /\ "POST_VERIFY" \notin markers => Verification = "VERIFYING_CONTEXT_DELTA"
  /\ "POST_VERIFY" \in markers /\ (\E j \in PostJobs : Open(j)) =>
       Verification = "VERIFYING_CONTEXT_DELTA"
  /\ "POST_VERIFY" \in markers /\ (\A j \in PostJobs : ~Open(j)) =>
       Verification = IF \E j \in PostJobs : Failed(j) THEN "FAILED"
                      ELSE IF ContextDelta THEN "SUCCEEDED" ELSE "ERROR"

Stepwise == Analysis /\ Reading /\ Deciding /\ Writes

\* The status is what the stages say, now
LEMMA StatusIsStepwise == Stepwise
<1>1. Analysis
  BY DEF Analysis, Status, Await, Open, Failed, Succeeded
<1>2. Reading
  BY DEF Reading, Governed, Await, Open, Failed, Succeeded, Improving
<1>3. Deciding
  BY DEF Deciding, Improving, Approval, Await, Open, Failed, Succeeded, Applying, Decided
<1>4. Writes
  BY DEF Writes, Applying, Verification, Await, Open, Failed, Succeeded
<1> QED
  BY <1>1, <1>2, <1>3, <1>4 DEF Stepwise

\* and after any step.
LEMMA StatusStaysStepwise == Stepwise'
BY StatusIsStepwise, PTL

\* The types the stages need: a job is open, carried out or failed.
LEMMA Closing ==
  ASSUME TypeOK
  PROVE  /\ \A j \in Jobs : Open(j) \/ Succeeded(j) \/ Failed(j)
         /\ mode \in {"NONE", "READ_ONLY", "GOVERNED"}
         /\ approval.decision \in {"none", "APPROVE", "REJECT"}
         /\ clock \in Nat
BY JobsAssumption DEF TypeOK, Open, Succeeded, Failed, State

-----------------------------------------------------------------------------
(* Steps that ask for nothing *)

\* What StatusFollows says of a step.
Follows ==
  Status' # Status =>
    \/ <<Status, Status'>> \in OnItsOwn
    \/ <<Status, Status'>> \in ByRequest /\ (mode' # mode \/ markers' # markers \/ approval' # approval)

\* Nothing was asked for.
Unasked == UNCHANGED <<mode, markers, approval>>

\* Stages are left in one direction, and the window opens when the improvement
\* closes and closes once.
Onwards ==
  /\ \A j \in Jobs : Settled(j)
  /\ Open("improve") /\ Succeeded("improve")' => ~Expired'
  /\ Expired /\ Succeeded("improve") => Expired'

\* A step that asks for nothing moves the status on its own, or not at all.
LEMMA Advance ==
  ASSUME RunInv, TypeOK', Unasked, Onwards
  PROVE  Follows
<1>0. Stepwise /\ Stepwise'
  BY StatusIsStepwise, StatusStaysStepwise
<1>1. /\ \A j \in Jobs : Open(j) \/ Succeeded(j) \/ Failed(j)
      /\ mode \in {"NONE", "READ_ONLY", "GOVERNED"}
      /\ approval.decision \in {"none", "APPROVE", "REJECT"}
  BY Closing DEF RunInv, Inv
<1>2. \A j \in Jobs : Open(j)' \/ Succeeded(j)' \/ Failed(j)'
  <2>1. \A j \in Jobs : jobs'[j].state \in {"NONE", "QUEUED", "RUNNING", "SUCCEEDED", "FAILED"}
    BY DEF TypeOK
  <2> QED
    BY <2>1 DEF Open, Succeeded, Failed, State
<1>3. \A j \in Jobs : /\ Succeeded(j) => Succeeded(j)' /\ jobs'[j].receipt = jobs[j].receipt
                      /\ Failed(j) => Failed(j)'
  BY DEF Onwards, Settled, Succeeded, Failed, State, Ended
<1>4. /\ "analyze" \in Jobs /\ "read" \in Jobs /\ "improve" \in Jobs /\ "mutation" \in Jobs
      /\ "postRead" \in Jobs /\ "postAnalyze" \in Jobs /\ PostJobs = {"postRead", "postAnalyze"}
  BY DEF Jobs, PostJobs
<1>5. UNCHANGED <<mode, markers, approval>> /\ (Decided' <=> Decided)
  BY DEF Unasked, Decided
<1>6. /\ "IMPROVE" \in markers => mode = "GOVERNED" /\ Succeeded("analyze") /\ Succeeded("read")
      /\ "POST_VERIFY" \in markers => Succeeded("mutation")
      /\ Decided => Succeeded("improve")
      /\ Succeeded("improve") => "IMPROVE" \in markers
  BY DEF RunInv, StagesAgree, Inv, WindowIsFixed, JobsAreNew, Succeeded, State
<1> USE DEF Follows, OnItsOwn
<1>7. CASE mode = "NONE"
  BY <1>0, <1>5, <1>7 DEF Stepwise, Analysis
<1>8. CASE mode # "NONE" /\ Failed("analyze")
  BY <1>0, <1>3, <1>4, <1>5, <1>8 DEF Stepwise, Analysis
<1>9. CASE mode # "NONE" /\ Open("analyze")
  <2>1. "IMPROVE" \notin markers /\ Status = "ANALYZING"
    BY <1>0, <1>6, <1>9 DEF Stepwise, Analysis, Open, Succeeded
  <2>2. Status' \in {"ANALYZING", "FAILED", "SUCCEEDED"} \/ Status' = Governed'
    BY <1>0, <1>1, <1>2, <1>4, <1>5, <1>9 DEF Stepwise, Analysis
  <2>3. Governed' \in {"READING_GOVERNED_STATE", "FAILED", "AWAITING_IMPROVEMENT"}
    BY <1>0, <1>2, <1>4, <1>5, <2>1 DEF Stepwise, Reading
  <2> QED
    BY <2>1, <2>2, <2>3
<1>10. CASE mode = "READ_ONLY" /\ Succeeded("analyze")
  BY <1>0, <1>3, <1>4, <1>5, <1>10 DEF Stepwise, Analysis
<1>11. CASE mode = "GOVERNED" /\ Succeeded("analyze")
  <2>1. Status = Governed /\ Status' = Governed'
    BY <1>0, <1>3, <1>4, <1>5, <1>11 DEF Stepwise, Analysis
  <2>2. CASE Failed("read")
    BY <1>0, <1>3, <1>4, <2>1, <2>2 DEF Stepwise, Reading
  <2>3. CASE Open("read")
    <3>1. "IMPROVE" \notin markers /\ Governed = "READING_GOVERNED_STATE"
      BY <1>0, <1>6, <2>3 DEF Stepwise, Reading, Open, Succeeded
    <3>2. Governed' \in {"READING_GOVERNED_STATE", "FAILED", "AWAITING_IMPROVEMENT"}
      BY <1>0, <1>2, <1>4, <1>5, <3>1 DEF Stepwise, Reading
    <3> QED
      BY <2>1, <3>1, <3>2
  <2>4. CASE Succeeded("read") /\ "IMPROVE" \notin markers
    BY <1>0, <1>3, <1>4, <1>5, <2>1, <2>4 DEF Stepwise, Reading
  <2>5. CASE Succeeded("read") /\ "IMPROVE" \in markers
    <3>1. Status = Improving /\ Status' = Improving'
      BY <1>0, <1>3, <1>4, <1>5, <2>1, <2>5 DEF Stepwise, Reading
    <3>2. CASE Failed("improve")
      BY <1>0, <1>3, <1>4, <3>1, <3>2 DEF Stepwise, Deciding
    <3>3. CASE Open("improve")
      <4>1. Improving = "IMPROVING_CONTEXT" /\ ~Decided'
        BY <1>0, <1>5, <1>6, <3>3 DEF Stepwise, Deciding, Open, Succeeded
      <4>2. Improving' \in {"IMPROVING_CONTEXT", "FAILED"} \/ (Succeeded("improve")' /\ Improving' = Approval')
        BY <1>0, <1>2, <1>4 DEF Stepwise, Deciding
      <4>3. Succeeded("improve")' => Approval' = "AWAITING_APPROVAL"
        BY <1>0, <3>3, <4>1 DEF Stepwise, Deciding, Onwards
      <4> QED
        BY <3>1, <4>1, <4>2, <4>3
    <3>4. CASE Succeeded("improve")
      <4>1. Status = Approval /\ Status' = Approval'
        BY <1>0, <1>3, <1>4, <3>1, <3>4 DEF Stepwise, Deciding
      <4>2. CASE ~Decided
        <5>1. /\ Approval = IF Expired THEN "EXPIRED" ELSE "AWAITING_APPROVAL"
              /\ Approval' = IF Expired' THEN "EXPIRED" ELSE "AWAITING_APPROVAL"
          BY <1>0, <1>5, <4>2 DEF Stepwise, Deciding
        <5>2. Expired => Expired'
          BY <3>4 DEF Onwards
        <5> QED
          BY <4>1, <5>1, <5>2
      <4>3. CASE approval.decision = "REJECT"
        BY <1>0, <1>5, <4>1, <4>3 DEF Stepwise, Deciding
      <4>4. CASE approval.decision = "APPROVE"
        <5>1. Status = Applying /\ Status' = Applying'
          BY <1>0, <1>5, <4>1, <4>4 DEF Stepwise, Deciding
        <5>2. CASE Failed("mutation")
          BY <1>0, <1>3, <1>4, <5>1, <5>2 DEF Stepwise, Writes
        <5>3. CASE Open("mutation")
          <6>1. "POST_VERIFY" \notin markers /\ Applying = "APPLYING_GOVERNED_WRITE"
            BY <1>0, <1>6, <5>3 DEF Stepwise, Writes, Open, Succeeded
          <6>2. Applying' \in {"APPLYING_GOVERNED_WRITE", "FAILED", "VERIFYING_CONTEXT_DELTA"}
            BY <1>0, <1>2, <1>4, <1>5, <6>1 DEF Stepwise, Writes
          <6> QED
            BY <5>1, <6>1, <6>2
        <5>4. CASE Succeeded("mutation")
          <6>1. Status = Verification /\ Status' = Verification'
            BY <1>0, <1>3, <1>4, <5>1, <5>4 DEF Stepwise, Writes
          <6>2. CASE "POST_VERIFY" \notin markers
            BY <1>0, <1>5, <6>1, <6>2 DEF Stepwise, Writes
          <6>3. CASE "POST_VERIFY" \in markers /\ \E j \in PostJobs : Open(j)
            <7>1. Verification = "VERIFYING_CONTEXT_DELTA"
              BY <1>0, <6>3 DEF Stepwise, Writes
            <7>2. Verification' \in {"VERIFYING_CONTEXT_DELTA", "FAILED", "SUCCEEDED", "ERROR"}
              BY <1>0, <1>5, <6>3 DEF Stepwise, Writes
            <7> QED
              BY <6>1, <7>1, <7>2
          <6>4. CASE "POST_VERIFY" \in markers /\ \A j \in PostJobs : ~Open(j)
            <7>1. \A j \in PostJobs : (Failed(j) <=> Failed(j)') /\ ~Open(j)' /\ jobs'[j].receipt = jobs[j].receipt
              BY <1>1, <1>3, <1>4, <6>4 DEF Onwards, Settled, Open, Succeeded, Failed, State, Ended
            <7>2. ContextDelta' <=> ContextDelta
              BY <1>3, <1>4, <1>11, <2>5, <7>1 DEF ContextDelta, After, Before
            <7> QED
              BY <1>0, <1>5, <6>1, <6>4, <7>1, <7>2 DEF Stepwise, Writes
          <6> QED
            BY <6>2, <6>3, <6>4
        <5> QED
          BY <1>1, <1>4, <5>2, <5>3, <5>4
      <4> QED
        BY <1>1, <4>2, <4>3, <4>4 DEF Decided
    <3> QED
      BY <1>1, <1>4, <3>2, <3>3, <3>4
  <2> QED
    BY <1>1, <1>4, <2>2, <2>3, <2>4, <2>5
<1> QED
  BY <1>1, <1>4, <1>7, <1>8, <1>9, <1>10, <1>11

\* A job that closes dates its receipt.
LEMMA CoreDates ==
  ASSUME Typed, HostAgrees, CoreMoves, Open("improve"), Succeeded("improve")'
  PROVE  jobs'["improve"].receipt.at = clock
<1> USE DEF Open, Succeeded, State, Jobs
<1>1. CASE Claims \/ Rejects
  BY <1>1 DEF Claims, Rejects, Item
<1>2. CASE Ends
  BY <1>2 DEF Ends, Item, Dated, HostAgrees, Busy
<1>3. CASE Leaves \/ GoesOn \/ Calls \/ Passes \/ Sends
  BY <1>3 DEF Leaves, GoesOn, Calls, Passes, Sends
<1>4. CASE Consumes
  BY <1>4 DEF Consumes, Item
<1> QED
  BY <1>1, <1>2, <1>3, <1>4 DEF CoreMoves

\* A step on Core.
LEMMA CoreOnwards ==
  ASSUME Inv, Serve \/ Fails
  PROVE  Onwards
<1>1. Typed /\ HostAgrees /\ CoreMoves
  BY TypedJobs, CoreSummary DEF Inv
<1>2. clock' = clock /\ clock \in Nat
  BY CoreFrame, Closing DEF Inv
<1>3. \A j \in Jobs : Settled(j)
  BY <1>1, CoreSettles
<1>4. Open("improve") /\ Succeeded("improve")' => ~Expired'
  BY <1>1, <1>2, CoreDates, RunAssumption DEF Expired, ExpiresAt
<1>5. Expired /\ Succeeded("improve") => Expired'
  BY <1>2, <1>3 DEF Expired, ExpiresAt, Settled, Succeeded, State, Jobs, Ended
<1> QED
  BY <1>3, <1>4, <1>5 DEF Onwards

\* A step that leaves the closed jobs, and the one of the improvement, as they are.
LEMMA QuietOnwards ==
  ASSUME Inv, jobs'["improve"] = jobs["improve"], clock <= clock', clock' \in Nat,
         \A j \in Jobs : Settled(j)
  PROVE  Onwards
<1>1. jobs["improve"].receipt.at \in Nat /\ clock \in Nat
  BY JobsAssumption DEF Inv, TypeOK, Jobs
<1>2. Expired => Expired'
  BY <1>1, RunAssumption DEF Expired, ExpiresAt
<1> QED
  BY <1>2 DEF Onwards, Open, Succeeded, State

-----------------------------------------------------------------------------
(* Every step *)

\* A request, when it is not a step of the first kind.
LEMMA Asked ==
  ASSUME RunInv, NEW c \in Clients, Request(c), Inv'
  PROVE  Follows
<1>0. Stepwise /\ Stepwise' /\ TypeOK /\ TypeOK' /\ clock \in Nat
  BY StatusIsStepwise, StatusStaysStepwise, Closing DEF RunInv, Inv
<1>1. CASE UNCHANGED <<jobs, clock, mode, markers, approval>>
  BY <1>0, <1>1, Advance, QuietOnwards, SameSettles DEF Unasked, RunInv
<1>2. ASSUME NEW m \in {"READ_ONLY", "GOVERNED"}, Start(c, m),
             ~UNCHANGED <<jobs, clock, mode, markers, approval>>
      PROVE  Follows
  <2>1. mode = "NONE" /\ mode' = m /\ Put([j \in IF m = "GOVERNED" THEN {"analyze", "read"} ELSE {"analyze"}
                       |-> NoRequest])
    BY <1>2 DEF Start
  <2>2. Open("analyze")'
    BY <2>1 DEF Put, Jobs, Open, State, Queued, NoItem
  <2>3. Status = "NONE" /\ Status' = "ANALYZING"
    BY <1>0, <2>1, <2>2 DEF Stepwise, Analysis
  <2> QED
    BY <2>1, <2>3 DEF Follows, ByRequest
<1>3. ASSUME RequestImprove(c), ~UNCHANGED <<jobs, clock, mode, markers, approval>>
      PROVE  Follows
  <2>1. /\ Prepared /\ "IMPROVE" \notin markers /\ markers' = markers \cup {"IMPROVE"}
        /\ Put([j \in {"improve"} |-> NoRequest]) /\ mode' = mode
    BY <1>3 DEF RequestImprove, Improvable
  <2>2. /\ mode = "GOVERNED" /\ Succeeded("analyze") /\ Succeeded("read")
        /\ Succeeded("analyze")' /\ Succeeded("read")' /\ Open("improve")'
    BY <2>1 DEF Prepared, Analysed, Put, Jobs, Open, Succeeded, State, Queued, NoItem
  <2>3. Status = "AWAITING_IMPROVEMENT" /\ Status' = "IMPROVING_CONTEXT"
    BY <1>0, <2>1, <2>2 DEF Stepwise, Analysis, Reading, Deciding
  <2> QED
    BY <2>1, <2>3 DEF Follows, ByRequest
<1>4. ASSUME Decide(c), ~UNCHANGED <<jobs, clock, mode, markers, approval>>
      PROVE  Follows
  <2>1. /\ ~Decided /\ client[c].at = "put" /\ UNCHANGED <<jobs, clock, mode, markers>>
        /\ approval' = [decision |-> client[c].decision, late |-> Expired]
    BY <1>4 DEF Decide, jvars
  <2>2. Succeeded("improve") /\ client[c].decision \in {"APPROVE", "REJECT"}
    <3>1. client[c].decision \in {"none", "APPROVE", "REJECT"}
      BY <1>0 DEF TypeOK
    <3> QED
      BY <2>1, <3>1 DEF RunInv, Inv, WindowIsFixed
  <2>3. "IMPROVE" \in markers /\ mode = "GOVERNED" /\ Succeeded("analyze") /\ Succeeded("read")
    BY <2>2 DEF RunInv, Inv, JobsAreNew, StagesAgree, Succeeded, State
  <2>4. State("mutation") = "NONE"
    BY <2>1 DEF RunInv, Inv, JobIsApproved, Decided
  <2>5. /\ Succeeded("analyze")' /\ Succeeded("read")' /\ Succeeded("improve")' /\ Open("mutation")'
        /\ approval'.decision = client[c].decision
    BY <2>1, <2>2, <2>3, <2>4 DEF Succeeded, Open, State
  <2>6. Status = Approval /\ Status' = Approval' /\ Applying' = "APPLYING_GOVERNED_WRITE"
    BY <1>0, <2>1, <2>2, <2>3, <2>5 DEF Stepwise, Analysis, Reading, Deciding, Writes
  <2>7. Approval \in {"EXPIRED", "AWAITING_APPROVAL"} /\ Approval' \in {"REJECTED", "APPLYING_GOVERNED_WRITE"}
    BY <1>0, <2>1, <2>2, <2>5, <2>6 DEF Stepwise, Deciding
  <2>8. approval' # approval
    BY <2>1, <2>2, <2>5 DEF Decided
  <2> QED
    BY <2>6, <2>7, <2>8 DEF Follows, ByRequest
<1> QED
  BY <1>1, <1>2, <1>3, <1>4
  DEF Request, Begin, CheckDecision, Drop, jvars

\* The stream function.
LEMMA Streamed ==
  ASSUME RunInv, StreamStep \/ (\E r \in Records : StreamFails(r)), Inv'
  PROVE  Follows
<1>0. Stepwise /\ Stepwise' /\ TypeOK /\ TypeOK' /\ clock \in Nat
  BY StatusIsStepwise, StatusStaysStepwise, Closing DEF RunInv, Inv
<1>1. CASE UNCHANGED <<jobs, clock, mode, markers, approval>>
  BY <1>0, <1>1, Advance, QuietOnwards, SameSettles DEF Unasked, RunInv
<1>2. ASSUME Dispatch, jobs' # jobs PROVE Follows
  <2>1. /\ State("mutation") = "NONE" /\ UNCHANGED <<clock, mode, markers, approval>>
        /\ Put([j \in {"mutation"} |-> [Plan EXCEPT !.expires = Deadline]])
    BY <1>2 DEF Dispatch, StreamKeeps
  <2>3. jobs'["improve"] = jobs["improve"] /\ \A j \in Jobs : Settled(j)
    BY <2>1 DEF Put, Queued, NoItem, Settled, State, Ended, Jobs
  <2> QED
    BY <1>0, <2>1, <2>3, Advance, QuietOnwards DEF Unasked, RunInv
<1>3. ASSUME PutVerification, ~UNCHANGED <<jobs, clock, mode, markers, approval>> PROVE Follows
  <2>1. /\ "POST_VERIFY" \notin markers /\ markers' = markers \cup {"POST_VERIFY"}
        /\ UNCHANGED <<clock, mode, approval>> /\ Put([j \in PostJobs |-> Plan])
        /\ record["receipt"].at = "read"
    BY <1>3 DEF PutVerification, StreamKeeps
  <2>2. Succeeded("mutation")
    BY <2>1 DEF RunInv, StagesAgree
  <2>3. approval.decision = "APPROVE" /\ Succeeded("improve")
    BY <2>2 DEF RunInv, Inv, JobIsApproved, WindowIsFixed, Succeeded, Decided
  <2>4. "IMPROVE" \in markers /\ mode = "GOVERNED" /\ Succeeded("analyze") /\ Succeeded("read")
    BY <2>3 DEF RunInv, Inv, JobsAreNew, StagesAgree, Succeeded, State
  <2>5. /\ Succeeded("analyze")' /\ Succeeded("read")' /\ Succeeded("improve")' /\ Succeeded("mutation")'
        /\ \E j \in PostJobs : Open(j)'
    BY <2>1, <2>2, <2>3, <2>4 DEF Put, PostJobs, Jobs, Succeeded, Open, State, Queued, NoItem
  <2>6. Status = Verification /\ Status' = Verification'
    BY <1>0, <2>1, <2>2, <2>3, <2>4, <2>5 DEF Stepwise, Analysis, Reading, Deciding, Writes
  <2>7. Verification = "VERIFYING_CONTEXT_DELTA" /\ Verification' = "VERIFYING_CONTEXT_DELTA"
    BY <1>0, <2>1, <2>5 DEF Stepwise, Writes
  <2> QED
    BY <2>6, <2>7 DEF Follows
<1> QED
  BY <1>1, <1>2, <1>3
  DEF StreamStep, ReadApproved, Dispatch, Observe, ReadReceipt, PutVerification, StreamFails, StreamKeeps

\* A step on Core, and of what surrounds it.
LEMMA Worked ==
  ASSUME RunInv, Work, Inv'
  PROVE  Follows
<1>0. TypeOK' /\ Unasked
  BY DEF Inv, Work, Unasked, cvars
<1>1. CASE Serve \/ Fails
  BY <1>0, <1>1, CoreOnwards, Advance DEF RunInv
<1>2. CASE Surroundings
  <2>1. jobs' = jobs /\ clock \in Nat /\ clock <= clock' /\ clock' \in Nat
    <3>1. clock \in Nat
      BY Closing DEF RunInv, Inv
    <3> QED
      BY <1>2, <3>1 DEF Surroundings, EndSession, Tick, Edit
  <2> QED
    BY <1>0, <2>1, QuietOnwards, SameSettles, Advance DEF RunInv
<1> QED
  BY <1>1, <1>2 DEF Work

-----------------------------------------------------------------------------
(* The stages stay apart *)

\* What was carried out stays so.
LEMMA StaysSucceeded ==
  ASSUME NEW j \in Jobs, Settled(j), Succeeded(j)
  PROVE  Succeeded(j)'
BY DEF Settled, Succeeded, State, Ended

\* A step that leaves the markers alone and undoes nothing.
LEMMA StagesStay ==
  ASSUME StagesAgree, \A j \in Jobs : Settled(j), mode' = mode, markers' = markers,
         record'["receipt"].at # "none" => record["receipt"].at # "none" \/ Succeeded("mutation")
  PROVE  StagesAgree'
<1>1. "analyze" \in Jobs /\ "read" \in Jobs /\ "mutation" \in Jobs
  BY DEF Jobs
<1> QED
  BY <1>1, StaysSucceeded DEF StagesAgree

\* Work on the jobs.
LEMMA WorkStages ==
  ASSUME RunInv, Work
  PROVE  StagesAgree'
<1>0. UNCHANGED <<mode, markers, record>>
  BY DEF Work, cvars
<1>1. CASE Serve \/ Fails
  <2>1. Typed /\ HostAgrees /\ CoreMoves
    BY <1>1, TypedJobs, CoreSummary DEF RunInv, Inv
  <2> QED
    BY <1>0, <2>1, CoreSettles, StagesStay DEF RunInv
<1>2. CASE Surroundings
  <2>1. jobs' = jobs
    BY <1>2 DEF Surroundings, EndSession, Tick, Edit
  <2> QED
    BY <1>0, <2>1, SameSettles, StagesStay DEF RunInv
<1> QED
  BY <1>1, <1>2 DEF Work

\* Requests.
LEMMA RequestStages ==
  ASSUME RunInv, NEW c \in Clients, Request(c)
  PROVE  StagesAgree'
<1>0. record \in [Records -> Entries] /\ "approval" \in Records /\ "receipt" \in Records
  BY TypedRest DEF RunInv, Inv, TypedRun, Records
<1>1. CASE UNCHANGED <<jobs, mode, markers>> /\ record'["receipt"] = record["receipt"]
  BY <1>1, SameSettles, StagesStay DEF RunInv
<1>2. ASSUME NEW m \in {"READ_ONLY", "GOVERNED"}, Start(c, m), mode = "NONE"
      PROVE  StagesAgree'
  <2>1. "IMPROVE" \notin markers
    BY <1>2 DEF RunInv, StagesAgree
  <2>2. Put([j \in IF m = "GOVERNED" THEN {"analyze", "read"} ELSE {"analyze"} |-> NoRequest])
    BY <1>2 DEF Start
  <2>3. jobs'["mutation"] = jobs["mutation"]
    BY <2>2 DEF Put, Jobs
  <2> QED
    BY <1>2, <2>1, <2>3 DEF RunInv, StagesAgree, Succeeded, State, Start
<1>3. ASSUME RequestImprove(c), Improvable
      PROVE  StagesAgree'
  <2>1. /\ Prepared /\ Put([j \in {"improve"} |-> NoRequest])
        /\ UNCHANGED <<mode, record>> /\ markers' = markers \cup {"IMPROVE"}
    BY <1>3 DEF RequestImprove, Improvable
  <2>2. \A j \in {"analyze", "read", "mutation"} : jobs'[j] = jobs[j]
    BY <2>1 DEF Put, Jobs
  <2> QED
    BY <2>1, <2>2 DEF RunInv, StagesAgree, Succeeded, State, Prepared, Analysed
<1>4. ASSUME Decide(c) PROVE StagesAgree'
  <2>1. UNCHANGED <<jobs, mode, markers>> /\ record'["receipt"] = record["receipt"]
    BY <1>0, <1>4 DEF Decide, jvars
  <2> QED
    BY <1>1, <2>1
<1> QED
  BY <1>1, <1>2, <1>3, <1>4
  DEF Request, Begin, Start, RequestImprove, CheckDecision, Drop, jvars

\* The stream function.
LEMMA StreamStages ==
  ASSUME RunInv, StreamStep \/ (\E r \in Records : StreamFails(r))
  PROVE  StagesAgree'
<1>0. record \in [Records -> Entries] /\ "approval" \in Records /\ "receipt" \in Records
  BY TypedRest DEF RunInv, Inv, TypedRun, Records
<1>1. CASE UNCHANGED <<jobs, mode, markers>> /\ (record'["receipt"].at # "none" =>
                    record["receipt"].at # "none" \/ Succeeded("mutation"))
  BY <1>1, SameSettles, StagesStay DEF RunInv
<1>2. ASSUME Dispatch, State("mutation") = "NONE", jobs' # jobs PROVE StagesAgree'
  <2>1. /\ UNCHANGED <<mode, markers>> /\ record'["receipt"].at = record["receipt"].at
        /\ Put([j \in {"mutation"} |-> [Plan EXCEPT !.expires = Deadline]])
    BY <1>0, <1>2 DEF Dispatch, StreamKeeps, At
  <2>2. /\ \A j \in {"analyze", "read"} : jobs'[j] = jobs[j]
        /\ jobs'["mutation"].state = "QUEUED"
    BY <2>1 DEF Put, Jobs, Queued, NoItem
  <2> QED
    BY <1>2, <2>1, <2>2 DEF RunInv, StagesAgree, Succeeded, State
<1>3. ASSUME PutVerification, ~UNCHANGED <<jobs, markers>> PROVE StagesAgree'
  <2>1. /\ record["receipt"].at = "read" /\ Put([j \in PostJobs |-> Plan]) /\ mode' = mode
        /\ markers' = markers \cup {"POST_VERIFY"}
    BY <1>3 DEF PutVerification, StreamKeeps
  <2>2. \A j \in {"analyze", "read", "mutation"} : jobs'[j] = jobs[j]
    BY <2>1 DEF Put, Jobs, PostJobs
  <2> QED
    BY <2>1, <2>2 DEF RunInv, StagesAgree, Succeeded, State
<1>4. record'["receipt"].at # "none" => record["receipt"].at # "none" \/ Succeeded("mutation")
  BY DEF StreamStep, ReadApproved, Dispatch, Observe, ReadReceipt, PutVerification, StreamFails, At, Throw,
         Announce, Records, RunInv, Inv, TypeOK
<1> QED
  BY <1>1, <1>2, <1>3, <1>4
  DEF StreamStep, ReadApproved, Dispatch, Observe, ReadReceipt, PutVerification, StreamFails, StreamKeeps

-----------------------------------------------------------------------------
(* Theorems *)

\* The stages and the status along every step.
LEMMA RunNext ==
  ASSUME RunInv, [Next]_vars
  PROVE  RunInv' /\ Follows
<1>1. Inv'
  BY NextInv DEF RunInv
<1>2. CASE Next
  <2>1. StagesAgree'
    BY <1>2, WorkStages, RequestStages, StreamStages DEF Next
  <2>2. Follows
    BY <1>1, <1>2, Worked, Asked, Streamed DEF Next
  <2> QED
    BY <1>1, <2>1, <2>2 DEF RunInv
<1>3. CASE UNCHANGED vars
  <2>1. UNCHANGED <<jobs, clock, mode, markers, approval, record>>
    BY <1>3 DEF vars, jvars, cvars
  <2>2. StagesAgree'
    BY <2>1 DEF RunInv, StagesAgree, Succeeded, State
  <2>3. TypeOK' /\ clock \in Nat
    BY <1>1, Closing DEF RunInv, Inv
  <2>4. Follows
    BY <2>1, <2>3, SameSettles, QuietOnwards, Advance DEF Unasked, RunInv
  <2> QED
    BY <1>1, <2>2, <2>4 DEF RunInv
<1> QED
  BY <1>2, <1>3

\* The stages of a run are apart: the write follows the improvement, which follows
\* the first read, and the verification follows the write (requestImprove,
\* processApprovalEnvelope, processMutationReceipt).
THEOREM Staged == Spec => []RunInv
<1>1. Init => RunInv
  <2> SUFFICES ASSUME Init PROVE RunInv
    OBVIOUS
  <2>1. StagesAgree
    BY DEF Init, JobsInit, StagesAgree, State, Jobs, NoItem, NoRecord, Records
  <2> QED
    BY <2>1, InitInv DEF RunInv
<1> QED
  BY <1>1, RunNext, PTL DEF Spec

\* The status never goes back, never leaves an outcome, and passes the judge only
\* with the judge's request (status).
THEOREM StatusMoves == Spec => StatusFollows
<1>1. RunInv /\ [Next]_vars => [(Status' # Status) =>
       \/ <<Status, Status'>> \in OnItsOwn
       \/ /\ <<Status, Status'>> \in ByRequest
          /\ mode' # mode \/ markers' # markers \/ approval' # approval]_vars
  BY RunNext DEF Follows
<1> QED
  BY <1>1, Staged, PTL DEF Spec, StatusFollows
=============================================================================
