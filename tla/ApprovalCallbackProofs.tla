----------------------- MODULE ApprovalCallbackProofs -----------------------
(***************************************************************************)
(* Theorems about ApprovalCallback, for any number of messages, approvers  *)
(* and concurrent runs of both lambdas, and any window and lease; and      *)
(* about the plan that is put to them (AuditRun), for any harvest and any   *)
(* tags.                                                                   *)
(***************************************************************************)
EXTENDS ApprovalCallback, AuditRun, WellFoundedInduction, TLAPS

\* The item is a proper one.
ItemOK ==
  /\ row \in Rows
  /\ row.status = "DECIDED" <=> row.by # Nobody
  /\ row.status = "ABSENT" <=> row.token = Nobody
  /\ ~(row.delivered /\ row.closed)
  /\ row.delivered \/ row.closed => row.status = "DECIDED"

\* The tasks and what they were given are well typed.
TasksOK ==
  /\ task \in [Messages -> {"OPEN", "SUCCEEDED", "FAILED", "TIMED_OUT"}]
  /\ output \in [Messages -> Deciders \cup {Nobody}]

\* The decision of the item and the end of a task are never taken back.
Keeps ==
  /\ row.status = "DECIDED" =>
       row'.status = "DECIDED" /\ row'.by = row.by /\ row'.token = row.token
  /\ \A m \in Messages : task[m] # "OPEN" => task'[m] = task[m] /\ output'[m] = output[m]

\* The attempt of a run is on the item only where it was, and nobody else closed it.
KeepsAttempt(r) == row'.attempt = r => row.attempt = r /\ row'.closed = row.closed

-----------------------------------------------------------------------------
(* Steps of the runs *)

\* The invariant gives its parts.
LEMMA Parts ==
  ASSUME IInv
  PROVE  /\ TypeOK /\ ItemOK /\ TasksOK /\ DecisionStands
         /\ \A r \in Requests : Stands(r) /\ rjob[r] \in Job /\ rpc[r] \in RPCs
  BY DEF IInv, TypeOK, ItemOK, TasksOK

\* A run finds what it relies on still standing after a step of others.
LEMMA OthersStand ==
  ASSUME IInv, Keeps, NEW r \in Requests, KeepsAttempt(r),
         rpc'[r] = rpc[r], rjob'[r] = rjob[r]
  PROVE  Stands(r)'
<1>1. ItemOK /\ Stands(r) /\ rjob[r] \in Job
  BY Parts
<1>2. rpc[r] \in Delivering => rjob[r].token \in Messages
  BY <1>1 DEF ItemOK, Stands, Job
<1>3. {"deliver", "close"} \subseteq Delivering
  BY DEF Delivering
<1>4. QED
  BY <1>1, <1>2, <1>3 DEF Stands, Keeps, KeepsAttempt

\* A step of one approval run.
LEMMA RunStep ==
  ASSUME IInv, NEW r \in Requests, NEW next \in RPCs, NEW new \in Job,
         rpc' = [rpc EXCEPT ![r] = next], rjob' = [rjob EXCEPT ![r] = new],
         Stands(r)', Keeps, \A q \in Requests \ {r} : KeepsAttempt(q),
         ItemOK', TasksOK', DecisionStands', told' \subseteq Deciders,
         mishaps' \in 0 .. MaxMishaps, UNCHANGED <<now, handoffs>>
  PROVE  IInv'
<1>1. TypeOK
  BY Parts
<1>2. /\ rpc' \in [Requests -> RPCs] /\ rjob' \in [Requests -> Job]
      /\ \A q \in Requests \ {r} : rpc'[q] = rpc[q] /\ rjob'[q] = rjob[q]
  BY <1>1 DEF TypeOK
<1>3. TypeOK'
  BY <1>1, <1>2 DEF TypeOK, ItemOK, TasksOK, handoffs
<1>4. \A q \in Requests : Stands(q)'
  BY <1>2, OthersStand
<1>5. \A h \in Handoffs : hpc'[h] # "idle" => hjob'[h] \in Messages
  BY DEF IInv, handoffs
<1>6. QED
  BY <1>3, <1>4, <1>5 DEF IInv, ItemOK

\* A step of one approval run that leaves item and tasks alone, and tells at most its
\* own decision, when that is the recorded one.
LEMMA QuietStep ==
  ASSUME IInv, NEW r \in Requests, NEW next \in RPCs, NEW new \in Job,
         rpc' = [rpc EXCEPT ![r] = next], rjob' = [rjob EXCEPT ![r] = new],
         Stands(r)', UNCHANGED <<now, row, task, output, handoffs>>,
         \/ told' = told
         \/ told' = told \cup {rjob[r].who} /\ row.by = rjob[r].who /\ rpc[r] # "idle",
         mishaps' \in 0 .. MaxMishaps
  PROVE  IInv'
<1>1. TypeOK /\ ItemOK /\ TasksOK /\ DecisionStands /\ Stands(r)
  BY Parts
<1>2. Keeps /\ (\A q \in Requests \ {r} : KeepsAttempt(q)) /\ ItemOK' /\ TasksOK'
  BY <1>1 DEF Keeps, KeepsAttempt, ItemOK, TasksOK
<1>3. told' \subseteq Deciders /\ \A d \in told' : row.status = "DECIDED" /\ row.by = d
  BY <1>1, NobodyAssumption DEF TypeOK, DecisionStands, ToldIsRecorded, ItemOK, Stands
<1>4. DecisionStands'
  BY <1>1, <1>3 DEF DecisionStands, DecidedInWindow, ToldIsRecorded, TaskGotTheDecision,
     ConclusionIsReal
<1>5. QED
  BY <1>2, <1>3, <1>4, RunStep

\* The types of what a run moves between.
LEMMA Moves ==
  /\ NoJob \in Job /\ Nobody \notin Deciders
  /\ RPCs = {"idle", "read", "decide", "reread", "lease", "send", "deliver", "close"}
  /\ Delivering = {"lease", "send", "deliver", "close"}
  BY ApprovalAssumption, NobodyAssumption DEF NoJob, Job, RPCs, Delivering, Times

\* A run ends, told that its decision is recorded only when it is.
LEMMA AnswerStep ==
  ASSUME IInv, NEW r \in Requests, NEW recorded \in BOOLEAN, Answer(r, recorded),
         rpc[r] # "idle", recorded => row.by = rjob[r].who,
         mishaps' \in 0 .. MaxMishaps, UNCHANGED <<now, row, task, output, handoffs>>
  PROVE  IInv'
<1>1. /\ rpc' = [rpc EXCEPT ![r] = "idle"] /\ rjob' = [rjob EXCEPT ![r] = NoJob]
      /\ told' = told \/ (recorded /\ told' = told \cup {rjob[r].who})
  BY DEF Answer
<1>2. TypeOK
  BY Parts
<1>3. rpc'[r] = "idle"
  BY <1>1, <1>2 DEF TypeOK
<1>4. Stands(r)'
  BY <1>3, Moves DEF Stands
<1>5. QED
  BY <1>1, <1>4, Moves, QuietStep

\* What a run makes of the item it read.
LEMMA CheckStep ==
  ASSUME IInv, NEW r \in Requests, Check(r), rpc[r] \in {"read", "reread"},
         UNCHANGED <<now, row, task, output, mishaps, handoffs>>
  PROVE  IInv'
<1>1. TypeOK /\ ItemOK /\ Stands(r) /\ rjob[r] \in Job
  BY Parts
<1>2. mishaps' \in 0 .. MaxMishaps
  BY <1>1 DEF TypeOK
<1>3. CASE Answer(r, FALSE)
  BY <1>2, <1>3, AnswerStep
<1>4. CASE row.by = rjob[r].who /\ Answer(r, TRUE)
  BY <1>2, <1>4, AnswerStep
<1>5. CASE /\ row.by = rjob[r].who /\ rpc' = [rpc EXCEPT ![r] = "lease"]
           /\ rjob' = [rjob EXCEPT ![r].token = row.token] /\ UNCHANGED told
  <2> DEFINE new == [rjob[r] EXCEPT !.token = row.token]
  <2>1. row.token \in Messages \cup {Nobody} /\ row.status = "DECIDED"
    BY <1>1, <1>5, Moves DEF ItemOK, Stands, Rows
  <2>2. new \in Job /\ new.who = rjob[r].who /\ new.token = row.token
    BY <1>1, <2>1 DEF Job
  <2>3. rjob' = [rjob EXCEPT ![r] = new]
    BY <1>5
  <2> HIDE DEF new
  <2>4. rpc'[r] = "lease" /\ rjob'[r] = new
    BY <1>1, <1>5, <2>3 DEF TypeOK
  <2>5. Stands(r)'
    BY <1>1, <1>5, <2>1, <2>2, <2>4 DEF Stands
  <2>6. QED
    BY <1>2, <1>5, <2>2, <2>3, <2>5, Moves, QuietStep
<1>6. QED
  BY <1>3, <1>4, <1>5 DEF Check, OwnDecision

\* A run goes on with the same locals.
LEMMA GotoStep ==
  ASSUME IInv, NEW r \in Requests, NEW next \in RPCs, RGoto(r, next), Stands(r)',
         UNCHANGED <<now, row, task, output, mishaps, handoffs>>
  PROVE  IInv'
<1>1. TypeOK /\ rjob[r] \in Job
  BY Parts
<1>2. rjob' = [rjob EXCEPT ![r] = rjob[r]] /\ mishaps' \in 0 .. MaxMishaps
  BY <1>1 DEF RGoto, TypeOK
<1>3. QED
  BY <1>1, <1>2, QuietStep DEF RGoto

\* Where a run that goes on is then.
LEMMA Moved ==
  ASSUME IInv, NEW r \in Requests, NEW next, RGoto(r, next)
  PROVE  rpc'[r] = next /\ rjob'[r] = rjob[r] /\ rjob' = [rjob EXCEPT ![r] = rjob[r]]
<1>1. TypeOK
  BY Parts
<1>2. QED
  BY <1>1 DEF RGoto, TypeOK

-----------------------------------------------------------------------------
(* The actions of the approval lambda *)

LEMMA StartStep ==
  ASSUME IInv, NEW r \in Requests, NEW d \in Deciders, Start(r, d)
  PROVE  IInv'
<1> DEFINE new == [who |-> d, at |-> now, token |-> Nobody]
<1>1. TypeOK
  BY Parts
<1>2. new \in Job /\ new.who = d /\ mishaps' \in 0 .. MaxMishaps
  BY <1>1, ApprovalAssumption DEF Job, TypeOK, Times, Start
<1>3. /\ rpc' = [rpc EXCEPT ![r] = "read"] /\ rjob' = [rjob EXCEPT ![r] = new]
      /\ UNCHANGED <<now, row, task, output, handoffs, told>>
  BY DEF Start
<1> HIDE DEF new
<1>4. rpc'[r] = "read" /\ rjob'[r] = new
  BY <1>1, <1>3 DEF TypeOK
<1>5. Stands(r)'
  BY <1>2, <1>4, Moves DEF Stands
<1>6. QED
  BY <1>2, <1>3, <1>5, Moves, QuietStep

LEMMA ReadStep ==
  ASSUME IInv, NEW r \in Requests, Read(r)
  PROVE  IInv'
<1>1. /\ rpc[r] = "read" /\ UNCHANGED <<now, row, task, output, mishaps, handoffs>>
      /\ TypeOK /\ ItemOK /\ Stands(r) /\ rjob[r] \in Job
  BY Parts DEF Read
<1>2. CASE Answer(r, FALSE)
  BY <1>1, <1>2, AnswerStep DEF TypeOK
<1>3. CASE ~(Expiry <= rjob[r].at) /\ RGoto(r, "decide")
  <2>1. rjob[r].at < Expiry
    BY <1>1, <1>3, ApprovalAssumption DEF Job, Times
  <2>2. rpc'[r] = "decide" /\ rjob'[r] = rjob[r]
    BY <1>3, Moved
  <2>3. Stands(r)'
    BY <1>1, <2>1, <2>2, Moves DEF Stands
  <2>4. QED
    BY <1>1, <1>3, <2>3, Moves, GotoStep
<1>4. CASE Check(r)
  BY <1>1, <1>4, CheckStep
<1>5. row.status \in {"ABSENT", "PENDING", "DECIDED"}
  BY <1>1 DEF ItemOK, Rows
<1>6. QED
  BY <1>2, <1>3, <1>4, <1>5 DEF Read

LEMMA DecideStep ==
  ASSUME IInv, NEW r \in Requests, Decide(r)
  PROVE  IInv'
<1>1. /\ rpc[r] = "decide" /\ RGoto(r, "reread") /\ UNCHANGED <<now, task, output, mishaps, handoffs>>
      /\ TypeOK /\ ItemOK /\ TasksOK /\ DecisionStands /\ Stands(r) /\ rjob[r] \in Job
  BY Parts DEF Decide
<1>2. rpc'[r] = "reread" /\ rjob'[r] = rjob[r] /\ rjob' = [rjob EXCEPT ![r] = rjob[r]]
  BY <1>1, Moved
<1>3. Stands(r)'
  BY <1>1, <1>2, Moves DEF Stands
<1>4. CASE row.status # "PENDING"
  BY <1>1, <1>3, <1>4, Moves, GotoStep DEF Decide, Undecided
<1>5. CASE row.status = "PENDING"
  <2>1. /\ row' = [row EXCEPT !.status = "DECIDED", !.by = rjob[r].who, !.decidedAt = rjob[r].at]
        /\ rjob[r].who \in Deciders /\ rjob[r].at < Expiry /\ rjob[r].at \in Times
    BY <1>1, <1>5 DEF Decide, Undecided, Stands, Job
  <2>2. /\ row' \in Rows /\ row'.status = "DECIDED" /\ row'.by = rjob[r].who
        /\ row'.decidedAt = rjob[r].at /\ row'.token = row.token
        /\ row'.attempt = row.attempt /\ row'.closed = row.closed /\ row'.delivered = row.delivered
    BY <1>1, <2>1 DEF ItemOK, Rows
  <2>3. ItemOK' /\ TasksOK' /\ Keeps /\ \A q \in Requests : KeepsAttempt(q)
    BY <1>1, <1>5, <2>1, <2>2, Moves DEF ItemOK, TasksOK, Keeps, KeepsAttempt
  <2>4. DecisionStands'
    BY <1>1, <1>5, <2>1, <2>2 DEF DecisionStands, DecidedInWindow, ToldIsRecorded,
       TaskGotTheDecision, ConclusionIsReal, ItemOK, RGoto
  <2>5. told' \subseteq Deciders /\ mishaps' \in 0 .. MaxMishaps
    BY <1>1 DEF RGoto, TypeOK
  <2>6. QED
    BY <1>1, <1>2, <1>3, <2>3, <2>4, <2>5, Moves, RunStep DEF RGoto
<1>6. QED
  BY <1>4, <1>5

LEMMA TakeLeaseStep ==
  ASSUME IInv, NEW r \in Requests, TakeLease(r)
  PROVE  IInv'
<1> DEFINE leased == row' = [row EXCEPT !.attempt = r, !.leaseUntil = rjob[r].at + Lease]
<1>1. /\ rpc[r] = "lease" /\ UNCHANGED <<now, task, output, handoffs>>
      /\ TypeOK /\ ItemOK /\ TasksOK /\ DecisionStands /\ Stands(r) /\ rjob[r] \in Job
      /\ rjob[r].who \in Deciders /\ row.status = "DECIDED" /\ row.by = rjob[r].who
      /\ row.token = rjob[r].token
  BY Parts, Moves DEF TakeLease, Stands
<1>2. CASE Answer(r, TRUE) /\ UNCHANGED <<row, mishaps>>
  BY <1>1, <1>2, AnswerStep DEF TypeOK
<1>3. ASSUME leased
      PROVE  /\ ItemOK' /\ TasksOK' /\ Keeps /\ (\A q \in Requests \ {r} : KeepsAttempt(q))
             /\ row'.status = "DECIDED" /\ row'.by = row.by /\ row'.token = row.token
             /\ row'.decidedAt = row.decidedAt /\ row'.delivered = row.delivered
             /\ row'.closed = row.closed
  <2>1. rjob[r].at + Lease \in 0 .. MaxTime + Lease
    BY <1>1, ApprovalAssumption DEF Job, Times
  <2>2. /\ row' \in Rows /\ row'.attempt = r
        /\ row'.status = "DECIDED" /\ row'.by = row.by /\ row'.token = row.token
        /\ row'.decidedAt = row.decidedAt /\ row'.delivered = row.delivered
        /\ row'.closed = row.closed
    BY <1>1, <1>3, <2>1 DEF ItemOK, Rows
  <2>3. QED
    BY <1>1, <2>2 DEF ItemOK, TasksOK, Keeps, KeepsAttempt
<1>4. ASSUME leased, told' \subseteq told \cup {rjob[r].who}
      PROVE  DecisionStands' /\ told' \subseteq Deciders
  BY <1>1, <1>3, <1>4 DEF DecisionStands, DecidedInWindow, ToldIsRecorded, TaskGotTheDecision,
     ConclusionIsReal, TypeOK
<1>5. CASE leased /\ RGoto(r, "send") /\ UNCHANGED mishaps
  <2>1. rpc'[r] = "send" /\ rjob'[r] = rjob[r] /\ rjob' = [rjob EXCEPT ![r] = rjob[r]]
    BY <1>5, Moved
  <2>2. Stands(r)'
    BY <1>1, <1>3, <1>5, <2>1, Moves DEF Stands
  <2>3. told' \subseteq told \cup {rjob[r].who} /\ mishaps' \in 0 .. MaxMishaps
    BY <1>1, <1>5 DEF RGoto, TypeOK
  <2>4. QED
    BY <1>1, <1>3, <1>4, <1>5, <2>1, <2>2, <2>3, Moves, RunStep DEF RGoto
<1>6. CASE leased /\ Mishap /\ Answer(r, TRUE)
  <2>1. /\ rpc' = [rpc EXCEPT ![r] = "idle"] /\ rjob' = [rjob EXCEPT ![r] = NoJob]
        /\ rpc'[r] = "idle" /\ told' \subseteq told \cup {rjob[r].who}
    BY <1>1, <1>6 DEF Answer, TypeOK
  <2>2. Stands(r)'
    BY <2>1, Moves DEF Stands
  <2>3. mishaps' \in 0 .. MaxMishaps
    BY <1>1, <1>6, ApprovalAssumption DEF Mishap, TypeOK
  <2>4. QED
    BY <1>1, <1>3, <1>4, <1>6, <2>1, <2>2, <2>3, Moves, RunStep
<1>7. QED
  BY <1>2, <1>5, <1>6 DEF TakeLease

LEMMA SendStep ==
  ASSUME IInv, NEW r \in Requests, Send(r)
  PROVE  IInv'
<1> DEFINE m == rjob[r].token
<1>1. /\ rpc[r] = "send" /\ UNCHANGED <<now, row, mishaps, handoffs>>
      /\ TypeOK /\ ItemOK /\ TasksOK /\ DecisionStands /\ Stands(r) /\ rjob[r] \in Job
      /\ rjob[r].who \in Deciders /\ row.status = "DECIDED" /\ row.by = rjob[r].who
      /\ row.token = m
  BY Parts, Moves DEF Send, Stands
<1>2. m \in Messages
  BY <1>1 DEF ItemOK, Job
<1>3. CASE task[m] # "OPEN" /\ RGoto(r, "close") /\ UNCHANGED <<task, output>>
  <2>1. rpc'[r] = "close" /\ rjob'[r] = rjob[r]
    BY <1>3, Moved
  <2>2. Stands(r)'
    BY <1>1, <1>3, <2>1, Moves DEF Stands
  <2>3. QED
    BY <1>1, <1>3, <2>2, Moves, GotoStep
<1>4. CASE /\ task[m] = "OPEN" /\ task' = [task EXCEPT ![m] = "SUCCEEDED"]
           /\ output' = [output EXCEPT ![m] = rjob[r].who] /\ RGoto(r, "deliver")
  <2>1. rpc'[r] = "deliver" /\ rjob'[r] = rjob[r] /\ rjob' = [rjob EXCEPT ![r] = rjob[r]]
    BY <1>4, Moved
  <2>2. /\ task'[m] = "SUCCEEDED" /\ output'[m] = rjob[r].who /\ TasksOK'
        /\ \A n \in Messages \ {m} : task'[n] = task[n] /\ output'[n] = output[n]
    BY <1>1, <1>2, <1>4 DEF TasksOK
  <2>3. ~row.closed /\ ~row.delivered
    BY <1>1, <1>4 DEF DecisionStands, ConclusionIsReal
  <2>4. Stands(r)'
    BY <1>1, <2>1, <2>2, <2>3, Moves DEF Stands
  <2>5. ItemOK' /\ Keeps /\ \A q \in Requests : KeepsAttempt(q)
    BY <1>1, <1>4, <2>2 DEF ItemOK, Keeps, KeepsAttempt
  <2>6. DecisionStands'
    BY <1>1, <1>4, <2>2, <2>3 DEF DecisionStands, DecidedInWindow, ToldIsRecorded,
       TaskGotTheDecision, ConclusionIsReal, RGoto
  <2>7. told' \subseteq Deciders /\ mishaps' \in 0 .. MaxMishaps
    BY <1>1, <1>4 DEF RGoto, TypeOK
  <2>8. QED
    BY <1>1, <1>4, <2>1, <2>2, <2>4, <2>5, <2>6, <2>7, Moves, RunStep DEF RGoto
<1>5. QED
  BY <1>3, <1>4 DEF Send

\* The concluding updates: they take effect for the run that holds the lease only.
LEMMA ConcludeStep ==
  ASSUME IInv, NEW r \in Requests, Deliver(r) \/ Close(r)
  PROVE  IInv'
<1>1. /\ rpc[r] \in {"deliver", "close"} /\ UNCHANGED <<now, task, output, mishaps, handoffs>>
      /\ TypeOK /\ ItemOK /\ TasksOK /\ DecisionStands /\ Stands(r) /\ rjob[r] \in Job
      /\ rjob[r].who \in Deciders /\ row.status = "DECIDED" /\ row.by = rjob[r].who
      /\ row.token = rjob[r].token /\ Answer(r, OwnAttempt(r))
  BY Parts, Moves DEF Deliver, Close, Stands
<1>2. OwnAttempt(r) \in BOOLEAN
  BY DEF OwnAttempt
<1>3. mishaps' \in 0 .. MaxMishaps
  BY <1>1 DEF TypeOK
<1>4. CASE ~OwnAttempt(r)
  <2>1. UNCHANGED row /\ Answer(r, FALSE)
    BY <1>1, <1>4 DEF Deliver, Close, Answer
  <2>2. QED
    BY <1>1, <1>3, <2>1, AnswerStep
<1>5. CASE OwnAttempt(r)
  <2>1. row.attempt = r /\ ~row.delivered
    BY <1>5 DEF OwnAttempt
  <2>2. /\ row' \in Rows /\ row'.attempt = r
        /\ row'.status = "DECIDED" /\ row'.by = row.by /\ row'.token = row.token
        /\ row'.decidedAt = row.decidedAt
        /\ \/ /\ row'.delivered /\ row'.closed = row.closed /\ ~row.closed
              /\ task[row.token] = "SUCCEEDED" /\ output[row.token] = row.by
           \/ /\ row'.closed /\ row'.delivered = row.delivered /\ task[row.token] # "OPEN"
    <3>1. 0 \in 0 .. MaxTime + Lease /\ row \in Rows
      BY <1>1, ApprovalAssumption DEF ItemOK
    <3>2. CASE Deliver(r)
      <4>1. row' = [row EXCEPT !.delivered = TRUE, !.leaseUntil = 0] /\ rpc[r] = "deliver"
        BY <1>5, <3>2 DEF Deliver
      <4>2. ~row.closed /\ task[row.token] = "SUCCEEDED" /\ output[row.token] = row.by
        BY <1>1, <2>1, <4>1 DEF Stands
      <4>3. QED
        BY <1>1, <2>1, <3>1, <4>1, <4>2 DEF Rows
    <3>3. CASE Close(r)
      <4>1. row' = [row EXCEPT !.closed = TRUE, !.leaseUntil = 0] /\ rpc[r] = "close"
        BY <1>5, <3>3 DEF Close
      <4>2. task[row.token] # "OPEN"
        BY <1>1, <4>1 DEF Stands
      <4>3. QED
        BY <1>1, <2>1, <3>1, <4>1, <4>2 DEF Rows
    <3>4. QED
      BY <3>2, <3>3
  <2>3. /\ ItemOK' /\ TasksOK' /\ Keeps /\ \A q \in Requests \ {r} : KeepsAttempt(q)
    BY <1>1, <2>1, <2>2 DEF ItemOK, TasksOK, Keeps, KeepsAttempt
  <2>4. /\ rpc' = [rpc EXCEPT ![r] = "idle"] /\ rjob' = [rjob EXCEPT ![r] = NoJob]
        /\ rpc'[r] = "idle" /\ told' = told \cup {rjob[r].who}
    BY <1>1, <1>5 DEF Answer, TypeOK
  <2>5. Stands(r)'
    BY <2>4, Moves DEF Stands
  <2>6. DecisionStands' /\ told' \subseteq Deciders
    BY <1>1, <2>1, <2>2, <2>4 DEF DecisionStands, DecidedInWindow, ToldIsRecorded,
       TaskGotTheDecision, ConclusionIsReal, TypeOK
  <2>7. QED
    BY <1>1, <1>3, <2>3, <2>4, <2>5, <2>6, Moves, RunStep
<1>6. QED
  BY <1>4, <1>5

\* A run dies at any request.
LEMMA RequestDiesStep ==
  ASSUME IInv, NEW r \in Requests, RequestDies(r)
  PROVE  IInv'
<1>1. mishaps' \in 0 .. MaxMishaps
  BY Parts, ApprovalAssumption DEF RequestDies, Mishap, TypeOK
<1>2. QED
  BY <1>1, AnswerStep DEF RequestDies

-----------------------------------------------------------------------------
(* The handoff lambda, the clock, the tasks and the time to live *)

\* A step that leaves the runs of the approval lambda alone.
LEMMA OutsideStep ==
  ASSUME IInv, UNCHANGED requests, Keeps, \A q \in Requests : KeepsAttempt(q),
         ItemOK', TasksOK', DecisionStands',
         now' \in 1 .. MaxTime, deliveries' \in [Messages -> 0 .. MaxDeliveries],
         mishaps' \in 0 .. MaxMishaps,
         hpc' \in [Handoffs -> {"idle", "put", "get", "fail"}],
         hjob' \in [Handoffs -> Messages \cup {Nobody}],
         \A h \in Handoffs : hpc'[h] # "idle" => hjob'[h] \in Messages
  PROVE  IInv'
<1>1. TypeOK'
  BY Parts DEF TypeOK, ItemOK, TasksOK, requests
<1>2. \A q \in Requests : Stands(q)'
  BY OthersStand DEF requests
<1>3. QED
  BY <1>1, <1>2 DEF IInv, ItemOK

\* Such a step that leaves the item and the tasks alone too.
LEMMA SilentStep ==
  ASSUME IInv, UNCHANGED <<row, task, output, requests>>
  PROVE  /\ Keeps /\ \A q \in Requests : KeepsAttempt(q)
         /\ ItemOK' /\ TasksOK' /\ DecisionStands'
<1>1. ItemOK /\ TasksOK /\ DecisionStands
  BY Parts
<1>2. QED
  BY <1>1 DEF requests, Keeps, KeepsAttempt, ItemOK, TasksOK, DecisionStands, DecidedInWindow,
     ToldIsRecorded, TaskGotTheDecision, ConclusionIsReal

\* A task that still waits is failed or times out.
LEMMA TaskStep ==
  ASSUME IInv, NEW m \in Messages, NEW end \in {"FAILED", "TIMED_OUT"}, task[m] = "OPEN",
         task' = [task EXCEPT ![m] = end], UNCHANGED <<row, output, requests>>
  PROVE  /\ Keeps /\ \A q \in Requests : KeepsAttempt(q)
         /\ ItemOK' /\ TasksOK' /\ DecisionStands'
<1>1. ItemOK /\ TasksOK /\ DecisionStands
  BY Parts
<1>2. TasksOK' /\ \A n \in Messages : n # m => task'[n] = task[n]
  BY <1>1 DEF TasksOK
<1>3. task'[m] = end /\ end # "OPEN" /\ end # "SUCCEEDED"
  BY <1>1 DEF TasksOK
<1>4. row.delivered \/ row.closed => row.token \in Messages
  BY <1>1 DEF ItemOK, Rows
<1>5. ConclusionIsReal' /\ TaskGotTheDecision'
  BY <1>1, <1>2, <1>3, <1>4 DEF DecisionStands, ConclusionIsReal, TaskGotTheDecision
<1>6. QED
  BY <1>1, <1>2, <1>3, <1>5 DEF requests, Keeps, KeepsAttempt, ItemOK, DecisionStands,
     DecidedInWindow, ToldIsRecorded

\* An item without a decision is replaced by another one: put, or removed.
LEMMA UndecidedStep ==
  ASSUME IInv, row.status # "DECIDED", row' \in Rows, row'.status # "DECIDED",
         row'.by = Nobody, row'.attempt = Nobody, ~row'.delivered, ~row'.closed,
         row'.status = "ABSENT" <=> row'.token = Nobody,
         UNCHANGED <<task, output, requests>>
  PROVE  /\ Keeps /\ \A q \in Requests : KeepsAttempt(q)
         /\ ItemOK' /\ TasksOK' /\ DecisionStands'
<1>1. ItemOK /\ TasksOK /\ DecisionStands
  BY Parts
<1>2. QED
  BY <1>1, NobodyAssumption DEF requests, Keeps, KeepsAttempt, ItemOK, TasksOK, DecisionStands,
     DecidedInWindow, ToldIsRecorded, TaskGotTheDecision, ConclusionIsReal

\* Types of the runs of the handoff.
LEMMA HandoffRuns ==
  ASSUME IInv
  PROVE  /\ hpc \in [Handoffs -> {"idle", "put", "get", "fail"}]
         /\ hjob \in [Handoffs -> Messages \cup {Nobody}]
         /\ \A h \in Handoffs : hpc[h] # "idle" => hjob[h] \in Messages
         /\ now \in 1 .. MaxTime /\ deliveries \in [Messages -> 0 .. MaxDeliveries]
         /\ mishaps \in 0 .. MaxMishaps
  BY DEF IInv, TypeOK

\* A run of the handoff goes on or ends.
LEMMA HandoffMoves ==
  ASSUME IInv, NEW h \in Handoffs, hpc[h] # "idle",
         HLeave(h) \/ HGoto(h, "get") \/ HGoto(h, "fail")
  PROVE  /\ hpc' \in [Handoffs -> {"idle", "put", "get", "fail"}]
         /\ hjob' \in [Handoffs -> Messages \cup {Nobody}]
         /\ \A g \in Handoffs : hpc'[g] # "idle" => hjob'[g] \in Messages
<1>1. CASE HLeave(h)
  BY <1>1, HandoffRuns DEF HLeave
<1>2. CASE HGoto(h, "get") \/ HGoto(h, "fail")
  BY <1>2, HandoffRuns DEF HGoto
<1>3. QED
  BY <1>1, <1>2

LEMMA HandoffStart ==
  ASSUME IInv, NEW h \in Handoffs, NEW m \in Messages, Handoff(h, m)
  PROVE  IInv'
<1>1. UNCHANGED <<row, task, output, requests>> /\ now' = now /\ mishaps' = mishaps
  BY DEF Handoff
<1>2. deliveries' \in [Messages -> 0 .. MaxDeliveries]
  BY HandoffRuns, ApprovalAssumption DEF Handoff
<1>3. /\ hpc' \in [Handoffs -> {"idle", "put", "get", "fail"}]
      /\ hjob' \in [Handoffs -> Messages \cup {Nobody}]
      /\ \A g \in Handoffs : hpc'[g] # "idle" => hjob'[g] \in Messages
  BY HandoffRuns DEF Handoff
<1>4. QED
  BY <1>1, <1>2, <1>3, HandoffRuns, SilentStep, OutsideStep

LEMMA HandoffOn ==
  ASSUME IInv, NEW h \in Handoffs, HandoffStep(h) \/ HandoffDies(h)
  PROVE  IInv'
<1>1. /\ hpc[h] # "idle" /\ UNCHANGED requests /\ now' = now /\ deliveries' = deliveries
      /\ HLeave(h) \/ HGoto(h, "get") \/ HGoto(h, "fail")
  BY DEF HandoffStep, Put, Compare, FailCallback, HandoffDies
<1>2. hjob[h] \in Messages /\ ItemOK
  BY <1>1, HandoffRuns, Parts
<1>3. mishaps' \in 0 .. MaxMishaps
  BY HandoffRuns, ApprovalAssumption DEF HandoffStep, Put, Compare, FailCallback, HandoffDies, Mishap
<1>4. /\ Keeps /\ \A q \in Requests : KeepsAttempt(q)
      /\ ItemOK' /\ TasksOK' /\ DecisionStands'
  <2>1. CASE UNCHANGED <<row, task, output>>
    BY <1>1, <2>1, SilentStep
  <2>2. CASE /\ row.status = "ABSENT" /\ UNCHANGED <<task, output>>
             /\ row' = [NoRow EXCEPT !.status = "PENDING", !.token = hjob[h]]
    <3>1. /\ row' \in Rows /\ row'.status = "PENDING" /\ row'.by = Nobody /\ row'.attempt = Nobody
          /\ ~row'.delivered /\ ~row'.closed /\ row'.token # Nobody
      <4>1. NoRow \in Rows /\ hjob[h] # Nobody
        BY <1>2, NobodyAssumption, ApprovalAssumption DEF NoRow, Rows, Times
      <4>2. row' \in Rows
        BY <1>2, <2>2, <4>1 DEF Rows
      <4>3. QED
        BY <2>2, <4>1, <4>2 DEF NoRow
    <3>2. QED
      BY <1>1, <2>2, <3>1, UndecidedStep
  <2>3. CASE FailCallback(h)
    <3>1. CASE task[hjob[h]] # "OPEN"
      <4>1. UNCHANGED <<row, task, output>>
        BY <1>2, <2>3, <3>1, Parts DEF FailCallback, TasksOK
      <4>2. QED
        BY <1>1, <4>1, SilentStep
    <3>2. CASE task[hjob[h]] = "OPEN"
      <4>1. task' = [task EXCEPT ![hjob[h]] = "FAILED"] /\ UNCHANGED <<row, output>>
        BY <1>2, <2>3, <3>2, Parts DEF FailCallback, TasksOK
      <4>2. QED
        BY <1>1, <1>2, <3>2, <4>1, TaskStep
    <3>3. QED
      BY <3>1, <3>2
  <2>4. QED
    BY <2>1, <2>2, <2>3 DEF HandoffStep, Put, Compare, HandoffDies
<1>5. QED
  BY <1>1, <1>3, <1>4, HandoffRuns, HandoffMoves, OutsideStep

LEMMA WorldStep ==
  ASSUME IInv, Tick \/ TimeToLive \/ \E m \in Messages : TimeOut(m)
  PROVE  IInv'
<1>1. UNCHANGED <<handoffs, requests, mishaps, output>>
  BY DEF Tick, TimeToLive, TimeOut
<1>2. now' \in 1 .. MaxTime
  BY HandoffRuns, ApprovalAssumption DEF Tick, TimeToLive, TimeOut
<1>3. /\ Keeps /\ \A q \in Requests : KeepsAttempt(q)
      /\ ItemOK' /\ TasksOK' /\ DecisionStands'
  <2>1. CASE Tick
    BY <1>1, <2>1, SilentStep DEF Tick
  <2>2. CASE TimeToLive
    <3>1. /\ row.status # "DECIDED" /\ row' \in Rows /\ row'.status = "ABSENT" /\ row'.by = Nobody
          /\ row'.attempt = Nobody /\ ~row'.delivered /\ ~row'.closed /\ row'.token = Nobody
          /\ UNCHANGED task
      BY <2>2, ApprovalAssumption DEF TimeToLive, NoRow, Rows, Times
    <3>2. QED
      BY <1>1, <3>1, UndecidedStep
  <2>3. ASSUME NEW m \in Messages, TimeOut(m)
        PROVE  /\ Keeps /\ \A q \in Requests : KeepsAttempt(q)
               /\ ItemOK' /\ TasksOK' /\ DecisionStands'
    BY <1>1, <2>3, TaskStep DEF TimeOut
  <2>4. QED
    BY <2>1, <2>2, <2>3
<1>4. QED
  BY <1>1, <1>2, <1>3, HandoffRuns, OutsideStep DEF handoffs

-----------------------------------------------------------------------------
(* The theorems *)

\* The inductive invariant is kept by every step.
LEMMA Inductive ==
  ASSUME IInv, [Next]_vars
  PROVE  IInv'
<1>1. ASSUME NEW r \in Requests, RequestStep(r) \/ RequestDies(r)
      PROVE  IInv'
  <2>1. CASE Reread(r)
    BY <2>1, CheckStep DEF Reread
  <2>2. QED
    BY <1>1, <2>1, ReadStep, DecideStep, TakeLeaseStep, SendStep, ConcludeStep, RequestDiesStep
    DEF RequestStep
<1>2. CASE UNCHANGED vars
  <2>1. UNCHANGED <<row, task, output, requests, handoffs, now, mishaps>>
    BY <1>2 DEF vars, requests, handoffs
  <2>2. QED
    BY <2>1, HandoffRuns, SilentStep, OutsideStep DEF handoffs
<1>3. QED
  BY <1>1, <1>2, StartStep, HandoffStart, HandoffOn, WorldStep DEF Next

\* The inductive invariant holds in every state.
THEOREM Invariant == Spec => []IInv
<1>1. Init => IInv
  <2> SUFFICES ASSUME Init
               PROVE  IInv
    OBVIOUS
  <2>1. NoRow \in Rows
    BY ApprovalAssumption DEF NoRow, Rows, Times
  <2>2. TypeOK
    BY <2>1, Moves, ApprovalAssumption DEF Init, TypeOK, NoRow
  <2>3. QED
    BY <2>2, Moves DEF Init, IInv, NoRow, DecisionStands, DecidedInWindow, ToldIsRecorded,
       TaskGotTheDecision, ConclusionIsReal, Stands
<1>2. IInv /\ [Next]_vars => IInv'
  BY Inductive
<1>3. QED
  BY <1>1, <1>2, PTL DEF Spec

\* Every variable keeps its type, and the item its shape: decided exactly when it names
\* a decision, with a token while it exists, never both delivered and closed.
THEOREM TypeCorrect == Spec => []TypeOK
  BY Invariant, PTL DEF IInv

\* The decision of the record was made in time, it is the one its approver was told of
\* and the one the task was given, and a conclusion on record is real, for any number of
\* runs of both lambdas (approval handler, handoff handler).
THEOREM DecisionsStand == Spec => []DecisionStands
  BY Invariant, PTL DEF IInv

\* A step of the specification keeps the record: its decision, and its conclusion unless
\* the run that holds the lease concludes.
LEMMA RecordKept ==
  ASSUME IInv, [Next]_vars
  PROVE  /\ row.status = "DECIDED" =>
              row'.status = "DECIDED" /\ row'.by = row.by /\ row'.decidedAt = row.decidedAt
         /\ row'.delivered # row.delivered \/ row'.closed # row.closed =>
              \E r \in Requests :
                row.attempt = r /\ rpc[r] \in {"deliver", "close"} /\ rpc'[r] = "idle"
<1>1. TypeOK /\ ItemOK
  BY Parts
<1>2. CASE UNCHANGED row
  BY <1>2
<1>3. ASSUME row.status # "DECIDED", row'.delivered = FALSE, row'.closed = FALSE
      PROVE  row'.delivered = row.delivered /\ row'.closed = row.closed
  BY <1>1, <1>3 DEF ItemOK, Rows
<1>4. ASSUME NEW h \in Handoffs, Put(h)
      PROVE  UNCHANGED row \/ (row.status # "DECIDED" /\ row'.delivered = FALSE /\ row'.closed = FALSE)
  BY <1>4 DEF Put, NoRow
<1>5. CASE TimeToLive
  <2>1. row.status # "DECIDED" /\ row'.delivered = FALSE /\ row'.closed = FALSE
    BY <1>5 DEF TimeToLive, NoRow
  <2>2. QED
    BY <1>3, <2>1
<1>6. ASSUME NEW r \in Requests, Decide(r), ~UNCHANGED row
      PROVE  row.status # "DECIDED" /\ row'.delivered = row.delivered /\ row'.closed = row.closed
  BY <1>1, <1>6 DEF Decide, Undecided, ItemOK, Rows
<1>7. ASSUME NEW r \in Requests, TakeLease(r)
      PROVE  /\ row'.status = row.status /\ row'.by = row.by /\ row'.decidedAt = row.decidedAt
             /\ row'.delivered = row.delivered /\ row'.closed = row.closed
  BY <1>1, <1>7 DEF TakeLease, ItemOK, Rows
<1>8. ASSUME NEW r \in Requests, Deliver(r) \/ Close(r), ~UNCHANGED row
      PROVE  /\ row'.status = row.status /\ row'.by = row.by /\ row'.decidedAt = row.decidedAt
             /\ row.attempt = r /\ rpc[r] \in {"deliver", "close"} /\ rpc'[r] = "idle"
  <2>1. OwnAttempt(r) /\ Answer(r, OwnAttempt(r)) /\ rpc[r] \in {"deliver", "close"}
    BY <1>8 DEF Deliver, Close
  <2>2. row.attempt = r /\ rpc'[r] = "idle"
    BY <1>1, <2>1 DEF OwnAttempt, Answer, TypeOK
  <2>3. row'.status = row.status /\ row'.by = row.by /\ row'.decidedAt = row.decidedAt
    BY <1>1, <1>8, <2>1 DEF Deliver, Close, ItemOK, Rows
  <2>4. QED
    BY <2>1, <2>2, <2>3
<1>9. \/ UNCHANGED row \/ TimeToLive
      \/ \E h \in Handoffs : Put(h)
      \/ \E r \in Requests : Decide(r) \/ TakeLease(r) \/ Deliver(r) \/ Close(r)
  BY DEF Next, vars, Handoff, HandoffStep, Compare, FailCallback, HandoffDies, Start, RequestStep,
     Read, Reread, Send, RequestDies, Tick, TimeOut
<1>10. QED
  BY <1>2, <1>3, <1>4, <1>5, <1>6, <1>7, <1>8, <1>9

\* The first decision stays, and only the run that holds the lease concludes the
\* delivery (the conditions of the approval lambda's updates).
THEOREM RecordsAreFinal == Spec => RecordIsFinal
<1>1. IInv /\ [Next]_vars =>
        [row.status = "DECIDED" =>
           row'.status = "DECIDED" /\ row'.by = row.by /\ row'.decidedAt = row.decidedAt]_row
  BY RecordKept
<1>2. IInv /\ [Next]_vars =>
        [row'.delivered # row.delivered \/ row'.closed # row.closed =>
           \E r \in Requests :
             row.attempt = r /\ rpc[r] \in {"deliver", "close"} /\ rpc'[r] = "idle"]_row
  BY RecordKept
<1>3. QED
  BY <1>1, <1>2, Invariant, PTL DEF Spec, RecordIsFinal, DecisionIsFinal, OnlyHolderConcludes


-----------------------------------------------------------------------------
(* The plan *)

\* Where the findings are by now.
Raw == {f \in findings : f.rule = "G6"}
Subjects == {x.finding.subject : x \in Candidates}

\* A G6 finding is about a dataset, a report that goes on has one, and the plan is the
\* last step.
PlanIInv ==
  /\ harvest \in Harvests
  /\ stage = "analyzed" => \A f \in Raw : f.subject \in Datasets
  /\ stage \in {"assembled", "reported"} => Subjects \subseteq Datasets
  /\ stage = "reported" => Candidates # {}
  /\ plan # None => stage = "actionable"
  /\ PlanIsReversible

\* Datasets have a first one.
LEMMA LeastOfDatasets ==
  ASSUME NEW S, S \subseteq Datasets, S # {}
  PROVE  Least(S) \in S
<1>1. S \subseteq Nat
  BY ChecksAssumption DEF Datasets
<1>2. PICK x \in S : \A y \in S : ~ (<<y, x>> \in OpToRel(<, Nat))
  BY <1>1, WFMin, NatLessThanWellFounded
<1>3. \A y \in S : x <= y
  <2> SUFFICES ASSUME NEW y \in S, ~ (x <= y) PROVE FALSE
    OBVIOUS
  <2>1. x \in Nat /\ y \in Nat /\ y < x
    BY <1>1
  <2>2. PICK pair : pair = <<y, x>>
    OBVIOUS
  <2>3. pair \in Nat \X Nat /\ pair[1] = y /\ pair[2] = x
    BY <2>1, <2>2
  <2>4. OpToRel(<, Nat) = {ss \in Nat \X Nat : ss[1] < ss[2]}
    BY DEF OpToRel
  <2>5. pair \in OpToRel(<, Nat)
    BY <2>1, <2>3, <2>4
  <2> QED
    BY <1>2, <2>2, <2>5
<1>4. QED
  BY <1>3 DEF Least

\* What the consistency audit calls G6 is about a dataset: it calls nothing else so than
\* an attribute of a history.
LEMMA AnalyzeStep ==
  ASSUME PlanIInv, Analyze
  PROVE  PlanIInv'
<1>1. /\ harvest \in Harvests /\ harvest' = harvest /\ plan' = plan /\ plan = None
      /\ stage' = "analyzed"
  BY DEF PlanIInv, Analyze
<1>2. ASSUME NEW f \in findings', f.rule = "G6" PROVE f.subject \in Datasets
  <2>1. CASE f \in FactContradictions
    <3>1. PICK d \in harvest.roots : f = Contradiction(d, "owner", ReportFacts(harvest.reports[d]))
      BY <2>1 DEF FactContradictions
    <3> QED
      BY <1>2, <3>1 DEF Contradiction
  <2>2. CASE f \in Gaps
    BY <1>2, <2>2 DEF Gaps
  <2>3. CASE f \in HistoryContradictions
    <3>1. PICK x \in DOMAIN harvest.versions : f = Contradiction(x[1], x[2], History(x[1], x[2]))
      BY <2>3 DEF HistoryContradictions
    <3>2. f.subject = x[1]
      BY <3>1 DEF Contradiction
    <3> QED
      BY <1>1, <3>2, RunAssumption
  <2> QED
    BY <2>1, <2>2, <2>3 DEF Analyze, Dedupe
<1>3. QED
  BY <1>1, <1>2 DEF PlanIInv, Raw, PlanIsReversible

\* A violation is one of an audited dataset.
LEMMA AssembleStep ==
  ASSUME PlanIInv, Assemble
  PROVE  PlanIInv'
<1>1. /\ harvest \in Harvests /\ harvest' = harvest /\ plan' = plan /\ plan = None
      /\ stage = "analyzed" /\ stage' = "assembled"
  BY DEF PlanIInv, Assemble
<1>2. ASSUME NEW x \in findings', x.finding.rule = "G6" PROVE x.finding.subject \in Datasets
  <2>1. PICK f \in findings \cup UNION {{Violation(d, r) : r \in Broken(harvest, d)} :
                                       d \in harvest.roots} :
          x = [finding |-> f, impact |-> BlastRadius(harvest, f.subject)]
    BY DEF Assemble
  <2>2. x.finding = f
    BY <2>1
  <2>3. CASE f \in findings
    BY <1>1, <1>2, <2>2, <2>3 DEF PlanIInv, Raw
  <2>4. CASE f \notin findings
    <3>1. PICK d \in harvest.roots : f \in {Violation(d, r) : r \in Broken(harvest, d)}
      BY <2>1, <2>4
    <3>2. PICK r \in Broken(harvest, d) : f = Violation(d, r)
      BY <3>1
    <3>3. f.subject = d
      BY <3>2 DEF Violation
    <3> QED
      BY <1>1, <2>2, <3>3, RunAssumption
  <2> QED
    BY <2>3, <2>4
<1>3. Subjects' \subseteq Datasets
  BY <1>2 DEF Subjects, Candidates
<1>4. QED
  BY <1>1, <1>3 DEF PlanIInv, PlanIsReversible

\* The plan is of the first candidate, with the tags that were read for it.
LEMMA PlanStep ==
  ASSUME PlanIInv, Plan
  PROVE  PlanIInv'
<1>1. /\ harvest \in Harvests /\ harvest' = harvest /\ findings' = findings
      /\ Subjects \subseteq Datasets /\ Candidates # {}
      /\ stage' = IF plan' = None THEN "manual" ELSE "actionable"
  BY DEF PlanIInv, Plan
<1>2. PICK subject : subject = Least(Subjects)
  OBVIOUS
<1>3. subject \in Subjects
  BY <1>1, <1>2, LeastOfDatasets DEF Subjects
<1>4. PICK x : x = CHOOSE y \in Candidates : y.finding.subject = subject
  OBVIOUS
<1>5. x \in Candidates
  BY <1>3, <1>4 DEF Subjects
<1>6. Candidate = x.finding
  BY <1>2, <1>4 DEF Candidate, Subjects
<1>7. PICK column : column = Target[2]
  OBVIOUS
<1>8. PICK before : before = tags[Target]
  OBVIOUS
<1>9. plan' = PlanG6Remediation(x.finding, column, before)
  BY <1>6, <1>7, <1>8 DEF Plan
<1>10. ASSUME plan' # None PROVE PlanIsReversible'
  <2>1. /\ column \in x.finding.fields /\ PolicyTag \notin before
        /\ plan' = [entity |-> x.finding.subject, column |-> column, tag |-> PolicyTag,
                    before |-> before, after |-> before \cup {PolicyTag}]
    BY <1>9, <1>10 DEF PlanG6Remediation
  <2>2. /\ plan'.entity = x.finding.subject /\ plan'.column = column /\ plan'.tag = PolicyTag
        /\ plan'.before = before /\ plan'.after = before \cup {PolicyTag}
    BY <2>1
  <2>3. x \in Candidates'
    BY <1>1, <1>5 DEF Candidates
  <2>4. AddTags(plan', plan'.before) = plan'.after /\ RemoveTags(plan', plan'.after) = plan'.before
    BY <2>1, <2>2 DEF AddTags, RemoveTags
  <2>5. Classified(AddTags(plan', plan'.before))
    BY <2>2, ChecksAssumption DEF AddTags, Classified
  <2> QED
    BY <2>1, <2>2, <2>3, <2>4, <2>5 DEF PlanIsReversible
<1>11. QED
  BY <1>1, <1>10 DEF PlanIInv, PlanIsReversible

\* No other step makes a plan or a finding.
LEMMA OtherSteps ==
  ASSUME PlanIInv, Report \/ PlanFails \/ Fail \/ (\E c \in Columns : TagEdit(c))
  PROVE  PlanIInv'
<1>1. UNCHANGED <<harvest, findings, plan>> /\ plan = None
  BY DEF PlanIInv, Report, PlanFails, Fail, TagEdit
<1>2. Raw' = Raw /\ Candidates' = Candidates /\ Subjects' = Subjects
  BY <1>1 DEF Raw, Candidates, Subjects
<1>3. \/ stage' = stage \/ stage' \in {"manual", "failed"}
      \/ stage = "assembled" /\ stage' = "reported" /\ Candidates # {}
  BY DEF Report, PlanFails, Fail, TagEdit
<1>4. QED
  BY <1>1, <1>2, <1>3 DEF PlanIInv, PlanIsReversible

\* A plan answers a finding of the report it comes with, carrying it out classifies the
\* column, and its inverse gives back exactly the tags that were read, although others
\* edit them since the harvest (planG6Remediation, AuditWorkerService.audit).
THEOREM PlansAreReversible == AuditSpec => []PlanIsReversible
<1>1. AuditInit => PlanIInv
  BY DEF AuditInit, PlanIInv, PlanIsReversible
<1>2. PlanIInv /\ [AuditNext]_auditVars => PlanIInv'
  <2>1. CASE UNCHANGED auditVars
    BY <2>1 DEF auditVars, PlanIInv, Raw, Subjects, Candidates, PlanIsReversible
  <2> QED
    BY <2>1, AnalyzeStep, AssembleStep, PlanStep, OtherSteps DEF AuditNext
<1>3. PlanIInv => PlanIsReversible
  BY DEF PlanIInv
<1>4. QED
  BY <1>1, <1>2, <1>3, PTL DEF AuditSpec
=============================================================================
