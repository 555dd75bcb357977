------------------------ MODULE CallbackQueueProofs ------------------------
(***************************************************************************)
(* Theorems about CallbackQueue, for any number of workers and messages,   *)
(* any receive limit and any number of failing requests.                   *)
(***************************************************************************)
EXTENDS CallbackQueue, TLAPS

\* What the requests of all workers change, well typed.
SharedOK ==
  /\ kind \in [Messages -> Kinds]
  /\ queue \in [Messages -> {"visible", "held", "deleted"}]
  /\ received \in [Messages -> 0 .. MaxReceive + 1]
  /\ task \in [Messages -> {"OPEN", "SUCCEEDED", "FAILED", "TIMED_OUT"}]
  /\ output \in [Messages -> Results \cup {0}]
  /\ durable \in [Messages -> Results \cup {0}]
  /\ evidence \in [Messages -> SUBSET Results]
  /\ quarantined \subseteq Messages
  /\ offered \subseteq Messages
  /\ runs \in [Messages -> 0 .. MaxRuns]
  /\ mishaps \in 0 .. MaxMishaps

\* What no step takes back: a closed task, a durable result, evidence, a record.
Grows ==
  /\ kind' = kind /\ quarantined \subseteq quarantined'
  /\ \A m \in Messages :
       /\ task[m] # "OPEN" => task'[m] = task[m]
       /\ durable[m] # 0 => durable'[m] = durable[m]
       /\ evidence[m] \subseteq evidence'[m]

told == <<kind, queue, task, output, durable, evidence, quarantined>>

-----------------------------------------------------------------------------
(* Steps of a worker *)

\* A delivery keeps what it established under the steps of others.
LEMMA OthersAgree ==
  ASSUME IInv, Grows, NEW v \in Workers, pc[v] # "idle",
         pc'[v] = pc[v], job'[v] = job[v]
  PROVE  Agrees(v)'
<1>1. TypeOK /\ Agrees(v)
  BY DEF IInv
<1>2. pc[v] \in Answering => job[v].result # 0
  BY <1>1 DEF TypeOK
<1>3. QED
  BY <1>1, <1>2 DEF Agrees, Grows

\* A step of one worker: the others keep what they know.
LEMMA WorkerStep ==
  ASSUME IInv, NEW w \in Workers, NEW next \in PCs, NEW new \in Job,
         pc' = [pc EXCEPT ![w] = next], job' = [job EXCEPT ![w] = new],
         next = "idle" <=> new = NoJob,
         next \in Answering => new.result # 0,
         next # "idle" => Agrees(w)',
         Grows, SharedOK', OneReceipt', NothingIsLost'
  PROVE  IInv'
<1>1. pc \in [Workers -> PCs] /\ job \in [Workers -> Job]
  BY DEF IInv, TypeOK
<1>2. /\ pc' \in [Workers -> PCs] /\ job' \in [Workers -> Job]
      /\ pc'[w] = next /\ job'[w] = new
      /\ \A v \in Workers \ {w} : pc'[v] = pc[v] /\ job'[v] = job[v]
  BY <1>1
<1>3. TypeOK'
  BY <1>2 DEF IInv, TypeOK, SharedOK
<1>4. ASSUME NEW v \in Workers, pc'[v] # "idle"
      PROVE  Agrees(v)'
  BY <1>2, <1>4, OthersAgree
<1>5. QED
  BY <1>3, <1>4 DEF IInv

\* Steps that change nothing that is told.
LEMMA Untold ==
  ASSUME IInv, UNCHANGED told,
         received' \in [Messages -> 0 .. MaxReceive + 1],
         offered' \subseteq Messages, runs' \in [Messages -> 0 .. MaxRuns],
         mishaps' \in 0 .. MaxMishaps
  PROVE  Grows /\ SharedOK' /\ OneReceipt' /\ NothingIsLost'
  BY DEF IInv, TypeOK, told, Grows, SharedOK, OneReceipt, NothingIsLost, DeletedIsClosed,
         FailedIsQuarantined, TaskGotTheDurable, DurableHasEvidence

\* Leaving a delivery.
LEMMA LeaveStep ==
  ASSUME IInv, NEW w \in Workers, Leave(w), Grows, SharedOK', OneReceipt', NothingIsLost'
  PROVE  IInv'
<1>1. NoJob \in Job /\ "idle" \in PCs /\ "idle" \notin Answering
  BY QueueAssumption DEF NoJob, Job, PCs, Answering
<1>2. QED
  BY <1>1, WorkerStep DEF Leave

\* Going on with the same locals.
LEMMA GotoStep ==
  ASSUME IInv, NEW w \in Workers, pc[w] # "idle", NEW next \in PCs \ {"idle"}, Goto(w, next),
         next \in Answering => job[w].result # 0,
         Agrees(w)', Grows, SharedOK', OneReceipt', NothingIsLost'
  PROVE  IInv'
<1>1. TypeOK
  BY DEF IInv
<1>2. job[w] \in Job /\ job[w] # NoJob
  BY <1>1 DEF TypeOK
<1>3. job' = [job EXCEPT ![w] = job[w]]
  BY <1>1 DEF TypeOK, Goto
<1>4. QED
  BY <1>2, <1>3, WorkerStep DEF Goto

\* Going on with a result.
LEMMA GotoWithStep ==
  ASSUME IInv, NEW w \in Workers, pc[w] # "idle", NEW next \in PCs \ {"idle"},
         NEW result \in Results \ {0}, GotoWith(w, next, result),
         Agrees(w)', Grows, SharedOK', OneReceipt', NothingIsLost'
  PROVE  IInv'
<1> DEFINE new == [job[w] EXCEPT !.result = result]
<1>1. job[w] \in Job
  BY DEF IInv, TypeOK
<1>2. new \in Job /\ new.result = result /\ new # NoJob
  BY <1>1 DEF Job, NoJob
<1>3. pc' = [pc EXCEPT ![w] = next] /\ job' = [job EXCEPT ![w] = new]
  BY DEF GotoWith
<1> HIDE DEF new
<1>4. QED
  BY <1>2, <1>3, WorkerStep

\* A request that fails for now ends the delivery.
LEMMA GiveUpStep ==
  ASSUME IInv, NEW w \in Workers, GiveUp(w),
         received' = received, runs' = runs, offered' \subseteq Messages, UNCHANGED told
  PROVE  IInv'
<1>1. mishaps' \in 0 .. MaxMishaps
  BY QueueAssumption DEF GiveUp, Mishap, IInv, TypeOK
<1>2. Grows /\ SharedOK' /\ OneReceipt' /\ NothingIsLost'
  BY <1>1, Untold DEF IInv, TypeOK
<1>3. QED
  BY <1>2, LeaveStep DEF GiveUp

\* Going on while nothing is told.
LEMMA SilentGoto ==
  ASSUME IInv, NEW w \in Workers, pc[w] # "idle", NEW next \in PCs \ {"idle"}, Goto(w, next),
         next \in Answering => job[w].result # 0, Agrees(w)',
         UNCHANGED <<received, offered, runs, mishaps>>, UNCHANGED told
  PROVE  IInv'
<1>1. Grows /\ SharedOK' /\ OneReceipt' /\ NothingIsLost'
  BY Untold DEF IInv, TypeOK
<1>2. QED
  BY <1>1, GotoStep

\* A worker that moves on with its job, on the same message.
LEMMA Moved ==
  ASSUME IInv, NEW w \in Workers, NEW next, Goto(w, next)
  PROVE  pc'[w] = next /\ job'[w] = job[w]
<1>1. TypeOK
  BY DEF IInv
<1>2. QED
  BY <1>1 DEF Goto, TypeOK

LEMMA MovedWith ==
  ASSUME IInv, NEW w \in Workers, NEW next, NEW result, GotoWith(w, next, result)
  PROVE  /\ pc'[w] = next /\ job'[w].msg = job[w].msg
         /\ job'[w].lost = job[w].lost /\ job'[w].result = result
<1>1. TypeOK
  BY DEF IInv
<1>2. QED
  BY <1>1 DEF GotoWith, TypeOK, Job

\* A heartbeat on the task: the delivery goes on only while the task is open and
\* ends for good only when it is closed.
LEMMA HeartbeatStep ==
  ASSUME IInv, NEW w \in Workers, pc[w] # "idle", NEW next \in PCs \ {"idle", "delete"},
         AssertActive(w, next),
         next \in Answering => pc[w] \in Answering,
         next \in Answering \cup {"get", "remediate"},
         next = "get" => kind[job[w].msg] = "audit",
         next = "remediate" => kind[job[w].msg] # "audit",
         UNCHANGED <<received, offered, runs>>, UNCHANGED told
  PROVE  IInv'
<1> DEFINE m == job[w].msg
<1>1. TypeOK /\ Agrees(w)
  BY DEF IInv
<1>2. pc[w] \in Answering => job[w].result # 0
  BY <1>1 DEF TypeOK
<1>3. m \in Messages /\ (job[w].lost = "terminal" => task[m] # "OPEN")
  BY <1>1 DEF Agrees
<1>4. ASSUME task[m] # "OPEN", Goto(w, "delete"), UNCHANGED mishaps
      PROVE  IInv'
  <2>1. pc'[w] = "delete" /\ job'[w] = job[w]
    BY <1>4, Moved
  <2>2. Agrees(w)'
    BY <1>3, <1>4, <2>1 DEF Agrees, Answering, told
  <2>3. "delete" \in PCs \ {"idle"} /\ "delete" \notin Answering
    BY DEF PCs, Answering
  <2>4. QED
    BY <1>4, <2>2, <2>3, SilentGoto
<1>5. ASSUME Goto(w, next), UNCHANGED mishaps
      PROVE  IInv'
  <2>1. pc'[w] = next /\ job'[w] = job[w]
    BY <1>5, Moved
  <2>2. Agrees(w)'
    BY <1>1, <2>1 DEF Agrees, Answering, told
  <2>3. QED
    BY <1>2, <1>5, <2>2, SilentGoto
<1>6. ASSUME Leave(w), UNCHANGED mishaps
      PROVE  IInv'
  <2>1. Grows /\ SharedOK' /\ OneReceipt' /\ NothingIsLost'
    BY <1>1, <1>6, Untold DEF TypeOK
  <2>2. QED
    BY <1>6, <2>1, LeaveStep
<1>7. ASSUME GiveUp(w)
      PROVE  IInv'
  BY <1>1, <1>7, GiveUpStep DEF TypeOK
<1>8. QED
  BY <1>3, <1>4, <1>5, <1>6, <1>7 DEF AssertActive

\* The steps at which a delivery holds its message.
LEMMA Delivery ==
  ASSUME IInv, NEW w \in Workers, pc[w] # "idle"
  PROVE  /\ TypeOK /\ OneReceipt /\ NothingIsLost /\ Agrees(w)
         /\ job[w] \in Job /\ job[w].msg \in Messages
         /\ pc[w] \in Answering => job[w].result # 0
<1>1. TypeOK /\ OneReceipt /\ NothingIsLost /\ Agrees(w)
  BY DEF IInv
<1>2. QED
  BY <1>1 DEF TypeOK, Agrees

-----------------------------------------------------------------------------
(* The actions *)

LEMMA ReceiveStep ==
  ASSUME IInv, NEW w \in Workers, NEW m \in Messages, Receive(w, m)
  PROVE  IInv'
<1> DEFINE n == IF received[m] > MaxReceive THEN received[m] ELSE received[m] + 1
           new == [NoJob EXCEPT !.msg = m, !.count = n]
<1>1. TypeOK /\ OneReceipt /\ NothingIsLost
  BY DEF IInv
<1>2. n \in 0 .. MaxReceive + 1 /\ n # 0
  BY <1>1, QueueAssumption DEF TypeOK
<1>3. new \in Job /\ new.msg = m /\ new.lost = "no" /\ new.count = n
  BY <1>2 DEF Job, NoJob
<1>4. new # NoJob
  BY <1>2, <1>3 DEF NoJob
<1>5. /\ FirstStep(m) \in {"begin", "quarantine"} /\ FirstStep(m) \in PCs
      /\ FirstStep(m) # "idle" /\ FirstStep(m) \notin Answering
  BY DEF FirstStep, PCs, Answering
<1> HIDE DEF n
<1>6. pc' = [pc EXCEPT ![w] = FirstStep(m)] /\ job' = [job EXCEPT ![w] = new]
  BY DEF Receive, n
<1> HIDE DEF new
<1>7. pc'[w] = FirstStep(m) /\ job'[w] = new
  BY <1>1, <1>6 DEF TypeOK
<1>8. Agrees(w)'
  BY <1>3, <1>5, <1>7 DEF Agrees, Answering
<1>9. /\ UNCHANGED <<kind, task, output, durables, quarantined, offered, mishaps>>
      /\ received' \in [Messages -> 0 .. MaxReceive + 1]
      /\ queue' = [queue EXCEPT ![m] = "held"]
  BY <1>1, <1>2 DEF Receive, TypeOK, n
<1>10. Grows /\ SharedOK' /\ OneReceipt' /\ NothingIsLost'
  BY <1>1, <1>9 DEF TypeOK, Grows, SharedOK, OneReceipt, NothingIsLost, DeletedIsClosed,
     FailedIsQuarantined, TaskGotTheDurable, DurableHasEvidence, durables
<1>11. QED
  BY <1>3, <1>4, <1>5, <1>6, <1>8, <1>10, WorkerStep

LEMMA RenewStep ==
  ASSUME IInv, NEW w \in Workers, Renew(w)
  PROVE  IInv'
<1>1. pc[w] \in Working /\ pc[w] # "idle" /\ pc[w] \in PCs /\ pc[w] \notin Answering
  BY DEF Renew, Working, PCs, Answering
<1>2. /\ TypeOK /\ Agrees(w) /\ job[w] \in Job /\ job[w].msg \in Messages
  BY <1>1, Delivery
<1>3. PICK lost \in {"terminal", "transient"} :
        /\ job' = [job EXCEPT ![w].lost = lost]
        /\ lost = "terminal" => task[job[w].msg] # "OPEN"
        /\ mishaps' = mishaps \/ (mishaps' = mishaps + 1 /\ mishaps < MaxMishaps)
  <2>1. CASE /\ task[job[w].msg] # "OPEN" /\ job' = [job EXCEPT ![w].lost = "terminal"]
             /\ UNCHANGED mishaps
    BY <2>1
  <2>2. CASE Mishap /\ job' = [job EXCEPT ![w].lost = "transient"]
    BY <2>2 DEF Mishap
  <2>3. QED
    BY <2>1, <2>2 DEF Renew
<1> DEFINE new == [job[w] EXCEPT !.lost = lost]
<1>4. /\ new \in Job /\ new # NoJob /\ new.lost = lost
      /\ new.msg = job[w].msg /\ new.result = job[w].result
  BY <1>2 DEF Job, NoJob
<1>5. pc' = [pc EXCEPT ![w] = pc[w]] /\ job' = [job EXCEPT ![w] = new]
  BY <1>2, <1>3 DEF Renew, TypeOK
<1> HIDE DEF new
<1>6. pc'[w] = pc[w] /\ job'[w] = new
  BY <1>2, <1>5 DEF TypeOK
<1>7. Agrees(w)'
  BY <1>1, <1>2, <1>3, <1>4, <1>6 DEF Agrees, Renew, durables
<1>8. mishaps' \in 0 .. MaxMishaps
  BY <1>2, <1>3, QueueAssumption DEF TypeOK
<1>9. Grows /\ SharedOK' /\ OneReceipt' /\ NothingIsLost'
  BY <1>2, <1>8, Untold DEF TypeOK, Renew, durables, told
<1>10. QED
  BY <1>1, <1>4, <1>5, <1>7, <1>9, WorkerStep

\* What the services do to their results.
LEMMA ServiceStep ==
  ASSUME IInv, NEW w \in Workers, Service(w)
  PROVE  IInv'
<1> DEFINE m == job[w].msg
<1> USE DEF durables
<1>1. pc[w] \in Working /\ pc[w] # "idle"
  BY DEF Service, GetCheckpoint, RunAudit, StoreEvidence, PutCheckpoint, Remediate, Working
<1>2. /\ TypeOK /\ OneReceipt /\ NothingIsLost /\ Agrees(w) /\ job[w] \in Job /\ m \in Messages
  BY <1>1, Delivery
<1>3. {"finish", "run", "store", "put"} \subseteq PCs \ {"idle"} /\ Answering = {"finish", "success"}
  BY DEF PCs, Working, Answering
<1>4. CASE GetCheckpoint(w)
  <2>1. UNCHANGED <<received, offered, runs, mishaps>> /\ UNCHANGED told
    BY <1>4 DEF GetCheckpoint, told
  <2>2. CASE durable[m] # 0 /\ GotoWith(w, "finish", durable[m])
    <3>1. durable[m] \in Results \ {0} /\ durable[m] \in evidence[m]
      BY <1>2, <1>4, <2>2 DEF TypeOK, GetCheckpoint, NothingIsLost, DurableHasEvidence, Agrees
    <3>2. Agrees(w)'
      BY <1>2, <2>1, <2>2, <3>1, MovedWith DEF Agrees, Answering, told
    <3>3. Grows /\ SharedOK' /\ OneReceipt' /\ NothingIsLost'
      BY <1>2, <2>1, Untold DEF TypeOK
    <3>4. QED
      BY <1>1, <1>3, <2>2, <3>1, <3>2, <3>3, GotoWithStep
  <2>3. CASE Goto(w, "run")
    <3>1. Agrees(w)'
      BY <1>2, <1>4, <2>1, <2>3, Moved DEF Agrees, Answering, told, GetCheckpoint
    <3>2. QED
      BY <1>1, <1>3, <2>1, <2>3, <3>1, SilentGoto
  <2>4. QED
    BY <1>4, <2>2, <2>3 DEF GetCheckpoint
<1>5. CASE RunAudit(w)
  <2>1. runs[m] + 1 \in Results \ {0} /\ runs' \in [Messages -> 0 .. MaxRuns]
    BY <1>2, <1>5, QueueAssumption DEF RunAudit, TypeOK, Results
  <2>2. UNCHANGED <<received, offered, mishaps>> /\ UNCHANGED told
    BY <1>5 DEF RunAudit, told
  <2>3. GotoWith(w, "store", runs[m] + 1) /\ kind[m] = "audit"
    BY <1>2, <1>5 DEF RunAudit, Agrees
  <2>4. Agrees(w)'
    BY <1>2, <2>1, <2>2, <2>3, MovedWith DEF Agrees, Answering, told
  <2>5. Grows /\ SharedOK' /\ OneReceipt' /\ NothingIsLost'
    BY <1>2, <2>1, <2>2, Untold DEF TypeOK
  <2>6. QED
    BY <1>1, <1>3, <2>1, <2>3, <2>4, <2>5, GotoWithStep
<1>6. CASE StoreEvidence(w)
  <2> DEFINE next == IF kind[m] = "audit" THEN "put" ELSE "finish"
  <2>1. /\ job[w].result \in Results /\ job[w].result # 0
        /\ kind[m] # "audit" => job[w].result = durable[m]
    BY <1>2, <1>6 DEF StoreEvidence, Agrees, Job
  <2>2. /\ evidence' = [evidence EXCEPT ![m] = evidence[m] \cup {job[w].result}]
        /\ Goto(w, next)
        /\ UNCHANGED <<kind, queue, received, task, output, durable, runs, quarantined, offered,
                       mishaps>>
    BY <1>6 DEF StoreEvidence
  <2>3. Grows /\ SharedOK' /\ OneReceipt' /\ NothingIsLost'
    BY <1>2, <2>1, <2>2 DEF TypeOK, Grows, SharedOK, OneReceipt, NothingIsLost, DeletedIsClosed,
       FailedIsQuarantined, TaskGotTheDurable, DurableHasEvidence
  <2>4. job[w].result \in evidence'[m]
    BY <1>2, <2>2 DEF TypeOK
  <2>5. pc'[w] = next /\ job'[w] = job[w]
    BY <2>2, Moved
  <2>6. Agrees(w)'
    BY <1>2, <2>1, <2>2, <2>4, <2>5 DEF Agrees, Answering
  <2>7. QED
    BY <1>1, <1>3, <2>1, <2>2, <2>3, <2>6, GotoStep
<1>7. CASE PutCheckpoint(w)
  <2>1. job[w].result \in Results \ {0} /\ job[w].result \in evidence[m] /\ kind[m] = "audit"
    BY <1>2, <1>7 DEF PutCheckpoint, Agrees, Job
  <2>2. CASE durable[m] = 0 /\ durable' = [durable EXCEPT ![m] = job[w].result] /\ Goto(w, "finish")
    <3>1. UNCHANGED <<kind, queue, received, task, output, evidence, runs, quarantined, offered,
                     mishaps>>
      BY <1>7 DEF PutCheckpoint
    <3>2. task[m] # "SUCCEEDED"
      BY <1>2, <2>2 DEF NothingIsLost, TaskGotTheDurable
    <3>3. Grows /\ SharedOK' /\ OneReceipt' /\ NothingIsLost'
      BY <1>2, <2>1, <2>2, <3>1, <3>2 DEF TypeOK, Grows, SharedOK, OneReceipt, NothingIsLost,
         DeletedIsClosed, FailedIsQuarantined, TaskGotTheDurable, DurableHasEvidence
    <3>4. durable'[m] = job[w].result
      BY <1>2, <2>2 DEF TypeOK
    <3>5. pc'[w] = "finish" /\ job'[w] = job[w]
      BY <2>2, Moved
    <3>6. Agrees(w)'
      BY <1>2, <2>1, <3>1, <3>4, <3>5 DEF Agrees, Answering
    <3>7. QED
      BY <1>1, <1>3, <2>1, <2>2, <3>3, <3>6, GotoStep
  <2>3. CASE durable[m] # 0 /\ GotoWith(w, "finish", durable[m]) /\ UNCHANGED durable
    <3>1. UNCHANGED <<received, offered, runs, mishaps>> /\ UNCHANGED told
      BY <1>7, <2>3 DEF PutCheckpoint, told
    <3>2. durable[m] \in Results \ {0} /\ durable[m] \in evidence[m]
      BY <1>2, <2>1, <2>3 DEF TypeOK, NothingIsLost, DurableHasEvidence
    <3>3. Agrees(w)'
      BY <1>2, <2>3, <3>1, <3>2, MovedWith DEF Agrees, Answering, told
    <3>4. Grows /\ SharedOK' /\ OneReceipt' /\ NothingIsLost'
      BY <1>2, <3>1, Untold DEF TypeOK
    <3>5. QED
      BY <1>1, <1>3, <2>3, <3>2, <3>3, <3>4, GotoWithStep
  <2>4. QED
    BY <1>7, <2>2, <2>3 DEF PutCheckpoint
<1>8. CASE Remediate(w)
  <2>1. kind[m] # "audit" /\ durable[m] \in {0, 1}
    BY <1>2, <1>8 DEF Remediate, Agrees, OneReceipt
  <2>2. CASE durable' = [durable EXCEPT ![m] = 1] /\ GotoWith(w, "store", 1) /\ UNCHANGED mishaps
    <3>1. UNCHANGED <<kind, queue, received, task, output, evidence, runs, quarantined, offered,
                     mishaps>>
      BY <1>8, <2>2 DEF Remediate
    <3>2. 1 \in Results \ {0}
      BY QueueAssumption DEF Results
    <3>3. Grows /\ SharedOK' /\ OneReceipt' /\ NothingIsLost'
      BY <1>2, <2>1, <2>2, <3>1, <3>2 DEF TypeOK, Grows, SharedOK, OneReceipt, NothingIsLost,
         DeletedIsClosed, FailedIsQuarantined, TaskGotTheDurable, DurableHasEvidence
    <3>4. durable'[m] = 1
      BY <1>2, <2>2 DEF TypeOK
    <3>5. Agrees(w)'
      BY <1>2, <2>1, <2>2, <3>1, <3>4, MovedWith DEF Agrees, Answering
    <3>6. QED
      BY <1>1, <1>3, <2>2, <3>2, <3>3, <3>5, GotoWithStep
  <2>3. CASE GiveUp(w) /\ UNCHANGED durable
    BY <1>2, <1>8, <2>3, GiveUpStep DEF Remediate, told, TypeOK
  <2>4. QED
    BY <1>8, <2>2, <2>3 DEF Remediate
<1>9. QED
  BY <1>4, <1>5, <1>6, <1>7, <1>8 DEF Service

\* What answers a task and takes its message from the queue.
LEMMA CallbackStep ==
  ASSUME IInv, NEW w \in Workers, Callback(w)
  PROVE  IInv'
<1> DEFINE m == job[w].msg
<1> USE DEF durables
<1>1. pc[w] \in {"finish", "success", "delete", "quarantine", "failure"} /\ pc[w] # "idle"
  BY DEF Callback, Finish, Success, DeleteMessage, Quarantine, FailTask
<1>2. /\ TypeOK /\ OneReceipt /\ NothingIsLost /\ Agrees(w) /\ job[w] \in Job /\ m \in Messages
      /\ pc[w] \in Answering => job[w].result # 0
  BY <1>1, Delivery
<1>3. {"success", "delete", "failure"} \subseteq PCs \ {"idle"} /\ Answering = {"finish", "success"}
  BY DEF PCs, Answering
<1>4. CASE Finish(w)
  BY <1>1, <1>3, <1>4, HeartbeatStep DEF Finish, told
<1>5. ASSUME GiveUp(w), received' = received, runs' = runs, offered' \subseteq Messages, UNCHANGED told
      PROVE  IInv'
  BY <1>5, GiveUpStep
<1>6. ASSUME Goto(w, "delete"), task'[m] # "OPEN"
      PROVE  Agrees(w)'
  <2>1. pc'[w] = "delete" /\ job'[w] = job[w]
    BY <1>6, Moved
  <2>2. QED
    BY <1>2, <1>6, <2>1 DEF Agrees, Answering
<1>7. CASE Success(w)
  <2>1. /\ offered' \subseteq Messages /\ UNCHANGED <<kind, queue, received, durables, quarantined>>
        /\ job[w].result \in Results \ {0} /\ job[w].result = durable[m] /\ durable[m] \in evidence[m]
    BY <1>2, <1>3, <1>7 DEF Success, TypeOK, Agrees, Job
  <2>2. CASE /\ task[m] = "OPEN" /\ task' = [task EXCEPT ![m] = "SUCCEEDED"]
             /\ output' = [output EXCEPT ![m] = job[w].result]
             /\ Goto(w, "delete") /\ UNCHANGED mishaps
    <3>1. Grows /\ SharedOK' /\ OneReceipt' /\ NothingIsLost'
      BY <1>2, <2>1, <2>2 DEF TypeOK, Grows, SharedOK, OneReceipt, NothingIsLost,
         DeletedIsClosed, FailedIsQuarantined, TaskGotTheDurable, DurableHasEvidence
    <3>2. task'[m] # "OPEN"
      BY <1>2, <2>2 DEF TypeOK
    <3>3. Agrees(w)'
      BY <1>6, <2>1, <2>2, <3>2
    <3>4. QED
      BY <1>1, <1>3, <2>2, <3>1, <3>3, GotoStep
  <2>3. CASE task[m] # "OPEN" /\ Goto(w, "delete") /\ UNCHANGED <<task, output, mishaps>>
    <3>1. Grows /\ SharedOK' /\ OneReceipt' /\ NothingIsLost'
      BY <1>2, <2>1, <2>3, Untold DEF TypeOK, told
    <3>2. Agrees(w)'
      BY <1>6, <2>1, <2>3
    <3>3. QED
      BY <1>1, <1>3, <2>3, <3>1, <3>2, GotoStep
  <2>4. CASE GiveUp(w) /\ UNCHANGED <<task, output>>
    BY <1>5, <2>1, <2>4 DEF told
  <2>5. QED
    BY <1>7, <2>2, <2>3, <2>4 DEF Success
<1>8. CASE DeleteMessage(w)
  <2>1. /\ UNCHANGED <<kind, received, task, output, durables, quarantined, offered>>
        /\ task[m] # "OPEN" \/ kind[m] = "tokenless"
    BY <1>2, <1>8 DEF DeleteMessage, Agrees
  <2>2. CASE queue' = [queue EXCEPT ![m] = "deleted"] /\ Leave(w) /\ UNCHANGED mishaps
    <3>1. Grows /\ SharedOK' /\ OneReceipt' /\ NothingIsLost'
      BY <1>2, <2>1, <2>2 DEF TypeOK, Grows, SharedOK, OneReceipt, NothingIsLost,
         DeletedIsClosed, FailedIsQuarantined, TaskGotTheDurable, DurableHasEvidence
    <3>2. QED
      BY <2>2, <3>1, LeaveStep
  <2>3. CASE GiveUp(w) /\ UNCHANGED queue
    BY <1>2, <1>5, <2>1, <2>3 DEF told, TypeOK
  <2>4. QED
    BY <1>8, <2>2, <2>3 DEF DeleteMessage
<1>9. CASE Quarantine(w)
  <2> DEFINE next == IF kind[m] = "tokenless" THEN "delete" ELSE "failure"
  <2>1. UNCHANGED <<kind, queue, received, task, output, durables, offered>>
    BY <1>9 DEF Quarantine
  <2>2. CASE quarantined' = quarantined \cup {m} /\ Goto(w, next) /\ UNCHANGED mishaps
    <3>1. Grows /\ SharedOK' /\ OneReceipt' /\ NothingIsLost'
      BY <1>2, <2>1, <2>2 DEF TypeOK, Grows, SharedOK, OneReceipt, NothingIsLost,
         DeletedIsClosed, FailedIsQuarantined, TaskGotTheDurable, DurableHasEvidence
    <3>2. pc'[w] = next /\ job'[w] = job[w]
      BY <2>2, Moved
    <3>3. Agrees(w)'
      BY <1>2, <2>1, <2>2, <3>2 DEF Agrees, Answering
    <3>4. QED
      BY <1>1, <1>3, <2>2, <3>1, <3>3, GotoStep
  <2>3. CASE GiveUp(w) /\ UNCHANGED quarantined
    BY <1>2, <1>5, <2>1, <2>3 DEF told, TypeOK
  <2>4. QED
    BY <1>9, <2>2, <2>3 DEF Quarantine
<1>10. CASE FailTask(w)
  <2>1. UNCHANGED <<kind, queue, received, output, durables, quarantined, offered>> /\ m \in quarantined
    BY <1>2, <1>10 DEF FailTask, Agrees
  <2>2. CASE task[m] = "OPEN" /\ task' = [task EXCEPT ![m] = "FAILED"] /\ Goto(w, "delete")
             /\ UNCHANGED mishaps
    <3>1. Grows /\ SharedOK' /\ OneReceipt' /\ NothingIsLost'
      BY <1>2, <2>1, <2>2 DEF TypeOK, Grows, SharedOK, OneReceipt, NothingIsLost,
         DeletedIsClosed, FailedIsQuarantined, TaskGotTheDurable, DurableHasEvidence
    <3>2. task'[m] # "OPEN"
      BY <1>2, <2>2 DEF TypeOK
    <3>3. Agrees(w)'
      BY <1>6, <2>1, <2>2, <3>2
    <3>4. QED
      BY <1>1, <1>3, <2>2, <3>1, <3>3, GotoStep
  <2>3. CASE task[m] # "OPEN" /\ Goto(w, "delete") /\ UNCHANGED <<task, mishaps>>
    <3>1. Grows /\ SharedOK' /\ OneReceipt' /\ NothingIsLost'
      BY <1>2, <2>1, <2>3, Untold DEF TypeOK, told
    <3>2. Agrees(w)'
      BY <1>6, <2>1, <2>3
    <3>3. QED
      BY <1>1, <1>3, <2>3, <3>1, <3>2, GotoStep
  <2>4. CASE GiveUp(w) /\ UNCHANGED task
    BY <1>2, <1>5, <2>1, <2>4 DEF told, TypeOK
  <2>5. QED
    BY <1>10, <2>2, <2>3, <2>4 DEF FailTask
<1>11. QED
  BY <1>4, <1>7, <1>8, <1>9, <1>10 DEF Callback

\* The service throws: the delivery is quarantined or tried again.
LEMMA FailStep ==
  ASSUME IInv, NEW w \in Workers, Fail(w)
  PROVE  IInv'
<1> DEFINE m == job[w].msg
<1>1. pc[w] \in Working /\ pc[w] # "idle"
  BY DEF Fail, Working
<1>2. TypeOK /\ Agrees(w) /\ UNCHANGED <<received, offered, runs>> /\ UNCHANGED told
  BY <1>1, Delivery DEF Fail, told, durables
<1>3. CASE Goto(w, "quarantine") /\ UNCHANGED mishaps
  <2>1. pc'[w] = "quarantine" /\ job'[w] = job[w]
    BY <1>3, Moved
  <2>2. Agrees(w)'
    BY <1>2, <2>1 DEF Agrees, Answering, told
  <2>3. "quarantine" \in PCs \ {"idle"} /\ "quarantine" \notin Answering
    BY DEF PCs, Answering
  <2>4. QED
    BY <1>1, <1>2, <1>3, <2>2, <2>3, SilentGoto
<1>4. CASE GiveUp(w)
  BY <1>2, <1>4, GiveUpStep DEF TypeOK
<1>5. QED
  BY <1>3, <1>4 DEF Fail

\* SQS shows a message again, a task times out.
LEMMA OutsideStep ==
  ASSUME IInv, NEW m \in Messages, Reappear(m) \/ TimeOut(m)
  PROVE  IInv'
<1>1. TypeOK /\ OneReceipt /\ NothingIsLost /\ UNCHANGED <<pc, job>>
  BY DEF IInv, Reappear, TimeOut
<1>2. CASE Reappear(m)
  <2>1. Grows /\ SharedOK' /\ OneReceipt' /\ NothingIsLost'
    BY <1>1, <1>2 DEF Reappear, durables, TypeOK, Grows, SharedOK, OneReceipt, NothingIsLost,
       DeletedIsClosed, FailedIsQuarantined, TaskGotTheDurable, DurableHasEvidence
  <2>2. TypeOK'
    BY <1>1, <2>1 DEF TypeOK, SharedOK
  <2>3. QED
    BY <1>1, <2>1, <2>2, OthersAgree DEF IInv
<1>3. CASE TimeOut(m)
  <2>1. Grows /\ SharedOK' /\ OneReceipt' /\ NothingIsLost'
    BY <1>1, <1>3 DEF TimeOut, durables, TypeOK, Grows, SharedOK, OneReceipt, NothingIsLost,
       DeletedIsClosed, FailedIsQuarantined, TaskGotTheDurable, DurableHasEvidence
  <2>2. TypeOK'
    BY <1>1, <2>1 DEF TypeOK, SharedOK
  <2>3. QED
    BY <1>1, <2>1, <2>2, OthersAgree DEF IInv
<1>4. QED
  BY <1>2, <1>3

-----------------------------------------------------------------------------
(* The theorems *)

\* The inductive invariant holds in every state.
THEOREM Invariant == Spec => []IInv
<1>1. Init => IInv
  <2> SUFFICES ASSUME Init
               PROVE  IInv
    OBVIOUS
  <2>1. NoJob \in Job /\ "idle" \in PCs /\ "idle" \notin Answering
    BY QueueAssumption DEF NoJob, Job, PCs, Answering
  <2>2. TypeOK
    BY <2>1, QueueAssumption DEF Init, TypeOK
  <2>3. QED
    BY <2>2 DEF Init, IInv, OneReceipt, NothingIsLost, DeletedIsClosed, FailedIsQuarantined,
       TaskGotTheDurable, DurableHasEvidence
<1>2. IInv /\ [Next]_vars => IInv'
  <2> SUFFICES ASSUME IInv, [Next]_vars
               PROVE  IInv'
    OBVIOUS
  <2>1. ASSUME NEW w \in Workers, NEW m \in Messages, Receive(w, m)
        PROVE  IInv'
    BY <2>1, ReceiveStep
  <2>2. ASSUME NEW w \in Workers, Begin(w)
        PROVE  IInv'
    <3> DEFINE next == IF kind[job[w].msg] = "audit" THEN "get" ELSE "remediate"
    <3>1. /\ pc[w] # "idle" /\ AssertActive(w, next) /\ UNCHANGED <<received, offered, runs>>
          /\ UNCHANGED told
      BY <2>2 DEF Begin, told, durables
    <3>2. next \in {"get", "remediate"} /\ next \in PCs \ {"idle", "delete"} /\ next \notin Answering
      BY DEF PCs, Working, Answering
    <3>3. QED
      BY <3>1, <3>2, HeartbeatStep
  <2>3. ASSUME NEW w \in Workers, Renew(w) \/ Fail(w) \/ Service(w) \/ Callback(w)
        PROVE  IInv'
    BY <2>3, RenewStep, FailStep, ServiceStep, CallbackStep
  <2>4. ASSUME NEW w \in Workers, Abandon(w)
        PROVE  IInv'
    BY <2>4, GiveUpStep DEF Abandon, told, durables, IInv, TypeOK
  <2>5. ASSUME NEW m \in Messages, Reappear(m) \/ TimeOut(m)
        PROVE  IInv'
    BY <2>5, OutsideStep
  <2>6. CASE UNCHANGED vars
    BY <2>6 DEF vars, durables, IInv, TypeOK, OneReceipt, NothingIsLost, DeletedIsClosed,
       FailedIsQuarantined, TaskGotTheDurable, DurableHasEvidence, Agrees
  <2>7. QED
    BY <2>1, <2>2, <2>3, <2>4, <2>5, <2>6 DEF Next
<1>3. QED
  BY <1>1, <1>2, PTL DEF Spec

\* Every variable keeps its type: a worker answers only with a result, and holds a
\* job exactly while it is busy (AwsQueueWorker.process).
THEOREM TypeCorrect == Spec => []TypeOK
  BY Invariant, PTL DEF IInv

\* No message is lost, for any number of deliveries, failures and lost responses: what
\* left the queue is closed, what was closed as failed is on record, and what was
\* closed as done told the one durable result, whose evidence is stored
\* (AwsQueueWorker, AuditWorkerService.audit, DynamoAuditResultCheckpoint).
THEOREM NoMessageIsLost == Spec => []NothingIsLost
  BY Invariant, PTL DEF IInv

=============================================================================
