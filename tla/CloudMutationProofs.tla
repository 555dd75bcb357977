------------------------ MODULE CloudMutationProofs ------------------------
(***************************************************************************)
(* Theorems about CloudMutation, for every value of its constants: however *)
(* often records are delivered again, whatever answers are lost and for    *)
(* any times of the lease, the window and the functions, at most one       *)
(* request is sent, after its authorization was consumed, and a SUCCEEDED  *)
(* receipt stands for a write that was carried out.                        *)
(***************************************************************************)
EXTENDS CloudMutation, TLAPS

\* TypeOK in two parts, for provers that are good at one of them each.
Bits == tagged \in BOOLEAN /\ applied \in BOOLEAN

Items ==
  /\ now \in 0..MaxTime
  /\ session \in [state : {"ACTIVE", "EXPIRED", "STOPPED"}, at : Times]
  /\ job \in Job /\ record \in Record /\ worker \in Worker
  /\ reset \in Reset /\ resetter \in Resetter
  /\ wire \subseteq {"add", "remove"}
  /\ sent \in Nat
  /\ mishaps \in 0..MaxMishaps /\ edits \in 0..MaxEdits

\* Deliveries are counted, and a record that waits has one left.
Counted ==
  /\ job.state = "ABSENT" => record = "none" /\ job.phase = "none"
  /\ record = "none" => worker.attempt = 0
  /\ record = "waiting" => worker.attempt <= MaxRetries
  /\ worker.pc # "idle" => record = "delivered"
  /\ session.state = "ACTIVE" => reset.record = "none"
  /\ reset.record = "none" => resetter.attempt = 0
  /\ reset.record = "waiting" => resetter.attempt <= MaxRetries
  /\ resetter.pc # "idle" => reset.record = "delivered"

Acknowledged == {"PROVIDER_ACKNOWLEDGED", "VERIFIED"}

Consumed == job.phase # "none" /\ job.consumed <= job.expires

\* The ledger knows of every request, and of what came of it.
LedgerLeads ==
  /\ sent <= 1
  /\ sent > 0 => Consumed
  /\ worker.pc = "send" => sent = 0 /\ Consumed
  /\ worker.pc = "ack" => applied = TRUE
  /\ worker.pc = "recover" => job.phase # "none"
  /\ worker.pc \in {"after", "verify"} => job.phase \in Acknowledged
  /\ job.phase \in Acknowledged => applied = TRUE
  /\ worker.pc = "succeed" => job.phase = "VERIFIED"
  /\ job.state = "SUCCEEDED" => job.phase = "VERIFIED"

\* A worker between its claim and its receipt has the job, and works for a session
\* that was active when it was delivered.
Holding == worker.pc \notin {"idle", "claim", "release"} => job.state = "RUNNING"

Timely ==
  /\ worker.pc # "idle" => worker.started <= now /\ now <= worker.started + ExecTime
  /\ worker.pc \in {"authorize", "before", "begin", "send"} => worker.valid = TRUE
  /\ worker.pc # "idle" /\ worker.valid = TRUE /\ session.state # "ACTIVE" =>
       worker.started <= session.at

Sound == Holding /\ Timely /\ HandledIsTerminal

\* The inductive invariant.
IInv == Items /\ Bits /\ Counted /\ LedgerLeads /\ Sound

LEMMA InitIInv == Init => IInv
<1> USE TimesAssumption DEF Init
<1>1. Init => Items
  BY DEF Items, Times, Terminal, WorkerSteps, Job, Worker, Record, Reset, Resetter
<1>2. Init => Bits
  BY DEF Bits
<1>3. Init => Counted
  BY DEF Counted
<1>4. Init => LedgerLeads
  BY DEF LedgerLeads, Acknowledged
<1>5. Init => Sound
  BY DEF Sound, Holding, Timely, HandledIsTerminal
<1> QED
  BY <1>1, <1>2, <1>3, <1>4, <1>5 DEF IInv

-----------------------------------------------------------------------------
(* Types.                                                                  *)

\* The instants the code computes from the clock.
LEMMA TimesFacts ==
  ASSUME NEW n \in 0..MaxTime
  PROVE  /\ 0 \in Times /\ n \in Times /\ n + LeaseTime \in Times
         /\ n + Window < ApprovalTime => n + Window \in Times
         /\ ~(n + Window < ApprovalTime) => ApprovalTime \in Times
BY TimesAssumption DEF Times

\* The worker's locals stay typed after Go and ReadBefore.
LEMMA GoType ==
  ASSUME worker \in Worker, NEW p \in WorkerSteps, NEW c \in Times
  PROVE  [worker EXCEPT !.pc = p] \in Worker /\ [worker EXCEPT !.pc = p, !.consumed = c] \in Worker
BY DEF Worker

\* The same for a delivery that failed.
LEMMA AttemptType ==
  ASSUME worker \in Worker, NEW a \in 0..(MaxRetries + 1)
  PROVE  [worker EXCEPT !.attempt = a] \in Worker
BY DEF Worker

\* And for an invocation that starts.
LEMMA InvocationType ==
  ASSUME NEW p \in WorkerSteps, NEW a \in 0..(MaxRetries + 1), NEW at \in Times, NEW v \in BOOLEAN
  PROVE  [pc |-> p, attempt |-> a, started |-> at, valid |-> v, consumed |-> 0] \in Worker
BY TimesAssumption DEF Worker, Times

\* An invocation that ended.
LEMMA IdleType == ASSUME worker \in Worker, Idle PROVE worker' \in Worker
<1>1. worker.attempt \in 0..(MaxRetries + 1) /\ 0 \in Times /\ "idle" \in WorkerSteps
  BY TimesAssumption DEF Worker, Times, WorkerSteps
<1> QED
  BY <1>1, InvocationType DEF Idle

\* A step that does nothing but go to the next one, at the cost of a mishap.
LEMMA Stepped ==
  ASSUME Items, Well \/ Mishap, NEW p \in WorkerSteps, Go(p),
         UNCHANGED <<worked, job, record, wire, sent>>
  PROVE  Items'
<1>1. worker' \in Worker
  BY GoType, TimesFacts DEF Items, Go
<1> QED
  BY <1>1, TimesAssumption DEF Items, Well, Mishap, worked

\* What the caller of a conditional write may conclude from its outcome.
LEMMA OutcomeFacts ==
  ASSUME NEW holds \in BOOLEAN, NEW new \in Job, NEW r \in Outcomes(holds, new), Wrote(r),
         job \in Job, mishaps \in 0..MaxMishaps
  PROVE  /\ r.job = job' /\ job' \in Job /\ mishaps' \in 0..MaxMishaps
         /\ job' = job \/ (holds /\ job' = new)
         /\ r.is \in {"ok", "refused", "error"}
         /\ r.is = "ok" => holds /\ job' = new
<1> DEFINE after == IF holds THEN new ELSE job
           Clear == [job |-> after, is |-> IF holds THEN "ok" ELSE "refused", cost |-> 0]
           Lost == {[job |-> j, is |-> "error", cost |-> 1] : j \in {job, after}}
           Repeated == IF holds THEN {[job |-> new, is |-> "refused", cost |-> 1]} ELSE {}
<1>1. r = Clear \/ (r \in Lost \cup Repeated /\ mishaps < MaxMishaps)
  BY DEF Outcomes
<1>2. /\ r.job = job \/ (holds /\ r.job = new)
      /\ r.is \in {"ok", "refused", "error"}
      /\ r.is = "ok" => holds /\ r.job = new
      /\ r.cost = 0 \/ (r.cost = 1 /\ mishaps < MaxMishaps)
  <2>1. CASE holds
    BY <1>1, <2>1
  <2>2. CASE ~holds
    BY <1>1, <2>2
  <2> QED BY <2>1, <2>2
<1>3. mishaps' \in 0..MaxMishaps
  BY <1>2, TimesAssumption DEF Wrote
<1> QED
  BY <1>2, <1>3 DEF Wrote


\* A step that writes the job, and goes on or ends the invocation.
LEMMA Written ==
  ASSUME Items, job' \in Job, mishaps' \in 0..MaxMishaps,
         \/ \E p \in WorkerSteps : Go(p) /\ UNCHANGED record
         \/ Handled
         \/ Report,
         UNCHANGED <<worked, wire, sent>>,
         Counted, worker.pc # "idle", job'.state = "ABSENT" => job' = job
  PROVE  Items' /\ Counted'
<1>1. worker' \in Worker
  BY GoType, IdleType, TimesFacts DEF Items, Go, Handled, Report
<1>2. Items'
  BY <1>1 DEF Items, Handled, Report, Record, worked
<1>3. worker'.attempt = worker.attempt
  BY DEF Items, Worker, Go, Handled, Report, Idle
<1>4. worker'.pc = "idle" \/ record' = record
  BY DEF Idle, Handled, Report
<1>5. record' \in {record, "handled", "discarded"} \/ (record' = "waiting" /\ worker.attempt <= MaxRetries)
  BY TimesAssumption DEF Items, Worker, Handled, Report
<1>6. Counted'
  BY <1>3, <1>4, <1>5 DEF Counted, worked
<1> QED
  BY <1>2, <1>6

\* A step after which the worker is at none of the places that LedgerLeads speaks
\* of, and the ledger in the job is the same.
LEMMA LedgerFrame ==
  ASSUME LedgerLeads, UNCHANGED <<sent, applied>>,
         job'.phase = job.phase, job'.consumed = job.consumed, job'.expires = job.expires,
         job'.state = "SUCCEEDED" => job.state = "SUCCEEDED" \/ job.phase = "VERIFIED",
         worker'.pc \in {"idle", "authorize", "fail", "release"}
  PROVE  LedgerLeads'
BY DEF LedgerLeads, Consumed

-----------------------------------------------------------------------------
(* The worker's steps.                                                     *)

\* A job is created once, so its ledger is empty.
LEMMA DispatchStep == ASSUME IInv, Dispatch PROVE IInv'
<1>1. Items'
  <2> DEFINE e == IF now + Window < ApprovalTime THEN now + Window ELSE ApprovalTime
  <2>1. e \in Times
    BY TimesFacts DEF IInv, Items
  <2>2. job' = [job EXCEPT !.state = "QUEUED", !.expires = e]
    BY DEF Dispatch
  <2> HIDE DEF e
  <2>3. job' \in Job
    BY <2>1, <2>2 DEF Job, IInv, Items
  <2> QED
    BY <2>3, TimesAssumption DEF Dispatch, IInv, Items, Record, datahub
<1>2. Bits'
  BY DEF Dispatch, datahub, Bits, IInv
<1>3. Counted'
  BY TimesAssumption DEF Dispatch, datahub, Items, Counted, Job, Worker, IInv
<1>4. LedgerLeads'
  BY TimesAssumption DEF Dispatch, datahub, Items, LedgerLeads, Counted, Consumed,
     Acknowledged, Job, Worker, IInv
<1>5. Sound'
  <2>1. Holding' /\ HandledIsTerminal'
    BY DEF Dispatch, datahub, IInv, Items, Sound, Holding, HandledIsTerminal, Counted, Job,
       Worker, Terminal
  <2>2. Timely'
    BY TimesAssumption DEF Dispatch, datahub, IInv, Items, Sound, Timely, Worker
  <2> QED
    BY <2>1, <2>2 DEF Sound
<1> QED
  BY <1>1, <1>2, <1>3, <1>4, <1>5 DEF IInv

\* A delivery starts an invocation whose context is checked against the session.
LEMMA DeliverStep == ASSUME IInv, Deliver PROVE IInv'
<1>1. Items'
  <2>1. worker.attempt + 1 \in 0..(MaxRetries + 1)
    BY TimesAssumption DEF Deliver, IInv, Items, Counted, Worker
  <2>2. now \in Times /\ worker \in Worker
    BY TimesFacts DEF IInv, Items
  <2>3. (session.state = "ACTIVE") \in BOOLEAN /\ FALSE \in BOOLEAN /\ "claim" \in WorkerSteps
    BY DEF WorkerSteps
  <2>4. \/ worker' = [pc |-> "claim", attempt |-> worker.attempt + 1, started |-> now,
                      valid |-> session.state = "ACTIVE", consumed |-> 0]
        \/ worker' = [pc |-> "claim", attempt |-> worker.attempt + 1, started |-> now,
                      valid |-> FALSE, consumed |-> 0]
        \/ worker' = [worker EXCEPT !.attempt = worker.attempt + 1]
    BY DEF Deliver
  <2>5. worker' \in Worker
    BY <2>1, <2>2, <2>3, <2>4, InvocationType, AttemptType, ZenonT(30)
  <2> QED
    BY <2>5, TimesAssumption DEF Deliver, IInv, Items, Record, worked, datahub, Well, Mishap
<1>2. Bits'
  BY DEF Deliver, worked, datahub, Bits, IInv
<1>3. Counted'
  BY TimesAssumption DEF Deliver, worked, datahub, Items, Counted, Job, Worker, Well, Mishap,
     IInv
<1>4. LedgerLeads'
  BY TimesAssumption DEF Deliver, worked, datahub, Items, LedgerLeads, Counted, Consumed,
     Acknowledged, Job, Worker, Well, Mishap, IInv
<1>5. Sound'
  <2>1. Holding' /\ HandledIsTerminal'
    BY DEF Deliver, worked, datahub, IInv, Items, Sound, Holding, HandledIsTerminal, Counted,
       Worker
  <2>2. Timely'
    <3>1. worker'.pc # "idle" => worker'.pc = "claim" /\ worker'.started = now
      BY DEF Deliver, IInv, Items, Worker
    <3>2. \/ worker'.pc = "idle" \/ worker'.valid = FALSE
          \/ worker'.valid = (session.state = "ACTIVE")
      BY DEF Deliver, IInv, Items, Worker
    <3>3. session.state # "ACTIVE" => worker'.pc = "idle" \/ worker'.valid = FALSE
      BY <3>2
    <3>4. now \in Nat /\ UNCHANGED <<now, session>>
      BY DEF Deliver, worked, IInv, Items
    <3> QED
      BY <3>1, <3>3, <3>4, TimesAssumption DEF Timely
  <2> QED
    BY <2>1, <2>2 DEF Sound
<1> QED
  BY <1>1, <1>2, <1>3, <1>4, <1>5 DEF IInv

\* The authorization is only read.
LEMMA AuthorizeStep == ASSUME IInv, Authorize PROVE IInv'
<1>1. Items'
  <2>1. PICK p \in {"release", "fail", "before", "recover"} : Go(p) /\ (Well \/ Mishap)
    BY DEF Authorize
  <2> QED
    BY <2>1, Stepped DEF Authorize, IInv, datahub, WorkerSteps
<1>2. Bits'
  BY DEF Authorize, worked, datahub, Bits, IInv
<1>3. Counted'
  BY TimesAssumption DEF Authorize, worked, datahub, Items, Counted, Job, Worker, Well, Mishap,
     Go, IInv
<1>4. LedgerLeads'
  BY TimesAssumption DEF Authorize, worked, datahub, Items, LedgerLeads, Counted, Consumed,
     Acknowledged, Job, Worker, Well, Mishap, Go, IInv
<1>5. Sound'
  <2>1. Holding' /\ HandledIsTerminal'
    BY DEF Authorize, worked, datahub, IInv, Items, Sound, Holding, HandledIsTerminal, Counted,
       Job, Worker, Terminal, Well, Mishap, Go
  <2>2. Timely'
    BY TimesAssumption DEF Authorize, worked, datahub, IInv, Items, Sound, Timely, Worker,
       Well, Mishap, Go
  <2> QED
    BY <2>1, <2>2 DEF Sound
<1> QED
  BY <1>1, <1>2, <1>3, <1>4, <1>5 DEF IInv

\* The column is only read.
LEMMA ReadBeforeStep == ASSUME IInv, ReadBefore PROVE IInv'
<1>1. Items'
  <2>1. now \in Times /\ worker \in Worker /\ {"fail", "begin"} \subseteq WorkerSteps
    BY TimesFacts DEF IInv, Items, WorkerSteps
  <2>2. worker' = [worker EXCEPT !.pc = "fail"] \/ worker' = [worker EXCEPT !.pc = "begin", !.consumed = now]
    BY DEF ReadBefore, Go
  <2>3. mishaps' \in 0..MaxMishaps
    BY TimesAssumption DEF ReadBefore, IInv, Items, Well, Mishap
  <2>4. worker' \in Worker
    BY <2>1, <2>2, GoType
  <2> QED
    BY <2>3, <2>4 DEF ReadBefore, IInv, Items, worked, datahub
<1>2. Bits'
  BY DEF ReadBefore, worked, datahub, Bits, IInv
<1>3. Counted'
  BY TimesAssumption DEF ReadBefore, worked, datahub, Items, Counted, Job, Worker, Well,
     Mishap, Go, IInv
<1>4. LedgerLeads'
  BY TimesAssumption DEF ReadBefore, worked, datahub, Items, LedgerLeads, Counted, Consumed,
     Acknowledged, Job, Worker, Well, Mishap, Go, IInv
<1>5. Sound'
  <2>1. Holding' /\ HandledIsTerminal'
    BY DEF ReadBefore, worked, datahub, IInv, Items, Sound, Holding, HandledIsTerminal,
       Counted, Job, Worker, Terminal, Well, Mishap, Go
  <2>2. Timely'
    BY TimesAssumption DEF ReadBefore, worked, datahub, IInv, Items, Sound, Timely, Worker,
       Well, Mishap, Go
  <2> QED
    BY <2>1, <2>2 DEF Sound
<1> QED
  BY <1>1, <1>2, <1>3, <1>4, <1>5 DEF IInv

\* The one request of a worker that consumed the authorization itself.
LEMMA SendStep == ASSUME IInv, Send PROVE IInv'
<1>1. Items'
  <2>1. Items
    BY DEF IInv
  <2> QED
    BY <2>1, TimesAssumption DEF Send, Items, Worker, WorkerSteps, worked, Well, Mishap, Go
<1>2. Bits'
  BY DEF Send, worked, Bits, IInv
<1>3. Counted'
  BY TimesAssumption DEF Send, worked, Items, Counted, Job, Worker, Well, Mishap, Go, IInv
<1>4. LedgerLeads'
  BY TimesAssumption DEF Send, worked, Items, LedgerLeads, Counted, Consumed, Acknowledged,
     Job, Worker, Well, Mishap, Go, IInv
<1>5. Sound'
  <2>1. Holding' /\ HandledIsTerminal'
    BY DEF Send, worked, IInv, Items, Sound, Holding, HandledIsTerminal, Counted, Job, Worker,
       Terminal, Well, Mishap, Go
  <2>2. Timely'
    BY TimesAssumption DEF Send, worked, IInv, Items, Sound, Timely, Worker, Well, Mishap, Go
  <2> QED
    BY <2>1, <2>2 DEF Sound
<1> QED
  BY <1>1, <1>2, <1>3, <1>4, <1>5 DEF IInv

\* The column is only read.
LEMMA ReadAfterStep == ASSUME IInv, ReadAfter PROVE IInv'
<1>1. Items'
  <2>1. PICK p \in {"fail", "verify"} : Go(p) /\ (Well \/ Mishap)
    BY DEF ReadAfter
  <2> QED
    BY <2>1, Stepped DEF ReadAfter, IInv, datahub, WorkerSteps
<1>2. Bits'
  BY DEF ReadAfter, worked, datahub, Bits, IInv
<1>3. Counted'
  BY TimesAssumption DEF ReadAfter, worked, datahub, Items, Counted, Job, Worker, Well, Mishap,
     Go, IInv
<1>4. LedgerLeads'
  BY TimesAssumption DEF ReadAfter, worked, datahub, Items, LedgerLeads, Counted, Consumed,
     Acknowledged, Job, Worker, Well, Mishap, Go, IInv
<1>5. Sound'
  <2>1. Holding' /\ HandledIsTerminal'
    BY DEF ReadAfter, worked, datahub, IInv, Items, Sound, Holding, HandledIsTerminal, Counted,
       Job, Worker, Terminal, Well, Mishap, Go
  <2>2. Timely'
    BY TimesAssumption DEF ReadAfter, worked, datahub, IInv, Items, Sound, Timely, Worker,
       Well, Mishap, Go
  <2> QED
    BY <2>1, <2>2 DEF Sound
<1> QED
  BY <1>1, <1>2, <1>3, <1>4, <1>5 DEF IInv

\* Recovery never sends.
LEMMA RecoverStep == ASSUME IInv, Recover PROVE IInv'
<1>1. Items'
  <2>1. PICK p \in {"fail", "succeed", "verify"} : Go(p) /\ (Well \/ Mishap)
    BY DEF Recover, Recovery
  <2> QED
    BY <2>1, Stepped DEF Recover, IInv, datahub, WorkerSteps
<1>2. Bits'
  BY DEF Recover, worked, datahub, Recovery, Bits, IInv
<1>3. Counted'
  BY TimesAssumption DEF Recover, worked, datahub, Recovery, Items, Counted, Job, Worker, Well,
     Mishap, Go, IInv
<1>4. LedgerLeads'
  BY TimesAssumption DEF Recover, worked, datahub, Recovery, Items, LedgerLeads, Counted,
     Consumed, Acknowledged, Job, Worker, Well, Mishap, Go, IInv
<1>5. Sound'
  <2>1. Holding' /\ HandledIsTerminal'
    BY DEF Recover, worked, datahub, Recovery, IInv, Items, Sound, Holding, HandledIsTerminal,
       Counted, Job, Worker, Terminal, Well, Mishap, Go
  <2>2. Timely'
    BY TimesAssumption DEF Recover, worked, datahub, Recovery, IInv, Items, Sound, Timely,
       Worker, Well, Mishap, Go
  <2> QED
    BY <2>1, <2>2 DEF Sound
<1> QED
  BY <1>1, <1>2, <1>3, <1>4, <1>5 DEF IInv

\* An invocation that dies changes nothing but its record.
LEMMA DieStep == ASSUME IInv, Die PROVE IInv'
<1>1. Items'
  <2>1. worker' \in Worker
    BY IdleType DEF Die, Report, IInv, Items
  <2> QED
    BY <2>1, TimesAssumption DEF Die, Report, IInv, Items, Record, worked, datahub, Well, Mishap
<1>2. Bits'
  BY DEF Die, worked, datahub, Bits, IInv
<1>3. Counted'
  BY TimesAssumption DEF Die, worked, datahub, Items, Counted, Job, Worker, Well, Mishap, Idle,
     Report, IInv
<1>4. LedgerLeads'
  BY TimesAssumption DEF Die, worked, datahub, Items, LedgerLeads, Counted, Consumed,
     Acknowledged, Job, Worker, Well, Mishap, Idle, Report, IInv
<1>5. Sound'
  <2>1. Holding' /\ HandledIsTerminal'
    BY DEF Die, worked, datahub, IInv, Items, Sound, Holding, HandledIsTerminal, Counted, Job,
       Worker, Terminal, Well, Mishap, Idle, Report
  <2>2. Timely'
    BY TimesAssumption DEF Die, worked, datahub, IInv, Items, Sound, Timely, Worker, Well,
       Mishap, Idle, Report
  <2> QED
    BY <2>1, <2>2 DEF Sound
<1> QED
  BY <1>1, <1>2, <1>3, <1>4, <1>5 DEF IInv

\* A claim changes state, owner and lease, never the ledger.
LEMMA ClaimStep == ASSUME IInv, Claim PROVE IInv'
<1> DEFINE new == [job EXCEPT !.state = "RUNNING", !.owner = worker.attempt, !.lease = now + LeaseTime]
<1>1. new \in Job
  <2>1. 0 \in Times /\ 0 \in 0..(MaxRetries + 1) /\ now + LeaseTime \in Times
    BY TimesFacts, TimesAssumption DEF IInv, Items
  <2> QED
    BY <2>1 DEF IInv, Items, Job, Worker, Terminal
<1>2. Claimable \in BOOLEAN
  BY DEF Claimable
<1>3. PICK r \in Outcomes(Claimable, new) :
        /\ Wrote(r)
        /\ \/ r.is = "ok" /\ Go(Context) /\ UNCHANGED record
           \/ r.is = "refused" /\ r.job.state \in Terminal /\ Handled
           \/ r.is = "refused" /\ r.job.state \notin Terminal /\ Report
           \/ r.is = "error" /\ Report
  BY DEF Claim
<1>4. /\ r.job = job' /\ job' \in Job /\ mishaps' \in 0..MaxMishaps
      /\ job' = job \/ (Claimable /\ job' = new)
      /\ r.is \in {"ok", "refused", "error"}
      /\ r.is = "ok" => Claimable /\ job' = new
  BY <1>1, <1>2, <1>3, OutcomeFacts DEF IInv, Items
<1>5. Items' /\ Counted'
  <2>1. \/ \E p \in WorkerSteps : Go(p) /\ UNCHANGED record
        \/ Handled
        \/ Report
    BY <1>3, <1>4 DEF Claim, Context, WorkerSteps
  <2>2. job'.state = "ABSENT" => job' = job
    BY <1>4 DEF IInv, Items, Job, Claimable
  <2> QED
    BY <2>1, <2>2, <1>4, Written DEF Claim, IInv, datahub
<1>6. Bits'
  BY DEF Claim, datahub, Bits, IInv
<1>7. LedgerLeads'
  <2>1. /\ job'.phase = job.phase /\ job'.consumed = job.consumed /\ job'.expires = job.expires
        /\ job'.state = "SUCCEEDED" => job.state = "SUCCEEDED"
    BY <1>4 DEF IInv, Items, Job
  <2>2. worker'.pc \in {"idle", "authorize", "fail"}
    BY <1>3, <1>4 DEF IInv, Items, Worker, Go, Idle, Handled, Report, Context
  <2> QED
    BY <2>1, <2>2, LedgerFrame DEF Claim, IInv, datahub
<1>8. Sound'
  <2>1. Holding' /\ HandledIsTerminal'
    <3>1. r.is = "ok" => job'.state = "RUNNING"
      BY <1>4 DEF IInv, Items, Job
    <3>2. /\ worker'.pc = "idle" \/ (r.is = "ok" /\ UNCHANGED record)
          /\ record' = "handled" => job'.state \in Terminal
      BY <1>3, <1>4 DEF Claim, IInv, Items, Worker, Counted, Idle, Handled, Report
    <3> QED
      BY <3>1, <3>2 DEF Holding, HandledIsTerminal, Terminal
  <2>2. Timely'
    BY <1>3, <1>4, TimesAssumption DEF Claim, Context, IInv, Items, Sound, Timely, Worker,
       worked, Go, Idle, Handled, Report
  <2> QED
    BY <2>1, <2>2 DEF Sound
<1> QED
  BY <1>5, <1>6, <1>7, <1>8 DEF IInv

\* The ledger is written before the request, and only a first write leads to one.
LEMMA BeginStep == ASSUME IInv, Begin PROVE IInv'
<1> DEFINE new == [job EXCEPT !.phase = "AUTHORIZED", !.consumed = worker.consumed]
<1>1. new \in Job
  <2>1. 0 \in Times /\ 0 \in 0..(MaxRetries + 1) /\ now + LeaseTime \in Times
    BY TimesFacts, TimesAssumption DEF IInv, Items
  <2> QED
    BY <2>1 DEF IInv, Items, Job, Worker, Terminal
<1>2. Consumable \in BOOLEAN
  BY DEF Consumable, Owned
<1>3. PICK r \in Outcomes(Consumable, new) :
        /\ Wrote(r)
        /\ Go(Begun(r))
  BY DEF Begin
<1>4. /\ r.job = job' /\ job' \in Job /\ mishaps' \in 0..MaxMishaps
      /\ job' = job \/ (Consumable /\ job' = new)
      /\ r.is \in {"ok", "refused", "error"}
      /\ r.is = "ok" => Consumable /\ job' = new
  BY <1>1, <1>2, <1>3, OutcomeFacts DEF IInv, Items
<1>5. Items' /\ Counted'
  <2>1. \/ \E p \in WorkerSteps : Go(p) /\ UNCHANGED record
        \/ Handled
        \/ Report
    BY <1>3, <1>4 DEF Begin, Begun, WorkerSteps
  <2>2. job'.state = "ABSENT" => job' = job
    BY <1>4 DEF IInv, Items, Job, Consumable, Owned
  <2> QED
    BY <2>1, <2>2, <1>4, Written DEF Begin, IInv, datahub
<1>6. Bits'
  BY DEF Begin, datahub, Bits, IInv
<1>7. LedgerLeads'
  <2>1. \/ worker'.pc = "fail" \/ worker'.pc = "release"
        \/ worker'.pc = "recover" /\ job'.phase # "none"
        \/ worker'.pc = "send" /\ Consumable /\ job' = new /\ worker.consumed <= job.expires
    BY <1>3, <1>4 DEF IInv, Items, Worker, Go, Begun
  <2>2. \/ job' = job
        \/ job.phase = "none" /\ job'.phase = "AUTHORIZED" /\ job'.expires = job.expires
             /\ job'.state = job.state
    BY <1>4 DEF IInv, Items, Job, Consumable
  <2>3. job' = new => job'.consumed = worker.consumed /\ job'.phase = "AUTHORIZED"
    BY DEF IInv, Items, Job
  <2>4. worker.pc = "begin" /\ UNCHANGED <<sent, applied>>
    BY DEF Begin, datahub
  <2>5. sent \in Nat
    BY DEF IInv, Items
  <2> HIDE DEF new
  <2> QED
    BY <2>1, <2>2, <2>3, <2>4, <2>5 DEF IInv, LedgerLeads, Consumed, Consumable, Owned,
       Acknowledged
<1>8. Sound'
  <2>1. Holding' /\ HandledIsTerminal'
    BY <1>3, <1>4 DEF Begin, Begun, Consumable, Owned, IInv, Items, Sound, Holding,
       HandledIsTerminal, Counted, Job, Worker, Terminal, Go
  <2>2. Timely'
    BY <1>3, <1>4, TimesAssumption DEF Begin, Begun, IInv, Items, Sound, Timely, Worker,
       worked, Go
  <2> QED
    BY <2>1, <2>2 DEF Sound
<1> QED
  BY <1>5, <1>6, <1>7, <1>8 DEF IInv

\* The acknowledgement follows a request that was carried out.
LEMMA AcknowledgeStep == ASSUME IInv, Acknowledge PROVE IInv'
<1> DEFINE new == [job EXCEPT !.phase = "PROVIDER_ACKNOWLEDGED"]
<1>1. new \in Job
  <2>1. 0 \in Times /\ 0 \in 0..(MaxRetries + 1) /\ now + LeaseTime \in Times
    BY TimesFacts, TimesAssumption DEF IInv, Items
  <2> QED
    BY <2>1 DEF IInv, Items, Job, Worker, Terminal
<1>2. (Owned /\ job.phase = "AUTHORIZED") \in BOOLEAN
  BY DEF Owned
<1>3. PICK r \in Outcomes(Owned /\ job.phase = "AUTHORIZED", new) :
        /\ Wrote(r)
        /\ \/ (r.is = "ok" \/ r.job.phase \in {"PROVIDER_ACKNOWLEDGED", "VERIFIED"}) /\ Go("after")
           \/ r.is # "ok" /\ Go("release")
  BY DEF Acknowledge, Advance
<1>4. /\ r.job = job' /\ job' \in Job /\ mishaps' \in 0..MaxMishaps
      /\ job' = job \/ ((Owned /\ job.phase = "AUTHORIZED") /\ job' = new)
      /\ r.is \in {"ok", "refused", "error"}
      /\ r.is = "ok" => (Owned /\ job.phase = "AUTHORIZED") /\ job' = new
  BY <1>1, <1>2, <1>3, OutcomeFacts DEF IInv, Items
<1>5. Items' /\ Counted'
  <2>1. \/ \E p \in WorkerSteps : Go(p) /\ UNCHANGED record
        \/ Handled
        \/ Report
    BY <1>3, <1>4 DEF Acknowledge, Advance, WorkerSteps
  <2>2. job'.state = "ABSENT" => job' = job
    BY <1>4 DEF IInv, Items, Job, Owned
  <2> QED
    BY <2>1, <2>2, <1>4, Written DEF Acknowledge, IInv, datahub
<1>6. Bits'
  BY DEF Acknowledge, datahub, Bits, IInv
<1>7. LedgerLeads'
  <2>1. worker'.pc = "release" \/ (worker'.pc = "after"
                                    /\ job'.phase \in {"PROVIDER_ACKNOWLEDGED", "VERIFIED"})
    BY <1>3, <1>4 DEF IInv, Items, Worker, Job, Go
  <2>2. job' = job \/ (job'.phase = "PROVIDER_ACKNOWLEDGED" /\ job.phase = "AUTHORIZED"
          /\ job'.consumed = job.consumed /\ job'.expires = job.expires /\ job'.state = job.state)
    BY <1>4 DEF IInv, Items, Job
  <2>3. worker.pc = "ack" /\ UNCHANGED <<sent, applied>>
    BY DEF Acknowledge, datahub
  <2> QED
    BY <2>1, <2>2, <2>3 DEF IInv, LedgerLeads, Consumed, Acknowledged
<1>8. Sound'
  <2>1. Holding' /\ HandledIsTerminal'
    BY <1>3, <1>4 DEF Acknowledge, Advance, Owned, IInv, Items, Sound, Holding,
       HandledIsTerminal, Counted, Job, Worker, Terminal, Go
  <2>2. Timely'
    BY <1>3, <1>4, TimesAssumption DEF Acknowledge, Advance, IInv, Items, Sound, Timely,
       Worker, worked, Go
  <2> QED
    BY <2>1, <2>2 DEF Sound
<1> QED
  BY <1>5, <1>6, <1>7, <1>8 DEF IInv

\* A request is verified after it was acknowledged.
LEMMA VerifyStep == ASSUME IInv, Verify PROVE IInv'
<1> DEFINE new == [job EXCEPT !.phase = "VERIFIED"]
<1>1. new \in Job
  <2>1. 0 \in Times /\ 0 \in 0..(MaxRetries + 1) /\ now + LeaseTime \in Times
    BY TimesFacts, TimesAssumption DEF IInv, Items
  <2> QED
    BY <2>1 DEF IInv, Items, Job, Worker, Terminal
<1>2. (Owned /\ job.phase = "PROVIDER_ACKNOWLEDGED") \in BOOLEAN
  BY DEF Owned
<1>3. PICK r \in Outcomes(Owned /\ job.phase = "PROVIDER_ACKNOWLEDGED", new) :
        /\ Wrote(r)
        /\ \/ (r.is = "ok" \/ r.job.phase \in {"VERIFIED"}) /\ Go("succeed")
           \/ r.is # "ok" /\ Go("release")
  BY DEF Verify, Advance
<1>4. /\ r.job = job' /\ job' \in Job /\ mishaps' \in 0..MaxMishaps
      /\ job' = job \/ ((Owned /\ job.phase = "PROVIDER_ACKNOWLEDGED") /\ job' = new)
      /\ r.is \in {"ok", "refused", "error"}
      /\ r.is = "ok" => (Owned /\ job.phase = "PROVIDER_ACKNOWLEDGED") /\ job' = new
  BY <1>1, <1>2, <1>3, OutcomeFacts DEF IInv, Items
<1>5. Items' /\ Counted'
  <2>1. \/ \E p \in WorkerSteps : Go(p) /\ UNCHANGED record
        \/ Handled
        \/ Report
    BY <1>3, <1>4 DEF Verify, Advance, WorkerSteps
  <2>2. job'.state = "ABSENT" => job' = job
    BY <1>4 DEF IInv, Items, Job, Owned
  <2> QED
    BY <2>1, <2>2, <1>4, Written DEF Verify, IInv, datahub
<1>6. Bits'
  BY DEF Verify, datahub, Bits, IInv
<1>7. LedgerLeads'
  <2>1. worker'.pc = "release" \/ (worker'.pc = "succeed" /\ job'.phase \in {"VERIFIED"})
    BY <1>3, <1>4 DEF IInv, Items, Worker, Job, Go
  <2>2. job' = job \/ (job'.phase = "VERIFIED" /\ job.phase = "PROVIDER_ACKNOWLEDGED"
          /\ job'.consumed = job.consumed /\ job'.expires = job.expires /\ job'.state = job.state)
    BY <1>4 DEF IInv, Items, Job
  <2>3. worker.pc = "verify" /\ UNCHANGED <<sent, applied>>
    BY DEF Verify, datahub
  <2> QED
    BY <2>1, <2>2, <2>3 DEF IInv, LedgerLeads, Consumed, Acknowledged
<1>8. Sound'
  <2>1. Holding' /\ HandledIsTerminal'
    BY <1>3, <1>4 DEF Verify, Advance, Owned, IInv, Items, Sound, Holding, HandledIsTerminal,
       Counted, Job, Worker, Terminal, Go
  <2>2. Timely'
    BY <1>3, <1>4, TimesAssumption DEF Verify, Advance, IInv, Items, Sound, Timely, Worker,
       worked, Go
  <2> QED
    BY <2>1, <2>2 DEF Sound
<1> QED
  BY <1>5, <1>6, <1>7, <1>8 DEF IInv

\* SUCCEEDED is written over a verified ledger.
LEMMA SucceedStep == ASSUME IInv, Succeed PROVE IInv'
<1> DEFINE new == [job EXCEPT !.state = "SUCCEEDED", !.lease = 0]
<1>1. new \in Job
  <2>1. 0 \in Times /\ 0 \in 0..(MaxRetries + 1) /\ now + LeaseTime \in Times
    BY TimesFacts, TimesAssumption DEF IInv, Items
  <2> QED
    BY <2>1 DEF IInv, Items, Job, Worker, Terminal
<1>2. Owned \in BOOLEAN
  BY DEF Owned
<1>3. PICK r \in Outcomes(Owned, new) :
        /\ Wrote(r)
        /\ \/ r.is = "ok" /\ Handled
           \/ r.is # "ok" /\ Go("release") /\ UNCHANGED record
  BY DEF Succeed
<1>4. /\ r.job = job' /\ job' \in Job /\ mishaps' \in 0..MaxMishaps
      /\ job' = job \/ (Owned /\ job' = new)
      /\ r.is \in {"ok", "refused", "error"}
      /\ r.is = "ok" => Owned /\ job' = new
  BY <1>1, <1>2, <1>3, OutcomeFacts DEF IInv, Items
<1>5. Items' /\ Counted'
  <2>1. \/ \E p \in WorkerSteps : Go(p) /\ UNCHANGED record
        \/ Handled
        \/ Report
    BY <1>3, <1>4 DEF Succeed, WorkerSteps
  <2>2. job'.state = "ABSENT" => job' = job
    BY <1>4 DEF IInv, Items, Job, Owned
  <2> QED
    BY <2>1, <2>2, <1>4, Written DEF Succeed, IInv, datahub
<1>6. Bits'
  BY DEF Succeed, datahub, Bits, IInv
<1>7. LedgerLeads'
  <2>1. /\ job'.phase = job.phase /\ job'.consumed = job.consumed /\ job'.expires = job.expires
        /\ job'.state = "SUCCEEDED" => job.state = "SUCCEEDED" \/ job.phase = "VERIFIED"
    BY <1>4 DEF IInv, Items, Job, Succeed, LedgerLeads
  <2>2. worker'.pc \in {"idle", "release"}
    BY <1>3, <1>4 DEF IInv, Items, Worker, Go, Idle, Handled
  <2> QED
    BY <2>1, <2>2, LedgerFrame DEF Succeed, IInv, datahub, LedgerLeads
<1>8. Sound'
  <2>1. Holding' /\ HandledIsTerminal'
    <3>1. r.is = "ok" => job'.state = "SUCCEEDED"
      BY <1>4 DEF IInv, Items, Job
    <3>2. /\ worker'.pc \in {"idle", "release"}
          /\ record' = "handled" => r.is = "ok"
      BY <1>3 DEF Succeed, IInv, Items, Worker, Counted, Go, Idle, Handled
    <3> QED
      BY <3>1, <3>2 DEF Holding, HandledIsTerminal, Terminal
  <2>2. Timely'
    BY <1>3, <1>4, TimesAssumption DEF Succeed, IInv, Items, Sound, Timely, Worker, worked, Go,
       Idle, Handled
  <2> QED
    BY <2>1, <2>2 DEF Sound
<1> QED
  BY <1>5, <1>6, <1>7, <1>8 DEF IInv

\* FAILED leaves the ledger as it is.
LEMMA FailStep == ASSUME IInv, Fail PROVE IInv'
<1> DEFINE new == [job EXCEPT !.state = "FAILED", !.lease = 0]
<1>1. new \in Job
  <2>1. 0 \in Times /\ 0 \in 0..(MaxRetries + 1) /\ now + LeaseTime \in Times
    BY TimesFacts, TimesAssumption DEF IInv, Items
  <2> QED
    BY <2>1 DEF IInv, Items, Job, Worker, Terminal
<1>2. Owned \in BOOLEAN
  BY DEF Owned
<1>3. PICK r \in Outcomes(Owned, new) :
        /\ Wrote(r)
        /\ IF r.is = "ok" THEN Handled ELSE Report
  BY DEF Fail
<1>4. /\ r.job = job' /\ job' \in Job /\ mishaps' \in 0..MaxMishaps
      /\ job' = job \/ (Owned /\ job' = new)
      /\ r.is \in {"ok", "refused", "error"}
      /\ r.is = "ok" => Owned /\ job' = new
  BY <1>1, <1>2, <1>3, OutcomeFacts DEF IInv, Items
<1>5. Items' /\ Counted'
  <2>1. \/ \E p \in WorkerSteps : Go(p) /\ UNCHANGED record
        \/ Handled
        \/ Report
    BY <1>3, <1>4 DEF Fail, WorkerSteps
  <2>2. job'.state = "ABSENT" => job' = job
    BY <1>4 DEF IInv, Items, Job, Owned
  <2> QED
    BY <2>1, <2>2, <1>4, Written DEF Fail, IInv, datahub
<1>6. Bits'
  BY DEF Fail, datahub, Bits, IInv
<1>7. LedgerLeads'
  <2>1. /\ job'.phase = job.phase /\ job'.consumed = job.consumed /\ job'.expires = job.expires
        /\ job'.state = "SUCCEEDED" => job.state = "SUCCEEDED"
    BY <1>4 DEF IInv, Items, Job
  <2>2. worker'.pc \in {"idle"}
    BY <1>3, <1>4 DEF IInv, Items, Worker, Idle, Handled, Report
  <2> QED
    BY <2>1, <2>2, LedgerFrame DEF Fail, IInv, datahub
<1>8. Sound'
  <2>1. Holding' /\ HandledIsTerminal'
    <3>1. r.is = "ok" => job'.state = "FAILED"
      BY <1>4 DEF IInv, Items, Job
    <3>2. /\ worker'.pc = "idle"
          /\ record' = "handled" => r.is = "ok"
      BY <1>3 DEF Fail, IInv, Items, Worker, Counted, Idle, Handled, Report
    <3> QED
      BY <3>1, <3>2 DEF Holding, HandledIsTerminal, Terminal
  <2>2. Timely'
    BY <1>3, <1>4, TimesAssumption DEF Fail, IInv, Items, Sound, Timely, Worker, worked, Idle,
       Handled, Report
  <2> QED
    BY <2>1, <2>2 DEF Sound
<1> QED
  BY <1>5, <1>6, <1>7, <1>8 DEF IInv

\* A released job keeps its ledger.
LEMMA ReleaseStep == ASSUME IInv, Release PROVE IInv'
<1> DEFINE new == [job EXCEPT !.state = "QUEUED", !.owner = 0, !.lease = 0]
<1>1. new \in Job
  <2>1. 0 \in Times /\ 0 \in 0..(MaxRetries + 1) /\ now + LeaseTime \in Times
    BY TimesFacts, TimesAssumption DEF IInv, Items
  <2> QED
    BY <2>1 DEF IInv, Items, Job, Worker, Terminal
<1>2. Owned \in BOOLEAN
  BY DEF Owned
<1>3. PICK r \in Outcomes(Owned, new) :
        /\ Wrote(r)
        /\ Report
  BY DEF Release
<1>4. /\ r.job = job' /\ job' \in Job /\ mishaps' \in 0..MaxMishaps
      /\ job' = job \/ (Owned /\ job' = new)
      /\ r.is \in {"ok", "refused", "error"}
      /\ r.is = "ok" => Owned /\ job' = new
  BY <1>1, <1>2, <1>3, OutcomeFacts DEF IInv, Items
<1>5. Items' /\ Counted'
  <2>1. \/ \E p \in WorkerSteps : Go(p) /\ UNCHANGED record
        \/ Handled
        \/ Report
    BY <1>3, <1>4 DEF Release, WorkerSteps
  <2>2. job'.state = "ABSENT" => job' = job
    BY <1>4 DEF IInv, Items, Job, Owned
  <2> QED
    BY <2>1, <2>2, <1>4, Written DEF Release, IInv, datahub
<1>6. Bits'
  BY DEF Release, datahub, Bits, IInv
<1>7. LedgerLeads'
  <2>1. /\ job'.phase = job.phase /\ job'.consumed = job.consumed /\ job'.expires = job.expires
        /\ job'.state = "SUCCEEDED" => job.state = "SUCCEEDED"
    BY <1>4 DEF IInv, Items, Job
  <2>2. worker'.pc \in {"idle"}
    BY <1>3, <1>4 DEF IInv, Items, Worker, Idle, Report
  <2> QED
    BY <2>1, <2>2, LedgerFrame DEF Release, IInv, datahub
<1>8. Sound'
  <2>1. Holding' /\ HandledIsTerminal'
    BY <1>3, <1>4 DEF Release, Owned, IInv, Items, Sound, Holding, HandledIsTerminal, Counted,
       Job, Worker, Terminal, Idle, Report
  <2>2. Timely'
    BY <1>3, <1>4, TimesAssumption DEF Release, IInv, Items, Sound, Timely, Worker, worked,
       Idle, Report
  <2> QED
    BY <2>1, <2>2 DEF Sound
<1> QED
  BY <1>5, <1>6, <1>7, <1>8 DEF IInv

-----------------------------------------------------------------------------
(* The reset's steps and those of the environment.                         *)

\* The end of the session starts the reset.
LEMMA EndSessionStep == ASSUME IInv, EndSession PROVE IInv'
<1>1. Items /\ Counted
  BY DEF IInv
<1>2. Items' /\ Counted'
  BY <1>1, TimesFacts, TimesAssumption DEF EndSession, Items, Counted, Reset, Record, rest,
     datahub
<1>3. Bits'
  BY DEF EndSession, rest, datahub, Bits, IInv
<1>4. LedgerLeads'
  BY DEF EndSession, rest, datahub, IInv, LedgerLeads, Consumed
<1>5. Sound'
  BY <1>1, TimesAssumption DEF EndSession, rest, datahub, Items, IInv, Sound, Holding,
     HandledIsTerminal, Timely, Worker
<1> QED
  BY <1>2, <1>3, <1>4, <1>5 DEF IInv

\* A late request says nothing to the ledger.
LEMMA LandsStep == ASSUME IInv, Lands PROVE IInv'
<1>1. Items /\ Counted
  BY DEF IInv
<1>2. Items' /\ Counted'
  BY <1>1 DEF Lands, Items, Counted, aws
<1>3. Bits'
  BY DEF Lands, aws, Bits, IInv
<1>4. LedgerLeads'
  BY DEF Lands, aws, IInv, LedgerLeads, Consumed
<1>5. Sound'
  BY <1>1, TimesAssumption DEF Lands, aws, Items, IInv, Sound, Holding, HandledIsTerminal,
     Timely, Worker
<1> QED
  BY <1>2, <1>3, <1>4, <1>5 DEF IInv

\* Nor does an edit.
LEMMA EditStep == ASSUME IInv, Edit PROVE IInv'
<1>1. Items /\ Counted
  BY DEF IInv
<1>2. Items' /\ Counted'
  BY <1>1, TimesAssumption DEF Edit, Items, Counted, aws
<1>3. Bits'
  BY DEF Edit, aws, Bits, IInv
<1>4. LedgerLeads'
  BY DEF Edit, aws, IInv, LedgerLeads, Consumed
<1>5. Sound'
  BY <1>1, TimesAssumption DEF Edit, aws, Items, IInv, Sound, Holding, HandledIsTerminal,
     Timely, Worker
<1> QED
  BY <1>2, <1>3, <1>4, <1>5 DEF IInv

\* Time stops at the timeout of an invocation.
LEMMA TickStep == ASSUME IInv, Tick PROVE IInv'
<1>1. Items /\ Counted
  BY DEF IInv
<1>2. Items' /\ Counted'
  BY <1>1, TimesAssumption DEF Tick, Items, Counted, aws, datahub
<1>3. Bits'
  BY DEF Tick, aws, datahub, Bits, IInv
<1>4. LedgerLeads'
  BY DEF Tick, aws, datahub, IInv, LedgerLeads, Consumed
<1>5. Sound'
  <2>1. now \in Nat /\ now' = now + 1 /\ UNCHANGED <<worker, session, job, record>>
    BY <1>1 DEF Tick, aws, Items
  <2>2. worker.pc # "idle" => now < worker.started + ExecTime
    BY DEF Tick, InTime
  <2>3. worker.started \in Nat
    BY <1>1, TimesAssumption DEF Items, Worker, Times
  <2> QED
    BY <2>1, <2>2, <2>3, TimesAssumption DEF IInv, Sound, Holding, HandledIsTerminal, Timely
<1> QED
  BY <1>2, <1>3, <1>4, <1>5 DEF IInv

\* The resets share nothing with the job but the column.
LEMMA ResetBeginStep == ASSUME IInv, ResetBegin PROVE IInv'
<1>1. Items /\ Counted
  BY DEF IInv
<1>2. resetter.attempt + 1 \in 0..(MaxRetries + 1) /\ now \in Times
  BY <1>1, TimesFacts, TimesAssumption DEF ResetBegin, Items, Counted, Resetter
<1>3. \/ resetter' = [resetter EXCEPT !.attempt = resetter.attempt + 1]
      \/ resetter' = [resetter EXCEPT !.pc = "read", !.attempt = resetter.attempt + 1, !.started = now]
  BY DEF ResetBegin
<1>4. resetter' \in Resetter
  BY <1>1, <1>2, <1>3 DEF Items, Resetter
<1>5. reset' \in Reset
  BY <1>1, TimesAssumption DEF ResetBegin, Items, Reset, Record, Redelivered, Ledger
<1>6. Items' /\ Counted'
  <2>1. Items'
    BY <1>1, <1>4, <1>5, TimesAssumption DEF ResetBegin, Items, rest, datahub, Well, Mishap
  <2>2. \/ resetter'.pc = "idle" /\ reset'.record \in {"handled", Redelivered}
        \/ resetter'.pc = "read" /\ reset'.record = "delivered"
    <3>1. resetter.pc = "idle"
      BY DEF ResetBegin
    <3>2. resetter' = [resetter EXCEPT !.attempt = resetter.attempt + 1] => resetter'.pc = "idle"
      BY <1>1, <3>1 DEF Items, Resetter
    <3>3. resetter' = [resetter EXCEPT !.pc = "read", !.attempt = resetter.attempt + 1, !.started = now]
            => resetter'.pc = "read"
      BY <1>1 DEF Items, Resetter
    <3>4. \A phase, item : Ledger(phase, item) => reset'.record = item
      BY <1>1 DEF Items, Reset, Ledger
    <3> QED
      BY <3>2, <3>3, <3>4 DEF ResetBegin
  <2>3. Redelivered = "discarded" \/ (Redelivered = "waiting" /\ resetter'.attempt <= MaxRetries)
    BY <1>4, TimesAssumption DEF Redelivered, Resetter
  <2>4. Counted'
    BY <1>1, <2>2, <2>3 DEF ResetBegin, Items, Counted, rest, datahub
  <2> QED
    BY <2>1, <2>4
<1>7. Bits'
  BY DEF ResetBegin, rest, datahub, Bits, IInv
<1>8. LedgerLeads'
  BY DEF ResetBegin, rest, datahub, IInv, LedgerLeads, Consumed
<1>9. Sound'
  BY <1>1, TimesAssumption DEF ResetBegin, rest, datahub, Items, IInv, Sound, Holding,
     HandledIsTerminal, Timely, Worker
<1> QED
  BY <1>6, <1>7, <1>8, <1>9 DEF IInv

\* What an invocation of the reset may leave: it goes on, or ends with its record.
Ended ==
  /\ resetter'.pc = "idle"
  /\ \/ reset'.record \in {"handled", "discarded"}
     \/ reset'.record = "waiting" /\ resetter.attempt <= MaxRetries

LEMMA ResetFrame ==
  ASSUME Items, Counted, resetter.pc # "idle", UNCHANGED <<rest, session, sent>>,
         Well \/ Mishap, wire' \subseteq {"add", "remove"},
         reset' \in Reset, resetter' \in Resetter, resetter'.attempt = resetter.attempt,
         Ended \/ reset'.record = reset.record
  PROVE  Items' /\ Counted'
<1>1. Items'
  BY TimesAssumption DEF Items, rest, Well, Mishap
<1>2. Counted'
  BY DEF Counted, Items, rest, Ended
<1> QED
  BY <1>1, <1>2

\* The locals of an invocation that ended.
LEMMA ResetIdleFacts ==
  ASSUME Items, ResetIdle
  PROVE  resetter' \in Resetter /\ resetter'.attempt = resetter.attempt /\ resetter'.pc = "idle"
BY TimesFacts DEF Items, Resetter, ResetIdle

\* What the ledger is left with at the end of an invocation.
LEMMA BrokenFacts ==
  ASSUME Items, ResetIdle, NEW item, NEW phase \in {"none", "EXECUTING", "COMPLETE"},
         item = "handled" \/ item = Redelivered
  PROVE  /\ Ledger(phase, item) => reset' \in Reset /\ Ended
         /\ Complete(item) => reset' \in Reset /\ Ended
<1>1. item \in Record
  BY DEF Record, Redelivered
<1>2. \/ item \in {"handled", "discarded"}
      \/ item = "waiting" /\ resetter.attempt <= MaxRetries
  BY ResetIdleFacts, TimesAssumption DEF Redelivered, Items, Resetter
<1>3. Ledger(phase, item) => reset' \in Reset /\ reset'.record = item
  BY <1>1 DEF Items, Reset, Ledger
<1>4. Complete(item) => reset' \in Reset /\ reset'.record = item
  BY <1>1 DEF Items, Reset, Resetter, Complete
<1> QED
  BY <1>2, <1>3, <1>4, ResetIdleFacts DEF Ended

\* An invocation that ends in an exception.
LEMMA BrokenStep ==
  ASSUME Items, ResetBroken
  PROVE  resetter' \in Resetter /\ resetter'.attempt = resetter.attempt /\ reset' \in Reset /\ Ended
<1>1. reset.phase \in {"none", "EXECUTING", "COMPLETE"}
  BY DEF Items, Reset
<1> QED
  BY <1>1, ResetIdleFacts, BrokenFacts DEF ResetBroken

\* See ResetBegin.
LEMMA ResetReadStep == ASSUME IInv, ResetRead PROVE IInv'
<1>1. Items /\ Counted
  BY DEF IInv
<1>2. resetter' \in Resetter /\ resetter'.attempt = resetter.attempt /\ reset' \in Reset
      /\ (Ended \/ reset'.record = reset.record)
  <2>1. CASE ResetBroken
    BY <1>1, <2>1, BrokenStep
  <2>2. CASE ~ResetBroken
    BY <1>1, <2>2, TimesFacts DEF ResetRead, Items, Resetter
  <2> QED
    BY <2>1, <2>2
<1>3. Items' /\ Counted'
  BY <1>1, <1>2, ResetFrame DEF ResetRead, datahub, ResetBroken, Items
<1>4. Bits'
  BY DEF ResetRead, rest, datahub, ResetBroken, Bits, IInv
<1>5. LedgerLeads'
  BY DEF ResetRead, rest, datahub, ResetBroken, IInv, LedgerLeads, Consumed
<1>6. Sound'
  BY <1>1, TimesAssumption DEF ResetRead, rest, datahub, ResetBroken, Items, IInv, Sound,
     Holding, HandledIsTerminal, Timely, Worker
<1> QED
  BY <1>3, <1>4, <1>5, <1>6 DEF IInv

\* See ResetBegin.
LEMMA ResetRemoveStep == ASSUME IInv, ResetRemove PROVE IInv'
<1>1. Items /\ Counted
  BY DEF IInv
<1>2. resetter' \in Resetter /\ resetter'.attempt = resetter.attempt /\ reset' \in Reset
      /\ (Ended \/ reset'.record = reset.record)
  <2>1. CASE ResetBroken
    BY <1>1, <2>1, BrokenStep
  <2>2. CASE ~ResetBroken
    BY <1>1, <2>2, TimesFacts DEF ResetRemove, Resetting, Items, Resetter
  <2> QED
    BY <2>1, <2>2
<1>3. Items' /\ Counted'
  BY <1>1, <1>2, ResetFrame DEF ResetRemove, ResetBroken, Items
<1>4. Bits'
  BY DEF ResetRemove, rest, ResetBroken, Bits, IInv
<1>5. LedgerLeads'
  BY DEF ResetRemove, rest, ResetBroken, IInv, LedgerLeads, Consumed
<1>6. Sound'
  BY <1>1, TimesAssumption DEF ResetRemove, rest, ResetBroken, Items, IInv, Sound, Holding,
     HandledIsTerminal, Timely, Worker
<1> QED
  BY <1>3, <1>4, <1>5, <1>6 DEF IInv

\* See ResetBegin.
LEMMA ResetCheckStep == ASSUME IInv, ResetCheck PROVE IInv'
<1>1. Items /\ Counted
  BY DEF IInv
<1>2. resetter' \in Resetter /\ resetter'.attempt = resetter.attempt /\ reset' \in Reset
      /\ (Ended \/ reset'.record = reset.record)
  <2>1. CASE ResetBroken
    BY <1>1, <2>1, BrokenStep
  <2>2. CASE ResetIdle /\ Ledger(reset.phase, "handled")
    BY <1>1, <2>2, ResetIdleFacts, BrokenFacts DEF Items, Reset
  <2>3. CASE Resetting("complete") /\ UNCHANGED reset
    BY <1>1, <2>3 DEF Resetting, Items, Resetter
  <2> QED
    BY <2>1, <2>2, <2>3 DEF ResetCheck
<1>3. Items' /\ Counted'
  BY <1>1, <1>2, ResetFrame DEF ResetCheck, datahub, ResetBroken, Items
<1>4. Bits'
  BY DEF ResetCheck, rest, datahub, ResetBroken, Bits, IInv
<1>5. LedgerLeads'
  BY DEF ResetCheck, rest, datahub, ResetBroken, IInv, LedgerLeads, Consumed
<1>6. Sound'
  BY <1>1, TimesAssumption DEF ResetCheck, rest, datahub, ResetBroken, Items, IInv, Sound,
     Holding, HandledIsTerminal, Timely, Worker
<1> QED
  BY <1>3, <1>4, <1>5, <1>6 DEF IInv

\* See ResetBegin.
LEMMA ResetCompleteStep == ASSUME IInv, ResetComplete PROVE IInv'
<1>1. Items /\ Counted
  BY DEF IInv
<1>2. resetter' \in Resetter /\ resetter'.attempt = resetter.attempt /\ reset' \in Reset
      /\ (Ended \/ reset'.record = reset.record)
  <2>1. reset.phase \in {"none", "EXECUTING", "COMPLETE"}
    BY <1>1 DEF Items, Reset
  <2> QED
    BY <1>1, <2>1, ResetIdleFacts, BrokenFacts DEF ResetComplete
<1>3. Items' /\ Counted'
  BY <1>1, <1>2, ResetFrame DEF ResetComplete, datahub, Items
<1>4. Bits'
  BY DEF ResetComplete, rest, datahub, Complete, Bits, IInv
<1>5. LedgerLeads'
  BY DEF ResetComplete, rest, datahub, Complete, IInv, LedgerLeads, Consumed
<1>6. Sound'
  BY <1>1, TimesAssumption DEF ResetComplete, rest, datahub, Complete, Items, IInv, Sound,
     Holding, HandledIsTerminal, Timely, Worker
<1> QED
  BY <1>3, <1>4, <1>5, <1>6 DEF IInv

\* See ResetBegin.
LEMMA ResetDiesStep == ASSUME IInv, ResetDies PROVE IInv'
<1>1. Items /\ Counted
  BY DEF IInv
<1>2. resetter' \in Resetter /\ resetter'.attempt = resetter.attempt /\ reset' \in Reset
      /\ (Ended \/ reset'.record = reset.record)
  <2>1. reset.phase \in {"none", "EXECUTING", "COMPLETE"}
    BY <1>1 DEF Items, Reset
  <2> QED
    BY <1>1, <2>1, ResetIdleFacts, BrokenFacts DEF ResetDies
<1>3. Items' /\ Counted'
  BY <1>1, <1>2, ResetFrame DEF ResetDies, datahub, Items
<1>4. Bits'
  BY DEF ResetDies, rest, datahub, Bits, IInv
<1>5. LedgerLeads'
  BY DEF ResetDies, rest, datahub, IInv, LedgerLeads, Consumed
<1>6. Sound'
  BY <1>1, TimesAssumption DEF ResetDies, rest, datahub, Items, IInv, Sound, Holding,
     HandledIsTerminal, Timely, Worker
<1> QED
  BY <1>3, <1>4, <1>5, <1>6 DEF IInv

-----------------------------------------------------------------------------
(* The theorems.                                                           *)

\* Every step preserves the invariant.
LEMMA IInvStep == IInv /\ [Next]_vars => IInv'
<1> SUFFICES ASSUME IInv, [Next]_vars PROVE IInv'
  OBVIOUS
<1>1. CASE UNCHANGED vars
  BY <1>1 DEF vars, aws, datahub, IInv, Items, Bits, Counted, LedgerLeads, Consumed, Sound,
     Holding, Timely,
     HandledIsTerminal
<1>2. CASE Next
  BY <1>2, DispatchStep, DeliverStep, ClaimStep, AuthorizeStep, ReadBeforeStep, BeginStep,
     SendStep, AcknowledgeStep, ReadAfterStep, VerifyStep, RecoverStep, SucceedStep, FailStep,
     ReleaseStep, DieStep, EndSessionStep, ResetBeginStep, ResetReadStep, ResetRemoveStep,
     ResetCheckStep, ResetCompleteStep, ResetDiesStep, LandsStep, EditStep, TickStep DEF Next
<1> QED
  BY <1>1, <1>2

\* The invariant holds.
LEMMA Inductive == Spec => []IInv
BY InitIInv, IInvStep, PTL DEF Spec

\* Every variable keeps its type; no record is delivered more than MaxRetries
\* times again.
THEOREM TypeCorrect == Spec => []TypeOK
<1>1. IInv => TypeOK
  BY DEF IInv, Items, Bits, TypeOK
<1> QED
  BY <1>1, Inductive, PTL

\* One approved action never sends more than one add_tags request, for any
\* number of deliveries, lost answers and repeated conditional writes
\* (begin_mutation_once, _recover_mutation).
THEOREM SendsOnce == Spec => []AtMostOnce
<1>1. IInv => AtMostOnce
  BY DEF IInv, LedgerLeads, AtMostOnce
<1> QED
  BY <1>1, Inductive, PTL

\* A request that was sent had consumed its authorization before it expired
\* (begin_mutation_once and the check of consumed_at after it).
THEOREM ConsumedFirst == Spec => []SentIsConsumed
<1>1. IInv => SentIsConsumed
  BY DEF IInv, LedgerLeads, SentIsConsumed, Consumed
<1> QED
  BY <1>1, Inductive, PTL

\* A SUCCEEDED receipt stands for a write that was carried out and verified
\* (acknowledge_mutation, verify_mutation, terminal).
THEOREM SuccessIsProven == Spec => []SucceededIsProven
<1>1. IInv => SucceededIsProven
  BY DEF IInv, LedgerLeads, Acknowledged, SucceededIsProven
<1> QED
  BY <1>1, Inductive, PTL

\* A record that is done with left a receipt behind (batchItemFailures of _process).
THEOREM NoJobIsLost == Spec => []HandledIsTerminal
<1>1. IInv => HandledIsTerminal
  BY DEF IInv, Sound
<1> QED
  BY <1>1, Inductive, PTL

\* No record is dealt with without a receipt, and none claims a write that is not proven.
THEOREM ReceiptsHold == Spec => []ReceiptsAreTrue
<1>1. SucceededIsProven /\ HandledIsTerminal <=> ReceiptsAreTrue
  BY DEF ReceiptsAreTrue
<1> QED
  BY <1>1, SuccessIsProven, NoJobIsLost, PTL

\* A conditional write whose condition does not hold changes nothing.
LEMMA RefusedChangesNothing ==
  ASSUME NEW new, NEW r \in Outcomes(FALSE, new), Wrote(r)
  PROVE  job' = job
BY DEF Outcomes, Wrote

\* The conditions of all writes exclude a job with a receipt.
LEMMA FinalStep ==
  ASSUME IInv, [Next]_vars, job.state \in Terminal
  PROVE  UNCHANGED <<job, sent>>
<1>1. ~Claimable /\ ~Owned /\ ~Consumable
  BY DEF Claimable, Owned, Consumable, Terminal
<1>2. CASE Claim \/ Begin \/ Succeed \/ Fail \/ Release
  <2>1. Claimable = FALSE /\ Owned = FALSE /\ Consumable = FALSE
    BY <1>1 DEF Claimable, Owned, Consumable
  <2>2. UNCHANGED sent
    BY <1>2 DEF Claim, Begin, Succeed, Fail, Release, datahub
  <2>3. \E new : \E r \in Outcomes(FALSE, new) : Wrote(r)
    BY <1>2, <2>1 DEF Claim, Begin, Succeed, Fail, Release
  <2> QED
    BY <2>2, <2>3, RefusedChangesNothing
<1>3. CASE Acknowledge \/ Verify
  <2>1. \A phase : (Owned /\ job.phase = phase) = FALSE
    BY <1>1
  <2>2. UNCHANGED sent
    BY <1>3 DEF Acknowledge, Verify, datahub
  <2>3. \E new : \E r \in Outcomes(FALSE, new) : Wrote(r)
    BY <1>3, <2>1 DEF Acknowledge, Verify, Advance
  <2> QED
    BY <2>2, <2>3, RefusedChangesNothing
<1>4. ~Dispatch /\ ~Send
  BY DEF Dispatch, Send, IInv, Sound, Holding, Terminal
<1>5. CASE Deliver \/ Authorize \/ ReadBefore \/ ReadAfter \/ Recover \/ Die
  BY <1>5 DEF Deliver, Authorize, ReadBefore, ReadAfter, Recover, Die, datahub
<1>6. CASE EndSession \/ ResetBegin \/ ResetRead \/ ResetRemove \/ ResetCheck \/ ResetComplete
           \/ ResetDies
  BY <1>6 DEF EndSession, ResetBegin, ResetRead, ResetRemove, ResetCheck, ResetComplete,
     ResetDies, rest, datahub
<1>7. CASE Lands \/ Edit \/ Tick \/ UNCHANGED vars
  BY <1>7 DEF Lands, Edit, Tick, vars, aws, datahub
<1> QED
  BY <1>2, <1>3, <1>4, <1>5, <1>6, <1>7 DEF Next

\* A receipt is final, and nothing is sent after it, whichever worker's conditional
\* write is repeated or comes too late (the conditions of claim, release and terminal).
THEOREM ReceiptIsFinal == Spec => TerminalIsFinal
<1>1. IInv /\ [Next]_vars => [job.state \in Terminal => UNCHANGED <<job, sent>>]_vars
  BY FinalStep
<1> QED
  BY <1>1, Inductive, PTL DEF Spec, TerminalIsFinal

\* Only Send sends, within the life of its invocation.
LEMMA TimelyStep ==
  ASSUME IInv, [Next]_vars, sent' # sent
  PROVE  session.state = "ACTIVE" \/ now <= session.at + ExecTime
<1>1. CASE Send
  <2>1. /\ session.state # "ACTIVE" => worker.started <= session.at
        /\ now <= worker.started + ExecTime
    BY <1>1 DEF Send, IInv, Sound, Timely
  <2>2. now \in Nat /\ worker.started \in Nat /\ session.at \in Nat
    BY TimesAssumption DEF IInv, Items, Worker, Times
  <2> QED
    BY <2>1, <2>2, TimesAssumption
<1>2. CASE UNCHANGED vars
  BY <1>2 DEF vars, datahub
<1>3. ~(Lands \/ Edit \/ Tick \/ Dispatch)
  BY DEF Lands, Edit, Tick, Dispatch, datahub
<1>4. ~(Deliver \/ Authorize \/ ReadBefore \/ ReadAfter \/ Recover \/ Die \/ Acknowledge \/ Verify)
  BY DEF Deliver, Authorize, ReadBefore, ReadAfter, Recover, Die, Acknowledge, Verify, datahub
<1>5. ~(Claim \/ Begin \/ Succeed \/ Fail \/ Release)
  BY DEF Claim, Begin, Succeed, Fail, Release, datahub
<1>6. ~(EndSession \/ ResetBegin \/ ResetRead \/ ResetRemove \/ ResetCheck \/ ResetComplete
        \/ ResetDies)
  BY DEF EndSession, ResetBegin, ResetRead, ResetRemove, ResetCheck, ResetComplete, ResetDies,
     datahub
<1> QED
  BY <1>1, <1>2, <1>3, <1>4, <1>5, <1>6 DEF Next

\* Nothing is sent for a session that ended longer ago than a worker lives: the
\* validation before the claim bounds the stale use (validate_runtime_context).
THEOREM StaleUseIsBounded == Spec => SendIsTimely
<1>1. IInv /\ [Next]_vars =>
        [sent' # sent => session.state = "ACTIVE" \/ now <= session.at + ExecTime]_vars
  BY TimelyStep
<1> QED
  BY <1>1, Inductive, PTL DEF Spec, SendIsTimely

\* A late delivery or a late worker changes neither a receipt nor the column of a session
\* that is long over.
THEOREM LateIsHarmless == Spec => NothingIsLate
BY ReceiptIsFinal, StaleUseIsBounded, PTL DEF NothingIsLate

-----------------------------------------------------------------------------
(* The column after a late reset.                                          *)

\* The column is clean if that was seen at an instant no worker of the session lives at.
CleanSince(at) ==
  at > session.at + ExecTime /\ edits = 0 /\ job.phase # "AUTHORIZED" => tagged = FALSE

\* A request that was given up and may still be carried out is one the ledger has no
\* account of, and never will.
Pending ==
  /\ "add" \in wire => job.phase = "AUTHORIZED" /\ sent > 0
  /\ worker.pc = "ack" => worker.valid = TRUE /\ "add" \notin wire
  /\ worker.pc = "send" => job.phase = "AUTHORIZED"

\* What the reset remembers, it saw in the past, and after the end of the session.
Seen ==
  /\ session.at <= now /\ reset.asOf <= now /\ resetter.read <= now
  /\ session.state = "ACTIVE" => resetter.pc = "idle" /\ reset.phase = "none"

Lasting ==
  /\ reset.phase = "COMPLETE" => CleanSince(reset.asOf)
  /\ resetter.pc = "complete" => CleanSince(resetter.read)

\* It holds beside IInv, and is inductive together with it.
LInv == Pending /\ Seen /\ Lasting

\* The worker's steps leave the reset alone, and the reset's steps the worker.
LEMMA InitLInv == Init => LInv
BY DEF Init, LInv, Pending, Seen, Lasting

\* The times are numbers.
LEMMA Clocks ==
  ASSUME Items
  PROVE  /\ now \in Nat /\ session.at \in Nat /\ worker.started \in Nat
         /\ reset.asOf \in Nat /\ resetter.read \in Nat
         /\ ExecTime \in Nat /\ sent \in Nat /\ edits \in Nat
BY TimesAssumption DEF Items, Times, Worker, Reset, Resetter

\* A worker that may send or acknowledge does so while the session is active, or soon after.
LEMMA WorkerIsInTime ==
  ASSUME IInv, LInv, worker.pc \in {"send", "ack"}
  PROVE  session.state # "ACTIVE" => now <= session.at + ExecTime
<1>1. worker.valid = TRUE
  BY DEF IInv, Sound, Timely, LInv, Pending
<1>2. /\ session.state # "ACTIVE" => worker.started <= session.at
      /\ now <= worker.started + ExecTime
  BY <1>1 DEF IInv, Sound, Timely
<1> QED
  BY <1>2, Clocks DEF IInv

\* So nothing that was seen so late is touched by it.
LEMMA SeenBefore ==
  ASSUME IInv, LInv, worker.pc \in {"send", "ack"},
         UNCHANGED <<now, session, reset, resetter, edits>>
  PROVE  Seen' /\ Lasting'
<1>1. Seen'
  BY DEF LInv, Seen
<1>2. session.state # "ACTIVE" =>
        ~(reset.asOf > session.at + ExecTime) /\ ~(resetter.read > session.at + ExecTime)
  BY WorkerIsInTime, Clocks DEF IInv, LInv, Seen
<1>3. session.state = "ACTIVE" => reset.phase # "COMPLETE" /\ resetter.pc # "complete"
  BY DEF LInv, Seen
<1> QED
  BY <1>1, <1>2, <1>3 DEF Lasting, CleanSince

\* A step that neither puts the tag there nor accounts for a request.
LEMMA ColumnIsKept ==
  ASSUME LInv, UNCHANGED <<now, session, reset, resetter, edits>>,
         tagged' = tagged \/ tagged' = FALSE \/ job'.phase = "AUTHORIZED",
         job.phase = "AUTHORIZED" => job'.phase = "AUTHORIZED"
  PROVE  Seen' /\ Lasting'
<1>1. Seen'
  BY DEF LInv, Seen
<1> QED
  BY <1>1 DEF LInv, Lasting, CleanSince

\* Where the worker's steps that do not send may lead.
LEMMA PendingIsKept ==
  ASSUME LInv, wire' \subseteq wire, sent' = sent,
         worker'.pc \notin {"ack", "send"} \/ worker' = worker \/
           (worker'.pc = "send" /\ job'.phase = "AUTHORIZED"),
         job.phase = "AUTHORIZED" => job'.phase = "AUTHORIZED"
  PROVE  Pending'
BY DEF LInv, Pending

\* The outcome of a conditional write keeps the ledger, or advances it.
LEMMA PhaseOf ==
  ASSUME NEW holds, NEW new, NEW r \in Outcomes(holds, new), Wrote(r)
  PROVE  /\ job' = job \/ (holds /\ job' = new)
         /\ r.is = "ok" => holds /\ job' = new
         /\ r.job = job'
<1> DEFINE after == IF holds THEN new ELSE job
           Clear == [job |-> after, is |-> IF holds THEN "ok" ELSE "refused", cost |-> 0]
           Lost == {[job |-> j, is |-> "error", cost |-> 1] : j \in {job, after}}
           Repeated == IF holds THEN {[job |-> new, is |-> "refused", cost |-> 1]} ELSE {}
<1>1. r = Clear \/ r \in Lost \/ r \in Repeated
  BY DEF Outcomes
<1>2. CASE holds
  BY <1>1, <1>2 DEF Wrote
<1>3. CASE ~holds
  BY <1>1, <1>3 DEF Wrote
<1> QED BY <1>2, <1>3

\* The steps of a worker that write no more than state, owner and lease of its job.
LEMMA ClaimKeepsPhase ==
  ASSUME IInv, LInv, Claim \/ Succeed \/ Fail \/ Release
  PROVE  LInv'
<1>1. job'.phase = job.phase
  <2>1. job \in Job
    BY DEF IInv, Items
  <2>2. CASE Claim
    <3> DEFINE new == [job EXCEPT !.state = "RUNNING", !.owner = worker.attempt, !.lease = now + LeaseTime]
    <3>1. \E r \in Outcomes(Claimable, new) : Wrote(r)
      BY <2>2 DEF Claim
    <3>2. new.phase = job.phase
      BY <2>1 DEF Job
    <3> HIDE DEF new
    <3> QED BY <3>1, <3>2, PhaseOf
  <2>3. CASE Succeed
    <3> DEFINE new == [job EXCEPT !.state = "SUCCEEDED", !.lease = 0]
    <3>1. \E r \in Outcomes(Owned, new) : Wrote(r)
      BY <2>3 DEF Succeed
    <3>2. new.phase = job.phase
      BY <2>1 DEF Job
    <3> HIDE DEF new
    <3> QED BY <3>1, <3>2, PhaseOf
  <2>4. CASE Fail
    <3> DEFINE new == [job EXCEPT !.state = "FAILED", !.lease = 0]
    <3>1. \E r \in Outcomes(Owned, new) : Wrote(r)
      BY <2>4 DEF Fail
    <3>2. new.phase = job.phase
      BY <2>1 DEF Job
    <3> HIDE DEF new
    <3> QED BY <3>1, <3>2, PhaseOf
  <2>5. CASE Release
    <3> DEFINE new == [job EXCEPT !.state = "QUEUED", !.owner = 0, !.lease = 0]
    <3>1. \E r \in Outcomes(Owned, new) : Wrote(r)
      BY <2>5 DEF Release
    <3>2. new.phase = job.phase
      BY <2>1 DEF Job
    <3> HIDE DEF new
    <3> QED BY <3>1, <3>2, PhaseOf
  <2> QED BY <2>2, <2>3, <2>4, <2>5
<1>2. worker'.pc \notin {"ack", "send"}
  BY DEF Claim, Succeed, Fail, Release, IInv, Items, Worker, Go, Context, Handled, Report, Idle
<1>3. UNCHANGED <<now, session, reset, resetter, edits, wire, sent, tagged>>
  BY DEF Claim, Succeed, Fail, Release, worked, datahub
<1> QED
  BY <1>1, <1>2, <1>3, ColumnIsKept, PendingIsKept DEF LInv

\* The ledger's steps.
LEMMA BeginKeepsLate == ASSUME IInv, LInv, Begin PROVE LInv'
<1> DEFINE new == [job EXCEPT !.phase = "AUTHORIZED", !.consumed = worker.consumed]
<1>1. PICK r \in Outcomes(Consumable, new) : Wrote(r) /\ Go(Begun(r))
  BY DEF Begin
<1>2. /\ job' = job \/ (Consumable /\ job' = new)
      /\ r.is = "ok" => job' = new
  BY <1>1, PhaseOf
<1>3. job \in Job /\ new.phase = "AUTHORIZED"
  BY DEF IInv, Items, Job
<1>4. job' = job \/ (job.phase = "none" /\ job'.phase = "AUTHORIZED")
  BY <1>2, <1>3 DEF Consumable
<1>5. worker'.pc \notin {"ack", "send"} \/ (worker'.pc = "send" /\ job'.phase = "AUTHORIZED")
  <2>1. worker'.pc = Begun(r)
    BY <1>1 DEF Go, IInv, Items, Worker
  <2>2. r.is \in {"ok", "error", "refused"}
    <3> DEFINE after == IF Consumable THEN new ELSE job
               Clear == [job |-> after, is |-> IF Consumable THEN "ok" ELSE "refused", cost |-> 0]
               Lost == {[job |-> j, is |-> "error", cost |-> 1] : j \in {job, after}}
               Repeated == IF Consumable THEN {[job |-> new, is |-> "refused", cost |-> 1]} ELSE {}
    <3>1. r = Clear \/ r \in Lost \/ r \in Repeated
      BY <1>1 DEF Outcomes
    <3> QED BY <3>1
  <2> QED
    BY <2>1, <2>2, <1>2, <1>3 DEF Begun
<1>6. UNCHANGED <<now, session, reset, resetter, edits, wire, sent, tagged>>
  BY DEF Begin, worked, datahub
<1>7. Seen' /\ Lasting'
  <2>1. job.phase = "AUTHORIZED" => job'.phase = "AUTHORIZED"
    BY <1>4
  <2> QED
    BY <1>6, <2>1, ColumnIsKept
<1>8. Pending'
  <2>1. job.phase = "AUTHORIZED" => job'.phase = "AUTHORIZED"
    BY <1>4
  <2> QED
    BY <1>5, <1>6, <2>1, PendingIsKept
<1> QED
  BY <1>7, <1>8 DEF LInv

\* See WorkerIsInTime.
LEMMA SendKeepsLate == ASSUME IInv, LInv, Send PROVE LInv'
<1>1. Seen' /\ Lasting'
  BY SeenBefore DEF Send, worked
<1>2. job' = job /\ job.phase = "AUTHORIZED" /\ sent = 0 /\ worker.valid = TRUE /\ sent' = sent + 1
  BY DEF Send, LInv, Pending, IInv, LedgerLeads, Sound, Timely
<1>3. "add" \notin wire
  BY <1>2 DEF LInv, Pending
<1>4. Pending'
  BY <1>2, <1>3 DEF Send, Pending, Go, IInv, Items, Worker
<1> QED
  BY <1>1, <1>4 DEF LInv

\* An acknowledged request was carried out, so none is on its way.
LEMMA AcknowledgeKeepsLate == ASSUME IInv, LInv, Acknowledge PROVE LInv'
<1>1. Seen' /\ Lasting'
  BY SeenBefore DEF Acknowledge, worked
<1>2. wire' = wire /\ sent' = sent /\ "add" \notin wire
  BY DEF Acknowledge, datahub, LInv, Pending
<1>3. worker'.pc \in {"after", "release"}
  BY DEF Acknowledge, Advance, Go, IInv, Items, Worker
<1> QED
  BY <1>1, <1>2, <1>3 DEF LInv, Pending

\* A request that is verified had been acknowledged.
LEMMA VerifyKeepsLate == ASSUME IInv, LInv, Verify PROVE LInv'
<1>1. job.phase # "AUTHORIZED"
  BY DEF Verify, IInv, LedgerLeads, Acknowledged
<1>2. worker'.pc \in {"succeed", "release"}
  BY DEF Verify, Advance, Go, IInv, Items, Worker
<1>3. UNCHANGED <<now, session, reset, resetter, edits, wire, sent, tagged>>
  BY DEF Verify, worked, datahub
<1>4. Seen' /\ Pending'
  BY <1>1, <1>2, <1>3 DEF LInv, Seen, Pending
<1>5. Lasting'
  BY <1>1, <1>3 DEF LInv, Lasting, CleanSince
<1> QED
  BY <1>4, <1>5 DEF LInv

\* The worker's other steps leave the job and DataHub alone.
LEMMA WorkerKeepsLate ==
  ASSUME IInv, LInv, Deliver \/ Authorize \/ ReadBefore \/ ReadAfter \/ Recover \/ Die
  PROVE  LInv'
<1>1. UNCHANGED <<now, session, reset, resetter, edits, job, wire, sent, tagged>>
  BY DEF Deliver, Authorize, ReadBefore, ReadAfter, Recover, Die, worked, datahub
<1>2. worker'.pc \notin {"ack", "send"}
  <2>1. worker \in Worker
    BY DEF IInv, Items
  <2>2. CASE Deliver
    BY <2>1, <2>2 DEF Deliver, Worker
  <2>3. CASE Authorize
    BY <2>1, <2>3 DEF Authorize, Worker, Go
  <2>4. CASE ReadBefore \/ ReadAfter
    BY <2>1, <2>4 DEF ReadBefore, ReadAfter, Worker, Go
  <2>5. CASE Recover
    BY <2>1, <2>5 DEF Recover, Recovery, Worker, Go
  <2>6. CASE Die
    BY <2>6 DEF Die, Report, Idle
  <2> QED
    BY <2>2, <2>3, <2>4, <2>5, <2>6
<1> QED
  BY <1>1, <1>2, ColumnIsKept, PendingIsKept DEF LInv

\* A job is created while the session is active, before any reset.
LEMMA DispatchKeepsLate == ASSUME IInv, LInv, Dispatch PROVE LInv'
<1>1. UNCHANGED <<now, session, worker, reset, resetter, edits, wire, sent, tagged>>
  BY DEF Dispatch, datahub
<1>2. reset.phase # "COMPLETE" /\ resetter.pc # "complete"
  BY DEF Dispatch, LInv, Seen
<1>3. job'.phase = job.phase
  BY DEF Dispatch, IInv, Items, Job
<1> QED
  BY <1>1, <1>2, <1>3 DEF LInv, Pending, Seen, Lasting

\* The reset only ever takes the tag off; what it has seen is not of the future.
LEMMA ResetKeepsPending ==
  ASSUME LInv, UNCHANGED <<worker, job, sent>>, wire' \subseteq wire \cup {"remove"}
  PROVE  Pending'
BY DEF LInv, Pending

\* The reset's ledger and locals at the end of an invocation.
LEMMA LedgerFacts ==
  ASSUME IInv, ResetIdle, NEW item, NEW phase
  PROVE  /\ Ledger(phase, item) => reset'.phase = phase /\ reset'.asOf = reset.asOf
         /\ Complete(item) => reset'.phase = "COMPLETE" /\ reset'.asOf = resetter.read
         /\ resetter'.pc = "idle" /\ resetter'.read = 0
<1>1. reset \in Reset
  BY DEF IInv, Items
<1>2. Ledger(phase, item) => reset'.phase = phase /\ reset'.asOf = reset.asOf
  BY <1>1 DEF Ledger, Reset
<1>3. Complete(item) => reset'.phase = "COMPLETE" /\ reset'.asOf = resetter.read
  BY DEF Complete
<1> QED
  BY <1>2, <1>3 DEF ResetIdle

\* An invocation of the reset that ends without completing it.
LEMMA EndedKeepsLate ==
  ASSUME IInv, LInv, session.state # "ACTIVE", UNCHANGED <<now, session, job, edits>>,
         tagged' = tagged \/ tagged' = FALSE,
         reset'.phase \in {reset.phase, "EXECUTING"}, reset'.asOf = reset.asOf,
         resetter'.pc # "complete", resetter'.read <= now
  PROVE  Seen' /\ Lasting'
<1>1. Seen'
  BY DEF LInv, Seen
<1>2. Lasting'
  BY DEF LInv, Lasting, CleanSince
<1> QED
  BY <1>1, <1>2

\* What an invocation that ended in an exception leaves.
LEMMA BrokenKeepsLate ==
  ASSUME IInv, LInv, session.state # "ACTIVE", UNCHANGED <<now, session, job, edits>>,
         tagged' = tagged \/ tagged' = FALSE, ResetBroken
  PROVE  Seen' /\ Lasting'
<1>1. \/ Ledger(reset.phase, "handled")
      \/ Ledger(reset.phase, Redelivered)
  BY DEF ResetBroken
<1>2. ResetIdle
  BY DEF ResetBroken
<1>3. reset'.phase = reset.phase /\ reset'.asOf = reset.asOf
  BY <1>1, <1>2, LedgerFacts
<1>4. resetter'.pc # "complete" /\ resetter'.read <= now
  BY <1>2, Clocks DEF ResetIdle, IInv
<1> QED
  BY <1>3, <1>4, EndedKeepsLate

\* The reset's steps, one by one.
LEMMA ResetKeepsLate ==
  ASSUME IInv, LInv,
         ResetBegin \/ ResetRead \/ ResetRemove \/ ResetCheck \/ ResetComplete \/ ResetDies
  PROVE  LInv'
<1>1. UNCHANGED <<now, session, worker, job, edits, sent>>
  BY DEF ResetBegin, ResetRead, ResetRemove, ResetCheck, ResetComplete, ResetDies, rest, datahub
<1>2. Pending'
  <2>1. wire' \subseteq wire \cup {"remove"}
    BY DEF ResetBegin, ResetRead, ResetRemove, ResetCheck, ResetComplete, ResetDies, datahub
  <2> QED
    BY <1>1, <2>1, ResetKeepsPending
<1>3. session.state # "ACTIVE"
  <2>1. resetter.pc # "idle" \/ reset.record = "waiting"
    BY DEF ResetBegin, ResetRead, ResetRemove, ResetCheck, ResetComplete, ResetDies
  <2> QED
    BY <2>1 DEF LInv, Seen, IInv, Counted
<1>4. tagged' = tagged \/ tagged' = FALSE
  BY DEF ResetBegin, ResetRead, ResetRemove, ResetCheck, ResetComplete, ResetDies, datahub
<1>5. now \in Nat /\ resetter.read <= now /\ reset \in Reset /\ resetter \in Resetter
  BY Clocks DEF IInv, LInv, Seen, Items
<1>6. CASE ResetBroken
  BY <1>1, <1>2, <1>3, <1>4, <1>6, BrokenKeepsLate DEF LInv
<1>7. CASE ResetBegin
  <2>1. \E phase, item : Ledger(phase, item) /\ phase \in {reset.phase, "EXECUTING"}
    BY <1>7 DEF ResetBegin
  <2>2. reset'.phase \in {reset.phase, "EXECUTING"} /\ reset'.asOf = reset.asOf
    BY <2>1, <1>5 DEF Ledger, Reset
  <2>3. resetter'.pc # "complete" /\ resetter'.read = resetter.read
    BY <1>5, <1>7 DEF ResetBegin, Resetter
  <2> QED
    BY <1>1, <1>2, <1>3, <1>4, <1>5, <2>2, <2>3, EndedKeepsLate DEF LInv
<1>8. CASE ResetRead /\ ~ResetBroken
  <2>1. reset' = reset /\ resetter'.read = now /\ resetter'.pc \in {"remove", "check"}
    BY <1>5, <1>8 DEF ResetRead, Resetter
  <2>2. resetter'.read <= now /\ resetter'.pc # "complete" /\ reset'.phase \in {reset.phase, "EXECUTING"}
        /\ reset'.asOf = reset.asOf
    BY <1>5, <2>1
  <2> QED
    BY <1>1, <1>2, <1>3, <1>4, <1>5, <2>1, <2>2, EndedKeepsLate DEF LInv
<1>9. CASE ResetRemove /\ ~ResetBroken
  <2>1. reset' = reset /\ resetter'.read = resetter.read /\ resetter'.pc = "check"
    BY <1>5, <1>9 DEF ResetRemove, Resetting, Resetter
  <2> QED
    BY <1>1, <1>2, <1>3, <1>4, <1>5, <2>1, EndedKeepsLate DEF LInv
<1>10. CASE ResetCheck /\ tagged /\ ResetIdle /\ Ledger(reset.phase, "handled")
  <2>1. reset'.phase = reset.phase /\ reset'.asOf = reset.asOf /\ resetter'.pc = "idle"
        /\ resetter'.read = 0
    BY <1>10, LedgerFacts
  <2>2. resetter'.read <= now /\ resetter'.pc # "complete" /\ reset'.phase \in {reset.phase, "EXECUTING"}
        /\ reset'.asOf = reset.asOf
    BY <1>5, <2>1
  <2> QED
    BY <1>1, <1>2, <1>3, <1>4, <1>5, <2>1, <2>2, EndedKeepsLate DEF LInv
<1>11. CASE ResetCheck /\ ~tagged /\ Resetting("complete") /\ UNCHANGED reset
  <2>1. resetter'.read = resetter.read /\ reset' = reset
    BY <1>5, <1>11 DEF Resetting, Resetter
  <2>2. tagged' = tagged
    BY <1>11 DEF ResetCheck, datahub
  <2>3. tagged' = FALSE
    BY <1>11, <2>2 DEF IInv, Bits
  <2>4. Lasting'
    BY <2>3 DEF Lasting, CleanSince
  <2>5. Seen'
    BY <1>1, <1>3, <2>1 DEF LInv, Seen
  <2> QED
    BY <1>2, <2>4, <2>5 DEF LInv
<1>12. CASE ResetComplete
  <2>1. resetter.pc = "complete" /\ ResetIdle /\ tagged' = tagged
    BY <1>12 DEF ResetComplete, datahub
  <2>2. CASE \E item : Complete(item)
    <3>1. reset'.phase = "COMPLETE" /\ reset'.asOf = resetter.read /\ resetter'.pc = "idle"
          /\ resetter'.read = 0
      BY <2>1, <2>2, LedgerFacts
    <3>2. Lasting'
      BY <1>1, <2>1, <3>1 DEF LInv, Lasting, CleanSince
    <3>3. Seen'
      BY <1>1, <1>3, <1>5, <3>1 DEF LInv, Seen
    <3> QED
      BY <1>2, <3>2, <3>3 DEF LInv
  <2>3. CASE \E item : Ledger(reset.phase, item)
    <3>1. reset'.phase = reset.phase /\ reset'.asOf = reset.asOf /\ resetter'.pc = "idle"
          /\ resetter'.read = 0
      BY <2>1, <2>3, LedgerFacts
    <3>2. resetter'.read <= now /\ resetter'.pc # "complete" /\ reset'.phase \in {reset.phase, "EXECUTING"}
          /\ reset'.asOf = reset.asOf
      BY <1>5, <3>1
    <3> QED
      BY <1>1, <1>2, <1>3, <1>4, <1>5, <3>1, <3>2, EndedKeepsLate DEF LInv
  <2> QED
    BY <1>12, <2>2, <2>3 DEF ResetComplete
<1>13. CASE ResetDies
  <2>1. reset'.phase = reset.phase /\ reset'.asOf = reset.asOf /\ resetter'.pc = "idle"
        /\ resetter'.read = 0
    BY <1>13, LedgerFacts DEF ResetDies
  <2>2. resetter'.read <= now /\ resetter'.pc # "complete" /\ reset'.phase \in {reset.phase, "EXECUTING"}
        /\ reset'.asOf = reset.asOf
    BY <1>5, <2>1
  <2> QED
    BY <1>1, <1>2, <1>3, <1>4, <1>5, <2>1, <2>2, EndedKeepsLate DEF LInv
<1>14. ResetCheck /\ ~ResetBroken =>
         \/ ResetCheck /\ tagged /\ ResetIdle /\ Ledger(reset.phase, "handled")
         \/ ResetCheck /\ ~tagged /\ Resetting("complete") /\ UNCHANGED reset
  BY DEF ResetCheck
<1> QED
  BY <1>6, <1>7, <1>8, <1>9, <1>10, <1>11, <1>12, <1>13, <1>14

\* A request that lands late is one of those the ledger has no account of.
LEMMA LandsKeepsLate == ASSUME IInv, LInv, Lands PROVE LInv'
<1>1. PICK request \in wire : wire' = wire \ {request} /\ tagged' = (request = "add")
  BY DEF Lands
<1>2. UNCHANGED <<now, session, worker, reset, resetter, edits, job, sent>>
  BY DEF Lands, aws
<1>3. request = "add" => job.phase = "AUTHORIZED"
  BY <1>1 DEF LInv, Pending
<1>4. Pending'
  BY <1>1, <1>2 DEF LInv, Pending
<1>5. tagged' = FALSE \/ job'.phase = "AUTHORIZED"
  BY <1>1, <1>2, <1>3
<1>6. Seen' /\ Lasting'
  BY <1>2, <1>5, ColumnIsKept
<1> QED
  BY <1>4, <1>6 DEF LInv

\* The session ends before its reset begins.
LEMMA EndSessionKeepsLate == ASSUME IInv, LInv, EndSession PROVE LInv'
<1>1. UNCHANGED <<now, worker, resetter, edits, job, wire, sent, tagged>>
  BY DEF EndSession, rest, datahub
<1>2. reset'.phase = reset.phase /\ reset'.asOf = reset.asOf
  BY DEF EndSession, IInv, Items, Reset
<1>3. session'.at = now /\ session'.state # "ACTIVE"
  BY DEF EndSession
<1>4. reset.phase = "none" /\ resetter.pc = "idle"
  BY DEF EndSession, LInv, Seen
<1>5. Seen'
  BY <1>1, <1>2, <1>3, Clocks DEF LInv, Seen, IInv
<1> QED
  BY <1>1, <1>2, <1>4, <1>5 DEF LInv, Pending, Lasting

\* See SeenBefore.
LEMMA EditKeepsLate == ASSUME IInv, LInv, Edit PROVE LInv'
<1>1. UNCHANGED <<now, session, worker, reset, resetter, job, wire, sent>> /\ edits' # 0
  BY Clocks DEF Edit, aws, IInv
<1> QED
  BY <1>1 DEF LInv, Pending, Seen, Lasting, CleanSince

\* See SeenBefore.
LEMMA TickKeepsLate == ASSUME IInv, LInv, Tick PROVE LInv'
<1>1. UNCHANGED <<session, worker, reset, resetter, job, wire, sent, tagged, edits>>
      /\ now' = now + 1
  BY DEF Tick, aws, datahub
<1>2. Seen'
  BY <1>1, Clocks DEF LInv, Seen, IInv
<1> QED
  BY <1>1, <1>2 DEF LInv, Pending, Lasting, CleanSince

\* Together with IInv, LInv is inductive.
LEMMA LInvStep == IInv /\ LInv /\ [Next]_vars => LInv'
<1> SUFFICES ASSUME IInv, LInv, [Next]_vars PROVE LInv'
  OBVIOUS
<1>1. CASE UNCHANGED vars
  BY <1>1 DEF vars, aws, datahub, LInv, Pending, Seen, Lasting, CleanSince
<1>2. CASE Next
  BY <1>2, DispatchKeepsLate, ClaimKeepsPhase, BeginKeepsLate, SendKeepsLate,
     AcknowledgeKeepsLate, VerifyKeepsLate, WorkerKeepsLate, EndSessionKeepsLate,
     ResetKeepsLate, LandsKeepsLate, EditKeepsLate, TickKeepsLate DEF Next
<1> QED
  BY <1>1, <1>2

\* A reset that looked at the column after the last worker of its session was gone is
\* lasting, unless the ledger leaves a request unaccounted for, for any times of the
\* functions and however many records are delivered again (_FixtureReset._complete).
THEOREM ResetIsLasting == Spec => []LateResetIsLasting
<1>1. LInv => LateResetIsLasting
  BY DEF LInv, Lasting, CleanSince, LateResetIsLasting
<1> QED
  BY <1>1, InitLInv, LInvStep, Inductive, PTL DEF Spec

=============================================================================
