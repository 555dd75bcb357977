---------------------- MODULE GovernedRemediationProofs ----------------------
(***************************************************************************)
(* Theorems about GovernedRemediation, for any number of workers,          *)
(* executions and approvals and any sequence of crashes and takeovers;     *)
(* about the status of an execution (AuditStatus, in MCRemediation), for    *)
(* any clocks and windows and any number of alterations and failures; and   *)
(* about the audit loop (AuditLoop), for any catalogs and findings and any  *)
(* number of steps.                                                         *)
(***************************************************************************)
EXTENDS MCRemediation, Integers, SequenceTheorems, TLAPS

-----------------------------------------------------------------------------
(* Type correctness *)

\* The locals of the workers are well typed.
LocalsOK ==
  /\ pc \in [Workers -> PCs]
  /\ job \in [Workers -> Job]
  /\ \A w \in Workers :
       /\ pc[w] # "idle" => job[w].key \in Keys
       /\ pc[w] = "takeover" => job[w].exec.status \in Held
       /\ pc[w] \in {"complete", "publish"} => job[w].receipt \in Receipt

\* The defaults have the types of what they stand in for.
LEMMA Defaults == NoReceipt \notin Receipt /\ Absent \in Entry /\ NoJob \in Job
<1>1. NoReceipt \notin Receipt
  BY DEF NoReceipt, Receipt, Outcomes
<1>2. Absent \in Entry
  BY <1>1 DEF Absent, Entry
<1>3. QED
  BY <1>1, <1>2 DEF NoJob, Job

\* An item that is not completed may change status, token and lease.
LEMMA HeldEntry ==
  ASSUME NEW e \in Entry, e.status \in Held,
         NEW s \in Held, NEW t \in Nat, NEW l \in Nat
  PROVE  [e EXCEPT !.status = s, !.token = t, !.lease = l] \in Entry
<1> DEFINE f == [e EXCEPT !.status = s, !.token = t, !.lease = l]
           Item == [status : {"ABSENT", "IN_PROGRESS", "RECONCILING", "COMPLETED"},
                    token : Nat, lease : Nat, receipt : Receipt \cup {NoReceipt}]
<1>1. e \in Item /\ e.receipt \notin Receipt
  BY DEF Entry, Held
<1>2. f \in Item
  BY <1>1 DEF Held
<1>3. f.status = s /\ f.receipt = e.receipt
  BY <1>1
<1>4. f.status # "COMPLETED"
  BY <1>3 DEF Held
<1> HIDE DEF f
<1>5. QED
  BY <1>1, <1>2, <1>3, <1>4 DEF Entry

\* Leaving a delivery keeps the locals well typed.
LEMMA LeaveLocals ==
  ASSUME LocalsOK, NEW w \in Workers, Leave(w)
  PROVE  LocalsOK'
<1>1. NoJob \in Job
  BY Defaults
<1>2. QED
  BY <1>1 DEF LocalsOK, Leave, PCs

\* A step of one worker keeps the locals well typed when its own are.
LEMMA StepLocals ==
  ASSUME LocalsOK, NEW w \in Workers, NEW next \in PCs, NEW new \in Job,
         pc' = [pc EXCEPT ![w] = next], job' = [job EXCEPT ![w] = new],
         new.key \in Keys, next # "takeover",
         next \in {"complete", "publish"} => new.receipt \in Receipt
  PROVE  LocalsOK'
  BY DEF LocalsOK

\* So does going on with the same locals.
LEMMA GotoLocals ==
  ASSUME LocalsOK, NEW w \in Workers, NEW next \in PCs,
         pc[w] # "idle", next \in {"complete", "publish"} => pc[w] = "complete",
         next = "takeover" => job[w].exec.status \in Held,
         Goto(w, next)
  PROVE  LocalsOK'
  BY DEF LocalsOK, Goto

\* So does choosing an outcome.
LEMMA ConcludeLocals ==
  ASSUME LocalsOK, NEW w \in Workers, NEW outcome \in Outcomes,
         pc[w] # "idle", Conclude(w, outcome)
  PROVE  /\ LocalsOK'
         /\ job'[w] = [job[w] EXCEPT !.receipt =
                          [outcome |-> outcome, token |-> job[w].token]]
         /\ job'[w].receipt \in Receipt
<1>1. [outcome |-> outcome, token |-> job[w].token] \in Receipt
  BY DEF LocalsOK, Job, Receipt
<1>2. job' \in [Workers -> Job]
  BY <1>1 DEF LocalsOK, Conclude, Job
<1>3. QED
  BY <1>1, <1>2 DEF LocalsOK, Conclude, PCs, Owning, Job

\* An attempt is what a worker inside an execution puts on the wire.
LEMMA AttemptType ==
  ASSUME LocalsOK, NEW w \in Workers, pc[w] # "idle"
  PROVE  AttemptOf(w) \in Attempt
  BY DEF LocalsOK, Job, Attempt, AttemptOf

\* TypeOK is inductive, one step per action of the module.
LEMMA TypeStep ==
  ASSUME TypeOK, [Next]_vars
  PROVE  TypeOK'
<1> USE KeysAssumption, TimeAssumption, TargetAssumption
<1>1. LocalsOK
  BY DEF TypeOK, LocalsOK
<1>2. ASSUME LocalsOK', UNCHANGED <<clock, items, world>>
      PROVE  TypeOK'
  BY <1>2 DEF TypeOK, LocalsOK, items, world
<1>3. ASSUME NEW w \in Workers, NEW k \in Keys, Deliver(w, k)
      PROVE  TypeOK'
  <2>1. [NoJob EXCEPT !.key = k, !.started = clock] \in Job
    BY Defaults DEF Job, TypeOK
  <2>2. [NoJob EXCEPT !.key = k, !.started = clock].key = k
    BY DEF NoJob
  <2>3. LocalsOK'
    BY <1>1, <1>3, <2>1, <2>2 DEF LocalsOK, Deliver, PCs
  <2>4. QED
    BY <1>2, <1>3, <2>3 DEF Deliver
<1>4. ASSUME NEW w \in Workers, ClaimFirst(w)
      PROVE  TypeOK'
  <2>1. pc[w] # "idle" /\ job[w].key \in Keys /\ job[w].started \in Nat
    BY <1>4 DEF ClaimFirst, TypeOK, Job
  <2>2. [status |-> "IN_PROGRESS", token |-> 1,
         lease |-> job[w].started + LeaseTime, receipt |-> NoReceipt] \in Entry
    BY <2>1, Defaults DEF Entry
  <2>3. LocalsOK'
    <3> DEFINE new == [job[w] EXCEPT !.token = 1]
    <3>1. new \in Job /\ new.key \in Keys
      BY <2>1 DEF TypeOK, Job
    <3>2. job' = [job EXCEPT ![w] = new] /\ pc' = [pc EXCEPT ![w] = "decide"]
      BY <1>4 DEF ClaimFirst
    <3> HIDE DEF new
    <3>3. QED
      BY <1>1, <3>1, <3>2, StepLocals DEF PCs, Owning
  <2>4. journal' \in [Keys -> Entry] /\ consumed' \in [Approvals -> Keys \cup {NoKey}]
    BY <1>4, <2>1, <2>2 DEF ClaimFirst, TypeOK
  <2>5. QED
    BY <1>4, <2>3, <2>4 DEF ClaimFirst, TypeOK, LocalsOK, world
<1>5. ASSUME NEW w \in Workers, ClaimCancelled(w)
      PROVE  TypeOK'
  <2>1. LocalsOK'
    <3>1. PICK known \in BOOLEAN :
            /\ pc' = [pc EXCEPT ![w] = "classify"]
            /\ job' = [job EXCEPT ![w].pending = {"exec", "owner"},
                                  ![w].classified = known]
      BY <1>5 DEF ClaimCancelled
    <3> DEFINE new == [job[w] EXCEPT !.pending = {"exec", "owner"},
                                     !.classified = known]
    <3>2. new \in Job /\ new.key \in Keys
      <4>1. job[w] \in Job /\ job[w].key \in Keys
        BY <1>5 DEF ClaimCancelled, TypeOK
      <4>2. QED
        BY <4>1 DEF Job
    <3>3. job' = [job EXCEPT ![w] = new]
      BY <3>1
    <3> HIDE DEF new
    <3>4. QED
      BY <1>1, <3>1, <3>2, <3>3, StepLocals DEF PCs
  <2>2. QED
    BY <1>2, <1>5, <2>1 DEF ClaimCancelled
<1>6. ASSUME NEW w \in Workers, ReadExecution(w)
      PROVE  TypeOK'
  <2>1. LocalsOK'
    BY <1>1, <1>6 DEF TypeOK, LocalsOK, ReadExecution, Job
  <2>2. QED
    BY <1>2, <1>6, <2>1 DEF ReadExecution
<1>7. ASSUME NEW w \in Workers, ReadApproval(w)
      PROVE  TypeOK'
  <2>1. consumed[ApprovalOf[job[w].key]] \in Keys \cup {NoKey}
    BY <1>7 DEF TypeOK, ReadApproval
  <2>2. LocalsOK'
    <3> DEFINE owner == consumed[ApprovalOf[job[w].key]]
               pending == job[w].pending \ {"owner"}
               new == [[job[w] EXCEPT !.owner = owner] EXCEPT !.pending = pending]
    <3>1. job' = [job EXCEPT ![w] = new] /\ pc' = pc /\ pc[w] = "classify"
      BY <1>7 DEF ReadApproval
    <3>2. job[w] \in Job /\ job[w].key \in Keys
      BY <1>1, <3>1 DEF LocalsOK
    <3>3. pending \in SUBSET {"exec", "owner"}
      BY <3>2 DEF Job
    <3> HIDE DEF owner, pending
    <3>4. new \in Job /\ new.key \in Keys
      BY <2>1, <3>2, <3>3 DEF Job, owner
    <3>5. pc' = [pc EXCEPT ![w] = "classify"]
      BY <1>1, <3>1 DEF LocalsOK
    <3> HIDE DEF new
    <3>6. QED
      BY <1>1, <3>1, <3>4, <3>5, StepLocals DEF PCs
  <2>3. QED
    BY <1>2, <1>7, <2>2 DEF ReadApproval
<1>8. ASSUME NEW w \in Workers, Classify(w)
      PROVE  TypeOK'
  <2>1. pc[w] # "idle"
    BY <1>8 DEF Classify
  <2>2. CASE Leave(w)
    BY <1>1, <1>2, <1>8, <2>2, LeaveLocals DEF Classify
  <2>3. CASE job[w].exec.status \in Held /\ Goto(w, "takeover")
    <3>1. LocalsOK'
      BY <1>1, <2>1, <2>3, GotoLocals DEF PCs
    <3>2. QED
      BY <1>2, <1>8, <3>1 DEF Classify
  <2>4. CASE /\ job[w].exec.status = "COMPLETED"
             /\ pc' = [pc EXCEPT ![w] = "publish"]
             /\ job' = [job EXCEPT ![w].receipt = job[w].exec.receipt]
    <3> DEFINE new == [job[w] EXCEPT !.receipt = job[w].exec.receipt]
    <3>1. job[w].exec.receipt \in Receipt
      BY <2>4, <1>8 DEF Classify, TypeOK, Job, Entry
    <3>2. new \in Job /\ new.key \in Keys /\ new.receipt \in Receipt
      BY <2>1, <3>1 DEF TypeOK, Job
    <3>3. job' = [job EXCEPT ![w] = new]
      BY <2>4
    <3> HIDE DEF new
    <3>4. LocalsOK'
      BY <1>1, <2>4, <3>2, <3>3, StepLocals DEF PCs
    <3>5. QED
      BY <1>2, <1>8, <3>4 DEF Classify
  <2>5. QED
    BY <1>8, <2>2, <2>3, <2>4 DEF Classify
<1>9. ASSUME NEW w \in Workers, TakeOver(w)
      PROVE  TypeOK'
  <2>1. /\ pc[w] # "idle" /\ job[w].key \in Keys
        /\ job[w].started \in Nat /\ job[w].exec.token + 1 \in Nat
    BY <1>9 DEF TakeOver, TypeOK, Job, Entry
  <2>2. CASE ~Unmoved(w)
    <3>1. LocalsOK'
      BY <1>1, <1>9, <2>2, LeaveLocals DEF TakeOver
    <3>2. QED
      BY <1>2, <1>9, <2>2, <3>1 DEF TakeOver, items
  <2>3. CASE Unmoved(w)
    <3> DEFINE next == job[w].exec.token + 1
               new == [job[w] EXCEPT !.token = next]
               item == [journal[job[w].key] EXCEPT !.status = "RECONCILING",
                          !.token = next, !.lease = job[w].started + LeaseTime]
    <3>1. /\ journal' = [journal EXCEPT ![job[w].key] = item]
          /\ pc' = [pc EXCEPT ![w] = "reconcile"]
          /\ job' = [job EXCEPT ![w] = new]
      <4>1. /\ job' = [job EXCEPT ![w].token = next]
            /\ pc' = [pc EXCEPT ![w] = "reconcile"]
            /\ journal' = [journal EXCEPT ![job[w].key].status = "RECONCILING",
                             ![job[w].key].token = next,
                             ![job[w].key].lease = job[w].started + LeaseTime]
        BY <1>9, <2>3 DEF TakeOver
      <4>2. job' = [job EXCEPT ![w] = new]
        BY <4>1
      <4> HIDE DEF next
      <4>3. journal' = [journal EXCEPT ![job[w].key] = item]
        BY <4>1
      <4>4. QED
        BY <4>1, <4>2, <4>3
    <3>2. journal[job[w].key] \in Entry /\ journal[job[w].key].status \in Held
      BY <1>9, <2>1, <2>3 DEF TakeOver, Unmoved, TypeOK
    <3>3. item \in Entry
      <4>1. next \in Nat /\ job[w].started + LeaseTime \in Nat
        BY <2>1
      <4> HIDE DEF next
      <4>2. QED
        BY <3>2, <4>1, HeldEntry DEF Held
    <3>4. new \in Job /\ new.key \in Keys
      BY <2>1 DEF TypeOK, Job
    <3> HIDE DEF item, new, next
    <3>5. journal' \in [Keys -> Entry]
      BY <2>1, <3>1, <3>3 DEF TypeOK
    <3>6. LocalsOK'
      BY <1>1, <3>1, <3>4, StepLocals DEF PCs, Owning
    <3>7. QED
      BY <1>9, <3>5, <3>6, <2>3 DEF TakeOver, TypeOK, LocalsOK, world
  <2>4. QED
    BY <2>2, <2>3
<1>10. ASSUME NEW w \in Workers, ReconcileRead(w)
       PROVE  TypeOK'
  <2>1. LocalsOK'
    BY <1>1, <1>10, GotoLocals, ConcludeLocals
    DEF ReconcileRead, PCs, Owning, Outcomes
  <2>2. QED
    BY <1>2, <1>10, <2>1 DEF ReconcileRead
<1>11. ASSUME NEW w \in Workers, Resume(w)
       PROVE  TypeOK'
  <2>1. LocalsOK'
    BY <1>1, <1>11, GotoLocals, LeaveLocals DEF Resume, PCs, Owning
  <2>2. journal' \in [Keys -> Entry]
    <3>1. job[w].key \in Keys /\ journal[job[w].key] \in Entry /\ clock \in Nat
      BY <1>11 DEF Resume, TypeOK
    <3>2. CASE Resumable(w)
      <4> DEFINE item == [journal[job[w].key] EXCEPT
                             !.status = "IN_PROGRESS", !.token = job[w].token,
                             !.lease = clock + LeaseTime]
      <4>1. item \in Entry
        <5>1. journal[job[w].key].status \in Held
          BY <3>2 DEF Resumable, Held
        <5>2. job[w].token \in Nat /\ clock + LeaseTime \in Nat
          BY <3>1 DEF TypeOK, Job
        <5>3. QED
          BY <3>1, <5>1, <5>2, HeldEntry DEF Held
      <4>2. journal' = [journal EXCEPT ![job[w].key] = item]
        <5>1. [journal[job[w].key] EXCEPT
                  !.status = "IN_PROGRESS", !.lease = clock + LeaseTime] = item
          BY <3>1, <3>2 DEF Resumable, Entry
        <5>2. QED
          BY <1>11, <3>2, <5>1 DEF Resume
      <4> HIDE DEF item
      <4>3. QED
        BY <3>1, <4>1, <4>2 DEF TypeOK
    <3>3. CASE ~Resumable(w)
      BY <1>11, <3>3 DEF Resume, TypeOK
    <3>4. QED
      BY <3>2, <3>3
  <2>3. QED
    BY <1>11, <2>1, <2>2 DEF Resume, TypeOK, LocalsOK, world
<1>12. ASSUME NEW w \in Workers, Decide(w)
       PROVE  TypeOK'
  <2>1. LocalsOK'
    BY <1>1, <1>12, GotoLocals, ConcludeLocals DEF Decide, PCs, Owning, Outcomes
  <2>2. QED
    BY <1>2, <1>12, <2>1 DEF Decide
<1>13. ASSUME NEW w \in Workers, FreshRead(w)
       PROVE  TypeOK'
  <2>1. LocalsOK'
    BY <1>1, <1>13, GotoLocals, ConcludeLocals
    DEF FreshRead, PCs, Owning, Outcomes
  <2>2. QED
    BY <1>2, <1>13, <2>1 DEF FreshRead
<1>14. ASSUME NEW w \in Workers, Send(w)
       PROVE  TypeOK'
  <2>1. LocalsOK'
    BY <1>1, <1>14, GotoLocals, ConcludeLocals DEF Send, PCs, Owning, Outcomes
  <2>2. AttemptOf(w) \in Attempt
    BY <1>1, <1>14, AttemptType DEF Send
  <2>3. QED
    BY <1>14, <2>1, <2>2 DEF Send, TypeOK, LocalsOK, items
<1>15. ASSUME NEW w \in Workers, Answer(w)
       PROVE  TypeOK'
  <2>1. LocalsOK'
    BY <1>1, <1>15, GotoLocals, ConcludeLocals DEF Answer, PCs, Owning, Outcomes
  <2>2. QED
    BY <1>2, <1>15, <2>1 DEF Answer
<1>16. ASSUME NEW w \in Workers, ReadAfter(w)
       PROVE  TypeOK'
  <2>1. LocalsOK'
    BY <1>1, <1>16, ConcludeLocals DEF ReadAfter, Outcomes
  <2>2. QED
    BY <1>2, <1>16, <2>1 DEF ReadAfter
<1>17. ASSUME NEW w \in Workers, Complete(w)
       PROVE  TypeOK'
  <2>1. LocalsOK'
    BY <1>1, <1>17, GotoLocals, LeaveLocals DEF Complete, PCs
  <2>2. job[w].receipt \in Receipt \cup {NoReceipt}
    BY <1>17 DEF TypeOK, Job
  <2>3. journal' \in [Keys -> Entry]
    BY <1>17, <2>2 DEF Complete, TypeOK, Entry
  <2>4. QED
    BY <1>17, <2>1, <2>3 DEF Complete, TypeOK, LocalsOK, world
<1>18. ASSUME NEW w \in Workers, Publish(w)
       PROVE  TypeOK'
  <2>1. LocalsOK'
    BY <1>1, <1>18, LeaveLocals DEF Publish
  <2>2. job[w].key \in Keys /\ job[w].receipt \in Receipt
    BY <1>18 DEF Publish, TypeOK
  <2>3. QED
    BY <1>18, <2>1, <2>2 DEF Publish, TypeOK, LocalsOK, items
<1>19. ASSUME NEW w \in Workers, Abandon(w)
       PROVE  TypeOK'
  BY <1>1, <1>2, <1>19, LeaveLocals DEF Abandon
<1>20. ASSUME NEW at \in sent, Apply(at)
       PROVE  TypeOK'
  BY <1>20 DEF Apply, TypeOK, items
<1>21. ASSUME NEW t \in Tags, ExternalWrite(t)
       PROVE  TypeOK'
  BY <1>21 DEF ExternalWrite, TypeOK, items
<1>22. CASE Tick
  BY <1>22 DEF Tick, TypeOK, items, world
<1>23. CASE UNCHANGED vars
  BY <1>23 DEF vars, TypeOK
<1>24. QED
  BY <1>3, <1>4, <1>5, <1>6, <1>7, <1>8, <1>9, <1>10, <1>11, <1>12, <1>13,
     <1>14, <1>15, <1>16, <1>17, <1>18, <1>19, <1>20, <1>21, <1>22, <1>23
  DEF Next, Work

\* The variables keep their types: every item, receipt and worker stays in the
\* states the code can put it in.
THEOREM TypeCorrect == Spec => []TypeOK
<1>1. Init => TypeOK
  BY KeysAssumption, TimeAssumption, TargetAssumption
  DEF Init, TypeOK, Absent, Entry, NoReceipt, Receipt, NoJob, Job, PCs, Outcomes
<1>2. TypeOK /\ [Next]_vars => TypeOK'
  BY TypeStep
<1>3. QED
  BY <1>1, <1>2, PTL DEF Spec

-----------------------------------------------------------------------------
(* The inductive invariant *)

\* The journal only moves forward: a receipt stays, tokens do not go down and
\* an approval keeps its owner.
Forward ==
  \A k \in Keys :
    /\ journal[k].status = "COMPLETED" =>
         journal'[k].status = "COMPLETED" /\ journal'[k].receipt = journal[k].receipt
    /\ journal[k].token <= journal'[k].token
    /\ consumed[ApprovalOf[k]] = k => consumed'[ApprovalOf[k]] = k

\* A step of one worker that moves the journal forward keeps what the others
\* remember, and their tokens.
LEMMA WorkerStep ==
  ASSUME TypeOK, TypeOK', MemoryHolds, Fencing, Forward, NEW w \in Workers,
         \A v \in Workers \ {w} : pc'[v] = pc[v] /\ job'[v] = job[v],
         pc'[w] # "idle" => Remembers(w)',
         pc'[w] \in Owning => Fenced(w)'
  PROVE  MemoryHolds' /\ Fencing'
<1>1. MemoryHolds'
  <2> SUFFICES ASSUME NEW v \in Workers, v # w, pc'[v] # "idle"
               PROVE  Remembers(v)'
    BY DEF MemoryHolds
  <2>1. pc'[v] = pc[v] /\ job'[v] = job[v] /\ job[v].key \in Keys /\ Remembers(v)
    BY DEF TypeOK, MemoryHolds
  <2>2. QED
    BY <2>1 DEF Remembers, Forward, InWindow
<1>2. Fencing'
  <2> SUFFICES ASSUME NEW v \in Workers, v # w, pc'[v] \in Owning
               PROVE  Fenced(v)'
    BY DEF Fencing
  <2>1. pc'[v] = pc[v] /\ job'[v] = job[v] /\ job[v].key \in Keys /\ Fenced(v)
    BY DEF TypeOK, Fencing, Owning
  <2>2. job[v].token \in 1 .. journal'[job[v].key].token
    <3>1. job[v].token \in Nat /\ journal[job[v].key].token \in Nat
          /\ journal'[job[v].key].token \in Nat
      BY <2>1 DEF TypeOK, Job, Entry
    <3>2. QED
      BY <2>1, <3>1 DEF Fenced, Forward
  <2>3. ASSUME NEW u \in Workers \ {v}, pc'[u] \in Owning,
               job'[u].key = job'[v].key
        PROVE  job'[u].token # job'[v].token
    <3>1. CASE u = w
      BY <2>1, <2>3, <3>1 DEF Fenced
    <3>2. CASE u # w
      BY <2>1, <2>3, <3>2 DEF Fenced
    <3>3. QED
      BY <3>1, <3>2
  <2>4. QED
    BY <2>1, <2>2, <2>3 DEF Fenced, Forward
<1>3. QED
  BY <1>1, <1>2

\* The parts of the invariant that speak of stored things only.
Stored == ClaimsAgree /\ ReceiptOfLastOwner /\ AuthorizedWrites /\ EvidenceIsReceipt

\* They survive a step that stores nothing.
LEMMA StoredFrame ==
  ASSUME Stored, UNCHANGED <<items, sent, evidence>>
  PROVE  Stored' /\ (TypeOK => Forward)
<1>1. Stored'
  BY DEF Stored, ClaimsAgree, ReceiptOfLastOwner, AuthorizedWrites,
         EvidenceIsReceipt, ReceiptIs, items
<1>2. TypeOK => Forward
  BY DEF Forward, TypeOK, Entry, items
<1>3. QED
  BY <1>1, <1>2

\* What was sent and published stays right when the journal moves forward.
LEMMA ForwardFrame ==
  ASSUME TypeOK, Stored, Forward, UNCHANGED <<sent, evidence>>
  PROVE  AuthorizedWrites' /\ EvidenceIsReceipt'
<1>1. AuthorizedWrites'
  <2> SUFFICES ASSUME NEW at \in sent
               PROVE  /\ at.key \in Approved
                      /\ consumed'[ApprovalOf[at.key]] = at.key
                      /\ at.started <= ExpiresAt[ApprovalOf[at.key]]
    BY DEF AuthorizedWrites
  <2>1. at.key \in Keys
    BY DEF TypeOK, Attempt
  <2>2. QED
    BY <2>1 DEF Stored, AuthorizedWrites, Forward
<1>2. EvidenceIsReceipt'
  BY DEF Stored, EvidenceIsReceipt, Forward
<1>3. QED
  BY <1>1, <1>2

\* A step that only changes the locals of one worker, which takes no token.
LEMMA LocalStep ==
  ASSUME IInv, TypeOK', UNCHANGED <<items, sent, evidence>>, NEW w \in Workers,
         \A v \in Workers \ {w} : pc'[v] = pc[v] /\ job'[v] = job[v],
         pc'[w] # "idle" => Remembers(w)',
         pc'[w] \in Owning =>
           /\ pc[w] \in Owning
           /\ job'[w].key = job[w].key
           /\ job'[w].token = job[w].token
  PROVE  IInv'
<1>1. Stored' /\ Forward
  BY StoredFrame DEF IInv, Stored
<1>2. pc'[w] \in Owning => Fenced(w)'
  <2> SUFFICES ASSUME pc'[w] \in Owning PROVE Fenced(w)'
    OBVIOUS
  <2>1. Fenced(w)
    BY DEF IInv, Fencing
  <2>2. QED
    BY <2>1 DEF Fenced, items
<1>3. MemoryHolds' /\ Fencing'
  BY <1>1, <1>2, WorkerStep DEF IInv
<1>4. QED
  BY <1>1, <1>3 DEF IInv, Stored

\* After leaving a delivery there is nothing left to show about the worker.
LEMMA LeaveStep ==
  ASSUME IInv, TypeOK', UNCHANGED <<items, sent, evidence>>,
         NEW w \in Workers, Leave(w)
  PROVE  IInv'
<1>1. /\ pc'[w] = "idle" /\ "idle" \notin Owning
      /\ \A v \in Workers \ {w} : pc'[v] = pc[v] /\ job'[v] = job[v]
  BY DEF Leave, IInv, TypeOK, Owning
<1>2. QED
  BY <1>1, LocalStep

\* Choosing an outcome keeps key and token.
LEMMA ConcludeStep ==
  ASSUME IInv, TypeOK', UNCHANGED <<items, sent, evidence>>,
         NEW w \in Workers, pc[w] \in Owning, NEW outcome \in Outcomes,
         Conclude(w, outcome)
  PROVE  IInv'
<1>1. /\ pc'[w] = "complete"
      /\ \A v \in Workers \ {w} : pc'[v] = pc[v] /\ job'[v] = job[v]
  BY DEF Conclude, IInv, TypeOK
<1>2. /\ job'[w].key = job[w].key /\ job'[w].token = job[w].token
      /\ job'[w].exec = job[w].exec /\ job'[w].owner = job[w].owner
      /\ job'[w].receipt.token = job[w].token
  BY DEF Conclude, IInv, TypeOK, Job
<1>3. Remembers(w)
  BY DEF IInv, MemoryHolds, Owning
<1>4. Remembers(w)'
  BY <1>1, <1>2, <1>3 DEF Remembers, items
<1>5. QED
  BY <1>1, <1>2, <1>4, LocalStep

\* Going on to another await inside the claim.
LEMMA GotoStep ==
  ASSUME IInv, TypeOK', UNCHANGED <<items, sent, evidence>>,
         NEW w \in Workers, pc[w] \in Owning, NEW next \in Owning \ {"complete"},
         next \in {"freshRead", "send", "sending", "readAfter"} =>
           job[w].key \in Approved /\ InWindow(w),
         Goto(w, next)
  PROVE  IInv'
<1>1. /\ pc'[w] = next /\ job' = job
      /\ \A v \in Workers \ {w} : pc'[v] = pc[v] /\ job'[v] = job[v]
  BY DEF Goto, IInv, TypeOK
<1>2. Remembers(w)
  BY DEF IInv, MemoryHolds, Owning
<1>3. Remembers(w)'
  BY <1>1, <1>2 DEF Remembers, items, Owning, InWindow
<1>4. QED
  BY <1>1, <1>3, LocalStep

\* The invariant is inductive, one step per action of the module.
LEMMA InvariantStep ==
  ASSUME IInv, [Next]_vars
  PROVE  IInv'
<1> USE KeysAssumption, TimeAssumption
<1>0. TypeOK /\ TypeOK' /\ Stored /\ MemoryHolds /\ Fencing
  BY TypeStep DEF IInv, Stored
<1>1. ASSUME NEW w \in Workers, NEW k \in Keys, Deliver(w, k)
      PROVE  IInv'
  <2>1. /\ pc'[w] = "claim" /\ job'[w].exec = Absent /\ job'[w].owner = NoKey
        /\ job'[w].key = k
        /\ \A v \in Workers \ {w} : pc'[v] = pc[v] /\ job'[v] = job[v]
    BY <1>0, <1>1 DEF Deliver, TypeOK, NoJob
  <2>2. Remembers(w)' /\ pc'[w] \notin Owning
    BY <2>1 DEF Remembers, Absent, Owning
  <2>3. UNCHANGED <<items, sent, evidence>>
    BY <1>1 DEF Deliver, world
  <2>4. QED
    BY <1>0, <2>1, <2>2, <2>3, LocalStep
<1>2. ASSUME NEW w \in Workers, ClaimFirst(w)
      PROVE  IInv'
  <2> DEFINE k == job[w].key
             a == ApprovalOf[k]
             item == [status |-> "IN_PROGRESS", token |-> 1,
                      lease |-> job[w].started + LeaseTime, receipt |-> NoReceipt]
  <2>1. k \in Keys /\ a \in Approvals /\ Remembers(w)
    BY <1>0, <1>2 DEF ClaimFirst, TypeOK, MemoryHolds
  <2>2. /\ journal' = [journal EXCEPT ![k] = item]
        /\ consumed' = [consumed EXCEPT ![a] = k]
        /\ journal[k].status = "ABSENT" /\ consumed[a] = NoKey
        /\ pc'[w] = "decide"
        /\ job'[w] = [job[w] EXCEPT !.token = 1]
        /\ \A v \in Workers \ {w} : pc'[v] = pc[v] /\ job'[v] = job[v]
        /\ UNCHANGED <<sent, evidence>>
    BY <1>0, <1>2 DEF ClaimFirst, Unclaimed, TypeOK, world
  <2>3. \A l \in Keys : l # k => journal'[l] = journal[l]
    BY <1>0, <2>2 DEF TypeOK
  <2>4. journal'[k] = item
    BY <1>0, <2>1, <2>2 DEF TypeOK
  <2>5. \A l \in Keys : l # k => consumed[ApprovalOf[l]] # l \/
                             (ApprovalOf[l] # a /\ consumed'[ApprovalOf[l]] = l)
    BY <1>0, <2>1, <2>2 DEF TypeOK
  <2>6. consumed'[a] = k
    BY <1>0, <2>1, <2>2 DEF TypeOK
  <2>7. ReceiptOfLastOwner /\ ClaimsAgree
    BY <1>0 DEF Stored
  <2>8. Forward
    <3> SUFFICES ASSUME NEW l \in Keys
                 PROVE  /\ journal[l].status = "COMPLETED" =>
                             /\ journal'[l].status = "COMPLETED"
                             /\ journal'[l].receipt = journal[l].receipt
                        /\ journal[l].token <= journal'[l].token
                        /\ consumed[ApprovalOf[l]] = l => consumed'[ApprovalOf[l]] = l
      BY DEF Forward
    <3>1. journal[l].token \in Nat
      BY <1>0 DEF TypeOK, Entry
    <3>2. CASE l = k
      BY <2>1, <2>2, <2>4, <2>6, <2>7, <3>1, <3>2 DEF ClaimsAgree
    <3>3. CASE l # k
      BY <2>3, <2>5, <3>1, <3>3
    <3>4. QED
      BY <3>2, <3>3
  <2>9. Stored'
    <3>1. ClaimsAgree'
      BY <2>1, <2>2, <2>3, <2>4, <2>5, <2>6, <2>7 DEF ClaimsAgree
    <3>2. ReceiptOfLastOwner'
      BY <2>3, <2>4, <2>7 DEF ReceiptOfLastOwner
    <3>3. QED
      BY <1>0, <2>2, <2>8, <3>1, <3>2, ForwardFrame DEF Stored
  <2>10. /\ job'[w].key = k /\ job'[w].token = 1 /\ job'[w].exec = job[w].exec
         /\ job'[w].owner = job[w].owner
    BY <1>0, <2>2 DEF TypeOK, Job
  <2>11. Remembers(w)'
    BY <2>1, <2>2, <2>6, <2>10 DEF Remembers
  <2>12. Fenced(w)'
    <3>1. job'[w].token \in 1 .. journal'[k].token
      BY <2>4, <2>10
    <3>2. \A v \in Workers \ {w} : ~(pc[v] \in Owning /\ job[v].key = k)
      BY <1>0, <2>1, <2>2 DEF Fencing, Fenced
    <3>3. QED
      BY <2>2, <2>6, <2>10, <3>1, <3>2 DEF Fenced
  <2>13. QED
    BY <1>0, <2>2, <2>8, <2>9, <2>11, <2>12, WorkerStep DEF IInv, Stored
<1>3. ASSUME NEW w \in Workers, ClaimCancelled(w)
      PROVE  IInv'
  <2>1. /\ pc'[w] = "classify" /\ job'[w].exec = job[w].exec
        /\ job'[w].owner = job[w].owner /\ job'[w].key = job[w].key
        /\ \A v \in Workers \ {w} : pc'[v] = pc[v] /\ job'[v] = job[v]
    BY <1>0, <1>3 DEF ClaimCancelled, TypeOK, Job
  <2>2. Remembers(w)
    BY <1>0, <1>3 DEF ClaimCancelled, MemoryHolds
  <2>3. UNCHANGED <<items, sent, evidence>>
    BY <1>3 DEF ClaimCancelled, world
  <2>4. Remembers(w)' /\ pc'[w] \notin Owning
    BY <2>1, <2>2, <2>3 DEF Remembers, items, Owning
  <2>5. QED
    BY <1>0, <2>1, <2>3, <2>4, LocalStep
<1>4. ASSUME NEW w \in Workers, ReadExecution(w)
      PROVE  IInv'
  <2>1. /\ pc'[w] = "classify" /\ job'[w].exec = journal[job[w].key]
        /\ job'[w].owner = job[w].owner /\ job'[w].key = job[w].key
        /\ \A v \in Workers \ {w} : pc'[v] = pc[v] /\ job'[v] = job[v]
    <3>1. /\ pc' = pc /\ pc[w] = "classify"
          /\ job' = [job EXCEPT ![w].exec = journal[job[w].key],
                                ![w].pending = job[w].pending \ {"exec"}]
      BY ONLY <1>4 DEF ReadExecution
    <3>2. job \in [Workers -> Job]
      BY <1>0 DEF TypeOK
    <3> QED
      BY <3>1, <3>2 DEF Job
  <2>2. Remembers(w)
    BY <1>0, <1>4 DEF ReadExecution, MemoryHolds
  <2>3. UNCHANGED <<items, sent, evidence>>
    BY <1>4 DEF ReadExecution, world
  <2>4. Remembers(w)' /\ pc'[w] \notin Owning
    BY <2>1, <2>2, <2>3 DEF Remembers, items, Owning
  <2>5. QED
    BY <1>0, <2>1, <2>3, <2>4, LocalStep
<1>5. ASSUME NEW w \in Workers, ReadApproval(w)
      PROVE  IInv'
  <2>1. /\ pc'[w] = "classify" /\ job'[w].exec = job[w].exec
        /\ job'[w].owner = consumed[ApprovalOf[job[w].key]]
        /\ job'[w].key = job[w].key
        /\ \A v \in Workers \ {w} : pc'[v] = pc[v] /\ job'[v] = job[v]
    <3>1. job[w] \in Job
      BY <1>0 DEF TypeOK
    <3>2. job'[w] = [job[w] EXCEPT !.owner = consumed[ApprovalOf[job[w].key]],
                                   !.pending = job[w].pending \ {"owner"}]
      BY <1>0, <1>5 DEF ReadApproval, TypeOK
    <3>3. \A v \in Workers \ {w} : pc'[v] = pc[v] /\ job'[v] = job[v]
      BY <1>0, <1>5 DEF ReadApproval, TypeOK
    <3>4. pc'[w] = "classify"
      BY <1>5 DEF ReadApproval
    <3>5. /\ job'[w].exec = job[w].exec /\ job'[w].key = job[w].key
          /\ job'[w].owner = consumed[ApprovalOf[job[w].key]]
      BY <3>1, <3>2 DEF Job
    <3>6. QED
      BY <3>3, <3>4, <3>5
  <2>2. Remembers(w)
    BY <1>0, <1>5 DEF ReadApproval, MemoryHolds
  <2>3. UNCHANGED <<items, sent, evidence>>
    BY <1>5 DEF ReadApproval, world
  <2>4. Remembers(w)' /\ pc'[w] \notin Owning
    BY <2>1, <2>2, <2>3 DEF Remembers, items, Owning
  <2>5. QED
    BY <1>0, <2>1, <2>3, <2>4, LocalStep
<1>6. ASSUME NEW w \in Workers, Classify(w)
      PROVE  IInv'
  <2>1. UNCHANGED <<items, sent, evidence>>
    BY <1>6 DEF Classify, world
  <2>2. Remembers(w) /\ pc[w] \notin Owning /\ job[w] \in Job
    BY <1>0, <1>6 DEF Classify, MemoryHolds, Owning, TypeOK
  <2>3. CASE Leave(w)
    BY <1>0, <2>1, <2>3, LeaveStep
  <2>4. CASE SameBinding(w) /\ Goto(w, "takeover")
    <3>1. /\ pc'[w] = "takeover" /\ job' = job
          /\ \A v \in Workers \ {w} : pc'[v] = pc[v] /\ job'[v] = job[v]
      BY <1>0, <2>4 DEF Goto, TypeOK
    <3>2. Remembers(w)' /\ pc'[w] \notin Owning
      BY <2>1, <2>2, <2>4, <3>1 DEF Remembers, SameBinding, items, Owning
    <3>3. QED
      BY <1>0, <2>1, <3>1, <3>2, LocalStep
  <2>5. CASE /\ job[w].exec.status = "COMPLETED"
             /\ pc' = [pc EXCEPT ![w] = "publish"]
             /\ job' = [job EXCEPT ![w].receipt = job[w].exec.receipt]
    <3>1. /\ pc'[w] = "publish" /\ job'[w].receipt = job[w].exec.receipt
          /\ job'[w].exec = job[w].exec /\ job'[w].owner = job[w].owner
          /\ job'[w].key = job[w].key
          /\ \A v \in Workers \ {w} : pc'[v] = pc[v] /\ job'[v] = job[v]
      BY <1>0, <2>2, <2>5 DEF TypeOK, Job
    <3>2. Remembers(w)' /\ pc'[w] \notin Owning
      BY <2>1, <2>2, <2>5, <3>1 DEF Remembers, items, Owning
    <3>3. QED
      BY <1>0, <2>1, <3>1, <3>2, LocalStep
  <2>6. QED
    BY <1>6, <2>3, <2>4, <2>5 DEF Classify
<1>7. ASSUME NEW w \in Workers, TakeOver(w)
      PROVE  IInv'
  <2>1. CASE ~Unmoved(w)
    BY <1>0, <1>7, <2>1, LeaveStep DEF TakeOver, items, world
  <2>2. CASE Unmoved(w)
    <3> DEFINE k == job[w].key
               next == job[w].exec.token + 1
    <3>1. /\ k \in Keys /\ Remembers(w) /\ job[w] \in Job
          /\ job[w].exec.status \in Held /\ pc[w] = "takeover"
      BY <1>0, <1>7 DEF TakeOver, TypeOK, MemoryHolds
    <3>2. /\ journal[k].status \in Held /\ journal[k].token = job[w].exec.token
          /\ journal[k].token \in Nat /\ consumed[ApprovalOf[k]] = k
      BY <1>0, <2>2, <3>1 DEF Unmoved, Remembers, TypeOK, Entry
    <3>3. /\ journal'[k].status = "RECONCILING" /\ journal'[k].token = next
          /\ journal'[k].receipt = journal[k].receipt
          /\ \A l \in Keys : l # k => journal'[l] = journal[l]
          /\ UNCHANGED <<consumed, sent, evidence>>
      BY <1>0, <1>7, <2>2, <3>1 DEF TakeOver, TypeOK, Entry, world
    <3>4. /\ pc'[w] = "reconcile" /\ job'[w].token = next /\ job'[w].key = k
          /\ job'[w].exec = job[w].exec /\ job'[w].owner = job[w].owner
          /\ \A v \in Workers \ {w} : pc'[v] = pc[v] /\ job'[v] = job[v]
      BY <1>0, <1>7, <2>2, <3>1 DEF TakeOver, TypeOK, Job
    <3> HIDE DEF k, next
    <3>5. next = journal[k].token + 1
      BY <3>2 DEF k, next
    <3>6. ReceiptOfLastOwner /\ ClaimsAgree
      BY <1>0 DEF Stored
    <3>7. Forward
      <4>1. \A l \in Keys : journal[l].token \in Nat
        BY <1>0 DEF TypeOK, Entry
      <4>2. QED
        BY <3>2, <3>3, <3>5, <4>1 DEF Forward, Held
    <3>8. Stored'
      <4>1. ClaimsAgree'
        BY <3>1, <3>2, <3>3, <3>5, <3>6 DEF ClaimsAgree, Held
      <4>2. ReceiptOfLastOwner'
        BY <3>2, <3>3, <3>6 DEF ReceiptOfLastOwner, Held
      <4>3. QED
        BY <1>0, <3>3, <3>7, <4>1, <4>2, ForwardFrame DEF Stored
    <3>9. Remembers(w)'
      BY <3>1, <3>2, <3>3, <3>4 DEF Remembers, Held, k
    <3>10. Fenced(w)'
      <4>1. \A v \in Workers \ {w} : pc[v] \in Owning /\ job[v].key = k =>
              job[v].token # next
        <5> SUFFICES ASSUME NEW v \in Workers \ {w}, pc[v] \in Owning, job[v].key = k
                     PROVE  job[v].token # next
          OBVIOUS
        <5>1. job[v].token \in 1 .. journal[k].token
          BY <1>0 DEF Fencing, Fenced
        <5>2. QED
          BY <3>2, <3>5, <5>1
      <4>2. next \in 1 .. journal'[k].token
        BY <3>2, <3>3, <3>5
      <4>3. QED
        BY <3>2, <3>3, <3>4, <4>1, <4>2 DEF Fenced
    <3>11. QED
      BY <1>0, <3>4, <3>7, <3>8, <3>9, <3>10, WorkerStep DEF IInv, Stored
  <2>3. QED
    BY <2>1, <2>2
<1>8. ASSUME NEW w \in Workers, ReconcileRead(w)
      PROVE  IInv'
  <2>1. UNCHANGED <<items, sent, evidence>> /\ pc[w] \in Owning
    BY <1>8 DEF ReconcileRead, world, Owning
  <2>2. CASE Goto(w, "resume")
    BY <1>0, <2>1, <2>2, GotoStep DEF Owning
  <2>3. CASE Conclude(w, "INDETERMINATE")
    BY <1>0, <2>1, <2>3, ConcludeStep DEF Outcomes
  <2>4. QED
    BY <1>8, <2>2, <2>3 DEF ReconcileRead
<1>9. ASSUME NEW w \in Workers, Resume(w)
      PROVE  IInv'
  <2>1. CASE ~Resumable(w)
    BY <1>0, <1>9, <2>1, LeaveStep DEF Resume, items, world
  <2>2. CASE Resumable(w)
    <3> DEFINE k == job[w].key
    <3>1. /\ k \in Keys /\ Remembers(w) /\ Fenced(w)
          /\ journal[k].status = "RECONCILING"
      BY <1>0, <1>9, <2>2 DEF Resume, Resumable, TypeOK, MemoryHolds, Fencing, Owning
    <3>2. /\ journal'[k].status = "IN_PROGRESS" /\ journal'[k].token = journal[k].token
          /\ journal'[k].receipt = journal[k].receipt
          /\ \A l \in Keys : l # k => journal'[l] = journal[l]
          /\ UNCHANGED <<consumed, sent, evidence>>
      BY <1>0, <1>9, <2>2, <3>1 DEF Resume, TypeOK, Entry, world
    <3>3. /\ pc'[w] = "decide" /\ job' = job
          /\ \A v \in Workers \ {w} : pc'[v] = pc[v] /\ job'[v] = job[v]
      BY <1>0, <1>9, <2>2 DEF Resume, Goto, TypeOK
    <3> HIDE DEF k
    <3>4. ReceiptOfLastOwner /\ ClaimsAgree
      BY <1>0 DEF Stored
    <3>5. Forward
      <4>1. \A l \in Keys : journal[l].token \in Nat
        BY <1>0 DEF TypeOK, Entry
      <4>2. QED
        BY <3>1, <3>2, <4>1 DEF Forward
    <3>6. Stored'
      <4>1. ClaimsAgree'
        BY <3>1, <3>2, <3>4 DEF ClaimsAgree
      <4>2. ReceiptOfLastOwner'
        BY <3>1, <3>2, <3>4 DEF ReceiptOfLastOwner
      <4>3. QED
        BY <1>0, <3>2, <3>5, <4>1, <4>2, ForwardFrame DEF Stored
    <3>7. Remembers(w)'
      BY <3>1, <3>2, <3>3 DEF Remembers, k
    <3>8. Fenced(w)'
      BY <3>1, <3>2, <3>3 DEF Fenced, k
    <3>9. QED
      BY <1>0, <3>3, <3>5, <3>6, <3>7, <3>8, WorkerStep DEF IInv, Stored
  <2>3. QED
    BY <2>1, <2>2
<1>10. ASSUME NEW w \in Workers, Decide(w)
       PROVE  IInv'
  <2>1. UNCHANGED <<items, sent, evidence>> /\ pc[w] \in Owning
    BY <1>10 DEF Decide, world, Owning
  <2>2. CASE Conclude(w, "REJECTED") \/ Conclude(w, "EXPIRED")
    BY <1>0, <2>1, <2>2, ConcludeStep DEF Outcomes
  <2>3. CASE job[w].key \in Approved /\ InWindow(w) /\ Goto(w, "freshRead")
    BY <1>0, <2>1, <2>3, GotoStep DEF Owning
  <2>4. QED
    BY <1>10, <2>2, <2>3 DEF Decide
<1>11. ASSUME NEW w \in Workers, FreshRead(w)
       PROVE  IInv'
  <2>1. UNCHANGED <<items, sent, evidence>> /\ pc[w] \in Owning /\ Remembers(w)
    BY <1>0, <1>11 DEF FreshRead, world, Owning, MemoryHolds
  <2>2. CASE Goto(w, "send")
    BY <1>0, <1>11, <2>1, <2>2, GotoStep DEF Owning, Remembers, FreshRead
  <2>3. CASE Conclude(w, "STALE")
    BY <1>0, <2>1, <2>3, ConcludeStep DEF Outcomes
  <2>4. QED
    BY <1>11, <2>2, <2>3 DEF FreshRead
<1>12. ASSUME NEW w \in Workers, Send(w)
       PROVE  IInv'
  <2>1. /\ UNCHANGED <<items, evidence>> /\ pc[w] = "send" /\ pc[w] \in Owning
        /\ Remembers(w) /\ Fenced(w)
    BY <1>0, <1>12 DEF Send, Owning, MemoryHolds, Fencing
  <2>2. CASE Conclude(w, "INDETERMINATE") /\ UNCHANGED sent
    BY <1>0, <2>1, <2>2, ConcludeStep DEF Outcomes
  <2>3. CASE sent' = sent \cup {AttemptOf(w)} /\ Goto(w, "sending")
    <3>1. /\ pc'[w] = "sending" /\ job' = job
          /\ \A v \in Workers \ {w} : pc'[v] = pc[v] /\ job'[v] = job[v]
      BY <1>0, <2>3 DEF Goto, TypeOK
    <3>2. AuthorizedWrites'
      <4>1. /\ job[w].key \in Approved /\ InWindow(w)
            /\ consumed[ApprovalOf[job[w].key]] = job[w].key
        BY <2>1 DEF Remembers, Fenced
      <4>2. QED
        BY <1>0, <2>1, <2>3, <4>1
        DEF Stored, AuthorizedWrites, AttemptOf, InWindow, items
    <3>3. ClaimsAgree' /\ ReceiptOfLastOwner' /\ EvidenceIsReceipt' /\ Forward
      BY <1>0, <2>1 DEF Stored, ClaimsAgree, ReceiptOfLastOwner, EvidenceIsReceipt,
                        Forward, items, TypeOK, Entry
    <3>4. Remembers(w)' /\ Fenced(w)'
      BY <2>1, <3>1 DEF Remembers, Fenced, InWindow, items
    <3>5. QED
      BY <1>0, <3>1, <3>2, <3>3, <3>4, WorkerStep DEF IInv
  <2>4. QED
    BY <1>12, <2>2, <2>3 DEF Send
<1>13. ASSUME NEW w \in Workers, Answer(w)
       PROVE  IInv'
  <2>1. UNCHANGED <<items, sent, evidence>> /\ pc[w] \in Owning /\ Remembers(w)
    BY <1>0, <1>13 DEF Answer, world, Owning, MemoryHolds
  <2>2. CASE Goto(w, "readAfter")
    BY <1>0, <1>13, <2>1, <2>2, GotoStep DEF Owning, Remembers, Answer
  <2>3. CASE Conclude(w, "INDETERMINATE")
    BY <1>0, <2>1, <2>3, ConcludeStep DEF Outcomes
  <2>4. QED
    BY <1>13, <2>2, <2>3 DEF Answer
<1>14. ASSUME NEW w \in Workers, ReadAfter(w)
       PROVE  IInv'
  <2>1. UNCHANGED <<items, sent, evidence>> /\ pc[w] \in Owning
    BY <1>14 DEF ReadAfter, world, Owning
  <2>2. QED
    BY <1>0, <1>14, <2>1, ConcludeStep DEF ReadAfter, Outcomes
<1>15. ASSUME NEW w \in Workers, Complete(w)
       PROVE  IInv'
  <2>1. CASE ~Completable(w)
    BY <1>0, <1>15, <2>1, LeaveStep DEF Complete, items, world
  <2>2. CASE Completable(w)
    <3> DEFINE k == job[w].key
               r == job[w].receipt
    <3>1. /\ k \in Keys /\ Remembers(w) /\ Fenced(w) /\ pc[w] = "complete"
          /\ journal[k].status \in Held /\ journal[k].token = job[w].token
      BY <1>0, <1>15, <2>2
      DEF Complete, Completable, TypeOK, MemoryHolds, Fencing, Owning
    <3>2. r.token = journal[k].token
      BY <3>1 DEF Remembers
    <3>3. /\ journal'[k].status = "COMPLETED" /\ journal'[k].token = journal[k].token
          /\ journal'[k].receipt = r
          /\ \A l \in Keys : l # k => journal'[l] = journal[l]
          /\ UNCHANGED <<consumed, sent, evidence>>
      BY <1>0, <1>15, <2>2, <3>1 DEF Complete, TypeOK, Entry, world
    <3>4. /\ pc'[w] = "publish" /\ job' = job
          /\ \A v \in Workers \ {w} : pc'[v] = pc[v] /\ job'[v] = job[v]
      BY <1>0, <1>15, <2>2 DEF Complete, Goto, TypeOK
    <3> HIDE DEF k, r
    <3>5. ReceiptOfLastOwner /\ ClaimsAgree
      BY <1>0 DEF Stored
    <3>6. Forward
      <4>1. \A l \in Keys : journal[l].token \in Nat
        BY <1>0 DEF TypeOK, Entry
      <4>2. QED
        BY <3>1, <3>3, <4>1 DEF Forward, Held
    <3>7. Stored'
      <4>1. ClaimsAgree'
        BY <3>1, <3>3, <3>5 DEF ClaimsAgree, Held
      <4>2. ReceiptOfLastOwner'
        BY <3>2, <3>3, <3>5 DEF ReceiptOfLastOwner
      <4>3. QED
        BY <1>0, <3>3, <3>6, <4>1, <4>2, ForwardFrame DEF Stored
    <3>8. Remembers(w)'
      <4>1. job[w].exec.status # "COMPLETED"
        BY <3>1 DEF Remembers, k, Held
      <4>2. QED
        BY <3>1, <3>3, <3>4, <4>1 DEF Remembers, k, r
    <3>9. pc'[w] \notin Owning
      BY <3>4 DEF Owning
    <3>10. QED
      BY <1>0, <3>4, <3>6, <3>7, <3>8, <3>9, WorkerStep DEF IInv, Stored
  <2>3. QED
    BY <2>1, <2>2
<1>16. ASSUME NEW w \in Workers, Publish(w)
       PROVE  IInv'
  <2>1. /\ job[w].key \in Keys /\ Remembers(w) /\ pc[w] = "publish"
        /\ UNCHANGED <<journal, consumed, sent>>
        /\ evidence' = [evidence EXCEPT ![job[w].key] =
                           evidence[job[w].key] \cup {job[w].receipt}]
    BY <1>0, <1>16 DEF Publish, TypeOK, MemoryHolds, items
  <2>2. /\ pc'[w] = "idle" /\ pc'[w] \notin Owning
        /\ \A v \in Workers \ {w} : pc'[v] = pc[v] /\ job'[v] = job[v]
    BY <1>0, <1>16 DEF Publish, Leave, TypeOK, Owning
  <2>3. EvidenceIsReceipt'
    BY <1>0, <2>1 DEF Stored, EvidenceIsReceipt, Remembers, TypeOK
  <2>4. ClaimsAgree' /\ ReceiptOfLastOwner' /\ AuthorizedWrites' /\ Forward
    BY <1>0, <2>1 DEF Stored, ClaimsAgree, ReceiptOfLastOwner, AuthorizedWrites,
                      Forward, TypeOK, Entry
  <2>5. QED
    BY <1>0, <2>2, <2>3, <2>4, WorkerStep DEF IInv
<1>17. ASSUME NEW w \in Workers, Abandon(w)
       PROVE  IInv'
  BY <1>0, <1>17, LeaveStep DEF Abandon, world
<1>18. ASSUME UNCHANGED <<items, sent, evidence, pc, job>>
       PROVE  IInv'
  BY <1>0, <1>18 DEF IInv, Stored, items, ClaimsAgree, ReceiptOfLastOwner,
     AuthorizedWrites, EvidenceIsReceipt, MemoryHolds, Remembers, InWindow,
     Fencing, Fenced
<1>19. ASSUME NEW at \in sent, Apply(at)
       PROVE  IInv'
  BY <1>18, <1>19 DEF Apply
<1>20. ASSUME NEW t \in Tags, ExternalWrite(t)
       PROVE  IInv'
  BY <1>18, <1>20 DEF ExternalWrite
<1>21. CASE Tick
  BY <1>18, <1>21 DEF Tick, world
<1>22. CASE UNCHANGED vars
  BY <1>18, <1>22 DEF vars, items
<1>23. QED
  BY <1>1, <1>2, <1>3, <1>4, <1>5, <1>6, <1>7, <1>8, <1>9, <1>10, <1>11, <1>12,
     <1>13, <1>14, <1>15, <1>16, <1>17, <1>19, <1>20, <1>21, <1>22
  DEF Next, Work

\* The invariant holds before anything happened.
LEMMA InvariantInit == Init => IInv
<1> SUFFICES ASSUME Init PROVE IInv
  OBVIOUS
<1>1. TypeOK
  BY KeysAssumption, TimeAssumption, TargetAssumption, Defaults
  DEF Init, TypeOK, Absent, PCs
<1>2. ClaimsAgree /\ ReceiptOfLastOwner
  BY KeysAssumption DEF Init, ClaimsAgree, ReceiptOfLastOwner, Absent
<1>3. MemoryHolds /\ Fencing /\ AuthorizedWrites /\ EvidenceIsReceipt
  BY DEF Init, MemoryHolds, Fencing, AuthorizedWrites, EvidenceIsReceipt, Owning
<1>4. QED
  BY <1>1, <1>2, <1>3 DEF IInv

\* The inductive invariant holds in every reachable state.
THEOREM Invariant == Spec => []IInv
  BY InvariantInit, InvariantStep, PTL DEF Spec

\* No two workers ever hold the same fencing token of an execution
\* (DynamoExecutionJournal.claim and resume).
THEOREM FencingHolds == Spec => []Fencing
<1>1. IInv => Fencing
  BY DEF IInv
<1>2. QED
  BY <1>1, Invariant, PTL

\* Only the last owner of an execution ever stores its receipt
\* (DynamoExecutionJournal.complete).
THEOREM LastOwnerCompletes == Spec => []ReceiptOfLastOwner
<1>1. IInv => ReceiptOfLastOwner
  BY DEF IInv
<1>2. QED
  BY <1>1, Invariant, PTL

\* No request reaches DataHub without an approval of that very execution, given
\* and used in time (executeApprovedRemediation).
THEOREM WritesAreAuthorized == Spec => []AuthorizedWrites
<1>1. IInv => AuthorizedWrites
  BY DEF IInv
<1>2. QED
  BY <1>1, Invariant, PTL

-----------------------------------------------------------------------------
(* Receipts are truthful *)

\* What a step of one worker may do to the journal: tokens do not go down, a closed
\* execution stays as it is, and one is closed by an owner that leaves it.
ClosesOwn(w) ==
  \A k \in Keys :
    /\ journal[k].token <= journal'[k].token
    /\ journal[k].status = "COMPLETED" =>
         /\ journal'[k].status = "COMPLETED"
         /\ journal'[k].token = journal[k].token
         /\ journal'[k].receipt = journal[k].receipt
    /\ journal'[k].status = "COMPLETED" /\ journal[k].status # "COMPLETED" =>
         /\ k = job[w].key /\ pc[w] = "complete" /\ pc'[w] \notin Owning
         /\ journal'[k].token = job[w].token /\ journal'[k].receipt = job[w].receipt
         /\ sent' = sent

\* Such a step, in which at most the worker's own request is sent, keeps what the
\* others concluded: their tokens are other ones.
LEMMA HonestStep ==
  ASSUME IInv, AttemptsAgree, TypeOK', NEW w \in Workers,
         \A v \in Workers \ {w} : pc'[v] = pc[v] /\ job'[v] = job[v],
         applied' = applied,
         sent' = sent \/ (pc[w] \in Owning /\ sent' = sent \cup {AttemptOf(w)}),
         ClosesOwn(w),
         pc'[w] \in Owning => Honest(w)'
  PROVE  AttemptsAgree'
<1>1. ASSUME NEW at \in sent', at \notin sent
      PROVE  /\ pc[w] \in Owning /\ Fenced(w) /\ Honest(w) /\ job[w].key \in Keys
             /\ at.key = job[w].key /\ at.token = job[w].token
  BY <1>1 DEF IInv, TypeOK, Fencing, AttemptsAgree, AttemptOf, Owning
<1>2. ASSUME NEW k \in Keys
      PROVE  journal[k].token \in Nat /\ journal'[k].token \in Nat
  BY <1>2 DEF IInv, TypeOK, Entry
<1>3. ASSUME NEW at \in sent'
      PROVE  at.token \in 1 .. journal'[at.key].token
  <2>1. at.key \in Keys
    BY <1>3 DEF TypeOK, Attempt
  <2>2. at.token \in 1 .. journal[at.key].token
    BY <1>1, <1>3 DEF AttemptsAgree, Fenced
  <2>3. journal[at.key].token <= journal'[at.key].token
    BY <2>1 DEF ClosesOwn
  <2>4. QED
    BY <1>2, <2>1, <2>2, <2>3
<1>4. ASSUME NEW v \in Workers, v # w, pc'[v] \in Owning
      PROVE  Honest(v)'
  <2> DEFINE k == job[v].key
  <2>1. /\ pc'[v] = pc[v] /\ job'[v] = job[v] /\ k \in Keys
        /\ Honest(v) /\ Remembers(v) /\ Fenced(v)
    BY <1>4 DEF IInv, TypeOK, MemoryHolds, Fencing, AttemptsAgree, Owning
  <2>2. ASSUME NEW at \in sent', at \notin sent, at.key = k
        PROVE  at.token # job[v].token
    BY <1>1, <1>4, <2>1, <2>2 DEF Fenced
  <2>3. pc[v] \in Unsent => \A at \in sent' : at.key = k => at.token # job[v].token
    BY <2>1, <2>2 DEF Honest
  <2>4. pc[v] = "readAfter" => AttemptOf(v)' \in applied'
    BY <2>1 DEF Honest, AttemptOf
  <2>5. pc[v] = "complete" => ReceiptIsOwn(k, job[v].receipt)'
    <3>1. pc[v] = "complete" =>
            job[v].receipt.token = job[v].token /\ ReceiptIsOwn(k, job[v].receipt)
      BY <2>1 DEF Remembers, Honest
    <3>2. QED
      BY <2>1, <2>2, <3>1 DEF ReceiptIsOwn
  <2>6. journal'[k].status = "COMPLETED" => job[v].token # journal'[k].token
    <3>1. CASE journal[k].status = "COMPLETED"
      BY <2>1, <3>1 DEF Honest, ClosesOwn
    <3>2. CASE journal'[k].status = "COMPLETED" /\ journal[k].status # "COMPLETED"
      <4>1. k = job[w].key /\ pc[w] = "complete" /\ journal'[k].token = job[w].token
        BY <2>1, <3>2 DEF ClosesOwn
      <4>2. QED
        BY <1>4, <2>1, <4>1 DEF Fenced, Owning
    <3>3. QED
      BY <3>1, <3>2
  <2>7. QED
    BY <2>1, <2>3, <2>4, <2>5, <2>6 DEF Honest
<1>5. ASSUME NEW k \in Keys, journal'[k].status = "COMPLETED"
      PROVE  ReceiptIsOwn(k, journal[k].receipt)'
  <2>1. CASE journal[k].status = "COMPLETED"
    <3>1. /\ journal'[k].receipt = journal[k].receipt
          /\ journal[k].receipt.token = journal[k].token
          /\ ReceiptIsOwn(k, journal[k].receipt)
      BY <2>1 DEF ClosesOwn, IInv, ReceiptOfLastOwner, AttemptsAgree
    <3>2. ASSUME NEW at \in sent', at \notin sent, at.key = k
          PROVE  at.token # journal[k].receipt.token
      BY <1>1, <2>1, <3>1, <3>2 DEF Honest
    <3>3. QED
      BY <3>1, <3>2 DEF ReceiptIsOwn
  <2>2. CASE journal[k].status # "COMPLETED"
    <3>1. /\ k = job[w].key /\ pc[w] = "complete" /\ sent' = sent
          /\ journal'[k].receipt = job[w].receipt
      BY <1>5, <2>2 DEF ClosesOwn
    <3>2. ReceiptIsOwn(k, job[w].receipt)
      BY <3>1 DEF AttemptsAgree, Honest, Owning
    <3>3. QED
      BY <3>1, <3>2 DEF ReceiptIsOwn
  <2>3. QED
    BY <2>1, <2>2
<1>6. QED
  BY <1>3, <1>4, <1>5 DEF AttemptsAgree

\* A step that leaves the items alone closes nothing.
LEMMA ClosesNothing ==
  ASSUME TypeOK, UNCHANGED journal, NEW w \in Workers
  PROVE  ClosesOwn(w)
  BY DEF TypeOK, Entry, ClosesOwn

\* Leaving a delivery, and any step of a worker that does not end inside a claim.
LEMMA HonestOutside ==
  ASSUME IInv, AttemptsAgree, TypeOK', NEW w \in Workers,
         \A v \in Workers \ {w} : pc'[v] = pc[v] /\ job'[v] = job[v],
         pc'[w] \notin Owning, UNCHANGED <<journal, sent, applied>>
  PROVE  AttemptsAgree'
  BY HonestStep, ClosesNothing DEF IInv

\* An owner that concludes says what it did.
LEMMA HonestConclusion ==
  ASSUME IInv, AttemptsAgree, TypeOK', NEW w \in Workers, pc[w] \in Owning,
         NEW outcome \in Outcomes, Conclude(w, outcome),
         UNCHANGED <<journal, sent, applied>>,
         outcome = "VERIFIED" => pc[w] = "readAfter",
         outcome \in NoWriteOutcomes => pc[w] \in Unsent
  PROVE  AttemptsAgree'
<1>1. /\ pc'[w] = "complete"
      /\ \A v \in Workers \ {w} : pc'[v] = pc[v] /\ job'[v] = job[v]
      /\ job'[w].key = job[w].key /\ job'[w].token = job[w].token
      /\ job'[w].receipt.outcome = outcome /\ job'[w].receipt.token = job[w].token
  BY DEF Conclude, IInv, TypeOK, Job
<1>2. Honest(w)
  BY DEF AttemptsAgree
<1>3. ReceiptIsOwn(job[w].key, job'[w].receipt)
  BY <1>1, <1>2 DEF ReceiptIsOwn, Honest, AttemptOf
<1>4. Honest(w)'
  BY <1>1, <1>2, <1>3 DEF Honest, ReceiptIsOwn, Unsent
<1>5. QED
  BY <1>1, <1>4, HonestStep, ClosesNothing DEF IInv

\* An owner that goes on keeps what it has sent, or has not.
LEMMA HonestGoto ==
  ASSUME IInv, AttemptsAgree, TypeOK', NEW w \in Workers, pc[w] \in Owning,
         NEW next \in Owning \ {"complete"}, Goto(w, next),
         UNCHANGED <<journal, applied>>,
         \/ sent' = sent
         \/ next = "sending" /\ sent' = sent \cup {AttemptOf(w)},
         next \in Unsent => pc[w] \in Unsent,
         next = "readAfter" => AttemptOf(w) \in applied
  PROVE  AttemptsAgree'
<1>1. /\ pc'[w] = next /\ job' = job
      /\ \A v \in Workers \ {w} : pc'[v] = pc[v] /\ job'[v] = job[v]
  BY DEF Goto, IInv, TypeOK
<1>2. Honest(w)
  BY DEF AttemptsAgree
<1>3. Honest(w)'
  BY <1>1, <1>2 DEF Honest, AttemptOf, Unsent
<1>4. QED
  BY <1>1, <1>3, HonestStep, ClosesNothing DEF IInv

\* Receipts stay truthful, one step per action of the module.
LEMMA AttemptsStep ==
  ASSUME IInv, IInv', AttemptsAgree, [Next]_vars
  PROVE  AttemptsAgree'
<1> USE KeysAssumption
<1>0. TypeOK /\ TypeOK'
  BY DEF IInv
<1>1. ASSUME NEW w \in Workers, Leave(w), UNCHANGED <<journal, sent, applied>>
      PROVE  AttemptsAgree'
  <2>1. /\ pc'[w] \notin Owning
        /\ \A v \in Workers \ {w} : pc'[v] = pc[v] /\ job'[v] = job[v]
    BY <1>0, <1>1 DEF Leave, TypeOK, Owning
  <2>2. QED
    BY <1>0, <1>1, <2>1, HonestOutside
<1>2. ASSUME NEW w \in Workers, NEW k \in Keys, Deliver(w, k)
      PROVE  AttemptsAgree'
  <2>1. /\ pc'[w] \notin Owning
        /\ \A v \in Workers \ {w} : pc'[v] = pc[v] /\ job'[v] = job[v]
        /\ UNCHANGED <<journal, sent, applied>>
    BY <1>0, <1>2 DEF Deliver, TypeOK, Owning, items, world
  <2>2. QED
    BY <1>0, <2>1, HonestOutside
<1>3. ASSUME NEW w \in Workers, ClaimFirst(w)
      PROVE  AttemptsAgree'
  <2> DEFINE k == job[w].key
  <2>1. /\ k \in Keys /\ journal[k].status = "ABSENT"
        /\ journal'[k].status = "IN_PROGRESS" /\ journal'[k].token = 1
        /\ \A l \in Keys : l # k => journal'[l] = journal[l]
        /\ pc'[w] = "decide" /\ job'[w].key = k /\ job'[w].token = 1
        /\ \A v \in Workers \ {w} : pc'[v] = pc[v] /\ job'[v] = job[v]
        /\ UNCHANGED <<sent, applied>>
    BY <1>0, <1>3 DEF ClaimFirst, Unclaimed, TypeOK, Job, world
  <2>2. journal[k].token \in Nat /\ ~(journal[k].token >= 1)
    BY <1>0, <2>1 DEF IInv, ClaimsAgree, TypeOK, Entry
  <2>3. \A at \in sent : at.key # k
    BY <2>2 DEF AttemptsAgree
  <2>4. Honest(w)'
    BY <2>1, <2>3 DEF Honest
  <2>5. ClosesOwn(w)
    <3> SUFFICES ASSUME NEW l \in Keys
                 PROVE  /\ journal[l].token <= journal'[l].token
                        /\ journal[l].status = "COMPLETED" => l # k
                        /\ journal'[l].status = "COMPLETED" => l # k
      BY <2>1 DEF ClosesOwn
    <3>1. journal[l].token \in Nat
      BY <1>0 DEF TypeOK, Entry
    <3>2. QED
      BY <2>1, <2>2, <3>1
  <2>6. QED
    BY <1>0, <2>1, <2>4, <2>5, HonestStep
<1>4. ASSUME NEW w \in Workers, ClaimCancelled(w) \/ ReadExecution(w) \/ ReadApproval(w)
      PROVE  AttemptsAgree'
  <2>1. /\ pc'[w] \notin Owning
        /\ \A v \in Workers \ {w} : pc'[v] = pc[v] /\ job'[v] = job[v]
        /\ UNCHANGED <<journal, sent, applied>>
    BY <1>0, <1>4 DEF ClaimCancelled, ReadExecution, ReadApproval, TypeOK, Owning, items, world
  <2>2. QED
    BY <1>0, <2>1, HonestOutside
<1>5. ASSUME NEW w \in Workers, Classify(w)
      PROVE  AttemptsAgree'
  <2>1. /\ pc'[w] \in {"idle", "takeover", "publish"}
        /\ \A v \in Workers \ {w} : pc'[v] = pc[v] /\ job'[v] = job[v]
        /\ UNCHANGED <<journal, sent, applied>>
    BY <1>0, <1>5 DEF Classify, Leave, Goto, TypeOK, items, world
  <2>2. pc'[w] \notin Owning
    BY <2>1 DEF Owning
  <2>3. QED
    BY <1>0, <2>1, <2>2, HonestOutside
<1>6. ASSUME NEW w \in Workers, TakeOver(w)
      PROVE  AttemptsAgree'
  <2> DEFINE k == job[w].key
             next == job[w].exec.token + 1
  <2>1. CASE Leave(w) /\ UNCHANGED journal
    BY <1>1, <1>6, <2>1 DEF TakeOver, world
  <2>2. CASE /\ Unmoved(w) /\ pc' = [pc EXCEPT ![w] = "reconcile"]
             /\ job' = [job EXCEPT ![w].token = next]
             /\ journal' = [journal EXCEPT ![k].status = "RECONCILING", ![k].token = next,
                              ![k].lease = job[w].started + LeaseTime]
    <3>1. /\ k \in Keys /\ job[w].exec.status \in Held
          /\ journal[k].status = job[w].exec.status
          /\ journal[k].token = job[w].exec.token /\ journal[k].token \in Nat
      <4>1. pc[w] = "takeover"
        BY <1>6 DEF TakeOver
      <4>2. k \in Keys /\ job[w].exec.status \in Held
        BY <1>0, <4>1 DEF TypeOK
      <4>3. journal[k] \in Entry
        BY <1>0, <4>2 DEF TypeOK
      <4>4. journal[k].token \in Nat
        BY <4>3 DEF Entry
      <4>5. /\ journal[k].status = job[w].exec.status
            /\ journal[k].token = job[w].exec.token
        BY <2>2 DEF Unmoved
      <4>6. QED
        BY ONLY <4>2, <4>4, <4>5
    <3>2. /\ journal'[k].status = "RECONCILING" /\ journal'[k].token = journal[k].token + 1
          /\ \A l \in Keys : l # k => journal'[l] = journal[l]
          /\ pc'[w] = "reconcile" /\ job'[w].key = k /\ job'[w].token = journal[k].token + 1
          /\ \A v \in Workers \ {w} : pc'[v] = pc[v] /\ job'[v] = job[v]
          /\ UNCHANGED <<sent, applied>>
      <4>1. /\ journal \in [Keys -> Entry] /\ journal[k] \in Entry
            /\ pc \in [Workers -> PCs] /\ job \in [Workers -> Job] /\ job[w] \in Job
        BY <1>0, <3>1 DEF TypeOK
      <4>2. UNCHANGED <<sent, applied>>
        BY <1>6 DEF TakeOver, world
      <4>3. /\ pc'[w] = "reconcile"
            /\ \A v \in Workers \ {w} : pc'[v] = pc[v] /\ job'[v] = job[v]
        BY <2>2, <4>1
      <4>4. job'[w].key = k /\ job'[w].token = next
        BY <2>2, <4>1 DEF Job
      <4> DEFINE item == [journal[k] EXCEPT !.status = "RECONCILING", !.token = next,
                            !.lease = job[w].started + LeaseTime]
      <4>5. item.status = "RECONCILING" /\ item.token = next
        BY <4>1 DEF Entry
      <4>6. journal' = [journal EXCEPT ![k] = item]
        BY <2>2
      <4> HIDE DEF item
      <4>7. journal'[k] = item /\ \A l \in Keys : l # k => journal'[l] = journal[l]
        BY <3>1, <4>1, <4>6
      <4>8. QED
        BY <3>1, <4>2, <4>3, <4>4, <4>5, <4>7
    <3>3. \A at \in sent : at.key = k => at.token # journal[k].token + 1
      BY <3>1 DEF AttemptsAgree
    <3>4. Honest(w)'
      BY <3>2, <3>3 DEF Honest
    <3>5. ClosesOwn(w)
      <4> SUFFICES ASSUME NEW l \in Keys
                   PROVE  /\ journal[l].token <= journal'[l].token
                          /\ journal[l].status = "COMPLETED" => l # k
                          /\ journal'[l].status = "COMPLETED" => l # k
        BY <3>2 DEF ClosesOwn
      <4>1. journal[l].token \in Nat
        BY <1>0 DEF TypeOK, Entry
      <4>2. QED
        BY <3>1, <3>2, <4>1 DEF Held
    <3>6. QED
      BY <1>0, <3>2, <3>4, <3>5, HonestStep
  <2>3. QED
    BY <1>6, <2>1, <2>2 DEF TakeOver
<1>7. ASSUME NEW w \in Workers, ReconcileRead(w)
      PROVE  AttemptsAgree'
  <2>1. pc[w] = "reconcile" /\ UNCHANGED <<journal, sent, applied>>
    BY <1>7 DEF ReconcileRead, items, world
  <2>2. CASE Goto(w, "resume")
    BY <1>0, <2>1, <2>2, HonestGoto DEF Owning, Unsent
  <2>3. CASE Conclude(w, "INDETERMINATE")
    BY <1>0, <2>1, <2>3, HonestConclusion DEF Owning, Outcomes, NoWriteOutcomes
  <2>4. QED
    BY <1>7, <2>2, <2>3 DEF ReconcileRead
<1>8. ASSUME NEW w \in Workers, Resume(w)
      PROVE  AttemptsAgree'
  <2> DEFINE k == job[w].key
  <2>1. CASE Leave(w) /\ UNCHANGED journal
    BY <1>1, <1>8, <2>1 DEF Resume, world
  <2>2. CASE /\ Resumable(w) /\ Goto(w, "decide")
             /\ journal' = [journal EXCEPT ![k].status = "IN_PROGRESS",
                                           ![k].lease = clock + LeaseTime]
    <3>1. k \in Keys /\ journal[k].status = "RECONCILING" /\ pc[w] = "resume"
      BY <1>0, <1>8, <2>2 DEF Resume, Resumable, TypeOK
    <3>2. /\ journal'[k].status = "IN_PROGRESS" /\ journal'[k].token = journal[k].token
          /\ \A l \in Keys : l # k => journal'[l] = journal[l]
          /\ pc'[w] = "decide" /\ job' = job
          /\ \A v \in Workers \ {w} : pc'[v] = pc[v] /\ job'[v] = job[v]
          /\ UNCHANGED <<sent, applied>>
      BY <1>0, <1>8, <2>2, <3>1 DEF Resume, Goto, TypeOK, Entry, world
    <3>3. Honest(w)
      BY <3>1 DEF AttemptsAgree, Owning
    <3>4. Honest(w)'
      BY <3>1, <3>2, <3>3 DEF Honest, Unsent
    <3>5. ClosesOwn(w)
      <4> SUFFICES ASSUME NEW l \in Keys
                   PROVE  /\ journal[l].token <= journal'[l].token
                          /\ journal[l].status = "COMPLETED" => l # k
                          /\ journal'[l].status = "COMPLETED" => l # k
        BY <3>2 DEF ClosesOwn
      <4>1. journal[l].token \in Nat
        BY <1>0 DEF TypeOK, Entry
      <4>2. QED
        BY <3>1, <3>2, <4>1
    <3>6. QED
      BY <1>0, <3>2, <3>4, <3>5, HonestStep
  <2>3. QED
    BY <1>8, <2>1, <2>2 DEF Resume
<1>9. ASSUME NEW w \in Workers, Decide(w)
      PROVE  AttemptsAgree'
  <2>1. pc[w] = "decide" /\ UNCHANGED <<journal, sent, applied>>
    BY <1>9 DEF Decide, items, world
  <2>2. CASE Goto(w, "freshRead")
    BY <1>0, <2>1, <2>2, HonestGoto DEF Owning, Unsent
  <2>3. CASE Conclude(w, "REJECTED") \/ Conclude(w, "EXPIRED")
    BY <1>0, <2>1, <2>3, HonestConclusion DEF Owning, Outcomes, NoWriteOutcomes, Unsent
  <2>4. QED
    BY <1>9, <2>2, <2>3 DEF Decide
<1>10. ASSUME NEW w \in Workers, FreshRead(w)
       PROVE  AttemptsAgree'
  <2>1. pc[w] = "freshRead" /\ UNCHANGED <<journal, sent, applied>>
    BY <1>10 DEF FreshRead, items, world
  <2>2. CASE Goto(w, "send")
    BY <1>0, <2>1, <2>2, HonestGoto DEF Owning, Unsent
  <2>3. CASE Conclude(w, "STALE")
    BY <1>0, <2>1, <2>3, HonestConclusion DEF Owning, Outcomes, NoWriteOutcomes, Unsent
  <2>4. QED
    BY <1>10, <2>2, <2>3 DEF FreshRead
<1>11. ASSUME NEW w \in Workers, Send(w)
       PROVE  AttemptsAgree'
  <2>1. pc[w] = "send" /\ UNCHANGED <<journal, applied>>
    BY <1>11 DEF Send, items
  <2>2. CASE sent' = sent \cup {AttemptOf(w)} /\ Goto(w, "sending")
    BY <1>0, <2>1, <2>2, HonestGoto DEF Owning, Unsent
  <2>3. CASE Conclude(w, "INDETERMINATE") /\ UNCHANGED sent
    BY <1>0, <2>1, <2>3, HonestConclusion DEF Owning, Outcomes, NoWriteOutcomes
  <2>4. QED
    BY <1>11, <2>2, <2>3 DEF Send
<1>12. ASSUME NEW w \in Workers, Answer(w)
       PROVE  AttemptsAgree'
  <2>1. pc[w] = "sending" /\ UNCHANGED <<journal, sent, applied>>
    BY <1>12 DEF Answer, items, world
  <2>2. CASE AttemptOf(w) \in applied /\ Goto(w, "readAfter")
    BY <1>0, <2>1, <2>2, HonestGoto DEF Owning, Unsent
  <2>3. CASE Conclude(w, "INDETERMINATE")
    BY <1>0, <2>1, <2>3, HonestConclusion DEF Owning, Outcomes, NoWriteOutcomes
  <2>4. QED
    BY <1>12, <2>2, <2>3 DEF Answer
<1>13. ASSUME NEW w \in Workers, ReadAfter(w)
       PROVE  AttemptsAgree'
  <2>1. pc[w] = "readAfter" /\ UNCHANGED <<journal, sent, applied>>
    BY <1>13 DEF ReadAfter, items, world
  <2>2. PICK outcome \in {"VERIFIED", "VERIFICATION_FAILED", "INDETERMINATE"} :
          Conclude(w, outcome)
    BY <1>13 DEF ReadAfter
  <2>3. QED
    BY <1>0, <2>1, <2>2, HonestConclusion DEF Owning, Outcomes, NoWriteOutcomes
<1>14. ASSUME NEW w \in Workers, Complete(w)
       PROVE  AttemptsAgree'
  <2> DEFINE k == job[w].key
  <2>1. CASE Leave(w) /\ UNCHANGED journal
    BY <1>1, <1>14, <2>1 DEF Complete, world
  <2>2. CASE /\ Completable(w) /\ Goto(w, "publish")
             /\ journal' = [journal EXCEPT ![k].status = "COMPLETED", ![k].lease = 0,
                                           ![k].receipt = job[w].receipt]
    <3>1. /\ k \in Keys /\ journal[k].status \in Held /\ journal[k].token = job[w].token
          /\ pc[w] = "complete"
      BY <1>0, <1>14, <2>2 DEF Complete, Completable, TypeOK
    <3>2. /\ journal'[k].token = job[w].token /\ journal'[k].receipt = job[w].receipt
          /\ \A l \in Keys : l # k => journal'[l] = journal[l]
          /\ pc'[w] = "publish" /\ pc'[w] \notin Owning
          /\ \A v \in Workers \ {w} : pc'[v] = pc[v] /\ job'[v] = job[v]
          /\ UNCHANGED <<sent, applied>>
      BY <1>0, <1>14, <2>2, <3>1 DEF Complete, Goto, TypeOK, Entry, Owning, world
    <3>3. ClosesOwn(w)
      <4> SUFFICES ASSUME NEW l \in Keys
                   PROVE  /\ journal[l].token <= journal'[l].token
                          /\ journal[l].status = "COMPLETED" => l # k
        BY <3>1, <3>2 DEF ClosesOwn
      <4>1. journal[l].token \in Nat
        BY <1>0 DEF TypeOK, Entry
      <4>2. QED
        BY <3>1, <3>2, <4>1 DEF Held
    <3>4. QED
      BY <1>0, <3>2, <3>3, HonestStep
  <2>3. QED
    BY <1>14, <2>1, <2>2 DEF Complete
<1>15. ASSUME NEW w \in Workers, Publish(w) \/ Abandon(w)
       PROVE  AttemptsAgree'
  <2>1. Leave(w) /\ UNCHANGED <<journal, sent, applied>>
    BY <1>15 DEF Publish, Abandon, items, world
  <2>2. QED
    BY <1>1, <2>1
<1>16. ASSUME UNCHANGED <<journal, sent, pc, job>>, applied \subseteq applied'
       PROVE  AttemptsAgree'
  BY <1>16 DEF AttemptsAgree, Honest, ReceiptIsOwn, AttemptOf
<1>17. ASSUME NEW at \in sent, Apply(at)
       PROVE  AttemptsAgree'
  BY <1>16, <1>17 DEF Apply, items
<1>18. ASSUME NEW t \in Tags, ExternalWrite(t)
       PROVE  AttemptsAgree'
  BY <1>16, <1>18 DEF ExternalWrite, items
<1>19. CASE Tick \/ UNCHANGED vars
  BY <1>16, <1>19 DEF Tick, vars, items, world
<1>20. QED
  BY <1>2, <1>3, <1>4, <1>5, <1>6, <1>7, <1>8, <1>9, <1>10, <1>11, <1>12, <1>13,
     <1>14, <1>15, <1>17, <1>18, <1>19
  DEF Next, Work

\* VERIFIED is proof of the attempt's own write, an outcome that denies a write is
\* one of an attempt that sent none, and where nobody took over it denies no write of
\* the execution (executeApprovedRemediation with its journal).
THEOREM TruthfulReceipts == Spec => []ReceiptsAreTruthful
<1>1. Init => AttemptsAgree
  BY DEF Init, AttemptsAgree, Absent, Owning
<1>2. IInv /\ IInv' /\ AttemptsAgree /\ [Next]_vars => AttemptsAgree'
  BY AttemptsStep
<1>3. IInv /\ AttemptsAgree => ReceiptsAreTruthful
  <2> SUFFICES ASSUME IInv, AttemptsAgree
               PROVE  ReceiptsAreTruthful
    OBVIOUS
  <2>1. VerifiedIsProven /\ OwnWriteIsReported
    BY DEF AttemptsAgree, ReceiptIsOwn, ReceiptIs, VerifiedIsProven, OwnWriteIsReported
  <2>2. FirstOwnerIsTruthful
    <3> SUFFICES ASSUME NEW k \in Keys, journal[k].token = 1,
                        ReceiptIs(k, {"STALE", "REJECTED", "EXPIRED"}),
                        NEW at \in applied, at.key = k
                 PROVE  FALSE
      BY DEF FirstOwnerIsTruthful, WroteNothing
    <3>1. at \in sent /\ at.token \in 1 .. 1
      BY DEF IInv, TypeOK, AttemptsAgree
    <3>2. journal[k].receipt.token = 1
      BY DEF IInv, ReceiptOfLastOwner, ReceiptIs
    <3>3. at.token # journal[k].receipt.token
      BY <2>1, <3>1 DEF OwnWriteIsReported, ReceiptIs, NoWriteOutcomes
    <3>4. QED
      BY <3>1, <3>2, <3>3
  <2>3. QED
    BY <2>1, <2>2 DEF ReceiptsAreTruthful
<1>4. QED
  BY <1>1, <1>2, <1>3, Invariant, PTL DEF Spec

-----------------------------------------------------------------------------
(* Refinement of OnceOnlyExecution *)

Result == [k \in Keys |-> journal[k].receipt]
Wrote == {at.key : at \in sent}

\* A step that changes neither item, request nor evidence is a stutter.
LEMMA Stutter ==
  ASSUME \A k \in Keys : journal'[k].receipt = journal[k].receipt,
         UNCHANGED <<consumed, sent, evidence>>
  PROVE  UNCHANGED OnceOnly!vars
<1>1. Result' = Result
  BY DEF Result
<1>2. QED
  BY <1>1 DEF OnceOnly!vars, Result

\* Every step of the workers is one step of the abstract journal, or none.
LEMMA RefinementStep ==
  ASSUME IInv, [Next]_vars
  PROVE  [OnceOnly!Next]_(OnceOnly!vars)
<1> USE KeysAssumption
<1>0. TypeOK /\ TypeOK' /\ MemoryHolds /\ Fencing /\ ReceiptOfLastOwner
      /\ EvidenceIsReceipt /\ IInv'
  BY TypeStep, InvariantStep DEF IInv
<1>1. ASSUME UNCHANGED <<items, sent, evidence>>
      PROVE  UNCHANGED OnceOnly!vars
  BY <1>1, Stutter DEF items
<1>2. ASSUME NEW w \in Workers, ClaimFirst(w)
      PROVE  OnceOnly!Next
  <2> DEFINE k == job[w].key
  <2>1. /\ k \in Keys /\ journal[k].status = "ABSENT"
        /\ consumed[ApprovalOf[k]] = NoKey
        /\ consumed' = [consumed EXCEPT ![ApprovalOf[k]] = k]
        /\ journal'[k].receipt = NoReceipt
        /\ \A l \in Keys : l # k => journal'[l] = journal[l]
        /\ UNCHANGED <<sent, evidence>>
    BY <1>0, <1>2 DEF ClaimFirst, Unclaimed, TypeOK, world
  <2>2. journal[k].receipt = NoReceipt
    BY <1>0, <2>1 DEF ReceiptOfLastOwner
  <2> HIDE DEF k
  <2>3. Result' = Result
    BY <2>1, <2>2 DEF Result
  <2>4. OnceOnly!Consume(k)
    BY <2>1, <2>3 DEF OnceOnly!Consume, Result
  <2>5. QED
    BY <2>1, <2>4 DEF OnceOnly!Next
<1>3. ASSUME NEW w \in Workers, TakeOver(w) \/ Resume(w)
      PROVE  UNCHANGED OnceOnly!vars
  <2>1. \A l \in Keys : journal'[l].receipt = journal[l].receipt
    <3>0. journal \in [Keys -> Entry]
      BY <1>0 DEF TypeOK
    <3>1. CASE UNCHANGED journal
      BY <3>1
    <3>2. job[w].key \in Keys
      BY <1>0, <1>3 DEF TakeOver, Resume, TypeOK
    <3>3. CASE TakeOver(w)
      <4> DEFINE item == [journal[job[w].key] EXCEPT !.status = "RECONCILING",
                            !.token = job[w].exec.token + 1, !.lease = job[w].started + LeaseTime]
      <4>1. CASE journal' = [journal EXCEPT ![job[w].key] = item]
        <5>1. journal[job[w].key] \in Entry
          BY <3>0, <3>2
        <5>2. item.receipt = journal[job[w].key].receipt
          BY <5>1 DEF Entry
        <5> HIDE DEF item
        <5>3. QED
          BY <3>0, <3>2, <4>1, <5>2
      <4>2. QED
        BY <3>1, <3>3, <4>1 DEF TakeOver
    <3>4. CASE Resume(w)
      <4>2. CASE journal' = [journal EXCEPT ![job[w].key].status = "IN_PROGRESS",
                                            ![job[w].key].lease = clock + LeaseTime]
        <5>1. journal[job[w].key] \in Entry
          BY <3>0, <3>2
        <5>2. [journal[job[w].key] EXCEPT !.status = "IN_PROGRESS",
                 !.lease = clock + LeaseTime].receipt = journal[job[w].key].receipt
          BY <5>1 DEF Entry
        <5>3. QED
          BY <3>0, <3>2, <4>2, <5>2
      <4>3. QED
        BY <3>1, <3>4, <4>2 DEF Resume
    <3>5. QED
      BY <1>3, <3>3, <3>4
  <2>2. QED
    BY <1>3, <2>1, Stutter DEF TakeOver, Resume, world
<1>4. ASSUME NEW w \in Workers, Send(w)
      PROVE  OnceOnly!Next \/ UNCHANGED OnceOnly!vars
  <2>1. CASE UNCHANGED sent
    BY <1>1, <1>4, <2>1 DEF Send
  <2>2. CASE sent' = sent \cup {AttemptOf(w)}
    <3>0. PICK k \in Keys : k = job[w].key
      BY <1>0, <1>4 DEF Send, TypeOK
    <3>1. k \in Approved /\ consumed[ApprovalOf[k]] = k
      BY <1>0, <1>4, <3>0
      DEF Send, MemoryHolds, Remembers, Fencing, Fenced, Owning
    <3>2. Wrote' = Wrote \cup {k}
      <4>1. AttemptOf(w).key = k
        BY <3>0 DEF AttemptOf
      <4>2. \A l : (\E at \in sent' : l = at.key)
                    <=> (\E at \in sent : l = at.key) \/ l = k
        BY <2>2, <4>1
      <4>3. QED
        BY <4>2 DEF Wrote
    <3>3. UNCHANGED <<consumed, evidence>> /\ Result' = Result
      BY <1>4 DEF Send, items, Result
    <3>4. OnceOnly!Write(k)
      BY <3>1, <3>2, <3>3 DEF OnceOnly!Write, Wrote, Result
    <3>5. OnceOnly!Next
      BY <3>4 DEF OnceOnly!Next
    <3>6. QED
      BY <3>5
  <2>3. QED
    BY <1>4, <2>1, <2>2 DEF Send
<1>5. ASSUME NEW w \in Workers, Complete(w)
      PROVE  OnceOnly!Next \/ UNCHANGED OnceOnly!vars
  <2>1. CASE ~Completable(w)
    BY <1>1, <1>5, <2>1 DEF Complete, items, world
  <2>2. CASE Completable(w)
    <3>0. PICK k \in Keys : k = job[w].key
      BY <1>0, <1>5 DEF Complete, TypeOK
    <3>1. /\ job[w].receipt \in Receipt
          /\ consumed[ApprovalOf[k]] = k
          /\ journal[k].status \in Held
      BY <1>0, <1>5, <2>2, <3>0
      DEF Complete, Completable, TypeOK, Fencing, Fenced, Owning
    <3>2. journal[k].receipt = NoReceipt
      BY <1>0, <3>1 DEF ReceiptOfLastOwner, Held
    <3>3. /\ journal'[k].receipt = job[w].receipt
          /\ \A l \in Keys : l # k => journal'[l] = journal[l]
          /\ UNCHANGED <<consumed, sent, evidence>>
      BY <1>0, <1>5, <2>2, <3>0 DEF Complete, TypeOK, Entry, world
    <3>4. Result' = [Result EXCEPT ![k] = job[w].receipt]
      BY <3>1, <3>3 DEF Result
    <3>5. /\ Result[k] = NoReceipt /\ Result'[k] = job[w].receipt
          /\ Result' = [Result EXCEPT ![k] = Result'[k]]
      BY <3>1, <3>2, <3>3, <3>4 DEF Result
    <3>6. OnceOnly!Settle(k)
      BY <3>1, <3>3, <3>5 DEF OnceOnly!Settle, Result
    <3>7. OnceOnly!Next
      BY <3>6 DEF OnceOnly!Next
    <3>8. QED
      BY <3>7
  <2>3. QED
    BY <2>1, <2>2
<1>6. ASSUME NEW w \in Workers, Publish(w)
      PROVE  OnceOnly!Next
  <2> DEFINE k == job[w].key
  <2>1. /\ k \in Keys /\ journal[k].receipt = job[w].receipt
        /\ job[w].receipt \in Receipt
        /\ UNCHANGED <<journal, consumed, sent>>
        /\ evidence' = [evidence EXCEPT ![k] = evidence[k] \cup {job[w].receipt}]
    BY <1>0, <1>6 DEF Publish, TypeOK, MemoryHolds, Remembers, items
  <2>2. evidence[k] \cup {job[w].receipt} = {journal[k].receipt}
    BY <1>0, <2>1 DEF EvidenceIsReceipt
  <2> HIDE DEF k
  <2>3. evidence' = [evidence EXCEPT ![k] = {Result[k]}]
    BY <2>1, <2>2 DEF Result
  <2>4. Result' = Result /\ Result[k] # NoReceipt
    BY <2>1, Defaults DEF Result
  <2>5. OnceOnly!Publish(k)
    BY <2>1, <2>3, <2>4 DEF OnceOnly!Publish, Result
  <2>6. QED
    BY <2>1, <2>5 DEF OnceOnly!Next
<1>7. ASSUME NEW w \in Workers,
             \/ ClaimCancelled(w) \/ ReadExecution(w) \/ ReadApproval(w)
             \/ Classify(w) \/ ReconcileRead(w) \/ Decide(w) \/ FreshRead(w)
             \/ Answer(w) \/ ReadAfter(w) \/ Abandon(w)
      PROVE  UNCHANGED OnceOnly!vars
  BY <1>1, <1>7 DEF ClaimCancelled, ReadExecution, ReadApproval, Classify,
     ReconcileRead, Decide, FreshRead, Answer, ReadAfter, Abandon, world
<1>8. ASSUME \/ \E w \in Workers, k \in Keys : Deliver(w, k)
             \/ \E at \in sent : Apply(at)
             \/ \E t \in Tags : ExternalWrite(t)
             \/ Tick \/ UNCHANGED vars
      PROVE  UNCHANGED OnceOnly!vars
  BY <1>1, <1>8 DEF Deliver, Apply, ExternalWrite, Tick, vars, world, items
<1>9. QED
  BY <1>2, <1>3, <1>4, <1>5, <1>6, <1>7, <1>8 DEF Next, Work

\* The journal, with all its retries, crashes and takeovers, keeps the promise
\* of OnceOnlyExecution: one execution per approval, one receipt per execution,
\* and no other receipt ever published.
THEOREM Refinement == Spec => ImplementsOnceOnly
<1>1. Init => OnceOnly!Init
  BY DEF Init, OnceOnly!Init, Absent
<1>2. IInv /\ [Next]_vars => [OnceOnly!Next]_(OnceOnly!vars)
  BY RefinementStep
<1>3. QED
  BY <1>1, <1>2, Invariant, PTL DEF Spec, ImplementsOnceOnly, OnceOnly!Spec

-----------------------------------------------------------------------------
(* The status of an execution: what the inductive invariant is made of *)

\* The documents by their types; what is None may be missing.
Reports == [scanId : Status!Runs, finding : {"g6", None}, schema : {"current", "retired"}]
Remediations ==
  [reason : Status!ManualOnlyReasons \cup {None}, dossier : Status!Dossiers \cup {None},
   plan : Status!ActionPlans \cup {None}, request : Status!Requests \cup {None}]
Audits ==
  {e \in [executionId : Status!Runs, report : Reports, remediation : Remediations, createdAt : Int] :
     e.remediation.reason = None =>
       /\ e.remediation.dossier \in Status!Dossiers /\ e.remediation.plan \in Status!ActionPlans
       /\ e.remediation.request \in Status!Requests}

IsRecord(v, fields) == v = [f \in fields |-> v[f]]
ReceiptFields ==
  {"executionId", "key", "outcome", "dossier", "plan", "decision", "action", "before", "after",
   "mutation", "checks", "rollback", "startedAt", "completedAt", "events"}
ExecutionFields == {"executionId", "approvalId", "audit", "decision", "receipt", "createdAt"}
ReaderFields == {"at", "execution", "checkpoint", "evidence", "approval"}

RowFields == {"status", "evidence", "plan", "expiresAt", "decision", "decidedAt", "proof", "sealed"}
ProofFields ==
  {"approvalId", "executionId", "evidence", "plan", "request", "decision", "approver"}

IsExecution(v) == IsRecord(v, ExecutionFields) /\ IsRecord(v.receipt, ReceiptFields)
IsRow(r) ==
  /\ IsRecord(r, RowFields) /\ r.status \in {"PENDING", "DECIDED"} /\ r.expiresAt \in Int
  /\ r.status = "DECIDED" =>
       /\ r.decision \in Status!Choices /\ r.decidedAt \in Int
       /\ IsRecord(r.proof, ProofFields) /\ r.proof.approver \in Status!Approvers

\* Typed, whatever was altered.
StatusTypes ==
  /\ now \in 1 .. MaxTime /\ lead \in -1 .. 1 /\ release \in {"current", "retired"}
  /\ IsRecord(objects, {"audit", "execution"})
  /\ objects.audit # None => objects.audit \in Audits
  /\ objects.execution # None => IsExecution(objects.execution)
  /\ row # None => IsRow(row)
  /\ IsRecord(execution, {"status", "output"})
  /\ IsRecord(view, {"at", "failures", "answer"})
  /\ IsRecord(reader, ReaderFields)
  /\ reader.at \in {"idle", "checkpoint", "evidence", "approval", "result"}
  /\ reader.evidence # None => reader.evidence \in Audits
  /\ reader.approval # None => IsRow(reader.approval)
  /\ altered # {} => execution.status = "SUCCEEDED"

\* What a reader has verified when it comes to the result.
Verified ==
  /\ reader.at = "checkpoint" => reader.checkpoint = None
  /\ reader.at \in {"checkpoint", "evidence"} => reader.approval = None
  /\ reader.at \in {"approval", "result"} /\ reader.checkpoint # None =>
       Status!ReadAuditEvidence(reader.checkpoint, reader.evidence) = "read"
  /\ reader.at = "result" /\ reader.approval # None =>
       Status!ValidApproval(reader.approval, reader.checkpoint, reader.evidence)

\* As the audit worker writes it.
OfWorker(e) ==
  LET r == e.remediation IN
  /\ e.createdAt \in Status!Moments
  /\ \/ r = Status!Actionable("this", e.createdAt)
     \/ \E reason \in Status!ManualOnlyReasons : r = Status!ManualOnly(reason)
  /\ e = Status!AuditOf(r, release, e.createdAt)
\* As the approval lambdas write it.
OfLambda(r) ==
  \/ r = Status!Row(objects.audit)
  \/ /\ r.decision \in Status!Choices /\ r.decidedAt \in Status!Moments
     /\ r = Status!Decided(Status!Row(objects.audit), r.decision, r.decidedAt)

\* What is stored, as long as nothing is altered.
Written ==
  /\ objects.audit # None => OfWorker(objects.audit)
  /\ checkpoint # None => objects.audit # None /\ checkpoint \in Status!Outputs(objects.audit)
  /\ row # None => checkpoint # None /\ checkpoint.requiresApproval /\ OfLambda(row)
  /\ objects.execution # None =>
       LET request == objects.audit.remediation.request IN
       /\ row # None /\ row.status = "DECIDED"
       /\ row.decidedAt \in request.requestedAt .. request.expiresAt
       /\ \E at \in Status!Moments :
            /\ row.decidedAt <= at
            /\ objects.execution =
                 Status!ExecutionOf(objects.audit, row.decision, row.decidedAt, at)
  /\ execution.status = "SUCCEEDED" =>
       /\ checkpoint # None
       /\ checkpoint.requiresApproval =>
            objects.execution # None /\ execution.output = Status!RemediationResult(objects.execution)

\* What a status request has read of it.
Read ==
  LET over == reader.execution.status = "SUCCEEDED"
      c == reader.checkpoint
      a == reader.approval
  IN reader.at # "idle" =>
       /\ over => reader.execution = execution
       /\ reader.at = "evidence" => c # None
       /\ c # None => c = checkpoint
       /\ over /\ reader.at # "checkpoint" => c = checkpoint
       /\ reader.at \in {"approval", "result"} /\ c # None =>
            reader.evidence = objects.audit /\ release = "current"
       /\ reader.at = "approval" => c # None /\ c.requiresApproval
       /\ reader.at # "result" \/ c = None \/ ~c.requiresApproval => a = None
       /\ over /\ reader.at = "result" /\ c.requiresApproval => a = row
       /\ a # None => OfLambda(a)

Unaltered == altered = {} => Written /\ Read
Unstarted == view.at = "start" => execution.status = None /\ reader = Status!Idle
StatusIInv ==
  StatusTypes /\ Verified /\ Unaltered /\ Unstarted /\ Status!ShownIsEarned /\ Status!HonestIsShown

\* The artifacts of a finding are well formed, and bound to one another.
LEMMA Planned ==
  ASSUME NEW x \in Status!Runs, NEW at \in Int
  PROVE  LET r == Status!Actionable(x, at) IN
         /\ r.reason = None /\ r.dossier \in Status!Dossiers
         /\ r.plan \in Status!ActionPlans /\ r.request \in Status!Requests
         /\ r.dossier.scanId = x /\ r.dossier.createdAt = at
         /\ r.request.requestedAt = at /\ r.request.expiresAt = at + Window
         /\ r \in Remediations
         /\ Status!VerifyDossier(r.dossier) /\ Status!VerifyPlan(r.plan, r.dossier)
         /\ Status!VerifyApprovalRequest(r.request, r.dossier, r.plan)
<1> DEFINE r == Status!Actionable(x, at)
           before == Status!Before[x]
           d == [scanId |-> x, finding |-> "g6", before |-> before, createdAt |-> at]
           p == [dossier |-> d, action |-> Status!Action, before |-> before,
                 after |-> before \cup {Status!Pii}]
           q == [dossier |-> d, plan |-> p, before |-> before,
                 requestedAt |-> at, expiresAt |-> at + Window]
<1>1. Window \in Nat \ {0}
  BY Status!StatusAssumption DEF Status!StatusAssumption
<1>2. before \in SUBSET Status!Labels
  BY DEF Status!Before, Status!Labels, Status!Runs
<1>3. r = [reason |-> None, dossier |-> d, plan |-> p, request |-> q]
  BY DEF Status!Actionable, Status!PlanRemediation, Status!CreateApprovalRequest
<1>4. d \in Status!Dossiers
  BY <1>2 DEF Status!Dossiers
<1>5. p \in Status!ActionPlans
  BY <1>2, <1>4 DEF Status!ActionPlans, Status!Labels
<1>6. q \in Status!Requests
  BY <1>1, <1>2, <1>4, <1>5 DEF Status!Requests
<1>7. Status!VerifyDossier(d) /\ Status!VerifyPlan(p, d)
  BY DEF Status!VerifyDossier, Status!VerifyPlan, Status!Action
<1>8. Status!VerifyApprovalRequest(q, d, p)
  BY <1>1 DEF Status!VerifyApprovalRequest
<1> HIDE DEF r, d, p, q
<1>9. r \in Remediations
  BY <1>3, <1>4, <1>5, <1>6 DEF Remediations
<1>10. /\ d.scanId = x /\ d.createdAt = at /\ q.requestedAt = at /\ q.expiresAt = at + Window
  BY DEF d, q
<1> QED
  BY <1>3, <1>4, <1>5, <1>6, <1>7, <1>8, <1>9, <1>10 DEF r

\* So is the evidence of the worker; it is actionable in one way.
LEMMA WorkerAudit ==
  ASSUME NEW e, OfWorker(e), release \in {"current", "retired"}
  PROVE  /\ e \in Audits /\ e.executionId = "this" /\ e.createdAt \in Status!Moments
         /\ e.report.schema = release /\ e.report.scanId = "this"
         /\ e.remediation.reason \in Status!ManualOnlyReasons \cup {None}
         /\ e.remediation.reason = None =>
              /\ e.remediation = Status!Actionable("this", e.createdAt)
              /\ e.report.finding = "g6"
<1> DEFINE r == e.remediation
           at == e.createdAt
<1>1. at \in Int
  BY Status!StatusAssumption DEF OfWorker, Status!Moments, Status!StatusAssumption
<1>2. r = Status!Actionable("this", at) \/
      (\E reason \in Status!ManualOnlyReasons : r = Status!ManualOnly(reason))
  BY DEF OfWorker
<1>3. None \notin Status!ManualOnlyReasons
  BY Status!StatusAssumption DEF Status!StatusAssumption
<1>4. /\ r \in Remediations
      /\ r.reason = None =>
           /\ r = Status!Actionable("this", at)
           /\ r.dossier \in Status!Dossiers /\ r.plan \in Status!ActionPlans
           /\ r.request \in Status!Requests
  <2>1. CASE r = Status!Actionable("this", at)
    BY <1>1, <2>1, Planned DEF Status!Runs
  <2>2. CASE \E reason \in Status!ManualOnlyReasons : r = Status!ManualOnly(reason)
    BY <1>3, <2>2 DEF Remediations, Status!ManualOnly
  <2> QED
    BY <1>2, <2>1, <2>2
<1> DEFINE found == r.reason \notin {"READ_ONLY_REQUEST", "NO_ACTIONABLE_G6_FINDING"}
           report == [scanId |-> "this", finding |-> IF found THEN "g6" ELSE None, schema |-> release]
<1>5. e = [executionId |-> "this", report |-> report, remediation |-> r, createdAt |-> at]
  BY DEF OfWorker, Status!AuditOf, Status!AuditEvidence, Status!AuditReport
<1>6. r.reason = None => found
  BY <1>3 DEF Status!ManualOnlyReasons
<1>7. report \in Reports
  BY DEF Reports, Status!Runs
<1>8. report.finding = (IF found THEN "g6" ELSE None) /\ report.schema = release
      /\ report.scanId = "this"
  OBVIOUS
<1> HIDE DEF report, found
<1>9. e \in Audits
  <2> HIDE DEF r, at
  <2>1. e \in [executionId : Status!Runs, report : Reports, remediation : Remediations, createdAt : Int]
    BY <1>1, <1>4, <1>5, <1>7 DEF Status!Runs
  <2>2. e.remediation = r
    BY DEF r
  <2> QED
    BY <1>4, <2>1, <2>2 DEF Audits
<1>10. e.report = report /\ e.executionId = "this"
  BY <1>5
<1>11. r.reason \in Status!ManualOnlyReasons \cup {None}
  BY <1>4 DEF Remediations
<1> QED
  BY <1>4, <1>6, <1>8, <1>9, <1>10, <1>11 DEF OfWorker

\* A checkpoint of that evidence is valid, and names it.
LEMMA WorkerCheckpoint ==
  ASSUME NEW e, e # None, OfWorker(e), release \in {"current", "retired"},
         NEW c \in Status!Outputs(e)
  PROVE  /\ Status!ValidCheckpoint(c)
         /\ c.requiresApproval <=> e.remediation.reason = None
         /\ c.evidence = e /\ c.reason = e.remediation.reason
         /\ Status!ReadAuditEvidence(c, e) = IF release = "current" THEN "read" ELSE "retired"
         /\ c.approvalId = e.remediation.request /\ c.plan = e.remediation.plan
<1> DEFINE r == e.remediation
           at == e.createdAt
           window == IF r.reason = None THEN <<r.request.requestedAt, r.request.expiresAt>> ELSE None
           o == [schema |-> "v2", report |-> e.report, evidence |-> e, reason |-> r.reason,
                 requiresApproval |-> r.reason = None, request |-> r.request, plan |-> r.plan,
                 approvalId |-> r.request, window |-> window]
<1>1. Status!Output(e) = o
  BY DEF Status!Output
<1> DEFINE As(s, q, w) ==
             [schema |-> s, report |-> e.report, evidence |-> e, reason |-> r.reason,
              requiresApproval |-> r.reason = None, request |-> q, plan |-> r.plan,
              approvalId |-> r.request, window |-> w]
<1>2. \/ c = As("v2", r.request, window) /\ release = "current"
      \/ c = As("v1", r.request, window) /\ release = "retired"
      \/ c = As("v1", None, None) /\ release = "retired"
  <2> HIDE DEF window
  <2>1. CASE release = "current"
    BY <1>1, <2>1 DEF Status!Outputs
  <2>2. CASE release = "retired"
    <3> DEFINE p == As("v1", r.request, window)
           q == As("v1", None, window)
    <3>1. c = p \/ c = [[p EXCEPT !.request = None] EXCEPT !.window = None]
      <4>1. [o EXCEPT !.schema = "v1"] = p
        OBVIOUS
      <4> HIDE DEF o, p
      <4> QED
        BY <1>1, <2>2, <4>1 DEF Status!Outputs
    <3>2. [p EXCEPT !.request = None] = q
      OBVIOUS
    <3>3. [q EXCEPT !.window = None] = As("v1", None, None)
      OBVIOUS
    <3> HIDE DEF q
    <3> HIDE DEF o, As
    <3> QED
      BY <2>2, <3>1, <3>2, <3>3
  <2> QED
    BY <2>1, <2>2
<1> HIDE DEF o, window
<1>3. /\ c.report = e.report /\ c.evidence = e /\ c.reason = r.reason /\ c.plan = r.plan
      /\ c.requiresApproval = (r.reason = None) /\ c.approvalId = r.request
  BY <1>2
<1>4. \/ c.window = window /\ c.request = r.request
      \/ c.window = None /\ release = "retired"
  BY <1>2
<1>5. IF release = "current" THEN c.schema = "v2" ELSE c.schema = "v1"
  BY <1>2
<1> HIDE DEF As
<1>0. r.reason = None => window = <<r.request.requestedAt, r.request.expiresAt>>
  BY DEF window
<1>6. Status!ValidCheckpoint(c)
  <2>1. CASE r.reason = None
    <3>1. window = <<r.request.requestedAt, r.request.expiresAt>>
      BY <1>0, <2>1
    <3>2. /\ r.request.requestedAt = at /\ r.request.expiresAt = at + Window /\ at \in Int
          /\ Window \in Nat \ {0}
      BY <2>1, WorkerAudit, Planned, Status!StatusAssumption
         DEF Status!StatusAssumption, Status!Moments, Status!Runs
    <3>3. window[2] > window[1]
      BY <3>1, <3>2
    <3> QED
      BY <1>3, <1>4, <2>1, <3>3 DEF Status!ValidCheckpoint
  <2>2. CASE r.reason # None
    BY <1>3, <2>2, WorkerAudit DEF Status!ValidCheckpoint
  <2> QED
    BY <2>1, <2>2
<1>7. e.executionId = "this" /\ e.report.schema = release /\ e.report.scanId = "this"
  BY WorkerAudit
<1>8. r.reason = None =>
        /\ r = Status!Actionable("this", at) /\ at \in Int /\ e.report.finding = "g6"
  BY WorkerAudit, Status!StatusAssumption DEF Status!StatusAssumption, Status!Moments
<1>9. ASSUME r.reason = None
      PROVE  /\ r.dossier.scanId = "this" /\ r.dossier.createdAt = at
             /\ r.request.requestedAt = at /\ r.dossier.finding = "g6"
             /\ Status!VerifyDossier(r.dossier) /\ Status!VerifyPlan(r.plan, r.dossier)
             /\ Status!VerifyApprovalRequest(r.request, r.dossier, r.plan)
  BY <1>8, <1>9, Planned DEF Status!Runs, Status!VerifyDossier
<1>10. Status!CheckpointBindsEvidence(c, e)
  BY <1>0, <1>2, <1>3, <1>4, <1>5 DEF Status!CheckpointBindsEvidence
<1>11. CASE release = "current"
  <2>1. c.requiresApproval => Status!ActionableArtifacts(e, c)
    <3> SUFFICES ASSUME r.reason = None PROVE Status!ActionableArtifacts(e, c)
      BY <1>3
    <3>1. window = <<r.request.requestedAt, r.request.expiresAt>>
      BY <1>0
    <3>2. /\ c.schema = "v2" /\ c.requiresApproval /\ r.plan = c.plan
          /\ r.request = c.approvalId /\ r.request = c.request
          /\ <<r.request.requestedAt, r.request.expiresAt>> = c.window
      BY <1>3, <1>4, <1>5, <1>11, <3>1
    <3>3. /\ e.report.finding = r.dossier.finding /\ r.dossier.scanId = e.report.scanId
          /\ r.dossier.createdAt = e.createdAt /\ r.request.requestedAt = e.createdAt
      BY <1>7, <1>8, <1>9
    <3> QED
      BY <1>9, <3>2, <3>3 DEF Status!ActionableArtifacts
  <2>2. Status!VerifyAuditEvidence(e, c, "current")
    BY <1>3, <1>7, <1>11 DEF Status!VerifyAuditEvidence
  <2> QED
    BY <1>3, <1>5, <1>6, <1>10, <1>11, <2>1, <2>2 DEF Status!ReadAuditEvidence
<1>12. CASE release = "retired"
  <2>1. Status!VerifyAuditEvidence(e, c, "retired")
    BY <1>3, <1>7, <1>12 DEF Status!VerifyAuditEvidence
  <2> QED
    BY <1>3, <1>5, <1>6, <1>10, <1>12, <2>1 DEF Status!ReadAuditEvidence
<1> QED
  BY <1>11, <1>12

\* What the approval lambdas make of it, field by field.
LEMMA LambdaRow ==
  ASSUME NEW r, OfLambda(r), NEW e, e = objects.audit, OfWorker(e), e.remediation.reason = None,
         release \in {"current", "retired"}
  PROVE  /\ IsRow(r) /\ r.evidence = e /\ r.plan = e.remediation.plan
         /\ r.expiresAt = e.remediation.request.expiresAt
         /\ \/ r.status = "PENDING" /\ r.decision = None /\ r = Status!Row(e)
            \/ /\ r.status = "DECIDED" /\ r.decision \in Status!Choices
               /\ r.decidedAt \in Status!Moments /\ r.proof = Status!Proof(e, r.decision)
               /\ r.sealed = r.proof /\ r = Status!Decided(Status!Row(e), r.decision, r.decidedAt)
<1> DEFINE pending == Status!Row(e)
           Sealed(by, at) == Status!Decided(pending, by, at)
<1>1. /\ pending = [f \in RowFields |-> pending[f]] /\ pending.status = "PENDING"
      /\ pending.evidence = e /\ pending.plan = e.remediation.plan
      /\ pending.expiresAt = e.remediation.request.expiresAt /\ pending.decision = None
  BY DEF Status!Row, RowFields
<1>2. pending.expiresAt \in Int
  BY <1>1, WorkerAudit DEF Audits, Status!Requests
<1> HIDE DEF pending
<1>3. ASSUME NEW by, NEW at
      PROVE  /\ IsRecord(Sealed(by, at), RowFields) /\ Sealed(by, at).status = "DECIDED"
             /\ Sealed(by, at).evidence = e /\ Sealed(by, at).plan = e.remediation.plan
             /\ Sealed(by, at).expiresAt = pending.expiresAt
             /\ Sealed(by, at).decision = by /\ Sealed(by, at).decidedAt = at
             /\ Sealed(by, at).proof = Status!Proof(e, by)
             /\ Sealed(by, at).sealed = Sealed(by, at).proof
  BY <1>1 DEF Status!Decided, IsRecord, RowFields
<1> HIDE DEF Sealed
<1>4. CASE r = pending
  BY <1>1, <1>2, <1>4 DEF IsRow, IsRecord, pending
<1>5. CASE /\ r.decision \in Status!Choices /\ r.decidedAt \in Status!Moments
           /\ r = Sealed(r.decision, r.decidedAt)
  <2> DEFINE by == r.decision
             at == r.decidedAt
             s == Sealed(by, at)
  <2>1. /\ IsRecord(s, RowFields) /\ s.status = "DECIDED" /\ s.evidence = e
        /\ s.plan = e.remediation.plan /\ s.expiresAt = pending.expiresAt
        /\ s.proof = Status!Proof(e, by) /\ s.sealed = s.proof
    BY <1>3
  <2>2. r = s
    BY <1>5
  <2> HIDE DEF s
  <2>3. /\ IsRecord(Status!Proof(e, by), ProofFields)
        /\ Status!Proof(e, by).approver = Status!Approver
    BY DEF Status!Proof, IsRecord, ProofFields
  <2>4. Status!Approver \in Status!Approvers
    BY DEF Status!Approver, Status!Approvers
  <2>5. at \in Int
    BY <1>5, Status!StatusAssumption DEF Status!StatusAssumption, Status!Moments
  <2>6. IsRow(r)
    BY <1>1, <1>2, <1>5, <2>1, <2>2, <2>3, <2>4, <2>5 DEF IsRow
  <2> QED
    BY <1>1, <1>5, <2>1, <2>2, <2>6 DEF Sealed, pending
<1> QED
  BY <1>4, <1>5 DEF OfLambda, Sealed, pending

\* It is a valid approval of the checkpoint.
LEMMA LambdaApproval ==
  ASSUME NEW r, OfLambda(r), NEW e, e = objects.audit, OfWorker(e), e.remediation.reason = None,
         release = "current", e # None, NEW c \in Status!Outputs(e)
  PROVE  Status!ValidApproval(r, c, e)
<1>1. /\ c.evidence = e /\ c.plan = e.remediation.plan /\ c.approvalId = e.remediation.request
      /\ e.executionId = "this"
  BY WorkerCheckpoint, WorkerAudit
<1>2. CASE r.status = "PENDING"
  BY <1>1, <1>2, LambdaRow DEF Status!ValidApproval
<1>3. CASE r.status = "DECIDED"
  <2> DEFINE p == Status!Proof(e, r.decision)
  <2>1. /\ r.proof = p /\ r.sealed = p /\ r.decision \in Status!Choices
        /\ r.evidence = e /\ r.plan = e.remediation.plan
        /\ r.expiresAt = e.remediation.request.expiresAt
    BY <1>3, LambdaRow
  <2>2. /\ p.approvalId = e.remediation.request /\ p.executionId = "this" /\ p.evidence = e
        /\ p.plan = e.remediation.plan /\ p.request = e.remediation.request
        /\ p.decision = r.decision /\ p.approver = Status!Approver
    BY <1>1 DEF Status!Proof
  <2>3. p # None
    <3>1. e = Status!AuditOf(Status!Actionable("this", e.createdAt), "current", e.createdAt)
      BY WorkerAudit DEF OfWorker
    <3>2. e.createdAt \in Status!Moments
      BY WorkerAudit
    <3> QED
      BY <2>1, <3>1, <3>2, Status!StatusAssumption DEF Status!StatusAssumption
  <2> HIDE DEF p
  <2>4. Status!VerifyApprover(Status!Approver)
    BY DEF Status!VerifyApprover, Status!Approver
  <2> QED
    BY <1>1, <2>1, <2>2, <2>3, <2>4 DEF Status!ValidApproval, Status!ParseDecisionEvidence
<1> QED
  BY <1>2, <1>3, LambdaRow

\* The length of a chain of events.
LEMMA ChainLength ==
  ASSUME NEW E, NEW a \in E, NEW b \in E, NEW c \in E, NEW d \in E, NEW last \in E,
         NEW s \in Seq(E), NEW t \in Seq(E)
  PROVE  Len(<<a, b, c, d>> \o s \o t \o <<last>>) = 5 + Len(s) + Len(t)
<1> DEFINE first == <<a, b, c, d>>
           end == <<last>>
<1>1. first \in Seq(E) /\ Len(first) = 4 /\ end \in Seq(E) /\ Len(end) = 1
  OBVIOUS
<1> HIDE DEF first, end
<1> DEFINE two == first \o s
           three == two \o t
<1>2. two \in Seq(E) /\ Len(two) = Len(first) + Len(s)
  BY ONLY <1>1, s \in Seq(E), ConcatProperties
<1> HIDE DEF two
<1>3. three \in Seq(E) /\ Len(three) = Len(two) + Len(t)
  BY ONLY <1>2, t \in Seq(E), ConcatProperties
<1> HIDE DEF three
<1>4. Len(three \o end) = Len(three) + Len(end)
  BY ONLY <1>1, <1>3, ConcatProperties
<1>5. Len(s) \in Nat /\ Len(t) \in Nat
  BY LenProperties
<1>6. Len(three \o end) = 5 + Len(s) + Len(t)
  BY <1>1, <1>2, <1>3, <1>4, <1>5
<1> QED
  BY <1>6 DEF first, end, two, three

\* The receipt that the worker makes, field by field.
LEMMA MadeReceipt ==
  ASSUME NEW x, NEW artifacts, NEW decision, NEW outcome, NEW from, NEW to
  PROVE  LET r == Status!CreateExecutionReceipt(x, artifacts, decision, outcome, from, to)
             p == artifacts.plan
         IN
         /\ IsRecord(r, ReceiptFields)
         /\ r.key = Status!IdempotencyKey(x, artifacts.request, decision)
         /\ r.executionId = <<decision, r.key>> /\ r.outcome = outcome
         /\ r.dossier = artifacts.dossier /\ r.plan = p /\ r.decision = decision
         /\ r.action = p.action
         /\ IF outcome = "VERIFIED"
            THEN /\ r.before = p.before /\ r.after = p.after /\ r.mutation = p.action
                 /\ r.checks = Status!VerifyPostcondition(p, p.after, p.action)
                 /\ r.rollback = <<"ELIGIBLE", Status!Inverse, p.before>>
            ELSE /\ r.before = None /\ r.after = None /\ r.mutation = None
                 /\ r.checks = <<>> /\ r.rollback = <<"NOT_APPLICABLE">>
         /\ r.startedAt = from /\ r.completedAt = to
         /\ r.events = Status!EventPayloads(r)
<1> DEFINE u == Status!Unchained(x, artifacts, decision, outcome, from, to)
           r == Status!CreateExecutionReceipt(x, artifacts, decision, outcome, from, to)
           p == artifacts.plan
           events == Status!EventPayloads(u)
<1>1. /\ IsRecord(u, ReceiptFields)
      /\ u.key = Status!IdempotencyKey(x, artifacts.request, decision)
      /\ u.executionId = <<decision, u.key>> /\ u.outcome = outcome
      /\ u.dossier = artifacts.dossier /\ u.plan = p /\ u.decision = decision
      /\ u.action = p.action /\ u.startedAt = from /\ u.completedAt = to
  BY DEF Status!Unchained, IsRecord, ReceiptFields
<1>2. /\ u.before = IF outcome = "VERIFIED" THEN p.before ELSE None
      /\ u.after = IF outcome = "VERIFIED" THEN p.after ELSE None
      /\ u.mutation = IF outcome = "VERIFIED" THEN p.action ELSE None
      /\ u.checks = IF outcome = "VERIFIED"
                    THEN Status!VerifyPostcondition(p, p.after, p.action) ELSE <<>>
      /\ u.rollback = IF outcome = "VERIFIED"
                      THEN <<"ELIGIBLE", Status!Inverse, p.before>> ELSE <<"NOT_APPLICABLE">>
  BY DEF Status!Unchained
<1>3. r = [u EXCEPT !.events = events]
  BY DEF Status!CreateExecutionReceipt, Status!Chained
<1> HIDE DEF u, r, events
<1>4. IsRecord(r, ReceiptFields)
  BY <1>1, <1>3 DEF IsRecord
<1>5. r.events = events
  BY <1>1, <1>3 DEF IsRecord, ReceiptFields
<1>6. \A f \in ReceiptFields \ {"events"} : r[f] = u[f]
  BY <1>1, <1>3 DEF IsRecord
<1>7. /\ r.executionId = u.executionId /\ r.key = u.key /\ r.outcome = u.outcome
      /\ r.dossier = u.dossier /\ r.plan = u.plan /\ r.decision = u.decision
      /\ r.action = u.action /\ r.before = u.before /\ r.after = u.after
      /\ r.mutation = u.mutation /\ r.checks = u.checks /\ r.rollback = u.rollback
      /\ r.startedAt = u.startedAt /\ r.completedAt = u.completedAt
  BY <1>6 DEF ReceiptFields
<1>8. Status!EventPayloads(r) = Status!EventPayloads(u)
  BY ONLY <1>7 DEF Status!EventPayloads
<1>9. r.events = Status!EventPayloads(r)
  BY <1>5, <1>8 DEF events
<1> QED
  BY <1>1, <1>2, <1>4, <1>7, <1>9 DEF r

\* Its chain has an event for every part of it.
LEMMA MadeEvents ==
  ASSUME NEW r,
         IF r.mutation = None THEN r.after = None /\ r.checks = <<>> ELSE r.checks # <<>>
  PROVE  Len(Status!EventPayloads(r)) = IF r.mutation = None THEN 5 ELSE 7
<1> DEFINE e1 == Status!Event("DOSSIER_BOUND", r.dossier, r.startedAt)
           e2 == Status!Event("PLAN_BOUND", r.plan, r.startedAt)
           e3 == Status!Event("APPROVAL_BOUND", r.decision, r.startedAt)
           e4 == Status!Event("PRECONDITION_CHECKED", r.before, r.startedAt)
           e5 == Status!Event("MUTATION_INVOKED", r.mutation, r.completedAt)
           e6 == Status!Event("POSTCONDITION_CHECKED", <<r.after, r.checks>>, r.completedAt)
           e7 == Status!Event("ROLLBACK_ANCHORED", r.rollback, r.completedAt)
           s == IF r.mutation = None THEN <<>> ELSE <<e5>>
           t == IF r.after = None /\ r.checks = <<>> THEN <<>> ELSE <<e6>>
           E == {e1, e2, e3, e4, e5, e6, e7}
<1>1. Status!EventPayloads(r) = <<e1, e2, e3, e4>> \o s \o t \o <<e7>>
  BY DEF Status!EventPayloads
<1>2. s \in Seq(E) /\ Len(s) = IF r.mutation = None THEN 0 ELSE 1
  <2> HIDE DEF e5
  <2> QED  OBVIOUS
<1>3. t \in Seq(E) /\ Len(t) = IF r.mutation = None THEN 0 ELSE 1
  <2>1. t = IF r.mutation = None THEN <<>> ELSE <<e6>>
    OBVIOUS
  <2>2. e6 \in E
    OBVIOUS
  <2> HIDE DEF e6, t, E
  <2>3. CASE r.mutation = None
    BY ONLY <2>1, <2>3
  <2>4. CASE r.mutation # None
    BY ONLY <2>1, <2>2, <2>4
  <2> QED
    BY <2>3, <2>4
<1>4. e1 \in E /\ e2 \in E /\ e3 \in E /\ e4 \in E /\ e7 \in E
  OBVIOUS
<1> HIDE DEF e1, e2, e3, e4, e5, e6, e7, s, t, E
<1>5. Len(<<e1, e2, e3, e4>> \o s \o t \o <<e7>>) = 5 + Len(s) + Len(t)
  <2>1. s \in Seq(E) /\ t \in Seq(E)
    BY <1>2, <1>3
  <2> QED
    BY ONLY <1>4, <2>1, ChainLength
<1> QED
  BY <1>1, <1>2, <1>3, <1>5

\* Five of a kind.
LEMMA FiveTimes == ASSUME NEW t PROVE <<t, t, t, t, t>> = [i \in 1 .. 5 |-> t]
<1> DEFINE u == <<t, t, t, t, t>>
<1>1. u = [i \in 1 .. 5 |-> u[i]]
  OBVIOUS
<1>2. \A i \in 1 .. 5 : u[i] = t
  OBVIOUS
<1> HIDE DEF u
<1>3. u = [i \in 1 .. 5 |-> t]
  BY <1>1, <1>2
<1> QED
  BY <1>3 DEF u

\* What the worker stores of a decision in time is verified, and the page accepts it.
LEMMA WorkerResult ==
  ASSUME NEW e, e = objects.audit, e # None, OfWorker(e), e.remediation.reason = None,
         release = "current", NEW c \in Status!Outputs(e),
         NEW r, OfLambda(r), r.status = "DECIDED",
         r.decidedAt \in e.remediation.request.requestedAt .. e.remediation.request.expiresAt,
         NEW at \in Status!Moments, r.decidedAt <= at,
         NEW v, v # None, v = Status!ExecutionOf(e, r.decision, r.decidedAt, at)
  PROVE  LET result == Status!RemediationResult(v)
             shown == [outcome |-> result.outcome, receipt |-> v.receipt]
         IN
         /\ Status!ResultVerified(result, v, c, r, e) /\ result.outcome = Status!OutcomeOf(r.decision)
         /\ Status!IsControlLoopResult(shown) /\ shown # None
<1> DEFINE artifacts == e.remediation
           q == artifacts.request
           p == artifacts.plan
           by == r.decidedAt
           decision == [approvalId |-> q, plan |-> q.plan, decision |-> r.decision,
                        approver |-> Status!Approver, decidedAt |-> by]
           outcome == Status!OutcomeOf(r.decision)
           receipt == Status!CreateExecutionReceipt("this", artifacts, decision, outcome, at, at)
           result == Status!RemediationResult(v)
           shown == [outcome |-> result.outcome, receipt |-> v.receipt]
<1>1. /\ e.createdAt \in Status!Moments /\ e.createdAt \in Int /\ e.executionId = "this"
      /\ artifacts = Status!Actionable("this", e.createdAt) /\ at \in Int /\ MaxClockSkew \in Nat
  BY WorkerAudit, Status!StatusAssumption DEF Status!StatusAssumption, Status!Moments
<1>2. /\ p \in Status!ActionPlans /\ q \in Status!Requests
      /\ Status!VerifyDossier(artifacts.dossier) /\ Status!VerifyPlan(p, artifacts.dossier)
      /\ Status!VerifyApprovalRequest(q, artifacts.dossier, p)
  BY <1>1, Planned DEF Status!Runs
<1>3. /\ r.decision \in Status!Choices /\ by \in Int /\ r.proof = Status!Proof(e, r.decision)
      /\ by \in Status!Moments
  BY LambdaRow, Status!StatusAssumption DEF Status!StatusAssumption, Status!Moments
<1>4. r.proof.approver = Status!Approver
  BY <1>3 DEF Status!Proof
<1>5. /\ c.evidence = e /\ c.plan = p /\ c.approvalId = q /\ c.requiresApproval
      /\ c.reason = None
  BY WorkerCheckpoint
<1>6. Status!CreateApprovalDecision(q, r.decision, Status!Approver, by) = decision
  BY DEF Status!CreateApprovalDecision
<1>7. v = Status!ExecutionEvidence("this", e, decision, receipt)
  BY <1>6 DEF Status!ExecutionOf
<1>8. /\ receipt.key = Status!IdempotencyKey("this", q, decision)
      /\ receipt.executionId = <<decision, receipt.key>> /\ receipt.outcome = outcome
      /\ receipt.dossier = artifacts.dossier /\ receipt.plan = p /\ receipt.decision = decision
      /\ receipt.action = p.action
      /\ receipt.startedAt = at /\ receipt.completedAt = at
      /\ receipt.events = Status!EventPayloads(receipt)
  BY MadeReceipt
<1>9. IF outcome = "VERIFIED"
      THEN /\ receipt.before = p.before /\ receipt.after = p.after /\ receipt.mutation = p.action
           /\ receipt.checks = Status!VerifyPostcondition(p, p.after, p.action)
           /\ receipt.rollback = <<"ELIGIBLE", Status!Inverse, p.before>>
      ELSE /\ receipt.before = None /\ receipt.after = None /\ receipt.mutation = None
           /\ receipt.checks = <<>> /\ receipt.rollback = <<"NOT_APPLICABLE">>
  BY MadeReceipt
<1>10. q.plan = p /\ p.action = Status!Action /\ p.after = p.before \cup {p.action.tag}
  BY <1>2 DEF Status!VerifyPlan, Status!VerifyApprovalRequest
<1>11. outcome \in {"VERIFIED", "REJECTED"}
  BY DEF Status!OutcomeOf
<1>12. None # Status!Action
  BY Status!StatusAssumption DEF Status!StatusAssumption
<1> HIDE DEF receipt, outcome, result, shown
<1>13. /\ v.executionId = "this" /\ v.approvalId = q /\ v.audit = e /\ v.decision = decision
       /\ v.receipt = receipt /\ v.createdAt = at
  BY <1>7, <1>8 DEF Status!ExecutionEvidence
<1>14. /\ result.approvalId = q /\ result.plan = p /\ result.evidence = e
       /\ result.receipt = receipt /\ result.execution = v /\ result.outcome = outcome
  BY <1>8, <1>13 DEF result, Status!RemediationResult
<1>15. outcome = "VERIFIED" =>
         /\ receipt.checks = <<TRUE, TRUE, TRUE, TRUE, TRUE>>
         /\ Status!ExpectedCheckPasses(receipt) = <<TRUE, TRUE, TRUE, TRUE, TRUE>>
  <2> SUFFICES ASSUME outcome = "VERIFIED"
               PROVE  /\ receipt.checks = <<TRUE, TRUE, TRUE, TRUE, TRUE>>
                      /\ Status!ExpectedCheckPasses(receipt) = <<TRUE, TRUE, TRUE, TRUE, TRUE>>
    OBVIOUS
  <2>1. /\ p.before \subseteq p.after /\ p.action.tag \in p.after
    BY <1>10
  <2>2. Status!VerifyPostcondition(p, p.after, p.action) = <<TRUE, TRUE, TRUE, TRUE, TRUE>>
    BY <2>1 DEF Status!VerifyPostcondition
  <2>3. /\ receipt.before \subseteq receipt.after /\ receipt.action.tag \in receipt.after
        /\ receipt.after = receipt.before \cup {receipt.action.tag}
        /\ Status!VerifyMutation(receipt.mutation, receipt.action)
    BY <1>8, <1>9, <1>10, <2>1 DEF Status!VerifyMutation
  <2>4. Status!ExpectedCheckPasses(receipt) = <<TRUE, TRUE, TRUE, TRUE, TRUE>>
    BY <2>3 DEF Status!ExpectedCheckPasses
  <2> QED
    BY <1>9, <2>2, <2>4
<1>16. <<TRUE, TRUE, TRUE, TRUE, TRUE>> = [i \in DOMAIN Status!CheckIds |-> TRUE]
  <2>1. DOMAIN Status!CheckIds = 1 .. 5
    BY DEF Status!CheckIds
  <2>2. <<TRUE, TRUE, TRUE, TRUE, TRUE>> = [i \in 1 .. 5 |-> TRUE]
    BY FiveTimes
  <2> QED
    BY <2>1, <2>2
<1>17. Status!VerifyChecks(receipt)
  BY <1>8, <1>9, <1>11, <1>15, <1>16 DEF Status!VerifyChecks
<1>18. Len(receipt.events) = IF outcome = "VERIFIED" THEN 7 ELSE 5
  <2>1. outcome = "VERIFIED" => receipt.checks # <<>>
    <3>1. <<TRUE, TRUE, TRUE, TRUE, TRUE>> # <<>>
      OBVIOUS
    <3> QED
      BY <1>15, <3>1
  <2> QED
    BY <1>8, <1>9, <1>10, <1>11, <1>12, <2>1, MadeEvents
<1>19. Status!VerifyReceiptEvents(receipt) /\ Status!VerifyRollback(receipt)
  BY <1>8, <1>9, <1>11, <1>18 DEF Status!VerifyReceiptEvents, Status!VerifyRollback
<1>20. /\ outcome \in {"VERIFIED", "REJECTED"}
       /\ receipt.action = Status!Action
       /\ Status!VerifyApprovalDecision(decision, decision)
       /\ outcome = "VERIFIED" => Status!VerifyMutation(receipt.mutation, receipt.action)
  <2>1. Status!VerifyApprover(Status!Approver)
    BY DEF Status!VerifyApprover, Status!Approver
  <2> QED
    BY <1>8, <1>9, <1>10, <1>11, <2>1 DEF Status!VerifyApprovalDecision, Status!VerifyMutation
<1> DEFINE expected == [outcome |-> outcome, dossier |-> artifacts.dossier, plan |-> p,
                        decision |-> decision, approvalId |-> q]
<1>21. Status!VerifyExecutionReceipt(receipt, expected)
  <2>1. /\ expected.outcome = outcome /\ expected.dossier = artifacts.dossier
        /\ expected.plan = p /\ expected.decision = decision /\ expected.approvalId = q
        /\ decision.decidedAt = by
    OBVIOUS
  <2>2. at + MaxClockSkew >= by /\ at + MaxClockSkew >= at
    BY <1>1, <1>3
  <2> HIDE DEF expected, decision
  <2>3. IF receipt.outcome = "VERIFIED"
        THEN receipt.before = expected.plan.before /\ receipt.after = expected.plan.after
             /\ Status!VerifyMutation(receipt.mutation, receipt.action)
        ELSE receipt.before = None /\ receipt.after = None /\ receipt.mutation = None
    BY <1>8, <1>9, <1>20, <2>1
  <2>4. /\ receipt.outcome = expected.outcome /\ receipt.dossier = expected.dossier
        /\ receipt.plan = expected.plan /\ receipt.decision = expected.decision
        /\ receipt.startedAt + MaxClockSkew >= expected.decision.decidedAt
        /\ receipt.completedAt + MaxClockSkew >= receipt.startedAt
        /\ receipt.action = Status!Action /\ receipt.action = expected.plan.action
        /\ receipt.key =
             Status!IdempotencyKey("this", expected.approvalId, expected.decision)
        /\ receipt.executionId = <<expected.decision, receipt.key>>
    BY <1>8, <1>20, <2>1, <2>2
  <2> HIDE DEF p, q, artifacts, by
  <2> QED
    BY <1>17, <1>19, <2>3, <2>4 DEF Status!VerifyExecutionReceipt
<1>22. Status!ActionableArtifacts(e, c)
  <2>1. Status!ReadAuditEvidence(c, e) = "read"
    BY WorkerCheckpoint
  <2> QED
    BY <1>5, <2>1 DEF Status!ReadAuditEvidence
<1>23. Status!VerifyExecutionEvidence(v, result, c, r, e)
  <2>1. [approvalId |-> c.approvalId, plan |-> c.plan, decision |-> r.decision,
         approver |-> r.proof.approver, decidedAt |-> r.decidedAt] = decision
    BY <1>4, <1>5, <1>10
  <2>2. [outcome |-> result.outcome, dossier |-> e.remediation.dossier, plan |-> c.plan,
         decision |-> v.decision, approvalId |-> c.approvalId] = expected
    BY <1>5, <1>13, <1>14
  <2> HIDE DEF decision, expected
  <2>3. v.createdAt + MaxClockSkew >= v.receipt.completedAt
    BY <1>1, <1>8, <1>13
  <2> QED
    BY <1>5, <1>13, <1>14, <1>20, <1>21, <1>22, <2>1, <2>2, <2>3
    DEF Status!VerifyExecutionEvidence, outcome
<1>24. result # None /\ shown # None
  <2>1. e = Status!AuditOf(Status!Actionable("this", e.createdAt), "current", e.createdAt)
    BY <1>1 DEF OfWorker
  <2>2. None # Status!RemediationResult(v)
    BY <1>1, <1>3, <2>1, Status!StatusAssumption DEF Status!StatusAssumption
  <2>3. None # [outcome |-> v.receipt.outcome, receipt |-> v.receipt]
    BY <1>1, <1>3, <2>1, Status!StatusAssumption DEF Status!StatusAssumption
  <2> QED
    BY <1>8, <1>13, <1>14, <2>2, <2>3 DEF result, shown
<1>25. Status!ResultVerified(result, v, c, r, e)
  BY <1>5, <1>11, <1>14, <1>23, <1>24 DEF Status!ResultVerified
<1>26. Status!IsControlLoopResult(shown)
  <2>1. shown.outcome = outcome /\ shown.receipt = receipt
    BY <1>13, <1>14 DEF shown
  <2>2. CASE outcome = "VERIFIED"
    <3>1. receipt.checks = <<TRUE, TRUE, TRUE, TRUE, TRUE>> /\ Len(receipt.events) = 7
      BY <1>15, <1>18, <2>2
    <3>2. receipt.rollback[1] = "ELIGIBLE"
      <4>1. receipt.rollback = <<"ELIGIBLE", Status!Inverse, p.before>>
        BY <1>9, <2>2
      <4> QED
        BY ONLY <4>1
    <3>3. Len(receipt.checks) = 5
      BY ONLY <3>1
    <3>4. receipt.checks = [i \in 1 .. 5 |-> TRUE]
      BY <3>1, FiveTimes
    <3>5. \A i \in DOMAIN receipt.checks : receipt.checks[i]
      BY ONLY <3>4
    <3> QED
      BY <2>1, <2>2, <3>1, <3>2, <3>3, <3>5 DEF Status!IsControlLoopResult
  <2>3. CASE outcome = "REJECTED"
    <3>1. /\ receipt.checks = <<>> /\ Len(receipt.events) = 5
          /\ receipt.rollback[1] = "NOT_APPLICABLE"
      BY <1>9, <1>18, <2>3
    <3>2. Len(receipt.checks) = 0 /\ \A i \in DOMAIN receipt.checks : receipt.checks[i]
      BY <3>1
    <3> QED
      BY <2>1, <2>3, <3>1, <3>2 DEF Status!IsControlLoopResult
  <2> QED
    BY <1>11, <2>2, <2>3
<1> QED
  BY <1>14, <1>24, <1>25, <1>26 DEF outcome, result, shown

\* Equal fields make equal records.
LEMMA SameRecord ==
  ASSUME NEW fields, NEW a, NEW b, IsRecord(a, fields), IsRecord(b, fields),
         \A f \in fields : a[f] = b[f]
  PROVE  a = b
BY DEF IsRecord

\* What the lambda verifies, whatever is stored, is what the worker would have made.
LEMMA VerifiedIsEarned ==
  ASSUME NEW e \in Audits, NEW c, NEW r, IsRow(r), NEW v, IsExecution(v), NEW output,
         Status!ReadAuditEvidence(c, e) = "read", c.requiresApproval,
         Status!ValidApproval(r, c, e), r.status = "DECIDED",
         Status!ResultVerified(output, v, c, r, e)
  PROVE  LET decision == Status!CreateApprovalDecision(e.remediation.request, r.decision,
                                                       r.proof.approver, r.decidedAt)
         IN /\ Status!OneAudit(e) /\ e.executionId = "this" /\ decision # None
            /\ v.receipt =
                 Status!CreateExecutionReceipt("this", e.remediation, decision,
                   Status!OutcomeOf(r.decision), v.receipt.startedAt, v.receipt.completedAt)
            /\ output.outcome = Status!OutcomeOf(r.decision)
<1> DEFINE artifacts == e.remediation
           q == artifacts.request
           p == artifacts.plan
           d == artifacts.dossier
           decision == [approvalId |-> q, plan |-> q.plan, decision |-> r.decision,
                        approver |-> r.proof.approver, decidedAt |-> r.decidedAt]
           outcome == Status!OutcomeOf(r.decision)
           receipt == v.receipt
           made == Status!CreateExecutionReceipt("this", artifacts, decision, outcome,
                                                 receipt.startedAt, receipt.completedAt)
           expected == [outcome |-> output.outcome, dossier |-> d, plan |-> c.plan,
                        decision |-> v.decision, approvalId |-> c.approvalId]
<1>1. Status!VerifyAuditEvidence(e, c, "current") /\ Status!ActionableArtifacts(e, c)
  BY DEF Status!ReadAuditEvidence
<1>2. /\ artifacts.reason = None /\ p = c.plan /\ q = c.approvalId
      /\ Status!VerifyDossier(d) /\ Status!VerifyPlan(p, d)
      /\ Status!VerifyApprovalRequest(q, d, p)
      /\ d.scanId = e.report.scanId /\ d.createdAt = e.createdAt /\ q.requestedAt = e.createdAt
      /\ e.executionId = "this"
  BY <1>1 DEF Status!ActionableArtifacts, Status!VerifyAuditEvidence
<1>3. d \in Status!Dossiers /\ p \in Status!ActionPlans /\ q \in Status!Requests
  BY <1>2 DEF Audits
<1>4. /\ p.dossier = d /\ p.action = Status!Action /\ p.before = d.before
      /\ p.after = p.before \cup {p.action.tag}
      /\ q.dossier = d /\ q.plan = p /\ q.before = p.before
  BY <1>2 DEF Status!VerifyPlan, Status!VerifyApprovalRequest
<1>5. Status!OneAudit(e)
  <2>1. p.action.tag = Status!Pii
    BY <1>4 DEF Status!Action
  <2>2. p = [dossier |-> p.dossier, action |-> p.action, before |-> p.before, after |-> p.after]
    BY ONLY <1>3 DEF Status!ActionPlans
  <2>3. p = [dossier |-> d, action |-> Status!Action, before |-> d.before,
             after |-> d.before \cup {Status!Pii}]
    BY ONLY <1>4, <2>1, <2>2
  <2>4. q = [dossier |-> d, plan |-> p, before |-> p.before, requestedAt |-> e.createdAt,
             expiresAt |-> q.expiresAt]
    BY <1>2, <1>3, <1>4 DEF Status!Requests
  <2>5. Status!CreateApprovalRequest(artifacts, e.createdAt, q.expiresAt) =
          [dossier |-> d, plan |-> p, before |-> p.before, requestedAt |-> e.createdAt,
           expiresAt |-> q.expiresAt]
    BY DEF Status!CreateApprovalRequest
  <2> QED
    BY ONLY <1>2, <2>3, <2>4, <2>5 DEF Status!OneAudit, p, q, d, artifacts
<1>6. /\ Status!VerifyExecutionEvidence(v, output, c, r, e)
      /\ output.outcome \in {"VERIFIED", "REJECTED"}
  BY DEF Status!ResultVerified
<1>7. /\ output.outcome = outcome
      /\ r.decidedAt \in q.requestedAt .. q.expiresAt
      /\ Status!VerifyExecutionReceipt(v.receipt, expected)
  BY <1>6 DEF Status!VerifyExecutionEvidence
<1>8. v.decision = decision
  BY <1>2, <1>4, <1>6 DEF Status!VerifyExecutionEvidence, Status!VerifyApprovalDecision
<1>9. Status!CreateApprovalDecision(q, r.decision, r.proof.approver, r.decidedAt) = decision
  BY <1>7 DEF Status!CreateApprovalDecision
<1>10. decision # None
  <2>1. decision \in Status!Decisions
    BY <1>3, <1>4 DEF IsRow, Status!Decisions
  <2> QED
    BY <2>1, Status!StatusAssumption DEF Status!StatusAssumption
<1>11. /\ expected.outcome = outcome /\ expected.dossier = d /\ expected.plan = p
       /\ expected.decision = decision /\ expected.approvalId = q
  BY <1>2, <1>7, <1>8
<1>12. outcome \in {"VERIFIED", "REJECTED"}
  BY DEF Status!OutcomeOf
<1> HIDE DEF decision, expected, outcome
<1>13. /\ receipt.outcome = outcome /\ receipt.dossier = d /\ receipt.plan = p
       /\ receipt.decision = decision /\ receipt.action = p.action
       /\ receipt.key = Status!IdempotencyKey("this", q, decision)
       /\ receipt.executionId = <<decision, receipt.key>>
       /\ IF outcome = "VERIFIED"
          THEN /\ receipt.before = p.before /\ receipt.after = p.after
               /\ Status!VerifyMutation(receipt.mutation, receipt.action)
          ELSE receipt.before = None /\ receipt.after = None /\ receipt.mutation = None
       /\ Status!VerifyChecks(receipt) /\ Status!VerifyRollback(receipt)
       /\ Status!VerifyReceiptEvents(receipt)
  BY <1>7, <1>11 DEF Status!VerifyExecutionReceipt
<1>14. /\ IsRecord(made, ReceiptFields)
       /\ made.key = Status!IdempotencyKey("this", q, decision)
       /\ made.executionId = <<decision, made.key>> /\ made.outcome = outcome
       /\ made.dossier = d /\ made.plan = p /\ made.decision = decision
       /\ made.action = p.action
       /\ IF outcome = "VERIFIED"
          THEN /\ made.before = p.before /\ made.after = p.after /\ made.mutation = p.action
               /\ made.checks = Status!VerifyPostcondition(p, p.after, p.action)
               /\ made.rollback = <<"ELIGIBLE", Status!Inverse, p.before>>
          ELSE /\ made.before = None /\ made.after = None /\ made.mutation = None
               /\ made.checks = <<>> /\ made.rollback = <<"NOT_APPLICABLE">>
       /\ made.startedAt = receipt.startedAt /\ made.completedAt = receipt.completedAt
       /\ made.events = Status!EventPayloads(made)
  BY MadeReceipt
<1>15. IsRecord(receipt, ReceiptFields)
  BY DEF IsExecution
<1> HIDE DEF made, receipt, p, q, d, artifacts
<1>16. receipt.checks = made.checks /\ receipt.mutation = made.mutation
       /\ receipt.rollback = made.rollback
  <2>1. CASE outcome = "VERIFIED"
    <3>1. receipt.mutation = p.action /\ made.mutation = p.action
      BY <1>13, <1>14, <2>1 DEF Status!VerifyMutation
    <3>2. receipt.rollback = made.rollback
      BY <1>13, <1>14, <2>1 DEF Status!VerifyRollback
    <3>3. receipt.checks = Status!ExpectedCheckPasses(receipt)
      BY <1>13, <2>1 DEF Status!VerifyChecks
    <3>4. Status!ExpectedCheckPasses(receipt) =
            <<TRUE, p.before \subseteq p.after, p.action.tag \in p.after,
              p.after = p.before \cup {p.action.tag}, receipt.mutation = p.action>>
      BY <1>13, <2>1 DEF Status!ExpectedCheckPasses, Status!VerifyMutation
    <3>5. Status!VerifyPostcondition(p, p.after, p.action) =
            <<TRUE, p.before \subseteq p.after, p.action.tag \in p.after, TRUE, TRUE>>
      BY DEF Status!VerifyPostcondition
    <3>6. p.after = p.before \cup {p.action.tag}
      BY <1>4
    <3>7. made.checks = Status!VerifyPostcondition(p, p.after, p.action)
      BY <1>14, <2>1
    <3>8. receipt.checks = made.checks
      BY ONLY <3>1, <3>3, <3>4, <3>5, <3>6, <3>7
    <3> QED
      BY <3>1, <3>2, <3>8
  <2>2. CASE outcome = "REJECTED"
    BY <1>13, <1>14, <2>2 DEF Status!VerifyChecks, Status!VerifyRollback
  <2> QED
    BY <1>12, <2>1, <2>2
<1>17. /\ receipt.before = made.before /\ receipt.after = made.after
       /\ receipt.outcome = made.outcome /\ receipt.dossier = made.dossier
       /\ receipt.plan = made.plan /\ receipt.decision = made.decision
       /\ receipt.action = made.action /\ receipt.key = made.key
       /\ receipt.executionId = made.executionId
       /\ receipt.startedAt = made.startedAt /\ receipt.completedAt = made.completedAt
  BY <1>12, <1>13, <1>14
<1>18. receipt.events = made.events
  <2>1. Status!EventPayloads(receipt) = Status!EventPayloads(made)
    BY ONLY <1>16, <1>17 DEF Status!EventPayloads
  <2> QED
    BY <1>13, <1>14, <2>1 DEF Status!VerifyReceiptEvents
<1>19. receipt = made
  <2>1. \A f \in ReceiptFields : receipt[f] = made[f]
    BY <1>16, <1>17, <1>18 DEF ReceiptFields
  <2> QED
    BY <1>14, <1>15, <2>1, SameRecord
<1> QED
  BY ONLY <1>2, <1>5, <1>7, <1>9, <1>10, <1>19 DEF made, receipt, q, artifacts, outcome

\* An update keeps the fields of a record.
LEMMA RecordUpdate ==
  ASSUME NEW fields, NEW r, IsRecord(r, fields), NEW f, NEW x
  PROVE  IsRecord([r EXCEPT ![f] = x], fields)
BY DEF IsRecord

\* An execution begins with nothing stored and nothing read.
LEMMA StatusBegins == Status!Init => StatusIInv
<1> SUFFICES ASSUME Status!Init PROVE StatusIInv
  OBVIOUS
<1>1. /\ None # "SUCCEEDED" /\ MaxTime \in Nat \ {0}
  BY Status!StatusAssumption DEF Status!StatusAssumption
<1>2. /\ reader.at = "idle" /\ reader.evidence = None /\ reader.approval = None
      /\ IsRecord(reader, ReaderFields)
  BY DEF Status!Init, Status!Idle, IsRecord, ReaderFields
<1>3. /\ objects.audit = None /\ objects.execution = None
      /\ IsRecord(objects, {"audit", "execution"})
  BY DEF Status!Init, IsRecord
<1>4. execution.status = None /\ IsRecord(execution, {"status", "output"})
  BY DEF Status!Init, IsRecord
<1>5. /\ view.at = "start" /\ view.answer.code = 0
      /\ IsRecord(view, {"at", "failures", "answer"})
  BY DEF Status!Init, Status!NoAnswer, IsRecord
<1>6. StatusTypes
  BY <1>1, <1>2, <1>3, <1>4, <1>5 DEF StatusTypes, Status!Init
<1>7. Verified /\ Unstarted
  BY <1>2, <1>4 DEF Verified, Unstarted, Status!Init
<1>8. Unaltered
  BY <1>1, <1>2, <1>3, <1>4 DEF Unaltered, Written, Read, Status!Init
<1>9. Status!ShownIsEarned /\ Status!HonestIsShown
  BY <1>5 DEF Status!ShownIsEarned, Status!HonestIsShown
<1> QED
  BY <1>6, <1>7, <1>8, <1>9 DEF StatusIInv

\* What a step leaves alone of an answer.
LEMMA SameAnswer ==
  ASSUME StatusIInv, UNCHANGED <<release, altered, view>>
  PROVE  Status!ShownIsEarned' /\ Status!HonestIsShown'
BY DEF StatusIInv, Status!ShownIsEarned, Status!HonestIsShown

\* The services act only on what nothing altered.
LEMMA WorkersUnaltered ==
  ASSUME StatusIInv,
         \/ Status!Tick \/ Status!StoreEvidence \/ Status!PutCheckpoint \/ Status!Handoff
         \/ Status!Decide \/ Status!TimeToLive \/ Status!Remediate \/ Status!Succeed
         \/ Status!EndOtherwise
  PROVE  altered = {} /\ Written /\ Read
BY DEF StatusIInv, StatusTypes, Unaltered, Status!Tick, Status!StoreEvidence, Status!PutCheckpoint,
       Status!Handoff, Status!Decide, Status!TimeToLive, Status!Remediate, Status!Succeed,
       Status!EndOtherwise, Status!Running

\* What was read stays true while a service writes.
LEMMA ReadKept ==
  ASSUME Read, UNCHANGED <<release, reader>>,
         execution.status = "SUCCEEDED" => UNCHANGED <<execution, row, checkpoint>>,
         checkpoint # None => checkpoint' = checkpoint /\ objects'.audit = objects.audit
  PROVE  Read'
<1> SUFFICES ASSUME reader.at # "idle" PROVE Read'
  BY DEF Read
<1>1. UNCHANGED reader
  OBVIOUS
<1>2. reader.execution.status = "SUCCEEDED" =>
        reader.execution = execution /\ UNCHANGED <<execution, row, checkpoint>>
  BY DEF Read
<1>3. reader.approval # None =>
        /\ reader.checkpoint # None /\ reader.at = "result" /\ reader.checkpoint.requiresApproval
        /\ objects'.audit = objects.audit /\ OfLambda(reader.approval)
  BY DEF Read
<1>4. reader.approval # None => OfLambda(reader.approval)'
  BY <1>1, <1>3 DEF OfLambda
<1> QED
  BY <1>1, <1>2, <1>4 DEF Read

\* And so does what was verified.
LEMMA VerifiedKept ==
  ASSUME StatusIInv, UNCHANGED <<release, altered, reader, view>>
  PROVE  Verified' /\ Status!ShownIsEarned' /\ Status!HonestIsShown'
BY SameAnswer DEF StatusIInv, Verified

LEMMA TickStep == ASSUME StatusIInv, Status!Tick PROVE StatusIInv'
<1>1. altered = {} /\ Written /\ Read
  BY WorkersUnaltered
<1>2. UNCHANGED <<lead, release, execution, objects, checkpoint, row, altered, faults, reader, view>>
  BY DEF Status!Tick
<1>3. StatusTypes'
  BY <1>2, Status!StatusAssumption
  DEF StatusIInv, StatusTypes, Status!Tick, Status!StatusAssumption, IsRow, IsExecution
<1>4. Written'
  BY <1>1, <1>2 DEF Written, OfWorker, OfLambda, Status!Outputs
<1>5. Read'
  BY <1>1, <1>2, ReadKept
<1>6. Unstarted'
  BY <1>2 DEF StatusIInv, Unstarted
<1> QED
  BY <1>2, <1>3, <1>4, <1>5, <1>6, VerifiedKept DEF StatusIInv, Unaltered

\* The audit worker writes evidence that is its own.
LEMMA StoreEvidenceStep == ASSUME StatusIInv, Status!StoreEvidence PROVE StatusIInv'
<1> DEFINE at == now + lead
<1>1. altered = {} /\ Written /\ Read
  BY WorkersUnaltered
<1>2. /\ UNCHANGED <<now, lead, release, execution, checkpoint, row, altered, faults, reader, view>>
      /\ objects.audit = None /\ execution.status = "RUNNING"
  BY DEF Status!StoreEvidence, Status!Running
<1>3. PICK r \in {Status!Actionable("this", at)} \cup
                 {Status!ManualOnly(reason) : reason \in Status!ManualOnlyReasons} :
        objects' = [objects EXCEPT !.audit = Status!AuditOf(r, release, at)]
  BY DEF Status!StoreEvidence, Status!WorkerNow
<1> DEFINE e == Status!AuditOf(r, release, at)
<1>4. /\ IsRecord(objects', {"audit", "execution"}) /\ objects'.audit = e
      /\ objects'.execution = objects.execution
  BY <1>3 DEF StatusIInv, StatusTypes, IsRecord
<1>5. at \in Status!Moments
  BY Status!StatusAssumption DEF StatusIInv, StatusTypes, Status!Moments, Status!StatusAssumption
<1>6. e.remediation = r /\ e.createdAt = at
  BY DEF Status!AuditOf, Status!AuditEvidence
<1>11. UNCHANGED e
  BY <1>2
<1> HIDE DEF at
<1>7. OfWorker(e)
  BY <1>3, <1>5, <1>6 DEF OfWorker
<1>8. e \in Audits
  BY <1>7, WorkerAudit DEF StatusIInv, StatusTypes
<1> HIDE DEF e
<1>9. checkpoint = None /\ row = None /\ objects.execution = None
  BY <1>1, <1>2 DEF Written
<1>10. StatusTypes'
  BY <1>2, <1>4, <1>8, <1>9 DEF StatusIInv, StatusTypes, IsRow
<1>12. Written'
  BY <1>2, <1>4, <1>7, <1>9, <1>11 DEF Written, OfWorker
<1>13. Read'
  BY <1>1, <1>2, <1>9, ReadKept
<1>14. Unstarted'
  BY <1>2 DEF StatusIInv, Unstarted
<1> QED
  BY <1>2, <1>10, <1>12, <1>13, <1>14, VerifiedKept DEF StatusIInv, Unaltered

LEMMA PutCheckpointStep == ASSUME StatusIInv, Status!PutCheckpoint PROVE StatusIInv'
<1>1. altered = {} /\ Written /\ Read
  BY WorkersUnaltered
<1>2. /\ UNCHANGED <<now, lead, release, execution, objects, row, altered, faults, reader, view>>
      /\ objects.audit # None /\ checkpoint = None /\ execution.status = "RUNNING"
      /\ checkpoint' \in Status!Outputs(objects.audit)
  BY DEF Status!PutCheckpoint, Status!Running
<1>3. row = None /\ objects.execution = None /\ OfWorker(objects.audit)
  BY <1>1, <1>2 DEF Written
<1>4. StatusTypes'
  BY <1>2, <1>3 DEF StatusIInv, StatusTypes, IsRow
<1>5. checkpoint' \in Status!Outputs(objects.audit)'
  BY <1>2 DEF Status!Outputs
<1>6. OfWorker(objects.audit)'
  BY <1>2, <1>3 DEF OfWorker
<1>7. Written'
  BY <1>2, <1>3, <1>5, <1>6 DEF Written
<1>8. Read'
  BY <1>1, <1>2, ReadKept
<1>9. Unstarted'
  BY <1>2 DEF StatusIInv, Unstarted
<1> QED
  BY <1>2, <1>4, <1>7, <1>8, <1>9, VerifiedKept DEF StatusIInv, Unaltered

\* The approval of an execution that asks for one is of an actionable audit.
LEMMA RowOfAudit ==
  ASSUME StatusIInv, Written, row # None
  PROVE  /\ objects.audit # None /\ OfWorker(objects.audit)
         /\ objects.audit.remediation.reason = None
         /\ OfLambda(row) /\ checkpoint # None /\ checkpoint.requiresApproval
         /\ checkpoint \in Status!Outputs(objects.audit)
BY WorkerCheckpoint DEF StatusIInv, StatusTypes, Written

LEMMA HandoffStep == ASSUME StatusIInv, Status!Handoff PROVE StatusIInv'
<1>1. altered = {} /\ Written /\ Read
  BY WorkersUnaltered
<1>2. /\ UNCHANGED <<now, lead, release, execution, objects, checkpoint, altered, faults, reader, view>>
      /\ checkpoint # None /\ checkpoint.requiresApproval /\ row = None
      /\ row' = Status!Row(checkpoint.evidence) /\ execution.status = "RUNNING"
  BY DEF Status!Handoff, Status!Running
<1>3. /\ objects.audit # None /\ OfWorker(objects.audit) /\ objects.execution = None
      /\ checkpoint \in Status!Outputs(objects.audit)
  BY <1>1, <1>2 DEF Written
<1>4. checkpoint.evidence = objects.audit /\ objects.audit.remediation.reason = None
  BY <1>2, <1>3, WorkerCheckpoint DEF StatusIInv, StatusTypes
<1>5. OfLambda(Status!Row(objects.audit))
  BY DEF OfLambda
<1>6. IsRow(Status!Row(objects.audit))
  BY <1>3, <1>4, <1>5, LambdaRow DEF StatusIInv, StatusTypes
<1>7. StatusTypes'
  BY <1>2, <1>4, <1>6 DEF StatusIInv, StatusTypes
<1>8. OfLambda(row)'
  BY <1>2, <1>4 DEF OfLambda
<1>9. Written'
  <2>1. OfWorker(objects.audit)' /\ checkpoint' \in Status!Outputs(objects.audit)'
    BY <1>2, <1>3 DEF OfWorker, Status!Outputs
  <2> QED
    BY <1>2, <1>3, <1>8, <2>1 DEF Written
<1>10. Read'
  BY <1>1, <1>2, ReadKept
<1>11. Unstarted'
  BY <1>2 DEF StatusIInv, Unstarted
<1> QED
  BY <1>2, <1>7, <1>9, <1>10, <1>11, VerifiedKept DEF StatusIInv, Unaltered

\* An execution that succeeded has no approval that is still open.
LEMMA OpenIsRunning ==
  ASSUME StatusIInv, Written, row # None, row.status = "PENDING"
  PROVE  execution.status # "SUCCEEDED" /\ objects.execution = None /\ row = Status!Row(objects.audit)
<1>1. row = Status!Row(objects.audit)
  BY RowOfAudit, LambdaRow DEF StatusIInv, StatusTypes
<1>2. objects.execution = None
  BY DEF Written
<1> QED
  BY <1>1, <1>2 DEF Written

LEMMA DecideStep == ASSUME StatusIInv, Status!Decide PROVE StatusIInv'
<1>1. altered = {} /\ Written /\ Read
  BY WorkersUnaltered
<1>2. /\ UNCHANGED <<now, lead, release, execution, objects, checkpoint, altered, faults, reader, view>>
      /\ row # None /\ row.status = "PENDING"
  BY DEF Status!Decide
<1>3. PICK choice \in Status!Choices : row' = Status!Decided(row, choice, now)
  BY DEF Status!Decide, Status!Choices
<1>4. /\ execution.status # "SUCCEEDED" /\ objects.execution = None
      /\ row = Status!Row(objects.audit)
  BY <1>1, <1>2, OpenIsRunning
<1>5. /\ objects.audit # None /\ OfWorker(objects.audit)
      /\ objects.audit.remediation.reason = None
      /\ checkpoint # None /\ checkpoint.requiresApproval
      /\ checkpoint \in Status!Outputs(objects.audit)
  BY <1>1, <1>2, RowOfAudit
<1> DEFINE r == Status!Decided(row, choice, now)
<1>6. r.decision = choice /\ r.decidedAt = now
  <2>1. IsRecord(row, RowFields)
    BY <1>2 DEF StatusIInv, StatusTypes, IsRow
  <2> QED
    BY <2>1 DEF IsRecord, RowFields, Status!Decided
<1>7. now \in Status!Moments
  BY Status!StatusAssumption DEF StatusIInv, StatusTypes, Status!Moments, Status!StatusAssumption
<1>8. OfLambda(r)
  BY <1>4, <1>6, <1>7 DEF OfLambda
<1> HIDE DEF r
<1>9. IsRow(r)
  BY <1>5, <1>8, LambdaRow DEF StatusIInv, StatusTypes
<1>10. row' = r
  BY <1>3 DEF r
<1>11. StatusTypes'
  BY <1>2, <1>9, <1>10 DEF StatusIInv, StatusTypes
<1>12. OfLambda(row)'
  BY <1>2, <1>8, <1>10 DEF OfLambda
<1>13. Written'
  <2>1. OfWorker(objects.audit)' /\ checkpoint' \in Status!Outputs(objects.audit)'
    BY <1>2, <1>5 DEF OfWorker, Status!Outputs
  <2> QED
    BY <1>2, <1>4, <1>5, <1>12, <2>1 DEF Written
<1>14. Read'
  BY <1>1, <1>2, <1>4, ReadKept
<1>15. Unstarted'
  BY <1>2 DEF StatusIInv, Unstarted
<1> QED
  BY <1>2, <1>11, <1>13, <1>14, <1>15, VerifiedKept DEF StatusIInv, Unaltered

LEMMA TimeToLiveStep == ASSUME StatusIInv, Status!TimeToLive PROVE StatusIInv'
<1>1. altered = {} /\ Written /\ Read
  BY WorkersUnaltered
<1>2. /\ UNCHANGED <<now, lead, release, execution, objects, checkpoint, altered, faults, reader, view>>
      /\ row # None /\ row.status = "PENDING" /\ row' = None
  BY DEF Status!TimeToLive
<1>3. execution.status # "SUCCEEDED" /\ objects.execution = None
  BY <1>1, <1>2, OpenIsRunning
<1>4. StatusTypes'
  BY <1>2 DEF StatusIInv, StatusTypes
<1>5. Written'
  BY <1>1, <1>2, <1>3 DEF Written, OfWorker, Status!Outputs
<1>6. Read'
  BY <1>1, <1>2, <1>3, ReadKept
<1>7. Unstarted'
  BY <1>2 DEF StatusIInv, Unstarted
<1> QED
  BY <1>2, <1>4, <1>5, <1>6, <1>7, VerifiedKept DEF StatusIInv, Unaltered

\* The evidence that the worker stores of an execution has its fields.
LEMMA MadeExecution ==
  ASSUME NEW e, NEW choice, NEW by, NEW at
  PROVE  IsExecution(Status!ExecutionOf(e, choice, by, at))
<1> DEFINE request == e.remediation.request
           decision == Status!CreateApprovalDecision(request, choice, Status!Approver, by)
           receipt == Status!CreateExecutionReceipt("this", e.remediation, decision,
                                                    Status!OutcomeOf(choice), at, at)
           v == Status!ExecutionOf(e, choice, by, at)
<1>1. IsRecord(receipt, ReceiptFields)
  BY MadeReceipt
<1>2. v = Status!ExecutionEvidence("this", e, decision, receipt)
  BY DEF Status!ExecutionOf
<1> HIDE DEF decision, receipt, v
<1>3. IsRecord(v, ExecutionFields) /\ v.receipt = receipt
  BY <1>2 DEF Status!ExecutionEvidence, IsRecord, ExecutionFields
<1>4. IsExecution(v)
  BY <1>1, <1>3 DEF IsExecution
<1> QED
  BY <1>4 DEF v

LEMMA RemediateStep == ASSUME StatusIInv, Status!Remediate PROVE StatusIInv'
<1> DEFINE request == objects.audit.remediation.request
           at == now + lead
           v == Status!ExecutionOf(objects.audit, row.decision, row.decidedAt, at)
<1>1. altered = {} /\ Written /\ Read
  BY WorkersUnaltered
<1>2. /\ UNCHANGED <<now, lead, release, execution, checkpoint, row, altered, faults, reader, view>>
      /\ row # None /\ row.status = "DECIDED" /\ execution.status = "RUNNING"
      /\ at >= row.decidedAt /\ objects' = [objects EXCEPT !.execution = v]
      /\ Status!CreateApprovalDecision(request, row.decision, Status!Approver, row.decidedAt) # None
  BY DEF Status!Remediate, Status!Running, Status!WorkerNow
<1>3. row.decidedAt \in request.requestedAt .. request.expiresAt
  BY <1>2 DEF Status!CreateApprovalDecision
<1>4. at \in Status!Moments /\ row.decidedAt <= at
  <2>1. row.decidedAt \in Int
    BY <1>2 DEF StatusIInv, StatusTypes, IsRow
  <2>2. now \in Int /\ lead \in Int /\ at \in Status!Moments
    BY Status!StatusAssumption
    DEF StatusIInv, StatusTypes, Status!Moments, Status!StatusAssumption
  <2> QED
    BY <1>2, <2>1, <2>2
<1>5. /\ objects.audit # None /\ OfWorker(objects.audit) /\ OfLambda(row)
      /\ checkpoint # None /\ checkpoint.requiresApproval
      /\ checkpoint \in Status!Outputs(objects.audit)
  BY <1>1, <1>2, RowOfAudit
<1>6. IsExecution(v)
  BY MadeExecution
<1> HIDE DEF v, at
<1>7. /\ IsRecord(objects', {"audit", "execution"}) /\ objects'.execution = v
      /\ objects'.audit = objects.audit
  BY <1>2 DEF StatusIInv, StatusTypes, IsRecord
<1>8. StatusTypes'
  BY <1>2, <1>6, <1>7 DEF StatusIInv, StatusTypes, IsRow
<1>9. \E t \in Status!Moments :
        /\ row'.decidedAt <= t
        /\ objects'.execution =
             Status!ExecutionOf(objects'.audit, row'.decision, row'.decidedAt, t)
  BY <1>2, <1>4, <1>7 DEF v
<1>10. /\ OfWorker(objects.audit)' /\ checkpoint' \in Status!Outputs(objects.audit)'
       /\ OfLambda(row)'
  BY <1>2, <1>5, <1>7 DEF OfWorker, OfLambda, Status!Outputs
<1>11. Written'
  BY <1>2, <1>3, <1>5, <1>7, <1>9, <1>10 DEF Written
<1>12. Read'
  BY <1>1, <1>2, <1>7, ReadKept
<1>13. Unstarted'
  BY <1>2 DEF StatusIInv, Unstarted
<1> QED
  BY <1>2, <1>8, <1>11, <1>12, <1>13, VerifiedKept DEF StatusIInv, Unaltered

LEMMA SucceedStep == ASSUME StatusIInv, Status!Succeed PROVE StatusIInv'
<1>1. altered = {} /\ Written /\ Read
  BY WorkersUnaltered
<1>2. /\ UNCHANGED <<now, lead, release, objects, checkpoint, row, altered, faults, reader, view>>
      /\ checkpoint # None /\ execution.status = "RUNNING"
      /\ checkpoint.requiresApproval => objects.execution # None
      /\ execution' = [status |-> "SUCCEEDED",
                       output |-> IF checkpoint.requiresApproval
                                  THEN Status!RemediationResult(objects.execution) ELSE None]
  BY DEF Status!Succeed, Status!Running
<1>3. /\ execution'.status = "SUCCEEDED" /\ IsRecord(execution', {"status", "output"})
      /\ checkpoint.requiresApproval =>
           execution'.output = Status!RemediationResult(objects.execution)
  BY <1>2 DEF IsRecord
<1>4. StatusTypes'
  BY <1>2, <1>3 DEF StatusIInv, StatusTypes, IsRow
<1>5. Status!RemediationResult(objects.execution)' = Status!RemediationResult(objects.execution)
  BY <1>2 DEF Status!RemediationResult
<1>6. Written'
  BY <1>1, <1>2, <1>3, <1>5 DEF Written, OfWorker, OfLambda, Status!Outputs
<1>7. Read'
  BY <1>1, <1>2, ReadKept
<1>8. Unstarted'
  BY <1>2, Status!StatusAssumption DEF StatusIInv, Unstarted, Status!StatusAssumption
<1> QED
  BY <1>2, <1>4, <1>6, <1>7, <1>8, VerifiedKept DEF StatusIInv, Unaltered

LEMMA EndOtherwiseStep == ASSUME StatusIInv, Status!EndOtherwise PROVE StatusIInv'
<1>1. altered = {} /\ Written /\ Read
  BY WorkersUnaltered
<1>2. /\ UNCHANGED <<now, lead, release, objects, checkpoint, row, altered, faults, reader, view>>
      /\ execution.status = "RUNNING"
      /\ execution'.status # "SUCCEEDED" /\ IsRecord(execution', {"status", "output"})
  BY DEF Status!EndOtherwise, Status!Running, Status!Terminal, IsRecord
<1>3. StatusTypes'
  BY <1>1, <1>2 DEF StatusIInv, StatusTypes, IsRow
<1>4. Written'
  BY <1>1, <1>2 DEF Written, OfWorker, OfLambda, Status!Outputs
<1>5. Read'
  BY <1>1, <1>2, ReadKept
<1>6. Unstarted'
  BY <1>2, Status!StatusAssumption DEF StatusIInv, Unstarted, Status!StatusAssumption
<1> QED
  BY <1>2, <1>3, <1>4, <1>5, <1>6, VerifiedKept DEF StatusIInv, Unaltered

LEMMA StartStep == ASSUME StatusIInv, Status!StartControlLoop PROVE StatusIInv'
<1>1. /\ UNCHANGED <<now, lead, release, objects, checkpoint, row, altered, reader>>
      /\ view.at = "start" /\ execution' = [execution EXCEPT !.status = "RUNNING"]
      /\ \E at \in {"poll", "fixture"} : view' = [view EXCEPT !.at = at]
  BY DEF Status!StartControlLoop
<1>2. execution.status = None /\ reader = Status!Idle
  BY <1>1 DEF StatusIInv, Unstarted
<1>3. altered = {} /\ Written
  BY <1>2, Status!StatusAssumption
  DEF StatusIInv, StatusTypes, Unaltered, Status!StatusAssumption
<1>4. IsRecord(execution', {"status", "output"}) /\ execution'.status = "RUNNING"
  BY <1>1 DEF StatusIInv, StatusTypes, IsRecord
<1>5. /\ IsRecord(view', {"at", "failures", "answer"}) /\ view'.at \in {"poll", "fixture"}
      /\ view'.answer = view.answer
  BY <1>1 DEF StatusIInv, StatusTypes, IsRecord
<1>6. StatusTypes'
  BY <1>1, <1>3, <1>4, <1>5 DEF StatusIInv, StatusTypes, IsRow
<1>7. Verified'
  BY <1>1 DEF StatusIInv, Verified
<1>8. Written'
  BY <1>1, <1>3, <1>4 DEF Written, OfWorker, OfLambda, Status!Outputs
<1>9. reader'.at = "idle"
  BY <1>1, <1>2 DEF Status!Idle
<1>10. Read' /\ Unstarted'
  BY <1>5, <1>9 DEF Read, Unstarted
<1>11. Status!ShownIsEarned'
  BY <1>5 DEF Status!ShownIsEarned
<1>12. Status!HonestIsShown'
  BY <1>1, <1>5 DEF StatusIInv, Status!HonestIsShown
<1> QED
  BY <1>6, <1>7, <1>8, <1>10, <1>11, <1>12 DEF StatusIInv, Unaltered

\* The audit of the other execution.
LEMMA OtherAuditTyped ==
  /\ Status!OtherAudit \in Audits /\ Status!OtherAudit.report \in Reports
  /\ Status!OtherAudit.remediation = Status!Actionable("other", 0)
<1> DEFINE r == Status!Actionable("other", 0)
           o == Status!OtherAudit
           report == Status!AuditReport("other", TRUE)
<1>1. /\ r.reason = None /\ r.dossier \in Status!Dossiers
      /\ r.plan \in Status!ActionPlans /\ r.request \in Status!Requests /\ r \in Remediations
  BY Planned DEF Status!Runs
<1>2. /\ o.executionId = "other" /\ o.createdAt = 0 /\ o.remediation = r
      /\ o = [executionId |-> "other", report |-> o.report, remediation |-> r, createdAt |-> 0]
      /\ o.report = report
  BY DEF Status!OtherAudit, Status!AuditEvidence
<1>3. report \in Reports
  BY DEF Status!AuditReport, Reports, Status!Runs
<1>4. o \in [executionId : Status!Runs, report : Reports, remediation : Remediations, createdAt : Int]
  <2>1. o = [executionId |-> "other", report |-> report, remediation |-> r, createdAt |-> 0]
    BY DEF Status!OtherAudit, Status!AuditEvidence
  <2>2. "other" \in Status!Runs
    BY DEF Status!Runs
  <2> HIDE DEF r, o, report
  <2> QED
    BY <1>1, <1>3, <2>1, <2>2
<1> HIDE DEF r, o, report
<1>5. o \in Audits
  BY <1>1, <1>2, <1>4 DEF Audits
<1> QED
  BY <1>2, <1>3, <1>5 DEF o, r

\* An edited audit is still an audit.
LEMMA AuditEdited ==
  ASSUME NEW e \in Audits, NEW n \in Status!AuditEdits(e)
  PROVE  n \in Audits
<1> DEFINE r == e.remediation
           other == Status!OtherAudit.remediation
           With(edited) == [e EXCEPT !.remediation = edited]
           Plain == [executionId : Status!Runs, report : Reports, remediation : Remediations,
                     createdAt : Int]
<1>1. e \in Plain /\ r \in Remediations
  BY DEF Audits
<1>2. /\ other \in Remediations /\ other.reason = None /\ other.dossier \in Status!Dossiers
      /\ other.plan \in Status!ActionPlans /\ other.request \in Status!Requests
  BY OtherAuditTyped, Planned DEF Status!Runs
<1>3. ASSUME NEW s \in Remediations,
             s.reason = None => /\ s.dossier \in Status!Dossiers /\ s.plan \in Status!ActionPlans
                                /\ s.request \in Status!Requests
      PROVE  With(s) \in Audits
  <2> HIDE DEF r, other
  <2>1. With(s) \in Plain /\ With(s).remediation = s
    BY <1>1
  <2> QED
    BY <1>3, <2>1 DEF Audits
<1>4. ASSUME NEW f \in {"executionId", "report", "createdAt"}, NEW x,
             f = "executionId" => x \in Status!Runs, f = "report" => x \in Reports,
             f = "createdAt" => x \in Int
      PROVE  [e EXCEPT ![f] = x] \in Audits
  <2>1. [e EXCEPT ![f] = x] \in Plain /\ [e EXCEPT ![f] = x].remediation = r
    BY <1>1, <1>4
  <2> QED
    BY <2>1 DEF Audits
<1>5. CASE n = Status!OtherAudit
  BY <1>5, OtherAuditTyped
<1>6. CASE n \in {[e EXCEPT !.report = Status!OtherAudit.report], [e EXCEPT !.executionId = "other"],
                  [e EXCEPT !.report.finding = None], [e EXCEPT !.createdAt = 0]}
  <2>1. [e.report EXCEPT !.finding = None] \in Reports
    BY <1>1 DEF Reports
  <2>2. [e EXCEPT !.report.finding = None] = [e EXCEPT !.report = [e.report EXCEPT !.finding = None]]
    BY <1>1
  <2> QED
    BY <1>4, <1>6, <2>1, <2>2, OtherAuditTyped DEF Status!Runs
<1>7. CASE r.reason # None /\ n = With(other)
  BY <1>2, <1>3, <1>7
<1>8. CASE /\ r.reason = None
           /\ n \in {With([r EXCEPT !.dossier = other.dossier]), With([r EXCEPT !.plan = other.plan]),
                     With([r EXCEPT !.request = other.request]), With(other),
                     With([r EXCEPT !.plan.after = r.plan.before]),
                     With([r EXCEPT !.request.expiresAt = 0]),
                     With(Status!ManualOnly("READ_ONLY_REQUEST"))}
  <2>1. /\ r.dossier \in Status!Dossiers /\ r.plan \in Status!ActionPlans
        /\ r.request \in Status!Requests
    BY <1>8 DEF Audits
  <2> HIDE DEF r, other, With
  <2>2. ASSUME NEW f \in {"dossier", "plan", "request"}, NEW x,
               f = "dossier" => x \in Status!Dossiers, f = "plan" => x \in Status!ActionPlans,
               f = "request" => x \in Status!Requests
        PROVE  With([r EXCEPT ![f] = x]) \in Audits
    <3> DEFINE s == [r EXCEPT ![f] = x]
    <3>1. s \in Remediations
      BY <1>1, <2>2 DEF Remediations
    <3>2. /\ s.dossier \in Status!Dossiers /\ s.plan \in Status!ActionPlans
          /\ s.request \in Status!Requests
      BY <1>1, <2>1, <2>2 DEF Remediations
    <3> HIDE DEF s
    <3>3. With(s) \in Audits
      BY <1>3, <3>1, <3>2
    <3> QED
      BY <3>3 DEF s
  <2>3. [r.plan EXCEPT !.after = r.plan.before] \in Status!ActionPlans
    BY <2>1 DEF Status!ActionPlans
  <2>4. [r.request EXCEPT !.expiresAt = 0] \in Status!Requests
    BY <2>1 DEF Status!Requests
  <2>5. /\ [r EXCEPT !.plan.after = r.plan.before] =
             [r EXCEPT !.plan = [r.plan EXCEPT !.after = r.plan.before]]
        /\ [r EXCEPT !.request.expiresAt = 0] =
             [r EXCEPT !.request = [r.request EXCEPT !.expiresAt = 0]]
    BY <1>1 DEF Remediations
  <2>6. With(Status!ManualOnly("READ_ONLY_REQUEST")) \in Audits
    <3> DEFINE s == Status!ManualOnly("READ_ONLY_REQUEST")
    <3>1. s \in Remediations /\ s.reason # None
      BY Status!StatusAssumption
      DEF Status!ManualOnly, Remediations, Status!ManualOnlyReasons, Status!StatusAssumption
    <3> HIDE DEF s
    <3>2. With(s) \in Audits
      BY <1>3, <3>1
    <3> QED
      BY <3>2 DEF s
  <2>7. /\ With([r EXCEPT !.dossier = other.dossier]) \in Audits
        /\ With([r EXCEPT !.plan = other.plan]) \in Audits
        /\ With([r EXCEPT !.request = other.request]) \in Audits
        /\ With([r EXCEPT !.plan.after = r.plan.before]) \in Audits
        /\ With([r EXCEPT !.request.expiresAt = 0]) \in Audits
    BY <1>2, <2>2, <2>3, <2>4, <2>5
  <2>8. With(other) \in Audits
    BY <1>2, <1>3
  <2> QED
    BY <1>8, <2>6, <2>7, <2>8
<1> QED
  BY <1>5, <1>6, <1>7, <1>8 DEF Status!AuditEdits

\* A row that was decided on is a row.
LEMMA RowDecided ==
  ASSUME NEW r, IsRow(r), NEW choice \in Status!Choices, NEW t \in Int
  PROVE  IsRow(Status!Decided(r, choice, t))
<1> DEFINE proof == Status!Proof(r.evidence, choice)
           n == Status!Decided(r, choice, t)
<1>1. IsRecord(proof, ProofFields) /\ proof.approver = Status!Approver
  BY DEF Status!Proof, IsRecord, ProofFields
<1>2. Status!Approver \in Status!Approvers
  BY DEF Status!Approver, Status!Approvers
<1>3. n = [r EXCEPT !.status = "DECIDED", !.decision = choice, !.decidedAt = t, !.proof = proof,
                    !.sealed = proof]
  BY DEF Status!Decided
<1> HIDE DEF proof, n
<1>4. /\ IsRecord(n, RowFields) /\ n.status = "DECIDED" /\ n.decision = choice
      /\ n.decidedAt = t /\ n.proof = proof /\ n.expiresAt = r.expiresAt
  BY <1>3 DEF IsRow, IsRecord, RowFields
<1>5. IsRow(n)
  BY <1>1, <1>2, <1>4 DEF IsRow
<1> QED
  BY <1>5 DEF n

\* So is the other one, and an edited one.
LEMMA OtherRowTyped == IsRow(Status!OtherRow)
<1> DEFINE e == Status!OtherAudit
           r == Status!Row(e)
<1>1. e.remediation.request.expiresAt \in Int
  BY OtherAuditTyped, Planned DEF Status!Runs, Status!Requests
<1>2. IsRecord(r, RowFields) /\ r.status = "PENDING" /\ r.expiresAt \in Int
  BY <1>1 DEF Status!Row, IsRecord, RowFields
<1> HIDE DEF r
<1>3. IsRow(r)
  BY <1>2 DEF IsRow
<1> QED
  BY <1>3, RowDecided DEF Status!OtherRow, Status!Choices, r

LEMMA RowEdited ==
  ASSUME NEW r, IsRow(r), NEW n \in Status!RowEdits(r)
  PROVE  IsRow(n)
<1> DEFINE other == Status!OtherRow.proof
           Edited(f, x) == [r EXCEPT ![f] = x]
<1>1. IsRecord(r, RowFields) /\ r.status \in {"PENDING", "DECIDED"} /\ r.expiresAt \in Int
  BY DEF IsRow
<1>2. IsRecord(other, ProofFields) /\ other.approver \in Status!Approvers
  <2> DEFINE o == Status!Row(Status!OtherAudit)
             n2 == Status!Decided(o, "APPROVE", 1)
  <2>1. IsRecord(o, RowFields)
    BY DEF Status!Row, IsRecord, RowFields
  <2> HIDE DEF o
  <2>2. n2.status = "DECIDED"
    BY <2>1 DEF Status!Decided, IsRecord, RowFields
  <2>3. Status!OtherRow.status = "DECIDED"
    BY <2>2 DEF Status!OtherRow, o
  <2> QED
    BY <2>3, OtherRowTyped DEF IsRow
<1>3. CASE n = Status!OtherRow
  BY <1>3, OtherRowTyped
<1>4. CASE n \in {[r EXCEPT !.status = "PENDING"], [r EXCEPT !.expiresAt = @ + 1]}
  BY <1>1, <1>4 DEF IsRow, IsRecord, RowFields
<1>5. CASE /\ r.status = "PENDING" /\ n = Status!Decided(r, "APPROVE", r.expiresAt)
  BY <1>1, <1>5, RowDecided DEF Status!Choices
<1>6. CASE /\ r.status = "DECIDED"
           /\ \E choice \in {"APPROVE", "REJECT"} : n = Status!Decided(r, choice, r.decidedAt)
  <2>1. r.decidedAt \in Int
    BY <1>6 DEF IsRow
  <2> QED
    BY <1>6, <2>1, RowDecided DEF Status!Choices
<1>7. CASE r.status = "DECIDED" /\ \E t \in {0, r.expiresAt} : n = [r EXCEPT !.decidedAt = t]
  BY <1>1, <1>7 DEF IsRow, IsRecord, RowFields
<1>8. CASE r.status = "DECIDED" /\ n = [r EXCEPT !.proof = other]
  <2> HIDE DEF other
  <2> QED
    BY <1>1, <1>2, <1>8 DEF IsRow, IsRecord, RowFields
<1>9. CASE /\ r.status = "DECIDED"
           /\ n = [r EXCEPT !.proof.approver.roles = {}, !.sealed.approver.roles = {}]
  <2>1. /\ IsRecord(n, RowFields) /\ n.status = r.status /\ n.expiresAt = r.expiresAt
        /\ n.decision = r.decision /\ n.decidedAt = r.decidedAt
        /\ n.proof = [r.proof EXCEPT !.approver = [r.proof.approver EXCEPT !.roles = {}]]
    BY <1>1, <1>9 DEF IsRecord, RowFields
  <2>2. IsRecord(r.proof, ProofFields) /\ r.proof.approver \in Status!Approvers
    BY <1>9 DEF IsRow
  <2>3. [r.proof.approver EXCEPT !.roles = {}] \in Status!Approvers
    BY <2>2 DEF Status!Approvers
  <2>4. IsRecord(n.proof, ProofFields) /\ n.proof.approver \in Status!Approvers
    BY <2>1, <2>2, <2>3 DEF IsRecord, ProofFields
  <2> QED
    BY <1>9, <2>1, <2>4 DEF IsRow
<1> QED
  BY <1>1, <1>3, <1>4, <1>5, <1>6, <1>7, <1>8, <1>9 DEF Status!RowEdits

\* And so is an edited receipt, and the evidence that holds it.
LEMMA ReceiptEdited ==
  ASSUME NEW v, IsExecution(v), NEW n \in Status!ReceiptEdits(v)
  PROVE  IsRecord(n, ReceiptFields)
<1>1. IsRecord(v.receipt, ReceiptFields)
  BY DEF IsExecution
<1>2. \A o \in Status!OtherReceipts(v) : IsRecord(o, ReceiptFields)
  <2>1. IsRecord(Status!OtherExecution.receipt, ReceiptFields)
    BY MadeReceipt DEF Status!OtherExecution, Status!ExecutionEvidence
  <2> QED
    BY <2>1, MadeReceipt DEF Status!OtherReceipts
<1>3. \A o \in Status!EditedReceipts(v) : IsRecord(o, ReceiptFields)
  BY <1>1, <1>2 DEF Status!EditedReceipts, IsRecord
<1>4. \A o \in Status!EditedReceipts(v) : IsRecord(Status!Chained(o), ReceiptFields)
  BY <1>3, RecordUpdate DEF Status!Chained
<1> QED
  BY <1>3, <1>4 DEF Status!ReceiptEdits

LEMMA ExecutionEdited ==
  ASSUME NEW v, IsExecution(v), NEW n \in Status!ExecutionEdits(v)
  PROVE  IsExecution(n)
<1>1. IsRecord(v, ExecutionFields) /\ IsRecord(v.receipt, ReceiptFields)
  BY DEF IsExecution
<1>2. CASE n = Status!OtherExecution
  <2>1. /\ IsRecord(Status!OtherExecution, ExecutionFields)
        /\ IsRecord(Status!OtherExecution.receipt, ReceiptFields)
    BY MadeReceipt DEF Status!OtherExecution, Status!ExecutionEvidence, IsRecord, ExecutionFields
  <2> QED
    BY <1>2, <2>1 DEF IsExecution
<1>3. CASE n \in {[v EXCEPT !.decision = Status!OtherExecution.decision],
                  [v EXCEPT !.executionId = "other"], [v EXCEPT !.decision.decidedAt = 0],
                  [v EXCEPT !.createdAt = 0]}
  BY <1>1, <1>3 DEF IsExecution, IsRecord, ExecutionFields
<1>4. CASE n \in {[v EXCEPT !.receipt = r] : r \in Status!ReceiptEdits(v)}
  <2>1. PICK r \in Status!ReceiptEdits(v) : n = [v EXCEPT !.receipt = r]
    BY <1>4
  <2>2. IsRecord(r, ReceiptFields)
    BY ReceiptEdited
  <2>3. IsRecord(n, ExecutionFields) /\ n.receipt = r
    BY <1>1, <2>1 DEF IsRecord, ExecutionFields
  <2> QED
    BY <2>2, <2>3 DEF IsExecution
<1> QED
  BY <1>2, <1>3, <1>4 DEF Status!ExecutionEdits

\* Whatever is altered, it is so after the execution and before a request.
LEMMA AlterStep ==
  ASSUME StatusIInv, NEW document,
         UNCHANGED <<now, lead, release, faults, reader, view>>,
         altered' = altered \cup {document}, execution.status = "SUCCEEDED",
         execution'.status = "SUCCEEDED", StatusTypes'
  PROVE  StatusIInv'
<1>1. altered' # {} /\ None # "SUCCEEDED"
  BY Status!StatusAssumption DEF Status!StatusAssumption
<1>2. Verified' /\ Unstarted'
  BY <1>1 DEF StatusIInv, Verified, Unstarted
<1>3. Status!ShownIsEarned'
  BY DEF StatusIInv, Status!ShownIsEarned
<1>4. Status!HonestIsShown'
  BY <1>1 DEF Status!HonestIsShown
<1> QED
  BY <1>1, <1>2, <1>3, <1>4 DEF StatusIInv, Unaltered

LEMMA AlterAuditStep ==
  ASSUME StatusIInv, Status!Alter("audit", Status!AlterAudit) PROVE StatusIInv'
<1>1. /\ UNCHANGED <<now, lead, release, faults, reader, view, execution, row>>
      /\ altered' = altered \cup {"audit"} /\ execution.status = "SUCCEEDED"
      /\ objects.audit # None
  BY DEF Status!Alter, Status!AlterAudit
<1>2. PICK e \in Status!AuditEdits(objects.audit) : objects' = [objects EXCEPT !.audit = e]
  BY DEF Status!Alter, Status!AlterAudit
<1>3. e \in Audits
  BY <1>1, <1>2, AuditEdited DEF StatusIInv, StatusTypes
<1>4. /\ IsRecord(objects', {"audit", "execution"}) /\ objects'.audit = e
      /\ objects'.execution = objects.execution
  BY <1>2 DEF StatusIInv, StatusTypes, IsRecord
<1>5. StatusTypes'
  BY <1>1, <1>3, <1>4 DEF StatusIInv, StatusTypes, IsRow
<1> QED
  BY <1>1, <1>5, AlterStep

LEMMA AlterRowStep ==
  ASSUME StatusIInv, Status!Alter("row", Status!AlterRow) PROVE StatusIInv'
<1>1. /\ UNCHANGED <<now, lead, release, faults, reader, view, execution, objects>>
      /\ altered' = altered \cup {"row"} /\ execution.status = "SUCCEEDED"
      /\ row # None /\ row' \in Status!RowEdits(row)
  BY DEF Status!Alter, Status!AlterRow
<1>2. IsRow(row')
  BY <1>1, RowEdited DEF StatusIInv, StatusTypes
<1>3. StatusTypes'
  BY <1>1, <1>2 DEF StatusIInv, StatusTypes
<1> QED
  BY <1>1, <1>3, AlterStep

LEMMA AlterExecutionStep ==
  ASSUME StatusIInv, Status!Alter("execution", Status!AlterExecution) PROVE StatusIInv'
<1>1. /\ UNCHANGED <<now, lead, release, faults, reader, view, row>>
      /\ altered' = altered \cup {"execution"} /\ execution.status = "SUCCEEDED"
      /\ objects.execution # None
  BY DEF Status!Alter, Status!AlterExecution
<1>2. PICK v \in Status!ExecutionEdits(objects.execution) :
        /\ objects' = [objects EXCEPT !.execution = v]
        /\ execution' \in {execution,
                           [execution EXCEPT !.output = Status!RemediationResult(v)]}
  BY DEF Status!Alter, Status!AlterExecution
<1>3. IsExecution(v)
  BY <1>1, <1>2, ExecutionEdited DEF StatusIInv, StatusTypes
<1>4. /\ IsRecord(objects', {"audit", "execution"}) /\ objects'.execution = v
      /\ objects'.audit = objects.audit
  BY <1>2 DEF StatusIInv, StatusTypes, IsRecord
<1>5. IsRecord(execution', {"status", "output"}) /\ execution'.status = "SUCCEEDED"
  BY <1>1, <1>2 DEF StatusIInv, StatusTypes, IsRecord
<1>6. StatusTypes'
  BY <1>1, <1>3, <1>4, <1>5 DEF StatusIInv, StatusTypes, IsRow
<1> QED
  BY <1>1, <1>5, <1>6, AlterStep

AnswerFields == {"code", "fault", "status", "evidence", "approval", "result"}

\* The result of an answer is earned by what is shown with it.
Earned(a) ==
  LET audit == a.evidence
      decision == Status!CreateApprovalDecision(audit.remediation.request, a.approval.decision,
                                                a.approval.proof.approver, a.approval.decidedAt)
  IN /\ Status!OneAudit(audit) /\ audit.executionId = "this" /\ decision # None
     /\ a.result.receipt =
          Status!CreateExecutionReceipt("this", audit.remediation, decision,
            Status!OutcomeOf(a.approval.decision),
            a.result.receipt.startedAt, a.result.receipt.completedAt)

\* An answer ends a request: an honest one the page accepts, and a result is earned.
LEMMA AnswerStep ==
  ASSUME StatusIInv, NEW a, Status!Answer(a), IsRecord(a, AnswerFields),
         \/ altered # {} \/ a.fault
         \/ a.code = 200 /\ Status!ParseControlLoopStatus(a)
         \/ a.code = 410 /\ release = "retired",
         a.code = 200 /\ Status!ParseControlLoopStatus(a) /\ a.status = "SUCCEEDED"
           /\ a.result.outcome # "READ_ONLY_COMPLETE" => Earned(a)
  PROVE  StatusIInv'
<1> DEFINE b == [a EXCEPT !.code = 502]
<1>1. /\ reader' = Status!Idle
      /\ UNCHANGED <<now, lead, release, execution, objects, checkpoint, row, altered>>
      /\ \/ a.code = 200 /\ Status!ParseControlLoopStatus(a) /\ Status!Accept(a)
         \/ a.code # 200 /\ Status!Refuse(a)
         \/ a.code = 200 /\ ~Status!ParseControlLoopStatus(a) /\ Status!Refuse(b)
  BY DEF Status!Answer, Status!world
<1>2. b.code = 502 /\ b.fault = a.fault
  BY DEF IsRecord, AnswerFields
<1> HIDE DEF b
<1>3. /\ reader'.at = "idle" /\ reader'.evidence = None /\ reader'.approval = None
      /\ reader'.checkpoint = None /\ IsRecord(reader', ReaderFields)
  BY <1>1 DEF Status!Idle, IsRecord, ReaderFields
<1>4. /\ IsRecord(view', {"at", "failures", "answer"})
      /\ view'.at # "start"
      /\ \/ a.code = 200 /\ Status!ParseControlLoopStatus(a) /\ view'.answer = a
            /\ (view'.at = "shown" => a.status = "SUCCEEDED")
         \/ a.code # 200 /\ view'.answer = a /\ view'.at # "shown"
         \/ a.code = 200 /\ ~Status!ParseControlLoopStatus(a) /\ view'.answer = b /\ view'.at # "shown"
  <2>1. CASE a.code = 200 /\ Status!ParseControlLoopStatus(a) /\ Status!Accept(a)
    BY <2>1 DEF Status!Accept, IsRecord
  <2>2. CASE a.code # 200 /\ Status!Refuse(a)
    BY <2>2 DEF Status!Refuse, IsRecord
  <2>3. CASE a.code = 200 /\ ~Status!ParseControlLoopStatus(a) /\ Status!Refuse(b)
    BY <2>3 DEF Status!Refuse, IsRecord
  <2> QED
    BY <1>1, <2>1, <2>2, <2>3
<1>5. StatusTypes'
  BY <1>1, <1>3, <1>4 DEF StatusIInv, StatusTypes, IsRow
<1>6. Verified' /\ Unstarted'
  BY <1>3, <1>4 DEF Verified, Unstarted
<1>7. Unaltered'
  <2>1. Read'
    BY <1>3 DEF Read
  <2>2. Written => Written'
    BY <1>1 DEF Written, OfWorker, OfLambda, Status!Outputs
  <2> QED
    BY <1>1, <2>1, <2>2 DEF StatusIInv, Unaltered
<1>8. Status!HonestIsShown'
  <2>1. CASE view'.answer = a
    <3>1. /\ view'.answer.code = a.code /\ (view'.answer.fault <=> a.fault)
          /\ release' = release /\ altered' = altered
          /\ a.code = 200 \/ altered # {} \/ a.fault \/ (a.code = 410 /\ release = "retired")
      BY <1>1, <2>1
    <3> QED
      BY <3>1 DEF Status!HonestIsShown
  <2>2. CASE view'.answer = b /\ a.code = 200 /\ ~Status!ParseControlLoopStatus(a)
    <3>1. (view'.answer.fault <=> a.fault) /\ altered' = altered /\ (altered # {} \/ a.fault)
      BY <1>1, <1>2, <2>2
    <3> QED
      BY <3>1 DEF Status!HonestIsShown
  <2> QED
    BY <1>4, <2>1, <2>2
<1>9. Status!ShownIsEarned'
  <2>1. ASSUME view'.at = "shown", view'.answer.result.outcome # "READ_ONLY_COMPLETE"
        PROVE  Earned(a) /\ view'.answer = a
    BY <1>4, <2>1
  <2>2. (view.at = "shown" /\ view.answer.result.outcome # "READ_ONLY_COMPLETE"
           => Earned(view.answer))'
    BY <2>1 DEF Earned
  <2> QED
    BY <2>2 DEF Status!ShownIsEarned, Earned
<1> QED
  BY <1>5, <1>6, <1>7, <1>8, <1>9 DEF StatusIInv

\* The answers of a lambda that has no status.
LEMMA NoAnswerFields == IsRecord(Status!NoAnswer, AnswerFields)
BY DEF Status!NoAnswer, IsRecord, AnswerFields

LEMMA CodeFields ==
  ASSUME NEW a, NEW code, a = [Status!NoAnswer EXCEPT !.code = code]
  PROVE  IsRecord(a, AnswerFields) /\ a.code = code
BY NoAnswerFields DEF IsRecord, AnswerFields

\* The answer of a request that cannot be served.
LEMMA BadGateway ==
  ASSUME NEW a, a = Status!Code(502)
  PROVE  IsRecord(a, AnswerFields) /\ a.code # 200
<1>1. a = [Status!NoAnswer EXCEPT !.code = 502]
  BY DEF Status!Code
<1>2. IsRecord(a, AnswerFields) /\ a.code = 502
  BY ONLY <1>1, CodeFields
<1> QED
  BY <1>2

LEMMA FaultyStep == ASSUME StatusIInv, Status!Faulty PROVE StatusIInv'
<1>1. PICK a : a = [Status!Code(502) EXCEPT !.fault = TRUE]
  OBVIOUS
<1>2. Status!Answer(a)
  BY <1>1 DEF Status!Faulty
<1>3. IsRecord(a, AnswerFields) /\ a.fault /\ a.code = 502
  <2>1. PICK n : n = [Status!NoAnswer EXCEPT !.code = 502]
    OBVIOUS
  <2>2. IsRecord(n, AnswerFields) /\ n.code = 502
    BY ONLY <2>1, CodeFields
  <2>3. a = [n EXCEPT !.fault = TRUE]
    BY <1>1, <2>1 DEF Status!Code
  <2> QED
    BY ONLY <2>2, <2>3 DEF IsRecord, AnswerFields
<1>4. a.code # 200
  BY <1>3
<1> QED
  BY ONLY StatusIInv, <1>2, <1>3, <1>4, AnswerStep

\* A request goes on with what it has read.
LEMMA RequestGoesOn ==
  ASSUME StatusIInv, NEW r, Status!Goto(r), IsRecord(r, ReaderFields),
         r.at \in {"checkpoint", "evidence", "approval", "result"},
         r.evidence # None => r.evidence \in Audits, r.approval # None => IsRow(r.approval),
         view.at # "start", Verified', altered = {} => Read'
  PROVE  StatusIInv'
<1>1. /\ reader' = r
      /\ UNCHANGED <<now, lead, release, execution, objects, checkpoint, row, altered, view>>
  BY DEF Status!Goto, Status!world
<1>2. StatusTypes'
  BY <1>1 DEF StatusIInv, StatusTypes, IsRow
<1>3. Unstarted'
  BY <1>1 DEF Unstarted
<1>4. Written => Written'
  BY <1>1 DEF Written, OfWorker, OfLambda, Status!Outputs
<1> QED
  BY <1>1, <1>2, <1>3, <1>4, SameAnswer DEF StatusIInv, Unaltered

LEMMA DescribeStep == ASSUME StatusIInv, Status!Describe PROVE StatusIInv'
<1>1. PICK r : r = [Status!Idle EXCEPT !.at = "checkpoint", !.execution = execution]
  OBVIOUS
<1>2. Status!Goto(r) /\ view.at = "poll"
  BY <1>1 DEF Status!Describe
<1>3. /\ IsRecord(r, ReaderFields) /\ r.at = "checkpoint" /\ r.execution = execution
      /\ r.checkpoint = None /\ r.evidence = None /\ r.approval = None
  BY <1>1 DEF Status!Idle, IsRecord, ReaderFields
<1>4. reader' = r /\ UNCHANGED <<execution, objects, checkpoint, row, release>>
  BY <1>2 DEF Status!Goto, Status!world
<1>5. Verified' /\ Read'
  BY <1>3, <1>4 DEF Verified, Read
<1> QED
  BY <1>2, <1>3, <1>5, RequestGoesOn

\* Outside the start, and in a request.
LEMMA Requested ==
  ASSUME StatusIInv, reader.at # "idle" PROVE view.at # "start"
BY DEF StatusIInv, Unstarted, Status!Idle

LEMMA ReadCheckpointStep == ASSUME StatusIInv, Status!ReadCheckpoint PROVE StatusIInv'
<1>1. /\ reader.at = "checkpoint" /\ reader.checkpoint = None /\ reader.approval = None
      /\ view.at # "start" /\ IsRecord(reader, ReaderFields)
  BY Requested DEF Status!ReadCheckpoint, StatusIInv, StatusTypes, Verified
<1>2. altered = {} => Written /\ Read
  BY DEF StatusIInv, Unaltered
<1>3. altered = {} /\ checkpoint # None =>
        /\ Status!ValidCheckpoint(checkpoint) /\ objects.audit # None
        /\ checkpoint \in Status!Outputs(objects.audit) /\ OfWorker(objects.audit)
  BY <1>2, WorkerCheckpoint DEF Written, StatusIInv, StatusTypes
<1>4. CASE checkpoint = None
  <2>1. PICK r : r = [reader EXCEPT !.at = "result"]
    OBVIOUS
  <2>2. Status!Goto(r)
    BY <1>4, <2>1 DEF Status!ReadCheckpoint
  <2>3. /\ IsRecord(r, ReaderFields) /\ r.at = "result" /\ r.execution = reader.execution
        /\ r.checkpoint = None /\ r.evidence = reader.evidence /\ r.approval = None
    BY <1>1, <2>1 DEF IsRecord, ReaderFields
  <2>4. reader' = r /\ UNCHANGED <<execution, objects, checkpoint, row, release, altered>>
    BY <2>2 DEF Status!Goto, Status!world
  <2>5. Verified'
    BY <2>3, <2>4 DEF Verified
  <2>6. altered = {} => Read'
    <3> SUFFICES ASSUME altered = {} PROVE Read'
      OBVIOUS
    <3>1. /\ reader.execution.status = "SUCCEEDED" =>
               reader.execution = execution /\ checkpoint # None
      BY <1>1, <1>2 DEF Read, Written
    <3> QED
      BY <1>4, <2>3, <2>4, <3>1 DEF Read
  <2> QED
    BY <1>1, <2>2, <2>3, <2>5, <2>6, RequestGoesOn DEF StatusIInv, StatusTypes
<1>5. CASE checkpoint # None /\ Status!ValidCheckpoint(checkpoint)
  <2>1. PICK r : r = [reader EXCEPT !.at = "evidence", !.checkpoint = checkpoint]
    OBVIOUS
  <2>2. Status!Goto(r)
    BY <1>5, <2>1 DEF Status!ReadCheckpoint
  <2>3. /\ IsRecord(r, ReaderFields) /\ r.at = "evidence" /\ r.execution = reader.execution
        /\ r.checkpoint = checkpoint /\ r.evidence = reader.evidence /\ r.approval = None
    BY <1>1, <2>1 DEF IsRecord, ReaderFields
  <2>4. reader' = r /\ UNCHANGED <<execution, objects, checkpoint, row, release, altered>>
    BY <2>2 DEF Status!Goto, Status!world
  <2>5. Verified'
    BY <2>3, <2>4 DEF Verified
  <2>6. altered = {} => Read'
    BY <1>1, <1>2, <1>5, <2>3, <2>4 DEF Read
  <2> QED
    BY <1>1, <2>2, <2>3, <2>5, <2>6, RequestGoesOn DEF StatusIInv, StatusTypes
<1>6. CASE checkpoint # None /\ ~Status!ValidCheckpoint(checkpoint)
  <2>1. PICK a : a = Status!Code(502)
    OBVIOUS
  <2>2. Status!Answer(a)
    BY <1>6, <2>1 DEF Status!ReadCheckpoint
  <2>3. IsRecord(a, AnswerFields) /\ a.code # 200
    BY ONLY <2>1, BadGateway
  <2>4. altered # {}
    BY <1>3, <1>6
  <2> QED
    BY ONLY StatusIInv, <2>2, <2>3, <2>4, AnswerStep
<1> QED
  BY <1>4, <1>5, <1>6

LEMMA ReadEvidenceStep == ASSUME StatusIInv, Status!ReadEvidence PROVE StatusIInv'
<1> DEFINE c == reader.checkpoint
           read == Status!ReadAuditEvidence(c, objects.audit)
<1>1. /\ reader.at = "evidence" /\ reader.approval = None
      /\ view.at # "start" /\ IsRecord(reader, ReaderFields)
  BY Requested DEF Status!ReadEvidence, StatusIInv, StatusTypes, Verified
<1>2. altered = {} => Written /\ Read
  BY DEF StatusIInv, Unaltered
<1>3. altered = {} =>
        /\ c = checkpoint /\ c # None /\ objects.audit # None
        /\ read = IF release = "current" THEN "read" ELSE "retired"
  BY <1>1, <1>2, WorkerCheckpoint DEF Read, Written, StatusIInv, StatusTypes
<1>4. read \in {"read", "retired", "invalid"}
  BY DEF Status!ReadAuditEvidence
<1>5. CASE read = "retired"
  <2>1. PICK a : a = Status!Code(410)
    OBVIOUS
  <2>2. Status!Answer(a)
    BY <1>5, <2>1 DEF Status!ReadEvidence
  <2>3. IsRecord(a, AnswerFields) /\ a.code = 410
    <3>1. a = [Status!NoAnswer EXCEPT !.code = 410]
      BY <2>1 DEF Status!Code
    <3> QED
      BY ONLY <3>1, CodeFields
  <2>4. altered # {} \/ release = "retired"
    BY <1>3, <1>5 DEF StatusIInv, StatusTypes
  <2> QED
    BY ONLY StatusIInv, <2>2, <2>3, <2>4, AnswerStep
<1>6. CASE read = "invalid"
  <2>1. PICK a : a = Status!Code(502)
    OBVIOUS
  <2>2. Status!Answer(a)
    BY <1>6, <2>1 DEF Status!ReadEvidence
  <2>3. IsRecord(a, AnswerFields) /\ a.code # 200
    BY ONLY <2>1, BadGateway
  <2>4. altered # {}
    BY <1>3, <1>6
  <2> QED
    BY ONLY StatusIInv, <2>2, <2>3, <2>4, AnswerStep
<1>7. CASE read = "read"
  <2>1. PICK r : r = [reader EXCEPT !.at = IF c.requiresApproval THEN "approval" ELSE "result",
                                    !.evidence = objects.audit]
    OBVIOUS
  <2>2. Status!Goto(r)
    BY <1>7, <2>1 DEF Status!ReadEvidence
  <2>3. /\ IsRecord(r, ReaderFields) /\ r.execution = reader.execution
        /\ r.at = IF c.requiresApproval THEN "approval" ELSE "result"
        /\ r.checkpoint = c /\ r.evidence = objects.audit /\ r.approval = None
    BY <1>1, <2>1 DEF IsRecord, ReaderFields
  <2>4. reader' = r /\ UNCHANGED <<execution, objects, checkpoint, row, release, altered>>
    BY <2>2 DEF Status!Goto, Status!world
  <2>5. Verified'
    BY <1>7, <2>3, <2>4 DEF Verified
  <2>6. altered = {} => Read'
    <3> SUFFICES ASSUME altered = {} PROVE Read'
      OBVIOUS
    <3>1. release = "current" /\ c = checkpoint /\ c # None
      BY <1>3, <1>7
    <3>2. reader.execution.status = "SUCCEEDED" => reader.execution = execution
      BY <1>1, <1>2 DEF Read
    <3> QED
      BY <2>3, <2>4, <3>1, <3>2 DEF Read
  <2>7. r.at \in {"approval", "result"} /\ (r.evidence # None => r.evidence \in Audits)
    BY <2>3 DEF StatusIInv, StatusTypes
  <2> QED
    BY <1>1, <2>2, <2>3, <2>5, <2>6, <2>7, RequestGoesOn
<1> QED
  BY <1>4, <1>5, <1>6, <1>7

LEMMA ReadApprovalStep == ASSUME StatusIInv, Status!ReadApproval PROVE StatusIInv'
<1> DEFINE c == reader.checkpoint
           e == reader.evidence
<1>1. /\ reader.at = "approval" /\ view.at # "start" /\ IsRecord(reader, ReaderFields)
      /\ c # None => Status!ReadAuditEvidence(c, e) = "read"
  BY Requested DEF Status!ReadApproval, StatusIInv, StatusTypes, Verified
<1>2. altered = {} => Written /\ Read
  BY DEF StatusIInv, Unaltered
<1>3. altered = {} =>
        /\ c = checkpoint /\ c # None /\ c.requiresApproval /\ e = objects.audit
        /\ release = "current"
  BY <1>1, <1>2 DEF Read
<1>4. altered = {} /\ row # None => Status!ValidApproval(row, c, e)
  BY <1>2, <1>3, RowOfAudit, LambdaApproval
<1>5. CASE row = None \/ Status!ValidApproval(row, c, e)
  <2>1. PICK r : r = [reader EXCEPT !.at = "result", !.approval = row]
    OBVIOUS
  <2>2. Status!Goto(r)
    BY <1>5, <2>1 DEF Status!ReadApproval
  <2>3. /\ IsRecord(r, ReaderFields) /\ r.at = "result" /\ r.execution = reader.execution
        /\ r.checkpoint = c /\ r.evidence = e /\ r.approval = row
    BY <1>1, <2>1 DEF IsRecord, ReaderFields
  <2>4. reader' = r /\ UNCHANGED <<execution, objects, checkpoint, row, release, altered>>
    BY <2>2 DEF Status!Goto, Status!world
  <2>5. Verified'
    BY <1>1, <1>5, <2>3, <2>4 DEF Verified
  <2>6. altered = {} => Read'
    <3> SUFFICES ASSUME altered = {} PROVE Read'
      OBVIOUS
    <3>1. reader.execution.status = "SUCCEEDED" => reader.execution = execution
      BY <1>1, <1>2 DEF Read
    <3>2. row # None => OfLambda(row)
      BY <1>2 DEF Written
    <3>3. reader'.approval # None => OfLambda(reader.approval)'
      BY <2>3, <2>4, <3>2 DEF OfLambda
    <3> QED
      BY <1>3, <2>3, <2>4, <3>1, <3>3 DEF Read
  <2>7. /\ r.evidence # None => r.evidence \in Audits
        /\ r.approval # None => IsRow(r.approval)
    BY <2>3 DEF StatusIInv, StatusTypes
  <2> QED
    BY <1>1, <2>2, <2>3, <2>5, <2>6, <2>7, RequestGoesOn
<1>6. CASE row # None /\ ~Status!ValidApproval(row, c, e)
  <2>1. PICK a : a = Status!Code(502)
    OBVIOUS
  <2>2. Status!Answer(a)
    BY <1>6, <2>1 DEF Status!ReadApproval
  <2>3. IsRecord(a, AnswerFields) /\ a.code # 200
    BY ONLY <2>1, BadGateway
  <2>4. altered # {}
    BY <1>4, <1>6
  <2> QED
    BY ONLY StatusIInv, <2>2, <2>3, <2>4, AnswerStep
<1> QED
  BY <1>5, <1>6

\* What the lambda answers, field by field.
LEMMA Answered ==
  ASSUME NEW a, NEW x, NEW result, a = Status!StatusBody(x, result)
  PROVE  /\ IsRecord(a, AnswerFields) /\ a.code = 200
         /\ a.status = Status!PublicStatus(x.status, reader.approval)
         /\ a.evidence = reader.evidence /\ a.approval = reader.approval
         /\ a.result = IF result = "none" THEN None
                       ELSE [outcome |-> result,
                             receipt |-> IF result = "READ_ONLY_COMPLETE" THEN None
                                         ELSE objects.execution.receipt]
<1> DEFINE status == Status!PublicStatus(x.status, reader.approval)
           shown == IF result = "none" THEN None
                    ELSE [outcome |-> result,
                          receipt |-> IF result = "READ_ONLY_COMPLETE" THEN None
                                      ELSE objects.execution.receipt]
<1>1. a = [Status!NoAnswer EXCEPT !.code = 200, !.status = status, !.evidence = reader.evidence,
                                  !.approval = reader.approval, !.result = shown]
  BY DEF Status!StatusBody, Status!NoResult
<1> HIDE DEF status, shown
<1>2. IsRecord(a, AnswerFields)
  BY ONLY <1>1, NoAnswerFields DEF IsRecord
<1>3. /\ IsRecord(a, AnswerFields) /\ a.code = 200 /\ a.status = status
      /\ a.evidence = reader.evidence /\ a.approval = reader.approval /\ a.result = shown
  <2>1. AnswerFields = DOMAIN Status!NoAnswer
    BY ONLY NoAnswerFields DEF IsRecord
  <2>2. {"code", "status", "evidence", "approval", "result"} \subseteq DOMAIN Status!NoAnswer
    BY ONLY <2>1 DEF AnswerFields
  <2>3. /\ a.code = 200 /\ a.status = status /\ a.evidence = reader.evidence
        /\ a.approval = reader.approval /\ a.result = shown
    BY ONLY <1>1, <2>2
  <2> QED
    BY <1>2, <2>3
<1> QED
  BY <1>3 DEF status, shown

\* What the request has read of an execution that nothing altered, when it ends.
LEMMA ReadAtEnd ==
  ASSUME StatusIInv, altered = {}, reader.at = "result"
  PROVE  /\ reader.checkpoint # None =>
              /\ objects.audit # None /\ OfWorker(objects.audit) /\ release = "current"
              /\ reader.evidence = objects.audit
              /\ reader.checkpoint \in Status!Outputs(objects.audit)
         /\ reader.checkpoint # None /\ reader.checkpoint.requiresApproval =>
              objects.audit.remediation.reason = None
         /\ reader.approval # None =>
              /\ reader.checkpoint # None /\ reader.checkpoint.requiresApproval
              /\ OfLambda(reader.approval)
              /\ Status!IsControlLoopApproval(reader.approval)
         /\ reader.execution.status = "SUCCEEDED" =>
              /\ reader.checkpoint # None
              /\ ~reader.checkpoint.requiresApproval => reader.approval = None
              /\ reader.checkpoint.requiresApproval =>
                   /\ reader.approval = row /\ row # None /\ row.status = "DECIDED"
                   /\ objects.execution # None
                   /\ reader.execution.output = Status!RemediationResult(objects.execution)
<1>1. Written /\ Read
  BY DEF StatusIInv, Unaltered
<1>2. reader.checkpoint # None =>
        /\ objects.audit # None /\ OfWorker(objects.audit) /\ release = "current"
        /\ reader.evidence = objects.audit
        /\ reader.checkpoint \in Status!Outputs(objects.audit)
  BY <1>1 DEF Read, Written
<1>3. reader.checkpoint # None /\ reader.checkpoint.requiresApproval =>
        objects.audit.remediation.reason = None
  BY <1>2, WorkerCheckpoint
<1>4. reader.approval # None =>
        /\ reader.checkpoint # None /\ reader.checkpoint.requiresApproval
        /\ OfLambda(reader.approval)
  BY <1>1 DEF Read
<1>5. reader.approval # None => Status!IsControlLoopApproval(reader.approval)
  BY <1>2, <1>3, <1>4, LambdaRow, Status!StatusAssumption
  DEF Status!IsControlLoopApproval, Status!StatusAssumption
<1>6. reader.execution.status = "SUCCEEDED" =>
        /\ reader.execution = execution /\ reader.checkpoint = checkpoint /\ checkpoint # None
        /\ checkpoint.requiresApproval =>
             /\ reader.approval = row /\ objects.execution # None
             /\ execution.output = Status!RemediationResult(objects.execution)
  BY <1>1 DEF Read, Written
<1>7. objects.execution # None => row # None /\ row.status = "DECIDED"
  BY <1>1 DEF Written
<1> QED
  BY <1>2, <1>3, <1>4, <1>5, <1>6, <1>7

\* The result of such an execution is verified.
LEMMA HonestResult ==
  ASSUME StatusIInv, altered = {}, reader.at = "result",
         reader.execution.status = "SUCCEEDED", reader.checkpoint.requiresApproval
  PROVE  LET result == reader.execution.output
             shown == [outcome |-> result.outcome, receipt |-> objects.execution.receipt]
         IN
         /\ reader.approval # None /\ reader.approval.status = "DECIDED"
         /\ Status!ResultVerified(result, objects.execution, reader.checkpoint, reader.approval,
                                  reader.evidence)
         /\ result.outcome = Status!OutcomeOf(reader.approval.decision)
         /\ Status!IsControlLoopResult(shown) /\ shown # None
<1>1. PICK e, r, v, c : e = objects.audit /\ r = row /\ v = objects.execution
                        /\ c = reader.checkpoint
  OBVIOUS
<1>2. /\ e # None /\ OfWorker(e) /\ release = "current" /\ reader.evidence = e
      /\ c \in Status!Outputs(e) /\ e.remediation.reason = None
      /\ reader.approval = r /\ r # None /\ r.status = "DECIDED" /\ OfLambda(r) /\ v # None
      /\ reader.execution.output = Status!RemediationResult(v)
  BY <1>1, ReadAtEnd
<1>3. Written
  BY DEF StatusIInv, Unaltered
<1>4. r.decidedAt \in e.remediation.request.requestedAt .. e.remediation.request.expiresAt
  BY <1>1, <1>2, <1>3 DEF Written
<1>5. PICK at \in Status!Moments :
        r.decidedAt <= at /\ v = Status!ExecutionOf(e, r.decision, r.decidedAt, at)
  BY <1>1, <1>2, <1>3 DEF Written
<1>6. LET result == Status!RemediationResult(v)
          shown == [outcome |-> result.outcome, receipt |-> v.receipt]
      IN
      /\ Status!ResultVerified(result, v, c, r, e) /\ result.outcome = Status!OutcomeOf(r.decision)
      /\ Status!IsControlLoopResult(shown) /\ shown # None
  BY <1>1, <1>2, <1>4, <1>5, WorkerResult
<1> QED
  BY <1>1, <1>2, <1>6

LEMMA ReadResultStep == ASSUME StatusIInv, Status!ReadResult PROVE StatusIInv'
<1>1. PICK x, c, r, e, v : /\ x = reader.execution /\ c = reader.checkpoint
                           /\ r = reader.approval /\ e = reader.evidence /\ v = objects.execution
  OBVIOUS
<1>2. PICK result : result = Status!ResultProjection(x, c, r, e, v)
  OBVIOUS
<1>3. /\ reader.at = "result"
      /\ IF result = "invalid" THEN Status!Answer(Status!Code(502))
         ELSE Status!Answer(Status!StatusBody(x, result))
  BY <1>1, <1>2 DEF Status!ReadResult, Status!Described
<1>4. CASE result = "invalid"
  <2>1. PICK a : a = Status!Code(502)
    OBVIOUS
  <2>2. Status!Answer(a)
    BY <1>3, <1>4, <2>1
  <2>3. IsRecord(a, AnswerFields) /\ a.code # 200
    BY ONLY <2>1, BadGateway
  <2>4. altered # {}
    <3> SUFFICES ASSUME altered = {} PROVE FALSE
      OBVIOUS
    <3>1. x.status = "SUCCEEDED" /\ (c = None \/ c.requiresApproval)
      BY <1>2, <1>4 DEF Status!ResultProjection, Status!NoResult
    <3>2. c # None
      BY <1>1, <1>3, <3>1, ReadAtEnd
    <3>3. /\ r # None /\ r.status = "DECIDED" /\ Status!ResultVerified(x.output, v, c, r, e)
      BY <1>1, <1>3, <3>1, <3>2, HonestResult
    <3>4. x.output.outcome # "invalid"
      BY <3>3 DEF Status!ResultVerified
    <3> QED
      BY <1>2, <1>4, <3>1, <3>2, <3>3, <3>4 DEF Status!ResultProjection
  <2> QED
    BY ONLY StatusIInv, <2>2, <2>3, <2>4, AnswerStep
<1>5. CASE result # "invalid"
  <2>1. PICK a : a = Status!StatusBody(x, result)
    OBVIOUS
  <2>2. Status!Answer(a)
    BY <1>3, <1>5, <2>1
  <2>3. /\ IsRecord(a, AnswerFields) /\ a.code = 200
        /\ a.status = Status!PublicStatus(x.status, r)
        /\ a.evidence = e /\ a.approval = r
        /\ a.result = IF result = "none" THEN None
                      ELSE [outcome |-> result,
                            receipt |-> IF result = "READ_ONLY_COMPLETE" THEN None ELSE v.receipt]
    BY <1>1, <2>1, Answered
  <2>4. a.status = "SUCCEEDED" <=> x.status = "SUCCEEDED"
    BY <2>3 DEF Status!PublicStatus
  <2>5. altered = {} => Status!ParseControlLoopStatus(a)
    <3> SUFFICES ASSUME altered = {} PROVE Status!ParseControlLoopStatus(a)
      OBVIOUS
    <3>1. r # None => Status!IsControlLoopApproval(r)
      BY <1>1, <1>3, ReadAtEnd
    <3>2. CASE x.status # "SUCCEEDED"
      <4>1. result = "none"
        BY <1>2, <3>2 DEF Status!ResultProjection, Status!NoResult
      <4> QED
        BY <2>3, <2>4, <3>1, <3>2, <4>1 DEF Status!ParseControlLoopStatus
    <3>3. CASE x.status = "SUCCEEDED" /\ ~c.requiresApproval
      <4>1. c # None /\ r = None
        BY <1>1, <1>3, <3>3, ReadAtEnd
      <4>2. result = "READ_ONLY_COMPLETE"
        BY <1>2, <3>3, <4>1 DEF Status!ResultProjection
      <4>3. a.result = [outcome |-> "READ_ONLY_COMPLETE", receipt |-> None]
        BY <2>3, <4>2
      <4>4. a.result # None /\ a.result.outcome = "READ_ONLY_COMPLETE"
        BY <4>3, Status!StatusAssumption DEF Status!StatusAssumption
      <4> QED
        BY <2>3, <2>4, <3>3, <4>1, <4>4
        DEF Status!ParseControlLoopStatus, Status!IsControlLoopResult
    <3>4. CASE x.status = "SUCCEEDED" /\ c.requiresApproval
      <4>1. /\ r # None /\ r.status = "DECIDED" /\ Status!ResultVerified(x.output, v, c, r, e)
            /\ x.output.outcome = Status!OutcomeOf(r.decision)
            /\ Status!IsControlLoopResult([outcome |-> x.output.outcome, receipt |-> v.receipt])
            /\ [outcome |-> x.output.outcome, receipt |-> v.receipt] # None
        BY <1>1, <1>3, <3>4, HonestResult
      <4>2. c # None
        BY <1>1, <1>3, <3>4, ReadAtEnd
      <4>3. result = x.output.outcome
        BY <1>2, <3>4, <4>1, <4>2 DEF Status!ResultProjection
      <4>4. result \in {"VERIFIED", "REJECTED"}
        BY <4>1, <4>3 DEF Status!ResultVerified
      <4>5. a.result = [outcome |-> x.output.outcome, receipt |-> v.receipt]
        BY <2>3, <4>3, <4>4
      <4>6. /\ a.result # None /\ Status!IsControlLoopResult(a.result)
            /\ a.result.outcome = Status!OutcomeOf(r.decision)
        BY <4>1, <4>5
      <4>7. a.result.outcome # "READ_ONLY_COMPLETE"
        BY <4>6 DEF Status!OutcomeOf
      <4>8. a.approval = r /\ a.status = "SUCCEEDED"
        BY <2>3, <2>4, <3>4
      <4> QED
        BY ONLY <3>1, <4>1, <4>6, <4>7, <4>8 DEF Status!ParseControlLoopStatus
    <3> QED
      BY <3>2, <3>3, <3>4
  <2>6. ASSUME a.status = "SUCCEEDED", a.result.outcome # "READ_ONLY_COMPLETE"
        PROVE  Earned(a)
    <3>1. x.status = "SUCCEEDED"
      BY <2>4, <2>6
    <3>2. result # "none"
      BY <1>2, <3>1, <1>5 DEF Status!ResultProjection, Status!NoResult, Status!ResultVerified
    <3>3. a.result.outcome = result /\ result # "READ_ONLY_COMPLETE" /\ a.result.receipt = v.receipt
      BY <2>3, <2>6, <3>2
    <3>4. /\ c # None /\ c.requiresApproval /\ r # None /\ r.status = "DECIDED"
          /\ Status!ResultVerified(x.output, v, c, r, e)
      BY <1>2, <1>5, <3>1, <3>3 DEF Status!ResultProjection
    <3>5. /\ Status!ReadAuditEvidence(c, e) = "read" /\ Status!ValidApproval(r, c, e)
      BY <1>1, <1>3, <3>4 DEF StatusIInv, Verified
    <3>6. v # None /\ e # None
      BY <3>4, <3>5 DEF Status!ResultVerified, Status!ReadAuditEvidence
    <3>7. e \in Audits /\ IsRow(r) /\ IsExecution(v)
      BY <1>1, <3>4, <3>6 DEF StatusIInv, StatusTypes
    <3>8. LET decision == Status!CreateApprovalDecision(e.remediation.request, r.decision,
                                                        r.proof.approver, r.decidedAt)
          IN /\ Status!OneAudit(e) /\ e.executionId = "this" /\ decision # None
             /\ v.receipt =
                  Status!CreateExecutionReceipt("this", e.remediation, decision,
                    Status!OutcomeOf(r.decision), v.receipt.startedAt, v.receipt.completedAt)
      BY <3>4, <3>5, <3>7, VerifiedIsEarned
    <3> QED
      BY <2>3, <3>3, <3>8 DEF Earned
  <2> QED
    BY ONLY StatusIInv, <2>2, <2>3, <2>5, <2>6, AnswerStep
<1> QED
  BY <1>4, <1>5

\* Every step of the status keeps it.
LEMMA StatusStepKeeps == ASSUME StatusIInv, StatusNext, part = "status" PROVE StatusIInv'
<1>1. CASE Status!Tick
  BY <1>1, TickStep
<1>2. CASE Status!StoreEvidence
  BY <1>2, StoreEvidenceStep
<1>3. CASE Status!PutCheckpoint
  BY <1>3, PutCheckpointStep
<1>4. CASE Status!Handoff
  BY <1>4, HandoffStep
<1>5. CASE Status!Decide
  BY <1>5, DecideStep
<1>6. CASE Status!TimeToLive
  BY <1>6, TimeToLiveStep
<1>7. CASE Status!Remediate
  BY <1>7, RemediateStep
<1>8. CASE Status!Succeed
  BY <1>8, SucceedStep
<1>9. CASE Status!EndOtherwise
  BY <1>9, EndOtherwiseStep
<1>10. CASE Status!Alter("audit", Status!AlterAudit)
  BY <1>10, AlterAuditStep
<1>11. CASE Status!Alter("row", Status!AlterRow)
  BY <1>11, AlterRowStep
<1>12. CASE Status!Alter("execution", Status!AlterExecution)
  BY <1>12, AlterExecutionStep
<1>13. CASE Status!StartControlLoop
  BY <1>13, StartStep
<1>14. CASE Status!Describe
  BY <1>14, DescribeStep
<1>15. CASE Status!ReadCheckpoint
  BY <1>15, ReadCheckpointStep
<1>16. CASE Status!ReadEvidence
  BY <1>16, ReadEvidenceStep
<1>17. CASE Status!ReadApproval
  BY <1>17, ReadApprovalStep
<1>18. CASE Status!ReadResult
  BY <1>18, ReadResultStep
<1>19. CASE Status!Faulty
  BY <1>19, FaultyStep
<1>20. CASE UNCHANGED statusVars
  BY <1>20
  DEF statusVars, StatusIInv, StatusTypes, Verified, Unaltered, Unstarted, Written, Read, OfWorker,
      OfLambda, IsRow, Status!Outputs, Status!ShownIsEarned, Status!HonestIsShown
<1> QED
  BY <1>1, <1>2, <1>3, <1>4, <1>5, <1>6, <1>7, <1>8, <1>9, <1>10, <1>11, <1>12, <1>13, <1>14, <1>15,
     <1>16, <1>17, <1>18, <1>19, <1>20 DEF StatusNext, StatusStep, allVars

\* The status in the composition.
LEMMA ComposedStatus ==
  [MCNext]_allVars =>
    part' = part /\ IF part = "status" THEN StatusNext \/ UNCHANGED allVars ELSE UNCHANGED statusVars
BY DEF MCNext, allVars, AgentNext, AgentStep, WorkersNext, WorkersStep, StatusNext, StatusStep

StatusSafe ==
  IF part = "status" THEN StatusIInv ELSE view.at = "start" /\ view.answer.code = 0

LEMMA StatusInvariant == MCSpec => []StatusSafe
<1>1. MCInit => StatusSafe
  <2>1. StatusIdle => view.at = "start" /\ view.answer.code = 0
    BY DEF StatusIdle, Status!NoAnswer
  <2> QED
    BY <2>1, StatusBegins DEF MCInit, StatusSafe
<1>2. StatusSafe /\ [MCNext]_allVars => StatusSafe'
  <2> SUFFICES ASSUME StatusSafe, [MCNext]_allVars PROVE StatusSafe'
    OBVIOUS
  <2>1. part' = part /\ IF part = "status" THEN StatusNext \/ UNCHANGED allVars
                        ELSE UNCHANGED statusVars
    BY ComposedStatus
  <2>2. CASE part = "status"
    <3>1. StatusNext \/ UNCHANGED allVars => StatusNext
      BY <2>2 DEF StatusNext
    <3> QED
      BY <2>1, <2>2, <3>1, StatusStepKeeps DEF StatusSafe
  <2>3. CASE part # "status"
    BY <2>1, <2>3 DEF StatusSafe, statusVars
  <2> QED
    BY <2>2, <2>3
<1> QED
  BY <1>1, <1>2, PTL DEF MCSpec

\* However the requests of a status interleave with the services, only a failed request,
\* an alteration or the audit of a retired release makes it unreadable (AuditStatus,
\* index.js, parseControlLoopStatus).
THEOREM HonestStatusIsShown == MCSpec => []HonestIsShown
<1>1. StatusSafe => HonestIsShown
  BY DEF StatusSafe, StatusIInv, HonestIsShown, Status!HonestIsShown
<1> QED
  BY <1>1, StatusInvariant, PTL

\* What the page shows as the result is the receipt that the worker makes of the audit and
\* the decision shown with it, whatever was altered of what is stored (AuditStatus,
\* verifyExecutionEvidence).
THEOREM ShownResultIsEarned == MCSpec => []ShownIsEarned
<1>1. StatusSafe => ShownIsEarned
  BY DEF StatusSafe, StatusIInv, ShownIsEarned, Status!ShownIsEarned
<1> QED
  BY <1>1, StatusInvariant, PTL

-----------------------------------------------------------------------------
(* The audit loop *)

\* What one audit adds to the findings.
Batch ==
  [tool : Agent!Audits, at : Catalogs,
   found : {Contradictions[c] : c \in Catalogs} \cup {Violations[c] : c \in Catalogs}]

\* An audit of the report is among the findings, as it was found.
InFindings(tool) ==
  \E i \in DOMAIN findings :
    findings[i].tool = tool /\ findings[i].found = Agent!Found(tool, findings[i].at)

Harvested == \E j \in DOMAIN trace : trace[j] = "harvest"

\* Behind every audit there is a harvest, and behind every harvest its trace.
LoopIInv ==
  /\ catalog \in Catalogs
  /\ snapshot # "none" => snapshot \in Catalogs /\ Harvested
  /\ audited \subseteq Agent!Audits
  /\ audited # {} => Harvested
  /\ findings \in Seq(Batch)
  /\ trace \in Seq(Agent!Reads)
  /\ \A tool \in audited : InFindings(tool)

\* An element that is appended is there, beside all the others.
LEMMA Appended ==
  ASSUME NEW S, NEW seq \in Seq(S), NEW elt \in S, NEW longer, longer = Append(seq, elt)
  PROVE  /\ longer \in Seq(S)
         /\ \A i \in DOMAIN seq : i \in DOMAIN longer /\ longer[i] = seq[i]
         /\ \E i \in DOMAIN longer : longer[i] = elt
<1>1. /\ longer \in Seq(S) /\ Len(longer) = Len(seq) + 1
      /\ \A i \in 1 .. Len(seq) : longer[i] = seq[i]
      /\ longer[Len(seq) + 1] = elt
  BY AppendProperties
<1>2. DOMAIN seq = 1 .. Len(seq) /\ DOMAIN longer = 1 .. Len(longer) /\ Len(seq) \in Nat
  BY <1>1
<1>3. QED
  BY <1>1, <1>2

\* A read-only tool: the audit that is done is the one that is appended.
LEMMA ReadStep ==
  ASSUME LoopIInv, NEW tool \in Agent!Reads, Agent!Read(tool)
  PROVE  LoopIInv'
<1>1. trace' = Append(trace, tool) /\ catalog' = catalog
  BY DEF Agent!Read
<1>2. /\ trace' \in Seq(Agent!Reads)
      /\ \A j \in DOMAIN trace : j \in DOMAIN trace' /\ trace'[j] = trace[j]
      /\ \E j \in DOMAIN trace' : trace'[j] = tool
  BY <1>1, Appended DEF LoopIInv
<1>3. (Harvested => Harvested') /\ (tool = "harvest" => Harvested')
  BY <1>2 DEF Harvested
<1>4. CASE tool = "harvest" /\ snapshot' = catalog /\ UNCHANGED <<audited, findings>>
  BY <1>1, <1>2, <1>3, <1>4 DEF LoopIInv, InFindings
<1>5. CASE /\ tool \in Agent!Audits /\ snapshot # "none"
           /\ findings' = Append(findings, [tool |-> tool, at |-> snapshot,
                                            found |-> Agent!Found(tool, snapshot)])
           /\ audited' = audited \cup {tool} /\ UNCHANGED snapshot
  <2>1. PICK found : found = Agent!Found(tool, snapshot)
    OBVIOUS
  <2>2. snapshot \in Catalogs /\ Harvested
    BY <1>5 DEF LoopIInv
  <2>3. found \in {Contradictions[c] : c \in Catalogs} \cup {Violations[c] : c \in Catalogs}
    BY <2>1, <2>2 DEF Agent!Found
  <2>4. PICK batch : batch = [tool |-> tool, at |-> snapshot, found |-> found]
    OBVIOUS
  <2>5. batch \in Batch /\ batch.tool = tool /\ batch.found = Agent!Found(tool, batch.at)
    BY <1>5, <2>1, <2>2, <2>3, <2>4 DEF Batch
  <2>6. findings' = Append(findings, batch)
    BY <1>5, <2>1, <2>4
  <2>7. /\ findings' \in Seq(Batch)
        /\ \A i \in DOMAIN findings : i \in DOMAIN findings' /\ findings'[i] = findings[i]
        /\ \E i \in DOMAIN findings' : findings'[i] = batch
    BY <2>5, <2>6, Appended DEF LoopIInv
  <2>8. ASSUME NEW done \in audited' PROVE InFindings(done)'
    <3>1. CASE done = tool
      BY <2>5, <2>7, <3>1 DEF InFindings, Agent!Found
    <3>2. CASE done \in audited
      <4>1. PICK i \in DOMAIN findings :
              findings[i].tool = done /\ findings[i].found = Agent!Found(done, findings[i].at)
        BY <3>2 DEF LoopIInv, InFindings
      <4>2. i \in DOMAIN findings' /\ findings'[i] = findings[i]
        BY <2>7
      <4> QED
        BY <4>1, <4>2 DEF InFindings, Agent!Found
    <3> QED
      BY <1>5, <3>1, <3>2
  <2> QED
    BY <1>1, <1>2, <1>3, <1>5, <2>2, <2>7, <2>8 DEF LoopIInv
<1>6. CASE tool \in Agent!Audits /\ UNCHANGED <<snapshot, audited, findings>>
  BY <1>1, <1>2, <1>3, <1>6 DEF LoopIInv, InFindings
<1>7. QED
  BY <1>4, <1>5, <1>6 DEF Agent!Read, Agent!Execute

\* No other step touches what the report has.
LEMMA LoopKeeps ==
  ASSUME LoopIInv, UNCHANGED <<snapshot, audited, findings, trace>>, catalog' \in Catalogs
  PROVE  LoopIInv'
BY DEF LoopIInv, Harvested, InFindings

\* The loop in the composition.
LEMMA LoopInvariant == MCSpec => []LoopIInv
<1>1. MCInit => LoopIInv
  <2> SUFFICES ASSUME MCInit PROVE LoopIInv
    OBVIOUS
  <2>1. catalog \in Catalogs /\ snapshot = "none" /\ audited = {} /\ findings = <<>> /\ trace = <<>>
    BY DEF MCInit, Agent!Init
  <2>2. <<>> \in Seq(Batch) /\ <<>> \in Seq(Agent!Reads)
    OBVIOUS
  <2> QED
    BY <2>1, <2>2 DEF LoopIInv
<1>2. LoopIInv /\ [MCNext]_allVars => LoopIInv'
  <2> SUFFICES ASSUME LoopIInv, [MCNext]_allVars PROVE LoopIInv'
    OBVIOUS
  <2>1. catalog \in Catalogs
    BY DEF LoopIInv
  <2>2. CASE UNCHANGED agentVars
    BY <2>1, <2>2, LoopKeeps DEF agentVars
  <2>3. CASE AgentNext
    <3>1. CASE \E tool \in Agent!Reads : Agent!Read(tool)
      BY <3>1, ReadStep
    <3>2. CASE Agent!Unusable \/ Agent!Emit \/ Agent!Escalate \/ Agent!Throw
      BY <2>1, <3>2, LoopKeeps DEF Agent!Unusable, Agent!Emit, Agent!Escalate, Agent!Throw
    <3>3. CASE Agent!CatalogChange
      BY <3>3, LoopKeeps DEF Agent!CatalogChange
    <3> QED
      BY <2>2, <2>3, <3>1, <3>2, <3>3 DEF AgentNext, AgentStep, allVars
  <2> QED
    BY <2>2, <2>3 DEF MCNext, allVars, WorkersNext, WorkersStep, StatusNext, StatusStep
<1>3. QED
  BY <1>1, <1>2, PTL DEF MCSpec

\* Every audit that the report of a loop counts as done is in it in full, for a catalog that
\* this run harvested, whatever the model answers and however the catalog changes between
\* the reads (AuditLoop.execute).
THEOREM DoneAuditsAreReported == MCSpec => []DoneIsReported
<1>1. LoopIInv => DoneIsReported
  BY DEF LoopIInv, Harvested, InFindings, DoneIsReported, Agent!DoneIsReported
<1>2. QED
  BY <1>1, LoopInvariant, PTL
=============================================================================
