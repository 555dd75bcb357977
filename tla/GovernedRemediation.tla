------------------------- MODULE GovernedRemediation -------------------------
(***************************************************************************)
(* The governed write path of the remediation worker: several workers take *)
(* deliveries of approved executions, claim them in the DynamoDB execution *)
(* journal under a fenced lease, and run executeApprovedRemediation against *)
(* one DataHub target whose tags other writers may change at any time.     *)
(*                                                                         *)
(* Every request to DynamoDB, DataHub or S3 is one step, so the steps of   *)
(* the workers interleave between any two awaits of the code.  A delivery  *)
(* of the queue is at least once: any idle worker may be handed any        *)
(* execution at any time (the queue is modelled in CallbackQueue).         *)
(***************************************************************************)
EXTENDS Naturals, FiniteSets

CONSTANTS
  Workers,      \* remediation worker processes
  Keys,         \* idempotency keys: one per (execution, approval, decision)
  Approvals,    \* approval requests
  NoKey,        \* "no key": the approval item does not exist
  ApprovalOf,   \* the approval a key was derived from
  Approved,     \* the keys whose decision is APPROVE (the others REJECT)
  ExpiresAt,    \* expiry instant of each approval request
  LeaseTime,    \* EXECUTION_LEASE_SECONDS, in clock units
  MaxClock,     \* bound: the clock stops here
  Tags,         \* tags the target can carry
  BeforeTags,   \* plan.expectedBefore
  PolicyTag,    \* the tag the plan adds
  MaxExternal   \* bound: changes made to the target by other writers

ASSUME KeysAssumption ==
  /\ NoKey \notin Keys
  /\ ApprovalOf \in [Keys -> Approvals]
  /\ Approved \subseteq Keys
ASSUME TimeAssumption ==
  /\ ExpiresAt \in [Approvals -> Nat]
  /\ LeaseTime \in Nat \ {0}
  /\ MaxClock \in Nat
ASSUME TargetAssumption ==
  /\ BeforeTags \subseteq Tags
  /\ PolicyTag \in Tags \ BeforeTags
  /\ MaxExternal \in Nat

VARIABLES
  clock,     \* wall-clock time, shared by the workers
  journal,   \* the EXECUTION#<key> items
  consumed,  \* the APPROVAL_EXECUTION#<approval> items: which key owns it
  tags,      \* the target's tags in DataHub
  sent,      \* add_tags requests that left a worker
  applied,   \* those that DataHub has carried out
  evidence,  \* execution evidence stored in S3, one receipt per object
  pc,        \* what each worker awaits
  job,       \* each worker's locals
  external   \* number of changes by other writers so far

world == <<tags, sent, applied, evidence, external>>
items == <<journal, consumed>>
vars == <<clock, journal, consumed, tags, sent, applied, evidence, pc, job,
          external>>

-----------------------------------------------------------------------------
(* Values *)

AfterTags == BeforeTags \cup {PolicyTag}

Outcomes == {"REJECTED", "EXPIRED", "STALE", "INDETERMINATE", "VERIFIED",
             "VERIFICATION_FAILED"}

\* The receipts of the journal.  "token" names the attempt that wrote it: the
\* code stores it beside the receipt, in the journal item.
Receipt == [outcome : Outcomes, token : Nat]
NoReceipt == [outcome |-> "NONE", token |-> 0]

\* A journal item: exactly the completed ones hold a receipt.
Entry ==
  {e \in [status : {"ABSENT", "IN_PROGRESS", "RECONCILING", "COMPLETED"},
          token : Nat, lease : Nat, receipt : Receipt \cup {NoReceipt}] :
     e.status = "COMPLETED" <=> e.receipt \in Receipt}
Absent == [status |-> "ABSENT", token |-> 0, lease |-> 0,
           receipt |-> NoReceipt]
Held == {"IN_PROGRESS", "RECONCILING"}

\* One try at an execution: the key, the fencing token it was claimed with and
\* the instant the worker started it.
Attempt == [key : Keys, token : Nat, started : Nat]

Job == [key : Keys \cup {NoKey}, started : Nat, token : Nat,
        exec : Entry, owner : Keys \cup {NoKey}, pending : SUBSET {"exec", "owner"},
        classified : BOOLEAN, receipt : Receipt \cup {NoReceipt}]
NoJob == [key |-> NoKey, started |-> 0, token |-> 0, exec |-> Absent,
          owner |-> NoKey, pending |-> {}, classified |-> TRUE,
          receipt |-> NoReceipt]

\* The awaits at which a worker owns a claim, in the order of the code.
Owning == {"reconcile", "resume", "decide", "freshRead", "send", "sending",
           "readAfter", "complete"}
PCs == {"idle", "claim", "classify", "takeover", "publish"} \cup Owning

AttemptOf(w) == [key |-> job[w].key, token |-> job[w].token,
                 started |-> job[w].started]

TypeOK ==
  /\ clock \in Nat
  /\ journal \in [Keys -> Entry]
  /\ consumed \in [Approvals -> Keys \cup {NoKey}]
  /\ tags \subseteq Tags
  /\ sent \subseteq Attempt
  /\ applied \subseteq sent
  /\ evidence \in [Keys -> SUBSET Receipt]
  /\ pc \in [Workers -> PCs]
  /\ job \in [Workers -> Job]
  /\ \A w \in Workers :
       /\ pc[w] # "idle" => job[w].key \in Keys
       /\ pc[w] = "takeover" => job[w].exec.status \in Held
       /\ pc[w] \in {"complete", "publish"} => job[w].receipt \in Receipt
  /\ external \in Nat

Init ==
  /\ clock = 0
  /\ journal = [k \in Keys |-> Absent]
  /\ consumed = [a \in Approvals |-> NoKey]
  /\ tags = BeforeTags
  /\ sent = {}
  /\ applied = {}
  /\ evidence = [k \in Keys |-> {}]
  /\ pc = [w \in Workers |-> "idle"]
  /\ job = [w \in Workers |-> NoJob]
  /\ external = 0

-----------------------------------------------------------------------------
(* Claiming *)

\* The worker leaves the delivery: it is free for another one.
Leave(w) ==
  /\ pc' = [pc EXCEPT ![w] = "idle"]
  /\ job' = [job EXCEPT ![w] = NoJob]

\* The worker goes on to await something else, with the same locals.
Goto(w, next) == pc' = [pc EXCEPT ![w] = next] /\ UNCHANGED job

\* The receipt the worker will try to store, with the fencing token it holds.
Conclude(w, outcome) ==
  /\ pc' = [pc EXCEPT ![w] = "complete"]
  /\ job' = [job EXCEPT ![w].receipt =
                [outcome |-> outcome, token |-> job[w].token]]

\* A delivery reaches an idle worker.  startedAt is read from the clock once;
\* the journal reads the same instant before its first request.
Deliver(w, k) ==
  /\ pc[w] = "idle"
  /\ pc' = [pc EXCEPT ![w] = "claim"]
  /\ job' = [job EXCEPT ![w] = [NoJob EXCEPT !.key = k, !.started = clock]]
  /\ UNCHANGED <<clock, items, world>>

\* Mutant: only the execution item is conditional.
UnclaimedKeyOnly(k) == journal[k].status = "ABSENT"

Unclaimed(k) == journal[k].status = "ABSENT" /\ consumed[ApprovalOf[k]] = NoKey

\* TransactWriteItems puts both items, if neither exists.
ClaimFirst(w) ==
  LET k == job[w].key IN
  /\ pc[w] = "claim"
  /\ Unclaimed(k)
  /\ journal' = [journal EXCEPT ![k] =
        [status |-> "IN_PROGRESS", token |-> 1,
         lease |-> job[w].started + LeaseTime, receipt |-> NoReceipt]]
  /\ consumed' = [consumed EXCEPT ![ApprovalOf[k]] = k]
  /\ pc' = [pc EXCEPT ![w] = "decide"]
  /\ job' = [job EXCEPT ![w].token = 1]
  /\ UNCHANGED <<clock, world>>

\* The transaction is cancelled: by its conditions, or with no reason given, in
\* which case both items may still be absent.  Both items are then read again.
ClaimCancelled(w) ==
  /\ pc[w] = "claim"
  /\ \E known \in BOOLEAN :
       /\ known => ~Unclaimed(job[w].key)
       /\ pc' = [pc EXCEPT ![w] = "classify"]
       /\ job' = [job EXCEPT ![w].pending = {"exec", "owner"},
                             ![w].classified = known]
  /\ UNCHANGED <<clock, items, world>>

\* Promise.all sends two consistent reads, answered in either order.
ReadExecution(w) ==
  /\ pc[w] = "classify"
  /\ "exec" \in job[w].pending
  /\ job' = [job EXCEPT ![w].exec = journal[job[w].key],
                        ![w].pending = job[w].pending \ {"exec"}]
  /\ UNCHANGED <<clock, items, world, pc>>

ReadApproval(w) ==
  /\ pc[w] = "classify"
  /\ "owner" \in job[w].pending
  /\ job' = [job EXCEPT ![w].owner = consumed[ApprovalOf[job[w].key]],
                        ![w].pending = job[w].pending \ {"owner"}]
  /\ UNCHANGED <<clock, items, world, pc>>

\* Both items name this execution and this approval.
SameBinding(w) ==
  /\ job[w].exec.status # "ABSENT"
  /\ job[w].owner = job[w].key

\* What the two reads said, against the instant the claim began with:
\* someone else's approval, nothing at all and a live lease end the delivery
\* with an error; a lease that has run out may be taken over; a stored receipt
\* is the result.
Classify(w) ==
  /\ pc[w] = "classify"
  /\ job[w].pending = {}
  /\ \/ /\ ~SameBinding(w)
        /\ Leave(w)
     \/ /\ SameBinding(w)
        /\ job[w].exec.status \in Held
        /\ job[w].exec.lease > job[w].started
        /\ Leave(w)
     \/ /\ SameBinding(w)
        /\ job[w].exec.status \in Held
        /\ job[w].exec.lease <= job[w].started
        /\ Goto(w, "takeover")
     \/ /\ SameBinding(w)
        /\ job[w].exec.status = "COMPLETED"
        /\ pc' = [pc EXCEPT ![w] = "publish"]
        /\ job' = [job EXCEPT ![w].receipt = job[w].exec.receipt]
  /\ UNCHANGED <<clock, items, world>>

\* The item is still the one the worker read: status, lease and fencing token.
Unmoved(w) ==
  LET e == journal[job[w].key] IN
  /\ e.status = job[w].exec.status
  /\ e.lease = job[w].exec.lease
  /\ e.token = job[w].exec.token

\* The new lease counts from the instant the claim began with.
TakeOver(w) ==
  LET k == job[w].key
      next == job[w].exec.token + 1 IN
  /\ pc[w] = "takeover"
  /\ \/ /\ Unmoved(w)
        /\ journal' = [journal EXCEPT
              ![k].status = "RECONCILING", ![k].token = next,
              ![k].lease = job[w].started + LeaseTime]
        /\ pc' = [pc EXCEPT ![w] = "reconcile"]
        /\ job' = [job EXCEPT ![w].token = next]
     \/ ~Unmoved(w) /\ Leave(w) /\ UNCHANGED journal
  /\ UNCHANGED <<clock, consumed, world>>

-----------------------------------------------------------------------------
(* Reconciling an execution whose owner went silent *)

\* The approved pre-state lets the worker go on; a read error and any other
\* state close the execution as INDETERMINATE.
ReconcileRead(w) ==
  /\ pc[w] = "reconcile"
  /\ \/ tags = BeforeTags /\ Goto(w, "resume")
     \/ Conclude(w, "INDETERMINATE") \* the read failed, or the tags differ
  /\ UNCHANGED <<clock, items, world>>

Resumable(w) ==
  LET e == journal[job[w].key] IN
  /\ e.status = "RECONCILING"
  /\ e.lease >= clock
  /\ e.token = job[w].token

Resume(w) ==
  LET k == job[w].key IN
  /\ pc[w] = "resume"
  /\ \/ /\ Resumable(w)
        /\ journal' = [journal EXCEPT ![k].status = "IN_PROGRESS",
                                      ![k].lease = clock + LeaseTime]
        /\ Goto(w, "decide")
     \/ ~Resumable(w) /\ Leave(w) /\ UNCHANGED journal
  /\ UNCHANGED <<clock, consumed, world>>

-----------------------------------------------------------------------------
(* Executing *)

\* Mutant: a recovered execution is not checked again.
InWindowOnce(w) ==
  job[w].token > 1 \/ job[w].started <= ExpiresAt[ApprovalOf[job[w].key]]

InWindow(w) == job[w].started <= ExpiresAt[ApprovalOf[job[w].key]]

\* Expiry is judged by the instant the worker started, not by the time now.
Decide(w) ==
  /\ pc[w] = "decide"
  /\ \/ job[w].key \notin Approved /\ Conclude(w, "REJECTED")
     \/ job[w].key \in Approved /\ ~InWindow(w) /\ Conclude(w, "EXPIRED")
     \/ job[w].key \in Approved /\ InWindow(w) /\ Goto(w, "freshRead")
  /\ UNCHANGED <<clock, items, world>>

FreshRead(w) ==
  /\ pc[w] = "freshRead"
  /\ \/ tags = BeforeTags /\ Goto(w, "send")
     \/ Conclude(w, "STALE")         \* the read failed, or the tags differ
  /\ UNCHANGED <<clock, items, world>>

\* addTags first renews the callback lease; when that fails nothing is sent,
\* but the caller cannot tell and closes the execution as INDETERMINATE.
Send(w) ==
  /\ pc[w] = "send"
  /\ \/ sent' = sent \cup {AttemptOf(w)} /\ Goto(w, "sending")
     \/ Conclude(w, "INDETERMINATE") /\ UNCHANGED sent
  /\ UNCHANGED <<clock, items, tags, applied, evidence, external>>

\* Mutant: a failed request is tried again.
AnswerRetried(w) ==
  /\ pc[w] = "sending"
  /\ \/ AttemptOf(w) \in applied /\ Goto(w, "readAfter")
     \/ Goto(w, "freshRead")
  /\ UNCHANGED <<clock, items, world>>

\* The answer arrives after DataHub did the write; any error, abort or timeout
\* leaves the outcome unknown, whether the write happens or not.
Answer(w) ==
  /\ pc[w] = "sending"
  /\ \/ AttemptOf(w) \in applied /\ Goto(w, "readAfter")
     \/ Conclude(w, "INDETERMINATE")
  /\ UNCHANGED <<clock, items, world>>

\* verifyPostcondition: the exact after-state, for an acknowledged request.
ReadAfter(w) ==
  /\ pc[w] = "readAfter"
  /\ \/ tags = AfterTags /\ Conclude(w, "VERIFIED")
     \/ tags # AfterTags /\ Conclude(w, "VERIFICATION_FAILED")
     \/ Conclude(w, "INDETERMINATE") \* the read failed
  /\ UNCHANGED <<clock, items, world>>

\* Mutant: any claim may be closed by any owner.
CompletableByAnyone(w) == journal[job[w].key].status \in Held

\* The token still owns the claim.  The lease is not looked at.
Completable(w) ==
  LET e == journal[job[w].key] IN
  /\ e.status \in Held
  /\ e.token = job[w].token

Complete(w) ==
  LET k == job[w].key IN
  /\ pc[w] = "complete"
  /\ \/ /\ Completable(w)
        /\ journal' = [journal EXCEPT
              ![k].status = "COMPLETED", ![k].lease = 0,
              ![k].receipt = job[w].receipt]
        /\ Goto(w, "publish")
     \/ ~Completable(w) /\ Leave(w) /\ UNCHANGED journal
  /\ UNCHANGED <<clock, consumed, world>>

\* The evidence object embeds the receipt; then the delivery has its output.
Publish(w) ==
  /\ pc[w] = "publish"
  /\ evidence' = [evidence EXCEPT ![job[w].key] =
                     evidence[job[w].key] \cup {job[w].receipt}]
  /\ Leave(w)
  /\ UNCHANGED <<clock, items, tags, sent, applied, external>>

\* The process dies, or a request throws a transient error.  The request it
\* was awaiting may have been carried out: then its own step came first, and
\* only the response is lost.
Abandon(w) ==
  /\ pc[w] # "idle"
  /\ Leave(w)
  /\ UNCHANGED <<clock, items, world>>

-----------------------------------------------------------------------------
(* The environment *)

\* DataHub carries out a request that was sent, at any time later or never.
Apply(at) ==
  /\ at \in sent \ applied
  /\ tags' = tags \cup {PolicyTag}
  /\ applied' = applied \cup {at}
  /\ UNCHANGED <<clock, items, sent, evidence, pc, job, external>>

\* Another writer adds or removes a tag of the target.
ExternalWrite(t) ==
  /\ external < MaxExternal
  /\ external' = external + 1
  /\ tags' = IF t \in tags THEN tags \ {t} ELSE tags \cup {t}
  /\ UNCHANGED <<clock, items, sent, applied, evidence, pc, job>>

Tick ==
  /\ clock < MaxClock
  /\ clock' = clock + 1
  /\ UNCHANGED <<items, world, pc, job>>

-----------------------------------------------------------------------------

\* What a worker does by itself once it has a delivery.
Work(w) ==
  \/ ClaimFirst(w) \/ ClaimCancelled(w)
  \/ ReadExecution(w) \/ ReadApproval(w) \/ Classify(w)
  \/ TakeOver(w) \/ ReconcileRead(w) \/ Resume(w)
  \/ Decide(w) \/ FreshRead(w) \/ Send(w) \/ Answer(w) \/ ReadAfter(w)
  \/ Complete(w) \/ Publish(w)

Next ==
  \/ \E w \in Workers, k \in Keys : Deliver(w, k)
  \/ \E w \in Workers : Work(w) \/ Abandon(w)
  \/ \E at \in sent : Apply(at)
  \/ \E t \in Tags : ExternalWrite(t)
  \/ Tick

Spec == Init /\ [][Next]_vars

-----------------------------------------------------------------------------
(* Properties *)

Fenced(w) ==
  LET k == job[w].key IN
  /\ consumed[ApprovalOf[k]] = k
  /\ job[w].token \in 1 .. journal[k].token
  /\ \A v \in Workers \ {w} :
       pc[v] \in Owning /\ job[v].key = k => job[v].token # job[w].token

\* A fencing token has one owner: of the workers inside an execution no two
\* hold the same token, none holds a token the journal has not reached, and all
\* of them are inside the one execution that consumed the approval
\* (DynamoExecutionJournal.claim hands out tokens by a conditional update).
Fencing == \A w \in Workers : pc[w] \in Owning => Fenced(w)

\* The stored receipt was written under the last token handed out: an owner
\* that lost its claim to a newer one never closes the execution
\* (DynamoExecutionJournal.complete).
ReceiptOfLastOwner ==
  \A k \in Keys :
    IF journal[k].status = "COMPLETED"
    THEN journal[k].receipt.token = journal[k].token
    ELSE journal[k].receipt = NoReceipt

\* Every request that left a worker belongs to the execution that consumed its
\* approval, was approved, and was started inside the approval window
\* (executeApprovedRemediation's checks, across takeovers and replays).
AuthorizedWrites ==
  \A at \in sent :
    /\ at.key \in Approved
    /\ consumed[ApprovalOf[at.key]] = at.key
    /\ at.started <= ExpiresAt[ApprovalOf[at.key]]

ReceiptIs(k, outcomes) ==
  journal[k].status = "COMPLETED" /\ journal[k].receipt.outcome \in outcomes

\* VERIFIED is proof: DataHub carried out the request of the very attempt the
\* receipt stands for (verifyPostcondition needs its acknowledgement).
VerifiedIsProven ==
  \A k \in Keys : ReceiptIs(k, {"VERIFIED"}) =>
    \E at \in applied : at.key = k /\ at.token = journal[k].receipt.token

\* The outcomes that say that nothing was written.
NoWriteOutcomes == {"REJECTED", "EXPIRED", "STALE"}

\* An attempt does not deny its own write: once its request left, the receipt
\* it stores is VERIFIED, VERIFICATION_FAILED or INDETERMINATE.
OwnWriteIsReported ==
  \A k \in Keys : ReceiptIs(k, NoWriteOutcomes) =>
    \A at \in sent : at.key = k => at.token # journal[k].receipt.token

WroteNothing(k) == \A at \in applied : at.key # k

\* "changed pre-state consumes the approval as STALE and performs no mutation":
\* DataHub carried out no write of an execution whose receipt is STALE.
StaleMeansNoWrite ==
  \A k \in Keys : ReceiptIs(k, {"STALE"}) => WroteNothing(k)

\* What remains of that, and of "rejected and expired approvals create terminal
\* receipts without a write": it holds when nobody took the execution over, for
\* an owner that sent its request never concludes in one of these ways.
FirstOwnerIsTruthful ==
  \A k \in Keys :
    journal[k].token = 1 /\ ReceiptIs(k, {"STALE", "REJECTED", "EXPIRED"}) => WroteNothing(k)

\* The three together: no receipt says more, or less, than what its execution did.
ReceiptsAreTruthful == VerifiedIsProven /\ OwnWriteIsReported /\ FirstOwnerIsTruthful

\* What makes the above inductive.  An item exists for every consumed approval
\* and only for those.
ClaimsAgree ==
  \A k \in Keys :
    /\ journal[k].status # "ABSENT" <=> consumed[ApprovalOf[k]] = k
    /\ journal[k].status # "ABSENT" <=> journal[k].token >= 1

\* What a worker remembers of the two items is still true where it matters: a
\* stored receipt and the owner of an approval do not change any more.
Remembers(w) ==
  LET j == job[w] IN
  /\ j.exec.status = "COMPLETED" =>
       /\ journal[j.key].status = "COMPLETED"
       /\ journal[j.key].receipt = j.exec.receipt
  /\ j.owner = j.key => consumed[ApprovalOf[j.key]] = j.key
  /\ pc[w] = "takeover" => j.owner = j.key
  /\ pc[w] = "complete" => j.receipt.token = j.token
  /\ pc[w] = "publish" =>
       /\ journal[j.key].status = "COMPLETED"
       /\ journal[j.key].receipt = j.receipt
  /\ pc[w] \in {"freshRead", "send", "sending", "readAfter"} =>
       j.key \in Approved /\ InWindow(w)

MemoryHolds == \A w \in Workers : pc[w] # "idle" => Remembers(w)

\* Evidence in S3 is the journal's receipt
\* (RemediationWorkerService.remediate stores what complete accepted).
EvidenceIsReceipt ==
  \A k \in Keys : \A r \in evidence[k] :
    journal[k].status = "COMPLETED" /\ r = journal[k].receipt

IInv ==
  /\ TypeOK /\ ClaimsAgree /\ MemoryHolds
  /\ Fencing /\ ReceiptOfLastOwner /\ AuthorizedWrites /\ EvidenceIsReceipt

\* What makes the truth of receipts inductive as well.  A token is sent under by
\* its owner alone, an owner that has not sent yet has nothing on the wire, what it
\* concludes is so, and once the execution is closed nobody owns the token that
\* closed it.
Unsent == {"reconcile", "resume", "decide", "freshRead", "send"}

ReceiptIsOwn(k, r) ==
  /\ r.outcome = "VERIFIED" => \E at \in applied : at.key = k /\ at.token = r.token
  /\ r.outcome \in NoWriteOutcomes => \A at \in sent : at.key = k => at.token # r.token

Honest(w) ==
  LET k == job[w].key IN
  /\ pc[w] \in Unsent => \A at \in sent : at.key = k => at.token # job[w].token
  /\ pc[w] = "readAfter" => AttemptOf(w) \in applied
  /\ pc[w] = "complete" => ReceiptIsOwn(k, job[w].receipt)
  /\ journal[k].status = "COMPLETED" => job[w].token # journal[k].token

AttemptsAgree ==
  /\ \A at \in sent : at.token \in 1 .. journal[at.key].token
  /\ \A w \in Workers : pc[w] \in Owning => Honest(w)
  /\ \A k \in Keys :
       journal[k].status = "COMPLETED" => ReceiptIsOwn(k, journal[k].receipt)

\* The journal keeps the promise of OnceOnlyExecution: an approval is consumed
\* once, its receipt never changes, and only that receipt becomes evidence.
OnceOnly == INSTANCE OnceOnlyExecution WITH
  owner <- consumed,
  result <- [k \in Keys |-> journal[k].receipt],
  wrote <- {at.key : at \in sent},
  published <- evidence,
  Receipts <- Receipt

ImplementsOnceOnly == OnceOnly!Spec
=============================================================================
