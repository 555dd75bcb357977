---------------------------- MODULE CanaryRecovery ----------------------------
(***************************************************************************)
(* The governed canary of DataHub Cloud: one run of                        *)
(* .github/workflows/governed-canary.yml, whose browser journey has the    *)
(* PII tag added to the canonical column by the cloud worker, whose        *)
(* rollback job takes it off, and the runs of governed-canary-recovery.yml *)
(* that follow a failed one; scripts/governed-canary.ts, its reader and    *)
(* its mutation client.  Jobs never overlap (one concurrency group), but   *)
(* the worker that carries out the approved action is no job: it may act   *)
(* when the journey has long failed.  The run starts with its recovery     *)
(* manifest sealed and uploaded.                                           *)
(***************************************************************************)
EXTENDS Naturals

CONSTANTS
  None,
  MaxEdits,       \* bound: edits of the columns by other people
  MaxMishaps,     \* bound: failed reads, calls, downloads, approvals, runners
  MaxRecoveries   \* bound: runs of the recovery workflow

VARIABLES
  column,    \* the canonical column, by tenant
  tenant,    \* the tenant that the repository's variables name
  pending,   \* requests that may yet be carried out
  job,       \* the job that runs, or how the run ended
  at,        \* where that job is
  target,    \* the tenant a recovery acts on
  before,    \* the tags it found there
  executed,  \* whether the journey succeeded
  evidence,  \* the last uploaded recovery evidence; asOf and settled are the model's:
             \* the edits up to then, and whether the approved action was over
  edits, mishaps, recoveries

vars == <<column, tenant, pending, job, at, target, before, executed, evidence, edits,
          mishaps, recoveries>>
counters == <<edits, mishaps, recoveries>>
local == <<target, before>>

\* "early" stands for a tag such as urn:li:tag:analytics, which localeCompare puts
\* before PII and the order of code units puts after it; for the others the two agree.
Tags == {"PII", "early", "late"}
LocaleRank == [early |-> 1, PII |-> 2, late |-> 3]
CodeRank == [PII |-> 1, early |-> 2, late |-> 3]

Tenants == {"sealed", "other"}
Columns == [known : BOOLEAN, schema : SUBSET Tags, editable : SUBSET Tags]
Requests == [does : {"add", "remove"}, of : Tenants]
Recovering == {"rollback", "recover"}

TypeOK ==
  /\ column \in [Tenants -> Columns]
  /\ tenant \in Tenants /\ target \in Tenants
  /\ pending \subseteq Requests
  /\ job \in {"execute", "passed", "failed"} \cup Recovering
  /\ at \in {"propose", "receipt", "verify", "start", "read", "connect", "call",
             "readback", "end"}
  /\ before \subseteq Tags
  /\ executed \in BOOLEAN
  /\ edits \in 0..MaxEdits /\ mishaps \in 0..MaxMishaps
  /\ recoveries \in 0..MaxRecoveries

Init ==
  /\ \E c \in Columns :
       c.known /\ column = [t \in Tenants |->
         IF t = "sealed" THEN c ELSE [known |-> TRUE, schema |-> {}, editable |-> {}]]
  /\ tenant = "sealed" /\ target = "sealed"
  /\ pending = {}
  /\ job = "execute" /\ at = "propose"
  /\ before = {} /\ executed = FALSE /\ evidence = None
  /\ edits = 0 /\ mishaps = 0 /\ recoveries = 0

-----------------------------------------------------------------------------
(* The column, as the reader and the script see it *)

\* The tags of both aspects; a tag may be on the column by either.
Shown(c) == c.schema \cup c.editable

\* The reader refuses a column that the schema does not have (any more).
Projection(of) == IF column[of].known THEN Shown(column[of]) ELSE None

\* A projection is sorted by localeCompare where the script wants code units.
Orderly(tags) ==
  \A a, b \in tags : LocaleRank[a] < LocaleRank[b] <=> CodeRank[a] < CodeRank[b]
Acceptable(projection) == projection # None /\ Orderly(projection)

\* add_tags and remove_tags change what people may edit, never the schema's own tags.
Effect(request) ==
  [column EXCEPT ![request.of].editable =
     IF request.does = "add" THEN @ \cup {"PII"} ELSE @ \ {"PII"}]

AddPending == \E request \in pending : request.does = "add"

-----------------------------------------------------------------------------
(* Jobs *)

Goto(next) == at' = next /\ UNCHANGED job
NextJob(next, first) == job' = next /\ at' = first

\* The rollback job runs whether the journey failed, was cancelled or succeeded.
FailJob ==
  IF job = "execute" THEN NextJob("rollback", "start") ELSE NextJob("failed", "end")

Mishap ==
  /\ job \in {"execute"} \cup Recovering
  /\ mishaps < MaxMishaps
  /\ mishaps' = mishaps + 1
  /\ FailJob
  /\ UNCHANGED <<column, tenant, pending, local, executed, evidence, edits, recoveries>>

-----------------------------------------------------------------------------
(* The browser journey *)

\* The agents propose the tag for a column that lacks it; once approved it is the
\* worker's to add, at most once (CloudMutation.AtMostOnce).
Approve ==
  /\ job = "execute" /\ at = "propose"
  /\ "PII" \notin Shown(column["sealed"])
  /\ pending' = pending \cup {[does |-> "add", of |-> "sealed"]}
  /\ Goto("receipt")
  /\ UNCHANGED <<column, tenant, local, executed, evidence, counters>>

\* The journey ends with the context delta that the added tag makes.
SealProof ==
  /\ job = "execute" /\ at = "receipt"
  /\ "PII" \in Shown(column["sealed"])
  /\ executed' = TRUE
  /\ NextJob("rollback", "start")
  /\ UNCHANGED <<column, tenant, pending, local, evidence, counters>>

-----------------------------------------------------------------------------
(* The recovery: the rollback job, and the runs for a failed run *)

\* For a failed or cancelled run whose manifest is there.
Resolve ==
  /\ job = "failed"
  /\ recoveries < MaxRecoveries
  /\ recoveries' = recoveries + 1
  /\ NextJob("recover", "verify")
  /\ UNCHANGED <<column, tenant, pending, local, executed, evidence, edits, mishaps>>

\* What was sealed before any write: one column of one tenant, and the tag.
Manifest == [tenant |-> "sealed", tag |-> "PII"]

\* Mutant: the endpoints are taken from the variables, whatever was sealed.
BoundToVariables == tenant \in Tenants

\* The endpoints must be those that were sealed.
Bound == tenant = Manifest.tenant

\* The resolve job verifies before anyone is asked to approve, and the script again
\* when it recovers.
ReadBoundManifest ==
  /\ job \in Recovering /\ at \in {"verify", "start"}
  /\ \/ /\ Bound
        /\ Goto(IF at = "verify" THEN "start" ELSE "read")
        /\ target' = tenant
     \/ ~Bound /\ FailJob /\ UNCHANGED target
  /\ UNCHANGED <<column, tenant, pending, before, executed, evidence, counters>>

\* A tag that is not there needs no write, and no write credentials.
ReadBefore ==
  LET found == Projection(target) IN
  /\ job \in Recovering /\ at = "read"
  /\ \/ /\ Acceptable(found)
        /\ before' = found
        /\ Goto(IF Manifest.tag \in found THEN "connect" ELSE "readback")
     \/ ~Acceptable(found) /\ FailJob /\ UNCHANGED before
  /\ UNCHANGED <<column, tenant, pending, target, executed, evidence, counters>>

\* A server without both mutation tools is left again.
Connect ==
  /\ job \in Recovering /\ at = "connect"
  /\ \E offered \in SUBSET {"add_tags", "remove_tags"} :
       IF offered = {"add_tags", "remove_tags"} THEN Goto("call") ELSE FailJob
  /\ UNCHANGED <<column, tenant, pending, local, executed, evidence, counters>>

\* One call, never repeated by this run.  It is answered with an attested success; or
\* with anything else, or given up at its deadline, while it may still be carried out.
RemoveTag ==
  LET request == [does |-> "remove", of |-> target] IN
  /\ job \in Recovering /\ at = "call"
  /\ \/ column' = Effect(request) /\ Goto("readback") /\ UNCHANGED <<pending, mishaps>>
     \/ /\ mishaps < MaxMishaps /\ mishaps' = mishaps + 1
        /\ pending' \in {pending, pending \cup {request}}
        /\ FailJob /\ UNCHANGED column
  /\ UNCHANGED <<tenant, local, executed, evidence, edits, recoveries>>

\* Whether there was a write is what the disposition says.
Disposition == IF Manifest.tag \in before THEN "restored" ELSE "already-baseline"

\* The read-back must be what was found, less the one tag.
CreateRecoveryEvidence ==
  LET after == Projection(target)
      exact == Acceptable(after) /\ after = before \ {Manifest.tag} IN
  /\ job \in Recovering /\ at = "readback"
  /\ \/ /\ exact
        /\ evidence' = [disposition |-> Disposition, kept |-> after,
                        asOf |-> edits, settled |-> ~AddPending]
        /\ NextJob(IF job = "rollback" /\ executed THEN "passed" ELSE "failed", "end")
     \/ ~exact /\ FailJob /\ UNCHANGED evidence
  /\ UNCHANGED <<column, tenant, pending, local, executed, counters>>

-----------------------------------------------------------------------------
(* The worker, DataHub, and other people *)

Lands ==
  \E request \in pending :
    /\ pending' = pending \ {request}
    /\ column' = Effect(request)
    /\ UNCHANGED <<tenant, job, at, local, executed, evidence, counters>>

Toggled(tags, t) == IF t \in tags THEN tags \ {t} ELSE tags \cup {t}

\* Tags of either aspect, and the schema.
Edit ==
  /\ edits < MaxEdits
  /\ edits' = edits + 1
  /\ \/ \E of \in Tenants, t \in Tags :
          column' \in {[column EXCEPT ![of].schema = Toggled(@, t)],
                       [column EXCEPT ![of].editable = Toggled(@, t)]}
     \/ \E of \in Tenants : column' = [column EXCEPT ![of].known = ~@]
  /\ UNCHANGED <<tenant, pending, job, at, local, executed, evidence, mishaps, recoveries>>

\* The repository's variables name another tenant; a job takes them as it starts.
Rebind ==
  /\ tenant' \in Tenants \ {tenant}
  /\ UNCHANGED <<column, pending, job, at, local, executed, evidence, counters>>

Next ==
  \/ Approve \/ SealProof
  \/ Resolve \/ ReadBoundManifest \/ ReadBefore \/ Connect \/ RemoveTag
  \/ CreateRecoveryEvidence
  \/ Mishap \/ Lands \/ Edit \/ Rebind

Spec == Init /\ [][Next]_vars

-----------------------------------------------------------------------------
(* Properties *)

\* What an evidence of the recovery promises of the sealed column
\* (createRecoveryEvidence, "the exact pre-canary baseline"): restored is final when
\* nobody edits the column, since the tag it took off was the run's only one;
\* already-baseline when the approved action was not still under way (it may be: see
\* settled); and in both cases every other tag is as it was found, as long as nobody
\* edits the column after the read-back.
RecoveryIsExact ==
  evidence # None =>
    /\ evidence.disposition = "restored" /\ edits = 0 =>
         "PII" \notin Shown(column["sealed"]) /\ ~AddPending
    /\ evidence.asOf = edits =>
         /\ evidence.settled => "PII" \notin Shown(column["sealed"])
         /\ Shown(column["sealed"]) \ {"PII"} = evidence.kept
=============================================================================
