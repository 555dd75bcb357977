------------------------------ MODULE AuditRun ------------------------------
(***************************************************************************)
(* One audit of the worker service: AuditPipeline.run on a harvest, and the *)
(* remediation proposed for its first G6 finding.  The tags of the columns  *)
(* are read once more for the plan, and others edit them meanwhile.         *)
(***************************************************************************)
EXTENDS AuditChecks

CONSTANTS
  Harvests,    \* what harvestAudit may return
  MaxTagEdits  \* bound on the edits by others

\* A harvest audits datasets, and has histories of their aspects.
ASSUME RunAssumption ==
  /\ MaxTagEdits \in Nat
  /\ \A h \in Harvests :
       h.roots \subseteq Datasets /\ \A x \in DOMAIN h.versions : x[1] \in Datasets

VARIABLES
  harvest,   \* the harvest, never changed
  stage,     \* how far the run is
  findings,  \* the findings so far
  tags,      \* what DataHub holds: the tags of each column now
  edits,     \* edits made
  plan       \* the plan of an ACTIONABLE remediation, or None

auditVars == <<harvest, stage, findings, tags, edits, plan>>

Columns == {c \in harvest.roots \X Paths : c[2] \in DOMAIN harvest.fields[c[1]]}

AuditInit ==
  /\ harvest \in Harvests
  /\ stage = "harvested"
  /\ findings = {}
  /\ tags = [c \in Columns |-> harvest.fields[c[1]][c[2]].tags]
  /\ edits = 0
  /\ plan = None

-----------------------------------------------------------------------------
(* The pipeline *)

Contradiction(subject, attribute, carriers) ==
  [type |-> "contradiction", subject |-> subject, rule |-> attribute,
   severity |-> IF attribute = "fieldType" THEN "high" ELSE "medium",
   fields |-> {}, carriers |-> carriers, recommended |-> ResolveContradiction(carriers)]

FactContradictions ==
  {Contradiction(d, "owner", ReportFacts(harvest.reports[d])) :
     d \in {x \in harvest.roots : Disagree(ReportFacts(harvest.reports[x]), FALSE)}}

\* The history of attribute a of dataset d.
History(d, a) == HistoryFacts(harvest.versions[<<d, a>>])
HistoryContradictions ==
  {Contradiction(x[1], x[2], History(x[1], x[2])) :
     x \in {y \in DOMAIN harvest.versions : Disagree(History(y[1], y[2]), TRUE)}}

\* auditConsistency reports a reference as absent when no fact is about it.
Unresolved(d) == harvest.upstream[d] \cap {Dangling}
Gaps ==
  {[type |-> "lineage_gap", subject |-> u, rule |-> "upstream", severity |-> "medium",
    fields |-> {}, carriers |-> {d \in harvest.roots : u \in Unresolved(d)}, recommended |-> None] :
     u \in UNION {Unresolved(d) : d \in harvest.roots}}

\* dedupeFindings: of two findings with one identity the fact-based one stays.
Dedupe(first, second) ==
  first \cup {f \in second :
    \A g \in first : <<g.type, g.subject, g.rule>> # <<f.type, f.subject, f.rule>>}

Analyze ==
  /\ stage = "harvested"
  /\ findings' = Dedupe(FactContradictions \cup Gaps, HistoryContradictions)
  /\ stage' = "analyzed"
  /\ UNCHANGED <<harvest, tags, edits, plan>>

Violation(d, rule) ==
  [type |-> "governance_violation", subject |-> d, rule |-> rule, severity |-> SeverityOf(rule),
   fields |-> IF rule = "G6" THEN Unclassified(harvest, d) ELSE {},
   carriers |-> {}, recommended |-> None]

\* GovernanceAuditorAgent.audit; then every finding gets its blast radius, and the
\* narrator is asked.
Assemble ==
  /\ stage = "analyzed"
  /\ findings' = {[finding |-> f, impact |-> BlastRadius(harvest, f.subject)] :
                    f \in findings \cup UNION {{Violation(d, r) : r \in Broken(harvest, d)} :
                                                 d \in harvest.roots}}
  /\ stage' = "assembled"
  /\ UNCHANGED <<harvest, tags, edits, plan>>

\* The narrator's answer completes the report; then a request that only reads, or
\* a report without a G6 finding, is manual (AuditWorkerService.audit).
Candidates == {x \in findings : x.finding.rule = "G6"}
Report ==
  /\ stage = "assembled"
  /\ \/ stage' = "manual"
     \/ Candidates # {} /\ stage' = "reported"
  /\ UNCHANGED <<harvest, findings, tags, edits, plan>>

\* The first G6 finding in the order of the report, and its first column.
Candidate ==
  LET subject == Least({x.finding.subject : x \in Candidates})
  IN (CHOOSE x \in Candidates : x.finding.subject = subject).finding
Target == <<Candidate.subject, Least(Candidate.fields)>>

\* readTagProjection and planG6Remediation.
Plan ==
  /\ stage = "reported"
  /\ plan' = PlanG6Remediation(Candidate, Target[2], tags[Target])
  /\ stage' = IF plan' = None THEN "manual" ELSE "actionable"
  /\ UNCHANGED <<harvest, findings, tags, edits>>

\* The projection cannot be read, and the audit is kept without a plan.
PlanFails ==
  /\ stage = "reported"
  /\ stage' = "manual"
  /\ UNCHANGED <<harvest, findings, tags, edits, plan>>

\* The narrator throws or the deadline of the pipeline passes: no report.
Fail ==
  /\ stage \in {"harvested", "analyzed", "assembled"}
  /\ stage' = "failed"
  /\ UNCHANGED <<harvest, findings, tags, edits, plan>>

TagEdit(c) ==
  /\ stage \in {"analyzed", "assembled", "reported"} /\ edits < MaxTagEdits
  /\ edits' = edits + 1
  /\ \E t \in Accepted \cup {PolicyTag} :
       tags' = [tags EXCEPT ![c] = IF t \in @ THEN @ \ {t} ELSE @ \cup {t}]
  /\ UNCHANGED <<harvest, stage, findings, plan>>

AuditNext ==
  Analyze \/ Assemble \/ Report \/ Plan \/ PlanFails \/ Fail \/ \E c \in Columns : TagEdit(c)

AuditSpec == AuditInit /\ [][AuditNext]_auditVars

-----------------------------------------------------------------------------
(* Properties *)

Complete == stage \in {"reported", "actionable", "manual"}
Reported(type) == {x.finding : x \in {y \in findings : y.finding.type = type}}
IsReported(type, subject, rule) ==
  \E f \in Reported(type) : f.subject = subject /\ f.rule = rule

\* Two versions of an aspect that hold different values, written by w and v.
Differ(w, v) == w.value # None /\ v.value # None /\ w.value # v.value

\* "only genuine cross-source disagreements" (auditVersionHistory): a contradiction
\* is reported from the history of an aspect exactly when two versions with different
\* values were written by sources it tells apart, although the gate only counts values
\* and sources; when the registry lists every run, by two pipelines.  It is reported
\* once, and what it recommends is the newest of its facts.
ContradictionsAreReal ==
  Complete =>
    /\ \A x \in DOMAIN harvest.versions :
         LET versions == harvest.versions[x]
             apart == {p \in (DOMAIN versions) \X (DOMAIN versions) :
                         /\ Differ(versions[p[1]], versions[p[2]])
                         /\ SourceOf(versions[p[1]]) # SourceOf(versions[p[2]])}
         IN /\ apart # {} => IsReported("contradiction", x[1], x[2])
            /\ \A f \in Reported("contradiction") :
                 f.subject = x[1] /\ f.rule = x[2] /\ Cardinality(harvest.reports[x[1]]) = 1 =>
                   /\ apart # {}
                   /\ (\A i \in DOMAIN versions : versions[i].listed) =>
                        \E p \in apart : versions[p[1]].writer # versions[p[2]].writer
    /\ \A f, g \in Reported("contradiction") :
         f.subject = g.subject /\ f.rule = g.rule => f = g
    /\ \A f \in Reported("contradiction") : \A c \in f.carriers : c.at <= f.recommended.at

\* The assets at n hops downstream of subject, over every dataset and not only the
\* audited ones; a dangling upstream is known through its audited consumers alone.
Downstream(subject, n) ==
  LET at[i \in 0 .. n] ==
        IF i = 0 THEN {subject}
        ELSE {d \in Datasets : /\ harvest.graph[d] \cap at[i - 1] # {}
                               /\ subject \notin Datasets /\ i = 1 => d \in harvest.roots}
  IN at[n]

\* "preserves the exact one-root audit scope without hiding the consumer's
\* out-of-scope downstream impact" (computeBlastRadius): the impact of a finding is
\* every asset downstream of its subject with its least distance, up to the bounds,
\* and a blast radius that leaves one out says so.
ImpactIsComplete ==
  Complete => \A x \in findings :
    LET subject == x.finding.subject
        lengths == [d \in Datasets \ {subject} |->
                      {n \in 1 .. NDatasets : d \in Downstream(subject, n)}]
        reached == {d \in DOMAIN lengths : lengths[d] # {}}
    IN /\ \A a \in x.impact.assets :
            a.urn \in reached /\ a.minHops = Least(lengths[a.urn]) /\ a.minHops <= MaxHops
       /\ Cardinality(x.impact.assets) <= MaxAssets
       /\ ~x.impact.truncated => {a.urn : a \in x.impact.assets} = reached
       /\ \A d \in reached : Least(lengths[d]) <= MaxHops =>
            \/ \E a \in x.impact.assets : a.urn = d
            \/ \A a \in x.impact.assets : a.minHops <= Least(lengths[d])

\* No finding of an audit claims more, or tells less, than its harvest has.
FindingsAreReal == ContradictionsAreReal /\ ImpactIsComplete

\* A plan answers the report it comes with: its column is one a G6 finding of the
\* report names, carrying it out classifies the column, and the inverse gives back
\* exactly the tags that were read, although others edit them since the harvest.
PlanIsReversible ==
  plan # None =>
    /\ \E x \in Candidates : x.finding.subject = plan.entity /\ plan.column \in x.finding.fields
    /\ Classified(AddTags(plan, plan.before)) /\ AddTags(plan, plan.before) = plan.after
    /\ RemoveTags(plan, plan.after) = plan.before

\* "not changes between executions of one pipeline" (auditVersionHistory): one
\* pipeline alone never contradicts itself.
DriftIsNotReported ==
  Complete => \A x \in DOMAIN harvest.versions :
    LET versions == harvest.versions[x]
    IN (\A i, j \in DOMAIN versions : versions[i].writer = versions[j].writer) =>
         \/ ~IsReported("contradiction", x[1], x[2])
         \/ Cardinality(harvest.reports[x[1]]) > 1
=============================================================================
