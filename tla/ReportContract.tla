--------------------------- MODULE ReportContract ---------------------------
(***************************************************************************)
(* The contract archon.audit-report/v1, which five programs state on their  *)
(* own: the pipeline that makes a report, the model's narration in it, the  *)
(* preview server, the status API of the first version and the page.  A     *)
(* report that one of them accepts and the next one refuses is an audit     *)
(* whose result nobody ever sees, so the question is whether they agree.    *)
(*                                                                          *)
(* A text is the set of things the contracts look for in it: "break" (tab   *)
(* or line break), "control" (any other control character), "secret" (looks *)
(* like a credential), "wide" (longer than any bound of a detail), "huge"   *)
(* (longer than any bound at all).  The empty text is None.                 *)
(***************************************************************************)
EXTENDS Integers, Functions, TLC

CONSTANTS
  Catalogs,  \* what an audit has to report: [findings, domains, plan]
  Replies,   \* what the provider may answer: [content, id, model, usage]
  Runtimes,  \* "deterministic-fixture" or "live-provider", with the model id: [source, model]
  None       \* null, and the empty text

VARIABLES
  catalog,   \* the findings and names of this audit
  runtime,   \* the model runtime the process is configured with
  narration, \* what NarratorAgent.summarize returned
  report,    \* the report the pipeline returned; the worker stores it as it is
  public,    \* what the preview server or the status API answered
  page,      \* the report the page accepted
  stage

vars == <<catalog, runtime, narration, report, public, page, stage>>

-----------------------------------------------------------------------------
(* What the agents write *)

\* JSON.stringify: a quoted value keeps no character that needs an escape.
Quoted(text) == text \ {"break", "control"}
Plain(text) == IF text = None THEN {} ELSE text

Earlier(f, g) == f.at < g.at \/ (f.at = g.at /\ f.id <= g.id)
Earliest(facts) == CHOOSE f \in facts : \A g \in facts : Earlier(f, g)
Latest(facts) == CHOOSE f \in facts : \A g \in facts : f.at > g.at \/ (f.at = g.at /\ f.id <= g.id)
Recommended(clusters) == Latest({Latest(c.facts) : c \in clusters})

\* contradictionFinding: a value is represented by its earliest carrier, while the
\* resolution names the latest carrier of the value it recommends.
ContradictionFinding(f) ==
  LET shown == {Earliest(c.facts) : c \in f.clusters}
      values == UNION {Quoted(c.value) : c \in f.clusters}
  IN [type |-> "contradiction", subject |-> f.subject,
      summary |-> f.subject \cup values \cup UNION {Plain(s.source) : s \in shown},
      recommendation |-> f.subject \cup values,
      detail |-> [attribute |-> {}, resolution |-> Recommended(f.clusters).id,
                  values |-> {[factId |-> s.id, text |-> f.subject, source |-> s.source] : s \in shown}]]

\* toFindings, for an absence.
GapFinding(f) ==
  [type |-> "lineage_gap", subject |-> f.subject, summary |-> f.subject,
   recommendation |-> f.subject, detail |-> [referencedBy |-> f.subject]]

\* GovernanceAuditorAgent.audit with the message of G6: the columns as they are called.
RuleFinding(f) ==
  [type |-> "governance_violation", subject |-> f.subject,
   summary |-> UNION f.fields, recommendation |-> {},
   detail |-> [ruleId |-> "G6", rule |-> {}, unclassifiedFields |-> f.fields,
               sensitiveFields |-> f.fields]]

\* The pipeline adds the blast radius to every finding.
Finding(f) ==
  LET made == CASE f.kind = "contradiction" -> ContradictionFinding(f)
                [] f.kind = "gap" -> GapFinding(f)
                [] f.kind = "rule" -> RuleFinding(f)
  IN [made EXCEPT !.detail =
        @ @@ [blastRadius |-> [rootUrn |-> f.subject, downstream |-> f.reached]]]

\* ClassifierAgent.classify, as far as a contract reads it.
Classify(c) == [domains |-> c.domains]

-----------------------------------------------------------------------------
(* The provenance of the narration *)

SafeModelId(id) == id = "id"
SafeResponseId(id) == id = "id"
\* Two of the provider's counts are those it summed ("sums"), or they are not ("off").
NormalizeProviderUsage(usage) == usage \in {None, "sums"}

\* createModelRuntimeProvenance; None: it throws.
CreateModelRuntimeProvenance(run, reply) ==
  CASE ~SafeModelId(run.model) -> None
    [] SafeModelId(run.model) /\ run.source = "deterministic-fixture" ->
         [source |-> run.source, requestedModel |-> run.model, returnedModel |-> None,
          providerResponseId |-> None, tokenUsage |-> None, latencyMs |-> None]
    [] SafeModelId(run.model) /\ run.source = "live-provider" ->
         IF /\ SafeModelId(reply.model) /\ SafeResponseId(reply.id)
            /\ NormalizeProviderUsage(reply.usage) /\ reply.latency = "within"
         THEN [source |-> run.source, requestedModel |-> run.model, returnedModel |-> reply.model,
               providerResponseId |-> reply.id, tokenUsage |-> reply.usage,
               latencyMs |-> reply.latency]
         ELSE None

Unmeasured(p) ==
  /\ p.returnedModel = None /\ p.providerResponseId = None
  /\ p.tokenUsage = None /\ p.latencyMs = None

Measured(p) ==
  /\ SafeModelId(p.returnedModel) /\ SafeResponseId(p.providerResponseId)
  /\ p.tokenUsage \in {None, "sums"} /\ p.latencyMs = "within"

\* parseModelRuntimeProvenance, of the library.
ParseModelRuntimeProvenance(p) ==
  /\ SafeModelId(p.requestedModel)
  /\ \/ p.source = "deterministic-fixture" /\ Unmeasured(p)
     \/ p.source = "live-provider" /\ Measured(p)

\* Mutant: a provider that reports no usage is refused.
ModelProvenanceWithUsage(p) ==
  /\ SafeModelId(p.requestedModel)
  /\ IF p.source = "deterministic-fixture" THEN Unmeasured(p)
     ELSE p.source = "live-provider" /\ Measured(p) /\ p.tokenUsage # None

\* validModelProvenance, of the status API.
ValidModelProvenance(p) ==
  /\ SafeModelId(p.requestedModel)
  /\ IF p.source = "deterministic-fixture" THEN Unmeasured(p)
     ELSE p.source = "live-provider" /\ Measured(p)

\* isModelRuntimeProvenance, of the page.
IsModelRuntimeProvenance(p) ==
  /\ SafeModelId(p.requestedModel)
  /\ IF p.source = "deterministic-fixture" THEN Unmeasured(p)
     ELSE p.source = "live-provider" /\ Measured(p)

-----------------------------------------------------------------------------
(* The texts each program accepts, whole ones and those of a detail *)

\* boundedText of the pipeline, and text of the preview server.
BoundedText(text) == text # None /\ text \cap {"control", "huge"} = {}
PublicText(text) == text # None /\ text \cap {"control", "huge"} = {}
\* boundedReportText of the status API, and isBoundedText of the page.
BoundedReportText(text) == text # None /\ text \cap {"control", "break", "huge"} = {}
IsBoundedText(text) == text # None /\ text \cap {"control", "break", "huge"} = {}

Short(text) == "wide" \notin text

DetailTexts(d) ==
  (IF "attribute" \in DOMAIN d THEN {d.attribute} ELSE {})
    \cup (IF "unclassifiedFields" \in DOMAIN d THEN d.unclassifiedFields ELSE {})
    \cup (IF "provenance" \in DOMAIN d
          THEN {e.source : e \in d.provenance} \cup {e.text : e \in d.provenance} ELSE {})
    \cup (IF "approval" \in DOMAIN d THEN d.approval ELSE {})

\* The texts of a blast radius may be as long as a subject.
RadiusTexts(d) == {d.blastRadius.rootUrn} \cup d.blastRadius.downstream

WholeTexts(f) == {f.subject, f.summary, f.recommendation}

AllTexts(r) ==
  {r.narrative} \cup r.classification.domains
    \cup UNION {WholeTexts(f) \cup DetailTexts(f.detail) \cup RadiusTexts(f.detail) : f \in r.findings}

\* assertPublicOutputSafe and isPublicOutputSafe: the same patterns in the three programs.
PublicOutputSafe(r) == \A text \in AllTexts(r) : "secret" \notin text

\* isAuditReport of the pipeline: it does not look into a detail.
IsAuditReport(r) ==
  /\ \A f \in r.findings : \A text \in WholeTexts(f) : BoundedText(text)
  /\ \A text \in r.classification.domains : BoundedText(text) /\ Short(text)
  /\ BoundedText(r.narrative)
  /\ ParseModelRuntimeProvenance(r.modelProvenance)

\* validAuditReport of the status API: nor does this one.
ValidAuditReport(r) ==
  /\ \A f \in r.findings : \A text \in WholeTexts(f) : BoundedReportText(text)
  /\ \A text \in r.classification.domains : BoundedReportText(text) /\ Short(text)
  /\ BoundedReportText(r.narrative)
  /\ ValidModelProvenance(r.modelProvenance)

-----------------------------------------------------------------------------
(* The projections *)

PublicKeys ==
  {"ruleId", "rule", "attribute", "unclassifiedFields", "blastRadius", "provenance",
   "dossier", "approval"}

\* contradictionProvenance: who said what becomes who said it, and which of them the
\* audit recommends.
ContradictionProvenance(d) ==
  {[source |-> IF v.source = None THEN {} ELSE v.source, runId |-> v.factId, text |-> v.text,
    status |-> IF v.factId = d.resolution THEN "trusted" ELSE "conflicting"] : v \in d.values}

\* The details that leave the process: the allowed keys, and the provenance in place
\* of the values.
ProjectDetail(d) ==
  LET kept == Restrict(d, DOMAIN d \cap PublicKeys)
  IN IF "values" \in DOMAIN d THEN kept @@ [provenance |-> ContradictionProvenance(d)] ELSE kept

ProjectFinding(f) == [f EXCEPT !.detail = ProjectDetail(f.detail)]
Projected(r) == [r EXCEPT !.findings = {ProjectFinding(f) : f \in @}]

\* projectPublicAuditReport of the preview server; None: it throws.
ProjectPublicAuditReport(r) ==
  LET out == Projected(r)
  IN IF /\ IsAuditReport(r)
        /\ \A f \in out.findings :
             /\ \A text \in DetailTexts(f.detail) : PublicText(text) /\ Short(text)
             /\ \A text \in RadiusTexts(f.detail) : PublicText(text)
        /\ PublicOutputSafe(out)
     THEN out ELSE None

\* projectActionableDossier and projectActionableApproval, on the finding that is planned for.
Actionable(out, plan) ==
  [out EXCEPT !.findings =
     {IF f.subject = plan.subject /\ f.type = "governance_violation"
      THEN [f EXCEPT !.detail = [provenance |-> {}, dossier |-> "bound", approval |-> plan.tags] @@ @]
      ELSE f : f \in @}]

\* projectReport of the status API, on the evidence that readAuditEvidence verified.
ProjectReport(r, plan) ==
  LET out == IF plan = None THEN Projected(r) ELSE Actionable(Projected(r), plan)
  IN IF /\ ValidAuditReport(r)
        /\ \A f \in out.findings :
             /\ \A text \in DetailTexts(f.detail) : BoundedReportText(text) /\ Short(text)
             /\ \A text \in RadiusTexts(f.detail) : BoundedReportText(text)
        /\ PublicOutputSafe(out)
     THEN out ELSE None

\* isAuditReport of the page, which lists the keys of a detail once more.
IsPageReport(r) ==
  /\ \A f \in r.findings :
       /\ DOMAIN f.detail \subseteq PublicKeys
       /\ \A text \in WholeTexts(f) \cup RadiusTexts(f.detail) : IsBoundedText(text)
       /\ \A text \in DetailTexts(f.detail) : IsBoundedText(text) /\ Short(text)
  /\ \A text \in r.classification.domains : IsBoundedText(text) /\ Short(text)
  /\ IsBoundedText(r.narrative)
  /\ IsModelRuntimeProvenance(r.modelProvenance)
  /\ PublicOutputSafe(r)

-----------------------------------------------------------------------------

Init ==
  /\ catalog \in Catalogs /\ runtime \in Runtimes
  /\ narration = None /\ report = None /\ public = None /\ page = None /\ stage = "found"

\* NarratorAgent.summarize: an answer of blanks only is replaced, one that is no bounded
\* text fails the audit, and so does one whose provenance cannot be told.
Narrate(reply) ==
  LET text == IF reply.content = None THEN {} ELSE reply.content
      provenance == CreateModelRuntimeProvenance(runtime, reply)
  IN /\ stage = "found"
     /\ runtime.source = "deterministic-fixture" => text = {}
     /\ IF text \cap {"control", "huge"} # {} \/ provenance = None
        THEN stage' = "failed" /\ UNCHANGED narration
        ELSE stage' = "narrated" /\ narration' = [narrative |-> text, modelProvenance |-> provenance]
     /\ UNCHANGED <<catalog, runtime, report, public, page>>

\* The end of AuditPipeline.run.
Assemble ==
  LET made == [findings |-> {Finding(f) : f \in catalog.findings},
               classification |-> Classify(catalog)] @@ narration
  IN /\ stage = "narrated"
     /\ IF IsAuditReport(made)
        THEN stage' = "made" /\ report' = made
        ELSE stage' = "failed" /\ UNCHANGED report
     /\ UNCHANGED <<catalog, runtime, narration, public, page>>

\* POST /api/audits of the preview server, or GET of the status after the worker stored
\* the report; a plan is only ever made by the worker.
Answer(projected) ==
  /\ stage = "made"
  /\ public' = projected
  /\ stage' = IF projected = None THEN "unserved" ELSE "served"
  /\ UNCHANGED <<catalog, runtime, narration, report, page>>
Preview == catalog.plan = None /\ Answer(ProjectPublicAuditReport(report))
Serve == Answer(ProjectReport(report, catalog.plan))

\* parseAuditEnvelope or parseControlLoopStatus, as far as the report goes.
Show ==
  /\ stage = "served"
  /\ IF IsPageReport(public)
     THEN stage' = "shown" /\ page' = public
     ELSE stage' = "refused" /\ UNCHANGED page
  /\ UNCHANGED <<catalog, runtime, narration, report, public>>

Next ==
  \/ \E reply \in Replies : Narrate(reply)
  \/ Assemble
  \/ Preview
  \/ Serve
  \/ Show

Spec == Init /\ [][Next]_vars

-----------------------------------------------------------------------------

\* What a later program may object to in a text that the pipeline accepted.
Objection(text) == text \cap {"break", "wide", "secret", "control", "huge"} # {}
CatalogTexts ==
  catalog.domains
    \cup UNION {{f.subject} \cup f.reached
                  \cup (IF f.kind = "rule" THEN f.fields ELSE {})
                  \cup (IF f.kind = "contradiction"
                        THEN {c.value : c \in f.clusters}
                               \cup {Plain(g.source) : g \in UNION {c.facts : c \in f.clusters}}
                        ELSE {}) : f \in catalog.findings}
    \cup (IF catalog.plan = None THEN {} ELSE catalog.plan.tags)

\* A report that the pipeline accepted is answered by both servers and accepted by the
\* page, whichever model wrote its narration and whatever was found: all that stands in
\* the way is a text of the catalog or of the model with a line break, a credential or
\* an excessive length in it (pipeline.ts, narrator.ts, provenance.ts against
\* control/index.js, public-audit-report.ts and api.ts).
AcceptedIsShown ==
  stage \in {"unserved", "refused"} =>
    \/ Objection(report.narrative)
    \/ \E text \in CatalogTexts : Objection(text)

\* What the page shows is the report: every finding and no other, no credential, no
\* detail that is not listed, and of a contradiction at most the fact that the audit
\* recommends is called trusted, and that one is if its value was recorded once.
ShownIsTheReport ==
  page # None =>
    /\ {<<f.type, f.subject, f.summary>> : f \in page.findings}
         = {<<f.type, f.subject, f.summary>> : f \in report.findings}
    /\ page.narrative = report.narrative /\ page.modelProvenance = report.modelProvenance
    /\ \A text \in AllTexts(page) : text \cap {"secret", "control", "break"} = {}
    /\ \A f \in catalog.findings : f.kind = "contradiction" =>
         LET winner == Recommended(f.clusters)
             of == CHOOSE g \in page.findings : g.type = "contradiction" /\ g.subject = f.subject
             trusted == {e.runId : e \in {x \in of.detail.provenance : x.status = "trusted"}}
         IN /\ trusted \subseteq {winner.id}
            /\ {winner} \in {c.facts : c \in f.clusters} => trusted = {winner.id}

\* What the pipeline accepts of a report reaches the page, and reaches it as it is.
ReportIsKept == AcceptedIsShown /\ ShownIsTheReport
=============================================================================
