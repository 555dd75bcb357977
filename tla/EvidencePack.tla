---------------------------- MODULE EvidencePack ----------------------------
(***************************************************************************)
(* The evidence pack of the page: the files that evidence-pack.ts makes of  *)
(* the audit and of the control-loop status that are shown, the manifest    *)
(* that lists them by digest, the verification that recomputes all of it,   *)
(* and the component that prepares the pack and hands out its files while   *)
(* what it shows may change under it.                                       *)
(*                                                                          *)
(* The content of a file is the record of what it was written from, and the *)
(* digest of a content is that content.  A text is the set of what the      *)
(* export looks for in it: "secret", a shape of a credential.  A pack may   *)
(* be altered between two downloads: a file or the manifest of another pack *)
(* in the place of its own, and all digests made anew.                      *)
(***************************************************************************)
EXTENDS Naturals, Sequences, SequencesExt, FiniteSets

CONSTANTS
  Inputs,        \* what the page may show: [audit, status]
  MaxFileBytes,  \* MAX_FILE_BYTES
  MaxPackBytes,  \* MAX_PACK_BYTES
  MaxGeneration, \* bound: preparations and changes of the input
  MaxAlterings,  \* bound: alterations of a pack
  MaxJobs,       \* bound: preparations and downloads that run
  None           \* undefined

VARIABLES
  input,       \* currentInput, what was rendered last
  effect,      \* the effect of that rendering has not run yet
  generation,
  preparation, \* what is shown: [input, state, pack]
  jobs,        \* preparations and downloads that await
  clicked,     \* the file whose anchor this step clicked: [file, of, pack, altered]
  altered      \* alterations of the pack that is ready

vars == <<input, effect, generation, preparation, jobs, clicked, altered>>

-----------------------------------------------------------------------------
(* The projections *)

ProjectFinding(f) == [ruleId |-> f.ruleId, type |-> f.type, subject |-> f.subject, text |-> f.text]

\* The allowed fields of the provenance; None: it has others, or wrong ones.
ProjectModelProvenance(p) == IF p = "exact" THEN p ELSE None

ProjectAudit(a) ==
  [source |-> [requestId |-> a.requestId, releaseSha |-> a.releaseSha, scanId |-> a.report.scanId,
               sourceKind |-> a.source],
   findings |-> {ProjectFinding(f) : f \in a.report.findings},
   narrative |-> a.report.narrative, domains |-> a.report.domains, bytes |-> a.report.bytes,
   modelProvenance |-> ProjectModelProvenance(a.report.provenance)]

\* None: there is nothing terminal to export.
ProjectTerminal(s) ==
  IF s = None \/ s.result = None THEN None
  ELSE [auditId |-> s.auditId, releaseSha |-> s.releaseSha, result |-> s.result]

StatusMatchesAudit(a, s) ==
  s # None =>
    /\ s.auditId = a.requestId
    /\ s.releaseSha \in {None, a.releaseSha}
    /\ s.report \in {None, a.report}

TerminalIsBound(s) ==
  s # None /\ s.result # None => s.status = "SUCCEEDED" /\ s.releaseSha # None

\* assertExportSafe, on the texts of a projection and on the keys of its records.
ExportSafe(report, terminal) ==
  /\ \A f \in report.findings : "secret" \notin f.text
  /\ "secret" \notin report.narrative
  /\ report.domains \cap {"forbidden", "secret"} = {}

ResultOutcomes == {"READ_ONLY_COMPLETE", "VERIFIED", "REJECTED"}
IsPublicAuditProjection(x) == x.modelProvenance # None
\* The counts that belong to an outcome: checks, events and whether it can be undone.
IsVerificationResult(r) ==
  CASE r.outcome = "READ_ONLY_COMPLETE" -> r.proof = None
    [] r.outcome = "VERIFIED" -> r.proof = <<5, 7, "ELIGIBLE">>
    [] r.outcome = "REJECTED" -> r.proof = <<0, 5, "NOT_APPLICABLE">>
IsPublicTerminalProjection(t) ==
  t.result.outcome \in ResultOutcomes /\ IsVerificationResult(t.result)

-----------------------------------------------------------------------------
(* The files and the manifest *)

ReportMarkdown(r) ==
  [form |-> "markdown", source |-> r.source, findings |-> {[f EXCEPT !.type = "any"] : f \in r.findings},
   narrative |-> r.narrative, modelProvenance |-> r.modelProvenance, bytes |-> r.bytes]
ReportSarif(r) ==
  [form |-> "sarif", findings |-> r.findings, modelProvenance |-> r.modelProvenance, bytes |-> r.bytes]
ReportJson(r) == [form |-> "json", report |-> r, bytes |-> r.bytes]
TerminalJson(t) == [form |-> "terminal", terminal |-> t, bytes |-> 1]

Sha256(content) == content
MakeFile(path, content) ==
  [path |-> path, bytes |-> content.bytes, sha256 |-> Sha256(content), content |-> content]

BaseFileContract == <<"audit/report.json", "audit/report.md", "audit/report.sarif">>
TerminalPath == "control/terminal-proof.json"
ManifestPath == "manifest.json"
ExpectedFileContract(outcome) ==
  IF outcome = "NOT_AVAILABLE" THEN BaseFileContract ELSE Append(BaseFileContract, TerminalPath)

SummaryFor(report, terminal) ==
  [findings |-> Cardinality(report.findings),
   types |-> [t \in {f.type : f \in report.findings} |->
                Cardinality({f \in report.findings : f.type = t})],
   terminalOutcome |-> IF terminal = None THEN "NOT_AVAILABLE" ELSE terminal.result.outcome]

Artifacts(report, terminal) ==
  <<MakeFile("audit/report.json", ReportJson(report)),
    MakeFile("audit/report.md", ReportMarkdown(report)),
    MakeFile("audit/report.sarif", ReportSarif(report))>>
    \o (IF terminal = None THEN <<>> ELSE <<MakeFile(TerminalPath, TerminalJson(terminal))>>)

Listed(files) ==
  [i \in DOMAIN files |-> [path |-> files[i].path, bytes |-> files[i].bytes, sha256 |-> files[i].sha256]]
Sealed(manifest, files) == [manifest |-> manifest, digest |-> Sha256(manifest), files |-> files]
EvidenceClass(kind) ==
  IF kind = "live" THEN "LIVE_ALLOWLISTED_PROJECTION" ELSE "SYNTHETIC_SHOWCASE_FIXTURE"

PackOf(report, terminal) ==
  LET files == Artifacts(report, terminal)
  IN Sealed([evidenceClass |-> EvidenceClass(report.source.sourceKind), source |-> report.source,
             summary |-> SummaryFor(report, terminal), files |-> Listed(files)], files)

IsEvidencePackFile(f) == f.bytes \in 1 .. MaxFileBytes
IsManifestFile(f) == f.bytes \in 1 .. MaxFileBytes
IsEvidencePackManifest(m) ==
  /\ m.evidenceClass = EvidenceClass(m.source.sourceKind)
  /\ m.summary.terminalOutcome \in ResultOutcomes \cup {"NOT_AVAILABLE"}
  /\ \A i \in DOMAIN m.files : IsManifestFile(m.files[i])

Find(pack, path) ==
  LET at == {i \in DOMAIN pack.files : pack.files[i].path = path}
  IN IF at = {} THEN None ELSE pack.files[CHOOSE i \in at : \A j \in at : i <= j].content

-----------------------------------------------------------------------------
(* verifyBrowserEvidencePack, check by check *)

Weight(files) == FoldSeq(LAMBDA f, sum : f.bytes + sum, 0, files)

FileSetExact(p) ==
  LET contract == ExpectedFileContract(p.manifest.summary.terminalOutcome)
  IN /\ Len(p.files) = Len(contract) /\ Len(p.manifest.files) = Len(contract)
     /\ \A i \in DOMAIN contract : p.files[i].path = contract[i] /\ p.manifest.files[i].path = contract[i]

FileDigestsValid(p) ==
  /\ \A i \in DOMAIN p.files :
       /\ p.files[i].bytes = p.files[i].content.bytes
       /\ p.manifest.files[i].bytes = p.files[i].content.bytes
       /\ p.manifest.files[i].sha256 = p.files[i].sha256
       /\ Sha256(p.files[i].content) = p.files[i].sha256
  /\ Weight(p.files) <= MaxPackBytes

\* Mutant: the renderings are not made again.
ProjectionWithoutReplay(p) ==
  LET json == Find(p, "audit/report.json")
  IN /\ json # None /\ json.form = "json" /\ IsPublicAuditProjection(json.report)
     /\ Find(p, "audit/report.md") # None /\ Find(p, "audit/report.sarif") # None

\* The report is public, and the other two files are what is written from it.
PublicProjectionValid(p) ==
  LET json == Find(p, "audit/report.json")
  IN /\ json # None /\ json.form = "json" /\ IsPublicAuditProjection(json.report)
     /\ Find(p, "audit/report.md") = ReportMarkdown(json.report)
     /\ Find(p, "audit/report.sarif") = ReportSarif(json.report)

\* The terminal projection a pack holds, when its manifest announces one.
HeldTerminal(p) ==
  LET file == Find(p, TerminalPath)
  IN IF p.manifest.summary.terminalOutcome = "NOT_AVAILABLE" \/ file = None THEN None
     ELSE file.terminal
TerminalProjectionValid(p) ==
  \/ p.manifest.summary.terminalOutcome = "NOT_AVAILABLE"
  \/ LET terminal == HeldTerminal(p)
     IN /\ terminal # None /\ IsPublicTerminalProjection(terminal)
        /\ terminal.result.outcome = p.manifest.summary.terminalOutcome

SourceFieldsConsistent(p, report, terminal) ==
  /\ report.source = p.manifest.source
  /\ terminal # None =>
       terminal.auditId = p.manifest.source.requestId /\ terminal.releaseSha = p.manifest.source.releaseSha

Verified(p) ==
  /\ IsEvidencePackManifest(p.manifest)
  /\ \A i \in DOMAIN p.files : IsEvidencePackFile(p.files[i])
  /\ p.digest = Sha256(p.manifest)
  /\ FileSetExact(p) /\ FileDigestsValid(p)
  /\ PublicProjectionValid(p) /\ TerminalProjectionValid(p)
  /\ LET report == Find(p, "audit/report.json").report
         terminal == HeldTerminal(p)
     IN /\ SummaryFor(report, terminal) = p.manifest.summary
        /\ SourceFieldsConsistent(p, report, terminal)
        /\ ExportSafe(report, terminal)

\* buildBrowserEvidencePack; None: it throws.
Build(in) ==
  LET report == ProjectAudit(in.audit)
      terminal == ProjectTerminal(in.status)
  IN IF /\ StatusMatchesAudit(in.audit, in.status)
        /\ TerminalIsBound(in.status)
        /\ IsPublicAuditProjection(report)
        /\ terminal # None => IsPublicTerminalProjection(terminal)
        /\ ExportSafe(report, terminal)
        /\ \A i \in DOMAIN Artifacts(report, terminal) : Artifacts(report, terminal)[i].bytes <= MaxFileBytes
        /\ Weight(Artifacts(report, terminal)) <= MaxPackBytes
        /\ Verified(PackOf(report, terminal))
     THEN PackOf(report, terminal) ELSE None

ManifestFile(p) == MakeFile(ManifestPath, [form |-> "manifest", manifest |-> p.manifest, bytes |-> 1])

\* What downloadEvidenceFile refuses before it takes the digest.
Downloadable(f) ==
  /\ IsEvidencePackFile(f)
  /\ f.path \in {BaseFileContract[i] : i \in DOMAIN BaseFileContract} \cup {TerminalPath, ManifestPath}
  /\ f.bytes = f.content.bytes

-----------------------------------------------------------------------------
(* The component *)

Idle(in) == [input |-> in, state |-> "idle", pack |-> None]
Error(in) == [input |-> in, state |-> "error", pack |-> None]

\* What is rendered: a preparation for another input counts as none.
Active == IF preparation.input = input THEN preparation ELSE Idle(input)

Init ==
  /\ input \in Inputs /\ effect = FALSE /\ generation = 0
  /\ preparation = Idle(input)
  /\ jobs = {} /\ clicked = None /\ altered = 0

\* App renders the component with another audit or status; the effect follows.
Render ==
  /\ ~effect /\ generation < MaxGeneration
  /\ input' \in Inputs \ {input} /\ effect' = TRUE
  /\ UNCHANGED <<generation, preparation, jobs, altered>> /\ clicked' = None

\* The cleanup of the last effect and the effect; both count.
Effect ==
  /\ effect /\ effect' = FALSE
  /\ generation' = generation + 2
  /\ preparation' = Idle(input) /\ altered' = 0
  /\ UNCHANGED <<input, jobs>> /\ clicked' = None

Start(job) ==
  /\ ~effect /\ Cardinality(jobs) < MaxJobs
  /\ job \notin jobs /\ jobs' = jobs \cup {job}

\* The button is disabled while a pack is built.
Prepare ==
  /\ Active.state # "building" /\ generation < MaxGeneration
  /\ Start([op |-> "prepare", token |-> generation + 1, input |-> input, pack |-> None,
            file |-> None, at |-> "build"])
  /\ generation' = generation + 1
  /\ preparation' = [input |-> input, state |-> "building", pack |-> None]
  /\ altered' = 0
  /\ UNCHANGED <<input, effect>> /\ clicked' = None

Download(op, file) ==
  /\ Active.state = "ready"
  /\ Start([op |-> op, token |-> generation, input |-> input, pack |-> Active.pack,
            file |-> file, at |-> "verify"])
  /\ UNCHANGED <<input, effect, generation, preparation, altered>> /\ clicked' = None
DownloadManifest == Download("manifest", None)
DownloadFile ==
  /\ Active.state = "ready"
  /\ \E i \in DOMAIN Active.pack.files : Download("file", Active.pack.files[i])

\* Mutant: a change of the input is told by the token alone.
TokenIsCurrent(job) == generation = job.token

InputIsCurrent(job) == generation = job.token /\ input = job.input

Leave(job) ==
  /\ jobs' = jobs \ {job}
  /\ UNCHANGED <<input, effect, generation, preparation, altered>> /\ clicked' = None

\* failCurrentDownload: the token is that of the click.
FailDownload(job) ==
  /\ jobs' = jobs \ {job}
  /\ IF InputIsCurrent(job)
     THEN generation' = generation + 1 /\ preparation' = Error(job.input) /\ altered' = 0
     ELSE UNCHANGED <<generation, preparation, altered>>
  /\ UNCHANGED <<input, effect>> /\ clicked' = None

\* The build of a preparation ends; a browser without WebCrypto builds none.
Built(job, pack) ==
  /\ job.op = "prepare" /\ pack \in {Build(job.input), None}
  /\ IF InputIsCurrent(job)
     THEN /\ preparation' = IF pack = None THEN Error(job.input)
                            ELSE [input |-> job.input, state |-> "ready", pack |-> pack]
          /\ jobs' = jobs \ {job}
          /\ UNCHANGED <<input, effect, generation, altered>> /\ clicked' = None
     ELSE Leave(job)

\* The pack of a download was verified again, and for the manifest its file was made.
Checked(job) ==
  LET file == IF job.op = "manifest" THEN ManifestFile(job.pack) ELSE job.file
  IN /\ job.at = "verify"
     /\ IF ~InputIsCurrent(job) THEN Leave(job)
        ELSE IF ~(Verified(job.pack) /\ Downloadable(file)) THEN FailDownload(job)
        ELSE /\ jobs' = (jobs \ {job}) \cup {[job EXCEPT !.at = "digest", !.file = file]}
             /\ UNCHANGED <<input, effect, generation, preparation, altered>> /\ clicked' = None

\* The digest of the file was taken, and the anchor is clicked while it may.
Clicked(job) ==
  /\ job.at = "digest"
  /\ IF Sha256(job.file.content) # job.file.sha256 THEN FailDownload(job)
     ELSE IF ~InputIsCurrent(job) THEN Leave(job)
     ELSE /\ clicked' = [file |-> job.file, of |-> input, pack |-> job.pack, altered |-> altered > 0]
          /\ jobs' = jobs \ {job}
          /\ UNCHANGED <<input, effect, generation, preparation, altered>>

\* The pack that is ready is altered: a file or the manifest is another pack's, or
\* a file is missing; or everything is listed and sealed anew.
Resealed(p) == Sealed([p.manifest EXCEPT !.files = Listed(p.files)], p.files)
Forgeries(p, q) ==
  {[p EXCEPT !.files[i] = q.files[i]] : i \in DOMAIN p.files \cap DOMAIN q.files}
    \cup {[p EXCEPT !.files = SubSeq(@, 1, Len(@) - 1)], [p EXCEPT !.manifest = q.manifest],
          [p EXCEPT !.manifest = q.manifest, !.digest = q.digest], Resealed(p)}
Alter ==
  /\ altered < MaxAlterings /\ jobs = {} /\ preparation.state = "ready"
  /\ \E in \in Inputs :
       /\ Build(in) # None
       /\ preparation' \in {[preparation EXCEPT !.pack = q] : q \in Forgeries(preparation.pack, Build(in))}
  /\ altered' = altered + 1
  /\ UNCHANGED <<input, effect, generation, jobs>> /\ clicked' = None

Next ==
  \/ Render
  \/ Effect
  \/ Prepare
  \/ DownloadManifest
  \/ DownloadFile
  \/ \E job \in jobs : \E pack \in {Build(job.input), None} : Built(job, pack)
  \/ \E job \in jobs : Checked(job)
  \/ \E job \in jobs : Clicked(job)
  \/ Alter

Spec == Init /\ [][Next]_vars

-----------------------------------------------------------------------------

\* Nine checks are enough: a pack that passes them, whatever it was put together from
\* and however often its digests were made anew, is the pack of the report and the
\* terminal proof it holds, of one request and one release, without a credential
\* (verifyBrowserEvidencePack).
VerifiedIsOnePack ==
  preparation.state = "ready" /\ Verified(preparation.pack) =>
    LET report == Find(preparation.pack, "audit/report.json").report
        terminal == HeldTerminal(preparation.pack)
    IN /\ preparation.pack = PackOf(report, terminal)
       /\ terminal # None =>
            terminal.auditId = report.source.requestId /\ terminal.releaseSha = report.source.releaseSha
       /\ ExportSafe(report, terminal)

\* A file leaves the page only as part of what is shown at that moment: of a pack that
\* was verified after the click, and, unless the pack was altered, of the one built
\* from the audit and the status on the page (EvidencePack, downloadEvidenceFile).
DownloadIsOfShown ==
  clicked # None =>
    LET d == clicked
        own == {d.pack.files[i] : i \in DOMAIN d.pack.files} \cup {ManifestFile(d.pack)}
    IN Verified(d.pack) /\ d.file \in own /\ (~d.altered => d.pack = Build(d.of))
=============================================================================
