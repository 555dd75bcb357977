----------------------------- MODULE MCLiveProof -----------------------------
(***************************************************************************)
(* What a reader is shown as evidence: the two workflows that write to a    *)
(* DataHub and take the write back, the proof of LiveProof and the canary   *)
(* of CanaryRecovery, and the pack that the page makes of an audit          *)
(* (EvidencePack).  A behaviour is one of the three, chosen at the start;   *)
(* the variables of the others are idle, and the workflows share the        *)
(* counters of their bounds.                                                *)
(***************************************************************************)
EXTENDS LiveProof, Sequences, TLC

CONSTANTS
  None,
  CanaryMishaps, CanaryRecoveries,  \* the bounds of the canary
  Inputs, MaxFileBytes, MaxPackBytes, MaxGeneration, MaxJobs, MaxAlterings  \* of Pack

VARIABLES
  part,  \* the part that runs
  column, tenant, pending, job, at, target, before, executed, recovered,  \* of Canary
  input, effect, generation, preparation, jobs, clicked, altered  \* of Pack

Canary ==
  INSTANCE CanaryRecovery WITH
    MaxMishaps <- CanaryMishaps, MaxRecoveries <- CanaryRecoveries, evidence <- recovered
Pack == INSTANCE EvidencePack

(* The Inputs of Pack: two audits of one request with different reports and a
   fixture, with terminal proofs that differ in the receipt alone; a status of the
   other report, a domain with a forbidden name, and a report over the limit. *)

FoundBy(rule, type) ==
  [ruleId |-> rule, type |-> type, subject |-> "d1", text |-> {}, raw |-> "raw"]
PackReport(scan, found) ==
  [scanId |-> scan, findings |-> found, narrative |-> {}, domains |-> {"plain"}, bytes |-> 1,
   provenance |-> "exact"]
LoadedAudit(id, source, of) ==
  [requestId |-> id, releaseSha |-> "v1", report |-> of, source |-> source]
Ended(a, receipt) ==
  [auditId |-> a.requestId, releaseSha |-> a.releaseSha, report |-> a.report, status |-> "SUCCEEDED",
   result |-> [outcome |-> "VERIFIED", proof |-> <<5, 7, "ELIGIBLE">>, receipt |-> receipt]]
GapAudit == LoadedAudit("a1", "live", PackReport("s1", {FoundBy("LINEAGE-GAP", "lineage_gap")}))
RuleAudit ==
  LoadedAudit("a1", "live", PackReport("s2", {FoundBy(r, "governance_violation") : r \in {"G1", "G6"}}))
Shown(a, s) == [audit |-> a, status |-> s]
PackInputs ==
  {Shown([GapAudit EXCEPT !.requestId = "a2", !.source = "fixture"], None),
   Shown(GapAudit, Ended(GapAudit, 1)), Shown(RuleAudit, Ended(RuleAudit, 2)),
   Shown(GapAudit, Ended(RuleAudit, 1)),
   Shown([GapAudit EXCEPT !.report.domains = {"forbidden"}], None),
   Shown([GapAudit EXCEPT !.report.bytes = 3], None)}

-----------------------------------------------------------------------------

proofVars == <<catalog, wire, phase, pc, files, plan, artifacts, evidence>>
canaryVars == <<column, tenant, pending, job, at, target, before, executed, recovered>>
packVars == <<input, effect, generation, preparation, jobs, clicked, altered>>
allVars == <<part, proofVars, canaryVars, packVars, counters>>

CanaryIdle ==
  /\ column = [t \in Canary!Tenants |-> [known |-> TRUE, schema |-> {}, editable |-> {}]]
  /\ tenant = "sealed" /\ target = "sealed" /\ pending = {}
  /\ job = "execute" /\ at = "propose"
  /\ before = {} /\ executed = FALSE /\ recovered = None

PackIdle ==
  /\ input = None /\ effect = FALSE /\ generation = 0 /\ preparation = None /\ jobs = {}
  /\ clicked = None /\ altered = 0

MCInit ==
  /\ Init
  /\ \/ part = "proof" /\ CanaryIdle /\ PackIdle
     \/ part = "canary" /\ Canary!Init /\ PackIdle
     \/ part = "pack" /\ CanaryIdle /\ Pack!Init

ProofStep(A) == part = "proof" /\ A /\ UNCHANGED <<part, canaryVars, packVars>>
CanaryStep(A) == part = "canary" /\ A /\ UNCHANGED <<part, proofVars, packVars>>

PackStep(A) == part = "pack" /\ A /\ UNCHANGED <<part, proofVars, canaryVars, counters>>

MCNext ==
  \/ ProofStep(Execute) \/ ProofStep(RollBack) \/ ProofStep(StartRecovery)
  \/ ProofStep(Mishap) \/ ProofStep(Lands) \/ ProofStep(Edit)
  \/ CanaryStep(Canary!Approve) \/ CanaryStep(Canary!SealProof)
  \/ CanaryStep(Canary!Resolve) \/ CanaryStep(Canary!ReadBoundManifest)
  \/ CanaryStep(Canary!ReadBefore) \/ CanaryStep(Canary!Connect)
  \/ CanaryStep(Canary!RemoveTag) \/ CanaryStep(Canary!CreateRecoveryEvidence)
  \/ CanaryStep(Canary!Mishap) \/ CanaryStep(Canary!Lands)
  \/ CanaryStep(Canary!Edit) \/ CanaryStep(Canary!Rebind)
  \/ PackStep(Pack!Render) \/ PackStep(Pack!Effect) \/ PackStep(Pack!Prepare)
  \/ PackStep(Pack!DownloadManifest) \/ PackStep(Pack!DownloadFile)
  \/ PackStep(\E j \in jobs : \E made \in {Pack!Build(j.input), None} : Pack!Built(j, made))
  \/ PackStep(\E j \in jobs : Pack!Checked(j))
  \/ PackStep(\E j \in jobs : Pack!Clicked(j))
  \/ PackStep(Pack!Alter)

\* The fairness of LiveProof.FairSpec.
MCSpec ==
  /\ MCInit /\ [][MCNext]_allVars
  /\ WF_allVars(ProofStep(Execute)) /\ WF_allVars(ProofStep(RollBack))
  /\ WF_allVars(ProofStep(StartRecovery))

\* A recovery's evidence holds what it promises (CanaryRecovery).
RecoveryIsExact == part = "canary" => Canary!RecoveryIsExact
\* A pack that is verified is of one report (EvidencePack).
VerifiedIsOnePack == part = "pack" => Pack!VerifiedIsOnePack
\* A file that is downloaded is of what is shown (EvidencePack).
DownloadIsOfShown == Pack!DownloadIsOfShown
=============================================================================
