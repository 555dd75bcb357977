------------------------------ MODULE AuditLoop ------------------------------
(***************************************************************************)
(* AuditLoop.run: a language model chooses one tool per step, read-only     *)
(* tools add findings, a terminal tool or a guard ends the run with a      *)
(* pending report.  The model may answer anything; the catalog may change  *)
(* between the reads of DataHub.                                           *)
(***************************************************************************)
EXTENDS Naturals, Sequences, FiniteSets

CONSTANTS
  Catalogs,        \* what DataHub may hold
  Contradictions,  \* [Catalogs -> set of findings of the consistency audit]
  Violations,      \* [Catalogs -> set of findings of the governance audit]
  Asked            \* the maxSteps option

\* What the constants are (the instance assumes it).
LoopAssumption ==
  /\ Asked \in Nat
  /\ \A c \in Catalogs : IsFiniteSet(Contradictions[c]) /\ IsFiniteSet(Violations[c])

SetMin(a, b) == IF a < b THEN a ELSE b
SetMax(a, b) == IF a > b THEN a ELSE b

\* The constructor's clamp.
MaxSteps == SetMin(12, SetMax(3, Asked))

VARIABLES
  catalog,    \* what DataHub holds
  snapshot,   \* the catalog of the last harvest, "none" before
  audited,    \* the audits done
  findings,   \* the batches of findings pushed, in order
  trace,      \* the tools run, in order
  steps,      \* model calls made
  noProgress, \* useless steps
  stop        \* stopReason, "" while running

vars == <<catalog, snapshot, audited, findings, trace, steps, noProgress, stop>>

Audits == {"consistency", "governance"}
Reads == Audits \cup {"harvest"}
Stops == {"emitted_findings", "no_progress_fallback", "max_steps_fallback", "error"}
Found(tool, c) == IF tool = "consistency" THEN Contradictions[c] ELSE Violations[c]

Size(batches) ==
  LET total[i \in 0 .. Len(batches)] ==
        IF i = 0 THEN 0 ELSE total[i - 1] + Cardinality(batches[i].found)
  IN total[Len(batches)]

TypeOK ==
  /\ catalog \in Catalogs
  /\ snapshot \in Catalogs \cup {"none"}
  /\ audited \subseteq Audits
  /\ Len(findings) <= Len(trace) /\ Len(trace) <= steps
  /\ steps \in 0 .. MaxSteps
  /\ noProgress \in 0 .. 2
  /\ stop \in Stops \cup {""}
  /\ noProgress = 2 => stop = "no_progress_fallback"

Init ==
  /\ catalog \in Catalogs
  /\ snapshot = "none"
  /\ audited = {}
  /\ findings = <<>>
  /\ trace = <<>>
  /\ steps = 0
  /\ noProgress = 0
  /\ stop = ""

Signature == <<snapshot # "none", audited, Size(findings)>>

-----------------------------------------------------------------------------

\* The end of an iteration that did not end the run by itself.
Advance(useful) ==
  /\ noProgress' = IF useful THEN noProgress ELSE noProgress + 1
  /\ steps' = steps + 1
  /\ stop' = IF ~useful /\ noProgress' >= 2 THEN "no_progress_fallback"
             ELSE IF steps' = MaxSteps THEN "max_steps_fallback"
             ELSE ""

\* Mutant: an audit before the harvest counts as done.
ExecuteEarly(tool) ==
  /\ audited' = audited \cup ({tool} \cap Audits)
  /\ snapshot' = IF tool = "harvest" THEN catalog ELSE snapshot
  /\ findings' = IF tool = "harvest" \/ snapshot = "none" THEN findings
                 ELSE Append(findings, [tool |-> tool, at |-> snapshot,
                                        found |-> Found(tool, snapshot)])

\* execute: an audit before the harvest is refused, and is traced all the same.
Execute(tool) ==
  \/ /\ tool = "harvest"
     /\ snapshot' = catalog
     /\ UNCHANGED <<audited, findings>>
  \/ /\ tool \in Audits /\ snapshot # "none"
     /\ findings' = Append(findings, [tool |-> tool, at |-> snapshot,
                                      found |-> Found(tool, snapshot)])
     /\ audited' = audited \cup {tool}
     /\ UNCHANGED snapshot
  \/ /\ tool \in Audits /\ snapshot = "none"
     /\ UNCHANGED <<snapshot, audited, findings>>

Read(tool) ==
  /\ stop = ""
  /\ Execute(tool)
  /\ trace' = Append(trace, tool)
  /\ Advance(Signature' # Signature)
  /\ UNCHANGED catalog

\* No tool call, or a tool that does not exist.
Unusable ==
  /\ stop = ""
  /\ Advance(FALSE)
  /\ UNCHANGED <<catalog, snapshot, audited, findings, trace>>

Emit ==
  /\ stop = ""
  /\ stop' = "emitted_findings"
  /\ steps' = steps + 1
  /\ UNCHANGED <<catalog, snapshot, audited, findings, trace, noProgress>>

Escalate ==
  /\ stop = ""
  /\ stop' = "no_progress_fallback"
  /\ steps' = steps + 1
  /\ UNCHANGED <<catalog, snapshot, audited, findings, trace, noProgress>>

\* The model call or the harvest throws: the run has no report.
Throw ==
  /\ stop = ""
  /\ stop' = "error"
  /\ steps' = steps + 1
  /\ UNCHANGED <<catalog, snapshot, audited, findings, trace, noProgress>>

CatalogChange ==
  /\ stop = ""
  /\ catalog' \in Catalogs \ {catalog}
  /\ UNCHANGED <<snapshot, audited, findings, trace, steps, noProgress, stop>>

Next ==
  \/ \E tool \in Reads : Read(tool)
  \/ Unusable \/ Emit \/ Escalate \/ Throw
  \/ CatalogChange

Spec == Init /\ [][Next]_vars

-----------------------------------------------------------------------------
(* Properties *)

\* An audit that the report counts as done is reported in full, for a catalog
\* that this run harvested (execute reads state.snapshot and state.facts of the
\* last harvest).
DoneIsReported ==
  \A tool \in audited : \E i \in DOMAIN findings :
    /\ findings[i].tool = tool
    /\ findings[i].found = Found(tool, findings[i].at)
    /\ \E j \in DOMAIN trace : trace[j] = "harvest"

\* The findings of one report are of one harvest.  The code does not keep it: a
\* second harvest between the two audits replaces the snapshot that execute reads.
FindingsAreOfOneHarvest ==
  \A i, j \in DOMAIN findings : findings[i].at = findings[j].at

\* "re-ran an already-done read tool -> no new evidence": a step that repeats a
\* completed audit counts as one without progress.
RerunIsNoProgress ==
  [][\A tool \in audited : trace' = Append(trace, tool) => noProgress' = noProgress + 1]_trace
=============================================================================
