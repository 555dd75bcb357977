---------------------------- MODULE AuditChecks ----------------------------
(***************************************************************************)
(* What one audit computes from a harvest that does not change under it:   *)
(* the consistency audit over facts and over the retained versions of an    *)
(* aspect, the governance rules G1 to G6, the blast radius of a finding,    *)
(* and the remediation planned for a G6 finding.  Pure operators; AuditRun  *)
(* runs them in the order of the pipeline.                                  *)
(***************************************************************************)
EXTENDS Integers, FiniteSets

CONSTANTS
  NDatasets,   \* datasets are 1 .. NDatasets, in the order of their urns
  Dangling,    \* an upstream that some datasets declare and DataHub cannot resolve
  Paths,       \* the columns of a dataset, numbers in the order of their names
  Sensitive,   \* the columns whose name looksSensitive
  Accepted,    \* the tags that classify a column
  PolicyTag,   \* classificationTagUrn of the trusted policy
  MaxHops,     \* maxHops of the blast radius
  MaxAssets,   \* maxAssets of the blast radius
  None         \* null

ASSUME ChecksAssumption ==
  /\ NDatasets \in Nat \ {0} /\ MaxHops \in Nat \ {0} /\ MaxAssets \in Nat \ {0}
  /\ Dangling \notin 1 .. NDatasets
  /\ Paths \subseteq Int /\ Sensitive \subseteq Paths
  /\ PolicyTag \in Accepted

Datasets == 1 .. NDatasets
Least(S) == CHOOSE x \in S : \A y \in S : x <= y

-----------------------------------------------------------------------------
(* Facts and the consistency audit *)

\* Identities of sources are pairs, so that no two kinds of them are confused.
Registry(pipeline) == <<"registry", pipeline>>
Named(pipeline) == <<"pipeline", pipeline>>
Unknown == <<"unknown-source", None>>

\* sourceOf: the run's entry in the ingestion registry outranks the pipeline name
\* that the aspect carries.
SourceOf(version) ==
  CASE version.listed -> Registry(version.writer)
    [] ~version.listed /\ version.name # None -> Named(version.name)
    [] OTHER -> Unknown

\* versionHistoryToFacts, for the versions of one aspect, oldest first.
HistoryFacts(versions) ==
  {[id |-> i, value |-> versions[i].value, source |-> SourceOf(versions[i]), at |-> versions[i].at] :
     i \in {j \in DOMAIN versions : versions[j].value # None}}

\* reportsToFacts: what the sources report of one attribute of one entity.
ReportFacts(reports) ==
  {[id |-> r.at, value |-> r.owner, source |-> r.source, at |-> r.at] :
     r \in {x \in reports : x.owner # None}}

Values(carriers) == {f.value : f \in carriers}

\* auditConsistency, for the carriers of one attribute of one subject.
Disagree(carriers, requireDistinctSources) ==
  /\ \E f, g \in carriers : f.value # g.value
  /\ requireDistinctSources => \E f, g \in carriers : f.source # g.source

\* latestOf and rule 3 of resolveContradiction, the only one that facts of a
\* harvest reach: they carry no importance and are all structured.
Later(f, g) == f.at > g.at \/ (f.at = g.at /\ f.id <= g.id)
LatestOf(facts) == CHOOSE f \in facts : \A g \in facts : Later(f, g)
ResolveContradiction(carriers) ==
  LatestOf({LatestOf({f \in carriers : f.value = v}) : v \in Values(carriers)})

-----------------------------------------------------------------------------
(* The governance rules, on the current view of an audited dataset *)

\* mergeLatest: the newest report is the current view.
Current(reports) == CHOOSE r \in reports : \A x \in reports : x.at <= r.at

G1(h, d) == Current(h.reports[d]).owner # None
G2(h, d) == "domain" \in h.aspects[d]
G3(h, d) == "description" \in h.aspects[d]

\* A direct consumer that is not deprecated itself.
G4(h, d) ==
  d \in h.deprecated =>
    \A node \in h.topology[d] : node.minHops = 1 => node.urn \in h.deprecated
G5(h, d) == \A p \in DOMAIN h.fields[d] : h.fields[d][p].typed

Classified(tags) == tags \cap Accepted # {}
Unclassified(h, d) ==
  {p \in DOMAIN h.fields[d] : p \in Sensitive /\ ~Classified(h.fields[d][p].tags)}
G6(h, d) == Unclassified(h, d) = {}

\* The rules that dataset d breaks (validateEntity).
Broken(h, d) ==
  {rule \in {"G1", "G2", "G3", "G4", "G5", "G6"} :
     ~CASE rule = "G1" -> G1(h, d)
        [] rule = "G2" -> G2(h, d)
        [] rule = "G3" -> G3(h, d)
        [] rule = "G4" -> G4(h, d)
        [] rule = "G5" -> G5(h, d)
        [] rule = "G6" -> G6(h, d)}

SeverityOf(rule) == IF rule \in {"G1", "G4", "G6"} THEN "high" ELSE "medium"

-----------------------------------------------------------------------------
(* The blast radius *)

\* deriveDownstreamByRoot: the datasets downstream of d, each with the hops at which
\* a breadth-first search first meets it; the live provider answers the same.
DeriveDownstream(graph, d) ==
  LET met[n \in 0 .. NDatasets] ==
        IF n = 0 THEN {d}
        ELSE {x \in Datasets : /\ graph[x] \cap met[n - 1] # {}
                               /\ \A m \in 0 .. n - 1 : x \notin met[m]}
  IN UNION {{[urn |-> x, minHops |-> n] : x \in met[n]} : n \in 1 .. NDatasets}

\* The audited datasets that declare u as an upstream, resolved or not.
Consumers(h, u) == {d \in h.roots : u \in h.upstream[d]}

\* computeBlastRadius: breadth first over the audited consumers; ring n holds the
\* assets first met at n hops.
Rings(h, root) ==
  LET ring[n \in 0 .. MaxHops] ==
        IF n = 0 THEN {root}
        ELSE {d \in h.roots : /\ h.upstream[d] \cap ring[n - 1] # {}
                              /\ \A m \in 0 .. n - 1 : d \notin ring[m]}
  IN ring

\* The audited consumers, by the hops at which the search met them.
Met(h, root) ==
  UNION {{[urn |-> d, minHops |-> n] : d \in Rings(h, root)[n]} : n \in 1 .. MaxHops}

\* Mutant: the topology of a consumer is not composed, so only audited assets
\* are met.
HopsUncomposed(h, root) == Met(h, root)

\* Every way to an asset with its length: those the search met, and through each
\* of them those of its proven topology.
Hops(h, root) ==
  Met(h, root) \cup
  UNION {{[urn |-> node.urn, minHops |-> c.minHops + node.minHops] : node \in h.topology[c.urn]} :
           c \in Met(h, root)}

\* The shortest ways within the bound.
Within(hops, root) ==
  {w \in hops : /\ w.minHops <= MaxHops /\ w.urn # root
                /\ \A x \in hops : x.urn = w.urn => w.minHops <= x.minHops}

\* The first MaxAssets in the order of compareImpacted.
Slice(assets) ==
  {a \in assets : Cardinality({x \in assets : \/ x.minHops < a.minHops
                                              \/ x.minHops = a.minHops /\ x.urn < a.urn}) < MaxAssets}

\* For an audited root its proven topology counts (fromProvenTopology), for a
\* dangling upstream the ways through its consumers.
BlastRadius(h, subject) ==
  LET hops == IF subject \in h.roots THEN h.topology[subject] ELSE Hops(h, subject)
      within == Within(hops, subject)
      cut == subject \notin h.roots /\ \E d \in Rings(h, subject)[MaxHops] : Consumers(h, d) # {}
  IN [assets |-> Slice(within),
      truncated |-> \/ cut \/ \E w \in hops : w.minHops > MaxHops
                    \/ Cardinality(within) > MaxAssets]

-----------------------------------------------------------------------------
(* The remediation of a G6 finding *)

\* Mutant: a tag that is there already is planned all the same.
PlanAnyTag(finding, column, before) ==
  IF column \in finding.fields
  THEN [entity |-> finding.subject, column |-> column, tag |-> PolicyTag,
        before |-> before, after |-> before \cup {PolicyTag}]
  ELSE None

\* planG6Remediation: the tags the column has now are the precondition, the
\* tag of the policy is added by the action and removed by its inverse.
PlanG6Remediation(finding, column, before) ==
  IF column \in finding.fields /\ PolicyTag \notin before
  THEN [entity |-> finding.subject, column |-> column, tag |-> PolicyTag,
        before |-> before, after |-> before \cup {PolicyTag}]
  ELSE None

AddTags(plan, tags) == tags \cup {plan.tag}
RemoveTags(plan, tags) == tags \ {plan.tag}
=============================================================================
