------------------------------- MODULE MCAudit -------------------------------
(***************************************************************************)
(* The parts of an audit, each on small instances of its own: the live      *)
(* harvest (Live), the pipeline on a harvest (AuditRun), and the way of a   *)
(* report to the page (Contract).  A behaviour is one of them, chosen at    *)
(* the start; the variables of the others are idle, and two of them that    *)
(* have a variable of one name share it.                                    *)
(***************************************************************************)
EXTENDS AuditRun, Sequences, TLC

CONSTANTS
  Fields, PageSize, MaxEntities, Included, FieldPage, MaxFieldPages, MaxFields, MaxResults,
  MaxRelations, MaxVersions, Concurrency, MaxEdits  \* of Live

VARIABLES
  part,  \* the part that runs
  catalog, phase, roots, total, entity, answers, history, seen,  \* of Live, with edits
  runtime, narration, report, public, page            \* of Contract, with catalog and stage

runVars == <<harvest, stage, tags, plan>>
liveVars == <<phase, roots, total, entity, answers, history, seen>>
contractVars == <<runtime, narration, report, public, page>>
allVars == <<auditVars, part, catalog, liveVars, contractVars>>

-----------------------------------------------------------------------------
(* Two datasets that exist, one that derives from the other; the same with a
   dangling upstream; two that match the query, without lineage; and one with
   nothing but a history. *)

Lineage ==
  [matching |-> {1}, existing |-> {1, 2},
   declared |-> [d \in Datasets |-> IF d = 1 THEN {2} ELSE {}],
   schema |-> [d \in Datasets |-> IF d = 1 THEN {1, 3} ELSE {}],
   writes |-> [d \in Datasets |-> 0]]
Isolated == [Lineage EXCEPT !.declared[1] = {}, !.schema[1] = {}]
LiveCatalogs ==
  {Lineage, [Lineage EXCEPT !.existing = {1}],
   [Isolated EXCEPT !.matching = {1, 2}], [Isolated EXCEPT !.existing = {1}, !.writes[1] = 2]}

Live == INSTANCE CatalogHarvest WITH Catalogs <- LiveCatalogs

(* The reports of Contract: one finding whose texts have one peculiarity, or none,
   and answers of the provider that lack one of their parts. *)

Texts == {{}} \cup {{mark} : mark \in {"break", "control", "secret", "wide", "huge"}}
Carrier(id, at, source) == [id |-> id, at |-> at, source |-> source]
Cluster(value, facts) == [value |-> value, facts |-> facts]

\* Two values; the first may have been recorded again later, or at the same time.
FoundContradictions ==
  {[kind |-> "contradiction", subject |-> u, reached |-> {{}},
    clusters |-> {Cluster(v, {Carrier(1, 1, s)} \cup again), Cluster({"other"}, {Carrier(2, at, {})})}] :
     u \in {{}, {"wide"}}, v \in Texts, s \in Texts \cup {None}, at \in {1, 2},
     again \in {{}, {Carrier(3, 3, {})}}}
FoundGaps ==
  {[kind |-> "gap", subject |-> u, reached |-> r] : u \in Texts, r \in {{}, {{}}, {{"break"}}}}
FoundRules ==
  {[kind |-> "rule", subject |-> {}, reached |-> {}, fields |-> {{}, f}] : f \in Texts}
Plans == {[subject |-> {}, tags |-> {t}] : t \in Texts}
FoundCatalogs ==
  {[findings |-> {f}, domains |-> {{}}, plan |-> None] : f \in FoundContradictions \cup FoundGaps}
    \cup {[findings |-> {f, g}, domains |-> {d}, plan |-> p] :
            f \in FoundRules, g \in {x \in FoundGaps : x.reached = {} /\ x.subject \in {{}, {"break"}}},
            d \in Texts, p \in Plans \cup {None}}

ModelReplies ==
  {[content |-> c, id |-> i, model |-> m, usage |-> u, latency |-> l] :
     c \in {None, {}} \cup {{mark} : mark \in {"break", "control", "secret", "huge"}},
     i \in {"id", "url"}, m \in {"id", None}, u \in {None, "sums", "off"}, l \in {"within", "beyond"}}
ModelRuntimes ==
  {[source |-> s, model |-> m] : s \in {"deterministic-fixture", "live-provider"}, m \in {"id", "url"}}

Contract == INSTANCE ReportContract WITH
  Catalogs <- FoundCatalogs, Replies <- ModelReplies, Runtimes <- ModelRuntimes

ASSUME Live!HarvestAssumption

-----------------------------------------------------------------------------
(* The harvests of AuditRun: every lineage of three datasets with every set of
   audited ones, the columns of two, and every history of up to three versions. *)

Says(source, at, owner) == [source |-> source, at |-> at, owner |-> owner]

Built(graph, scope, deprecated, aspects, fields, reports, versions) ==
  [graph |-> graph, roots |-> scope, deprecated |-> deprecated,
   upstream |-> [d \in scope |-> graph[d]],
   topology |-> [d \in scope |-> DeriveDownstream(graph, d)],
   aspects |-> [d \in scope |-> aspects], fields |-> [d \in scope |-> fields[d]],
   reports |-> [d \in scope |-> reports], versions |-> versions]

Graphs == {g \in [Datasets -> SUBSET (Datasets \cup {Dangling})] : \A d \in Datasets : d \notin g[d]}
NoEdges == [d \in Datasets |-> {}]
Whole == {"domain", "description"}
Empty == [p \in {} |-> None]
Bare == [d \in Datasets |-> Empty]
One == {Says("live", 1, "a")}

GraphHarvests ==
  {Built(g, r, x, Whole, Bare, {Says("live", 1, None)}, [y \in {} |-> <<>>]) :
     g \in Graphs, r \in (SUBSET Datasets) \ {{}}, x \in {{}, {1}}}

FieldValues == {[typed |-> b, tags |-> t] : b \in BOOLEAN, t \in SUBSET Accepted}
FieldHarvests ==
  {Built(NoEdges, {1, 2}, {}, {"domain"}, [d \in Datasets |-> IF d = 1 THEN f ELSE g], One, [y \in {} |-> <<>>]) :
     f \in [Paths -> FieldValues], g \in [{1} -> FieldValues]}

\* The name that stays on an aspect is its first writer's, "p".
Versions ==
  {v \in [value: {"a", "b", None}, writer: {"p", "q"}, listed: BOOLEAN, name: {"p", None}] :
     v.listed => v.name = None}
Histories == UNION {[1 .. n -> Versions] : n \in 0 .. 3}
Timed(h) == [i \in DOMAIN h |-> h[i] @@ [at |-> i]]
HistoryHarvests ==
  {Built(NoEdges, {1}, {}, Whole, Bare, reports,
           [y \in {<<1, "owner">>} |-> Timed(h)]) : h \in Histories,
      reports \in {One, {Says("x", 1, "a"), Says("y", 2, "b")}}}

MCHarvests == GraphHarvests \cup FieldHarvests \cup HistoryHarvests

-----------------------------------------------------------------------------

RunIdle == harvest = None /\ stage = "idle" /\ tags = None /\ plan = None
LiveIdle ==
  /\ phase = "idle" /\ roots = None /\ total = None /\ entity = None /\ answers = None
  /\ history = None /\ seen = None
ContractIdle ==
  runtime = None /\ narration = None /\ report = None /\ public = None /\ page = None

MCInit ==
  \/ part = "run" /\ AuditInit /\ LiveIdle /\ ContractIdle /\ catalog = None
  \/ part = "live" /\ Live!Init /\ RunIdle /\ ContractIdle /\ findings = {}
  \/ /\ part = "contract" /\ Contract!Init /\ LiveIdle /\ edits = 0
     /\ findings = {} /\ harvest = None /\ tags = None /\ plan = None

RunStep(A) ==
  part = "run" /\ A /\ UNCHANGED <<part, catalog, liveVars, contractVars>>
LiveStep(A) ==
  part = "live" /\ A /\ UNCHANGED <<part, findings, runVars, contractVars>>
ContractStep(A) ==
  /\ part = "contract" /\ A
  /\ UNCHANGED <<part, edits, findings, harvest, tags, plan, liveVars>>

RunNext ==
  \/ RunStep(Analyze)
  \/ RunStep(Assemble)
  \/ RunStep(Report)
  \/ RunStep(Plan)
  \/ RunStep(PlanFails)
  \/ RunStep(Fail)
  \/ RunStep(\E c \in Columns : TagEdit(c))

LiveNext ==
  \/ LiveStep(Live!SearchPage)
  \/ LiveStep(Live!Hydrate)
  \/ LiveStep(\E r \in Live!Found : Live!FieldsPage(r))
  \/ LiveStep(\E r \in Live!Found : Live!ReadSlot(r))
  \/ LiveStep(\E t \in Live!Work : Live!ReadTask(t))
  \/ LiveStep(Live!Finish)
  \/ LiveStep(Live!Fail)
  \/ LiveStep(Live!Edits)

ContractNext ==
  \/ ContractStep(\E reply \in ModelReplies : Contract!Narrate(reply))
  \/ ContractStep(Contract!Assemble)
  \/ ContractStep(Contract!Preview)
  \/ ContractStep(Contract!Serve)
  \/ ContractStep(Contract!Show)

MCNext == RunNext \/ LiveNext \/ ContractNext

MCSpec == MCInit /\ [][MCNext]_allVars

\* What an accepted harvest has of the catalog: its pages, the lineage that stood and
\* histories without a gap (CatalogHarvest).
HarvestIsFaithful == Live!HarvestIsFaithful
\* A report that is accepted is shown, as it is (ReportContract).
ReportIsKept == Contract!ReportIsKept
=============================================================================
