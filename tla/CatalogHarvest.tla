--------------------------- MODULE CatalogHarvest ---------------------------
(***************************************************************************)
(* One live harvest (LiveDataHubMcpClient.harvestAudit): a search fixes    *)
(* the audited roots page by page; then three strands read at the same     *)
(* time, each with a bounded number of requests in flight: the entities    *)
(* with their schemas, the resolved lineage, and the aspects read          *)
(* directly, which are the declared upstreams and the versions slot by     *)
(* slot.  Every read sees the catalog of its own instant while others edit *)
(* it; the harvest is accepted whole or rejected.                          *)
(***************************************************************************)
EXTENDS Integers, FiniteSets, SequencesExt

CONSTANTS
  NDatasets,             \* datasets are 1 .. NDatasets, in the order search lists them
  Fields,           \* schema fields, in the order they are listed
  Catalogs,         \* what DataHub may hold at the start
  MaxEdits,         \* bound on the edits by others
  PageSize,         \* SEARCH_PAGE_SIZE
  MaxEntities,      \* policy.maxEntities
  Included,         \* fields get_entities includes before it truncates
  FieldPage,        \* policy.schemaFieldPageSize
  MaxFieldPages,    \* policy.maxSchemaFieldPages
  MaxFields,        \* policy.maxSchemaFieldsPerEntity
  MaxResults,       \* policy.maxLineageResultsPerDirection
  MaxRelations,     \* policy.maxLineageRelations
  MaxVersions,      \* policy.maxHistoricalVersions
  Concurrency       \* requests in flight in each strand

\* MCAudit assumes it for its instance.
HarvestAssumption ==
  /\ {NDatasets, PageSize, FieldPage, MaxVersions, Concurrency} \subseteq Nat \ {0}
  /\ {MaxEntities, Included, MaxFieldPages, MaxFields, MaxResults, MaxRelations,
      MaxEdits} \subseteq Nat
  /\ Fields \subseteq Int

Datasets == 1 .. NDatasets

\* matching: what the query finds; existing: what can be read; declared: the
\* upstreamLineage aspects, which may name datasets that do not exist; schema:
\* the fields; writes: the versions written of the audited aspect.
CatalogType ==
  [matching: SUBSET Datasets, existing: SUBSET Datasets,
   declared: [Datasets -> SUBSET Datasets],
   schema: [Datasets -> SUBSET Fields], writes: [Datasets -> Nat]]

VARIABLES
  catalog,    \* what DataHub holds
  edits,      \* the edits made
  phase,      \* "search", "read", "accepted" or "rejected"
  roots,      \* urns found, in order
  total,      \* declaredTotal, -1 before the first page
  entity,     \* [root -> the fields read of its schema], empty before get_entities
  answers,    \* [task -> datasets], the lineage and declaration reads done
  history,    \* [root -> the slots read of its aspect]
  seen        \* auxiliary: what stood all along, what ever was, what pages hid

vars == <<catalog, edits, phase, roots, total, entity, answers, history, seen>>

Ascending(S) == SetToSortSeq(S, <)
Slice(S, offset, size) ==
  SubSeq(Ascending(S), offset + 1, Min({Cardinality(S), offset + size}))
Edges(c) == {e \in Datasets \X Datasets : e[2] \in c.declared[e[1]]}
Found == Range(roots)

TypeOK ==
  /\ catalog \in CatalogType
  /\ edits \in 0 .. MaxEdits
  /\ phase \in {"search", "read", "accepted", "rejected"}
  /\ Found \subseteq Datasets /\ Len(roots) <= MaxEntities
  /\ total \in -1 .. MaxEntities
  /\ DOMAIN entity \subseteq Found /\ DOMAIN history \subseteq Found
  /\ \A r \in DOMAIN history : Cardinality(history[r].versions) <= history[r].next

Init ==
  /\ catalog \in Catalogs
  /\ edits = 0
  /\ phase = "search"
  /\ roots = <<>> /\ total = -1
  /\ entity = <<>> /\ answers = <<>> /\ history = <<>>
  /\ seen = [stood |-> Edges(catalog), were |-> Edges(catalog),
             existed |-> catalog.existing, existedOnce |-> catalog.existing,
             listing |-> {}, search |-> FALSE, schema |-> {}]

Reject ==
  /\ phase' = "rejected"
  /\ UNCHANGED <<catalog, edits, roots, total, entity, answers, history, seen>>

-----------------------------------------------------------------------------
(* The search *)

\* A page comes from another list than the first one did, and of its length.
Unnoticed(list, first) == list # first /\ Cardinality(list) = Cardinality(first)

\* mapSearchPageStrict and the checks of searchWithinPolicy.
PageAccepted(page, count) ==
  /\ count <= MaxEntities
  /\ Len(roots) + Len(page) <= count
  /\ total \in {-1, count}
  /\ page = <<>> => Len(roots) >= count
  /\ Range(page) \cap Found = {}

SearchPage ==
  LET page == Slice(catalog.matching, Len(roots), PageSize)
      count == Cardinality(catalog.matching)
  IN /\ phase = "search"
     /\ IF ~PageAccepted(page, count) THEN Reject
        ELSE /\ roots' = roots \o page
             /\ total' = IF total = -1 THEN count ELSE total
             /\ phase' = IF Len(roots') = total' THEN "read" ELSE "search"
             /\ seen' = IF total = -1 THEN [seen EXCEPT !.listing = catalog.matching]
                      ELSE [seen EXCEPT !.search = @ \/ Unnoticed(catalog.matching, seen.listing)]
             /\ UNCHANGED <<catalog, edits, entity, answers, history>>

-----------------------------------------------------------------------------
(* The three strands *)

\* mapWithConcurrency: workers take the tasks in order, so those in flight are
\* the first that are not done.
InFlight(work, done) ==
  {work[i] : i \in {j \in DOMAIN work : work[j] \notin done
                       /\ j <= Cardinality(done \cap Range(work)) + Concurrency}}

\* The work list of a strand: two tasks for each root.
Tasks(first, second) ==
  [i \in 1 .. 2 * Len(roots) |->
     <<IF i % 2 = 1 THEN first ELSE second, roots[(i + 1) \div 2]>>]
LineageTasks == Tasks("upstream", "downstream")
DirectTasks == Tasks("declared", "history")

Closed(r) == r \in DOMAIN history /\ history[r].closed
Whole(r) == r \in DOMAIN entity /\ Len(entity[r].fields) = entity[r].count
DirectDone == DOMAIN answers \cup {<<"history", r>> : r \in {x \in Found : Closed(x)}}

\* orderedEntitiesStrict: an answer in which one of the roots is missing is refused.
EntitiesAccepted == Found \subseteq catalog.existing

\* get_entities for all roots at once; schemaCompletionRequirement.
Hydrate ==
  /\ phase = "read" /\ entity = <<>> /\ roots # <<>>
  /\ IF \/ ~EntitiesAccepted
        \/ \E r \in Found : Cardinality(catalog.schema[r]) > MaxFields
     THEN Reject
     ELSE /\ entity' = [r \in Found |->
               LET whole == catalog.schema[r]
               IN [fields |-> IF Cardinality(whole) <= Included THEN Ascending(whole) ELSE <<>>,
                   count |-> Cardinality(whole), pages |-> 0, was |-> whole]]
          /\ UNCHANGED <<catalog, edits, phase, roots, total, answers, history, seen>>

\* Mutant: a schema that changed its size is read on to the size it had.
FieldsAcceptedAnyTotal(r, page, count) ==
  /\ r \in catalog.existing
  /\ count <= MaxFields
  /\ entity[r].pages < MaxFieldPages
  /\ page # <<>>
  /\ Range(page) \cap Range(entity[r].fields) = {}

\* mapSchemaFieldPageStrict and the checks of completeSchemaWithinPolicy.
FieldsAccepted(r, page, count) ==
  /\ r \in catalog.existing
  /\ count <= MaxFields
  /\ count = entity[r].count
  /\ entity[r].pages < MaxFieldPages
  /\ page # <<>>
  /\ Range(page) \cap Range(entity[r].fields) = {}

\* list_schema_fields, for the entities in order.
FieldsPage(r) ==
  LET read == entity[r].fields
      page == Slice(catalog.schema[r], Len(read), FieldPage)
  IN /\ phase = "read" /\ r \in DOMAIN entity
     /\ r \in InFlight(roots, {x \in Found : Whole(x)})
     /\ IF ~FieldsAccepted(r, page, Cardinality(catalog.schema[r])) THEN Reject
        ELSE /\ entity' = [entity EXCEPT ![r].fields = @ \o page, ![r].pages = @ + 1]
             /\ seen' = IF Unnoticed(catalog.schema[r], entity[r].was)
                        THEN [seen EXCEPT !.schema = @ \cup {r}] ELSE seen
             /\ UNCHANGED <<catalog, edits, phase, roots, total, answers, history>>

\* Datasets that are derived from d, at any distance (searchAcrossLineage).
Downstream(d) ==
  LET reach[n \in 0 .. NDatasets] ==
        IF n = 0 THEN {d}
        ELSE reach[n - 1] \cup {x \in catalog.existing :
                                  catalog.declared[x] \cap reach[n - 1] # {}}
  IN reach[NDatasets] \ {d}

Answer(task) ==
  CASE task[1] = "upstream" -> catalog.declared[task[2]] \cap catalog.existing
    [] task[1] = "downstream" -> Downstream(task[2])
    [] task[1] = "declared" -> catalog.declared[task[2]]

\* getUpstreamLineageWithinPolicy, getDownstreamTopologyWithinPolicy and
\* readCurrentUpstreamLineage: one request each.
ReadTask(task) ==
  /\ phase = "read"
  /\ task \in InFlight(LineageTasks, DOMAIN answers) \cup InFlight(DirectTasks, DirectDone)
  /\ task[1] # "history"
  /\ IF Cardinality(Answer(task)) > MaxResults THEN Reject
     ELSE /\ answers' = answers @@ (task :> Answer(task))
          /\ UNCHANGED <<catalog, edits, phase, roots, total, entity, history, seen>>

\* Slot 0 is the current version, slot k the one k writes before it.
InSlot(r, slot) == catalog.writes[r] - slot

\* The first 404 ends the history.
EndOfHistory(r, slot) == InSlot(r, slot) < 1

\* One request of readAspectVersionHistory; dedupeAndOrder drops a version that
\* a write in between moved to the next slot.
ReadSlot(r) ==
  LET known == IF r \in DOMAIN history THEN history[r]
               ELSE [current |-> catalog.writes[r], next |-> 0, versions |-> {}, closed |-> FALSE]
      slot == known.next
      read == IF EndOfHistory(r, slot) THEN [known EXCEPT !.closed = TRUE]
              ELSE [known EXCEPT !.next = slot + 1, !.versions = @ \cup {InSlot(r, slot)}]
  IN /\ phase = "read"
     /\ <<"history", r>> \in InFlight(DirectTasks, DirectDone)
     /\ IF ~EndOfHistory(r, slot) /\ slot > MaxVersions THEN Reject
        ELSE /\ history' = (r :> read) @@ history
             /\ UNCHANGED <<catalog, edits, phase, roots, total, entity, answers, seen>>

\* A request fails or times out, the answer is malformed, or the harvest's
\* deadline passes (waitWithinDeadline).
Fail == phase \in {"search", "read"} /\ Reject

-----------------------------------------------------------------------------
(* Acceptance *)

\* reconcileUpstreamEdgesStrict: a declared upstream is resolved when the
\* lineage search returned it.
Resolved(r, upstream) == upstream \in answers[<<"upstream", r>>]

Upstreams(r) == [u \in answers[<<"declared", r>>] |-> Resolved(r, u)]

Relations ==
  LET sizes == [t \in {x \in DOMAIN answers : x[1] # "upstream"} |-> Cardinality(answers[t])]
  IN FoldFunction(+, 0, sizes)

Finish ==
  /\ phase = "read"
  /\ \A r \in Found : Whole(r) /\ Closed(r)
  /\ Range(LineageTasks) \subseteq DOMAIN answers
  /\ \A r \in Found : <<"declared", r>> \in DOMAIN answers
  /\ IF \/ \E r \in Found : ~(answers[<<"upstream", r>>] \subseteq answers[<<"declared", r>>])
        \/ Relations > MaxRelations
     THEN Reject
     ELSE /\ phase' = "accepted"
          /\ UNCHANGED <<catalog, edits, roots, total, entity, answers, history, seen>>

-----------------------------------------------------------------------------
(* Edits by others *)

\* What the auxiliary variable remembers of the edit to c.
Remember(c) ==
  [seen EXCEPT
     !.stood = @ \cap Edges(c), !.were = @ \cup Edges(c),
     !.existed = @ \cap c.existing, !.existedOnce = @ \cup c.existing]

Edit(c) ==
  /\ phase \in {"search", "read"} /\ edits < MaxEdits
  /\ c # catalog
  /\ catalog' = c
  /\ edits' = edits + 1
  /\ seen' = Remember(c)
  /\ UNCHANGED <<phase, roots, total, entity, answers, history>>

\* A dataset is renamed, so that the query finds it or no longer does.
Rename(d) ==
  /\ d \in catalog.existing
  /\ Edit([catalog EXCEPT !.matching = IF d \in @ THEN @ \ {d} ELSE @ \cup {d}])

Create(d) ==
  /\ d \notin catalog.existing
  /\ Edit([catalog EXCEPT !.existing = @ \cup {d}, !.matching = @ \cup {d}])

Delete(d) ==
  /\ d \in catalog.existing
  /\ Edit([catalog EXCEPT !.existing = @ \ {d}, !.matching = @ \ {d},
                          !.declared[d] = {}, !.schema[d] = {}, !.writes[d] = 0])

Declare(d, upstream) ==
  /\ d \in catalog.existing
  /\ Edit([catalog EXCEPT !.declared[d] =
             IF upstream \in @ THEN @ \ {upstream} ELSE @ \cup {upstream}])

ReplaceSchema(d, fields) ==
  /\ d \in catalog.existing
  /\ Edit([catalog EXCEPT !.schema[d] = fields])

WriteAspect(d) ==
  /\ d \in catalog.existing
  /\ Edit([catalog EXCEPT !.writes[d] = @ + 1])

Work == Range(LineageTasks) \cup Range(DirectTasks)

Edits ==
  \/ \E d \in Datasets : Rename(d) \/ Create(d) \/ Delete(d) \/ WriteAspect(d)
  \/ \E d, upstream \in Datasets : Declare(d, upstream)
  \/ \E d \in Datasets, fields \in SUBSET Fields : ReplaceSchema(d, fields)

Next ==
  \/ SearchPage \/ Hydrate \/ Finish \/ Fail \/ Edits
  \/ \E r \in Found : FieldsPage(r) \/ ReadSlot(r)
  \/ \E task \in Work : ReadTask(task)

Spec == Init /\ [][Next]_vars

-----------------------------------------------------------------------------
(* Properties *)

\* "Returning a convenient prefix would make a partial catalog appear complete"
\* (mapSearchPageStrict): an accepted harvest has exactly the datasets and the
\* fields there were when their first page was read, unless a later page came
\* from another list of the same length, which no page can show; and even then
\* as many different datasets as the first page declared.
PagesAreExact ==
  phase = "accepted" =>
    /\ Cardinality(Found) = Cardinality(seen.listing)
    /\ ~seen.search => Found = seen.listing
    /\ \A r \in Found \ seen.schema : Range(entity[r].fields) = entity[r].was

\* A lineage gap that the audit reports is one: an edge that stood during the
\* whole harvest is in it, as resolved when its upstream existed all along and as
\* unresolved when it never did, and no edge is in it that never was
\* (reconcileUpstreamEdgesStrict on two reads of different instants).
StandingEdges ==
  phase = "accepted" => \A r \in Found :
    /\ \A u \in DOMAIN Upstreams(r) : <<r, u>> \in seen.were
    /\ \A u \in Datasets : <<r, u>> \in seen.stood =>
         /\ u \in DOMAIN Upstreams(r)
         /\ u \in seen.existed => Upstreams(r)[u]
         /\ u \notin seen.existedOnce => ~Upstreams(r)[u]
    /\ \A x \in seen.existed \ {r} : <<x, r>> \in seen.stood => x \in answers[<<"downstream", r>>]

\* "refusing a partial audit" (readAspectVersionHistory): the history of a root
\* that was not deleted has no gap and reaches back to the first version, from
\* the version that was current when it was read or a later one, although every
\* write moves all versions on by a slot.
HistoryHasNoGap ==
  phase = "accepted" => \A r \in Found \cap seen.existed :
    \E latest \in history[r].current .. catalog.writes[r] :
      history[r].versions = 1 .. latest

\* An accepted harvest is all of these: exact pages, the edges that stood, and
\* histories without a gap (LiveDataHubMcpClient.harvestWithinPolicy).
HarvestIsFaithful == PagesAreExact /\ StandingEdges /\ HistoryHasNoGap
=============================================================================
