CONSTANTS
  None = None
  NDatasets = 3
  Dangling = 0
  Paths = {1, 2}
  Sensitive = {1, 2}
  Accepted = {"policy", "term"}
  PolicyTag = "policy"
  MaxHops = 2
  MaxAssets = 2
  Harvests <- MCHarvests
  MaxTagEdits = 1
  Fields = {1, 2, 3}
  MaxEdits = 2
  PageSize = 1
  MaxEntities = 2
  Included = 1
  FieldPage = 1
  MaxFieldPages = 3
  MaxFields = 3
  MaxResults = 2
  MaxRelations = 3
  MaxVersions = 2
  Concurrency = 2
SPECIFICATION MCSpec
INVARIANTS FindingsAreReal PlanIsReversible
  HarvestIsFaithful ReportIsKept
CHECK_DEADLOCK FALSE
