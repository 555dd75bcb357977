CONSTANTS
  w1 = w1  w2 = w2  k1 = k1  k2 = k2  a1 = a1  tagP = tagP  tagX = tagX
  Workers = {w1, w2}
  Keys = {k1, k2}
  Approvals = {a1}
  NoKey = NoKey
  ApprovalOf <- MCApprovalOf
  Approved = {k1}
  ExpiresAt <- MCExpiresAt
  LeaseTime = 1
  MaxClock = 2
  Tags = {tagP, tagX}
  BeforeTags = {}
  PolicyTag = tagP
  MaxExternal = 1
  Catalogs <- MCCatalogs
  Contradictions <- MCContradictions
  Violations <- MCViolations
  Asked = 7
  None = None
  Window = 2
  MaxClockSkew = 1
  MaxTime = 3
  MaxAlterings = 2
  MaxFaults = 1
SYMMETRY Symmetry
SPECIFICATION MCSpec
INVARIANTS ReceiptOfLastOwner AuthorizedWrites ReceiptsAreTruthful DoneIsReported HonestIsShown
  ShownIsEarned
PROPERTY ImplementsOnceOnly
