CONSTANTS
  Tags = {pii, other}
  PII = pii
  IsoDefined = TRUE
  MaxClock = 2
  MaxMishaps = 2
  Clients = {c1}
  Window = 2
  AuthTime = 2
  MaxDeliveries = 2
SPECIFICATION FairSpec
INVARIANTS WriteIsApproved ReceiptsAreEarned
PROPERTIES EndedIsFinal StatusFollows ApprovedRunConcludes
CHECK_DEADLOCK FALSE
