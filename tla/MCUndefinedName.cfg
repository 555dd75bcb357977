CONSTANTS
  Tags = {pii}
  PII = pii
  IsoDefined = FALSE
  MaxClock = 2
  MaxMishaps = 0
  Clients = {c1}
  Window = 2
  AuthTime = 2
  MaxDeliveries = 2
SPECIFICATION Spec
INVARIANT SentIsNotFailed
CHECK_DEADLOCK FALSE
