CONSTANTS
  r1 = r1  r2 = r2  h1 = h1
  Messages = {"first", "again"}
  Binding <- MCBinding
  Deciders = {"approve", "reject"}
  Handoffs = {h1}
  Requests = {r1, r2}
  Expiry = 2
  Lease = 1
  MaxTime = 3
  MaxDeliveries = 1
  MaxMishaps = 1
SPECIFICATION FairSpec
INVARIANT DecisionStands
PROPERTIES RecordIsFinal DecisionIsDelivered
CHECK_DEADLOCK FALSE
