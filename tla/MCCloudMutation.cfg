CONSTANTS
  ExecTime = 1
  LeaseTime = 3
  Window = 2
  ApprovalTime = 3
  MaxRetries = 2
  MaxTime = 4
  MaxMishaps = 2
  MaxEdits = 1
SPECIFICATION Spec
INVARIANTS AtMostOnce ReceiptsAreTrue LateResetIsLasting
PROPERTY NothingIsLate
CHECK_DEADLOCK FALSE
