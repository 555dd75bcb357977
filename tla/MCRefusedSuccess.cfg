CONSTANTS
  MaxSessions = 2
  MaxRuns = 1
  MaxBegun = 3
  MaxRetries = 3
  MaxPolls = 1
  PageMishaps = 0
  None = None
  Ttl = 2
  Tolerance = 1
  Skew = 1
  Lifetimes = {1, 3}
  LastTime = 1
  MaxSignIns = 2
  MaxLoads = 3
  SignInMishaps = 2
SPECIFICATION MCSafety
INVARIANT SuccessIsShown
CHECK_DEADLOCK FALSE
