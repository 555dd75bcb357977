CONSTANTS
  MaxSessions = 2
  MaxRuns = 2
  MaxBegun = 3
  MaxRetries = 1
  MaxPolls = 2
  PageMishaps = 1
  None = None
  Ttl = 2
  Tolerance = 1
  Skew = 1
  Lifetimes = {1, 3}
  LastTime = 5
  MaxSignIns = 2
  MaxLoads = 3
  SignInMishaps = 2
SPECIFICATION MCSpec
INVARIANTS PageIsTruthful SessionIsEarned
PROPERTIES LatestIsShown PollsEnd
CHECK_DEADLOCK FALSE
