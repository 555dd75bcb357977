CONSTANTS
  s1 = s1  s2 = s2  e1 = e1  e2 = e2  h1 = h1  h2 = h2
  Sessions = {s1}
  Execs = {e1, e2}
  Hosts = {h1}
  NoOne = NoOne
  LambdaTime = 0
  OpTime = 1
  IdleTime = 2
  HardTime = 3
  MaxTime = 4
  MaxCommands = 1
  MaxMishaps = 1
SPECIFICATION FairSpec
INVARIANTS ReadyIsComplete
PROPERTIES ImplementsLease LapsedIsDrained OrphansAreRemoved
CHECK_DEADLOCK FALSE
