CONSTANTS
  s1 = s1  s2 = s2  r1 = r1  r2 = r2
  Sessions = {s1, s2}
  Others = {s2}
  Requests = {r1, r2}
  Generations = {"g1"}
  NoOne = NoOne
  Never = Never
  Instants = {0, 1, 2, 3, 4}
  IdleTime = 2
  HardTime = 3
  MaxTime = 3
  MaxChanges = 1
  MaxUserRequests = 1
  MaxCrashes = 1
SPECIFICATION SSpec
INVARIANTS CoreFollowsRecord
PROPERTIES TerminalIsFinal
CHECK_DEADLOCK FALSE

SYMMETRY Symmetry
