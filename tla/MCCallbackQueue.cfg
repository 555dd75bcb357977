CONSTANTS
  w1 = w1  w2 = w2  m1 = m1
  Workers = {w1, w2}
  Messages = {m1}
  Kinds = {"audit", "remediation", "malformed", "tokenless"}
  MaxReceive = 2
  MaxRuns = 4
  MaxMishaps = 2
SPECIFICATION FairSpec
INVARIANTS NothingIsLost
PROPERTY MessagesEnd
CHECK_DEADLOCK FALSE
