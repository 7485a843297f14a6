\* Every problem of the family: safety, the abstract stream, and that every search ends.
SPECIFICATION FairSpec
CONSTANTS
  Problem <- MCProblem
  NoScore = NoScore
  Negatives = {3}
  Heartbeat = 3
  MaxElapsed = 2
INVARIANTS
  TypeOK
  BestIsEarliestMaximum
  Accounting
  StreamIsOrdered
  HeartbeatBound
  NoSolutionLost
PROPERTIES
  ImplementsStream
  Terminates
CHECK_DEADLOCK FALSE
