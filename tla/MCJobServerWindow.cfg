\* Calls from the network: the window of respond-sync and a long search.
SPECIFICATION Spec
CONSTANTS
  Client = {c1}
  Reader = {r1}
  MaxScore = 3
  NoScore = NoScore
  NoClient = NoClient
  Embedded = FALSE
INVARIANT WindowIsRespected
CHECK_DEADLOCK FALSE
