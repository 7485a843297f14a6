\* A background with an input mode.
SPECIFICATION Spec
CONSTANTS
  Problem <- MCModedProblem
  Biases <- MCModedBiases
  NoScore = NoScore
  Untyped = Untyped
  D = {1, 2, 3, 4, 5, 6}
  Heartbeat = 256
  MaxElapsed = 0
INVARIANT RedundantIsUnaffectedByModes
CHECK_DEADLOCK FALSE
