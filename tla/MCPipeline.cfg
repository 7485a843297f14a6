\* Every background over two or three constants, and every bias of a family.
SPECIFICATION Spec
CONSTANTS
  Problem <- MCProblem
  Biases <- MCBiases
  NoScore = NoScore
  Untyped = Untyped
  D = {1, 2, 3}
  Heartbeat = 256
  MaxElapsed = 0
INVARIANTS
  StreamIsTheSpace
  SimplestFirst
  KeysTellVariants
  PruningIsSound
  FirstSolutionIsFound
CHECK_DEADLOCK FALSE
