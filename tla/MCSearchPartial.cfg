\* The learner under a target_coverage of 0.5: a solution is pruned.
SPECIFICATION Spec
CONSTANTS
  Problem <- MCPartial
  NoScore = NoScore
  Negatives = {3, 4}
  Heartbeat = 3
  MaxElapsed = 0
INVARIANT PruningKeepsSolutions
CHECK_DEADLOCK FALSE
