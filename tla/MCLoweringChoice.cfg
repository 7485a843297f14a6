\* A C function that calls one with two clauses.
SPECIFICATION Spec
CONSTANTS
  Task <- MCChoosing
  Null = Null
  InitialSub <- MCEmptySub
  UnifyArgs <- MCUnifyAll
  Rename <- MCRename
  Solve <- MCSolve
  ArgIds <- MCArgIds
  IdsInSub <- MCSubIds
  Instances <- MCInstances
  Derivable <- MCDerivable
  Replays <- MCReplays
  AnswersAll <- MCAnswersAll
  MaxDepths = {1, 2, 3}
INVARIANT CFunctionsAlwaysAgree
CHECK_DEADLOCK FALSE
