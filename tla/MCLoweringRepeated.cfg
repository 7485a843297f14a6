\* Clauses with one new variable in two outputs of a primitive.
SPECIFICATION Spec
CONSTANTS
  Task <- MCRepeating
  Null = Null
  InitialSub <- MCEmptySub
  UnifyArgs <- MCUnifyAll
  Rename <- MCRename
  Solve <- MCSolve
  ArgIds <- MCArgIds
  IdsInSub <- MCSubIds
  Instances <- MCInstances
  Derivable <- MCDerivable
  Replays <- MCReplays
  AnswersAll <- MCAnswersAll
  MaxDepths = {1, 2, 3}
INVARIANT GeneratorsAgree
CHECK_DEADLOCK FALSE
