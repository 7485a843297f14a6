\* Every program, query and bound of the families, every solution pulled.
SPECIFICATION FairSpec
CONSTANTS
  Task <- MCAllTask
  Null = Null
  InitialSub <- MCEmptySub
  UnifyArgs <- MCUnifyAll
  Rename <- MCRename
  Solve <- MCSolve
  ArgIds <- MCArgIds
  IdsInSub <- MCSubIds
  Instances <- MCInstances
  Derivable <- MCDerivable
  Replays <- MCReplays
  AnswersAll <- MCAnswersAll
  MaxDepths = {1, 2, 3}
INVARIANTS
  StandardizedApart
  RecursionBounded
  AnswersAreSound
  AnswersAreComplete
  TracesAreEvidence
  GeneratorsAgree
  FunctionsAndViewsAgree
PROPERTY Terminates
CHECK_DEADLOCK FALSE
