\* Calls from within the process, which interleave with the search; two readers of one job.
SPECIFICATION FairSpec
CONSTANTS
  Client = {c1, c2}
  Reader = {r1, r2}
  MaxScore = 2
  NoScore = NoScore
  NoClient = NoClient
  Embedded = TRUE
INVARIANTS
  TypeOK
  StreamsAreExact
  SubscribersAreOpen
  AnswersAgree
PROPERTIES
  JobsAreStreams
  EveryPostIsAnswered
  EveryStreamEnds
CHECK_DEADLOCK FALSE
