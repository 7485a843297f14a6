\* Authors stamp what they publish, or leave it without a stamp or with an old one.
SPECIFICATION MCSpec
CONSTANTS
  Library <- Versions
  File <- Files
  Semantics = {s1, s2}
  Query = {q1, q2}
  Throws = {q2}
  Request = {r1, r2}
  Stamping = {"fresh", "none", "old"}
  NoStamp = NoStamp
  NotImported = NotImported
  MaxEdits = 1
SYMMETRY Symmetry
INVARIANTS
  LoadedIsConsistent
  AnswersFollowStamps
  LatestIsNewest
CHECK_DEADLOCK FALSE
