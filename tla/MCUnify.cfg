\* Every pair of terms, in fresh and in recycled memory.
SPECIFICATION Spec
CONSTANTS
  Task <- MCTask
  Null = Null
  MaxStack = 2
  GroundValue <- MCGroundValue
INVARIANTS
  UnifierIsMostGeneral
  RoundTrip
  VerdictIsExact
  VerdictIsTheEquation
PROPERTY Terminates
CHECK_DEADLOCK FALSE
