\* Two calls that share the pool, and a third user of it.
SPECIFICATION Spec
CONSTANTS
  c1 = c1
  c2 = c2
  h1 = h1
  Call = {c1, c2}
  Holder = {h1}
  Requests <- MCRequests
  Packable <- MCPackable
  Unifies <- MCUnifies
  RegionBytes = 4
  MinMask = 4
  DeviceBytes = 24
  Metallibs <- MCMetallibs
  Nobody = Nobody
  Width = 5
  MinBucket = 4
  Never = Never
INVARIANTS
  NoBufferIsShared
  MasksAreExact
  BooksBalance
PROPERTY EveryCallEnds
CHECK_DEADLOCK FALSE
