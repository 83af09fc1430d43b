\* Every kind of file, any order of calls.
CONSTANTS
  a1 = a1
  a2 = a2
  p1 = p1
  p2 = p2
  q1 = q1
  q2 = q2
  Slots = {1, 2, 3}
  Locs = {p1, p2, q1, q2}
  NoLoc = NoLoc
  MaxSalt = 2
  Adts = {a1, a2}
  Disks <- AllDisks
  OffDisks <- OneOff
  Empty = Empty
  Bad = Bad
  MaxDepth = 2
  MaxDeferred = 2
  MaxConns = 1
SPECIFICATION MapSpec
INVARIANTS MapTypeOK RecordedRefsLive RefsExclusive LoadedHasTiles TilesAreOwned NothingLeftUntold StaleRefused
