\* Three ADTs, two slots, a timeout of one tick.
CONSTANTS
  a1 = a1
  a2 = a2
  a3 = a3
  p = p
  q = q
  e = e
  r = r
  Slots = {s1, s2}
  Locs = {p, q, e, r}
  NoLoc = NoLoc
  MaxSalt = 2
  Adts = {a1, a2, a3}
  Disks <- TheFiles
  OffDisks <- NoOff
  Empty = Empty
  Bad = Bad
  MaxDepth = 1
  MaxDeferred = 3
  MaxConns = 0
  Timeout = 1
  Ring <- TheRing
  Ahead <- TheAhead
  AdtOf <- TheAdtOf
  NextTo <- TheNextTo
SPECIFICATION StreamSpec
SYMMETRY SlotSymmetry
INVARIANTS LoadedIsTracked CollectedBeforeLoading SearchHasItsTiles CallbacksAreTimely
PROPERTY SearchKeepsTiles
