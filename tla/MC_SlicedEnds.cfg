\* Fair scheduling: the host keeps updating; tiles are only loaded.
CONSTANTS
  a = a
  b = b
  c = c
  d = d
  t = t
  u = u
  MapId = 1
  Tiles = {t, u}
  Polys = {a, b, c, d}
  TileOf <- ThreeAndOne
  Links <- AllLinks
  MaxSalt = 1
  MaxNodes = 3
  Costs = {0, 1}
  Heuristics = {0, 1}
  PathSizes = {3}
  Host = {}
SPECIFICATION FairSpec
INVARIANT ParentsFormATree
PROPERTY SearchEnds
