\* A wall query between the slices.
CONSTANTS
  a = a
  b = b
  c = c
  d = d
  t = t
  u = u
  MapId = 1
  Tiles = {t, u}
  Polys = {a, b, c}
  TileOf <- TwoTiles
  Links <- AllLinks
  MaxSalt = 1
  MaxNodes = 3
  Costs = {0, 1}
  Heuristics = {0, 1}
  PathSizes = {3}
  Host = {"wall"}
SPECIFICATION Spec
INVARIANT DocPathBeginsAtStart
