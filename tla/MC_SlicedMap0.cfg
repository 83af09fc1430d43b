\* The map whose number is 0.
CONSTANTS
  a = a
  b = b
  c = c
  d = d
  t = t
  u = u
  MapId = 0
  Tiles = {t, u}
  Polys = {a, b, c}
  TileOf <- TwoTiles
  Links <- AllLinks
  MaxSalt = 1
  MaxNodes = 3
  Costs = {0, 1}
  Heuristics = {0, 1}
  PathSizes = {3}
  Host = {}
SPECIFICATION Spec
PROPERTY DocUpdateAdvances
