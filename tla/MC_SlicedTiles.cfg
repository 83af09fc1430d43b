\* Other queries between the slices, while tiles are removed and loaded.
CONSTANTS
  a = a
  b = b
  c = c
  d = d
  t = t
  u = u
  MapId = 1
  Tiles = {t, u}
  Polys = {a, b, c}
  TileOf <- TwoTiles
  Links <- AllLinks
  MaxSalt = 2
  MaxNodes = 4
  Costs = {0, 1}
  Heuristics = {0}
  PathSizes = {2, 4}
  Host = {"unload", "calculate", "wall"}
SYMMETRY SameTile
SPECIFICATION Spec
INVARIANTS TypeOK PathIsOfTheSearch WaypointsAreSet
