\* All searches, with pools and result arrays that can be too small.
CONSTANTS
  a = a
  b = b
  c = c
  d = d
  NoPoly = NoPoly
  Polys = {a, b, c, d}
  Links <- AllLinks
  Kinds = {"circle", "random", "wall", "local", "move"}
  MaxNodes = 3
  MaxTiny = 3
  MaxStack = 1
  Sizes = {2, 4}
  Costs <- SmallCosts
  Dists <- SmallDists
  MaxRadius = 1
SYMMETRY SamePolys
SPECIFICATION Spec
INVARIANTS TypeOK TotalsAreLeast ResultIsOrdered FlagsTellAll WallIsNearest VisitedIsWalk PathIsCheapest
