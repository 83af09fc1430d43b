\* Salts 1 and 2, references restored.
CONSTANTS
  MaxTiles = 3
  LutSize = 2
  MaxSalt = 2
  Cells <- Row
  Layers = {0, 1}
  MaxNeis = 2
  LinkCap <- OneInTheMiddle
  Restoring = TRUE
SPECIFICATION Spec
INVARIANTS TypeOK ListsPartitionTiles LinksAreLive NeighboursAreLinked
PROPERTY ImplementsTilePool
