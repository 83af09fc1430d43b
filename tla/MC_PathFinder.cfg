\* Requests whose corridors take every shape the grid has room for, with an
\* array of points that can be too small.
CONSTANTS
  Corridors <- SomeCorridors
  Searches <- SomeSearches
  Sizes = {3, 9}
  Clamps <- SomeClamps
SPECIFICATION FairSpec
INVARIANTS TypeOK StringIsTaut StringTakesNoDetour PointsFollowPath
PROPERTIES ResultIsHonest PathEnds
