# A specification of the Navigation library

Navigation is a native library for path finding over World of Warcraft maps. A host process loads
it and calls its C functions from one thread. Underneath is a modified Detour:
tiles of a navigation mesh are streamed in from files while paths are
searched, and dropped when they have not been used for a minute.

These modules model the parts of the library that keep state between calls: the mesh as a
store of tiles, the manager that fills it from files, the streaming on top,
the node pool and open list of a search, and the sliced search that lives across calls while the mesh changes under it;
and two parts that live for one call and are hard all the same: the searches that spread without a goal, and the path request, from
positions to the points of the string pulled through a corridor.
Paths below are relative to `src/Navigation/`.

## Inventory

| Part | State it keeps | Operations | Who calls it |
| --- | --- | --- | --- |
| `dtNavMesh` | tiles, their salts, free list, position hash, links | `init`, `addTile`, `removeTile`, lookups by position and by reference | `MMapManager`, `dtNavMeshQuery` |
| `MMapManager` | loaded ADTs and the tile references of each; callback, batch depth, queue | `loadMap`, `unloadTile`, `BeginTileLoadBatch`, `EndTileLoadBatch`, `SetTileLoadedCallback` | `Navigation` |
| `OffMeshManager` | connections of each map, keys of tiles done | `LoadTileOffMeshConnections` | `loadMap`, `LoadTileOffMesh_C` |
| `Navigation`, streaming | an access time for each ADT | `GarbageCollectTiles`, `EnsureTiles`, `EnsureTilesDirectional`, `LoadTileForDetour`, `UnloadTile` | path requests, queries, the host; Detour, through a function pointer |
| `Navigation`, sliced session | the map of the session | `InitSlicedFindPath`, `UpdateSlicedFindPath(Ms)`, `FinalizeSlicedFindPath` | the host, a few calls per frame |
| `dtNavMeshQuery` | one node pool, one open list and one `m_query` per map; a tiny pool | sliced search, wall and area searches, `findStraightPath`, raycast | `Navigation`, `PathFinder` |
| `dtNodePool`, `dtNodeQueue` | nodes with hash chains through them; a binary heap of open nodes | `clear`, `getNode`, `findNode(s)`; `push`, `pop`, `modify` | every search of `dtNavMeshQuery` |
| `PathFinder` | corridor, points, type, status and step of one request | `calculate`: `BuildPolyPath`, `BuildPointPath` | `CalculatePath(Ex)` |
| `NavBridge`, `DllMain` | nothing | forwarding | the host |
| `dtPathCorridor` | the path of one `PathFinder` | `reset`, `setCorridor`, `moveOverOffmeshConnection` | `PathFinder`, once it has a path |
| the rest of DetourCrowd; g3dlite | - | not compiled; headers only | - |

How they interact. A path request collects expired ADTs, ensures the squares
around both ends, opens a batch and searches; a search asks for the tiles beside each
polygon it expands, which comes back through `DetourTileLoader` into `loadMap`;
`loadMap` calls `addTile` for each sub-tile, then the off-mesh manager, then the
host's callback, or its queue while a batch is open. A sliced session is the same search cut up over
calls, outside any batch, and between two of them the host may call anything.

What is hard. There are no threads, files are only read and nothing is persisted, so
there is no crash recovery and no message to lose. The difficulty is in

- sequences of calls: references recorded long ago, slots and salts that are used again,
  intrusive lists, links that must be unmade from both ends;
- calls from inside calls: a search loads tiles while it holds bare pointers into the mesh;
- state shared by calls that do not know of each other: one query object serves path
  requests, wall queries and the session in progress;
- partial failure: a file that ends early, a mesh, a link pool or a node pool that is full;
- termination: nodes are re-opened and given new parents, and `finalize` follows parents until 0;
  `findStraightPath` sets its counter back;
- loops whose turns depend on each other: closed polygons that are never re-opened, a circle that shrinks while it is searched,
  a funnel whose sides narrow in turn, a status that four functions write to.

`PROJECT.json` lists each of these hazards at its line, with the properties that would show it going wrong.

What makes each part correct:

- **mesh**: a tile is on exactly one list; no link dangles; neighbours are linked
  both ways; a removed reference is refused until the salt has come round.
- **manager**: recorded references are always accepted by the mesh and belong to one ADT;
  every tile has an owner; callbacks are delayed by a batch and never lost.
- **streaming**: every loaded ADT can be collected; collection never takes what the
  request needs; no tile goes while a search runs.
- **node pool and open list**: every node is found again by `getNode`; the heap holds what is flagged open,
  once, with a cheapest at its root.
- **sliced search**: parents form a tree; finalize returns a path of its own search;
  the search ends.
- **searches without a goal**: costs are the least; results are in order; the distance to a wall is that of the nearest; what is
  missing is flagged.
- **path request**: the string is pulled tight through its corridor and is always found; each point names the polygon it enters;
  no partial path is reported as whole.

## Modules

    TilePool            abstract store of tiles
      <- NavMesh        dtNavMesh; implements TilePool (refinement)
      <- MoveMap        MMapManager over a TilePool (EXTENDS)
           <- TileStreaming   Navigation over MoveMap (EXTENDS)
    OpenNodes           abstract pool and open list
      <- SearchNodes    dtNodePool and dtNodeQueue; implements OpenNodes (refinement)
    SlicedFindPath      Navigation's session, dtNavMeshQuery, over an abstract mesh
    AreaSearch          the searches without a goal, over an abstract mesh
    Plane               sides of lines, crossings and places on portals, in exact arithmetic
      <- StraightPath   findStraightPath, over a corridor of portals (EXTENDS)
           <- PathFinder      PathFinder, CalculatePathEx and the end of Finalize (EXTENDS)

Each that is run has an `MC_` module with the definitions its configurations use; TilePool is run as part of NavMesh and
MoveMap, StraightPath as part of PathFinder. TilePool, NavMesh, TileStreaming, SearchNodes, SlicedFindPath, AreaSearch and PathFinder
have a `_proofs` module, that of TileStreaming with the theorems about MoveMap; `Lemmas` holds what four of them
share, on walks and on the plane.

### TilePool

What `dtNavMesh` promises: `at[i]` is the position of the tile in slot `i`, `salt[i]` its salt.
`Add` is `addTile` without `lastRef`, `Restore` with one, `Remove` is `removeTile`; calls that fail
change nothing and are stuttering. Which slot `Add` takes is left open. `stale` is a history variable: the
references removed and how often their slot was emptied since. The salt width is the constant
`MaxSalt` (2^16 - 1 in the `DT_POLYREF64` build that `Navigation.vcxproj` selects).

### NavMesh

`dtNavMesh` itself: `next` threads a free tile on the free list (`nextFree`) and a used one on a
chain of `posLookup`. `AddTile` pops the free list, `RestoreTile` searches it for the slot of
`lastRef` as `addTile` does; both insert into the hash and connect to the neighbours
of `getTilesAt` and `getNeighbourTilesAt`, with links that are dropped when the link
pool is full; which neighbours a new tile is linked to when its pool has not room for all is left open (`OwnLinks`), as it
depends on the order of the chain and on how many edges they share. `RemoveTile` unlinks from the chain, disconnects, advances the salt and pushes
on the free list. `links[i]` holds references, as `dtLink::ref` does, one for each neighbouring tile.
`ImplementsTilePool` is the refinement: `header` is `at`, and the history carries over.

### MoveMap

`MMapManager` for one map. A file is a record: its version, the sequence of blobs that can be read from it, whether it
ends early. `loadMap` and `unloadTile` are loops with one `addTile` or `removeTile` per turn;
a turn is a step, and `job` keeps every other call out until the loop ends. `LoadGiveUp` is every return
between the header and the record, `LoadRecord` the end: the record, the off-mesh file, the callback or its
queue, in one step because nothing comes between. `owed` is a history variable: ADTs
loaded that the host has not been told of. `OffMeshManager` appears as the keys it has done and
the copies of connections in its set. `disk` and `offDisk` are fixed by `Init`.

### TileStreaming

`Navigation` as the owner of the manager. `phase` is where the call of the host is: `gc`, `ensure`, `search`,
`stamp` (between the return of `loadMap` and the access time in `LoadTileForDetour`) or `none`.
`age[a]` counts ticks since the access time, up to one past the timeout. A search is a number of requests for tiles next to
tiles that are in the mesh, which is all `loadNeighbourTiles` can make; `StartUpdate` is a
slice, which searches outside any batch. `GcUnload`, `EnsureTile` and
`SearchLoad` start loops of MoveMap, which run to their end before the phase goes on.

### OpenNodes and SearchNodes

`OpenNodes` is what a search takes its pool and its open list for: one node for each polygon and state it meets, a
total that only falls, and a cheapest open node when it asks for one. `SearchNodes` is how they do it: the array of nodes,
`m_first` and `m_next`, the heap of pointers. The loops of `getNode` (`FindOn`), `trickleDown` (`TrickleDown`) and `bubbleUp`
(`BubbleUp`) are a step for each turn, with the locals of the loop as variables, so that the invariants say what holds in
the middle of a push, a pop or a modify: `hole` is the place left empty, `moving` the node that will fill it. The search around them is any that starts
(`StartSearch`), asks for neighbours (`GetNode`), lowers totals and pops, which all searches of `dtNavMeshQuery` are; those that never
re-open a closed node do less. `clear` leaves `m_next` alone and so does the model; other
stale contents, which nothing reads, are forgotten.
`nodes`, `NodesOf` and `Cheapest` of SlicedFindPath are OpenNodes with parents and costs added.

### SlicedFindPath

A session: `mapId` is `_slicedFindPath_mapId`, `query` is `m_query`, `nodes`, `count` and `open` are the pool
and the open list of the map's only query. One iteration of `updateSlicedFindPath` is `Pop` (`PopGoal`,
`PopLost` or `Expand`) and one step per link (`FollowNothing`, `FollowNew`, `FollowBetter`), then
`Expanded`. `Expand` lets any tiles be loaded between the checks and the links, which is what the tile loader may do.
Costs and heuristics are chosen freely from small sets: every geometry and every change of the
filter in the middle of a search is one of the behaviours, with the one condition that costs are not negative and the end has heuristic 0.
Between slices tiles are removed (`Unload`, or collection in front of a path request) and
added; `CalculatePath` runs a whole search on the query, so that what it leaves is the reset of
`finalizeSlicedFindPath`; `WallBegin`, `WallExpand` and `WallEnd` are `findDistanceToWall` and its
kind. The constant `Host` says which of these a run allows. The mesh is only what the search sees of it, tiles and salts.
`session` is a history variable.

### AreaSearch

Three searches go over the node pool in the order of cost, two over the tiny pool in the order of discovery. One search is
`Begin`, then for each polygon `Pop...` and a step for each of its links in any order (`PassBy`, `OutOfNodes`, `Relax` for the first three,
`PassBy`, `TakeNode`, `Visit...` for the others), then `Expanded`, and an end. The names are those of the circle
search where several share a step; `PopCircle`, `PopRandom`, `PopWall`, `PopLocal` and `PopMove` are where they differ.
`GetPath` is `getPathFromDijkstraSearch`. `findPolysAroundShape` is the circle search with another test, and one in the model.
What geometry and filter decide is chosen link by link: each search follows a link once, so the choices made are a mesh, and the history
variables `edge` and `wall` keep it. `NodeFor` is `getNode`, which takes a node even for a polygon that is then not visited;
MAX_STACK and the sizes of the pools are constants. Three facts that a reader of the code may not expect: when the stack or the tiny
pool is full the local searches leave polygons out without a flag; `moveAlongSurface` sets its flag also when the walk exactly fills the array; and
`FindPolysAroundCircle` tests the portals on the way to a polygon against the circle, not the polygon's centroid, as the
repository's README has it.

### StraightPath and PathFinder

`StraightPath` is the funnel as the code has it: the loop (`PullSkip`, `PullPortal`), a corner that
becomes the apex and sets the counter back (`Turn`), the path that is cut short because a polygon has gone (`PullLost`) and the
last stretch (`PullEnd`), over `appendVertex` and `appendPortals`. Coordinates are integers, and the crossings are fractions with
their denominator, so that the signs of areas are exact; the thresholds of the code, which stand for rounding, become equality.
`SoundCorridor` says what a corridor of a mesh is: convex polygons one behind the other, off-mesh connections with a point for
a portal on both sides, never two in a row, the last polygon possibly one of them, a start before the first portal and a goal behind the last.
`getPortalPoints` cuts a portal at the border of a tile to where two polygons meet. So the portals of a polygon (`Polygon`) may lie on one edge,
overlapping or apart (`SameEdge`), or end to end on one line, and the start or the goal may lie on the line of a portal beside it; what is asked is only that
no end of a portal is in front of the one before or behind the one after.
The point to which the goal is clamped when a polygon has gone is an end of the next portal or any of `Clamps`, which the theorems leave open.

`PathFinder` is one request around it: `NoTile`, `NoPoly`, `SamePoly`, `NoCorridor` and `FoundCorridor` are the ways through `calculate` and
`BuildPolyPath`, `PointPath` is the rest of `BuildPointPath`, `Return` the end of `CalculatePathEx`. The search between them is
SlicedFindPath's and appears as its outcome. `SlicedCorridor` and `SlicedPath` are the end of `FinalizeSlicedFindPath`, which
pulls a string through a corridor that may have lost polygons. As the code has it: a string of one point
is a failure; DT_BUFFER_TOO_SMALL is also set when the points exactly fill the array; a crossing at the start
overwrites the START flag; where the path is cut short the last stretch does not go through the funnel, so that its points may lie off
the portals (`PointsFollowPath` leaves them out), and there may be one point more than the array has room for (`TypeOK`).
When a turn to the left follows a move of the right side, the code has already written the reference of the new right end, which the model leaves as it was:
both sides are written again before a reference is read.
`CalculatePath`, without Ex, drops the status, so that a partial path looks like a whole one.

## Runs

| Run | Question | Bounds | Result |
| --- | --- | --- | --- |
| `navmesh` | Are lists and links consistent, does dtNavMesh keep the promises? | 3 tiles, 3 cells in a row of 2 layers, 2 chains, 1 link for tiles in the middle, salts 1..2 | holds, 48,307 states |
| `movemap` | Do the manager's records and the mesh agree, and do removed references stay refused? | 2 ADTs, 3 slots, 8 kinds of file, 2 nested batches | holds, 2.1 million states |
| `streaming` | Do access times, records and searches agree? | 3 ADTs, 2 slots, timeout 1 | holds, 3.6 million states |
| `nodes` | Do chains and heap stay whole, and give a cheapest node? | 5 polygons in 2 chains, 4 nodes, totals 0..2 | holds, 518,277 states |
| `sliced_tiles` | Does Finalize give a path of its search while tiles come and go, or say that it has none, whoever uses the query? | 3 polygons in 2 tiles, 4 nodes, salts 1..2 | holds, 734,597 states |
| `sliced_ends` | Do parents stay a tree, and does a search end? | 4 polygons in 2 tiles, 3 nodes, fairness | holds, 73,001 states |
| `searches` | Are costs, orders, walls, walks and flags of the searches without a goal right? | 4 polygons all linked, 3 nodes, a stack of 1, results of 2 or 4 | holds, 184,543 states |
| `path` | Is the string taut, do its points follow the path, is the host told the truth, and does every request come to a result? | corridors of up to 4 polygons on a grid of 3 by 3 points, 3 or 9 points, fairness | holds, 413,223 states |
| `movemap_cut`, `movemap_offmesh`, `sliced_map0`, `sliced_wall` | Is it as the documentation says? | as above | violated: see below |

Why the bounds are enough. Three tiles give a chain or a free list a head, a middle and an end,
which is every case of an unlink; three cells in a row give a neighbour and a tile that is not one; two chains
put the first and the last cell on one. Three slots for two ADTs of two sub-tiles make the
mesh full in the middle of an ADT; two slots for three ADTs make it full between them. One tick of timeout tells fresh,
aged and expired apart. Salts up to 2 let a slot be used again under a new salt and the salt come round, skipping 0. Four nodes make a heap of three levels with a last place
that has no sibling and a place that has two; five polygons for them make the pool run out, and three of them on one chain give it a middle. Three polygons in two tiles are the least in which a
search goes on through a tile that went and came back, while other queries use its nodes. Four are the least in which parents could form a cycle: a start, two nodes that are expanded, and
the goal, which never is; three nodes for them make the pool run out. Costs 0 and 1 make equal totals, zero-cost edges and improvements occur.
In `searches` four polygons let one be met, left and met again cheaper before it is closed; with three nodes the pool
runs out, with a stack of one each local search has to leave a polygon out. Its wall search has costs 0, so that
polygons are expanded in any order, and distances on either side of the walls it has found. In `path` four polygons have three portals: one to turn at, one that is passed on the way back
to it and one that closes the funnel; the grid has room for portals that share an end, for corridors that turn by more than a right angle
and for strings through several portals at one point. A side of it has three points, enough for two portals on one edge, for a portal seen edge-on and for one beside the start.
The goal is any point of the grid behind the last portal, and so is the start before the first one, if there is only one or it starts at the middle of the grid;
else the start is at an end of the first portal. Three points fill the array in the middle of crossings, nine never.

Bounds that are not in the code: `MaxSalt` in the runs of SlicedFindPath (a tile is not removed again once its salt is used up); `MaxDepth`, `MaxDeferred`, `MaxConns`
(a batch is not opened, a load not begun and a copy not counted beyond them). In `sliced_ends` and the
violated runs of SlicedFindPath `MaxSalt` is 1, so that tiles are only added.

Deadlock is checked in every run.

### What the violated runs show

- `movemap_cut`: a multi-tile file that ends early leaves its tiles in the mesh, unrecorded:
  `IsTileLoaded_C` denies them, nothing can remove them (README "true even when only some sub-tiles are resident").
- `movemap_offmesh`: loading off-mesh connections fails for every tile that has any,
  because `dtCreateNavMeshData` refuses parameters without vertices.
- `sliced_map0`: no search on map 0 is ever advanced.
- `sliced_wall`: a query of which Detour says that it does not disturb a sliced search replaces the nodes of a search that has succeeded, and
  Finalize returns a path through them. With `Host = {"calculate"}` in its configuration a path request does
  the same: it resets the query, and Finalize returns the null polygon.

One disagreement needs no run: the number of the multi-tile version is 6 (`MoveMapSharedDefines.h:32`), and 5 in the
repository's README and in comments; `loadMap` refuses a file with 5 like one with any unknown number.

The last step of Finalize is safe under a condition only. `WaypointsAreSet` holds while no tile is removed during the session and no other call uses the
query; without the first, Finalize places waypoints with polygons that may have gone, and leaves the origin.

So is the shortest string. `StringTakesNoDetour` asks that no portal is seen edge-on from the start, or from an end of the portal before it
(`FacesPortals`), which the border of a tile can bring about where it cuts a portal short. All areas are 0 then, the left side takes the left end,
be it the far one, and the string may go there and back though the near end would do. `StringIsTaut` says of every corridor that a bend cannot be pulled sideways.

## Fairness

`sliced_ends` and `path` need some. In `path` it is `WF_vars(Pull \/ PointPath \/ SlicedPath)`: a call that has begun runs. In
`sliced_ends`, `WF_vars(LoopStep)`: a loop of the code that runs goes on.
`SF_vars(UpdateBegin \/ EndsLost)`: the host keeps calling Update while the search is in progress; strong, because other
calls may come between and a loop that runs disables it. `SF_vars(Pop)`: not every one of these calls is for 0 iterations;
`EstimateIterations` gives at least 10. In `sliced_ends` the host calls Init, Update and Finalize, in any order; a call that
uses or resets the query between slices ends the search or replaces its nodes, which is the matter of `sliced_tiles`.
`SearchEnds` leaves out a host that begins again for ever.

## Proofs

`tlapm` checks all of them, for every value of the constants that the modules' assumptions allow.

**TilePool_proofs.** Types, `UniqueLocation`, `SaltCountsRemovals` and `StaleRefused`. The last is not inductive: that a
salt differs from that of a removed reference says nothing about the next removal.
`SaltCountsRemovals` is the strengthening: the salt is exactly `age` steps past the
reference, modulo the wrap, and `age < MaxSalt`; arithmetic then gives that they differ.

**NavMesh_proofs.** Everything the run checks, and TilePool's theorems carried over. `IsList(head, nxt, S)` says that `nxt` leads from `head`
through all of `S`, each once, without a walk: it is injective, no part of `S` leads into itself (`NoCircle`), and a part that holds `head` and
all that its elements lead to is `S` (`ReachesAll`). That is kept by a push, a pop and an unlink, which are set arguments, and `ListWalk` derives from it that
a walk meets the members, each once, and ends. `ListsInv` is `IsList` for the free list and for every chain, and `ListsPartitionTiles` follows.
`MeshImplementsTilePool` needs it, as `addTile` looks for a taken position along one chain only. The links rest on
the lookups: `TilesAtFinds` shows that `getTilesAt` returns all tiles of a cell, because positions are unique, so that there are no more of them than
layers, and layers no more than MAX_NEIS. So what `removeTile` disconnects is every tile with a link to it (`RemoveLinks`), which is
`MeshLinksAreLive`; and a tile with room for all its neighbours has a link left for the one that comes (`LinkLeft`), which is `MeshNeighboursAreLinked`.

**Lemmas.** On walks, what NavMesh_proofs, SlicedFindPath_proofs, AreaSearch_proofs and PathFinder_proofs share: a recursive function that steps from an element to the next
is defined at every place (`WalkSteps`), and where nothing leads in a circle the walk meets no element twice and ends (`WalkEnds`), by the least number of a set and the pigeonhole
principle. On the plane, what PathFinder_proofs needs of directions seen from a place, by the signs of areas: which of them are in order, what lies between two, where a line
meets a portal, and how a funnel narrows.

**TileStreaming_proofs, MoveMap.** `MapIInv` adds to the listed invariants what ties a loop to the records: the references in `got` are live and
not recorded for another ADT, `got` is within `refs[adt]` while an ADT is unloaded, no record is made before the
loop ends. From it follow `RecordedRefsLive`, `RefsExclusive`, `LoadedHasTiles`, `UnloadNeverFails` and `TilesAreOwned`.
`MapImplementsPool` shows that every step is a step of the store or leaves it alone, so `MapStaleRefused` follows from
TilePool's theorem with no proof of its own. `MapNothingLeftUntold` has an invariant of its own: an ADT the host has not been told of
waits in the queue, and the queue is empty when no batch is open.

**TileStreaming_proofs, TileStreaming.** `StreamImplementsMap`: every step of streaming is a step of `MapNext` or leaves MoveMap
alone, so MoveMap's invariants hold here. `StreamIInv` adds `PhaseShape` (which job can run in which phase: in `search` none, or a load;
in `gc` none, or an unload) and `StaysFresh` (from `ensure` on, what is loaded was used within the timeout).
`LoadedIsTracked`, `CollectedBeforeLoading` and the action property `SearchKeepsTiles` follow; the last because only
an unload removes tiles, and `PhaseShape` keeps one out of a search. `StreamCallbacksAreTimely` adds where a batch may be open.
`StreamSearchHasItsTiles` is proved for disks on which no two files claim one place in the mesh (`FilesApart`): two files that did
would keep each other out, and `addTile` refuses the second.

**SearchNodes_proofs.** `NodesIInv` is the four invariants of the run with what ties a node to its use (`UsedNodes`),
`OneNodePerKey`, and `FindInv`: the loop of `getNode` has passed no node with the key it looks for. That the
heap never outgrows its array is a pigeonhole (`QueueHasRoom`): entries are distinct, and one node is not among them. That the root
is a cheapest takes an induction along parents, which `LeastNatural` supplies: a set of naturals has a least element,
because segments are finite and inclusion of finite sets is well-founded. `NodesImplementOpenNodes` is the refinement:
each step maps to one of OpenNodes or to none.

**AreaSearch_proofs.** `SearchIInv` is the type invariant with what the three ordered searches keep between two links: closed totals are
below open ones and below that of the polygon being expanded, each link followed is accounted for (its target has a node with a total no
worse, or waits among the links not yet looked at, or a flag is raised), the circle is never larger than a wall seen. `TotalsAreLeast`
follows from it and from costs that are not negative, which is what makes closing once enough; `FlagsTellAll` and
`WallIsNearest` say at the end of a search what it says in the middle. The invariant is checked action by action, for every
mesh, pool, array size and set of costs.
`FormIInv` is what all five searches keep besides: the sizes and types of the pool, the queue and the result (`ArrayShape`), and the tree of
parents (`TreeInv`): the start is its root, the parent of what is reached is closed and linked to it, only closed polygons are expanded or queued,
and no set of polygons holds the parents of all its members (`NoParentLoop`). `SearchTypeCorrect` follows with the type of the path.
`ResultIsOrdered` is not inductive alone, for it says nothing of what is still to be expanded, whose neighbours will be reported: `OrderInv` adds that as long as there is room the result holds what a circle search has closed, and
what a local search expands or will expand (`ResultKeepsUp`).
`PathIsCheapest` and `VisitedIsWalk` (`WaysInv`) are about parents followed from a polygon and turned round. `NoParentLoop` and `WalkEnds` say that
they are a sequence which ends with the start (`ChainEnds`), so that what is returned starts there and meets no polygon twice (`WayToPoly`);
that each step costs what the totals differ by is known of every parent from `SearchIInv`.
The walks need `Polys` to be finite, which is an assumption here.

**PathFinder_proofs.** The theorems hold for corridors of any length over the whole integer grid (`SoundCorridor`), cut at tile borders or not, any room in the array, with crossings or
without, and with polygons that have gone. `PullInv` has the funnel's side of it: each side is at an end of a portal behind the apex and names the polygon
behind it (`FreshSide`), except right after a turn, when the funnel is shut and its sides keep the references of an earlier portal, which is harmless because
both move before the string can turn again. With it `PathPointsInOrder`: polygons are entered in order, each once, because a string that is
extended from its apex (`AtApex`) enters none before that of the apex, and a point that meets the last one takes its place.
`PathFollowsPath`, which is `PointsFollowPath`, needs what the funnel is for. `ConeInv` says of an open one that both its sides, seen from the apex, pass between the ends of every
portal ahead (`OpenAt`), so that a line to a corner crosses all of them between their ends; of a shut one that the apex is the start or on the
last portal. It is kept because convex polygons have their portals one beyond the other (`PortalsAhead`, from `Polygon`), so that all
directions that matter go forth and are in order from right to left (`ForthInOrder`, the one identity of four directions, `FourCrosses`),
and because what lies between two directions is on no other side of anything than both (`BetweenBoth`). The cases that look degenerate are those in which the code is easily wrong: both ends
of a portal in one place, an end at the apex on the left, where the string turns at once, and on the right, where it does not; and a portal that is seen edge-on (`Flat`),
whose two ends are both sides of a funnel of no width.
`PathReachesGoal` is that a whole string ends at the goal, `PathTypeCorrect` that only `PullLost` writes past the array.
`PathStringIsTaut` is the promise of findStraightPath itself, that the string is pulled tight; a string that goes on from the apex is told as a `Stretched` one,
whose new points are on the line to the side or the goal it is drawn to. That each stretch meets the portals it passes (`MetInv`) needs `SightInv`: every portal
behind the apex is seen open from there, or is a point on it, so that it is gone through or touched where the apex may go straight to (`Aim`). That no
bend could be pulled tighter (`TautInv`) cannot be read off the funnel when the string turns, because the portal that leaves no room for one may
be met only later, when the apex has moved on and the string goes on through the corner. So `BendInv` remembers of the bend at the apex the line by which the string came there
and, for each side, that a portal already met leaves no room on it (`LeftBlocked`, `RightBlocked`), or that the string is still kept from turning
to that side: a portal that lies wholly beyond the line is to come (`Awaits...`), and when it has come the open funnel lies there (`Opens...`). The two sides are not mirror images, as the loop
tries the left side first and moves the right one before it looks at the left: each has lemmas of its own, for the turn that ends it (`HeldLeft`, `HeldRight`)
and for the portal that does not (`LeftGoesOn`, `RightGoesOn`). `EdgeInv`, that each side of an open funnel is the end of the portal it names and none behind
it narrows it, is what `TurnBends` reads the next bend from. Points on crossings are rational, so a bend there is compared with that of the places by determinants (`LineBends`).
`RequestInv` ties the four places the status goes through to one another, and `PathResultIsHonest` is the action property about what the host is told.

**SlicedFindPath_proofs.** `TreeInv` says of the nodes in use that no set of them holds the parents of all its members (`NoParentLoop`), that every
node but the first has a parent that costs no more and is linked to it (`NodesAreReached`), and that no reference has two (`OneNodePerRef`). A node that is given
a new parent does not close a circle: the nodes that cost no more than the new parent, which the improved one is not among, have their parents among themselves, so that a
circle would have been there before.
`SlicedParentsFormATree` follows through `WalkEnds`. Finalize's path is the walk from the last node, turned round, and `SearchInv` ties the nodes to the session
that began them: `SlicedPathIsOfTheSearch`. `SlicedWaypointsAreSet`
adds that the nodes, and the links still to be followed, lead to tiles in the mesh as long as none has been removed (`FreshInv`, `LeftLive`).

**Only model-checked.** `StringTakesNoDetour`; every other invariant and action property is stated by a theorem. `SearchEnds` and `PathEnds` are liveness, which is TLC's alone. What a recursive definition computes for every input is
induction over data and out of the prover's reach, too; the least-number lemmas and walks take its place for recursive functions, and sequences are taken
apart by their last element.

**Assumptions on constants.** Each is named in the module that declares the constant, and evaluated in the run of that module. AreaSearch: finitely many polygons, for its walks. SoundCorridor asks for places on a grid and what `getPortalPoints` makes of convex
polygons, whatever tile borders cut off; it leaves out polygons that are not convex, which the builder of the mesh does not make, and the errors of rounding by which neighbours in two tiles overlap
or stand apart. Those of NavMesh: some tile, some salt, positions
of integers, a number of chains that is a power of two up to 2^29, which is all that `dtNextPow2` of a quarter of an int gives, and no more layers in a cell than MAX_NEIS;
with more of them `addTile` and `removeTile` would look at 32 only, and links would dangle.

## Not modelled

- Geometry of one call: raycast, nearest points, heights, wall segments, the areas and abilities of points. Floating point is outside a
  finite model; where a search depends on it, the outcome is a free choice, and where the loop itself is geometry (StraightPath) it is
  done in integers, without the errors of rounding.
- A callback that calls back into the library. This is a real hazard (see `PROJECT.json`); the
  models end a callback without such a call, as nothing in the repository says which ones a callback may make.
- Several maps. They share the access times and the callback, and are otherwise disjoint.
- Undefined behaviour after `Nav_UnloadMaps`, and the calibration of `UpdateSlicedFindPathMs`, which reads an uninitialised count.
- Failing allocation, which nothing but a few returns in `loadMap` handles.
- Code without callers: `dtNavMeshQuery::findPath` (SearchNodes has it as one of the searches over the pool) and `findRandomPoint`, `LoadMapOffMeshConnections`,
  `OffMeshManager::Clear`, `UpdateFollowing`, `PatchCorridor` and `IsStuck` of PathFinder, and with them all of `dtPathCorridor` but
  the copy that `InitializeCorridor` makes and nothing reads. In `BuildPolyPath` the branches for an old path: every request
  makes a new PathFinder, which has none. The forced destination, which no caller sets.
- DetourCrowd other than the corridor, which the project file does not compile, and g3dlite, third-party headers that make up
  three fifths of the lines under `src/Navigation` and of which the library uses a vector class.

## Plan

Done: TilePool, NavMesh, MoveMap, TileStreaming, OpenNodes, SearchNodes, SlicedFindPath, AreaSearch, Plane, StraightPath, PathFinder, their runs, and the proofs above.
Left, in this order:

1. re-entrant callbacks over TileStreaming, once it is said which calls a callback may make;
2. the link lists of a tile, link by link, with `allocLink`'s free list;
3. `encodePolyId` and `decodePolyId`, `WorldToTile` and the grid's edges, `EstimateIterations` with its calibration, as operators
   checked against a reference definition.
