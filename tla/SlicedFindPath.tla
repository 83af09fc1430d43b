--------------------------- MODULE SlicedFindPath ---------------------------
(***************************************************************************)
(* The sliced search of one map: Init, Update and Finalize of Navigation,  *)
(* the query they run on (m_query, the node pool and the open list), and   *)
(* what else the host does to either between two slices: tiles come and    *)
(* go, CalculatePath uses the same query, so do the wall and area queries. *)
(*                                                                         *)
(* Costs are abstract: each relaxation picks the cost of its edge and each *)
(* polygon, when it is first met, its heuristic, so that every geometry,   *)
(* every filter and every change of an area cost is one of the choices.    *)
(* One iteration of updateSlicedFindPath is a Pop and a step per link.     *)
(***************************************************************************)
EXTENDS Naturals, FiniteSets

CONSTANTS
  MapId,      \* the number of the map
  Tiles,      \* tiles of the map
  Polys,      \* polygons of the map, each in a tile
  TileOf,     \* TileOf[p]
  Links,      \* <<p, q>>: p has a link to q when both are in the mesh
  MaxSalt,    \* bound: no tile is removed more often
  MaxNodes,   \* nodes in the pool
  Costs,      \* costs of an edge
  Heuristics, \* heuristics of a polygon
  PathSizes,  \* maxPathSize, as the host gives it to Finalize
  Host        \* what the host does between slices: a subset of HostCalls

HostCalls == {"calculate", "wall", "unload"}

ASSUME MapIdAssumption == MapId \in Nat
ASSUME MeshAssumption ==
  /\ TileOf \in [Polys -> Tiles]
  /\ Links \subseteq Polys \X Polys
ASSUME BoundsAssumption ==
  /\ MaxSalt \in Nat \ {0}
  /\ MaxNodes \in Nat \ {0}
  /\ PathSizes \subseteq Nat
ASSUME CostsAssumption ==
  /\ Costs \subseteq Nat
  /\ Heuristics \subseteq Nat
  /\ 0 \in Heuristics
ASSUME HostAssumption == Host \subseteq HostCalls

VARIABLES
  up, salt,     \* the tiles in the mesh, and the salt of each
  mapId,        \* _slicedFindPath_mapId, 0 for no session
  query,        \* m_query: status, startRef, endRef, lastBestNode and its cost
  nodes,        \* nodes of the pool, with what is left in those not in use
  count,        \* m_nodeCount
  open,         \* the nodes on the open list
  loop,         \* the loop that runs: "none", "update" or "wall"
  cur, left,    \* the node being expanded (0: none), the links still to follow
  out,          \* what the last call of the host returned
  session       \* history: the ends of the last search begun, the tiles
                \* removed since, whether another call used the query, and
                \* whether the search has succeeded

meshVars == <<up, salt>>
poolVars == <<nodes, count, open>>
loopVars == <<loop, cur, left>>
vars == <<meshVars, mapId, query, poolVars, loopVars, out, session>>

-----------------------------------------------------------------------------
(* Polygon references and tiles                                            *)

NoRef == [poly |-> "none", salt |-> 0]

Ref == [poly : Polys, salt : 1..MaxSalt]

\* isValidPolyRef.
Valid(r) == r # NoRef /\ TileOf[r.poly] \in up /\ salt[TileOf[r.poly]] = r.salt

\* References to the polygons of tiles ts under salts s: what findNearestPoly
\* can find.
RefsIn(ts, s) == {[poly |-> p, salt |-> s[TileOf[p]]] : p \in {q \in Polys : TileOf[q] \in ts}}

\* Some tiles are removed, then some are added.
UpAfter(gone, come) == (up \ gone) \cup come
SaltAfter(gone) == [t \in Tiles |-> IF t \in gone THEN salt[t] + 1 ELSE salt[t]]

TilesChange(gone, come) ==
  /\ gone \subseteq up
  /\ \A t \in gone : salt[t] < MaxSalt
  /\ up' = UpAfter(gone, come)
  /\ salt' = SaltAfter(gone)

\* GarbageCollectTiles and EnsureTiles, in front of every path request.
CollectAndEnsure(gone, come) ==
  /\ "unload" \in Host \/ gone = {}
  /\ TilesChange(gone, come)

-----------------------------------------------------------------------------
(* The node pool                                                           *)

NoNode == [ref |-> NoRef, pidx |-> 0, cost |-> 0, h |-> 0]

FreshNode(r, h) == [ref |-> r, pidx |-> 0, cost |-> 0, h |-> h]

Total(i) == nodes[i].cost + nodes[i].h

\* findNode: the node of r, or none.
NodesOf(r) == {i \in 1..count : nodes[i].ref = r}

\* Mutants of StartPool: the open list is not cleared; the pool is not, so
\* that getNode finds the nodes of the search before.
StartPoolKeepsOpen(r, h) ==
  /\ nodes' = [nodes EXCEPT ![1] = FreshNode(r, h)]
  /\ count' = 1
  /\ open' = open \cup {1}

StartPoolDirty(r, h) ==
  LET k == IF NodesOf(r) # {} THEN CHOOSE i \in NodesOf(r) : TRUE
           ELSE IF count < MaxNodes THEN count + 1 ELSE count
  IN  /\ nodes' = [nodes EXCEPT ![k] = FreshNode(r, h)]
      /\ count' = IF k > count THEN k ELSE count
      /\ open' = {k}

\* clear, and the start node pushed on the empty open list.  What the nodes no
\* longer in use hold matters only while lastBestNode may point to one.
StartPool(r, h) ==
  /\ nodes' = [i \in 1..MaxNodes |-> IF i = 1 THEN FreshNode(r, h)
                                    ELSE IF query'.best > 1 THEN nodes[i]
                                    ELSE NoNode]
  /\ count' = 1
  /\ open' = {1}

\* The nodes that pidx leads through from node i; 0 when it has ended.
Chain(i) ==
  LET nth[k \in 0..MaxNodes] ==
        IF k = 0 THEN i
        ELSE IF nth[k-1] = 0 THEN 0
        ELSE nodes[nth[k-1]].pidx
  IN  nth

\* The references of that chain, from its far end to i.
PathTo(i) ==
  LET n == Cardinality({k \in 0..MaxNodes : Chain(i)[k] # 0})
  IN  [k \in 1..n |-> nodes[Chain(i)[n-k]].ref]

-----------------------------------------------------------------------------
(* m_query                                                                 *)

NoQuery == [status |-> "none", startRef |-> NoRef, endRef |-> NoRef, best |-> 0, bestH |-> 0]

Returned(op, ok) == [op |-> op, ok |-> ok, path |-> <<>>]

\* The pool when nothing in it will be read before the next clear.
DeadPool ==
  /\ nodes' = [i \in 1..MaxNodes |-> NoNode]
  /\ count' = 0
  /\ open' = {}

Begun(s, e) ==
  [startRef |-> s, endRef |-> e, removed |-> {}, disturbed |-> FALSE, found |-> s = e]

NoSession == [Begun(NoRef, NoRef) EXCEPT !.found = FALSE]

\* The session has lost tiles, or has had its query used.
SessionGoesOn(gone, used) ==
  session' = IF mapId = 0 THEN NoSession
             ELSE [session EXCEPT !.removed = @ \cup gone, !.disturbed = @ \/ used]

\* What updateSlicedFindPath returned, to Update: success or in progress.
UpdateReturns(s) == out' = Returned("update", s \in {"success", "progress"})

Idle == loop = "none"

\* InitSlicedFindPath: collect, ensure, find both ends, begin a search between
\* them.  dtStatusSucceed of the status it begins with is false unless the two
\* ends are one polygon.
InitSlicedFindPath(gone, come, s, e, h) ==
  /\ Idle
  /\ CollectAndEnsure(gone, come)
  /\ mapId' = MapId
  /\ query' = [status |-> IF s = e THEN "success" ELSE "progress",
               startRef |-> s, endRef |-> e,
               best |-> IF s = e THEN 0 ELSE 1, bestH |-> IF s = e THEN 0 ELSE h]
  /\ IF s = e THEN DeadPool ELSE StartPool(s, h)
  /\ out' = Returned("init", s = e)
  /\ session' = Begun(s, e)
  /\ UNCHANGED loopVars

\* No polygon near the start or the end: the session there was goes on.
InitFindsNothing(gone, come) ==
  /\ Idle
  /\ CollectAndEnsure(gone, come)
  /\ out' = Returned("init", FALSE)
  /\ SessionGoesOn(gone, FALSE)
  /\ UNCHANGED <<mapId, query, poolVars, loopVars>>

-----------------------------------------------------------------------------
(* UpdateSlicedFindPath                                                    *)

NothingToUpdate ==
  /\ Idle
  /\ mapId = 0 \/ query.status # "progress"
  /\ out' = Returned("update", mapId # 0 /\ query.status = "success")
  /\ SessionGoesOn({}, FALSE)
  /\ UNCHANGED <<meshVars, mapId, query, poolVars, loopVars>>

EndsLost ==
  /\ Idle
  /\ mapId # 0
  /\ query.status = "progress"
  /\ ~Valid(query.startRef) \/ ~Valid(query.endRef)
  /\ query' = [query EXCEPT !.status = "failure"]
  /\ UpdateReturns("failure")
  /\ UNCHANGED <<meshVars, mapId, poolVars, loopVars, session>>

UpdateBegin ==
  /\ Idle
  /\ mapId # 0
  /\ query.status = "progress"
  /\ Valid(query.startRef)
  /\ Valid(query.endRef)
  /\ loop' = "update"
  /\ UNCHANGED <<meshVars, mapId, query, poolVars, cur, left, out, session>>

\* Node i is what pop of the open list can give.
Cheapest(i) == i \in open /\ \A j \in open : Total(i) <= Total(j)

Popping(i) == cur = 0 /\ Cheapest(i) /\ open' = open \ {i}

PopGoal(i) ==
  /\ loop = "update"
  /\ Popping(i)
  /\ nodes[i].ref = query.endRef
  /\ query' = [query EXCEPT !.status = "success", !.best = i]
  /\ loop' = "none"
  /\ UpdateReturns("success")
  /\ session' = [session EXCEPT !.found = TRUE]
  /\ UNCHANGED <<meshVars, mapId, nodes, count, cur, left>>

\* The polygon, that of its parent or that of its grandparent has gone.
Lost(i) ==
  LET p == nodes[i].pidx
      g == IF p = 0 THEN 0 ELSE nodes[p].pidx
  IN  \E k \in {i, p, g} \ {0} : ~Valid(nodes[k].ref)

PopLost(i) ==
  /\ loop = "update"
  /\ Popping(i)
  /\ nodes[i].ref # query.endRef
  /\ Lost(i)
  /\ query' = [query EXCEPT !.status = "failure"]
  /\ loop' = "none"
  /\ UpdateReturns("failure")
  /\ UNCHANGED <<meshVars, mapId, nodes, count, cur, left, session>>

\* The links of polygon p, but for the one back to the parent.
LinksOf(i, ts) ==
  {r \in RefsIn(ts, salt) : <<nodes[i].ref.poly, r.poly>> \in Links}
    \ (IF nodes[i].pidx = 0 THEN {} ELSE {nodes[nodes[i].pidx].ref})

\* loadNeighbourTiles may bring tiles in before the links are followed.
Expand(i, come) ==
  /\ loop = "update"
  /\ Popping(i)
  /\ nodes[i].ref # query.endRef
  /\ ~Lost(i)
  /\ TilesChange({}, come)
  /\ cur' = i
  /\ left' = LinksOf(i, UpAfter({}, come))
  /\ UNCHANGED <<mapId, query, nodes, count, loop, out, session>>

\* The filter refuses the polygon, the pool has no node for it, it has the
\* same parent as the node expanded, or its node is not improved.
FollowNothing(r) ==
  /\ cur # 0
  /\ r \in left
  /\ left' = left \ {r}
  /\ UNCHANGED <<meshVars, mapId, query, poolVars, loop, cur, out, session>>

\* lastBestNode follows the heuristic.
NoteBest(k, h) ==
  query' = IF loop = "update" /\ h < query.bestH
             THEN [query EXCEPT !.best = k, !.bestH = h]
             ELSE query

\* A polygon without a node gets one.
FollowNew(r, c, h) ==
  /\ cur # 0
  /\ r \in left
  /\ left' = left \ {r}
  /\ NodesOf(r) = {}
  /\ count < MaxNodes
  /\ loop = "wall" \/ r = query.endRef => h = 0
  /\ count' = count + 1
  /\ nodes' = [nodes EXCEPT ![count + 1] =
                 [ref |-> r, pidx |-> cur, cost |-> nodes[cur].cost + c, h |-> h]]
  /\ open' = open \cup {count + 1}
  /\ NoteBest(count + 1, h)
  /\ UNCHANGED <<meshVars, mapId, loop, cur, out, session>>

\* Mutant of Better: an equal total is taken as well.
BetterOrEqual(k, c) == nodes[cur].cost + c <= nodes[k].cost

\* total < neighbourNode->total; the heuristic of a node stays what it was.
Better(k, c) == nodes[cur].cost + c < nodes[k].cost

\* The wall queries leave closed nodes alone.
FollowBetter(r, c) ==
  /\ cur # 0
  /\ r \in left
  /\ left' = left \ {r}
  /\ \E k \in NodesOf(r) :
       /\ IF loop = "wall" THEN k \in open
          ELSE ~(nodes[k].pidx # 0 /\ nodes[k].pidx = nodes[cur].pidx)
       /\ Better(k, c)
       /\ nodes' = [nodes EXCEPT ![k].pidx = cur, ![k].cost = nodes[cur].cost + c]
       /\ open' = open \cup {k}
       /\ NoteBest(k, nodes[k].h)
  /\ UNCHANGED <<meshVars, mapId, count, loop, cur, out, session>>

Expanded ==
  /\ cur # 0
  /\ left = {}
  /\ cur' = 0
  /\ UNCHANGED <<meshVars, mapId, query, poolVars, loop, left, out, session>>

\* Mutant of UpdateEnd: an empty open list does not end the search.
UpdateEndNever ==
  /\ loop = "update"
  /\ cur = 0
  /\ loop' = "none"
  /\ UpdateReturns(query.status)
  /\ UNCHANGED <<meshVars, mapId, query, poolVars, cur, left, session>>

\* maxIter iterations are done, or the open list is empty.
UpdateEnd ==
  /\ loop = "update"
  /\ cur = 0
  /\ query' = [query EXCEPT !.status = IF open = {} THEN "success" ELSE @]
  /\ loop' = "none"
  /\ UpdateReturns(query'.status)
  /\ session' = [session EXCEPT !.found = open = {}]
  /\ UNCHANGED <<meshVars, mapId, poolVars, cur, left>>

-----------------------------------------------------------------------------
(* FinalizeSlicedFindPath.  The nodes it reverses are never read again: the*)
(* pool is cleared before it is used next.                                 *)

FoundPath(maxPath) ==
  LET whole == IF query.startRef = query.endRef THEN <<query.startRef>> ELSE PathTo(query.best)
      n == Cardinality(DOMAIN whole)
  IN  [k \in 1..(IF n < maxPath THEN n ELSE maxPath) |-> whole[k]]

FinalizeSlicedFindPath(maxPath) ==
  LET path == IF mapId = 0 \/ maxPath = 0 \/ query.status = "failure"
                THEN <<>>
                ELSE FoundPath(maxPath)
  IN  /\ Idle
      /\ out' = [op |-> "finalize", ok |-> path # <<>>, path |-> path]
      /\ mapId' = 0
      /\ query' = IF mapId = 0 \/ maxPath = 0 THEN query ELSE NoQuery
      /\ DeadPool
      /\ UNCHANGED <<meshVars, loopVars, session>>

-----------------------------------------------------------------------------
(* Other calls of the host                                                 *)

\* UnloadTile, for a tile or several.
Unload(t) ==
  /\ "unload" \in Host
  /\ Idle
  /\ t \in up
  /\ TilesChange({t}, {})
  /\ SessionGoesOn({t}, FALSE)
  /\ out' = Returned("unload", TRUE)
  /\ UNCHANGED <<mapId, query, poolVars, loopVars>>

\* CalculatePath between two polygons: a whole sliced search on the same
\* query, which ends with the reset of finalizeSlicedFindPath.
CalculatePath(gone, come) ==
  /\ "calculate" \in Host
  /\ Idle
  /\ CollectAndEnsure(gone, come)
  /\ Cardinality(RefsIn(UpAfter(gone, come), SaltAfter(gone))) > 1
  /\ query' = NoQuery
  /\ DeadPool
  /\ SessionGoesOn(gone, TRUE)
  /\ out' = Returned("calculate", TRUE)
  /\ UNCHANGED <<mapId, loopVars>>

\* findDistanceToWall and the like: a search of its own in the pool, without
\* goal, until the open list is empty.
WallBegin(r) ==
  /\ "wall" \in Host
  /\ Idle
  /\ r \in RefsIn(up, salt)
  /\ UNCHANGED query
  /\ StartPool(r, 0)
  /\ loop' = "wall"
  /\ SessionGoesOn({}, TRUE)
  /\ out' = Returned("wall", TRUE)
  /\ UNCHANGED <<meshVars, mapId, cur, left>>

WallExpand(i) ==
  /\ loop = "wall"
  /\ Popping(i)
  /\ cur' = i
  /\ left' = LinksOf(i, up)
  /\ UNCHANGED <<meshVars, mapId, query, nodes, count, loop, out, session>>

WallEnd ==
  /\ loop = "wall"
  /\ cur = 0
  /\ open = {}
  /\ loop' = "none"
  /\ UNCHANGED <<meshVars, mapId, query, poolVars, cur, left, out, session>>

-----------------------------------------------------------------------------
Init ==
  /\ up = {}
  /\ salt = [t \in Tiles |-> 1]
  /\ mapId = 0
  /\ query = NoQuery
  /\ nodes = [i \in 1..MaxNodes |-> NoNode]
  /\ count = 0
  /\ open = {}
  /\ loop = "none"
  /\ cur = 0
  /\ left = {}
  /\ out = Returned("none", FALSE)
  /\ session = NoSession

PathRequest(gone, come) ==
  \/ InitFindsNothing(gone, come)
  \/ CalculatePath(gone, come)
  \/ \E s, e \in RefsIn(UpAfter(gone, come), SaltAfter(gone)), h \in Heuristics :
       InitSlicedFindPath(gone, come, s, e, h)

HostCall ==
  \/ \E gone \in SUBSET up : \E come \in SUBSET (Tiles \ (up \ gone)) : PathRequest(gone, come)
  \/ NothingToUpdate
  \/ EndsLost
  \/ UpdateBegin
  \/ \E n \in PathSizes : FinalizeSlicedFindPath(n)
  \/ \E t \in up : Unload(t)
  \/ \E r \in RefsIn(up, salt) : WallBegin(r)

\* One iteration of the loop of updateSlicedFindPath begins.
Pop ==
  \E i \in open :
    \/ PopGoal(i)
    \/ PopLost(i)
    \/ \E come \in SUBSET (Tiles \ up) : Expand(i, come)

Follow ==
  \E r \in left :
    \/ FollowNothing(r)
    \/ \E c \in Costs :
         \/ FollowBetter(r, c)
         \/ \E h \in Heuristics : FollowNew(r, c, h)

LoopStep ==
  \/ Pop
  \/ \E i \in open : WallExpand(i)
  \/ Follow
  \/ Expanded
  \/ UpdateEnd
  \/ WallEnd

Next == HostCall \/ LoopStep

\* A loop that runs goes on; the host keeps calling Update while a search is
\* in progress, and not always for no iteration.
Fairness ==
  /\ WF_vars(LoopStep)
  /\ SF_vars(UpdateBegin \/ EndsLost)
  /\ SF_vars(Pop)

Spec == Init /\ [][Next]_vars

FairSpec == Spec /\ Fairness

-----------------------------------------------------------------------------
Node == [ref : Ref \cup {NoRef}, pidx : 0..MaxNodes, cost : Nat, h : Nat]

TypeOK ==
  /\ up \subseteq Tiles
  /\ salt \in [Tiles -> 1..MaxSalt]
  /\ mapId \in {0, MapId}
  /\ query \in [status : {"none", "progress", "success", "failure"},
                startRef : Ref \cup {NoRef}, endRef : Ref \cup {NoRef},
                best : 0..MaxNodes, bestH : Nat]
  /\ nodes \in [1..MaxNodes -> Node]
  /\ count \in 0..MaxNodes
  /\ open \subseteq 1..count
  /\ loop \in {"none", "update", "wall"}
  /\ cur \in 0..count
  /\ left \subseteq Ref
  /\ session \in [startRef : Ref \cup {NoRef}, endRef : Ref \cup {NoRef},
                  removed : SUBSET Tiles, disturbed : BOOLEAN, found : BOOLEAN]

\* The parents of the nodes in use form a tree under node 1, costs never fall
\* from parent to child, and no reference has two nodes: what lets finalize
\* and the wall queries follow pidx without a bound.  Nodes are re-opened,
\* given new parents and abandoned when their tile goes, and a cycle of
\* parents would hang the caller.
ParentsFormATree ==
  \A i \in 1..count :
    /\ Chain(i)[MaxNodes] = 0
    /\ nodes[i].pidx = 0 <=> i = 1
    /\ i # 1 => nodes[i].pidx <= count /\ nodes[nodes[i].pidx].cost <= nodes[i].cost
    /\ NodesOf(nodes[i].ref) = {i}

\* Unless another call used the query since the search was begun, Finalize
\* returns a path of that search: from its start, along links, without a
\* polygon twice, however often tiles were removed and loaded between slices.
PathIsOfTheSearch ==
  out.op = "finalize" /\ out.path # <<>> /\ ~session.disturbed =>
    /\ out.path[1] = session.startRef
    /\ \A k \in DOMAIN out.path \ {1} : <<out.path[k-1].poly, out.path[k].poly>> \in Links
    /\ \A k, m \in DOMAIN out.path : out.path[k] = out.path[m] => k = m

\* Finalize places its waypoints with the first and the last polygon of the
\* path; where they are not in the mesh it leaves the origin of the map.
WaypointsOnMesh(path) == Valid(path[1]) /\ Valid(path[Cardinality(DOMAIN path)])

\* While no tile is removed and no other call uses the query, they are there.
WaypointsAreSet ==
  out.op = "finalize" /\ out.path # <<>> /\ ~session.disturbed /\ session.removed = {}
    => WaypointsOnMesh(out.path)

\* A search the host keeps updating ends, found or not, though closed nodes
\* are re-opened and iterations load tiles, unless the host begins again for
\* ever.  That tiles go as well can only end it sooner: EndsLost and PopLost.
SearchEnds ==
  []<>(mapId = 0 \/ query.status # "progress") \/ []<>(out.op = "init")

-----------------------------------------------------------------------------
(* What the documentation says, for runs in which it is violated.          *)

\* README: Init begins a search for the given map, Update advances it.  Here:
\* after an Init that found both ends, with no other call, Update is true.
DocUpdateAdvances ==
  [][ query.status = "progress" /\ Valid(query.startRef) /\ Valid(query.endRef)
        /\ out.op = "init" /\ out'.op = "update" => out'.ok ]_vars

\* README: Finalize produces the waypoint array once the search has succeeded;
\* Detour: its constant queries have no impact on a sliced search in progress.
\* Here: the path of a search that has succeeded begins at its start, whatever
\* queries the host made before Finalize.
DocPathBeginsAtStart ==
  out.op = "finalize" /\ session.found /\ out.path # <<>> => out.path[1] = session.startRef
=============================================================================
