----------------------------- MODULE AreaSearch -----------------------------
(***************************************************************************)
(* The searches of dtNavMeshQuery that spread from one polygon without a   *)
(* goal.  Three go over m_nodePool in the order of cost and close each     *)
(* polygon once: findPolysAroundCircle and findPolysAroundShape ("circle"),*)
(* findRandomPointAroundCircle ("random"), findDistanceToWall ("wall").    *)
(* Two go over m_tinyNodePool in the order of discovery:                   *)
(* findLocalNeighbourhood ("local") and moveAlongSurface ("move").         *)
(*                                                                         *)
(* Geometry and filter are chosen link by link, as the search meets it: a  *)
(* link may be impassable, its portal and a polygon's nearest wall at any  *)
(* of Dists, and following it may cost any of Costs.  Each search follows  *)
(* a link once, so these choices are a mesh, and `edge` keeps it.          *)
(***************************************************************************)
EXTENDS Naturals, Sequences, FiniteSets

CONSTANTS
  Polys,      \* polygons of the mesh
  Links,      \* <<p, q>>: p has a link to q
  NoPoly,     \* the null reference
  Kinds,      \* the searches the host makes
  MaxNodes,   \* nodes of m_nodePool
  MaxTiny,    \* nodes of m_tinyNodePool
  MaxStack,   \* MAX_STACK
  Sizes,      \* maxResult or maxVisitedSize, as the caller gives it
  Costs,      \* Costs[k], what following a link may cost in a search of kind k
  Dists,      \* Dists[k], distances of portals and walls from the centre
  MaxRadius   \* the radius the caller gives

AllKinds == {"circle", "random", "wall", "local", "move"}

ASSUME PolysAssumption ==
  /\ IsFiniteSet(Polys)
  /\ NoPoly \notin Polys
  /\ Links \subseteq Polys \X Polys
ASSUME KindsAssumption == Kinds \subseteq AllKinds
ASSUME PoolsAssumption ==
  /\ MaxNodes \in Nat \ {0}
  /\ MaxTiny \in Nat \ {0}
  /\ MaxStack \in Nat \ {0}
ASSUME SizesAssumption == Sizes \subseteq Nat
ASSUME CostsAssumption == Costs \in [AllKinds -> SUBSET Nat]
ASSUME DistsAssumption == Dists \in [AllKinds -> SUBSET Nat] /\ MaxRadius \in Nat

VARIABLES
  kind,     \* the search that runs or ran last; "none" before the first
  over,     \* it has ended
  start,    \* startRef
  size,     \* maxResult
  flag,     \* of the node of each polygon: "none" has no node, "new" no flags
  parent,   \* the polygon of pidx, NoPoly for 0
  total,    \* dtNode::total
  queue,    \* the stack of the local searches, which they use as a queue
  cur,      \* the polygon being expanded, or NoPoly
  left,     \* the polygons its links lead to, not yet looked at
  radius,   \* sqrt(radiusSqr), which findDistanceToWall lowers
  found,    \* randomPolyRef, the polygon of hitPos, or bestNode
  result,   \* resultRef, or visited
  status,   \* the detail bits of the status
  path,     \* what getPathFromDijkstraSearch returned last
  edge,     \* history: portal distance and cost of each link that was passable
  wall      \* history: distance of the nearest wall of each polygon expanded

callVars == <<kind, over, start, size>>
nodeVars == <<flag, parent, total, queue>>
loopVars == <<cur, left, radius, found>>
outVars == <<result, status, path>>
historyVars == <<edge, wall>>
vars == <<callVars, nodeVars, loopVars, outVars, historyVars>>

-----------------------------------------------------------------------------
ByCost == kind \in {"circle", "random", "wall"}
ByDiscovery == kind \in {"local", "move"}

\* Polygons with a node in the pool, open and closed ones.
InPool == {p \in Polys : flag[p] # "none"}
Open == {p \in Polys : flag[p] = "open"}
Closed == {p \in Polys : flag[p] = "closed"}

PoolSize == IF ByCost THEN MaxNodes ELSE MaxTiny

\* getNode gives a node, the polygon's own or a new one.
NodeFor(q) == q \in InPool \/ Cardinality(InPool) < PoolSize

Fresh(q) == flag[q] \in {"none", "new"}

\* Mutant of Store: a result that is cut short is not flagged.
StoreSilently(p) ==
  /\ result' = IF Len(result) < size THEN Append(result, p) ELSE result
  /\ status' = status

\* Store into the result arrays, or say that they are full.
Store(p) ==
  IF Len(result) < size
    THEN result' = Append(result, p) /\ status' = status
    ELSE result' = result /\ status' = status \cup {"BUFFER_TOO_SMALL"}

\* The parents from polygon p on, NoPoly where they have ended.
Chain(p) ==
  LET nth[k \in 0..Cardinality(Polys)] ==
        IF k = 0 THEN p
        ELSE IF nth[k-1] = NoPoly THEN NoPoly
        ELSE parent[nth[k-1]]
  IN  nth

\* Mutant of PathTo: a path that does not fit keeps its last polygons.
PathToEnd(p, n) ==
  LET length == Cardinality({k \in 0..Cardinality(Polys) : Chain(p)[k] # NoPoly})
      m == IF length < n THEN length ELSE n
  IN  [k \in 1..m |-> Chain(p)[m - k]]

\* getPathToNode: the chain reversed, its first n polygons.
PathTo(p, n) ==
  LET length == Cardinality({k \in 0..Cardinality(Polys) : Chain(p)[k] # NoPoly})
  IN  [k \in 1..(IF length < n THEN length ELSE n) |-> Chain(p)[length - k]]

-----------------------------------------------------------------------------
Idle == kind = "none" \/ over

\* The head of each search: the pool is cleared and the start has its node.
Begin(k, s, n) ==
  /\ Idle
  /\ k = "move" => n > 0
  /\ kind' = k
  /\ over' = FALSE
  /\ start' = s
  /\ size' = n
  /\ flag' = [p \in Polys |-> IF p # s THEN "none"
                              ELSE IF k \in {"local", "move"} THEN "closed" ELSE "open"]
  /\ parent' = [p \in Polys |-> NoPoly]
  /\ total' = [p \in Polys |-> 0]
  /\ queue' = IF k \in {"local", "move"} THEN <<s>> ELSE <<>>
  /\ cur' = NoPoly
  /\ left' = {}
  /\ radius' = MaxRadius
  /\ found' = NoPoly
  /\ result' = IF k = "local" /\ n > 0 THEN <<s>> ELSE <<>>
  /\ status' = IF k = "local" /\ n = 0 THEN {"BUFFER_TOO_SMALL"} ELSE {}
  /\ path' = <<>>
  /\ edge' = [e \in {} |-> 0]
  /\ wall' = [p \in {} |-> 0]

\* The links of p, but for those back to its parent.
LinksOf(p) == {q \in Polys : <<p, q>> \in Links} \ {parent[p]}

\* Mutant of Cheapest: any open node.
CheapestAny(p) == p \in Open

\* Node p is what pop of the open list can give.
Cheapest(p) == p \in Open /\ \A q \in Open : total[p] <= total[q]

PopCheapest(p) ==
  /\ ~over
  /\ cur = NoPoly
  /\ Cheapest(p)
  /\ cur' = p
  /\ left' = LinksOf(p)
  /\ flag' = [flag EXCEPT ![p] = "closed"]

PopCircle(p) ==
  /\ kind = "circle"
  /\ PopCheapest(p)
  /\ Store(p)
  /\ UNCHANGED <<callVars, parent, total, queue, radius, found, path, historyVars>>

\* Reservoir sampling: the first polygon on the ground is taken whatever the
\* random number is, a later one perhaps.
PopRandom(p, ground, take) ==
  /\ kind = "random"
  /\ PopCheapest(p)
  /\ found' = IF ground /\ (take \/ found = NoPoly) THEN p ELSE found
  /\ UNCHANGED <<callVars, parent, total, queue, radius, outVars, historyVars>>

\* Mutant of HitWall: the radius follows the last wall seen.
HitWallLast(p, d) ==
  /\ radius' = IF d <= MaxRadius THEN d ELSE radius
  /\ found' = IF d <= MaxRadius THEN p ELSE found

\* The edges of p that are walls, the nearest of them at distance d.
HitWall(p, d) ==
  /\ radius' = IF d <= radius THEN d ELSE radius
  /\ found' = IF d <= radius THEN p ELSE found

PopWall(p, d) ==
  /\ kind = "wall"
  /\ PopCheapest(p)
  /\ HitWall(p, d)
  /\ wall' = [q \in DOMAIN wall \cup {p} |-> IF q = p THEN d ELSE wall[q]]
  /\ UNCHANGED <<callVars, parent, total, queue, outVars, edge>>

-----------------------------------------------------------------------------
(* One link of the polygon being expanded                                  *)

Look(q) == q \in left /\ left' = left \ {q}

\* The filter refuses q, or its portal is outside the circle.
PassBy(q) ==
  /\ Look(q)
  /\ kind = "local" => q \in InPool \/ ~NodeFor(q)
  /\ UNCHANGED <<callVars, nodeVars, cur, radius, found, outVars, historyVars>>

\* The portal, at distance d, is within the circle.
Passable(q, d, c) ==
  /\ ByCost
  /\ Look(q)
  /\ d <= radius
  /\ edge' = [e \in DOMAIN edge \cup {<<cur, q>>} |->
                IF e = <<cur, q>> THEN [dist |-> d, cost |-> c] ELSE edge[e]]

OutOfNodes(q, d, c) ==
  /\ Passable(q, d, c)
  /\ ~NodeFor(q)
  /\ status' = status \cup {"OUT_OF_NODES"}
  /\ UNCHANGED <<callVars, nodeVars, cur, radius, found, result, path, wall>>

\* Mutant of Settled: an open node keeps the first total it was given.
SettledWhenOpen(q, t) == ~Fresh(q)

\* The node of q is closed, or open with a total that is no worse.
Settled(q, t) == flag[q] = "closed" \/ (flag[q] = "open" /\ t >= total[q])

Relax(q, d, c) ==
  /\ Passable(q, d, c)
  /\ NodeFor(q)
  /\ IF Settled(q, total[cur] + c)
       THEN UNCHANGED <<flag, parent, total>>
       ELSE /\ flag' = [flag EXCEPT ![q] = "open"]
            /\ parent' = [parent EXCEPT ![q] = cur]
            /\ total' = [total EXCEPT ![q] = total[cur] + c]
  /\ UNCHANGED <<callVars, queue, cur, radius, found, outVars, wall>>

Expanded ==
  /\ cur # NoPoly
  /\ left = {}
  /\ cur' = NoPoly
  /\ UNCHANGED <<callVars, nodeVars, left, radius, found, outVars, historyVars>>

\* hitNormal is made of hitPos whether there is one or not.
SearchDone ==
  /\ ~over
  /\ ByCost
  /\ cur = NoPoly
  /\ Open = {}
  /\ over' = TRUE
  /\ UNCHANGED <<kind, start, size, nodeVars, loopVars, outVars, historyVars>>

\* getPathFromDijkstraSearch, right after a search.
GetPath(p, n) ==
  /\ over
  /\ ByCost
  /\ path' = IF flag[p] = "closed" THEN PathTo(p, n) ELSE <<>>
  /\ UNCHANGED <<callVars, nodeVars, loopVars, result, status, historyVars>>

-----------------------------------------------------------------------------
(* findLocalNeighbourhood and moveAlongSurface                             *)

PopFront ==
  /\ ~over
  /\ cur = NoPoly
  /\ queue # <<>>
  /\ queue' = Tail(queue)

Enter(p) ==
  /\ cur' = p
  /\ left' = {q \in Polys : <<p, q>> \in Links}

PopLocal ==
  /\ kind = "local"
  /\ PopFront
  /\ Enter(Head(queue))
  /\ UNCHANGED <<callVars, flag, parent, total, radius, found, outVars, historyVars>>

\* The wall edges of the polygon may be nearer to the end than any before.
PopMove(nearer) ==
  /\ kind = "move"
  /\ PopFront
  /\ Enter(Head(queue))
  /\ found' = IF nearer THEN Head(queue) ELSE found
  /\ UNCHANGED <<callVars, flag, parent, total, radius, outVars, historyVars>>

\* Both searches take a node for q before they look at its distance, and
\* findLocalNeighbourhood before it asks the filter.
TakeNode(q) ==
  /\ ByDiscovery
  /\ Look(q)
  /\ flag[q] = "none"
  /\ NodeFor(q)
  /\ flag' = [flag EXCEPT ![q] = "new"]
  /\ UNCHANGED <<callVars, parent, total, queue, cur, radius, found, outVars, historyVars>>

Discover(q) ==
  /\ Look(q)
  /\ Fresh(q)
  /\ NodeFor(q)
  /\ flag' = [flag EXCEPT ![q] = "closed"]
  /\ parent' = [parent EXCEPT ![q] = cur]

\* Mutant of Push: a full stack is not noticed to be full.
PushAlways(q) == queue' = Append(queue, q)

\* A polygon for which the stack has no room is not expanded, and no flag
\* tells.
Push(q) == queue' = IF Len(queue) < MaxStack THEN Append(queue, q) ELSE queue

\* q is not visited again when it overlaps a polygon of the result.
VisitOverlapping(q) ==
  /\ kind = "local"
  /\ Discover(q)
  /\ UNCHANGED <<callVars, total, queue, cur, radius, found, outVars, historyVars>>

VisitLocal(q) ==
  /\ kind = "local"
  /\ Discover(q)
  /\ Store(q)
  /\ Push(q)
  /\ UNCHANGED <<callVars, total, cur, radius, found, path, historyVars>>

\* moveAlongSurface leaves q for another link when the stack is full.
VisitMove(q) ==
  /\ kind = "move"
  /\ Len(queue) < MaxStack
  /\ Discover(q)
  /\ Push(q)
  /\ UNCHANGED <<callVars, total, cur, radius, found, outVars, historyVars>>

LocalDone ==
  /\ ~over
  /\ kind = "local"
  /\ cur = NoPoly
  /\ queue = <<>>
  /\ over' = TRUE
  /\ UNCHANGED <<kind, start, size, nodeVars, loopVars, outVars, historyVars>>

\* visited is the way from the start to polygon p, as far as there is room;
\* the flag is set when the array is full.
StoreWalk(p) ==
  /\ result' = IF p = NoPoly THEN <<>> ELSE PathTo(p, size)
  /\ status' = IF Len(result') >= size THEN {"BUFFER_TOO_SMALL"} ELSE {}

MoveDone ==
  /\ ~over
  /\ kind = "move"
  /\ cur = NoPoly
  /\ queue = <<>>
  /\ over' = TRUE
  /\ StoreWalk(found)
  /\ UNCHANGED <<kind, start, size, nodeVars, loopVars, path, historyVars>>

\* The end is within the polygon at the front.
MoveArrives ==
  /\ kind = "move"
  /\ PopFront
  /\ over' = TRUE
  /\ found' = Head(queue)
  /\ StoreWalk(Head(queue))
  /\ UNCHANGED <<kind, start, size, flag, parent, total, cur, left, radius, path, historyVars>>

-----------------------------------------------------------------------------
Init ==
  /\ kind = "none"
  /\ over = FALSE
  /\ start = NoPoly
  /\ size = 0
  /\ flag = [p \in Polys |-> "none"]
  /\ parent = [p \in Polys |-> NoPoly]
  /\ total = [p \in Polys |-> 0]
  /\ queue = <<>>
  /\ cur = NoPoly
  /\ left = {}
  /\ radius = 0
  /\ found = NoPoly
  /\ result = <<>>
  /\ status = {}
  /\ path = <<>>
  /\ edge = [e \in {} |-> 0]
  /\ wall = [p \in {} |-> 0]

Pop ==
  \/ \E p \in Polys :
       \/ PopCircle(p)
       \/ \E ground, take \in BOOLEAN : PopRandom(p, ground, take)
       \/ \E d \in Dists["wall"] \cup {MaxRadius + 1} : PopWall(p, d)
  \/ PopLocal
  \/ \E nearer \in BOOLEAN : PopMove(nearer)

Follow ==
  \E q \in left :
    \/ PassBy(q)
    \/ \E c \in Costs[kind], d \in Dists[kind] : OutOfNodes(q, d, c) \/ Relax(q, d, c)
    \/ TakeNode(q)
    \/ VisitOverlapping(q)
    \/ VisitLocal(q)
    \/ VisitMove(q)

End == SearchDone \/ LocalDone \/ MoveDone \/ MoveArrives

Next ==
  \/ \E k \in Kinds, s \in Polys, n \in Sizes : Begin(k, s, n)
  \/ Pop
  \/ Follow
  \/ Expanded
  \/ End
  \/ \E p \in Polys, n \in Sizes : GetPath(p, n)

Spec == Init /\ [][Next]_vars

-----------------------------------------------------------------------------
IsWalk(w) == \A k \in 2..Len(w) : <<w[k-1], w[k]>> \in Links

TypeOK ==
  /\ kind \in AllKinds \cup {"none"}
  /\ over \in BOOLEAN
  /\ start \in Polys \cup {NoPoly}
  /\ size \in Nat
  /\ flag \in [Polys -> {"none", "new", "open", "closed"}]
  /\ Cardinality(InPool) <= PoolSize
  /\ parent \in [Polys -> Polys \cup {NoPoly}]
  /\ total \in [Polys -> Nat]
  /\ queue \in Seq(Polys) /\ Len(queue) <= MaxStack
  /\ cur \in Polys \cup {NoPoly}
  /\ left \subseteq Polys
  /\ radius \in Nat
  /\ found \in Polys \cup {NoPoly}
  /\ result \in Seq(Polys) /\ Len(result) <= size
  /\ status \subseteq {"OUT_OF_NODES", "BUFFER_TOO_SMALL"}
  /\ path \in Seq(Polys)
  /\ DOMAIN edge \subseteq Links
  /\ DOMAIN wall \subseteq Polys

\* A closed polygon has the least cost there is: no link that was followed
\* gives a cheaper one, the link from its parent gives this one, and none is
\* still open with less.  Closed nodes are never re-opened by these searches,
\* so an order of expansion that is off by one pop would give wrong costs.
TotalsAreLeast ==
  ByCost =>
    /\ \A p, q \in Polys : <<p, q>> \in DOMAIN edge /\ flag[q] \in {"open", "closed"} =>
         total[q] <= total[p] + edge[<<p, q>>].cost
    /\ \A p \in Polys : parent[p] # NoPoly =>
         /\ <<parent[p], p>> \in DOMAIN edge
         /\ total[p] = total[parent[p]] + edge[<<parent[p], p>>].cost
    /\ \A p \in Closed, q \in Open : total[p] <= total[q]

\* "The order of the result set is from least to highest cost": the result of
\* the circle and shape searches.  In every result a polygon stands once, and
\* after its parent, so that the parents the caller gets lead to the start.
ResultIsOrdered ==
  /\ kind = "circle" =>
       \A i, j \in 1..Len(result) : i < j => total[result[i]] <= total[result[j]]
  /\ kind \in {"circle", "local"} =>
       \A j \in 1..Len(result) :
         /\ \A i \in 1..j-1 : result[i] # result[j]
         /\ IF j = 1 THEN result[j] = start
            ELSE \E i \in 1..j-1 : result[i] = parent[result[j]]

\* When a search ends with no flag raised, it has expanded every polygon that
\* a passable link leads to, and a circle search has returned all of them.
FlagsTellAll ==
  over /\ ByCost =>
    /\ "OUT_OF_NODES" \notin status =>
         \A p, q \in Polys : <<p, q>> \in DOMAIN edge => flag[q] = "closed"
    /\ kind = "circle" /\ "BUFFER_TOO_SMALL" \notin status =>
         Closed = {result[i] : i \in 1..Len(result)}

\* findDistanceToWall shrinks its circle as it finds walls, and enters only
\* the polygons the circle then touches.  At the end no wall of a polygon that
\* can be reached within the distance it returns is nearer than that distance,
\* and the distance is that of a wall, or the radius the caller gave.
WallIsNearest ==
  kind = "wall" /\ over =>
    /\ \A p \in DOMAIN wall : radius <= wall[p]
    /\ "OUT_OF_NODES" \notin status =>
         \A p, q \in Polys :
           <<p, q>> \in DOMAIN edge /\ edge[<<p, q>>].dist <= radius => q \in DOMAIN wall
    /\ IF found = NoPoly THEN radius = MaxRadius ELSE radius = wall[found]

\* The visited polygons of moveAlongSurface are a way from the start along
\* links, without a polygon twice; with no flag it ends where the move does.
VisitedIsWalk ==
  kind = "move" /\ over /\ found # NoPoly =>
    /\ result[1] = start
    /\ IsWalk(result)
    /\ \A i, j \in 1..Len(result) : result[i] = result[j] => i = j
    /\ status = {} => result[Len(result)] = found

\* A path taken from the nodes of a search right after it goes from its start
\* along links it followed, at the least cost.
PathIsCheapest ==
  path # <<>> =>
    /\ path[1] = start
    /\ \A k \in 2..Len(path) :
         /\ <<path[k-1], path[k]>> \in DOMAIN edge
         /\ total[path[k]] = total[path[k-1]] + edge[<<path[k-1], path[k]>>].cost

=============================================================================
