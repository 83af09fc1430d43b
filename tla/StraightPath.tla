---------------------------- MODULE StraightPath ----------------------------
(***************************************************************************)
(* dtNavMeshQuery::findStraightPath: the funnel that pulls a string through *)
(* a corridor of polygons, with the points it adds where the string crosses *)
(* from polygon to polygon, a result array that can be too small and a      *)
(* polygon that has left the mesh since the corridor was found.             *)
(*                                                                         *)
(* The polygons of the path are numbered 1..n.  Portal k, between polygons  *)
(* k and k+1, has a left and a right end, seen from k; where one of the two *)
(* is an off-mesh connection both ends are its end point.  Coordinates are  *)
(* integers and a point is <<x, y, d>>, for x/d and y/d: d is 1 except where *)
(* the string crosses a portal, so that all arithmetic is exact.            *)
(***************************************************************************)
EXTENDS Plane, Sequences

CONSTANTS
  Corridors,  \* corridors: [start, goal, portals, jumps]
  Sizes,      \* values of maxStraightPath
  Clamps      \* where a goal may be clamped to, apart from the ends of a portal

-----------------------------------------------------------------------------
(* What a corridor of a mesh looks like                                    *)

PolyCount(c) == Len(c.portals) + 1

\* Which side of a portal a place is on; it may be on the line through it.
Before(x, portal) == Area(x, portal.l, portal.r) >= 0
Behind(x, portal) == Area(x, portal.r, portal.l) >= 0

InFront(x, portal) == Area(x, portal.l, portal.r) > 0

\* The portals are parts of one edge, next to each other or apart.
SameEdge(p, q) ==
  \/ Between(p.l, p.r, q.r) /\ Between(q.l, p.l, q.r)
  \/ Between(p.r, p.l, q.l) /\ Between(q.r, p.r, q.l)

\* A convex polygon of the ground is entered by portal p and left by portal q.
\* A portal at the border of a tile is cut to where the two polygons meet, so
\* that p and q may lie on one line, on one edge or on two.
Polygon(p, q) ==
  /\ Before(p.l, q) /\ Before(p.r, q) /\ Behind(q.l, p) /\ Behind(q.r, p)
  /\ \/ IsPoint(p) \/ IsPoint(q)
     \/ SameEdge(p, q)
     \/ InFront(p.l, q) \/ InFront(p.r, q)

SoundCorridor(c) ==
  LET n == PolyCount(c) IN
  /\ {c.start, c.goal} \subseteq Places
  /\ c.portals \in Seq([l : Places, r : Places])
  /\ c.jumps \subseteq 2..n
  /\ \A k \in 1..(n - 1) : IsPoint(c.portals[k]) <=> k \in c.jumps \/ k + 1 \in c.jumps
  /\ \A k \in c.jumps : k + 1 \notin c.jumps
  /\ \A k \in 2..(n - 1) : k \notin c.jumps => Polygon(c.portals[k - 1], c.portals[k])
  /\ n > 1 => Before(c.start, c.portals[1]) /\ Behind(c.goal, c.portals[n - 1])

\* No portal is seen edge-on by a string that comes to it from the start or from
\* an end of the portal before.
FacesPortals(c) ==
  LET n == PolyCount(c)
      Faced(x, portal) == IsPoint(portal) \/ InFront(x, portal) \/ x \in {portal.l, portal.r}
  IN  /\ n > 1 => Faced(c.start, c.portals[1]) \/ OnPortal(c.start, c.portals[1])
      /\ \A k \in 2..(n - 1) : \A x \in {c.portals[k - 1].l, c.portals[k - 1].r} : Faced(x, c.portals[k])

ASSUME CorridorsAssumption == \A c \in Corridors : SoundCorridor(c)
ASSUME SizesAssumption == Sizes \subseteq Nat \ {0}
ASSUME ClampsAssumption == Clamps \subseteq Places

-----------------------------------------------------------------------------
VARIABLES
  corridor,   \* the path and the two positions, clamped to its ends
  lost,       \* the first polygon of the path that is not in the mesh, or the
              \* last if it is not; 0: none
  crossings,  \* options: DT_STRAIGHTPATH_ALL_CROSSINGS
  size,       \* maxStraightPath
  at,         \* i: the polygon whose portal comes next
  apex,       \* portalApex, apexIndex
  left,       \* portalLeft, leftIndex, leftPolyRef and leftPolyType
  right,      \* the same on the right
  points,     \* the result arrays
  pulled      \* the status: "none", "progress", "success" or "failure", with
              \* the detail flags

pullVars == <<corridor, lost, crossings, size, at, apex, left, right, points, pulled>>

Polys == PolyCount(corridor)

Status(code, flags) == [code |-> code, flags |-> flags]

Flags == {"start", "end", "offmesh", "none"}

Vertex(pt, flag, ref) == [pt |-> pt, flag |-> flag, ref |-> ref]

\* The ends of portal k; behind the last polygon they are the goal.
Portal(k) == IF k < Polys THEN corridor.portals[k] ELSE [l |-> corridor.goal, r |-> corridor.goal]

-----------------------------------------------------------------------------
(* appendVertex and appendPortals                                          *)

LastPoint(s) == s[Len(s)]

\* A vertex at the place of the last one replaces its flags and reference.
AppendVertex(s, v) ==
  IF SamePoint(LastPoint(s).pt, v.pt)
  THEN [s EXCEPT ![Len(s)] = Vertex(@.pt, v.flag, v.ref)]
  ELSE Append(s, v)

\* Mutant of IsFull: full only when a vertex has gone past the end.
IsFullAfter(s) == Len(s) > size

\* As long as the loop runs the array has room: it is full when a vertex has
\* filled it.
IsFull(s) == Len(s) >= size

\* The points at which the string from the apex, where the last point is, to
\* pt enters the polygons from + 1 .. to, as far as there is room.
AppendPortals(s, from, to, pt) ==
  LET f[k \in (from - 1)..(to - 1)] ==
        IF k = from - 1 THEN s
        ELSE IF IsFull(f[k - 1]) \/ Parallel(apex.pt, pt, corridor.portals[k]) THEN f[k - 1]
        ELSE AppendVertex(f[k - 1], Vertex(Crossing(apex.pt, pt, corridor.portals[k]), "none", k + 1))
  IN  f[to - 1]

WithCrossings(from, to, pt) == IF crossings THEN AppendPortals(points, from, to, pt) ELSE points

-----------------------------------------------------------------------------
(* The loop                                                                *)

NoSide == [pt |-> <<0, 0, 1>>, idx |-> 1, ref |-> 0, jump |-> FALSE]

\* Mutant of Side: it names the polygon in front of the portal.
SideBefore(pt, k) ==
  [pt |-> pt, idx |-> k, ref |-> IF k < Polys THEN k ELSE 0, jump |-> k \in corridor.jumps]

\* A side of the funnel moves to an end of portal k.
Side(pt, k) ==
  [pt |-> pt, idx |-> k, ref |-> IF k < Polys THEN k + 1 ELSE 0, jump |-> k + 1 \in corridor.jumps]

\* The call, once its arguments are in order: the first point, and the funnel
\* at the start.
PullBegin(c, n, all, gone) ==
  /\ corridor' = c
  /\ size' = n
  /\ crossings' = all
  /\ lost' = gone
  /\ at' = 1
  /\ LET start == [pt |-> c.start, idx |-> 1, ref |-> 1, jump |-> FALSE] IN
       /\ apex' = [pt |-> c.start, idx |-> 1]
       /\ left' = start
       /\ right' = start
  /\ IF gone \in {1, PolyCount(c)}
     THEN points' = <<>> /\ pulled' = Status("failure", {"param"})
     ELSE /\ points' = <<Vertex(c.start, "start", 1)>>
          /\ pulled' = IF n <= 1 THEN Status("success", {"small"}) ELSE Status("progress", {})

Pulling == pulled.code = "progress"

\* The string turns at a side of the funnel: the corner becomes the apex and
\* the loop starts again behind its portal, unless the array is full or the
\* corner is the goal.  The references of the two sides, which the code may have
\* moved on before a turn to the left, are written again before they are read.
Turn(side) ==
  \E s \in {WithCrossings(apex.idx, side.idx, side.pt)} :
    LET flag == IF side.ref = 0 THEN "end" ELSE IF side.jump THEN "offmesh" ELSE "none"
        t == AppendVertex(s, Vertex(side.pt, flag, side.ref))
    IN  IF IsFull(s)
        THEN /\ points' = s
             /\ pulled' = Status("success", {"small"})
             /\ UNCHANGED <<at, apex, left, right>>
        ELSE /\ points' = t
             /\ pulled' = IF IsFull(t) THEN Status("success", {"small"})
                          ELSE IF Len(t) > Len(s) /\ flag = "end" THEN Status("success", {})
                          ELSE pulled
             /\ apex' = [pt |-> side.pt, idx |-> side.idx]
             /\ left' = [left EXCEPT !.pt = side.pt, !.idx = side.idx]
             /\ right' = [right EXCEPT !.pt = side.pt, !.idx = side.idx]
             /\ at' = side.idx + 1

\* The next end on the right lies inside the funnel as far as the right side
\* can tell.
RightIn(pt) == Area(apex.pt, right.pt, pt) <= 0

\* Mutant of RightNarrows: a funnel that has closed at the apex stays closed.
RightNarrowsInside(pt) == Area(apex.pt, left.pt, pt) > 0

\* It narrows the funnel unless it lies beyond the left side.
RightNarrows(pt) == apex.pt = right.pt \/ Area(apex.pt, left.pt, pt) > 0

LeftIn(pt) == Area(apex.pt, left.pt, pt) >= 0

\* Mutant of LeftNarrows: the left side is not compared with the right one.
LeftNarrowsAlways(pt, newRight) == TRUE

\* Mutant of LeftNarrows: the left side is compared with the right one that was.
LeftNarrowsBefore(pt, newRight) == apex.pt = left.pt \/ Area(apex.pt, right.pt, pt) < 0

LeftNarrows(pt, newRight) == apex.pt = left.pt \/ Area(apex.pt, newRight.pt, pt) < 0

\* Polygon k + 1 is not in the mesh: there is no portal to it.
PortalLost(k) == k < Polys /\ k + 1 = lost

\* The string starts on the first portal.
StartsOnPortal == at = 1 /\ Polys > 1 /\ OnPortal(apex.pt, corridor.portals[1])

PullSkip ==
  /\ Pulling
  /\ at <= Polys /\ Polys > 1
  /\ ~PortalLost(at)
  /\ StartsOnPortal
  /\ at' = at + 1
  /\ UNCHANGED <<corridor, lost, crossings, size, apex, left, right, points, pulled>>

PullPortal ==
  /\ Pulling
  /\ at <= Polys /\ Polys > 1
  /\ ~PortalLost(at)
  /\ ~StartsOnPortal
  /\ UNCHANGED <<corridor, lost, crossings, size>>
  /\ LET p == Portal(at)
         newRight == IF RightIn(p.r) THEN Side(p.r, at) ELSE right
     IN  IF RightIn(p.r) /\ ~RightNarrows(p.r) THEN Turn(left)
         ELSE IF LeftIn(p.l) /\ ~LeftNarrows(p.l, newRight) THEN Turn(newRight)
         ELSE /\ right' = newRight
              /\ left' = IF LeftIn(p.l) THEN Side(p.l, at) ELSE left
              /\ at' = at + 1
              /\ UNCHANGED <<apex, points, pulled>>

\* Points of the polygon at hand that the goal may be clamped to.
Clamped == Clamps \cup {Portal(at).l, Portal(at).r}

\* The path is cut short: the goal is clamped to the last polygon that is
\* there, at some point pt of it.  Nothing stops the points from going one
\* past the array here, as the status of appendPortals is not looked at.
PullLost(pt) ==
  /\ Pulling
  /\ at <= Polys
  /\ PortalLost(at)
  /\ \E s \in {WithCrossings(apex.idx, at, pt)} :
       LET t == AppendVertex(s, Vertex(pt, "none", at)) IN
       /\ points' = t
       /\ pulled' = Status("success", {"partial"} \cup IF IsFull(t) THEN {"small"} ELSE {})
  /\ UNCHANGED <<corridor, lost, crossings, size, at, apex, left, right>>

\* Behind the loop: the last stretch and the goal.
PullEnd ==
  /\ Pulling
  /\ at > Polys \/ Polys = 1
  /\ \E s \in {IF Polys = 1 THEN points ELSE WithCrossings(apex.idx, Polys, corridor.goal)} :
       LET t == IF IsFull(s) THEN s ELSE AppendVertex(s, Vertex(corridor.goal, "end", 0)) IN
       /\ points' = t
       /\ pulled' = Status("success", IF IsFull(t) THEN {"small"} ELSE {})
  /\ UNCHANGED <<corridor, lost, crossings, size, at, apex, left, right>>
=============================================================================
