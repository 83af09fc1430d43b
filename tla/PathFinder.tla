----------------------------- MODULE PathFinder -----------------------------
(***************************************************************************)
(* One path request: Navigation::CalculatePathEx and the PathFinder it      *)
(* makes, from the polygons of the two positions through the search for a   *)
(* corridor to the points of the string pulled through it, with the status, *)
(* the step and the type that are to tell the host what the points are      *)
(* worth; and the string that Navigation::FinalizeSlicedFindPath pulls      *)
(* through a corridor found some time ago.                                  *)
(*                                                                         *)
(* Tiles are loaded for the request (TileStreaming) and the corridor is     *)
(* found (SlicedFindPath) before this module's actions; here both are       *)
(* choices.  The PathFinder is new in each request, so that there is never  *)
(* an old path to start from.                                               *)
(***************************************************************************)
EXTENDS StraightPath

CONSTANT Searches  \* what the search for a corridor may come to

VARIABLES
  caller,      \* what is running: "none", "calculate" or "sliced"
  reached,     \* the corridor leads to the end polygon
  type,        \* m_type
  lastStatus,  \* m_lastStatus: whether it says failure, and its detail flags
  failStep,    \* m_failStep
  length,      \* size of m_pathPoints
  result       \* what the host got: the call, its status, step and length

requestVars == <<caller, reached, type, lastStatus, failStep, length, result>>
vars == <<pullVars, requestVars>>

Failed(flags) == [failed |-> TRUE, flags |-> flags]
Fine(flags) == [failed |-> FALSE, flags |-> flags]

Result(of, status, step, n) == [of |-> of, status |-> status, step |-> step, length |-> n]

NoResult == Result("none", Fine({}), "none", 0)

-----------------------------------------------------------------------------
(* The end of CalculatePathEx                                              *)

\* The host gets the status with DT_PARTIAL_RESULT where the type says so, and
\* no points but always a reason where there is no path.
Return(newType, status, step, n) ==
  LET s == IF "incomplete" \in newType THEN [status EXCEPT !.flags = @ \cup {"partial"}] ELSE status
      none == s.failed \/ "nopath" \in newType \/ n = 0
  IN  /\ caller' = "none"
      /\ type' = newType
      /\ lastStatus' = status
      /\ failStep' = step
      /\ length' = n
      /\ result' =
           IF ~none THEN Result("calculate", s, step, n)
           ELSE IF s.failed THEN Result("calculate", s, step, 0)
           ELSE Result("calculate", Failed({"param"}), IF step = "none" THEN "finalize" ELSE step, 0)

\* SetFailureStatus and BuildError.
ReturnError(newType, status, step) == Return(newType, Failed(status), step, 0)

-----------------------------------------------------------------------------
(* calculate and BuildPolyPath                                             *)

Calling == caller = "none" /\ result = NoResult

\* No mesh, no query, or no tile at one of the positions.
NoTile ==
  /\ Calling
  /\ ReturnError({"normal", "notusing"}, {"param"}, "init")
  /\ reached' = FALSE
  /\ UNCHANGED pullVars

\* No polygon near the start, or else none near the end.
NoPoly(step) ==
  /\ Calling
  /\ step \in {"startpoly", "endpoly"}
  /\ ReturnError({"normal", "notusing"}, {"param"}, step)
  /\ reached' = FALSE
  /\ UNCHANGED pullVars

\* Both positions in one polygon: BuildShortcut.
SamePoly(far) ==
  /\ Calling
  /\ Return(IF far THEN {"incomplete"} ELSE {"normal"}, Fine({}), "none", 2)
  /\ reached' = TRUE
  /\ UNCHANGED pullVars

\* The search fails, or Finalize does; only a search that does not begin says
\* that its arguments are at fault.
NoCorridor(flags) ==
  /\ Calling
  /\ ReturnError({"nopath"}, flags, "update")
  /\ reached' = FALSE
  /\ UNCHANGED pullVars

\* The search found a corridor; it may have run out of nodes, ended short of
\* the end polygon or met the end of the array of polygons.  A far position
\* counts as incomplete whatever was found.
Searched ==
  {s \in [reached : BOOLEAN, far : BOOLEAN, flags : SUBSET {"partial", "nodes", "small"}] :
     /\ "partial" \in s.flags => ~s.reached
     /\ ~s.reached => s.flags \cap {"partial", "small"} # {}}

ASSUME SearchesAssumption == Searches \subseteq Searched

\* Mutant of ApplyDtStatus: the details of the search are overwritten.
ApplyDtStatusAnew(flags) == Fine(flags)

\* Details that were there stay.
ApplyDtStatus(flags) == Fine(flags \cup (lastStatus.flags \ {"param"}))

FoundCorridor(c, s, n, all) ==
  /\ Calling
  /\ caller' = "calculate"
  /\ reached' = s.reached
  /\ type' = IF s.reached /\ ~s.far THEN {"normal"} ELSE {"incomplete"}
  /\ lastStatus' = Fine(s.flags)
  /\ failStep' = "none"
  /\ length' = 0
  /\ result' = NoResult
  /\ PullBegin(c, n, all, 0)

-----------------------------------------------------------------------------
(* BuildPointPath                                                          *)

Pulled == pulled.code \in {"success", "failure"}

\* findStraightPath has come back; one point is no path.
PointPath ==
  /\ caller = "calculate"
  /\ Pulled
  /\ LET status == ApplyDtStatus(pulled.flags)
         partial == IF "incomplete" \in type THEN {"partial"} ELSE {}
     IN  IF pulled.code = "failure" THEN ReturnError({"nopath"}, pulled.flags, "straight")
         ELSE IF Len(points) < 2 THEN ReturnError({"nopath"}, {"param"}, "straight")
         ELSE Return(type, [status EXCEPT !.flags = @ \cup partial], "none", Len(points))
  /\ pulled' = Status("none", {})
  /\ UNCHANGED <<corridor, lost, crossings, size, at, apex, left, right, points, reached>>

-----------------------------------------------------------------------------
(* FinalizeSlicedFindPath                                                  *)

\* A corridor found some slices ago, polygon gone of which may have left the
\* mesh since.
SlicedCorridor(c, n, gone) ==
  /\ Calling
  /\ caller' = "sliced"
  /\ reached' = FALSE
  /\ type' = {}
  /\ lastStatus' = Fine({})
  /\ failStep' = "none"
  /\ length' = 0
  /\ result' = NoResult
  /\ PullBegin(c, n, TRUE, gone)

\* The points of the string, or else one for each polygon.  The status goes no
\* further.
SlicedPath ==
  /\ caller = "sliced"
  /\ Pulled
  /\ LET n == IF pulled.code = "success" /\ Len(points) > 0 THEN Len(points) ELSE Polys IN
       /\ length' = n
       /\ result' = Result("sliced", Fine({}), "none", n)
  /\ caller' = "none"
  /\ pulled' = Status("none", {})
  /\ UNCHANGED <<corridor, lost, crossings, size, at, apex, left, right, points>>
  /\ UNCHANGED <<reached, type, lastStatus, failStep>>

-----------------------------------------------------------------------------
NoCorridorYet == [start |-> <<0, 0, 1>>, goal |-> <<0, 0, 1>>, portals |-> <<>>, jumps |-> {}]

NoApex == [pt |-> <<0, 0, 1>>, idx |-> 1]

Init ==
  /\ corridor = NoCorridorYet /\ lost = 0 /\ crossings = FALSE /\ size = 1
  /\ at = 1 /\ apex = NoApex /\ left = NoSide /\ right = NoSide
  /\ points = <<>> /\ pulled = Status("none", {})
  /\ caller = "none" /\ reached = FALSE /\ type = {} /\ lastStatus = Fine({})
  /\ failStep = "none" /\ length = 0 /\ result = NoResult

\* The host has its result; the PathFinder and the arrays of the call are gone.
Returned ==
  /\ result # NoResult
  /\ corridor' = NoCorridorYet /\ lost' = 0 /\ crossings' = FALSE /\ size' = 1
  /\ at' = 1 /\ apex' = NoApex /\ left' = NoSide /\ right' = NoSide
  /\ points' = <<>> /\ pulled' = Status("none", {})
  /\ caller' = "none" /\ reached' = FALSE /\ type' = {} /\ lastStatus' = Fine({})
  /\ failStep' = "none" /\ length' = 0 /\ result' = NoResult

Call ==
  \/ NoTile
  \/ \E step \in {"startpoly", "endpoly"} : NoPoly(step)
  \/ \E far \in BOOLEAN : SamePoly(far)
  \/ \E flags \in {{}, {"param"}} : NoCorridor(flags)
  \/ /\ Calling
     /\ \E c \in Corridors, n \in Sizes :
          \/ \E s \in Searches, all \in BOOLEAN : FoundCorridor(c, s, n, all)
          \/ \E gone \in 0..PolyCount(c) : SlicedCorridor(c, n, gone)

Pull ==
  /\ \/ PullSkip
     \/ PullPortal
     \/ \E pt \in Clamped : PullLost(pt)
     \/ PullEnd
  /\ UNCHANGED requestVars

Next == Call \/ Pull \/ PointPath \/ SlicedPath \/ Returned

Spec == Init /\ [][Next]_vars

\* A call that has begun runs.
FairSpec == Spec /\ WF_vars(Pull \/ PointPath \/ SlicedPath)

-----------------------------------------------------------------------------
TypeOK ==
  /\ corridor = NoCorridorYet \/ SoundCorridor(corridor)
  /\ lost \in 0..Polys
  /\ crossings \in BOOLEAN
  /\ size \in Sizes \cup {1}
  /\ at \in 1..(Polys + 1)
  /\ apex.idx \in 1..Polys
  /\ \A side \in {left, right} :
       side.idx \in apex.idx..Polys /\ side.ref \in 0..Polys /\ side.jump \in BOOLEAN
  /\ \A k \in DOMAIN points : points[k].flag \in Flags /\ points[k].ref \in 0..Polys
  /\ Len(points) <= size + (IF lost = 0 THEN 0 ELSE 1)
  /\ pulled \in [code : {"none", "progress", "success", "failure"}, flags : SUBSET {"param", "partial", "small"}]
  /\ caller \in {"none", "calculate", "sliced"}
  /\ reached \in BOOLEAN
  /\ type \subseteq {"normal", "incomplete", "nopath", "notusing"}
  /\ lastStatus \in [failed : BOOLEAN, flags : SUBSET {"param", "partial", "nodes", "small"}]
  /\ failStep \in {"none", "init", "startpoly", "endpoly", "update", "straight", "finalize"}
  /\ length \in Nat

-----------------------------------------------------------------------------
(* Properties                                                              *)

\* The string is whole: it was not cut short by the array or the mesh.
Complete == Pulled /\ pulled.code = "success" /\ pulled.flags = {}

\* The number of the polygon that is entered at a point; behind the last one
\* for the goal.
Entered(v) == IF v.ref = 0 THEN Polys + 1 ELSE v.ref

\* The straight line from p to q meets the portal on the way.
Meets(p, q, portal) ==
  \/ SamePoint(p, q)
  \/ OnPortal(p, portal) \/ OnPortal(q, portal)
  \/ /\ Area(p, q, portal.l) <= 0 /\ Area(p, q, portal.r) >= 0
     /\ Area(p, portal.l, portal.r) >= 0 /\ Area(q, portal.l, portal.r) <= 0

\* The portals from point i to point j.
PortalsBetween(i, j) == {k \in 1..(Polys - 1) : Entered(points[i]) <= k /\ k < Entered(points[j])}

\* The string bends to the right (side 1) or left (side -1) at point i, and
\* every portal it meets there leaves room on that side.
IsSlack(i, side) ==
  LET p == points[i - 1].pt
      q == points[i].pt
      Room(portal) == \E e \in {portal.l, portal.r} : side * Area(p, q, e) > 0
  IN  /\ side * Area(p, q, points[i + 1].pt) > 0
      /\ \A k \in PortalsBetween(i - 1, i + 1) : OnPortal(q, Portal(k)) => Room(Portal(k))

\* The string is pulled tight: it goes from the start to the goal through every
\* portal of the corridor, and where it bends a portal holds it.  About the two
\* sides of the funnel that move past each other, close at the apex and begin
\* again behind each corner.  A portal that the string comes to edge-on leaves
\* room to neither side here.
StringIsTaut ==
  Complete =>
    /\ SamePoint(points[1].pt, corridor.start)
    /\ SamePoint(LastPoint(points).pt, corridor.goal)
    /\ \A i \in 1..(Len(points) - 1), k \in 1..(Polys - 1) :
         k \in PortalsBetween(i, i + 1) => Meets(points[i].pt, points[i + 1].pt, Portal(k))
    /\ \A i \in 2..(Len(points) - 1), side \in {1, -1} : ~IsSlack(i, side)

\* Seen from q, the end e lies straight back towards p.
IsBack(p, q, e) == Area(p, q, e) = 0 /\ \E i \in 1..2 : Diff(q, p, i) * Diff(q, e, i) > 0

\* The string bends at point i, and every portal it meets there could be passed
\* on that side or before.
IsDetour(i, side) ==
  LET p == points[i - 1].pt
      q == points[i].pt
      Room(portal) == \E e \in {portal.l, portal.r} : side * Area(p, q, e) > 0 \/ IsBack(p, q, e)
  IN  /\ side * Area(p, q, points[i + 1].pt) > 0
      /\ \A k \in PortalsBetween(i - 1, i + 1) : OnPortal(q, Portal(k)) => Room(Portal(k))

\* The string is the shortest through the corridor unless a portal is seen
\* edge-on: no bend can be passed on its inner side or before it.  About the left
\* side, which is compared with the right side that has just moved.  Of a portal
\* seen edge-on it takes the left end even if the right one is nearer
\* (DetourNavMeshQuery.cpp:1995), so that the string may go there and back.
StringTakesNoDetour ==
  Complete /\ FacesPortals(corridor) =>
    \A i \in 2..(Len(points) - 1), side \in {1, -1} : ~IsDetour(i, side)

\* The points name the polygons of the path in their order, the last one, if
\* any, being the goal; an off-mesh connection that is entered behind the start
\* is marked as one.
PointsInOrder ==
  pulled.code = "success" =>
    LET cut == "partial" \in pulled.flags
        last == Len(points)
    IN  /\ \A i, j \in 1..last :
             i < j => \/ Entered(points[i]) < Entered(points[j])
                      \/ cut /\ j = last /\ points[i].ref = points[j].ref
        /\ \A i \in 1..last :
             LET v == points[i] IN
             /\ v.flag = "end" <=> v.ref = 0
             /\ v.ref = 0 => i = last /\ SamePoint(v.pt, corridor.goal)
             /\ v.ref \in corridor.jumps /\ ~cut /\ i > 1 => v.flag = "offmesh"

\* Each point lies on the portal by which its polygon is entered.
PointsOnPortals ==
  pulled.code = "success" =>
    \A i \in 1..Len(points) :
      points[i].ref > 1 => OnPortal(points[i].pt, Portal(points[i].ref - 1))

\* The points follow the path, and unless the mesh has lost a polygon they do so
\* on its portals.  About the references and flags that follow the sides of the
\* funnel, that crossings overwrite and from which the host reads types and
\* abilities.
PointsFollowPath ==
  /\ PointsInOrder
  /\ "partial" \notin pulled.flags => PointsOnPortals

\* What the host is told of a path is true: it gets points or a failure with
\* its step, keeps every detail of the search, and a path that is not said to
\* be partial or cut short leads to the goal in the end polygon.  About the
\* status that is carried through four places, each of which overwrites,
\* preserves or adds to it.
ResultIsHonest ==
  [][caller = "calculate" /\ caller' = "none" =>
       LET s == result'.status IN
       /\ s.failed <=> result'.length = 0
       /\ s.failed <=> result'.step # "none"
       /\ ~s.failed => lastStatus.flags \subseteq s.flags
       /\ ~s.failed /\ s.flags \cap {"partial", "small"} = {} =>
            reached /\ LastPoint(points).flag = "end"]_vars

\* Every request comes to a result: the loop of findStraightPath, which sets
\* its own counter back at each corner, ends.
PathEnds == []<>(caller = "none")
=============================================================================
