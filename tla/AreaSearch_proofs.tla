-------------------------- MODULE AreaSearch_proofs --------------------------
(***************************************************************************)
(* Proofs about the searches that go by cost: their totals are the least,  *)
(* their flags tell when something is missing, and the wall they report is *)
(* the nearest, for any mesh, costs, distances and pool.                   *)
(***************************************************************************)
EXTENDS AreaSearch, Lemmas

\* The types of what the proofs speak of.
CallShape ==
  /\ kind \in AllKinds \cup {"none"}
  /\ over \in BOOLEAN
  /\ size \in Nat
  /\ queue \in Seq(Polys)
  /\ cur \in Polys \cup {NoPoly}
  /\ left \subseteq Polys
  /\ radius \in Nat
  /\ found \in Polys \cup {NoPoly}
  /\ status \subseteq {"OUT_OF_NODES", "BUFFER_TOO_SMALL"}
  /\ ByCost => result \in Seq(Polys)

NodeShape ==
  /\ flag \in [Polys -> {"none", "new", "open", "closed"}]
  /\ parent \in [Polys -> Polys \cup {NoPoly}]
  /\ total \in [Polys -> Nat]

HistoryShape ==
  /\ edge \in [DOMAIN edge -> [dist : Nat, cost : Nat]]
  /\ DOMAIN edge \subseteq Polys \X Polys
  /\ wall \in [DOMAIN wall -> Nat]
  /\ DOMAIN wall \subseteq Polys

\* Links are followed from closed polygons only.  One that leads to a polygon
\* without a node was given none because the pool was full, and was flagged.
EdgesKnown ==
  ByCost =>
    /\ \A p \in Polys : flag[p] # "new"
    /\ \A p, q \in Polys : <<p, q>> \in DOMAIN edge =>
         /\ flag[p] = "closed"
         /\ flag[q] = "none" => "OUT_OF_NODES" \in status /\ ~(Cardinality(InPool) < MaxNodes)

\* The polygon being expanded was the dearest of those closed, and no cheaper
\* one is open.
CurIsDearest ==
  ByCost /\ cur # NoPoly =>
    /\ flag[cur] = "closed"
    /\ \A p \in Closed : total[p] <= total[cur]
    /\ ~over

ParentsAreClosed ==
  ByCost => \A p \in Polys : parent[p] # NoPoly => flag[parent[p]] = "closed"

OverIsOver == over /\ ByCost => Open = {}

\* What a circle search has stored.
Stored ==
  kind = "circle" =>
    /\ "BUFFER_TOO_SMALL" \notin status => Closed = {result[i] : i \in 1..Len(result)}
    /\ \A i \in 1..Len(result) : flag[result[i]] = "closed"

WallsSeen ==
  kind = "wall" =>
    /\ DOMAIN wall = Closed
    /\ \A p \in Closed : radius <= wall[p]
    /\ IF found = NoPoly THEN radius = MaxRadius
       ELSE found \in Closed /\ radius = wall[found]

\* A polygon is expanded while links are left, each of which is followed once.
LeftIsNew ==
  left # {} =>
    /\ cur # NoPoly
    /\ ByCost => \A q \in left : <<cur, q>> \notin DOMAIN edge

SearchIInv ==
  /\ CallShape
  /\ NodeShape
  /\ HistoryShape
  /\ LeftIsNew
  /\ EdgesKnown
  /\ CurIsDearest
  /\ ParentsAreClosed
  /\ OverIsOver
  /\ Stored
  /\ WallsSeen
  /\ TotalsAreLeast

USE DEF CallShape, NodeShape, HistoryShape, ByCost, AllKinds

LEMMA EmptyFunctions ==
  /\ DOMAIN [e \in {} |-> 0] = {}
  /\ \A T : [e \in {} |-> 0] \in [DOMAIN [e \in {} |-> 0] -> T]
OBVIOUS

LEMMA InitInv == Init => SearchIInv
<1> SUFFICES ASSUME Init PROVE SearchIInv
  OBVIOUS
<1>1. CallShape
  <2>1. queue \in Seq(Polys) /\ result \in Seq(Polys)
    BY DEF Init
  <2> QED
    BY <2>1 DEF Init
<1>2. NodeShape
  <2>1. flag \in [Polys -> {"none", "new", "open", "closed"}]
    BY DEF Init
  <2>2. parent \in [Polys -> Polys \cup {NoPoly}]
    BY DEF Init
  <2>3. total \in [Polys -> Nat]
    BY DEF Init
  <2> QED
    BY <2>1, <2>2, <2>3
<1>3. HistoryShape
  BY EmptyFunctions DEF Init
<1>4. kind = "none" /\ cur = NoPoly /\ left = {}
  BY DEF Init
<1> QED
  BY <1>1, <1>2, <1>3, <1>4
     DEF SearchIInv, LeftIsNew, EdgesKnown, CurIsDearest, ParentsAreClosed, OverIsOver, Stored,
         WallsSeen, TotalsAreLeast

LEMMA BeginInv ==
  ASSUME NEW k \in Kinds, NEW s \in Polys, NEW n \in Sizes, SearchIInv, Begin(k, s, n)
  PROVE  SearchIInv'
<1>1. CallShape'
  <2>1. queue' \in Seq(Polys) /\ result' \in Seq(Polys)
    BY <<s>> \in Seq(Polys) DEF Begin
  <2> QED
    BY <2>1, KindsAssumption, SizesAssumption, DistsAssumption DEF Begin
<1>2. NodeShape'
  <2>1. flag' \in [Polys -> {"none", "new", "open", "closed"}]
    BY DEF Begin
  <2>2. parent' \in [Polys -> Polys \cup {NoPoly}]
    BY DEF Begin
  <2>3. total' \in [Polys -> Nat]
    BY DEF Begin
  <2> QED
    BY <2>1, <2>2, <2>3
<1>3. HistoryShape'
  BY EmptyFunctions DEF Begin
<1>4. DOMAIN edge' = {} /\ DOMAIN wall' = {} /\ left' = {} /\ (ByCost' => Closed' = {})
  BY EmptyFunctions DEF Begin, Closed
<1>5. ByCost' => /\ \A p \in Polys : flag'[p] # "new" /\ parent'[p] = NoPoly /\ total'[p] = 0
                 /\ cur' = NoPoly /\ ~over' /\ result' = <<>> /\ found' = NoPoly
                 /\ radius' = MaxRadius
  BY DEF Begin
<1> QED
  BY <1>1, <1>2, <1>3, <1>4, <1>5
     DEF SearchIInv, LeftIsNew, EdgesKnown, CurIsDearest, ParentsAreClosed, OverIsOver, Stored,
         WallsSeen, TotalsAreLeast, Open

-----------------------------------------------------------------------------
(* Taking a polygon from the open list                                     *)

\* What the three searches do alike when they pop a polygon.
LEMMA PopInv ==
  ASSUME NEW p \in Polys, SearchIInv, ByCost, PopCheapest(p),
         kind' = kind, over' = over, parent' = parent, total' = total, edge' = edge,
         status \subseteq status'
  PROVE  /\ left' \subseteq Polys
         /\ flag' \in [Polys -> {"none", "new", "open", "closed"}]
         /\ LeftIsNew'
         /\ LeftIsNew'
      /\ EdgesKnown' /\ CurIsDearest' /\ ParentsAreClosed' /\ OverIsOver' /\ TotalsAreLeast'
         /\ Closed' = Closed \cup {p}
         /\ p \notin Closed
         /\ \A q \in Closed : total[q] <= total[p]
<1> USE DEF SearchIInv
<1>1. flag[p] = "open" /\ p \in Open /\ \A q \in Open : total[p] <= total[q]
  BY DEF PopCheapest, Cheapest, Open
<1>2. flag' = [flag EXCEPT ![p] = "closed"] /\ cur' = p /\ left' = LinksOf(p) /\ ~over
  BY DEF PopCheapest
<1>3. InPool' = InPool
  BY <1>1, <1>2 DEF InPool
<1>4. Closed' = Closed \cup {p} /\ p \notin Closed /\ Open' = Open \ {p}
  BY <1>1, <1>2 DEF Closed, Open
<1>5. \A q \in Closed : total[q] <= total[p]
  BY <1>1 DEF TotalsAreLeast
<1>6. EdgesKnown'
  BY <1>1, <1>2, <1>3 DEF EdgesKnown
<1>7. CurIsDearest'
  BY <1>2, <1>4, <1>5 DEF CurIsDearest, Closed
<1>8. ParentsAreClosed'
  BY <1>2 DEF ParentsAreClosed
<1>9. OverIsOver'
  BY <1>2 DEF OverIsOver
<1>10. TotalsAreLeast'
  <2>1. \A q \in Closed', r \in Open' : total[q] <= total[r]
    BY <1>1, <1>4 DEF TotalsAreLeast
  <2>2. \A q, r \in Polys : <<q, r>> \in DOMAIN edge /\ flag'[r] \in {"open", "closed"} =>
          total[r] <= total[q] + edge[<<q, r>>].cost
    BY <1>1, <1>2 DEF TotalsAreLeast
  <2> QED
    BY <2>1, <2>2 DEF TotalsAreLeast
<1>11. LeftIsNew'
  BY <1>1, <1>2, PolysAssumption DEF LeftIsNew, EdgesKnown, LinksOf
<1> QED
  BY <1>2, <1>4, <1>5, <1>6, <1>7, <1>8, <1>9, <1>10, <1>11 DEF LinksOf

\* What a step leaves of Stored and WallsSeen when it stores nothing, changes
\* no wall and closes no polygon.
LEMMA HistoryKept ==
  ASSUME SearchIInv, kind' = kind, Closed' = Closed, result' = result,
         flag \in [Polys -> {"none", "new", "open", "closed"}],
         \A q \in Polys : flag[q] = "closed" => flag'[q] = "closed",
         status \subseteq status', "BUFFER_TOO_SMALL" \in status' => "BUFFER_TOO_SMALL" \in status,
         wall' = wall, radius' = radius, found' = found
  PROVE  Stored' /\ WallsSeen'
<1>1. Stored'
  <2>1. kind = "circle" => \A i \in 1..Len(result) : result[i] \in Polys
    BY DEF SearchIInv
  <2> QED
    BY <2>1 DEF SearchIInv, Stored
<1>2. WallsSeen'
  BY DEF SearchIInv, WallsSeen
<1> QED
  BY <1>1, <1>2

LEMMA PopCircleInv ==
  ASSUME NEW p \in Polys, SearchIInv, PopCircle(p)
  PROVE  SearchIInv'
<1> USE DEF SearchIInv
<1>1. /\ kind = "circle" /\ PopCheapest(p) /\ Store(p) /\ cur' = p
      /\ UNCHANGED <<kind, over, size, parent, total, queue, radius, found, edge, wall>>
  BY DEF PopCircle, PopCheapest, callVars, historyVars
<1>2. status \subseteq status' /\ status' \subseteq {"OUT_OF_NODES", "BUFFER_TOO_SMALL"}
  BY <1>1 DEF Store
<1>3. /\ left' \subseteq Polys
      /\ flag' \in [Polys -> {"none", "new", "open", "closed"}]
      /\ LeftIsNew'
      /\ EdgesKnown' /\ CurIsDearest' /\ ParentsAreClosed' /\ OverIsOver' /\ TotalsAreLeast'
      /\ Closed' = Closed \cup {p}
  BY <1>1, <1>2, PopInv
<1>4. result \in Seq(Polys) /\ result' \in Seq(Polys)
  <2>1. result \in Seq(Polys)
    BY <1>1
  <2>2. Append(result, p) \in Seq(Polys)
    BY <2>1
  <2> QED
    BY <1>1, <2>1, <2>2 DEF Store
<1>5. CallShape' /\ NodeShape' /\ HistoryShape'
  BY <1>1, <1>2, <1>3, <1>4
<1>6. Stored'
  <2>1. CASE Len(result) < size
    <3>1. result' = Append(result, p) /\ status' = status
      BY <1>1, <2>1 DEF Store
    <3>2. /\ Len(result') = Len(result) + 1
          /\ result'[Len(result) + 1] = p
          /\ \A i \in 1..Len(result) : result'[i] = result[i]
      BY <1>4, <3>1
    <3> DEFINE n == Len(result)
    <3> DEFINE New == {result'[i] : i \in 1..n+1}
               Old == {result[i] : i \in 1..n}
    <3>3. New = Old \cup {p}
      <4>1. n \in Nat
        BY <1>4
      <4>2. ASSUME NEW i \in 1..n+1 PROVE result'[i] \in Old \cup {p}
        <5>1. CASE i = n+1
          BY <3>2, <5>1
        <5>2. CASE i \in 1..n
          BY <3>2, <5>2
        <5> QED
          BY <4>1, <5>1, <5>2
      <4>3. ASSUME NEW i \in 1..n PROVE result[i] \in New
        BY <3>2, <4>1, i \in 1..n+1
      <4>4. p \in New
        BY <3>2, <4>1, n+1 \in 1..n+1
      <4>5. New \subseteq Old \cup {p}
        BY <4>2
      <4>6. Old \subseteq New
        BY <4>3
      <4> QED
        BY <4>4, <4>5, <4>6
    <3>4. \A i \in 1..Len(result') : result'[i] \in Closed'
      <4>1. \A i \in 1..n : result[i] \in Closed
        BY <1>1, <1>4 DEF Stored, Closed
      <4>2. n \in Nat
        BY <1>4
      <4> HIDE DEF n
      <4> QED
        BY <1>3, <3>2, <4>1, <4>2 DEF n
    <3> QED
      BY <1>1, <1>3, <3>1, <3>2, <3>3, <3>4 DEF Stored, Closed
  <2>2. CASE ~(Len(result) < size)
    <3>1. result' = result /\ "BUFFER_TOO_SMALL" \in status'
      BY <1>1, <2>2 DEF Store
    <3>2. \A i \in 1..Len(result) : result[i] \in Closed
      BY <1>1 DEF Stored, Closed
    <3> QED
      BY <1>3, <3>1, <3>2 DEF Stored, Closed
  <2> QED
    BY <2>1, <2>2
<1>7. WallsSeen'
  BY <1>1 DEF WallsSeen
<1> QED
  BY <1>3, <1>5, <1>6, <1>7

LEMMA PopRandomInv ==
  ASSUME NEW p \in Polys, NEW ground \in BOOLEAN, NEW take \in BOOLEAN,
         SearchIInv, PopRandom(p, ground, take)
  PROVE  SearchIInv'
<1> USE DEF SearchIInv
<1>1. /\ kind = "random" /\ PopCheapest(p) /\ cur' = p
      /\ UNCHANGED <<kind, over, size, parent, total, queue, radius, result, status, edge, wall>>
      /\ found' \in Polys \cup {NoPoly}
  BY DEF PopRandom, PopCheapest, callVars, outVars, historyVars
<1>2. /\ left' \subseteq Polys
      /\ flag' \in [Polys -> {"none", "new", "open", "closed"}]
      /\ LeftIsNew'
      /\ EdgesKnown' /\ CurIsDearest' /\ ParentsAreClosed' /\ OverIsOver' /\ TotalsAreLeast'
  BY <1>1, PopInv
<1>3. CallShape' /\ NodeShape' /\ HistoryShape'
  BY <1>1, <1>2
<1> QED
  BY <1>1, <1>2, <1>3 DEF Stored, WallsSeen

LEMMA PopWallInv ==
  ASSUME NEW p \in Polys, NEW d \in Nat, SearchIInv, PopWall(p, d)
  PROVE  SearchIInv'
<1> USE DEF SearchIInv
<1>1. /\ kind = "wall" /\ PopCheapest(p) /\ HitWall(p, d) /\ cur' = p
      /\ wall' = [q \in DOMAIN wall \cup {p} |-> IF q = p THEN d ELSE wall[q]]
      /\ UNCHANGED <<kind, over, size, parent, total, queue, result, status, edge>>
  BY DEF PopWall, PopCheapest, callVars, outVars
<1>2. /\ left' \subseteq Polys
      /\ flag' \in [Polys -> {"none", "new", "open", "closed"}]
      /\ LeftIsNew'
      /\ EdgesKnown' /\ CurIsDearest' /\ ParentsAreClosed' /\ OverIsOver' /\ TotalsAreLeast'
      /\ Closed' = Closed \cup {p} /\ p \notin Closed
  BY <1>1, PopInv
<1>3. radius' \in Nat /\ found' \in Polys \cup {NoPoly}
  BY <1>1 DEF HitWall
<1>4. CallShape' /\ NodeShape'
  BY <1>1, <1>2, <1>3
<1>5. HistoryShape'
  BY <1>1
<1>6. WallsSeen'
  <2>1. DOMAIN wall' = Closed' /\ wall'[p] = d /\ \A q \in Closed : wall'[q] = wall[q]
    BY <1>1, <1>2 DEF WallsSeen
  <2>2. radius' <= radius /\ radius' <= d
    BY <1>1 DEF HitWall
  <2>3. \A q \in Closed : wall[q] \in Nat /\ radius <= wall[q]
    BY <1>1 DEF WallsSeen
  <2>4. \A q \in Closed' : radius' <= wall'[q]
    <3>1. \A q \in Closed : radius' <= wall'[q]
      BY <1>3, <2>1, <2>2, <2>3
    <3> QED
      BY <1>2, <2>1, <2>2, <3>1
  <2>5. IF found' = NoPoly THEN radius' = MaxRadius
        ELSE found' \in Closed' /\ radius' = wall'[found']
    BY <1>1, <1>2, <2>1, PolysAssumption DEF HitWall, WallsSeen
  <2> QED
    BY <2>1, <2>4, <2>5 DEF WallsSeen
<1>7. Stored'
  BY <1>1 DEF Stored
<1> QED
  BY <1>2, <1>4, <1>5, <1>6, <1>7

-----------------------------------------------------------------------------
(* Following a link                                                        *)

\* What recording a link does to the history.
LEMMA PassableEdge ==
  ASSUME NEW q, NEW d \in Nat, NEW c \in Nat, SearchIInv, Passable(q, d, c)
  PROVE  /\ q \in left /\ q \in Polys /\ left' = left \ {q} /\ cur \in Polys
         /\ flag[cur] = "closed" /\ ~over
         /\ <<cur, q>> \notin DOMAIN edge
         /\ DOMAIN edge' = DOMAIN edge \cup {<<cur, q>>}
         /\ edge'[<<cur, q>>].cost = c
         /\ \A e \in DOMAIN edge : edge'[e] = edge[e]
         /\ edge' \in [DOMAIN edge' -> [dist : Nat, cost : Nat]]
         /\ DOMAIN edge' \subseteq Polys \X Polys
<1> USE DEF SearchIInv
<1>1. q \in left /\ q \in Polys /\ left' = left \ {q} /\ cur \in Polys /\ ByCost
  BY DEF Passable, Look, LeftIsNew
<1>2. flag[cur] = "closed" /\ ~over /\ <<cur, q>> \notin DOMAIN edge
  BY <1>1, PolysAssumption DEF CurIsDearest, LeftIsNew
<1>3. edge' = [e \in DOMAIN edge \cup {<<cur, q>>} |->
                 IF e = <<cur, q>> THEN [dist |-> d, cost |-> c] ELSE edge[e]]
  BY DEF Passable
<1>4. DOMAIN edge' = DOMAIN edge \cup {<<cur, q>>} /\ edge'[<<cur, q>>] = [dist |-> d, cost |-> c]
  BY <1>3
<1>5. \A e \in DOMAIN edge : edge'[e] = edge[e]
  BY <1>2, <1>3
<1>6. edge' \in [DOMAIN edge' -> [dist : Nat, cost : Nat]]
  BY <1>3
<1> QED
  BY <1>1, <1>2, <1>4, <1>5, <1>6

LEMMA OutOfNodesInv ==
  ASSUME NEW q, NEW d \in Nat, NEW c \in Nat, SearchIInv, OutOfNodes(q, d, c)
  PROVE  SearchIInv'
<1> USE DEF SearchIInv
<1>1. /\ Passable(q, d, c) /\ ~NodeFor(q) /\ ByCost
      /\ status' = status \cup {"OUT_OF_NODES"}
      /\ UNCHANGED <<kind, over, size, flag, parent, total, queue, cur, radius, found, result, wall>>
  BY DEF OutOfNodes, Passable, callVars, nodeVars
<1>2. /\ q \in left /\ q \in Polys /\ left' = left \ {q} /\ cur \in Polys
      /\ flag[cur] = "closed"
      /\ DOMAIN edge' = DOMAIN edge \cup {<<cur, q>>}
      /\ \A e \in DOMAIN edge : edge'[e] = edge[e]
  BY <1>1, PassableEdge
<1>3. flag[q] = "none" /\ ~(Cardinality(InPool) < MaxNodes) /\ InPool' = InPool
  BY <1>1, <1>2 DEF NodeFor, InPool, PoolSize
<1>4. CallShape' /\ NodeShape'
  BY <1>1, <1>2
<1>5. HistoryShape'
  <2>1. edge' \in [DOMAIN edge' -> [dist : Nat, cost : Nat]] /\ DOMAIN edge' \subseteq Polys \X Polys
    BY <1>1, PassableEdge
  <2> QED
    BY <1>1, <2>1
<1>6. LeftIsNew'
  BY <1>1, <1>2 DEF LeftIsNew
<1>7. EdgesKnown'
  <2> SUFFICES ASSUME NEW r \in Polys, NEW s \in Polys, <<r, s>> \in DOMAIN edge', flag[s] = "none"
               PROVE  ~(Cardinality(InPool) < MaxNodes)
    BY <1>1, <1>2, <1>3 DEF EdgesKnown
  <2> QED
    BY <1>3
<1>8. CurIsDearest' /\ ParentsAreClosed' /\ OverIsOver'
  BY <1>1, <1>2 DEF CurIsDearest, ParentsAreClosed, OverIsOver, Closed, Open
<1>9. TotalsAreLeast'
  BY <1>1, <1>2, <1>3 DEF TotalsAreLeast, Closed, Open
<1>10. Stored' /\ WallsSeen'
  BY <1>1, HistoryKept DEF Closed
<1> QED
  BY <1>4, <1>5, <1>6, <1>7, <1>8, <1>9, <1>10

LEMMA RelaxInv ==
  ASSUME NEW q, NEW d \in Nat, NEW c \in Nat, SearchIInv, Relax(q, d, c)
  PROVE  SearchIInv'
<1> USE DEF SearchIInv
<1>1. /\ Passable(q, d, c) /\ NodeFor(q) /\ ByCost
      /\ UNCHANGED <<kind, over, size, queue, cur, radius, found, result, status, wall>>
  BY DEF Relax, Passable, callVars, outVars
<1>2. /\ q \in left /\ q \in Polys /\ left' = left \ {q} /\ cur \in Polys
      /\ flag[cur] = "closed" /\ ~over
      /\ <<cur, q>> \notin DOMAIN edge
      /\ DOMAIN edge' = DOMAIN edge \cup {<<cur, q>>}
      /\ edge'[<<cur, q>>].cost = c
      /\ \A e \in DOMAIN edge : edge'[e] = edge[e]
  BY <1>1, PassableEdge
<1>3. HistoryShape'
  <2>1. edge' \in [DOMAIN edge' -> [dist : Nat, cost : Nat]] /\ DOMAIN edge' \subseteq Polys \X Polys
    BY <1>1, PassableEdge
  <2> QED
    BY <1>1, <2>1
<1>4. CallShape'
  BY <1>1, <1>2
<1>5. LeftIsNew'
  BY <1>1, <1>2 DEF LeftIsNew
<1>6. \A p \in Closed : total[p] <= total[cur]
  BY <1>1, <1>2, PolysAssumption DEF CurIsDearest
<1>7. OverIsOver'
  BY <1>1, <1>2 DEF OverIsOver
<1> DEFINE t == total[cur] + c
<1>8. CASE Settled(q, t)
  <2>1. UNCHANGED <<flag, parent, total>>
    BY <1>8 DEF Relax
  <2>2. flag[q] \in {"open", "closed"} /\ total[q] <= t
    <3>1. total[q] \in Nat /\ total[cur] \in Nat
      BY <1>2
    <3>2. CASE flag[q] = "closed"
      BY <1>2, <1>6, <3>1, <3>2 DEF Closed
    <3>3. CASE flag[q] = "open" /\ t >= total[q]
      BY <3>1, <3>3
    <3> QED
      BY <1>8, <3>2, <3>3 DEF Settled
  <2>3. EdgesKnown'
    BY <1>1, <1>2, <2>1, <2>2 DEF EdgesKnown, InPool
  <2>4. CurIsDearest' /\ ParentsAreClosed'
    BY <1>1, <2>1 DEF CurIsDearest, ParentsAreClosed, Closed
  <2>5. TotalsAreLeast'
    BY <1>1, <1>2, <2>1, <2>2 DEF TotalsAreLeast, Closed, Open
  <2>6. Stored' /\ WallsSeen'
    BY <1>1, <2>1, HistoryKept DEF Closed
  <2> QED
    BY <1>3, <1>4, <1>5, <1>7, <2>1, <2>3, <2>4, <2>5, <2>6
<1>9. CASE ~Settled(q, t)
  <2>1. /\ flag' = [flag EXCEPT ![q] = "open"]
        /\ parent' = [parent EXCEPT ![q] = cur]
        /\ total' = [total EXCEPT ![q] = t]
    BY <1>9 DEF Relax
  <2>2. total[cur] \in Nat /\ t \in Nat /\ t >= total[cur]
    BY <1>2
  <2>3. NodeShape'
    BY <1>2, <2>1, <2>2
  <2>4. flag[q] \in {"none", "open"} /\ (flag[q] = "open" => t < total[q])
    BY <1>1, <1>2, <1>9, <2>2 DEF Settled, EdgesKnown
  <2>5. q # cur /\ Closed' = Closed /\ Open' = Open \cup {q}
    BY <1>2, <2>1, <2>4 DEF Closed, Open
  <2>6. flag[q] = "none" => Cardinality(InPool) < MaxNodes
    BY <1>1, <2>4 DEF NodeFor, InPool, PoolSize
  <2>7. flag[q] # "none" => InPool' = InPool
    BY <1>2, <2>1, <2>4 DEF InPool
  <2>8. ASSUME NEW r \in Polys, NEW s \in Polys, <<r, s>> \in DOMAIN edge
        PROVE  r # q /\ flag[r] = "closed" /\ (flag[s] = "none" => flag[q] # "none")
    BY <1>1, <2>4, <2>6, <2>8 DEF EdgesKnown
  <2>9. EdgesKnown'
    <3>1. \A r \in Polys : flag'[r] # "new"
      BY <1>1, <2>1 DEF EdgesKnown
    <3>2. ASSUME NEW r \in Polys, NEW s \in Polys, <<r, s>> \in DOMAIN edge'
          PROVE  /\ flag'[r] = "closed"
                 /\ flag'[s] = "none" => "OUT_OF_NODES" \in status' /\ ~(Cardinality(InPool') < MaxNodes)
      <4>1. CASE <<r, s>> = <<cur, q>>
        BY <1>2, <2>1, <2>5, <4>1
      <4>2. CASE <<r, s>> \in DOMAIN edge
        <5>1. flag'[r] = "closed"
          BY <2>1, <2>8, <4>2
        <5>2. ASSUME flag'[s] = "none" PROVE flag[s] = "none" /\ InPool' = InPool
          BY <1>2, <2>1, <2>7, <2>8, <4>2, <5>2
        <5> QED
          BY <1>1, <4>2, <5>1, <5>2 DEF EdgesKnown
      <4> QED
        BY <1>2, <3>2, <4>1, <4>2
    <3> QED
      BY <1>1, <3>1, <3>2 DEF EdgesKnown
  <2>10. CurIsDearest'
    BY <1>1, <1>2, <1>6, <2>1, <2>5 DEF CurIsDearest, Closed
  <2>11. ParentsAreClosed'
    <3>1. ASSUME NEW p \in Polys, parent'[p] # NoPoly PROVE flag'[parent'[p]] = "closed"
      <4>1. CASE p = q
        BY <1>2, <2>1, <2>5, <4>1
      <4>2. CASE p # q
        <5>1. parent'[p] = parent[p] /\ flag[parent[p]] = "closed" /\ parent[p] \in Polys
          BY <1>1, <2>1, <3>1, <4>2 DEF ParentsAreClosed
        <5> QED
          BY <2>1, <2>4, <5>1
      <4> QED
        BY <4>1, <4>2
    <3> QED
      BY <3>1 DEF ParentsAreClosed
  <2>12. TotalsAreLeast'
    <3>1. ASSUME NEW r \in Polys, NEW s \in Polys, <<r, s>> \in DOMAIN edge',
                 flag'[s] \in {"open", "closed"}
          PROVE  total'[s] <= total'[r] + edge'[<<r, s>>].cost
      <4>1. CASE <<r, s>> = <<cur, q>>
        BY <1>2, <2>1, <2>2, <2>5, <4>1
      <4>2. CASE <<r, s>> \in DOMAIN edge
        <5>1. total'[r] = total[r] /\ edge'[<<r, s>>] = edge[<<r, s>>]
          BY <1>2, <2>1, <2>8, <4>2
        <5>2. edge[<<r, s>>].cost \in Nat /\ total[r] \in Nat
          BY <4>2
        <5>3. CASE s # q
          BY <1>1, <2>1, <3>1, <4>2, <5>1, <5>3 DEF TotalsAreLeast
        <5>4. CASE s = q
          <6>1. flag[q] = "open"
            BY <1>1, <2>4, <2>6, <4>2, <5>4 DEF EdgesKnown
          <6>2. total[q] <= total[r] + edge[<<r, q>>].cost /\ total[q] \in Nat
            BY <1>1, <1>2, <4>2, <5>4, <6>1 DEF TotalsAreLeast
          <6>3. total'[q] < total[q] /\ total'[q] \in Nat
            BY <1>2, <2>1, <2>2, <2>4, <6>1
          <6> QED
            BY <5>1, <5>2, <5>4, <6>2, <6>3
        <5> QED
          BY <5>3, <5>4
      <4> QED
        BY <1>2, <3>1, <4>1, <4>2
    <3>2. ASSUME NEW p \in Polys, parent'[p] # NoPoly
          PROVE  /\ <<parent'[p], p>> \in DOMAIN edge'
                 /\ total'[p] = total'[parent'[p]] + edge'[<<parent'[p], p>>].cost
      <4>1. CASE p = q
        BY <1>2, <2>1, <2>5, <4>1
      <4>2. CASE p # q
        <5>1. /\ parent'[p] = parent[p] /\ flag[parent[p]] = "closed" /\ parent[p] \in Polys
              /\ total'[p] = total[p]
          BY <1>1, <2>1, <3>2, <4>2 DEF ParentsAreClosed
        <5>2. total'[parent[p]] = total[parent[p]]
          BY <2>1, <2>4, <5>1
        <5>3. <<parent[p], p>> \in DOMAIN edge /\ total[p] = total[parent[p]] + edge[<<parent[p], p>>].cost
          BY <1>1, <3>2, <5>1 DEF TotalsAreLeast
        <5> QED
          BY <1>2, <5>1, <5>2, <5>3
      <4> QED
        BY <4>1, <4>2
    <3>3. ASSUME NEW p \in Closed', NEW r \in Open' PROVE total'[p] <= total'[r]
      <4>1. p \in Closed /\ p # q /\ total'[p] = total[p] /\ total[p] \in Nat
        BY <2>1, <2>4, <2>5 DEF Closed
      <4>2. CASE r = q
        BY <1>2, <1>6, <2>1, <2>2, <4>1, <4>2
      <4>3. CASE r # q
        BY <1>1, <2>1, <2>5, <4>1, <4>3 DEF TotalsAreLeast, Open
      <4> QED
        BY <4>2, <4>3
    <3> QED
      BY <3>1, <3>2, <3>3 DEF TotalsAreLeast
  <2>13. Stored' /\ WallsSeen'
    <3>1. \A r \in Polys : flag[r] = "closed" => flag'[r] = "closed"
      BY <2>1, <2>4
    <3> QED
      BY <1>1, <2>5, <3>1, HistoryKept
  <2> QED
    BY <1>3, <1>4, <1>5, <1>7, <2>3, <2>9, <2>10, <2>11, <2>12, <2>13
<1> QED
  BY <1>8, <1>9

-----------------------------------------------------------------------------
(* The other steps                                                         *)

\* Steps that change nothing but where the loop is and the path returned.
LEMMA QuietInv ==
  ASSUME SearchIInv,
         \/ \E q \in left : PassBy(q)
         \/ Expanded
         \/ SearchDone
         \/ LocalDone
         \/ \E p \in Polys, n \in Sizes : GetPath(p, n)
         \/ UNCHANGED vars
  PROVE  SearchIInv'
<1> USE DEF SearchIInv
<1>1. /\ UNCHANGED <<kind, size, flag, parent, total, queue, radius, found, result, status, edge, wall>>
      /\ left' \subseteq left
      /\ cur' = cur \/ (cur' = NoPoly /\ left' = {})
      /\ over' = over \/ (over' = TRUE /\ cur' = NoPoly /\ (ByCost => Open = {}))
  BY DEF PassBy, Look, Expanded, SearchDone, LocalDone, GetPath, vars, callVars, nodeVars,
         loopVars, outVars, historyVars
<1>2. CallShape' /\ NodeShape' /\ HistoryShape'
  BY <1>1
<1>3. LeftIsNew'
  BY <1>1 DEF LeftIsNew
<1>4. EdgesKnown'
  BY <1>1 DEF EdgesKnown, InPool
<1>5. CurIsDearest'
  BY <1>1 DEF CurIsDearest, Closed
<1>6. ParentsAreClosed' /\ OverIsOver'
  BY <1>1 DEF ParentsAreClosed, OverIsOver, Open
<1>7. Stored' /\ WallsSeen' /\ TotalsAreLeast'
  BY <1>1 DEF Stored, WallsSeen, TotalsAreLeast, Closed, Open
<1> QED
  BY <1>2, <1>3, <1>4, <1>5, <1>6, <1>7

\* Steps of the searches that go by discovery, of which only types are said.
LEMMA DiscoveryInv ==
  ASSUME SearchIInv,
         \/ PopLocal
         \/ \E nearer \in BOOLEAN : PopMove(nearer)
         \/ MoveDone
         \/ MoveArrives
         \/ \E q \in left : TakeNode(q) \/ VisitOverlapping(q) \/ VisitLocal(q) \/ VisitMove(q)
  PROVE  SearchIInv'
<1> USE DEF SearchIInv
<1>1. ByDiscovery /\ kind' = kind /\ UNCHANGED <<size, total, radius, edge, wall>>
  BY DEF PopLocal, PopMove, MoveDone, MoveArrives, TakeNode, VisitOverlapping, VisitLocal, VisitMove,
         callVars, nodeVars, loopVars, outVars, historyVars, ByDiscovery
<1>2. ~ByCost /\ ~ByCost' /\ kind' \notin {"circle", "wall"}
  BY <1>1 DEF ByDiscovery
<1>3. \A q \in Polys : Push(q) => queue' \in Seq(Polys)
  BY DEF Push
<1>4. PopFront => queue' \in Seq(Polys) /\ Head(queue) \in Polys
  BY DEF PopFront
<1>5. /\ flag' \in [Polys -> {"none", "new", "open", "closed"}]
      /\ parent' \in [Polys -> Polys \cup {NoPoly}]
      /\ over' \in BOOLEAN /\ queue' \in Seq(Polys) /\ cur' \in Polys \cup {NoPoly}
      /\ left' \subseteq Polys /\ found' \in Polys \cup {NoPoly}
      /\ status' \subseteq {"OUT_OF_NODES", "BUFFER_TOO_SMALL"}
      /\ left' # {} => cur' # NoPoly
  <2>1. CASE PopLocal \/ \E nearer \in BOOLEAN : PopMove(nearer)
    BY <1>4, <2>1, PolysAssumption DEF PopLocal, PopMove, Enter, callVars, outVars
  <2>2. CASE MoveDone \/ MoveArrives
    BY <1>4, <2>2 DEF MoveDone, MoveArrives, StoreWalk, nodeVars, loopVars, LeftIsNew
  <2>3. ASSUME NEW q \in left, TakeNode(q) \/ VisitOverlapping(q) \/ VisitLocal(q) \/ VisitMove(q)
        PROVE  /\ UNCHANGED <<over, cur, found>>
               /\ left' = left \ {q} /\ q \in Polys
               /\ queue' \in Seq(Polys)
               /\ status' \subseteq {"OUT_OF_NODES", "BUFFER_TOO_SMALL"}
               /\ flag' = [flag EXCEPT ![q] = "new"] \/ flag' = [flag EXCEPT ![q] = "closed"]
               /\ parent' = parent \/ parent' = [parent EXCEPT ![q] = cur]
    BY <1>3, <2>3 DEF TakeNode, VisitOverlapping, VisitLocal, VisitMove, Look, Discover, Store, callVars, outVars
  <2>4. CASE \E q \in left : TakeNode(q) \/ VisitOverlapping(q) \/ VisitLocal(q) \/ VisitMove(q)
    <3> PICK q \in left : TakeNode(q) \/ VisitOverlapping(q) \/ VisitLocal(q) \/ VisitMove(q)
      BY <2>4
    <3>1. /\ UNCHANGED <<over, cur, found>>
          /\ left' = left \ {q} /\ q \in Polys
          /\ queue' \in Seq(Polys)
          /\ status' \subseteq {"OUT_OF_NODES", "BUFFER_TOO_SMALL"}
          /\ flag' = [flag EXCEPT ![q] = "new"] \/ flag' = [flag EXCEPT ![q] = "closed"]
          /\ parent' = parent \/ parent' = [parent EXCEPT ![q] = cur]
      BY <2>3
    <3>2. flag' \in [Polys -> {"none", "new", "open", "closed"}]
      BY <3>1
    <3>3. parent' \in [Polys -> Polys \cup {NoPoly}]
      <4>1. parent \in [Polys -> Polys \cup {NoPoly}] /\ cur \in Polys \cup {NoPoly}
        OBVIOUS
      <4>2. [parent EXCEPT ![q] = cur] \in [Polys -> Polys \cup {NoPoly}]
        BY <4>1
      <4> QED
        BY <3>1, <4>1, <4>2
    <3> QED
      BY <3>1, <3>2, <3>3 DEF LeftIsNew
  <2> QED
    BY <2>1, <2>2, <2>4
<1> QED
  BY <1>1, <1>2, <1>5
     DEF LeftIsNew, EdgesKnown, CurIsDearest, ParentsAreClosed, OverIsOver, Stored, WallsSeen, TotalsAreLeast

LEMMA NextInv == SearchIInv /\ [Next]_vars => SearchIInv'
<1> SUFFICES ASSUME SearchIInv, [Next]_vars PROVE SearchIInv'
  OBVIOUS
<1>1. \A k \in AllKinds : Costs[k] \subseteq Nat /\ Dists[k] \subseteq Nat
  BY CostsAssumption, DistsAssumption
<1>3. CASE \E k \in Kinds, s \in Polys, n \in Sizes : Begin(k, s, n)
  BY <1>3, BeginInv
<1>4. CASE \E p \in Polys : PopCircle(p)
  BY <1>4, PopCircleInv
<1>5. CASE \E p \in Polys, ground, take \in BOOLEAN : PopRandom(p, ground, take)
  BY <1>5, PopRandomInv
<1>6. CASE \E p \in Polys, d \in Dists["wall"] \cup {MaxRadius + 1} : PopWall(p, d)
  <2>1. Dists["wall"] \cup {MaxRadius + 1} \subseteq Nat
    BY <1>1, DistsAssumption
  <2> QED
    BY <1>6, <2>1, PopWallInv
<1>7. CASE \E q \in left, c \in Costs[kind], d \in Dists[kind] : OutOfNodes(q, d, c) \/ Relax(q, d, c)
  <2>1. ByCost
    BY <1>7 DEF OutOfNodes, Relax, Passable
  <2>2. Costs[kind] \subseteq Nat /\ Dists[kind] \subseteq Nat
    BY <1>1, <2>1
  <2> QED
    BY <1>7, <2>2, OutOfNodesInv, RelaxInv
<1>8. CASE \/ PopLocal
           \/ \E nearer \in BOOLEAN : PopMove(nearer)
           \/ MoveDone
           \/ MoveArrives
           \/ \E q \in left : TakeNode(q) \/ VisitOverlapping(q) \/ VisitLocal(q) \/ VisitMove(q)
  BY <1>8, DiscoveryInv
<1>9. CASE \/ \E q \in left : PassBy(q)
           \/ Expanded
           \/ SearchDone
           \/ LocalDone
           \/ \E p \in Polys, n \in Sizes : GetPath(p, n)
           \/ UNCHANGED vars
  BY <1>9, QuietInv
<1> QED
  BY <1>3, <1>4, <1>5, <1>6, <1>7, <1>8, <1>9 DEF Next, Pop, Follow, End

THEOREM SearchInvariant == Spec => []SearchIInv
<1> QED
  BY InitInv, NextInv, PTL DEF Spec

-----------------------------------------------------------------------------
\* Dijkstra's order: a closed polygon has the least total, for any mesh, pool
\* and costs that are not negative.
THEOREM SearchTotalsAreLeast == Spec => []TotalsAreLeast
<1>1. SearchIInv => TotalsAreLeast
  BY DEF SearchIInv
<1> QED
  BY <1>1, SearchInvariant, PTL

\* A search that ends without a flag has left out nothing.
THEOREM SearchFlagsTellAll == Spec => []FlagsTellAll
<1>1. SearchIInv => FlagsTellAll
  <2> SUFFICES ASSUME SearchIInv, over, ByCost PROVE FlagsTellAll
    BY DEF FlagsTellAll
  <2>1. ASSUME "OUT_OF_NODES" \notin status, NEW p \in Polys, NEW q \in Polys, <<p, q>> \in DOMAIN edge
        PROVE  flag[q] = "closed"
    BY <2>1 DEF SearchIInv, EdgesKnown, OverIsOver, Open
  <2> QED
    BY <2>1 DEF FlagsTellAll, SearchIInv, Stored
<1> QED
  BY <1>1, SearchInvariant, PTL

\* The circle of findDistanceToWall shrinks while it is searched, and still no
\* wall within the distance returned is left out.
THEOREM SearchWallIsNearest == Spec => []WallIsNearest
<1>1. SearchIInv => WallIsNearest
  <2> SUFFICES ASSUME SearchIInv, kind = "wall", over PROVE WallIsNearest
    BY DEF WallIsNearest
  <2>1. /\ DOMAIN wall = Closed
        /\ \A p \in Closed : radius <= wall[p]
        /\ IF found = NoPoly THEN radius = MaxRadius ELSE radius = wall[found]
    BY DEF SearchIInv, WallsSeen
  <2>2. ASSUME "OUT_OF_NODES" \notin status, NEW p \in Polys, NEW q \in Polys, <<p, q>> \in DOMAIN edge
        PROVE  q \in Closed
    BY <2>2 DEF SearchIInv, EdgesKnown, OverIsOver, Open, Closed
  <2> QED
    BY <2>1, <2>2 DEF WallIsNearest
<1> QED
  BY <1>1, SearchInvariant, PTL

-----------------------------------------------------------------------------
(* The tree of the parents                                                 *)

\* The start is the root of the tree.  Nothing costs less than nothing, so
\* that a search by cost gives it no parent while it is open, and it closes
\* before any other polygon.
StartIsRoot ==
  kind # "none" =>
    /\ start \in Polys
    /\ flag[start] \in {"open", "closed"}
    /\ parent[start] = NoPoly
    /\ ByCost => total[start] = 0 /\ (flag[start] = "open" => Closed = {})

\* Every other polygon that was reached has a parent, which is closed and has
\* a link to it.
ParentsOfReached ==
  \A p \in Polys :
    /\ parent[p] # NoPoly <=> p # start /\ flag[p] \in {"open", "closed"}
    /\ parent[p] # NoPoly => flag[parent[p]] = "closed" /\ <<parent[p], p>> \in Links

\* No set of polygons holds the parents of all its members.
NoParentLoop == \A T \in SUBSET Polys : T # {} => \E p \in T : parent[p] \notin T

\* Polygons are expanded, wait for it and end a move once they are closed.
OnlyClosedExpanded ==
  /\ kind = "none" => \A p \in Polys : flag[p] = "none"
  /\ cur # NoPoly => flag[cur] = "closed" /\ ~over
  /\ \A i \in 1..Len(queue) : flag[queue[i]] = "closed"
  /\ kind = "move" /\ found # NoPoly => flag[found] = "closed"

TreeInv ==
  /\ StartIsRoot
  /\ ParentsOfReached
  /\ NoParentLoop
  /\ OnlyClosedExpanded

\* The parents of p end with the start, at place len - 1.
EndsAtStart(p, len) ==
  /\ len \in Nat \ {0}
  /\ WalkIsOver(Chain(p), Cardinality(Polys), NoPoly, Polys, len)
  /\ Chain(p)[0] = p
  /\ Chain(p)[len-1] = start
  /\ \A k \in 1..(len-1) : Chain(p)[k] = parent[Chain(p)[k-1]]

LEMMA ChainEnds ==
  ASSUME NodeShape, TreeInv, NEW p \in Polys, flag[p] \in {"open", "closed"}
  PROVE  \E len : EndsAtStart(p, len)
<1> DEFINE N == Cardinality(Polys)
<1> DEFINE c == Chain(p)
<1>1. N \in Nat /\ IsFiniteSet(Polys) /\ NoPoly \notin Polys
  BY PolysAssumption, FS_CardinalityType
<1>2. c = WalkFrom(p, parent, NoPoly, N)
  BY DEF Chain, WalkFrom
<1>3. \A q \in Polys : parent[q] \in Polys \cup {NoPoly}
  OBVIOUS
<1> HIDE DEF N, c
<1>4. /\ c[0] = p
      /\ \A k \in 1..N : c[k] = IF c[k-1] = NoPoly THEN NoPoly ELSE parent[c[k-1]]
  BY <1>1, <1>2, <1>3, WalkSteps
<1>5. \A T \in SUBSET Polys : T # {} => \E q \in T : parent[q] \notin T
  BY DEF TreeInv, NoParentLoop
<1>6. PICK len : WalkIsOver(c, N, NoPoly, Polys, len)
  <2>1. Cardinality(Polys) <= N
    BY <1>1 DEF N
  <2>2. parent \in [Polys -> Polys \cup {NoPoly}] /\ c[0] \in Polys \cup {NoPoly}
    BY <1>4
  <2>3. QED
    BY <1>1, <1>4, <1>5, <2>1, <2>2, WalkEnds
<1>7. /\ len \in 0..N
      /\ \A k \in 0..N : c[k] # NoPoly <=> k < len
      /\ \A k \in 0..(len-1) : c[k] \in Polys
  BY <1>6 DEF WalkIsOver
<1>8. len # 0
  <2>1. 0 \in 0..N /\ c[0] # NoPoly
    BY <1>1, <1>4
  <2>2. QED
    BY <1>7, <2>1
<1>9. \A k \in 1..(len-1) : c[k] = parent[c[k-1]]
  <2> SUFFICES ASSUME NEW k \in 1..(len-1) PROVE c[k] = parent[c[k-1]]
    OBVIOUS
  <2>1. k \in 1..N /\ k - 1 \in 0..(len-1)
    BY <1>1, <1>7
  <2>2. c[k-1] # NoPoly
    BY <1>1, <1>7, <2>1
  <2>3. QED
    BY <1>4, <2>1, <2>2
\* The polygons on the way have been reached, the last one has no parent.
<1>10. \A k \in 0..(len-1) : flag[c[k]] \in {"open", "closed"}
  <2> DEFINE T == {k \in 0..(len-1) : flag[c[k]] \notin {"open", "closed"}}
  <2>1. ASSUME T # {} PROVE FALSE
    <3>1. T \in SUBSET Nat
      BY <1>7
    <3>2. PICK k \in T : \A m \in T : k <= m
      <4> HIDE DEF T
      <4>1. QED
        BY <2>1, <3>1, LeastNumber
    <3>3. k # 0 /\ k \in 0..(len-1)
      BY <1>4, <3>2
    <3>4. k \in 1..(len-1) /\ k - 1 \in 0..(len-1) /\ ~(k <= k - 1)
      BY <1>7, <3>3
    <3>5. c[k] = parent[c[k-1]] /\ c[k-1] \in Polys /\ c[k] \in Polys
      BY <1>7, <1>9, <3>3, <3>4
    <3>6. flag[c[k]] = "closed"
      BY <1>1, <3>5 DEF TreeInv, ParentsOfReached
    <3>7. QED
      BY <3>2, <3>6
  <2>2. QED
    BY <2>1
<1>11. c[len-1] = start
  <2>1. len \in 1..N /\ len - 1 \in 0..(len-1) /\ len \in 0..N
    BY <1>1, <1>7, <1>8
  <2>2. c[len] = NoPoly /\ c[len-1] \in Polys
    BY <1>7, <2>1
  <2>3. parent[c[len-1]] = NoPoly
    BY <1>1, <1>4, <2>1, <2>2
  <2>4. flag[c[len-1]] \in {"open", "closed"}
    BY <1>10, <2>1
  <2>5. QED
    BY <2>2, <2>3, <2>4 DEF TreeInv, ParentsOfReached
<1>12. EndsAtStart(p, len)
  <2>1. len \in Nat \ {0}
    BY <1>7, <1>8
  <2>2. QED
    BY <1>4, <1>6, <1>9, <1>11, <2>1 DEF EndsAtStart, c, N
<1>13. QED
  BY <1>12

\* The first n polygons of the way from the start to p.
IsWayTo(w, p, n) ==
  /\ w \in Seq(Polys)
  /\ Len(w) <= n
  /\ n > 0 => /\ Len(w) > 0
              /\ w[1] = start
              /\ \A k \in 2..Len(w) : parent[w[k]] = w[k-1]
              /\ \A i, j \in 1..Len(w) : w[i] = w[j] => i = j
              /\ Len(w) < n => w[Len(w)] = p

LEMMA WayToPoly ==
  ASSUME NodeShape, TreeInv, NEW p \in Polys, flag[p] \in {"open", "closed"}, NEW n \in Nat
  PROVE  IsWayTo(PathTo(p, n), p, n)
<1> DEFINE N == Cardinality(Polys)
<1> DEFINE c == Chain(p)
<1>1. PICK len : EndsAtStart(p, len)
  BY ChainEnds
<1>2. N \in Nat
  BY PolysAssumption, FS_CardinalityType
<1>3. /\ len \in Nat \ {0} /\ len \in 0..N
      /\ \A k \in 0..N : c[k] # NoPoly <=> k < len
      /\ \A k \in 0..(len-1) : c[k] \in Polys
      /\ \A k, m \in 0..(len-1) : c[k] = c[m] => k = m
      /\ c[0] = p /\ c[len-1] = start
      /\ \A k \in 1..(len-1) : c[k] = parent[c[k-1]]
  BY <1>1 DEF EndsAtStart, WalkIsOver
<1>4. Cardinality({k \in 0..N : c[k] # NoPoly}) = len
  <2>1. \A k : k \in 0..(len-1) <=> k \in 0..N /\ k < len
    BY <1>2, <1>3
  <2>2. {k \in 0..N : c[k] # NoPoly} = 0..(len-1)
    <3> HIDE DEF c, N
    <3>1. QED
      BY <1>3, <2>1
  <2>3. QED
    BY <1>3, <2>2, CountTo
<1> DEFINE m == IF len < n THEN len ELSE n
<1> DEFINE w == [k \in 1..m |-> c[len-k]]
<1>5. PathTo(p, n) = w
  BY <1>4 DEF PathTo
<1> HIDE DEF c, N
<1>6. m \in Nat /\ m <= n /\ m <= len /\ (m < n => m = len) /\ (n > 0 => m > 0)
  BY <1>3
<1> HIDE DEF m
<1>7. \A k \in 1..m : len - k \in 0..(len-1) /\ c[len-k] \in Polys
  <2>1. \A k \in 1..m : len - k \in 0..(len-1)
    BY <1>3, <1>6
  <2>2. QED
    BY <1>3, <2>1
<1>8. w \in Seq(Polys) /\ Len(w) = m /\ \A k \in 1..m : w[k] = c[len-k]
  <2>1. w \in [1..m -> Polys]
    BY <1>7
  <2>2. QED
    BY <1>6, <2>1
<1> HIDE DEF w
<1>9. n > 0 => w[1] = start
  BY <1>3, <1>6, <1>8
<1>10. ASSUME NEW k \in 2..m PROVE parent[w[k]] = w[k-1]
  <2>1. k \in 1..m /\ k - 1 \in 1..m /\ len - (k-1) \in 1..(len-1) /\ (len - (k-1)) - 1 = len - k
    BY <1>3, <1>6
  <2>2. c[len - (k-1)] = parent[c[len - k]]
    BY <1>3, <2>1
  <2>3. QED
    BY <1>8, <2>1, <2>2
<1>11. ASSUME NEW i \in 1..m, NEW j \in 1..m, w[i] = w[j] PROVE i = j
  <2>1. len - i \in 0..(len-1) /\ len - j \in 0..(len-1) /\ c[len-i] = c[len-j]
    BY <1>7, <1>8, <1>11
  <2>2. len - i = len - j
    BY <1>3, <2>1
  <2>3. QED
    BY <1>3, <1>6, <2>2
<1>12. m < n => w[m] = p
  <2>1. m < n => m \in 1..m /\ len - m = 0
    BY <1>3, <1>6
  <2>2. QED
    BY <1>3, <1>8, <2>1
<1>13. QED
  BY <1>5, <1>6, <1>8, <1>9, <1>10, <1>11, <1>12 DEF IsWayTo

-----------------------------------------------------------------------------
(* Arrays and tree are kept                                                *)

\* What CallShape leaves out of the types, and that the links looked at are
\* links of the polygon being expanded.
ArrayShape ==
  /\ start \in Polys \cup {NoPoly}
  /\ Cardinality(InPool) <= PoolSize
  /\ Len(queue) <= MaxStack
  /\ result \in Seq(Polys) /\ Len(result) <= size
  /\ DOMAIN edge \subseteq Links
  /\ \A q \in left : <<cur, q>> \in Links

FormIInv == SearchIInv /\ ArrayShape /\ TreeInv

\* What Store does to the result and the status.
LEMMA StoreShape ==
  ASSUME NEW p \in Polys, size \in Nat, result \in Seq(Polys), Len(result) <= size, Store(p)
  PROVE  /\ result' \in Seq(Polys) /\ Len(result') <= size
         /\ IF Len(result) < size
              THEN /\ Len(result') = Len(result) + 1
                   /\ result'[Len(result) + 1] = p
                   /\ \A i \in 1..Len(result) : result'[i] = result[i]
                   /\ status' = status
              ELSE result' = result /\ status' = status \cup {"BUFFER_TOO_SMALL"}
<1>1. CASE Len(result) < size
  <2>1. result' = Append(result, p) /\ status' = status
    BY <1>1 DEF Store
  <2>2. /\ result' \in Seq(Polys) /\ Len(result') = Len(result) + 1
        /\ result'[Len(result) + 1] = p
        /\ \A i \in 1..Len(result) : result'[i] = result[i]
    BY <2>1
  <2>3. QED
    BY <1>1, <2>1, <2>2
<1>2. CASE ~(Len(result) < size)
  BY <1>2 DEF Store
<1>3. QED
  BY <1>1, <1>2

\* One node more in the pool, where there was room.
LEMMA PoolGrows ==
  ASSUME NEW q \in Polys, Cardinality(InPool) <= PoolSize, NodeFor(q), kind' = kind,
         InPool' = InPool \cup {q}
  PROVE  Cardinality(InPool') <= PoolSize'
<1>1. IsFiniteSet(InPool)
  <2>1. InPool \subseteq Polys
    BY DEF InPool
  <2>2. QED
    BY <2>1, PolysAssumption, FS_Subset
<1>2. PoolSize' = PoolSize /\ PoolSize \in Nat
  BY PoolsAssumption DEF PoolSize
<1>3. CASE q \in InPool
  <2>1. InPool' = InPool
    BY <1>3
  <2>2. QED
    BY <1>2, <2>1
<1>4. CASE q \notin InPool
  <2>1. Cardinality(InPool \cup {q}) = Cardinality(InPool) + 1 /\ Cardinality(InPool) \in Nat
    BY <1>1, <1>4, FS_AddElement, FS_CardinalityType
  <2>2. Cardinality(InPool) < PoolSize
    BY <1>4 DEF NodeFor
  <2>3. QED
    BY <1>2, <2>1, <2>2
<1>5. QED
  BY <1>3, <1>4

\* Whatever waits in the queue is closed.
LEMMA QueueIsClosed ==
  ASSUME FormIInv
  PROVE  \A i \in 1..Len(queue) : queue[i] \in Polys /\ flag[queue[i]] = "closed"
<1>1. queue \in Seq(Polys)
  BY DEF FormIInv, SearchIInv
<1>2. \A i \in 1..Len(queue) : flag[queue[i]] = "closed"
  BY DEF FormIInv, TreeInv, OnlyClosedExpanded
<1>3. QED
  BY <1>1, <1>2

LEMMA FormInit == Init => FormIInv
<1> SUFFICES ASSUME Init PROVE FormIInv
  OBVIOUS
<1>1. SearchIInv
  BY InitInv
<1>2. ArrayShape
  <2>1. InPool = {}
    BY DEF Init, InPool
  <2>2. Cardinality(InPool) = 0 /\ PoolSize \in Nat
    BY <2>1, FS_EmptySet, PoolsAssumption DEF PoolSize
  <2>3. MaxStack \in Nat
    BY PoolsAssumption
  <2>4. Len(queue) = 0 /\ Len(result) = 0 /\ result \in Seq(Polys) /\ size = 0
    BY DEF Init
  <2>5. start = NoPoly /\ DOMAIN edge = {} /\ left = {}
    BY EmptyFunctions DEF Init
  <2>6. QED
    BY <2>2, <2>3, <2>4, <2>5 DEF ArrayShape
<1>3. TreeInv
  <2>1. \A p \in Polys : parent[p] = NoPoly /\ flag[p] = "none"
    BY DEF Init
  <2>2. NoParentLoop
    BY <2>1, PolysAssumption DEF NoParentLoop
  <2>3. kind = "none" /\ cur = NoPoly /\ Len(queue) = 0
    BY DEF Init
  <2>4. QED
    BY <2>1, <2>2, <2>3 DEF TreeInv, StartIsRoot, ParentsOfReached, OnlyClosedExpanded
<1>4. QED
  BY <1>1, <1>2, <1>3 DEF FormIInv

LEMMA FormBegin ==
  ASSUME NEW k \in Kinds, NEW s \in Polys, NEW n \in Sizes, FormIInv, Begin(k, s, n)
  PROVE  FormIInv'
<1>1. SearchIInv'
  BY BeginInv DEF FormIInv
<1>2. n \in Nat /\ k \in AllKinds /\ s # NoPoly
  BY SizesAssumption, KindsAssumption, PolysAssumption
<1>3. \A p \in Polys : /\ parent'[p] = NoPoly
                       /\ total'[p] = 0
                       /\ p # s => flag'[p] = "none"
                       /\ p = s => flag'[p] = IF k \in {"local", "move"} THEN "closed" ELSE "open"
  BY DEF Begin
<1>4. /\ kind' = k /\ start' = s /\ size' = n /\ cur' = NoPoly /\ left' = {} /\ found' = NoPoly
      /\ ~over' /\ DOMAIN edge' = {}
  BY EmptyFunctions DEF Begin
<1>5. queue' \in {<<s>>, <<>>} /\ result' \in {<<s>>, <<>>} /\ (n = 0 => result' = <<>>)
  BY <1>2 DEF Begin
<1>6. ArrayShape'
  <2>1. InPool' = {s}
    BY <1>3 DEF InPool
  <2>2. Cardinality(InPool') = 1 /\ PoolSize' \in Nat \ {0}
    BY <2>1, FS_Singleton, PoolsAssumption DEF PoolSize
  <2>3. <<s>> \in Seq(Polys) /\ Len(<<s>>) = 1 /\ <<>> \in Seq(Polys) /\ Len(<<>>) = 0
    OBVIOUS
  <2>4. Len(queue') <= MaxStack
    <3>1. MaxStack \in Nat /\ 1 <= MaxStack /\ 0 <= MaxStack
      BY PoolsAssumption
    <3>2. QED
      BY <1>5, <2>3, <3>1
  <2>5. result' \in Seq(Polys) /\ Len(result') <= n
    <3>1. CASE result' = <<>>
      BY <1>2, <2>3, <3>1
    <3>2. CASE result' = <<s>>
      <4>1. n # 0
        BY <1>5, <3>2, <2>3
      <4>2. QED
        BY <1>2, <2>3, <3>2, <4>1
    <3>3. QED
      BY <1>5, <3>1, <3>2
  <2>6. QED
    BY <1>4, <2>2, <2>4, <2>5 DEF ArrayShape
<1>7. TreeInv'
  <2>1. StartIsRoot'
    <3>1. ByCost' => Closed' = {}
      BY <1>3, <1>4 DEF Closed
    <3>2. QED
      BY <1>3, <1>4, <3>1 DEF StartIsRoot
  <2>2. ParentsOfReached'
    BY <1>3, <1>4 DEF ParentsOfReached
  <2>3. NoParentLoop'
    BY <1>3, PolysAssumption DEF NoParentLoop
  <2>4. OnlyClosedExpanded'
    <3>1. \A i \in 1..Len(queue') : flag'[queue'[i]] = "closed"
      <4>1. CASE queue' = <<s>>
        <5>1. k \in {"local", "move"}
          BY <4>1 DEF Begin
        <5>2. flag'[s] = "closed" /\ Len(queue') = 1 /\ queue'[1] = s
          BY <1>3, <4>1, <5>1
        <5>3. QED
          BY <5>2
      <4>2. CASE queue' = <<>>
        BY <4>2
      <4>3. QED
        BY <1>5, <4>1, <4>2
    <3>2. QED
      BY <1>2, <1>4, <3>1 DEF OnlyClosedExpanded
  <2>5. QED
    BY <2>1, <2>2, <2>3, <2>4 DEF TreeInv
<1>8. QED
  BY <1>1, <1>6, <1>7 DEF FormIInv

\* A polygon taken from the open list is closed.
LEMMA FormPopCheapest ==
  ASSUME NEW p \in Polys, FormIInv, ByCost, PopCheapest(p), SearchIInv',
         UNCHANGED <<kind, over, start, size, parent, total, queue, edge>>,
         result' \in Seq(Polys), Len(result') <= size
  PROVE  FormIInv'
<1> USE DEF FormIInv
<1>1. /\ flag[p] = "open" /\ ~over /\ cur' = p /\ left' = LinksOf(p)
      /\ flag' = [flag EXCEPT ![p] = "closed"]
  BY DEF PopCheapest, Cheapest, Open
<1>2. NodeShape /\ kind # "none"
  BY DEF SearchIInv
<1>3. \A q \in Polys : flag'[q] = IF q = p THEN "closed" ELSE flag[q]
  BY <1>1, <1>2
<1>4. ArrayShape'
  <2>1. InPool' = InPool /\ PoolSize' = PoolSize
    BY <1>1, <1>3 DEF InPool, PoolSize
  <2>2. \A q \in left' : <<cur', q>> \in Links
    BY <1>1 DEF LinksOf
  <2>3. QED
    BY <2>1, <2>2 DEF ArrayShape
<1>5. StartIsRoot'
  <2>1. start \in Polys /\ flag[start] \in {"open", "closed"} /\ parent[start] = NoPoly /\ total[start] = 0
    BY <1>2 DEF TreeInv, StartIsRoot
  <2>2. flag'[start] = "closed"
    <3>1. CASE start = p
      BY <1>3, <3>1
    <3>2. CASE start # p
      <4>1. parent[p] # NoPoly /\ flag[parent[p]] = "closed" /\ parent[p] \in Polys
        BY <1>1, <1>2, <3>2 DEF TreeInv, ParentsOfReached
      <4>2. flag[start] # "open"
        BY <1>2, <4>1 DEF TreeInv, StartIsRoot, Closed
      <4>3. QED
        BY <1>3, <2>1, <3>2, <4>2
    <3>3. QED
      BY <3>1, <3>2
  <2>3. QED
    BY <2>1, <2>2 DEF StartIsRoot
<1>6. ParentsOfReached'
  BY <1>1, <1>2, <1>3 DEF TreeInv, ParentsOfReached
<1>7. NoParentLoop'
  BY DEF TreeInv, NoParentLoop
<1>8. OnlyClosedExpanded'
  <2>1. \A i \in 1..Len(queue) : queue[i] \in Polys /\ flag[queue[i]] = "closed"
    BY QueueIsClosed
  <2>2. QED
    BY <1>1, <1>2, <1>3, <2>1 DEF TreeInv, OnlyClosedExpanded
<1>9. QED
  BY <1>4, <1>5, <1>6, <1>7, <1>8 DEF TreeInv

LEMMA FormPopCircle ==
  ASSUME NEW p \in Polys, FormIInv, PopCircle(p)
  PROVE  FormIInv'
<1>1. /\ kind = "circle" /\ PopCheapest(p) /\ Store(p)
      /\ UNCHANGED <<kind, over, start, size, parent, total, queue, edge>>
  BY DEF PopCircle, callVars, historyVars
<1>2. SearchIInv'
  BY PopCircleInv DEF FormIInv
<1>3. result' \in Seq(Polys) /\ Len(result') <= size
  BY <1>1, StoreShape DEF FormIInv, SearchIInv, ArrayShape
<1>4. QED
  BY <1>1, <1>2, <1>3, FormPopCheapest

LEMMA FormPopRandom ==
  ASSUME NEW p \in Polys, NEW ground \in BOOLEAN, NEW take \in BOOLEAN,
         FormIInv, PopRandom(p, ground, take)
  PROVE  FormIInv'
<1>1. /\ kind = "random" /\ PopCheapest(p)
      /\ UNCHANGED <<kind, over, start, size, parent, total, queue, edge, result>>
  BY DEF PopRandom, callVars, outVars, historyVars
<1>2. SearchIInv'
  BY PopRandomInv DEF FormIInv
<1>3. QED
  BY <1>1, <1>2, FormPopCheapest DEF FormIInv, ArrayShape

LEMMA FormPopWall ==
  ASSUME NEW p \in Polys, NEW d \in Nat, FormIInv, PopWall(p, d)
  PROVE  FormIInv'
<1>1. /\ kind = "wall" /\ PopCheapest(p)
      /\ UNCHANGED <<kind, over, start, size, parent, total, queue, edge, result>>
  BY DEF PopWall, callVars, outVars
<1>2. SearchIInv'
  BY PopWallInv DEF FormIInv
<1>3. QED
  BY <1>1, <1>2, FormPopCheapest DEF FormIInv, ArrayShape

\* Steps that change neither the tree nor the arrays.
LEMMA FormQuiet ==
  ASSUME FormIInv, SearchIInv',
         UNCHANGED <<kind, start, size, flag, parent, total, queue, result, found>>,
         over' \in {over, TRUE},
         \/ cur' = cur /\ left' \subseteq left /\ over' = over
         \/ cur' = NoPoly /\ left' = {},
         DOMAIN edge' \subseteq Links
  PROVE  FormIInv'
<1> USE DEF FormIInv
<1>1. ArrayShape'
  <2>1. InPool' = InPool /\ PoolSize' = PoolSize
    BY DEF InPool, PoolSize
  <2>2. QED
    BY <2>1 DEF ArrayShape
<1>2. StartIsRoot' /\ ParentsOfReached' /\ NoParentLoop'
  BY DEF TreeInv, StartIsRoot, ParentsOfReached, NoParentLoop, Closed
<1>3. OnlyClosedExpanded'
  BY DEF TreeInv, OnlyClosedExpanded
<1>4. QED
  BY <1>1, <1>2, <1>3 DEF TreeInv

\* Links are recorded where they are.
LEMMA EdgesAreLinks ==
  ASSUME FormIInv, NEW q, NEW d \in Nat, NEW c \in Nat, Passable(q, d, c)
  PROVE  /\ q \in left /\ q \in Polys /\ left' = left \ {q} /\ cur \in Polys /\ flag[cur] = "closed" /\ ~over
         /\ <<cur, q>> \in Links
         /\ DOMAIN edge' \subseteq Links
<1>1. /\ q \in left /\ q \in Polys /\ left' = left \ {q} /\ cur \in Polys
      /\ flag[cur] = "closed" /\ ~over
      /\ DOMAIN edge' = DOMAIN edge \cup {<<cur, q>>}
  BY PassableEdge DEF FormIInv
<1>2. QED
  BY <1>1 DEF FormIInv, ArrayShape

\* Polygon q is given the parent cur, which is closed.  No polygon has q for a
\* parent yet, as q was not closed, so that no circle comes about.
LEMMA TreeGrows ==
  ASSUME FormIInv, NodeShape', NEW q \in Polys, cur \in Polys, flag[cur] = "closed", <<cur, q>> \in Links,
         q # start, flag[q] # "closed", NEW f \in {"open", "closed"},
         flag' = [flag EXCEPT ![q] = f],
         parent' = [parent EXCEPT ![q] = cur],
         total' = total \/ total' = [total EXCEPT ![q] = total'[q]],
         ByCost => f = "open",
         UNCHANGED <<kind, start>>
  PROVE  StartIsRoot' /\ ParentsOfReached' /\ NoParentLoop'
<1> USE DEF FormIInv
<1>1. NodeShape /\ cur # q /\ cur # NoPoly
  BY PolysAssumption DEF SearchIInv
<1>2. /\ flag'[q] = f /\ parent'[q] = cur
      /\ \A p \in Polys \ {q} : flag'[p] = flag[p] /\ parent'[p] = parent[p] /\ total'[p] = total[p]
  BY <1>1
<1>3. \A p \in Polys : parent[p] # q
  <2>1. \A p \in Polys : parent[p] # NoPoly => flag[parent[p]] = "closed"
    BY DEF TreeInv, ParentsOfReached
  <2>2. q # NoPoly
    BY PolysAssumption
  <2>3. QED
    BY <2>1, <2>2
<1>4. StartIsRoot'
  <2>1. kind # "none" => start \in Polys \ {q}
    BY DEF TreeInv, StartIsRoot
  <2>2. ByCost => Closed' = Closed
    BY <1>1, <1>2 DEF Closed
  <2>3. QED
    BY <1>2, <2>1, <2>2 DEF TreeInv, StartIsRoot
<1>5. ParentsOfReached'
  <2> SUFFICES ASSUME NEW p \in Polys
               PROVE  /\ parent'[p] # NoPoly <=> p # start' /\ flag'[p] \in {"open", "closed"}
                      /\ parent'[p] # NoPoly =>
                           flag'[parent'[p]] = "closed" /\ <<parent'[p], p>> \in Links
    BY DEF ParentsOfReached
  <2>1. CASE p = q
    BY <1>1, <1>2, <2>1
  <2>2. CASE p # q
    <3>1. /\ parent[p] # NoPoly <=> p # start /\ flag[p] \in {"open", "closed"}
          /\ parent[p] # NoPoly => flag[parent[p]] = "closed" /\ <<parent[p], p>> \in Links
      BY DEF TreeInv, ParentsOfReached
    <3>2. parent[p] # NoPoly => parent[p] \in Polys \ {q}
      BY <1>1, <1>3
    <3>3. QED
      BY <1>2, <2>2, <3>1, <3>2
  <2>3. QED
    BY <2>1, <2>2
<1>6. NoParentLoop'
  <2> SUFFICES ASSUME NEW T \in SUBSET Polys, T # {} PROVE \E p \in T : parent'[p] \notin T
    BY DEF NoParentLoop
  <2> DEFINE Old == T \ {q}
  <2>1. CASE Old = {}
    BY <1>1, <1>2, <2>1
  <2>2. CASE Old # {}
    <3>1. PICK p \in Old : parent[p] \notin Old
      <4> HIDE DEF Old
      <4>1. Old \in SUBSET Polys
        BY DEF Old
      <4>2. QED
        BY <2>2, <4>1 DEF TreeInv, NoParentLoop
    <3>2. parent'[p] = parent[p] /\ parent[p] \notin T
      BY <1>2, <1>3, <3>1
    <3>3. QED
      BY <3>1, <3>2
  <2>3. QED
    BY <2>1, <2>2
<1>7. QED
  BY <1>4, <1>5, <1>6

LEMMA FormRelax ==
  ASSUME NEW q, NEW d \in Nat, NEW c \in Nat, FormIInv, Relax(q, d, c)
  PROVE  FormIInv'
<1> USE DEF FormIInv
<1>1. SearchIInv'
  BY RelaxInv
<1>2. /\ Passable(q, d, c) /\ NodeFor(q) /\ ByCost
      /\ UNCHANGED <<kind, over, start, size, queue, cur, found, result>>
  BY DEF Relax, Passable, callVars, outVars
<1>3. /\ q \in left /\ q \in Polys /\ left' = left \ {q} /\ cur \in Polys /\ flag[cur] = "closed" /\ ~over
      /\ <<cur, q>> \in Links
      /\ DOMAIN edge' \subseteq Links
  BY <1>2, EdgesAreLinks
<1> DEFINE t == total[cur] + c
<1>4. CASE Settled(q, t)
  <2>1. UNCHANGED <<flag, parent, total>>
    BY <1>4 DEF Relax
  <2>2. QED
    BY <1>1, <1>2, <1>3, <2>1, FormQuiet
<1>5. CASE ~Settled(q, t)
  <2>1. /\ flag' = [flag EXCEPT ![q] = "open"]
        /\ parent' = [parent EXCEPT ![q] = cur]
        /\ total' = [total EXCEPT ![q] = t]
    BY <1>5 DEF Relax
  <2>2. NodeShape /\ NodeShape' /\ t \in Nat
    <3>1. NodeShape /\ NodeShape'
      BY <1>1 DEF SearchIInv
    <3>2. total[cur] \in Nat
      BY <1>3, <3>1
    <3>3. QED
      BY <3>1, <3>2
  <2>3. flag[q] # "closed" /\ (flag[q] = "open" => ~(t >= total[q]))
    BY <1>5 DEF Settled
  <2>4. q # start
    <3>1. flag[start] \in {"open", "closed"} /\ total[start] = 0
      BY <1>2 DEF TreeInv, StartIsRoot
    <3>2. QED
      BY <2>2, <2>3, <3>1
  <2>5. StartIsRoot' /\ ParentsOfReached' /\ NoParentLoop'
    <3>1. total' = [total EXCEPT ![q] = total'[q]]
      BY <2>1, <2>2, <1>3
    <3>2. QED
      BY <1>2, <1>3, <2>1, <2>2, <2>3, <2>4, <3>1, TreeGrows
  <2>6. OnlyClosedExpanded'
    <3>1. \A p \in Polys : flag[p] = "closed" => flag'[p] = "closed"
      BY <2>1, <2>2, <2>3
    <3>2. \A i \in 1..Len(queue) : queue[i] \in Polys /\ flag[queue[i]] = "closed"
      BY QueueIsClosed
    <3>3. QED
      BY <1>2, <1>3, <3>1, <3>2 DEF OnlyClosedExpanded
  <2>7. ArrayShape'
    <3>1. InPool' = InPool \cup {q}
      BY <1>3, <2>1, <2>2 DEF InPool
    <3>2. Cardinality(InPool') <= PoolSize'
      BY <1>2, <1>3, <3>1, PoolGrows DEF ArrayShape
    <3>3. QED
      BY <1>2, <1>3, <3>2 DEF ArrayShape
  <2>8. QED
    BY <1>1, <2>5, <2>6, <2>7 DEF TreeInv
<1>6. QED
  BY <1>4, <1>5

LEMMA FormOutOfNodes ==
  ASSUME NEW q, NEW d \in Nat, NEW c \in Nat, FormIInv, OutOfNodes(q, d, c)
  PROVE  FormIInv'
<1>1. /\ Passable(q, d, c)
      /\ UNCHANGED <<kind, over, start, size, flag, parent, total, queue, cur, found, result>>
  BY DEF OutOfNodes, callVars, nodeVars
<1>2. left' = left \ {q} /\ DOMAIN edge' \subseteq Links
  BY <1>1, EdgesAreLinks
<1>3. SearchIInv'
  BY OutOfNodesInv DEF FormIInv
<1>4. QED
  BY <1>1, <1>2, <1>3, FormQuiet

\* The polygon at the front of the queue is expanded.
LEMMA FormPopDiscovered ==
  ASSUME FormIInv, SearchIInv', PopFront, Enter(Head(queue)),
         kind = "local" \/ (kind = "move" /\ found' \in {found, Head(queue)}),
         UNCHANGED <<kind, over, start, size, flag, parent, total, edge, result>>
  PROVE  FormIInv'
<1> USE DEF FormIInv
<1>1. queue \in Seq(Polys) /\ queue # <<>> /\ queue' = Tail(queue) /\ ~over
  BY DEF PopFront, SearchIInv
<1>2. /\ Head(queue) \in Polys /\ Head(queue) = queue[1] /\ 1 \in 1..Len(queue)
      /\ Len(queue') = Len(queue) - 1
      /\ \A i \in 1..Len(queue') : queue'[i] = queue[i+1] /\ i + 1 \in 1..Len(queue)
  BY <1>1
<1>3. \A i \in 1..Len(queue) : flag[queue[i]] = "closed"
  BY DEF TreeInv, OnlyClosedExpanded
<1>4. cur' = Head(queue) /\ left' = {q \in Polys : <<cur', q>> \in Links}
  BY DEF Enter
<1>5. ArrayShape'
  <2>1. InPool' = InPool /\ PoolSize' = PoolSize
    BY DEF InPool, PoolSize
  <2>2. Len(queue') <= MaxStack
    BY <1>2, PoolsAssumption DEF ArrayShape
  <2>3. QED
    BY <1>4, <2>1, <2>2 DEF ArrayShape
<1>6. StartIsRoot' /\ ParentsOfReached' /\ NoParentLoop'
  BY DEF TreeInv, StartIsRoot, ParentsOfReached, NoParentLoop, Closed
<1>7. OnlyClosedExpanded'
  <2>1. flag[Head(queue)] = "closed"
    BY <1>2, <1>3
  <2>2. \A i \in 1..Len(queue') : flag'[queue'[i]] = "closed"
    BY <1>2, <1>3
  <2>3. QED
    BY <1>1, <1>4, <2>1, <2>2 DEF TreeInv, OnlyClosedExpanded
<1>8. QED
  BY <1>5, <1>6, <1>7 DEF TreeInv

LEMMA FormTakeNode ==
  ASSUME NEW q \in left, FormIInv, TakeNode(q), SearchIInv'
  PROVE  FormIInv'
<1> USE DEF FormIInv
<1>1. /\ q \in Polys /\ left' = left \ {q} /\ flag[q] = "none" /\ NodeFor(q)
      /\ flag' = [flag EXCEPT ![q] = "new"] /\ ~ByCost
      /\ UNCHANGED <<kind, over, start, size, parent, total, queue, cur, found, result, edge>>
  BY DEF TakeNode, Look, callVars, outVars, historyVars, ByDiscovery, SearchIInv
<1>2. \A p \in Polys : flag'[p] = IF p = q THEN "new" ELSE flag[p]
  BY <1>1 DEF SearchIInv
<1>3. ArrayShape'
  <2>1. InPool' = InPool \cup {q}
    BY <1>1, <1>2 DEF InPool
  <2>2. Cardinality(InPool') <= PoolSize'
    BY <1>1, <2>1, PoolGrows DEF ArrayShape
  <2>3. QED
    BY <1>1, <2>2 DEF ArrayShape
<1>4. StartIsRoot'
  BY <1>1, <1>2 DEF TreeInv, StartIsRoot
<1>5. ParentsOfReached'
  <2>1. \A p \in Polys : parent[p] # NoPoly => parent[p] \in Polys /\ parent[p] # q
    BY <1>1 DEF SearchIInv, TreeInv, ParentsOfReached
  <2>2. QED
    BY <1>1, <1>2, <2>1 DEF TreeInv, ParentsOfReached
<1>6. NoParentLoop'
  BY <1>1 DEF TreeInv, NoParentLoop
<1>7. OnlyClosedExpanded'
  <2>1. \A i \in 1..Len(queue) : queue[i] \in Polys /\ flag[queue[i]] = "closed"
    BY QueueIsClosed
  <2>2. kind # "none"
    BY DEF TakeNode, ByDiscovery
  <2>3. QED
    BY <1>1, <1>2, <2>1, <2>2 DEF SearchIInv, TreeInv, OnlyClosedExpanded
<1>8. QED
  BY <1>3, <1>4, <1>5, <1>6, <1>7 DEF TreeInv

\* A polygon is visited, and expanded later if the queue has room for it.
LEMMA FormDiscover ==
  ASSUME NEW q \in left, FormIInv, SearchIInv', Discover(q), kind \in {"local", "move"},
         queue' = queue \/ Push(q),
         result' \in Seq(Polys), Len(result') <= size,
         UNCHANGED <<kind, over, start, size, total, cur, found, edge>>
  PROVE  FormIInv'
<1> USE DEF FormIInv
<1>1. /\ q \in Polys /\ left' = left \ {q} /\ flag[q] \in {"none", "new"} /\ NodeFor(q)
      /\ flag' = [flag EXCEPT ![q] = "closed"]
      /\ parent' = [parent EXCEPT ![q] = cur]
  BY DEF Discover, Look, Fresh, SearchIInv
<1>2. /\ NodeShape /\ NodeShape' /\ cur \in Polys /\ flag[cur] = "closed" /\ ~over
      /\ <<cur, q>> \in Links
  BY PolysAssumption DEF SearchIInv, LeftIsNew, TreeInv, OnlyClosedExpanded, ArrayShape
<1>3. \A p \in Polys : flag'[p] = IF p = q THEN "closed" ELSE flag[p]
  BY <1>1, <1>2
<1>4. q # start
  BY <1>1 DEF TreeInv, StartIsRoot
<1>5. StartIsRoot' /\ ParentsOfReached' /\ NoParentLoop'
  BY <1>1, <1>2, <1>4, TreeGrows
<1>6. ArrayShape'
  <2>1. InPool' = InPool \cup {q}
    BY <1>1, <1>3 DEF InPool
  <2>2. Cardinality(InPool') <= PoolSize'
    BY <1>1, <2>1, PoolGrows DEF ArrayShape
  <2>3. Len(queue') <= MaxStack
    BY <1>1, PoolsAssumption DEF Push, SearchIInv, ArrayShape
  <2>4. QED
    BY <1>1, <2>2, <2>3 DEF ArrayShape
<1>7. OnlyClosedExpanded'
  <2>1. \A i \in 1..Len(queue) : queue[i] \in Polys /\ flag[queue[i]] = "closed"
    BY QueueIsClosed
  <2>2. \A i \in 1..Len(queue') : flag'[queue'[i]] = "closed"
    <3>1. CASE queue' = queue
      BY <1>3, <2>1, <3>1
    <3>2. CASE queue' = Append(queue, q)
      <4>1. queue \in Seq(Polys)
        BY DEF SearchIInv
      <4>2. \A i \in 1..Len(queue') : queue'[i] = q \/ (i \in 1..Len(queue) /\ queue'[i] = queue[i])
        BY <3>2, <4>1
      <4>3. QED
        BY <1>1, <1>3, <2>1, <4>2
    <3>3. QED
      BY <3>1, <3>2 DEF Push
  <2>3. QED
    BY <1>1, <1>2, <1>3, <2>2 DEF SearchIInv, TreeInv, OnlyClosedExpanded
<1>8. QED
  BY <1>5, <1>6, <1>7 DEF TreeInv

\* A move is over: visited is the way to the polygon it ends in.
LEMMA FormMoveEnds ==
  ASSUME FormIInv, SearchIInv', kind = "move", cur = NoPoly,
         queue' = queue \/ (queue # <<>> /\ queue' = Tail(queue)),
         found' = found \/ (queue # <<>> /\ found' = Head(queue)),
         StoreWalk(found'),
         UNCHANGED <<kind, start, size, flag, parent, total, cur, left, edge>>
  PROVE  /\ FormIInv'
         /\ found' # NoPoly => result' = PathTo(found', size) /\ IsWayTo(result', found', size)
<1> USE DEF FormIInv
<1>1. queue \in Seq(Polys) /\ size \in Nat /\ NodeShape /\ left = {}
  BY DEF SearchIInv, LeftIsNew
<1>2. \A i \in 1..Len(queue) : queue[i] \in Polys /\ flag[queue[i]] = "closed"
  BY QueueIsClosed
<1>3. \A i \in 1..Len(queue') : flag[queue'[i]] = "closed"
  <2>1. CASE queue' = queue
    BY <1>2, <2>1
  <2>2. CASE queue # <<>> /\ queue' = Tail(queue)
    <3>1. \A i \in 1..Len(queue') : queue'[i] = queue[i+1] /\ i + 1 \in 1..Len(queue)
      BY <1>1, <2>2
    <3>2. QED
      BY <1>2, <3>1
  <2>3. QED
    BY <2>1, <2>2
<1>4. Len(queue') <= MaxStack
  BY <1>1, PoolsAssumption DEF ArrayShape
<1>5. found' # NoPoly => found' \in Polys /\ flag[found'] = "closed"
  <2>1. CASE found' = found
    BY <2>1 DEF SearchIInv, TreeInv, OnlyClosedExpanded
  <2>2. CASE queue # <<>> /\ found' = Head(queue)
    <3>1. Head(queue) = queue[1] /\ 1 \in 1..Len(queue)
      BY <1>1, <2>2
    <3>2. QED
      BY <1>2, <2>2, <3>1
  <2>3. QED
    BY <2>1, <2>2
<1>6. found' # NoPoly => result' = PathTo(found', size) /\ IsWayTo(result', found', size)
  <2>1. result' = IF found' = NoPoly THEN <<>> ELSE PathTo(found', size)
    BY DEF StoreWalk
  <2>2. ASSUME found' # NoPoly PROVE IsWayTo(PathTo(found', size), found', size)
    BY <1>1, <1>5, <2>2, WayToPoly
  <2>3. QED
    BY <2>1, <2>2
<1>7. result' \in Seq(Polys) /\ Len(result') <= size
  <2>1. CASE found' = NoPoly
    BY <1>1, <2>1 DEF StoreWalk
  <2>2. CASE found' # NoPoly
    BY <1>6, <2>2 DEF IsWayTo
  <2>3. QED
    BY <2>1, <2>2
<1>8. ArrayShape'
  <2>1. InPool' = InPool /\ PoolSize' = PoolSize
    BY DEF InPool, PoolSize
  <2>2. QED
    BY <1>4, <1>7, <2>1 DEF ArrayShape
<1>9. StartIsRoot' /\ ParentsOfReached' /\ NoParentLoop'
  BY DEF TreeInv, StartIsRoot, ParentsOfReached, NoParentLoop, Closed
<1>10. OnlyClosedExpanded'
  BY <1>3, <1>5 DEF OnlyClosedExpanded
<1>11. QED
  BY <1>6, <1>8, <1>9, <1>10 DEF TreeInv

LEMMA FormNext == FormIInv /\ [Next]_vars => FormIInv'
<1> SUFFICES ASSUME FormIInv, [Next]_vars PROVE FormIInv'
  OBVIOUS
<1>1. SearchIInv'
  BY NextInv DEF FormIInv
<1>2. \A k \in AllKinds : Costs[k] \subseteq Nat /\ Dists[k] \subseteq Nat
  BY CostsAssumption, DistsAssumption
<1>3. CASE \E k \in Kinds, s \in Polys, n \in Sizes : Begin(k, s, n)
  BY <1>3, FormBegin
<1>4. CASE \E p \in Polys : PopCircle(p)
  BY <1>4, FormPopCircle
<1>5. CASE \E p \in Polys, ground, take \in BOOLEAN : PopRandom(p, ground, take)
  BY <1>5, FormPopRandom
<1>6. CASE \E p \in Polys, d \in Dists["wall"] \cup {MaxRadius + 1} : PopWall(p, d)
  <2>1. Dists["wall"] \cup {MaxRadius + 1} \subseteq Nat
    BY <1>2, DistsAssumption
  <2>2. QED
    BY <1>6, <2>1, FormPopWall
<1>7. CASE \E q \in left, c \in Costs[kind], d \in Dists[kind] : OutOfNodes(q, d, c) \/ Relax(q, d, c)
  <2>1. ByCost
    BY <1>7 DEF OutOfNodes, Relax, Passable
  <2>2. Costs[kind] \subseteq Nat /\ Dists[kind] \subseteq Nat
    BY <1>2, <2>1
  <2>3. QED
    BY <1>7, <2>2, FormOutOfNodes, FormRelax
<1>8. CASE PopLocal
  BY <1>1, <1>8, FormPopDiscovered DEF PopLocal, callVars, outVars, historyVars
<1>9. CASE \E nearer \in BOOLEAN : PopMove(nearer)
  BY <1>1, <1>9, FormPopDiscovered DEF PopMove, callVars, outVars, historyVars
<1>10. CASE \E q \in left : TakeNode(q)
  BY <1>1, <1>10, FormTakeNode
<1>11. CASE \E q \in left : VisitOverlapping(q) \/ VisitLocal(q) \/ VisitMove(q)
  <2> PICK q \in left : VisitOverlapping(q) \/ VisitLocal(q) \/ VisitMove(q)
    BY <1>11
  <2>1. /\ Discover(q) /\ kind \in {"local", "move"} /\ q \in Polys
        /\ queue' = queue \/ Push(q)
        /\ result' = result \/ Store(q)
        /\ UNCHANGED <<kind, over, start, size, total, cur, found, edge>>
    BY DEF VisitOverlapping, VisitLocal, VisitMove, callVars, outVars, historyVars, FormIInv, SearchIInv
  <2>2. result' \in Seq(Polys) /\ Len(result') <= size
    BY <2>1, StoreShape DEF FormIInv, SearchIInv, ArrayShape
  <2>3. QED
    BY <1>1, <2>1, <2>2, FormDiscover
<1>12. CASE MoveDone \/ MoveArrives
  BY <1>1, <1>12, FormMoveEnds
     DEF MoveDone, MoveArrives, PopFront, nodeVars, loopVars, historyVars
<1>13. CASE \/ \E q \in left : PassBy(q)
            \/ Expanded
            \/ SearchDone
            \/ LocalDone
            \/ \E p \in Polys, n \in Sizes : GetPath(p, n)
            \/ UNCHANGED vars
  <2>1. /\ UNCHANGED <<kind, start, size, flag, parent, total, queue, result, found, edge>>
        /\ over' \in {over, TRUE}
        /\ \/ cur' = cur /\ left' \subseteq left /\ over' = over
           \/ cur' = NoPoly /\ left' = {}
    BY <1>13 DEF PassBy, Look, Expanded, SearchDone, LocalDone, GetPath, vars, callVars, nodeVars,
                 loopVars, outVars, historyVars, FormIInv, SearchIInv, LeftIsNew
  <2>2. DOMAIN edge' \subseteq Links
    BY <2>1 DEF FormIInv, ArrayShape
  <2>3. QED
    BY <1>1, <2>1, <2>2, FormQuiet
<1>14. QED
  BY <1>3, <1>4, <1>5, <1>6, <1>7, <1>8, <1>9, <1>10, <1>11, <1>12, <1>13 DEF Next, Pop, Follow, End

THEOREM SearchFormInvariant == Spec => []FormIInv
<1>1. QED
  BY FormInit, FormNext, PTL DEF Spec

-----------------------------------------------------------------------------
(* The order of the results                                                *)

InResult(p) == \E i \in 1..Len(result) : result[i] = p

\* As long as there is room, the result holds what a circle search has closed
\* (Stored), and what findLocalNeighbourhood expands or will expand.
ResultKeepsUp ==
  /\ kind \in {"circle", "local"} => \A i \in 1..Len(result) : flag[result[i]] = "closed"
  /\ kind = "circle" /\ "BUFFER_TOO_SMALL" \in status => Len(result) = size
  /\ kind = "local" /\ Len(result) < size =>
       /\ Len(result) > 0
       /\ cur # NoPoly => InResult(cur)
       /\ \A i \in 1..Len(queue) : InResult(queue[i])

OrderInv == ResultKeepsUp /\ ResultIsOrdered

\* What is closed keeps its flag, its parent and its total.
ClosedStays ==
  \A p \in Polys : flag[p] = "closed" =>
    flag'[p] = "closed" /\ parent'[p] = parent[p] /\ total'[p] = total[p]

\* A step that stores nothing.
LEMMA OrderKept ==
  ASSUME FormIInv, OrderInv, ClosedStays, UNCHANGED <<kind, start, size, result>>,
         kind = "circle" /\ "BUFFER_TOO_SMALL" \in status' => Len(result) = size,
         kind = "local" /\ Len(result) < size =>
           /\ cur' # NoPoly => cur' = cur \/ \E i \in 1..Len(queue) : queue[i] = cur'
           /\ \A i \in 1..Len(queue') : \E j \in 1..Len(queue) : queue'[i] = queue[j]
  PROVE  OrderInv'
<1>1. result \in Seq(Polys)
  BY DEF FormIInv, ArrayShape
<1>2. CASE kind \in {"circle", "local"}
  <2>1. \A i \in 1..Len(result) : result[i] \in Polys /\ flag[result[i]] = "closed"
    BY <1>1, <1>2 DEF OrderInv, ResultKeepsUp
  <2>2. \A i \in 1..Len(result) : /\ flag'[result[i]] = "closed"
                                  /\ parent'[result[i]] = parent[result[i]]
                                  /\ total'[result[i]] = total[result[i]]
    BY <2>1 DEF ClosedStays
  <2>3. ResultIsOrdered'
    <3>1. kind = "circle" =>
            \A i, j \in 1..Len(result) : i < j => total'[result[i]] <= total'[result[j]]
      BY <2>2 DEF OrderInv, ResultIsOrdered
    <3>2. \A j \in 1..Len(result) :
            /\ \A i \in 1..j-1 : result[i] # result[j]
            /\ IF j = 1 THEN result[j] = start
               ELSE \E i \in 1..j-1 : result[i] = parent'[result[j]]
      BY <1>2, <2>2 DEF OrderInv, ResultIsOrdered
    <3>3. QED
      BY <3>1, <3>2 DEF ResultIsOrdered
  <2>4. ResultKeepsUp'
    <3>1. kind = "local" /\ Len(result) < size =>
            /\ Len(result) > 0
            /\ cur # NoPoly => InResult(cur)
            /\ \A i \in 1..Len(queue) : InResult(queue[i])
      BY DEF OrderInv, ResultKeepsUp
    <3>2. kind = "local" /\ Len(result) < size =>
            /\ cur' # NoPoly => InResult(cur')
            /\ \A i \in 1..Len(queue') : InResult(queue'[i])
      BY <3>1
    <3>3. kind = "local" /\ Len(result') < size' =>
            /\ Len(result') > 0
            /\ cur' # NoPoly => InResult(cur)'
            /\ \A i \in 1..Len(queue') : InResult(queue[i])'
      BY <3>1, <3>2 DEF InResult
    <3>4. QED
      BY <2>2, <3>3 DEF OrderInv, ResultKeepsUp, InResult
  <2>5. QED
    BY <2>3, <2>4 DEF OrderInv
<1>3. CASE kind \notin {"circle", "local"}
  BY <1>3 DEF OrderInv, ResultKeepsUp, ResultIsOrdered
<1>4. QED
  BY <1>2, <1>3

\* A polygon is stored as it is closed.
LEMMA OrderAppend ==
  ASSUME FormIInv, OrderInv, ClosedStays, UNCHANGED <<kind, start>>,
         kind \in {"circle", "local"},
         NEW p \in Polys, flag[p] # "closed", flag'[p] = "closed",
         Len(result') = Len(result) + 1,
         result'[Len(result) + 1] = p,
         \A i \in 1..Len(result) : result'[i] = result[i],
         kind = "circle" => \A q \in Closed : total[q] <= total'[p],
         IF Len(result) = 0 THEN p = start ELSE InResult(parent'[p])
  PROVE  /\ ResultIsOrdered'
         /\ \A i \in 1..Len(result') : flag'[result'[i]] = "closed"
         /\ \A q : InResult(q) \/ q = p => \E i \in 1..Len(result') : result'[i] = q
<1> DEFINE n == Len(result)
<1>1. result \in Seq(Polys) /\ n \in Nat
  BY DEF FormIInv, ArrayShape
<1>2. \A i \in 1..n : result[i] \in Polys /\ flag[result[i]] = "closed"
  BY <1>1 DEF OrderInv, ResultKeepsUp
<1>3. \A i \in 1..n : /\ result'[i] = result[i]
                      /\ flag'[result[i]] = "closed"
                      /\ parent'[result[i]] = parent[result[i]]
                      /\ total'[result[i]] = total[result[i]]
                      /\ result[i] # p
  BY <1>2 DEF ClosedStays
<1>4. Len(result') = n + 1 /\ result'[n+1] = p /\ kind' = kind /\ start' = start
  OBVIOUS
<1>5. kind = "circle" => \A i \in 1..n : total[result[i]] <= total'[p]
  BY <1>2 DEF Closed
<1>6. IF n = 0 THEN p = start ELSE \E i \in 1..n : result[i] = parent'[p]
  BY DEF InResult
<1>7. /\ kind = "circle" => \A i, j \in 1..n : i < j => total[result[i]] <= total[result[j]]
      /\ \A j \in 1..n : /\ \A i \in 1..j-1 : result[i] # result[j]
                         /\ IF j = 1 THEN result[j] = start
                            ELSE \E i \in 1..j-1 : result[i] = parent[result[j]]
  BY DEF OrderInv, ResultIsOrdered
<1>8. \A q : InResult(q) <=> \E i \in 1..n : result[i] = q
  BY DEF InResult
<1> HIDE DEF n
<1>9. kind = "circle" =>
        \A i, j \in 1..n+1 : i < j => total'[result'[i]] <= total'[result'[j]]
  <2> SUFFICES ASSUME kind = "circle", NEW i \in 1..n+1, NEW j \in 1..n+1, i < j
               PROVE  total'[result'[i]] <= total'[result'[j]]
    OBVIOUS
  <2>1. i \in 1..n
    BY <1>1
  <2>2. CASE j = n + 1
    BY <1>3, <1>4, <1>5, <2>1, <2>2
  <2>3. CASE j # n + 1
    <3>1. j \in 1..n
      BY <1>1, <2>3
    <3>2. QED
      BY <1>3, <1>7, <2>1, <3>1
  <2>4. QED
    BY <2>2, <2>3
<1>10. ASSUME NEW j \in 1..n+1
       PROVE  /\ \A i \in 1..j-1 : result'[i] # result'[j]
              /\ IF j = 1 THEN result'[j] = start
                 ELSE \E i \in 1..j-1 : result'[i] = parent'[result'[j]]
  <2>1. \A i \in 1..j-1 : i \in 1..n
    BY <1>1
  <2>2. CASE j = n + 1
    <3>1. (n + 1) - 1 = n /\ (n + 1 = 1 <=> n = 0)
      BY <1>1
    <3>2. QED
      BY <1>3, <1>4, <1>6, <2>2, <3>1
  <2>3. CASE j # n + 1
    <3>1. j \in 1..n
      BY <1>1, <2>3
    <3>2. QED
      BY <1>3, <1>7, <2>1, <3>1
  <2>4. QED
    BY <2>2, <2>3
<1>11. ASSUME NEW i \in 1..n+1 PROVE flag'[result'[i]] = "closed"
  <2>1. i = n + 1 \/ i \in 1..n
    BY <1>1
  <2>2. QED
    BY <1>3, <1>4, <2>1
<1>12. ASSUME NEW q, InResult(q) \/ q = p PROVE \E i \in 1..n+1 : result'[i] = q
  <2>1. n + 1 \in 1..n+1 /\ \A i \in 1..n : i \in 1..n+1
    BY <1>1
  <2>2. QED
    BY <1>3, <1>4, <1>8, <1>12, <2>1
<1>13. ResultIsOrdered'
  BY <1>4, <1>9, <1>10 DEF ResultIsOrdered
<1>14. QED
  BY <1>4, <1>11, <1>12, <1>13

LEMMA OrderInit == Init => OrderInv
<1> SUFFICES ASSUME Init PROVE OrderInv
  OBVIOUS
<1>1. kind = "none"
  BY DEF Init
<1>2. QED
  BY <1>1 DEF OrderInv, ResultKeepsUp, ResultIsOrdered

LEMMA OrderBegin ==
  ASSUME NEW k \in Kinds, NEW s \in Polys, NEW n \in Sizes, Begin(k, s, n)
  PROVE  OrderInv'
<1>1. n \in Nat
  BY SizesAssumption
<1>2. kind' = k /\ start' = s /\ size' = n /\ cur' = NoPoly
  BY DEF Begin
<1>3. CASE k = "local" /\ n > 0
  <2>1. /\ queue' = <<s>> /\ result' = <<s>> /\ flag'[s] = "closed"
        /\ Len(result') = 1 /\ result'[1] = s /\ Len(queue') = 1 /\ queue'[1] = s
    BY <1>3 DEF Begin
  <2>2. \A i \in 1..Len(queue') : \E j \in 1..Len(result') : result'[j] = queue'[i]
    BY <2>1
  <2>3. ResultKeepsUp'
    BY <1>2, <1>3, <2>1, <2>2 DEF ResultKeepsUp, InResult
  <2>4. ResultIsOrdered'
    BY <1>2, <1>3, <2>1 DEF ResultIsOrdered
  <2>5. QED
    BY <2>3, <2>4 DEF OrderInv
<1>4. CASE ~(k = "local" /\ n > 0)
  <2>1. result' = <<>> /\ Len(result') = 0
    BY <1>4 DEF Begin
  <2>2. k = "circle" => status' = {}
    BY DEF Begin
  <2>3. ResultKeepsUp'
    BY <1>1, <1>2, <1>4, <2>1, <2>2 DEF ResultKeepsUp
  <2>4. ResultIsOrdered'
    BY <2>1 DEF ResultIsOrdered
  <2>5. QED
    BY <2>3, <2>4 DEF OrderInv
<1>5. QED
  BY <1>3, <1>4

\* The polygon that a circle search closes next is the start, or its parent is
\* in the result.
LEMMA OrderPopCircle ==
  ASSUME NEW p \in Polys, FormIInv, OrderInv, PopCircle(p)
  PROVE  OrderInv'
<1> USE DEF FormIInv
<1>1. /\ kind = "circle" /\ PopCheapest(p) /\ Store(p)
      /\ UNCHANGED <<kind, over, start, size, parent, total, queue, edge>>
  BY DEF PopCircle, callVars, historyVars
<1>2. flag[p] = "open" /\ flag' = [flag EXCEPT ![p] = "closed"] /\ NodeShape
  BY <1>1 DEF PopCheapest, Cheapest, Open, SearchIInv
<1>3. ClosedStays /\ flag'[p] = "closed"
  BY <1>1, <1>2 DEF ClosedStays
<1>4. size \in Nat /\ result \in Seq(Polys) /\ Len(result) <= size
  BY DEF SearchIInv, ArrayShape
<1>5. CASE Len(result) < size
  <2>1. /\ Len(result') = Len(result) + 1
        /\ result'[Len(result) + 1] = p
        /\ \A i \in 1..Len(result) : result'[i] = result[i]
        /\ status' = status
    BY <1>1, <1>4, <1>5, StoreShape
  <2>2. "BUFFER_TOO_SMALL" \notin status
    BY <1>1, <1>4, <1>5 DEF OrderInv, ResultKeepsUp
  <2>3. Closed = {result[i] : i \in 1..Len(result)}
    BY <1>1, <2>2 DEF SearchIInv, Stored
  <2>4. \A q \in Closed : total[q] <= total'[p]
    BY <1>1, <1>2 DEF SearchIInv, TotalsAreLeast, Open
  <2>5. IF Len(result) = 0 THEN p = start ELSE InResult(parent'[p])
    <3>1. p # start => parent[p] \in Closed
      BY <1>2, PolysAssumption DEF SearchIInv, TreeInv, ParentsOfReached, Closed
    <3>2. CASE Len(result) = 0
      <4>1. Closed = {}
        BY <2>3, <3>2
      <4>2. QED
        BY <3>1, <3>2, <4>1
    <3>3. CASE Len(result) # 0
      <4>1. Len(result) \in 1..Len(result)
        BY <1>4, <3>3
      <4>2. Closed # {}
        BY <2>3, <4>1
      <4>3. p # start
        BY <1>1, <1>2, <4>2 DEF TreeInv, StartIsRoot
      <4>4. QED
        BY <1>1, <2>3, <3>1, <3>3, <4>3 DEF InResult
    <3>4. QED
      BY <3>2, <3>3
  <2>6. flag[p] # "closed" /\ kind \in {"circle", "local"}
    BY <1>1, <1>2
  <2>7. ResultIsOrdered' /\ \A i \in 1..Len(result') : flag'[result'[i]] = "closed"
    BY <1>1, <1>3, <2>1, <2>4, <2>5, <2>6, OrderAppend
  <2>8. ResultKeepsUp'
    BY <1>1, <2>1, <2>2, <2>7 DEF ResultKeepsUp
  <2>9. QED
    BY <2>7, <2>8 DEF OrderInv
<1>6. CASE ~(Len(result) < size)
  <2>1. result' = result
    BY <1>1, <1>4, <1>6, StoreShape
  <2>2. Len(result) = size
    BY <1>4, <1>6
  <2>3. QED
    BY <1>1, <1>3, <2>1, <2>2, OrderKept
<1>7. QED
  BY <1>5, <1>6

\* What findLocalNeighbourhood stores next was found from a polygon that is
\* in the result.
LEMMA OrderVisitLocal ==
  ASSUME NEW q \in left, FormIInv, OrderInv, VisitLocal(q)
  PROVE  OrderInv'
<1> USE DEF FormIInv
<1>1. /\ kind = "local" /\ Discover(q) /\ Store(q) /\ Push(q)
      /\ UNCHANGED <<kind, over, start, size, total, cur>>
  BY DEF VisitLocal, callVars
<1>2. /\ q \in Polys /\ flag[q] \in {"none", "new"}
      /\ flag' = [flag EXCEPT ![q] = "closed"]
      /\ parent' = [parent EXCEPT ![q] = cur]
      /\ NodeShape
  BY <1>1 DEF Discover, Fresh, SearchIInv
<1>3. ClosedStays /\ flag'[q] = "closed" /\ parent'[q] = cur
  BY <1>1, <1>2 DEF ClosedStays
<1>4. size \in Nat /\ result \in Seq(Polys) /\ Len(result) <= size /\ queue \in Seq(Polys) /\ cur # NoPoly
  BY DEF SearchIInv, ArrayShape, LeftIsNew
<1>5. CASE Len(result) < size
  <2>1. /\ Len(result') = Len(result) + 1
        /\ result'[Len(result) + 1] = q
        /\ \A i \in 1..Len(result) : result'[i] = result[i]
    BY <1>1, <1>2, <1>4, <1>5, StoreShape
  <2>2. Len(result) > 0 /\ InResult(cur) /\ \A i \in 1..Len(queue) : InResult(queue[i])
    BY <1>1, <1>4, <1>5 DEF OrderInv, ResultKeepsUp
  <2>3. IF Len(result) = 0 THEN q = start ELSE InResult(parent'[q])
    BY <1>3, <1>4, <2>2
  <2>4. flag[q] # "closed" /\ kind \in {"circle", "local"} /\ kind # "circle"
    BY <1>1, <1>2
  <2>5. /\ ResultIsOrdered'
        /\ \A i \in 1..Len(result') : flag'[result'[i]] = "closed"
        /\ \A p : InResult(p) \/ p = q => \E i \in 1..Len(result') : result'[i] = p
    BY <1>1, <1>2, <1>3, <2>1, <2>3, <2>4, OrderAppend
  <2>6. \A i \in 1..Len(queue') : InResult(queue'[i]) \/ queue'[i] = q
    BY <1>1, <1>4, <2>2 DEF Push
  <2>7. ResultKeepsUp'
    <3>1. \A i \in 1..Len(queue') : \E j \in 1..Len(result') : result'[j] = queue'[i]
      BY <2>5, <2>6
    <3>2. \E j \in 1..Len(result') : result'[j] = cur'
      BY <1>1, <2>2, <2>5
    <3>3. Len(result') > 0
      BY <1>4, <2>1
    <3>4. QED
      BY <1>1, <2>5, <3>1, <3>2, <3>3 DEF ResultKeepsUp, InResult
  <2>8. QED
    BY <2>5, <2>7 DEF OrderInv
<1>6. CASE ~(Len(result) < size)
  <2>1. result' = result
    BY <1>1, <1>2, <1>4, <1>6, StoreShape
  <2>2. QED
    BY <1>1, <1>3, <1>6, <2>1, OrderKept
<1>7. QED
  BY <1>5, <1>6

LEMMA OrderNext == FormIInv /\ OrderInv /\ [Next]_vars => OrderInv'
<1> SUFFICES ASSUME FormIInv, OrderInv, [Next]_vars PROVE OrderInv'
  OBVIOUS
<1> USE DEF FormIInv
<1>1. NodeShape /\ queue \in Seq(Polys)
  BY DEF SearchIInv
<1>2. CASE \E k \in Kinds, s \in Polys, n \in Sizes : Begin(k, s, n)
  BY <1>2, OrderBegin
<1>3. CASE \E p \in Polys : PopCircle(p)
  BY <1>3, OrderPopCircle
<1>4. CASE \E q \in left : VisitLocal(q)
  BY <1>4, OrderVisitLocal
<1>5. CASE \/ \E p \in Polys, ground, take \in BOOLEAN : PopRandom(p, ground, take)
           \/ \E p \in Polys, d \in Dists["wall"] \cup {MaxRadius + 1} : PopWall(p, d)
           \/ \E nearer \in BOOLEAN : PopMove(nearer)
           \/ MoveDone
           \/ MoveArrives
           \/ \E q \in left : VisitMove(q)
  <2>1. kind' = kind /\ kind \notin {"circle", "local"}
    BY <1>5 DEF PopRandom, PopWall, PopMove, MoveDone, MoveArrives, VisitMove, callVars
  <2>2. QED
    BY <2>1 DEF OrderInv, ResultKeepsUp, ResultIsOrdered
<1>6. CASE PopLocal
  <2>1. /\ UNCHANGED <<kind, start, size, result, flag, parent, total, status>>
        /\ queue # <<>> /\ queue' = Tail(queue) /\ cur' = Head(queue)
    BY <1>6 DEF PopLocal, PopFront, Enter, callVars, outVars
  <2>2. /\ \E i \in 1..Len(queue) : queue[i] = cur'
        /\ \A i \in 1..Len(queue') : \E j \in 1..Len(queue) : queue'[i] = queue[j]
    <3>1. Head(queue) = queue[1] /\ 1 \in 1..Len(queue)
      BY <1>1, <2>1
    <3>2. \A i \in 1..Len(queue') : queue'[i] = queue[i+1] /\ i + 1 \in 1..Len(queue)
      BY <1>1, <2>1
    <3>3. QED
      BY <2>1, <3>1, <3>2
  <2>3. ClosedStays
    BY <2>1 DEF ClosedStays
  <2>4. kind # "circle"
    BY <1>6 DEF PopLocal
  <2>5. QED
    BY <2>1, <2>2, <2>3, <2>4, OrderKept
<1>7. CASE \E q \in left : TakeNode(q) \/ VisitOverlapping(q)
  <2>1. PICK q \in left : TakeNode(q) \/ VisitOverlapping(q)
    BY <1>7
  <2>2. /\ flag[q] # "closed" /\ q \in Polys
        /\ flag' = [flag EXCEPT ![q] = "new"] \/ flag' = [flag EXCEPT ![q] = "closed"]
        /\ parent' = parent \/ parent' = [parent EXCEPT ![q] = cur]
        /\ UNCHANGED <<kind, start, size, result, total, status, queue, cur>>
        /\ kind # "circle"
    BY <2>1 DEF TakeNode, VisitOverlapping, Discover, Fresh, ByDiscovery, callVars, outVars, SearchIInv
  <2>3. ClosedStays
    BY <1>1, <2>2 DEF ClosedStays
  <2>4. QED
    BY <2>2, <2>3, OrderKept
<1>8. CASE \E q \in left, c \in Costs[kind], d \in Dists[kind] : OutOfNodes(q, d, c) \/ Relax(q, d, c)
  <2>1. PICK q \in left, c \in Costs[kind], d \in Dists[kind] : OutOfNodes(q, d, c) \/ Relax(q, d, c)
    BY <1>8
  <2>2. /\ UNCHANGED <<kind, start, size, result, queue, cur>>
        /\ "BUFFER_TOO_SMALL" \in status' => "BUFFER_TOO_SMALL" \in status
    BY <2>1 DEF OutOfNodes, Relax, callVars, nodeVars, outVars
  <2>3. ClosedStays
    <3>1. CASE UNCHANGED <<flag, parent, total>>
      BY <3>1 DEF ClosedStays
    <3>2. CASE /\ flag[q] # "closed"
               /\ flag' = [flag EXCEPT ![q] = "open"]
               /\ parent' = [parent EXCEPT ![q] = cur]
               /\ total' = [total EXCEPT ![q] = total[cur] + c]
      BY <1>1, <3>2 DEF ClosedStays
    <3>3. QED
      BY <2>1, <3>1, <3>2 DEF OutOfNodes, Relax, Settled, nodeVars
  <2>4. kind = "circle" /\ "BUFFER_TOO_SMALL" \in status' => Len(result) = size
    BY <2>2 DEF OrderInv, ResultKeepsUp
  <2>5. QED
    BY <2>2, <2>3, <2>4, OrderKept
<1>9. CASE \/ \E q \in left : PassBy(q)
           \/ Expanded
           \/ SearchDone
           \/ LocalDone
           \/ \E p \in Polys, n \in Sizes : GetPath(p, n)
           \/ UNCHANGED vars
  <2>1. /\ UNCHANGED <<kind, start, size, result, flag, parent, total, status, queue>>
        /\ cur' = cur \/ cur' = NoPoly
    BY <1>9 DEF PassBy, Expanded, SearchDone, LocalDone, GetPath, vars, callVars, nodeVars,
                loopVars, outVars
  <2>2. ClosedStays
    BY <2>1 DEF ClosedStays
  <2>3. kind = "circle" /\ "BUFFER_TOO_SMALL" \in status' => Len(result) = size
    BY <2>1 DEF OrderInv, ResultKeepsUp
  <2>4. QED
    BY <2>1, <2>2, <2>3, OrderKept
<1>10. QED
  BY <1>2, <1>3, <1>4, <1>5, <1>6, <1>7, <1>8, <1>9 DEF Next, Pop, Follow, End

\* What a circle search returns is sorted by cost, and whatever a circle
\* search or findLocalNeighbourhood returns stands once and after its parent,
\* for any mesh and any array that is too small for it.
THEOREM SearchResultIsOrdered == Spec => []ResultIsOrdered
<1>1. Spec => [](FormIInv /\ OrderInv)
  <2>1. FormIInv /\ OrderInv /\ [Next]_vars => (FormIInv /\ OrderInv)'
    BY FormNext, OrderNext
  <2>2. Init => FormIInv /\ OrderInv
    BY FormInit, OrderInit
  <2>3. QED
    BY <2>1, <2>2, PTL DEF Spec
<1>2. FormIInv /\ OrderInv => ResultIsOrdered
  BY DEF OrderInv
<1>3. QED
  BY <1>1, <1>2, PTL

-----------------------------------------------------------------------------
(* The ways that are returned                                              *)

\* A way is returned when a search is over, and nothing changes then.
WaysInv ==
  /\ kind = "move" => size > 0
  /\ path \in Seq(Polys)
  /\ path # <<>> => over /\ ByCost
  /\ VisitedIsWalk
  /\ PathIsCheapest

LEMMA WaysInit == Init => WaysInv
<1> SUFFICES ASSUME Init PROVE WaysInv
  OBVIOUS
<1>1. kind = "none" /\ path = <<>>
  BY DEF Init
<1>2. path \in Seq(Polys)
  BY <1>1
<1>3. QED
  BY <1>1, <1>2 DEF WaysInv, VisitedIsWalk, PathIsCheapest

\* Once a search is over, only the path is written before the next begins.
LEMMA OverIsStill ==
  ASSUME FormIInv, over, Next
  PROVE  \/ \E k \in Kinds, s \in Polys, n \in Sizes : Begin(k, s, n)
         \/ \E p \in Polys, n \in Sizes : GetPath(p, n)
<1>1. cur = NoPoly /\ left = {}
  BY DEF FormIInv, SearchIInv, LeftIsNew, TreeInv, OnlyClosedExpanded
<1>2. ~Expanded /\ ~Follow
  BY <1>1 DEF Expanded, Follow
<1>3. ~Pop /\ ~End
  BY DEF Pop, End, PopCircle, PopRandom, PopWall, PopCheapest, PopLocal, PopMove, PopFront,
         SearchDone, LocalDone, MoveDone, MoveArrives
<1>4. QED
  BY <1>2, <1>3 DEF Next

LEMMA WaysGetPath ==
  ASSUME FormIInv, WaysInv, NEW p \in Polys, NEW n \in Sizes, GetPath(p, n)
  PROVE  WaysInv'
<1> USE DEF FormIInv
<1>1. /\ over /\ ByCost
      /\ path' = IF flag[p] = "closed" THEN PathTo(p, n) ELSE <<>>
      /\ UNCHANGED <<kind, over, start, size, parent, total, found, result, status, edge>>
  BY DEF GetPath, callVars, nodeVars, loopVars, historyVars
<1>2. n \in Nat
  BY SizesAssumption
<1>3. ~(kind = "move")
  BY <1>1
<1>4. CASE flag[p] = "closed"
  <2>1. IsWayTo(path', p, n)
    BY <1>1, <1>2, <1>4, WayToPoly DEF SearchIInv
  <2>2. path' \in Seq(Polys) /\ Len(path') <= n /\ (n = 0 => path' = <<>>)
    BY <1>2, <2>1 DEF IsWayTo
  <2>3. ASSUME path' # <<>>
        PROVE  /\ path'[1] = start
               /\ \A k \in 2..Len(path') :
                    /\ <<path'[k-1], path'[k]>> \in DOMAIN edge
                    /\ total[path'[k]] = total[path'[k-1]] + edge[<<path'[k-1], path'[k]>>].cost
    <3>1. n > 0
      BY <1>2, <2>2, <2>3
    <3>2. path'[1] = start /\ \A k \in 2..Len(path') : parent[path'[k]] = path'[k-1]
      BY <2>1, <3>1 DEF IsWayTo
    <3>3. \A k \in 2..Len(path') : path'[k] \in Polys /\ path'[k-1] \in Polys
      BY <2>2
    <3>4. \A q \in Polys : parent[q] # NoPoly =>
            /\ <<parent[q], q>> \in DOMAIN edge
            /\ total[q] = total[parent[q]] + edge[<<parent[q], q>>].cost
      BY <1>1 DEF SearchIInv, TotalsAreLeast
    <3>5. \A k \in 2..Len(path') : parent[path'[k]] = path'[k-1] /\ parent[path'[k]] # NoPoly
      BY <3>2, <3>3, PolysAssumption
    <3>6. QED
      BY <3>2, <3>3, <3>4, <3>5
  <2>4. PathIsCheapest'
    BY <1>1, <2>3 DEF PathIsCheapest
  <2>5. QED
    BY <1>1, <1>3, <2>2, <2>4 DEF WaysInv, VisitedIsWalk
<1>5. CASE flag[p] # "closed"
  <2>1. path' = <<>> /\ path' \in Seq(Polys)
    BY <1>1, <1>5
  <2>2. QED
    BY <1>1, <1>3, <2>1 DEF WaysInv, VisitedIsWalk, PathIsCheapest
<1>6. QED
  BY <1>4, <1>5

\* The polygons that moveAlongSurface returns when the move is over.
LEMMA WaysMoveEnds ==
  ASSUME FormIInv, WaysInv, MoveDone \/ MoveArrives
  PROVE  WaysInv'
<1> USE DEF FormIInv
<1>1. /\ kind = "move" /\ cur = NoPoly /\ ~over /\ StoreWalk(found')
      /\ queue' = queue \/ (queue # <<>> /\ queue' = Tail(queue))
      /\ found' = found \/ (queue # <<>> /\ found' = Head(queue))
      /\ UNCHANGED <<kind, start, size, flag, parent, total, cur, left, edge, path>>
  BY DEF MoveDone, MoveArrives, PopFront, nodeVars, loopVars, historyVars
<1>2. FormIInv' /\ (found' # NoPoly => IsWayTo(result', found', size))
  <2>1. SearchIInv'
    BY DiscoveryInv
  <2>2. QED
    BY <1>1, <2>1, FormMoveEnds
<1>3. size > 0 /\ size \in Nat
  BY <1>1 DEF WaysInv, SearchIInv
<1>4. ASSUME found' # NoPoly
      PROVE  /\ result'[1] = start
             /\ IsWalk(result')
             /\ \A i, j \in 1..Len(result') : result'[i] = result'[j] => i = j
             /\ status' = {} => result'[Len(result')] = found'
  <2>1. /\ result' \in Seq(Polys) /\ Len(result') <= size
        /\ result'[1] = start
        /\ \A k \in 2..Len(result') : parent[result'[k]] = result'[k-1]
        /\ \A i, j \in 1..Len(result') : result'[i] = result'[j] => i = j
        /\ Len(result') < size => result'[Len(result')] = found'
    BY <1>2, <1>3, <1>4 DEF IsWayTo
  <2>2. \A k \in 2..Len(result') : result'[k] \in Polys /\ result'[k-1] \in Polys
    BY <2>1
  <2>3. IsWalk(result')
    <3> SUFFICES ASSUME NEW k \in 2..Len(result') PROVE <<result'[k-1], result'[k]>> \in Links
      BY DEF IsWalk
    <3>1. parent[result'[k]] = result'[k-1] /\ result'[k-1] # NoPoly /\ result'[k] \in Polys
      BY <2>1, <2>2, PolysAssumption
    <3>2. QED
      BY <3>1 DEF TreeInv, ParentsOfReached
  <2>4. status' = {} => Len(result') < size
    <3>1. status' = IF Len(result') >= size THEN {"BUFFER_TOO_SMALL"} ELSE {}
      BY <1>1 DEF StoreWalk
    <3>2. Len(result') \in Nat
      BY <2>1
    <3>3. QED
      BY <1>3, <3>1, <3>2
  <2>5. QED
    BY <2>1, <2>3, <2>4
<1>5. VisitedIsWalk'
  BY <1>1, <1>4 DEF VisitedIsWalk, IsWalk
<1>6. path = <<>>
  BY <1>1 DEF WaysInv
<1>7. QED
  BY <1>1, <1>3, <1>5, <1>6 DEF WaysInv, PathIsCheapest

LEMMA WaysNext == FormIInv /\ WaysInv /\ [Next]_vars => WaysInv'
<1> SUFFICES ASSUME FormIInv, WaysInv, [Next]_vars PROVE WaysInv'
  OBVIOUS
<1>1. CASE \E k \in Kinds, s \in Polys, n \in Sizes : Begin(k, s, n)
  <2>1. PICK k \in Kinds, s \in Polys, n \in Sizes : Begin(k, s, n)
    BY <1>1
  <2>2. path' = <<>> /\ path' \in Seq(Polys) /\ ~over' /\ kind' = k /\ size' = n /\ (k = "move" => n > 0)
    BY <2>1 DEF Begin
  <2>3. QED
    BY <2>2 DEF WaysInv, VisitedIsWalk, PathIsCheapest
<1>2. CASE \E p \in Polys, n \in Sizes : GetPath(p, n)
  BY <1>2, WaysGetPath
<1>3. CASE MoveDone \/ MoveArrives
  BY <1>3, WaysMoveEnds
<1>4. CASE UNCHANGED vars
  BY <1>4 DEF vars, callVars, nodeVars, loopVars, outVars, historyVars, WaysInv, VisitedIsWalk, IsWalk,
              PathIsCheapest
<1>5. CASE Pop \/ Follow \/ Expanded \/ SearchDone \/ LocalDone
  <2>1. ~over
    <3>1. ASSUME over PROVE FALSE
      <4>1. cur = NoPoly /\ left = {}
        BY <3>1 DEF FormIInv, SearchIInv, LeftIsNew, TreeInv, OnlyClosedExpanded
      <4>2. QED
        BY <1>5, <3>1, <4>1
           DEF Pop, Follow, Expanded, PopCircle, PopRandom, PopWall, PopCheapest, PopLocal, PopMove,
               PopFront, SearchDone, LocalDone
    <3>2. QED
      BY <3>1 DEF FormIInv, SearchIInv
  <2>2. path = <<>>
    BY <2>1 DEF WaysInv
  <2>3. path' = path /\ kind' = kind /\ size' = size /\ (kind = "move" => ~over')
    <3>1. CASE Pop
      <4>1. ASSUME NEW p \in Polys, PopCircle(p)
            PROVE  path' = path /\ kind' = kind /\ size' = size /\ over' = over
        BY <4>1 DEF PopCircle, callVars
      <4>2. ASSUME NEW p \in Polys, NEW ground \in BOOLEAN, NEW take \in BOOLEAN, PopRandom(p, ground, take)
            PROVE  path' = path /\ kind' = kind /\ size' = size /\ over' = over
        BY <4>2 DEF PopRandom, callVars, outVars
      <4>3. ASSUME NEW p \in Polys, NEW d \in Dists["wall"] \cup {MaxRadius + 1}, PopWall(p, d)
            PROVE  path' = path /\ kind' = kind /\ size' = size /\ over' = over
        BY <4>3 DEF PopWall, callVars, outVars
      <4>4. ASSUME PopLocal \/ \E nearer \in BOOLEAN : PopMove(nearer)
            PROVE  path' = path /\ kind' = kind /\ size' = size /\ over' = over
        BY <4>4 DEF PopLocal, PopMove, callVars, outVars
      <4>5. path' = path /\ kind' = kind /\ size' = size /\ over' = over
        BY <3>1, <4>1, <4>2, <4>3, <4>4, Zenon DEF Pop
      <4>6. QED
        BY <2>1, <4>5
    <3>2. CASE Follow
      BY <2>1, <3>2 DEF Follow, PassBy, OutOfNodes, Relax, TakeNode, VisitOverlapping, VisitLocal,
                        VisitMove, callVars, outVars
    <3>3. CASE Expanded
      BY <2>1, <3>3 DEF Expanded, callVars, outVars
    <3>4. CASE SearchDone
      BY <3>4 DEF SearchDone, ByCost, outVars
    <3>5. CASE LocalDone
      BY <3>5 DEF LocalDone, outVars
    <3>6. QED
      BY <1>5, <3>1, <3>2, <3>3, <3>4, <3>5
  <2>4. QED
    BY <2>2, <2>3 DEF WaysInv, VisitedIsWalk, PathIsCheapest
<1>6. QED
  BY <1>1, <1>2, <1>3, <1>4, <1>5 DEF Next, End

LEMMA WaysInvariant == Spec => [](FormIInv /\ WaysInv)
<1>1. FormIInv /\ WaysInv /\ [Next]_vars => (FormIInv /\ WaysInv)'
  BY FormNext, WaysNext
<1>2. Init => FormIInv /\ WaysInv
  BY FormInit, WaysInit
<1>3. QED
  BY <1>1, <1>2, PTL DEF Spec

\* Whatever moves ends in a way along links that starts where the move did and
\* meets no polygon twice, for any mesh and any room in the stack, the pool and
\* the array.
THEOREM SearchVisitedIsWalk == Spec => []VisitedIsWalk
<1>1. FormIInv /\ WaysInv => VisitedIsWalk
  BY DEF WaysInv
<1>2. QED
  BY <1>1, WaysInvariant, PTL

\* getPathFromDijkstraSearch returns a way from the start along links that were
\* followed, each of which costs what the totals say.
THEOREM SearchPathIsCheapest == Spec => []PathIsCheapest
<1>1. FormIInv /\ WaysInv => PathIsCheapest
  BY DEF WaysInv
<1>2. QED
  BY <1>1, WaysInvariant, PTL

\* The pool, the stack and the arrays keep to their sizes, and whatever is in
\* them is a polygon.
THEOREM SearchTypeCorrect == Spec => []TypeOK
<1>1. FormIInv /\ WaysInv => TypeOK
  <2> SUFFICES ASSUME FormIInv, WaysInv PROVE TypeOK
    OBVIOUS
  <2>1. CallShape /\ NodeShape /\ HistoryShape
    BY DEF FormIInv, SearchIInv
  <2>2. /\ start \in Polys \cup {NoPoly} /\ Cardinality(InPool) <= PoolSize /\ Len(queue) <= MaxStack
        /\ result \in Seq(Polys) /\ Len(result) <= size /\ DOMAIN edge \subseteq Links
    BY DEF FormIInv, ArrayShape
  <2>3. path \in Seq(Polys)
    BY DEF WaysInv
  <2>4. QED
    BY <2>1, <2>2, <2>3 DEF TypeOK
<1>2. QED
  BY <1>1, WaysInvariant, PTL

=============================================================================
