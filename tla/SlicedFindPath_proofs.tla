----------------------- MODULE SlicedFindPath_proofs -----------------------
(***************************************************************************)
(* The nodes of a search form a tree, and Finalize returns a path of the   *)
(* search it ends, for any mesh, any number of nodes and any costs.        *)
(***************************************************************************)
EXTENDS SlicedFindPath, Lemmas

-----------------------------------------------------------------------------
(* Walking along pidx.                                                     *)

\* The function that Chain defines by recursion is there.
LEMMA ChainSteps ==
  ASSUME nodes \in [1..MaxNodes -> Node], NEW i \in 0..MaxNodes
  PROVE  /\ Chain(i) \in [0..MaxNodes -> 0..MaxNodes]
         /\ Chain(i)[0] = i
         /\ \A k \in 1..MaxNodes :
              Chain(i)[k] = IF Chain(i)[k-1] = 0 THEN 0 ELSE nodes[Chain(i)[k-1]].pidx
<1> DEFINE S == 0..MaxNodes
<1> DEFINE step == [j \in S |-> IF j = 0 THEN 0 ELSE nodes[j].pidx]
<1> DEFINE Def(f) == [k \in 0..MaxNodes |->
        IF k = 0 THEN i
        ELSE IF f[k-1] = 0 THEN 0
        ELSE nodes[f[k-1]].pidx]
<1>1. MaxNodes \in Nat
  BY BoundsAssumption
<1>2. step \in [S -> S]
  BY <1>1 DEF Node
<1>3. i \in S /\ S = 0..MaxNodes
  OBVIOUS
<1>4. PICK f \in [0..MaxNodes -> S] : f[0] = i /\ \A k \in 1..MaxNodes : f[k] = step[f[k-1]]
  <2>1. \E f : IsIteration(f, S, step, i, MaxNodes)
    <3> HIDE DEF step, S
    <3>1. QED
      BY <1>1, <1>2, <1>3, IterationExists
  <2> HIDE DEF step, S
  <2>2. QED
    BY <2>1 DEF IsIteration
<1>5. \A k \in 1..MaxNodes : f[k] = IF f[k-1] = 0 THEN 0 ELSE nodes[f[k-1]].pidx
  <2> SUFFICES ASSUME NEW k \in 1..MaxNodes
               PROVE  f[k] = IF f[k-1] = 0 THEN 0 ELSE nodes[f[k-1]].pidx
    OBVIOUS
  <2>1. f[k-1] \in S
    BY <1>1, <1>4
  <2>2. QED
    BY <1>4, <2>1
<1>6. f = Def(f)
  <2>1. ASSUME NEW k \in 0..MaxNodes
        PROVE  f[k] = IF k = 0 THEN i ELSE IF f[k-1] = 0 THEN 0 ELSE nodes[f[k-1]].pidx
    <3> HIDE DEF step
    <3>1. CASE k = 0
      BY <1>4, <3>1
    <3>2. CASE k # 0
      <4>1. k \in 1..MaxNodes
        BY <1>1, <3>2
      <4>2. QED
        BY <1>5, <3>2, <4>1
    <3>3. QED
      BY <3>1, <3>2
  <2>2. f = [k \in 0..MaxNodes |-> f[k]]
    BY <1>4
  <2>3. QED
    BY <2>1, <2>2
<1>7. Chain(i) = CHOOSE nth : nth = Def(nth)
  BY DEF Chain
<1>8. Chain(i) = Def(Chain(i))
  <2> HIDE DEF Def
  <2>1. QED
    BY <1>6, <1>7
<1>9. ASSUME NEW g, g = Def(g)
      PROVE  g[0] = i /\ \A k \in 1..MaxNodes : g[k] = IF g[k-1] = 0 THEN 0 ELSE nodes[g[k-1]].pidx
  <2>1. \A k \in 0..MaxNodes :
          Def(g)[k] = IF k = 0 THEN i ELSE IF g[k-1] = 0 THEN 0 ELSE nodes[g[k-1]].pidx
    OBVIOUS
  <2>2. \A k \in 0..MaxNodes : g[k] = Def(g)[k]
    BY <1>9
  <2> HIDE DEF Def
  <2>3. QED
    BY <1>1, <2>1, <2>2, SMTT(30)
<1>10. Chain(i) = f
  <2> DEFINE T == {k \in 0..MaxNodes : Chain(i)[k] # f[k]}
  <2>1. Chain(i)[0] = i /\ \A k \in 1..MaxNodes :
          Chain(i)[k] = IF Chain(i)[k-1] = 0 THEN 0 ELSE nodes[Chain(i)[k-1]].pidx
    BY <1>8, <1>9
  <2>2. ASSUME T # {} PROVE FALSE
    <3>1. T \in SUBSET Nat
      BY <1>1
    <3>2. PICK k \in T : \A m \in T : k <= m
      <4> HIDE DEF T
      <4>1. QED
        BY <2>2, <3>1, LeastNumber
    <3>3. k # 0
      <4> HIDE DEF step, Def
      <4>1. f[0] = Chain(i)[0]
        BY <1>4, <2>1
      <4>2. QED
        BY <3>2, <4>1
    <3>4. k \in 1..MaxNodes /\ k - 1 \in 0..MaxNodes /\ k - 1 \notin T
      <4>1. k \in 0..MaxNodes
        BY <3>2
      <4>2. k \in 1..MaxNodes /\ k - 1 \in 0..MaxNodes /\ ~(k <= k - 1)
        BY <1>1, <3>3, <4>1
      <4> HIDE DEF T
      <4>3. QED
        BY <3>2, <4>2
    <3>5. Chain(i)[k-1] = f[k-1]
      BY <3>4
    <3>6. QED
      BY <1>5, <2>1, <3>2, <3>4, <3>5
  <2>3. \A k \in 0..MaxNodes : Chain(i)[k] = f[k]
    BY <2>2
  <2>4. DOMAIN Chain(i) = 0..MaxNodes /\ Chain(i) = [k \in 0..MaxNodes |-> Chain(i)[k]]
    BY <1>8
  <2>5. f = [k \in 0..MaxNodes |-> f[k]]
    BY <1>4
  <2>6. QED
    BY <2>3, <2>4, <2>5
<1>11. QED
  BY <1>4, <1>5, <1>10

-----------------------------------------------------------------------------
(* Types.                                                                  *)

MeshTypes == up \subseteq Tiles /\ salt \in [Tiles -> 1..MaxSalt]

Query == [status : {"none", "progress", "success", "failure"},
          startRef : Ref \cup {NoRef}, endRef : Ref \cup {NoRef},
          best : 0..MaxNodes, bestH : Nat]

PoolTypes ==
  /\ nodes \in [1..MaxNodes -> Node]
  /\ count \in 0..MaxNodes
  /\ open \subseteq 1..count

LoopTypes ==
  /\ loop \in {"none", "update", "wall"}
  /\ cur \in 0..count
  /\ left \subseteq Ref

Session == [startRef : Ref \cup {NoRef}, endRef : Ref \cup {NoRef},
            removed : SUBSET Tiles, disturbed : BOOLEAN, found : BOOLEAN]

LEMMA TypeOKParts ==
  TypeOK <=> /\ MeshTypes /\ mapId \in {0, MapId} /\ query \in Query /\ PoolTypes /\ LoopTypes
             /\ session \in Session
BY DEF TypeOK, MeshTypes, Query, PoolTypes, LoopTypes, Session

\* A loop that does not run is not in the middle of a node, and the links left
\* to follow are links of the node being expanded.
LoopShape ==
  /\ loop = "none" => cur = 0
  /\ cur # 0 => \A r \in left : <<nodes[cur].ref.poly, r.poly>> \in Links

LEMMA RefsInType ==
  ASSUME NEW ts, NEW s \in [Tiles -> 1..MaxSalt]
  PROVE  RefsIn(ts, s) \subseteq Ref
BY MeshAssumption DEF RefsIn, Ref

LEMMA TilesChangeType ==
  ASSUME MeshTypes, NEW gone, NEW come \in SUBSET Tiles, TilesChange(gone, come)
  PROVE  /\ MeshTypes' /\ SaltAfter(gone) \in [Tiles -> 1..MaxSalt]
         /\ gone \subseteq Tiles /\ up' = UpAfter(gone, come) /\ salt' = SaltAfter(gone)
<1>1. SaltAfter(gone) \in [Tiles -> 1..MaxSalt]
  <2>1. \A t \in Tiles : (IF t \in gone THEN salt[t] + 1 ELSE salt[t]) \in 1..MaxSalt
    BY BoundsAssumption DEF MeshTypes, TilesChange
  <2>2. QED
    BY <2>1 DEF SaltAfter
<1>2. QED
  BY <1>1 DEF MeshTypes, TilesChange, UpAfter

LEMMA BegunType ==
  ASSUME NEW s \in Ref \cup {NoRef}, NEW e \in Ref \cup {NoRef}
  PROVE  Begun(s, e) \in Session
BY DEF Begun, Session

LEMMA NoSessionType == NoSession \in Session
<1>1. Begun(NoRef, NoRef) \in Session
  BY BegunType
<1>2. QED
  BY <1>1 DEF NoSession, Session

LEMMA SessionGoesOnType ==
  ASSUME session \in Session, NEW gone \in SUBSET Tiles, NEW used \in BOOLEAN,
         SessionGoesOn(gone, used)
  PROVE  session' \in Session
<1>1. CASE mapId = 0
  BY <1>1, NoSessionType DEF SessionGoesOn
<1>2. CASE mapId # 0
  <2>1. session.removed \cup gone \in SUBSET Tiles /\ (session.disturbed \/ used) \in BOOLEAN
    BY DEF Session
  <2>2. session' = [session EXCEPT !.removed = session.removed \cup gone,
                                   !.disturbed = session.disturbed \/ used]
    BY <1>2 DEF SessionGoesOn
  <2>3. QED
    BY <2>1, <2>2 DEF Session
<1>3. QED
  BY <1>1, <1>2

LEMMA NoQueryType == NoQuery \in Query
BY BoundsAssumption DEF NoQuery, Query

LEMMA NoNodeType == NoNode \in Node
BY BoundsAssumption DEF NoNode, Node

LEMMA DeadPoolType ==
  ASSUME DeadPool
  PROVE  PoolTypes'
BY NoNodeType, BoundsAssumption DEF DeadPool, PoolTypes

LEMMA StartPoolType ==
  ASSUME PoolTypes, NEW r \in Ref, NEW h \in Nat, StartPool(r, h)
  PROVE  PoolTypes' /\ nodes'[1] = FreshNode(r, h) /\ count' = 1 /\ open' = {1}
<1>1. FreshNode(r, h) \in Node
  BY BoundsAssumption DEF FreshNode, Node
<1>2. 1 \in 1..MaxNodes /\ 1 \in 0..MaxNodes
  BY BoundsAssumption
<1>3. nodes' \in [1..MaxNodes -> Node]
  BY <1>1, NoNodeType DEF StartPool, PoolTypes
<1>4. nodes'[1] = FreshNode(r, h)
  BY <1>2 DEF StartPool
<1>5. QED
  BY <1>2, <1>3, <1>4 DEF StartPool, PoolTypes

LEMMA LinksOfType ==
  ASSUME MeshTypes, NEW i, NEW ts
  PROVE  /\ LinksOf(i, ts) \subseteq Ref
         /\ \A r \in LinksOf(i, ts) : <<nodes[i].ref.poly, r.poly>> \in Links
<1>1. RefsIn(ts, salt) \subseteq Ref
  BY RefsInType DEF MeshTypes
<1>2. QED
  BY <1>1 DEF LinksOf

TypeInv == TypeOK /\ LoopShape

LEMMA TypeInvNext ==
  ASSUME MeshTypes', mapId' \in {0, MapId}, query' \in Query, PoolTypes', LoopTypes',
         session' \in Session, LoopShape'
  PROVE  TypeInv'
BY DEF TypeInv, TypeOK, MeshTypes, Query, PoolTypes, LoopTypes, Session

\* A step that leaves the loop and the nodes alone.
LEMMA LoopFrame ==
  ASSUME TypeInv, UNCHANGED <<nodes, count, loopVars>>
  PROVE  LoopTypes' /\ LoopShape'
BY TypeOKParts DEF TypeInv, LoopTypes, LoopShape, loopVars

LEMMA IdleFrame ==
  ASSUME TypeInv, Idle, UNCHANGED <<loop, cur, left>>, count' \in 0..MaxNodes
  PROVE  LoopTypes' /\ LoopShape'
<1>1. cur = 0 /\ 0 \in 0..count'
  BY BoundsAssumption DEF TypeInv, LoopShape, Idle
<1>2. LoopTypes
  BY TypeOKParts DEF TypeInv
<1>3. QED
  BY <1>1, <1>2 DEF LoopTypes, LoopShape

LEMMA TypePathRequest ==
  ASSUME TypeInv, NEW gone \in SUBSET up, NEW come \in SUBSET Tiles, PathRequest(gone, come)
  PROVE  TypeInv'
<1>0. /\ MeshTypes /\ mapId \in {0, MapId} /\ query \in Query /\ PoolTypes /\ LoopTypes
      /\ session \in Session /\ LoopShape
  BY TypeOKParts DEF TypeInv
<1>1. CollectAndEnsure(gone, come) /\ Idle
  BY DEF PathRequest, InitFindsNothing, CalculatePath, InitSlicedFindPath
<1>2. MeshTypes' /\ SaltAfter(gone) \in [Tiles -> 1..MaxSalt] /\ gone \in SUBSET Tiles
  BY <1>0, <1>1, TilesChangeType DEF CollectAndEnsure
<1>3. CASE InitFindsNothing(gone, come)
  <2>1. session' \in Session
    BY <1>0, <1>2, <1>3, SessionGoesOnType DEF InitFindsNothing
  <2>2. UNCHANGED <<mapId, query, poolVars, loopVars>>
    BY <1>3 DEF InitFindsNothing
  <2>3. LoopTypes' /\ LoopShape' /\ PoolTypes'
    BY <1>0, <2>2, LoopFrame DEF poolVars, PoolTypes
  <2>4. QED
    BY <1>0, <1>2, <2>1, <2>2, <2>3, TypeInvNext
<1>4. CASE CalculatePath(gone, come)
  <2>1. session' \in Session
    BY <1>0, <1>2, <1>4, SessionGoesOnType DEF CalculatePath
  <2>2. PoolTypes' /\ query' \in Query /\ UNCHANGED <<mapId, loopVars>>
    BY <1>4, DeadPoolType, NoQueryType DEF CalculatePath
  <2>3. LoopTypes' /\ LoopShape'
    BY <1>1, <2>2, IdleFrame DEF PoolTypes, loopVars
  <2>4. QED
    BY <1>0, <1>2, <2>1, <2>2, <2>3, TypeInvNext
<1>5. ASSUME NEW s \in RefsIn(UpAfter(gone, come), SaltAfter(gone)),
             NEW e \in RefsIn(UpAfter(gone, come), SaltAfter(gone)), NEW h \in Heuristics,
             InitSlicedFindPath(gone, come, s, e, h)
      PROVE  TypeInv'
  <2>1. s \in Ref /\ e \in Ref /\ h \in Nat
    BY <1>2, RefsInType, CostsAssumption
  <2>2. session' \in Session /\ mapId' \in {0, MapId} /\ UNCHANGED loopVars
    BY <1>5, <2>1, BegunType DEF InitSlicedFindPath
  <2>3. query' \in Query
    <3>1. 1 \in 0..MaxNodes /\ 0 \in 0..MaxNodes
      BY BoundsAssumption
    <3>2. query'.status \in {"success", "progress"} /\ query'.best \in 0..MaxNodes /\ query'.bestH \in Nat
      BY <1>5, <2>1, <3>1 DEF InitSlicedFindPath
    <3>3. QED
      BY <1>5, <2>1, <3>1, <3>2 DEF InitSlicedFindPath, Query
  <2>4. PoolTypes'
    BY <1>0, <1>5, <2>1, DeadPoolType, StartPoolType DEF InitSlicedFindPath
  <2>5. LoopTypes' /\ LoopShape'
    BY <1>1, <2>2, <2>4, IdleFrame DEF PoolTypes, loopVars
  <2>6. QED
    BY <1>2, <2>2, <2>3, <2>4, <2>5, TypeInvNext
<1>6. QED
  BY <1>3, <1>4, <1>5 DEF PathRequest

LEMMA TypeHostCall ==
  ASSUME TypeInv, HostCall
  PROVE  TypeInv'
<1>0. /\ MeshTypes /\ mapId \in {0, MapId} /\ query \in Query /\ PoolTypes /\ LoopTypes
      /\ session \in Session /\ LoopShape
  BY TypeOKParts DEF TypeInv
<1>1. ASSUME NEW gone \in SUBSET up, NEW come \in SUBSET (Tiles \ (up \ gone)), PathRequest(gone, come)
      PROVE  TypeInv'
  BY <1>1, TypePathRequest
<1>2. CASE NothingToUpdate
  <2>1. UNCHANGED <<meshVars, mapId, query, poolVars, loopVars>> /\ SessionGoesOn({}, FALSE)
    BY <1>2 DEF NothingToUpdate
  <2>2. session' \in Session
    BY <1>0, <2>1, SessionGoesOnType
  <2>3. LoopTypes' /\ LoopShape' /\ PoolTypes' /\ MeshTypes'
    BY <1>0, <2>1, LoopFrame DEF poolVars, PoolTypes, meshVars, MeshTypes
  <2>4. QED
    BY <1>0, <2>1, <2>2, <2>3, TypeInvNext
<1>3. CASE EndsLost
  <2>1. UNCHANGED <<meshVars, mapId, poolVars, loopVars, session>>
        /\ query' = [query EXCEPT !.status = "failure"]
    BY <1>3 DEF EndsLost
  <2>2. query' \in Query
    BY <1>0, <2>1 DEF Query
  <2>3. LoopTypes' /\ LoopShape' /\ PoolTypes' /\ MeshTypes'
    BY <1>0, <2>1, LoopFrame DEF poolVars, PoolTypes, meshVars, MeshTypes
  <2>4. QED
    BY <1>0, <2>1, <2>2, <2>3, TypeInvNext
<1>4. CASE UpdateBegin
  <2>1. UNCHANGED <<meshVars, mapId, query, poolVars, cur, left, session>> /\ loop' = "update"
        /\ cur = 0
    BY <1>0, <1>4 DEF UpdateBegin, Idle, LoopShape
  <2>2. LoopTypes' /\ LoopShape' /\ PoolTypes' /\ MeshTypes'
    BY <1>0, <2>1 DEF poolVars, PoolTypes, meshVars, MeshTypes, LoopTypes, LoopShape
  <2>3. QED
    BY <1>0, <2>1, <2>2, TypeInvNext
<1>5. ASSUME NEW n \in PathSizes, FinalizeSlicedFindPath(n) PROVE TypeInv'
  <2>1. DeadPool /\ UNCHANGED <<meshVars, loopVars, session>> /\ mapId' = 0 /\ Idle
        /\ query' \in {query, NoQuery}
    BY <1>5 DEF FinalizeSlicedFindPath
  <2>2. PoolTypes' /\ query' \in Query
    BY <1>0, <2>1, DeadPoolType, NoQueryType
  <2>3. LoopTypes' /\ LoopShape' /\ MeshTypes'
    BY <1>0, <2>1, <2>2, IdleFrame DEF PoolTypes, loopVars, meshVars, MeshTypes
  <2>4. QED
    BY <1>0, <2>1, <2>2, <2>3, TypeInvNext
<1>6. ASSUME NEW t \in up, Unload(t) PROVE TypeInv'
  <2>1. TilesChange({t}, {}) /\ SessionGoesOn({t}, FALSE) /\ UNCHANGED <<mapId, query, poolVars, loopVars>>
    BY <1>6 DEF Unload
  <2>2. MeshTypes' /\ session' \in Session
    <3>1. {} \in SUBSET Tiles /\ {t} \in SUBSET Tiles
      BY <1>0 DEF MeshTypes
    <3>2. QED
      BY <1>0, <2>1, <3>1, TilesChangeType, SessionGoesOnType
  <2>3. LoopTypes' /\ LoopShape' /\ PoolTypes'
    BY <1>0, <2>1, LoopFrame DEF poolVars, PoolTypes
  <2>4. QED
    BY <1>0, <2>1, <2>2, <2>3, TypeInvNext
<1>7. ASSUME NEW r \in RefsIn(up, salt), WallBegin(r) PROVE TypeInv'
  <2>1. /\ UNCHANGED <<meshVars, mapId, query, cur, left>> /\ StartPool(r, 0) /\ loop' = "wall"
        /\ SessionGoesOn({}, TRUE) /\ cur = 0
    BY <1>0, <1>7 DEF WallBegin, Idle, LoopShape
  <2>2. r \in Ref
    BY <1>0, RefsInType DEF MeshTypes
  <2>3. PoolTypes' /\ count' = 1 /\ session' \in Session
    BY <1>0, <2>1, <2>2, StartPoolType, SessionGoesOnType
  <2>4. LoopTypes' /\ LoopShape' /\ MeshTypes'
    BY <1>0, <2>1, <2>3 DEF meshVars, MeshTypes, LoopTypes, LoopShape
  <2>5. QED
    BY <1>0, <2>1, <2>3, <2>4, TypeInvNext
<1>8. QED
  BY <1>1, <1>2, <1>3, <1>4, <1>5, <1>6, <1>7 DEF HostCall

\* The nodes after the two ways to follow a link that change one.
LEMMA FollowNewNodes ==
  ASSUME TypeInv, NEW r \in left, NEW c \in Costs, NEW h \in Heuristics, FollowNew(r, c, h)
  PROVE  /\ cur \in 1..count /\ r \in Ref /\ c \in Nat /\ h \in Nat
         /\ count \in 0..MaxNodes /\ count + 1 \in 1..MaxNodes /\ count' = count + 1
         /\ nodes' = [nodes EXCEPT ![count + 1] =
                        [ref |-> r, pidx |-> cur, cost |-> nodes[cur].cost + c, h |-> h]]
         /\ nodes'[count + 1] = [ref |-> r, pidx |-> cur, cost |-> nodes[cur].cost + c, h |-> h]
         /\ \A i \in 1..count : nodes'[i] = nodes[i]
         /\ nodes'[count + 1] \in Node
<1>1. /\ cur # 0 /\ count < MaxNodes /\ count' = count + 1
      /\ nodes' = [nodes EXCEPT ![count + 1] =
                     [ref |-> r, pidx |-> cur, cost |-> nodes[cur].cost + c, h |-> h]]
  BY DEF FollowNew
<1>2. cur \in 1..count /\ r \in Ref /\ c \in Nat /\ h \in Nat
  BY <1>1, TypeOKParts, CostsAssumption, BoundsAssumption DEF TypeInv, LoopTypes, PoolTypes
<1>3. count \in 0..MaxNodes /\ count + 1 \in 1..MaxNodes /\ nodes \in [1..MaxNodes -> Node]
  BY <1>1, TypeOKParts, BoundsAssumption DEF TypeInv, PoolTypes
<1>4. nodes[cur].cost \in Nat /\ cur \in 0..MaxNodes
  BY <1>2, <1>3, BoundsAssumption DEF Node
<1>5. [ref |-> r, pidx |-> cur, cost |-> nodes[cur].cost + c, h |-> h] \in Node
  BY <1>2, <1>4 DEF Node
<1>6. QED
  BY <1>1, <1>2, <1>3, <1>5

LEMMA FollowBetterNodes ==
  ASSUME TypeInv, NEW r \in left, NEW c \in Costs, FollowBetter(r, c)
  PROVE  \E k \in 1..count :
           /\ nodes[k].ref = r
           /\ Better(k, c)
           /\ cur \in 1..count /\ r \in Ref /\ c \in Nat /\ count \in 0..MaxNodes
           /\ nodes' = [nodes EXCEPT ![k].pidx = cur, ![k].cost = nodes[cur].cost + c]
           /\ nodes'[k].ref = r /\ nodes'[k].pidx = cur /\ nodes'[k].cost = nodes[cur].cost + c
           /\ \A i \in (1..count) \ {k} : nodes'[i] = nodes[i]
           /\ nodes'[k] \in Node
           /\ open' = open \cup {k}
           /\ NoteBest(k, nodes[k].h)
<1>1. cur # 0 /\ r \in left
  BY DEF FollowBetter
<1>2. PICK k \in NodesOf(r) :
        /\ Better(k, c)
        /\ nodes' = [nodes EXCEPT ![k].pidx = cur, ![k].cost = nodes[cur].cost + c]
        /\ open' = open \cup {k}
        /\ NoteBest(k, nodes[k].h)
  BY DEF FollowBetter
<1>3. k \in 1..count /\ nodes[k].ref = r
  BY DEF NodesOf
<1>4. cur \in 1..count /\ r \in Ref /\ c \in Nat /\ count \in 0..MaxNodes /\ nodes \in [1..MaxNodes -> Node]
  BY <1>1, TypeOKParts, CostsAssumption, BoundsAssumption DEF TypeInv, LoopTypes, PoolTypes
<1>5. k \in 1..MaxNodes /\ cur \in 1..MaxNodes /\ cur \in 0..MaxNodes
  BY <1>3, <1>4, BoundsAssumption
<1>6. nodes'[k] = [nodes[k] EXCEPT !.pidx = cur, !.cost = nodes[cur].cost + c]
  BY <1>2, <1>4, <1>5
<1>7. nodes[k] \in Node /\ nodes[cur].cost + c \in Nat
  BY <1>4, <1>5 DEF Node
<1>8. nodes'[k] \in Node
  BY <1>5, <1>6, <1>7 DEF Node
<1>9. \A i \in (1..count) \ {k} : nodes'[i] = nodes[i]
  BY <1>2, <1>4, BoundsAssumption
<1>10. nodes'[k].ref = r /\ nodes'[k].pidx = cur /\ nodes'[k].cost = nodes[cur].cost + c
  BY <1>3, <1>6, <1>7 DEF Node
<1>11. QED
  BY <1>2, <1>3, <1>4, <1>8, <1>9, <1>10

LEMMA NoteBestType ==
  ASSUME query \in Query, NEW k \in 0..MaxNodes, NEW h \in Nat, NoteBest(k, h)
  PROVE  query' \in Query
BY DEF NoteBest, Query

LEMMA TypeFollow ==
  ASSUME TypeInv, Follow
  PROVE  TypeInv'
<1>0. /\ MeshTypes /\ mapId \in {0, MapId} /\ query \in Query /\ PoolTypes /\ LoopTypes
      /\ session \in Session /\ LoopShape
  BY TypeOKParts DEF TypeInv
<1>1. ASSUME NEW r \in left, FollowNothing(r) PROVE TypeInv'
  <2>1. UNCHANGED <<meshVars, mapId, query, poolVars, loop, cur, session>> /\ left' = left \ {r}
    BY <1>1 DEF FollowNothing
  <2>2. MeshTypes' /\ PoolTypes' /\ LoopTypes' /\ LoopShape'
    BY <1>0, <2>1 DEF meshVars, MeshTypes, poolVars, PoolTypes, LoopTypes, LoopShape
  <2>3. QED
    BY <1>0, <2>1, <2>2, TypeInvNext
<1>2. ASSUME NEW r \in left, NEW c \in Costs, NEW h \in Heuristics, FollowNew(r, c, h) PROVE TypeInv'
  <2>1. /\ UNCHANGED <<meshVars, mapId, loop, cur, session>> /\ left' = left \ {r}
        /\ open' = open \cup {count + 1} /\ NoteBest(count + 1, h)
    BY <1>2 DEF FollowNew
  <2>2. /\ cur \in 1..count /\ r \in Ref /\ c \in Nat /\ h \in Nat
        /\ count \in 0..MaxNodes /\ count + 1 \in 1..MaxNodes /\ count' = count + 1
        /\ nodes' = [nodes EXCEPT ![count + 1] =
                       [ref |-> r, pidx |-> cur, cost |-> nodes[cur].cost + c, h |-> h]]
        /\ \A i \in 1..count : nodes'[i] = nodes[i]
        /\ nodes'[count + 1] \in Node
    BY <1>2, FollowNewNodes
  <2>3. nodes' \in [1..MaxNodes -> Node]
    BY <1>0, <2>2 DEF PoolTypes
  <2>4. PoolTypes'
    <3>1. count' \in 0..MaxNodes
      BY <2>2, BoundsAssumption
    <3>2. open' \subseteq 1..count'
      BY <1>0, <2>1, <2>2 DEF PoolTypes
    <3>3. QED
      BY <2>3, <3>1, <3>2 DEF PoolTypes
  <2>5. query' \in Query
    BY <1>0, <2>1, <2>2, NoteBestType, BoundsAssumption
  <2>6. MeshTypes' /\ LoopTypes'
    BY <1>0, <2>1, <2>2 DEF meshVars, MeshTypes, LoopTypes
  <2>7. LoopShape'
    BY <1>0, <2>1, <2>2 DEF LoopShape
  <2>8. QED
    BY <1>0, <2>1, <2>4, <2>5, <2>6, <2>7, TypeInvNext
<1>3. ASSUME NEW r \in left, NEW c \in Costs, FollowBetter(r, c) PROVE TypeInv'
  <2>1. /\ UNCHANGED <<meshVars, mapId, count, loop, cur, session>> /\ left' = left \ {r}
    BY <1>3 DEF FollowBetter
  <2>2. PICK k \in 1..count :
          /\ nodes[k].ref = r
          /\ Better(k, c)
          /\ cur \in 1..count /\ r \in Ref /\ c \in Nat /\ count \in 0..MaxNodes
          /\ nodes' = [nodes EXCEPT ![k].pidx = cur, ![k].cost = nodes[cur].cost + c]
          /\ nodes'[k].ref = r /\ nodes'[k].pidx = cur /\ nodes'[k].cost = nodes[cur].cost + c
          /\ \A i \in (1..count) \ {k} : nodes'[i] = nodes[i]
          /\ nodes'[k] \in Node
          /\ open' = open \cup {k}
          /\ NoteBest(k, nodes[k].h)
    BY <1>3, FollowBetterNodes
  <2>3. k \in 1..MaxNodes /\ k \in 0..MaxNodes /\ nodes[k].h \in Nat
    BY <1>0, <2>2, BoundsAssumption DEF PoolTypes, Node
  <2>4. nodes' \in [1..MaxNodes -> Node]
    <3>1. nodes' = [nodes EXCEPT ![k] = nodes'[k]]
      BY <1>0, <2>2, <2>3 DEF PoolTypes
    <3>2. QED
      BY <1>0, <2>2, <3>1 DEF PoolTypes
  <2>5. PoolTypes'
    BY <1>0, <2>1, <2>2, <2>4 DEF PoolTypes
  <2>6. query' \in Query
    BY <1>0, <2>2, <2>3, NoteBestType
  <2>7. MeshTypes' /\ LoopTypes'
    BY <1>0, <2>1 DEF meshVars, MeshTypes, LoopTypes
  <2>8. LoopShape'
    <3>1. nodes'[cur].ref = nodes[cur].ref
      <4>1. CASE cur = k
        BY <2>2, <4>1
      <4>2. CASE cur # k
        BY <2>2, <4>2
      <4>3. QED
        BY <4>1, <4>2
    <3>2. QED
      BY <1>0, <2>1, <2>2, <3>1 DEF LoopShape
  <2>9. QED
    BY <1>0, <2>1, <2>5, <2>6, <2>7, <2>8, TypeInvNext
<1>4. QED
  BY <1>1, <1>2, <1>3 DEF Follow

LEMMA TypeLoopStep ==
  ASSUME TypeInv, LoopStep
  PROVE  TypeInv'
<1>0. /\ MeshTypes /\ mapId \in {0, MapId} /\ query \in Query /\ PoolTypes /\ LoopTypes
      /\ session \in Session /\ LoopShape
  BY TypeOKParts DEF TypeInv
<1>1. ASSUME NEW i \in open, PopGoal(i) \/ PopLost(i) PROVE TypeInv'
  <2>1. /\ UNCHANGED <<meshVars, mapId, nodes, count, cur, left>> /\ cur = 0 /\ open' = open \ {i}
        /\ loop' = "none" /\ i \in 0..MaxNodes
    BY <1>0, <1>1, BoundsAssumption DEF PopGoal, PopLost, Popping, PoolTypes
  <2>2. query' \in Query /\ session' \in Session
    BY <1>0, <1>1, <2>1 DEF PopGoal, PopLost, Query, Session
  <2>3. MeshTypes' /\ PoolTypes' /\ LoopTypes' /\ LoopShape'
    BY <1>0, <2>1 DEF meshVars, MeshTypes, PoolTypes, LoopTypes, LoopShape
  <2>4. QED
    BY <1>0, <2>1, <2>2, <2>3, TypeInvNext
<1>2. ASSUME NEW i \in open, NEW come \in SUBSET (Tiles \ up), Expand(i, come) PROVE TypeInv'
  <2>1. /\ UNCHANGED <<mapId, query, nodes, count, loop, session>> /\ cur' = i /\ open' = open \ {i}
        /\ left' = LinksOf(i, UpAfter({}, come)) /\ TilesChange({}, come) /\ loop = "update"
    BY <1>2 DEF Expand, Popping
  <2>2. MeshTypes'
    BY <1>0, <2>1, TilesChangeType
  <2>3. LinksOf(i, UpAfter({}, come)) \subseteq Ref
        /\ \A r \in LinksOf(i, UpAfter({}, come)) : <<nodes[i].ref.poly, r.poly>> \in Links
    BY <1>0, LinksOfType
  <2>4. PoolTypes' /\ LoopTypes' /\ LoopShape'
    BY <1>0, <2>1, <2>3 DEF PoolTypes, LoopTypes, LoopShape
  <2>5. QED
    BY <1>0, <2>1, <2>2, <2>4, TypeInvNext
<1>3. ASSUME NEW i \in open, WallExpand(i) PROVE TypeInv'
  <2>1. /\ UNCHANGED <<meshVars, mapId, query, nodes, count, loop, session>> /\ cur' = i
        /\ open' = open \ {i} /\ left' = LinksOf(i, up) /\ loop = "wall"
    BY <1>3 DEF WallExpand, Popping
  <2>2. LinksOf(i, up) \subseteq Ref
        /\ \A r \in LinksOf(i, up) : <<nodes[i].ref.poly, r.poly>> \in Links
    BY <1>0, LinksOfType
  <2>3. MeshTypes' /\ PoolTypes' /\ LoopTypes' /\ LoopShape'
    BY <1>0, <2>1, <2>2 DEF meshVars, MeshTypes, PoolTypes, LoopTypes, LoopShape
  <2>4. QED
    BY <1>0, <2>1, <2>3, TypeInvNext
<1>4. CASE Expanded
  <2>1. UNCHANGED <<meshVars, mapId, query, poolVars, loop, left, session>> /\ cur' = 0
    BY <1>4 DEF Expanded
  <2>2. MeshTypes' /\ PoolTypes' /\ LoopTypes' /\ LoopShape'
    BY <1>0, <2>1 DEF meshVars, MeshTypes, poolVars, PoolTypes, LoopTypes, LoopShape
  <2>3. QED
    BY <1>0, <2>1, <2>2, TypeInvNext
<1>5. CASE UpdateEnd \/ WallEnd
  <2>1. UNCHANGED <<meshVars, mapId, poolVars, left, cur>> /\ cur = 0 /\ loop' = "none"
    BY <1>5 DEF UpdateEnd, WallEnd
  <2>2. query' \in Query /\ session' \in Session
    BY <1>0, <1>5 DEF UpdateEnd, WallEnd, Query, Session
  <2>3. MeshTypes' /\ PoolTypes' /\ LoopTypes' /\ LoopShape'
    BY <1>0, <2>1 DEF meshVars, MeshTypes, poolVars, PoolTypes, LoopTypes, LoopShape
  <2>4. QED
    BY <1>0, <2>1, <2>2, <2>3, TypeInvNext
<1>6. QED
  BY <1>1, <1>2, <1>3, <1>4, <1>5, TypeFollow DEF LoopStep, Pop

LEMMA TypeStep == TypeInv /\ [Next]_vars => TypeInv'
<1> SUFFICES ASSUME TypeInv, [Next]_vars PROVE TypeInv'
  OBVIOUS
<1>1. CASE UNCHANGED vars
  BY <1>1 DEF vars, meshVars, poolVars, loopVars, TypeInv, TypeOK, LoopShape
<1>2. QED
  BY <1>1, TypeHostCall, TypeLoopStep DEF Next

LEMMA TypeInit == Init => TypeInv
<1> SUFFICES ASSUME Init PROVE TypeInv
  OBVIOUS
<1>1. MeshTypes /\ mapId \in {0, MapId} /\ query \in Query /\ session \in Session
  BY NoQueryType, NoSessionType, BoundsAssumption DEF Init, MeshTypes
<1>2. PoolTypes /\ LoopTypes /\ LoopShape
  BY NoNodeType, BoundsAssumption DEF Init, PoolTypes, LoopTypes, LoopShape
<1>3. QED
  BY <1>1, <1>2, TypeOKParts DEF TypeInv

LEMMA TypeInductive == Spec => []TypeInv
BY TypeInit, TypeStep, PTL DEF Spec

\* Every variable of the search keeps to its type, whatever the host does
\* between slices.
THEOREM SlicedTypeCorrect == Spec => []TypeOK
<1>1. TypeInv => TypeOK
  BY DEF TypeInv
<1>2. QED
  BY <1>1, TypeInductive, PTL

-----------------------------------------------------------------------------
(* The tree of the nodes in use.                                           *)

\* No set of nodes holds the parents of all its members.
NoParentLoop ==
  \A S \in SUBSET (1..count) : S # {} => \E i \in S : nodes[i].pidx \notin S

\* Only the first node has no parent, and it cannot be given one, for nothing
\* costs less; the others were reached from theirs, along a link.
NodesAreReached ==
  \A i \in 1..count :
    /\ nodes[i].ref \in Ref
    /\ nodes[i].pidx = 0 <=> i = 1
    /\ i = 1 => nodes[i].cost = 0
    /\ i # 1 => /\ nodes[i].pidx \in 1..count
                /\ nodes[nodes[i].pidx].cost <= nodes[i].cost
                /\ <<nodes[nodes[i].pidx].ref.poly, nodes[i].ref.poly>> \in Links

OneNodePerRef == \A i, j \in 1..count : nodes[i].ref = nodes[j].ref => i = j

TreeInv == NoParentLoop /\ NodesAreReached /\ OneNodePerRef

LEMMA TreeStart ==
  ASSUME count' = 1, NEW r \in Ref, NEW h, nodes'[1] = FreshNode(r, h)
  PROVE  TreeInv'
<1>1. \A i \in 1..count' : i = 1
  BY DEF TreeInv
<1>2. nodes'[1].ref = r /\ nodes'[1].pidx = 0 /\ nodes'[1].cost = 0
  BY DEF FreshNode
<1>3. NodesAreReached' /\ OneNodePerRef'
  BY <1>1, <1>2 DEF NodesAreReached, OneNodePerRef
<1>4. NoParentLoop'
  <2> SUFFICES ASSUME NEW S \in SUBSET (1..count'), S # {}
               PROVE  \E i \in S : nodes'[i].pidx \notin S
    BY DEF NoParentLoop
  <2>1. PICK i \in S : TRUE
    OBVIOUS
  <2>2. i = 1 /\ 0 \notin S
    BY <1>1, <2>1
  <2>3. QED
    BY <1>2, <2>1, <2>2
<1>5. QED
  BY <1>3, <1>4 DEF TreeInv

LEMMA TreeEmpty ==
  ASSUME count' = 0
  PROVE  TreeInv'
<1>1. 1..count' = {}
  OBVIOUS
<1>2. NodesAreReached' /\ OneNodePerRef'
  BY <1>1 DEF NodesAreReached, OneNodePerRef
<1>3. NoParentLoop'
  BY <1>1 DEF NoParentLoop
<1>4. QED
  BY <1>2, <1>3 DEF TreeInv

LEMMA ParentsInUse ==
  ASSUME NodesAreReached, count \in Nat
  PROVE  \A i \in 1..count : nodes[i].pidx \in 0..count
<1> SUFFICES ASSUME NEW i \in 1..count PROVE nodes[i].pidx \in 0..count
  OBVIOUS
<1>1. CASE i = 1
  <2>1. nodes[i].pidx = 0
    BY <1>1 DEF NodesAreReached
  <2>2. QED
    BY <2>1
<1>2. CASE i # 1
  <2>1. nodes[i].pidx \in 1..count
    BY <1>2 DEF NodesAreReached
  <2>2. QED
    BY <2>1
<1>3. QED
  BY <1>1, <1>2

LEMMA TreeFollowNew ==
  ASSUME TypeInv, TreeInv, NEW r \in left, NEW c \in Costs, NEW h \in Heuristics, FollowNew(r, c, h)
  PROVE  TreeInv'
<1>1. /\ cur \in 1..count /\ r \in Ref /\ c \in Nat
      /\ count \in Nat /\ count' = count + 1
      /\ nodes'[count + 1] = [ref |-> r, pidx |-> cur, cost |-> nodes[cur].cost + c, h |-> h]
      /\ \A i \in 1..count : nodes'[i] = nodes[i]
  BY FollowNewNodes, BoundsAssumption
<1>2. \A i \in 1..count : nodes[i].ref # r
  BY DEF FollowNew, NodesOf
<1>3. <<nodes[cur].ref.poly, r.poly>> \in Links
  BY <1>1 DEF TypeInv, LoopShape
<1>4. nodes[cur].cost \in Nat /\ \A i \in 1..count : nodes[i].pidx \in 0..count
  <2>1. nodes \in [1..MaxNodes -> Node] /\ cur \in 1..MaxNodes
    BY <1>1, TypeOKParts, BoundsAssumption DEF TypeInv, PoolTypes
  <2>2. \A i \in 1..count : nodes[i].pidx \in 0..count
    BY <1>1, ParentsInUse DEF TreeInv
  <2>3. QED
    BY <2>1, <2>2 DEF Node
<1>5. \A i \in 1..count' : i \in 1..count \/ i = count + 1
  BY <1>1
<1>6. NodesAreReached'
  <2> SUFFICES ASSUME NEW i \in 1..count'
               PROVE  /\ nodes'[i].ref \in Ref
                      /\ nodes'[i].pidx = 0 <=> i = 1
                      /\ i = 1 => nodes'[i].cost = 0
                      /\ i # 1 => /\ nodes'[i].pidx \in 1..count'
                                  /\ nodes'[nodes'[i].pidx].cost <= nodes'[i].cost
                                  /\ <<nodes'[nodes'[i].pidx].ref.poly, nodes'[i].ref.poly>> \in Links
    BY DEF NodesAreReached
  <2>1. CASE i \in 1..count
    <3>1. nodes'[i] = nodes[i] /\ nodes[i].ref \in Ref
      BY <1>1, <2>1 DEF TreeInv, NodesAreReached
    <3>2. CASE i = 1
      BY <2>1, <3>1, <3>2 DEF TreeInv, NodesAreReached
    <3>3. CASE i # 1
      <4>1. /\ nodes[i].pidx \in 1..count /\ nodes[nodes[i].pidx].cost <= nodes[i].cost
            /\ <<nodes[nodes[i].pidx].ref.poly, nodes[i].ref.poly>> \in Links
            /\ nodes[i].pidx # 0
        BY <2>1, <3>3 DEF TreeInv, NodesAreReached
      <4>2. nodes'[nodes[i].pidx] = nodes[nodes[i].pidx] /\ nodes[i].pidx \in 1..count'
        BY <1>1, <4>1
      <4>3. QED
        BY <3>1, <3>3, <4>1, <4>2
    <3>4. QED
      BY <3>2, <3>3
  <2>2. CASE i = count + 1
    BY <1>1, <1>3, <1>4, <2>2 DEF TreeInv, NodesAreReached
  <2>3. QED
    BY <1>5, <2>1, <2>2
<1>7. OneNodePerRef'
  BY <1>1, <1>2, <1>5 DEF TreeInv, OneNodePerRef
<1>8. NoParentLoop'
  <2> SUFFICES ASSUME NEW S \in SUBSET (1..count'), S # {}
               PROVE  \E i \in S : nodes'[i].pidx \notin S
    BY DEF NoParentLoop
  <2> DEFINE Old == S \ {count + 1}
  <2>1. Old \in SUBSET (1..count)
    BY <1>5
  <2>2. CASE Old = {}
    <3>1. S = {count + 1}
      BY <2>2
    <3>2. cur # count + 1
      BY <1>1
    <3>3. QED
      BY <1>1, <3>1, <3>2
  <2>3. CASE Old # {}
    <3>1. PICK i \in Old : nodes[i].pidx \notin Old
      <4> HIDE DEF Old
      <4>1. QED
        BY <2>1, <2>3 DEF TreeInv, NoParentLoop
    <3>2. i \in S /\ i \in 1..count
      BY <2>1, <3>1
    <3>3. nodes[i].pidx \in 0..count /\ count + 1 \notin 0..count
      BY <1>1, <1>4, <3>2
    <3>4. nodes[i].pidx \notin S
      BY <3>1, <3>3
    <3>5. QED
      BY <1>1, <3>2, <3>4
  <2>4. QED
    BY <2>2, <2>3
<1>9. QED
  BY <1>6, <1>7, <1>8 DEF TreeInv

\* Node k is given the parent cur because that is cheaper than k was.  Were k
\* above cur, its cost could be no more than that of cur.  So in a set that
\* held its own parents the nodes that cost no more than cur would have done
\* so before.
LEMMA TreeFollowBetter ==
  ASSUME TypeInv, TreeInv, NEW r \in left, NEW c \in Costs, FollowBetter(r, c)
  PROVE  TreeInv'
<1>1. PICK k \in 1..count :
        /\ nodes[k].ref = r
        /\ Better(k, c)
        /\ cur \in 1..count /\ r \in Ref /\ c \in Nat /\ count \in 0..MaxNodes
        /\ nodes'[k].ref = r /\ nodes'[k].pidx = cur /\ nodes'[k].cost = nodes[cur].cost + c
        /\ \A i \in (1..count) \ {k} : nodes'[i] = nodes[i]
  BY FollowBetterNodes
<1>2. count' = count /\ count \in Nat
  BY <1>1, BoundsAssumption DEF FollowBetter
<1>3. \A i \in 1..count : nodes[i].cost \in Nat /\ nodes[i].pidx \in 0..count
  <2>1. nodes \in [1..MaxNodes -> Node] /\ \A i \in 1..count : i \in 1..MaxNodes
    BY TypeOKParts, BoundsAssumption DEF TypeInv, PoolTypes
  <2>2. \A i \in 1..count : nodes[i].pidx \in 0..count
    BY <1>2, ParentsInUse DEF TreeInv
  <2>3. QED
    BY <2>1, <2>2 DEF Node
<1>4. nodes[cur].cost + c < nodes[k].cost
  BY <1>1 DEF Better
<1>5. k # cur /\ k # 1 /\ nodes'[cur] = nodes[cur]
  <2>1. k # cur
    BY <1>1, <1>3, <1>4
  <2>2. k # 1
    <3>1. nodes[cur].cost \in Nat /\ nodes[k].cost # 0
      BY <1>1, <1>3, <1>4
    <3>2. QED
      BY <3>1 DEF TreeInv, NodesAreReached
  <2>3. QED
    BY <1>1, <2>1, <2>2
<1>6. <<nodes[cur].ref.poly, r.poly>> \in Links
  BY <1>1 DEF TypeInv, LoopShape
<1>7. \A i \in 1..count : nodes'[i].ref = nodes[i].ref /\ nodes'[i].cost <= nodes[i].cost
  <2> SUFFICES ASSUME NEW i \in 1..count
               PROVE  nodes'[i].ref = nodes[i].ref /\ nodes'[i].cost <= nodes[i].cost
    OBVIOUS
  <2>1. CASE i = k
    BY <1>1, <1>3, <1>4, <2>1
  <2>2. CASE i # k
    <3>1. nodes'[i] = nodes[i] /\ nodes[i].cost \in Nat
      BY <1>1, <1>3, <2>2
    <3>2. QED
      BY <3>1
  <2>3. QED
    BY <2>1, <2>2
<1>8. NodesAreReached'
  <2> SUFFICES ASSUME NEW i \in 1..count
               PROVE  /\ nodes'[i].ref \in Ref
                      /\ nodes'[i].pidx = 0 <=> i = 1
                      /\ i = 1 => nodes'[i].cost = 0
                      /\ i # 1 => /\ nodes'[i].pidx \in 1..count'
                                  /\ nodes'[nodes'[i].pidx].cost <= nodes'[i].cost
                                  /\ <<nodes'[nodes'[i].pidx].ref.poly, nodes'[i].ref.poly>> \in Links
    BY <1>2 DEF NodesAreReached
  <2>1. CASE i = k
    <3>1. nodes'[i].pidx = cur /\ nodes'[i].ref = r /\ nodes'[i].cost = nodes[cur].cost + c
      BY <1>1, <2>1
    <3>2. nodes[cur].cost <= nodes[cur].cost + c
      BY <1>1, <1>3
    <3>3. QED
      BY <1>1, <1>2, <1>5, <1>6, <2>1, <3>1, <3>2
  <2>2. CASE i # k
    <3>1. nodes'[i] = nodes[i]
      BY <1>1, <2>2
    <3>2. CASE i = 1
      BY <3>1, <3>2 DEF TreeInv, NodesAreReached
    <3>3. CASE i # 1
      <4>1. /\ nodes[i].pidx \in 1..count /\ nodes[nodes[i].pidx].cost <= nodes[i].cost
            /\ <<nodes[nodes[i].pidx].ref.poly, nodes[i].ref.poly>> \in Links
            /\ nodes[i].ref \in Ref /\ nodes[i].pidx # 0
        BY <3>3 DEF TreeInv, NodesAreReached
      <4>2. /\ nodes'[nodes[i].pidx].ref = nodes[nodes[i].pidx].ref
            /\ nodes'[nodes[i].pidx].cost <= nodes[nodes[i].pidx].cost
        BY <1>7, <4>1
      <4>3. nodes'[nodes[i].pidx].cost \in Nat
        BY <1>1, <1>3, <4>1
      <4>4. nodes'[nodes[i].pidx].cost <= nodes[i].cost
        BY <1>3, <4>1, <4>2, <4>3
      <4>5. QED
        BY <1>2, <3>1, <3>3, <4>1, <4>2, <4>4
    <3>4. QED
      BY <3>2, <3>3
  <2>3. QED
    BY <2>1, <2>2
<1>9. OneNodePerRef'
  BY <1>2, <1>7 DEF TreeInv, OneNodePerRef
<1>10. NoParentLoop'
  <2> SUFFICES ASSUME NEW S \in SUBSET (1..count), \A i \in S : nodes'[i].pidx \in S
               PROVE  S = {}
    BY <1>2 DEF NoParentLoop
  <2>1. CASE k \notin S
    <3>1. \A i \in S : nodes[i].pidx \in S
      BY <1>1, <2>1
    <3>2. QED
      BY <3>1 DEF TreeInv, NoParentLoop
  <2>2. CASE k \in S
    <3> DEFINE Cheap == {i \in S : nodes[i].cost <= nodes[cur].cost}
    <3>1. cur \in Cheap
      BY <1>1, <1>3, <2>2
    <3>2. k \notin Cheap
      BY <1>1, <1>3, <1>4
    <3>3. ASSUME NEW i \in Cheap PROVE nodes[i].pidx \in Cheap
      <4>1. i \in 1..count /\ i # k /\ i \in S /\ nodes[i].cost <= nodes[cur].cost
        BY <3>2, <3>3
      <4>2. nodes[i].pidx \in S
        BY <1>1, <4>1
      <4>3. nodes[i].pidx \in 1..count /\ i # 1
        <5>1. nodes[i].pidx \in 1..count
          BY <4>2
        <5>2. nodes[i].pidx # 0
          BY <5>1
        <5>3. QED
          BY <4>1, <5>1, <5>2 DEF TreeInv, NodesAreReached
      <4>4. nodes[nodes[i].pidx].cost <= nodes[i].cost
        BY <4>1, <4>3 DEF TreeInv, NodesAreReached
      <4>5. nodes[nodes[i].pidx].cost <= nodes[cur].cost
        BY <1>1, <1>3, <4>1, <4>3, <4>4
      <4>6. QED
        BY <4>2, <4>5
    <3>4. Cheap \in SUBSET (1..count)
      OBVIOUS
    <3> HIDE DEF Cheap
    <3>5. QED
      BY <3>1, <3>3, <3>4 DEF TreeInv, NoParentLoop
  <2>3. QED
    BY <2>1, <2>2
<1>11. QED
  BY <1>8, <1>9, <1>10 DEF TreeInv

\* What the steps do to the pool: leave it, empty it, begin it with one node,
\* or follow a link.
LEMMA PoolSteps ==
  ASSUME TypeInv, [Next]_vars
  PROVE  \/ UNCHANGED <<nodes, count>>
         \/ DeadPool
         \/ \E r \in Ref, h \in Nat : StartPool(r, h)
         \/ \E r \in left, c \in Costs, h \in Heuristics : FollowNew(r, c, h)
         \/ \E r \in left, c \in Costs : FollowBetter(r, c)
<1> DEFINE Goal ==
         \/ UNCHANGED <<nodes, count>>
         \/ DeadPool
         \/ \E r \in Ref, h \in Nat : StartPool(r, h)
         \/ \E r \in left, c \in Costs, h \in Heuristics : FollowNew(r, c, h)
         \/ \E r \in left, c \in Costs : FollowBetter(r, c)
<1> SUFFICES Goal
  OBVIOUS
<1>1. CASE UNCHANGED vars
  BY <1>1 DEF vars, poolVars
<1>2. ASSUME NEW gone \in SUBSET up, NEW come \in SUBSET (Tiles \ (up \ gone)), PathRequest(gone, come)
      PROVE  Goal
  <2>1. CASE InitFindsNothing(gone, come) \/ CalculatePath(gone, come)
    BY <2>1 DEF InitFindsNothing, CalculatePath, poolVars
  <2>2. ASSUME NEW s \in RefsIn(UpAfter(gone, come), SaltAfter(gone)),
               NEW e \in RefsIn(UpAfter(gone, come), SaltAfter(gone)), NEW h \in Heuristics,
               InitSlicedFindPath(gone, come, s, e, h)
        PROVE  Goal
    <3>1. come \in SUBSET Tiles /\ CollectAndEnsure(gone, come) /\ MeshTypes
      BY <2>2, TypeOKParts DEF InitSlicedFindPath, TypeInv
    <3>2. SaltAfter(gone) \in [Tiles -> 1..MaxSalt]
      BY <3>1, TilesChangeType DEF CollectAndEnsure
    <3>3. s \in Ref /\ h \in Nat
      BY <3>2, RefsInType, CostsAssumption
    <3>4. DeadPool \/ StartPool(s, h)
      BY <2>2 DEF InitSlicedFindPath
    <3>5. QED
      BY <3>3, <3>4
  <2>3. QED
    BY <1>2, <2>1, <2>2 DEF PathRequest
<1>3. CASE NothingToUpdate \/ EndsLost \/ UpdateBegin
  BY <1>3 DEF NothingToUpdate, EndsLost, UpdateBegin, poolVars
<1>4. ASSUME NEW n \in PathSizes, FinalizeSlicedFindPath(n) PROVE Goal
  BY <1>4 DEF FinalizeSlicedFindPath
<1>5. ASSUME NEW t \in up, Unload(t) PROVE Goal
  BY <1>5 DEF Unload, poolVars
<1>6. ASSUME NEW r \in RefsIn(up, salt), WallBegin(r) PROVE Goal
  <2>1. r \in Ref /\ 0 \in Nat
    BY TypeOKParts, RefsInType DEF TypeInv, MeshTypes
  <2>2. StartPool(r, 0)
    BY <1>6 DEF WallBegin
  <2>3. QED
    BY <2>1, <2>2
<1>7. CASE HostCall
  <2> HIDE DEF Goal
  <2>1. QED
    BY <1>2, <1>3, <1>4, <1>5, <1>6, <1>7 DEF HostCall
<1>8. CASE Pop \/ (\E i \in open : WallExpand(i)) \/ Expanded \/ UpdateEnd \/ WallEnd
  <2>1. \A i \in open : PopGoal(i) \/ PopLost(i) \/ WallExpand(i) => UNCHANGED <<nodes, count>>
    BY DEF PopGoal, PopLost, WallExpand
  <2>2. \A i \in open, come \in SUBSET (Tiles \ up) : Expand(i, come) => UNCHANGED <<nodes, count>>
    BY DEF Expand
  <2>3. CASE Expanded \/ UpdateEnd \/ WallEnd
    BY <2>3 DEF Expanded, UpdateEnd, WallEnd, poolVars
  <2>4. QED
    BY <1>8, <2>1, <2>2, <2>3 DEF Pop
<1>9. CASE Follow
  <2>1. ASSUME NEW r \in left, FollowNothing(r) PROVE UNCHANGED <<nodes, count>>
    BY <2>1 DEF FollowNothing, poolVars
  <2>2. QED
    BY <1>9, <2>1 DEF Follow
<1>10. QED
  <2> HIDE DEF Goal
  <2>1. Goal
    BY <1>1, <1>7, <1>8, <1>9 DEF Next, LoopStep
  <2>2. QED
    BY <2>1 DEF Goal

LEMMA TreeStep == TypeInv /\ TreeInv /\ [Next]_vars => TreeInv'
<1> SUFFICES ASSUME TypeInv, TreeInv, [Next]_vars PROVE TreeInv'
  OBVIOUS
<1>1. CASE UNCHANGED <<nodes, count>>
  BY <1>1 DEF TreeInv, NoParentLoop, NodesAreReached, OneNodePerRef
<1>2. CASE DeadPool
  BY <1>2, TreeEmpty DEF DeadPool
<1>3. ASSUME NEW r \in Ref, NEW h \in Nat, StartPool(r, h) PROVE TreeInv'
  <2>1. nodes'[1] = FreshNode(r, h) /\ count' = 1
    BY <1>3, TypeOKParts, StartPoolType DEF TypeInv
  <2>2. QED
    BY <2>1, TreeStart
<1>4. QED
  BY <1>1, <1>2, <1>3, PoolSteps, TreeFollowNew, TreeFollowBetter

LEMMA TreeInit == Init => TreeInv
<1> SUFFICES ASSUME Init PROVE TreeInv
  OBVIOUS
<1>1. 1..count = {}
  BY DEF Init
<1>2. QED
  BY <1>1 DEF TreeInv, NoParentLoop, NodesAreReached, OneNodePerRef

LEMMA TreeInductive == Spec => [](TypeInv /\ TreeInv)
BY TypeInit, TypeStep, TreeInit, TreeStep, PTL DEF Spec

\* From every node in use, pidx leads to the first node, in fewer steps than
\* there are places in the pool and without meeting a node twice.
EndsAtFirst(i, len) ==
  /\ len # 0
  /\ WalkIsOver(Chain(i), MaxNodes, 0, 1..count, len)
  /\ Chain(i)[len-1] = 1

LEMMA ChainEnds ==
  ASSUME TypeInv, TreeInv, NEW i \in 1..count
  PROVE  \E len : EndsAtFirst(i, len)
<1> DEFINE par == [j \in 1..count |-> nodes[j].pidx]
<1>1. /\ nodes \in [1..MaxNodes -> Node] /\ count \in 0..MaxNodes /\ MaxNodes \in Nat
      /\ count \in Nat
  BY TypeOKParts, BoundsAssumption DEF TypeInv, PoolTypes
<1>2. i \in 0..MaxNodes
  BY <1>1
<1>3. /\ Chain(i)[0] = i
      /\ \A k \in 1..MaxNodes :
           Chain(i)[k] = IF Chain(i)[k-1] = 0 THEN 0 ELSE nodes[Chain(i)[k-1]].pidx
      /\ Chain(i) \in [0..MaxNodes -> 0..MaxNodes]
  BY <1>1, <1>2, ChainSteps
<1>4. \A j \in 1..count : nodes[j].pidx \in 0..count
  BY <1>1, ParentsInUse DEF TreeInv
<1>5. par \in [1..count -> (1..count) \cup {0}]
  BY <1>1, <1>4
<1>6. \A k \in 0..MaxNodes : Chain(i)[k] \in 0..count
  <2> DEFINE T == {k \in 0..MaxNodes : Chain(i)[k] \notin 0..count}
  <2>1. ASSUME T # {} PROVE FALSE
    <3>1. T \in SUBSET Nat
      BY <1>1
    <3>2. PICK k \in T : \A m \in T : k <= m
      <4> HIDE DEF T
      <4>1. QED
        BY <2>1, <3>1, LeastNumber
    <3>3. k # 0 /\ k \in 0..MaxNodes
      <4>1. Chain(i)[0] \in 0..count
        BY <1>1, <1>3
      <4>2. QED
        BY <3>2, <4>1
    <3>4. k \in 1..MaxNodes /\ k - 1 \in 0..MaxNodes /\ ~(k <= k - 1)
      BY <1>1, <3>3
    <3>5. Chain(i)[k-1] \in 0..count
      BY <3>2, <3>4
    <3>6. Chain(i)[k] \in 0..count
      <4>1. CASE Chain(i)[k-1] = 0
        <5>1. Chain(i)[k] = 0
          BY <1>3, <3>4, <4>1
        <5>2. QED
          BY <1>1, <5>1
      <4>2. CASE Chain(i)[k-1] # 0
        <5>1. Chain(i)[k-1] \in 1..count
          BY <1>1, <3>5, <4>2
        <5>2. Chain(i)[k] = nodes[Chain(i)[k-1]].pidx
          BY <1>3, <3>4, <4>2
        <5>3. QED
          BY <1>4, <5>1, <5>2
      <4>3. QED
        BY <4>1, <4>2
    <3>7. QED
      BY <3>2, <3>6
  <2>2. QED
    BY <2>1
<1>7. \A k \in 1..MaxNodes : Chain(i)[k] = IF Chain(i)[k-1] = 0 THEN 0 ELSE par[Chain(i)[k-1]]
  <2> SUFFICES ASSUME NEW k \in 1..MaxNodes
               PROVE  Chain(i)[k] = IF Chain(i)[k-1] = 0 THEN 0 ELSE par[Chain(i)[k-1]]
    OBVIOUS
  <2>1. k - 1 \in 0..MaxNodes
    BY <1>1
  <2>2. Chain(i)[k-1] \in 0..count
    BY <1>6, <2>1
  <2>3. CASE Chain(i)[k-1] = 0
    BY <1>3, <2>3
  <2>4. CASE Chain(i)[k-1] # 0
    <3>1. Chain(i)[k-1] \in 1..count
      BY <1>1, <2>2, <2>4
    <3>2. par[Chain(i)[k-1]] = nodes[Chain(i)[k-1]].pidx
      BY <3>1
    <3>3. QED
      BY <1>3, <2>4, <3>2
  <2>5. QED
    BY <2>3, <2>4
<1>8. \A S \in SUBSET (1..count) : S # {} => \E j \in S : par[j] \notin S
  <2> SUFFICES ASSUME NEW S \in SUBSET (1..count), S # {} PROVE \E j \in S : par[j] \notin S
    OBVIOUS
  <2>1. PICK j \in S : nodes[j].pidx \notin S
    BY DEF TreeInv, NoParentLoop
  <2>2. par[j] = nodes[j].pidx
    BY <2>1
  <2>3. QED
    BY <2>1, <2>2
<1>9. \A j \in 1..count : par[j] = 0 <=> j = 1
  BY DEF TreeInv, NodesAreReached
<1> HIDE DEF par
<1>10. IsFiniteSet(1..count) /\ Cardinality(1..count) <= MaxNodes /\ 0 \notin 1..count
  BY <1>1, CountTo
<1> DEFINE c == Chain(i)
<1>11. /\ c[0] = i /\ c[0] \in (1..count) \cup {0}
       /\ \A k \in 1..MaxNodes : c[k] = IF c[k-1] = 0 THEN 0 ELSE par[c[k-1]]
  BY <1>3, <1>7
<1> HIDE DEF c
<1>12. PICK len : WalkIsOver(c, MaxNodes, 0, 1..count, len)
  BY <1>1, <1>5, <1>8, <1>10, <1>11, WalkEnds
<1>13. /\ len \in 0..MaxNodes
       /\ \A k \in 0..MaxNodes : c[k] # 0 <=> k < len
       /\ \A k \in 0..(len-1) : c[k] \in 1..count
  BY <1>12 DEF WalkIsOver
<1>14. len # 0
  <2>1. 0 \in 0..MaxNodes /\ c[0] # 0
    BY <1>1, <1>11
  <2>2. QED
    BY <1>13, <2>1
<1>15. c[len-1] = 1
  <2>1. len \in 1..MaxNodes /\ len - 1 \in 0..(len-1) /\ len \in 0..MaxNodes
    BY <1>1, <1>13, <1>14
  <2>2. c[len] = 0 /\ c[len-1] \in 1..count
    BY <1>13, <2>1
  <2>3. par[c[len-1]] = 0
    BY <1>11, <2>1, <2>2
  <2>4. QED
    BY <1>9, <2>2, <2>3
<1>16. QED
  BY <1>12, <1>14, <1>15 DEF c, EndsAtFirst

\* The parents of the nodes in use form a tree under the first node, whatever
\* is re-opened, given a new parent or abandoned.
THEOREM SlicedParentsFormATree == Spec => []ParentsFormATree
<1>1. TypeInv /\ TreeInv => ParentsFormATree
  <2> SUFFICES ASSUME TypeInv, TreeInv, NEW i \in 1..count
               PROVE  /\ Chain(i)[MaxNodes] = 0
                      /\ nodes[i].pidx = 0 <=> i = 1
                      /\ i # 1 => /\ nodes[i].pidx <= count
                                  /\ nodes[nodes[i].pidx].cost <= nodes[i].cost
                      /\ NodesOf(nodes[i].ref) = {i}
    BY DEF ParentsFormATree
  <2>1. Chain(i)[MaxNodes] = 0
    <3>1. PICK len : EndsAtFirst(i, len)
      BY ChainEnds
    <3>2. len \in 0..MaxNodes /\ \A k \in 0..MaxNodes : Chain(i)[k] # 0 <=> k < len
      BY <3>1 DEF EndsAtFirst, WalkIsOver
    <3>3. MaxNodes \in 0..MaxNodes /\ ~(MaxNodes < len)
      BY <3>2, BoundsAssumption
    <3>4. QED
      BY <3>2, <3>3
  <2>2. count \in Nat
    BY TypeOKParts, BoundsAssumption DEF TypeInv, PoolTypes
  <2>3. /\ nodes[i].pidx = 0 <=> i = 1
        /\ i # 1 => /\ nodes[i].pidx \in 1..count
                    /\ nodes[nodes[i].pidx].cost <= nodes[i].cost
    BY DEF TreeInv, NodesAreReached
  <2>4. i # 1 => nodes[i].pidx <= count
    BY <2>2, <2>3
  <2>5. NodesOf(nodes[i].ref) = {i}
    BY DEF NodesOf, TreeInv, OneNodePerRef
  <2>6. QED
    BY <2>1, <2>3, <2>4, <2>5
<1>2. QED
  BY <1>1, TreeInductive, PTL
-----------------------------------------------------------------------------
(* The path that Finalize returns.                                         *)

\* While no other call uses the query, it is that of the session, and the
\* first node is that of its start.
SearchInv ==
  mapId # 0 /\ ~session.disturbed =>
    /\ query.startRef = session.startRef
    /\ loop # "wall"
    /\ query.startRef # query.endRef =>
         1 \in 1..count /\ nodes[1].ref = query.startRef /\ query.best \in 1..count

\* The session and the ends of the query stay what they were, and the nodes in
\* use keep their references.
SearchFrame ==
  /\ mapId' = mapId
  /\ session'.startRef = session.startRef
  /\ session'.disturbed = session.disturbed
  /\ query'.startRef = query.startRef
  /\ query'.endRef = query.endRef
  /\ loop' = "wall" => loop = "wall"
  /\ \A i \in 1..count : i \in 1..count' /\ nodes'[i].ref = nodes[i].ref
  /\ query'.best = query.best \/ query'.best \in 1..count'

LEMMA SearchFramed ==
  ASSUME SearchInv, SearchFrame
  PROVE  SearchInv'
BY DEF SearchInv, SearchFrame

\* What SessionGoesOn leaves of a session that is not disturbed.
LEMMA SessionKept ==
  ASSUME session \in Session, NEW gone, NEW used \in BOOLEAN, SessionGoesOn(gone, used),
         mapId # 0
  PROVE  /\ session'.startRef = session.startRef
         /\ session'.disturbed = (session.disturbed \/ used)
         /\ session'.removed = session.removed \cup gone
BY DEF SessionGoesOn, Session

\* Every step keeps to SearchFrame, begins a session, ends it or disturbs it.
LEMMA SearchSteps ==
  ASSUME TypeInv, [Next]_vars
  PROVE  \/ SearchFrame
         \/ mapId' = 0
         \/ session'.disturbed
         \/ \E gone, come : \E s, e \in Ref, h \in Nat : InitSlicedFindPath(gone, come, s, e, h)
<1> DEFINE Goal ==
         \/ SearchFrame
         \/ mapId' = 0
         \/ session'.disturbed
         \/ \E gone, come : \E s, e \in Ref, h \in Nat : InitSlicedFindPath(gone, come, s, e, h)
<1> SUFFICES Goal
  OBVIOUS
<1>0. /\ MeshTypes /\ query \in Query /\ PoolTypes /\ LoopTypes /\ session \in Session
      /\ LoopShape
  BY TypeOKParts DEF TypeInv
<1>1. CASE UNCHANGED vars
  BY <1>1 DEF vars, poolVars, loopVars, SearchFrame
<1>2. ASSUME NEW gone, SessionGoesOn(gone, FALSE),
             UNCHANGED <<mapId, query, poolVars, loopVars>>
      PROVE  Goal
  <2>1. CASE mapId = 0
    BY <1>2, <2>1
  <2>2. CASE mapId # 0
    <3>1. session'.startRef = session.startRef /\ session'.disturbed = session.disturbed
      BY <1>0, <1>2, <2>2, SessionKept DEF Session
    <3>2. QED
      BY <1>2, <3>1 DEF poolVars, loopVars, SearchFrame
  <2>3. QED
    BY <2>1, <2>2
<1>3. ASSUME NEW gone, SessionGoesOn(gone, TRUE), mapId' = mapId
      PROVE  Goal
  BY <1>0, <1>3, SessionKept
<1>4. ASSUME NEW gone \in SUBSET up, NEW come \in SUBSET (Tiles \ (up \ gone)), PathRequest(gone, come)
      PROVE  Goal
  <2>1. CASE InitFindsNothing(gone, come)
    <3>1. SessionGoesOn(gone, FALSE) /\ UNCHANGED <<mapId, query, poolVars, loopVars>>
      BY <2>1 DEF InitFindsNothing
    <3> HIDE DEF Goal
    <3>2. QED
      BY <1>2, <3>1
  <2>2. CASE CalculatePath(gone, come)
    <3>1. SessionGoesOn(gone, TRUE) /\ mapId' = mapId
      BY <2>2 DEF CalculatePath
    <3> HIDE DEF Goal
    <3>2. QED
      BY <1>3, <3>1
  <2>3. ASSUME NEW s \in RefsIn(UpAfter(gone, come), SaltAfter(gone)),
               NEW e \in RefsIn(UpAfter(gone, come), SaltAfter(gone)), NEW h \in Heuristics,
               InitSlicedFindPath(gone, come, s, e, h)
        PROVE  Goal
    <3>1. come \in SUBSET Tiles /\ CollectAndEnsure(gone, come)
      BY <2>3 DEF InitSlicedFindPath
    <3>2. SaltAfter(gone) \in [Tiles -> 1..MaxSalt]
      BY <1>0, <3>1, TilesChangeType DEF CollectAndEnsure
    <3>3. s \in Ref /\ e \in Ref /\ h \in Nat
      BY <3>2, RefsInType, CostsAssumption
    <3>4. QED
      BY <2>3, <3>3
  <2>4. QED
    BY <1>4, <2>1, <2>2, <2>3 DEF PathRequest
<1>5. CASE NothingToUpdate
  <2>1. SessionGoesOn({}, FALSE) /\ UNCHANGED <<mapId, query, poolVars, loopVars>>
    BY <1>5 DEF NothingToUpdate
  <2> HIDE DEF Goal
  <2>2. QED
    BY <1>2, <2>1
<1>6. CASE EndsLost
  BY <1>0, <1>6 DEF EndsLost, poolVars, loopVars, SearchFrame, Query
<1>7. CASE UpdateBegin
  BY <1>7 DEF UpdateBegin, poolVars, SearchFrame
<1>8. ASSUME NEW n \in PathSizes, FinalizeSlicedFindPath(n) PROVE Goal
  BY <1>8 DEF FinalizeSlicedFindPath
<1>9. ASSUME NEW t \in up, Unload(t) PROVE Goal
  <2>1. SessionGoesOn({t}, FALSE) /\ UNCHANGED <<mapId, query, poolVars, loopVars>>
    BY <1>9 DEF Unload
  <2> HIDE DEF Goal
  <2>2. QED
    BY <1>2, <2>1
<1>10. ASSUME NEW r \in RefsIn(up, salt), WallBegin(r) PROVE Goal
  <2>1. SessionGoesOn({}, TRUE) /\ mapId' = mapId
    BY <1>10 DEF WallBegin
  <2> HIDE DEF Goal
  <2>2. QED
    BY <1>3, <2>1
<1>11. ASSUME NEW i \in open, PopGoal(i) \/ PopLost(i) PROVE Goal
  <2>1. /\ UNCHANGED <<mapId, nodes, count>> /\ loop' = "none"
        /\ session'.startRef = session.startRef /\ session'.disturbed = session.disturbed
    BY <1>0, <1>11 DEF PopGoal, PopLost, Session
  <2>2. /\ query'.startRef = query.startRef /\ query'.endRef = query.endRef
        /\ query'.best = query.best \/ query'.best = i
    BY <1>0, <1>11 DEF PopGoal, PopLost, Query
  <2>3. i \in 1..count
    BY <1>0 DEF PoolTypes
  <2>4. QED
    BY <2>1, <2>2, <2>3 DEF SearchFrame
<1>12. ASSUME NEW i \in open, NEW come, Expand(i, come) \/ WallExpand(i) PROVE Goal
  BY <1>12 DEF Expand, WallExpand, SearchFrame
<1>13. CASE Expanded \/ WallEnd
  BY <1>13 DEF Expanded, WallEnd, poolVars, SearchFrame
<1>14. CASE UpdateEnd
  BY <1>0, <1>14 DEF UpdateEnd, poolVars, SearchFrame, Query, Session
<1>15. ASSUME NEW r \in left, FollowNothing(r) PROVE Goal
  BY <1>15 DEF FollowNothing, poolVars, SearchFrame
<1>16. ASSUME NEW r \in left, NEW c \in Costs, NEW h \in Heuristics, FollowNew(r, c, h) PROVE Goal
  <2>1. UNCHANGED <<mapId, loop, session>> /\ NoteBest(count + 1, h)
    BY <1>16 DEF FollowNew
  <2>2. /\ count \in 0..MaxNodes /\ count' = count + 1 /\ \A i \in 1..count : nodes'[i] = nodes[i]
    BY <1>16, FollowNewNodes
  <2>3. count \in Nat /\ count + 1 \in 1..count' /\ \A i \in 1..count : i \in 1..count'
    BY <2>2, BoundsAssumption
  <2>4. /\ query'.startRef = query.startRef /\ query'.endRef = query.endRef
        /\ query'.best = query.best \/ query'.best = count + 1
    BY <1>0, <2>1 DEF NoteBest, Query
  <2>5. QED
    BY <2>1, <2>2, <2>3, <2>4 DEF SearchFrame
<1>17. ASSUME NEW r \in left, NEW c \in Costs, FollowBetter(r, c) PROVE Goal
  <2>1. UNCHANGED <<mapId, count, loop, session>>
    BY <1>17 DEF FollowBetter
  <2>2. PICK k \in 1..count :
          /\ nodes[k].ref = r /\ nodes'[k].ref = r
          /\ \A i \in (1..count) \ {k} : nodes'[i] = nodes[i]
          /\ NoteBest(k, nodes[k].h)
    BY <1>17, FollowBetterNodes
  <2>3. \A i \in 1..count : nodes'[i].ref = nodes[i].ref
    BY <2>2
  <2>4. /\ query'.startRef = query.startRef /\ query'.endRef = query.endRef
        /\ query'.best = query.best \/ query'.best = k
    BY <1>0, <2>2 DEF NoteBest, Query
  <2>5. QED
    BY <2>1, <2>2, <2>3, <2>4 DEF SearchFrame
<1>18. QED
  <2> HIDE DEF Goal
  <2>1. HostCall => Goal
    BY <1>4, <1>5, <1>6, <1>7, <1>8, <1>9, <1>10 DEF HostCall
  <2>2. LoopStep => Goal
    BY <1>11, <1>12, <1>13, <1>14, <1>15, <1>16, <1>17 DEF LoopStep, Pop, Follow
  <2>3. QED
    BY <1>1, <2>1, <2>2 DEF Next

LEMMA SearchStep == TypeInv /\ SearchInv /\ [Next]_vars => SearchInv'
<1> SUFFICES ASSUME TypeInv, SearchInv, [Next]_vars PROVE SearchInv'
  OBVIOUS
<1>1. ASSUME NEW gone, NEW come, NEW s \in Ref, NEW e \in Ref, NEW h \in Nat,
             InitSlicedFindPath(gone, come, s, e, h)
      PROVE  SearchInv'
  <2>1. /\ query'.startRef = s /\ query'.endRef = e /\ session'.startRef = s
        /\ s # e => query'.best = 1 /\ StartPool(s, h)
        /\ loop' = "none"
    BY <1>1 DEF InitSlicedFindPath, Begun, Idle, loopVars
  <2>2. s # e => count' = 1 /\ nodes'[1].ref = s
    <3>1. PoolTypes
      BY TypeOKParts DEF TypeInv
    <3>2. StartPool(s, h) => count' = 1 /\ nodes'[1] = FreshNode(s, h)
      BY <3>1, StartPoolType
    <3>3. QED
      BY <2>1, <3>2 DEF FreshNode
  <2>3. s # e => 1 \in 1..count' /\ query'.best \in 1..count'
    BY <2>1, <2>2
  <2>4. QED
    BY <2>1, <2>2, <2>3 DEF SearchInv
<1>2. CASE SearchFrame
  BY <1>2, SearchFramed
<1>3. CASE mapId' = 0 \/ session'.disturbed
  BY <1>3 DEF SearchInv
<1>4. QED
  BY <1>1, <1>2, <1>3, SearchSteps

\* p is a path of n polygons from s, made of the references of the search.
RefsInUse == {query.startRef} \cup {nodes[i].ref : i \in 1..count}

IsPathFrom(p, n, s) ==
  /\ n \in Nat \ {0}
  /\ p \in [1..n -> RefsInUse]
  /\ p[1] = s
  /\ \A k \in 2..n : <<p[k-1].poly, p[k].poly>> \in Links
  /\ \A k, m \in 1..n : p[k] = p[m] => k = m

LEMMA PathToNode ==
  ASSUME TypeInv, TreeInv, NEW i \in 1..count
  PROVE  \E n : IsPathFrom(PathTo(i), n, nodes[1].ref)
<1>1. PICK len : EndsAtFirst(i, len)
  BY ChainEnds
<1> DEFINE c == Chain(i)
<1>2. MaxNodes \in Nat /\ len \in 1..MaxNodes /\ len \in Nat \ {0}
  BY <1>1, BoundsAssumption DEF EndsAtFirst, WalkIsOver
<1>3. /\ \A k \in 0..MaxNodes : c[k] # 0 <=> k < len
      /\ \A k \in 0..(len-1) : c[k] \in 1..count
      /\ c[len-1] = 1
      /\ \A k, m \in 0..(len-1) : c[k] = c[m] => k = m
  BY <1>1 DEF EndsAtFirst, WalkIsOver
<1>4. \A k \in 1..(len-1) : c[k] = nodes[c[k-1]].pidx
  <2> SUFFICES ASSUME NEW k \in 1..(len-1) PROVE c[k] = nodes[c[k-1]].pidx
    OBVIOUS
  <2>1. k \in 1..MaxNodes /\ k - 1 \in 0..MaxNodes /\ k - 1 < len
    BY <1>2
  <2>2. nodes \in [1..MaxNodes -> Node] /\ i \in 0..MaxNodes
    BY TypeOKParts, BoundsAssumption DEF TypeInv, PoolTypes
  <2>3. c[k] = IF c[k-1] = 0 THEN 0 ELSE nodes[c[k-1]].pidx
    BY <2>1, <2>2, ChainSteps
  <2>4. c[k-1] # 0
    BY <1>3, <2>1
  <2>5. QED
    BY <2>3, <2>4
<1>5. Cardinality({k \in 0..MaxNodes : c[k] # 0}) = len
  <2>1. {k \in 0..MaxNodes : c[k] # 0} = 0..(len-1)
    <3>1. \A k : k \in 0..(len-1) <=> k \in 0..MaxNodes /\ k < len
      BY <1>2
    <3>2. \A k : k \in {m \in 0..MaxNodes : c[m] # 0} <=> k \in 0..(len-1)
      <4> HIDE DEF c
      <4>1. QED
        BY <1>3, <3>1
    <3>3. QED
      BY <3>2
  <2>2. QED
    BY <1>2, <2>1, CountTo
<1> DEFINE p == [k \in 1..len |-> nodes[c[len-k]].ref]
<1>6. PathTo(i) = p
  BY <1>5 DEF PathTo
<1> HIDE DEF c
<1>7. \A k \in 1..len : len - k \in 0..(len-1) /\ c[len-k] \in 1..count
  BY <1>2, <1>3
<1>8. p \in [1..len -> RefsInUse]
  BY <1>7 DEF RefsInUse
<1>9. p[1] = nodes[1].ref
  BY <1>2, <1>3
<1>10. ASSUME NEW k \in 2..len PROVE <<p[k-1].poly, p[k].poly>> \in Links
  <2>1. /\ k \in 1..len /\ k - 1 \in 1..len /\ len - (k-1) \in 1..(len-1)
        /\ (len - (k-1)) - 1 = len - k
    BY <1>2
  <2>2. c[len - (k-1)] = nodes[c[len-k]].pidx
    BY <1>4, <2>1
  <2>3. c[len-k] \in 1..count /\ c[len - (k-1)] \in 1..count
    BY <1>7, <2>1
  <2>4. c[len-k] # 1
    <3>1. nodes[c[len-k]].pidx # 0
      BY <2>2, <2>3
    <3>2. QED
      BY <2>3, <3>1 DEF TreeInv, NodesAreReached
  <2>5. <<nodes[nodes[c[len-k]].pidx].ref.poly, nodes[c[len-k]].ref.poly>> \in Links
    BY <2>3, <2>4 DEF TreeInv, NodesAreReached
  <2>6. p[k-1] = nodes[c[len - (k-1)]].ref /\ p[k] = nodes[c[len-k]].ref
    BY <2>1
  <2>7. QED
    BY <2>2, <2>5, <2>6
<1>11. ASSUME NEW k \in 1..len, NEW m \in 1..len, p[k] = p[m] PROVE k = m
  <2>1. c[len-k] = c[len-m]
    <3>1. nodes[c[len-k]].ref = nodes[c[len-m]].ref
      BY <1>11
    <3>2. QED
      BY <1>7, <3>1 DEF TreeInv, OneNodePerRef
  <2>2. len - k = len - m
    BY <1>3, <1>7, <2>1
  <2>3. QED
    BY <1>2, <2>2
<1>12. IsPathFrom(p, len, nodes[1].ref)
  <2> HIDE DEF p
  <2>1. QED
    BY <1>2, <1>8, <1>9, <1>10, <1>11 DEF IsPathFrom
<1>13. QED
  BY <1>6, <1>12

LEMMA PathIsCut ==
  ASSUME NEW p, NEW n, NEW s, IsPathFrom(p, n, s), NEW size \in Nat \ {0}
  PROVE  \E m : IsPathFrom([k \in 1..(IF n < size THEN n ELSE size) |-> p[k]], m, s)
<1> DEFINE m == IF n < size THEN n ELSE size
<1> DEFINE q == [k \in 1..m |-> p[k]]
<1>1. n \in Nat \ {0} /\ p \in [1..n -> RefsInUse]
  BY DEF IsPathFrom
<1>2. m \in Nat \ {0} /\ m <= n
  BY <1>1
<1> HIDE DEF m
<1>3. \A k \in 1..m : k \in 1..n /\ q[k] = p[k]
  BY <1>1, <1>2
<1>4. q \in [1..m -> RefsInUse]
  BY <1>1, <1>3
<1>5. \A k \in 2..m : k \in 2..n /\ k - 1 \in 1..m /\ k \in 1..m
  BY <1>1, <1>2
<1>6. 1 \in 1..m
  BY <1>2
<1> HIDE DEF q
<1>7. q[1] = s
  BY <1>3, <1>6 DEF IsPathFrom
<1>8. \A k \in 2..m : <<q[k-1].poly, q[k].poly>> \in Links
  BY <1>3, <1>5 DEF IsPathFrom
<1>9. \A k, j \in 1..m : q[k] = q[j] => k = j
  BY <1>3 DEF IsPathFrom
<1>10. IsPathFrom(q, m, s)
  BY <1>2, <1>4, <1>7, <1>8, <1>9 DEF IsPathFrom
<1>11. QED
  BY <1>10 DEF q, m

\* FoundPath is a path of the session's search.
LEMMA FoundPathIs ==
  ASSUME TypeInv, TreeInv, SearchInv, mapId # 0, ~session.disturbed,
         NEW size \in Nat \ {0}
  PROVE  \E n : IsPathFrom(FoundPath(size), n, session.startRef)
<1> DEFINE whole == IF query.startRef = query.endRef THEN <<query.startRef>> ELSE PathTo(query.best)
<1>1. FoundPath(size) =
        [k \in 1..(IF Cardinality(DOMAIN whole) < size THEN Cardinality(DOMAIN whole) ELSE size)
           |-> whole[k]]
  BY DEF FoundPath
<1>2. \E n : IsPathFrom(whole, n, session.startRef)
  <2>1. CASE query.startRef = query.endRef
    <3>1. <<query.startRef>> \in [1..1 -> RefsInUse]
      BY DEF RefsInUse
    <3>2. IsPathFrom(<<query.startRef>>, 1, session.startRef)
      <4>1. session.startRef = query.startRef
        BY DEF SearchInv
      <4>2. \A k \in 1..1 : k = 1
        OBVIOUS
      <4>3. 2..1 = {}
        OBVIOUS
      <4>4. QED
        BY <3>1, <4>1, <4>2, <4>3 DEF IsPathFrom
    <3>3. QED
      BY <2>1, <3>2
  <2>2. CASE query.startRef # query.endRef
    <3>1. query.best \in 1..count /\ nodes[1].ref = session.startRef
      BY <2>2 DEF SearchInv
    <3>2. whole = PathTo(query.best)
      BY <2>2
    <3> HIDE DEF whole
    <3>3. QED
      BY <3>1, <3>2, PathToNode
  <2>3. QED
    BY <2>1, <2>2
<1> HIDE DEF whole
<1>3. PICK n : IsPathFrom(whole, n, session.startRef)
  BY <1>2
<1>4. Cardinality(DOMAIN whole) = n
  BY <1>3, CountTo DEF IsPathFrom
<1>5. FoundPath(size) = [k \in 1..(IF n < size THEN n ELSE size) |-> whole[k]]
  BY <1>1, <1>4
<1>6. \E m : IsPathFrom([k \in 1..(IF n < size THEN n ELSE size) |-> whole[k]], m, session.startRef)
  BY <1>3, PathIsCut
<1>7. QED
  BY <1>5, <1>6

\* FinalizeSlicedFindPath returns nothing or such a path.
LEMMA FinalizePath ==
  ASSUME TypeInv, TreeInv, SearchInv, NEW n \in PathSizes, FinalizeSlicedFindPath(n)
  PROVE  /\ UNCHANGED <<meshVars, session>>
         /\ out'.path # <<>> /\ ~session.disturbed =>
              mapId # 0 /\ \E m : IsPathFrom(out'.path, m, session.startRef)
<1>1. /\ UNCHANGED <<meshVars, session>>
      /\ out'.path = IF mapId = 0 \/ n = 0 \/ query.status = "failure" THEN <<>> ELSE FoundPath(n)
  BY DEF FinalizeSlicedFindPath
<1>2. CASE mapId = 0 \/ n = 0 \/ query.status = "failure"
  BY <1>1, <1>2
<1>3. CASE ~(mapId = 0 \/ n = 0 \/ query.status = "failure")
  <2>1. n \in Nat \ {0} /\ out'.path = FoundPath(n) /\ mapId # 0
    BY <1>1, <1>3, BoundsAssumption
  <2>2. ~session.disturbed => \E m : IsPathFrom(FoundPath(n), m, session.startRef)
    BY <2>1, FoundPathIs
  <2>3. QED
    BY <1>1, <2>1, <2>2
<1>4. QED
  BY <1>2, <1>3

\* What a call returned stays while the session does.
LEMMA OutSteps ==
  ASSUME TypeInv, [Next]_vars
  PROVE  \/ out' = out /\ session' = session
         \/ out'.op # "finalize"
         \/ \E n \in PathSizes : FinalizeSlicedFindPath(n)
<1> DEFINE Goal ==
         \/ out' = out /\ session' = session
         \/ out'.op # "finalize"
         \/ \E n \in PathSizes : FinalizeSlicedFindPath(n)
<1> SUFFICES Goal
  OBVIOUS
<1>1. CASE UNCHANGED vars
  BY <1>1 DEF vars
<1>2. ASSUME NEW gone, NEW come, PathRequest(gone, come) PROVE Goal
  <2>1. InitFindsNothing(gone, come) => out'.op = "init"
    BY DEF InitFindsNothing, Returned
  <2>2. CalculatePath(gone, come) => out'.op = "calculate"
    BY DEF CalculatePath, Returned
  <2>3. \A s, e, h : InitSlicedFindPath(gone, come, s, e, h) => out'.op = "init"
    BY DEF InitSlicedFindPath, Returned
  <2>4. QED
    BY <1>2, <2>1, <2>2, <2>3 DEF PathRequest
<1>3. CASE NothingToUpdate \/ EndsLost \/ UpdateBegin
  <2>1. NothingToUpdate => out'.op = "update"
    BY DEF NothingToUpdate, Returned
  <2>2. EndsLost => out'.op = "update"
    BY DEF EndsLost, UpdateReturns, Returned
  <2>3. UpdateBegin => out' = out /\ session' = session
    BY DEF UpdateBegin
  <2>4. QED
    BY <1>3, <2>1, <2>2, <2>3
<1>4. ASSUME NEW t, Unload(t) PROVE Goal
  BY <1>4 DEF Unload, Returned
<1>5. ASSUME NEW r, WallBegin(r) PROVE Goal
  BY <1>5 DEF WallBegin, Returned
<1>6. ASSUME NEW i, PopGoal(i) \/ PopLost(i) PROVE Goal
  BY <1>6 DEF PopGoal, PopLost, UpdateReturns, Returned
<1>7. ASSUME NEW i, NEW come, Expand(i, come) \/ WallExpand(i) PROVE Goal
  BY <1>7 DEF Expand, WallExpand
<1>8. CASE Follow
  BY <1>8 DEF Follow, FollowNothing, FollowNew, FollowBetter
<1>9. CASE Expanded \/ WallEnd
  BY <1>9 DEF Expanded, WallEnd
<1>10. CASE UpdateEnd
  BY <1>10 DEF UpdateEnd, UpdateReturns, Returned
<1>11. QED
  <2> HIDE DEF Goal
  <2>1. ASSUME NEW n \in PathSizes, FinalizeSlicedFindPath(n) PROVE Goal
    BY <2>1 DEF Goal
  <2>2. HostCall => Goal
    BY <1>2, <1>3, <1>4, <1>5, <2>1 DEF HostCall
  <2>3. LoopStep => Goal
    BY <1>6, <1>7, <1>8, <1>9, <1>10 DEF LoopStep, Pop
  <2>4. QED
    BY <1>1, <2>2, <2>3 DEF Next

LEMMA PathStep ==
  TypeInv /\ TreeInv /\ SearchInv /\ PathIsOfTheSearch /\ [Next]_vars => PathIsOfTheSearch'
<1> SUFFICES ASSUME TypeInv, TreeInv, SearchInv, PathIsOfTheSearch, [Next]_vars
             PROVE  PathIsOfTheSearch'
  OBVIOUS
<1>1. CASE out' = out /\ session' = session
  BY <1>1 DEF PathIsOfTheSearch
<1>2. CASE out'.op # "finalize"
  BY <1>2 DEF PathIsOfTheSearch
<1>3. ASSUME NEW n \in PathSizes, FinalizeSlicedFindPath(n) PROVE PathIsOfTheSearch'
  <2> SUFFICES ASSUME out'.path # <<>>, ~session'.disturbed
               PROVE  /\ out'.path[1] = session'.startRef
                      /\ \A k \in DOMAIN out'.path \ {1} :
                           <<out'.path[k-1].poly, out'.path[k].poly>> \in Links
                      /\ \A k, m \in DOMAIN out'.path : out'.path[k] = out'.path[m] => k = m
    BY DEF PathIsOfTheSearch
  <2>1. session' = session
    BY <1>3, FinalizePath
  <2>2. PICK m : IsPathFrom(out'.path, m, session.startRef)
    BY <1>3, <2>1, FinalizePath
  <2>3. m \in Nat \ {0} /\ DOMAIN out'.path = 1..m
    BY <2>2 DEF IsPathFrom
  <2>4. \A k \in DOMAIN out'.path \ {1} : k \in 2..m
    BY <2>3
  <2>5. QED
    BY <2>1, <2>2, <2>3, <2>4 DEF IsPathFrom
<1>4. QED
  BY <1>1, <1>2, <1>3, OutSteps

LEMMA PathInit == Init => SearchInv /\ PathIsOfTheSearch
BY DEF Init, SearchInv, PathIsOfTheSearch, Returned

LEMMA SearchInductive == Spec => [](TypeInv /\ TreeInv /\ SearchInv /\ PathIsOfTheSearch)
BY TypeInit, TypeStep, TreeInit, TreeStep, PathInit, SearchStep, PathStep, PTL DEF Spec

\* Finalize returns a path of the search that was begun, along links and
\* without a polygon twice, unless another call used the query meanwhile.
THEOREM SlicedPathIsOfTheSearch == Spec => []PathIsOfTheSearch
BY SearchInductive, PTL

-----------------------------------------------------------------------------
(* The ends of the path are in the mesh while no tile is removed.          *)

\* References to polygons of tiles in the mesh.
Live == {r \in Ref : Valid(r)}

LEMMA LiveGrows ==
  ASSUME up \subseteq up', salt' = salt
  PROVE  Live \subseteq Live'
BY DEF Live, Valid

LEMMA RefsInLive ==
  ASSUME MeshTypes
  PROVE  RefsIn(up, salt) \subseteq Live
<1> SUFFICES ASSUME NEW r \in RefsIn(up, salt) PROVE r \in Live
  OBVIOUS
<1>1. PICK p \in Polys : TileOf[p] \in up /\ r = [poly |-> p, salt |-> salt[TileOf[p]]]
  BY DEF RefsIn
<1>2. r \in Ref
  BY RefsInType DEF MeshTypes
<1>3. r.poly = p /\ r.salt = salt[TileOf[p]] /\ r.salt # 0
  BY <1>1, <1>2, BoundsAssumption DEF Ref
<1>4. r # NoRef
  BY <1>3 DEF NoRef
<1>5. QED
  BY <1>1, <1>2, <1>3, <1>4 DEF Live, Valid

LEMMA RefsInLiveNext ==
  ASSUME MeshTypes'
  PROVE  RefsIn(up', salt') \subseteq Live'
<1> SUFFICES ASSUME NEW r \in RefsIn(up', salt') PROVE r \in Live'
  OBVIOUS
<1>1. PICK p \in Polys : TileOf[p] \in up' /\ r = [poly |-> p, salt |-> salt'[TileOf[p]]]
  BY DEF RefsIn
<1>2. r \in Ref
  BY RefsInType DEF MeshTypes
<1>3. r.poly = p /\ r.salt = salt'[TileOf[p]] /\ r.salt # 0
  BY <1>1, <1>2, BoundsAssumption DEF Ref
<1>4. r # NoRef
  BY <1>3 DEF NoRef
<1>5. QED
  BY <1>1, <1>2, <1>3, <1>4 DEF Live, Valid

\* Where tiles only come, the mesh grows.
LEMMA NoTileGoes ==
  ASSUME MeshTypes, NEW come, TilesChange({}, come)
  PROVE  up \subseteq up' /\ salt' = salt /\ SaltAfter({}) = salt
<1>1. SaltAfter({}) = salt
  BY DEF SaltAfter, MeshTypes
<1>2. QED
  BY <1>1 DEF TilesChange, UpAfter

\* The links left to follow lead into the mesh: no tile goes while a node is
\* being expanded.
LeftLive == cur # 0 => left \subseteq Live

LEMMA LeftStep ==
  TypeInv /\ LeftLive /\ [Next]_vars => LeftLive'
<1> SUFFICES ASSUME TypeInv, LeftLive, [Next]_vars PROVE LeftLive'
  OBVIOUS
<1>0. MeshTypes /\ LoopShape
  BY TypeOKParts DEF TypeInv
<1>1. CASE UNCHANGED vars
  BY <1>1 DEF vars, meshVars, loopVars, LeftLive, Live, Valid
<1>2. CASE HostCall
  <2>1. Idle /\ cur' = cur
    <3>1. ASSUME NEW gone, NEW come, PathRequest(gone, come) PROVE Idle /\ cur' = cur
      <4>1. InitFindsNothing(gone, come) \/ CalculatePath(gone, come) => Idle /\ cur' = cur
        BY DEF InitFindsNothing, CalculatePath, loopVars
      <4>2. \A s, e, h : InitSlicedFindPath(gone, come, s, e, h) => Idle /\ cur' = cur
        BY DEF InitSlicedFindPath, loopVars
      <4>3. QED
        BY <3>1, <4>1, <4>2 DEF PathRequest
    <3>2. NothingToUpdate \/ EndsLost \/ UpdateBegin => Idle /\ cur' = cur
      BY DEF NothingToUpdate, EndsLost, UpdateBegin, loopVars
    <3>3. \A n, t, r : FinalizeSlicedFindPath(n) \/ Unload(t) \/ WallBegin(r) => Idle /\ cur' = cur
      BY DEF FinalizeSlicedFindPath, Unload, WallBegin, loopVars
    <3>4. QED
      BY <1>2, <3>1, <3>2, <3>3 DEF HostCall
  <2>2. QED
    BY <1>0, <2>1 DEF LeftLive, LoopShape, Idle
<1>3. ASSUME NEW i \in open, PopGoal(i) \/ PopLost(i) PROVE LeftLive'
  BY <1>3 DEF PopGoal, PopLost, Popping, LeftLive
<1>4. ASSUME NEW i \in open, NEW come \in SUBSET (Tiles \ up), Expand(i, come) PROVE LeftLive'
  <2>1. TilesChange({}, come) /\ left' = LinksOf(i, UpAfter({}, come))
    BY <1>4 DEF Expand
  <2>2. MeshTypes' /\ up' = UpAfter({}, come) /\ salt' = salt
    BY <1>0, <2>1, TilesChangeType, NoTileGoes
  <2>3. left' \subseteq RefsIn(up', salt')
    BY <2>1, <2>2 DEF LinksOf
  <2>4. QED
    BY <2>2, <2>3, RefsInLiveNext DEF LeftLive
<1>5. ASSUME NEW i \in open, WallExpand(i) PROVE LeftLive'
  <2>1. left' \subseteq RefsIn(up, salt) /\ up' = up /\ salt' = salt
    BY <1>5 DEF WallExpand, LinksOf, meshVars
  <2>2. MeshTypes'
    BY <1>0, <2>1 DEF MeshTypes
  <2>3. QED
    BY <2>1, <2>2, RefsInLiveNext DEF LeftLive
<1>6. CASE Follow
  <2>1. /\ \E r \in left : left' = left \ {r}
        /\ UNCHANGED <<meshVars, cur>>
    BY <1>6 DEF Follow, FollowNothing, FollowNew, FollowBetter
  <2>2. left' \subseteq left /\ Live \subseteq Live'
    BY <2>1, LiveGrows DEF meshVars
  <2>3. QED
    BY <2>1, <2>2 DEF LeftLive
<1>7. CASE Expanded \/ UpdateEnd \/ WallEnd
  BY <1>7 DEF Expanded, UpdateEnd, WallEnd, LeftLive
<1>8. QED
  BY <1>1, <1>2, <1>3, <1>4, <1>5, <1>6, <1>7 DEF Next, LoopStep, Pop

\* Undisturbed and without tiles lost, the start and the nodes are in the mesh.
FreshInv ==
  mapId # 0 /\ ~session.disturbed /\ session.removed = {} =>
    query.startRef \in Live /\ \A i \in 1..count : nodes[i].ref \in Live

\* A session that has lost no tile after a step had lost none before, and the
\* references of the nodes are those there were or one of the links to follow.
FreshFrame ==
  /\ mapId' = mapId
  /\ session'.disturbed = session.disturbed
  /\ session'.removed = {} => session.removed = {} /\ up \subseteq up' /\ salt' = salt
  /\ query'.startRef = query.startRef
  /\ \A i \in 1..count' :
       \/ \E j \in 1..count : nodes'[i].ref = nodes[j].ref
       \/ cur # 0 /\ nodes'[i].ref \in left

LEMMA FreshFramed ==
  ASSUME LeftLive, FreshInv, FreshFrame
  PROVE  FreshInv'
<1> SUFFICES ASSUME mapId' # 0, ~session'.disturbed, session'.removed = {}
             PROVE  query'.startRef \in Live' /\ \A i \in 1..count' : nodes'[i].ref \in Live'
  BY DEF FreshInv
<1>1. mapId # 0 /\ ~session.disturbed /\ session.removed = {} /\ Live \subseteq Live'
  BY LiveGrows DEF FreshFrame
<1>2. query.startRef \in Live /\ \A i \in 1..count : nodes[i].ref \in Live
  BY <1>1 DEF FreshInv
<1>3. query'.startRef \in Live'
  BY <1>1, <1>2 DEF FreshFrame
<1>4. ASSUME NEW i \in 1..count' PROVE nodes'[i].ref \in Live'
  <2>1. CASE \E j \in 1..count : nodes'[i].ref = nodes[j].ref
    BY <1>1, <1>2, <2>1
  <2>2. CASE cur # 0 /\ nodes'[i].ref \in left
    BY <1>1, <2>2 DEF LeftLive
  <2>3. QED
    BY <2>1, <2>2 DEF FreshFrame
<1>5. QED
  BY <1>3, <1>4

LEMMA FreshSteps ==
  ASSUME TypeInv, [Next]_vars
  PROVE  \/ FreshFrame
         \/ mapId' = 0
         \/ session'.disturbed
         \/ \E gone, come : \E s, e \in RefsIn(up', salt'), h \in Nat :
              MeshTypes' /\ InitSlicedFindPath(gone, come, s, e, h)
<1> DEFINE Goal ==
         \/ FreshFrame
         \/ mapId' = 0
         \/ session'.disturbed
         \/ \E gone, come : \E s, e \in RefsIn(up', salt'), h \in Nat :
              MeshTypes' /\ InitSlicedFindPath(gone, come, s, e, h)
<1> SUFFICES Goal
  OBVIOUS
<1>0. /\ MeshTypes /\ query \in Query /\ PoolTypes /\ LoopTypes /\ session \in Session
      /\ LoopShape
  BY TypeOKParts DEF TypeInv
<1>1. CASE UNCHANGED vars
  BY <1>1 DEF vars, meshVars, poolVars, loopVars, FreshFrame
<1>2. ASSUME NEW gone, NEW come, SessionGoesOn(gone, FALSE), TilesChange(gone, come) \/ UNCHANGED meshVars,
             UNCHANGED <<mapId, query, poolVars, loopVars>>
      PROVE  Goal
  <2>1. CASE mapId = 0
    BY <1>2, <2>1
  <2>2. CASE mapId # 0
    <3>1. /\ session'.disturbed = session.disturbed
          /\ session'.removed = session.removed \cup gone
      BY <1>0, <1>2, <2>2, SessionKept DEF Session
    <3>2. ASSUME session'.removed = {}
          PROVE  session.removed = {} /\ up \subseteq up' /\ salt' = salt
      <4>1. session.removed = {} /\ gone = {}
        BY <3>1, <3>2
      <4>2. CASE TilesChange(gone, come)
        BY <1>0, <4>1, <4>2, NoTileGoes
      <4>3. CASE UNCHANGED meshVars
        BY <4>1, <4>3 DEF meshVars
      <4>4. QED
        BY <1>2, <4>2, <4>3
    <3>3. QED
      BY <1>2, <3>1, <3>2 DEF poolVars, loopVars, FreshFrame
  <2>3. QED
    BY <2>1, <2>2
<1>3. ASSUME NEW gone, SessionGoesOn(gone, TRUE), mapId' = mapId
      PROVE  Goal
  BY <1>0, <1>3, SessionKept
<1>4. ASSUME NEW gone \in SUBSET up, NEW come \in SUBSET (Tiles \ (up \ gone)), PathRequest(gone, come)
      PROVE  Goal
  <2>1. CASE InitFindsNothing(gone, come)
    <3>1. /\ SessionGoesOn(gone, FALSE) /\ UNCHANGED <<mapId, query, poolVars, loopVars>>
          /\ TilesChange(gone, come)
      BY <2>1 DEF InitFindsNothing, CollectAndEnsure
    <3> HIDE DEF Goal
    <3>2. QED
      BY <1>2, <3>1
  <2>2. CASE CalculatePath(gone, come)
    <3>1. SessionGoesOn(gone, TRUE) /\ mapId' = mapId
      BY <2>2 DEF CalculatePath
    <3> HIDE DEF Goal
    <3>2. QED
      BY <1>3, <3>1
  <2>3. ASSUME NEW s \in RefsIn(UpAfter(gone, come), SaltAfter(gone)),
               NEW e \in RefsIn(UpAfter(gone, come), SaltAfter(gone)), NEW h \in Heuristics,
               InitSlicedFindPath(gone, come, s, e, h)
        PROVE  Goal
    <3>1. come \in SUBSET Tiles /\ TilesChange(gone, come)
      BY <2>3 DEF InitSlicedFindPath, CollectAndEnsure
    <3>2. MeshTypes' /\ up' = UpAfter(gone, come) /\ salt' = SaltAfter(gone)
      BY <1>0, <3>1, TilesChangeType
    <3>3. s \in RefsIn(up', salt') /\ e \in RefsIn(up', salt') /\ h \in Nat
      BY <3>2, CostsAssumption
    <3>4. QED
      BY <2>3, <3>2, <3>3
  <2>4. QED
    BY <1>4, <2>1, <2>2, <2>3 DEF PathRequest
<1>5. CASE NothingToUpdate
  <2>1. SessionGoesOn({}, FALSE) /\ UNCHANGED <<mapId, query, poolVars, loopVars>> /\ UNCHANGED meshVars
    BY <1>5 DEF NothingToUpdate
  <2> HIDE DEF Goal
  <2>2. QED
    BY <1>2, <2>1
<1>6. CASE EndsLost
  BY <1>0, <1>6 DEF EndsLost, meshVars, poolVars, loopVars, FreshFrame, Query
<1>7. CASE UpdateBegin
  BY <1>7 DEF UpdateBegin, meshVars, poolVars, FreshFrame
<1>8. ASSUME NEW n \in PathSizes, FinalizeSlicedFindPath(n) PROVE Goal
  BY <1>8 DEF FinalizeSlicedFindPath
<1>9. ASSUME NEW t \in up, Unload(t) PROVE Goal
  <2>1. SessionGoesOn({t}, FALSE) /\ UNCHANGED <<mapId, query, poolVars, loopVars>> /\ TilesChange({t}, {})
    BY <1>9 DEF Unload
  <2> HIDE DEF Goal
  <2>2. QED
    BY <1>2, <2>1
<1>10. ASSUME NEW r \in RefsIn(up, salt), WallBegin(r) PROVE Goal
  <2>1. SessionGoesOn({}, TRUE) /\ mapId' = mapId
    BY <1>10 DEF WallBegin
  <2> HIDE DEF Goal
  <2>2. QED
    BY <1>3, <2>1
<1>11. ASSUME NEW i \in open, PopGoal(i) \/ PopLost(i) PROVE Goal
  <2>1. /\ UNCHANGED <<meshVars, mapId, nodes, count>>
        /\ session'.removed = session.removed /\ session'.disturbed = session.disturbed
    BY <1>0, <1>11 DEF PopGoal, PopLost, Session
  <2>2. query'.startRef = query.startRef
    BY <1>0, <1>11 DEF PopGoal, PopLost, Query
  <2>3. QED
    BY <2>1, <2>2 DEF meshVars, FreshFrame
<1>12. ASSUME NEW i \in open, NEW come, Expand(i, come) \/ WallExpand(i) PROVE Goal
  <2>1. UNCHANGED <<mapId, query, nodes, count, session>>
    BY <1>12 DEF Expand, WallExpand
  <2>2. up \subseteq up' /\ salt' = salt
    <3>1. CASE Expand(i, come)
      BY <1>0, <3>1, NoTileGoes DEF Expand
    <3>2. CASE WallExpand(i)
      BY <3>2 DEF WallExpand, meshVars
    <3>3. QED
      BY <1>12, <3>1, <3>2
  <2>3. QED
    BY <2>1, <2>2 DEF FreshFrame
<1>13. CASE Expanded \/ WallEnd
  BY <1>13 DEF Expanded, WallEnd, meshVars, poolVars, FreshFrame
<1>14. CASE UpdateEnd
  BY <1>0, <1>14 DEF UpdateEnd, meshVars, poolVars, FreshFrame, Query, Session
<1>15. ASSUME NEW r \in left, FollowNothing(r) PROVE Goal
  BY <1>15 DEF FollowNothing, meshVars, poolVars, FreshFrame
<1>16. ASSUME NEW r \in left, NEW c \in Costs, NEW h \in Heuristics, FollowNew(r, c, h) PROVE Goal
  <2>1. UNCHANGED <<meshVars, mapId, session>> /\ NoteBest(count + 1, h) /\ cur # 0
    BY <1>16 DEF FollowNew
  <2>2. /\ count \in 0..MaxNodes /\ count' = count + 1 /\ \A i \in 1..count : nodes'[i] = nodes[i]
        /\ nodes'[count + 1] = [ref |-> r, pidx |-> cur, cost |-> nodes[cur].cost + c, h |-> h]
    BY <1>16, FollowNewNodes
  <2>3. nodes'[count + 1].ref = r
    BY <2>2
  <2>4. \A i \in 1..count' : i \in 1..count \/ i = count + 1
    BY <2>2, BoundsAssumption
  <2>5. query'.startRef = query.startRef
    BY <1>0, <2>1 DEF NoteBest, Query
  <2>6. QED
    BY <2>1, <2>2, <2>3, <2>4, <2>5 DEF meshVars, FreshFrame
<1>17. ASSUME NEW r \in left, NEW c \in Costs, FollowBetter(r, c) PROVE Goal
  <2>1. UNCHANGED <<meshVars, mapId, count, session>>
    BY <1>17 DEF FollowBetter
  <2>2. PICK k \in 1..count :
          /\ nodes[k].ref = r /\ nodes'[k].ref = r
          /\ \A i \in (1..count) \ {k} : nodes'[i] = nodes[i]
          /\ NoteBest(k, nodes[k].h)
    BY <1>17, FollowBetterNodes
  <2>3. \A i \in 1..count : nodes'[i].ref = nodes[i].ref
    BY <2>2
  <2>4. query'.startRef = query.startRef
    BY <1>0, <2>2 DEF NoteBest, Query
  <2>5. QED
    BY <2>1, <2>3, <2>4 DEF meshVars, FreshFrame
<1>18. QED
  <2> HIDE DEF Goal
  <2>1. HostCall => Goal
    BY <1>4, <1>5, <1>6, <1>7, <1>8, <1>9, <1>10 DEF HostCall
  <2>2. LoopStep => Goal
    BY <1>11, <1>12, <1>13, <1>14, <1>15, <1>16, <1>17 DEF LoopStep, Pop, Follow
  <2>3. QED
    BY <1>1, <2>1, <2>2 DEF Next

LEMMA FreshStep == TypeInv /\ LeftLive /\ FreshInv /\ [Next]_vars => FreshInv'
<1> SUFFICES ASSUME TypeInv, LeftLive, FreshInv, [Next]_vars PROVE FreshInv'
  OBVIOUS
<1>1. ASSUME NEW gone, NEW come, NEW s \in RefsIn(up', salt'), NEW e \in RefsIn(up', salt'),
             NEW h \in Nat, MeshTypes', InitSlicedFindPath(gone, come, s, e, h)
      PROVE  FreshInv'
  <2>1. s \in Live' /\ s \in Ref
    BY <1>1, RefsInLiveNext, RefsInType DEF MeshTypes
  <2>2. query'.startRef = s /\ (DeadPool \/ StartPool(s, h))
    BY <1>1 DEF InitSlicedFindPath
  <2>3. CASE DeadPool
    <3>1. 1..count' = {}
      BY <2>3 DEF DeadPool
    <3>2. QED
      BY <2>1, <2>2, <3>1 DEF FreshInv
  <2>4. CASE StartPool(s, h)
    <3>1. count' = 1 /\ nodes'[1] = FreshNode(s, h)
      BY <2>1, <2>4, TypeOKParts, StartPoolType DEF TypeInv
    <3>2. \A i \in 1..count' : nodes'[i].ref = s
      BY <3>1 DEF FreshNode
    <3>3. QED
      BY <2>1, <2>2, <3>2 DEF FreshInv
  <2>5. QED
    BY <2>2, <2>3, <2>4
<1>2. CASE FreshFrame
  BY <1>2, FreshFramed
<1>3. CASE mapId' = 0 \/ session'.disturbed
  BY <1>3 DEF FreshInv
<1>4. QED
  BY <1>1, <1>2, <1>3, FreshSteps

\* The mesh does not lose a tile while what Finalize returned stays.
LEMMA OutKeepsMesh ==
  ASSUME TypeInv, [Next]_vars, out' = out, out.op = "finalize",
         ~\E n \in PathSizes : FinalizeSlicedFindPath(n)
  PROVE  Live \subseteq Live'
<1>0. MeshTypes
  BY TypeOKParts DEF TypeInv
<1>1. CASE UNCHANGED vars
  BY <1>1, LiveGrows DEF vars, meshVars
<1>2. CASE UNCHANGED meshVars
  BY <1>2, LiveGrows DEF meshVars
<1>3. ASSUME NEW gone, NEW come, PathRequest(gone, come) PROVE FALSE
  <2>1. InitFindsNothing(gone, come) => out'.op = "init"
    BY DEF InitFindsNothing, Returned
  <2>2. CalculatePath(gone, come) => out'.op = "calculate"
    BY DEF CalculatePath, Returned
  <2>3. \A s, e, h : InitSlicedFindPath(gone, come, s, e, h) => out'.op = "init"
    BY DEF InitSlicedFindPath, Returned
  <2>4. QED
    BY <1>3, <2>1, <2>2, <2>3 DEF PathRequest
<1>4. ASSUME NEW t, Unload(t) PROVE FALSE
  BY <1>4 DEF Unload, Returned
<1>5. NothingToUpdate \/ EndsLost \/ UpdateBegin => UNCHANGED meshVars
  BY DEF NothingToUpdate, EndsLost, UpdateBegin
<1>6. \A r : WallBegin(r) => UNCHANGED meshVars
  BY DEF WallBegin
<1>7. \A i : PopGoal(i) \/ PopLost(i) \/ WallExpand(i) => UNCHANGED meshVars
  BY DEF PopGoal, PopLost, WallExpand
<1>8. ASSUME NEW i, NEW come, Expand(i, come) PROVE Live \subseteq Live'
  BY <1>0, <1>8, NoTileGoes, LiveGrows DEF Expand
<1>9. Follow => UNCHANGED meshVars
  BY DEF Follow, FollowNothing, FollowNew, FollowBetter
<1>10. Expanded \/ UpdateEnd \/ WallEnd => UNCHANGED meshVars
  BY DEF Expanded, UpdateEnd, WallEnd
<1>11. HostCall => Live \subseteq Live'
  BY <1>2, <1>3, <1>4, <1>5, <1>6 DEF HostCall
<1>12. LoopStep => Live \subseteq Live'
  BY <1>2, <1>7, <1>8, <1>9, <1>10 DEF LoopStep, Pop
<1>13. QED
  BY <1>1, <1>11, <1>12 DEF Next

\* What WaypointsAreSet is about is in the mesh, as a set of references.
EndsLive ==
  out.op = "finalize" /\ out.path # <<>> /\ ~session.disturbed /\ session.removed = {} =>
    out.path[1] \in Live /\ out.path[Cardinality(DOMAIN out.path)] \in Live

LEMMA EndsStep ==
  TypeInv /\ TreeInv /\ SearchInv /\ FreshInv /\ EndsLive /\ [Next]_vars => EndsLive'
<1> SUFFICES ASSUME TypeInv, TreeInv, SearchInv, FreshInv, EndsLive, [Next]_vars
             PROVE  EndsLive'
  OBVIOUS
<1>1. ASSUME NEW n \in PathSizes, FinalizeSlicedFindPath(n) PROVE EndsLive'
  <2> SUFFICES ASSUME out'.path # <<>>, ~session'.disturbed, session'.removed = {}
               PROVE  out'.path[1] \in Live' /\ out'.path[Cardinality(DOMAIN out'.path)] \in Live'
    BY DEF EndsLive
  <2>1. UNCHANGED <<meshVars, session>>
    BY <1>1, FinalizePath
  <2>2. PICK m : IsPathFrom(out'.path, m, session.startRef)
    BY <1>1, <2>1, FinalizePath
  <2>3. m \in Nat \ {0} /\ out'.path \in [1..m -> RefsInUse]
    BY <2>2 DEF IsPathFrom
  <2>4. Cardinality(DOMAIN out'.path) = m /\ 1 \in 1..m /\ m \in 1..m
    BY <2>3, CountTo
  <2>5. mapId # 0
    BY <1>1, <2>1, FinalizePath
  <2>6. RefsInUse \subseteq Live
    BY <2>1, <2>5 DEF FreshInv, RefsInUse
  <2>7. Live \subseteq Live'
    BY <2>1, LiveGrows DEF meshVars
  <2>8. QED
    BY <2>3, <2>4, <2>6, <2>7
<1>2. CASE out'.op # "finalize"
  BY <1>2 DEF EndsLive
<1>3. CASE /\ out' = out /\ session' = session /\ out.op = "finalize"
           /\ ~\E n \in PathSizes : FinalizeSlicedFindPath(n)
  BY <1>3, OutKeepsMesh DEF EndsLive
<1>4. QED
  BY <1>1, <1>2, <1>3, OutSteps

LEMMA FreshInit == Init => LeftLive /\ FreshInv /\ EndsLive
BY DEF Init, LeftLive, FreshInv, EndsLive, Returned

LEMMA FreshInductive ==
  Spec => [](TypeInv /\ TreeInv /\ SearchInv /\ LeftLive /\ FreshInv /\ EndsLive)
BY TypeInit, TypeStep, TreeInit, TreeStep, PathInit, SearchStep, LeftStep, FreshStep,
   FreshInit, EndsStep, PTL DEF Spec

\* Finalize can place the first and the last waypoint of the path it returns
\* as long as no tile was removed and no other call used the query since Init.
THEOREM SlicedWaypointsAreSet == Spec => []WaypointsAreSet
<1>1. EndsLive => WaypointsAreSet
  BY DEF EndsLive, WaypointsAreSet, WaypointsOnMesh, Live
<1>2. QED
  BY <1>1, FreshInductive, PTL
=============================================================================
