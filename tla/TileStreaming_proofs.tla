------------------------ MODULE TileStreaming_proofs ------------------------
(***************************************************************************)
(* First the manager alone: MapSpec keeps its references live and apart,   *)
(* for any number of slots, ADTs and files.  Then Navigation: it uses the  *)
(* manager as MapSpec allows, so that those theorems hold of it; and the   *)
(* two tables that different classes keep of the loaded ADTs agree, for    *)
(* any grid, timeout and files.                                            *)
(***************************************************************************)
EXTENDS TileStreaming, TilePool_proofs


\* What the loop variables mean between two iterations.
JobShape ==
  /\ job = "idle" => got = {}
  /\ job = "load" => adt \notin loaded
  /\ job = "unload" => adt \in loaded /\ got \subseteq refs[adt]

\* The tiles added by the load in progress are from its file.
GotFromFile ==
  job = "load" =>
    \A r \in got : \E k \in DOMAIN disk[adt].blobs : disk[adt].blobs[k] = at[r.slot]

MapIInv ==
  /\ MapTypeOK
  /\ JobShape
  /\ LoadedHasTiles
  /\ RecordedRefsLive
  /\ RefsExclusive
  /\ UnloadNeverFails

-----------------------------------------------------------------------------
\* The state after the actions that leave the mesh, the record and the job.
LEMMA CallKeepsTypes ==
  ASSUME MapTypeOK,
         UNCHANGED <<poolVars, fileVars, loaded, refs, jobVars>>,
         ret' \in [op : {"none", "load", "unload", "offmesh"}, adt : Adts, ok : BOOLEAN],
         offKeys' \subseteq Adts,
         conns' \in [Adts -> 0..MaxConns],
         callback' \in BOOLEAN,
         depth' \in 0..MaxDepth,
         deferred' \in Seq(Adts),
         owed' \subseteq Adts
  PROVE  MapTypeOK'
BY DEF MapTypeOK, PoolTypeOK, poolVars, fileVars, jobVars

LEMMA ReturnedType ==
  ASSUME NEW kind \in {"none", "load", "unload", "offmesh"}, NEW a \in Adts, NEW ok \in BOOLEAN
  PROVE  Returned(kind, a, ok) \in [op : {"none", "load", "unload", "offmesh"}, adt : Adts, ok : BOOLEAN]
BY DEF Returned

LEMMA OffMeshType ==
  ASSUME MapTypeOK, NEW a \in Adts, LoadTileOffMeshConnections(a)
  PROVE  offKeys' \subseteq Adts /\ conns' \in [Adts -> 0..MaxConns]
BY BoundsAssumption DEF MapTypeOK, LoadTileOffMeshConnections

LEMMA RaiseType ==
  ASSUME MapTypeOK, NEW a \in Adts, RaiseTileLoaded(a)
  PROVE  /\ callback' \in BOOLEAN /\ depth' \in 0..MaxDepth
         /\ deferred' \in Seq(Adts) /\ owed' \subseteq Adts
BY DEF MapTypeOK, RaiseTileLoaded

\* Calls on batches and the callback keep their variables in their sets.
LEMMA BatchType ==
  ASSUME MapTypeOK, BatchCall
  PROVE  /\ callback' \in BOOLEAN /\ depth' \in 0..MaxDepth
         /\ deferred' \in Seq(Adts) /\ owed' \subseteq Adts
<1>1. CASE BeginTileLoadBatch
  BY <1>1, BoundsAssumption DEF MapTypeOK, BeginTileLoadBatch
<1>2. CASE EndTileLoadBatch
  BY <1>2, BoundsAssumption DEF MapTypeOK, EndTileLoadBatch
<1>3. ASSUME NEW b \in BOOLEAN, SetTileLoadedCallback(b)
      PROVE  /\ callback' \in BOOLEAN /\ depth' \in 0..MaxDepth
             /\ deferred' \in Seq(Adts) /\ owed' \subseteq Adts
  BY <1>3 DEF MapTypeOK, SetTileLoadedCallback
<1>4. QED
  BY <1>1, <1>2, <1>3 DEF BatchCall

-----------------------------------------------------------------------------
\* Two live references to one slot are the same reference.
LEMMA LiveUnique ==
  ASSUME NEW r \in Ref, NEW q \in Ref, Live(r), Live(q), r.slot = q.slot
  PROVE  r = q
BY DEF Ref, Live

\* A call that moves neither the mesh, the record nor the job.
LEMMA MapIInvFrame ==
  ASSUME MapIInv, MapTypeOK', UNCHANGED <<poolVars, loaded, refs, jobVars>>
  PROVE  MapIInv'
BY DEF MapIInv, JobShape, LoadedHasTiles, RecordedRefsLive, RefsExclusive, UnloadNeverFails,
       Held, Live, poolVars, jobVars

\* Starting a loop.
LEMMA MapIInvLoadBegin ==
  ASSUME MapIInv, NEW a \in Adts, job = "idle", LoadBegin(a)
  PROVE  MapIInv'
<1> USE DEF MapIInv, LoadBegin, poolVars, fileVars, offVars, batchVars
<1>1. MapTypeOK'
  BY DEF MapTypeOK, PoolTypeOK
<1>2. JobShape' /\ UnloadNeverFails' /\ LoadedHasTiles'
  BY DEF JobShape, UnloadNeverFails, LoadedHasTiles
<1>3. RecordedRefsLive' /\ RefsExclusive'
  BY DEF RecordedRefsLive, RefsExclusive, Held, Live
<1>4. QED
  BY <1>1, <1>2, <1>3

LEMMA MapIInvUnloadBegin ==
  ASSUME MapIInv, NEW a \in Adts, job = "idle", UnloadBegin(a)
  PROVE  MapIInv'
<1> USE DEF MapIInv, UnloadBegin, poolVars, fileVars, offVars, batchVars
<1>1. MapTypeOK'
  BY DEF MapTypeOK, PoolTypeOK
<1>2. JobShape' /\ UnloadNeverFails' /\ LoadedHasTiles'
  BY DEF JobShape, UnloadNeverFails, LoadedHasTiles, MapTypeOK
<1>3. \A b \in Adts : Held(b)' = refs[b] /\ Held(b) = refs[b]
  BY DEF Held
<1>4. RecordedRefsLive' /\ RefsExclusive'
  BY <1>3 DEF RecordedRefsLive, RefsExclusive, Live
<1>5. QED
  BY <1>1, <1>2, <1>4

\* An iteration of loadMap that adds a tile: the new reference is live, and
\* nobody else's, since its slot was empty.
LEMMA MapIInvLoadBlob ==
  ASSUME MapIInv, NEW i \in Slots, LoadBlob(i)
  PROVE  MapIInv'
<1> USE DEF MapIInv, LoadBlob, fileVars, offVars, batchVars
<1>1. /\ at' = [at EXCEPT ![i] = Blob] /\ Blob \in Locs /\ at[i] = NoLoc
      /\ UNCHANGED <<salt, stale>>
  BY DEF Add
<1>2. RefOf(i) \in Ref
  BY DEF RefOf, Ref, MapTypeOK, PoolTypeOK
<1>3. MapTypeOK'
  <2>1. PoolTypeOK'
    BY <1>1 DEF MapTypeOK, PoolTypeOK
  <2>2. got' \subseteq Ref /\ pos' \in Nat \ {0}
    BY <1>2 DEF MapTypeOK
  <2>3. QED
    BY <2>1, <2>2 DEF MapTypeOK
<1>4. JobShape' /\ UnloadNeverFails' /\ LoadedHasTiles'
  BY DEF JobShape, UnloadNeverFails, LoadedHasTiles
<1>5. \A b \in Adts : Held(b)' = refs[b] /\ Held(b) = refs[b]
  BY DEF Held
<1>6. \A r \in Ref : Live(r) => Live(r)' /\ r # RefOf(i)
  BY <1>1, NoLocAssumption DEF Live, Ref, MapTypeOK, PoolTypeOK, RefOf
<1>7. \A r \in {RefOf(i)} : Live(r)'
  BY <1>1, NoLocAssumption DEF Live, RefOf, MapTypeOK, PoolTypeOK
<1>8. \A b \in Adts : refs[b] \subseteq Ref
  BY DEF MapTypeOK
<1>9. RecordedRefsLive'
  <2>1. \A b \in Adts : \A r \in refs[b] : Live(r)'
    BY <1>5, <1>6, <1>8 DEF RecordedRefsLive
  <2>2. \A r \in got : Live(r)'
    BY <1>6 DEF RecordedRefsLive, MapTypeOK
  <2>3. \A r \in got' : Live(r)'
    BY <1>7, <2>2
  <2>4. QED
    BY <1>5, <2>1, <2>3 DEF RecordedRefsLive
<1>10. RefsExclusive'
  BY <1>5, <1>6, <1>8 DEF RefsExclusive, RecordedRefsLive
<1>11. QED
  BY <1>3, <1>4, <1>9, <1>10

\* An iteration that adds none, and the end of a load that records nothing.
LEMMA MapIInvSkipBlob ==
  ASSUME MapIInv, SkipBlob
  PROVE  MapIInv'
<1> USE DEF MapIInv, SkipBlob, poolVars, fileVars, offVars, batchVars
<1>1. MapTypeOK'
  BY DEF MapTypeOK, PoolTypeOK
<1>2. QED
  BY <1>1 DEF JobShape, LoadedHasTiles, RecordedRefsLive, RefsExclusive, UnloadNeverFails, Held, Live

LEMMA MapIInvLoadGiveUp ==
  ASSUME MapIInv, LoadGiveUp
  PROVE  MapIInv'
<1> USE DEF MapIInv, LoadGiveUp, poolVars, fileVars, offVars, batchVars
<1>1. ret' \in [op : {"none", "load", "unload", "offmesh"}, adt : Adts, ok : BOOLEAN]
  BY ReturnedType DEF MapTypeOK
<1>2. MapTypeOK'
  BY <1>1 DEF MapTypeOK, PoolTypeOK
<1>3. QED
  BY <1>2 DEF JobShape, LoadedHasTiles, RecordedRefsLive, RefsExclusive, UnloadNeverFails, Held, Live

\* The end of a load that records the ADT.
LEMMA MapIInvLoadRecord ==
  ASSUME MapIInv, LoadRecord
  PROVE  MapIInv'
<1> USE DEF MapIInv, LoadRecord, poolVars, fileVars
<1>1. adt \in Adts
  BY DEF MapTypeOK
<1>2. ret' \in [op : {"none", "load", "unload", "offmesh"}, adt : Adts, ok : BOOLEAN]
  BY <1>1, ReturnedType
<1>3. MapTypeOK'
  <2>1. PoolTypeOK' /\ disk' \in [Adts -> File] /\ offDisk' \in [Adts -> OffFile]
    BY DEF MapTypeOK, PoolTypeOK
  <2>2. loaded' \subseteq Adts /\ refs' \in [Adts -> SUBSET Ref]
    BY <1>1 DEF MapTypeOK
  <2>3. /\ job' = "idle"
        /\ adt' \in Adts
        /\ pos' \in Nat \ {0}
        /\ got' \subseteq Ref
        /\ failed' \in BOOLEAN
    BY <1>1 DEF MapTypeOK
  <2>4. offKeys' \subseteq Adts /\ conns' \in [Adts -> 0..MaxConns]
    BY <1>1, OffMeshType DEF MapTypeOK
  <2>5. callback' \in BOOLEAN /\ depth' \in 0..MaxDepth /\ deferred' \in Seq(Adts) /\ owed' \subseteq Adts
    BY <1>1, RaiseType DEF MapTypeOK
  <2>6. QED
    BY <1>2, <2>1, <2>2, <2>3, <2>4, <2>5 DEF MapTypeOK
<1>4. JobShape' /\ UnloadNeverFails' /\ LoadedHasTiles'
  BY DEF JobShape, UnloadNeverFails, LoadedHasTiles, MapTypeOK
<1>5. \A b \in Adts : Held(b) = refs[b] /\ Held(b)' = IF b = adt THEN got ELSE refs[b]
  BY DEF Held, MapTypeOK
<1>6. RecordedRefsLive'
  BY <1>5 DEF RecordedRefsLive, Live
<1>7. RefsExclusive'
  BY <1>1, <1>5 DEF RefsExclusive
<1>8. QED
  BY <1>3, <1>4, <1>6, <1>7

\* One removeTile of unloadTile: it is accepted, and every other reference held
\* is to another slot.
LEMMA MapIInvUnloadRef ==
  ASSUME MapIInv, NEW r \in got, UnloadRef(r)
  PROVE  MapIInv'
<1> USE DEF MapIInv, UnloadRef, fileVars, offVars, batchVars
<1>1. r \in Ref /\ r.slot \in Slots /\ r.salt \in 1..MaxSalt
  BY DEF MapTypeOK, Ref
<1>2. salt[r.slot] = r.salt /\ Remove(r)
  BY DEF RecordedRefsLive, Live
<1>3. failed' = FALSE
  BY <1>2 DEF UnloadNeverFails, MapTypeOK
<1>4. PoolTypeOK'
  BY <1>1, <1>2, RemoveType DEF MapTypeOK
<1>5. MapTypeOK'
  BY <1>3, <1>4 DEF MapTypeOK
<1>6. JobShape' /\ UnloadNeverFails' /\ LoadedHasTiles'
  BY <1>3 DEF JobShape, UnloadNeverFails, LoadedHasTiles
<1>7. \A q \in Ref : Live(q) /\ q # r => Live(q)'
  <2> SUFFICES ASSUME NEW q \in Ref, Live(q), q # r PROVE Live(q)'
    OBVIOUS
  <2>1. q.slot # r.slot
    BY <1>1, LiveUnique DEF RecordedRefsLive
  <2>2. salt'[q.slot] = salt[q.slot] /\ at'[q.slot] = at[q.slot]
    BY <1>1, <1>2, <2>1 DEF Remove, MapTypeOK, PoolTypeOK, Ref
  <2>3. QED
    BY <2>2 DEF Live
<1>8. \A b \in Adts : Held(b)' = Held(b) \ {r}
  BY DEF Held, RefsExclusive, MapTypeOK
<1>9. \A b \in Adts : Held(b) \subseteq Ref
  BY DEF Held, MapTypeOK
<1>10. RecordedRefsLive'
  BY <1>7, <1>8, <1>9 DEF RecordedRefsLive, MapTypeOK
<1>11. RefsExclusive'
  BY <1>8 DEF RefsExclusive
<1>12. QED
  BY <1>5, <1>6, <1>10, <1>11

LEMMA MapIInvUnloadErase ==
  ASSUME MapIInv, UnloadErase
  PROVE  MapIInv'
<1> USE DEF MapIInv, UnloadErase, poolVars, fileVars, offVars, batchVars
<1>1. ret' \in [op : {"none", "load", "unload", "offmesh"}, adt : Adts, ok : BOOLEAN]
  BY ReturnedType DEF MapTypeOK
<1>2. MapTypeOK'
  BY <1>1 DEF MapTypeOK, PoolTypeOK
<1>3. JobShape' /\ UnloadNeverFails' /\ LoadedHasTiles'
  BY DEF JobShape, UnloadNeverFails, LoadedHasTiles, MapTypeOK
<1>4. \A b \in Adts : Held(b)' = Held(b)
  BY DEF Held, MapTypeOK
<1>5. RecordedRefsLive' /\ RefsExclusive'
  BY <1>4 DEF RecordedRefsLive, RefsExclusive, Live
<1>6. QED
  BY <1>2, <1>3, <1>5

-----------------------------------------------------------------------------
\* The calls that leave the mesh, the record and the job keep the types.
LEMMA FrameCallTypes ==
  ASSUME MapTypeOK, NEW a \in Adts,
         LoadHit(a) \/ LoadRefuse(a) \/ UnloadMiss(a) \/ LoadTileOffMesh(a)
  PROVE  MapTypeOK' /\ UNCHANGED <<poolVars, fileVars, loaded, refs, jobVars>>
<1>1. CASE LoadHit(a) \/ LoadRefuse(a) \/ UnloadMiss(a)
  <2>1. /\ UNCHANGED <<poolVars, fileVars, loaded, refs, jobVars, offVars, batchVars>>
        /\ ret' \in [op : {"none", "load", "unload", "offmesh"}, adt : Adts, ok : BOOLEAN]
    <3>1. CASE LoadHit(a)
      BY <3>1, ReturnedType DEF LoadHit
    <3>2. CASE LoadRefuse(a)
      BY <3>2, ReturnedType DEF LoadRefuse
    <3>3. CASE UnloadMiss(a)
      BY <3>3, ReturnedType DEF UnloadMiss
    <3>4. QED
      BY <1>1, <3>1, <3>2, <3>3
  <2>2. QED
    BY <2>1, CallKeepsTypes DEF MapTypeOK, offVars, batchVars
<1>2. CASE LoadTileOffMesh(a)
  <2>1. /\ UNCHANGED <<poolVars, fileVars, loaded, refs, jobVars, batchVars>>
        /\ LoadTileOffMeshConnections(a)
    BY <1>2 DEF LoadTileOffMesh
  <2>2. ret' \in [op : {"none", "load", "unload", "offmesh"}, adt : Adts, ok : BOOLEAN]
    BY <1>2, ReturnedType DEF LoadTileOffMesh, OffMeshReadable
  <2>3. QED
    BY <2>1, <2>2, OffMeshType, CallKeepsTypes DEF MapTypeOK, batchVars
<1>3. QED
  BY <1>1, <1>2

LEMMA BatchCallTypes ==
  ASSUME MapTypeOK, BatchCall
  PROVE  MapTypeOK' /\ UNCHANGED <<poolVars, fileVars, loaded, refs, jobVars>>
<1>1. UNCHANGED <<poolVars, fileVars, loaded, refs, jobVars, ret, offVars>>
  BY DEF BatchCall
<1>2. QED
  BY <1>1, BatchType, CallKeepsTypes DEF MapTypeOK, offVars

\* The cases of a step that every invariant below is proved by.
LEMMA MapNextCases ==
  ASSUME MapTypeOK, [MapNext]_mapVars
  PROVE  \/ MapTypeOK' /\ UNCHANGED <<poolVars, fileVars, loaded, refs, jobVars>>
         \/ job = "idle" /\ \E a \in Adts : LoadBegin(a) \/ UnloadBegin(a)
         \/ \E i \in Slots : LoadBlob(i)
         \/ SkipBlob \/ LoadGiveUp \/ LoadRecord \/ UnloadErase
         \/ \E r \in got : UnloadRef(r)
<1>1. CASE JobStep
  BY <1>1 DEF JobStep
<1>2. CASE job = "idle" /\ Call
  BY <1>2, FrameCallTypes, BatchCallTypes DEF Call, LoadMap, UnloadTile
<1>3. CASE UNCHANGED mapVars
  BY <1>3 DEF mapVars, poolVars, fileVars, jobVars, offVars, batchVars, MapTypeOK, PoolTypeOK
<1>4. QED
  BY <1>1, <1>2, <1>3 DEF MapNext

LEMMA MapInitIInv == MapInit => MapIInv
<1> SUFFICES ASSUME MapInit PROVE MapIInv
  OBVIOUS
<1> USE DEF MapInit
<1>1. adt \in Adts
  BY AdtsAssumption
<1>2. PoolTypeOK
  BY MaxSaltAssumption DEF PoolInit, PoolTypeOK
<1>3. ret \in [op : {"none", "load", "unload", "offmesh"}, adt : Adts, ok : BOOLEAN]
  BY <1>1, ReturnedType
<1>4. disk \in [Adts -> File] /\ offDisk \in [Adts -> OffFile]
  BY DisksAssumption
<1>5. conns \in [Adts -> 0..MaxConns] /\ depth \in 0..MaxDepth /\ deferred \in Seq(Adts)
  BY BoundsAssumption
<1>6. /\ refs \in [Adts -> SUBSET Ref] /\ loaded \subseteq Adts /\ job = "idle" /\ pos \in Nat \ {0}
      /\ got \subseteq Ref /\ failed \in BOOLEAN /\ callback \in BOOLEAN
      /\ offKeys \subseteq Adts /\ owed \subseteq Adts
  <2>1. refs \in [Adts -> SUBSET Ref]
    BY DEF MapInit
  <2>2. pos \in Nat \ {0}
    BY DEF MapInit
  <2>3. /\ loaded \subseteq Adts /\ job = "idle" /\ got \subseteq Ref
        /\ failed \in BOOLEAN /\ callback \in BOOLEAN
        /\ offKeys \subseteq Adts /\ owed \subseteq Adts
    BY DEF MapInit
  <2>4. QED
    BY <2>1, <2>2, <2>3
<1> HIDE DEF MapInit
<1>7. MapTypeOK
  BY <1>1, <1>2, <1>3, <1>4, <1>5, <1>6 DEF MapTypeOK
<1>8. QED
  BY <1>7 DEF MapInit, MapIInv, JobShape, LoadedHasTiles, RecordedRefsLive, RefsExclusive, UnloadNeverFails, Held

LEMMA MapStepIInv == MapIInv /\ [MapNext]_mapVars => MapIInv'
<1> SUFFICES ASSUME MapIInv, [MapNext]_mapVars PROVE MapIInv'
  OBVIOUS
<1>1. MapTypeOK
  BY DEF MapIInv
<1>2. QED
  BY <1>1, MapNextCases, MapIInvFrame, MapIInvLoadBegin, MapIInvUnloadBegin, MapIInvLoadBlob,
     MapIInvSkipBlob, MapIInvLoadGiveUp, MapIInvLoadRecord, MapIInvUnloadRef, MapIInvUnloadErase

LEMMA MapInductive == MapSpec => []MapIInv
BY MapInitIInv, MapStepIInv, PTL DEF MapSpec

-----------------------------------------------------------------------------
\* Every variable of the manager keeps to its type, whatever the files hold.
THEOREM MapTypeCorrect == MapSpec => []MapTypeOK
<1>1. MapIInv => MapTypeOK
  BY DEF MapIInv
<1>2. QED
  BY <1>1, MapInductive, PTL

\* mmapLoadedTiles never holds a reference that the mesh would refuse.
THEOREM MapRecordedRefsLive == MapSpec => []RecordedRefsLive
<1>1. MapIInv => RecordedRefsLive
  BY DEF MapIInv
<1>2. QED
  BY <1>1, MapInductive, PTL

\* No tile is recorded for two ADTs.
THEOREM MapRefsExclusive == MapSpec => []RefsExclusive
<1>1. MapIInv => RefsExclusive
  BY DEF MapIInv
<1>2. QED
  BY <1>1, MapInductive, PTL

\* unloadTile never sees removeTile fail.
THEOREM MapUnloadNeverFails == MapSpec => []UnloadNeverFails
<1>1. MapIInv => UnloadNeverFails
  BY DEF MapIInv
<1>2. QED
  BY <1>1, MapInductive, PTL

\* An ADT that is recorded has a tile in the mesh, and no other ADT has a
\* reference recorded.
THEOREM MapLoadedHasTiles == MapSpec => []LoadedHasTiles
<1>1. MapIInv => LoadedHasTiles
  BY DEF MapIInv
<1>2. QED
  BY <1>1, MapInductive, PTL

\* The manager uses the mesh only as TilePool allows: its steps are additions
\* and removals of single tiles, so the theorems about the store hold of it.
THEOREM MapImplementsPool == MapSpec => PoolSpec
<1>1. MapInit => PoolInit
  BY DEF MapInit
<1>2. MapIInv /\ [MapNext]_mapVars => [PoolNext]_poolVars
  <2> SUFFICES ASSUME MapIInv, [MapNext]_mapVars PROVE [PoolNext]_poolVars
    OBVIOUS
  <2>0. MapTypeOK
    BY DEF MapIInv
  <2>1. ASSUME NEW i \in Slots, LoadBlob(i) PROVE PoolNext
    BY <2>1 DEF LoadBlob, PoolNext
  <2>2. ASSUME NEW r \in got, UnloadRef(r) PROVE PoolNext
    <3>1. r \in Ref /\ Remove(r)
      BY <2>2 DEF UnloadRef, MapIInv, RecordedRefsLive, Live, MapTypeOK
    <3>2. QED
      BY <3>1 DEF PoolNext
  <2>3. ASSUME NEW a \in Adts, LoadBegin(a) \/ UnloadBegin(a) PROVE UNCHANGED poolVars
    BY <2>3 DEF LoadBegin, UnloadBegin
  <2>4. CASE SkipBlob \/ LoadGiveUp \/ LoadRecord \/ UnloadErase
    BY <2>4 DEF SkipBlob, LoadGiveUp, LoadRecord, UnloadErase
  <2>5. QED
    BY <2>0, <2>1, <2>2, <2>3, <2>4, MapNextCases
<1>3. QED
  BY <1>1, <1>2, MapInductive, PTL DEF MapSpec, PoolSpec

\* A reference unloadTile gave back is refused by the mesh ever after, until
\* the salt has come round.
COROLLARY MapStaleRefused == MapSpec => []StaleRefused
BY MapImplementsPool, PoolStaleRefused, PTL

-----------------------------------------------------------------------------
OwnedInv == MapIInv /\ GotFromFile /\ TilesAreOwned

\* A step that leaves the mesh alone and gives nothing up.
LEMMA OwnedFrame ==
  ASSUME TilesAreOwned, GotFromFile, UNCHANGED <<poolVars, disk>>,
         \A a \in Adts : Held(a) \subseteq Held(a)',
         \A r \in got : r \in got' \/ \E a \in Adts : r \in Held(a)',
         job' = "load" => got' = {} \/ (job = "load" /\ got' = got /\ adt' = adt)
  PROVE  GotFromFile' /\ TilesAreOwned'
<1>1. \A i \in Slots : RefOf(i)' = RefOf(i)
  BY DEF RefOf, poolVars
<1>2. \A i \in Slots : LeftBehind(at[i]) => LeftBehind(at[i])'
  BY DEF LeftBehind, poolVars
<1>3. TilesAreOwned'
  BY <1>1, <1>2 DEF TilesAreOwned, poolVars
<1>4. GotFromFile'
  BY DEF GotFromFile, poolVars
<1>5. QED
  BY <1>3, <1>4

LEMMA OwnedLoadBlob ==
  ASSUME OwnedInv, NEW i \in Slots, LoadBlob(i)
  PROVE  GotFromFile' /\ TilesAreOwned'
<1> USE DEF OwnedInv, MapIInv, LoadBlob, fileVars
<1>1. /\ at' = [at EXCEPT ![i] = Blob] /\ at[i] = NoLoc /\ UNCHANGED salt
      /\ at \in [Slots -> Locs \cup {NoLoc}]
  BY DEF Add, MapTypeOK, PoolTypeOK
<1>2. \A b \in Adts : Held(b)' = Held(b)
  BY DEF Held
<1>3. \A j \in Slots : RefOf(j)' = RefOf(j)
  BY <1>1 DEF RefOf
<1>4. TilesAreOwned'
  <2> SUFFICES ASSUME NEW j \in Slots, at'[j] # NoLoc
               PROVE  \/ \E a \in Adts : RefOf(j)' \in Held(a)'
                      \/ RefOf(j)' \in got'
                      \/ LeftBehind(at[j])'
    BY DEF TilesAreOwned
  <2>1. CASE j = i
    BY <2>1, <1>3
  <2>2. CASE j # i
    <3>1. at'[j] = at[j]
      BY <1>1, <2>2
    <3>2. LeftBehind(at[j]) => LeftBehind(at[j])'
      BY <3>1 DEF LeftBehind
    <3>3. QED
      BY <1>2, <1>3, <3>1, <3>2 DEF TilesAreOwned
  <2>3. QED
    BY <2>1, <2>2
<1>5. GotFromFile'
  <2> SUFFICES ASSUME NEW r \in got'
               PROVE  \E k \in DOMAIN disk[adt].blobs : disk[adt].blobs[k] = at'[r.slot]
    BY DEF GotFromFile
  <2>1. CASE r \in got
    <3>1. r.slot # i /\ r.slot \in Slots
      BY <1>1, <2>1 DEF RecordedRefsLive, Live, MapTypeOK, Ref
    <3>2. at'[r.slot] = at[r.slot]
      BY <1>1, <3>1
    <3>3. QED
      BY <2>1, <3>2 DEF GotFromFile
  <2>2. CASE r = RefOf(i)
    <3>1. disk[adt].blobs \in Seq(Locs \cup {Empty, Bad})
      BY DEF MapTypeOK, File
    <3>2. pos \in DOMAIN disk[adt].blobs
      BY <3>1 DEF MapTypeOK, MoreBlobs
    <3>3. at'[r.slot] = disk[adt].blobs[pos]
      BY <1>1, <2>2 DEF RefOf, Blob
    <3>4. QED
      BY <3>2, <3>3
  <2>3. QED
    BY <2>1, <2>2
<1>6. QED
  BY <1>4, <1>5

LEMMA OwnedLoadGiveUp ==
  ASSUME OwnedInv, LoadGiveUp
  PROVE  GotFromFile' /\ TilesAreOwned'
<1> USE DEF OwnedInv, MapIInv, LoadGiveUp, fileVars, poolVars
<1>1. \A b \in Adts : Held(b)' = Held(b)
  BY DEF Held
<1>2. \A i \in Slots : RefOf(i)' = RefOf(i) /\ (LeftBehind(at[i]) => LeftBehind(at[i])')
  BY DEF RefOf, LeftBehind
<1>3. ASSUME NEW i \in Slots, RefOf(i) \in got PROVE LeftBehind(at[i])'
  <2>1. disk[adt].cut /\ adt \in Adts
    BY <1>3 DEF MapTypeOK
  <2>2. \E k \in DOMAIN disk[adt].blobs : disk[adt].blobs[k] = at[i]
    BY <1>3 DEF GotFromFile, RefOf
  <2>3. QED
    BY <2>1, <2>2 DEF LeftBehind
<1>4. TilesAreOwned'
  BY <1>1, <1>2, <1>3 DEF TilesAreOwned
<1>5. QED
  BY <1>4 DEF GotFromFile

LEMMA OwnedUnloadRef ==
  ASSUME OwnedInv, NEW r \in got, UnloadRef(r)
  PROVE  GotFromFile' /\ TilesAreOwned'
<1> USE DEF OwnedInv, MapIInv, UnloadRef, fileVars
<1>1. Remove(r) /\ r \in Ref /\ r.slot \in Slots
  BY DEF RecordedRefsLive, Live, MapTypeOK, Ref
<1>2. \A a \in Adts : Held(a)' = Held(a) \ {r}
  BY DEF Held, RefsExclusive, MapTypeOK
<1>3. TilesAreOwned'
  <2> SUFFICES ASSUME NEW j \in Slots, at'[j] # NoLoc
               PROVE  \/ \E a \in Adts : RefOf(j)' \in Held(a)'
                      \/ RefOf(j)' \in got'
                      \/ LeftBehind(at[j])'
    BY DEF TilesAreOwned
  <2>1. j # r.slot /\ at'[j] = at[j] /\ salt'[j] = salt[j]
    BY <1>1 DEF Remove, MapTypeOK, PoolTypeOK
  <2>2. RefOf(j)' = RefOf(j) /\ RefOf(j) # r
    BY <2>1 DEF RefOf
  <2>3. LeftBehind(at[j]) => LeftBehind(at[j])'
    BY <2>1 DEF LeftBehind
  <2>4. QED
    BY <1>2, <2>1, <2>2, <2>3 DEF TilesAreOwned
<1>4. QED
  BY <1>3 DEF GotFromFile

LEMMA MapOwned == MapSpec => []OwnedInv
<1>1. MapInit => OwnedInv
  BY MapInitIInv DEF MapInit, PoolInit, OwnedInv, GotFromFile, TilesAreOwned
<1>2. OwnedInv /\ [MapNext]_mapVars => OwnedInv'
  <2> SUFFICES ASSUME OwnedInv, [MapNext]_mapVars PROVE GotFromFile' /\ TilesAreOwned'
    BY MapStepIInv DEF OwnedInv
  <2> USE DEF OwnedInv, MapIInv
  <2>1. CASE UNCHANGED <<poolVars, fileVars, loaded, refs, jobVars>>
    BY <2>1, OwnedFrame DEF fileVars, jobVars, Held
  <2>2. ASSUME NEW a \in Adts, job = "idle", LoadBegin(a)
        PROVE  GotFromFile' /\ TilesAreOwned'
    <3>1. got = {} /\ \A b \in Adts : Held(b)' = Held(b)
      BY <2>2 DEF JobShape, LoadBegin, Held
    <3>2. QED
      BY <2>2, <3>1, OwnedFrame DEF LoadBegin, fileVars
  <2>3. ASSUME NEW a \in Adts, job = "idle", UnloadBegin(a)
        PROVE  GotFromFile' /\ TilesAreOwned'
    <3>1. got = {} /\ \A b \in Adts : Held(b)' = Held(b)
      BY <2>3 DEF JobShape, UnloadBegin, Held
    <3>2. QED
      BY <2>3, <3>1, OwnedFrame DEF UnloadBegin, fileVars
  <2>4. CASE SkipBlob
    BY <2>4, OwnedFrame DEF SkipBlob, fileVars, Held
  <2>5. CASE LoadRecord
    <3>1. \A b \in Adts : Held(b) = refs[b] /\ Held(b)' = IF b = adt THEN got ELSE refs[b]
      BY <2>5 DEF LoadRecord, Held, MapTypeOK
    <3>2. refs[adt] = {} /\ adt \in Adts
      BY <2>5 DEF LoadRecord, JobShape, LoadedHasTiles, MapTypeOK
    <3>3. QED
      BY <2>5, <3>1, <3>2, OwnedFrame DEF LoadRecord, fileVars
  <2>6. CASE UnloadErase
    <3>1. \A b \in Adts : Held(b)' = Held(b)
      BY <2>6 DEF UnloadErase, Held, MapTypeOK
    <3>2. QED
      BY <2>6, <3>1, OwnedFrame DEF UnloadErase, fileVars
  <2>7. QED
    BY <2>1, <2>2, <2>3, <2>4, <2>5, <2>6, MapNextCases, OwnedLoadBlob, OwnedLoadGiveUp, OwnedUnloadRef
<1>3. QED
  BY <1>1, <1>2, PTL DEF MapSpec

\* Every tile in the mesh can be found, and removed, through the ADT it was
\* loaded for, unless its file was cut short.
THEOREM MapTilesAreOwned == MapSpec => []TilesAreOwned
<1>1. OwnedInv => TilesAreOwned
  BY DEF OwnedInv
<1>2. QED
  BY <1>1, MapOwned, PTL

\* What an ADT holds is from its own file.
HeldFromFile ==
  \A a \in Adts : \A r \in Held(a) : \E k \in DOMAIN disk[a].blobs : disk[a].blobs[k] = at[r.slot]

LEMMA HeldFromFileStep == OwnedInv /\ HeldFromFile /\ [MapNext]_mapVars => HeldFromFile'
<1> SUFFICES ASSUME OwnedInv, HeldFromFile, [MapNext]_mapVars PROVE HeldFromFile'
  OBVIOUS
<1> USE DEF OwnedInv, MapIInv
<1>1. ASSUME UNCHANGED <<at, disk>>, \A a \in Adts : Held(a)' \subseteq Held(a) PROVE HeldFromFile'
  BY <1>1 DEF HeldFromFile
<1>2. CASE UNCHANGED <<poolVars, fileVars, loaded, refs, jobVars>>
  BY <1>1, <1>2 DEF poolVars, fileVars, jobVars, Held
<1>3. ASSUME NEW a \in Adts, job = "idle", LoadBegin(a) \/ UnloadBegin(a) PROVE HeldFromFile'
  BY <1>1, <1>3 DEF LoadBegin, UnloadBegin, poolVars, fileVars, Held
<1>4. ASSUME NEW i \in Slots, LoadBlob(i) PROVE HeldFromFile'
  <2>1. /\ at' = [at EXCEPT ![i] = Blob] /\ at[i] = NoLoc /\ disk' = disk
        /\ at \in [Slots -> Locs \cup {NoLoc}]
    BY <1>4 DEF LoadBlob, Add, fileVars, MapTypeOK, PoolTypeOK
  <2>2. \A b \in Adts : Held(b)' = Held(b) /\ Held(b) = refs[b]
    BY <1>4 DEF Held, LoadBlob
  <2>3. \A b \in Adts : \A r \in Held(b) : at'[r.slot] = at[r.slot]
    BY <2>1, <2>2 DEF RecordedRefsLive, Live, MapTypeOK, Ref
  <2>4. QED
    BY <2>1, <2>2, <2>3 DEF HeldFromFile
<1>5. CASE SkipBlob \/ LoadGiveUp
  BY <1>1, <1>5 DEF SkipBlob, LoadGiveUp, poolVars, fileVars, Held
<1>6. CASE LoadRecord
  <2>1. \A b \in Adts : Held(b) = refs[b] /\ Held(b)' = IF b = adt THEN got ELSE refs[b]
    BY <1>6 DEF LoadRecord, Held, MapTypeOK
  <2>2. UNCHANGED <<at, disk>> /\ job = "load"
    BY <1>6 DEF LoadRecord, poolVars, fileVars
  <2>3. QED
    BY <2>1, <2>2 DEF HeldFromFile, GotFromFile
<1>7. CASE UnloadErase
  BY <1>1, <1>7 DEF UnloadErase, poolVars, fileVars, Held, MapTypeOK
<1>8. ASSUME NEW r \in got, UnloadRef(r) PROVE HeldFromFile'
  <2>1. Remove(r) /\ r \in Ref /\ disk' = disk
    BY <1>8 DEF UnloadRef, RecordedRefsLive, Live, MapTypeOK, fileVars
  <2>2. \A b \in Adts : Held(b)' = Held(b) \ {r} /\ Held(b) \subseteq Ref
    BY <1>8 DEF UnloadRef, Held, RefsExclusive, MapTypeOK
  <2>3. \A b \in Adts : \A q \in Held(b)' : at'[q.slot] = at[q.slot]
    <3> SUFFICES ASSUME NEW b \in Adts, NEW q \in Held(b)' PROVE at'[q.slot] = at[q.slot]
      OBVIOUS
    <3>1. q \in Ref /\ Live(q) /\ Live(r) /\ q # r
      BY <2>1, <2>2 DEF RecordedRefsLive, Remove
    <3>2. q.slot # r.slot /\ q.slot \in Slots /\ r.slot \in Slots
      BY <2>1, <3>1, LiveUnique DEF Ref
    <3>3. QED
      BY <2>1, <3>2 DEF Remove, MapTypeOK, PoolTypeOK
  <2>4. QED
    BY <2>1, <2>2, <2>3 DEF HeldFromFile
<1>9. QED
  BY <1>2, <1>3, <1>4, <1>5, <1>6, <1>7, <1>8, MapNextCases

LEMMA MapHeldFromFile == MapSpec => [](OwnedInv /\ HeldFromFile)
<1>1. MapInit => HeldFromFile
  BY DEF MapInit, HeldFromFile, Held
<1>2. QED
  BY <1>1, HeldFromFileStep, MapOwned, PTL DEF MapSpec

-----------------------------------------------------------------------------
\* Every load the host is still to be told of waits in the queue, and the
\* queue is empty outside a batch.
Queued == {deferred[k] : k \in DOMAIN deferred}

UntoldInv ==
  /\ owed \subseteq Queued
  /\ depth = 0 => deferred = <<>>

\* An entry added at the end of the queue leaves the others where they were.
LEMMA QueuedAppend ==
  ASSUME deferred \in Seq(Adts), NEW a \in Adts, deferred' = Append(deferred, a)
  PROVE  Queued \cup {a} \subseteq Queued'
<1>1. /\ Len(deferred') = Len(deferred) + 1 /\ deferred' \in Seq(Adts) /\ Len(deferred) \in Nat
      /\ DOMAIN deferred = 1..Len(deferred) /\ DOMAIN deferred' = 1..Len(deferred')
  OBVIOUS
<1>2. \A k \in 1..Len(deferred) : deferred'[k] = deferred[k]
  OBVIOUS
<1>3. deferred'[Len(deferred) + 1] = a
  OBVIOUS
<1>4. \A k \in DOMAIN deferred : k \in DOMAIN deferred' /\ deferred'[k] = deferred[k]
  BY <1>1, <1>2
<1>5. Len(deferred) + 1 \in DOMAIN deferred'
  BY <1>1
<1>6. QED
  BY <1>3, <1>4, <1>5 DEF Queued

LEMMA UntoldRaise ==
  ASSUME MapTypeOK, UntoldInv, NEW a \in Adts, RaiseTileLoaded(a)
  PROVE  UntoldInv'
<1>1. deferred \in Seq(Adts) /\ depth \in Nat
  BY BoundsAssumption DEF MapTypeOK
<1>2. CASE callback /\ depth > 0
  <2>1. deferred' = Append(deferred, a) /\ owed' = owed \cup {a} /\ depth' = depth
    BY <1>2 DEF RaiseTileLoaded
  <2>2. Queued \cup {a} \subseteq Queued'
    BY <1>1, <2>1, QueuedAppend
  <2>3. depth' # 0
    BY <1>1, <1>2, <2>1
  <2>4. QED
    BY <2>1, <2>2, <2>3 DEF UntoldInv
<1>3. CASE ~(callback /\ depth > 0)
  BY <1>3 DEF RaiseTileLoaded, UntoldInv, Queued
<1>4. QED
  BY <1>2, <1>3

LEMMA UntoldBatch ==
  ASSUME MapTypeOK, UntoldInv, BatchCall
  PROVE  UntoldInv'
<1>1. depth \in Nat
  BY BoundsAssumption DEF MapTypeOK
<1>2. CASE BeginTileLoadBatch
  BY <1>1, <1>2 DEF BeginTileLoadBatch, UntoldInv, Queued
<1>3. CASE EndTileLoadBatch
  <2>1. CASE depth' > 0
    BY <1>1, <1>3, <2>1 DEF EndTileLoadBatch, UntoldInv, Queued
  <2>2. CASE ~(depth' > 0)
    <3>1. deferred' = <<>> /\ owed' = owed \ Queued
      BY <1>3, <2>2 DEF EndTileLoadBatch, Queued
    <3>2. owed' = {}
      BY <3>1 DEF UntoldInv
    <3>3. QED
      BY <3>1, <3>2 DEF UntoldInv
  <2>3. QED
    BY <2>1, <2>2
<1>4. ASSUME NEW b \in BOOLEAN, SetTileLoadedCallback(b) PROVE UntoldInv'
  BY <1>4 DEF SetTileLoadedCallback, UntoldInv, Queued
<1>5. QED
  BY <1>2, <1>3, <1>4 DEF BatchCall

LEMMA UntoldStep == MapTypeOK /\ UntoldInv /\ [MapNext]_mapVars => UntoldInv'
<1> SUFFICES ASSUME MapTypeOK, UntoldInv, [MapNext]_mapVars PROVE UntoldInv'
  OBVIOUS
<1>1. CASE UNCHANGED batchVars
  BY <1>1 DEF batchVars, UntoldInv, Queued
<1>2. CASE LoadRecord
  BY <1>2, UntoldRaise DEF LoadRecord, MapTypeOK
<1>3. CASE BatchCall
  BY <1>3, UntoldBatch
<1>4. UNCHANGED batchVars \/ LoadRecord \/ BatchCall
  BY DEF MapNext, JobStep, Call, LoadMap, UnloadTile, LoadBlob, SkipBlob, LoadGiveUp, UnloadRef,
         UnloadErase, LoadHit, LoadRefuse, LoadBegin, UnloadMiss, UnloadBegin, LoadTileOffMesh,
         mapVars
<1>5. QED
  BY <1>1, <1>2, <1>3, <1>4

\* A batch delays the callback of a load and never loses it: once the
\* outermost batch has ended, nothing is left that the host was not told of.
THEOREM MapNothingLeftUntold == MapSpec => []NothingLeftUntold
<1>1. MapInit => UntoldInv
  BY DEF MapInit, UntoldInv
<1>2. UntoldInv => NothingLeftUntold
  BY DEF UntoldInv, NothingLeftUntold, Queued
<1>3. QED
  BY <1>1, <1>2, UntoldStep, MapTypeCorrect, PTL DEF MapSpec

-----------------------------------------------------------------------------
(* Navigation                                                              *)

\* ADT a was used within the timeout.
Fresh(a) == a \in tracked /\ age[a] <= Timeout

\* loadMap has just returned a to LoadTileForDetour.
Stamping(a) == phase = "stamp" /\ Ready /\ ret.adt = a /\ ret.ok

\* Which loop a phase can be in, and the access time that EnsureTiles has set
\* before the load began.
PhaseShape ==
  /\ phase = "search" => Ready /\ op \in {"path", "update"}
  /\ phase = "stamp" => job # "unload" /\ op \in {"path", "update"}
  /\ phase \in {"gc", "none"} => job # "load"
  /\ phase = "ensure" => job # "unload"
  /\ phase = "ensure" /\ job = "load" => Fresh(adt)

\* CollectedBeforeLoading, with what holds while a tile is loaded.
StaysFresh ==
  phase \in {"ensure", "search", "stamp"} /\ op \in {"path", "sliced"} =>
    \A a \in loaded : Fresh(a) \/ Stamping(a)

StreamIInv ==
  /\ StreamTypeOK
  /\ PhaseShape
  /\ LoadedIsTracked
  /\ StaysFresh

-----------------------------------------------------------------------------
\* Every step of Navigation is a step of the manager or leaves it alone.
LEMMA StreamStepIsMapStep == [StreamNext]_allVars => [MapNext]_mapVars
<1> SUFFICES ASSUME StreamNext PROVE [MapNext]_mapVars
  BY DEF allVars
<1>1. CASE ~Ready /\ JobStep
  BY <1>1 DEF Ready, MapNext
<1>2. ASSUME Ready, HostCall PROVE [MapNext]_mapVars
  <2>1. ASSUME NEW a \in Adts, HostUnload(a) PROVE MapNext
    BY <1>2, <2>1 DEF HostUnload, Ready, MapNext, Call
  <2>2. ASSUME NEW b \in BOOLEAN, HostCallback(b) PROVE MapNext
    <3>1. BatchCall
      BY <2>2 DEF HostCallback, BatchCall
    <3>2. QED
      BY <1>2, <3>1 DEF Ready, MapNext, Call
  <2>3. QED
    BY <1>2, <2>1, <2>2 DEF HostCall, StartPath, StartEnsure, StartUpdate, Tick
<1>3. ASSUME Ready, PhaseStep PROVE [MapNext]_mapVars
  <2>1. ASSUME NEW a \in Adts, GcUnload(a) \/ EnsureTile(a) \/ SearchLoad(a) PROVE MapNext
    BY <1>3, <2>1 DEF GcUnload, EnsureTile, SearchLoad, Ready, MapNext, Call
  <2>2. CASE EnsureDone
    BY <1>3, <2>2 DEF EnsureDone, Ready, MapNext, Call, BatchCall
  <2>3. CASE SearchDone
    BY <1>3, <2>3 DEF SearchDone, Ready, MapNext, Call, BatchCall
  <2>4. QED
    BY <1>3, <2>1, <2>2, <2>3 DEF PhaseStep, GcDone, SearchTouch, SearchStamp
<1>4. QED
  BY <1>1, <1>2, <1>3 DEF StreamNext

\* What Navigation does to the manager is what its interface allows: one call
\* after another, with the batch of a search around it.
THEOREM StreamImplementsMap == StreamSpec => MapSpec
<1>1. StreamInit => MapInit
  BY DEF StreamInit
<1>2. QED
  BY <1>1, StreamStepIsMapStep, PTL DEF StreamSpec, MapSpec

\* ... so that its references stay live and its unloads succeed in the
\* presence of garbage collection and of loads in the middle of a search.
COROLLARY StreamUnloadNeverFails == StreamSpec => []UnloadNeverFails
BY StreamImplementsMap, MapUnloadNeverFails, PTL

-----------------------------------------------------------------------------
(* What a step of each kind does to the record of the loaded ADTs.         *)

LEMMA LoadMapEffect ==
  ASSUME NEW a \in Adts, Ready, LoadMap(a)
  PROVE  /\ loaded' = loaded
         /\ \/ job' = "load" /\ adt' = a /\ a \notin loaded
            \/ job' = "idle" /\ ret'.adt = a /\ (ret'.ok => a \in loaded)
BY DEF LoadMap, LoadHit, LoadRefuse, LoadBegin, Ready, jobVars, Returned

LEMMA UnloadTileEffect ==
  ASSUME NEW a \in Adts, Ready, UnloadTile(a)
  PROVE  /\ loaded' = loaded
         /\ \/ job' = "unload" /\ adt' = a
            \/ job' = "idle" /\ a \notin loaded
BY DEF UnloadTile, UnloadMiss, UnloadBegin, Ready, jobVars

LEMMA JobStepEffect ==
  ASSUME ~Ready, JobStep
  PROVE  \/ UNCHANGED <<loaded, job, adt>>
         \/ loaded' = loaded /\ job = "load" /\ job' = "idle" /\ adt' = adt
         \/ /\ loaded' = loaded \cup {adt} /\ job = "load" /\ job' = "idle" /\ adt' = adt
            /\ ret'.adt = adt /\ ret'.ok
         \/ loaded' = loaded \ {adt} /\ job = "unload" /\ job' = "idle" /\ adt' = adt
BY DEF JobStep, LoadBlob, SkipBlob, LoadGiveUp, LoadRecord, UnloadRef, UnloadErase, Returned

\* Types of the variables of Navigation, given those of the manager.
LEMMA StreamTypeStep ==
  ASSUME StreamTypeOK, MapTypeOK', [StreamNext]_allVars
  PROVE  StreamTypeOK'
<1> USE DEF StreamTypeOK
<1>1. CASE UNCHANGED streamVars
  BY <1>1 DEF streamVars
<1>2. ASSUME NEW s \in Adts, NEW e \in Adts, NEW o \in {"path", "sliced"}, StartPath(s, e, o)
      PROVE  StreamTypeOK'
  BY <1>2, GridAssumption DEF StartPath
<1>3. ASSUME NEW c \in Adts, StartEnsure(Ring[c]) \/ StartEnsure(Ring[c] \cup Ahead[c])
      PROVE  StreamTypeOK'
  BY <1>3, GridAssumption DEF StartEnsure
<1>4. CASE StartUpdate
  BY <1>4 DEF StartUpdate
<1>5. CASE Tick
  BY <1>5, TimeoutAssumption DEF Tick
<1>6. ASSUME NEW a \in Adts, GcUnload(a) \/ EnsureTile(a) \/ SearchTouch(a) \/ SearchLoad(a)
      PROVE  StreamTypeOK'
  BY <1>6, TimeoutAssumption DEF GcUnload, EnsureTile, SearchTouch, SearchLoad, Touch
<1>7. CASE GcDone \/ EnsureDone
  BY <1>7 DEF GcDone, EnsureDone
<1>8. CASE SearchStamp
  <2>1. ret.adt \in Adts
    BY DEF MapTypeOK
  <2>2. QED
    BY <1>8, <2>1, TimeoutAssumption DEF SearchStamp, Touch
<1>9. CASE SearchDone
  BY <1>9 DEF SearchDone, CallEnds
<1>10. QED
  BY <1>1, <1>2, <1>3, <1>4, <1>5, <1>6, <1>7, <1>8, <1>9
     DEF StreamNext, HostCall, HostUnload, HostCallback, PhaseStep, allVars

\* The invariant is kept by the steps of a loop of the manager, ...
LEMMA StreamIInvJob ==
  ASSUME StreamIInv, ~Ready, JobStep, UNCHANGED streamVars
  PROVE  PhaseShape' /\ LoadedIsTracked' /\ StaysFresh'
<1> USE DEF StreamIInv, Ready, streamVars
<1>1. \A a \in loaded : a \in tracked \/ (job = "unload" /\ adt = a)
  BY DEF LoadedIsTracked
<1>2. CASE UNCHANGED <<loaded, job, adt>>
  BY <1>1, <1>2 DEF PhaseShape, LoadedIsTracked, StaysFresh, Fresh, Stamping
<1>3. CASE loaded' = loaded /\ job = "load" /\ job' = "idle" /\ adt' = adt
  BY <1>1, <1>3 DEF PhaseShape, LoadedIsTracked, StaysFresh, Fresh, Stamping
<1>4. CASE /\ loaded' = loaded \cup {adt} /\ job = "load" /\ job' = "idle" /\ adt' = adt
           /\ ret'.adt = adt /\ ret'.ok
  <2>1. phase \in {"ensure", "stamp"}
    BY <1>4 DEF PhaseShape, StreamTypeOK
  <2>2. CASE phase = "ensure"
    BY <1>1, <1>4, <2>2 DEF PhaseShape, LoadedIsTracked, StaysFresh, Fresh, Stamping
  <2>3. CASE phase = "stamp"
    BY <1>1, <1>4, <2>3 DEF PhaseShape, LoadedIsTracked, StaysFresh, Fresh, Stamping
  <2>4. QED
    BY <2>1, <2>2, <2>3
<1>5. CASE loaded' = loaded \ {adt} /\ job = "unload" /\ job' = "idle" /\ adt' = adt
  BY <1>1, <1>5 DEF PhaseShape, LoadedIsTracked, StaysFresh, Fresh, Stamping
<1>6. QED
  BY <1>2, <1>3, <1>4, <1>5, JobStepEffect

\* ... by the calls of the host, ...
LEMMA StreamIInvHost ==
  ASSUME StreamIInv, Ready, HostCall
  PROVE  PhaseShape' /\ LoadedIsTracked' /\ StaysFresh'
<1> USE DEF StreamIInv, Ready
<1>1. phase = "none" /\ \A a \in loaded : a \in tracked
  BY DEF HostCall, StartPath, StartEnsure, StartUpdate, HostUnload, HostCallback, Tick, LoadedIsTracked
<1>2. ASSUME NEW s \in Adts, NEW e \in Adts, NEW o \in {"path", "sliced"}, StartPath(s, e, o)
      PROVE  PhaseShape' /\ LoadedIsTracked' /\ StaysFresh'
  BY <1>1, <1>2 DEF StartPath, PhaseShape, LoadedIsTracked, StaysFresh, mapVars, jobVars
<1>3. ASSUME NEW c \in Adts, StartEnsure(Ring[c]) \/ StartEnsure(Ring[c] \cup Ahead[c])
      PROVE  PhaseShape' /\ LoadedIsTracked' /\ StaysFresh'
  BY <1>1, <1>3 DEF StartEnsure, PhaseShape, LoadedIsTracked, StaysFresh, mapVars, jobVars
<1>4. CASE StartUpdate
  BY <1>1, <1>4 DEF StartUpdate, PhaseShape, LoadedIsTracked, StaysFresh, mapVars, jobVars
<1>5. ASSUME NEW a \in Adts, HostUnload(a)
      PROVE  PhaseShape' /\ LoadedIsTracked' /\ StaysFresh'
  BY <1>1, <1>5, UnloadTileEffect
     DEF HostUnload, PhaseShape, LoadedIsTracked, StaysFresh, streamVars
<1>6. ASSUME NEW b \in BOOLEAN, HostCallback(b)
      PROVE  PhaseShape' /\ LoadedIsTracked' /\ StaysFresh'
  BY <1>1, <1>6 DEF HostCallback, PhaseShape, LoadedIsTracked, StaysFresh, streamVars, jobVars
<1>7. CASE Tick
  BY <1>1, <1>7 DEF Tick, PhaseShape, LoadedIsTracked, StaysFresh, mapVars, jobVars
<1>8. QED
  BY <1>2, <1>3, <1>4, <1>5, <1>6, <1>7 DEF HostCall

\* ... and by the phases of a call.
LEMMA StreamIInvPhase ==
  ASSUME StreamIInv, Ready, PhaseStep
  PROVE  PhaseShape' /\ LoadedIsTracked' /\ StaysFresh'
<1> USE DEF StreamIInv, Ready
<1>1. \A a \in loaded : a \in tracked \/ (phase = "stamp" /\ ret.adt = a /\ ret.ok)
  BY DEF LoadedIsTracked
<1>2. ASSUME NEW a \in Adts, GcUnload(a)
      PROVE  PhaseShape' /\ LoadedIsTracked' /\ StaysFresh'
  BY <1>1, <1>2, UnloadTileEffect DEF GcUnload, PhaseShape, LoadedIsTracked, StaysFresh
<1>3. CASE GcDone
  <2>1. \A a \in loaded : Fresh(a)'
    BY <1>1, <1>3, TimeoutAssumption DEF GcDone, Expired, Fresh, StreamTypeOK, MapTypeOK
  <2>2. QED
    BY <1>1, <1>3, <2>1 DEF GcDone, PhaseShape, LoadedIsTracked, StaysFresh, mapVars, jobVars
<1>4. ASSUME NEW a \in Adts, EnsureTile(a)
      PROVE  PhaseShape' /\ LoadedIsTracked' /\ StaysFresh'
  <2>1. phase = "ensure" /\ UNCHANGED <<phase, op>>
    BY <1>4 DEF EnsureTile
  <2>2. Fresh(a)' /\ \A b \in Adts : (b \in tracked => b \in tracked') /\ (Fresh(b) => Fresh(b)')
    BY <1>4, TimeoutAssumption DEF EnsureTile, Touch, Fresh, StreamTypeOK
  <2>3. /\ loaded' = loaded
        /\ \/ job' = "load" /\ adt' = a
           \/ job' = "idle"
    BY <1>4, LoadMapEffect DEF EnsureTile
  <2>4. \A b \in loaded : b \in Adts /\ b \in tracked
    BY <1>1, <2>1 DEF StreamTypeOK, MapTypeOK
  <2>5. LoadedIsTracked'
    BY <2>2, <2>3, <2>4 DEF LoadedIsTracked
  <2>6. PhaseShape'
    BY <2>1, <2>2, <2>3 DEF PhaseShape, Fresh
  <2>7. StaysFresh'
    BY <2>1, <2>2, <2>3, <2>4 DEF StaysFresh, Stamping
  <2>8. QED
    BY <2>5, <2>6, <2>7
<1>5. CASE EnsureDone
  <2>1. /\ UNCHANGED <<loaded, job, adt, tracked, age, op>>
        /\ phase = "ensure"
        /\ phase' = "none" \/ (phase' = "search" /\ op = "path")
    BY <1>5 DEF EnsureDone, mapVars, jobVars
  <2>2. PhaseShape' /\ LoadedIsTracked'
    BY <1>1, <2>1 DEF PhaseShape, LoadedIsTracked
  <2>3. StaysFresh'
    BY <2>1 DEF StaysFresh, Fresh, Stamping
  <2>4. QED
    BY <2>2, <2>3
<1>6. ASSUME NEW a \in Adts, SearchTouch(a)
      PROVE  PhaseShape' /\ LoadedIsTracked' /\ StaysFresh'
  <2>1. UNCHANGED <<mapVars, tracked, phase, op>> /\ phase = "search"
    BY <1>6 DEF SearchTouch, SearchMeets
  <2>2. \A b \in Adts : Fresh(b) => Fresh(b)'
    BY <1>6, TimeoutAssumption DEF SearchTouch, Fresh, StreamTypeOK
  <2>3. PhaseShape' /\ LoadedIsTracked'
    BY <1>1, <2>1 DEF PhaseShape, LoadedIsTracked, mapVars, jobVars
  <2>4. \A b \in loaded : b \in Adts
    BY DEF StreamTypeOK, MapTypeOK
  <2>5. StaysFresh'
    BY <2>1, <2>2, <2>4 DEF StaysFresh, Stamping, mapVars
  <2>6. QED
    BY <2>3, <2>5
<1>7. ASSUME NEW a \in Adts, SearchLoad(a)
      PROVE  PhaseShape' /\ LoadedIsTracked' /\ StaysFresh'
  <2>1. phase = "search" /\ phase' = "stamp" /\ UNCHANGED <<tracked, age, op>>
    BY <1>7 DEF SearchLoad, SearchMeets
  <2>2. loaded' = loaded /\ job' \in {"load", "idle"}
    BY <1>7, LoadMapEffect DEF SearchLoad
  <2>3. op \in {"path", "update"}
    BY <1>7 DEF SearchLoad, SearchMeets, PhaseShape
  <2>4. QED
    BY <1>1, <2>1, <2>2, <2>3 DEF PhaseShape, LoadedIsTracked, StaysFresh, Fresh, Stamping
<1>8. CASE SearchStamp
  <2>1. phase = "stamp" /\ phase' = "search" /\ UNCHANGED <<mapVars, op>>
    BY <1>8 DEF SearchStamp
  <2>0. ret.adt \in Adts
    BY DEF StreamTypeOK, MapTypeOK
  <2>2. /\ \A b \in Adts : (b \in tracked => b \in tracked') /\ (Fresh(b) => Fresh(b)')
        /\ ret.ok => Fresh(ret.adt)'
    <3>1. CASE ret.ok
      <4>1. tracked' = tracked \cup {ret.adt} /\ age' = [age EXCEPT ![ret.adt] = 0]
        BY <1>8, <3>1 DEF SearchStamp, Touch
      <4>2. age \in [Adts -> 0..(Timeout + 1)] /\ 0 <= Timeout /\ ret' = ret
        BY <2>1, TimeoutAssumption DEF StreamTypeOK, mapVars
      <4>3. QED
        BY <2>0, <4>1, <4>2 DEF Fresh
    <3>2. CASE ~ret.ok
      BY <1>8, <3>2 DEF SearchStamp, Fresh
    <3>3. QED
      BY <3>1, <3>2
  <2>3. \A b \in loaded : b \in Adts
    BY DEF StreamTypeOK, MapTypeOK
  <2>4. PhaseShape' /\ LoadedIsTracked'
    BY <1>1, <2>1, <2>2, <2>3 DEF PhaseShape, LoadedIsTracked, Fresh, mapVars, jobVars
  <2>5. StaysFresh'
    BY <2>1, <2>2, <2>3 DEF StaysFresh, Stamping, mapVars
  <2>6. QED
    BY <2>4, <2>5
<1>9. CASE SearchDone
  <2>1. UNCHANGED <<loaded, job, adt, tracked, age>> /\ phase = "search" /\ phase' = "none"
    BY <1>9 DEF SearchDone, mapVars, jobVars
  <2>2. QED
    BY <1>1, <2>1 DEF PhaseShape, LoadedIsTracked, StaysFresh
<1>10. QED
  BY <1>2, <1>3, <1>4, <1>5, <1>6, <1>7, <1>8, <1>9 DEF PhaseStep

LEMMA StreamStepIInv == StreamIInv /\ MapTypeOK' /\ [StreamNext]_allVars => StreamIInv'
<1> SUFFICES ASSUME StreamIInv, MapTypeOK', [StreamNext]_allVars PROVE StreamIInv'
  OBVIOUS
<1>1. StreamTypeOK'
  BY StreamTypeStep DEF StreamIInv
<1>2. CASE UNCHANGED allVars
  BY <1>1, <1>2
     DEF StreamIInv, PhaseShape, LoadedIsTracked, StaysFresh, Fresh, Stamping, Ready,
         allVars, streamVars, mapVars, jobVars
<1>3. CASE StreamNext
  BY <1>1, <1>3, StreamIInvJob, StreamIInvHost, StreamIInvPhase DEF StreamNext, StreamIInv
<1>4. QED
  BY <1>2, <1>3

LEMMA StreamInductive == StreamSpec => []StreamIInv
<1>1. StreamInit => StreamIInv
  <2> SUFFICES ASSUME StreamInit PROVE StreamIInv
    OBVIOUS
  <2>1. MapTypeOK /\ loaded = {} /\ job = "idle"
    BY MapInitIInv DEF StreamInit, MapInit, MapIInv
  <2>2. StreamTypeOK
    BY <2>1, TimeoutAssumption DEF StreamInit, StreamTypeOK
  <2>3. QED
    BY <2>1, <2>2 DEF StreamInit, StreamIInv, PhaseShape, LoadedIsTracked, StaysFresh
<1>2. MapIInv => MapTypeOK
  BY DEF MapIInv
<1>3. StreamSpec => []MapIInv
  BY StreamImplementsMap, MapInductive, PTL
<1>4. QED
  BY <1>1, <1>2, <1>3, StreamStepIInv, PTL DEF StreamSpec

-----------------------------------------------------------------------------
\* Every variable keeps to its type, an age in particular to one tick past the
\* timeout.
THEOREM StreamTypeCorrect == StreamSpec => []StreamTypeOK
<1>1. StreamIInv => StreamTypeOK
  BY DEF StreamIInv
<1>2. QED
  BY <1>1, StreamInductive, PTL

\* No loaded ADT is out of reach of garbage collection: each has an access
\* time, except between the end of its load in a search and the line after.
THEOREM StreamLoadedIsTracked == StreamSpec => []LoadedIsTracked
<1>1. StreamIInv => LoadedIsTracked
  BY DEF StreamIInv
<1>2. QED
  BY <1>1, StreamInductive, PTL

\* A path request loads tiles only when everything still loaded was used
\* within the timeout.
THEOREM StreamCollectedBeforeLoading == StreamSpec => []CollectedBeforeLoading
<1>1. StreamIInv => CollectedBeforeLoading
  BY DEF StreamIInv, StaysFresh, Fresh, Stamping, CollectedBeforeLoading
<1>2. QED
  BY <1>1, StreamInductive, PTL

\* A search never loses the tiles it walks on, whatever it loads.
THEOREM StreamSearchKeepsTiles == StreamSpec => SearchKeepsTiles
<1> DEFINE Keeps ==
      (phase \in {"search", "stamp"} /\ phase' \in {"search", "stamp"}) =>
        \A i \in Slots : at[i] # NoLoc => at'[i] = at[i] /\ salt'[i] = salt[i]
<1> DEFINE OneAdded(i) ==
      UNCHANGED salt /\ at[i] = NoLoc /\ \E l \in Locs : at' = [at EXCEPT ![i] = l]
<1>1. ASSUME StreamIInv, StreamNext, phase \in {"search", "stamp"}
      PROVE  UNCHANGED poolVars \/ \E i \in Slots : OneAdded(i)
  <2> USE <1>1
  <2>1. CASE ~Ready /\ JobStep
    <3>1. job = "load"
      BY <2>1 DEF StreamIInv, PhaseShape, Ready, StreamTypeOK, MapTypeOK
    <3>2. ASSUME NEW i \in Slots, LoadBlob(i) PROVE OneAdded(i)
      BY <3>2 DEF LoadBlob, Add
    <3>3. QED
      BY <2>1, <3>1, <3>2 DEF JobStep, SkipBlob, LoadGiveUp, LoadRecord, UnloadRef, UnloadErase
  <2>2. CASE Ready /\ HostCall
    BY <2>2 DEF HostCall, StartPath, StartEnsure, StartUpdate, HostUnload, HostCallback, Tick
  <2>3. ASSUME Ready, PhaseStep PROVE UNCHANGED poolVars
    <3>1. ASSUME NEW a \in Adts, SearchLoad(a) PROVE UNCHANGED poolVars
      BY <3>1 DEF SearchLoad, LoadMap, LoadHit, LoadRefuse, LoadBegin
    <3>2. QED
      BY <2>3, <3>1
         DEF PhaseStep, GcUnload, GcDone, EnsureTile, EnsureDone, SearchTouch, SearchStamp, SearchDone, mapVars
  <2>4. QED
    BY <2>1, <2>2, <2>3 DEF StreamNext
<1>2. ASSUME StreamIInv, UNCHANGED poolVars \/ \E i \in Slots : OneAdded(i),
             NEW j \in Slots, at[j] # NoLoc
      PROVE  at'[j] = at[j] /\ salt'[j] = salt[j]
  <2>1. at \in [Slots -> Locs \cup {NoLoc}]
    BY <1>2 DEF StreamIInv, StreamTypeOK, MapTypeOK, PoolTypeOK
  <2>2. CASE UNCHANGED poolVars
    BY <2>2 DEF poolVars
  <2>3. ASSUME NEW i \in Slots, OneAdded(i) PROVE at'[j] = at[j] /\ salt'[j] = salt[j]
    BY <1>2, <2>1, <2>3
  <2>4. QED
    BY <1>2, <2>2, <2>3
<1>3. StreamIInv /\ StreamNext => Keeps
  BY <1>1, <1>2
<1>4. StreamIInv /\ [StreamNext]_allVars => [Keeps]_allVars
  BY <1>3
<1>5. QED
  BY <1>4, StreamInductive, PTL DEF StreamSpec, SearchKeepsTiles

-----------------------------------------------------------------------------
\* The batch is open exactly while a path request searches, and what waits in
\* it is loaded and waits once.
BatchShape ==
  /\ phase \in {"none", "gc", "ensure"} \/ op # "path" => depth = 0
  /\ phase \in {"search", "stamp"} /\ op = "path" => depth = 1

WaitsOnce ==
  \A k \in DOMAIN deferred :
    /\ deferred[k] \in loaded
    /\ \A m \in DOMAIN deferred : deferred[m] = deferred[k] => m = k

TimelyInv == BatchShape /\ WaitsOnce /\ (depth = 0 => deferred = <<>>)

\* The loops of the manager add a load to the queue only when it is recorded,
\* and while something waits they unload nothing.
LEMMA TimelyJob ==
  ASSUME StreamIInv, MapIInv, TimelyInv, ~Ready, JobStep, UNCHANGED streamVars
  PROVE  TimelyInv'
<1> USE DEF StreamIInv, TimelyInv, streamVars
<1>1. deferred \in Seq(Adts) /\ depth \in Nat /\ adt \in Adts
  BY BoundsAssumption DEF StreamTypeOK, MapTypeOK
<1>2. CASE LoadRecord
  <2>1. depth' = depth /\ loaded' = loaded \cup {adt} /\ adt \notin loaded
    BY <1>2 DEF LoadRecord, RaiseTileLoaded, MapIInv, JobShape
  <2>2. CASE callback /\ depth > 0
    <3>1. deferred' = Append(deferred, adt)
      BY <1>2, <2>2 DEF LoadRecord, RaiseTileLoaded
    <3>2. /\ DOMAIN deferred = 1..Len(deferred) /\ DOMAIN deferred' = 1..(Len(deferred) + 1)
          /\ Len(deferred) \in Nat
      BY <1>1, <3>1
    <3>3. \A k \in 1..Len(deferred) : deferred'[k] = deferred[k] /\ deferred[k] \in loaded
      BY <1>1, <3>1, <3>2 DEF WaitsOnce
    <3>4. deferred'[Len(deferred) + 1] = adt
      BY <1>1, <3>1
    <3>5. WaitsOnce'
      BY <2>1, <3>2, <3>3, <3>4 DEF WaitsOnce
    <3>6. QED
      BY <1>1, <2>1, <2>2, <3>5 DEF BatchShape
  <2>3. CASE ~(callback /\ depth > 0)
    <3>1. deferred' = deferred
      BY <1>2, <2>3 DEF LoadRecord, RaiseTileLoaded
    <3>2. QED
      BY <2>1, <3>1 DEF BatchShape, WaitsOnce
  <2>4. QED
    BY <2>2, <2>3
<1>3. CASE UnloadErase
  <2>1. UNCHANGED <<depth, deferred>> /\ job = "unload"
    BY <1>3 DEF UnloadErase, batchVars
  <2>2. depth = 0
    BY <2>1 DEF PhaseShape, BatchShape, Ready, StreamTypeOK
  <2>3. QED
    BY <2>1, <2>2 DEF BatchShape, WaitsOnce
<1>4. CASE UNCHANGED <<loaded, batchVars>>
  BY <1>4 DEF BatchShape, WaitsOnce, batchVars
<1>5. QED
  BY <1>2, <1>3, <1>4 DEF JobStep, LoadBlob, SkipBlob, LoadGiveUp, UnloadRef

\* Starting a loop, or a call that finds nothing to do, leaves the batch alone.
LEMMA CallKeepsBatch ==
  ASSUME NEW a \in Adts, LoadMap(a) \/ UnloadTile(a)
  PROVE  UNCHANGED <<loaded, batchVars, poolVars, disk>>
BY DEF LoadMap, UnloadTile, LoadHit, LoadRefuse, LoadBegin, UnloadMiss, UnloadBegin, fileVars

LEMMA TimelyStep == StreamIInv /\ MapIInv /\ TimelyInv /\ [StreamNext]_allVars => TimelyInv'
<1> SUFFICES ASSUME StreamIInv, MapIInv, TimelyInv, [StreamNext]_allVars PROVE TimelyInv'
  OBVIOUS
<1> USE DEF StreamIInv, TimelyInv
<1>1. depth \in Nat
  BY BoundsAssumption DEF StreamTypeOK, MapTypeOK
<1>2. CASE ~Ready /\ JobStep /\ UNCHANGED streamVars
  BY <1>2, TimelyJob
<1>3. CASE UNCHANGED <<loaded, batchVars>>
  <2>1. WaitsOnce' /\ depth' = depth /\ (depth' = 0 => deferred' = <<>>)
    BY <1>3 DEF WaitsOnce, batchVars
  <2>2. CASE Ready /\ HostCall
    BY <2>1, <2>2
       DEF HostCall, StartPath, StartEnsure, StartUpdate, HostUnload, HostCallback, Tick, streamVars, BatchShape
  <2>3. CASE Ready /\ PhaseStep
    <3>1. ASSUME NEW a \in Adts, GcUnload(a) \/ EnsureTile(a) \/ SearchTouch(a) \/ SearchLoad(a)
          PROVE  BatchShape'
      BY <2>1, <3>1 DEF GcUnload, EnsureTile, SearchTouch, SearchLoad, SearchMeets, BatchShape
    <3>2. CASE GcDone \/ SearchStamp
      BY <2>1, <3>2 DEF GcDone, SearchStamp, BatchShape
    <3>3. CASE EnsureDone
      <4>1. op # "path"
        BY <1>1, <1>3, <3>3 DEF EnsureDone, BeginTileLoadBatch, batchVars
      <4>2. QED
        BY <2>1, <3>3, <4>1 DEF EnsureDone, BatchShape
    <3>4. CASE SearchDone
      <4>1. op # "path"
        BY <1>1, <1>3, <3>4 DEF SearchDone, EndTileLoadBatch, batchVars, BatchShape
      <4>2. QED
        BY <2>1, <3>4, <4>1 DEF SearchDone, CallEnds, BatchShape
    <3>5. QED
      BY <2>1, <2>3, <3>1, <3>2, <3>3, <3>4 DEF PhaseStep
  <2>4. CASE UNCHANGED streamVars
    BY <2>1, <2>4 DEF streamVars, BatchShape
  <2>5. QED
    BY <1>2, <2>1, <2>2, <2>3, <2>4 DEF StreamNext, allVars
<1>4. ASSUME NEW b \in BOOLEAN, HostCallback(b) PROVE TimelyInv'
  BY <1>4 DEF HostCallback, SetTileLoadedCallback, streamVars, BatchShape, WaitsOnce
<1>5. CASE EnsureDone /\ op = "path"
  <2>1. depth = 0 /\ depth' = 1 /\ deferred' = deferred /\ loaded' = loaded
    BY <1>5 DEF EnsureDone, BeginTileLoadBatch, BatchShape
  <2>2. QED
    BY <1>5, <2>1 DEF EnsureDone, BatchShape, WaitsOnce
<1>6. CASE SearchDone /\ op = "path"
  <2>1. depth = 1
    BY <1>6 DEF SearchDone, BatchShape
  <2>2. depth' = 0 /\ deferred' = <<>>
    BY <1>6, <2>1 DEF SearchDone, EndTileLoadBatch
  <2>3. QED
    BY <1>6, <2>2 DEF SearchDone, CallEnds, BatchShape, WaitsOnce
<1>7. CASE Ready /\ HostCall
  BY <1>3, <1>4, <1>7, CallKeepsBatch
     DEF HostCall, StartPath, StartEnsure, StartUpdate, HostUnload, Tick, mapVars
<1>8. CASE Ready /\ PhaseStep
  BY <1>3, <1>5, <1>6, <1>8, CallKeepsBatch
     DEF PhaseStep, GcUnload, GcDone, EnsureTile, EnsureDone, SearchTouch, SearchLoad, SearchStamp,
         SearchDone, mapVars
<1>9. CASE UNCHANGED allVars
  BY <1>3, <1>9 DEF allVars, mapVars
<1>10. QED
  BY <1>2, <1>7, <1>8, <1>9 DEF StreamNext

\* The host is told of a load in a search once, before the call that made it
\* returns, and while the ADT is still loaded.
THEOREM StreamCallbacksAreTimely == StreamSpec => []CallbacksAreTimely
<1>1. StreamInit => TimelyInv
  BY DEF StreamInit, MapInit, TimelyInv, BatchShape, WaitsOnce
<1>2. TimelyInv => CallbacksAreTimely
  BY DEF TimelyInv, BatchShape, WaitsOnce, CallbacksAreTimely
<1>3. StreamSpec => []MapIInv
  BY StreamImplementsMap, MapInductive, PTL
<1>4. QED
  BY <1>1, <1>2, <1>3, TimelyStep, StreamInductive, PTL DEF StreamSpec

-----------------------------------------------------------------------------
\* No two .mmtile files have a tile for the same place.
FilesApart ==
  \A d \in Disks : \A a, b \in Adts :
    \A k \in DOMAIN d[a].blobs, m \in DOMAIN d[b].blobs :
      d[a].blobs[k] \in Locs /\ d[a].blobs[k] = d[b].blobs[m] => a = b

Full == \A i \in Slots : at[i] # NoLoc

\* A load has added a tile once it has passed a blob that is one.
LoadHasTile ==
  job = "load" /\ Loadable(adt) =>
    \A k \in DOMAIN disk[adt].blobs : k < pos /\ disk[adt].blobs[k] \in Locs => got # {} \/ Full

\* The squares that have been visited are loaded, or one is being loaded.
Visited(a) == Loadable(a) => a \in loaded \/ Full \/ (job = "load" /\ adt = a)

EnsuredInv ==
  /\ LoadHasTile
  /\ phase = "gc" => wanted \subseteq todo
  /\ phase = "ensure" => \A a \in wanted \ todo : Visited(a)
  /\ phase \in {"search", "stamp"} /\ op = "path" =>
       \A a \in wanted : Loadable(a) => a \in loaded \/ Full

\* A place in the file of an ADT being loaded is taken by a tile of that load,
\* or the file was cut short.
LEMMA OwnPlace ==
  ASSUME FilesApart, disk \in Disks, OwnedInv, HeldFromFile, job = "load", MoreBlobs, Blob \in Locs,
         Occupied(Blob), Loadable(adt)
  PROVE  got # {}
<1> USE DEF OwnedInv, MapIInv
<1>1. PICK i \in Slots : at[i] = Blob
  BY DEF Occupied
<1>2. at[i] # NoLoc
  BY <1>1, NoLocAssumption
<1>3. adt \in Adts /\ ~disk[adt].cut /\ pos \in DOMAIN disk[adt].blobs
  <2>1. disk[adt].blobs \in Seq(Locs \cup {Empty, Bad})
    BY DEF MapTypeOK, File
  <2>2. QED
    BY <2>1 DEF Loadable, MapTypeOK, MoreBlobs
<1>4. \A b \in Adts : \A k \in DOMAIN disk[b].blobs : disk[b].blobs[k] = at[i] => b = adt
  BY <1>1, <1>3 DEF FilesApart, Blob
<1>5. ~LeftBehind(at[i])
  BY <1>3, <1>4 DEF LeftBehind
<1>6. refs[adt] = {}
  BY <1>3 DEF JobShape, LoadedHasTiles
<1>7. ASSUME NEW a \in Adts, RefOf(i) \in Held(a) PROVE FALSE
  <2>1. \E k \in DOMAIN disk[a].blobs : disk[a].blobs[k] = at[i]
    BY <1>7 DEF HeldFromFile, RefOf
  <2>2. a = adt
    BY <1>4, <2>1
  <2>3. QED
    BY <1>6, <1>7, <2>2 DEF Held
<1>8. QED
  BY <1>2, <1>5, <1>7 DEF TilesAreOwned

\* A step of a load only adds to the mesh.
LEMMA EnsuredJob ==
  ASSUME FilesApart, disk \in Disks, OwnedInv, HeldFromFile, StreamIInv, EnsuredInv,
         ~Ready, JobStep, UNCHANGED streamVars
  PROVE  EnsuredInv'
<1> USE DEF OwnedInv, MapIInv, StreamIInv, EnsuredInv, streamVars
<1>1. /\ adt \in Adts /\ disk[adt].blobs \in Seq(Locs \cup {Empty, Bad}) /\ pos \in Nat \ {0}
      /\ at \in [Slots -> Locs \cup {NoLoc}] /\ wanted \subseteq Adts
  BY DEF StreamTypeOK, MapTypeOK, PoolTypeOK, File
<1>2. disk' = disk /\ \A a \in Adts : Loadable(a)' = Loadable(a)
  BY DEF JobStep, LoadBlob, SkipBlob, LoadGiveUp, LoadRecord, UnloadRef, UnloadErase, fileVars,
         Loadable, Readable
<1>3. ASSUME NEW i \in Slots, LoadBlob(i) PROVE EnsuredInv'
  <2>1. UNCHANGED <<job, adt, loaded>> /\ got' # {} /\ (Full => Full')
    BY <1>1, <1>3 DEF LoadBlob, Add, Full
  <2>2. LoadHasTile'
    BY <2>1 DEF LoadHasTile
  <2>3. \A a \in Adts : Visited(a) => Visited(a)'
    BY <1>2, <2>1 DEF Visited
  <2>4. QED
    BY <1>1, <1>2, <2>1, <2>2, <2>3
<1>4. CASE SkipBlob
  <2>1. UNCHANGED <<job, adt, loaded, got, at>> /\ pos' = pos + 1 /\ job = "load"
    BY <1>4 DEF SkipBlob, poolVars
  <2>2. Loadable(adt) /\ Blob \in Locs => got # {} \/ Full
    <3>1. CASE Occupied(Blob)
      BY <1>4, <3>1, OwnPlace DEF SkipBlob
    <3>2. CASE ~Occupied(Blob)
      BY <1>4, <3>2 DEF SkipBlob, Full
    <3>3. QED
      BY <3>1, <3>2
  <2>3. LoadHasTile'
    <3> SUFFICES ASSUME Loadable(adt), NEW k \in DOMAIN disk[adt].blobs, k < pos + 1,
                        disk[adt].blobs[k] \in Locs
                 PROVE  got # {} \/ Full
      BY <1>1, <1>2, <2>1 DEF LoadHasTile, Full
    <3>1. k \in Nat
      BY <1>1
    <3>2. CASE k = pos
      BY <2>2, <3>2 DEF Blob
    <3>3. CASE k < pos
      BY <2>1, <3>3 DEF LoadHasTile
    <3>4. QED
      BY <1>1, <3>1, <3>2, <3>3
  <2>4. \A a \in Adts : Visited(a) => Visited(a)'
    BY <1>2, <2>1 DEF Visited, Full
  <2>5. QED
    BY <1>1, <1>2, <2>1, <2>3, <2>4 DEF Full
<1>5. CASE LoadGiveUp
  <2>1. /\ UNCHANGED <<adt, loaded, at>> /\ job = "load" /\ job' = "idle"
        /\ ~MoreBlobs /\ (disk[adt].cut \/ got = {})
    BY <1>5 DEF LoadGiveUp, poolVars
  <2>2. Loadable(adt) => Full
    <3> SUFFICES ASSUME Loadable(adt) PROVE Full
      OBVIOUS
    <3>1. PICK k \in DOMAIN disk[adt].blobs : disk[adt].blobs[k] \in Locs
      BY DEF Loadable
    <3>2. k < pos
      BY <1>1, <2>1 DEF MoreBlobs
    <3>3. QED
      BY <2>1, <3>1, <3>2 DEF LoadHasTile, Loadable
  <2>3. \A a \in Adts : Visited(a) => Visited(a)'
    BY <1>2, <2>1, <2>2 DEF Visited, Full
  <2>4. QED
    BY <1>1, <1>2, <2>1, <2>3 DEF LoadHasTile, Full
<1>6. CASE LoadRecord
  <2>1. loaded' = loaded \cup {adt} /\ job' = "idle" /\ at' = at
    BY <1>6 DEF LoadRecord, poolVars
  <2>2. \A a \in Adts : Visited(a) => Visited(a)'
    BY <1>2, <2>1 DEF Visited, Full
  <2>3. QED
    BY <1>1, <1>2, <2>1, <2>2 DEF LoadHasTile, Full
<1>7. ASSUME job = "unload", job' # "load" PROVE EnsuredInv'
  <2>1. phase \in {"none", "gc"}
    BY <1>7 DEF PhaseShape, Ready, StreamTypeOK
  <2>2. QED
    BY <1>7, <2>1 DEF LoadHasTile
<1>8. QED
  BY <1>3, <1>4, <1>5, <1>6, <1>7 DEF JobStep, UnloadRef, UnloadErase

\* loadMap of a hits, refuses the file, or starts at its first blob.
LEMMA EnsuredLoad ==
  ASSUME MapTypeOK, NEW a \in Adts, Ready, LoadMap(a)
  PROVE  LoadHasTile' /\ UNCHANGED <<loaded, at, disk>> /\ Visited(a)'
<1>1. UNCHANGED <<loaded, at, disk>>
  BY CallKeepsBatch DEF poolVars
<1>2. disk[a].blobs \in Seq(Locs \cup {Empty, Bad})
  BY DEF MapTypeOK, File
<1>3. CASE LoadBegin(a)
  BY <1>1, <1>2, <1>3 DEF LoadBegin, LoadHasTile, Visited
<1>4. CASE LoadHit(a) \/ LoadRefuse(a)
  <2>1. job' # "load" /\ (a \in loaded \/ ~Readable(a))
    BY <1>4 DEF LoadHit, LoadRefuse, jobVars, Ready
  <2>2. QED
    BY <1>1, <2>1 DEF LoadHasTile, Visited, Loadable, Readable
<1>5. QED
  BY <1>1, <1>3, <1>4 DEF LoadMap

\* A call of the host begins with nothing visited.
LEMMA EnsuredHost ==
  ASSUME StreamIInv, EnsuredInv, Ready, HostCall
  PROVE  EnsuredInv'
<1> USE DEF EnsuredInv
<1>1. job' # "load"
  <2>1. ASSUME NEW a \in Adts, HostUnload(a) PROVE job' # "load"
    BY <2>1, UnloadTileEffect DEF HostUnload
  <2>2. QED
    BY <2>1 DEF HostCall, StartPath, StartEnsure, StartUpdate, HostCallback, Tick, mapVars, jobVars, Ready
<1>2. LoadHasTile'
  BY <1>1 DEF LoadHasTile
<1>3. CASE StartUpdate
  BY <1>2, <1>3 DEF StartUpdate
<1>4. CASE phase' = "none"
  BY <1>2, <1>4
<1>5. CASE phase' \in {"gc", "ensure"} /\ wanted' = todo'
  BY <1>2, <1>5
<1>6. QED
  BY <1>3, <1>4, <1>5
     DEF HostCall, StartPath, StartEnsure, HostUnload, HostCallback, Tick, streamVars

\* EnsureTiles visits the squares one by one, and a search takes none away.
LEMMA EnsuredPhase ==
  ASSUME StreamIInv, EnsuredInv, Ready, PhaseStep
  PROVE  EnsuredInv'
<1> USE DEF StreamIInv, EnsuredInv
<1>1. MapTypeOK /\ wanted \subseteq Adts
  BY DEF StreamTypeOK
<1>2. ASSUME NEW a \in Adts, GcUnload(a) PROVE EnsuredInv'
  BY <1>2, UnloadTileEffect DEF GcUnload, LoadHasTile
<1>3. ASSUME NEW a \in Adts, EnsureTile(a) PROVE EnsuredInv'
  <2>1. /\ LoadHasTile' /\ UNCHANGED <<loaded, at, disk>> /\ Visited(a)'
        /\ phase' = "ensure" /\ wanted' = wanted /\ todo' = todo \ {a}
    BY <1>1, <1>3, EnsuredLoad DEF EnsureTile
  <2>2. \A b \in wanted \ todo : Visited(b)'
    BY <1>3, <2>1 DEF EnsureTile, Visited, Ready, Full, Loadable, Readable
  <2>3. QED
    BY <2>1, <2>2
<1>4. CASE GcDone
  BY <1>4 DEF GcDone, mapVars, jobVars, fileVars, poolVars, LoadHasTile, Ready
<1>5. CASE EnsureDone
  <2>1. /\ UNCHANGED <<loaded, at, disk, job, op>> /\ todo = {} /\ phase = "ensure"
        /\ (phase' = "search" /\ op = "path" /\ wanted' = wanted) \/ phase' = "none"
    BY <1>5 DEF EnsureDone, mapVars, jobVars, fileVars, poolVars
  <2>2. QED
    BY <2>1 DEF LoadHasTile, Visited, Ready, Full, Loadable, Readable
<1>6. CASE SearchStamp \/ \E a \in Adts : SearchTouch(a)
  <2>1. /\ UNCHANGED <<loaded, at, disk, job, op, wanted>>
        /\ phase \in {"search", "stamp"} /\ phase' \in {"search", "stamp"}
    BY <1>6 DEF SearchStamp, SearchTouch, SearchMeets, mapVars, jobVars, fileVars, poolVars
  <2>2. QED
    BY <2>1 DEF LoadHasTile, Ready, Full, Loadable, Readable
<1>7. ASSUME NEW a \in Adts, SearchLoad(a) PROVE EnsuredInv'
  <2>1. /\ LoadHasTile' /\ UNCHANGED <<loaded, at, disk, op, wanted>>
        /\ phase = "search" /\ phase' = "stamp"
    BY <1>1, <1>7, EnsuredLoad DEF SearchLoad, SearchMeets
  <2>2. QED
    BY <2>1 DEF Full, Loadable, Readable
<1>8. CASE SearchDone
  <2>1. phase' = "none" /\ job' = job
    BY <1>8 DEF SearchDone, mapVars, jobVars
  <2>2. QED
    BY <2>1 DEF LoadHasTile, Ready
<1>9. QED
  BY <1>2, <1>3, <1>4, <1>5, <1>6, <1>7, <1>8 DEF PhaseStep

\* When the search of a path request begins, and until it ends, every square
\* around both ends whose file has a tile is loaded, unless the mesh is full.
\* For this the files must not claim each other's places in the mesh: addTile
\* refuses the second of two tiles for one place.
THEOREM StreamSearchHasItsTiles == StreamSpec => [](FilesApart => SearchHasItsTiles)
<1> DEFINE OnDisk == disk \in Disks
<1> DEFINE Inv == FilesApart => EnsuredInv
<1>1. StreamInit => Inv /\ OnDisk
  BY DEF StreamInit, MapInit, EnsuredInv, LoadHasTile
<1>2. OnDisk /\ [StreamNext]_allVars => OnDisk'
  <2>1. [MapNext]_mapVars => UNCHANGED disk
    BY DEF MapNext, JobStep, Call, LoadMap, UnloadTile, LoadBlob, SkipBlob, LoadGiveUp, LoadRecord,
           UnloadRef, UnloadErase, LoadHit, LoadRefuse, LoadBegin, UnloadMiss, UnloadBegin,
           LoadTileOffMesh, BatchCall, mapVars, fileVars
  <2>2. QED
    BY <2>1, StreamStepIsMapStep
<1>3. OnDisk /\ OwnedInv /\ HeldFromFile /\ StreamIInv /\ Inv /\ [StreamNext]_allVars => Inv'
  <2> SUFFICES ASSUME FilesApart, disk \in Disks, OwnedInv, HeldFromFile, StreamIInv, EnsuredInv,
                      [StreamNext]_allVars
               PROVE  EnsuredInv'
    OBVIOUS
  <2>1. CASE ~Ready /\ JobStep /\ UNCHANGED streamVars
    BY <2>1, EnsuredJob
  <2>2. CASE Ready /\ HostCall
    BY <2>2, EnsuredHost
  <2>3. CASE Ready /\ PhaseStep
    BY <2>3, EnsuredPhase
  <2>4. CASE UNCHANGED allVars
    BY <2>4
       DEF EnsuredInv, LoadHasTile, Visited, Full, Loadable, Readable,
           allVars, mapVars, streamVars, jobVars, fileVars, poolVars
  <2>5. QED
    BY <2>1, <2>2, <2>3, <2>4 DEF StreamNext
<1>4. Inv => (FilesApart => SearchHasItsTiles)
  BY DEF EnsuredInv, SearchHasItsTiles, Full
<1>5. StreamSpec => [](OwnedInv /\ HeldFromFile)
  BY StreamImplementsMap, MapHeldFromFile, PTL
<1> HIDE DEF OnDisk, Inv
<1>6. QED
  BY <1>1, <1>2, <1>3, <1>4, <1>5, StreamInductive, PTL DEF StreamSpec
=============================================================================
