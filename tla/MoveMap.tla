------------------------------ MODULE MoveMap ------------------------------
(***************************************************************************)
(* MMapManager for one map: which ADTs are loaded and the tile references  *)
(* recorded for each, loading an ADT file blob by blob into the mesh,      *)
(* unloading it, the off-mesh connection file read after a load, and the   *)
(* tile-loaded callback with its batches.                                  *)
(*                                                                         *)
(* loadMap and unloadTile are loops over the sub-tiles of an ADT that call *)
(* addTile or removeTile once each.  One iteration is one step here; no    *)
(* other step comes between (job is then not "idle"), as in the code,      *)
(* which runs on the caller's thread.  The mesh is the store of TilePool.  *)
(*                                                                         *)
(* The files are fixed while the program runs, so the manifest of          *)
(* buildTileManifest refuses exactly the files that fopen would refuse.    *)
(***************************************************************************)
EXTENDS TilePool, Sequences

CONSTANTS
  Adts,       \* grid squares: one .mmtile and one .offmesh file each
  Disks,      \* the possible contents of the mmaps directory: .mmtile files
  OffDisks,   \* ... and .offmesh files
  Empty,      \* a blob of size 0: a sub-tile slot without a tile
  Bad,        \* a blob whose header addTile rejects
  MaxDepth,   \* bound on nested batches
  MaxDeferred,\* bound on the loads one batch can put off
  MaxConns    \* bound on the copies of a connection counted

MMAP_VERSION == 4
MMAP_MULTI_TILE_VERSION == 6

\* A .mmtile file: the version in its header (0: no such file, or no magic),
\* the blobs that can be read from it (one in version 4), and whether it ends
\* inside the next.
File == [version : Nat, blobs : Seq(Locs \cup {Empty, Bad}), cut : BOOLEAN]

\* A .offmesh file is missing, rejected (its header, or a record cut short
\* before any was read), without connections, or has some.
OffFile == {"missing", "rejected", "empty", "some"}

ASSUME BlobsAssumption == {Empty, Bad} \cap Locs = {}
ASSUME DisksAssumption ==
  /\ Disks \subseteq [Adts -> File]
  /\ OffDisks \subseteq [Adts -> OffFile]
  /\ \A d \in Disks : \A a \in Adts :
       d[a].version = MMAP_VERSION => Len(d[a].blobs) = IF d[a].cut THEN 0 ELSE 1
ASSUME BoundsAssumption == MaxDepth \in Nat /\ MaxDeferred \in Nat /\ MaxConns \in Nat
ASSUME AdtsAssumption == Adts # {}

VARIABLES
  disk, offDisk,   \* the files
  loaded,          \* the keys of mmapLoadedTiles
  refs,            \* refs[a]: the nonzero references mmapLoadedTiles has for a
  job,             \* "idle", or the loop being run: "load" or "unload"
  adt,             \* the ADT it is run for
  pos,             \* loadMap: the next blob
  got,             \* loadMap: tileRefs; unloadTile: the references to go
  failed,          \* unloadTile: anyFailed
  ret,             \* what the last call returned
  offKeys,         \* m_loadedTileKeys of OffMeshManager
  conns,           \* conns[a]: copies of a's connections in m_mapOffMeshData
  callback,        \* whether _tileLoadedCallback is set
  depth,           \* _tileLoadBatchDepth
  deferred,        \* _deferredTileLoads
  owed             \* history: ADTs loaded that the host has not been told of

fileVars == <<disk, offDisk>>
jobVars == <<job, adt, pos, got, failed>>
offVars == <<offKeys, conns>>
batchVars == <<callback, depth, deferred, owed>>
mapVars == <<poolVars, fileVars, loaded, refs, jobVars, ret, offVars, batchVars>>

Returned(op, a, ok) == [op |-> op, adt |-> a, ok |-> ok]

-----------------------------------------------------------------------------
(* loadMap                                                                 *)

\* The file opens and its header names a version loadMap knows.
Readable(a) == disk[a].version \in {MMAP_VERSION, MMAP_MULTI_TILE_VERSION}

LoadHit(a) ==
  /\ a \in loaded
  /\ ret' = Returned("load", a, TRUE)
  /\ UNCHANGED <<poolVars, fileVars, loaded, refs, jobVars, offVars, batchVars>>

LoadRefuse(a) ==
  /\ a \notin loaded
  /\ ~Readable(a)
  /\ ret' = Returned("load", a, FALSE)
  /\ UNCHANGED <<poolVars, fileVars, loaded, refs, jobVars, offVars, batchVars>>

LoadBegin(a) ==
  /\ a \notin loaded
  /\ Readable(a)
  /\ Len(deferred) < MaxDeferred
  /\ job' = "load"
  /\ adt' = a
  /\ pos' = 1
  /\ got' = {}
  /\ UNCHANGED <<poolVars, fileVars, loaded, refs, failed, ret, offVars, batchVars>>

LoadMap(a) == LoadHit(a) \/ LoadRefuse(a) \/ LoadBegin(a)

MoreBlobs == pos <= Len(disk[adt].blobs)
Blob == disk[adt].blobs[pos]

\* addTile took the blob, in slot i.
LoadBlob(i) ==
  /\ job = "load"
  /\ MoreBlobs
  /\ Blob \in Locs
  /\ Add(Blob, i)
  /\ got' = got \cup {RefOf(i)}
  /\ pos' = pos + 1
  /\ UNCHANGED <<fileVars, loaded, refs, job, adt, failed, ret, offVars, batchVars>>

\* An empty slot, or addTile failed: the position is taken, no slot is free,
\* or the blob is bad.  A zero reference is pushed.
SkipBlob ==
  /\ job = "load"
  /\ MoreBlobs
  /\ \/ Blob \notin Locs
     \/ Occupied(Blob)
     \/ \A i \in Slots : at[i] # NoLoc
  /\ pos' = pos + 1
  /\ UNCHANGED <<poolVars, fileVars, loaded, refs, job, adt, got, failed, ret, offVars, batchVars>>

\* The file ends in the middle of a blob, or no blob became a tile: nothing is
\* recorded, whatever was added.
LoadGiveUp ==
  /\ job = "load"
  /\ ~MoreBlobs
  /\ disk[adt].cut \/ got = {}
  /\ ret' = Returned("load", adt, got # {})
  /\ job' = "idle"
  /\ got' = {}
  /\ pos' = 1
  /\ UNCHANGED <<poolVars, fileVars, loaded, refs, adt, failed, offVars, batchVars>>

-----------------------------------------------------------------------------
(* LoadTileOffMeshConnections.  The connections go into the set of the map *)
(* before they are injected into the mesh as a tile; dtCreateNavMeshData   *)
(* refuses the parameters InjectConnections gives it (no vertices), so the *)
(* key of a tile with connections is never recorded.                       *)

OffMeshReadable(a) == a \in offKeys \/ offDisk[a] \in {"missing", "empty"}

LoadTileOffMeshConnections(a) ==
  /\ offKeys' = IF offDisk[a] = "empty" THEN offKeys \cup {a} ELSE offKeys
  /\ conns' = IF a \notin offKeys /\ offDisk[a] = "some" /\ conns[a] < MaxConns
                THEN [conns EXCEPT ![a] = @ + 1]
                ELSE conns

LoadTileOffMesh(a) ==
  /\ LoadTileOffMeshConnections(a)
  /\ ret' = Returned("offmesh", a, OffMeshReadable(a))
  /\ UNCHANGED <<poolVars, fileVars, loaded, refs, jobVars, batchVars>>

-----------------------------------------------------------------------------
(* raiseTileLoaded and batches                                             *)

RaiseTileLoaded(a) ==
  /\ deferred' = IF callback /\ depth > 0 THEN Append(deferred, a) ELSE deferred
  /\ owed' = IF callback /\ depth > 0 THEN owed \cup {a} ELSE owed \ {a}
  /\ UNCHANGED <<callback, depth>>

BeginTileLoadBatch ==
  /\ depth < MaxDepth
  /\ depth' = depth + 1
  /\ UNCHANGED <<callback, deferred, owed>>

\* Mutants of EndTileLoadBatch: without the test of the depth; and without
\* the queue.
EndTileLoadBatchUnguarded ==
  /\ depth' = depth - 1
  /\ deferred' = IF depth > 1 THEN deferred ELSE <<>>
  /\ owed' = IF depth > 1 THEN owed ELSE owed \ {deferred[k] : k \in DOMAIN deferred}
  /\ UNCHANGED callback

EndTileLoadBatchNoFlush ==
  /\ depth' = IF depth > 0 THEN depth - 1 ELSE depth
  /\ UNCHANGED <<callback, deferred, owed>>

\* The outermost end empties the queue and calls the callback for each entry.
EndTileLoadBatch ==
  LET d == IF depth > 0 THEN depth - 1 ELSE depth
  IN  /\ depth' = d
      /\ deferred' = IF d > 0 THEN deferred ELSE <<>>
      /\ owed' = IF d > 0 THEN owed ELSE owed \ {deferred[k] : k \in DOMAIN deferred}
      /\ UNCHANGED callback

SetTileLoadedCallback(b) ==
  /\ callback' = b
  /\ owed' = IF b THEN owed ELSE {}
  /\ UNCHANGED <<depth, deferred>>

\* Mutant of LoadRecord: without the test of anyLoaded.
LoadRecordEmpty ==
  /\ job = "load"
  /\ ~MoreBlobs
  /\ ~disk[adt].cut
  /\ loaded' = loaded \cup {adt}
  /\ refs' = [refs EXCEPT ![adt] = got]
  /\ LoadTileOffMeshConnections(adt)
  /\ RaiseTileLoaded(adt)
  /\ ret' = Returned("load", adt, TRUE)
  /\ job' = "idle"
  /\ got' = {}
  /\ pos' = 1
  /\ UNCHANGED <<poolVars, fileVars, adt, failed>>

\* The end of loadMap: every blob has been read and one at least was added.
LoadRecord ==
  /\ job = "load"
  /\ ~MoreBlobs
  /\ ~disk[adt].cut
  /\ got # {}
  /\ loaded' = loaded \cup {adt}
  /\ refs' = [refs EXCEPT ![adt] = got]
  /\ LoadTileOffMeshConnections(adt)
  /\ RaiseTileLoaded(adt)
  /\ ret' = Returned("load", adt, TRUE)
  /\ job' = "idle"
  /\ got' = {}
  /\ pos' = 1
  /\ UNCHANGED <<poolVars, fileVars, adt, failed>>

-----------------------------------------------------------------------------
(* unloadTile                                                              *)

UnloadMiss(a) ==
  /\ a \notin loaded
  /\ ret' = Returned("unload", a, FALSE)
  /\ UNCHANGED <<poolVars, fileVars, loaded, refs, jobVars, offVars, batchVars>>

UnloadBegin(a) ==
  /\ a \in loaded
  /\ job' = "unload"
  /\ adt' = a
  /\ got' = refs[a]
  /\ failed' = FALSE
  /\ UNCHANGED <<poolVars, fileVars, loaded, refs, pos, ret, offVars, batchVars>>

UnloadTile(a) == UnloadMiss(a) \/ UnloadBegin(a)

\* One removeTile: refused when the salt has changed, done when it has not.
\* With the right salt and an empty slot the code would dereference a null
\* header, and there is no step.
UnloadRef(r) ==
  /\ job = "unload"
  /\ r \in got
  /\ IF salt[r.slot] = r.salt THEN Remove(r) ELSE UNCHANGED poolVars
  /\ failed' = (failed \/ salt[r.slot] # r.salt)
  /\ got' = got \ {r}
  /\ UNCHANGED <<fileVars, loaded, refs, job, adt, pos, ret, offVars, batchVars>>

\* Mutants of UnloadErase: the record stays; only the first tile is removed.
UnloadEraseKeeps ==
  /\ job = "unload"
  /\ got = {}
  /\ ret' = Returned("unload", adt, ~failed)
  /\ job' = "idle"
  /\ UNCHANGED <<poolVars, fileVars, loaded, refs, adt, pos, got, failed, offVars, batchVars>>

UnloadEraseFirst ==
  /\ job = "unload"
  /\ got # refs[adt]
  /\ loaded' = loaded \ {adt}
  /\ refs' = [refs EXCEPT ![adt] = {}]
  /\ ret' = Returned("unload", adt, ~failed)
  /\ job' = "idle"
  /\ got' = {}
  /\ UNCHANGED <<poolVars, fileVars, adt, pos, failed, offVars, batchVars>>

UnloadErase ==
  /\ job = "unload"
  /\ got = {}
  /\ loaded' = loaded \ {adt}
  /\ refs' = [refs EXCEPT ![adt] = {}]
  /\ ret' = Returned("unload", adt, ~failed)
  /\ job' = "idle"
  /\ UNCHANGED <<poolVars, fileVars, adt, pos, got, failed, offVars, batchVars>>

-----------------------------------------------------------------------------
\* The loop that is running goes on.
JobStep ==
  \/ \E i \in Slots : LoadBlob(i)
  \/ SkipBlob
  \/ LoadGiveUp
  \/ LoadRecord
  \/ \E r \in got : UnloadRef(r)
  \/ UnloadErase

\* A call that only moves a batch or the callback.
BatchCall ==
  /\ BeginTileLoadBatch \/ EndTileLoadBatch \/ \E b \in BOOLEAN : SetTileLoadedCallback(b)
  /\ UNCHANGED <<poolVars, fileVars, loaded, refs, jobVars, ret, offVars>>

Call ==
  \/ \E a \in Adts : LoadMap(a) \/ UnloadTile(a) \/ LoadTileOffMesh(a)
  \/ BatchCall

MapInit ==
  /\ PoolInit
  /\ disk \in Disks
  /\ offDisk \in OffDisks
  /\ loaded = {}
  /\ refs = [a \in Adts |-> {}]
  /\ job = "idle"
  /\ adt = CHOOSE a \in Adts : TRUE
  /\ pos = 1
  /\ got = {}
  /\ failed = FALSE
  /\ ret = Returned("none", adt, FALSE)
  /\ offKeys = {}
  /\ conns = [a \in Adts |-> 0]
  /\ callback = FALSE
  /\ depth = 0
  /\ deferred = <<>>
  /\ owed = {}

MapNext ==
  \/ job # "idle" /\ JobStep
  \/ job = "idle" /\ Call

MapSpec == MapInit /\ [][MapNext]_mapVars

-----------------------------------------------------------------------------
MapTypeOK ==
  /\ PoolTypeOK
  /\ disk \in [Adts -> File]
  /\ offDisk \in [Adts -> OffFile]
  /\ loaded \subseteq Adts
  /\ refs \in [Adts -> SUBSET Ref]
  /\ job \in {"idle", "load", "unload"}
  /\ adt \in Adts
  /\ pos \in Nat \ {0}
  /\ got \subseteq Ref
  /\ failed \in BOOLEAN
  /\ ret \in [op : {"none", "load", "unload", "offmesh"}, adt : Adts, ok : BOOLEAN]
  /\ offKeys \subseteq Adts
  /\ conns \in [Adts -> 0..MaxConns]
  /\ callback \in BOOLEAN
  /\ depth \in 0..MaxDepth
  /\ deferred \in Seq(Adts)
  /\ owed \subseteq Adts

\* The references recorded for a that have not been given back.
Held(a) == IF job = "unload" /\ a = adt THEN got ELSE refs[a]

\* Every reference the manager holds is accepted by the mesh and is to the
\* tile it was given for: mmapLoadedTiles never has a reference that went
\* stale.  While an ADT is unloaded that is so for what is left of it.
RecordedRefsLive ==
  /\ \A a \in Adts : \A r \in Held(a) : Live(r)
  /\ \A r \in got : Live(r)

\* No tile belongs to two ADTs, or to an ADT and to the load in progress:
\* unloading one never removes tiles of another.
RefsExclusive ==
  /\ \A a, b \in Adts : a # b => Held(a) \cap Held(b) = {}
  /\ job = "load" => \A a \in Adts : got \cap refs[a] = {}

\* An ADT is recorded exactly when it has a tile to its name.
LoadedHasTiles == \A a \in Adts : a \in loaded <=> refs[a] # {}

\* removeTile accepts every reference unloadTile passes to it: anyFailed stays
\* false, and UnloadTile_C returns true for every ADT that was loaded.
UnloadNeverFails == ~failed

\* The tiles in the mesh are those of the recorded ADTs and of the load in
\* progress, except what a file that was cut short left behind.
LeftBehind(l) ==
  \E a \in Adts : disk[a].cut /\ \E k \in DOMAIN disk[a].blobs : disk[a].blobs[k] = l

TilesAreOwned ==
  \A i \in Slots : at[i] # NoLoc =>
    \/ \E a \in Adts : RefOf(i) \in Held(a)
    \/ RefOf(i) \in got
    \/ LeftBehind(at[i])

\* Nothing waits in the queue, and no load is still to be told of, once the
\* last batch has ended: a callback is delayed by a batch, never lost by it.
NothingLeftUntold == depth = 0 => deferred = <<>> /\ owed = {}

-----------------------------------------------------------------------------
(* What the documentation says, for runs in which it is violated.          *)

\* README: IsTileLoaded_C is true even when only some sub-tiles are resident.
DocPartialAdtIsLoaded ==
  job = "idle" =>
    \A a \in Adts \ loaded : \A k \in DOMAIN disk[a].blobs :
      disk[a].blobs[k] \in Locs => ~Occupied(disk[a].blobs[k])

\* README: LoadTileOffMesh_C force-loads the off-mesh connections of a tile,
\* here of one whose ADT is in the mesh.
DocOffMeshIsLoaded ==
  ret.op = "offmesh" /\ ret.adt \in loaded /\ offDisk[ret.adt] = "some" => ret.ok
=============================================================================
