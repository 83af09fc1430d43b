--------------------------- MODULE TileStreaming ---------------------------
(***************************************************************************)
(* Navigation as the owner of MMapManager: the access times of tiles, the  *)
(* garbage collection that starts a path request, EnsureTiles, the tile    *)
(* loader that the query calls while it searches, and the batch around a   *)
(* search.  The host calls one function at a time; a call is a sequence of *)
(* phases, and inside a phase the loops of MoveMap run to their end.       *)
(*                                                                         *)
(* Time is counted in ticks between calls; a tile's age is the number of   *)
(* ticks since its access time, and all ages past the timeout are one.     *)
(***************************************************************************)
EXTENDS MoveMap

CONSTANTS
  Timeout,  \* TILE_GC_TIMEOUT_MS in ticks
  Ring,     \* Ring[c]: the grid squares around c within the grid, ring = 1
  Ahead,    \* Ahead[c]: the squares EnsureTilesDirectional adds
  AdtOf,    \* AdtOf[l]: WorldToTile of the middle of Detour cell l
  NextTo    \* NextTo[l]: the four cells at the sides of l

ASSUME TimeoutAssumption == Timeout \in Nat
ASSUME GridAssumption ==
  /\ Ring \in [Adts -> SUBSET Adts]
  /\ Ahead \in [Adts -> SUBSET Adts]
  /\ AdtOf \in [Locs -> Adts]
  /\ NextTo \in [Locs -> SUBSET Locs]

VARIABLES
  tracked,  \* the keys of _tileAccessTime
  age,      \* now - _tileAccessTime[a]
  phase,    \* where the host's call is
  op,       \* which call: "path", "sliced" (Init), "update" or "ensure"
  todo,     \* the squares EnsureTiles has still to visit
  wanted    \* history: all squares the call ensures

streamVars == <<tracked, age, phase, op, todo, wanted>>
allVars == <<mapVars, streamVars>>

Expired(a) == a \in tracked /\ age[a] > Timeout

Touch(a) ==
  /\ tracked' = tracked \cup {a}
  /\ age' = [age EXCEPT ![a] = 0]

Ready == job = "idle"

\* What is local to a call goes with it.
CallEnds == op' = "none" /\ wanted' = {}

-----------------------------------------------------------------------------
(* Calls of the host                                                       *)

\* CalculatePath, CalculatePathEx and InitSlicedFindPath from s to e.
StartPath(s, e, o) ==
  /\ phase = "none"
  /\ phase' = "gc"
  /\ op' = o
  /\ todo' = Ring[s] \cup Ring[e]
  /\ wanted' = Ring[s] \cup Ring[e]
  /\ UNCHANGED <<mapVars, tracked, age>>

\* EnsureTiles, on its own or in front of a query that loads nothing.
StartEnsure(squares) ==
  /\ phase = "none"
  /\ phase' = "ensure"
  /\ op' = "ensure"
  /\ todo' = squares
  /\ wanted' = squares
  /\ UNCHANGED <<mapVars, tracked, age>>

\* UpdateSlicedFindPath searches outside any batch.
StartUpdate ==
  /\ phase = "none"
  /\ phase' = "search"
  /\ op' = "update"
  /\ wanted' = {}
  /\ UNCHANGED <<mapVars, tracked, age, todo>>

\* UnloadTile leaves the access time.
HostUnload(a) ==
  /\ phase = "none"
  /\ UnloadTile(a)
  /\ UNCHANGED streamVars

HostCallback(b) ==
  /\ phase = "none"
  /\ SetTileLoadedCallback(b)
  /\ UNCHANGED <<poolVars, fileVars, loaded, refs, jobVars, ret, offVars, streamVars>>

Tick ==
  /\ phase = "none"
  /\ age' = [a \in Adts |-> IF a \in tracked /\ age[a] <= Timeout THEN age[a] + 1 ELSE age[a]]
  /\ UNCHANGED <<mapVars, tracked, phase, op, todo, wanted>>

-----------------------------------------------------------------------------
(* Phases of a call                                                        *)

\* Mutant of GcUnload: a key is dropped and its tile kept.
GcForget(a) ==
  /\ phase = "gc"
  /\ Expired(a)
  /\ tracked' = tracked \ {a}
  /\ UNCHANGED <<mapVars, age, phase, op, todo, wanted>>

\* GarbageCollectTiles: an expired key, in no particular order.  Whether or
\* not its tile is loaded, the key goes.
GcUnload(a) ==
  /\ phase = "gc"
  /\ Expired(a)
  /\ UnloadTile(a)
  /\ tracked' = tracked \ {a}
  /\ UNCHANGED <<age, phase, op, todo, wanted>>

\* Mutant of GcDone: collection stops after the first tile.
GcDoneEarly ==
  /\ phase = "gc"
  /\ phase' = "ensure"
  /\ UNCHANGED <<mapVars, tracked, age, op, todo, wanted>>

GcDone ==
  /\ phase = "gc"
  /\ \A a \in Adts : ~Expired(a)
  /\ phase' = "ensure"
  /\ UNCHANGED <<mapVars, tracked, age, op, todo, wanted>>

\* Mutant of EnsureTile: the access time is set and the tile not loaded.
EnsureTileStampOnly(a) ==
  /\ phase = "ensure"
  /\ a \in todo
  /\ Touch(a)
  /\ todo' = todo \ {a}
  /\ UNCHANGED <<mapVars, phase, op, wanted>>

\* One square of EnsureTiles: the access time first, then loadMap, whose
\* result is ignored.
EnsureTile(a) ==
  /\ phase = "ensure"
  /\ a \in todo
  /\ Touch(a)
  /\ LoadMap(a)
  /\ todo' = todo \ {a}
  /\ UNCHANGED <<phase, op, wanted>>

\* Every square has been visited: a path request opens a batch and searches.
EnsureDone ==
  /\ phase = "ensure"
  /\ todo = {}
  /\ phase' = IF op = "path" THEN "search" ELSE "none"
  /\ wanted' = IF op = "path" THEN wanted ELSE {}
  /\ IF op = "path"
       THEN /\ BeginTileLoadBatch
            /\ UNCHANGED <<poolVars, fileVars, loaded, refs, jobVars, ret, offVars>>
       ELSE UNCHANGED mapVars
  /\ UNCHANGED <<tracked, age, op, todo>>

\* loadNeighbourTiles found no tile in a cell beside tile i: LoadTileForDetour.
SearchMeets(a) ==
  /\ phase = "search"
  /\ \E i \in Slots : at[i] # NoLoc /\ \E l \in NextTo[at[i]] : ~Occupied(l) /\ AdtOf[l] = a

\* The ADT is loaded and has no tile there; only its access time moves.
SearchTouch(a) ==
  /\ SearchMeets(a)
  /\ a \in loaded
  /\ age' = IF a \in tracked THEN [age EXCEPT ![a] = 0] ELSE age
  /\ UNCHANGED <<mapVars, tracked, phase, op, todo, wanted>>

\* Mutant of SearchLoad: room is made for the tile first.
SearchLoadEvicting(a) ==
  /\ SearchMeets(a)
  /\ \E b \in loaded : UnloadTile(b)
  /\ UNCHANGED streamVars

SearchLoad(a) ==
  /\ SearchMeets(a)
  /\ a \notin loaded
  /\ LoadMap(a)
  /\ phase' = "stamp"
  /\ UNCHANGED <<tracked, age, op, todo, wanted>>

\* loadMap has returned to LoadTileForDetour.
SearchStamp ==
  /\ phase = "stamp"
  /\ phase' = "search"
  /\ IF ret.ok THEN Touch(ret.adt) ELSE UNCHANGED <<tracked, age>>
  /\ UNCHANGED <<mapVars, op, todo, wanted>>

\* Mutant of SearchDone: the batch is left open.
SearchDoneNoEnd ==
  /\ phase = "search"
  /\ phase' = "none"
  /\ CallEnds
  /\ UNCHANGED <<mapVars, tracked, age, todo>>

SearchDone ==
  /\ phase = "search"
  /\ phase' = "none"
  /\ IF op = "path"
       THEN /\ EndTileLoadBatch
            /\ UNCHANGED <<poolVars, fileVars, loaded, refs, jobVars, ret, offVars>>
       ELSE UNCHANGED mapVars
  /\ CallEnds
  /\ UNCHANGED <<tracked, age, todo>>

-----------------------------------------------------------------------------
StreamInit ==
  /\ MapInit
  /\ tracked = {}
  /\ age = [a \in Adts |-> 0]
  /\ phase = "none"
  /\ op = "none"
  /\ todo = {}
  /\ wanted = {}

HostCall ==
  \/ \E s, e \in Adts, o \in {"path", "sliced"} : StartPath(s, e, o)
  \/ \E c \in Adts : StartEnsure(Ring[c]) \/ StartEnsure(Ring[c] \cup Ahead[c])
  \/ StartUpdate
  \/ \E a \in Adts : HostUnload(a)
  \/ \E b \in BOOLEAN : HostCallback(b)
  \/ Tick

PhaseStep ==
  \/ \E a \in Adts : GcUnload(a) \/ EnsureTile(a) \/ SearchTouch(a) \/ SearchLoad(a)
  \/ GcDone
  \/ EnsureDone
  \/ SearchStamp
  \/ SearchDone

StreamNext ==
  \/ ~Ready /\ JobStep /\ UNCHANGED streamVars
  \/ Ready /\ (HostCall \/ PhaseStep)

StreamSpec == StreamInit /\ [][StreamNext]_allVars

-----------------------------------------------------------------------------
StreamTypeOK ==
  /\ MapTypeOK
  /\ tracked \subseteq Adts
  /\ age \in [Adts -> 0..(Timeout + 1)]
  /\ phase \in {"none", "gc", "ensure", "search", "stamp"}
  /\ op \in {"none", "path", "sliced", "update", "ensure"}
  /\ todo \subseteq Adts
  /\ wanted \subseteq Adts

\* Every loaded ADT has an access time, so that garbage collection can find
\* it: there are two ways for an ADT to be loaded and two to be unloaded, and
\* mmapLoadedTiles and _tileAccessTime belong to different classes.
LoadedIsTracked ==
  \A a \in loaded :
    \/ a \in tracked
    \/ job = "unload" /\ adt = a
    \/ phase = "stamp" /\ Ready /\ ret.adt = a /\ ret.ok

\* When a path request begins to load tiles, every ADT still loaded was used
\* within the timeout.
CollectedBeforeLoading ==
  phase \in {"ensure", "search"} /\ op \in {"path", "sliced"} =>
    \A a \in loaded : a \in tracked /\ age[a] <= Timeout

\* loadMap of a gives at least one tile, if there is room for one.
Loadable(a) ==
  /\ Readable(a)
  /\ ~disk[a].cut
  /\ \E k \in DOMAIN disk[a].blobs : disk[a].blobs[k] \in Locs

\* A search starts with the squares around both ends loaded, unless the mesh
\* is full: collection, which runs in the same call, took none of them away.
SearchHasItsTiles ==
  phase = "search" /\ op = "path" =>
    \A a \in wanted : Loadable(a) => a \in loaded \/ \A i \in Slots : at[i] # NoLoc

\* A tile waits for its callback at most until the call that loaded it ends,
\* waits once, and is still loaded when the host is told of it.
CallbacksAreTimely ==
  /\ phase = "none" /\ Ready => depth = 0 /\ deferred = <<>>
  /\ \A k \in DOMAIN deferred :
       /\ deferred[k] \in loaded
       /\ \A m \in DOMAIN deferred : deferred[m] = deferred[k] => m = k

\* No tile is removed, and none changes its salt, while a search is under way:
\* the search holds bare pointers and unchecked references to tiles.
SearchKeepsTiles ==
  [][ (phase \in {"search", "stamp"} /\ phase' \in {"search", "stamp"}) =>
        \A i \in Slots : at[i] # NoLoc => at'[i] = at[i] /\ salt'[i] = salt[i] ]_allVars
=============================================================================
