------------------------------ MODULE NavMesh ------------------------------
(***************************************************************************)
(* dtNavMesh as it is built: an array of tiles whose "next" field threads  *)
(* a free tile on the free list and a used one on a chain of the position  *)
(* hash, and the links addTile makes between neighbours and removeTile     *)
(* takes out again.  One link stands for all the links of a tile to one    *)
(* neighbour.  Calls that fail (ALREADY_OCCUPIED, OUT_OF_MEMORY, a stale   *)
(* or null reference) return before they change anything: they are         *)
(* stuttering steps.                                                       *)
(***************************************************************************)
EXTENDS Integers, FiniteSets

CONSTANTS
  MaxTiles,   \* m_maxTiles
  LutSize,    \* m_tileLutSize
  MaxSalt,    \* largest salt
  Cells,      \* <<x, y>> positions that tiles of the map can have
  Layers,     \* layers of one cell
  MaxNeis,    \* MAX_NEIS, 32 in the code: tiles taken from one cell
  LinkCap,    \* LinkCap[l]: links to other tiles that the link pool of the
              \* tile for l can hold, from header->maxLinkCount
  Restoring   \* whether the caller gives addTile a lastRef to restore

Slots == 0..(MaxTiles - 1)
Nil == -1
Locs == [x : {c[1] : c \in Cells}, y : {c[2] : c \in Cells}, layer : Layers]
NoLoc == [x |-> 0, y |-> 0, layer |-> Nil]

ASSUME MaxTilesAssumption == MaxTiles \in Nat \ {0}
ASSUME SaltAssumption == MaxSalt \in Nat \ {0}
ASSUME CellsAssumption == Cells \subseteq Int \X Int
ASSUME LayersAssumption == Nil \notin Layers
ASSUME LinkCapAssumption == LinkCap \in [Locs -> Nat]
\* dtNextPow2(maxTiles/4), maxTiles being an int; for a power of two, and only
\* then, h & m_tileLutMask is h % LutSize.
ASSUME LutSizeAssumption == LutSize \in Nat \ {0} /\ \E k \in 0..29 : LutSize = 2^k
\* With more layers in one cell than MAX_NEIS some would never be linked.
ASSUME MaxNeisAssumption ==
  IsFiniteSet(Layers) /\ MaxNeis \in Nat /\ Cardinality(Layers) <= MaxNeis

VARIABLES
  salt,       \* m_tiles[i].salt
  header,     \* m_tiles[i].header, or NoLoc when it is null
  next,       \* m_tiles[i].next
  nextFree,   \* m_nextFree
  posLookup,  \* m_posLookup
  links,      \* links[i]: the references the links of tile i lead to
  stale       \* history, as in TilePool

vars == <<salt, header, next, nextFree, posLookup, links, stale>>

Pool == INSTANCE TilePool WITH at <- header

\* 65536 * hi + lo, masked.
Masked(hi, lo) == ((hi % LutSize) * (65536 % LutSize) + lo) % LutSize

\* 0x8da6b343 * x + 0xd8163841 * y, masked; the factors are given in halves.
ComputeTileHash(x, y) ==
  (Masked(36262, 45891) * (x % LutSize) + Masked(55318, 14401) * (y % LutSize)) % LutSize

-----------------------------------------------------------------------------
(* Walking a list that starts at head and is threaded through nxt.         *)

\* The k-th tile after head, for k up to the length no list can reach.
Walk(head, nxt) ==
  LET nth[k \in 0..MaxTiles] ==
        IF k = 0 THEN head
        ELSE IF nth[k-1] = Nil THEN Nil
        ELSE nxt[nth[k-1]]
  IN  nth

Members(head, nxt) == {Walk(head, nxt)[k] : k \in 0..MaxTiles} \ {Nil}

Ends(head, nxt) == Walk(head, nxt)[MaxTiles] = Nil

\* Take t out of the list: the new head, and the new threading.
UnlinkHead(head, nxt, t) == IF head = t THEN nxt[t] ELSE head

\* Mutant of UnlinkNext: prev->next is not patched.
UnlinkNextHeadOnly(head, nxt, t) == nxt

UnlinkNext(head, nxt, t) ==
  [p \in Slots |-> IF p \in Members(head, nxt) /\ nxt[p] = t THEN nxt[t] ELSE nxt[p]]

-----------------------------------------------------------------------------
(* Lookups by position.                                                    *)

\* The places along a chain where there is a tile at (x, y).
Hits(chain, hdr, x, y) ==
  {k \in 0..MaxTiles : /\ chain[k] # Nil
                       /\ hdr[chain[k]] # NoLoc
                       /\ hdr[chain[k]].x = x
                       /\ hdr[chain[k]].y = y}

\* getTilesAt on the chains of lut and nxt: the first MaxNeis of them.
TilesAt(lut, nxt, hdr, x, y) ==
  LET chain == Walk(lut[ComputeTileHash(x, y)], nxt)
      hits == Hits(chain, hdr, x, y)
  IN  {chain[k] : k \in {j \in hits : Cardinality({i \in hits : i < j}) < MaxNeis}}

\* Mutant of GetTileAt: only the head of the chain is looked at.
GetTileAtHead(l) ==
  {t \in {posLookup[ComputeTileHash(l.x, l.y)]} \ {Nil} : header[t] = l}

GetTileAt(l) ==
  {t \in Members(posLookup[ComputeTileHash(l.x, l.y)], next) : header[t] = l}

\* Where getNeighbourTilesAt looks on its eight sides, and the cell itself.
Around == {-1, 0, 1} \X {-1, 0, 1}

\* The tiles that addTile connects to tile t at l and that removeTile
\* disconnects from it: the other layers of the cell and the eight sides.
Neighbours(lut, nxt, hdr, t, l) ==
  (UNION {TilesAt(lut, nxt, hdr, l.x + d[1], l.y + d[2]) : d \in Around}) \ {t}

\* What a tile at l can link to: as many of its neighbours as its link pool has
\* room for before allocLink gives nothing.
OwnLinks(l, nbs) ==
  {own \in SUBSET {[slot |-> u, salt |-> salt[u]] : u \in nbs} :
     Cardinality(own) = IF Cardinality(nbs) < LinkCap[l] THEN Cardinality(nbs) ELSE LinkCap[l]}

\* Mutant of Connected: the neighbours do not link back.
ConnectedOneWay(t, own, ref, nbs) == [links EXCEPT ![t] = own]

\* connectExtLinks and connectExtOffMeshLinks between tile t, just added, and
\* the tiles of nbs.
Connected(t, own, ref, nbs) ==
  [u \in Slots |->
     IF u = t THEN own
     ELSE IF u \in nbs /\ Cardinality(links[u]) < LinkCap[header[u]] THEN links[u] \cup {ref}
     ELSE links[u]]

\* Mutant of Unconnected: the links of the neighbours stay.
UnconnectedOwn(t, nbs) == [links EXCEPT ![t] = {}]

\* unconnectLinks goes by the index of the tile, not by its reference.
Unconnected(t, nbs) ==
  [u \in Slots |->
     IF u = t THEN {}
     ELSE IF u \in nbs THEN {r \in links[u] : r.slot # t}
     ELSE links[u]]

-----------------------------------------------------------------------------
Init ==
  /\ salt = [i \in Slots |-> 1]
  /\ header = [i \in Slots |-> NoLoc]
  /\ next = [i \in Slots |-> IF i + 1 < MaxTiles THEN i + 1 ELSE Nil]
  /\ nextFree = 0
  /\ posLookup = [h \in 0..(LutSize - 1) |-> Nil]
  /\ links = [i \in Slots |-> {}]
  /\ stale = {}

\* Put tile t, already off the free list with next fields nxt, at l.
Insert(t, l, nxt, s) ==
  LET h == ComputeTileHash(l.x, l.y)
      chained == [nxt EXCEPT ![t] = posLookup[h]]
      lut == [posLookup EXCEPT ![h] = t]
      hdr == [header EXCEPT ![t] = l]
      nbs == Neighbours(lut, chained, hdr, t, l)
  IN  /\ next' = chained
      /\ posLookup' = lut
      /\ header' = hdr
      /\ \E own \in OwnLinks(l, nbs) : links' = Connected(t, own, [slot |-> t, salt |-> s], nbs)

\* addTile with lastRef == 0: the tile at the head of the free list.
AddTile(l) ==
  /\ GetTileAt(l) = {}
  /\ nextFree # Nil
  /\ nextFree' = next[nextFree]
  /\ Insert(nextFree, l, next, salt[nextFree])
  /\ UNCHANGED <<salt, stale>>

\* addTile with a lastRef: that tile, wherever it is on the free list, and its
\* old salt back.
RestoreTile(l, e) ==
  /\ Restoring
  /\ e.age = 1
  /\ GetTileAt(l) = {}
  /\ e.slot \in Members(nextFree, next)
  /\ nextFree' = UnlinkHead(nextFree, next, e.slot)
  /\ salt' = [salt EXCEPT ![e.slot] = e.salt]
  /\ Insert(e.slot, l, UnlinkNext(nextFree, next, e.slot), e.salt)
  /\ stale' = {f \in stale : f.slot # e.slot}
                \cup {[f EXCEPT !.age = @ - 1] : f \in {g \in stale : g.slot = e.slot /\ g.age > 1}}

\* removeTile: out of the hash, the links to it out of the neighbours, the
\* next salt, and onto the free list.
RemoveTile(r) ==
  LET t == r.slot
      l == header[t]
      h == ComputeTileHash(l.x, l.y)
      lut == [posLookup EXCEPT ![h] = UnlinkHead(@, next, t)]
      unhashed == UnlinkNext(posLookup[h], next, t)
  IN  /\ salt[t] = r.salt
      /\ l # NoLoc
      /\ posLookup' = lut
      /\ links' = Unconnected(t, Neighbours(lut, unhashed, header, t, l))
      /\ header' = [header EXCEPT ![t] = NoLoc]
      /\ salt' = [salt EXCEPT ![t] = Pool!NextSalt(@)]
      /\ next' = [unhashed EXCEPT ![t] = nextFree]
      /\ nextFree' = t
      /\ stale' = Pool!Aged(t)
                    \cup (IF MaxSalt > 1
                            THEN {[slot |-> t, salt |-> r.salt, age |-> 1]}
                            ELSE {})

Next ==
  \/ \E l \in Locs : AddTile(l)
  \/ \E l \in Locs, e \in stale : RestoreTile(l, e)
  \/ \E r \in Pool!Ref : RemoveTile(r)

Spec == Init /\ [][Next]_vars

-----------------------------------------------------------------------------
TypeOK ==
  /\ Pool!PoolTypeOK
  /\ next \in [Slots -> Slots \cup {Nil}]
  /\ nextFree \in Slots \cup {Nil}
  /\ posLookup \in [0..(LutSize - 1) -> Slots \cup {Nil}]
  /\ \A i \in Slots : links[i] \subseteq Pool!Ref

\* A tile is on exactly one list: the free list when it is empty and the chain
\* of its own hash when it is not; no list has a cycle.  One "next" field
\* serves both lists, so an unlink that missed would splice them together.
ListsPartitionTiles ==
  /\ Ends(nextFree, next)
  /\ Members(nextFree, next) = {i \in Slots : header[i] = NoLoc}
  /\ \A h \in 0..(LutSize - 1) :
       /\ Ends(posLookup[h], next)
       /\ Members(posLookup[h], next) =
            {i \in Slots : header[i] # NoLoc /\ ComputeTileHash(header[i].x, header[i].y) = h}

Adjacent(l, m) ==
  /\ l # m
  /\ <<m.x - l.x, m.y - l.y>> \in Around

\* No link dangles: findPath and findStraightPath follow links with
\* getTileAndPolyByRefUnsafe, which checks nothing.  Every link of every tile
\* leads to a tile that is there, under its present salt, next to it.
LinksAreLive ==
  \A i \in Slots : \A r \in links[i] :
    /\ Pool!Live(r)
    /\ header[i] # NoLoc
    /\ Adjacent(header[i], header[r.slot])

\* Two neighbouring tiles are linked both ways, whichever came first and
\* however often either was removed and added back, but for links from a tile
\* whose link pool has no room for all its neighbours.
NeighboursAreLinked ==
  \A i, j \in Slots :
    /\ header[i] # NoLoc
    /\ header[j] # NoLoc
    /\ Adjacent(header[i], header[j])
    /\ LinkCap[header[i]] >= Cardinality({m \in Locs : Adjacent(header[i], m)})
    => Pool!RefOf(j) \in links[i]

\* dtNavMesh keeps what TilePool promises.
ImplementsTilePool == Pool!PoolSpec
=============================================================================
