--------------------------- MODULE NavMesh_proofs ---------------------------
(***************************************************************************)
(* The free list and the hash chains of dtNavMesh part the tiles between   *)
(* them, dtNavMesh implements TilePool, so that TilePool's theorems hold   *)
(* of it, and its links lead to every tile next to a tile and nowhere      *)
(* else: for any number of tiles, cells, layers and chains, any salt width *)
(* and any link pools.                                                     *)
(***************************************************************************)
EXTENDS NavMesh, Lemmas

-----------------------------------------------------------------------------
(* Lists.                                                                  *)

NoCircle(nxt, S) == \A T \in SUBSET S : T # {} => \E t \in T : nxt[t] \notin T

ReachesAll(head, nxt, S) ==
  \A T \in SUBSET S : head \in T /\ (\A t \in T : nxt[t] \in T \cup {Nil}) => T = S

\* head is the first of the elements of S and nxt leads through all of them,
\* each once.  Unlike Members this needs no walk.
IsList(head, nxt, S) ==
  /\ head \in S \cup {Nil} /\ Nil \notin S
  /\ head = Nil => S = {}
  /\ \A t \in S : nxt[t] \in S \cup {Nil} /\ nxt[t] # head
  /\ \A t, u \in S : nxt[t] = nxt[u] /\ nxt[t] # Nil => t = u
  /\ NoCircle(nxt, S)
  /\ ReachesAll(head, nxt, S)

LEMMA ListFrame ==
  ASSUME NEW head, NEW nxt, NEW S, IsList(head, nxt, S), NEW new, \A t \in S : new[t] = nxt[t]
  PROVE  IsList(head, new, S)
<1>1. NoCircle(new, S)
  <2> SUFFICES ASSUME NEW T \in SUBSET S, T # {} PROVE \E t \in T : new[t] \notin T
    BY DEF NoCircle
  <2>1. PICK t \in T : nxt[t] \notin T
    BY DEF IsList, NoCircle
  <2>2. QED
    BY <2>1
<1>2. ReachesAll(head, new, S)
  <2> SUFFICES ASSUME NEW T \in SUBSET S, head \in T, \A t \in T : new[t] \in T \cup {Nil} PROVE T = S
    BY DEF ReachesAll
  <2>1. \A t \in T : nxt[t] \in T \cup {Nil}
    OBVIOUS
  <2>2. QED
    BY <2>1 DEF IsList, ReachesAll
<1>3. QED
  BY <1>1, <1>2 DEF IsList

\* A tile put in front.
LEMMA ListPush ==
  ASSUME NEW head, NEW nxt, NEW S, IsList(head, nxt, S),
         NEW t, t \notin S, t # Nil, NEW new, new[t] = head, \A u \in S : new[u] = nxt[u]
  PROVE  IsList(t, new, S \cup {t})
<1>1. \A u \in S \cup {t} : new[u] \in S \cup {Nil} /\ new[u] # t
  BY DEF IsList
<1>2. \A u, v \in S \cup {t} : new[u] = new[v] /\ new[u] # Nil => u = v
  BY DEF IsList
<1>3. NoCircle(new, S \cup {t})
  <2> SUFFICES ASSUME NEW T \in SUBSET (S \cup {t}), T # {}, \A u \in T : new[u] \in T PROVE FALSE
    BY DEF NoCircle
  <2>1. T \ {t} \in SUBSET S
    OBVIOUS
  <2>2. \A u \in T \ {t} : nxt[u] \in T \ {t}
    BY <1>1
  <2>3. T \ {t} = {}
    BY <2>1, <2>2 DEF IsList, NoCircle
  <2>4. t \in T /\ new[t] # t
    BY <1>1, <2>3
  <2>5. QED
    BY <2>3, <2>4
<1>4. ReachesAll(t, new, S \cup {t})
  <2> SUFFICES ASSUME NEW T \in SUBSET (S \cup {t}), t \in T, \A u \in T : new[u] \in T \cup {Nil}
               PROVE  S \subseteq T
    BY DEF ReachesAll
  <2>1. CASE head = Nil
    BY <2>1 DEF IsList
  <2>2. CASE head # Nil
    <3>1. T \ {t} \in SUBSET S /\ head \in T \ {t}
      BY <2>2 DEF IsList
    <3>2. \A u \in T \ {t} : nxt[u] \in (T \ {t}) \cup {Nil}
      BY <1>1
    <3>3. T \ {t} = S
      BY <3>1, <3>2 DEF IsList, ReachesAll
    <3>4. QED
      BY <3>3
  <2>3. QED
    BY <2>1, <2>2
<1>5. QED
  BY <1>1, <1>2, <1>3, <1>4 DEF IsList

\* A tile taken out, from the front or from within.
LEMMA ListUnlink ==
  ASSUME NEW head, NEW nxt, NEW S, IsList(head, nxt, S), NEW t \in S,
         NEW new, \A u \in S \ {t} : new[u] = IF nxt[u] = t THEN nxt[t] ELSE nxt[u]
  PROVE  IsList(UnlinkHead(head, nxt, t), new, S \ {t})
<1> DEFINE first == UnlinkHead(head, nxt, t)
<1>1. /\ head \in S /\ Nil \notin S
      /\ \A u \in S : nxt[u] \in S \cup {Nil} /\ nxt[u] # head
      /\ \A u, v \in S : nxt[u] = nxt[v] /\ nxt[u] # Nil => u = v
  BY DEF IsList
<1>2. nxt[t] # t
  <2>1. {t} \in SUBSET S /\ {t} # {}
    OBVIOUS
  <2>2. \E u \in {t} : nxt[u] \notin {t}
    BY <2>1 DEF IsList, NoCircle
  <2>3. QED
    BY <2>2
<1>3. first = IF head = t THEN nxt[t] ELSE head
  BY DEF UnlinkHead
<1>4. first \in (S \ {t}) \cup {Nil}
  BY <1>1, <1>2, <1>3
<1>5. first = Nil => S \ {t} = {}
  <2> SUFFICES ASSUME first = Nil PROVE {t} = S
    OBVIOUS
  <2>1. head = t /\ nxt[t] = Nil
    BY <1>1, <1>3
  <2>2. {t} \in SUBSET S /\ head \in {t} /\ \A u \in {t} : nxt[u] \in {t} \cup {Nil}
    BY <2>1
  <2>3. QED
    BY <2>2 DEF IsList, ReachesAll
<1>6. \A u \in S \ {t} : new[u] \in (S \ {t}) \cup {Nil}
  BY <1>1, <1>2
<1>7. \A u \in S \ {t} : new[u] # first
  <2> SUFFICES ASSUME NEW u \in S \ {t}, new[u] = first PROVE FALSE
    OBVIOUS
  <2>1. CASE head = t
    <3>1. nxt[u] # t /\ nxt[u] = nxt[t]
      BY <1>1, <1>3, <2>1
    <3>2. nxt[t] = Nil
      BY <1>1, <3>1
    <3>3. S \ {t} = {}
      BY <1>3, <1>5, <2>1, <3>2
    <3>4. QED
      BY <3>3
  <2>2. CASE head # t
    BY <1>1, <1>3, <2>2
  <2>3. QED
    BY <2>1, <2>2
<1>8. \A u, v \in S \ {t} : new[u] = new[v] /\ new[u] # Nil => u = v
  <2> SUFFICES ASSUME NEW u \in S \ {t}, NEW v \in S \ {t}, new[u] = new[v], new[u] # Nil
               PROVE  u = v
    OBVIOUS
  <2>1. CASE nxt[u] = t /\ nxt[v] = t
    BY <1>1, <2>1
  <2>2. CASE nxt[u] = t /\ nxt[v] # t
    BY <1>1, <2>2
  <2>3. CASE nxt[u] # t /\ nxt[v] = t
    BY <1>1, <2>3
  <2>4. CASE nxt[u] # t /\ nxt[v] # t
    BY <1>1, <2>4
  <2>5. QED
    BY <2>1, <2>2, <2>3, <2>4
<1>9. NoCircle(new, S \ {t})
  <2> SUFFICES ASSUME NEW T \in SUBSET (S \ {t}), T # {}, \A u \in T : new[u] \in T PROVE FALSE
    BY DEF NoCircle
  <2>1. CASE \E u \in T : nxt[u] = t
    <3>1. nxt[t] \in T
      BY <2>1
    <3>2. T \cup {t} \in SUBSET S /\ \A u \in T \cup {t} : nxt[u] \in T \cup {t}
      BY <3>1
    <3>3. QED
      BY <3>2 DEF IsList, NoCircle
  <2>2. CASE \A u \in T : nxt[u] # t
    <3>1. T \in SUBSET S /\ \A u \in T : nxt[u] \in T
      BY <2>2
    <3>2. QED
      BY <3>1 DEF IsList, NoCircle
  <2>3. QED
    BY <2>1, <2>2
<1>10. ReachesAll(first, new, S \ {t})
  <2> SUFFICES ASSUME NEW T \in SUBSET (S \ {t}), first \in T, \A u \in T : new[u] \in T \cup {Nil}
               PROVE  T = S \ {t}
    BY DEF ReachesAll
  <2>1. CASE head = t \/ \E u \in T : nxt[u] = t
    <3>1. nxt[t] \in T \cup {Nil}
      BY <1>3, <2>1
    <3>2. T \cup {t} \in SUBSET S /\ head \in T \cup {t}
      BY <1>3
    <3>3. \A u \in T \cup {t} : nxt[u] \in (T \cup {t}) \cup {Nil}
      BY <3>1
    <3>4. T \cup {t} = S
      BY <3>2, <3>3 DEF IsList, ReachesAll
    <3>5. QED
      BY <3>4
  <2>2. CASE head # t /\ \A u \in T : nxt[u] # t
    <3>1. T \in SUBSET S /\ head \in T /\ \A u \in T : nxt[u] \in T \cup {Nil}
      BY <1>3, <2>2
    <3>2. T = S
      BY <3>1 DEF IsList, ReachesAll
    <3>3. QED
      BY <3>2
  <2>3. QED
    BY <2>1, <2>2
<1>11. QED
  <2> HIDE DEF first
  <2>1. IsList(first, new, S \ {t})
    BY <1>1, <1>4, <1>5, <1>6, <1>7, <1>8, <1>9, <1>10 DEF IsList
  <2>2. QED
    BY <2>1 DEF first

\* The first tile taken off, which leaves the others as they are.
LEMMA ListPop ==
  ASSUME NEW head, NEW nxt, NEW S, IsList(head, nxt, S), head # Nil
  PROVE  head \in S /\ IsList(nxt[head], nxt, S \ {head})
<1>1. head \in S /\ \A u \in S : nxt[u] # head
  BY DEF IsList
<1>2. UnlinkHead(head, nxt, head) = nxt[head]
  BY DEF UnlinkHead
<1>3. IsList(UnlinkHead(head, nxt, head), nxt, S \ {head})
  BY <1>1, ListUnlink
<1>4. QED
  BY <1>1, <1>2, <1>3

\* A walk along a list meets its members and no others, each once, and ends.
LEMMA ListWalk ==
  ASSUME NEW head, NEW nxt, NEW S \in SUBSET Slots, IsList(head, nxt, S)
  PROVE  /\ Members(head, nxt) = S /\ Ends(head, nxt)
         /\ \E len : WalkIsOver(Walk(head, nxt), MaxTiles, Nil, S, len)
<1> DEFINE c == Walk(head, nxt)
<1> DEFINE par == [t \in S |-> nxt[t]]
<1>1. /\ MaxTiles \in Nat /\ head \in S \cup {Nil} /\ Nil \notin S
      /\ \A t \in S : nxt[t] \in S \cup {Nil}
  BY MaxTilesAssumption DEF IsList
<1>2. /\ c \in [0..MaxTiles -> S \cup {Nil}] /\ c[0] = head
      /\ \A k \in 1..MaxTiles : c[k] = IF c[k-1] = Nil THEN Nil ELSE nxt[c[k-1]]
  <2>1. Walk(head, nxt) = WalkFrom(head, nxt, Nil, MaxTiles)
    BY DEF Walk, WalkFrom
  <2>2. QED
    BY <1>1, <2>1, WalkSteps
<1>3. IsFiniteSet(S) /\ Cardinality(S) <= MaxTiles
  <2>1. IsFiniteSet(Slots) /\ Cardinality(Slots) = MaxTiles
    BY <1>1, CountTo DEF Slots
  <2>2. QED
    BY <2>1, FS_Subset
<1>4. par \in [S -> S \cup {Nil}]
  BY <1>1
<1>5. \A T \in SUBSET S : T # {} => \E t \in T : par[t] \notin T
  <2> SUFFICES ASSUME NEW T \in SUBSET S, T # {} PROVE \E t \in T : par[t] \notin T
    OBVIOUS
  <2>1. PICK t \in T : nxt[t] \notin T
    BY DEF IsList, NoCircle
  <2>2. QED
    BY <2>1
<1> HIDE DEF c
<1>6. \A k \in 1..MaxTiles : c[k] = IF c[k-1] = Nil THEN Nil ELSE par[c[k-1]]
  <2> SUFFICES ASSUME NEW k \in 1..MaxTiles
               PROVE  c[k] = IF c[k-1] = Nil THEN Nil ELSE par[c[k-1]]
    OBVIOUS
  <2>1. k - 1 \in 0..MaxTiles
    BY <1>1
  <2>2. c[k-1] \in S \cup {Nil}
    BY <1>2, <2>1
  <2>3. QED
    BY <1>2, <2>2
<1> HIDE DEF par
<1>7. PICK len : WalkIsOver(c, MaxTiles, Nil, S, len)
  <2>1. c[0] \in S \cup {Nil}
    BY <1>1, <1>2
  <2>2. \E len : WalkIsOver(c, MaxTiles, Nil, S, len)
    BY <1>1, <1>3, <1>4, <1>5, <1>6, <2>1, WalkEnds
  <2>3. QED
    BY <2>2
<1>8. c[MaxTiles] = Nil
  <2>1. len \in 0..MaxTiles /\ \A k \in 0..MaxTiles : c[k] # Nil <=> k < len
    BY <1>7 DEF WalkIsOver
  <2>2. MaxTiles \in 0..MaxTiles /\ ~(MaxTiles < len)
    BY <1>1, <2>1
  <2>3. QED
    BY <2>1, <2>2
<1> DEFINE M == {c[k] : k \in 0..MaxTiles} \ {Nil}
<1>9. M \in SUBSET S
  BY <1>2
<1>10. M = S
  <2>1. CASE head = Nil
    BY <1>9, <2>1 DEF IsList
  <2>2. CASE head # Nil
    <3>1. head \in M
      <4>1. 0 \in 0..MaxTiles
        BY <1>1
      <4>2. QED
        BY <1>2, <2>2, <4>1
    <3>2. ASSUME NEW t \in M PROVE nxt[t] \in M \cup {Nil}
      <4>1. PICK k \in 0..MaxTiles : t = c[k] /\ c[k] # Nil
        BY <3>2
      <4>2. k # MaxTiles
        BY <1>8, <4>1
      <4>3. k + 1 \in 1..MaxTiles /\ (k + 1) - 1 = k /\ k + 1 \in 0..MaxTiles
        BY <1>1, <4>1, <4>2
      <4>4. c[k+1] = nxt[t]
        BY <1>2, <4>1, <4>3
      <4>5. QED
        BY <4>3, <4>4
    <3>3. QED
      <4> HIDE DEF M
      <4>1. QED
        BY <1>9, <3>1, <3>2 DEF IsList, ReachesAll
  <2>3. QED
    BY <2>1, <2>2
<1>11. QED
  BY <1>7, <1>8, <1>10 DEF Members, Ends, c

LEMMA ListMembers ==
  ASSUME NEW head, NEW nxt, NEW S \in SUBSET Slots, IsList(head, nxt, S)
  PROVE  Members(head, nxt) = S /\ Ends(head, nxt)
BY ListWalk

-----------------------------------------------------------------------------
(* The lists of the mesh.                                                  *)

Hashes == 0..(LutSize - 1)

EmptySlots == {i \in Slots : header[i] = NoLoc}

ChainSlots(h) ==
  {i \in Slots : header[i] # NoLoc /\ ComputeTileHash(header[i].x, header[i].y) = h}

ListTypes ==
  /\ header \in [Slots -> Locs \cup {NoLoc}]
  /\ next \in [Slots -> Slots \cup {Nil}]
  /\ nextFree \in Slots \cup {Nil}
  /\ posLookup \in [Hashes -> Slots \cup {Nil}]

ListsInv ==
  /\ IsList(nextFree, next, EmptySlots)
  /\ \A h \in Hashes : IsList(posLookup[h], next, ChainSlots(h))

MeshInv == ListTypes /\ ListsInv

LEMMA SlotFacts == Nil \notin Slots /\ NoLoc \notin Locs
BY LayersAssumption DEF Slots, Nil, NoLoc, Locs

LEMMA HashOfInts == \A x, y \in Int : ComputeTileHash(x, y) \in Hashes
<1>1. \A n \in Int : n % LutSize \in Hashes /\ n % LutSize \in Int
  BY LutSizeAssumption DEF Hashes
<1>2. \A m, n \in Int : m * n \in Int /\ m + n \in Int
  OBVIOUS
<1>3. \A hi, lo \in Int : Masked(hi, lo) \in Int
  BY <1>1, <1>2 DEF Masked
<1> SUFFICES ASSUME NEW x \in Int, NEW y \in Int PROVE ComputeTileHash(x, y) \in Hashes
  OBVIOUS
<1> DEFINE f == Masked(36262, 45891)
           g == Masked(55318, 14401)
           a == x % LutSize
           b == y % LutSize
<1>4. f \in Int /\ g \in Int /\ a \in Int /\ b \in Int
  <2>1. a \in Int /\ b \in Int
    BY LutSizeAssumption
  <2>2. f \in Int
    BY <1>3
  <2>3. g \in Int
    BY <1>3
  <2>4. QED
    BY <2>1, <2>2, <2>3
<1>5. ComputeTileHash(x, y) = (f * a + g * b) % LutSize
  BY DEF ComputeTileHash
<1> HIDE DEF f, g, a, b
<1>6. f * a + g * b \in Int
  BY <1>2, <1>4
<1>7. QED
  BY <1>1, <1>5, <1>6

LEMMA HashType ==
  ASSUME NEW l \in Locs
  PROVE  ComputeTileHash(l.x, l.y) \in Hashes
<1>1. l.x \in Int /\ l.y \in Int
  <2>1. \A c \in Cells : c[1] \in Int /\ c[2] \in Int
    BY CellsAssumption
  <2>2. l.x \in {c[1] : c \in Cells} /\ l.y \in {c[2] : c \in Cells}
    BY DEF Locs
  <2>3. QED
    BY <2>1, <2>2
<1>2. QED
  BY <1>1, HashOfInts

LEMMA ListsAsMembers ==
  ASSUME ListsInv
  PROVE  /\ Members(nextFree, next) = EmptySlots /\ Ends(nextFree, next)
         /\ \A h \in Hashes :
              Members(posLookup[h], next) = ChainSlots(h) /\ Ends(posLookup[h], next)
<1>1. EmptySlots \in SUBSET Slots /\ \A h \in Hashes : ChainSlots(h) \in SUBSET Slots
  BY DEF EmptySlots, ChainSlots
<1>2. QED
  BY <1>1, ListMembers DEF ListsInv

\* getTileAt finds a tile that is there.
LEMMA Unoccupied ==
  ASSUME MeshInv, NEW l \in Locs, GetTileAt(l) = {}
  PROVE  \A i \in Slots : header[i] # l
<1> SUFFICES ASSUME NEW i \in Slots, header[i] = l PROVE FALSE
  OBVIOUS
<1>1. i \in ChainSlots(ComputeTileHash(l.x, l.y))
  BY SlotFacts DEF ChainSlots
<1>2. i \in Members(posLookup[ComputeTileHash(l.x, l.y)], next)
  BY <1>1, HashType, ListsAsMembers DEF MeshInv
<1>3. QED
  BY <1>2 DEF GetTileAt

\* A tile that has left the free list goes to the front of its chain.
LEMMA Inserted ==
  ASSUME MeshInv, NEW l \in Locs, NEW t \in EmptySlots, NEW s,
         NEW nxt \in [Slots -> Slots \cup {Nil}],
         nextFree' \in Slots \cup {Nil},
         IsList(nextFree', nxt, EmptySlots \ {t}),
         \A g \in Hashes : IsList(posLookup[g], nxt, ChainSlots(g)),
         Insert(t, l, nxt, s)
  PROVE  MeshInv'
<1> DEFINE h == ComputeTileHash(l.x, l.y)
<1>1. h \in Hashes /\ t \in Slots /\ t # Nil /\ l # NoLoc /\ header[t] = NoLoc
  BY HashType, SlotFacts DEF EmptySlots
<1>2. /\ next' = [nxt EXCEPT ![t] = posLookup[h]]
      /\ posLookup' = [posLookup EXCEPT ![h] = t]
      /\ header' = [header EXCEPT ![t] = l]
  BY DEF Insert
<1> HIDE DEF h
<1>3. ListTypes'
  <2>1. posLookup[h] \in Slots \cup {Nil}
    BY <1>1 DEF MeshInv, ListTypes
  <2>2. header' \in [Slots -> Locs \cup {NoLoc}]
    BY <1>1, <1>2 DEF MeshInv, ListTypes
  <2>3. next' \in [Slots -> Slots \cup {Nil}]
    BY <1>1, <1>2, <2>1
  <2>4. posLookup' \in [Hashes -> Slots \cup {Nil}]
    BY <1>1, <1>2 DEF MeshInv, ListTypes
  <2>5. QED
    BY <2>2, <2>3, <2>4 DEF ListTypes
<1>4. /\ header'[t] = l /\ \A i \in Slots \ {t} : header'[i] = header[i]
      /\ next'[t] = posLookup[h] /\ \A i \in Slots \ {t} : next'[i] = nxt[i]
      /\ posLookup'[h] = t /\ \A g \in Hashes \ {h} : posLookup'[g] = posLookup[g]
  BY <1>1, <1>2 DEF MeshInv, ListTypes
<1>5. EmptySlots' = EmptySlots \ {t}
  BY <1>1, <1>4 DEF EmptySlots
<1>6. IsList(nextFree', next', EmptySlots')
  <2>1. \A i \in EmptySlots \ {t} : next'[i] = nxt[i]
    BY <1>4 DEF EmptySlots
  <2>2. QED
    BY <1>5, <2>1, ListFrame
<1>7. ASSUME NEW g \in Hashes PROVE IsList(posLookup'[g], next', ChainSlots(g)')
  <2>1. t \notin ChainSlots(g) /\ \A i \in ChainSlots(g) : next'[i] = nxt[i]
    BY <1>1, <1>4 DEF ChainSlots
  <2>2. CASE g = h
    <3>1. ChainSlots(g)' = ChainSlots(g) \cup {t}
      BY <1>1, <1>4, <2>2 DEF ChainSlots, h
    <3>2. IsList(t, next', ChainSlots(g) \cup {t})
      BY <1>1, <1>4, <2>1, <2>2, ListPush
    <3>3. QED
      BY <1>4, <2>2, <3>1, <3>2
  <2>3. CASE g # h
    <3>1. ChainSlots(g)' = ChainSlots(g)
      BY <1>1, <1>4, <2>3 DEF ChainSlots, h
    <3>2. IsList(posLookup[g], next', ChainSlots(g))
      BY <2>1, ListFrame
    <3>3. QED
      BY <1>4, <2>3, <3>1, <3>2
  <2>4. QED
    BY <2>2, <2>3
<1>8. QED
  BY <1>3, <1>6, <1>7 DEF MeshInv, ListsInv

LEMMA UnlinkNextFacts ==
  ASSUME NEW head, NEW nxt \in [Slots -> Slots \cup {Nil}], NEW S \in SUBSET Slots,
         IsList(head, nxt, S), NEW t \in S
  PROVE  /\ UnlinkNext(head, nxt, t) \in [Slots -> Slots \cup {Nil}]
         /\ \A p \in Slots \ S : UnlinkNext(head, nxt, t)[p] = nxt[p]
         /\ IsList(UnlinkHead(head, nxt, t), UnlinkNext(head, nxt, t), S \ {t})
<1>1. Members(head, nxt) = S
  BY ListMembers
<1> DEFINE new == UnlinkNext(head, nxt, t)
<1>2. \A p \in Slots : new[p] = IF p \in S /\ nxt[p] = t THEN nxt[t] ELSE nxt[p]
  BY <1>1 DEF UnlinkNext
<1>3. new \in [Slots -> Slots \cup {Nil}]
  BY <1>1 DEF UnlinkNext
<1> HIDE DEF new
<1>4. \A p \in Slots \ S : new[p] = nxt[p]
  BY <1>2
<1>5. \A p \in S \ {t} : new[p] = IF nxt[p] = t THEN nxt[t] ELSE nxt[p]
  BY <1>2
<1>6. IsList(UnlinkHead(head, nxt, t), new, S \ {t})
  BY <1>5, ListUnlink
<1>7. QED
  BY <1>3, <1>4, <1>6 DEF new

LEMMA MeshAddTile ==
  ASSUME MeshInv, NEW l \in Locs, AddTile(l)
  PROVE  MeshInv'
<1>1. /\ nextFree # Nil /\ nextFree' = next[nextFree]
      /\ Insert(nextFree, l, next, salt[nextFree])
  BY DEF AddTile
<1>2. nextFree \in EmptySlots /\ IsList(nextFree', next, EmptySlots \ {nextFree})
  BY <1>1, ListPop DEF MeshInv, ListsInv
<1>3. nextFree' \in Slots \cup {Nil}
  BY <1>1 DEF MeshInv, ListTypes
<1>4. next \in [Slots -> Slots \cup {Nil}] /\ \A g \in Hashes : IsList(posLookup[g], next, ChainSlots(g))
  BY DEF MeshInv, ListTypes, ListsInv
<1>5. QED
  BY <1>1, <1>2, <1>3, <1>4, Inserted

LEMMA MeshRestoreTile ==
  ASSUME MeshInv, NEW l \in Locs, NEW e, RestoreTile(l, e)
  PROVE  MeshInv' /\ e.slot \in EmptySlots
<1> DEFINE t == e.slot
<1> DEFINE nxt == UnlinkNext(nextFree, next, t)
<1>1. /\ t \in Members(nextFree, next)
      /\ nextFree' = UnlinkHead(nextFree, next, t)
      /\ Insert(t, l, nxt, e.salt)
  BY DEF RestoreTile
<1>2. t \in EmptySlots /\ EmptySlots \in SUBSET Slots
  BY <1>1, ListsAsMembers DEF MeshInv, EmptySlots
<1>3. next \in [Slots -> Slots \cup {Nil}] /\ IsList(nextFree, next, EmptySlots)
  BY DEF MeshInv, ListTypes, ListsInv
<1> HIDE DEF t
<1>4. /\ nxt \in [Slots -> Slots \cup {Nil}]
      /\ \A p \in Slots \ EmptySlots : nxt[p] = next[p]
      /\ IsList(nextFree', nxt, EmptySlots \ {t})
  BY <1>1, <1>2, <1>3, UnlinkNextFacts
<1> HIDE DEF nxt
<1>5. nextFree' \in Slots \cup {Nil}
  BY <1>2, <1>4 DEF IsList
<1>6. ASSUME NEW g \in Hashes PROVE IsList(posLookup[g], nxt, ChainSlots(g))
  <2>1. \A p \in ChainSlots(g) : nxt[p] = next[p]
    BY <1>4 DEF ChainSlots, EmptySlots
  <2>2. QED
    BY <2>1, ListFrame DEF MeshInv, ListsInv
<1>7. MeshInv'
  BY <1>1, <1>2, <1>4, <1>5, <1>6, Inserted
<1>8. QED
  BY <1>2, <1>7 DEF t

LEMMA MeshRemoveTile ==
  ASSUME MeshInv, NEW r, r.slot \in Slots, RemoveTile(r)
  PROVE  MeshInv'
<1> DEFINE t == r.slot
<1> DEFINE h == ComputeTileHash(header[t].x, header[t].y)
<1> DEFINE unhashed == UnlinkNext(posLookup[h], next, t)
<1>1. /\ header[t] # NoLoc
      /\ posLookup' = [posLookup EXCEPT ![h] = UnlinkHead(posLookup[h], next, t)]
      /\ header' = [header EXCEPT ![t] = NoLoc]
      /\ next' = [unhashed EXCEPT ![t] = nextFree]
      /\ nextFree' = t
  BY DEF RemoveTile
<1>2. t \in Slots /\ t # Nil /\ header[t] \in Locs /\ t \in ChainSlots(h)
  BY <1>1, SlotFacts DEF MeshInv, ListTypes, ChainSlots
<1>3. h \in Hashes
  BY <1>2, HashType
<1> HIDE DEF t, h
<1>4. /\ next \in [Slots -> Slots \cup {Nil}] /\ IsList(posLookup[h], next, ChainSlots(h))
      /\ ChainSlots(h) \in SUBSET Slots
  BY <1>3 DEF MeshInv, ListTypes, ListsInv, ChainSlots
<1>5. /\ unhashed \in [Slots -> Slots \cup {Nil}]
      /\ \A p \in Slots \ ChainSlots(h) : unhashed[p] = next[p]
      /\ IsList(UnlinkHead(posLookup[h], next, t), unhashed, ChainSlots(h) \ {t})
  BY <1>2, <1>4, UnlinkNextFacts
<1> HIDE DEF unhashed
<1> DEFINE first == UnlinkHead(posLookup[h], next, t)
<1>6. first \in Slots \cup {Nil}
  BY <1>4, <1>5 DEF IsList
<1> HIDE DEF first
<1>7. ListTypes'
  <2>1. header' \in [Slots -> Locs \cup {NoLoc}]
    BY <1>1, <1>2 DEF MeshInv, ListTypes
  <2>2. next' \in [Slots -> Slots \cup {Nil}] /\ nextFree' \in Slots \cup {Nil}
    BY <1>1, <1>2, <1>5 DEF MeshInv, ListTypes
  <2>3. posLookup' \in [Hashes -> Slots \cup {Nil}]
    BY <1>1, <1>3, <1>6 DEF MeshInv, ListTypes, first
  <2>4. QED
    BY <2>1, <2>2, <2>3 DEF ListTypes
<1>8. /\ header'[t] = NoLoc /\ \A i \in Slots \ {t} : header'[i] = header[i]
      /\ next'[t] = nextFree /\ \A i \in Slots \ {t} : next'[i] = unhashed[i]
      /\ posLookup'[h] = first /\ \A g \in Hashes \ {h} : posLookup'[g] = posLookup[g]
  BY <1>1, <1>2, <1>3, <1>5 DEF MeshInv, ListTypes, first
<1>9. IsList(nextFree', next', EmptySlots')
  <2>1. EmptySlots' = EmptySlots \cup {t} /\ t \notin EmptySlots
    BY <1>1, <1>2, <1>8 DEF EmptySlots
  <2>2. \A p \in EmptySlots : next'[p] = next[p]
    <3> SUFFICES ASSUME NEW p \in EmptySlots PROVE next'[p] = next[p]
      OBVIOUS
    <3>1. p \in Slots \ ChainSlots(h) /\ p # t
      BY <2>1 DEF EmptySlots, ChainSlots
    <3>2. QED
      BY <1>5, <1>8, <3>1
  <2>3. IsList(nextFree, next, EmptySlots)
    BY DEF MeshInv, ListsInv
  <2>4. IsList(t, next', EmptySlots \cup {t})
    BY <1>2, <1>8, <2>1, <2>2, <2>3, ListPush
  <2>5. QED
    BY <1>1, <2>1, <2>4
<1>10. ASSUME NEW g \in Hashes PROVE IsList(posLookup'[g], next', ChainSlots(g)')
  <2>1. CASE g = h
    <3>1. ChainSlots(g)' = ChainSlots(h) \ {t}
      BY <1>8, <2>1 DEF ChainSlots
    <3>2. \A p \in ChainSlots(h) \ {t} : next'[p] = unhashed[p]
      BY <1>4, <1>8
    <3>3. IsList(first, unhashed, ChainSlots(h) \ {t})
      BY <1>5 DEF first
    <3>4. IsList(first, next', ChainSlots(h) \ {t})
      BY <3>2, <3>3, ListFrame
    <3>5. QED
      BY <1>8, <2>1, <3>1, <3>4
  <2>2. CASE g # h
    <3>1. t \notin ChainSlots(g)
      BY <2>2 DEF ChainSlots, h
    <3>2. ChainSlots(g)' = ChainSlots(g)
      BY <1>8, <3>1 DEF ChainSlots
    <3>3. \A p \in ChainSlots(g) : next'[p] = next[p]
      <4> SUFFICES ASSUME NEW p \in ChainSlots(g) PROVE next'[p] = next[p]
        OBVIOUS
      <4>1. p \in Slots \ ChainSlots(h) /\ p # t
        BY <2>2, <3>1 DEF ChainSlots
      <4>2. QED
        BY <1>5, <1>8, <4>1
    <3>4. IsList(posLookup[g], next', ChainSlots(g))
      BY <3>3, ListFrame DEF MeshInv, ListsInv
    <3>5. QED
      BY <1>8, <2>2, <3>2, <3>4
  <2>3. QED
    BY <2>1, <2>2
<1>11. QED
  BY <1>7, <1>9, <1>10, SMTT(30) DEF MeshInv, ListsInv

LEMMA MeshInit == Init => MeshInv
<1> SUFFICES ASSUME Init PROVE MeshInv
  OBVIOUS
<1>1. /\ MaxTiles \in Nat \ {0} /\ Slots = 0..(MaxTiles - 1) /\ Nil \notin Slots
      /\ next = [i \in Slots |-> IF i + 1 < MaxTiles THEN i + 1 ELSE Nil]
      /\ nextFree = 0 /\ 0 \in Slots
  BY MaxTilesAssumption, SlotFacts DEF Init, Slots
<1>2. \A i \in Slots : /\ next[i] = IF i + 1 < MaxTiles THEN i + 1 ELSE Nil
                       /\ next[i] \in Slots \cup {Nil}
  BY <1>1
<1>3. ListTypes
  BY <1>1, <1>2 DEF Init, ListTypes, Hashes
<1>4. NoCircle(next, Slots)
  <2> SUFFICES ASSUME NEW T \in SUBSET Slots, T # {}, \A t \in T : next[t] \in T PROVE FALSE
    BY DEF NoCircle
  <2> DEFINE D == {d \in Nat : (MaxTiles - 1) - d \in T}
  <2>1. D \in SUBSET Nat /\ D # {}
    <3>1. PICK t \in T : TRUE
      OBVIOUS
    <3>2. (MaxTiles - 1) - t \in Nat /\ (MaxTiles - 1) - ((MaxTiles - 1) - t) = t
      BY <1>1
    <3>3. (MaxTiles - 1) - t \in D
      BY <3>1, <3>2
    <3>4. QED
      BY <3>3
  <2>2. PICK d \in D : \A y \in D : d <= y
    <3> HIDE DEF D
    <3>1. QED
      BY <2>1, LeastNumber
  <2>3. d \in Nat /\ (MaxTiles - 1) - d \in T /\ (MaxTiles - 1) - d \in Slots
    BY <2>2
  <2> DEFINE t == (MaxTiles - 1) - d
  <2>4. next[t] = t + 1 /\ t + 1 \in T
    <3>1. next[t] \in T /\ next[t] # Nil
      BY <1>1, <2>3
    <3>2. QED
      BY <1>2, <2>3, <3>1
  <2>5. d - 1 \in Nat /\ (MaxTiles - 1) - (d - 1) = t + 1
    <3>1. t + 1 \in Slots
      BY <2>4
    <3>2. QED
      BY <1>1, <2>3, <3>1
  <2>6. d - 1 \in D /\ ~(d <= d - 1)
    BY <2>3, <2>4, <2>5
  <2>7. QED
    BY <2>2, <2>6
<1>5. ReachesAll(0, next, Slots)
  <2> SUFFICES ASSUME NEW T \in SUBSET Slots, 0 \in T, \A t \in T : next[t] \in T \cup {Nil},
                      T # Slots
               PROVE  FALSE
    BY DEF ReachesAll
  <2>1. Slots \ T \in SUBSET Nat /\ Slots \ T # {}
    <3>1. Slots \subseteq Nat
      BY <1>1
    <3>2. Slots \ T # {}
      OBVIOUS
    <3>3. Slots \ T \subseteq Nat
      BY <3>1
    <3>4. QED
      BY <3>2, <3>3
  <2>2. PICK m \in Slots \ T : \A y \in Slots \ T : m <= y
    BY <2>1, LeastNumber
  <2>3. m - 1 \in Slots /\ ~(m <= m - 1) /\ (m - 1) + 1 = m /\ m < MaxTiles
    BY <1>1, <2>2
  <2>4. m - 1 \in T
    BY <2>2, <2>3
  <2>5. next[m - 1] = m /\ m # Nil
    BY <1>1, <1>2, <2>2, <2>3
  <2>6. QED
    BY <2>2, <2>4, <2>5
<1>6. IsList(nextFree, next, EmptySlots)
  <2>1. EmptySlots = Slots
    BY DEF Init, EmptySlots
  <2>2. \A t, u \in Slots : next[t] = next[u] /\ next[t] # Nil => t = u
    <3> SUFFICES ASSUME NEW t \in Slots, NEW u \in Slots, next[t] = next[u], next[t] # Nil PROVE t = u
      OBVIOUS
    <3>1. t + 1 = u + 1
      BY <1>2
    <3>2. t \in Int /\ u \in Int
      BY <1>1
    <3>3. QED
      BY <3>1, <3>2
  <2>3. \A t \in Slots : next[t] # 0
    BY <1>1, <1>2 DEF Nil
  <2>4. QED
    BY <1>1, <1>2, <1>4, <1>5, <2>1, <2>2, <2>3 DEF IsList
<1>7. ASSUME NEW h \in Hashes PROVE IsList(posLookup[h], next, ChainSlots(h))
  <2>1. posLookup[h] = Nil /\ ChainSlots(h) = {}
    BY DEF Init, ChainSlots, Hashes
  <2>2. IsList(Nil, next, {})
    BY DEF IsList, NoCircle, ReachesAll
  <2>3. QED
    BY <2>1, <2>2
<1>8. QED
  BY <1>3, <1>6, <1>7 DEF MeshInv, ListsInv

LEMMA MeshStep == MeshInv /\ [Next]_vars => MeshInv'
<1> SUFFICES ASSUME MeshInv, [Next]_vars PROVE MeshInv'
  OBVIOUS
<1>1. CASE UNCHANGED vars
  BY <1>1 DEF vars, MeshInv, ListTypes, ListsInv, EmptySlots, ChainSlots
<1>2. ASSUME NEW l \in Locs, AddTile(l) PROVE MeshInv'
  BY <1>2, MeshAddTile
<1>3. ASSUME NEW l \in Locs, NEW e \in stale, RestoreTile(l, e) PROVE MeshInv'
  BY <1>3, MeshRestoreTile
<1>4. ASSUME NEW r \in Pool!Ref, RemoveTile(r) PROVE MeshInv'
  BY <1>4, MeshRemoveTile DEF Pool!Ref
<1>5. QED
  BY <1>1, <1>2, <1>3, <1>4 DEF Next

LEMMA MeshInductive == Spec => []MeshInv
BY MeshInit, MeshStep, PTL DEF Spec

\* Through any calls of addTile and removeTile every tile is on one list, the
\* right one, and no list leads in a circle.
THEOREM MeshListsPartitionTiles == Spec => []ListsPartitionTiles
<1>1. MeshInv => ListsPartitionTiles
  BY ListsAsMembers DEF MeshInv, ListsPartitionTiles, Hashes, EmptySlots, ChainSlots
<1>2. QED
  BY <1>1, MeshInductive, PTL

-----------------------------------------------------------------------------
(* dtNavMesh implements the tile store.                                    *)

LEMMA MeshStepsArePoolSteps == MeshInv /\ [Next]_vars => [Pool!PoolNext]_(Pool!poolVars)
<1> SUFFICES ASSUME MeshInv, [Next]_vars PROVE [Pool!PoolNext]_(Pool!poolVars)
  OBVIOUS
<1>1. CASE UNCHANGED vars
  BY <1>1 DEF vars, Pool!poolVars
<1>2. ASSUME NEW l \in Locs, AddTile(l) PROVE Pool!PoolNext
  <2>1. nextFree \in EmptySlots /\ GetTileAt(l) = {}
    BY <1>2, ListPop DEF AddTile, MeshInv, ListsInv
  <2>2. nextFree \in Slots /\ header[nextFree] = NoLoc /\ ~Pool!Occupied(l)
    BY <2>1, Unoccupied DEF EmptySlots, Pool!Occupied
  <2>3. header' = [header EXCEPT ![nextFree] = l] /\ UNCHANGED <<salt, stale>>
    BY <1>2 DEF AddTile, Insert
  <2>4. Pool!Add(l, nextFree)
    BY <2>2, <2>3 DEF Pool!Add
  <2>5. QED
    BY <2>2, <2>4 DEF Pool!PoolNext
<1>3. ASSUME NEW l \in Locs, NEW e \in stale, RestoreTile(l, e) PROVE Pool!PoolNext
  <2>1. e.slot \in EmptySlots /\ ~Pool!Occupied(l)
    BY <1>3, MeshRestoreTile, Unoccupied DEF RestoreTile, Pool!Occupied
  <2>2. Pool!Restore(l, e)
    BY <1>3, <2>1 DEF RestoreTile, Insert, EmptySlots, Pool!Restore
  <2>3. QED
    BY <2>2 DEF Pool!PoolNext
<1>4. ASSUME NEW r \in Pool!Ref, RemoveTile(r) PROVE Pool!PoolNext
  <2>1. Pool!Remove(r)
    BY <1>4 DEF RemoveTile, Pool!Remove, Pool!Live
  <2>2. QED
    BY <2>1, SMTT(30) DEF Pool!PoolNext
<1>5. QED
  BY <1>1, <1>2, <1>3, <1>4 DEF Next

\* What dtNavMesh does, seen without its lists and links, is what TilePool
\* promises: it is the tile store that MoveMap and its callers are built on.
THEOREM MeshImplementsTilePool == Spec => ImplementsTilePool
<1>1. Init => Pool!PoolInit
  BY DEF Init, Pool!PoolInit
<1>2. QED
  BY <1>1, MeshStepsArePoolSteps, MeshInductive, PTL DEF Spec, ImplementsTilePool, Pool!PoolSpec

-----------------------------------------------------------------------------
(* What TilePool promises, of dtNavMesh.                                   *)

PoolT == INSTANCE TilePool_proofs WITH at <- header

LEMMA PoolAssumptions == PoolT!MaxSaltAssumption /\ PoolT!NoLocAssumption
<1>1. PoolT!MaxSaltAssumption
  BY SaltAssumption DEF PoolT!MaxSaltAssumption
<1>2. PoolT!NoLocAssumption
  BY SlotFacts DEF PoolT!NoLocAssumption
<1>3. QED
  BY <1>1, <1>2

LEMMA MeshKeepsPoolSpec == Spec => PoolT!PoolSpec
<1>1. Init => PoolT!PoolInit
  BY DEF Init, PoolT!PoolInit
<1>2. MeshInv /\ [Next]_vars => [PoolT!PoolNext]_(PoolT!poolVars)
  BY MeshStepsArePoolSteps
     DEF Pool!PoolNext, Pool!poolVars, Pool!Add, Pool!Restore, Pool!Remove, Pool!Occupied,
         Pool!Ref, Pool!Live, Pool!NextSalt, Pool!Aged,
         PoolT!PoolNext, PoolT!poolVars, PoolT!Add, PoolT!Restore, PoolT!Remove, PoolT!Occupied,
         PoolT!Ref, PoolT!Live, PoolT!NextSalt, PoolT!Aged
<1>3. QED
  BY <1>1, <1>2, MeshInductive, PTL DEF Spec, PoolT!PoolSpec

\* No two tiles of the mesh have one position: addTile refuses a position that
\* is taken, which it looks up along a hash chain.
THEOREM MeshUniqueLocation == Spec => []Pool!UniqueLocation
<1>1. PoolT!PoolSpec => []PoolT!UniqueLocation
  BY PoolAssumptions, PoolT!PoolUniqueLocation
<1>2. PoolT!UniqueLocation <=> Pool!UniqueLocation
  BY DEF PoolT!UniqueLocation, Pool!UniqueLocation
<1>3. QED
  BY <1>1, <1>2, MeshKeepsPoolSpec, PTL

\* removeTile and getTileByRef refuse a reference that was removed, whatever
\* addTile has put into its slot since, until the slot has been emptied as often
\* as there are salts.
THEOREM MeshStaleRefused == Spec => []Pool!StaleRefused
<1>1. PoolT!PoolSpec => []PoolT!StaleRefused
  BY PoolAssumptions, PoolT!PoolStaleRefused
<1>2. PoolT!StaleRefused <=> Pool!StaleRefused
  BY DEF PoolT!StaleRefused, Pool!StaleRefused
<1>3. QED
  BY <1>1, <1>2, MeshKeepsPoolSpec, PTL

LEMMA MeshPoolTypes == Spec => []Pool!PoolTypeOK
<1>1. PoolT!PoolSpec => []PoolT!PoolTypeOK
  BY PoolAssumptions, PoolT!PoolTypeCorrect
<1>2. PoolT!PoolTypeOK <=> Pool!PoolTypeOK
  BY DEF PoolT!PoolTypeOK, Pool!PoolTypeOK, PoolT!StaleRef, Pool!StaleRef
<1>3. QED
  BY <1>1, <1>2, MeshKeepsPoolSpec, PTL

-----------------------------------------------------------------------------
(* The lookups find all the tiles that are there.                          *)

\* A set that can be told apart by elements of a finite set has no more of them.
LEMMA Embeds ==
  ASSUME NEW S, NEW T, IsFiniteSet(T), NEW f \in [S -> T],
         \A x, y \in S : f[x] = f[y] => x = y
  PROVE  IsFiniteSet(S) /\ Cardinality(S) <= Cardinality(T)
<1>1. f \in Injection(S, T)
  BY DEF Injection, IsInjective
<1>2. QED
  BY <1>1, FS_Injection

\* The tiles of D are the ones on the chains of lut and nxt, and they have
\* different positions.
Hashed(lut, nxt, hdr, D) ==
  /\ D \in SUBSET Slots
  /\ \A i \in D : hdr[i] \in Locs
  /\ \A i, j \in D : hdr[i] = hdr[j] => i = j
  /\ \A h \in Hashes :
       IsList(lut[h], nxt, {i \in D : ComputeTileHash(hdr[i].x, hdr[i].y) = h})

LEMMA LocFields ==
  ASSUME NEW l \in Locs
  PROVE  l.x \in Int /\ l.y \in Int /\ l.layer \in Layers
<1>1. \A c \in Cells : c[1] \in Int /\ c[2] \in Int
  BY CellsAssumption
<1>2. l.x \in {c[1] : c \in Cells} /\ l.y \in {c[2] : c \in Cells} /\ l.layer \in Layers
  BY DEF Locs
<1>3. QED
  BY <1>1, <1>2

\* A cell has no more tiles than it has layers, so getTilesAt returns them all.
LEMMA TilesAtFinds ==
  ASSUME NEW lut, NEW nxt, NEW hdr, NEW D, Hashed(lut, nxt, hdr, D),
         NEW x \in Int, NEW y \in Int
  PROVE  TilesAt(lut, nxt, hdr, x, y) = {i \in D : hdr[i].x = x /\ hdr[i].y = y}
<1> DEFINE h == ComputeTileHash(x, y)
<1> DEFINE S == {i \in D : ComputeTileHash(hdr[i].x, hdr[i].y) = h}
<1> DEFINE c == Walk(lut[h], nxt)
<1> DEFINE hits == Hits(c, hdr, x, y)
<1> DEFINE seen == {j \in hits : Cardinality({i \in hits : i < j}) < MaxNeis}
<1>1. h \in Hashes
  BY HashOfInts
<1>2. /\ S \in SUBSET Slots /\ S \in SUBSET D /\ IsList(lut[h], nxt, S)
      /\ \A i \in S : hdr[i] \in Locs
      /\ \A i, j \in S : hdr[i] = hdr[j] => i = j
  BY <1>1 DEF Hashed
<1>3. \A i \in D : hdr[i].x = x /\ hdr[i].y = y => i \in S
  OBVIOUS
<1>4. TilesAt(lut, nxt, hdr, x, y) = {c[k] : k \in seen}
  BY DEF TilesAt
<1> HIDE DEF S, h, c
<1>5. PICK len : WalkIsOver(c, MaxTiles, Nil, S, len)
  BY <1>2, ListWalk DEF c
<1>6. S = {c[k] : k \in 0..MaxTiles} \ {Nil}
  BY <1>2, ListWalk DEF c, Members
<1>7. /\ len \in 0..MaxTiles /\ MaxTiles \in Nat
      /\ \A k \in 0..MaxTiles : c[k] # Nil <=> k < len
      /\ \A k \in 0..(len-1) : c[k] \in S
      /\ \A k, m \in 0..(len-1) : c[k] = c[m] => k = m
  BY <1>5, MaxTilesAssumption DEF WalkIsOver
<1>8. \A k \in hits : /\ k \in 0..(len-1) /\ k \in 0..MaxTiles /\ c[k] \in S
                      /\ hdr[c[k]].x = x /\ hdr[c[k]].y = y
  BY <1>7 DEF Hits
<1>9. \A j \in hits : Cardinality({i \in hits : i < j}) < MaxNeis
  <2> SUFFICES ASSUME NEW j \in hits PROVE Cardinality({i \in hits : i < j}) < MaxNeis
    OBVIOUS
  <2> DEFINE E == {i \in hits : i < j}
  <2> DEFINE T == Layers \ {hdr[c[j]].layer}
  <2> DEFINE f == [i \in E |-> hdr[c[i]].layer]
  <2> HIDE DEF hits
  <2>1. ASSUME NEW i \in hits, NEW k \in hits, hdr[c[i]].layer = hdr[c[k]].layer PROVE i = k
    <3>1. hdr[c[i]] \in Locs /\ hdr[c[k]] \in Locs
      BY <1>2, <1>8
    <3>2. hdr[c[i]].x = hdr[c[k]].x /\ hdr[c[i]].y = hdr[c[k]].y
      BY <1>8
    <3>3. hdr[c[i]] = hdr[c[k]]
      BY <2>1, <3>1, <3>2 DEF Locs
    <3>4. c[i] = c[k]
      BY <1>2, <1>8, <3>3
    <3>5. QED
      BY <1>7, <1>8, <3>4
  <2>2. \A i \in hits : hdr[c[i]].layer \in Layers
    BY <1>2, <1>8, LocFields
  <2>3. \A i \in E : i # j /\ i \in hits
    BY <1>7, <1>8
  <2>4. f \in [E -> T]
    BY <2>1, <2>2, <2>3
  <2>5. \A i, k \in E : f[i] = f[k] => i = k
    BY <2>1, <2>3
  <2>6. /\ IsFiniteSet(T) /\ Cardinality(T) = Cardinality(Layers) - 1
        /\ Cardinality(Layers) \in Nat
    BY <2>2, MaxNeisAssumption, FS_RemoveElement, FS_CardinalityType
  <2> HIDE DEF E, T, f
  <2>7. IsFiniteSet(E) /\ Cardinality(E) <= Cardinality(T)
    BY <2>4, <2>5, <2>6, Embeds
  <2>8. Cardinality(E) \in Nat
    BY <2>7, FS_CardinalityType
  <2>9. Cardinality(E) < MaxNeis
    BY <2>6, <2>7, <2>8, MaxNeisAssumption
  <2>10. QED
    BY <2>9 DEF E
<1>10. seen = hits
  BY <1>9
<1>11. ASSUME NEW i \in D, hdr[i].x = x, hdr[i].y = y PROVE \E k \in hits : i = c[k]
  <2>1. i \in S
    BY <1>3, <1>11
  <2>2. PICK k \in 0..MaxTiles : i = c[k] /\ c[k] # Nil
    BY <1>6, <2>1
  <2>3. hdr[c[k]] # NoLoc
    BY <1>2, <2>1, <2>2, SlotFacts
  <2>4. k \in hits
    BY <1>11, <2>2, <2>3 DEF Hits
  <2>5. QED
    BY <2>2, <2>4
<1>12. QED
  <2> HIDE DEF hits, seen
  <2>1. \A k \in hits : c[k] \in D /\ hdr[c[k]].x = x /\ hdr[c[k]].y = y
    BY <1>2, <1>8
  <2>2. QED
    BY <1>4, <1>10, <1>11, <2>1

LEMMA NeighboursFinds ==
  ASSUME NEW lut, NEW nxt, NEW hdr, NEW D, Hashed(lut, nxt, hdr, D), NEW l \in Locs, NEW t
  PROVE  Neighbours(lut, nxt, hdr, t, l) =
           {u \in D \ {t} : <<hdr[u].x - l.x, hdr[u].y - l.y>> \in Around}
<1> DEFINE found(d) == TilesAt(lut, nxt, hdr, l.x + d[1], l.y + d[2])
<1>1. l.x \in Int /\ l.y \in Int
  BY LocFields
<1>2. ASSUME NEW d \in Around
      PROVE  found(d) = {i \in D : hdr[i].x = l.x + d[1] /\ hdr[i].y = l.y + d[2]}
  <2>1. d[1] \in Int /\ d[2] \in Int
    BY DEF Around
  <2>2. l.x + d[1] \in Int /\ l.y + d[2] \in Int
    BY <1>1, <2>1
  <2>3. QED
    BY <2>2, TilesAtFinds
<1>3. \A u \in D : hdr[u].x \in Int /\ hdr[u].y \in Int
  BY LocFields DEF Hashed
<1>4. ASSUME NEW u \in D
      PROVE  (\E d \in Around : u \in found(d)) <=> <<hdr[u].x - l.x, hdr[u].y - l.y>> \in Around
  <2>1. ASSUME NEW d \in Around, u \in found(d) PROVE <<hdr[u].x - l.x, hdr[u].y - l.y>> \in Around
    <3>1. hdr[u].x = l.x + d[1] /\ hdr[u].y = l.y + d[2]
      BY <1>2, <2>1
    <3>2. d[1] \in {-1, 0, 1} /\ d[2] \in {-1, 0, 1}
      BY DEF Around
    <3>3. hdr[u].x - l.x = d[1] /\ hdr[u].y - l.y = d[2]
      BY <1>1, <3>1, <3>2
    <3>4. QED
      BY <3>2, <3>3 DEF Around
  <2>2. ASSUME <<hdr[u].x - l.x, hdr[u].y - l.y>> \in Around PROVE \E d \in Around : u \in found(d)
    <3> DEFINE d == <<hdr[u].x - l.x, hdr[u].y - l.y>>
    <3>1. hdr[u].x = l.x + d[1] /\ hdr[u].y = l.y + d[2]
      BY <1>1, <1>3
    <3>2. d \in Around
      BY <2>2
    <3> HIDE DEF d
    <3>3. u \in found(d)
      BY <1>2, <3>1, <3>2
    <3>4. QED
      BY <3>2, <3>3
  <2>3. QED
    BY <2>1, <2>2
<1> DEFINE all == UNION {TilesAt(lut, nxt, hdr, l.x + d[1], l.y + d[2]) : d \in Around}
<1>5. Neighbours(lut, nxt, hdr, t, l) = all \ {t}
  BY DEF Neighbours
<1>6. \A d \in Around : found(d) \in SUBSET D
  BY <1>2
<1>7. \A u : u \in all <=> \E d \in Around : u \in found(d)
  OBVIOUS
<1> HIDE DEF found
<1>8. \A u : u \in all <=> u \in D /\ <<hdr[u].x - l.x, hdr[u].y - l.y>> \in Around
  <2> HIDE DEF all
  <2>1. QED
    BY <1>4, <1>6, <1>7
<1> HIDE DEF all
<1>9. QED
  BY <1>5, <1>8

-----------------------------------------------------------------------------
(* The links.                                                              *)

Used == {i \in Slots : header[i] # NoLoc}

\* What is known of the rest of the mesh.
MeshFacts == MeshInv /\ Pool!PoolTypeOK /\ Pool!UniqueLocation

LinksInv == links \in [Slots -> SUBSET Pool!Ref] /\ LinksAreLive

LEMMA MeshFactsHold == Spec => []MeshFacts
<1>1. MeshFacts <=> MeshInv /\ Pool!PoolTypeOK /\ Pool!UniqueLocation
  BY DEF MeshFacts
<1>2. QED
  BY <1>1, MeshInductive, MeshPoolTypes, MeshUniqueLocation, PTL

MeshHashed == Hashed(posLookup, next, header, Used)

LEMMA MeshIsHashed == MeshFacts => MeshHashed
<1> SUFFICES ASSUME MeshFacts PROVE Hashed(posLookup, next, header, Used)
  BY DEF MeshHashed
<1>1. \A i \in Used : header[i] \in Locs
  BY DEF Used, MeshFacts, MeshInv, ListTypes
<1>2. \A i, j \in Used : header[i] = header[j] => i = j
  BY DEF Used, MeshFacts, Pool!UniqueLocation
<1>3. ASSUME NEW h \in Hashes
      PROVE  IsList(posLookup[h], next, {i \in Used : ComputeTileHash(header[i].x, header[i].y) = h})
  <2>1. ChainSlots(h) = {i \in Used : ComputeTileHash(header[i].x, header[i].y) = h}
    BY DEF ChainSlots, Used
  <2>2. QED
    BY <2>1 DEF MeshFacts, MeshInv, ListsInv
<1>4. QED
  BY <1>1, <1>2, <1>3 DEF Hashed, Used

LEMMA AdjacentSymmetric ==
  ASSUME NEW l \in Locs, NEW m \in Locs
  PROVE  Adjacent(l, m) <=> Adjacent(m, l)
<1>1. l.x \in Int /\ l.y \in Int /\ m.x \in Int /\ m.y \in Int
  BY LocFields
<1>2. \A a, b \in Int : a - b \in {-1, 0, 1} <=> b - a \in {-1, 0, 1}
  OBVIOUS
<1>3. QED
  BY <1>1, <1>2 DEF Adjacent, Around

\* Tile t is put at l: whom it is connected to.
LEMMA InsertFacts ==
  ASSUME MeshFacts, MeshFacts', NEW t \in EmptySlots, NEW l \in Locs, NEW nxt, NEW s,
         nxt \in [Slots -> Slots \cup {Nil}], Insert(t, l, nxt, s)
  PROVE  /\ t \in Slots /\ header[t] = NoLoc
         /\ header'[t] = l /\ \A u \in Slots \ {t} : header'[u] = header[u]
         /\ \E nbs, own :
              /\ nbs = {u \in Used : Adjacent(l, header[u])}
              /\ own \in OwnLinks(l, nbs)
              /\ links' = Connected(t, own, [slot |-> t, salt |-> s], nbs)
<1> DEFINE h == ComputeTileHash(l.x, l.y)
<1> DEFINE nbs == Neighbours(posLookup', next', header', t, l)
<1>1. t \in Slots /\ header[t] = NoLoc /\ l # NoLoc
  BY SlotFacts DEF EmptySlots
<1>2. header' = [header EXCEPT ![t] = l] /\ header \in [Slots -> Locs \cup {NoLoc}]
  BY DEF Insert, MeshFacts, MeshInv, ListTypes
<1>3. header'[t] = l /\ \A u \in Slots \ {t} : header'[u] = header[u]
  BY <1>1, <1>2
<1>4. Hashed(posLookup', next', header', Used')
  <2>1. (MeshFacts => MeshHashed)'
    BY MeshIsHashed, PTL
  <2>2. QED
    BY <2>1 DEF MeshHashed
<1>5. nbs = {u \in Used' \ {t} : <<header'[u].x - l.x, header'[u].y - l.y>> \in Around}
  BY <1>4, NeighboursFinds
<1>6. Used' \ {t} = Used /\ \A u \in Used : u # t /\ header'[u] = header[u] /\ header[u] \in Locs
  BY <1>1, <1>2, <1>3 DEF Used
<1>7. \A u \in Used : header[u] # l
  <2>1. \A u \in Used : u \in Slots /\ u # t /\ header'[u] = header[u]
    BY <1>6 DEF Used
  <2>2. QED
    BY <1>1, <1>3, <2>1 DEF MeshFacts, Pool!UniqueLocation
<1>8. nbs = {u \in Used : Adjacent(l, header[u])}
  BY <1>5, <1>6, <1>7 DEF Adjacent
<1>9. \E own \in OwnLinks(l, nbs) : links' = Connected(t, own, [slot |-> t, salt |-> s], nbs)
  BY DEF Insert
<1> HIDE DEF nbs
<1>10. QED
  BY <1>1, <1>3, <1>8, <1>9

\* A link lives: it leads to a tile next to the one it starts from.
Joins(i, r) == Pool!Live(r) /\ header[i] # NoLoc /\ Adjacent(header[i], header[r.slot])

LinksJoin ==
  /\ links \in [Slots -> SUBSET Pool!Ref]
  /\ \A i \in Slots : \A r \in links[i] : Joins(i, r)

LEMMA LinksAsJoins == LinksInv <=> LinksJoin
BY DEF LinksInv, LinksAreLive, Joins, LinksJoin

LEMMA InsertLinks ==
  ASSUME MeshFacts, MeshFacts', LinksInv, NEW t \in EmptySlots, NEW l \in Locs, NEW nxt, NEW s,
         nxt \in [Slots -> Slots \cup {Nil}], Insert(t, l, nxt, s),
         salt'[t] = s, \A u \in Slots \ {t} : salt'[u] = salt[u]
  PROVE  LinksInv'
<1> DEFINE ref == [slot |-> t, salt |-> s]
<1>1. /\ t \in Slots /\ header[t] = NoLoc
      /\ header'[t] = l /\ \A u \in Slots \ {t} : header'[u] = header[u]
  BY InsertFacts
<1>2. PICK nbs, own : /\ nbs = {u \in Used : Adjacent(l, header[u])}
                      /\ own \in OwnLinks(l, nbs)
                      /\ links' = Connected(t, own, ref, nbs)
  BY InsertFacts
<1>3. /\ links \in [Slots -> SUBSET Pool!Ref]
      /\ \A i \in Slots : \A r \in links[i] : Joins(i, r)
  BY LinksAsJoins DEF LinksJoin
<1>4. salt' \in [Slots -> 1..MaxSalt] /\ salt \in [Slots -> 1..MaxSalt]
  BY DEF MeshFacts, Pool!PoolTypeOK
<1>5. \A u \in Used : u \in Slots /\ u # t /\ header[u] # NoLoc /\ header[u] \in Locs
  BY <1>1 DEF Used, MeshFacts, MeshInv, ListTypes
<1>6. l # NoLoc
  BY SlotFacts
<1>7. ref \in Pool!Ref /\ ref.slot = t /\ ref.salt = s
  BY <1>1, <1>4 DEF Pool!Ref
<1>8. \A i \in Slots : links'[i] = IF i = t THEN own
                                   ELSE IF i \in nbs /\ Cardinality(links[i]) < LinkCap[header[i]]
                                     THEN links[i] \cup {ref}
                                     ELSE links[i]
  BY <1>2 DEF Connected
<1>9. ASSUME NEW r \in own PROVE r \in Pool!Ref /\ Joins(t, r)'
  <2>1. PICK u \in nbs : r = [slot |-> u, salt |-> salt[u]]
    BY <1>2 DEF OwnLinks
  <2>2. u \in Used /\ Adjacent(l, header[u])
    BY <1>2, <2>1
  <2>3. u \in Slots /\ u # t /\ r.slot = u /\ r.salt = salt[u]
    BY <1>5, <2>1, <2>2
  <2>4. r \in Pool!Ref
    BY <1>4, <2>1, <2>3 DEF Pool!Ref
  <2>5. header'[u] = header[u] /\ salt'[u] = salt[u] /\ header[u] # NoLoc
    BY <1>1, <1>5, <2>2, <2>3
  <2>6. QED
    BY <1>1, <1>6, <2>2, <2>3, <2>4, <2>5 DEF Joins, Pool!Live
<1>10. ASSUME NEW i \in Slots, i # t, NEW r \in links[i]
       PROVE  r \in Pool!Ref /\ Joins(i, r)' /\ r.slot # t
  <2>1. r \in Pool!Ref /\ r.slot \in Slots
    BY <1>3, <1>10 DEF Pool!Ref
  <2>2. Joins(i, r)
    BY <1>3, <1>10
  <2>3. r.slot # t
    BY <1>1, <2>2 DEF Joins, Pool!Live
  <2>4. header'[r.slot] = header[r.slot] /\ salt'[r.slot] = salt[r.slot] /\ header'[i] = header[i]
    BY <1>1, <1>10, <2>1, <2>3
  <2>5. QED
    BY <2>1, <2>2, <2>3, <2>4 DEF Joins, Pool!Live
<1>11. ASSUME NEW i \in nbs PROVE Joins(i, ref)'
  <2>1. i \in Used /\ Adjacent(l, header[i])
    BY <1>2, <1>11
  <2>2. i \in Slots /\ header[i] \in Locs /\ header'[i] = header[i] /\ header[i] # NoLoc
    BY <1>1, <1>5, <2>1
  <2>3. Adjacent(header[i], l)
    BY <2>1, <2>2, AdjacentSymmetric
  <2>4. QED
    BY <1>1, <1>6, <1>7, <2>2, <2>3 DEF Joins, Pool!Live
<1>12. links' \in [Slots -> SUBSET Pool!Ref]
  <2>1. \A i \in Slots : links'[i] \in SUBSET Pool!Ref
    <3> HIDE DEF ref
    <3> SUFFICES ASSUME NEW i \in Slots, NEW r \in links'[i] PROVE r \in Pool!Ref
      OBVIOUS
    <3>1. CASE i = t
      BY <1>8, <1>9, <3>1
    <3>2. CASE i # t
      <4>1. r \in links[i] \/ r = ref
        BY <1>8, <3>2
      <4>2. QED
        BY <1>7, <1>10, <3>2, <4>1
    <3>3. QED
      BY <3>1, <3>2
  <2>2. links' = [i \in Slots |-> links'[i]]
    BY <1>2 DEF Connected
  <2>3. QED
    BY <2>1, <2>2
<1>13. ASSUME NEW i \in Slots, NEW r \in links'[i] PROVE Joins(i, r)'
  <2> HIDE DEF ref
  <2>1. CASE i = t
    BY <1>8, <1>9, <1>13, <2>1
  <2>2. CASE i # t
    BY <1>8, <1>10, <1>11, <1>13, <2>2
  <2>3. QED
    BY <2>1, <2>2
<1>14. (LinksInv <=> LinksJoin)'
  BY LinksAsJoins, PTL
<1>15. QED
  BY <1>12, <1>13, <1>14 DEF LinksJoin

\* The tile at slot t is removed: whom it is disconnected from.
LEMMA RemoveFacts ==
  ASSUME MeshFacts, MeshFacts', NEW r, r.slot \in Slots, RemoveTile(r)
  PROVE  /\ header[r.slot] \in Locs /\ header'[r.slot] = NoLoc
         /\ \A u \in Slots \ {r.slot} : header'[u] = header[u] /\ salt'[u] = salt[u]
         /\ links' = Unconnected(r.slot, {u \in Used \ {r.slot} : Adjacent(header[r.slot], header[u])})
<1> DEFINE t == r.slot
<1> DEFINE l == header[t]
<1> DEFINE h == ComputeTileHash(l.x, l.y)
<1> DEFINE unhashed == UnlinkNext(posLookup[h], next, t)
<1> DEFINE nbs == Neighbours(posLookup', unhashed, header, t, l)
<1>1. /\ l # NoLoc
      /\ header' = [header EXCEPT ![t] = NoLoc]
      /\ salt' = [salt EXCEPT ![t] = Pool!NextSalt(salt[t])]
      /\ next' = [unhashed EXCEPT ![t] = nextFree]
      /\ links' = Unconnected(t, nbs)
  BY DEF RemoveTile
<1>2. /\ header \in [Slots -> Locs \cup {NoLoc}] /\ salt \in [Slots -> 1..MaxSalt]
      /\ \A i, j \in Slots : header[i] # NoLoc /\ header[i] = header[j] => i = j
  BY DEF MeshFacts, MeshInv, ListTypes, Pool!PoolTypeOK, Pool!UniqueLocation
<1>3. t \in Slots /\ l \in Locs
  BY <1>1, <1>2
<1>4. unhashed = [p \in Slots |-> unhashed[p]]
  BY DEF UnlinkNext
<1> HIDE DEF unhashed, t, h
<1>5. /\ header'[t] = NoLoc
      /\ \A u \in Slots \ {t} : header'[u] = header[u] /\ salt'[u] = salt[u] /\ next'[u] = unhashed[u]
  BY <1>1, <1>2, <1>3, <1>4
<1>6. Used' = Used \ {t}
  BY <1>3, <1>5 DEF Used
<1>7. Hashed(posLookup', unhashed, header, Used')
  <2>1. Hashed(posLookup', next', header', Used')
    <3>1. (MeshFacts => MeshHashed)'
      BY MeshIsHashed, PTL
    <3>2. QED
      BY <3>1 DEF MeshHashed
  <2>2. \A u \in Used' : u \in Slots \ {t} /\ header'[u] = header[u] /\ next'[u] = unhashed[u]
    BY <1>5, <1>6 DEF Used
  <2>3. ASSUME NEW g \in Hashes
        PROVE  IsList(posLookup'[g], unhashed, {i \in Used' : ComputeTileHash(header[i].x, header[i].y) = g})
    <3> DEFINE S == {i \in Used' : ComputeTileHash(header'[i].x, header'[i].y) = g}
    <3>1. S = {i \in Used' : ComputeTileHash(header[i].x, header[i].y) = g}
      BY <2>2
    <3>2. IsList(posLookup'[g], next', S)
      BY <2>1 DEF Hashed
    <3>3. \A p \in S : unhashed[p] = next'[p]
      BY <2>2
    <3> HIDE DEF S
    <3>4. IsList(posLookup'[g], unhashed, S)
      BY <3>2, <3>3, ListFrame
    <3>5. QED
      BY <3>1, <3>4
  <2>4. /\ Used' \in SUBSET Slots
        /\ \A i \in Used' : header[i] \in Locs
        /\ \A i, j \in Used' : header[i] = header[j] => i = j
    BY <1>2, <1>6 DEF Used
  <2>5. QED
    BY <2>3, <2>4 DEF Hashed
<1>8. nbs = {u \in Used' \ {t} : <<header[u].x - l.x, header[u].y - l.y>> \in Around}
  BY <1>3, <1>7, NeighboursFinds
<1>9. \A u \in Used \ {t} : header[u] # l
  BY <1>1, <1>2, <1>3 DEF Used
<1>10. nbs = {u \in Used \ {t} : Adjacent(l, header[u])}
  BY <1>6, <1>8, <1>9 DEF Adjacent
<1> HIDE DEF nbs, l
<1>11. links' = Unconnected(t, {u \in Used \ {t} : Adjacent(l, header[u])})
  BY <1>1, <1>10
<1>12. QED
  BY <1>3, <1>5, <1>11 DEF t, l

LEMMA RemoveLinks ==
  ASSUME MeshFacts, MeshFacts', LinksInv, NEW r, r.slot \in Slots, RemoveTile(r)
  PROVE  LinksInv'
<1> DEFINE t == r.slot
<1> DEFINE nbs == {u \in Used \ {t} : Adjacent(header[t], header[u])}
<1>1. /\ t \in Slots /\ header[t] \in Locs
      /\ \A u \in Slots \ {t} : header'[u] = header[u] /\ salt'[u] = salt[u]
      /\ links' = Unconnected(t, nbs)
  BY RemoveFacts
<1>2. /\ links \in [Slots -> SUBSET Pool!Ref]
      /\ \A i \in Slots : \A q \in links[i] : Joins(i, q)
  BY LinksAsJoins DEF LinksJoin
<1> HIDE DEF t
<1>3. \A i \in Slots : links'[i] = IF i = t THEN {}
                                   ELSE IF i \in nbs THEN {q \in links[i] : q.slot # t}
                                   ELSE links[i]
  BY <1>1 DEF Unconnected
<1>4. ASSUME NEW i \in Slots, NEW q \in links'[i]
      PROVE  i # t /\ q \in links[i] /\ q \in Pool!Ref /\ q.slot \in Slots \ {t}
  <2> HIDE DEF nbs
  <2>1. i # t /\ q \in links[i]
    BY <1>3, <1>4
  <2>2. q \in Pool!Ref /\ q.slot \in Slots
    BY <1>2, <2>1 DEF Pool!Ref
  <2>3. ASSUME q.slot = t PROVE FALSE
    <3>1. header[i] # NoLoc /\ Adjacent(header[i], header[t])
      BY <1>2, <2>1, <2>3 DEF Joins
    <3>2. header[i] \in Locs /\ i \in Used
      BY <3>1 DEF Used, MeshFacts, MeshInv, ListTypes
    <3>3. Adjacent(header[t], header[i])
      BY <1>1, <3>1, <3>2, AdjacentSymmetric
    <3>4. i \in nbs
      BY <2>1, <3>2, <3>3 DEF nbs
    <3>5. QED
      BY <1>3, <1>4, <2>1, <2>3, <3>4
  <2>4. QED
    BY <2>1, <2>2, <2>3
<1>5. ASSUME NEW i \in Slots, NEW q \in links'[i] PROVE Joins(i, q)'
  <2>1. i # t /\ q \in links[i] /\ q.slot \in Slots \ {t} /\ i \in Slots \ {t}
    BY <1>4, <1>5
  <2>2. Joins(i, q)
    BY <1>2, <2>1
  <2>3. header'[i] = header[i] /\ header'[q.slot] = header[q.slot] /\ salt'[q.slot] = salt[q.slot]
    BY <1>1, <2>1
  <2>4. QED
    BY <2>2, <2>3 DEF Joins, Pool!Live
<1>6. links' \in [Slots -> SUBSET Pool!Ref]
  <2>1. \A i \in Slots : links'[i] \in SUBSET Pool!Ref
    BY <1>4
  <2>2. links' = [i \in Slots |-> links'[i]]
    BY <1>1 DEF Unconnected
  <2>3. QED
    BY <2>1, <2>2
<1>7. (LinksInv <=> LinksJoin)'
  BY LinksAsJoins, PTL
<1>8. QED
  BY <1>5, <1>6, <1>7 DEF LinksJoin

\* Both forms of addTile insert a tile that was free.
Puts(l) ==
  \E t \in EmptySlots, nxt \in [Slots -> Slots \cup {Nil}], s \in 1..MaxSalt :
    /\ Insert(t, l, nxt, s)
    /\ salt'[t] = s
    /\ \A u \in Slots \ {t} : salt'[u] = salt[u]

LEMMA AddPuts ==
  ASSUME MeshFacts, NEW l \in Locs, AddTile(l)
  PROVE  Puts(l)
<1>1. /\ nextFree # Nil /\ salt' = salt
      /\ Insert(nextFree, l, next, salt[nextFree])
  BY DEF AddTile
<1>2. nextFree \in EmptySlots
  BY <1>1, ListPop DEF MeshFacts, MeshInv, ListsInv
<1>3. next \in [Slots -> Slots \cup {Nil}] /\ salt \in [Slots -> 1..MaxSalt]
  BY DEF MeshFacts, MeshInv, ListTypes, Pool!PoolTypeOK
<1>4. salt[nextFree] \in 1..MaxSalt
  BY <1>2, <1>3 DEF EmptySlots
<1>5. QED
  BY <1>1, <1>2, <1>3, <1>4 DEF Puts

LEMMA RestorePuts ==
  ASSUME MeshFacts, NEW l \in Locs, NEW e \in stale, RestoreTile(l, e)
  PROVE  Puts(l)
<1> DEFINE nxt == UnlinkNext(nextFree, next, e.slot)
<1>1. /\ salt' = [salt EXCEPT ![e.slot] = e.salt]
      /\ Insert(e.slot, l, nxt, e.salt)
  BY DEF RestoreTile
<1>2. e.slot \in EmptySlots
  BY MeshRestoreTile DEF MeshFacts
<1>3. salt \in [Slots -> 1..MaxSalt] /\ stale \subseteq Pool!StaleRef
  BY DEF MeshFacts, Pool!PoolTypeOK
<1>4. e.salt \in 1..MaxSalt
  BY <1>3 DEF Pool!StaleRef
<1>5. EmptySlots \in SUBSET Slots /\ e.slot \in Slots
  BY <1>2 DEF EmptySlots
<1>6. salt'[e.slot] = e.salt /\ \A u \in Slots \ {e.slot} : salt'[u] = salt[u]
  BY <1>1, <1>3, <1>5
<1>7. nxt \in [Slots -> Slots \cup {Nil}]
  <2>1. next \in [Slots -> Slots \cup {Nil}] /\ IsList(nextFree, next, EmptySlots)
    BY DEF MeshFacts, MeshInv, ListTypes, ListsInv
  <2>2. QED
    BY <1>2, <1>5, <2>1, UnlinkNextFacts
<1> HIDE DEF nxt
<1>8. QED
  BY <1>1, <1>2, <1>4, <1>6, <1>7 DEF Puts

LEMMA MeshSteps ==
  ASSUME MeshFacts, Next
  PROVE  \/ \E l \in Locs : Puts(l)
         \/ \E r : r.slot \in Slots /\ RemoveTile(r)
<1>1. ASSUME NEW l \in Locs, AddTile(l) PROVE Puts(l)
  BY <1>1, AddPuts
<1>2. ASSUME NEW l \in Locs, NEW e \in stale, RestoreTile(l, e) PROVE Puts(l)
  BY <1>2, RestorePuts
<1>3. \A r \in Pool!Ref : r.slot \in Slots
  BY DEF Pool!Ref
<1>4. QED
  BY <1>1, <1>2, <1>3 DEF Next

LEMMA LinksStep == MeshFacts /\ MeshFacts' /\ LinksInv /\ [Next]_vars => LinksInv'
<1> SUFFICES ASSUME MeshFacts, MeshFacts', LinksInv, [Next]_vars PROVE LinksInv'
  OBVIOUS
<1>1. ASSUME NEW l \in Locs, Puts(l) PROVE LinksInv'
  BY <1>1, InsertLinks DEF Puts
<1>2. ASSUME NEW r, r.slot \in Slots, RemoveTile(r) PROVE LinksInv'
  BY <1>2, RemoveLinks
<1>3. CASE UNCHANGED vars
  BY <1>3 DEF vars, LinksInv, LinksAreLive, Pool!Live
<1>4. QED
  BY <1>1, <1>2, <1>3, MeshSteps

LEMMA LinksInductive == Spec => []LinksInv
<1>1. Init => LinksInv
  <2> SUFFICES ASSUME Init PROVE LinksInv
    OBVIOUS
  <2>1. links = [i \in Slots |-> {}]
    BY DEF Init
  <2>2. \A i \in Slots : links[i] = {}
    BY <2>1
  <2>3. QED
    BY <2>1, <2>2 DEF LinksInv, LinksAreLive
<1>2. QED
  BY <1>1, LinksStep, MeshFactsHold, PTL DEF Spec

\* The tiles, the lists and the links have the types of the code's fields.
THEOREM MeshTypeCorrect == Spec => []TypeOK
<1>1. MeshFacts /\ LinksInv => TypeOK
  BY DEF MeshFacts, MeshInv, ListTypes, LinksInv, TypeOK, Hashes
<1>2. QED
  BY <1>1, LinksInductive, MeshFactsHold, PTL

\* No link dangles: findPath and findStraightPath follow links with
\* getTileAndPolyByRefUnsafe, which checks nothing, so addTile and removeTile
\* must leave none that leads to a tile that is gone or elsewhere.
THEOREM MeshLinksAreLive == Spec => []LinksAreLive
<1>1. LinksInv => LinksAreLive
  BY DEF LinksInv
<1>2. QED
  BY <1>1, LinksInductive, PTL

-----------------------------------------------------------------------------
(* No link is missing.                                                     *)

Beside(l) == {m \in Locs : Adjacent(l, m)}

LEMMA BesideFinite ==
  ASSUME NEW l \in Locs
  PROVE  IsFiniteSet(Beside(l)) /\ Cardinality(Beside(l)) \in Nat
<1> DEFINE X == (l.x - 1)..(l.x + 1)
<1> DEFINE Y == (l.y - 1)..(l.y + 1)
<1> DEFINE T == X \X (Y \X Layers)
<1> DEFINE A == Beside(l)
<1> DEFINE f == [m \in A |-> <<m.x, <<m.y, m.layer>>>>]
<1>1. l.x \in Int /\ l.y \in Int
  BY LocFields
<1>2. IsFiniteSet(X) /\ IsFiniteSet(Y)
  <2>1. l.x - 1 \in Int /\ l.x + 1 \in Int /\ l.y - 1 \in Int /\ l.y + 1 \in Int
    BY <1>1
  <2>2. QED
    BY <2>1, FS_Interval
<1>3. IsFiniteSet(T)
  <2> HIDE DEF X, Y
  <2>1. IsFiniteSet(Layers)
    BY MaxNeisAssumption
  <2>2. IsFiniteSet(Y \X Layers)
    BY <1>2, <2>1, FS_Product
  <2>3. QED
    BY <1>2, <2>2, FS_Product
<1>4. ASSUME NEW m \in A PROVE m \in Locs /\ m.x \in X /\ m.y \in Y /\ m.layer \in Layers
  <2>1. m \in Locs /\ Adjacent(l, m)
    BY DEF Beside
  <2>2. m.x \in Int /\ m.y \in Int /\ m.layer \in Layers
    BY <2>1, LocFields
  <2>3. m.x - l.x \in {-1, 0, 1} /\ m.y - l.y \in {-1, 0, 1}
    BY <2>1 DEF Adjacent, Around
  <2>4. QED
    BY <1>1, <2>1, <2>2, <2>3
<1>5. f \in [A -> T]
  <2> HIDE DEF A, X, Y
  <2>1. \A m \in A : <<m.x, <<m.y, m.layer>>>> \in T
    BY <1>4
  <2> HIDE DEF T
  <2>2. QED
    BY <2>1
<1>6. ASSUME NEW m \in A, NEW n \in A, f[m] = f[n] PROVE m = n
  <2>1. m.x = n.x /\ m.y = n.y /\ m.layer = n.layer
    BY <1>6
  <2>2. QED
    BY <1>4, <2>1 DEF Locs
<1>7. IsFiniteSet(A)
  <2> HIDE DEF A, T, f
  <2>1. QED
    BY <1>3, <1>5, <1>6, Embeds
<1>8. QED
  BY <1>7, FS_CardinalityType

\* A tile has at most one link to each position beside it, so there is one left
\* for a position that is empty.
LEMMA LinkLeft ==
  ASSUME MeshFacts, LinksInv, NEW i \in Used, NEW l \in Locs, Adjacent(header[i], l),
         \A u \in Used : header[u] # l
  PROVE  Cardinality(links[i]) \in Nat /\ Cardinality(links[i]) < Cardinality(Beside(header[i]))
<1> DEFINE S == links[i]
<1> DEFINE T == Beside(header[i]) \ {l}
<1> DEFINE f == [r \in S |-> header[r.slot]]
<1>1. i \in Slots /\ header[i] \in Locs
  BY DEF Used, MeshFacts, MeshInv, ListTypes
<1>2. ASSUME NEW r \in S
      PROVE  /\ r \in Pool!Ref /\ r.slot \in Slots /\ salt[r.slot] = r.salt
             /\ header[r.slot] # NoLoc /\ header[r.slot] \in T
  <2>1. r \in Pool!Ref /\ Joins(i, r)
    BY <1>1, LinksAsJoins DEF LinksJoin
  <2>2. r.slot \in Slots
    BY <2>1 DEF Pool!Ref
  <2>3. salt[r.slot] = r.salt /\ header[r.slot] # NoLoc /\ Adjacent(header[i], header[r.slot])
    BY <2>1 DEF Joins, Pool!Live
  <2>4. header[r.slot] \in Locs /\ header[r.slot] # l
    BY <2>2, <2>3 DEF Used, MeshFacts, MeshInv, ListTypes
  <2>5. QED
    BY <2>1, <2>2, <2>3, <2>4 DEF Beside
<1>3. ASSUME NEW r \in S, NEW q \in S, f[r] = f[q] PROVE r = q
  <2>1. r.slot = q.slot
    BY <1>2, <1>3 DEF MeshFacts, Pool!UniqueLocation
  <2>2. r.salt = q.salt
    BY <1>2, <2>1
  <2>3. QED
    BY <1>2, <2>1, <2>2 DEF Pool!Ref
<1>4. f \in [S -> T]
  BY <1>2
<1>5. IsFiniteSet(Beside(header[i])) /\ Cardinality(Beside(header[i])) \in Nat
  BY <1>1, BesideFinite
<1>6. l \in Beside(header[i])
  BY DEF Beside
<1>7. IsFiniteSet(T) /\ Cardinality(T) = Cardinality(Beside(header[i])) - 1
  BY <1>5, <1>6, FS_RemoveElement
<1> HIDE DEF S, T, f
<1>8. IsFiniteSet(S) /\ Cardinality(S) <= Cardinality(T)
  BY <1>3, <1>4, <1>7, Embeds
<1>9. Cardinality(S) \in Nat
  BY <1>8, FS_CardinalityType
<1>10. QED
  BY <1>5, <1>7, <1>8, <1>9 DEF S

\* A new tile with room for them links to all the tiles beside it.
LEMMA OwnIsAll ==
  ASSUME MeshFacts, NEW l \in Locs, NEW nbs, nbs = {u \in Used : Adjacent(l, header[u])},
         NEW own \in OwnLinks(l, nbs), LinkCap[l] >= Cardinality(Beside(l)), NEW j \in nbs
  PROVE  [slot |-> j, salt |-> salt[j]] \in own
<1> DEFINE refs == {[slot |-> u, salt |-> salt[u]] : u \in nbs}
<1> DEFINE A == Beside(l)
<1> DEFINE f == [u \in nbs |-> header[u]]
<1> DEFINE g == [r \in refs |-> r.slot]
<1>1. IsFiniteSet(A) /\ Cardinality(A) \in Nat
  BY BesideFinite
<1>2. \A u \in nbs : u \in Slots /\ header[u] # NoLoc /\ header[u] \in A
  BY DEF Used, MeshFacts, MeshInv, ListTypes, Beside
<1>3. f \in [nbs -> A]
  BY <1>2
<1>4. \A u, v \in nbs : f[u] = f[v] => u = v
  BY <1>2 DEF MeshFacts, Pool!UniqueLocation
<1>5. IsFiniteSet(nbs) /\ Cardinality(nbs) <= Cardinality(A)
  <2> HIDE DEF f, A
  <2>1. QED
    BY <1>1, <1>3, <1>4, Embeds
<1>6. Cardinality(nbs) \in Nat
  BY <1>5, FS_CardinalityType
<1>7. g \in [refs -> nbs]
  OBVIOUS
<1>8. \A r, q \in refs : g[r] = g[q] => r = q
  OBVIOUS
<1>9. IsFiniteSet(refs) /\ Cardinality(refs) <= Cardinality(nbs)
  <2> HIDE DEF g, refs
  <2>1. QED
    BY <1>5, <1>7, <1>8, Embeds
<1>10. Cardinality(refs) \in Nat
  <2> HIDE DEF refs
  <2>1. QED
    BY <1>9, FS_CardinalityType
<1>11. LinkCap[l] \in Nat
  BY LinkCapAssumption
<1>12. own \in SUBSET refs /\ Cardinality(own) = Cardinality(nbs)
  <2>1. /\ own \in SUBSET refs
        /\ Cardinality(own) = IF Cardinality(nbs) < LinkCap[l] THEN Cardinality(nbs) ELSE LinkCap[l]
    BY DEF OwnLinks
  <2> HIDE DEF refs
  <2>2. Cardinality(own) = Cardinality(nbs)
    BY <1>1, <1>5, <1>6, <1>11, <2>1
  <2>3. QED
    BY <2>1, <2>2
<1>13. own = refs
  <2> HIDE DEF refs
  <2>1. Cardinality(own) <= Cardinality(refs) /\ (Cardinality(refs) = Cardinality(own) => refs = own)
    BY <1>9, <1>12, FS_Subset
  <2>2. Cardinality(refs) = Cardinality(own)
    BY <1>6, <1>9, <1>10, <1>12, <2>1
  <2>3. QED
    BY <2>1, <2>2
<1>14. QED
  BY <1>13

\* Tile i has room for all its neighbours.
Roomy(i) == LinkCap[header[i]] >= Cardinality(Beside(header[i]))

\* NeighboursAreLinked for i and j.
Linked(i, j) ==
  header[i] # NoLoc /\ header[j] # NoLoc /\ Adjacent(header[i], header[j]) /\ Roomy(i)
    => Pool!RefOf(j) \in links[i]

AllLinked == \A i, j \in Slots : Linked(i, j)

LEMMA LinkedAsLinked == NeighboursAreLinked <=> AllLinked
BY DEF NeighboursAreLinked, AllLinked, Linked, Roomy, Beside

LEMMA InsertLinked ==
  ASSUME MeshFacts, MeshFacts', LinksInv, AllLinked, NEW l \in Locs, Puts(l)
  PROVE  AllLinked'
<1> PICK t \in EmptySlots, nxt \in [Slots -> Slots \cup {Nil}], s \in 1..MaxSalt :
         Insert(t, l, nxt, s) /\ salt'[t] = s /\ \A u \in Slots \ {t} : salt'[u] = salt[u]
  BY DEF Puts
<1> DEFINE ref == [slot |-> t, salt |-> s]
<1>1. /\ t \in Slots /\ header[t] = NoLoc
      /\ header'[t] = l /\ \A u \in Slots \ {t} : header'[u] = header[u]
  BY InsertFacts
<1>2. PICK nbs, own : /\ nbs = {u \in Used : Adjacent(l, header[u])}
                      /\ own \in OwnLinks(l, nbs)
                      /\ links' = Connected(t, own, ref, nbs)
  BY InsertFacts
<1>3. \A i \in Slots : links'[i] = IF i = t THEN own
                                   ELSE IF i \in nbs /\ Cardinality(links[i]) < LinkCap[header[i]]
                                     THEN links[i] \cup {ref}
                                     ELSE links[i]
  BY <1>2 DEF Connected
<1>4. \A u \in Used : u \in Slots /\ u # t /\ header[u] # l /\ header[u] \in Locs
  <2>1. \A u \in Used : u \in Slots /\ u # t /\ header[u] # NoLoc /\ header[u] \in Locs
    BY <1>1 DEF Used, MeshFacts, MeshInv, ListTypes
  <2>2. ASSUME NEW u \in Used, header[u] = l PROVE FALSE
    <3>1. header'[u] = l /\ header'[u] # NoLoc /\ u \in Slots /\ u # t
      BY <1>1, <2>1, <2>2
    <3>2. QED
      BY <1>1, <3>1 DEF MeshFacts, Pool!UniqueLocation
  <2>3. QED
    BY <2>1, <2>2
<1> SUFFICES ASSUME NEW i \in Slots, NEW j \in Slots,
                    header'[i] # NoLoc, header'[j] # NoLoc, Adjacent(header'[i], header'[j]),
                    LinkCap[header'[i]] >= Cardinality(Beside(header'[i]))
             PROVE  [slot |-> j, salt |-> salt'[j]] \in links'[i]
  BY DEF AllLinked, Linked, Roomy, Pool!RefOf
<1>5. CASE i = t
  <2>1. j # t
    BY <1>1, <1>5 DEF Adjacent
  <2>2. j \in nbs /\ salt'[j] = salt[j]
    BY <1>1, <1>2, <1>5, <2>1 DEF Used
  <2>3. [slot |-> j, salt |-> salt[j]] \in own
    BY <1>1, <1>2, <1>5, <2>2, OwnIsAll
  <2>4. links'[i] = own
    BY <1>3, <1>5
  <2>5. QED
    BY <2>2, <2>3, <2>4
<1>6. CASE i # t /\ j = t
  <2>1. i \in Used /\ header[i] \in Locs /\ Adjacent(header[i], l) /\ header'[i] = header[i]
    BY <1>1, <1>4, <1>6 DEF Used
  <2>2. i \in nbs
    BY <1>2, <2>1, AdjacentSymmetric
  <2>3. Cardinality(links[i]) \in Nat /\ Cardinality(links[i]) < Cardinality(Beside(header[i]))
    BY <1>4, <2>1, LinkLeft
  <2>4. LinkCap[header[i]] \in Nat /\ Cardinality(Beside(header[i])) \in Nat
    BY <2>1, LinkCapAssumption, BesideFinite
  <2>5. Cardinality(links[i]) < LinkCap[header[i]]
    BY <2>1, <2>3, <2>4
  <2>6. links'[i] = links[i] \cup {ref}
    BY <1>3, <1>6, <2>2, <2>5
  <2>7. QED
    BY <1>6, <2>6
<1>7. CASE i # t /\ j # t
  <2>1. header'[i] = header[i] /\ header'[j] = header[j] /\ salt'[j] = salt[j]
    BY <1>1, <1>7
  <2>2. Pool!RefOf(j) \in links[i]
    BY <2>1 DEF AllLinked, Linked, Roomy
  <2>3. [slot |-> j, salt |-> salt[j]] \in links[i]
    BY <2>2 DEF Pool!RefOf
  <2>4. links[i] \subseteq links'[i]
    <3> HIDE DEF ref
    <3>1. QED
      BY <1>3, <1>7
  <2>5. QED
    BY <2>1, <2>3, <2>4
<1>8. QED
  BY <1>5, <1>6, <1>7

LEMMA RemoveLinked ==
  ASSUME MeshFacts, MeshFacts', AllLinked, NEW r, r.slot \in Slots, RemoveTile(r)
  PROVE  AllLinked'
<1> DEFINE t == r.slot
<1> DEFINE nbs == {u \in Used \ {t} : Adjacent(header[t], header[u])}
<1>1. /\ header'[t] = NoLoc
      /\ \A u \in Slots \ {t} : header'[u] = header[u] /\ salt'[u] = salt[u]
      /\ links' = Unconnected(t, nbs)
  BY RemoveFacts
<1> HIDE DEF t
<1>2. \A i \in Slots : links'[i] = IF i = t THEN {}
                                   ELSE IF i \in nbs THEN {q \in links[i] : q.slot # t}
                                   ELSE links[i]
  BY <1>1 DEF Unconnected
<1> SUFFICES ASSUME NEW i \in Slots, NEW j \in Slots,
                    header'[i] # NoLoc, header'[j] # NoLoc, Adjacent(header'[i], header'[j]),
                    LinkCap[header'[i]] >= Cardinality(Beside(header'[i]))
             PROVE  [slot |-> j, salt |-> salt'[j]] \in links'[i]
  BY DEF AllLinked, Linked, Roomy, Pool!RefOf
<1>3. i # t /\ j # t
  BY <1>1
<1>4. header'[i] = header[i] /\ header'[j] = header[j] /\ salt'[j] = salt[j]
  BY <1>1, <1>3
<1>5. Pool!RefOf(j) \in links[i]
  BY <1>4 DEF AllLinked, Linked, Roomy
<1>6. [slot |-> j, salt |-> salt[j]] \in links[i]
  BY <1>5 DEF Pool!RefOf
<1> HIDE DEF nbs
<1>7. QED
  BY <1>2, <1>3, <1>4, <1>6

\* Two neighbouring tiles are linked both ways, whichever addTile put in first
\* and however often removeTile took either out, as long as their link pools
\* have room for all their neighbours.
THEOREM MeshNeighboursAreLinked == Spec => []NeighboursAreLinked
<1>1. Init => AllLinked
  <2> SUFFICES ASSUME Init PROVE AllLinked
    OBVIOUS
  <2>1. \A i \in Slots : header[i] = NoLoc
    BY DEF Init
  <2>2. QED
    BY <2>1 DEF AllLinked, Linked
<1>2. MeshFacts /\ MeshFacts' /\ LinksInv /\ AllLinked /\ [Next]_vars => AllLinked'
  <2> SUFFICES ASSUME MeshFacts, MeshFacts', LinksInv, AllLinked, [Next]_vars PROVE AllLinked'
    OBVIOUS
  <2>1. ASSUME NEW l \in Locs, Puts(l) PROVE AllLinked'
    BY <2>1, InsertLinked
  <2>2. ASSUME NEW r, r.slot \in Slots, RemoveTile(r) PROVE AllLinked'
    BY <2>2, RemoveLinked
  <2>3. CASE UNCHANGED vars
    BY <2>3 DEF vars, AllLinked, Linked, Roomy, Pool!RefOf
  <2>4. QED
    BY <2>1, <2>2, <2>3, MeshSteps
<1>3. QED
  BY <1>1, <1>2, LinkedAsLinked, LinksInductive, MeshFactsHold, PTL DEF Spec
=============================================================================
