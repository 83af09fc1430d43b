------------------------- MODULE MC_SlicedFindPath -------------------------
(***************************************************************************)
(* Small meshes in which every polygon is linked to every other, so that   *)
(* nodes are reached in several ways and re-opened.  Four polygons are the *)
(* least in which parents could form a cycle: the goal is never expanded   *)
(* and the start is never given a parent by a search that works.  In two   *)
(* tiles, so that a search can pass through one that was removed and       *)
(* loaded again since the search met it.                                   *)
(***************************************************************************)
EXTENDS SlicedFindPath, TLC

CONSTANTS a, b, c, d, t, u

AllLinks == {<<p, q>> \in Polys \X Polys : p # q}

TwoTiles == (a :> t) @@ (b :> t) @@ (c :> u)
ThreeAndOne == (a :> t) @@ (b :> t) @@ (c :> t) @@ (d :> u)

\* Polygons of one tile.
SameTile == Permutations({a, b})
=============================================================================
