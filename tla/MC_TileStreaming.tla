-------------------------- MODULE MC_TileStreaming --------------------------
(***************************************************************************)
(* A row of three ADTs of one sub-tile each over two slots, so that the    *)
(* mesh can be full; the file of the third is whole or cut short.          *)
(***************************************************************************)
EXTENDS TileStreaming, TLC

CONSTANTS a1, a2, a3, p, q, e, r

F(v, bs, c) == [version |-> v, blobs |-> bs, cut |-> c]

TheFiles ==
  { (a1 :> F(4, <<p>>, FALSE)) @@ (a2 :> F(6, <<Empty, q>>, FALSE)) @@ (a3 :> F(6, <<r>>, c))
      : c \in BOOLEAN }

NoOff == {[a \in Adts |-> "missing"]}

\* Ring 0 in place of ring 1, so that a row of three is enough for an ADT that
\* is not around either end of a path.
TheRing == [a \in Adts |-> {a}]
TheAhead == (a1 :> {a2}) @@ (a2 :> {a3}) @@ (a3 :> {})

TheAdtOf == (p :> a1) @@ (q :> a2) @@ (e :> a2) @@ (r :> a3)

\* e is the empty sub-tile of a2: from q the search asks for a tile of an ADT
\* that is loaded already.
TheNextTo == (p :> {q}) @@ (q :> {p, e, r}) @@ (e :> {}) @@ (r :> {q})

SlotSymmetry == Permutations(Slots)
=============================================================================
