--------------------------- MODULE MC_SearchNodes ---------------------------
(***************************************************************************)
(* Five polygons in two hash chains and room for fewer nodes: a heap of    *)
(* three levels, chains of up to three nodes, a pool that runs out.        *)
(***************************************************************************)
EXTENDS SearchNodes, TLC

CONSTANTS a, b, c, d, e

TwoChains == (a :> 0) @@ (b :> 0) @@ (c :> 0) @@ (d :> 1) @@ (e :> 1)

SameChain == Permutations({a, b, c}) \cup Permutations({d, e})
=============================================================================
