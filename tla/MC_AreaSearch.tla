---------------------------- MODULE MC_AreaSearch ----------------------------
(***************************************************************************)
(* Four polygons, each linked to every other, so that a search meets them  *)
(* in any order and over any number of ways.                               *)
(***************************************************************************)
EXTENDS AreaSearch, TLC

CONSTANTS a, b, c, d

AllLinks == {<<p, q>> \in Polys \X Polys : p # q}

\* With equal costs the wall search expands what is open in any order.
SmallCosts == [k \in AllKinds |-> IF k = "wall" THEN {0} ELSE {0, 1}]

\* Where the circle does not shrink, a portal is within it or not looked at.
SmallDists == [k \in AllKinds |-> IF k = "wall" THEN {0, 1} ELSE {0}]

SamePolys == Permutations(Polys)
=============================================================================
