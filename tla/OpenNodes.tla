------------------------------ MODULE OpenNodes ------------------------------
(***************************************************************************)
(* What a search of dtNavMeshQuery asks of its node pool and its open list:*)
(* one node for each polygon and state it has met, with the total at which *)
(* it was last reached, and an open list that gives the cheapest first.    *)
(* SlicedFindPath is written against this; SearchNodes implements it.      *)
(*                                                                         *)
(* A search that finds the pool full goes on without the node: a stutter.  *)
(***************************************************************************)
EXTENDS Naturals

CONSTANTS
  Keys,    \* a polygon and a state, which together have one node
  Totals   \* costs of a node, with its heuristic

VARIABLES
  known,   \* the nodes: records of a key and its total
  open     \* keys of the nodes on the open list

openVars == <<known, open>>

KnownNode(k, t) == [key |-> k, total |-> t]

OpenInit == known = {} /\ open = {}

\* clear, and the start.
Start(k, t) ==
  /\ known' = {KnownNode(k, t)}
  /\ open' = {k}

Meet(k, t) ==
  /\ \A n \in known : n.key # k
  /\ known' = known \cup {KnownNode(k, t)}
  /\ open' = open \cup {k}

\* A cheaper way to n, which may have been closed.
Cheapen(n, t) ==
  /\ t < n.total
  /\ known' = (known \ {n}) \cup {KnownNode(n.key, t)}
  /\ open' = open \cup {n.key}

Close(n) ==
  /\ n.key \in open
  /\ \A m \in known : m.key \in open => n.total <= m.total
  /\ open' = open \ {n.key}
  /\ UNCHANGED known

OpenNext ==
  \/ \E k \in Keys, t \in Totals : Start(k, t) \/ Meet(k, t)
  \/ \E n \in known : Close(n) \/ \E t \in Totals : Cheapen(n, t)

OpenSpec == OpenInit /\ [][OpenNext]_openVars
=============================================================================
