---------------------------- MODULE MC_PathFinder ----------------------------
(***************************************************************************)
(* Corridors of up to four polygons on a grid of three by three points.  A *)
(* first portal stands for those that the grid can be turned into; with    *)
(* four polygons it starts at the middle of the grid.  An off-mesh         *)
(* connection is the second polygon or the last.                           *)
(***************************************************************************)
EXTENDS PathFinder, TLC

Grid == (0..2) \X (0..2) \X {1}

PortalsOf(ends) == {p \in [l : ends, r : ends] : p.l # p.r}

Dots(ends) == {p \in [l : ends, r : ends] : p.l = p.r}

FirstPortals ==
  {p \in PortalsOf(Grid) : \/ p.l \in {<<0, 0, 1>>, <<1, 0, 1>>}
                           \/ p.l = <<1, 1, 1>> /\ p.r \in {<<0, 0, 1>>, <<1, 0, 1>>}}

More(seqs, next) ==
  UNION {{s \o <<q>> : q \in {q \in next : Polygon(s[Len(s)], q)}} : s \in seqs}

One == {<<p>> : p \in FirstPortals}
Two == More(One, PortalsOf(Grid))
Three == More(Two, PortalsOf(Grid))

\* An off-mesh connection from a point of the middle row to another, with
\* ground before it and, unless it is the last polygon, behind it.
Row == {<<x, 1, 1>> : x \in {0, 2}}
Over == More({<<p>> : p \in Dots(Row)}, Dots(Row))
Jumps == Over \cup More(Over, PortalsOf(Grid))
LastJumps == More(One, Dots({<<1, 1, 1>>, <<1, 2, 1>>}))

Starts(portal) == {g \in Grid : Before(g, portal)}
Goals(portal) == {g \in Grid : Behind(g, portal)}

With(seqs, jumps, From(_)) ==
  UNION {[start : From(s[1]), goal : Goals(s[Len(s)]), portals : {s}, jumps : {jumps}] : s \in seqs}

\* One polygon: the string goes straight to the goal.
Within == [start : {<<1, 1, 1>>}, goal : Grid, portals : {<<>>}, jumps : {{}}]

\* The first portal starts at the middle of the grid.
Middle(seqs) == {s \in seqs : s[1].l = <<1, 1, 1>>}

SomeCorridors ==
  LET ends(p) == {p.l, p.r}
      oneEnd(p) == {p.l}
  IN  With(One \cup Middle(Two), {}, Starts) \cup With(Two, {}, oneEnd)
        \cup With(Middle(Three), {}, ends)
        \cup With(Jumps, {2}, oneEnd) \cup With(LastJumps, {3}, oneEnd) \cup Within

SomeSearches ==
  {[reached |-> TRUE, far |-> FALSE, flags |-> {"nodes"}],
   [reached |-> FALSE, far |-> FALSE, flags |-> {"small"}]}

SomeClamps == {<<1, 1, 1>>}
=============================================================================
