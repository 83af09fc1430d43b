------------------------------- MODULE Plane -------------------------------
(***************************************************************************)
(* The plane that Detour's funnel works in: which side of a line a point is *)
(* on, where a line meets a portal and whether a point lies on one.  A      *)
(* point is <<x, y, d>>, for x/d and y/d; a portal is a record with a left  *)
(* end l and a right end r.                                                *)
(***************************************************************************)
EXTENDS Integers

\* The points with whole numbers as coordinates.
Places == Int \X Int \X {1}

\* The difference of two points in one direction, times a positive number.
Diff(p, q, i) == q[i] * p[3] - p[i] * q[3]

\* dtTriArea2D, times a positive number: the loop looks at its sign only.
Area(a, b, c) == Diff(a, c, 1) * Diff(a, b, 2) - Diff(a, b, 1) * Diff(a, c, 2)

\* dtVequal, exactly.
SamePoint(p, q) == p[1] * q[3] = q[1] * p[3] /\ p[2] * q[3] = q[2] * p[3]

\* vperpXZ of b - a and d - c.
Perp(a, b, c, d) == (b[1] - a[1]) * (d[2] - c[2]) - (b[2] - a[2]) * (d[1] - c[1])

\* dtIntersectSegSeg2D finds no intersection.
Parallel(a, b, portal) == Perp(a, b, portal.l, portal.r) = 0

\* Where the line through a and b meets the line of the portal.
Crossing(a, b, portal) ==
  LET d == Perp(a, b, portal.l, portal.r)
      t == Perp(a, b, portal.l, a)
      s == IF d < 0 THEN -1 ELSE 1
      l == portal.l
      r == portal.r
  IN  <<s * (d * l[1] + t * (r[1] - l[1])), s * (d * l[2] + t * (r[2] - l[2])), s * d>>

IsPoint(portal) == portal.l = portal.r

Between(p, a, b) ==
  /\ Area(a, b, p) = 0
  /\ \A i \in 1..2 : Diff(a, p, i) * Diff(p, b, i) >= 0

\* dtDistancePtSegSqr2D is zero.
OnPortal(p, portal) == Between(p, portal.l, portal.r)
=============================================================================
