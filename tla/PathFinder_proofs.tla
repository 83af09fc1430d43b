-------------------------- MODULE PathFinder_proofs --------------------------
(***************************************************************************)
(* A path request keeps its types, its points name the polygons of the     *)
(* corridor in their order and lead to the goal, each on the portal by     *)
(* which its polygon is entered, and its result tells how far they lead:   *)
(* for corridors of any length over any integer grid, and any array size.  *)
(***************************************************************************)
EXTENDS PathFinder, Lemmas

Vertices == [pt : Spots, flag : Flags, ref : Nat]

Strings == Seq(Vertices) \ {<<>>}

-----------------------------------------------------------------------------
(* Strings: what the result arrays hold as long as the mesh is whole       *)

Last(s) == Entered(LastPoint(s))

\* The vertex names a polygon of the path, and is marked as it should be.
GoodVertex(v) ==
  /\ v.ref \in 0..Polys
  /\ v.flag = "end" <=> v.ref = 0
  /\ v.ref = 0 => SamePoint(v.pt, corridor.goal)
  /\ v.ref \in corridor.jumps => v.flag = "offmesh"

InOrder(s) == \A i, j \in 1..Len(s) : i < j => Entered(s[i]) < Entered(s[j])

GoodString(s) ==
  /\ s \in Strings
  /\ SamePoint(s[1].pt, corridor.start)
  /\ \A i \in 1..Len(s) : GoodVertex(s[i])
  /\ InOrder(s)

LEMMA PolysIsNat == SoundCorridor(corridor) => Polys \in Nat /\ Polys >= 1 /\ Len(corridor.portals) = Polys - 1
<1> SUFFICES ASSUME SoundCorridor(corridor) PROVE Polys \in Nat /\ Polys >= 1 /\ Len(corridor.portals) = Polys - 1
  OBVIOUS
<1>1. corridor.portals \in Seq([l : Places, r : Places])
  BY DEF SoundCorridor
<1>2. Len(corridor.portals) \in Nat
  BY <1>1
<1>3. QED
  BY <1>2 DEF Polys, PolyCount

LEMMA PortalIsPair ==
  ASSUME SoundCorridor(corridor), NEW k \in 1..Polys
  PROVE  Portal(k) \in [l : Places, r : Places] /\ (k < Polys => Portal(k) = corridor.portals[k])
<1>1. Polys \in Nat /\ Len(corridor.portals) = Polys - 1
  BY PolysIsNat
<1>2. corridor.portals \in Seq([l : Places, r : Places]) /\ corridor.goal \in Places
  BY DEF SoundCorridor
<1>3. k < Polys => k \in 1..Len(corridor.portals)
  BY <1>1
<1>4. ASSUME k < Polys PROVE corridor.portals[k] \in [l : Places, r : Places]
  <2> DEFINE S == [l : Places, r : Places]
  <2>1. corridor.portals \in Seq(S) /\ k \in 1..Len(corridor.portals)
    BY <1>2, <1>3, <1>4
  <2> HIDE DEF S
  <2>2. corridor.portals[k] \in S
    BY <2>1
  <2>3. QED
    BY <2>2 DEF S
<1>5. QED
  BY <1>2, <1>4 DEF Portal

LEMMA EnteredIsNat ==
  ASSUME SoundCorridor(corridor), NEW v, v.ref \in 0..Polys
  PROVE  Entered(v) \in 1..(Polys + 1)
<1>1. Polys \in Nat
  BY PolysIsNat
<1>2. QED
  BY <1>1 DEF Entered

LEMMA StringParts ==
  ASSUME NEW s \in Strings
  PROVE  /\ s \in Seq(Vertices) /\ Len(s) \in Nat /\ Len(s) >= 1
         /\ LastPoint(s) = s[Len(s)] /\ LastPoint(s) \in Vertices
         /\ \A i \in 1..Len(s) : s[i] \in Vertices
<1>1. s \in Seq(Vertices) /\ s # <<>>
  BY DEF Strings
<1>2. Len(s) \in Nat /\ Len(s) # 0
  BY <1>1
<1>3. QED
  BY <1>1, <1>2 DEF LastPoint

\* What appending a vertex to a string gives.
LEMMA AppendVertexParts ==
  ASSUME NEW s \in Strings, NEW v \in Vertices
  PROVE  LET t == AppendVertex(s, v)
             n == Len(t)
         IN  /\ t \in Strings
             /\ \A i \in 1..(n - 1) : t[i] = s[i]
             /\ LastPoint(t) = t[n]
             /\ t[n].flag = v.flag /\ t[n].ref = v.ref /\ SamePoint(t[n].pt, v.pt)
             /\ t[1].pt = s[1].pt
             /\ \/ n = Len(s) /\ SamePoint(LastPoint(s).pt, v.pt) /\ t[n].pt = LastPoint(s).pt
                \/ n = Len(s) + 1 /\ t[n] = v
<1> DEFINE t == AppendVertex(s, v)
           n == Len(t)
<1>1. /\ s \in Seq(Vertices) /\ Len(s) \in Nat /\ Len(s) >= 1
      /\ LastPoint(s) = s[Len(s)] /\ LastPoint(s) \in Vertices
  BY StringParts
<1>2. CASE SamePoint(LastPoint(s).pt, v.pt)
  <2> DEFINE w == Vertex(LastPoint(s).pt, v.flag, v.ref)
  <2>1. t = [s EXCEPT ![Len(s)] = w]
    BY <1>1, <1>2 DEF AppendVertex
  <2>2. w \in Vertices /\ w.pt = LastPoint(s).pt /\ w.flag = v.flag /\ w.ref = v.ref
    BY <1>1 DEF Vertex, Vertices
  <2> HIDE DEF w, t
  <2>3. t \in Seq(Vertices) /\ Len(t) = Len(s) /\ t[Len(s)] = w
        /\ \A i \in 1..Len(s) : i # Len(s) => t[i] = s[i]
    BY <1>1, <2>1, <2>2
  <2>4. t # <<>>
    BY <1>1, <2>3
  <2>5. t[1].pt = s[1].pt
    BY <1>1, <2>2, <2>3
  <2>6. QED
    BY <1>1, <1>2, <2>2, <2>3, <2>4, <2>5 DEF Strings, LastPoint, t
<1>3. CASE ~SamePoint(LastPoint(s).pt, v.pt)
  <2>1. t = Append(s, v)
    BY <1>3 DEF AppendVertex
  <2> HIDE DEF t
  <2>2. t \in Seq(Vertices) /\ Len(t) = Len(s) + 1 /\ t[Len(s) + 1] = v
        /\ \A i \in 1..Len(s) : t[i] = s[i]
    BY <1>1, <2>1
  <2>3. t # <<>>
    BY <1>1, <2>2
  <2>4. SamePoint(v.pt, v.pt)
    BY SameAsItself DEF Vertices
  <2>5. QED
    BY <1>1, <2>2, <2>3, <2>4 DEF Strings, LastPoint, t
<1>4. QED
  BY <1>2, <1>3

\* A vertex with a later polygon may be appended, one with the polygon of the
\* last vertex if it is at the same point.
LEMMA AppendGood ==
  ASSUME SoundCorridor(corridor), NEW s, GoodString(s), NEW v \in Vertices, GoodVertex(v),
         \/ Last(s) < Entered(v)
         \/ Last(s) = Entered(v) /\ SamePoint(LastPoint(s).pt, v.pt)
  PROVE  /\ GoodString(AppendVertex(s, v))
         /\ Last(AppendVertex(s, v)) = Entered(v)
<1> DEFINE t == AppendVertex(s, v)
           n == Len(t)
<1>1. /\ s \in Strings /\ Len(s) \in Nat /\ Len(s) >= 1 /\ LastPoint(s) = s[Len(s)]
      /\ \A i \in 1..Len(s) : s[i] \in Vertices
  BY StringParts DEF GoodString
<1>2. /\ t \in Strings
      /\ \A i \in 1..(n - 1) : t[i] = s[i]
      /\ LastPoint(t) = t[n]
      /\ t[n].flag = v.flag /\ t[n].ref = v.ref /\ SamePoint(t[n].pt, v.pt)
      /\ t[1].pt = s[1].pt
      /\ \/ n = Len(s) /\ SamePoint(LastPoint(s).pt, v.pt) /\ t[n].pt = LastPoint(s).pt
         \/ n = Len(s) + 1 /\ t[n] = v
  BY <1>1, AppendVertexParts
<1> HIDE DEF t
<1>3. Entered(t[n]) = Entered(v)
  BY <1>2 DEF Entered
<1>4. \A i \in 1..Len(s) : GoodVertex(s[i]) /\ Entered(s[i]) \in 1..(Polys + 1)
  BY EnteredIsNat DEF GoodString, GoodVertex
<1>5. Entered(v) \in 1..(Polys + 1) /\ Polys \in Nat
  BY EnteredIsNat, PolysIsNat DEF GoodVertex
<1>6. \A i \in 1..(n - 1) : Entered(t[i]) < Entered(t[n])
  <2> SUFFICES ASSUME NEW i \in 1..(n - 1) PROVE Entered(s[i]) < Entered(v)
    BY <1>2, <1>3
  <2>1. i \in 1..Len(s) /\ Len(s) \in 1..Len(s)
    BY <1>1, <1>2
  <2>2. CASE n = Len(s)
    <3>1. i < Len(s)
      BY <1>1, <2>2
    <3>2. Entered(s[i]) < Last(s)
      BY <1>1, <2>1, <3>1 DEF GoodString, InOrder, Last
    <3>3. Last(s) <= Entered(v) /\ Last(s) \in Int /\ Entered(s[i]) \in Int
      BY <1>1, <1>4, <1>5, <2>1 DEF Last
    <3>4. QED
      BY <1>5, <3>2, <3>3
  <2>3. CASE n = Len(s) + 1 /\ t[n] = v
    <3>1. CASE SamePoint(LastPoint(s).pt, v.pt)
      <4>1. t = [s EXCEPT ![Len(s)] = Vertex(LastPoint(s).pt, v.flag, v.ref)]
        BY <1>1, <3>1 DEF AppendVertex, t
      <4>2. n = Len(s)
        BY <1>1, <4>1 DEF Strings
      <4>3. QED
        BY <1>1, <2>3, <4>2
    <3>2. CASE ~SamePoint(LastPoint(s).pt, v.pt)
      <4>1. Last(s) < Entered(v) /\ Last(s) = Entered(s[Len(s)])
        BY <1>1, <3>2 DEF Last
      <4>2. i = Len(s) \/ Entered(s[i]) < Entered(s[Len(s)])
        BY <1>1, <2>1 DEF GoodString, InOrder
      <4>3. Entered(s[i]) \in Int /\ Entered(s[Len(s)]) \in Int /\ Entered(v) \in Int
        BY <1>4, <1>5, <2>1
      <4>4. QED
        BY <4>1, <4>2, <4>3
    <3>3. QED
      BY <3>1, <3>2
  <2>4. QED
    BY <1>2, <2>2, <2>3
<1>7. n \in Nat /\ n >= 1 /\ n - 1 <= Len(s)
  BY <1>1, <1>2
<1>8. InOrder(t)
  <2> SUFFICES ASSUME NEW i \in 1..n, NEW j \in 1..n, i < j PROVE Entered(t[i]) < Entered(t[j])
    BY DEF InOrder
  <2>1. CASE j = n
    BY <1>6, <1>7, <2>1
  <2>2. CASE j < n
    <3>1. i \in 1..(n - 1) /\ j \in 1..(n - 1) /\ i \in 1..Len(s) /\ j \in 1..Len(s)
      BY <1>1, <1>7, <2>2
    <3>2. t[i] = s[i] /\ t[j] = s[j]
      BY <1>2, <3>1
    <3>3. QED
      BY <3>1, <3>2 DEF GoodString, InOrder
  <2>3. QED
    BY <1>7, <2>1, <2>2
<1>9. GoodVertex(t[n])
  <2>1. CASE t[n] = v
    BY <2>1
  <2>2. CASE SamePoint(LastPoint(s).pt, v.pt) /\ t[n].pt = LastPoint(s).pt
    <3>1. v.ref = 0 => SamePoint(t[n].pt, corridor.goal)
      <4> SUFFICES ASSUME v.ref = 0 PROVE SamePoint(t[n].pt, corridor.goal)
        OBVIOUS
      <4>1. SamePoint(v.pt, corridor.goal) /\ corridor.goal \in Places
        BY DEF GoodVertex, SoundCorridor
      <4>2. SamePoint(t[n].pt, v.pt)
        BY <1>2
      <4>3. t[n].pt \in Spots /\ v.pt \in Spots
        BY <1>1, <2>2 DEF Vertices
      <4>4. QED
        BY <4>1, <4>2, <4>3, SameAsPlace
    <3>2. QED
      BY <1>2, <3>1 DEF GoodVertex
  <2>3. QED
    BY <1>2, <2>1, <2>2
<1>10. \A i \in 1..n : GoodVertex(t[i])
  <2> SUFFICES ASSUME NEW i \in 1..n PROVE GoodVertex(t[i])
    OBVIOUS
  <2>1. CASE i = n
    BY <1>9, <2>1
  <2>2. CASE i # n
    <3>1. i \in 1..(n - 1) /\ i \in 1..Len(s)
      BY <1>1, <1>7, <2>2
    <3>2. QED
      BY <1>2, <1>4, <3>1
  <2>3. QED
    BY <2>1, <2>2
<1>11. SamePoint(t[1].pt, corridor.start)
  BY <1>2 DEF GoodString
<1>12. QED
  BY <1>2, <1>3, <1>8, <1>10, <1>11 DEF GoodString, Last, t

-----------------------------------------------------------------------------
(* appendPortals                                                           *)

\* Steps that depend on their number can be taken one after another.
IsRun(f, S, step, i, lo, hi) ==
  f \in [(lo-1)..hi -> S] /\ f[lo-1] = i /\ \A k \in lo..hi : f[k] = step[k][f[k-1]]

LEMMA RunExists ==
  ASSUME NEW S, NEW lo \in Int, NEW hi \in Int, lo - 1 <= hi,
         NEW step \in [lo..hi -> [S -> S]], NEW i \in S
  PROVE  \E f : IsRun(f, S, step, i, lo, hi)
<1> DEFINE Runs(m) ==
      \E f \in [(lo-1)..m -> S] : f[lo-1] = i /\ \A k \in lo..m : f[k] = step[k][f[k-1]]
<1> DEFINE T == {m \in Nat : lo - 1 + m <= hi /\ ~Runs(lo - 1 + m)}
<1>1. Runs(lo - 1 + 0)
  <2> DEFINE f == [k \in (lo-1)..(lo-1+0) |-> i]
  <2>1. f \in [(lo-1)..(lo-1+0) -> S] /\ f[lo-1] = i /\ \A k \in lo..(lo-1+0) : f[k] = step[k][f[k-1]]
    OBVIOUS
  <2>2. QED
    BY <2>1
<1>2. ASSUME NEW m \in Int, lo - 1 <= m, m + 1 <= hi, Runs(m) PROVE Runs(m + 1)
  <2>1. PICK f \in [(lo-1)..m -> S] : f[lo-1] = i /\ \A k \in lo..m : f[k] = step[k][f[k-1]]
    BY <1>2
  <2> DEFINE g == [k \in (lo-1)..(m+1) |-> IF k = m + 1 THEN step[m+1][f[m]] ELSE f[k]]
  <2>2. f[m] \in S /\ step[m+1] \in [S -> S]
    BY <1>2, <2>1
  <2>3. step[m+1][f[m]] \in S
    BY <2>2
  <2>4. g \in [(lo-1)..(m+1) -> S]
    BY <1>2, <2>1, <2>3
  <2>5. g[m+1] = step[m+1][f[m]] /\ \A k \in (lo-1)..m : g[k] = f[k]
    BY <1>2
  <2> HIDE DEF g
  <2>6. g[lo-1] = i
    BY <1>2, <2>1, <2>5
  <2>7. \A k \in lo..(m+1) : g[k] = step[k][g[k-1]]
    <3> SUFFICES ASSUME NEW k \in lo..(m+1) PROVE g[k] = step[k][g[k-1]]
      OBVIOUS
    <3>1. CASE k = m + 1
      <4>1. g[k-1] = f[m]
        BY <1>2, <2>5, <3>1
      <4>2. QED
        BY <2>5, <3>1, <4>1
    <3>2. CASE k # m + 1
      <4>1. k \in lo..m /\ k \in (lo-1)..m /\ k - 1 \in (lo-1)..m
        BY <1>2, <3>2
      <4>2. g[k] = f[k] /\ g[k-1] = f[k-1]
        BY <2>5, <4>1
      <4>3. QED
        BY <2>1, <4>1, <4>2
    <3>3. QED
      BY <3>1, <3>2
  <2>8. QED
    BY <2>4, <2>6, <2>7
<1> HIDE DEF Runs
<1>3. T = {}
  <2> SUFFICES ASSUME T # {} PROVE FALSE
    OBVIOUS
  <2>1. PICK m \in T : \A y \in T : m <= y
    BY LeastNumber
  <2>2. m # 0 /\ m \in Nat /\ ~Runs(lo - 1 + m) /\ lo - 1 + m <= hi
    BY <1>1, <2>1
  <2>3. m - 1 \in Nat /\ ~(m <= m - 1)
    BY <2>2
  <2>4. m - 1 \notin T
    BY <2>1, <2>3
  <2>5. lo - 1 + (m - 1) <= hi
    BY <2>2
  <2>6. Runs(lo - 1 + (m - 1))
    BY <2>3, <2>4, <2>5
  <2>7. Runs(lo - 1 + (m - 1) + 1) /\ lo - 1 + (m - 1) + 1 = lo - 1 + m
    BY <1>2, <2>2, <2>6
  <2>8. QED
    BY <2>2, <2>7
<1>4. Runs(hi)
  <2>1. ASSUME NEW m \in Nat, lo - 1 + m <= hi PROVE Runs(lo - 1 + m)
    <3>1. ~Runs(lo - 1 + m) => m \in T
      BY <2>1
    <3>2. m \notin T
      BY <1>3
    <3>3. QED
      BY <3>1, <3>2
  <2> DEFINE n == hi - lo + 1
  <2>2. n \in Nat /\ lo - 1 + n = hi
    OBVIOUS
  <2> HIDE DEF n
  <2>3. lo - 1 + n <= hi
    BY <2>2
  <2>4. Runs(lo - 1 + n)
    BY <2>1, <2>2, <2>3
  <2>5. QED
    BY <2>2, <2>4
<1>5. QED
  BY <1>4 DEF Runs, IsRun

\* What the loop of appendPortals does at portal k.
AtPortal(u, k, pt) ==
  IF IsFull(u) \/ Parallel(apex.pt, pt, corridor.portals[k]) THEN u
  ELSE AppendVertex(u, Vertex(Crossing(apex.pt, pt, corridor.portals[k]), "none", k + 1))

Crossed(f, s, from, to, pt) ==
  f[from - 1] = s /\ \A k \in from..(to - 1) : f[k] = AtPortal(f[k-1], k, pt)

LEMMA AtPortalVertex ==
  ASSUME SoundCorridor(corridor), apex.pt \in Places, NEW pt \in Places, NEW k \in 1..(Polys - 1),
         ~Parallel(apex.pt, pt, corridor.portals[k])
  PROVE  Vertex(Crossing(apex.pt, pt, corridor.portals[k]), "none", k + 1) \in Vertices
<1>1. Polys \in Nat /\ k \in 1..Polys /\ k < Polys
  BY PolysIsNat
<1>2. corridor.portals[k] \in [l : Places, r : Places]
  BY <1>1, PortalIsPair
<1>3. Crossing(apex.pt, pt, corridor.portals[k]) \in Spots
  BY <1>2, CrossingParts
<1>4. QED
  BY <1>1, <1>3 DEF Vertices, Vertex, Flags

LEMMA AppendPortalsSteps ==
  ASSUME SoundCorridor(corridor), apex.pt \in Places, NEW s \in Strings, NEW pt \in Places,
         NEW from \in 1..Polys, NEW to \in from..Polys
  PROVE  \E f : Crossed(f, s, from, to, pt) /\ AppendPortals(s, from, to, pt) = f[to - 1]
<1> DEFINE D == from..(to - 1)
           step == [k \in D |-> [u \in Strings |-> AtPortal(u, k, pt)]]
           Def(f) == [k \in (from-1)..(to-1) |->
             IF k = from - 1 THEN s
             ELSE IF IsFull(f[k-1]) \/ Parallel(apex.pt, pt, corridor.portals[k]) THEN f[k-1]
             ELSE AppendVertex(f[k-1],
                    Vertex(Crossing(apex.pt, pt, corridor.portals[k]), "none", k + 1))]
           W == CHOOSE f : f = Def(f)
<1>1. Polys \in Nat /\ from \in Int /\ to \in Int /\ from >= 1 /\ from - 1 <= to - 1 /\ to <= Polys
  BY PolysIsNat
<1>2. ASSUME NEW k \in D, NEW u \in Strings PROVE AtPortal(u, k, pt) \in Strings
  <2>1. k \in 1..(Polys - 1)
    BY <1>1
  <2>2. CASE IsFull(u) \/ Parallel(apex.pt, pt, corridor.portals[k])
    BY <2>2 DEF AtPortal
  <2>3. CASE ~(IsFull(u) \/ Parallel(apex.pt, pt, corridor.portals[k]))
    <3> DEFINE v == Vertex(Crossing(apex.pt, pt, corridor.portals[k]), "none", k + 1)
    <3>1. v \in Vertices
      BY <2>1, <2>3, AtPortalVertex
    <3> HIDE DEF v
    <3>2. AppendVertex(u, v) \in Strings
      BY <3>1, AppendVertexParts
    <3>3. QED
      BY <2>3, <3>2 DEF AtPortal, v
  <2>4. QED
    BY <2>2, <2>3
<1>3. step \in [D -> [Strings -> Strings]]
  BY <1>2
<1>4. PICK f : IsRun(f, Strings, step, s, from, to - 1)
  <2> HIDE DEF step
  <2>1. to - 1 \in Int
    BY <1>1
  <2>2. QED
    BY <1>1, <1>3, <2>1, RunExists
<1>5. /\ f \in [(from-1)..(to-1) -> Strings] /\ f[from-1] = s
      /\ \A k \in D : f[k] = step[k][f[k-1]]
  BY <1>4 DEF IsRun
<1>6. \A k \in D : f[k] = AtPortal(f[k-1], k, pt)
  <2> SUFFICES ASSUME NEW k \in D PROVE f[k] = AtPortal(f[k-1], k, pt)
    OBVIOUS
  <2>1. k - 1 \in (from-1)..(to-1)
    BY <1>1
  <2>2. f[k-1] \in Strings
    BY <1>5, <2>1
  <2>3. QED
    BY <1>5, <2>2
<1>7. f = Def(f)
  <2>1. ASSUME NEW k \in (from-1)..(to-1)
        PROVE  f[k] = IF k = from - 1 THEN s
                      ELSE IF IsFull(f[k-1]) \/ Parallel(apex.pt, pt, corridor.portals[k]) THEN f[k-1]
                      ELSE AppendVertex(f[k-1],
                             Vertex(Crossing(apex.pt, pt, corridor.portals[k]), "none", k + 1))
    <3>1. CASE k = from - 1
      BY <1>5, <3>1
    <3>2. CASE k # from - 1
      <4>1. k \in D
        BY <1>1, <3>2
      <4>2. QED
        BY <1>6, <3>2, <4>1 DEF AtPortal
    <3>3. QED
      BY <3>1, <3>2
  <2>2. f = [k \in (from-1)..(to-1) |-> f[k]]
    BY <1>5
  <2>3. QED
    BY <2>1, <2>2
<1>8. AppendPortals(s, from, to, pt) = W[to - 1]
  BY DEF AppendPortals
<1>9. W = Def(W)
  <2> HIDE DEF Def
  <2>1. QED
    BY <1>7
<1> HIDE DEF W
<1>10. Crossed(W, s, from, to, pt)
  <2>1. \A k \in (from-1)..(to-1) :
          W[k] = IF k = from - 1 THEN s
                 ELSE IF IsFull(W[k-1]) \/ Parallel(apex.pt, pt, corridor.portals[k]) THEN W[k-1]
                 ELSE AppendVertex(W[k-1],
                        Vertex(Crossing(apex.pt, pt, corridor.portals[k]), "none", k + 1))
    <3>1. \A k \in (from-1)..(to-1) :
            Def(W)[k] = IF k = from - 1 THEN s
                 ELSE IF IsFull(W[k-1]) \/ Parallel(apex.pt, pt, corridor.portals[k]) THEN W[k-1]
                 ELSE AppendVertex(W[k-1],
                        Vertex(Crossing(apex.pt, pt, corridor.portals[k]), "none", k + 1))
      OBVIOUS
    <3> HIDE DEF Def
    <3>2. QED
      BY <1>9, <3>1
  <2>2. from - 1 \in (from-1)..(to-1)
    BY <1>1
  <2>3. \A k \in from..(to-1) : k \in (from-1)..(to-1) /\ k # from - 1
    BY <1>1
  <2>4. QED
    BY <2>1, <2>2, <2>3 DEF Crossed, AtPortal
<1>11. QED
  BY <1>8, <1>10

\* What is known of the string while it is pulled: its last point is the apex,
\* and names the polygon behind the portal of the apex or an earlier one.
AtEnd(pt, k) == pt \in {Portal(k).l, Portal(k).r}

AtApex(s) ==
  /\ GoodString(s)
  /\ Len(s) < size
  /\ SamePoint(LastPoint(s).pt, apex.pt)
  /\ Last(s) > apex.idx => Last(s) = apex.idx + 1 /\ AtEnd(apex.pt, apex.idx)

ApexShape == apex \in [pt : Places, idx : 1..Polys]

\* The vertices of crossings are as they should be: an off-mesh connection has
\* a point for a portal, which is not crossed.
LEMMA CrossingIsGood ==
  ASSUME SoundCorridor(corridor), ApexShape, crossings, NEW pt \in Places, NEW k \in 1..(Polys - 1),
         ~Parallel(apex.pt, pt, corridor.portals[k])
  PROVE  GoodVertex(Vertex(Crossing(apex.pt, pt, corridor.portals[k]), "none", k + 1))
<1> DEFINE v == Vertex(Crossing(apex.pt, pt, corridor.portals[k]), "none", k + 1)
<1>1. Polys \in Nat /\ k \in 1..Polys /\ k < Polys /\ Polys = PolyCount(corridor)
  BY PolysIsNat DEF Polys
<1>2. corridor.portals[k] \in [l : Places, r : Places] /\ apex.pt \in Places
  BY <1>1, PortalIsPair DEF ApexShape
<1>3. ~IsPoint(corridor.portals[k])
  BY <1>2, PointIsParallel
<1>4. k + 1 \notin corridor.jumps
  BY <1>1, <1>3 DEF SoundCorridor
<1>5. v.ref = k + 1 /\ v.flag = "none"
  BY DEF Vertex
<1> HIDE DEF v
<1>6. v.ref \in 0..Polys /\ v.ref # 0
  BY <1>1, <1>5
<1>7. QED
  BY <1>4, <1>5, <1>6 DEF GoodVertex, v

\* The string with the crossings up to polygon `to` is as good as before, fits
\* the array and names no polygon behind that one.
CrossedWell(s, to) ==
  /\ GoodString(s)
  /\ Len(s) <= size
  /\ Last(s) <= to

LEMMA AppendPortalsGood ==
  ASSUME SoundCorridor(corridor), ApexShape, crossings, size \in Nat, NEW s, AtApex(s),
         NEW pt \in Places, NEW to \in apex.idx..Polys, Last(s) <= to
  PROVE  CrossedWell(AppendPortals(s, apex.idx, to, pt), to)
<1> DEFINE from == apex.idx
<1>1. /\ Polys \in Nat /\ from \in 1..Polys /\ from \in Int /\ to \in Int /\ to <= Polys /\ from <= to
      /\ apex.pt \in Places /\ s \in Strings
  BY PolysIsNat DEF ApexShape, AtApex, GoodString
<1>2. PICK f : Crossed(f, s, from, to, pt) /\ AppendPortals(s, from, to, pt) = f[to - 1]
  <2>1. apex.pt \in Places /\ s \in Strings /\ from \in 1..Polys /\ to \in from..Polys
    BY <1>1
  <2>2. QED
    BY <2>1, AppendPortalsSteps
<1> HIDE DEF from
<1>3. f[from - 1] = s /\ \A k \in from..(to - 1) : f[k] = AtPortal(f[k-1], k, pt)
  BY <1>2 DEF Crossed
<1> DEFINE Good(k) ==
      /\ GoodString(f[k]) /\ Len(f[k]) <= size /\ Last(f[k]) <= to
      /\ k >= from => Last(f[k]) <= k + 1
      /\ k = from - 1 => f[k] = s
<1> DEFINE T == {k \in Nat : k \in (from-1)..(to-1) /\ ~Good(k)}
<1>4. Len(s) \in Nat /\ Len(s) >= 1 /\ Len(s) <= size
  BY <1>1, StringParts DEF AtApex
<1>5. Good(from - 1)
  BY <1>1, <1>3, <1>4 DEF AtApex
<1>6. ASSUME NEW k \in from..(to - 1), Good(k - 1) PROVE Good(k)
  <2> DEFINE u == f[k-1]
             v == Vertex(Crossing(apex.pt, pt, corridor.portals[k]), "none", k + 1)
  <2>1. k \in 1..(Polys - 1) /\ k \in Int /\ k >= from /\ k + 1 <= to
    BY <1>1
  <2>2. GoodString(u) /\ Len(u) <= size /\ Last(u) <= to /\ u \in Strings
    BY <1>6 DEF GoodString
  <2>3. Last(u) \in Int /\ Len(u) \in Nat /\ Len(u) >= 1 /\ LastPoint(u) \in Vertices
    <3>1. /\ Len(u) \in Nat /\ Len(u) >= 1 /\ LastPoint(u) = u[Len(u)] /\ LastPoint(u) \in Vertices
      BY <2>2, StringParts
    <3>2. LastPoint(u).ref \in 0..Polys
      BY <2>2, <3>1 DEF GoodString, GoodVertex
    <3>3. QED
      BY <3>1, <3>2, EnteredIsNat DEF Last
  <2>4. /\ k = from => u = s
        /\ k > from => Last(u) <= k
    BY <1>1, <1>6, <2>1
  <2>5. f[k] = AtPortal(u, k, pt)
    BY <1>3
  <2>6. Last(u) <= k + 1
    <3>1. CASE k = from
      BY <1>1, <2>1, <2>3, <2>4, <3>1 DEF AtApex, from
    <3>2. CASE k > from
      BY <2>1, <2>3, <2>4, <3>2
    <3>3. QED
      BY <1>1, <2>1, <3>1, <3>2
  <2> HIDE DEF u, v
  <2>7. CASE IsFull(u) \/ Parallel(apex.pt, pt, corridor.portals[k])
    <3>1. f[k] = u
      BY <2>5, <2>7 DEF AtPortal
    <3>2. k # from - 1
      BY <1>1, <2>1
    <3>3. QED
      BY <2>2, <2>6, <3>1, <3>2
  <2>8. CASE ~IsFull(u) /\ ~Parallel(apex.pt, pt, corridor.portals[k])
    <3>1. f[k] = AppendVertex(u, v)
      BY <2>5, <2>8 DEF AtPortal, v
    <3>2. v \in Vertices /\ GoodVertex(v)
      BY <1>1, <2>1, <2>8, AtPortalVertex, CrossingIsGood DEF v
    <3>3. Entered(v) = k + 1 /\ v.pt = Crossing(apex.pt, pt, corridor.portals[k])
      BY <2>1 DEF Entered, v, Vertex
    <3>4. \/ Last(u) < Entered(v)
          \/ Last(u) = Entered(v) /\ SamePoint(LastPoint(u).pt, v.pt)
      <4>1. CASE Last(u) <= k
        BY <2>1, <2>3, <3>3, <4>1
      <4>2. CASE Last(u) > k
        <5>1. k = from /\ u = s
          BY <1>1, <2>1, <2>3, <2>4, <4>2
        <5>2. AtEnd(apex.pt, k) /\ SamePoint(LastPoint(u).pt, apex.pt)
          BY <4>2, <5>1 DEF AtApex, from
        <5>3. Portal(k) = corridor.portals[k] /\ corridor.portals[k] \in [l : Places, r : Places]
          BY <1>1, <2>1, PortalIsPair
        <5>4. apex.pt \in {corridor.portals[k].l, corridor.portals[k].r} /\ LastPoint(u).pt \in Spots
          BY <2>3, <5>2, <5>3 DEF AtEnd, Vertices
        <5>5. SamePoint(LastPoint(u).pt, v.pt)
          BY <1>1, <2>8, <3>3, <5>2, <5>3, <5>4, CrossingAtApex
        <5>6. Last(u) = k + 1
          BY <2>1, <2>3, <2>6, <4>2
        <5>7. QED
          BY <3>3, <5>5, <5>6
      <4>3. QED
        BY <2>1, <2>3, <4>1, <4>2
    <3>5. GoodString(AppendVertex(u, v)) /\ Last(AppendVertex(u, v)) = k + 1
      BY <2>2, <3>2, <3>3, <3>4, AppendGood
    <3>6. Len(AppendVertex(u, v)) <= Len(u) + 1 /\ Len(AppendVertex(u, v)) \in Nat
      <4>1. \/ Len(AppendVertex(u, v)) = Len(u)
            \/ Len(AppendVertex(u, v)) = Len(u) + 1
        BY <2>2, <3>2, AppendVertexParts
      <4>2. QED
        BY <2>3, <4>1
    <3>7. Len(u) < size
      BY <2>3, <2>8 DEF IsFull
    <3>8. k # from - 1
      BY <1>1, <2>1
    <3>9. QED
      BY <2>1, <2>3, <3>1, <3>5, <3>6, <3>7, <3>8
  <2>9. QED
    BY <2>7, <2>8
<1> HIDE DEF Good
<1>7. T = {}
  <2> SUFFICES ASSUME T # {} PROVE FALSE
    OBVIOUS
  <2>1. PICK k \in T : \A y \in T : k <= y
    BY LeastNumber
  <2>2. k \in Nat /\ k \in (from-1)..(to-1) /\ ~Good(k)
    BY <2>1
  <2>3. k # from - 1
    BY <1>5, <2>2
  <2>4. k \in from..(to - 1) /\ k - 1 \in (from-1)..(to-1) /\ k - 1 \in Nat /\ ~(k <= k - 1)
    BY <1>1, <2>2, <2>3
  <2>5. k - 1 \notin T
    BY <2>1, <2>4
  <2>6. Good(k - 1)
    BY <2>4, <2>5
  <2>7. QED
    BY <1>6, <2>2, <2>4, <2>6
<1>8. Good(to - 1)
  <2>1. to - 1 \in Nat /\ to - 1 \in (from-1)..(to-1)
    BY <1>1
  <2>2. QED
    BY <1>7, <2>1
<1>9. QED
  BY <1>2, <1>8 DEF Good, CrossedWell, from

LEMMA WithCrossingsGood ==
  ASSUME SoundCorridor(corridor), ApexShape, size \in Nat, AtApex(points),
         NEW pt \in Places, NEW to \in apex.idx..Polys, Last(points) <= to
  PROVE  CrossedWell(WithCrossings(apex.idx, to, pt), to)
<1>1. CASE crossings
  BY <1>1, AppendPortalsGood DEF WithCrossings
<1>2. CASE ~crossings
  <2>1. Len(points) \in Nat
    BY StringParts DEF AtApex, GoodString
  <2>2. QED
    BY <1>2, <2>1 DEF WithCrossings, CrossedWell, AtApex
<1>3. QED
  BY <1>1, <1>2

-----------------------------------------------------------------------------
(* The funnel                                                              *)

Sides == [pt : Places, idx : Nat, ref : Nat, jump : BOOLEAN]

SideShape(side) == side \in Sides /\ side.idx \in apex.idx..Polys /\ side.ref \in 0..Polys

FunnelShape ==
  /\ SoundCorridor(corridor)
  /\ lost \in 0..Polys
  /\ crossings \in BOOLEAN
  /\ size \in Sizes \cup {1}
  /\ at \in 1..(Polys + 1)
  /\ ApexShape
  /\ SideShape(left) /\ SideShape(right)

\* A side that was put where it is after the string turned last.
FreshSide(side) == AtEnd(side.pt, side.idx) /\ side = Side(side.pt, side.idx)

\* Right after a turn the funnel is closed, and the references of its sides
\* are those of an earlier portal; before the string turns again both sides
\* have moved, to portals that no point of the string has passed.
Shut == left.pt = apex.pt /\ right.pt = apex.pt
OpenSide(side) == FreshSide(side) /\ Last(points) <= side.idx

FunnelInv ==
  Pulling =>
    /\ AtApex(points)
    /\ Last(points) <= at
    /\ apex.idx <= at
    /\ Shut \/ (OpenSide(left) /\ OpenSide(right))

\* A string that ends where the mesh does.
CutString(s) ==
  /\ s \in Strings
  /\ \A i \in 1..Len(s) : s[i].ref \in 1..Polys /\ s[i].flag # "end"
  /\ \A i, j \in 1..Len(s) :
       i < j => \/ Entered(s[i]) < Entered(s[j])
                \/ j = Len(s) /\ s[i].ref = s[j].ref

PulledShape ==
  /\ points \in Seq(Vertices)
  /\ \A i \in 1..Len(points) : points[i].ref \in 0..Polys
  /\ Len(points) <= size + (IF lost = 0 THEN 0 ELSE 1)
  /\ pulled \in [code : {"none", "progress", "success", "failure"},
                 flags : SUBSET {"param", "partial", "small"}]

StringInv ==
  pulled.code = "success" =>
    /\ IF "partial" \in pulled.flags THEN CutString(points) ELSE GoodString(points)
    /\ pulled.flags \cap {"partial", "small"} = {} => LastPoint(points).flag = "end"

PullInv == FunnelShape /\ FunnelInv /\ PulledShape /\ StringInv

LEMMA SizeIsNat == FunnelShape => size \in Nat
  BY SizesAssumption DEF FunnelShape

LEMMA PolysStay == UNCHANGED corridor => Polys' = Polys
  BY DEF Polys

LEMMA PortalsStay == ASSUME UNCHANGED corridor, NEW k PROVE Portal(k)' = Portal(k)
  BY PolysStay DEF Portal

LEMMA EnteredStays == ASSUME UNCHANGED corridor, NEW v PROVE Entered(v)' = Entered(v)
  BY PolysStay DEF Entered

LEMMA GoodStays ==
  ASSUME NEW s, GoodString(s), points' = s, UNCHANGED <<corridor, crossings>>
  PROVE  GoodString(points)' /\ Last(points)' = Last(s)
<1>1. ASSUME NEW v, GoodVertex(v) PROVE GoodVertex(v)'
  BY <1>1, PolysStay, PortalsStay DEF GoodVertex
<1>2. \A i \in 1..Len(s) : GoodVertex(s[i])'
  BY <1>1 DEF GoodString
<1>3. InOrder(points)'
  BY EnteredStays DEF InOrder, GoodString
<1>4. QED
  BY <1>2, <1>3, EnteredStays DEF GoodString, Last

LEMMA CutStays ==
  ASSUME NEW s, CutString(s), points' = s, UNCHANGED corridor
  PROVE  CutString(points)'
<1>1. \A i, j \in 1..Len(s) :
        i < j => \/ Entered(s[i])' < Entered(s[j])'
                 \/ j = Len(s) /\ s[i].ref = s[j].ref
  BY EnteredStays DEF CutString
<1>2. Polys' = Polys
  BY PolysStay
<1>3. QED
  BY <1>1, <1>2 DEF CutString

LEMMA GoodRefs ==
  ASSUME NEW s, GoodString(s) \/ CutString(s)
  PROVE  s \in Seq(Vertices) /\ s # <<>> /\ \A i \in 1..Len(s) : s[i].ref \in 0..Polys
<1>1. s \in Seq(Vertices) /\ s # <<>>
  BY DEF GoodString, CutString, Strings
<1>2. CASE GoodString(s)
  BY <1>1, <1>2 DEF GoodString, GoodVertex
<1>3. CASE CutString(s)
  BY <1>1, <1>3 DEF CutString
<1>4. QED
  BY <1>2, <1>3

\* What is left to show when the string is pulled no further.
LEMMA StringIsDone ==
  ASSUME FunnelShape, UNCHANGED <<corridor, lost, crossings, size>>, FunnelShape',
         NEW s, points' = s, Len(s) <= size + (IF lost = 0 THEN 0 ELSE 1),
         NEW flags \in SUBSET {"param", "partial", "small"}, pulled' = Status("success", flags),
         IF "partial" \in flags THEN CutString(s) ELSE GoodString(s),
         flags \cap {"partial", "small"} = {} => LastPoint(s).flag = "end"
  PROVE  PullInv'
<1>1. ~Pulling' /\ pulled'.code = "success" /\ pulled'.flags = flags
  BY DEF Pulling, Status
<1>2. FunnelInv'
  BY <1>1 DEF FunnelInv
<1>3. PulledShape'
  <2>1. s \in Seq(Vertices) /\ \A i \in 1..Len(s) : s[i].ref \in 0..Polys
    BY GoodRefs
  <2>2. pulled' \in [code : {"none", "progress", "success", "failure"},
                     flags : SUBSET {"param", "partial", "small"}]
    BY DEF Status
  <2>3. Polys' = Polys
    BY PolysStay
  <2>4. QED
    BY <2>1, <2>2, <2>3 DEF PulledShape
<1>4. StringInv'
  <2>1. CASE "partial" \in flags
    BY <1>1, <2>1, CutStays DEF StringInv, LastPoint
  <2>2. CASE "partial" \notin flags
    BY <1>1, <2>2, GoodStays DEF StringInv, LastPoint
  <2>3. QED
    BY <2>1, <2>2
<1>5. QED
  BY <1>2, <1>3, <1>4 DEF PullInv

\* The corner that a fresh side makes.
Corner(side) ==
  Vertex(side.pt, IF side.ref = 0 THEN "end" ELSE IF side.jump THEN "offmesh" ELSE "none", side.ref)

LEMMA CornerIsGood ==
  ASSUME FunnelShape, NEW side, SideShape(side), FreshSide(side)
  PROVE  Corner(side) \in Vertices /\ GoodVertex(Corner(side)) /\ Entered(Corner(side)) = side.idx + 1
<1> DEFINE v == Corner(side)
           k == side.idx
<1>1. Polys \in Nat /\ k \in 1..Polys /\ side.pt \in Places /\ side.ref \in 0..Polys
  BY PolysIsNat DEF SideShape, Sides, FunnelShape, ApexShape
<1>2. /\ v.pt = side.pt /\ v.ref = side.ref
      /\ v.flag = IF side.ref = 0 THEN "end" ELSE IF side.jump THEN "offmesh" ELSE "none"
  BY DEF Corner, Vertex
<1>3. /\ side.ref = IF k < Polys THEN k + 1 ELSE 0
      /\ side.jump = (k + 1 \in corridor.jumps)
  <2>1. side = [pt |-> side.pt, idx |-> k, ref |-> IF k < Polys THEN k + 1 ELSE 0,
                jump |-> k + 1 \in corridor.jumps]
    BY DEF FreshSide, Side
  <2>2. QED
    BY <2>1
<1>4. v \in Vertices
  <2>1. side.pt \in Spots /\ side.ref \in Nat
    BY <1>1, PlaceIsSpot
  <2>2. QED
    BY <2>1 DEF Corner, Vertex, Vertices, Flags
<1> HIDE DEF v
<1>5. Entered(v) = k + 1
  BY <1>1, <1>2, <1>3 DEF Entered
<1>6. GoodVertex(v)
  <2>1. v.ref \in 0..Polys /\ (v.flag = "end" <=> v.ref = 0)
    BY <1>1, <1>2
  <2>2. v.ref = 0 => SamePoint(v.pt, corridor.goal)
    <3> SUFFICES ASSUME v.ref = 0 PROVE SamePoint(v.pt, corridor.goal)
      OBVIOUS
    <3>1. k = Polys
      BY <1>1, <1>2, <1>3
    <3>2. v.pt = corridor.goal
      BY <1>1, <1>2, <3>1 DEF FreshSide, AtEnd, Portal
    <3>3. QED
      BY <1>1, <1>2, <3>2, SamePlace
  <2>3. v.ref \in corridor.jumps => v.flag = "offmesh"
    <3> SUFFICES ASSUME v.ref \in corridor.jumps PROVE v.flag = "offmesh"
      OBVIOUS
    <3>1. v.ref \in 2..Polys
      BY DEF FunnelShape, SoundCorridor, Polys
    <3>2. side.ref # 0 /\ side.ref = k + 1
      BY <1>1, <1>2, <1>3, <3>1
    <3>3. side.jump
      BY <1>2, <1>3, <3>2
    <3>4. QED
      BY <1>2, <3>2, <3>3
  <2>4. QED
    BY <1>1, <1>2, <2>1, <2>2, <2>3 DEF GoodVertex
<1>7. QED
  BY <1>4, <1>5, <1>6 DEF v

-----------------------------------------------------------------------------
(* From one portal to the next                                             *)

LEMMA PortalsOfPolygon ==
  ASSUME SoundCorridor(corridor), NEW k \in 2..Polys,
         Portal(k - 1).l # Portal(k - 1).r \/ Portal(k).l # Portal(k).r
  PROVE  /\ Portal(k - 1) \in [l : Places, r : Places] /\ Portal(k) \in [l : Places, r : Places]
         /\ \/ /\ k < Polys /\ Polygon(Portal(k - 1), Portal(k))
               /\ ~IsPoint(Portal(k - 1)) \/ ~IsPoint(Portal(k))
            \/ /\ k = Polys /\ Portal(k).l = corridor.goal /\ Portal(k).r = corridor.goal
               /\ Behind(corridor.goal, Portal(k - 1)) /\ ~IsPoint(Portal(k - 1))
<1>1. Polys \in Nat /\ k \in 1..Polys /\ k - 1 \in 1..Polys /\ k - 1 < Polys /\ Polys > 1
      /\ Polys = PolyCount(corridor)
  BY PolysIsNat DEF Polys
<1>2. /\ Portal(k - 1) \in [l : Places, r : Places] /\ Portal(k) \in [l : Places, r : Places]
      /\ Portal(k - 1) = corridor.portals[k - 1]
      /\ k < Polys => Portal(k) = corridor.portals[k]
  BY <1>1, PortalIsPair
<1>3. CASE k < Polys
  <2>1. /\ k - 1 \in 1..(Polys - 1) /\ k \in 1..(Polys - 1) /\ k \in 2..(Polys - 1)
        /\ k - 1 + 1 = k
    BY <1>1, <1>3
  <2>2. ~IsPoint(Portal(k - 1)) \/ ~IsPoint(Portal(k))
    BY DEF IsPoint
  <2>3. k \notin corridor.jumps
    BY <1>1, <1>2, <1>3, <2>1, <2>2 DEF SoundCorridor
  <2>4. Polygon(corridor.portals[k - 1], corridor.portals[k])
    BY <1>1, <2>1, <2>3 DEF SoundCorridor
  <2>5. QED
    BY <1>2, <1>3, <2>2, <2>4
<1>4. CASE k = Polys
  <2>1. Portal(k).l = corridor.goal /\ Portal(k).r = corridor.goal
    BY <1>1, <1>4 DEF Portal
  <2>2. Behind(corridor.goal, Portal(k - 1))
    BY <1>1, <1>2, <1>4 DEF SoundCorridor
  <2>3. QED
    BY <1>2, <1>4, <2>1, <2>2 DEF IsPoint
<1>5. QED
  BY <1>1, <1>2, <1>3, <1>4

\* The polygon behind a portal lies beyond the line through its ends.
LEMMA PortalsAhead ==
  ASSUME SoundCorridor(corridor), NEW k \in 2..Polys, Portal(k - 1).l # Portal(k - 1).r
  PROVE  /\ Area(Portal(k).r, Portal(k - 1).r, Portal(k - 1).l) >= 0
         /\ Area(Portal(k - 1).r, Portal(k - 1).l, Portal(k).l) >= 0
<1> DEFINE p == Portal(k - 1)
           q == Portal(k)
<1>1. p \in [l : Places, r : Places] /\ q \in [l : Places, r : Places]
  BY PortalsOfPolygon
<1>2. p.l \in Places /\ p.r \in Places /\ q.l \in Places /\ q.r \in Places
  BY <1>1
<1>3. Behind(q.l, p) /\ Behind(q.r, p)
  BY PortalsOfPolygon DEF Polygon
<1>4. Area(q.l, p.r, p.l) >= 0 /\ Area(q.r, p.r, p.l) >= 0
  BY <1>3 DEF Behind
<1>5. Area(q.l, p.r, p.l) = Area(p.r, p.l, q.l)
  BY <1>2, CrossTurns
<1>6. QED
  BY <1>4, <1>5

\* Seen from a place on the portal in front of it, a portal does not lie behind.
LEMMA PortalIsAhead ==
  ASSUME SoundCorridor(corridor), NEW k \in 2..Polys, Portal(k).l # Portal(k).r,
         NEW a \in Places, OnPortal(a, Portal(k - 1))
  PROVE  Cross(a, Portal(k).r, Portal(k).l) >= 0
<1> DEFINE p == Portal(k - 1)
           q == Portal(k)
<1>1. p \in [l : Places, r : Places] /\ q \in [l : Places, r : Places] /\ Polygon(p, q)
  BY PortalsOfPolygon
<1>2. p.l \in Places /\ p.r \in Places /\ q.l \in Places /\ q.r \in Places
  BY <1>1
<1>3. Cross(q.r, q.l, p.l) >= 0 /\ Cross(q.r, q.l, p.r) >= 0
  <2>1. Area(p.l, q.l, q.r) >= 0 /\ Area(p.r, q.l, q.r) >= 0
    BY <1>1 DEF Polygon, Before
  <2>2. ASSUME NEW e \in Places PROVE Area(e, q.l, q.r) = Cross(q.r, q.l, e)
    <3>1. /\ Area(e, q.l, q.r) = -Cross(e, q.l, q.r) /\ Cross(e, q.r, q.l) = -Cross(e, q.l, q.r)
          /\ Cross(e, q.r, q.l) = Cross(q.r, q.l, e)
      BY <1>2, CrossInt, CrossTurns
    <3>2. QED
      BY <3>1
  <2>3. QED
    BY <1>2, <2>1, <2>2
<1>4. PICK u \in Int, v \in Int :
        /\ u >= 0 /\ v >= 0 /\ u + v > 0
        /\ \A b, c \in Places : u * Cross(b, c, p.l) + v * Cross(b, c, p.r) = (u + v) * Cross(b, c, a)
  BY <1>1, CrossIsMean
<1>5. Cross(q.r, q.l, a) >= 0
  <2> DEFINE x == Cross(q.r, q.l, p.l)
             y == Cross(q.r, q.l, p.r)
             z == Cross(q.r, q.l, a)
  <2>1. x \in Int /\ y \in Int /\ z \in Int
    BY <1>2, CrossInt
  <2>2. u * x + v * y = (u + v) * z /\ x >= 0 /\ y >= 0
    BY <1>2, <1>3, <1>4
  <2> HIDE DEF x, y, z
  <2>3. u * x >= 0 /\ v * y >= 0 /\ u * x \in Int /\ v * y \in Int
    BY <1>4, <2>1, <2>2
  <2>4. (u + v) * z >= 0 /\ u + v \in Int
    BY <1>4, <2>2, <2>3
  <2>5. \A w, t \in Int : w > 0 /\ w * t >= 0 => t >= 0
    OBVIOUS
  <2>6. z >= 0
    BY <1>4, <2>1, <2>4, <2>5
  <2>7. QED
    BY <2>6 DEF z
<1>6. QED
  BY <1>2, <1>5, CrossTurns

-----------------------------------------------------------------------------
(* Where the points are                                                    *)

\* Each point lies on the portal by which its polygon is entered.
IsPlaced(v) == v.ref > 1 => OnPortal(v.pt, Portal(v.ref - 1))

Placed(s) == \A i \in 1..Len(s) : IsPlaced(s[i])

LEMMA AppendPlaced ==
  ASSUME SoundCorridor(corridor), NEW s \in Strings, Placed(s),
         NEW v \in Vertices, v.ref \in 0..Polys, IsPlaced(v)
  PROVE  Placed(AppendVertex(s, v))
<1> DEFINE t == AppendVertex(s, v)
           n == Len(t)
<1>1. /\ Len(s) \in Nat /\ Len(s) >= 1 /\ LastPoint(s) = s[Len(s)]
      /\ \A i \in 1..Len(s) : s[i] \in Vertices
  BY StringParts
<1>2. /\ t \in Strings
      /\ \A i \in 1..(n - 1) : t[i] = s[i]
      /\ t[n].ref = v.ref /\ SamePoint(t[n].pt, v.pt)
      /\ n = Len(s) \/ n = Len(s) + 1
  BY AppendVertexParts
<1> HIDE DEF t
<1>3. n \in Nat /\ n >= 1 /\ t[n] \in Vertices
  BY <1>2, StringParts
<1>4. IsPlaced(t[n])
  <2> SUFFICES ASSUME v.ref > 1 PROVE OnPortal(t[n].pt, Portal(v.ref - 1))
    BY <1>2 DEF IsPlaced
  <2>1. Polys \in Nat /\ v.ref - 1 \in 1..Polys
    BY PolysIsNat
  <2>2. Portal(v.ref - 1) \in [l : Places, r : Places]
    BY <2>1, PortalIsPair
  <2>3. t[n].pt \in Spots /\ v.pt \in Spots /\ OnPortal(v.pt, Portal(v.ref - 1))
    BY <1>3 DEF Vertices, IsPlaced
  <2>4. QED
    BY <1>2, <2>2, <2>3, SameOnPortal
<1>5. ASSUME NEW i \in 1..n, i # n PROVE IsPlaced(t[i])
  <2>1. i \in 1..(n - 1) /\ i \in 1..Len(s)
    BY <1>1, <1>2, <1>3, <1>5
  <2>2. QED
    BY <1>2, <2>1 DEF Placed
<1>6. QED
  BY <1>4, <1>5 DEF Placed, t

\* Each portal that the line from the apex to pt crosses on its way to polygon
\* `to` is crossed between its ends.
CrossesWell(to, pt) ==
  \A k \in apex.idx..(to - 1) : Parts(apex.pt, pt, Portal(k)) \/ apex.pt = pt

LEMMA AppendPortalsPlaced ==
  ASSUME SoundCorridor(corridor), ApexShape, NEW s \in Strings, Placed(s),
         NEW pt \in Places, NEW to \in apex.idx..Polys, CrossesWell(to, pt)
  PROVE  AppendPortals(s, apex.idx, to, pt) \in Strings /\ Placed(AppendPortals(s, apex.idx, to, pt))
<1> DEFINE from == apex.idx
<1>1. /\ Polys \in Nat /\ from \in 1..Polys /\ to \in Int /\ to <= Polys /\ from <= to
      /\ apex.pt \in Places
  BY PolysIsNat DEF ApexShape
<1>2. PICK f : Crossed(f, s, from, to, pt) /\ AppendPortals(s, from, to, pt) = f[to - 1]
  BY <1>1, AppendPortalsSteps
<1> HIDE DEF from
<1>3. f[from - 1] = s /\ \A k \in from..(to - 1) : f[k] = AtPortal(f[k-1], k, pt)
  BY <1>2 DEF Crossed
<1> DEFINE Good(k) == f[k] \in Strings /\ Placed(f[k])
           T == {k \in Nat : k \in (from-1)..(to-1) /\ ~Good(k)}
<1>4. Good(from - 1)
  BY <1>3
<1>5. ASSUME NEW k \in from..(to - 1), Good(k - 1) PROVE Good(k)
  <2> DEFINE u == f[k-1]
             v == Vertex(Crossing(apex.pt, pt, corridor.portals[k]), "none", k + 1)
  <2>1. k \in 1..(Polys - 1) /\ k \in 1..Polys /\ k < Polys /\ k \in apex.idx..(to - 1)
    BY <1>1 DEF from
  <2>2. Portal(k) = corridor.portals[k] /\ Portal(k) \in [l : Places, r : Places]
    BY <2>1, PortalIsPair
  <2>3. f[k] = AtPortal(u, k, pt)
    BY <1>3
  <2>4. CASE IsFull(u) \/ Parallel(apex.pt, pt, corridor.portals[k])
    BY <1>5, <2>3, <2>4 DEF AtPortal
  <2>5. CASE ~IsFull(u) /\ ~Parallel(apex.pt, pt, corridor.portals[k])
    <3>1. f[k] = AppendVertex(u, v)
      BY <2>3, <2>5 DEF AtPortal
    <3>2. v \in Vertices
      BY <1>1, <2>1, <2>5, AtPortalVertex
    <3>3. apex.pt # pt
      <4>1. Portal(k).l \in Places /\ Portal(k).r \in Places
        BY <2>2
      <4>2. /\ apex.pt[1] \in Int /\ apex.pt[2] \in Int /\ Portal(k).l[1] \in Int /\ Portal(k).l[2] \in Int
            /\ Portal(k).r[1] \in Int /\ Portal(k).r[2] \in Int
        BY <1>1, <4>1, PlaceIsSpot
      <4>3. apex.pt = pt => Perp(apex.pt, pt, Portal(k).l, Portal(k).r) = 0
        BY <4>2 DEF Perp
      <4>4. QED
        BY <2>2, <2>5, <4>3 DEF Parallel
    <3>4. Parts(apex.pt, pt, Portal(k))
      BY <2>1, <3>3 DEF CrossesWell
    <3>5. OnPortal(Crossing(apex.pt, pt, Portal(k)), Portal(k))
      BY <1>1, <2>2, <2>5, <3>4, PartedIsCrossed
    <3>6. v.ref = k + 1 /\ v.pt = Crossing(apex.pt, pt, Portal(k)) /\ v.ref - 1 = k
      BY <2>1, <2>2 DEF Vertex
    <3> HIDE DEF u, v
    <3>7. v.ref \in 0..Polys
      BY <1>1, <2>1, <3>6
    <3>8. OnPortal(v.pt, Portal(v.ref - 1))
      BY <3>5, <3>6
    <3>9. IsPlaced(v)
      BY <3>8 DEF IsPlaced
    <3>10. u \in Strings /\ Placed(u)
      BY <1>5 DEF u
    <3>11. QED
      BY <3>1, <3>2, <3>7, <3>9, <3>10, AppendPlaced, AppendVertexParts
  <2>6. QED
    BY <2>4, <2>5
<1> HIDE DEF Good
<1>6. T = {}
  <2> SUFFICES ASSUME T # {} PROVE FALSE
    OBVIOUS
  <2>1. PICK k \in T : \A y \in T : k <= y
    BY LeastNumber
  <2>2. k \in Nat /\ k \in (from-1)..(to-1) /\ ~Good(k)
    BY <2>1
  <2>3. k # from - 1
    BY <1>4, <2>2
  <2>4. k \in from..(to - 1) /\ k - 1 \in (from-1)..(to-1) /\ k - 1 \in Nat /\ ~(k <= k - 1)
    BY <1>1, <2>2, <2>3
  <2>5. k - 1 \notin T
    BY <2>1, <2>4
  <2>6. Good(k - 1)
    BY <2>4, <2>5
  <2>7. QED
    BY <1>5, <2>2, <2>4, <2>6
<1>7. to - 1 \in Nat /\ to - 1 \in (from-1)..(to-1)
  BY <1>1
<1>8. Good(to - 1)
  BY <1>6, <1>7
<1>9. QED
  BY <1>2, <1>8 DEF Good, from

LEMMA WithCrossingsPlaced ==
  ASSUME SoundCorridor(corridor), ApexShape, points \in Strings, Placed(points),
         NEW pt \in Places, NEW to \in apex.idx..Polys, CrossesWell(to, pt)
  PROVE  WithCrossings(apex.idx, to, pt) \in Strings /\ Placed(WithCrossings(apex.idx, to, pt))
  BY AppendPortalsPlaced DEF WithCrossings

LEMMA PlacedStays ==
  ASSUME NEW s, Placed(s), points' = s, UNCHANGED corridor
  PROVE  Placed(points)'
<1>1. \A i \in 1..Len(s) : IsPlaced(s[i])'
  BY PortalsStay DEF Placed, IsPlaced
<1>2. QED
  BY <1>1 DEF Placed
-----------------------------------------------------------------------------
(* What the funnel has in sight                                            *)

\* The portals from the apex to portal m, except the one the apex is on.
Ahead(m) == {j \in apex.idx..m : j = apex.idx => ~OnPortal(apex.pt, Portal(j))}

\* Seen from the apex, x is not beside portal j.
Passes(x, j) == Cross(apex.pt, x, Portal(j).l) >= 0 /\ Cross(apex.pt, Portal(j).r, x) >= 0

ThroughApex(j) == Portal(j).l = apex.pt /\ Portal(j).r = apex.pt

\* The funnel is shut: the apex is the start, or on the last portal, and those
\* behind its own are points where it is.
ShutAt(m) ==
  /\ \/ m = 0 /\ apex = [pt |-> corridor.start, idx |-> 1]
     \/ m > 0 /\ apex.idx <= m /\ OnPortal(apex.pt, Portal(m))
  /\ \A j \in Ahead(m) : ThroughApex(j)

\* The funnel is open behind portal m: both its sides pass every portal ahead,
\* and portal m is seen around them, or is a point, or has one end at the apex, or
\* is seen edge-on.
Ray(L, R, m) == L = R /\ L # apex.pt /\ Portal(m).l = L /\ Portal(m).r = L

EndAtApex(x, y, u, v, m) ==
  /\ x = apex.pt /\ u = apex.pt /\ y = v /\ v # apex.pt
  /\ \A j \in Ahead(m) \ {m} : ThroughApex(j)

\* Portal m, the first one that is not at the apex, is seen edge-on.
Flat(L, R, m) ==
  /\ L = Portal(m).l /\ R = Portal(m).r /\ L # R /\ L # apex.pt /\ R # apex.pt
  /\ Cross(apex.pt, R, L) = 0
  /\ \A j \in Ahead(m) \ {m} : ThroughApex(j)

OpenAt(L, R, m) ==
  /\ m \in Ahead(m)
  /\ \A j \in Ahead(m) : Passes(L, j) /\ Passes(R, j)
  /\ \/ InSight(apex.pt, Portal(m).r, Portal(m).l, L, R)
     \/ Flat(L, R, m)
     \/ Ray(L, R, m)
     \/ EndAtApex(L, R, Portal(m).l, Portal(m).r, m)
     \/ EndAtApex(R, L, Portal(m).r, Portal(m).l, m)

\* When the goal has come in sight, the left side is there.
ConeInv ==
  Pulling =>
    IF Shut THEN ShutAt(at - 1)
    ELSE /\ left.idx < at /\ right.idx < at
         /\ OpenAt(left.pt, right.pt, at - 1)
         /\ at = Polys + 1 => left.pt = corridor.goal

LEMMA PortalPlaces ==
  ASSUME SoundCorridor(corridor), NEW k \in 1..Polys
  PROVE  /\ Portal(k) \in [l : Places, r : Places]
         /\ Portal(k).l \in Places /\ Portal(k).r \in Places
<1>1. Portal(k) \in [l : Places, r : Places]
  BY PortalIsPair
<1>2. QED
  BY <1>1, PortalEnds

\* Only one portal is new.
LEMMA NextAhead ==
  ASSUME NEW k \in Int, apex.idx \in Int, apex.idx <= k, k = apex.idx => ~OnPortal(apex.pt, Portal(k))
  PROVE  k \in Ahead(k) /\ Ahead(k) = Ahead(k - 1) \cup {k} /\ k \notin Ahead(k - 1)
<1>1. \A j : j \in apex.idx..k <=> j \in apex.idx..(k - 1) \/ j = k
  OBVIOUS
<1>2. k \notin apex.idx..(k - 1)
  OBVIOUS
<1>3. QED
  BY <1>1, <1>2 DEF Ahead

\* Something that passes all the portals ahead crosses them well.
LEMMA AheadIsCrossed ==
  ASSUME SoundCorridor(corridor), ApexShape, NEW pt \in Places, NEW m \in 0..Polys, NEW to \in Int, to <= m + 1,
         \A j \in Ahead(m) : Parts(apex.pt, pt, Portal(j))
  PROVE  CrossesWell(to, pt)
<1>1. Polys \in Nat /\ apex.pt \in Places /\ apex.idx \in 1..Polys
  BY PolysIsNat DEF ApexShape
<1> SUFFICES ASSUME NEW j \in apex.idx..(to - 1) PROVE Parts(apex.pt, pt, Portal(j))
  BY DEF CrossesWell
<1>2. j \in apex.idx..m /\ j \in 1..Polys
  BY <1>1
<1>3. CASE j \in Ahead(m)
  BY <1>3
<1>4. CASE j \notin Ahead(m)
  <2>1. OnPortal(apex.pt, Portal(j))
    BY <1>2, <1>4 DEF Ahead
  <2>2. QED
    BY <1>1, <1>2, <2>1, PortalPlaces, LineParts
<1>5. QED
  BY <1>3, <1>4

LEMMA PassingParts ==
  ASSUME SoundCorridor(corridor), ApexShape, NEW x \in Places, NEW j \in 1..Polys, Passes(x, j)
  PROVE  Parts(apex.pt, x, Portal(j))
<1>1. apex.pt \in Places /\ Portal(j).l \in Places /\ Portal(j).r \in Places
  BY PortalPlaces DEF ApexShape
<1>2. /\ Cross(apex.pt, x, Portal(j).r) = -Cross(apex.pt, Portal(j).r, x)
      /\ Cross(apex.pt, Portal(j).r, x) \in Int
  BY <1>1, CrossInt
<1>3. Cross(apex.pt, x, Portal(j).r) <= 0
  BY <1>2 DEF Passes
<1>4. QED
  BY <1>3 DEF Parts, Passes

\* Where both ends are the apex every line crosses, and every place passes.
LEMMA ThroughApexPasses ==
  ASSUME SoundCorridor(corridor), ApexShape, NEW x \in Places, NEW j, ThroughApex(j)
  PROVE  Passes(x, j) /\ Parts(apex.pt, x, Portal(j))
<1>1. apex.pt \in Places
  BY DEF ApexShape
<1>2. Cross(apex.pt, x, apex.pt) = 0 /\ Cross(apex.pt, apex.pt, x) = 0
  BY <1>1, CrossInt
<1>3. QED
  BY <1>2 DEF Passes, Parts, ThroughApex
LEMMA ShutGoesOn ==
  ASSUME SoundCorridor(corridor), ApexShape, NEW k \in 1..Polys, Polys > 1, ShutAt(k - 1),
         k = 1 => ~OnPortal(apex.pt, Portal(1)), NEW newL, NEW newR,
         Narrows(apex.pt, apex.pt, apex.pt, Portal(k).l, Portal(k).r, newL, newR)
  PROVE  /\ newL = Portal(k).l
         /\ IF newL = apex.pt /\ newR = apex.pt THEN ShutAt(k) ELSE OpenAt(newL, newR, k)
<1> DEFINE a == apex.pt
           l == Portal(k).l
           r == Portal(k).r
<1>1. /\ Polys \in Nat /\ a \in Places /\ apex.idx \in 1..Polys /\ l \in Places /\ r \in Places
      /\ Portal(k) \in [l : Places, r : Places]
  BY PolysIsNat, PortalPlaces DEF ApexShape
<1>2. newL = l /\ newR = r
  BY <1>1, ShutNarrows
<1>3. apex.idx <= k /\ (k = apex.idx => ~OnPortal(a, Portal(k)))
  <2>1. CASE k = 1
    BY <1>1, <2>1 DEF ShutAt
  <2>2. CASE k # 1
    BY <1>1, <2>2 DEF ShutAt
  <2>3. QED
    BY <2>1, <2>2
<1>4. k \in Ahead(k) /\ Ahead(k) = Ahead(k - 1) \cup {k} /\ k \notin Ahead(k - 1)
  BY <1>1, <1>3, NextAhead
<1>5. \A j \in Ahead(k) \ {k} : ThroughApex(j)
  BY <1>4 DEF ShutAt
<1>6. \A j \in Ahead(k) \ {k} : Passes(l, j) /\ Passes(r, j)
  BY <1>1, <1>5, ThroughApexPasses
<1>7. Cross(a, l, l) = 0 /\ Cross(a, r, r) = 0 /\ Cross(a, l, a) = 0 /\ Cross(a, a, r) = 0
      /\ Cross(a, a, l) = 0 /\ Cross(a, r, a) = 0
  BY <1>1, CrossInt
<1>8. CASE l = a /\ r = a
  <2>1. k > 0 /\ OnPortal(a, Portal(k))
    BY <1>1, <1>8, EndsAreOnPortal
  <2>2. ThroughApex(k)
    BY <1>8 DEF ThroughApex
  <2>3. ShutAt(k)
    BY <1>3, <1>5, <2>1, <2>2 DEF ShutAt
  <2>4. QED
    BY <1>2, <1>8, <2>3
<1>9. CASE l = a /\ r # a
  <2>1. Passes(l, k) /\ Passes(r, k)
    BY <1>7, <1>9 DEF Passes
  <2>2. EndAtApex(l, r, l, r, k)
    BY <1>5, <1>9 DEF EndAtApex
  <2>3. OpenAt(l, r, k)
    BY <1>4, <1>6, <2>1, <2>2 DEF OpenAt
  <2>4. QED
    BY <1>2, <1>9, <2>3
<1>10. CASE l # a /\ r = a
  <2>1. Passes(l, k) /\ Passes(r, k)
    BY <1>7, <1>10 DEF Passes
  <2>2. EndAtApex(r, l, r, l, k)
    BY <1>5, <1>10 DEF EndAtApex
  <2>3. OpenAt(l, r, k)
    BY <1>4, <1>6, <2>1, <2>2 DEF OpenAt
  <2>4. QED
    BY <1>2, <1>10, <2>3
<1>11. CASE l # a /\ r # a /\ l = r
  <2>1. Passes(l, k) /\ Passes(r, k)
    BY <1>7, <1>11 DEF Passes
  <2>2. Ray(l, r, k)
    BY <1>11 DEF Ray
  <2>3. OpenAt(l, r, k)
    BY <1>4, <1>6, <2>1, <2>2 DEF OpenAt
  <2>4. QED
    BY <1>2, <1>11, <2>3
<1>12. CASE l # a /\ r # a /\ l # r
  <2>1. Cross(a, r, l) >= 0
    <3>1. CASE k = 1
      <4>1. a = corridor.start /\ Portal(1) = corridor.portals[1]
        BY <1>1, <3>1, PortalIsPair DEF ShutAt
      <4>2. Area(a, l, r) >= 0
        BY <1>1, <3>1, <4>1 DEF SoundCorridor, Before, Polys
      <4>3. Area(a, l, r) = -Cross(a, l, r) /\ Cross(a, r, l) = -Cross(a, l, r) /\ Cross(a, r, l) \in Int
        BY <1>1, CrossInt
      <4>4. QED
        BY <4>2, <4>3
    <3>2. CASE k # 1
      <4>1. k \in 2..Polys /\ OnPortal(a, Portal(k - 1))
        BY <1>1, <3>2 DEF ShutAt
      <4>2. QED
        BY <1>1, <1>12, <4>1, PortalIsAhead
    <3>3. QED
      BY <3>1, <3>2
  <2>2. CASE Cross(a, r, l) > 0
    <3>1. InSight(a, r, l, l, r)
      BY <1>1, <2>2, EndsInSight
    <3>2. Passes(l, k) /\ Passes(r, k)
      BY <1>7, <3>1 DEF Passes, InSight
    <3>3. OpenAt(l, r, k)
      BY <1>4, <1>6, <3>1, <3>2 DEF OpenAt
    <3>4. QED
      BY <1>2, <1>12, <3>3
  <2>3. CASE Cross(a, r, l) = 0
    <3>1. Flat(l, r, k)
      BY <1>5, <1>12, <2>3 DEF Flat
    <3>2. Passes(l, k) /\ Passes(r, k)
      BY <1>7, <2>1 DEF Passes
    <3>3. OpenAt(l, r, k)
      BY <1>4, <1>6, <3>1, <3>2 DEF OpenAt
    <3>4. QED
      BY <1>2, <1>12, <3>3
  <2>4. Cross(a, r, l) \in Int
    BY <1>1, CrossInt
  <2>5. QED
    BY <2>1, <2>2, <2>3, <2>4
<1>13. QED
  BY <1>8, <1>9, <1>10, <1>11, <1>12

\* What an open funnel is, in the terms of its last portal.
LEMMA OpenParts ==
  ASSUME SoundCorridor(corridor), ApexShape, NEW L \in Places, NEW R \in Places, NEW m \in 0..Polys, OpenAt(L, R, m)
  PROVE  /\ m \in 1..Polys /\ apex.idx <= m
         /\ Passes(L, m) /\ Passes(R, m)
         /\ L # apex.pt \/ R # apex.pt
         /\ InSight(apex.pt, Portal(m).r, Portal(m).l, L, R) =>
              L # apex.pt /\ R # apex.pt /\ Portal(m).l # Portal(m).r
<1> DEFINE a == apex.pt
           l == Portal(m).l
           r == Portal(m).r
<1>1. Polys \in Nat /\ a \in Places /\ apex.idx \in 1..Polys
  BY PolysIsNat DEF ApexShape
<1>2. m \in apex.idx..m
  BY DEF OpenAt, Ahead
<1>3. m \in 1..Polys /\ apex.idx <= m
  BY <1>1, <1>2
<1>4. l \in Places /\ r \in Places
  BY <1>3, PortalPlaces
<1>5. ASSUME InSight(a, r, l, L, R) PROVE L # a /\ R # a /\ l # r
  <2>1. Cross(a, r, a) = 0 /\ Cross(a, a, l) = 0 /\ Cross(a, r, r) = 0 /\ Cross(a, l, l) = 0
    BY <1>1, <1>4, CrossInt
  <2>2. Forth(a, r, l, a) = 0
    BY <2>1 DEF Forth
  <2>3. QED
    BY <1>5, <2>1, <2>2 DEF InSight
<1>6. L # a \/ R # a
  BY <1>5 DEF OpenAt, Ray, EndAtApex, Flat
<1>7. QED
  BY <1>3, <1>5, <1>6 DEF OpenAt

\* What lies between the sides passes the portals that both pass.
LEMMA BetweenPasses ==
  ASSUME SoundCorridor(corridor), ApexShape, NEW L \in Places, NEW R \in Places, NEW x \in Places,
         NEW j \in 1..Polys, Passes(L, j), Passes(R, j),
         Cross(apex.pt, R, L) > 0, Cross(apex.pt, R, x) >= 0, Cross(apex.pt, x, L) >= 0
  PROVE  Passes(x, j)
<1>1. apex.pt \in Places /\ Portal(j).l \in Places /\ Portal(j).r \in Places
  BY PortalPlaces DEF ApexShape
<1>2. QED
  BY <1>1, BetweenBoth DEF Passes
\* An open funnel that does not turn has the next portal in sight, which is not
\* a point.
LEMMA OpenGoesOn ==
  ASSUME SoundCorridor(corridor), ApexShape, NEW L \in Places, NEW R \in Places, NEW k \in 1..Polys,
         OpenAt(L, R, k - 1), NEW newL \in Places, NEW newR \in Places,
         Narrows(apex.pt, L, R, Portal(k).l, Portal(k).r, newL, newR)
  PROVE  OpenAt(newL, newR, k) /\ newL # apex.pt /\ Portal(k).l # Portal(k).r
<1> DEFINE a == apex.pt
           l == Portal(k).l
           r == Portal(k).r
           m == k - 1
           l0 == Portal(m).l
           r0 == Portal(m).r
<1>1. Polys \in Nat /\ a \in Places /\ apex.idx \in 1..Polys /\ m \in 0..Polys
  BY PolysIsNat DEF ApexShape
<1>2. /\ m \in 1..Polys /\ apex.idx <= m /\ Passes(L, m) /\ Passes(R, m)
      /\ InSight(a, r0, l0, L, R) => L # a /\ R # a /\ l0 # r0
  BY <1>1, OpenParts
<1>3. k \in 2..Polys /\ apex.idx < k /\ k \in Int
  BY <1>1, <1>2
<1>4. l \in Places /\ r \in Places /\ l0 \in Places /\ r0 \in Places
  BY <1>2, PortalPlaces
<1>5. k \in Ahead(k) /\ Ahead(k) = Ahead(m) \cup {k}
  BY <1>1, <1>3, NextAhead
<1>6. \A j \in Ahead(m) : Passes(L, j) /\ Passes(R, j)
  BY DEF OpenAt
<1>7. l0 # r0 => Area(r, r0, l0) >= 0 /\ Area(r0, l0, l) >= 0
  BY <1>3, PortalsAhead
<1>8. ASSUME InSight(a, r, l, newL, newR), \A j \in Ahead(m) : Passes(newL, j) /\ Passes(newR, j)
      PROVE  OpenAt(newL, newR, k) /\ newL # a /\ l # r
  <2>1. Passes(newL, k) /\ Passes(newR, k)
    BY <1>8 DEF InSight, Passes
  <2>2. OpenAt(newL, newR, k)
    BY <1>5, <1>8, <2>1 DEF OpenAt
  <2>3. QED
    BY <1>1, <1>8, <2>2, OpenParts
<1>9. CASE InSight(a, r0, l0, L, R)
  <2>1. Cross(a, r0, l0) > 0 /\ Cross(a, r0, l0) \in Int
    BY <1>1, <1>4, <1>9, CrossInt DEF InSight
  <2>2. /\ Area(r, r0, l0) = Forth(a, r0, l0, r) - Cross(a, r0, l0)
        /\ Area(r0, l0, l) = Forth(a, r0, l0, l) - Cross(a, r0, l0)
    BY <1>1, <1>4, BeyondIsForth
  <2>3. Forth(a, r0, l0, r) \in Int /\ Forth(a, r0, l0, l) \in Int
    <3>1. /\ Cross(a, r0, r) \in Int /\ Cross(a, r, l0) \in Int
          /\ Cross(a, r0, l) \in Int /\ Cross(a, l, l0) \in Int
      BY <1>1, <1>4, CrossInt
    <3>2. QED
      BY <3>1 DEF Forth
  <2>4. Forth(a, r0, l0, r) > 0 /\ Forth(a, r0, l0, l) > 0
    BY <1>2, <1>7, <1>9, <2>1, <2>2, <2>3
  <2>5. /\ Forth(a, r0, l0, L) > 0 /\ Forth(a, r0, l0, R) > 0 /\ Cross(a, R, L) >= 0
        /\ a # L /\ a # R
    BY <1>2, <1>9 DEF InSight
  <2>6. /\ InSight(a, r, l, newL, newR)
        /\ \/ newL = L /\ newR = R
           \/ /\ Cross(a, R, L) > 0
              /\ Cross(a, R, newL) >= 0 /\ Cross(a, newL, L) >= 0
              /\ Cross(a, R, newR) >= 0 /\ Cross(a, newR, L) >= 0
    BY <1>1, <1>4, <2>4, <2>5, OpenNarrows
  <2>7. ASSUME NEW j \in Ahead(m) PROVE Passes(newL, j) /\ Passes(newR, j)
    <3>1. CASE newL = L /\ newR = R
      BY <1>6, <3>1
    <3>2. CASE /\ Cross(a, R, L) > 0
               /\ Cross(a, R, newL) >= 0 /\ Cross(a, newL, L) >= 0
               /\ Cross(a, R, newR) >= 0 /\ Cross(a, newR, L) >= 0
      <4>1. j \in 1..Polys
        BY <1>1, <1>2 DEF Ahead
      <4>2. QED
        BY <1>1, <1>6, <3>2, <4>1, BetweenPasses
    <3>3. QED
      BY <2>6, <3>1, <3>2
  <2>8. QED
    BY <1>8, <2>6, <2>7
<1>10. CASE Ray(L, R, m)
  <2>1. R = L /\ L # a /\ l0 = L /\ r0 = L
    BY <1>10 DEF Ray
  <2>2. /\ newL = L /\ newR = L
        /\ l # r /\ L # l /\ L # r
        /\ Cross(L, r, l) >= 0 => InSight(a, r, l, L, L)
    BY <1>1, <1>4, <2>1, RayNarrows
  <2>3. OnPortal(L, Portal(m))
    BY <1>2, <2>1, PortalPlaces, EndsAreOnPortal
  <2>4. Cross(L, r, l) >= 0
    BY <1>3, <2>2, <2>3, PortalIsAhead
  <2>5. QED
    BY <1>6, <1>8, <2>1, <2>2, <2>4
<1>11. CASE EndAtApex(L, R, l0, r0, m)
  <2>1. L = a /\ l0 = a /\ R = r0 /\ r0 # a
    BY <1>11 DEF EndAtApex
  <2>2. QED
    BY <1>1, <1>4, <1>7, <2>1, LeftShutTurns
<1>12. CASE EndAtApex(R, L, r0, l0, m)
  <2>1. R = a /\ r0 = a /\ L = l0 /\ l0 # a /\ \A j \in Ahead(m) \ {m} : ThroughApex(j)
    BY <1>12 DEF EndAtApex
  <2>2. /\ newL = l /\ newR = r /\ InSight(a, r, l, newL, newR)
        /\ Cross(a, l, l0) >= 0 /\ Cross(a, r, l0) >= 0
    BY <1>1, <1>4, <1>7, <2>1, RightShutNarrows
  <2>3. Cross(a, a, l) = 0 /\ Cross(a, a, r) = 0
    BY <1>1, <1>4, CrossInt
  <2>4. Passes(l, m) /\ Passes(r, m)
    BY <2>1, <2>2, <2>3 DEF Passes
  <2>5. \A j \in Ahead(m) : Passes(l, j) /\ Passes(r, j)
    BY <1>4, <2>1, <2>4, ThroughApexPasses
  <2>6. QED
    BY <1>8, <2>2, <2>5
<1>13. CASE Flat(L, R, m)
  <2>1. /\ L = l0 /\ R = r0 /\ l0 # r0 /\ l0 # a /\ r0 # a /\ Cross(a, r0, l0) = 0
        /\ \A j \in Ahead(m) \ {m} : ThroughApex(j)
    BY <1>13 DEF Flat
  <2>2. /\ newL = l /\ newR = r /\ Cross(a, r, l) > 0
        /\ Cross(a, r0, r) > 0 /\ Cross(a, r, l0) > 0 /\ Cross(a, r0, l) >= 0 /\ Cross(a, l, l0) >= 0
    <3>0. Narrows(a, L, R, l, r, newL, newR)
      OBVIOUS
    <3>1. L # R /\ L # a /\ R # a /\ Cross(a, R, L) = 0
      BY <1>13 DEF Flat
    <3>2. Area(r, R, L) >= 0 /\ Area(R, L, l) >= 0
      BY <1>7, <2>1
    <3>3. a \in Places /\ l \in Places /\ r \in Places
      BY <1>1, <1>4
    <3> HIDE DEF a, l, r
    <3>4. /\ newL = l /\ newR = r /\ Cross(a, r, l) > 0 /\ Between(a, L, R)
          /\ Cross(a, R, r) > 0 /\ Cross(a, r, L) > 0 /\ Cross(a, R, l) >= 0 /\ Cross(a, l, L) >= 0
      BY <3>0, <3>1, <3>2, <3>3, FlatNarrows
    <3>5. QED
      BY <2>1, <3>4
  <2>3. InSight(a, r, l, l, r)
    BY <1>1, <1>4, <2>2, EndsInSight
  <2>4. Passes(l, m) /\ Passes(r, m)
    <3>1. Cross(a, r, l0) \in Int /\ Cross(a, r0, r) \in Int
      BY <1>1, <1>4, CrossInt
    <3>2. QED
      BY <2>2, <3>1 DEF Passes
  <2>5. \A j \in Ahead(m) : Passes(l, j) /\ Passes(r, j)
    BY <1>4, <2>1, <2>4, ThroughApexPasses
  <2>6. QED
    BY <1>8, <2>2, <2>3, <2>5
<1>14. QED
  BY <1>9, <1>10, <1>11, <1>12, <1>13 DEF OpenAt

\* The right side that has moved to the next portal passes those before it.
LEMMA NextPasses ==
  ASSUME SoundCorridor(corridor), ApexShape, NEW L \in Places, NEW R \in Places, NEW k \in 1..Polys,
         OpenAt(L, R, k - 1), L # apex.pt,
         Cross(apex.pt, R, Portal(k).r) >= 0,
         apex.pt = R \/ Cross(apex.pt, Portal(k).r, L) > 0,
         NEW j \in Ahead(k - 1)
  PROVE  Passes(Portal(k).r, j)
<1> DEFINE a == apex.pt
           r == Portal(k).r
           m == k - 1
           l0 == Portal(m).l
           r0 == Portal(m).r
<1>1. Polys \in Nat /\ a \in Places /\ apex.idx \in 1..Polys /\ m \in 0..Polys /\ r \in Places
  BY PolysIsNat, PortalPlaces DEF ApexShape
<1>2. /\ m \in 1..Polys
      /\ InSight(a, r0, l0, L, R) => L # a /\ R # a /\ l0 # r0
  BY <1>1, OpenParts
<1>3. j \in 1..Polys
  BY <1>1 DEF Ahead
<1>4. \A i \in Ahead(m) : Passes(L, i) /\ Passes(R, i)
  BY DEF OpenAt
<1>5. l0 \in Places /\ r0 \in Places
  BY <1>2, PortalPlaces
<1>6. l0 # r0 => Area(r, r0, l0) >= 0
  BY <1>1, <1>2, PortalsAhead
<1>7. Area(r, r0, l0) = Forth(a, r0, l0, r) - Cross(a, r0, l0)
  BY <1>1, <1>5, BeyondIsForth
<1>8. CASE InSight(a, r0, l0, L, R)
  <2>1. Cross(a, r0, l0) > 0 /\ Cross(a, r0, l0) \in Int /\ Cross(a, r0, r) \in Int /\ Cross(a, r, l0) \in Int
    BY <1>1, <1>5, <1>8, CrossInt DEF InSight
  <2>2. Forth(a, r0, l0, r) > 0
    BY <1>2, <1>6, <1>7, <1>8, <2>1 DEF Forth
  <2>3. Cross(a, r, L) > 0 /\ Cross(a, R, r) >= 0 /\ Cross(a, r, L) >= 0
    <3>1. Cross(a, r, L) \in Int
      BY <1>1, CrossInt
    <3>2. QED
      BY <1>2, <1>8, <3>1
  <2>4. Cross(a, R, L) > 0
    <3>1. Forth(a, r0, l0, L) > 0 /\ Forth(a, r0, l0, R) > 0
      BY <1>8 DEF InSight
    <3>2. a \in Places /\ l0 \in Places /\ r0 \in Places /\ r \in Places
      BY <1>1, <1>5
    <3> HIDE DEF a, l0, r0, r
    <3>3. QED
      BY <2>2, <2>3, <3>1, <3>2, ForthInOrder
  <2>5. QED
    BY <1>1, <1>3, <1>4, <2>3, <2>4, BetweenPasses
<1>9. CASE Ray(L, R, m)
  <2>1. Cross(a, L, r) = -Cross(a, r, L) /\ Cross(a, r, L) \in Int
    BY <1>1, CrossInt
  <2>2. QED
    BY <1>9, <2>1 DEF Ray
<1>10. CASE EndAtApex(L, R, l0, r0, m)
  BY <1>10 DEF EndAtApex
<1>11. CASE EndAtApex(R, L, r0, l0, m)
  <2>1. CASE j = m
    <3>1. r0 = a /\ l0 # r0
      BY <1>11 DEF EndAtApex
    <3>2. Cross(a, r0, r) = 0 /\ Cross(a, r0, l0) = 0 /\ Cross(a, r, l0) \in Int
      BY <1>1, <1>5, <3>1, CrossInt
    <3>3. Cross(a, r, l0) >= 0
      BY <1>6, <1>7, <3>1, <3>2 DEF Forth
    <3>4. QED
      BY <2>1, <3>2, <3>3 DEF Passes
  <2>2. CASE j # m
    <3>1. ThroughApex(j)
      BY <1>11, <2>2 DEF EndAtApex
    <3>2. QED
      BY <1>1, <3>1, ThroughApexPasses
  <2>3. QED
    BY <2>1, <2>2
<1>12. CASE Flat(L, R, m)
  <2>1. L = l0 /\ R = r0 /\ r0 # a /\ (j # m => ThroughApex(j))
    BY <1>12 DEF Flat
  <2>2. CASE j = m
    <3>1. Cross(a, r, l0) \in Int
      BY <1>1, <1>5, CrossInt
    <3>2. QED
      BY <2>1, <2>2, <3>1 DEF Passes
  <2>3. CASE j # m
    BY <1>1, <2>1, <2>3, ThroughApexPasses
  <2>4. QED
    BY <2>2, <2>3
<1>13. QED
  BY <1>8, <1>9, <1>10, <1>11, <1>12 DEF OpenAt

LEMMA TurnKeeps ==
  ASSUME PullInv, Pulling, NEW side, SideShape(side), FreshSide(side), Last(points) <= side.idx,
         Turn(side), UNCHANGED <<corridor, lost, crossings, size>>
  PROVE  PullInv'
<1> DEFINE s == WithCrossings(apex.idx, side.idx, side.pt)
           v == Corner(side)
           t == AppendVertex(s, v)
<1> USE DEF PullInv
<1>1. /\ Polys \in Nat /\ apex \in [pt : Places, idx : 1..Polys] /\ size \in Nat
      /\ side \in Sides /\ side.pt \in Places /\ side.idx \in apex.idx..Polys
      /\ side.idx \in 1..Polys /\ left \in Sides /\ right \in Sides /\ Polys' = Polys
  BY PolysIsNat, SizeIsNat, PolysStay DEF FunnelShape, ApexShape, SideShape, Sides
<1>2. CrossedWell(s, side.idx)
  BY <1>1, WithCrossingsGood DEF FunnelShape, FunnelInv
<1>3. v \in Vertices /\ GoodVertex(v) /\ Entered(v) = side.idx + 1
  BY CornerIsGood
<1>4. v.pt = side.pt /\ (v.flag = "end" <=> side.ref = 0)
  BY DEF Corner, Vertex
<1>5. /\ IsFull(s) =>
           points' = s /\ pulled' = Status("success", {"small"}) /\ UNCHANGED <<at, apex, left, right>>
      /\ ~IsFull(s) =>
           /\ points' = t
           /\ pulled' = IF IsFull(t) THEN Status("success", {"small"})
                        ELSE IF Len(t) > Len(s) /\ v.flag = "end" THEN Status("success", {})
                        ELSE pulled
           /\ apex' = [pt |-> side.pt, idx |-> side.idx]
           /\ left' = [left EXCEPT !.pt = side.pt, !.idx = side.idx]
           /\ right' = [right EXCEPT !.pt = side.pt, !.idx = side.idx]
           /\ at' = side.idx + 1
  BY DEF Turn, Corner, Vertex
<1> HIDE DEF s, v
<1>6. /\ GoodString(s) /\ Len(s) <= size /\ Last(s) <= side.idx /\ s \in Strings
      /\ Len(s) \in Nat
  BY <1>2, StringParts DEF CrossedWell, GoodString
<1>7. Last(s) \in Int
  <2>1. LastPoint(s) = s[Len(s)] /\ Len(s) \in 1..Len(s)
    BY <1>6, StringParts
  <2>2. QED
    BY <1>6, <2>1, EnteredIsNat DEF GoodString, GoodVertex, Last, FunnelShape
<1>8. /\ GoodString(t) /\ Last(t) = side.idx + 1
      /\ t \in Strings /\ LastPoint(t).flag = v.flag /\ SamePoint(LastPoint(t).pt, v.pt)
      /\ Len(t) \in Nat /\ Len(t) <= Len(s) + 1
  <2>1. Last(s) < Entered(v)
    BY <1>1, <1>3, <1>6, <1>7
  <2>2. GoodString(t) /\ Last(t) = Entered(v)
    BY <1>3, <1>6, <2>1, AppendGood DEF FunnelShape
  <2>3. /\ LastPoint(t) = t[Len(t)] /\ t[Len(t)].flag = v.flag /\ SamePoint(t[Len(t)].pt, v.pt)
        /\ Len(t) = Len(s) \/ Len(t) = Len(s) + 1
    BY <1>3, <1>6, AppendVertexParts
  <2>4. QED
    BY <1>3, <1>6, <2>2, <2>3 DEF GoodString
<1> HIDE DEF t
<1>9. CASE IsFull(s)
  <2>1. FunnelShape'
    <3>1. ApexShape' /\ SideShape(left)' /\ SideShape(right)'
      BY <1>1, <1>5, <1>9 DEF ApexShape, SideShape, FunnelShape
    <3>2. QED
      BY <1>1, <1>5, <1>9, <3>1 DEF FunnelShape
  <2>2. Len(s) <= size + (IF lost = 0 THEN 0 ELSE 1)
    BY <1>1, <1>6
  <2> DEFINE flags == {"small"}
  <2>3. flags \in SUBSET {"param", "partial", "small"} /\ "partial" \notin flags
        /\ flags \cap {"partial", "small"} # {}
    OBVIOUS
  <2>4. pulled' = Status("success", flags) /\ points' = s
    BY <1>5, <1>9
  <2> HIDE DEF flags
  <2>5. QED
    BY <1>6, <2>1, <2>2, <2>3, <2>4, StringIsDone
<1>10. CASE ~IsFull(s)
  <2>1. /\ left'.pt = side.pt /\ left'.idx = side.idx /\ left'.ref = left.ref /\ left' \in Sides
        /\ right'.pt = side.pt /\ right'.idx = side.idx /\ right'.ref = right.ref /\ right' \in Sides
    BY <1>1, <1>5, <1>10 DEF Sides
  <2>2. FunnelShape'
    <3>1. ApexShape'
      BY <1>1, <1>5, <1>10 DEF ApexShape
    <3>2. apex'.idx = side.idx
      BY <1>5, <1>10
    <3>3. SideShape(left)' /\ SideShape(right)'
      BY <1>1, <2>1, <3>2 DEF SideShape, FunnelShape
    <3>4. at' \in 1..(Polys + 1)
      BY <1>1, <1>5, <1>10
    <3>5. QED
      BY <1>1, <3>1, <3>3, <3>4 DEF FunnelShape
  <2>3. points' = t /\ Len(t) <= size
    BY <1>1, <1>5, <1>6, <1>8, <1>10 DEF IsFull
  <2>4. Len(t) <= size + (IF lost = 0 THEN 0 ELSE 1)
    BY <1>1, <1>8, <2>3
  <2>5. CASE IsFull(t)
    <3> DEFINE flags == {"small"}
    <3>1. flags \in SUBSET {"param", "partial", "small"} /\ "partial" \notin flags
          /\ flags \cap {"partial", "small"} # {}
      OBVIOUS
    <3>2. pulled' = Status("success", flags)
      BY <1>5, <1>10, <2>5
    <3> HIDE DEF flags
    <3>3. QED
      BY <1>8, <2>2, <2>3, <2>4, <3>1, <3>2, StringIsDone
  <2>6. CASE ~IsFull(t) /\ Len(t) > Len(s) /\ v.flag = "end"
    <3> DEFINE flags == {}
    <3>1. flags \in SUBSET {"param", "partial", "small"} /\ "partial" \notin flags
      OBVIOUS
    <3>2. pulled' = Status("success", flags) /\ LastPoint(t).flag = "end"
      BY <1>5, <1>8, <1>10, <2>6
    <3> HIDE DEF flags
    <3>3. QED
      BY <1>8, <2>2, <2>3, <2>4, <3>1, <3>2, StringIsDone
  <2>7. CASE ~IsFull(t) /\ ~(Len(t) > Len(s) /\ v.flag = "end")
    <3>1. pulled' = pulled /\ pulled.code = "progress"
      BY <1>5, <1>10, <2>7 DEF Pulling
    <3>2. GoodString(points)' /\ Last(points)' = side.idx + 1
      BY <1>8, <2>3, GoodStays
    <3>3. AtApex(points)'
      <4>1. Len(points') < size' /\ SamePoint(LastPoint(points').pt, side.pt) /\ apex'.pt = side.pt
            /\ apex'.idx = side.idx
        BY <1>1, <1>4, <1>5, <1>8, <1>10, <2>3, <2>7 DEF IsFull
      <4>2. AtEnd(side.pt, side.idx)'
        BY PortalsStay DEF FreshSide, AtEnd
      <4>3. AtEnd(apex.pt, apex.idx)'
        BY <4>1, <4>2 DEF AtEnd
      <4>4. QED
        BY <3>2, <4>1, <4>3 DEF AtApex, LastPoint
    <3>4. FunnelInv'
      <4>1. Shut'
        BY <1>5, <1>10, <2>1 DEF Shut
      <4>2. Last(points)' <= at' /\ apex'.idx <= at'
        BY <1>1, <1>5, <1>10, <3>2
      <4>3. QED
        BY <3>3, <4>1, <4>2 DEF FunnelInv
    <3>5. PulledShape'
      <4>1. t \in Seq(Vertices) /\ \A i \in 1..Len(t) : t[i].ref \in 0..Polys
        BY <1>8, GoodRefs
      <4>2. QED
        BY <1>1, <2>3, <2>4, <3>1, <4>1 DEF PulledShape
    <3>6. StringInv'
      BY <3>1 DEF StringInv
    <3>7. QED
      BY <2>2, <3>4, <3>5, <3>6
  <2>8. QED
    BY <2>5, <2>6, <2>7
<1>11. QED
  BY <1>9, <1>10

\* A side that is put to an end of the portal at hand.
LEMMA NextSide ==
  ASSUME PullInv, Pulling, at <= Polys, NEW pt, AtEnd(pt, at)
  PROVE  SideShape(Side(pt, at)) /\ OpenSide(Side(pt, at)) /\ pt \in Places
<1> USE DEF PullInv
<1>1. /\ Polys \in Nat /\ at \in 1..Polys /\ apex.idx \in 1..Polys /\ apex.idx <= at
      /\ Last(points) <= at
  BY PolysIsNat DEF FunnelShape, ApexShape, FunnelInv
<1>2. pt \in Places
  BY <1>1, PortalIsPair DEF AtEnd, FunnelShape
<1>3. /\ Side(pt, at).pt = pt /\ Side(pt, at).idx = at
      /\ Side(pt, at).ref = IF at < Polys THEN at + 1 ELSE 0
  BY DEF Side
<1>4. Side(pt, at).ref \in 0..Polys /\ Side(pt, at).ref \in Nat
  BY <1>1, <1>3
<1>5. Side(pt, at) \in Sides
  <2>1. (IF at < Polys THEN at + 1 ELSE 0) \in Nat /\ (at + 1 \in corridor.jumps) \in BOOLEAN
    BY <1>1
  <2>2. QED
    BY <1>1, <1>2, <2>1 DEF Side, Sides
<1>6. at \in apex.idx..Polys
  BY <1>1
<1>7. QED
  BY <1>1, <1>2, <1>3, <1>4, <1>5, <1>6 DEF SideShape, OpenSide, FreshSide

LEMMA FreshStays ==
  ASSUME UNCHANGED <<corridor, points>>, NEW side, OpenSide(side)
  PROVE  OpenSide(side)'
<1>1. Polys' = Polys
  BY PolysStay
<1>2. AtEnd(side.pt, side.idx)'
  BY PortalsStay DEF OpenSide, FreshSide, AtEnd
<1>3. Side(side.pt, side.idx)' = Side(side.pt, side.idx)
  BY <1>1 DEF Side
<1>4. Last(points)' = Last(points)
  BY EnteredStays DEF Last
<1>5. QED
  BY <1>2, <1>3, <1>4 DEF OpenSide, FreshSide

\* The loop goes on to the next portal.
LEMMA GoesOn ==
  ASSUME PullInv, Pulling, at <= Polys, at' = at + 1,
         UNCHANGED <<corridor, lost, crossings, size, apex, points, pulled>>,
         SideShape(left'), SideShape(right'),
         \/ left'.pt = apex.pt /\ right'.pt = apex.pt
         \/ OpenSide(left') /\ OpenSide(right')
  PROVE  PullInv'
<1> USE DEF PullInv
<1>1. Polys' = Polys /\ Polys \in Nat /\ at \in 1..Polys /\ at' \in 1..(Polys + 1)
  BY PolysIsNat, PolysStay DEF FunnelShape
<1>2. FunnelShape'
  <2>1. ApexShape' /\ SideShape(left)' /\ SideShape(right)'
    BY <1>1 DEF FunnelShape, ApexShape, SideShape
  <2>2. QED
    BY <1>1, <2>1 DEF FunnelShape
<1>3. FunnelInv'
  <2>1. AtApex(points) /\ Last(points) <= at /\ apex.idx <= at
    BY DEF FunnelInv
  <2>2. GoodString(points)' /\ Last(points)' = Last(points)
    BY <2>1, GoodStays DEF AtApex
  <2>3. AtEnd(apex.pt, apex.idx)' <=> AtEnd(apex.pt, apex.idx)
    BY PortalsStay DEF AtEnd
  <2>4. AtApex(points)'
    BY <2>1, <2>2, <2>3 DEF AtApex, LastPoint
  <2>5. Last(points) \in Int /\ apex.idx \in Int
    <3>1. points \in Strings /\ Len(points) \in 1..Len(points) /\ LastPoint(points) = points[Len(points)]
      BY <2>1, StringParts DEF AtApex, GoodString
    <3>2. LastPoint(points).ref \in 0..Polys
      BY <2>1, <3>1 DEF AtApex, GoodString, GoodVertex
    <3>3. QED
      BY <3>2, EnteredIsNat DEF Last, FunnelShape, ApexShape
  <2>6. Last(points)' <= at' /\ apex'.idx <= at'
    BY <1>1, <2>1, <2>2, <2>5
  <2>7. CASE left'.pt = apex.pt /\ right'.pt = apex.pt
    BY <2>4, <2>6, <2>7 DEF FunnelInv, Shut
  <2>8. CASE OpenSide(left') /\ OpenSide(right')
    <3>1. ASSUME NEW side, OpenSide(side) PROVE OpenSide(side)'
      BY <3>1, FreshStays
    <3>2. OpenSide(left)' /\ OpenSide(right)'
      <4>1. \A side : OpenSide(side) => /\ AtEnd(side.pt, side.idx)'
                                        /\ side = Side(side.pt, side.idx)'
                                        /\ Last(points)' <= side.idx
        BY <3>1 DEF OpenSide, FreshSide
      <4>2. QED
        BY <2>8, <4>1 DEF OpenSide, FreshSide, AtEnd, Side, Portal, Polys
    <3>3. QED
      BY <2>4, <2>6, <3>2 DEF FunnelInv
  <2>9. QED
    BY <2>7, <2>8
<1>4. PulledShape' /\ StringInv'
  BY <1>1 DEF PulledShape, StringInv, Pulling
<1>5. QED
  BY <1>2, <1>3, <1>4

LEMMA SkipKeeps == PullInv /\ PullSkip => PullInv'
<1> SUFFICES ASSUME PullInv, PullSkip PROVE PullInv'
  OBVIOUS
<1>1. /\ Pulling /\ at <= Polys /\ at' = at + 1
      /\ UNCHANGED <<corridor, lost, crossings, size, apex, left, right, points, pulled>>
  BY DEF PullSkip
<1>2. SideShape(left') /\ SideShape(right')
  BY <1>1 DEF PullInv, FunnelShape
<1>3. \/ left'.pt = apex.pt /\ right'.pt = apex.pt
      \/ OpenSide(left') /\ OpenSide(right')
  BY <1>1 DEF PullInv, FunnelInv, Shut
<1>4. QED
  BY <1>1, <1>2, <1>3, GoesOn

LEMMA PortalKeeps == PullInv /\ PullPortal => PullInv'
<1> SUFFICES ASSUME PullInv, PullPortal PROVE PullInv'
  OBVIOUS
<1> DEFINE p == Portal(at)
           newRight == IF RightIn(p.r) THEN Side(p.r, at) ELSE right
           newLeft == IF LeftIn(p.l) THEN Side(p.l, at) ELSE left
<1>1. /\ Pulling /\ at <= Polys /\ UNCHANGED <<corridor, lost, crossings, size>>
      /\ \/ RightIn(p.r) /\ ~RightNarrows(p.r) /\ Turn(left)
         \/ LeftIn(p.l) /\ ~LeftNarrows(p.l, newRight) /\ Turn(newRight)
         \/ /\ right' = newRight /\ left' = newLeft
            /\ at' = at + 1
            /\ UNCHANGED <<apex, points, pulled>>
  BY DEF PullPortal
<1>2. /\ SideShape(Side(p.r, at)) /\ OpenSide(Side(p.r, at)) /\ p.r \in Places
      /\ SideShape(Side(p.l, at)) /\ OpenSide(Side(p.l, at)) /\ p.l \in Places
  BY <1>1, NextSide DEF AtEnd
<1>3. /\ SideShape(left) /\ SideShape(right)
      /\ Shut \/ (OpenSide(left) /\ OpenSide(right))
      /\ apex.pt \in Places
  BY <1>1 DEF PullInv, FunnelInv, FunnelShape, ApexShape
<1>4. Shut => /\ RightIn(p.r) /\ RightNarrows(p.r) /\ LeftIn(p.l)
              /\ \A side : LeftNarrows(p.l, side)
  <2>1. Area(apex.pt, apex.pt, p.r) = 0 /\ Area(apex.pt, apex.pt, p.l) = 0
    BY <1>2, <1>3, AreaAtApex
  <2>2. QED
    BY <2>1 DEF Shut, RightIn, RightNarrows, LeftIn, LeftNarrows
<1>5. SideShape(newRight) /\ SideShape(newLeft)
  <2>1. newRight \in {Side(p.r, at), right} /\ newLeft \in {Side(p.l, at), left}
    OBVIOUS
  <2> HIDE DEF newRight, newLeft
  <2>2. SideShape(newRight)
    BY <1>2, <1>3, <2>1, Zenon DEF SideShape
  <2>3. SideShape(newLeft)
    BY <1>2, <1>3, <2>1, Zenon DEF SideShape
  <2>4. QED
    BY <2>2, <2>3
<1>6. OpenSide(newRight) /\ OpenSide(newLeft)
  BY <1>2, <1>3, <1>4
<1> HIDE DEF p, newRight, newLeft
<1>7. CASE RightIn(p.r) /\ ~RightNarrows(p.r) /\ Turn(left)
  <2>1. FreshSide(left) /\ Last(points) <= left.idx
    BY <1>3, <1>4, <1>7 DEF OpenSide
  <2>2. PICK side : side = left
    OBVIOUS
  <2>3. SideShape(side)
    BY <1>3, <2>2 DEF SideShape
  <2>4. FreshSide(side) /\ Last(points) <= side.idx
    BY <2>1, <2>2 DEF FreshSide, AtEnd, Side
  <2>5. Turn(side)
    BY <1>7, <2>2 DEF Turn
  <2>6. QED
    BY <1>1, <2>3, <2>4, <2>5, TurnKeeps
<1>8. CASE LeftIn(p.l) /\ ~LeftNarrows(p.l, newRight) /\ Turn(newRight)
  <2>1. FreshSide(newRight) /\ Last(points) <= newRight.idx
    BY <1>6 DEF OpenSide
  <2>2. PICK side : side = newRight
    OBVIOUS
  <2>3. SideShape(side)
    BY <1>5, <2>2 DEF SideShape
  <2>4. FreshSide(side) /\ Last(points) <= side.idx
    BY <2>1, <2>2 DEF FreshSide, AtEnd, Side
  <2>5. Turn(side)
    BY <1>8, <2>2 DEF Turn
  <2>6. QED
    BY <1>1, <2>3, <2>4, <2>5, TurnKeeps
<1>9. CASE /\ right' = newRight /\ left' = newLeft
           /\ at' = at + 1
           /\ UNCHANGED <<apex, points, pulled>>
  <2>1. SideShape(left') /\ SideShape(right') /\ OpenSide(left') /\ OpenSide(right')
    BY <1>5, <1>6, <1>9
  <2>2. QED
    BY <1>1, <1>9, <2>1, GoesOn
<1>10. QED
  BY <1>1, <1>7, <1>8, <1>9

LEMMA LostKeeps == ASSUME NEW pt \in Clamped, PullInv, PullLost(pt) PROVE PullInv'
<1> USE DEF PullInv
<1> DEFINE s == WithCrossings(apex.idx, at, pt)
           v == Vertex(pt, "none", at)
           t == AppendVertex(s, v)
           flags == {"partial"} \cup IF IsFull(t) THEN {"small"} ELSE {}
<1>1. /\ Pulling /\ at < Polys /\ at + 1 = lost /\ points' = t /\ pulled' = Status("success", flags)
      /\ UNCHANGED <<corridor, lost, crossings, size, at, apex, left, right>>
  BY DEF PullLost, PortalLost
<1>2. /\ Polys \in Nat /\ at \in 1..Polys /\ size \in Nat /\ apex.idx \in 1..Polys /\ lost # 0
      /\ apex.idx <= at /\ Last(points) <= at /\ AtApex(points) /\ Polys' = Polys
  BY <1>1, PolysIsNat, SizeIsNat, PolysStay DEF FunnelShape, ApexShape, FunnelInv
<1>3. pt \in Places
  BY <1>2, PortalIsPair, ClampsAssumption DEF Clamped, FunnelShape
<1>4. CrossedWell(s, at)
  <2>1. at \in apex.idx..Polys
    BY <1>2
  <2>2. QED
    BY <1>2, <1>3, <2>1, WithCrossingsGood DEF FunnelShape
<1>5. v \in Vertices /\ v.ref = at /\ v.flag = "none" /\ Entered(v) = at
  <2>1. pt \in Spots
    BY <1>3, PlaceIsSpot
  <2>2. QED
    BY <1>2, <2>1 DEF Vertices, Vertex, Flags, Entered
<1>6. FunnelShape'
  <2>1. ApexShape' /\ SideShape(left)' /\ SideShape(right)'
    BY <1>1, <1>2 DEF FunnelShape, ApexShape, SideShape
  <2>2. QED
    BY <1>1, <1>2, <2>1 DEF FunnelShape
<1>7. flags \in SUBSET {"param", "partial", "small"} /\ "partial" \in flags
  OBVIOUS
<1> HIDE DEF s, v, flags
<1>8. /\ s \in Strings /\ Len(s) \in Nat /\ Len(s) >= 1 /\ Len(s) <= size
      /\ \A i \in 1..Len(s) : /\ s[i].ref \in 1..Polys /\ s[i].flag # "end"
                              /\ Entered(s[i]) = s[i].ref /\ Entered(s[i]) <= at
      /\ InOrder(s)
  <2>1. /\ s \in Strings /\ Len(s) \in Nat /\ Len(s) >= 1 /\ LastPoint(s) = s[Len(s)] /\ Len(s) <= size
        /\ Len(s) \in 1..Len(s) /\ InOrder(s) /\ Last(s) <= at
    BY <1>4, StringParts DEF CrossedWell, GoodString
  <2>2. ASSUME NEW i \in 1..Len(s)
        PROVE  /\ s[i].ref \in 1..Polys /\ s[i].flag # "end"
               /\ Entered(s[i]) = s[i].ref /\ Entered(s[i]) <= at
    <3>1. GoodVertex(s[i]) /\ GoodVertex(s[Len(s)])
      BY <1>4, <2>1 DEF CrossedWell, GoodString
    <3>2. Entered(s[i]) \in 1..(Polys + 1) /\ Entered(s[Len(s)]) \in 1..(Polys + 1)
      BY <3>1, EnteredIsNat DEF GoodVertex, FunnelShape
    <3>3. i = Len(s) \/ Entered(s[i]) < Entered(s[Len(s)])
      BY <2>1 DEF InOrder
    <3>4. Entered(s[i]) <= at
      BY <1>2, <2>1, <3>2, <3>3 DEF Last
    <3>5. s[i].ref # 0
      BY <1>1, <1>2, <3>4 DEF Entered
    <3>6. QED
      BY <1>2, <3>1, <3>4, <3>5 DEF GoodVertex, Entered
  <2>3. QED
    BY <2>1, <2>2
<1>9. LET n == Len(t)
      IN  /\ t \in Strings
          /\ \A i \in 1..(n - 1) : t[i] = s[i]
          /\ t[n].flag = v.flag /\ t[n].ref = v.ref
          /\ n = Len(s) \/ n = Len(s) + 1
  BY <1>5, <1>8, AppendVertexParts
<1> HIDE DEF t
<1>10. CutString(t)
  <2> DEFINE n == Len(t)
  <2>1. n \in Nat /\ n >= 1 /\ n - 1 <= Len(s)
    BY <1>8, <1>9
  <2>2. \A i \in 1..(n - 1) : i \in 1..Len(s) /\ t[i] = s[i]
    BY <1>8, <1>9, <2>1
  <2>3. t[n].ref = at /\ t[n].flag = "none" /\ Entered(t[n]) = at
    BY <1>2, <1>5, <1>9 DEF Entered
  <2>4. \A i \in 1..n : t[i].ref \in 1..Polys /\ t[i].flag # "end"
    <3> SUFFICES ASSUME NEW i \in 1..n PROVE t[i].ref \in 1..Polys /\ t[i].flag # "end"
      OBVIOUS
    <3>1. CASE i = n
      BY <1>2, <2>3, <3>1
    <3>2. CASE i # n
      <4>1. i \in 1..(n - 1)
        BY <2>1, <3>2
      <4>2. QED
        BY <1>8, <2>2, <4>1
    <3>3. QED
      BY <3>1, <3>2
  <2>5. ASSUME NEW i \in 1..n, NEW j \in 1..n, i < j
        PROVE  Entered(t[i]) < Entered(t[j]) \/ (j = n /\ t[i].ref = t[j].ref)
    <3>1. i \in 1..(n - 1) /\ i \in 1..Len(s) /\ t[i] = s[i]
      BY <2>1, <2>2, <2>5
    <3>2. CASE j = n
      <4>1. Entered(t[i]) = t[i].ref /\ Entered(t[i]) <= at /\ t[i].ref \in 1..Polys
        BY <1>8, <3>1
      <4>2. QED
        BY <1>2, <2>3, <3>2, <4>1
    <3>3. CASE j # n
      <4>1. j \in 1..(n - 1) /\ j \in 1..Len(s) /\ t[j] = s[j]
        BY <2>1, <2>2, <3>3
      <4>2. QED
        BY <1>8, <2>5, <3>1, <4>1 DEF InOrder
    <3>4. QED
      BY <3>2, <3>3
  <2>6. QED
    BY <1>9, <2>4, <2>5 DEF CutString
<1>11. Len(t) <= size + (IF lost = 0 THEN 0 ELSE 1)
  BY <1>2, <1>8, <1>9
<1>12. QED
  BY <1>1, <1>6, <1>7, <1>10, <1>11, StringIsDone

LEMMA EndKeeps == PullInv /\ PullEnd => PullInv'
<1> SUFFICES ASSUME PullInv, PullEnd PROVE PullInv'
  OBVIOUS
<1> USE DEF PullInv
<1> DEFINE g == corridor.goal
           s == IF Polys = 1 THEN points ELSE WithCrossings(apex.idx, Polys, g)
           v == Vertex(g, "end", 0)
           t == IF IsFull(s) THEN s ELSE AppendVertex(s, v)
           flags == IF IsFull(t) THEN {"small"} ELSE {}
<1>1. /\ Pulling /\ points' = t /\ pulled' = Status("success", flags)
      /\ UNCHANGED <<corridor, lost, crossings, size, at, apex, left, right>>
  BY DEF PullEnd
<1>2. /\ Polys \in Nat /\ Polys >= 1 /\ at \in 1..(Polys + 1) /\ size \in Nat
      /\ apex \in [pt : Places, idx : 1..Polys] /\ g \in Places
      /\ Last(points) <= at /\ AtApex(points) /\ Polys' = Polys
  BY <1>1, PolysIsNat, SizeIsNat, PolysStay
     DEF FunnelShape, ApexShape, FunnelInv, SoundCorridor
<1>3. FunnelShape'
  <2>1. ApexShape' /\ SideShape(left)' /\ SideShape(right)'
    BY <1>1, <1>2 DEF FunnelShape, ApexShape, SideShape
  <2>2. QED
    BY <1>1, <1>2, <2>1 DEF FunnelShape
<1>4. v \in Vertices /\ GoodVertex(v) /\ Entered(v) = Polys + 1 /\ v.flag = "end" /\ v.pt = g
  <2>1. g \in Spots /\ SamePoint(g, g)
    BY <1>2, PlaceIsSpot, SamePlace
  <2>2. v \in Vertices /\ v.ref = 0 /\ v.flag = "end" /\ v.pt = g
    BY <2>1 DEF Vertices, Vertex, Flags
  <2> HIDE DEF v
  <2>3. 0 \notin corridor.jumps
    BY <1>2 DEF FunnelShape, SoundCorridor
  <2>4. QED
    BY <1>2, <2>1, <2>2, <2>3 DEF GoodVertex, Entered
<1>5. /\ points \in Strings /\ Len(points) \in Nat /\ Len(points) < size /\ GoodString(points)
      /\ Last(points) \in Int
  <2>1. /\ points \in Strings /\ Len(points) \in Nat /\ Len(points) \in 1..Len(points)
        /\ LastPoint(points) = points[Len(points)] /\ Len(points) < size /\ GoodString(points)
    BY <1>2, StringParts DEF AtApex, GoodString
  <2>2. QED
    BY <2>1, EnteredIsNat DEF GoodString, GoodVertex, Last, FunnelShape
<1>6. /\ GoodString(s) /\ Len(s) <= size
      /\ \/ Last(s) < Entered(v)
         \/ Last(s) = Entered(v) /\ SamePoint(LastPoint(s).pt, v.pt)
  <2>1. CASE Last(points) <= Polys
    <3>1. CrossedWell(s, Polys)
      <4>1. CASE Polys = 1
        BY <1>2, <1>5, <2>1, <4>1 DEF CrossedWell
      <4>2. CASE Polys # 1
        <5>1. Polys \in apex.idx..Polys
          BY <1>2
        <5>2. QED
          BY <1>2, <2>1, <4>2, <5>1, WithCrossingsGood DEF FunnelShape
      <4>3. QED
        BY <4>1, <4>2
    <3> HIDE DEF s, v
    <3>2. s \in Strings /\ Len(s) \in 1..Len(s) /\ LastPoint(s) = s[Len(s)]
      BY <3>1, StringParts DEF CrossedWell, GoodString
    <3>3. Last(s) \in Int
      BY <3>1, <3>2, EnteredIsNat DEF CrossedWell, GoodString, GoodVertex, Last, FunnelShape
    <3>4. QED
      BY <1>2, <1>4, <3>1, <3>3 DEF CrossedWell
  <2>2. CASE Last(points) > Polys
    <3>1. Last(points) = Polys + 1 /\ apex.idx = Polys /\ AtEnd(apex.pt, apex.idx)
      BY <1>2, <1>5, <2>2 DEF AtApex
    <3>2. apex.pt = g
      <4>1. ~(apex.idx < Polys)
        BY <1>2, <3>1
      <4>2. Portal(apex.idx) = [l |-> g, r |-> g]
        BY <4>1 DEF Portal
      <4>3. QED
        BY <3>1, <4>2 DEF AtEnd
    <3>3. SamePoint(LastPoint(points).pt, g)
      BY <1>2, <3>2 DEF AtApex
    <3>4. AppendPortals(points, Polys, Polys, g) = points
      <4>1. \E f : Crossed(f, points, Polys, Polys, g) /\ AppendPortals(points, Polys, Polys, g) = f[Polys - 1]
        <5>1. Polys \in 1..Polys /\ Polys \in Polys..Polys /\ apex.pt \in Places
          BY <1>2
        <5>2. QED
          BY <1>2, <1>5, <5>1, AppendPortalsSteps DEF FunnelShape
      <4>2. QED
        BY <4>1 DEF Crossed
    <3>5. s = points
      BY <3>1, <3>4 DEF WithCrossings
    <3> HIDE DEF s, v
    <3>6. QED
      BY <1>2, <1>4, <1>5, <3>1, <3>3, <3>5
  <2>3. QED
    BY <1>2, <1>5, <2>1, <2>2
<1> HIDE DEF s, v, g
<1>7. s \in Strings /\ Len(s) \in Nat
  BY <1>6, StringParts DEF GoodString
<1>8. ~IsFull(s) => t = AppendVertex(s, v)
  OBVIOUS
<1>9. IsFull(s) => t = s
  OBVIOUS
<1> HIDE DEF t
<1>10. GoodString(t) /\ Len(t) <= size /\ (~IsFull(t) => LastPoint(t).flag = "end")
  <2>1. CASE IsFull(s)
    BY <1>6, <1>9, <2>1
  <2>2. CASE ~IsFull(s)
    <3>1. GoodString(t)
      BY <1>4, <1>6, <1>8, <2>2, AppendGood DEF FunnelShape
    <3>2. /\ LastPoint(t) = t[Len(t)] /\ t[Len(t)].flag = v.flag
          /\ Len(t) = Len(s) \/ Len(t) = Len(s) + 1
      BY <1>4, <1>7, <1>8, <2>2, AppendVertexParts
    <3>3. QED
      BY <1>2, <1>4, <1>7, <2>2, <3>1, <3>2 DEF IsFull
  <2>3. QED
    BY <2>1, <2>2
<1>11. Len(t) <= size + (IF lost = 0 THEN 0 ELSE 1)
  <2>1. Len(t) \in Nat
    BY <1>10, StringParts DEF GoodString
  <2>2. QED
    BY <1>2, <1>10, <2>1
<1>12. /\ flags \in SUBSET {"param", "partial", "small"} /\ "partial" \notin flags
       /\ flags \cap {"partial", "small"} = {} => ~IsFull(t)
  OBVIOUS
<1> HIDE DEF flags
<1>13. QED
  BY <1>1, <1>3, <1>10, <1>11, <1>12, StringIsDone

-----------------------------------------------------------------------------
(* The funnel and the points of a step                                     *)

\* As long as the mesh is whole, what is in the points is on the portals.
PlacedInv == (Pulling \/ (pulled.code = "success" /\ "partial" \notin pulled.flags)) => Placed(points)

LEMMA ShutStays ==
  ASSUME UNCHANGED <<corridor, apex>>, NEW m, ShutAt(m)
  PROVE  ShutAt(m)'
<1>1. \A j : Portal(j)' = Portal(j)
  BY PortalsStay
<1>2. Ahead(m)' = Ahead(m)
  BY <1>1 DEF Ahead
<1>3. QED
  BY <1>1, <1>2 DEF ShutAt, ThroughApex

LEMMA OpenStays ==
  ASSUME UNCHANGED <<corridor, apex>>, NEW L, NEW R, NEW m, OpenAt(L, R, m)
  PROVE  OpenAt(L, R, m)'
<1>1. \A j : Portal(j)' = Portal(j)
  BY PortalsStay
<1>2. Ahead(m)' = Ahead(m)
  BY <1>1 DEF Ahead
<1>3. \A x, j : (Passes(x, j)' <=> Passes(x, j)) /\ (ThroughApex(j)' <=> ThroughApex(j))
  BY <1>1 DEF Passes, ThroughApex
<1>4. Ray(L, R, m)' <=> Ray(L, R, m)
  BY <1>1 DEF Ray
<1>5. \A x, y, u, v : EndAtApex(x, y, u, v, m)' <=> EndAtApex(x, y, u, v, m)
  BY <1>2, <1>3 DEF EndAtApex
<1>6. EndAtApex(L, R, Portal(m).l, Portal(m).r, m)' <=> EndAtApex(L, R, Portal(m).l, Portal(m).r, m)
  BY <1>1, <1>2, <1>3 DEF EndAtApex
<1>7. EndAtApex(R, L, Portal(m).r, Portal(m).l, m)' <=> EndAtApex(R, L, Portal(m).r, Portal(m).l, m)
  BY <1>1, <1>2, <1>3 DEF EndAtApex
<1>8. InSight(apex.pt, Portal(m).r, Portal(m).l, L, R)' <=> InSight(apex.pt, Portal(m).r, Portal(m).l, L, R)
  BY <1>1 DEF InSight, Forth
<1>9. Flat(L, R, m)' <=> Flat(L, R, m)
  BY <1>1, <1>2, <1>3 DEF Flat
<1>10. QED
  BY <1>2, <1>3, <1>4, <1>6, <1>7, <1>8, <1>9 DEF OpenAt

\* The tests of the loop, as directions.
LEMMA SidesSee ==
  ASSUME FunnelShape, NEW pt \in Places, NEW side, side.pt \in Places
  PROVE  /\ RightIn(pt) <=> Cross(apex.pt, right.pt, pt) >= 0
         /\ RightNarrows(pt) <=> apex.pt = right.pt \/ Cross(apex.pt, pt, left.pt) > 0
         /\ LeftIn(pt) <=> Cross(apex.pt, pt, left.pt) >= 0
         /\ LeftNarrows(pt, side) <=> apex.pt = left.pt \/ Cross(apex.pt, side.pt, pt) > 0
<1>1. apex.pt \in Places /\ left.pt \in Places /\ right.pt \in Places
  BY DEF FunnelShape, ApexShape, SideShape, Sides
<1>2. /\ Area(apex.pt, right.pt, pt) = -Cross(apex.pt, right.pt, pt)
      /\ Area(apex.pt, left.pt, pt) = -Cross(apex.pt, left.pt, pt)
      /\ Cross(apex.pt, left.pt, pt) = -Cross(apex.pt, pt, left.pt)
      /\ Area(apex.pt, side.pt, pt) = -Cross(apex.pt, side.pt, pt)
      /\ Cross(apex.pt, right.pt, pt) \in Int /\ Cross(apex.pt, pt, left.pt) \in Int
      /\ Cross(apex.pt, side.pt, pt) \in Int
  BY <1>1, CrossInt
<1>3. QED
  BY <1>2 DEF RightIn, RightNarrows, LeftIn, LeftNarrows

\* After a turn the funnel is shut, and the corner is on the portal by which
\* its polygon is entered.
LEMMA AfterTurn ==
  ASSUME PullInv, Pulling, NEW side, SideShape(side), FreshSide(side), Last(points) <= side.idx,
         Turn(side), UNCHANGED corridor
  PROVE  LET s == WithCrossings(apex.idx, side.idx, side.pt)
             v == Corner(side)
             t == AppendVertex(s, v)
         IN  /\ side.pt \in Places /\ side.idx \in 1..Polys /\ side.idx \in apex.idx..Polys
             /\ Polys \in Nat /\ Polys' = Polys /\ SoundCorridor(corridor) /\ ApexShape
             /\ CrossedWell(s, side.idx) /\ s \in Strings
             /\ v \in Vertices /\ GoodVertex(v) /\ Entered(v) = side.idx + 1 /\ v.pt = side.pt
             /\ Last(t) = side.idx + 1
             /\ OnPortal(side.pt, Portal(side.idx))
             /\ points' = s \/ (points' = t /\ ~IsFull(s))
             /\ Pulling' \/ Complete' => points' = t /\ ~IsFull(s) /\ Shut'
                                         /\ apex'.pt = side.pt /\ apex'.idx = side.idx /\ at' = side.idx + 1
                                         /\ OnPortal(apex.pt, Portal(side.idx))' /\ Ahead(side.idx)' = {}
<1> DEFINE s == WithCrossings(apex.idx, side.idx, side.pt)
           v == Corner(side)
           t == AppendVertex(s, v)
<1> USE DEF PullInv
<1>1. /\ Polys \in Nat /\ apex \in [pt : Places, idx : 1..Polys] /\ size \in Nat
      /\ side.pt \in Places /\ side.idx \in apex.idx..Polys /\ side.idx \in 1..Polys
      /\ left \in Sides /\ right \in Sides /\ Polys' = Polys /\ SoundCorridor(corridor) /\ ApexShape
      /\ crossings \in BOOLEAN /\ AtApex(points)
  BY PolysIsNat, SizeIsNat, PolysStay DEF FunnelInv, FunnelShape, ApexShape, SideShape, Sides
<1>2. CrossedWell(s, side.idx) /\ s \in Strings
  <2>1. CrossedWell(s, side.idx)
    BY <1>1, WithCrossingsGood DEF FunnelShape
  <2>2. QED
    BY <2>1 DEF CrossedWell, GoodString
<1>3. v \in Vertices /\ GoodVertex(v) /\ Entered(v) = side.idx + 1
  BY CornerIsGood
<1>4. v.pt = side.pt
  BY DEF Corner, Vertex
<1>5. OnPortal(side.pt, Portal(side.idx))
  BY <1>1, PortalPlaces, EndsAreOnPortal DEF FreshSide, AtEnd, FunnelShape
<1>6. /\ IsFull(s) => points' = s /\ pulled' = Status("success", {"small"})
      /\ ~IsFull(s) =>
           /\ points' = t
           /\ apex' = [pt |-> side.pt, idx |-> side.idx]
           /\ left' = [left EXCEPT !.pt = side.pt, !.idx = side.idx]
           /\ right' = [right EXCEPT !.pt = side.pt, !.idx = side.idx]
           /\ at' = side.idx + 1
  BY DEF Turn, Corner, Vertex
<1> HIDE DEF s, v
<1>7. Last(t) = side.idx + 1
  <2>1. LastPoint(t).ref = v.ref
    BY <1>2, <1>3, AppendVertexParts
  <2>2. QED
    BY <1>3, <2>1 DEF Last, Entered
<1> HIDE DEF t
<1>8. ASSUME Pulling' \/ Complete'
      PROVE  /\ points' = t /\ ~IsFull(s) /\ Shut' /\ apex'.pt = side.pt /\ apex'.idx = side.idx
             /\ at' = side.idx + 1 /\ OnPortal(apex.pt, Portal(side.idx))' /\ Ahead(side.idx)' = {}
  <2>1. ~IsFull(s)
    <3> SUFFICES ASSUME pulled' = Status("success", {"small"}) PROVE FALSE
      BY <1>6
    <3>1. QED
      BY <1>8 DEF Pulling, Complete, Pulled, Status
  <2>2. apex'.pt = side.pt /\ apex'.idx = side.idx /\ Shut'
    <3>1. left'.pt = side.pt /\ right'.pt = side.pt
      BY <1>1, <1>6, <2>1 DEF Sides
    <3>2. QED
      BY <1>6, <2>1, <3>1 DEF Shut
  <2>3. OnPortal(apex.pt, Portal(side.idx))'
    BY <1>5, <2>2, PortalsStay
  <2>4. Ahead(side.idx)' = {}
    BY <1>1, <2>2, <2>3 DEF Ahead
  <2>5. QED
    BY <1>6, <2>1, <2>2, <2>3, <2>4
<1>9. points' = s \/ (points' = t /\ ~IsFull(s))
  BY <1>6
<1>10. QED
  BY <1>1, <1>2, <1>3, <1>4, <1>5, <1>7, <1>8, <1>9 DEF s, v, t

\* What the turn adds is placed as it should be.
LEMMA ConeTurn ==
  ASSUME PullInv, PlacedInv, Pulling, NEW side, SideShape(side), FreshSide(side), Last(points) <= side.idx,
         CrossesWell(side.idx, side.pt), Turn(side), UNCHANGED <<corridor, lost, crossings, size>>
  PROVE  ConeInv' /\ PlacedInv'
<1> DEFINE s == WithCrossings(apex.idx, side.idx, side.pt)
           v == Corner(side)
           t == AppendVertex(s, v)
<1>1. /\ side.pt \in Places /\ side.idx \in 1..Polys /\ side.idx \in apex.idx..Polys /\ Polys \in Nat
      /\ SoundCorridor(corridor) /\ ApexShape /\ s \in Strings /\ v \in Vertices /\ GoodVertex(v)
      /\ Entered(v) = side.idx + 1 /\ v.pt = side.pt /\ OnPortal(side.pt, Portal(side.idx))
      /\ points' = s \/ points' = t
      /\ Pulling' => /\ Shut' /\ apex'.pt = side.pt /\ apex'.idx = side.idx /\ at' = side.idx + 1
                     /\ OnPortal(apex.pt, Portal(side.idx))' /\ Ahead(side.idx)' = {}
  BY AfterTurn
<1>2. v.ref \in 0..Polys /\ IsPlaced(v)
  <2>1. v.ref \in 0..Polys /\ (v.ref > 1 => v.ref - 1 = side.idx)
    BY <1>1 DEF GoodVertex, Entered
  <2>2. QED
    BY <1>1, <2>1 DEF IsPlaced
<1>3. Placed(s)
  <2>1. points \in Strings /\ Placed(points)
    BY DEF PullInv, PlacedInv, FunnelInv, AtApex, GoodString
  <2>2. QED
    BY <1>1, <2>1, WithCrossingsPlaced
<1> HIDE DEF s, v
<1>4. Placed(t)
  BY <1>1, <1>2, <1>3, AppendPlaced
<1> HIDE DEF t
<1>5. PlacedInv'
  <2>1. Placed(points)'
    BY <1>1, <1>3, <1>4, PlacedStays
  <2>2. QED
    BY <2>1 DEF PlacedInv
<1>6. ASSUME Pulling' PROVE ConeInv'
  <2>1. at' - 1 = side.idx /\ side.idx > 0 /\ side.idx <= side.idx
    BY <1>1, <1>6
  <2>2. ShutAt(at - 1)'
    BY <1>1, <1>6, <2>1 DEF ShutAt
  <2>3. QED
    BY <1>1, <1>6, <2>2 DEF ConeInv
<1>7. QED
  BY <1>5, <1>6 DEF ConeInv

\* The string starts on the first portal.
LEMMA ConeSkip ==
  ASSUME PullInv, ConeInv, PlacedInv, PullSkip
  PROVE  ConeInv' /\ PlacedInv'
<1>1. /\ Pulling /\ at = 1 /\ Polys > 1 /\ OnPortal(apex.pt, corridor.portals[1]) /\ at' = at + 1
      /\ UNCHANGED <<corridor, apex, left, right, points, pulled>>
  BY DEF PullSkip, StartsOnPortal
<1>2. Polys \in Nat /\ apex.idx \in 1..Polys /\ SoundCorridor(corridor)
  BY PolysIsNat DEF PullInv, FunnelShape, ApexShape
<1>3. Shut
  <2>1. ~OpenAt(left.pt, right.pt, at - 1)
    BY <1>1, <1>2 DEF OpenAt, Ahead
  <2>2. QED
    BY <1>1, <2>1 DEF ConeInv
<1>4. apex.idx = 1
  BY <1>1, <1>3 DEF ConeInv, ShutAt
<1>5. OnPortal(apex.pt, Portal(1))
  BY <1>1 DEF Portal
<1>6. Ahead(1) = {}
  BY <1>4, <1>5 DEF Ahead
<1>7. ShutAt(1)
  BY <1>4, <1>5, <1>6 DEF ShutAt
<1>8. ShutAt(1)'
  BY <1>1, <1>7, ShutStays
<1>9. Shut' /\ at' - 1 = 1
  BY <1>1, <1>3 DEF Shut
<1>10. ConeInv'
  BY <1>8, <1>9 DEF ConeInv
<1>11. PlacedInv'
  <2>1. Placed(points)'
    BY <1>1, PlacedStays DEF PlacedInv
  <2>2. QED
    BY <2>1 DEF PlacedInv
<1>12. QED
  BY <1>10, <1>11

\* The sides as they are when the next portal has been looked at.
SeenRight == IF Cross(apex.pt, right.pt, Portal(at).r) >= 0 THEN Side(Portal(at).r, at) ELSE right

SeenLeft == IF Cross(apex.pt, Portal(at).l, left.pt) >= 0 THEN Side(Portal(at).l, at) ELSE left

TurnsLeft ==
  /\ Cross(apex.pt, right.pt, Portal(at).r) >= 0
  /\ apex.pt # right.pt /\ Cross(apex.pt, Portal(at).r, left.pt) <= 0

TurnsRight ==
  /\ Cross(apex.pt, right.pt, Portal(at).r) >= 0 =>
       apex.pt = right.pt \/ Cross(apex.pt, Portal(at).r, left.pt) > 0
  /\ Cross(apex.pt, Portal(at).l, left.pt) >= 0
  /\ apex.pt # left.pt /\ Cross(apex.pt, SeenRight.pt, Portal(at).l) <= 0

GoesAhead ==
  /\ Narrows(apex.pt, left.pt, right.pt, Portal(at).l, Portal(at).r, SeenLeft.pt, SeenRight.pt)
  /\ right' = SeenRight /\ left' = SeenLeft
  /\ at' = at + 1
  /\ UNCHANGED <<apex, points, pulled>>

\* What the loop starts a turn with.
PortalPoints ==
  /\ Pulling /\ Polys \in Nat /\ at \in 1..Polys /\ Polys > 1 /\ ~StartsOnPortal
  /\ SoundCorridor(corridor) /\ ApexShape /\ apex.pt \in Places /\ apex.idx \in 1..Polys
  /\ left.pt \in Places /\ right.pt \in Places
  /\ Portal(at).l \in Places /\ Portal(at).r \in Places
  /\ SeenLeft.pt \in Places /\ SeenRight.pt \in Places

\* What one turn of the loop does, told by cross products: the string turns at the left side, or at the
\* right one, or the funnel narrows.
LEMMA PortalCases ==
  ASSUME PullInv, ConeInv, PullPortal
  PROVE  /\ PortalPoints /\ FunnelShape /\ UNCHANGED <<corridor, lost, crossings, size>>
         /\ \/ ~Shut /\ TurnsLeft /\ Turn(left)
            \/ ~Shut /\ TurnsRight /\ Turn(SeenRight)
            \/ GoesAhead
<1> USE DEF PortalPoints
<1> DEFINE a == apex.pt
           p == Portal(at)
           newRight == IF RightIn(p.r) THEN Side(p.r, at) ELSE right
           newLeft == IF LeftIn(p.l) THEN Side(p.l, at) ELSE left
<1>1. /\ Pulling /\ at <= Polys /\ Polys > 1 /\ UNCHANGED <<corridor, lost, crossings, size>>
      /\ ~StartsOnPortal
      /\ \/ RightIn(p.r) /\ ~RightNarrows(p.r) /\ Turn(left)
         \/ LeftIn(p.l) /\ ~LeftNarrows(p.l, newRight) /\ Turn(newRight)
            /\ (RightIn(p.r) => RightNarrows(p.r))
         \/ /\ RightIn(p.r) => RightNarrows(p.r)
            /\ LeftIn(p.l) => LeftNarrows(p.l, newRight)
            /\ right' = newRight /\ left' = newLeft
            /\ at' = at + 1
            /\ UNCHANGED <<apex, points, pulled>>
  BY DEF PullPortal
<1>2. /\ SoundCorridor(corridor) /\ FunnelShape /\ ApexShape /\ Polys \in Nat /\ at \in 1..Polys
      /\ left.pt \in Places /\ right.pt \in Places
      /\ a \in Places /\ apex.idx \in 1..Polys
  BY <1>1, PolysIsNat DEF PullInv, FunnelInv, FunnelShape, ApexShape, SideShape, Sides
<1>3. p.r \in Places /\ p.l \in Places
  BY <1>2, PortalPlaces
<1>4. Side(p.r, at).pt = p.r /\ Side(p.l, at).pt = p.l
  BY DEF Side
<1>5. newRight.pt \in Places /\ newLeft.pt \in Places
      /\ newRight.pt = (IF RightIn(p.r) THEN p.r ELSE right.pt)
      /\ newLeft.pt = (IF LeftIn(p.l) THEN p.l ELSE left.pt)
  BY <1>2, <1>3, <1>4
<1>6. /\ RightIn(p.r) <=> Cross(a, right.pt, p.r) >= 0
      /\ RightNarrows(p.r) <=> a = right.pt \/ Cross(a, p.r, left.pt) > 0
      /\ LeftIn(p.l) <=> Cross(a, p.l, left.pt) >= 0
      /\ LeftNarrows(p.l, newRight) <=> a = left.pt \/ Cross(a, newRight.pt, p.l) > 0
  BY <1>2, <1>3, <1>5, SidesSee
<1>7. newRight = SeenRight /\ newLeft = SeenLeft
  BY <1>6 DEF SeenRight, SeenLeft
<1>8. Cross(a, p.r, left.pt) \in Int /\ Cross(a, newRight.pt, p.l) \in Int
  BY <1>2, <1>3, <1>5, CrossInt
<1>9. Shut => RightNarrows(p.r) /\ LeftNarrows(p.l, newRight)
  BY <1>6 DEF Shut
<1>10. CASE RightIn(p.r) /\ ~RightNarrows(p.r) /\ Turn(left)
  <2>1. ~Shut /\ TurnsLeft
    BY <1>6, <1>8, <1>9, <1>10 DEF TurnsLeft
  <2>2. QED
    BY <1>1, <1>2, <1>3, <1>5, <1>7, <1>10, <2>1
<1>11. CASE /\ LeftIn(p.l) /\ ~LeftNarrows(p.l, newRight) /\ Turn(newRight)
            /\ RightIn(p.r) => RightNarrows(p.r)
  <2>1. ~Shut /\ TurnsRight
    BY <1>6, <1>7, <1>8, <1>9, <1>11 DEF TurnsRight
  <2>2. QED
    BY <1>1, <1>2, <1>3, <1>5, <1>7, <1>11, <2>1
<1>12. CASE /\ RightIn(p.r) => RightNarrows(p.r)
            /\ LeftIn(p.l) => LeftNarrows(p.l, newRight)
            /\ right' = newRight /\ left' = newLeft
            /\ at' = at + 1
            /\ UNCHANGED <<apex, points, pulled>>
  <2>1. Narrows(a, left.pt, right.pt, p.l, p.r, newLeft.pt, newRight.pt)
    BY <1>5, <1>6, <1>12 DEF Narrows
  <2>2. GoesAhead
    BY <1>7, <1>12, <2>1 DEF GoesAhead
  <2>3. QED
    BY <1>1, <1>2, <1>3, <1>5, <1>7, <2>2
<1>13. QED
  BY <1>1, <1>10, <1>11, <1>12

LEMMA ConePortal ==
  ASSUME PullInv, ConeInv, PlacedInv, PullPortal
  PROVE  ConeInv' /\ PlacedInv'
<1> USE DEF PortalPoints
<1> DEFINE a == apex.pt
           l == Portal(at).l
           r == Portal(at).r
           L == SeenLeft.pt
           R == SeenRight.pt
<1>1. /\ PortalPoints /\ FunnelShape /\ UNCHANGED <<corridor, lost, crossings, size>>
      /\ \/ ~Shut /\ TurnsLeft /\ Turn(left)
         \/ ~Shut /\ TurnsRight /\ Turn(SeenRight)
         \/ GoesAhead
  BY PortalCases
<1>2. SideShape(Side(r, at)) /\ OpenSide(Side(r, at)) /\ SideShape(Side(l, at))
  BY <1>1, NextSide DEF AtEnd
<1>3. SideShape(left) /\ SideShape(right) /\ (Shut \/ (OpenSide(left) /\ OpenSide(right)))
  BY <1>1 DEF PullInv, FunnelInv, FunnelShape
<1>4. /\ SideShape(SeenRight) /\ SideShape(SeenLeft) /\ (~Shut => OpenSide(SeenRight))
      /\ SeenRight \in {right, Side(r, at)} /\ SeenLeft \in {left, Side(l, at)}
      /\ Side(r, at).idx = at /\ Side(l, at).idx = at /\ Side(r, at).pt = r
  BY <1>2, <1>3 DEF SeenRight, SeenLeft, Side
<1>5. ~Shut => left.idx < at /\ right.idx < at /\ OpenAt(left.pt, right.pt, at - 1)
  BY <1>1 DEF ConeInv
<1>6. ASSUME ~Shut PROVE CrossesWell(left.idx, left.pt) /\ CrossesWell(right.idx, right.pt)
  <2>1. at - 1 \in 0..Polys
    BY <1>1
  <2>2. \A j \in Ahead(at - 1) : j \in 1..Polys /\ Passes(left.pt, j) /\ Passes(right.pt, j)
    BY <1>1, <1>5, <1>6 DEF OpenAt, Ahead
  <2>3. \A j \in Ahead(at - 1) : Parts(a, left.pt, Portal(j)) /\ Parts(a, right.pt, Portal(j))
    BY <1>1, <2>2, PassingParts
  <2>4. left.idx \in Int /\ right.idx \in Int /\ left.idx <= (at - 1) + 1 /\ right.idx <= (at - 1) + 1
    BY <1>1, <1>3, <1>5, <1>6 DEF SideShape, Sides
  <2>5. QED
    BY <1>1, <2>1, <2>3, <2>4, AheadIsCrossed
<1>7. CASE ~Shut /\ TurnsLeft /\ Turn(left)
  <2>1. PICK side : side = left
    OBVIOUS
  <2>2. SideShape(side) /\ FreshSide(side) /\ Last(points) <= side.idx /\ CrossesWell(side.idx, side.pt)
    BY <1>3, <1>6, <1>7, <2>1 DEF SideShape, OpenSide, FreshSide, AtEnd, Side, CrossesWell
  <2>3. Turn(side)
    BY <1>7, <2>1 DEF Turn
  <2>4. QED
    BY <1>1, <2>2, <2>3, ConeTurn
<1>8. CASE ~Shut /\ TurnsRight /\ Turn(SeenRight)
  <2>1. ASSUME SeenRight = Side(r, at), Cross(a, right.pt, r) >= 0 PROVE CrossesWell(at, r)
    <3>1. left.pt # a /\ (a = right.pt \/ Cross(a, r, left.pt) > 0)
      BY <1>8, <2>1 DEF TurnsRight
    <3>2. ASSUME NEW j \in Ahead(at - 1) PROVE j \in 1..Polys /\ Passes(r, j)
      BY <1>1, <1>5, <1>8, <2>1, <3>1, NextPasses DEF Ahead
    <3>3. at - 1 \in 0..Polys /\ at <= (at - 1) + 1 /\ at \in Int
      BY <1>1
    <3>4. \A j \in Ahead(at - 1) : Parts(a, r, Portal(j))
      BY <1>1, <3>2, PassingParts
    <3>5. QED
      BY <1>1, <3>3, <3>4, AheadIsCrossed
  <2>2. CrossesWell(SeenRight.idx, SeenRight.pt)
    BY <1>4, <1>6, <1>8, <2>1 DEF SeenRight
  <2>3. PICK side : side = SeenRight
    OBVIOUS
  <2>4. SideShape(side) /\ FreshSide(side) /\ Last(points) <= side.idx
    BY <1>4, <1>8, <2>3 DEF SideShape, OpenSide, FreshSide, AtEnd, Side
  <2>5. CrossesWell(side.idx, side.pt)
    BY <2>2, <2>3 DEF CrossesWell
  <2>6. Turn(side)
    BY <1>8, <2>3 DEF Turn
  <2>7. QED
    BY <1>1, <2>4, <2>5, <2>6, ConeTurn
<1>9. CASE GoesAhead
  <2>1. /\ Narrows(a, left.pt, right.pt, l, r, L, R)
        /\ left' = SeenLeft /\ right' = SeenRight /\ at' = at + 1 /\ UNCHANGED <<apex, points, pulled>>
    BY <1>9 DEF GoesAhead
  <2>2. /\ SeenLeft.idx <= at /\ SeenRight.idx <= at
        /\ IF L = a /\ R = a THEN ShutAt(at) ELSE OpenAt(L, R, at)
        /\ at = Polys => L = corridor.goal
    <3>1. CASE Shut
      <4>1. Narrows(a, a, a, l, r, L, R) /\ ShutAt(at - 1)
        BY <1>1, <2>1, <3>1 DEF Shut, ConeInv
      <4>2. at = 1 => ~OnPortal(a, Portal(1))
        BY <1>1 DEF StartsOnPortal, Portal
      <4>3. L = l /\ IF L = a /\ R = a THEN ShutAt(at) ELSE OpenAt(L, R, at)
        BY <1>1, <4>1, <4>2, ShutGoesOn
      <4>4. Cross(a, a, r) = 0 /\ Cross(a, l, a) = 0
        BY <1>1, CrossInt
      <4>5. SeenLeft.idx <= at /\ SeenRight.idx <= at
        BY <1>1, <1>4, <3>1, <4>4 DEF Shut, SeenLeft, SeenRight
      <4>6. at = Polys => l = corridor.goal
        BY <1>1 DEF Portal
      <4>7. QED
        BY <4>3, <4>5, <4>6
    <3>2. CASE ~Shut
      <4>1. OpenAt(L, R, at) /\ L # a /\ l # r
        BY <1>1, <1>5, <2>1, <3>2, OpenGoesOn
      <4>2. at # Polys
        BY <1>1, <4>1 DEF Portal
      <4>3. SeenLeft.idx <= at /\ SeenRight.idx <= at
        <5>1. left.idx \in Int /\ right.idx \in Int
          BY <1>3 DEF SideShape, Sides
        <5>2. QED
          BY <1>1, <1>4, <1>5, <3>2, <5>1
      <4>4. QED
        BY <4>1, <4>2, <4>3
    <3>3. QED
      BY <3>1, <3>2
  <2>3. at' - 1 = at /\ left'.idx < at' /\ right'.idx < at'
    <3>1. SeenLeft.idx \in Int /\ SeenRight.idx \in Int
      BY <1>4 DEF SideShape, Sides
    <3>2. QED
      BY <1>1, <2>1, <2>2, <3>1
  <2>4. PICK x, y, m : x = L /\ y = R /\ m = at
    OBVIOUS
  <2>5. (Shut' <=> x = a /\ y = a) /\ left'.pt = x /\ right'.pt = y
    BY <2>1, <2>4 DEF Shut
  <2>6. at' = Polys' + 1 <=> at = Polys
    BY <1>1, <2>1, PolysStay
  <2>7. ASSUME x = a, y = a PROVE ConeInv'
    <3>1. ShutAt(m)'
      BY <1>1, <2>1, <2>2, <2>4, <2>7, ShutStays
    <3>2. ShutAt(at - 1)'
      BY <2>3, <2>4, <3>1 DEF ShutAt, Ahead
    <3>3. QED
      BY <2>5, <2>7, <3>2 DEF ConeInv
  <2>8. ASSUME ~(x = a /\ y = a) PROVE ConeInv'
    <3>1. OpenAt(x, y, m)'
      BY <1>1, <2>1, <2>2, <2>4, <2>8, OpenStays
    <3>2. OpenAt(left.pt, right.pt, at - 1)'
      BY <2>3, <2>4, <2>5, <3>1 DEF OpenAt, Ahead, Passes, Ray, EndAtApex, Flat, ThroughApex
    <3>3. at' = Polys' + 1 => left'.pt = corridor'.goal
      BY <1>1, <2>2, <2>4, <2>5, <2>6
    <3>4. QED
      BY <2>3, <2>5, <2>8, <3>2, <3>3 DEF ConeInv
  <2>9. PlacedInv'
    <3>1. Placed(points)'
      BY <1>1, <2>1, PlacedStays DEF PlacedInv
    <3>2. QED
      BY <3>1 DEF PlacedInv
  <2>10. QED
    BY <2>7, <2>8, <2>9
<1>10. QED
  BY <1>1, <1>7, <1>8, <1>9

-----------------------------------------------------------------------------
(* The request                                                             *)

RequestInv ==
  /\ caller \in {"none", "calculate", "sliced"}
  /\ caller # "none" => result = NoResult
  /\ pulled.code = "none" <=> caller = "none"
  /\ reached \in BOOLEAN
  /\ type \subseteq {"normal", "incomplete", "nopath", "notusing"}
  /\ lastStatus \in [failed : BOOLEAN, flags : SUBSET {"param", "partial", "nodes", "small"}]
  /\ failStep \in {"none", "init", "startpoly", "endpoly", "update", "straight", "finalize"}
  /\ length \in Nat
  /\ caller = "calculate" =>
       /\ type \in {{"normal"}, {"incomplete"}}
       /\ type = {"normal"} => reached
       /\ lastStatus.flags \subseteq {"partial", "nodes", "small"}

PathIInv == PullInv /\ RequestInv

\* The string has its first point.
LEMMA BeginKeeps ==
  ASSUME NEW c \in Corridors, NEW n \in Sizes, NEW all \in BOOLEAN, NEW gone \in 0..PolyCount(c),
         PullBegin(c, n, all, gone)
  PROVE  PullInv'
<1> DEFINE v == Vertex(c.start, "start", 1)
           first == [pt |-> c.start, idx |-> 1, ref |-> 1, jump |-> FALSE]
           m == PolyCount(c)
<1>1. /\ corridor' = c /\ size' = n /\ crossings' = all /\ lost' = gone /\ at' = 1
      /\ apex' = [pt |-> c.start, idx |-> 1] /\ left' = first /\ right' = first
      /\ \/ points' = <<>> /\ pulled' = Status("failure", {"param"})
         \/ /\ points' = <<v>>
            /\ pulled' = IF n <= 1 THEN Status("success", {"small"}) ELSE Status("progress", {})
  BY DEF PullBegin
<1>2. SoundCorridor(c) /\ n \in Nat /\ n >= 1
  BY CorridorsAssumption, SizesAssumption
<1>3. /\ c.start \in Places /\ c.goal \in Places /\ c.portals \in Seq([l : Places, r : Places])
      /\ c.jumps \subseteq 2..m
  BY <1>2 DEF SoundCorridor
<1>4. m \in Nat /\ m >= 1 /\ Polys' = m
  <2>1. Len(c.portals) \in Nat
    BY <1>3
  <2>2. QED
    BY <1>1, <2>1 DEF PolyCount, Polys
<1> HIDE DEF m
<1>5. first \in Sides /\ first.idx = 1 /\ first.ref = 1 /\ first.pt = c.start
  BY <1>3 DEF Sides
<1>6. FunnelShape'
  <2>1. SoundCorridor(corridor)'
    BY <1>1, <1>2 DEF SoundCorridor
  <2>2. ApexShape'
    BY <1>1, <1>3, <1>4 DEF ApexShape
  <2>3. SideShape(left)' /\ SideShape(right)'
    <3> HIDE DEF first
    <3>1. apex'.idx = 1 /\ 1 \in 1..m /\ 1 \in 0..m
      BY <1>1, <1>4
    <3>2. QED
      BY <1>1, <1>4, <1>5, <3>1 DEF SideShape
  <2>4. lost' \in 0..Polys' /\ at' \in 1..(Polys' + 1) /\ size' \in Sizes /\ crossings' \in BOOLEAN
    BY <1>1, <1>4 DEF m
  <2>5. QED
    BY <2>1, <2>2, <2>3, <2>4 DEF FunnelShape
<1>7. v \in Vertices /\ v.pt = c.start /\ v.ref = 1 /\ v.flag = "start"
  BY <1>3, PlaceIsSpot DEF Vertex, Vertices, Flags
<1> HIDE DEF v, first
<1>8. ASSUME points' = <<v>>
      PROVE  GoodString(points)' /\ Last(points)' = 1 /\ LastPoint(points)' = v /\ Len(points') = 1
  <2>1. points' \in Strings /\ Len(points') = 1 /\ points'[1] = v /\ LastPoint(points)' = v
    BY <1>7, <1>8 DEF Strings, LastPoint
  <2>2. GoodVertex(points[1])'
    <3>1. points'[1].ref = 1 /\ points'[1].flag = "start" /\ points'[1].pt = c.start
      BY <1>7, <2>1
    <3>2. 1 \notin corridor'.jumps
      BY <1>1, <1>3
    <3>3. QED
      BY <1>1, <1>3, <1>4, <3>1, <3>2 DEF GoodVertex
  <2>3. SamePoint(points'[1].pt, corridor'.start)
    BY <1>1, <1>3, <1>7, <2>1, SamePlace
  <2>4. \A i \in 1..Len(points') : i = 1
    BY <2>1
  <2>5. (\A i \in 1..Len(points) : GoodVertex(points[i]))'
    BY <2>2, <2>4 DEF GoodVertex
  <2>6. InOrder(points)'
    BY <2>4 DEF InOrder
  <2>7. Last(points)' = 1
    BY <1>7, <2>1 DEF Last, Entered
  <2>8. QED
    BY <2>1, <2>3, <2>5, <2>6, <2>7 DEF GoodString
<1>9. FunnelInv'
  <2> SUFFICES ASSUME Pulling' PROVE FunnelInv'
    BY DEF FunnelInv
  <2>1. points' = <<v>> /\ n > 1
    BY <1>1, <1>2 DEF Pulling, Status
  <2>2. AtApex(points)'
    <3>1. SamePoint(LastPoint(points).pt, apex.pt)'
      BY <1>1, <1>3, <1>7, <1>8, <2>1, SamePlace
    <3>2. Last(points)' = 1 /\ apex'.idx = 1 /\ Len(points') < size'
      BY <1>1, <1>2, <1>8, <2>1
    <3>3. QED
      BY <1>8, <2>1, <3>1, <3>2 DEF AtApex
  <2>3. Shut'
    BY <1>1, <1>5 DEF Shut
  <2>4. QED
    BY <1>1, <1>8, <2>1, <2>2, <2>3 DEF FunnelInv
<1>10. PulledShape'
  <2>1. points' \in Seq(Vertices) /\ Len(points') \in 0..1
        /\ \A i \in 1..Len(points') : points'[i].ref = 1
    <3>1. CASE points' = <<>>
      BY <3>1
    <3>2. CASE points' = <<v>>
      BY <1>7, <3>2
    <3>3. QED
      BY <1>1, <3>1, <3>2
  <2>2. pulled' \in [code : {"none", "progress", "success", "failure"},
                     flags : SUBSET {"param", "partial", "small"}]
    BY <1>1 DEF Status
  <2>3. Len(points') <= size' + (IF lost' = 0 THEN 0 ELSE 1)
    BY <1>1, <1>2, <2>1
  <2>4. QED
    BY <1>4, <2>1, <2>2, <2>3 DEF PulledShape
<1>11. StringInv'
  <2> SUFFICES ASSUME pulled'.code = "success" PROVE StringInv'
    BY DEF StringInv
  <2>1. points' = <<v>> /\ pulled'.flags = {"small"}
    BY <1>1 DEF Status
  <2>2. QED
    BY <1>8, <2>1 DEF StringInv
<1>12. QED
  BY <1>6, <1>9, <1>10, <1>11 DEF PullInv

LEMMA PathInit == Init => PathIInv
<1> SUFFICES ASSUME Init PROVE PathIInv
  OBVIOUS
<1>1. /\ corridor = NoCorridorYet /\ points = <<>> /\ pulled.code = "none" /\ pulled.flags = {}
      /\ pulled \in [code : {"none", "progress", "success", "failure"},
                     flags : SUBSET {"param", "partial", "small"}]
  BY DEF Init, Status
<1>2. /\ NoCorridorYet.start = <<0, 0, 1>> /\ NoCorridorYet.goal = <<0, 0, 1>>
      /\ NoCorridorYet.portals = <<>> /\ NoCorridorYet.jumps = {} /\ <<0, 0, 1>> \in Places
  BY DEF NoCorridorYet, Places
<1>3. Polys = 1 /\ PolyCount(NoCorridorYet) = 1
  BY <1>1, <1>2 DEF Polys, PolyCount
<1>4. SoundCorridor(corridor)
  BY <1>1, <1>2, <1>3 DEF SoundCorridor
<1>5. FunnelShape
  <2>1. ApexShape
    BY <1>2, <1>3 DEF Init, NoApex, ApexShape
  <2>2. SideShape(left) /\ SideShape(right)
    <3>1. NoSide \in Sides /\ NoSide.idx = 1 /\ NoSide.ref = 0
      BY <1>2 DEF NoSide, Sides
    <3>2. apex.idx = 1
      BY DEF Init, NoApex
    <3>3. QED
      BY <1>3, <3>1, <3>2 DEF Init, SideShape
  <2>3. lost \in 0..Polys /\ at \in 1..(Polys + 1) /\ size \in Sizes \cup {1} /\ crossings \in BOOLEAN
    <3>1. lost = 0 /\ at = 1 /\ size = 1 /\ crossings = FALSE
      BY DEF Init
    <3>2. crossings \in BOOLEAN
      BY <3>1, Zenon
    <3>3. QED
      BY <1>3, <3>1, <3>2
  <2>4. QED
    BY <1>4, <2>1, <2>2, <2>3 DEF FunnelShape
<1>6. FunnelInv /\ StringInv
  BY <1>1 DEF FunnelInv, StringInv, Pulling
<1>7. PulledShape
  <2>1. points \in Seq(Vertices) /\ Len(points) = 0
    BY <1>1
  <2>2. size = 1 /\ lost = 0
    BY DEF Init
  <2>3. QED
    BY <1>1, <2>1, <2>2 DEF PulledShape
<1>8. RequestInv
  BY <1>1 DEF Init, RequestInv, Fine
<1>9. QED
  BY <1>1, <1>5, <1>6, <1>7, <1>8 DEF PathIInv, PullInv

\* The end of a call writes no part of the string, and there is no string that
\* is still being pulled.
LEMMA PullRests ==
  ASSUME PullInv, UNCHANGED <<corridor, lost, crossings, size, at, apex, left, right, points>>,
         pulled' = Status("none", {})
  PROVE  PullInv'
<1> USE DEF PullInv
<1>1. Polys' = Polys
  BY PolysStay
<1>2. FunnelShape'
  <2>1. ApexShape' /\ SideShape(left)' /\ SideShape(right)'
    BY <1>1 DEF FunnelShape, ApexShape, SideShape
  <2>2. QED
    BY <1>1, <2>1 DEF FunnelShape
<1>3. pulled'.code = "none" /\ pulled' \in [code : {"none", "progress", "success", "failure"},
                                            flags : SUBSET {"param", "partial", "small"}]
  BY DEF Status
<1>4. FunnelInv' /\ StringInv'
  BY <1>3 DEF FunnelInv, StringInv, Pulling
<1>5. PulledShape'
  BY <1>1, <1>3 DEF PulledShape
<1>6. QED
  BY <1>2, <1>4, <1>5

LEMMA PullStays == PullInv /\ UNCHANGED pullVars => PullInv'
<1> SUFFICES ASSUME PullInv, UNCHANGED pullVars PROVE PullInv'
  OBVIOUS
<1> USE DEF PullInv
<1>1. UNCHANGED <<corridor, lost, crossings, size, at, apex, left, right, points, pulled>>
  BY DEF pullVars
<1>2. Polys' = Polys
  BY <1>1, PolysStay
<1>3. FunnelShape'
  <2>1. ApexShape' /\ SideShape(left)' /\ SideShape(right)'
    BY <1>1, <1>2 DEF FunnelShape, ApexShape, SideShape
  <2>2. QED
    BY <1>1, <1>2, <2>1 DEF FunnelShape
<1>4. PulledShape'
  BY <1>1, <1>2 DEF PulledShape
<1>5. ASSUME GoodString(points) PROVE GoodString(points)' /\ Last(points)' = Last(points)
  BY <1>1, <1>5, GoodStays
<1>6. FunnelInv'
  <2> SUFFICES ASSUME Pulling' PROVE FunnelInv'
    BY DEF FunnelInv
  <2>1. AtApex(points) /\ Last(points) <= at /\ apex.idx <= at
        /\ (Shut \/ (OpenSide(left) /\ OpenSide(right)))
    BY <1>1 DEF FunnelInv, Pulling
  <2>2. GoodString(points)' /\ Last(points)' = Last(points)
    BY <1>5, <2>1 DEF AtApex
  <2>3. AtEnd(apex.pt, apex.idx)' <=> AtEnd(apex.pt, apex.idx)
    BY <1>1, PortalsStay DEF AtEnd
  <2>4. AtApex(points)'
    BY <1>1, <2>1, <2>2, <2>3 DEF AtApex, LastPoint
  <2>5. Shut => Shut'
    BY <1>1 DEF Shut
  <2>6. OpenSide(left) => OpenSide(left)'
    BY <1>1, <1>2, <2>2 DEF OpenSide, FreshSide, AtEnd, Portal, Side
  <2>7. OpenSide(right) => OpenSide(right)'
    BY <1>1, <1>2, <2>2 DEF OpenSide, FreshSide, AtEnd, Portal, Side
  <2>8. QED
    BY <1>1, <2>1, <2>2, <2>4, <2>5, <2>6, <2>7 DEF FunnelInv
<1>7. StringInv'
  <2> SUFFICES ASSUME pulled'.code = "success" PROVE StringInv'
    BY DEF StringInv
  <2>1. CASE "partial" \in pulled.flags
    BY <1>1, <2>1, CutStays DEF StringInv, LastPoint
  <2>2. CASE "partial" \notin pulled.flags
    BY <1>1, <1>5, <2>2 DEF StringInv, LastPoint
  <2>3. QED
    BY <2>1, <2>2
<1>8. QED
  BY <1>3, <1>4, <1>6, <1>7

LEMMA PullKeeps == PullInv /\ Pull => PullInv'
<1> SUFFICES ASSUME PullInv, Pull PROVE PullInv'
  OBVIOUS
<1>1. CASE PullSkip
  BY <1>1, SkipKeeps
<1>2. CASE PullPortal
  BY <1>2, PortalKeeps
<1>3. ASSUME NEW pt \in Clamped, PullLost(pt) PROVE PullInv'
  BY <1>3, LostKeeps
<1>4. CASE PullEnd
  BY <1>4, EndKeeps
<1>5. QED
  BY <1>1, <1>2, <1>3, <1>4 DEF Pull

LEMMA PullHasCode ==
  PathIInv /\ Pull => /\ pulled.code = "progress" /\ pulled'.code \in {"progress", "success"}
                      /\ corridor' = corridor
<1> SUFFICES ASSUME PathIInv, Pull
             PROVE  /\ pulled.code = "progress" /\ pulled'.code \in {"progress", "success"}
                    /\ corridor' = corridor
  OBVIOUS
<1> USE DEF Pulling, Status
<1>1. CASE PullSkip
  BY <1>1 DEF PullSkip
<1>2. CASE PullPortal
  BY <1>2 DEF PullPortal, Turn
<1>3. ASSUME NEW pt \in Clamped, PullLost(pt)
      PROVE  /\ pulled.code = "progress" /\ pulled'.code \in {"progress", "success"}
             /\ corridor' = corridor
  BY <1>3 DEF PullLost
<1>4. CASE PullEnd
  BY <1>4 DEF PullEnd
<1>5. QED
  BY <1>1, <1>2, <1>3, <1>4 DEF Pull

Types == {"normal", "incomplete", "nopath", "notusing"}
Details == [failed : BOOLEAN, flags : SUBSET {"param", "partial", "nodes", "small"}]
Steps == {"none", "init", "startpoly", "endpoly", "update", "straight", "finalize"}

\* A call that has ended leaves a type, a status and a step.
LEMMA CallIsOver ==
  ASSUME caller' = "none", pulled'.code = "none", reached' \in BOOLEAN, type' \subseteq Types,
         lastStatus' \in Details, failStep' \in Steps, length' \in Nat
  PROVE  RequestInv'
  BY DEF RequestInv, Types, Details, Steps

LEMMA ErrorIsOver ==
  ASSUME NEW t \in SUBSET Types, NEW flags \in SUBSET {"param", "partial", "small"}, NEW step \in Steps,
         ReturnError(t, flags, step), pulled'.code = "none", reached' \in BOOLEAN
  PROVE  RequestInv'
<1>1. /\ caller' = "none" /\ type' = t /\ lastStatus' = Failed(flags) /\ failStep' = step
      /\ length' = 0
  BY DEF ReturnError, Return
<1>2. Failed(flags) \in Details
  BY DEF Failed, Details
<1>3. QED
  BY <1>1, <1>2, CallIsOver

LEMMA CallKeeps == PathIInv /\ Call => PathIInv'
<1> SUFFICES ASSUME PathIInv, Call PROVE PathIInv'
  OBVIOUS
<1> USE DEF PathIInv
<1>1. caller = "none" /\ result = NoResult /\ pulled.code = "none"
  BY DEF Call, NoTile, NoPoly, SamePoly, NoCorridor, Calling, RequestInv
<1>2. UNCHANGED pullVars => PullInv' /\ pulled'.code = "none"
  <2> SUFFICES ASSUME UNCHANGED pullVars PROVE PullInv' /\ pulled'.code = "none"
    OBVIOUS
  <2>1. PullInv'
    BY PullStays
  <2>2. QED
    BY <1>1, <2>1 DEF pullVars
<1>3. CASE NoTile
  <2>1. PullInv' /\ pulled'.code = "none" /\ reached' \in BOOLEAN
    BY <1>2, <1>3 DEF NoTile
  <2>2. ReturnError({"normal", "notusing"}, {"param"}, "init")
    BY <1>3 DEF NoTile
  <2>3. RequestInv'
    BY <2>1, <2>2, ErrorIsOver DEF Types, Steps
  <2>4. QED
    BY <2>1, <2>3
<1>4. ASSUME NEW step \in {"startpoly", "endpoly"}, NoPoly(step) PROVE PathIInv'
  <2>1. PullInv' /\ pulled'.code = "none" /\ reached' \in BOOLEAN
    BY <1>2, <1>4 DEF NoPoly
  <2>2. ReturnError({"normal", "notusing"}, {"param"}, step)
    BY <1>4 DEF NoPoly
  <2>3. RequestInv'
    BY <2>1, <2>2, ErrorIsOver DEF Types, Steps
  <2>4. QED
    BY <2>1, <2>3
<1>5. ASSUME NEW far \in BOOLEAN, SamePoly(far) PROVE PathIInv'
  <2>1. PullInv' /\ pulled'.code = "none" /\ reached' \in BOOLEAN
    BY <1>2, <1>5 DEF SamePoly
  <2>2. /\ caller' = "none" /\ type' = IF far THEN {"incomplete"} ELSE {"normal"}
        /\ lastStatus' = Fine({}) /\ failStep' = "none" /\ length' = 2
    BY <1>5 DEF SamePoly, Return
  <2>3. Fine({}) \in Details /\ type' \subseteq Types
    BY <2>2 DEF Fine, Details, Types
  <2>4. RequestInv'
    BY <2>1, <2>2, <2>3, CallIsOver DEF Steps
  <2>5. QED
    BY <2>1, <2>4
<1>6. ASSUME NEW flags \in {{}, {"param"}}, NoCorridor(flags) PROVE PathIInv'
  <2>1. PullInv' /\ pulled'.code = "none" /\ reached' \in BOOLEAN
    BY <1>2, <1>6 DEF NoCorridor
  <2>2. ReturnError({"nopath"}, flags, "update")
    BY <1>6 DEF NoCorridor
  <2>3. RequestInv'
    BY <2>1, <2>2, ErrorIsOver DEF Types, Steps
  <2>4. QED
    BY <2>1, <2>3
<1>7. ASSUME NEW c \in Corridors, NEW n \in Sizes, NEW s \in Searches, NEW all \in BOOLEAN,
             FoundCorridor(c, s, n, all)
      PROVE  PathIInv'
  <2>1. /\ PullBegin(c, n, all, 0) /\ caller' = "calculate" /\ reached' = s.reached
        /\ type' = IF s.reached /\ ~s.far THEN {"normal"} ELSE {"incomplete"}
        /\ lastStatus' = Fine(s.flags) /\ failStep' = "none" /\ length' = 0 /\ result' = NoResult
    BY <1>7 DEF FoundCorridor
  <2>2. PullInv'
    <3>1. 0 \in 0..PolyCount(c)
      <4>1. c.portals \in Seq([l : Places, r : Places])
        BY CorridorsAssumption DEF SoundCorridor
      <4>2. Len(c.portals) \in Nat
        BY <4>1
      <4>3. QED
        BY <4>2 DEF PolyCount
    <3>2. QED
      BY <2>1, <3>1, BeginKeeps
  <2>3. s.reached \in BOOLEAN /\ s.far \in BOOLEAN /\ s.flags \subseteq {"partial", "nodes", "small"}
    BY SearchesAssumption DEF Searched
  <2>4. pulled'.code # "none"
    BY <2>1 DEF PullBegin, Status
  <2>5. /\ lastStatus'.flags = s.flags
        /\ lastStatus' \in [failed : BOOLEAN, flags : SUBSET {"param", "partial", "nodes", "small"}]
    BY <2>1, <2>3 DEF Fine
  <2>6. type' \in {{"normal"}, {"incomplete"}} /\ (type' = {"normal"} => reached')
        /\ type' \subseteq {"normal", "incomplete", "nopath", "notusing"}
    <3>1. CASE s.reached /\ ~s.far
      BY <2>1, <3>1
    <3>2. CASE ~(s.reached /\ ~s.far)
      <4>1. type' = {"incomplete"}
        BY <2>1, <3>2
      <4>2. {"incomplete"} # {"normal"}
        OBVIOUS
      <4>3. QED
        BY <4>1, <4>2
    <3>3. QED
      BY <3>1, <3>2
  <2>7. reached' \in BOOLEAN
    BY <2>1, <2>3, Zenon
  <2>8. RequestInv'
    BY <2>1, <2>3, <2>4, <2>5, <2>6, <2>7 DEF RequestInv
  <2>9. QED
    BY <2>2, <2>8
<1>8. ASSUME NEW c \in Corridors, NEW n \in Sizes, NEW gone \in 0..PolyCount(c), SlicedCorridor(c, n, gone)
      PROVE  PathIInv'
  <2>1. /\ PullBegin(c, n, TRUE, gone) /\ caller' = "sliced" /\ reached' = FALSE /\ type' = {}
        /\ lastStatus' = Fine({}) /\ failStep' = "none" /\ length' = 0 /\ result' = NoResult
    BY <1>8 DEF SlicedCorridor
  <2>2. PullInv'
    BY <2>1, BeginKeeps
  <2>3. pulled'.code # "none"
    BY <2>1 DEF PullBegin, Status
  <2>4. lastStatus' \in [failed : BOOLEAN, flags : SUBSET {"param", "partial", "nodes", "small"}]
    BY <2>1 DEF Fine
  <2>5. RequestInv'
    BY <2>1, <2>3, <2>4 DEF RequestInv
  <2>6. QED
    BY <2>2, <2>5
<1>9. QED
  BY <1>3, <1>4, <1>5, <1>6, <1>7, <1>8 DEF Call

\* Adding details to a status.
LEMMA FlagsOf ==
  ASSUME NEW no, NEW a, NEW b
  PROVE  LET f == [failed |-> no, flags |-> a]
         IN  [f EXCEPT !.flags = @ \cup b] = [failed |-> no, flags |-> a \cup b]
  OBVIOUS

LEMMA FineWith ==
  ASSUME NEW a, NEW b
  PROVE  [Fine(a) EXCEPT !.flags = @ \cup b] = Fine(a \cup b)
<1>1. PICK no : no = FALSE
  OBVIOUS
<1>2. PICK f : f = Fine(a)
  OBVIOUS
<1>3. f = [failed |-> no, flags |-> a]
  BY <1>1, <1>2, Zenon DEF Fine
<1>4. [f EXCEPT !.flags = @ \cup b] = [failed |-> no, flags |-> a \cup b]
  BY <1>3, FlagsOf
<1>5. Fine(a \cup b) = [failed |-> no, flags |-> a \cup b]
  BY <1>1, Zenon DEF Fine
<1>6. [Fine(a) EXCEPT !.flags = @ \cup b] = [f EXCEPT !.flags = @ \cup b]
  BY <1>2
<1>7. QED
  BY <1>4, <1>5, <1>6
\* What findStraightPath's result and the details of the search give.
LEMMA PointPathParts ==
  ASSUME PathIInv, PointPath
  PROVE  LET flags == pulled.flags \cup (lastStatus.flags \ {"param"})
             partial == IF "incomplete" \in type THEN {"partial"} ELSE {}
         IN  \/ pulled.code = "failure" /\ ReturnError({"nopath"}, pulled.flags, "straight")
             \/ Len(points) < 2 /\ ReturnError({"nopath"}, {"param"}, "straight")
             \/ /\ pulled.code = "success" /\ Len(points) >= 2
                /\ Return(type, Fine(flags \cup partial), "none", Len(points))
<1>1. ApplyDtStatus(pulled.flags) = Fine(pulled.flags \cup (lastStatus.flags \ {"param"}))
  BY DEF ApplyDtStatus
<1>2. Len(points) \in Nat
  BY DEF PathIInv, PullInv, PulledShape
<1>3. CASE pulled.code = "failure"
  BY <1>3 DEF PointPath
<1>4. CASE pulled.code # "failure" /\ Len(points) < 2
  BY <1>4 DEF PointPath
<1>5. CASE pulled.code # "failure" /\ ~(Len(points) < 2)
  <2> DEFINE flags == pulled.flags \cup (lastStatus.flags \ {"param"})
             partial == IF "incomplete" \in type THEN {"partial"} ELSE {}
  <2>1. Return(type, [Fine(flags) EXCEPT !.flags = @ \cup partial], "none", Len(points))
    BY <1>1, <1>5 DEF PointPath
  <2>2. [Fine(flags) EXCEPT !.flags = @ \cup partial] = Fine(flags \cup partial)
    BY FineWith
  <2>3. pulled.code = "success" /\ Len(points) >= 2
    BY <1>2, <1>5 DEF PointPath, Pulled
  <2> HIDE DEF flags, partial
  <2>4. Return(type, Fine(flags \cup partial), "none", Len(points))
    BY <2>1, <2>2
  <2>5. QED
    BY <2>3, <2>4 DEF flags, partial
<1>6. QED
  BY <1>3, <1>4, <1>5

LEMMA PointPathKeeps == PathIInv /\ PointPath => PathIInv'
<1> SUFFICES ASSUME PathIInv, PointPath PROVE PathIInv'
  OBVIOUS
<1> USE DEF PathIInv
<1>1. /\ caller = "calculate" /\ pulled' = Status("none", {}) /\ reached' = reached
      /\ UNCHANGED <<corridor, lost, crossings, size, at, apex, left, right, points>>
  BY DEF PointPath
<1>2. PullInv' /\ pulled'.code = "none"
  BY <1>1, PullRests DEF Status
<1>3. reached' \in BOOLEAN
  BY <1>1, Zenon DEF RequestInv
<1>4. pulled.flags \in SUBSET {"param", "partial", "small"} /\ Len(points) \in Nat
  BY DEF PullInv, PulledShape
<1>5. type \in {{"normal"}, {"incomplete"}} /\ lastStatus.flags \subseteq {"partial", "nodes", "small"}
  BY <1>1 DEF RequestInv
<1>6. ASSUME ReturnError({"nopath"}, pulled.flags, "straight") PROVE RequestInv'
  <2>1. PICK flags : flags = pulled.flags
    OBVIOUS
  <2>2. ReturnError({"nopath"}, flags, "straight") /\ flags \in SUBSET {"param", "partial", "small"}
    BY <1>4, <1>6, <2>1
  <2>3. QED
    BY <1>2, <1>3, <2>2, ErrorIsOver DEF Types, Steps
<1>7. ASSUME ReturnError({"nopath"}, {"param"}, "straight") PROVE RequestInv'
  BY <1>2, <1>3, <1>7, ErrorIsOver DEF Types, Steps
<1>8. ASSUME NEW flags \in SUBSET {"param", "partial", "nodes", "small"},
             Return(type, Fine(flags), "none", Len(points))
      PROVE  RequestInv'
  <2>1. /\ caller' = "none" /\ type' = type /\ lastStatus' = Fine(flags) /\ failStep' = "none"
        /\ length' = Len(points)
    BY <1>8 DEF Return
  <2>2. lastStatus' \in Details /\ type' \subseteq Types
    BY <1>5, <2>1 DEF Fine, Details, Types
  <2>3. QED
    BY <1>2, <1>3, <1>4, <2>1, <2>2, CallIsOver DEF Steps
<1>9. RequestInv'
  <2>1. PICK flags : flags = (pulled.flags \cup (lastStatus.flags \ {"param"}))
                               \cup IF "incomplete" \in type THEN {"partial"} ELSE {}
    OBVIOUS
  <2>2. flags \in SUBSET {"param", "partial", "nodes", "small"}
    BY <1>4, <1>5, <2>1
  <2>3. Return(type, Fine(flags), "none", Len(points)) => RequestInv'
    BY <1>8, <2>2
  <2>4. QED
    BY <1>6, <1>7, <2>1, <2>3, PointPathParts
<1>10. QED
  BY <1>2, <1>9

LEMMA SlicedPathKeeps == PathIInv /\ SlicedPath => PathIInv'
<1> SUFFICES ASSUME PathIInv, SlicedPath PROVE PathIInv'
  OBVIOUS
<1> USE DEF PathIInv
<1>1. /\ caller' = "none" /\ pulled' = Status("none", {})
      /\ UNCHANGED <<corridor, lost, crossings, size, at, apex, left, right, points>>
      /\ UNCHANGED <<reached, type, lastStatus, failStep>>
      /\ length' = IF pulled.code = "success" /\ Len(points) > 0 THEN Len(points) ELSE Polys
  BY DEF SlicedPath
<1>2. PullInv' /\ pulled'.code = "none"
  BY <1>1, PullRests DEF Status
<1>3. length' \in Nat
  <2>1. Len(points) \in Nat /\ Polys \in Nat
    BY PolysIsNat DEF PullInv, PulledShape, FunnelShape
  <2>2. QED
    BY <1>1, <2>1
<1>4. RequestInv'
  <2>1. reached' \in BOOLEAN
    BY <1>1, Zenon DEF RequestInv
  <2>2. type' \subseteq Types /\ lastStatus' \in Details /\ failStep' \in Steps
    BY <1>1 DEF RequestInv, Types, Details, Steps
  <2>3. QED
    BY <1>1, <1>2, <1>3, <2>1, <2>2, CallIsOver
<1>5. QED
  BY <1>2, <1>4

LEMMA PathNext == PathIInv /\ [Next]_vars => PathIInv'
<1> SUFFICES ASSUME PathIInv, [Next]_vars PROVE PathIInv'
  OBVIOUS
<1> USE DEF PathIInv
<1>1. CASE Call
  BY <1>1, CallKeeps
<1>2. CASE Pull
  <2>1. PullInv'
    BY <1>2, PullKeeps
  <2>2. UNCHANGED <<caller, reached, type, lastStatus, failStep, length, result>>
    BY <1>2 DEF Pull, requestVars
  <2>3. pulled.code # "none" /\ pulled'.code # "none"
    BY <1>2, PullHasCode
  <2>4. RequestInv'
    BY <2>2, <2>3 DEF RequestInv
  <2>5. QED
    BY <2>1, <2>4
<1>3. CASE PointPath
  BY <1>3, PointPathKeeps
<1>4. CASE SlicedPath
  BY <1>4, SlicedPathKeeps
<1>5. CASE Returned
  <2>1. Init'
    BY <1>5 DEF Returned, Init
  <2>2. (Init => PathIInv)'
    BY PathInit, PTL
  <2>3. QED
    BY <2>1, <2>2
<1>6. CASE UNCHANGED vars
  <2>1. UNCHANGED pullVars
    BY <1>6 DEF vars
  <2>2. UNCHANGED <<caller, reached, type, lastStatus, failStep, length, result, pulled>>
    BY <1>6 DEF vars, pullVars, requestVars
  <2>3. RequestInv'
    BY <2>2 DEF RequestInv
  <2>4. QED
    BY <2>1, <2>3, PullStays
<1>7. QED
  BY <1>1, <1>2, <1>3, <1>4, <1>5, <1>6 DEF Next

LEMMA PathInvariant == Spec => []PathIInv
  BY PathInit, PathNext, PTL DEF Spec

\* Nothing but itself is on a portal that is a point.
LEMMA OnlyPlace ==
  ASSUME NEW p \in Places, NEW portal \in [l : Places, r : Places], portal.l = portal.r, OnPortal(p, portal)
  PROVE  p = portal.l
<1> DEFINE g == portal.l
<1>1. /\ p[1] \in Int /\ p[2] \in Int /\ p[3] = 1 /\ g \in Places
      /\ g[1] \in Int /\ g[2] \in Int /\ g[3] = 1
  BY PlaceIsSpot
<1>2. Diff(g, p, 1) * Diff(p, g, 1) >= 0 /\ Diff(g, p, 2) * Diff(p, g, 2) >= 0
  BY DEF OnPortal, Between
<1>3. /\ Diff(g, p, 1) = p[1] - g[1] /\ Diff(p, g, 1) = g[1] - p[1]
      /\ Diff(g, p, 2) = p[2] - g[2] /\ Diff(p, g, 2) = g[2] - p[2]
  BY <1>1 DEF Diff
<1>4. \A x, y \in Int : (x - y) * (y - x) >= 0 => x = y
  OBVIOUS
<1>5. p[1] = g[1] /\ p[2] = g[2]
  BY <1>1, <1>2, <1>3, <1>4
<1>6. SamePoint(p, g)
  BY <1>1, <1>5 DEF SamePoint
<1>7. QED
  BY <1>1, <1>6, SamePlace

LEMMA ConeEnd ==
  ASSUME PullInv, ConeInv, PlacedInv, PullEnd
  PROVE  ConeInv' /\ PlacedInv'
<1> DEFINE g == corridor.goal
           s == IF Polys = 1 THEN points ELSE WithCrossings(apex.idx, Polys, g)
           v == Vertex(g, "end", 0)
           t == IF IsFull(s) THEN s ELSE AppendVertex(s, v)
           flags == IF IsFull(t) THEN {"small"} ELSE {}
<1>1. /\ Pulling
      /\ at > Polys \/ Polys = 1
      /\ points' = t /\ pulled' = Status("success", flags)
      /\ UNCHANGED <<corridor, lost, crossings, size, at, apex, left, right>>
  BY DEF PullEnd
<1>2. /\ Polys \in Nat /\ Polys >= 1 /\ at \in 1..(Polys + 1) /\ size \in Nat
      /\ SoundCorridor(corridor) /\ ApexShape /\ apex \in [pt : Places, idx : 1..Polys] /\ g \in Places
      /\ Last(points) <= at /\ AtApex(points) /\ left.pt \in Places /\ right.pt \in Places
  BY <1>1, PolysIsNat, SizeIsNat
     DEF PullInv, FunnelShape, ApexShape, FunnelInv, SoundCorridor, SideShape, Sides
<1>3. points \in Strings /\ Placed(points)
  BY <1>1, <1>2 DEF PlacedInv, AtApex, GoodString
<1>4. v \in Vertices /\ v.ref \in 0..Polys /\ IsPlaced(v)
  <2>1. g \in Spots
    BY <1>2, PlaceIsSpot
  <2>2. v \in Vertices /\ v.ref = 0
    BY <2>1 DEF Vertices, Vertex, Flags
  <2> HIDE DEF v
  <2>3. QED
    BY <1>2, <2>2 DEF IsPlaced
<1>5. ASSUME Polys # 1 PROVE CrossesWell(Polys, g)
  <2>1. at = Polys + 1 /\ at - 1 = Polys /\ Polys \in 1..Polys /\ Polys > 0
    BY <1>1, <1>2, <1>5
  <2>2. Portal(Polys).l = g /\ Portal(Polys).r = g
    BY <1>2 DEF Portal
  <2>3. CASE Shut
    <3>1. ShutAt(Polys)
      BY <1>1, <2>1, <2>3 DEF ConeInv
    <3>2. OnPortal(apex.pt, Portal(Polys))
      BY <2>1, <3>1 DEF ShutAt
    <3>3. apex.pt = g
      BY <1>2, <2>1, <2>2, <3>2, PortalPlaces, OnlyPlace
    <3>4. QED
      BY <3>3 DEF CrossesWell
  <2>4. CASE ~Shut
    <3>1. OpenAt(g, right.pt, Polys)
      BY <1>1, <2>1, <2>4 DEF ConeInv
    <3>2. \A j \in Ahead(Polys) : j \in 1..Polys /\ Passes(g, j)
      BY <1>2, <3>1 DEF OpenAt, Ahead
    <3>3. \A j \in Ahead(Polys) : Parts(apex.pt, g, Portal(j))
      BY <1>2, <3>2, PassingParts
    <3>4. Polys \in 0..Polys /\ Polys \in Int /\ Polys <= Polys + 1
      BY <1>2
    <3>5. QED
      BY <1>2, <3>3, <3>4, AheadIsCrossed
  <2>5. QED
    BY <2>3, <2>4
<1>6. s \in Strings /\ Placed(s)
  <2>1. CASE Polys = 1
    BY <1>3, <2>1
  <2>2. CASE Polys # 1
    <3>1. Polys \in apex.idx..Polys
      BY <1>2
    <3>2. QED
      BY <1>2, <1>3, <1>5, <2>2, <3>1, WithCrossingsPlaced
  <2>3. QED
    BY <2>1, <2>2
<1> HIDE DEF s, v
<1>7. Placed(t)
  <2>1. CASE IsFull(s)
    BY <1>6, <2>1
  <2>2. CASE ~IsFull(s)
    BY <1>2, <1>4, <1>6, <2>2, AppendPlaced
  <2>3. QED
    BY <2>1, <2>2
<1> HIDE DEF t
<1>8. Placed(points)'
  BY <1>1, <1>7, PlacedStays
<1>9. QED
  BY <1>1, <1>8 DEF ConeInv, PlacedInv, Pulling, Status

\* A call begins at the start, before the first portal.
LEMMA ConeBegin ==
  ASSUME NEW c \in Corridors, NEW n \in Sizes, NEW all \in BOOLEAN, NEW gone \in 0..PolyCount(c),
         PullBegin(c, n, all, gone)
  PROVE  ConeInv' /\ PlacedInv'
<1> DEFINE v == Vertex(c.start, "start", 1)
<1>1. /\ corridor' = c /\ at' = 1 /\ apex' = [pt |-> c.start, idx |-> 1]
      /\ left'.pt = c.start /\ right'.pt = c.start
      /\ \/ points' = <<>> /\ pulled'.code = "failure"
         \/ points' = <<v>>
  BY DEF PullBegin, Status
<1>2. Shut'
  BY <1>1 DEF Shut
<1>3. at' - 1 = 0 /\ apex'.idx = 1
  BY <1>1
<1>4. Ahead(0)' = {}
  BY <1>3 DEF Ahead
<1>5. ShutAt(0)'
  BY <1>1, <1>4 DEF ShutAt
<1>6. ShutAt(at - 1)'
  BY <1>3, <1>5 DEF ShutAt, Ahead
<1>7. ConeInv'
  BY <1>2, <1>6 DEF ConeInv
<1>8. PlacedInv'
  <2>1. v.ref = 1
    BY DEF Vertex
  <2> HIDE DEF v
  <2>2. points' = <<v>> => \A i \in 1..Len(points') : points'[i].ref = 1
    BY <2>1
  <2>3. points' = <<v>> => Placed(points)'
    BY <2>2 DEF Placed, IsPlaced
  <2>4. QED
    BY <1>1, <2>3 DEF PlacedInv, Pulling
<1>9. QED
  BY <1>7, <1>8

\* Whatever else there is leaves the string alone or drops it.
LEMMA ConeRests ==
  ASSUME ConeInv, PlacedInv,
         \/ pulled'.code = "none"
         \/ UNCHANGED pullVars
  PROVE  ConeInv' /\ PlacedInv'
<1>1. CASE pulled'.code = "none"
  BY <1>1 DEF ConeInv, PlacedInv, Pulling
<1>2. CASE UNCHANGED pullVars
  <2>1. UNCHANGED <<corridor, at, apex, left, right, points, pulled>>
    BY <1>2 DEF pullVars
  <2>2. Polys' = Polys /\ (Shut' <=> Shut)
    BY <2>1, PolysStay DEF Shut
  <2>3. PlacedInv'
    <3>1. Placed(points) => Placed(points)'
      BY <2>1, PlacedStays
    <3>2. QED
      BY <2>1, <3>1 DEF PlacedInv, Pulling
  <2>4. ConeInv'
    <3> SUFFICES ASSUME Pulling' PROVE ConeInv'
      BY DEF ConeInv
    <3>1. Pulling
      BY <2>1 DEF Pulling
    <3>2. CASE Shut
      <4>1. PICK m : m = at - 1
        OBVIOUS
      <4>2. ShutAt(m)
        BY <3>1, <3>2, <4>1 DEF ConeInv
      <4>3. ShutAt(m)'
        BY <2>1, <4>2, ShutStays
      <4>4. ShutAt(at - 1)'
        BY <2>1, <4>1, <4>3 DEF ShutAt, Ahead
      <4>5. QED
        BY <2>2, <3>2, <4>4 DEF ConeInv
    <3>3. CASE ~Shut
      <4>1. PICK m, L, R : m = at - 1 /\ L = left.pt /\ R = right.pt
        OBVIOUS
      <4>2. OpenAt(L, R, m)
        BY <3>1, <3>3, <4>1 DEF ConeInv
      <4>3. OpenAt(L, R, m)'
        BY <2>1, <4>2, OpenStays
      <4>4. OpenAt(left.pt, right.pt, at - 1)'
        BY <2>1, <4>1, <4>3 DEF OpenAt, Ahead, Passes, Ray, EndAtApex, Flat, ThroughApex
      <4>5. left.idx < at /\ right.idx < at /\ (at = Polys + 1 => left.pt = corridor.goal)
        BY <3>1, <3>3 DEF ConeInv
      <4>6. QED
        BY <2>1, <2>2, <3>3, <4>4, <4>5 DEF ConeInv
    <3>4. QED
      BY <3>2, <3>3
  <2>5. QED
    BY <2>3, <2>4
<1>3. QED
  BY <1>1, <1>2

LEMMA ConeNext == PathIInv /\ ConeInv /\ PlacedInv /\ [Next]_vars => ConeInv' /\ PlacedInv'
<1> SUFFICES ASSUME PathIInv, ConeInv, PlacedInv, [Next]_vars PROVE ConeInv' /\ PlacedInv'
  OBVIOUS
<1> USE DEF PathIInv
<1>1. ASSUME UNCHANGED pullVars \/ pulled'.code = "none" PROVE ConeInv' /\ PlacedInv'
  BY <1>1, ConeRests
<1>2. CASE Call
  <2>1. ASSUME NEW c \in Corridors, NEW n \in Sizes, NEW s \in Searches, NEW all \in BOOLEAN,
               FoundCorridor(c, s, n, all)
        PROVE  ConeInv' /\ PlacedInv'
    <3>1. 0 \in 0..PolyCount(c)
      <4>1. c.portals \in Seq([l : Places, r : Places])
        BY CorridorsAssumption DEF SoundCorridor
      <4>2. Len(c.portals) \in Nat
        BY <4>1
      <4>3. QED
        BY <4>2 DEF PolyCount
    <3>2. QED
      BY <2>1, <3>1, ConeBegin DEF FoundCorridor
  <2>2. ASSUME NEW c \in Corridors, NEW n \in Sizes, NEW gone \in 0..PolyCount(c), SlicedCorridor(c, n, gone)
        PROVE  ConeInv' /\ PlacedInv'
    BY <2>2, ConeBegin DEF SlicedCorridor
  <2>3. NoTile \/ (\E step \in {"startpoly", "endpoly"} : NoPoly(step))
          \/ (\E far \in BOOLEAN : SamePoly(far)) \/ (\E flags \in {{}, {"param"}} : NoCorridor(flags))
          => UNCHANGED pullVars
    BY DEF NoTile, NoPoly, SamePoly, NoCorridor
  <2>4. QED
    BY <1>1, <1>2, <2>1, <2>2, <2>3 DEF Call
<1>3. CASE Pull
  <2>1. CASE PullSkip
    BY <2>1, ConeSkip
  <2>2. CASE PullPortal
    BY <2>2, ConePortal
  <2>3. ASSUME NEW pt \in Clamped, PullLost(pt) PROVE ConeInv' /\ PlacedInv'
    <3>1. pulled'.code = "success" /\ "partial" \in pulled'.flags
      BY <2>3 DEF PullLost, Status
    <3>2. QED
      BY <3>1 DEF ConeInv, PlacedInv, Pulling
  <2>4. CASE PullEnd
    BY <2>4, ConeEnd
  <2>5. QED
    BY <1>3, <2>1, <2>2, <2>3, <2>4 DEF Pull
<1>4. CASE PointPath \/ SlicedPath
  BY <1>1, <1>4 DEF PointPath, SlicedPath, Status
<1>5. CASE Returned
  <2>1. pulled'.code = "none"
    BY <1>5 DEF Returned, Status
  <2>2. QED
    BY <1>1, <2>1
<1>6. CASE UNCHANGED vars
  BY <1>1, <1>6 DEF vars
<1>7. QED
  BY <1>2, <1>3, <1>4, <1>5, <1>6 DEF Next

LEMMA ConeInvariant == Spec => [](ConeInv /\ PlacedInv)
<1>1. Init => ConeInv /\ PlacedInv
  BY DEF Init, ConeInv, PlacedInv, Pulling, Status
<1>2. QED
  BY <1>1, ConeNext, PathInvariant, PTL DEF Spec
-----------------------------------------------------------------------------
(* Places, crossings and the line between two places                       *)

\* Linear in each of three points, and zero where they are on one line.
Det(p, q, n) ==
  p[1] * (q[2] * n[3] - q[3] * n[2]) - p[2] * (q[1] * n[3] - q[3] * n[1])
    + p[3] * (q[1] * n[2] - q[2] * n[1])

\* The coordinates of a spot are whole numbers over a positive one.
LEMMA SpotParts ==
  ASSUME NEW p \in Spots
  PROVE  p[1] \in Int /\ p[2] \in Int /\ p[3] \in Int /\ p[3] > 0
  BY DEF Spots

\* Turning the three points round leaves it alone, and swapping two changes its sign.
LEMMA DetInt ==
  ASSUME NEW p \in Spots, NEW q \in Spots, NEW n \in Spots
  PROVE  /\ Det(p, q, n) \in Int
         /\ Det(q, n, p) = Det(p, q, n) /\ Det(n, p, q) = Det(p, q, n)
         /\ Det(p, p, q) = 0 /\ Det(p, q, q) = 0 /\ Det(p, q, p) = 0
<1>1. /\ p[1] \in Int /\ p[2] \in Int /\ p[3] \in Int /\ q[1] \in Int /\ q[2] \in Int /\ q[3] \in Int
      /\ n[1] \in Int /\ n[2] \in Int /\ n[3] \in Int
  BY SpotParts
<1>2. Det(p, q, n) \in Int
  BY <1>1 DEF Det
<1>3. Det(q, n, p) = Det(p, q, n) /\ Det(n, p, q) = Det(p, q, n)
  BY <1>1 DEF Det
<1>4. Det(p, p, q) = 0 /\ Det(p, q, q) = 0 /\ Det(p, q, p) = 0
  BY <1>1 DEF Det
<1>5. QED
  BY <1>2, <1>3, <1>4

\* Its sign is the opposite of that of the area.
LEMMA AreaIsDet ==
  ASSUME NEW p \in Spots, NEW q \in Spots, NEW n \in Spots
  PROVE  (Area(p, q, n) > 0 <=> Det(p, q, n) < 0) /\ (Area(p, q, n) < 0 <=> Det(p, q, n) > 0)
<1>1. /\ p[1] \in Int /\ p[2] \in Int /\ p[3] \in Int /\ q[1] \in Int /\ q[2] \in Int /\ q[3] \in Int
      /\ n[1] \in Int /\ n[2] \in Int /\ n[3] \in Int /\ p[3] > 0
  BY SpotParts
<1>2. Area(p, q, n) = -(p[3] * Det(p, q, n))
  BY <1>1 DEF Area, Diff, Det
<1>3. Det(p, q, n) \in Int
  BY DetInt
<1>4. \A c, d \in Int : c > 0 => (-(c * d) > 0 <=> d < 0) /\ (-(c * d) < 0 <=> d > 0)
  OBVIOUS
<1>5. QED
  BY <1>1, <1>2, <1>3, <1>4

\* For places it is the cross product.
LEMMA DetIsCross ==
  ASSUME NEW a \in Places, NEW p \in Places, NEW q \in Places
  PROVE  Det(a, p, q) = Cross(a, p, q)
<1>1. /\ a[1] \in Int /\ a[2] \in Int /\ a[3] = 1 /\ p[1] \in Int /\ p[2] \in Int /\ p[3] = 1
      /\ q[1] \in Int /\ q[2] \in Int /\ q[3] = 1
  BY PlaceIsSpot
<1>2. QED
  BY <1>1 DEF Det, Cross

\* Point c is on the line from a to x: a mean of the two.
IsOn(c, a, x, w, u, v) ==
  w > 0 /\ w * c[1] = u * a[1] + v * x[1] /\ w * c[2] = u * a[2] + v * x[2] /\ w * c[3] = u * a[3] + v * x[3]

OnLine(c, a, x) == \E w, u, v \in Nat : IsOn(c, a, x, w, u, v)

\* So is whatever is linear in it.
Linear(c, a, x, w, u, v) ==
  \A q, n \in Spots : w * Det(c, q, n) = u * Det(a, q, n) + v * Det(x, q, n)

\* A point on a line is linear in the two that span it.
LEMMA DetIsLinear ==
  ASSUME NEW c \in Spots, NEW a \in Spots, NEW x \in Spots,
         NEW w \in Nat, NEW u \in Nat, NEW v \in Nat, IsOn(c, a, x, w, u, v)
  PROVE  Linear(c, a, x, w, u, v)
<1> SUFFICES ASSUME NEW q \in Spots, NEW n \in Spots
             PROVE  w * Det(c, q, n) = u * Det(a, q, n) + v * Det(x, q, n)
  BY DEF Linear
<1> DEFINE X == q[2] * n[3] - q[3] * n[2]
           Y == q[1] * n[3] - q[3] * n[1]
           Z == q[1] * n[2] - q[2] * n[1]
<1>1. /\ c[1] \in Int /\ c[2] \in Int /\ c[3] \in Int /\ a[1] \in Int /\ a[2] \in Int /\ a[3] \in Int
      /\ x[1] \in Int /\ x[2] \in Int /\ x[3] \in Int
      /\ X \in Int /\ Y \in Int /\ Z \in Int
  BY SpotParts
<1>2. /\ Det(c, q, n) = c[1] * X - c[2] * Y + c[3] * Z
      /\ Det(a, q, n) = a[1] * X - a[2] * Y + a[3] * Z
      /\ Det(x, q, n) = x[1] * X - x[2] * Y + x[3] * Z
  BY DEF Det
<1> HIDE DEF X, Y, Z
<1>3. w * (c[1] * X - c[2] * Y + c[3] * Z) = (w * c[1]) * X - (w * c[2]) * Y + (w * c[3]) * Z
  BY <1>1
<1>4. (w * c[1]) * X - (w * c[2]) * Y + (w * c[3]) * Z =
        (u * a[1] + v * x[1]) * X - (u * a[2] + v * x[2]) * Y + (u * a[3] + v * x[3]) * Z
  BY DEF IsOn
<1>5. (u * a[1] + v * x[1]) * X - (u * a[2] + v * x[2]) * Y + (u * a[3] + v * x[3]) * Z =
        u * (a[1] * X - a[2] * Y + a[3] * Z) + v * (x[1] * X - x[2] * Y + x[3] * Z)
  BY <1>1
<1>6. QED
  BY <1>2, <1>3, <1>4, <1>5

\* Three points of one line.
LEMMA OneLine ==
  ASSUME NEW a \in Spots, NEW x \in Spots, NEW p \in Spots, NEW q \in Spots, NEW n \in Spots,
         OnLine(p, a, x), OnLine(q, a, x), OnLine(n, a, x)
  PROVE  Det(p, q, n) = 0
<1>1. \A w, y \in Int : w > 0 /\ w * y = 0 => y = 0
  OBVIOUS
<1>2. ASSUME NEW c \in Spots, OnLine(c, a, x), NEW b \in Spots, NEW d \in Spots,
             Det(a, b, d) = 0, Det(x, b, d) = 0
      PROVE  Det(c, b, d) = 0
  <2>1. PICK w \in Nat, u \in Nat, v \in Nat : IsOn(c, a, x, w, u, v)
    BY <1>2 DEF OnLine
  <2>2. w * Det(c, b, d) = u * Det(a, b, d) + v * Det(x, b, d)
    <3>1. Linear(c, a, x, w, u, v)
      BY <2>1, DetIsLinear
    <3>2. QED
      BY <3>1 DEF Linear
  <2>3. w * Det(c, b, d) = 0 /\ w > 0 /\ Det(c, b, d) \in Int
    BY <1>2, <2>1, <2>2, DetInt DEF IsOn
  <2>4. QED
    BY <1>1, <2>3
<1>3. ASSUME NEW c \in Spots, OnLine(c, a, x)
      PROVE  Det(a, c, x) = 0 /\ Det(x, c, a) = 0
  <2>1. Det(c, x, a) = 0 /\ Det(c, a, x) = 0
    BY <1>2, <1>3, DetInt
  <2>2. QED
    BY <2>1, DetInt
<1>4. Det(q, n, a) = 0 /\ Det(q, n, x) = 0
  <2>1. Det(a, n, a) = 0 /\ Det(x, n, a) = 0 /\ Det(a, n, x) = 0 /\ Det(x, n, x) = 0
    BY <1>3, DetInt
  <2>2. QED
    BY <1>2, <2>1
<1>5. Det(a, q, n) = 0 /\ Det(x, q, n) = 0
  BY <1>4, DetInt
<1>6. QED
  BY <1>2, <1>5

\* The string comes to a place q along the line from a, and goes on towards x:
\* it bends as a, q and x do.
LEMMA LineBends ==
  ASSUME NEW a \in Places, NEW q \in Places, NEW x \in Places,
         NEW p \in Spots, OnLine(p, a, q), ~SamePoint(p, q),
         NEW r \in Spots, SamePoint(r, q), NEW n \in Spots, OnLine(n, q, x)
  PROVE  /\ Area(p, r, n) > 0 => Cross(a, q, x) < 0
         /\ Area(p, r, n) < 0 => Cross(a, q, x) > 0
<1>1. a \in Spots /\ q \in Spots /\ x \in Spots /\ q[3] = 1 /\ a[3] = 1
  BY PlaceIsSpot
<1>2. PICK w \in Nat, u \in Nat, v \in Nat : IsOn(p, a, q, w, u, v)
  BY DEF OnLine
<1>3. PICK w1 \in Nat, u1 \in Nat, v1 \in Nat : IsOn(n, q, x, w1, u1, v1)
  BY DEF OnLine
<1>4. /\ q[1] \in Int /\ q[2] \in Int /\ p[1] \in Int /\ p[2] \in Int /\ p[3] \in Int
      /\ r[1] \in Int /\ r[2] \in Int /\ r[3] \in Int /\ r[3] > 0
      /\ a[1] \in Int /\ a[2] \in Int
  BY <1>1, SpotParts
<1>5. u > 0
  <2> SUFFICES ASSUME u = 0 PROVE FALSE
    OBVIOUS
  <2>1. w > 0 /\ w * p[1] = v * q[1] /\ w * p[2] = v * q[2] /\ w * p[3] = v
    BY <1>1, <1>2, <1>4 DEF IsOn
  <2>2. w * p[1] = w * (q[1] * p[3]) /\ w * p[2] = w * (q[2] * p[3])
    <3>1. v * q[1] = (w * p[3]) * q[1] /\ v * q[2] = (w * p[3]) * q[2]
      BY <2>1
    <3>2. (w * p[3]) * q[1] = w * (q[1] * p[3]) /\ (w * p[3]) * q[2] = w * (q[2] * p[3])
      BY <1>4
    <3>3. QED
      BY <2>1, <3>1, <3>2
  <2>3. \A c, d, e \in Int : c > 0 /\ c * d = c * e => d = e
    OBVIOUS
  <2>4. p[1] \in Int /\ q[1] * p[3] \in Int /\ p[2] \in Int /\ q[2] * p[3] \in Int /\ w \in Int
    BY <1>4
  <2>5. p[1] = q[1] * p[3] /\ p[2] = q[2] * p[3]
    BY <2>1, <2>2, <2>3, <2>4
  <2>6. QED
    BY <1>1, <1>4, <2>5 DEF SamePoint
<1>6. IsOn(r, q, q, 1, r[3], 0)
  BY <1>1, <1>4 DEF IsOn, SamePoint
<1>7. r[3] \in Nat /\ 1 \in Nat /\ 0 \in Nat
  BY <1>4
<1>8. Linear(n, q, x, w1, u1, v1) /\ Linear(r, q, q, 1, r[3], 0) /\ Linear(p, a, q, w, u, v)
  BY <1>1, <1>2, <1>3, <1>6, <1>7, DetIsLinear
<1>9. w1 * Det(p, r, n) = v1 * Det(p, r, x)
  <2>1. w1 * Det(n, p, r) = u1 * Det(q, p, r) + v1 * Det(x, p, r)
    BY <1>1, <1>8 DEF Linear
  <2>2. 1 * Det(r, q, p) = r[3] * Det(q, q, p) + 0 * Det(q, q, p)
    BY <1>1, <1>8 DEF Linear
  <2>3. Det(r, q, p) = 0
    <3>1. Det(q, q, p) = 0 /\ Det(r, q, p) \in Int
      BY <1>1, DetInt
    <3>2. QED
      BY <1>4, <2>2, <3>1
  <2>4. Det(n, p, r) = Det(p, r, n) /\ Det(q, p, r) = Det(r, q, p) /\ Det(x, p, r) = Det(p, r, x)
        /\ Det(p, r, x) \in Int
    BY <1>1, DetInt
  <2>5. QED
    BY <2>1, <2>3, <2>4
<1>10. w * Det(p, r, x) = u * (r[3] * Cross(a, q, x))
  <2>1. w * Det(p, r, x) = u * Det(a, r, x) + v * Det(q, r, x)
    BY <1>1, <1>8 DEF Linear
  <2>2. /\ 1 * Det(r, x, a) = r[3] * Det(q, x, a) + 0 * Det(q, x, a)
        /\ 1 * Det(r, x, q) = r[3] * Det(q, x, q) + 0 * Det(q, x, q)
    BY <1>1, <1>8 DEF Linear
  <2>3. /\ Det(r, x, a) = Det(a, r, x) /\ Det(q, x, a) = Det(a, q, x) /\ Det(r, x, q) = Det(q, r, x)
        /\ Det(q, x, q) = 0 /\ Det(a, r, x) \in Int /\ Det(a, q, x) \in Int /\ Det(q, r, x) \in Int
    BY <1>1, DetInt
  <2>4. Det(a, q, x) = Cross(a, q, x)
    BY DetIsCross
  <2>5. Det(a, r, x) = r[3] * Cross(a, q, x) /\ Det(q, r, x) = 0
    BY <1>4, <2>2, <2>3, <2>4
  <2>6. \A y, z \in Int : u * y + v * 0 = u * y
    OBVIOUS
  <2>7. r[3] * Cross(a, q, x) \in Int
    BY <1>4, CrossInt
  <2>8. QED
    BY <2>1, <2>5, <2>6, <2>7
<1>11. /\ Det(p, r, n) \in Int /\ Det(p, r, x) \in Int /\ Cross(a, q, x) \in Int
       /\ w > 0 /\ w1 > 0 /\ r[3] * Cross(a, q, x) \in Int
  BY <1>1, <1>2, <1>3, <1>4, DetInt, CrossInt DEF IsOn
<1>12. \A c, d \in Int : c > 0 => (c * d > 0 <=> d > 0) /\ (c * d < 0 <=> d < 0)
  OBVIOUS
<1>13. \A c, d \in Int : c >= 0 => (c * d > 0 => d > 0) /\ (c * d < 0 => d < 0)
  OBVIOUS
<1>14. /\ Det(p, r, n) > 0 => Det(p, r, x) > 0
       /\ Det(p, r, n) < 0 => Det(p, r, x) < 0
  BY <1>9, <1>11, <1>12, <1>13
<1>15. /\ Det(p, r, x) > 0 => r[3] * Cross(a, q, x) > 0
       /\ Det(p, r, x) < 0 => r[3] * Cross(a, q, x) < 0
  BY <1>5, <1>10, <1>11, <1>12
<1>16. /\ r[3] * Cross(a, q, x) > 0 => Cross(a, q, x) > 0
       /\ r[3] * Cross(a, q, x) < 0 => Cross(a, q, x) < 0
  BY <1>4, <1>11, <1>12
<1>17. QED
  BY <1>14, <1>15, <1>16, AreaIsDet
-----------------------------------------------------------------------------
(* Portals between the apex and a place that is aimed at                   *)

\* Where the apex is on the portal, the string crosses it at the apex.
LEMMA CrossingIsApex ==
  ASSUME NEW a \in Places, NEW b \in Places, NEW portal \in [l : Places, r : Places],
         ~Parallel(a, b, portal), OnPortal(a, portal), NEW p \in Spots, SamePoint(p, a)
  PROVE  SamePoint(p, Crossing(a, b, portal))
<1> DEFINE d == Perp(a, b, portal.l, portal.r)
           t == Perp(a, b, portal.l, a)
           X == Crossing(a, b, portal)
           l == portal.l
           r == portal.r
<1>1. PICK s \in {-1, 1} :
        /\ d \in Int /\ d # 0 /\ t \in Int
        /\ s * d > 0
        /\ X[1] = s * (d * l[1] + t * (r[1] - l[1]))
        /\ X[2] = s * (d * l[2] + t * (r[2] - l[2]))
        /\ X[3] = s * d
  BY CrossingParts
<1>2. portal.l \in Places /\ portal.r \in Places
  OBVIOUS
<1>3. /\ l[1] \in Int /\ l[2] \in Int /\ l[3] = 1 /\ r[1] \in Int /\ r[2] \in Int /\ r[3] = 1
      /\ a[1] \in Int /\ a[2] \in Int /\ a[3] = 1 /\ b[1] \in Int /\ b[2] \in Int
  BY <1>2, PlaceIsSpot
<1> DEFINE l1 == l[1] - a[1]
           l2 == l[2] - a[2]
           r1 == r[1] - l[1]
           r2 == r[2] - l[2]
           b1 == b[1] - a[1]
           b2 == b[2] - a[2]
<1>4. /\ l1 \in Int /\ l2 \in Int /\ r1 \in Int /\ r2 \in Int /\ b1 \in Int /\ b2 \in Int
      /\ l1 = l[1] - a[1] /\ l2 = l[2] - a[2] /\ r1 = r[1] - l[1] /\ r2 = r[2] - l[2]
      /\ b1 = b[1] - a[1] /\ b2 = b[2] - a[2]
  BY <1>3
<1> HIDE DEF l1, l2, r1, r2, b1, b2
<1>5. r1 * l2 = l1 * r2
  <2>1. Area(l, r, a) = 0
    BY DEF OnPortal, Between
  <2>2. Diff(l, a, 1) = -l1 /\ Diff(l, a, 2) = -l2 /\ Diff(l, r, 1) = r1 /\ Diff(l, r, 2) = r2
    BY <1>3, <1>4 DEF Diff
  <2>3. (-l1) * r2 - r1 * (-l2) = 0
    BY <2>1, <2>2 DEF Area
  <2>4. QED
    BY <1>4, <2>3
<1>6. d = b1 * r2 - b2 * r1 /\ t = b1 * (-l2) - b2 * (-l1)
  <2>1. a[1] - l[1] = -l1 /\ a[2] - l[2] = -l2
    BY <1>3, <1>4
  <2>2. QED
    BY <1>4, <2>1 DEF Perp
<1> HIDE DEF d, t, X
<1>7. d * l1 + t * r1 = 0 /\ d * l2 + t * r2 = 0
  <2>1. d * l1 + t * r1 = b1 * (l1 * r2 - r1 * l2)
    BY <1>4, <1>6
  <2>2. d * l2 + t * r2 = b2 * (l1 * r2 - r1 * l2)
    BY <1>4, <1>6
  <2>3. l1 * r2 - r1 * l2 = 0
    BY <1>4, <1>5
  <2>4. QED
    BY <1>4, <2>1, <2>2, <2>3
<1>8. d * l[1] + t * r1 = a[1] * d /\ d * l[2] + t * r2 = a[2] * d
  <2>1. l[1] = l1 + a[1] /\ l[2] = l2 + a[2]
    BY <1>3, <1>4
  <2>2. /\ d * (l1 + a[1]) + t * r1 = (d * l1 + t * r1) + a[1] * d
        /\ d * (l2 + a[2]) + t * r2 = (d * l2 + t * r2) + a[2] * d
    BY <1>1, <1>3, <1>4
  <2>3. a[1] * d \in Int /\ a[2] * d \in Int
    BY <1>1, <1>3
  <2>4. 0 + a[1] * d = a[1] * d /\ 0 + a[2] * d = a[2] * d
    BY <2>3
  <2>5. QED
    BY <1>7, <2>1, <2>2, <2>4
<1>9. X[1] = a[1] * X[3] /\ X[2] = a[2] * X[3] /\ X[3] \in Int
  <2>1. X[1] = s * (a[1] * d) /\ X[2] = s * (a[2] * d)
    BY <1>1, <1>4, <1>8
  <2>2. s \in Int
    OBVIOUS
  <2>3. PICK e1, e2 : e1 = a[1] /\ e2 = a[2] /\ e1 \in Int /\ e2 \in Int
    BY <1>3
  <2>4. s * (a[1] * d) = a[1] * (s * d) /\ s * (a[2] * d) = a[2] * (s * d) /\ s * d \in Int
    <3>1. s * (e1 * d) = e1 * (s * d) /\ s * (e2 * d) = e2 * (s * d) /\ s * d \in Int
      BY <1>1, <2>2, <2>3
    <3>2. QED
      BY <2>3, <3>1
  <2>5. QED
    BY <1>1, <2>1, <2>4
<1>10. p[1] \in Int /\ p[2] \in Int /\ p[3] \in Nat
  BY DEF Spots
<1>11. p[1] = a[1] * p[3] /\ p[2] = a[2] * p[3]
  BY <1>3, <1>10 DEF SamePoint
<1>12. /\ (a[1] * p[3]) * X[3] = (a[1] * X[3]) * p[3]
       /\ (a[2] * p[3]) * X[3] = (a[2] * X[3]) * p[3]
  BY <1>3, <1>9, <1>10
<1>13. p[1] * X[3] = X[1] * p[3] /\ p[2] * X[3] = X[2] * p[3]
  BY <1>9, <1>11, <1>12
<1>14. QED
  BY <1>13 DEF SamePoint, X

\* Seen from a, x is a mean of r and l.
LEMMA MeanOfEnds ==
  ASSUME NEW a \in Places, NEW l \in Places, NEW r \in Places, NEW x \in Places, NEW i \in {1, 2}
  PROVE  Cross(a, r, x) * (l[i] - a[i]) + Cross(a, x, l) * (r[i] - a[i]) = Cross(a, r, l) * (x[i] - a[i])
<1>1. /\ a[1] \in Int /\ a[2] \in Int /\ l[1] \in Int /\ l[2] \in Int
      /\ r[1] \in Int /\ r[2] \in Int /\ x[1] \in Int /\ x[2] \in Int
  BY PlaceIsSpot
<1> DEFINE l1 == l[1] - a[1]
           l2 == l[2] - a[2]
           r1 == r[1] - a[1]
           r2 == r[2] - a[2]
           x1 == x[1] - a[1]
           x2 == x[2] - a[2]
<1>2. /\ l1 \in Int /\ l2 \in Int /\ r1 \in Int /\ r2 \in Int /\ x1 \in Int /\ x2 \in Int
      /\ l1 = l[1] - a[1] /\ l2 = l[2] - a[2] /\ r1 = r[1] - a[1] /\ r2 = r[2] - a[2]
      /\ x1 = x[1] - a[1] /\ x2 = x[2] - a[2]
  BY <1>1
<1> HIDE DEF l1, l2, r1, r2, x1, x2
<1>3. /\ Cross(a, r, x) = r1 * x2 - r2 * x1 /\ Cross(a, x, l) = x1 * l2 - x2 * l1
      /\ Cross(a, r, l) = r1 * l2 - r2 * l1
  BY <1>2 DEF Cross
<1>4. /\ (r1 * x2 - r2 * x1) * l1 + (x1 * l2 - x2 * l1) * r1 = (r1 * l2 - r2 * l1) * x1
      /\ (r1 * x2 - r2 * x1) * l2 + (x1 * l2 - x2 * l1) * r2 = (r1 * l2 - r2 * l1) * x2
  BY <1>2
<1>5. CASE i = 1
  BY <1>2, <1>3, <1>4, <1>5
<1>6. CASE i = 2
  BY <1>2, <1>3, <1>4, <1>6
<1>7. QED
  BY <1>5, <1>6

\* A portal that is passed on the way to x is crossed on the line to x.
LEMMA CrossingOnLine ==
  ASSUME NEW a \in Places, NEW x \in Places, NEW portal \in [l : Places, r : Places],
         Cross(a, portal.r, portal.l) > 0, Cross(a, portal.r, x) >= 0, Cross(a, x, portal.l) >= 0,
         Area(x, portal.r, portal.l) >= 0
  PROVE  ~Parallel(a, x, portal) /\ OnLine(Crossing(a, x, portal), a, x)
<1> DEFINE l == portal.l
           r == portal.r
           X == Crossing(a, x, portal)
           d == Perp(a, x, l, r)
           t == Perp(a, x, l, a)
<1>1. l \in Places /\ r \in Places
  OBVIOUS
<1>2. PICK A \in Int, B \in Int, C \in Int :
        A = Cross(a, r, x) /\ B = Cross(a, x, l) /\ C = Cross(a, r, l)
  BY <1>1, CrossInt
<1>3. /\ a[1] \in Int /\ a[2] \in Int /\ a[3] = 1 /\ l[1] \in Int /\ l[2] \in Int
      /\ r[1] \in Int /\ r[2] \in Int /\ x[1] \in Int /\ x[2] \in Int /\ x[3] = 1
  BY <1>1, PlaceIsSpot
<1>4. A >= 0 /\ B >= 0 /\ C > 0 /\ (A + B) - C >= 0
  <2>1. Area(x, r, l) = Forth(a, r, l, x) - Cross(a, r, l)
    BY <1>1, BeyondIsForth
  <2>2. QED
    BY <1>2, <2>1 DEF Forth
<1>5. d = -(A + B) /\ t = -B
  <2>1. Cross(a, x, r) = -A
    BY <1>1, <1>2, CrossInt
  <2>2. d = Cross(a, x, r) - Cross(a, x, l)
    BY <1>3 DEF Perp, Cross
  <2>3. t = -Cross(a, x, l)
    BY <1>3 DEF Perp, Cross
  <2>4. QED
    BY <1>2, <2>1, <2>2, <2>3
<1>6. d < 0 /\ ~Parallel(a, x, portal)
  BY <1>4, <1>5 DEF Parallel
<1>7. X = <<(-1) * (d * l[1] + t * (r[1] - l[1])), (-1) * (d * l[2] + t * (r[2] - l[2])), (-1) * d>>
  <2> DEFINE s == IF d < 0 THEN -1 ELSE 1
  <2>1. X = <<s * (d * l[1] + t * (r[1] - l[1])), s * (d * l[2] + t * (r[2] - l[2])), s * d>>
    BY DEF Crossing
  <2>2. s = -1
    BY <1>6
  <2> HIDE DEF s, d, t, l, r, X
  <2>3. QED
    BY <2>1, <2>2
<1>8. /\ A * (l[1] - a[1]) + B * (r[1] - a[1]) = C * (x[1] - a[1])
      /\ A * (l[2] - a[2]) + B * (r[2] - a[2]) = C * (x[2] - a[2])
  BY <1>1, <1>2, MeanOfEnds
<1> HIDE DEF X, d, t, l, r
<1>9. /\ 1 * X[1] = ((A + B) - C) * a[1] + C * x[1]
       /\ 1 * X[2] = ((A + B) - C) * a[2] + C * x[2]
       /\ 1 * X[3] = ((A + B) - C) * a[3] + C * x[3]
  <2>1. (-1) * (d * l[1] + t * (r[1] - l[1])) = ((A + B) - C) * a[1] + C * x[1]
    <3>1. PICK p, q, u, v : p = l[1] /\ q = r[1] /\ u = a[1] /\ v = x[1]
      OBVIOUS
    <3>2. p \in Int /\ q \in Int /\ u \in Int /\ v \in Int /\ A * (p - u) + B * (q - u) = C * (v - u)
      BY <1>3, <1>8, <3>1
    <3>3. (-1) * (d * p + t * (q - p)) = (A + B) * p + B * (q - p)
      BY <1>5, <3>2
    <3>4. (A + B) * p + B * (q - p) = (A * (p - u) + B * (q - u)) + (A + B) * u
      BY <3>2
    <3>5. C * (v - u) + (A + B) * u = ((A + B) - C) * u + C * v
      BY <3>2
    <3>6. (-1) * (d * p + t * (q - p)) = ((A + B) - C) * u + C * v
      BY <3>2, <3>3, <3>4, <3>5
    <3>7. QED
      BY <3>1, <3>6
  <2>2. (-1) * (d * l[2] + t * (r[2] - l[2])) = ((A + B) - C) * a[2] + C * x[2]
    <3>1. PICK p, q, u, v : p = l[2] /\ q = r[2] /\ u = a[2] /\ v = x[2]
      OBVIOUS
    <3>2. p \in Int /\ q \in Int /\ u \in Int /\ v \in Int /\ A * (p - u) + B * (q - u) = C * (v - u)
      BY <1>3, <1>8, <3>1
    <3>3. (-1) * (d * p + t * (q - p)) = (A + B) * p + B * (q - p)
      BY <1>5, <3>2
    <3>4. (A + B) * p + B * (q - p) = (A * (p - u) + B * (q - u)) + (A + B) * u
      BY <3>2
    <3>5. C * (v - u) + (A + B) * u = ((A + B) - C) * u + C * v
      BY <3>2
    <3>6. (-1) * (d * p + t * (q - p)) = ((A + B) - C) * u + C * v
      BY <3>2, <3>3, <3>4, <3>5
    <3>7. QED
      BY <3>1, <3>6
  <2>3. (-1) * d = ((A + B) - C) * a[3] + C * x[3]
    BY <1>3, <1>5
  <2>4. ((A + B) - C) * a[1] + C * x[1] \in Int /\ ((A + B) - C) * a[2] + C * x[2] \in Int
        /\ ((A + B) - C) * a[3] + C * x[3] \in Int
    BY <1>3
  <2>5. QED
    BY <1>7, <2>1, <2>2, <2>3, <2>4
<1>10. IsOn(X, a, x, 1, (A + B) - C, C)
  BY <1>9 DEF IsOn
<1>11. 1 \in Nat /\ (A + B) - C \in Nat /\ C \in Nat
  BY <1>4
<1>12. OnLine(X, a, x)
  BY <1>10, <1>11 DEF OnLine
<1>13. QED
  BY <1>6, <1>12 DEF X

\* What lies beyond a portal lies beyond the one in front of it.
LEMMA Farther ==
  ASSUME NEW a \in Places, NEW l \in Places, NEW r \in Places, NEW l1 \in Places, NEW r1 \in Places,
         NEW x \in Places, Cross(a, r, l) >= 0, Cross(a, r1, l1) > 0,
         Cross(a, r1, x) >= 0, Cross(a, x, l1) >= 0,
         Area(x, r1, l1) >= 0, Area(r1, r, l) >= 0, Area(r, l, l1) >= 0
  PROVE  Area(x, r, l) >= 0
<1>1. PICK A \in Int, B \in Int, C \in Int, C1 \in Int, Fx \in Int, Fr \in Int, Fl \in Int :
        /\ A = Cross(a, r1, x) /\ B = Cross(a, x, l1) /\ C = Cross(a, r, l) /\ C1 = Cross(a, r1, l1)
        /\ Fx = Forth(a, r, l, x) /\ Fr = Forth(a, r, l, r1) /\ Fl = Forth(a, r, l, l1)
  <2>1. /\ Cross(a, r1, x) \in Int /\ Cross(a, x, l1) \in Int /\ Cross(a, r, l) \in Int
        /\ Cross(a, r1, l1) \in Int
        /\ Cross(a, r, x) \in Int /\ Cross(a, x, l) \in Int
        /\ Cross(a, r, r1) \in Int /\ Cross(a, r1, l) \in Int
        /\ Cross(a, r, l1) \in Int /\ Cross(a, l1, l) \in Int
    BY CrossInt
  <2>2. Forth(a, r, l, x) \in Int /\ Forth(a, r, l, r1) \in Int /\ Forth(a, r, l, l1) \in Int
    BY <2>1 DEF Forth
  <2>3. QED
    BY <2>1, <2>2
<1>2. /\ Area(x, r1, l1) = (A + B) - C1 /\ Area(r1, r, l) = Fr - C /\ Area(r, l, l1) = Fl - C
      /\ Area(x, r, l) = Fx - C
  BY <1>1, BeyondIsForth DEF Forth
<1>3. C1 * Fx = A * Fl + B * Fr
  <2>1. /\ a[1] \in Int /\ a[2] \in Int /\ l[1] \in Int /\ l[2] \in Int
        /\ r[1] \in Int /\ r[2] \in Int /\ x[1] \in Int /\ x[2] \in Int
        /\ l1[1] \in Int /\ l1[2] \in Int /\ r1[1] \in Int /\ r1[2] \in Int
    BY PlaceIsSpot
  <2> DEFINE d1 == r[1] - l[1]
             d2 == r[2] - l[2]
             x1 == x[1] - a[1]
             x2 == x[2] - a[2]
             p1 == l1[1] - a[1]
             p2 == l1[2] - a[2]
             q1 == r1[1] - a[1]
             q2 == r1[2] - a[2]
  <2>2. /\ d1 \in Int /\ d2 \in Int /\ x1 \in Int /\ x2 \in Int
        /\ p1 \in Int /\ p2 \in Int /\ q1 \in Int /\ q2 \in Int
        /\ d1 = r[1] - l[1] /\ d2 = r[2] - l[2] /\ x1 = x[1] - a[1] /\ x2 = x[2] - a[2]
        /\ p1 = l1[1] - a[1] /\ p2 = l1[2] - a[2] /\ q1 = r1[1] - a[1] /\ q2 = r1[2] - a[2]
    BY <2>1
  <2> HIDE DEF d1, d2, x1, x2, p1, p2, q1, q2
  <2>3. /\ A * p1 + B * q1 = C1 * x1
        /\ A * p2 + B * q2 = C1 * x2
    BY <1>1, <2>2, MeanOfEnds
  <2>4. ASSUME NEW y \in Places, NEW y1 \in Int, NEW y2 \in Int, y1 = y[1] - a[1], y2 = y[2] - a[2]
        PROVE  Forth(a, r, l, y) = d1 * y2 - d2 * y1
    <3>1. y[1] \in Int /\ y[2] \in Int
      BY PlaceIsSpot
    <3> DEFINE l3 == l[1] - a[1]
               l4 == l[2] - a[2]
               r3 == r[1] - a[1]
               r4 == r[2] - a[2]
    <3>2. l3 \in Int /\ l4 \in Int /\ r3 \in Int /\ r4 \in Int
          /\ l3 = l[1] - a[1] /\ l4 = l[2] - a[2] /\ r3 = r[1] - a[1] /\ r4 = r[2] - a[2]
      BY <2>1
    <3> HIDE DEF l3, l4, r3, r4
    <3>3. d1 = r3 - l3 /\ d2 = r4 - l4
      BY <2>1, <2>2, <3>2
    <3>4. Forth(a, r, l, y) = (r3 * y2 - r4 * y1) + (y1 * l4 - y2 * l3)
      BY <2>4, <3>2 DEF Forth, Cross
    <3>5. (r3 * y2 - r4 * y1) + (y1 * l4 - y2 * l3) = (r3 - l3) * y2 - (r4 - l4) * y1
      BY <3>2
    <3>6. QED
      BY <3>3, <3>4, <3>5
  <2>5. Fx = d1 * x2 - d2 * x1 /\ Fl = d1 * p2 - d2 * p1 /\ Fr = d1 * q2 - d2 * q1
    BY <1>1, <2>2, <2>4
  <2>6. C1 * (d1 * x2 - d2 * x1) = d1 * (C1 * x2) - d2 * (C1 * x1)
    BY <2>2
  <2>7. d1 * (A * p2 + B * q2) - d2 * (A * p1 + B * q1) = A * (d1 * p2 - d2 * p1) + B * (d1 * q2 - d2 * q1)
    BY <2>2
  <2>8. QED
    BY <2>3, <2>5, <2>6, <2>7
<1>4. A >= 0 /\ B >= 0 /\ C >= 0 /\ C1 > 0 /\ A + B >= C1 /\ Fl >= C /\ Fr >= C
  BY <1>1, <1>2
<1>5. A * Fl >= A * C /\ B * Fr >= B * C /\ (A + B) * C >= C1 * C
  <2>1. \A u, v, w \in Int : u >= 0 /\ v >= w => u * v >= u * w
    OBVIOUS
  <2>2. \A u, v, w \in Int : w >= 0 /\ u >= v => u * w >= v * w
    OBVIOUS
  <2>3. A + B \in Int
    OBVIOUS
  <2>4. QED
    BY <1>4, <2>1, <2>2, <2>3
<1>6. C1 * (Fx - C) >= 0
  <2>1. A * C + B * C = (A + B) * C /\ C1 * (Fx - C) = C1 * Fx - C1 * C
    OBVIOUS
  <2>2. PICK e1 \in Int, e2 \in Int, e3 \in Int, e4 \in Int, e5 \in Int, e6 \in Int, e7 \in Int :
          e1 = A * Fl /\ e2 = B * Fr /\ e3 = A * C /\ e4 = B * C /\ e5 = (A + B) * C /\ e6 = C1 * C /\ e7 = C1 * Fx
    OBVIOUS
  <2>3. QED
    BY <1>3, <1>5, <2>1, <2>2
<1>7. \A u, v \in Int : u > 0 /\ u * v >= 0 => v >= 0
  OBVIOUS
<1>8. QED
  BY <1>2, <1>4, <1>6, <1>7

\* Points at one place are on the same side of everything.
LEMMA SameTurns ==
  ASSUME NEW p \in Spots, NEW a \in Places, SamePoint(p, a), NEW q \in Spots, NEW n \in Spots
  PROVE  (Area(p, q, n) > 0 <=> Area(a, q, n) > 0) /\ (Area(p, q, n) < 0 <=> Area(a, q, n) < 0)
<1>1. a \in Spots /\ a[1] \in Int /\ a[2] \in Int /\ a[3] = 1
      /\ p[1] \in Int /\ p[2] \in Int /\ p[3] \in Int /\ p[3] > 0
  BY PlaceIsSpot, SpotParts
<1>2. IsOn(p, a, a, 1, p[3], 0) /\ 1 \in Nat /\ p[3] \in Nat /\ 0 \in Nat
  BY <1>1 DEF IsOn, SamePoint
<1>3. Linear(p, a, a, 1, p[3], 0)
  BY <1>1, <1>2, DetIsLinear
<1>4. 1 * Det(p, q, n) = p[3] * Det(a, q, n) + 0 * Det(a, q, n)
  BY <1>3 DEF Linear
<1>5. Det(p, q, n) \in Int /\ Det(a, q, n) \in Int
  BY <1>1, DetInt
<1>6. \A u, c, d \in Int : u > 0 /\ 1 * d = u * c + 0 * c => (d > 0 <=> c > 0) /\ (d < 0 <=> c < 0)
  <2> SUFFICES ASSUME NEW u \in Int, NEW c \in Int, NEW d \in Int, u > 0, d = u * c
               PROVE  (d > 0 <=> c > 0) /\ (d < 0 <=> c < 0)
    OBVIOUS
  <2>1. c > 0 => u * c > 0
    OBVIOUS
  <2>2. c < 0 => u * c < 0
    OBVIOUS
  <2>3. c = 0 => u * c = 0
    OBVIOUS
  <2>4. QED
    BY <2>1, <2>2, <2>3
<1>7. (Det(p, q, n) > 0 <=> Det(a, q, n) > 0) /\ (Det(p, q, n) < 0 <=> Det(a, q, n) < 0)
  BY <1>1, <1>4, <1>5, <1>6
<1>8. QED
  BY <1>1, <1>7, AreaIsDet

\* The area is a whole number.
LEMMA AreaInt ==
  ASSUME NEW p \in Spots, NEW q \in Spots, NEW n \in Spots
  PROVE  Area(p, q, n) \in Int
<1>1. /\ p[1] \in Int /\ p[2] \in Int /\ p[3] \in Int /\ q[1] \in Int /\ q[2] \in Int /\ q[3] \in Int
      /\ n[1] \in Int /\ n[2] \in Int /\ n[3] \in Int
  BY SpotParts
<1>2. /\ Diff(p, n, 1) \in Int /\ Diff(p, n, 2) \in Int /\ Diff(p, q, 1) \in Int /\ Diff(p, q, 2) \in Int
  BY <1>1 DEF Diff
<1>3. QED
  BY <1>2 DEF Area

\* Seen from the apex, portal j is open.
Faces(j) == Cross(apex.pt, Portal(j).r, Portal(j).l) > 0

\* The apex is on each portal up to portal j.
Touches(j) == \A i \in apex.idx..j : OnPortal(apex.pt, Portal(i))

\* The line from the apex to x goes through portal j, which is on the way.
Straight(x, j) == Faces(j) /\ Passes(x, j) /\ Area(x, Portal(j).r, Portal(j).l) >= 0

\* The string may go straight to x, an end of portal k.
Aim(x, k) ==
  /\ k \in apex.idx..Polys /\ AtEnd(x, k)
  /\ \A j \in Ahead(k - 1) :
       /\ Passes(x, j)
       /\ \/ Faces(j)
          \/ OnPortal(apex.pt, Portal(j)) /\ \A i \in Ahead(k - 1) : i < j => ThroughApex(i)

\* Seen from a place on it, a portal has no width.
LEMMA OnPortalIsFlat ==
  ASSUME NEW portal \in [l : Places, r : Places], NEW a \in Places, OnPortal(a, portal)
  PROVE  Cross(a, portal.r, portal.l) = 0
<1>1. portal.l \in Places /\ portal.r \in Places
  OBVIOUS
<1>2. Area(portal.l, portal.r, a) = 0
  BY DEF OnPortal, Between
<1>3. Area(portal.l, portal.r, a) = -Cross(portal.l, portal.r, a) /\ Cross(portal.l, portal.r, a) \in Int
  BY <1>1, CrossInt
<1>4. Cross(a, portal.r, portal.l) = -Cross(portal.l, portal.r, a)
  <2>1. /\ a[1] \in Int /\ a[2] \in Int /\ portal.l[1] \in Int /\ portal.l[2] \in Int
        /\ portal.r[1] \in Int /\ portal.r[2] \in Int
    BY <1>1, PlaceIsSpot
  <2>2. QED
    BY <2>1 DEF Cross
<1>5. QED
  BY <1>2, <1>3, <1>4

\* Each portal on the way is touched or gone through.
LEMMA AimReaches ==
  ASSUME SoundCorridor(corridor), ApexShape, NEW x, NEW k, Aim(x, k), NEW j \in apex.idx..(k - 1)
  PROVE  Touches(j) \/ Straight(x, j)
<1> DEFINE a == apex.pt
           l(i) == Portal(i).l
           r(i) == Portal(i).r
<1>1. /\ Polys \in Nat /\ apex.idx \in 1..Polys /\ k \in apex.idx..Polys /\ k \in Int /\ a \in Places
      /\ \A i \in 1..Polys : Portal(i) \in [l : Places, r : Places] /\ l(i) \in Places /\ r(i) \in Places
      /\ x \in {l(k), r(k)}
  BY PolysIsNat, PortalPlaces DEF Aim, ApexShape, AtEnd
<1>2. x \in Places
  BY <1>1
<1>3. ASSUME NEW i \in Ahead(k - 1) PROVE i \in 1..Polys /\ i + 1 \in 2..Polys /\ i \in apex.idx..(k - 1)
  BY <1>1, <1>3 DEF Ahead
<1>4. ASSUME NEW i \in Ahead(k - 1), Faces(i)
      PROVE  /\ l(i) # r(i)
             /\ Area(r(i + 1), r(i), l(i)) >= 0 /\ Area(r(i), l(i), l(i + 1)) >= 0
             /\ Area(l(i + 1), r(i), l(i)) >= 0
  <2>1. l(i) \in Places /\ r(i) \in Places /\ l(i + 1) \in Places /\ r(i + 1) \in Places
    <3>1. i \in 1..Polys /\ i + 1 \in 1..Polys
      BY <1>1, <1>3, <1>4
    <3>2. QED
      BY <1>1, <3>1
  <2>2. l(i) # r(i)
    <3>1. Cross(a, r(i), r(i)) = 0
      BY <1>1, <2>1, CrossInt
    <3>2. QED
      BY <1>4, <3>1 DEF Faces
  <2>3. Area(r(i + 1), r(i), l(i)) >= 0 /\ Area(r(i), l(i), l(i + 1)) >= 0
    <3>1. PICK m : m = i + 1
      OBVIOUS
    <3>2. m \in 2..Polys /\ m - 1 = i
      BY <1>1, <1>3, <1>4, <3>1
    <3>3. Portal(m - 1).l # Portal(m - 1).r
      BY <2>2, <3>2
    <3>4. /\ Area(Portal(m).r, Portal(m - 1).r, Portal(m - 1).l) >= 0
          /\ Area(Portal(m - 1).r, Portal(m - 1).l, Portal(m).l) >= 0
      BY <3>2, <3>3, PortalsAhead
    <3>5. Portal(m - 1) = Portal(i) /\ Portal(m) = Portal(i + 1)
      BY <3>1, <3>2
    <3>6. QED
      BY <3>4, <3>5
  <2>4. Area(l(i + 1), r(i), l(i)) = Area(r(i), l(i), l(i + 1))
    BY <1>1, <2>1, BeyondIsForth
  <2>5. QED
    BY <2>2, <2>3, <2>4
<1> DEFINE Bad(i) == i \in Ahead(k - 1) /\ Faces(i) /\ ~(Area(x, r(i), l(i)) >= 0)
           T == {n \in Nat : Bad(k - 1 - n)}
<1>5. T = {}
  <2> SUFFICES ASSUME T # {} PROVE FALSE
    OBVIOUS
  <2>1. PICK n \in T : \A y \in T : n <= y
    BY LeastNumber
  <2>2. PICK i : i = k - 1 - n
    OBVIOUS
  <2>3. n \in Nat /\ i \in Ahead(k - 1) /\ Faces(i) /\ ~(Area(x, r(i), l(i)) >= 0)
    BY <2>1, <2>2
  <2>4. i \in 1..Polys /\ i + 1 \in 2..Polys /\ i \in apex.idx..(k - 1) /\ i \in Int
    BY <1>3, <2>3
  <2> HIDE DEF T, l, r, a
  <2>5. CASE i = k - 1
    <3>1. i + 1 = k
      BY <1>1, <2>5
    <3>2. Area(r(k), r(i), l(i)) >= 0 /\ Area(l(k), r(i), l(i)) >= 0
      BY <1>4, <2>3, <3>1
    <3>3. QED
      BY <1>1, <2>3, <3>2
  <2>6. CASE i # k - 1
    <3>1. i + 1 \in apex.idx..(k - 1) /\ i + 1 # apex.idx /\ i < i + 1 /\ i + 1 \in 1..Polys
      BY <1>1, <2>4, <2>6
    <3>2. i + 1 \in Ahead(k - 1)
      BY <3>1 DEF Ahead
    <3>3. Faces(i + 1)
      <4>1. ~ThroughApex(i)
        <5>1. Cross(a, a, a) = 0
          BY <1>1, CrossInt
        <5>2. QED
          BY <2>3, <5>1 DEF Faces, ThroughApex, a
      <4>2. QED
        BY <2>3, <3>1, <3>2, <4>1 DEF Aim
    <3>4. n # 0 /\ n - 1 \in Nat /\ k - 1 - (n - 1) = i + 1 /\ ~(n <= n - 1)
      BY <1>1, <2>2, <2>3, <2>4, <2>6
    <3>5. n - 1 \notin T
      BY <2>1, <3>4
    <3>6. Area(x, r(i + 1), l(i + 1)) >= 0
      BY <3>2, <3>3, <3>4, <3>5 DEF T
    <3>7. /\ Area(r(i + 1), r(i), l(i)) >= 0 /\ Area(r(i), l(i), l(i + 1)) >= 0
      BY <1>4, <2>3
    <3>8. Cross(a, r(i + 1), x) >= 0 /\ Cross(a, x, l(i + 1)) >= 0
      BY <3>2 DEF Aim, Passes, a, l, r
    <3>9. Cross(a, r(i + 1), l(i + 1)) > 0 /\ Cross(a, r(i), l(i)) > 0
      BY <2>3, <3>3 DEF Faces, a, l, r
    <3>10. /\ l(i) \in Places /\ r(i) \in Places /\ l(i + 1) \in Places /\ r(i + 1) \in Places
           /\ Cross(a, r(i), l(i)) >= 0
      <4>1. l(i) \in Places /\ r(i) \in Places /\ l(i + 1) \in Places /\ r(i + 1) \in Places
        BY <1>1, <2>4, <3>1
      <4>2. Cross(a, r(i), l(i)) \in Int
        BY <1>1, <4>1, CrossInt
      <4>3. QED
        BY <3>9, <4>1, <4>2
    <3>11. Area(x, r(i), l(i)) >= 0
      BY <1>1, <1>2, <3>6, <3>7, <3>8, <3>9, <3>10, Farther
    <3>12. QED
      BY <2>3, <3>11
  <2>7. QED
    BY <2>5, <2>6
<1>6. CASE j \notin Ahead(k - 1)
  <2>1. j = apex.idx /\ OnPortal(apex.pt, Portal(apex.idx))
    BY <1>6 DEF Ahead
  <2>2. \A i \in apex.idx..apex.idx : i = apex.idx
    BY <1>1
  <2>3. QED
    BY <2>1, <2>2 DEF Touches
<1>7. CASE j \in Ahead(k - 1) /\ Faces(j)
  <2>1. k - 1 - j \in Nat /\ k - 1 - (k - 1 - j) = j
    BY <1>1
  <2>2. k - 1 - j \notin T
    BY <1>5
  <2>3. Area(x, r(j), l(j)) >= 0
    BY <1>7, <2>1, <2>2
  <2>4. Passes(x, j)
    BY <1>7 DEF Aim
  <2>5. QED
    BY <1>7, <2>3, <2>4 DEF Straight
<1>8. CASE j \in Ahead(k - 1) /\ ~Faces(j)
  <2>1. OnPortal(apex.pt, Portal(j)) /\ \A i \in Ahead(k - 1) : i < j => ThroughApex(i)
    BY <1>8 DEF Aim
  <2> SUFFICES ASSUME NEW i \in apex.idx..j PROVE OnPortal(apex.pt, Portal(i))
    BY DEF Touches
  <2>2. i \in apex.idx..(k - 1) /\ i \in 1..Polys /\ (i = j \/ i < j)
    BY <1>1
  <2>3. CASE i \in Ahead(k - 1) /\ i < j
    <3>1. ThroughApex(i)
      BY <2>1, <2>3
    <3>2. QED
      BY <1>1, <2>2, <3>1, EndsAreOnPortal DEF ThroughApex
  <2>4. CASE i \notin Ahead(k - 1)
    BY <2>2, <2>4 DEF Ahead
  <2>5. QED
    BY <2>1, <2>2, <2>3, <2>4
<1>9. QED
  BY <1>6, <1>7, <1>8

\* A line that goes straight through a portal meets it.
LEMMA StraightMeets ==
  ASSUME SoundCorridor(corridor), ApexShape, NEW x \in Places, NEW j \in 1..Polys, Straight(x, j),
         NEW p \in Spots, SamePoint(p, apex.pt)
  PROVE  Meets(p, x, Portal(j))
<1> DEFINE a == apex.pt
           l == Portal(j).l
           r == Portal(j).r
<1>1. a \in Places /\ l \in Places /\ r \in Places
  BY PortalPlaces DEF ApexShape
<1>2. a \in Spots /\ l \in Spots /\ r \in Spots /\ x \in Spots
  BY <1>1, PlaceIsSpot
<1>3. Cross(a, r, l) > 0 /\ Cross(a, x, l) >= 0 /\ Cross(a, r, x) >= 0 /\ Area(x, r, l) >= 0
  BY DEF Straight, Faces, Passes
<1> HIDE DEF a, l, r
<1>4. /\ Area(a, x, l) = -Cross(a, x, l) /\ Area(a, x, r) = -Cross(a, x, r) /\ Cross(a, x, r) = -Cross(a, r, x)
      /\ Area(a, l, r) = -Cross(a, l, r) /\ Cross(a, l, r) = -Cross(a, r, l)
      /\ Area(x, l, r) = -Cross(x, l, r) /\ Cross(x, l, r) = -Cross(x, r, l) /\ Area(x, r, l) = -Cross(x, r, l)
      /\ Cross(a, x, l) \in Int /\ Cross(a, r, x) \in Int /\ Cross(a, r, l) \in Int /\ Cross(x, r, l) \in Int
  BY <1>1, CrossInt
<1>5. ~(Area(a, x, l) > 0) /\ ~(Area(a, x, r) < 0) /\ ~(Area(a, l, r) < 0) /\ Area(x, l, r) <= 0
  BY <1>3, <1>4
<1>6. ~(Area(p, x, l) > 0) /\ ~(Area(p, x, r) < 0) /\ ~(Area(p, l, r) < 0)
  BY <1>1, <1>2, <1>5, SameTurns DEF a
<1>7. Area(p, x, l) \in Int /\ Area(p, x, r) \in Int /\ Area(p, l, r) \in Int
  BY <1>2, AreaInt
<1>8. Area(p, x, l) <= 0 /\ Area(p, x, r) >= 0 /\ Area(p, l, r) >= 0
  BY <1>6, <1>7
<1>9. QED
  BY <1>5, <1>8 DEF Meets, l, r
-----------------------------------------------------------------------------
(* The string goes through every portal                                    *)

\* Each portal between two points of the string meets the line between them.
Met(s) ==
  \A i \in 1..(Len(s) - 1), k \in 1..(Polys - 1) :
    Entered(s[i]) <= k /\ k < Entered(s[i + 1]) => Meets(s[i].pt, s[i + 1].pt, Portal(k))

\* What appending a vertex does to the length.
LEMMA AppendVertexEither ==
  ASSUME NEW s \in Strings, NEW v \in Vertices
  PROVE  LET t == AppendVertex(s, v) IN
         /\ t \in Strings /\ Len(s) \in Nat /\ Len(s) >= 1
         /\ t[Len(t)].ref = v.ref /\ t[Len(t)] \in Vertices /\ s[Len(s)] \in Vertices
         /\ \A i \in 1..(Len(s) - 1) : t[i] = s[i]
         /\ t[Len(s)].pt = s[Len(s)].pt
         /\ SamePoint(s[Len(s)].pt, v.pt) => Len(t) = Len(s)
         /\ ~SamePoint(s[Len(s)].pt, v.pt) =>
              Len(t) = Len(s) + 1 /\ t[Len(t)] = v /\ t[Len(s)] = s[Len(s)]
<1> DEFINE t == AppendVertex(s, v)
           n == Len(s)
<1>1. /\ s \in Seq(Vertices) /\ n \in Nat /\ n >= 1 /\ LastPoint(s) = s[n] /\ s[n] \in Vertices
  BY StringParts
<1>2. t \in Strings /\ t[Len(t)].ref = v.ref
  BY AppendVertexParts
<1>3. t[Len(t)] \in Vertices
  <2> HIDE DEF t
  <2>1. Len(t) \in Nat /\ Len(t) >= 1 /\ \A i \in 1..Len(t) : t[i] \in Vertices
    BY <1>2, StringParts
  <2>2. QED
    BY <2>1
<1>4. CASE SamePoint(s[n].pt, v.pt)
  <2> DEFINE w == Vertex(s[n].pt, v.flag, v.ref)
  <2>1. t = [s EXCEPT ![n] = w]
    BY <1>1, <1>4 DEF AppendVertex
  <2>2. w.pt = s[n].pt
    BY DEF Vertex
  <2> HIDE DEF w, t
  <2>3. Len(t) = n /\ t[n] = w /\ \A i \in 1..(n - 1) : t[i] = s[i]
    BY <1>1, <2>1
  <2>4. QED
    BY <1>1, <1>2, <1>3, <1>4, <2>2, <2>3 DEF t
<1>5. CASE ~SamePoint(s[n].pt, v.pt)
  <2>1. t = Append(s, v)
    BY <1>1, <1>5 DEF AppendVertex
  <2> HIDE DEF t
  <2>2. Len(t) = n + 1 /\ t[n + 1] = v /\ \A i \in 1..n : t[i] = s[i]
    BY <1>1, <2>1
  <2>3. t[n] = s[n] /\ \A i \in 1..(n - 1) : t[i] = s[i]
    BY <1>1, <2>2
  <2>4. QED
    BY <1>1, <1>2, <1>3, <1>5, <2>2, <2>3 DEF t
<1>6. QED
  BY <1>4, <1>5

\* A vertex may be appended when the portals up to it meet the line to it.
LEMMA AppendMet ==
  ASSUME SoundCorridor(corridor), NEW s \in Strings, NEW v \in Vertices, Met(s),
         \A k \in 1..(Polys - 1) : Last(s) <= k /\ k < Entered(v) =>
           /\ Meets(LastPoint(s).pt, v.pt, Portal(k))
           /\ SamePoint(LastPoint(s).pt, v.pt) => OnPortal(LastPoint(s).pt, Portal(k))
  PROVE  Met(AppendVertex(s, v))
<1> DEFINE t == AppendVertex(s, v)
           n == Len(s)
<1>1. /\ t \in Strings /\ n \in Nat /\ n >= 1
      /\ t[Len(t)].ref = v.ref
      /\ \A i \in 1..(n - 1) : t[i] = s[i]
      /\ t[n].pt = s[n].pt
      /\ SamePoint(s[n].pt, v.pt) => Len(t) = n
      /\ ~SamePoint(s[n].pt, v.pt) => Len(t) = n + 1 /\ t[Len(t)] = v /\ t[n] = s[n]
  BY AppendVertexEither
<1>2. LastPoint(s) = s[n] /\ Last(s) = Entered(s[n])
  BY DEF Last, LastPoint
<1>3. Entered(t[Len(t)]) = Entered(v)
  BY <1>1 DEF Entered
<1> HIDE DEF t
<1> SUFFICES ASSUME NEW i \in 1..(Len(t) - 1), NEW k \in 1..(Polys - 1),
                    Entered(t[i]) <= k, k < Entered(t[i + 1])
             PROVE  Meets(t[i].pt, t[i + 1].pt, Portal(k))
  BY DEF Met, t
<1>4. i \in Nat /\ i >= 1
  OBVIOUS
<1>5. CASE i + 1 < n
  <2>1. i \in 1..(n - 1) /\ i + 1 \in 1..(n - 1)
    BY <1>1, <1>4, <1>5
  <2>2. t[i] = s[i] /\ t[i + 1] = s[i + 1]
    BY <1>1, <2>1
  <2>3. QED
    BY <2>1, <2>2 DEF Met
<1>6. CASE i + 1 = n
  <2>1. i \in 1..(n - 1) /\ t[i] = s[i] /\ t[i + 1].pt = s[i + 1].pt
    BY <1>1, <1>4, <1>6
  <2>2. CASE k < Entered(s[i + 1])
    BY <2>1, <2>2 DEF Met
  <2>3. CASE ~(k < Entered(s[i + 1]))
    <3>1. Len(t) = n /\ SamePoint(s[n].pt, v.pt)
      <4>1. t[n] # s[n]
        BY <1>6, <2>3
      <4>2. QED
        BY <1>1, <4>1
    <3>2. k < Entered(v)
      BY <1>3, <1>6, <3>1
    <3>3. Polys \in Nat /\ k \in Int
      BY PolysIsNat
    <3>4. Last(s) <= k
      <4>1. Entered(s[n]) \in Int \/ ~(Entered(s[n]) \in Int)
        OBVIOUS
      <4>2. s[n] \in Vertices
        BY AppendVertexEither
      <4>3. Entered(s[n]) \in Int
        BY <3>3, <4>2 DEF Entered, Vertices
      <4>4. QED
        BY <1>2, <1>6, <2>3, <3>3, <4>3
    <3>5. OnPortal(s[n].pt, Portal(k))
      BY <1>2, <3>1, <3>2, <3>4
    <3>6. QED
      BY <1>6, <2>1, <3>5 DEF Meets
  <2>4. QED
    BY <2>2, <2>3
<1>7. CASE i + 1 > n
  <2>1. i = n /\ Len(t) = n + 1 /\ i + 1 = n + 1 /\ ~SamePoint(s[n].pt, v.pt)
    BY <1>1, <1>4, <1>7
  <2>2. t[i] = s[n] /\ t[i + 1] = v
    BY <1>1, <2>1
  <2>3. Meets(s[n].pt, v.pt, Portal(k))
    BY <1>2, <2>2
  <2>4. QED
    BY <2>2, <2>3
<1>8. QED
  BY <1>1, <1>4, <1>5, <1>6, <1>7

\* What the string goes on to from its last point, on the line from the apex
\* to x: behind the last point no two points are the same, and the second one
\* comes after all portals up to polygon `to` that the apex touches.
Stretched(u, x, to) ==
  LET n == Len(points) IN
  /\ u \in Strings /\ Len(u) >= n
  /\ \A i \in 1..(n - 1) : u[i] = points[i]
  /\ u[n].pt = points[n].pt /\ Last(points) <= Entered(u[n])
  /\ \A i \in (n + 1)..Len(u) : OnLine(u[i].pt, apex.pt, x) /\ ~SamePoint(u[i - 1].pt, u[i].pt)
  /\ Len(u) > n => \A k \in apex.idx..to : Touches(k) => k < Entered(u[n + 1])

\* One more vertex on the line.
LEMMA StretchAppend ==
  ASSUME SoundCorridor(corridor), ApexShape, points \in Strings, Last(points) <= apex.idx + 1,
         NEW x, NEW to \in Int, NEW u, Stretched(u, x, to), NEW v \in Vertices,
         NEW j \in Int, apex.idx <= j, Entered(v) = j + 1, OnLine(v.pt, apex.pt, x),
         \/ \A k \in apex.idx..to : Touches(k) => k <= j
         \/ Len(u) = Len(points) /\ SamePoint(LastPoint(u).pt, v.pt)
  PROVE  Stretched(AppendVertex(u, v), x, to)
<1> DEFINE t == AppendVertex(u, v)
           n == Len(points)
           m == Len(u)
<1>1. /\ u \in Strings /\ m >= n /\ n \in Nat /\ n >= 1
      /\ \A i \in 1..(n - 1) : u[i] = points[i]
      /\ u[n].pt = points[n].pt /\ Last(points) <= Entered(u[n])
      /\ \A i \in (n + 1)..m : OnLine(u[i].pt, apex.pt, x) /\ ~SamePoint(u[i - 1].pt, u[i].pt)
      /\ m > n => \A k \in apex.idx..to : Touches(k) => k < Entered(u[n + 1])
  BY StringParts DEF Stretched
<1>2. /\ t \in Strings /\ m \in Nat /\ m >= 1
      /\ t[Len(t)].ref = v.ref
      /\ \A i \in 1..(m - 1) : t[i] = u[i]
      /\ t[m].pt = u[m].pt
      /\ SamePoint(u[m].pt, v.pt) => Len(t) = m
      /\ ~SamePoint(u[m].pt, v.pt) => Len(t) = m + 1 /\ t[Len(t)] = v /\ t[m] = u[m]
  BY <1>1, AppendVertexEither
<1>3. Entered(t[Len(t)]) = j + 1
  BY <1>2 DEF Entered
<1>4. LastPoint(u) = u[m] /\ apex.idx \in Int /\ Last(points) \in Int
  <2>1. Polys \in Nat
    BY PolysIsNat
  <2>2. LastPoint(points) \in Vertices
    BY StringParts
  <2>3. Last(points) \in Int
    BY <2>1, <2>2 DEF Last, Entered, Vertices
  <2>4. QED
    BY <2>1, <2>3 DEF LastPoint, ApexShape
<1> HIDE DEF t
<1>5. \A i \in 1..(n - 1) : t[i] = points[i]
  BY <1>1, <1>2
<1>6. \A i \in 1..m : t[i].pt = u[i].pt
  BY <1>2
<1>7. t[n].pt = points[n].pt
  BY <1>1, <1>2, <1>6
<1>8. Last(points) <= Entered(t[n])
  <2>1. CASE m = n /\ Len(t) = m
    BY <1>3, <1>4, <2>1
  <2>2. CASE ~(m = n /\ Len(t) = m)
    <3>1. t[n] = u[n]
      BY <1>1, <1>2, <2>2
    <3>2. QED
      BY <1>1, <3>1
  <2>3. QED
    BY <2>1, <2>2
<1>9. ASSUME NEW i \in (n + 1)..Len(t)
      PROVE  OnLine(t[i].pt, apex.pt, x) /\ ~SamePoint(t[i - 1].pt, t[i].pt)
  <2>1. i \in Nat /\ i >= n + 1
    BY <1>1, <1>9
  <2>2. CASE i <= m
    <3>1. i \in (n + 1)..m /\ i \in 1..m /\ i - 1 \in 1..m
      BY <1>1, <1>2, <2>1, <2>2
    <3>2. QED
      BY <1>1, <1>6, <3>1
  <2>3. CASE ~(i <= m)
    <3>1. i = Len(t) /\ i - 1 = m
      BY <1>2, <1>9, <2>1, <2>3
    <3>2. ~SamePoint(u[m].pt, v.pt)
      BY <1>2, <2>3, <3>1
    <3>3. t[Len(t)] = v /\ t[m] = u[m]
      BY <1>2, <3>2, Zenon
    <3>4. t[i].pt = v.pt /\ t[i - 1].pt = u[m].pt
      BY <3>1, <3>3
    <3>5. QED
      BY <3>2, <3>4
  <2>4. QED
    BY <2>2, <2>3
<1>10. ASSUME Len(t) > n, NEW k \in apex.idx..to, Touches(k) PROVE k < Entered(t[n + 1])
  <2>1. CASE m > n + 1 \/ (m = n + 1 /\ Len(t) = m + 1)
    <3>1. n + 1 \in 1..(m - 1) \/ n + 1 = m
      BY <1>1, <1>2, <2>1
    <3>2. t[n + 1] = u[n + 1] /\ m > n
      BY <1>1, <1>2, <2>1, <3>1
    <3>3. QED
      BY <1>1, <1>10, <3>2
  <2>2. CASE ~(m > n + 1 \/ (m = n + 1 /\ Len(t) = m + 1))
    <3>1. Len(t) = n + 1 /\ ~(m = n /\ SamePoint(u[m].pt, v.pt))
      BY <1>1, <1>2, <1>10, <2>2
    <3>2. k <= j
      BY <1>4, <1>10, <3>1
    <3>3. k \in Int
      OBVIOUS
    <3>4. QED
      BY <1>3, <3>1, <3>2, <3>3
  <2>3. QED
    BY <2>1, <2>2
<1>11. Len(t) >= n
  BY <1>1, <1>2
<1>12. QED
  BY <1>2, <1>5, <1>7, <1>8, <1>9, <1>10, <1>11 DEF Stretched, t

\* A line that has not left the apex goes straight through no portal.
LEMMA StraightIsFar ==
  ASSUME SoundCorridor(corridor), ApexShape, NEW j \in 1..Polys
  PROVE  ~Straight(apex.pt, j)
<1>1. apex.pt \in Places /\ Portal(j).l \in Places /\ Portal(j).r \in Places
  BY PortalPlaces DEF ApexShape
<1>2. /\ Area(apex.pt, Portal(j).r, Portal(j).l) = -Cross(apex.pt, Portal(j).r, Portal(j).l)
      /\ Cross(apex.pt, Portal(j).r, Portal(j).l) \in Int
  BY <1>1, CrossInt
<1>3. QED
  BY <1>2 DEF Straight, Faces

\* How far a string has come when the crossings up to portal j are in it.
Trails(u, j) ==
  /\ apex.idx <= Last(u)
  /\ \A i \in apex.idx..j : Last(u) <= i => OnPortal(LastPoint(u).pt, Portal(i))
  /\ Touches(j) => Len(u) = Len(points)

\* The crossing of a portal that the line goes straight through is on the line, and on the portal.
LEMMA StraightCrossing ==
  ASSUME SoundCorridor(corridor), ApexShape, NEW x \in Places, NEW j \in 1..(Polys - 1), Straight(x, j)
  PROVE  /\ ~Parallel(apex.pt, x, corridor.portals[j])
         /\ OnLine(Crossing(apex.pt, x, corridor.portals[j]), apex.pt, x)
         /\ OnPortal(Crossing(apex.pt, x, corridor.portals[j]), Portal(j))
<1>1. Polys \in Nat /\ j \in 1..Polys /\ j < Polys /\ apex.pt \in Places
  BY PolysIsNat DEF ApexShape
<1>2. Portal(j) = corridor.portals[j] /\ Portal(j) \in [l : Places, r : Places]
  BY <1>1, PortalIsPair
<1>3. ~Parallel(apex.pt, x, Portal(j)) /\ OnLine(Crossing(apex.pt, x, Portal(j)), apex.pt, x)
  BY <1>1, <1>2, CrossingOnLine DEF Straight, Faces, Passes
<1>4. Parts(apex.pt, x, Portal(j))
  BY <1>1, PassingParts DEF Straight
<1>5. OnPortal(Crossing(apex.pt, x, Portal(j)), Portal(j))
  BY <1>1, <1>2, <1>3, <1>4, PartedIsCrossed
<1>6. QED
  BY <1>2, <1>3, <1>5

\* What appendPortals does at one portal.
LEMMA StretchPortal ==
  ASSUME SoundCorridor(corridor), ApexShape, points \in Strings, Last(points) <= apex.idx + 1,
         SamePoint(LastPoint(points).pt, apex.pt),
         NEW x \in Places, NEW to \in apex.idx..Polys, NEW j \in apex.idx..(to - 1),
         Touches(j) \/ Straight(x, j),
         NEW u, Stretched(u, x, to), Met(u), Trails(u, j - 1), ~IsFull(u)
  PROVE  LET t == AtPortal(u, j, x) IN Stretched(t, x, to) /\ Met(t) /\ Trails(t, j)
<1> DEFINE a == apex.pt
           portal == corridor.portals[j]
           v == Vertex(Crossing(a, x, portal), "none", j + 1)
           t == AppendVertex(u, v)
           p == LastPoint(u).pt
<1>1. /\ Polys \in Nat /\ apex.idx \in 1..Polys /\ j \in 1..(Polys - 1) /\ j \in 1..Polys /\ j < Polys
      /\ a \in Places /\ apex.idx <= j /\ j < to /\ j \in Int /\ to \in Int
  BY PolysIsNat DEF ApexShape
<1>2. portal = Portal(j) /\ portal \in [l : Places, r : Places]
  BY <1>1, PortalIsPair
<1>3. u \in Strings /\ LastPoint(u) \in Vertices /\ p \in Spots /\ LastPoint(u) = u[Len(u)]
  BY StringParts DEF Stretched, Vertices
<1>4. \A i \in apex.idx..(j - 1) : Last(u) <= i => OnPortal(p, Portal(i))
  BY DEF Trails
<1>5. apex.idx <= Last(u) /\ Last(u) \in Int
  BY <1>1, <1>3 DEF Trails, Last, Entered, Vertices
<1>6. \A k, i \in Int : i <= k /\ Touches(k) => Touches(i)
  BY <1>1 DEF Touches
<1>7. \A i \in apex.idx..j : i \in apex.idx..(j - 1) \/ i = j
  BY <1>1
<1>8. Touches(j) => /\ OnPortal(a, Portal(j)) /\ Len(u) = Len(points) /\ SamePoint(p, a)
  <2> SUFFICES ASSUME Touches(j) PROVE OnPortal(a, Portal(j)) /\ Len(u) = Len(points) /\ SamePoint(p, a)
    OBVIOUS
  <2>1. j - 1 \in Int /\ j - 1 <= j /\ j \in apex.idx..j
    BY <1>1
  <2>2. Touches(j - 1)
    BY <1>1, <1>6, <2>1
  <2>3. Len(u) = Len(points)
    BY <2>2 DEF Trails
  <2>4. p = LastPoint(points).pt
    BY <1>3, <2>3 DEF Stretched, LastPoint
  <2>5. QED
    BY <2>1, <2>3, <2>4 DEF Touches
<1>9. CASE Parallel(a, x, portal)
  <2>1. AtPortal(u, j, x) = u
    BY <1>9 DEF AtPortal
  <2>2. ~Straight(x, j)
    BY <1>1, <1>9, StraightCrossing
  <2>3. OnPortal(p, Portal(j)) /\ Len(u) = Len(points)
    BY <1>2, <1>3, <1>8, <2>2, SameOnPortal, <1>1, PlaceIsSpot
  <2>4. Trails(u, j)
    BY <1>4, <1>5, <1>7, <2>3 DEF Trails
  <2>5. QED
    BY <2>1, <2>4
<1>10. CASE ~Parallel(a, x, portal)
  <2>1. AtPortal(u, j, x) = t
    BY <1>10 DEF AtPortal
  <2>2. v \in Vertices
    BY <1>1, <1>10, AtPortalVertex
  <2>3. v.pt = Crossing(a, x, portal) /\ v.ref = j + 1
    BY DEF Vertex
  <2> HIDE DEF v
  <2>4. Entered(v) = j + 1 /\ v.pt \in Spots
    BY <1>1, <2>2, <2>3 DEF Entered, Vertices
  <2>5. Touches(j) => SamePoint(p, v.pt)
    BY <1>1, <1>2, <1>3, <1>8, <1>10, <2>3, CrossingIsApex
  <2>6. ~Touches(j) => OnLine(v.pt, a, x)
    BY <1>1, <2>3, StraightCrossing
  <2>7. OnPortal(v.pt, Portal(j))
    <3>1. CASE Touches(j)
      <4>1. SamePoint(a, a) /\ a \in Spots
        BY <1>1, PlaceIsSpot, SameAsItself
      <4>2. SamePoint(a, v.pt)
        BY <1>1, <1>2, <1>8, <1>10, <2>3, <3>1, <4>1, CrossingIsApex
      <4>3. SamePoint(v.pt, a)
        BY <4>2 DEF SamePoint
      <4>4. QED
        BY <1>2, <1>8, <2>4, <3>1, <4>1, <4>3, SameOnPortal
    <3>2. CASE ~Touches(j)
      BY <1>1, <2>3, <3>2, StraightCrossing
    <3>3. QED
      BY <3>1, <3>2
  <2>8. OnLine(v.pt, a, x)
    <3>1. CASE Touches(j)
      <4>1. SamePoint(a, a) /\ a \in Spots /\ a[1] \in Int /\ a[2] \in Int /\ a[3] = 1
        BY <1>1, PlaceIsSpot, SameAsItself
      <4>2. SamePoint(a, v.pt)
        BY <1>1, <1>2, <1>8, <1>10, <2>3, <3>1, <4>1, CrossingIsApex
      <4>3. v.pt[1] \in Int /\ v.pt[2] \in Int /\ v.pt[3] \in Nat
        BY <2>4, SpotParts
      <4>4. x[1] \in Int /\ x[2] \in Int /\ x[3] \in Int
        BY PlaceIsSpot
      <4>5. IsOn(v.pt, a, x, 1, v.pt[3], 0)
        BY <4>1, <4>2, <4>3, <4>4 DEF SamePoint, IsOn
      <4>6. QED
        BY <4>3, <4>5 DEF OnLine
    <3>2. CASE ~Touches(j)
      BY <2>6, <3>2
    <3>3. QED
      BY <3>1, <3>2
  <2>9. SamePoint(p, v.pt) => OnPortal(p, Portal(j))
    BY <1>2, <1>3, <2>4, <2>7, SameOnPortal
  <2>10. Stretched(t, x, to)
    <3>1. CASE Touches(j)
      <4>1. Len(u) = Len(points) /\ SamePoint(LastPoint(u).pt, v.pt)
        BY <1>8, <2>5, <3>1
      <4>2. QED
        BY <1>1, <2>2, <2>4, <2>8, <4>1, StretchAppend
    <3>2. CASE ~Touches(j)
      <4>1. \A k \in apex.idx..to : Touches(k) => k <= j
        BY <1>1, <1>6, <3>2
      <4>2. QED
        BY <1>1, <2>2, <2>4, <2>8, <4>1, StretchAppend
    <3>3. QED
      BY <3>1, <3>2
  <2>11. Met(t)
    <3> SUFFICES ASSUME NEW k \in 1..(Polys - 1), Last(u) <= k, k < Entered(v)
                 PROVE  /\ Meets(p, v.pt, Portal(k))
                        /\ SamePoint(p, v.pt) => OnPortal(p, Portal(k))
      BY <1>3, <2>2, AppendMet
    <3>1. k \in apex.idx..(j - 1) \/ k = j
      BY <1>1, <1>5, <2>4
    <3>2. CASE k \in apex.idx..(j - 1)
      BY <1>4, <3>2 DEF Meets
    <3>3. CASE k = j
      BY <2>7, <2>9, <3>3 DEF Meets
    <3>4. QED
      BY <3>1, <3>2, <3>3
  <2>12. Trails(t, j)
    <3>1. /\ Last(t) = j + 1
          /\ SamePoint(p, v.pt) => Len(t) = Len(u)
      <4>1. t[Len(t)].ref = v.ref /\ (SamePoint(p, v.pt) => Len(t) = Len(u))
        BY <1>3, <2>2, AppendVertexEither
      <4>2. LastPoint(t).ref = v.ref
        BY <4>1 DEF LastPoint
      <4>3. QED
        BY <2>4, <4>1, <4>2 DEF Last, Entered
    <3>2. Touches(j) => Len(t) = Len(points)
      BY <1>8, <2>5, <3>1
    <3> HIDE DEF t
    <3>3. apex.idx <= Last(t) /\ \A i \in apex.idx..j : ~(Last(t) <= i)
      BY <1>1, <3>1
    <3>4. QED
      BY <3>2, <3>3 DEF Trails
  <2>13. QED
    BY <2>1, <2>10, <2>11, <2>12
<1>11. QED
  BY <1>9, <1>10

\* So the crossings that are added on the way to x stretch the string towards it.
LEMMA StretchPortals ==
  ASSUME SoundCorridor(corridor), ApexShape, points \in Strings, Met(points),
         apex.idx <= Last(points), Last(points) <= apex.idx + 1, SamePoint(LastPoint(points).pt, apex.pt),
         NEW x \in Places, NEW to \in apex.idx..Polys,
         \A j \in apex.idx..(to - 1) : Touches(j) \/ Straight(x, j)
  PROVE  LET s == AppendPortals(points, apex.idx, to, x) IN
         IsFull(s) \/ (Stretched(s, x, to) /\ Met(s) /\ Trails(s, to - 1))
<1> DEFINE from == apex.idx
<1>1. /\ Polys \in Nat /\ from \in 1..Polys /\ to \in Int /\ to <= Polys /\ from <= to
      /\ apex.pt \in Places
  BY PolysIsNat DEF ApexShape
<1>2. PICK f : Crossed(f, points, from, to, x) /\ AppendPortals(points, from, to, x) = f[to - 1]
  BY <1>1, AppendPortalsSteps
<1> DEFINE Good(k) == IsFull(f[k]) \/ (Stretched(f[k], x, to) /\ Met(f[k]) /\ Trails(f[k], k))
           T == {k \in Nat : k \in (from-1)..(to-1) /\ ~Good(k)}
<1>3. f[from - 1] = points /\ \A k \in from..(to - 1) : f[k] = AtPortal(f[k-1], k, x)
  BY <1>2 DEF Crossed
<1>4. Good(from - 1)
  <2>1. Len(points) \in Nat
    BY StringParts
  <2>2. Stretched(points, x, to)
    <3>1. Last(points) <= Entered(points[Len(points)])
      <4>1. Last(points) \in Int
        BY <1>1, StringParts DEF Last, Entered, Vertices
      <4>2. QED
        BY <4>1 DEF Last, LastPoint
    <3>2. \A i \in (Len(points) + 1)..Len(points) : FALSE
      BY <2>1
    <3>3. Len(points) >= Len(points) /\ ~(Len(points) > Len(points))
      BY <2>1
    <3>4. QED
      BY <3>1, <3>2, <3>3 DEF Stretched
  <2>3. Trails(points, from - 1)
    <3>1. \A i \in from..(from - 1) : FALSE
      BY <1>1
    <3>2. QED
      BY <3>1 DEF Trails
  <2>4. QED
    BY <1>3, <2>2, <2>3
<1>5. ASSUME NEW k \in from..(to - 1), Good(k - 1) PROVE Good(k)
  <2>1. f[k] = AtPortal(f[k - 1], k, x)
    BY <1>3, <1>5
  <2>2. CASE IsFull(f[k - 1])
    <3>1. f[k] = f[k - 1]
      BY <2>1, <2>2 DEF AtPortal
    <3>2. QED
      BY <2>2, <3>1
  <2>3. CASE ~IsFull(f[k - 1])
    <3>1. Stretched(f[k - 1], x, to) /\ Met(f[k - 1]) /\ Trails(f[k - 1], k - 1)
      BY <1>5, <2>3
    <3>2. k \in apex.idx..(to - 1) /\ (Touches(k) \/ Straight(x, k))
      BY <1>5
    <3> HIDE DEF from
    <3>3. Stretched(f[k], x, to) /\ Met(f[k]) /\ Trails(f[k], k)
      BY <2>1, <2>3, <3>1, <3>2, StretchPortal
    <3>4. QED
      BY <3>3
  <2>4. QED
    BY <2>2, <2>3
<1> HIDE DEF Good
<1>6. T = {}
  <2> SUFFICES ASSUME T # {} PROVE FALSE
    OBVIOUS
  <2>1. PICK k \in T : \A y \in T : k <= y
    BY LeastNumber
  <2>2. k \in Nat /\ k \in (from-1)..(to-1) /\ ~Good(k)
    BY <2>1
  <2>3. k # from - 1
    BY <1>4, <2>2
  <2>4. k \in from..(to - 1) /\ k - 1 \in (from-1)..(to-1) /\ k - 1 \in Nat /\ ~(k <= k - 1)
    BY <1>1, <2>2, <2>3
  <2>5. k - 1 \notin T
    BY <2>1, <2>4
  <2>6. Good(k - 1)
    BY <2>4, <2>5
  <2>7. QED
    BY <1>5, <2>2, <2>4, <2>6
<1>7. to - 1 \in Nat /\ to - 1 \in (from-1)..(to-1)
  BY <1>1
<1>8. Good(to - 1)
  BY <1>6, <1>7
<1>9. QED
  BY <1>2, <1>8 DEF Good

\* The string goes straight to x.
LEMMA StringGoes ==
  ASSUME SoundCorridor(corridor), ApexShape, crossings \in BOOLEAN, AtApex(points), Met(points),
         apex.idx <= Last(points),
         NEW x, NEW to, Aim(x, to), NEW v \in Vertices, v.pt = x, Entered(v) = to + 1,
         NEW s, s = WithCrossings(apex.idx, to, x), ~IsFull(s)
  PROVE  LET t == AppendVertex(s, v) IN Stretched(t, x, to) /\ Met(t)
<1> DEFINE t == AppendVertex(s, v)
<1>1. /\ Polys \in Nat /\ apex.idx \in 1..Polys /\ to \in apex.idx..Polys /\ to \in Int /\ apex.pt \in Places
      /\ points \in Strings /\ SamePoint(LastPoint(points).pt, apex.pt)
  BY PolysIsNat DEF ApexShape, Aim, AtApex, GoodString
<1>2. to \in 1..Polys /\ Portal(to) \in [l : Places, r : Places]
      /\ x \in {Portal(to).l, Portal(to).r} /\ x \in Places /\ OnPortal(x, Portal(to))
  <2>1. to \in 1..Polys
    BY <1>1
  <2>2. Portal(to) \in [l : Places, r : Places] /\ Portal(to).l \in Places /\ Portal(to).r \in Places
    BY <2>1, PortalPlaces
  <2>3. x \in {Portal(to).l, Portal(to).r}
    BY DEF Aim, AtEnd
  <2>4. QED
    BY <2>1, <2>2, <2>3, EndsAreOnPortal
<1>3. \A j \in apex.idx..(to - 1) : Touches(j) \/ Straight(x, j)
  BY AimReaches
<1>4. Last(points) <= apex.idx + 1
  <2>1. Last(points) \in Int
    BY <1>1, StringParts DEF Last, Entered, Vertices
  <2>2. QED
    BY <1>1, <2>1 DEF AtApex
<1>5. OnLine(x, apex.pt, x)
  <2>1. /\ apex.pt[1] \in Int /\ apex.pt[2] \in Int /\ apex.pt[3] \in Int
        /\ x[1] \in Int /\ x[2] \in Int /\ x[3] \in Int
    BY <1>1, <1>2, PlaceIsSpot
  <2>2. IsOn(x, apex.pt, x, 1, 0, 1)
    BY <2>1 DEF IsOn
  <2>3. QED
    BY <2>2 DEF OnLine
<1>6. \A k \in apex.idx..to : k <= to
  BY <1>1
<1>7. ASSUME Stretched(s, x, to), Met(s), apex.idx <= Last(s),
             \A k \in apex.idx..(to - 1) : Last(s) <= k =>
               /\ Meets(LastPoint(s).pt, x, Portal(k))
               /\ SamePoint(LastPoint(s).pt, x) => OnPortal(LastPoint(s).pt, Portal(k))
      PROVE  Stretched(t, x, to) /\ Met(t)
  <2>1. s \in Strings
    BY <1>7 DEF Stretched
  <2>2. Stretched(t, x, to)
    BY <1>1, <1>4, <1>5, <1>6, <1>7, StretchAppend
  <2>3. Met(t)
    <3>1. LastPoint(s) \in Vertices /\ LastPoint(s).pt \in Spots /\ x \in Spots
      BY <1>2, <2>1, StringParts, PlaceIsSpot DEF Vertices
    <3>2. Last(s) \in Int
      BY <1>1, <3>1 DEF Last, Entered, Vertices
    <3> SUFFICES ASSUME NEW k \in 1..(Polys - 1), Last(s) <= k, k < Entered(v)
                 PROVE  /\ Meets(LastPoint(s).pt, v.pt, Portal(k))
                        /\ SamePoint(LastPoint(s).pt, v.pt) => OnPortal(LastPoint(s).pt, Portal(k))
      BY <1>7, <2>1, AppendMet
    <3>3. k \in apex.idx..(to - 1) \/ k = to
      BY <1>1, <1>7, <3>2
    <3>4. CASE k \in apex.idx..(to - 1)
      BY <1>7, <3>4
    <3>5. CASE k = to
      <4>1. Meets(LastPoint(s).pt, x, Portal(k))
        BY <1>2, <3>5 DEF Meets
      <4>2. SamePoint(LastPoint(s).pt, x) => OnPortal(LastPoint(s).pt, Portal(k))
        BY <1>2, <3>1, <3>5, SameOnPortal
      <4>3. QED
        BY <4>1, <4>2
    <3>6. QED
      BY <3>3, <3>4, <3>5
  <2>4. QED
    BY <2>2, <2>3
<1>8. CASE crossings
  <2>1. s = AppendPortals(points, apex.idx, to, x)
    BY <1>8 DEF WithCrossings
  <2>2. Stretched(s, x, to) /\ Met(s) /\ Trails(s, to - 1)
    BY <1>1, <1>2, <1>3, <1>4, <2>1, StretchPortals
  <2>3. /\ apex.idx <= Last(s)
        /\ \A k \in apex.idx..(to - 1) : Last(s) <= k => OnPortal(LastPoint(s).pt, Portal(k))
    BY <2>2 DEF Trails
  <2>4. QED
    BY <1>7, <2>2, <2>3 DEF Meets
<1>9. CASE ~crossings
  <2>1. s = points
    BY <1>9 DEF WithCrossings
  <2>2. Len(points) \in Nat /\ LastPoint(points).pt \in Spots /\ Last(points) \in Int
    BY <1>1, StringParts DEF Vertices, Last, Entered
  <2>3. Stretched(points, x, to)
    <3>1. Last(points) <= Entered(points[Len(points)])
      BY <2>2 DEF Last, LastPoint
    <3>2. \A i \in (Len(points) + 1)..Len(points) : FALSE
      BY <2>2
    <3>3. Len(points) >= Len(points) /\ ~(Len(points) > Len(points))
      BY <2>2
    <3>4. QED
      BY <1>1, <3>1, <3>2, <3>3 DEF Stretched
  <2>4. ASSUME NEW k \in apex.idx..(to - 1)
        PROVE  /\ Meets(LastPoint(points).pt, x, Portal(k))
               /\ SamePoint(LastPoint(points).pt, x) => OnPortal(LastPoint(points).pt, Portal(k))
    <3>1. k \in 1..Polys /\ k \in apex.idx..k
      BY <1>1
    <3>2. CASE Touches(k)
      <4>1. OnPortal(apex.pt, Portal(k))
        BY <3>1, <3>2 DEF Touches
      <4>2. OnPortal(LastPoint(points).pt, Portal(k))
        BY <1>1, <2>2, <3>1, <4>1, PortalPlaces, PlaceIsSpot, SameOnPortal
      <4>3. QED
        BY <4>2 DEF Meets
    <3>3. CASE Straight(x, k)
      <4>1. Meets(LastPoint(points).pt, x, Portal(k))
        BY <1>1, <1>2, <2>2, <3>1, <3>3, StraightMeets
      <4>2. ~SamePoint(LastPoint(points).pt, x)
        <5> SUFFICES ASSUME SamePoint(LastPoint(points).pt, x) PROVE FALSE
          OBVIOUS
        <5>1. SamePoint(apex.pt, LastPoint(points).pt)
          BY <1>1 DEF SamePoint
        <5>2. SamePoint(apex.pt, x)
          BY <1>1, <1>2, <2>2, <5>1, PlaceIsSpot, SameAsPlace
        <5>3. apex.pt = x
          BY <1>1, <1>2, <5>2, SamePlace
        <5>4. QED
          BY <3>1, <3>3, <5>3, StraightIsFar
      <4>3. QED
        BY <4>1, <4>2
    <3>4. QED
      BY <1>3, <3>2, <3>3
  <2>5. QED
    BY <1>7, <2>1, <2>3, <2>4
<1>10. QED
  BY <1>8, <1>9
-----------------------------------------------------------------------------
(* What the funnel looks at                                                *)

\* Portal j, the last one, is seen edge-on.
EdgeOn(j, m) == j = m /\ Cross(apex.pt, Portal(j).r, Portal(j).l) = 0

\* Each portal ahead is seen open; one that is not has the apex on it, is a point
\* or is the last one, and all in front of it are where the apex is.
Facing(m) ==
  \A j \in Ahead(m) :
    \/ Faces(j)
    \/ /\ \A i \in Ahead(m) : i < j => ThroughApex(i)
       /\ OnPortal(apex.pt, Portal(j)) \/ Portal(j).l = Portal(j).r \/ EdgeOn(j, m)

\* A portal that is a point is where the apex is, or both sides are there.
PointsSeen(m) ==
  \A j \in Ahead(m) : Portal(j).l = Portal(j).r => ThroughApex(j) \/ (left.idx = j /\ right.idx = j)

SightInv ==
  Pulling =>
    /\ Facing(at - 1) /\ PointsSeen(at - 1)
    /\ at = Polys + 1 /\ ~Shut => left.pt = corridor.goal /\ left.idx = Polys
    /\ apex.idx <= Last(points)

\* What is seen from the apex stays as long as the apex does.
LEMMA FacingStays ==
  ASSUME UNCHANGED <<corridor, apex>>, NEW m, Facing(m)
  PROVE  Facing(m)'
<1>1. \A j : Portal(j)' = Portal(j)
  BY PortalsStay
<1>2. Ahead(m)' = Ahead(m)
  BY <1>1 DEF Ahead
<1>3. QED
  BY <1>1, <1>2 DEF Facing, ThroughApex, Faces, EdgeOn

\* So do the portals that are points, where the sides stay.
LEMMA PointsStay ==
  ASSUME UNCHANGED <<corridor, apex>>, NEW m,
         \A j \in Ahead(m) : Portal(j).l = Portal(j).r => ThroughApex(j) \/ (left'.idx = j /\ right'.idx = j)
  PROVE  PointsSeen(m)'
<1>1. \A j : Portal(j)' = Portal(j)
  BY PortalsStay
<1>2. Ahead(m)' = Ahead(m)
  BY <1>1 DEF Ahead
<1>3. QED
  BY <1>1, <1>2 DEF PointsSeen, ThroughApex

\* Where all portals ahead are at the apex.
LEMMA ThroughFaces ==
  ASSUME SoundCorridor(corridor), ApexShape, NEW m \in 0..Polys, \A j \in Ahead(m) : ThroughApex(j)
  PROVE  Facing(m) /\ PointsSeen(m)
<1>1. ASSUME NEW j \in Ahead(m) PROVE OnPortal(apex.pt, Portal(j))
  <2>1. Polys \in Nat /\ apex.idx \in 1..Polys
    BY PolysIsNat DEF ApexShape
  <2>2. j \in 1..Polys
    BY <2>1 DEF Ahead
  <2>3. Portal(j) \in [l : Places, r : Places] /\ apex.pt = Portal(j).l
    BY <2>2, PortalPlaces DEF ThroughApex
  <2>4. QED
    BY <2>3, EndsAreOnPortal
<1>2. QED
  BY <1>1 DEF Facing, PointsSeen

\* Where the last portal is seen edge-on and the funnel is not the portal itself.
LEMMA EdgeOnKinds ==
  ASSUME SoundCorridor(corridor), ApexShape, NEW L, NEW R, NEW m \in 1..Polys, OpenAt(L, R, m),
         EdgeOn(m, m), ~Flat(L, R, m)
  PROVE  OnPortal(apex.pt, Portal(m)) \/ Portal(m).l = Portal(m).r
<1>1. Portal(m) \in [l : Places, r : Places]
  BY PortalPlaces
<1>2. ~InSight(apex.pt, Portal(m).r, Portal(m).l, L, R)
  BY DEF InSight, EdgeOn
<1>3. CASE Ray(L, R, m)
  BY <1>3 DEF Ray
<1>4. CASE EndAtApex(L, R, Portal(m).l, Portal(m).r, m) \/ EndAtApex(R, L, Portal(m).r, Portal(m).l, m)
  BY <1>1, <1>4, EndsAreOnPortal DEF EndAtApex
<1>5. QED
  BY <1>2, <1>3, <1>4 DEF OpenAt

\* The next portal has its right end between the ends of one seen edge-on.
LEMMA FlatSeen ==
  ASSUME SoundCorridor(corridor), ApexShape, NEW L, NEW R, NEW m \in 1..Polys, Flat(L, R, m),
         NEW r \in Places, Cross(apex.pt, R, r) >= 0, apex.pt = R \/ Cross(apex.pt, r, L) > 0
  PROVE  OnPortal(apex.pt, Portal(m))
<1>1. apex.pt \in Places /\ Portal(m).l \in Places /\ Portal(m).r \in Places
  BY PortalPlaces DEF ApexShape
<1>2. /\ L = Portal(m).l /\ R = Portal(m).r /\ L # apex.pt /\ R # apex.pt
      /\ Cross(apex.pt, Portal(m).r, Portal(m).l) = 0
  BY DEF Flat
<1>3. QED
  BY <1>1, <1>2, FlatIsTouched DEF OnPortal

\* A portal seen edge-on that the funnel gets past has the apex on it.
LEMMA OpenIsFaced ==
  ASSUME SoundCorridor(corridor), ApexShape, NEW L \in Places, NEW R \in Places, NEW k \in 1..Polys,
         OpenAt(L, R, k - 1), NEW newL \in Places, NEW newR \in Places,
         Narrows(apex.pt, L, R, Portal(k).l, Portal(k).r, newL, newR)
  PROVE  \/ ~EdgeOn(k - 1, k - 1)
         \/ OnPortal(apex.pt, Portal(k - 1)) \/ Portal(k - 1).l = Portal(k - 1).r
<1> DEFINE m == k - 1
<1>1. Polys \in Nat /\ apex.pt \in Places /\ m \in 0..Polys
  BY PolysIsNat DEF ApexShape
<1>2. m \in 1..Polys
  BY <1>1, OpenParts
<1>3. k \in 2..Polys
  BY <1>1, <1>2
<1>4. /\ Portal(k).l \in Places /\ Portal(k).r \in Places /\ Portal(m).l \in Places /\ Portal(m).r \in Places
  BY <1>2, PortalPlaces
<1>5. CASE Flat(L, R, m)
  <2>1. L = Portal(m).l /\ R = Portal(m).r
    BY <1>5 DEF Flat
  <2>2. L # R /\ L # apex.pt /\ R # apex.pt /\ Cross(apex.pt, R, L) = 0
    BY <1>5 DEF Flat
  <2>3. Between(apex.pt, L, R)
    <3>1. Area(Portal(k).r, R, L) >= 0 /\ Area(R, L, Portal(k).l) >= 0
      <4>1. Portal(m).l # Portal(m).r
        BY <2>1, <2>2
      <4>2. /\ Area(Portal(k).r, Portal(m).r, Portal(m).l) >= 0
            /\ Area(Portal(m).r, Portal(m).l, Portal(k).l) >= 0
        BY <1>3, <4>1, PortalsAhead
      <4>3. QED
        BY <2>1, <4>2
    <3>2. apex.pt \in Places /\ Portal(k).l \in Places /\ Portal(k).r \in Places
      BY <1>1, <1>4
    <3>3. QED
      BY <2>2, <3>1, <3>2, FlatNarrows
  <2>4. QED
    BY <2>1, <2>3 DEF OnPortal
<1>6. CASE ~Flat(L, R, m)
  BY <1>2, <1>6, EdgeOnKinds
<1>7. QED
  BY <1>5, <1>6

\* The next portal.
LEMMA FacesNext ==
  ASSUME SoundCorridor(corridor), ApexShape, NEW k \in 1..Polys, Facing(k - 1),
         k - 1 \in Ahead(k - 1) =>
           \/ ~EdgeOn(k - 1, k - 1)
           \/ OnPortal(apex.pt, Portal(k - 1)) \/ Portal(k - 1).l = Portal(k - 1).r,
         NEW L \in Places, NEW R \in Places, OpenAt(L, R, k),
         Portal(k).l = Portal(k).r => \A i \in Ahead(k - 1) : ThroughApex(i)
  PROVE  Facing(k)
<1> DEFINE a == apex.pt
           l == Portal(k).l
           r == Portal(k).r
<1>1. /\ Polys \in Nat /\ a \in Places /\ apex.idx \in 1..Polys /\ l \in Places /\ r \in Places
      /\ Portal(k) \in [l : Places, r : Places] /\ k \in Int
  BY PolysIsNat, PortalPlaces DEF ApexShape
<1>2. k \in Ahead(k) /\ Ahead(k) = Ahead(k - 1) \cup {k}
  <2>1. k \in Ahead(k)
    BY DEF OpenAt
  <2>2. apex.idx <= k /\ (k = apex.idx => ~OnPortal(apex.pt, Portal(k)))
    BY <1>1, <2>1 DEF Ahead
  <2>3. QED
    BY <1>1, <2>1, <2>2, NextAhead
<1>3. \A i \in Ahead(k - 1) : i \in Int /\ i < k
  BY <1>1 DEF Ahead
<1>4. \/ Faces(k)
      \/ /\ \A i \in Ahead(k) : i < k => ThroughApex(i)
         /\ OnPortal(a, Portal(k)) \/ l = r \/ EdgeOn(k, k)
  <2>1. CASE InSight(a, r, l, L, R)
    BY <2>1 DEF InSight, Faces
  <2>2. CASE Ray(L, R, k)
    BY <1>1, <1>2, <2>2 DEF Ray
  <2>3. CASE EndAtApex(L, R, l, r, k)
    <3>1. OnPortal(a, Portal(k))
      BY <1>1, <2>3, EndsAreOnPortal DEF EndAtApex
    <3>2. QED
      BY <1>1, <1>2, <2>3, <3>1 DEF EndAtApex
  <2>4. CASE EndAtApex(R, L, r, l, k)
    <3>1. OnPortal(a, Portal(k))
      BY <1>1, <2>4, EndsAreOnPortal DEF EndAtApex
    <3>2. QED
      BY <1>1, <1>2, <2>4, <3>1 DEF EndAtApex
  <2>5. CASE Flat(L, R, k)
    <3>1. L = l /\ R = r /\ Cross(a, R, L) = 0 /\ \A i \in Ahead(k) \ {k} : ThroughApex(i)
      BY <2>5 DEF Flat
    <3>2. EdgeOn(k, k)
      BY <3>1 DEF EdgeOn
    <3>3. QED
      BY <1>2, <3>1, <3>2
  <2>6. QED
    BY <2>1, <2>2, <2>3, <2>4, <2>5 DEF OpenAt
<1>5. ASSUME NEW j \in Ahead(k - 1)
      PROVE  \/ Faces(j)
             \/ /\ \A i \in Ahead(k) : i < j => ThroughApex(i)
                /\ OnPortal(a, Portal(j)) \/ Portal(j).l = Portal(j).r \/ EdgeOn(j, k)
  <2>1. \A i \in Ahead(k) : i < j => i \in Ahead(k - 1)
    BY <1>1, <1>2, <1>3
  <2>2. EdgeOn(j, k - 1) => j = k - 1 /\ EdgeOn(k - 1, k - 1)
    BY DEF EdgeOn
  <2>3. QED
    BY <2>1, <2>2 DEF Facing
<1>6. QED
  BY <1>2, <1>4, <1>5 DEF Facing

\* All of it after a turn.
LEMMA SightTurn ==
  ASSUME PullInv, Pulling, NEW side, SideShape(side), FreshSide(side), Last(points) <= side.idx,
         Turn(side), UNCHANGED <<corridor, lost, crossings, size>>
  PROVE  SightInv'
<1> DEFINE t == AppendVertex(WithCrossings(apex.idx, side.idx, side.pt), Corner(side))
<1> SUFFICES ASSUME Pulling' PROVE SightInv'
  BY DEF SightInv
<1>1. /\ side.idx \in 1..Polys /\ Polys \in Nat /\ Polys' = Polys
      /\ Last(t) = side.idx + 1 /\ points' = t
      /\ Shut' /\ apex'.idx = side.idx /\ at' = side.idx + 1 /\ Ahead(side.idx)' = {}
  BY AfterTurn
<1> HIDE DEF t
<1>2. at' - 1 = side.idx
  BY <1>1
<1>3. Facing(at - 1)' /\ PointsSeen(at - 1)'
  BY <1>1, <1>2 DEF Facing, PointsSeen, Ahead
<1>4. (apex.idx <= Last(points))'
  <2>1. PICK w : w = LastPoint(t)
    OBVIOUS
  <2>2. LastPoint(points)' = w
    BY <1>1, <2>1 DEF LastPoint
  <2>3. Entered(w)' = Entered(w)
    BY EnteredStays
  <2>4. QED
    BY <1>1, <2>1, <2>2, <2>3 DEF Last
<1>5. QED
  BY <1>1, <1>3, <1>4 DEF SightInv

\* What a step does that does not turn.
LEMMA SightStays ==
  ASSUME UNCHANGED <<corridor, apex, points>>, NEW m, m = at' - 1, Facing(m),
         \A j \in Ahead(m) : Portal(j).l = Portal(j).r => ThroughApex(j) \/ (left'.idx = j /\ right'.idx = j),
         at' = Polys + 1 /\ ~Shut' => left'.pt = corridor.goal /\ left'.idx = Polys,
         apex.idx <= Last(points)
  PROVE  SightInv'
<1>1. Facing(m)' /\ PointsSeen(m)' /\ Polys' = Polys
  BY FacingStays, PointsStay, PolysStay
<1>2. Facing(at - 1)' /\ PointsSeen(at - 1)'
  BY <1>1 DEF Facing, PointsSeen, Ahead
<1>3. (apex.idx <= Last(points))'
  <2>1. PICK w : w = LastPoint(points)
    OBVIOUS
  <2>2. LastPoint(points)' = w
    BY <2>1 DEF LastPoint
  <2>3. Entered(w)' = Entered(w)
    BY EnteredStays
  <2>4. QED
    BY <2>1, <2>2, <2>3 DEF Last, Entered
<1>4. QED
  BY <1>1, <1>2, <1>3 DEF SightInv

\* The portal on which the string starts is skipped.
LEMMA SightSkip ==
  ASSUME PullInv, ConeInv, SightInv, PullSkip
  PROVE  SightInv'
<1>1. /\ Pulling /\ at = 1 /\ Polys > 1 /\ OnPortal(apex.pt, corridor.portals[1]) /\ at' = at + 1
      /\ UNCHANGED <<corridor, apex, left, right, points, pulled>>
  BY DEF PullSkip, StartsOnPortal
<1>2. Polys \in Nat /\ apex.idx \in 1..Polys /\ SoundCorridor(corridor)
  BY PolysIsNat DEF PullInv, FunnelShape, ApexShape
<1>3. Shut
  <2>1. ~OpenAt(left.pt, right.pt, at - 1)
    BY <1>1, <1>2 DEF OpenAt, Ahead
  <2>2. QED
    BY <1>1, <2>1 DEF ConeInv
<1>4. apex.idx = 1
  BY <1>1, <1>3 DEF ConeInv, ShutAt
<1>5. OnPortal(apex.pt, Portal(1))
  BY <1>1 DEF Portal
<1>6. Ahead(1) = {}
  BY <1>4, <1>5 DEF Ahead
<1>7. Shut' /\ at' - 1 = 1
  BY <1>1, <1>3 DEF Shut
<1>8. Facing(1) /\ apex.idx <= Last(points)
  BY <1>1, <1>6 DEF Facing, SightInv
<1>9. PICK m : m = 1
  OBVIOUS
<1>10. QED
  BY <1>1, <1>6, <1>7, <1>8, <1>9, SightStays

\* The sides the string may turn at.
LEMMA TurningSides ==
  ASSUME PullInv, PullPortal, ~Shut, ConeInv
  PROVE  /\ SideShape(left) /\ OpenSide(left)
         /\ SideShape(SeenRight) /\ OpenSide(SeenRight)
         /\ SideShape(right) /\ OpenSide(right)
         /\ left.idx < at /\ right.idx < at /\ left.idx \in Int /\ right.idx \in Int
         /\ OpenAt(left.pt, right.pt, at - 1)
<1>1. Pulling /\ at <= Polys
  BY DEF PullPortal
<1>2. SideShape(left) /\ OpenSide(left) /\ SideShape(right) /\ OpenSide(right)
  BY <1>1 DEF PullInv, FunnelInv, FunnelShape
<1>3. SideShape(Side(Portal(at).r, at)) /\ OpenSide(Side(Portal(at).r, at))
  BY <1>1, NextSide DEF AtEnd
<1>4. left.idx < at /\ right.idx < at /\ OpenAt(left.pt, right.pt, at - 1)
  BY <1>1 DEF ConeInv
<1>5. left.idx \in Int /\ right.idx \in Int
  BY <1>2 DEF SideShape, Sides
<1>6. QED
  BY <1>2, <1>3, <1>4, <1>5 DEF SeenRight

\* The funnel narrows: the next portal faces the apex, or is shut off by it.
LEMMA SightGoesAhead ==
  ASSUME PullInv, ConeInv, SightInv, PullPortal, GoesAhead
  PROVE  SightInv'
<1> DEFINE a == apex.pt
           l == Portal(at).l
           r == Portal(at).r
<1> USE DEF PortalPoints
<1>1. PortalPoints /\ UNCHANGED <<corridor, lost, crossings, size>>
  BY PortalCases
<1>2. /\ Narrows(a, left.pt, right.pt, l, r, SeenLeft.pt, SeenRight.pt)
      /\ right' = SeenRight /\ left' = SeenLeft /\ at' = at + 1
      /\ UNCHANGED <<apex, points, pulled>>
  BY DEF GoesAhead
<1>3. Facing(at - 1) /\ PointsSeen(at - 1) /\ apex.idx <= Last(points)
  BY <1>1 DEF SightInv
<1>4. at \in Ahead(at) => Ahead(at) = Ahead(at - 1) \cup {at}
  <2> SUFFICES ASSUME at \in Ahead(at) PROVE Ahead(at) = Ahead(at - 1) \cup {at}
    OBVIOUS
  <2>1. apex.idx <= at /\ (at = apex.idx => ~OnPortal(apex.pt, Portal(at)))
    BY <1>1 DEF Ahead
  <2>2. QED
    BY <1>1, <2>1, NextAhead
<1>5. Side(l, at).pt = l /\ Side(l, at).idx = at /\ Side(r, at).pt = r /\ Side(r, at).idx = at
  BY DEF Side
<1>6. CASE Shut
  <2>1. left.pt = a /\ right.pt = a /\ ShutAt(at - 1)
    BY <1>1, <1>6 DEF Shut, ConeInv
  <2>2. at = 1 => ~OnPortal(a, Portal(1))
    BY <1>1 DEF StartsOnPortal, Portal
  <2>3. Cross(a, a, r) = 0 /\ Cross(a, l, a) = 0
    BY <1>1, CrossInt
  <2>4. SeenLeft = Side(l, at) /\ SeenRight = Side(r, at)
    BY <2>1, <2>3 DEF SeenLeft, SeenRight
  <2>5. SeenLeft.pt = l /\ SeenRight.pt = r /\ SeenLeft.idx = at /\ SeenRight.idx = at
    BY <1>5, <2>4
  <2>6. Narrows(a, a, a, l, r, l, r)
    BY <1>2, <2>1, <2>5
  <2>7. IF l = a /\ r = a THEN ShutAt(at) ELSE OpenAt(l, r, at)
    BY <1>1, <2>1, <2>2, <2>6, ShutGoesOn
  <2>8. \A j \in Ahead(at - 1) : ThroughApex(j)
    BY <2>1 DEF ShutAt
  <2>9. Facing(at)
    <3>1. CASE l = a /\ r = a
      <4>1. \A j \in Ahead(at) : ThroughApex(j)
        BY <2>7, <3>1 DEF ShutAt
      <4>2. QED
        BY <1>1, <4>1, ThroughFaces
    <3>2. CASE ~(l = a /\ r = a)
      <4>1. at - 1 \in Ahead(at - 1) => OnPortal(a, Portal(at - 1))
        <5> SUFFICES ASSUME at - 1 \in Ahead(at - 1) PROVE OnPortal(a, Portal(at - 1))
          OBVIOUS
        <5>1. ThroughApex(at - 1) /\ at - 1 \in 1..Polys
          BY <1>1, <2>8 DEF Ahead
        <5>2. QED
          BY <1>1, <5>1, PortalPlaces, EndsAreOnPortal DEF ThroughApex
      <4>2. QED
        BY <1>1, <1>3, <2>7, <2>8, <3>2, <4>1, FacesNext
    <3>3. QED
      BY <3>1, <3>2
  <2>10. ASSUME NEW j \in Ahead(at) PROVE ThroughApex(j) \/ (left'.idx = j /\ right'.idx = j)
    <3>1. j = at \/ j \in Ahead(at - 1)
      <4>1. j \in apex.idx..at /\ (j = apex.idx => ~OnPortal(a, Portal(j)))
        BY DEF Ahead
      <4>2. j # at => j \in apex.idx..(at - 1)
        BY <1>1, <4>1
      <4>3. QED
        BY <4>1, <4>2 DEF Ahead
    <3>2. QED
      BY <1>2, <2>5, <2>8, <3>1
  <2>11. at' = Polys + 1 => left'.pt = corridor.goal /\ left'.idx = Polys
    <3> SUFFICES ASSUME at' = Polys + 1 PROVE left'.pt = corridor.goal /\ left'.idx = Polys
      OBVIOUS
    <3>1. at = Polys
      BY <1>1, <1>2
    <3>2. l = corridor.goal
      BY <1>1, <3>1 DEF Portal
    <3>3. QED
      BY <1>2, <2>5, <3>1, <3>2
  <2>12. PICK m : m = at
    OBVIOUS
  <2>13. m = at' - 1
    BY <1>1, <1>2, <2>12
  <2>14. QED
    BY <1>1, <1>2, <1>3, <2>9, <2>10, <2>11, <2>12, <2>13, SightStays
<1>7. CASE ~Shut
  <2>1. /\ OpenAt(left.pt, right.pt, at - 1) /\ FreshSide(left) /\ FreshSide(right)
    BY <1>7, TurningSides DEF OpenSide
  <2>2. PICK L, R : L = SeenLeft.pt /\ R = SeenRight.pt
    OBVIOUS
  <2>3. OpenAt(L, R, at) /\ l # r
    BY <1>1, <1>2, <2>1, <2>2, OpenGoesOn
  <2>4. Facing(at)
    <3>1. \/ ~EdgeOn(at - 1, at - 1)
          \/ OnPortal(a, Portal(at - 1)) \/ Portal(at - 1).l = Portal(at - 1).r
      BY <1>1, <1>2, <2>1, <2>2, OpenIsFaced
    <3>2. QED
      BY <1>1, <1>3, <2>2, <2>3, <3>1, FacesNext
  <2>5. ASSUME NEW j \in Ahead(at), Portal(j).l = Portal(j).r
        PROVE  ThroughApex(j) \/ (left'.idx = j /\ right'.idx = j)
    <3>1. at \in Ahead(at) /\ j # at
      BY <2>3, <2>5 DEF OpenAt
    <3>2. j \in Ahead(at - 1)
      BY <1>4, <3>1
    <3>3. ThroughApex(j) \/ (left.idx = j /\ right.idx = j)
      BY <1>3, <2>5, <3>2 DEF PointsSeen
    <3>4. ASSUME left.idx = j, right.idx = j PROVE SeenLeft = left /\ SeenRight = right
      <4>1. PICK e : e = left.pt
        OBVIOUS
      <4>2. left.pt = e /\ right.pt = e /\ a # e
        BY <1>7, <2>1, <2>5, <3>4, <4>1 DEF FreshSide, AtEnd, Shut
      <4>3. Narrows(a, e, e, l, r, SeenLeft.pt, SeenRight.pt) /\ e \in Places
        BY <1>1, <1>2, <4>2
      <4>4. SeenLeft.pt = e /\ SeenRight.pt = e /\ e # l /\ e # r
        BY <1>1, <4>2, <4>3, RayNarrows
      <4>5. SeenLeft # Side(l, at) /\ SeenRight # Side(r, at)
        BY <1>5, <4>4
      <4>6. QED
        BY <4>5 DEF SeenLeft, SeenRight
    <3>5. QED
      BY <1>2, <3>3, <3>4
  <2>6. at' # Polys + 1
    <3>1. at # Polys
      BY <1>1, <2>3 DEF Portal
    <3>2. QED
      BY <1>1, <1>2, <3>1
  <2>7. PICK m : m = at
    OBVIOUS
  <2>8. m = at' - 1
    BY <1>1, <1>2, <2>7
  <2>9. QED
    BY <1>1, <1>2, <1>3, <2>4, <2>5, <2>6, <2>7, <2>8, SightStays
<1>8. QED
  BY <1>6, <1>7

\* One turn of the loop.
LEMMA SightPortal ==
  ASSUME PullInv, ConeInv, SightInv, PullPortal
  PROVE  SightInv'
<1>1. /\ Pulling /\ UNCHANGED <<corridor, lost, crossings, size>>
      /\ \/ ~Shut /\ TurnsLeft /\ Turn(left)
         \/ ~Shut /\ TurnsRight /\ Turn(SeenRight)
         \/ GoesAhead
  BY PortalCases DEF PortalPoints
<1>2. ASSUME ~Shut, NEW side, side = left \/ side = SeenRight, Turn(side) PROVE SightInv'
  <2>1. SideShape(side) /\ OpenSide(side)
    <3>1. SideShape(left) /\ OpenSide(left) /\ SideShape(SeenRight) /\ OpenSide(SeenRight)
      BY <1>2, TurningSides
    <3>2. CASE side = left
      BY <3>1, <3>2 DEF SideShape, OpenSide, FreshSide, AtEnd, Side
    <3>3. CASE side = SeenRight
      BY <3>1, <3>3 DEF SideShape, OpenSide, FreshSide, AtEnd, Side
    <3>4. QED
      BY <1>2, <3>2, <3>3
  <2>2. QED
    BY <1>1, <1>2, <2>1, SightTurn DEF OpenSide
<1>3. CASE ~Shut /\ Turn(left)
  <2>1. PICK side : side = left
    OBVIOUS
  <2>2. Turn(side)
    BY <1>3, <2>1 DEF Turn
  <2>3. QED
    BY <1>2, <1>3, <2>1, <2>2
<1>4. CASE ~Shut /\ Turn(SeenRight)
  <2>1. PICK side : side = SeenRight
    OBVIOUS
  <2>2. Turn(side)
    BY <1>4, <2>1 DEF Turn
  <2>3. QED
    BY <1>2, <1>4, <2>1, <2>2
<1>5. QED
  BY <1>1, <1>3, <1>4, SightGoesAhead

\* The call.
LEMMA SightBegin ==
  ASSUME NEW c \in Corridors, NEW n \in Sizes, NEW all \in BOOLEAN, NEW gone \in 0..PolyCount(c),
         PullBegin(c, n, all, gone)
  PROVE  SightInv'
<1> DEFINE v == Vertex(c.start, "start", 1)
<1> SUFFICES ASSUME Pulling' PROVE SightInv'
  BY DEF SightInv
<1>1. /\ corridor' = c /\ at' = 1 /\ apex' = [pt |-> c.start, idx |-> 1]
      /\ left'.pt = c.start /\ right'.pt = c.start
      /\ points' = <<v>>
  BY DEF PullBegin, Status, Pulling
<1>2. Shut'
  BY <1>1 DEF Shut
<1>3. at' - 1 = 0 /\ apex'.idx = 1
  BY <1>1
<1>4. Ahead(0)' = {}
  BY <1>3 DEF Ahead
<1>5. Facing(at - 1)' /\ PointsSeen(at - 1)'
  BY <1>3, <1>4 DEF Facing, PointsSeen, Ahead
<1>6. Last(points)' = 1
  <2>1. v.ref = 1
    BY DEF Vertex
  <2> HIDE DEF v
  <2>2. LastPoint(points)' = v
    BY <1>1 DEF LastPoint
  <2>3. QED
    BY <2>1, <2>2 DEF Last, Entered
<1>7. QED
  BY <1>2, <1>3, <1>5, <1>6 DEF SightInv

\* Steps that leave the funnel alone, or end it.
LEMMA SightRests ==
  ASSUME SightInv, UNCHANGED pullVars
  PROVE  SightInv'
<1>1. UNCHANGED <<corridor, at, apex, left, right, points, pulled>>
  BY DEF pullVars
<1> SUFFICES ASSUME Pulling PROVE SightInv'
  BY <1>1 DEF SightInv, Pulling
<1>2. PICK m : m = at - 1
  OBVIOUS
<1>3. /\ Facing(m) /\ PointsSeen(m) /\ apex.idx <= Last(points)
      /\ at = Polys + 1 /\ ~Shut => left.pt = corridor.goal /\ left.idx = Polys
  BY <1>2 DEF SightInv, Facing, PointsSeen, Ahead
<1>4. m = at' - 1 /\ (Shut' <=> Shut)
  BY <1>1, <1>2 DEF Shut
<1>5. QED
  BY <1>1, <1>3, <1>4, SightStays DEF PointsSeen

\* What a step may be for the string.
LEMMA PathSteps ==
  ASSUME [Next]_vars
  PROVE  \/ UNCHANGED pullVars
         \/ pulled'.code = "none"
         \/ \E c \in Corridors, n \in Sizes, all \in BOOLEAN : \E gone \in 0..PolyCount(c) : PullBegin(c, n, all, gone)
         \/ PullSkip \/ PullPortal \/ PullEnd
         \/ pulled'.code = "success" /\ "partial" \in pulled'.flags
<1>1. CASE Call
  <2>1. ASSUME NEW c \in Corridors, NEW n \in Sizes, NEW s \in Searches, NEW all \in BOOLEAN,
               FoundCorridor(c, s, n, all)
        PROVE  0 \in 0..PolyCount(c) /\ PullBegin(c, n, all, 0)
    <3>1. c.portals \in Seq([l : Places, r : Places])
      BY CorridorsAssumption DEF SoundCorridor
    <3>2. Len(c.portals) \in Nat
      BY <3>1
    <3>3. QED
      BY <2>1, <3>2 DEF PolyCount, FoundCorridor
  <2>2. ASSUME NEW c \in Corridors, NEW n \in Sizes, NEW gone \in 0..PolyCount(c), SlicedCorridor(c, n, gone)
        PROVE  PullBegin(c, n, TRUE, gone)
    BY <2>2 DEF SlicedCorridor
  <2>3. NoTile \/ (\E step \in {"startpoly", "endpoly"} : NoPoly(step))
          \/ (\E far \in BOOLEAN : SamePoly(far)) \/ (\E flags \in {{}, {"param"}} : NoCorridor(flags))
          => UNCHANGED pullVars
    BY DEF NoTile, NoPoly, SamePoly, NoCorridor
  <2>4. TRUE \in BOOLEAN
    OBVIOUS
  <2>5. QED
    BY <1>1, <2>1, <2>2, <2>3, <2>4 DEF Call
<1>2. CASE Pull
  <2>1. ASSUME NEW pt \in Clamped, PullLost(pt)
        PROVE  pulled'.code = "success" /\ "partial" \in pulled'.flags
    BY <2>1 DEF PullLost, Status
  <2>2. QED
    BY <1>2, <2>1 DEF Pull
<1>3. CASE PointPath \/ SlicedPath
  BY <1>3 DEF PointPath, SlicedPath, Status
<1>4. CASE Returned
  BY <1>4 DEF Returned, Status
<1>5. CASE UNCHANGED vars
  BY <1>5 DEF vars
<1>6. QED
  BY <1>1, <1>2, <1>3, <1>4, <1>5 DEF Next

\* The invariant is inductive, relative to those before it.
LEMMA SightNext == PathIInv /\ ConeInv /\ SightInv /\ [Next]_vars => SightInv'
<1> SUFFICES ASSUME PathIInv, ConeInv, SightInv, [Next]_vars PROVE SightInv'
  OBVIOUS
<1>1. CASE pulled'.code \in {"none", "success"}
  BY <1>1 DEF SightInv, Pulling
<1>2. CASE PullEnd
  BY <1>1, <1>2 DEF PullEnd, Status
<1>3. QED
  BY <1>1, <1>2, PathSteps, SightBegin, SightSkip, SightPortal, SightRests DEF PathIInv

\* The apex sees every portal behind its own.
LEMMA SightInvariant == Spec => []SightInv
<1>1. Init => SightInv
  BY DEF Init, SightInv, Pulling, Status
<1>2. QED
  BY <1>1, SightNext, PathInvariant, ConeInvariant, PTL DEF Spec

\* The string may go straight to a side of the funnel.
LEMMA AimAtSide ==
  ASSUME SoundCorridor(corridor), ApexShape, NEW m \in 0..Polys, Facing(m), PointsSeen(m),
         NEW x, NEW k \in apex.idx..Polys, k <= m, AtEnd(x, k),
         \A j \in Ahead(k - 1) : Passes(x, j) /\ ~(left.idx = j /\ right.idx = j)
  PROVE  Aim(x, k)
<1>1. Polys \in Nat /\ apex.pt \in Places /\ apex.idx \in 1..Polys
  BY PolysIsNat DEF ApexShape
<1>2. \A j \in Ahead(k - 1) : j \in Ahead(m) /\ j \in 1..Polys /\ ~EdgeOn(j, m)
  BY <1>1 DEF Ahead, EdgeOn
<1> SUFFICES ASSUME NEW j \in Ahead(k - 1)
             PROVE  \/ Faces(j)
                    \/ OnPortal(apex.pt, Portal(j)) /\ \A i \in Ahead(k - 1) : i < j => ThroughApex(i)
  BY DEF Aim
<1>3. CASE Faces(j)
  BY <1>3
<1>4. CASE ~Faces(j)
  <2>1. /\ \A i \in Ahead(m) : i < j => ThroughApex(i)
        /\ OnPortal(apex.pt, Portal(j)) \/ Portal(j).l = Portal(j).r
    BY <1>2, <1>4 DEF Facing
  <2>2. ASSUME Portal(j).l = Portal(j).r PROVE OnPortal(apex.pt, Portal(j))
    <3>1. ThroughApex(j)
      BY <1>2, <2>2 DEF PointsSeen
    <3>2. QED
      BY <1>2, <3>1, PortalPlaces, EndsAreOnPortal DEF ThroughApex
  <2>3. QED
    BY <1>2, <2>1, <2>2
<1>5. QED
  BY <1>3, <1>4

\* Where the string turns, it may go straight to the side.
LEMMA TurnAims ==
  ASSUME PullInv, ConeInv, SightInv, PullPortal, ~Shut
  PROVE  /\ Aim(left.pt, left.idx)
         /\ TurnsRight => Aim(SeenRight.pt, SeenRight.idx)
<1> DEFINE a == apex.pt
           r == Portal(at).r
           m == at - 1
<1> USE DEF PortalPoints
<1>1. PortalPoints
  BY PortalCases
<1>2. /\ SideShape(left) /\ OpenSide(left) /\ SideShape(right) /\ OpenSide(right)
      /\ left.idx < at /\ right.idx < at /\ left.idx \in Int /\ right.idx \in Int
      /\ OpenAt(left.pt, right.pt, m)
  BY TurningSides
<1>3. Facing(m) /\ PointsSeen(m) /\ m \in 0..Polys
  BY <1>1 DEF SightInv
<1>4. \A j \in Ahead(m) : Passes(left.pt, j) /\ Passes(right.pt, j)
  BY <1>2 DEF OpenAt
<1>5. ASSUME NEW k \in Int, k <= at PROVE \A j \in Ahead(k - 1) : j # k /\ j \in Ahead(m)
  BY <1>1, <1>5 DEF Ahead
<1>6. Aim(left.pt, left.idx)
  <2>1. left.idx \in apex.idx..Polys /\ left.idx <= m /\ AtEnd(left.pt, left.idx)
    BY <1>1, <1>2 DEF SideShape, OpenSide, FreshSide
  <2>2. \A j \in Ahead(left.idx - 1) : j # left.idx /\ j \in Ahead(m)
    BY <1>1, <1>2, <1>5
  <2>3. QED
    BY <1>1, <1>3, <1>4, <2>1, <2>2, AimAtSide
<1>7. Aim(right.pt, right.idx)
  <2>1. right.idx \in apex.idx..Polys /\ right.idx <= m /\ AtEnd(right.pt, right.idx)
    BY <1>1, <1>2 DEF SideShape, OpenSide, FreshSide
  <2>2. \A j \in Ahead(right.idx - 1) : j # right.idx /\ j \in Ahead(m)
    BY <1>1, <1>2, <1>5
  <2>3. QED
    BY <1>1, <1>3, <1>4, <2>1, <2>2, AimAtSide
<1>8. ASSUME TurnsRight, Cross(a, right.pt, r) >= 0 PROVE Aim(r, at)
  <2>1. left.pt # a /\ (a = right.pt \/ Cross(a, r, left.pt) > 0)
    BY <1>8 DEF TurnsRight
  <2>2. at \in apex.idx..Polys /\ at <= m + 1 /\ AtEnd(r, at)
    <3>1. m \in Ahead(m)
      BY <1>2 DEF OpenAt
    <3>2. QED
      BY <1>1, <3>1 DEF Ahead, AtEnd
  <2>3. ASSUME NEW j \in Ahead(m) PROVE Passes(r, j)
    BY <1>1, <1>2, <1>8, <2>1, NextPasses
  <2>4. ASSUME NEW j \in Ahead(m), left.idx = j, right.idx = j, Portal(j).l = Portal(j).r PROVE FALSE
    <3>1. left.pt = right.pt
      BY <1>2, <2>4 DEF OpenSide, FreshSide, AtEnd
    <3>2. Cross(a, right.pt, r) = -Cross(a, r, right.pt) /\ Cross(a, r, right.pt) \in Int
      BY <1>1, CrossInt
    <3>3. QED
      BY <1>8, <2>1, <3>1, <3>2
  <2>5. ASSUME NEW j \in Ahead(at - 1)
        PROVE  \/ Faces(j)
               \/ OnPortal(apex.pt, Portal(j)) /\ \A i \in Ahead(at - 1) : i < j => ThroughApex(i)
    <3>1. ASSUME Portal(j).l = Portal(j).r PROVE OnPortal(apex.pt, Portal(j))
      <4>1. ThroughApex(j)
        BY <1>3, <2>4, <3>1 DEF PointsSeen
      <4>2. j \in 1..Polys
        BY <1>1 DEF Ahead
      <4>3. QED
        BY <4>1, <4>2, <1>1, PortalPlaces, EndsAreOnPortal DEF ThroughApex
    <3>2. ASSUME EdgeOn(j, m) PROVE OnPortal(apex.pt, Portal(j))
      <4>1. j = m /\ EdgeOn(m, m) /\ m \in 1..Polys
        BY <1>1, <3>2 DEF EdgeOn, Ahead
      <4>2. CASE Flat(left.pt, right.pt, m)
        BY <1>1, <1>8, <2>1, <4>1, <4>2, FlatSeen
      <4>3. CASE ~Flat(left.pt, right.pt, m)
        BY <1>1, <1>2, <3>1, <4>1, <4>3, EdgeOnKinds
      <4>4. QED
        BY <4>2, <4>3
    <3>3. QED
      BY <1>3, <3>1, <3>2 DEF Facing
  <2>6. QED
    BY <2>2, <2>3, <2>5 DEF Aim
<1>9. ASSUME TurnsRight PROVE Aim(SeenRight.pt, SeenRight.idx)
  <2>1. Side(r, at).pt = r /\ Side(r, at).idx = at
    BY DEF Side
  <2>2. CASE Cross(a, right.pt, r) >= 0
    <3>1. SeenRight.pt = r /\ SeenRight.idx = at
      BY <2>1, <2>2 DEF SeenRight
    <3>2. QED
      BY <1>8, <1>9, <2>2, <3>1
  <2>3. CASE ~(Cross(a, right.pt, r) >= 0)
    <3>1. SeenRight = right
      BY <2>3 DEF SeenRight
    <3>2. QED
      BY <1>7, <3>1
  <2>4. QED
    BY <2>2, <2>3
<1>10. QED
  BY <1>6, <1>9

\* Behind the loop it may go straight to the goal.
LEMMA GoalAim ==
  ASSUME PullInv, ConeInv, SightInv, PullEnd, Polys # 1
  PROVE  Aim(corridor.goal, Polys) /\ (Shut => apex.pt = corridor.goal)
<1> DEFINE g == corridor.goal
           m == at - 1
<1>1. Pulling /\ (at > Polys \/ Polys = 1)
  BY DEF PullEnd
<1>2. /\ Polys \in Nat /\ Polys >= 1 /\ at \in 1..(Polys + 1)
      /\ SoundCorridor(corridor) /\ ApexShape /\ apex.pt \in Places /\ apex.idx \in 1..Polys
  BY <1>1, PolysIsNat DEF PullInv, FunnelShape, ApexShape
<1>3. at = Polys + 1 /\ m = Polys /\ Polys \in 0..Polys /\ Polys \in 1..Polys /\ Polys \in apex.idx..Polys
  BY <1>1, <1>2
<1>4. Portal(Polys).l = g /\ Portal(Polys).r = g /\ AtEnd(g, Polys)
  BY <1>2 DEF Portal, AtEnd
<1>5. Facing(Polys) /\ PointsSeen(Polys)
  BY <1>1, <1>3 DEF SightInv
<1>6. CASE Shut
  <2>1. ShutAt(Polys)
    BY <1>1, <1>3, <1>6 DEF ConeInv
  <2>2. OnPortal(apex.pt, Portal(Polys)) /\ \A j \in Ahead(Polys) : ThroughApex(j)
    BY <1>2, <2>1 DEF ShutAt
  <2>3. apex.pt = g
    BY <1>2, <1>3, <1>4, <2>2, PortalPlaces, OnlyPlace
  <2>4. ASSUME NEW j \in Ahead(Polys - 1)
        PROVE  ThroughApex(j) /\ OnPortal(apex.pt, Portal(j)) /\ Passes(g, j)
    <3>1. j \in Ahead(Polys) /\ j \in 1..Polys
      BY <1>2 DEF Ahead
    <3>2. ThroughApex(j) /\ g \in Places
      BY <1>2, <2>2, <2>3, <3>1
    <3>3. OnPortal(apex.pt, Portal(j))
      BY <1>2, <3>1, <3>2, PortalPlaces, EndsAreOnPortal DEF ThroughApex
    <3>4. QED
      BY <1>2, <3>2, <3>3, ThroughApexPasses
  <2>5. QED
    BY <1>3, <1>4, <2>3, <2>4 DEF Aim
<1>7. CASE ~Shut
  <2>1. left.pt = g /\ left.idx = Polys /\ OpenAt(g, right.pt, Polys)
    BY <1>1, <1>3, <1>7 DEF SightInv, ConeInv
  <2>2. \A j \in Ahead(Polys - 1) : j \in Ahead(Polys) /\ j # Polys
    BY <1>2 DEF Ahead
  <2>3. \A j \in Ahead(Polys - 1) : Passes(g, j) /\ ~(left.idx = j /\ right.idx = j)
    BY <2>1, <2>2 DEF OpenAt
  <2>4. Polys <= Polys
    BY <1>2
  <2>5. QED
    BY <1>2, <1>3, <1>4, <1>5, <1>7, <2>3, <2>4, AimAtSide
<1>8. QED
  BY <1>6, <1>7

\* Where the string goes when it turns, unless the array is full.
LEMMA TurnGoes ==
  ASSUME PullInv, Pulling, Met(points), apex.idx <= Last(points),
         NEW side, SideShape(side), FreshSide(side), Last(points) <= side.idx, Aim(side.pt, side.idx),
         Turn(side), UNCHANGED <<corridor, lost, crossings, size>>, Pulling' \/ Complete'
  PROVE  /\ \E t : /\ points' = t /\ Stretched(t, side.pt, side.idx) /\ Met(t)
                   /\ Entered(LastPoint(t)) = side.idx + 1
         /\ apex'.pt = side.pt /\ apex'.idx = side.idx /\ at' = side.idx + 1 /\ Shut'
<1> DEFINE s == WithCrossings(apex.idx, side.idx, side.pt)
           v == Corner(side)
           t == AppendVertex(s, v)
<1>1. /\ side.pt \in Places /\ side.idx \in apex.idx..Polys /\ SoundCorridor(corridor) /\ ApexShape
      /\ v \in Vertices /\ Entered(v) = side.idx + 1 /\ v.pt = side.pt /\ Last(t) = side.idx + 1
      /\ points' = t /\ ~IsFull(s) /\ Shut'
      /\ apex'.pt = side.pt /\ apex'.idx = side.idx /\ at' = side.idx + 1
  BY AfterTurn
<1>2. size \in Nat /\ crossings \in BOOLEAN /\ AtApex(points)
  BY SizeIsNat DEF PullInv, FunnelShape, FunnelInv
<1>3. PICK w, c : w = s /\ c = v
  OBVIOUS
<1>4. /\ ~IsFull(w) /\ w = WithCrossings(apex.idx, side.idx, side.pt)
      /\ c \in Vertices /\ c.pt = side.pt /\ Entered(c) = side.idx + 1
      /\ points' = AppendVertex(w, c) /\ Entered(LastPoint(AppendVertex(w, c))) = side.idx + 1
  <2> HIDE DEF v
  <2>1. QED
    BY <1>1, <1>3 DEF Last
<1> HIDE DEF s, v, t
<1>5. Stretched(AppendVertex(w, c), side.pt, side.idx) /\ Met(AppendVertex(w, c))
  BY <1>1, <1>2, <1>4, StringGoes
<1>6. QED
  BY <1>1, <1>4, <1>5

\* Where it goes at the end.
LEMMA EndGoes ==
  ASSUME PullInv, ConeInv, SightInv, PullEnd, Polys # 1, Met(points), Complete'
  PROVE  \E t : points' = t /\ Stretched(t, corridor.goal, Polys) /\ Met(t)
<1> DEFINE g == corridor.goal
           s == WithCrossings(apex.idx, Polys, g)
           v == Vertex(g, "end", 0)
           t == IF IsFull(s) THEN s ELSE AppendVertex(s, v)
           flags == IF IsFull(t) THEN {"small"} ELSE {}
<1>1. Pulling /\ points' = t /\ pulled' = Status("success", flags)
  BY DEF PullEnd
<1>2. /\ Polys \in Nat /\ SoundCorridor(corridor) /\ ApexShape /\ crossings \in BOOLEAN /\ AtApex(points)
      /\ apex.idx <= Last(points) /\ g \in Places
  BY <1>1, PolysIsNat DEF PullInv, FunnelShape, ApexShape, FunnelInv, SoundCorridor, SightInv
<1>3. Aim(g, Polys)
  BY GoalAim
<1>4. v \in Vertices /\ v.pt = g /\ Entered(v) = Polys + 1
  <2>1. g \in Spots
    BY <1>2, PlaceIsSpot
  <2>2. v \in Vertices /\ v.ref = 0 /\ v.pt = g
    BY <2>1 DEF Vertices, Vertex, Flags
  <2>3. QED
    BY <2>2 DEF Entered
<1>5. ~IsFull(t)
  BY <1>1 DEF Complete, Status
<1> HIDE DEF s, v, flags
<1>6. ~IsFull(s) /\ t = AppendVertex(s, v)
  BY <1>5
<1>7. PICK w : w = s
  OBVIOUS
<1>8. PICK c : c = v
  OBVIOUS
<1>9. ~IsFull(w) /\ w = WithCrossings(apex.idx, Polys, g)
  BY <1>6, <1>7 DEF IsFull, s
<1>10. c \in Vertices /\ c.pt = g /\ Entered(c) = Polys + 1
  BY <1>4, <1>8 DEF Entered
<1>11. Stretched(AppendVertex(w, c), g, Polys) /\ Met(AppendVertex(w, c))
  BY <1>2, <1>3, <1>9, <1>10, StringGoes
<1>12. points' = AppendVertex(w, c)
  BY <1>1, <1>6, <1>7, <1>8
<1>13. QED
  BY <1>11, <1>12

\* The string goes through every portal up to where it has come.
MetInv == Pulling \/ Complete => Met(points)

\* A string that is left alone, or is as good, keeps to the corridor.
LEMMA MetStays ==
  ASSUME UNCHANGED corridor, NEW t, Met(t), points' = t
  PROVE  MetInv'
<1>1. \A k : Portal(k)' = Portal(k)
  BY PortalsStay
<1>2. Polys' = Polys
  BY PolysStay
<1>3. \A i : Entered(t[i])' = Entered(t[i])
  BY <1>2 DEF Entered
<1>4. Met(t)'
  BY <1>1, <1>2, <1>3 DEF Met, Meets
<1>5. Met(points)'
  BY <1>4 DEF Met, Entered
<1>6. QED
  BY <1>5 DEF MetInv

\* The loop turns at a side of the funnel or goes on.
LEMMA TurnsOrGoes ==
  ASSUME PullInv, ConeInv, SightInv, PullPortal
  PROVE  \/ GoesAhead
         \/ \E side : /\ ~Shut /\ Turn(side)
                      /\ \/ side = left /\ TurnsLeft
                         \/ side = SeenRight /\ TurnsRight
                      /\ SideShape(side) /\ FreshSide(side) /\ Last(points) <= side.idx /\ Aim(side.pt, side.idx)
<1>1. \/ ~Shut /\ TurnsLeft /\ Turn(left)
      \/ ~Shut /\ TurnsRight /\ Turn(SeenRight)
      \/ GoesAhead
  BY PortalCases
<1>2. ASSUME ~Shut, NEW side, (side = left /\ TurnsLeft) \/ (side = SeenRight /\ TurnsRight)
      PROVE  SideShape(side) /\ FreshSide(side) /\ Last(points) <= side.idx /\ Aim(side.pt, side.idx)
  <2>1. /\ SideShape(left) /\ OpenSide(left) /\ SideShape(SeenRight) /\ OpenSide(SeenRight)
        /\ Aim(left.pt, left.idx) /\ (TurnsRight => Aim(SeenRight.pt, SeenRight.idx))
    BY <1>2, TurningSides, TurnAims
  <2>2. CASE side = left
    BY <2>1, <2>2 DEF SideShape, OpenSide, FreshSide, AtEnd, Side, Aim, Passes
  <2>3. CASE side = SeenRight /\ TurnsRight
    BY <2>1, <2>3 DEF SideShape, OpenSide, FreshSide, AtEnd, Side, Aim, Passes
  <2>4. QED
    BY <1>2, <2>2, <2>3
<1>3. CASE ~Shut /\ TurnsLeft /\ Turn(left)
  <2>1. PICK side : side = left
    OBVIOUS
  <2>2. Turn(side)
    BY <1>3, <2>1 DEF Turn
  <2>3. QED
    BY <1>2, <1>3, <2>1, <2>2
<1>4. CASE ~Shut /\ TurnsRight /\ Turn(SeenRight)
  <2>1. PICK side : side = SeenRight
    OBVIOUS
  <2>2. Turn(side)
    BY <1>4, <2>1 DEF Turn
  <2>3. QED
    BY <1>2, <1>4, <2>1, <2>2
<1>5. QED
  BY <1>1, <1>3, <1>4

\* The invariant is inductive, relative to those before it.
LEMMA MetNext == PathIInv /\ ConeInv /\ SightInv /\ MetInv /\ [Next]_vars => MetInv'
<1> SUFFICES ASSUME PathIInv, ConeInv, SightInv, MetInv, [Next]_vars PROVE MetInv'
  OBVIOUS
<1>1. PullInv
  BY DEF PathIInv
<1>2. CASE UNCHANGED pullVars
  <2>1. UNCHANGED <<corridor, points, pulled>>
    BY <1>2 DEF pullVars
  <2>2. CASE Pulling \/ Complete
    <3>1. PICK t : t = points
      OBVIOUS
    <3>2. Met(t) /\ points' = t
      BY <2>1, <2>2, <3>1 DEF MetInv
    <3>3. QED
      BY <2>1, <3>2, MetStays
  <2>3. CASE ~(Pulling \/ Complete)
    BY <2>1, <2>3 DEF MetInv, Pulling, Complete, Pulled
  <2>4. QED
    BY <2>2, <2>3
<1>3. CASE pulled'.code = "none" \/ (pulled'.code = "success" /\ "partial" \in pulled'.flags)
  BY <1>3 DEF MetInv, Pulling, Complete, Pulled
<1>4. ASSUME NEW c \in Corridors, NEW n \in Sizes, NEW all \in BOOLEAN, NEW gone \in 0..PolyCount(c),
             PullBegin(c, n, all, gone)
      PROVE  MetInv'
  <2>1. points' = <<>> \/ points' = <<Vertex(c.start, "start", 1)>>
    BY <1>4 DEF PullBegin
  <2>2. Len(points') = 0 \/ Len(points') = 1
    BY <2>1
  <2>3. 1..(0 - 1) = {} /\ 1..(1 - 1) = {}
    OBVIOUS
  <2>4. 1..(Len(points') - 1) = {}
    BY <2>2, <2>3
  <2>5. QED
    BY <2>4 DEF MetInv, Met
<1>5. CASE PullSkip
  <2>1. Pulling /\ UNCHANGED <<corridor, points>>
    BY <1>5 DEF PullSkip
  <2>2. PICK t : t = points
    OBVIOUS
  <2>3. Met(t) /\ points' = t
    BY <2>1, <2>2 DEF MetInv
  <2>4. QED
    BY <2>1, <2>3, MetStays
<1>6. CASE PullPortal
  <2>1. Pulling /\ UNCHANGED <<corridor, lost, crossings, size>>
    BY <1>6 DEF PullPortal
  <2>2. Met(points) /\ apex.idx <= Last(points)
    BY <2>1 DEF MetInv, SightInv
  <2>3. CASE GoesAhead
    <3>1. points' = points
      BY <2>3 DEF GoesAhead
    <3>2. PICK t : t = points
      OBVIOUS
    <3>3. QED
      BY <2>1, <2>2, <3>1, <3>2, MetStays
  <2>4. ASSUME NEW side, Turn(side), SideShape(side), FreshSide(side), Last(points) <= side.idx,
               Aim(side.pt, side.idx)
        PROVE  MetInv'
    <3> SUFFICES ASSUME Pulling' \/ Complete' PROVE MetInv'
      BY DEF MetInv
    <3>1. \E t : points' = t /\ Met(t)
      BY <1>1, <2>1, <2>2, <2>4, TurnGoes
    <3>2. QED
      BY <2>1, <3>1, MetStays
  <2>5. QED
    BY <1>1, <1>6, <2>3, <2>4, TurnsOrGoes
<1>7. CASE PullEnd
  <2> SUFFICES ASSUME Pulling' \/ Complete' PROVE MetInv'
    BY DEF MetInv
  <2>1. Pulling /\ UNCHANGED corridor /\ pulled'.code = "success"
    BY <1>7 DEF PullEnd, Status
  <2>2. CASE Polys = 1
    <3>1. Polys' = 1
      BY <2>1, <2>2, PolysStay
    <3>2. 1..(Polys' - 1) = {}
      BY <3>1
    <3>3. QED
      BY <3>2 DEF MetInv, Met
  <2>3. CASE Polys # 1
    <3>1. Complete' /\ Met(points)
      BY <2>1 DEF Pulling, MetInv
    <3>2. \E t : points' = t /\ Met(t)
      BY <1>1, <1>7, <2>3, <3>1, EndGoes
    <3>3. QED
      BY <2>1, <3>2, MetStays
  <2>4. QED
    BY <2>2, <2>3
<1>8. QED
  BY <1>2, <1>3, <1>4, <1>5, <1>6, <1>7, PathSteps

\* The string goes through every portal up to the apex.
LEMMA MetInvariant == Spec => []MetInv
<1>1. Init => MetInv
  BY DEF Init, MetInv, Pulling, Complete, Pulled, Status
<1>2. QED
  BY <1>1, MetNext, PathInvariant, ConeInvariant, SightInvariant, PTL DEF Spec
-----------------------------------------------------------------------------
(* The sides of an open funnel                                             *)

\* Each side is an end of its portal, and the portals behind that one leave
\* it alone.
EdgeInv ==
  Pulling /\ ~Shut =>
    /\ left.idx \in Ahead(at - 1) /\ right.idx \in Ahead(at - 1)
    /\ left.pt = Portal(left.idx).l /\ right.pt = Portal(right.idx).r
    /\ \A j \in (left.idx + 1)..(at - 1) : Cross(apex.pt, left.pt, Portal(j).l) > 0
    /\ \A j \in (right.idx + 1)..(at - 1) : Cross(apex.pt, right.pt, Portal(j).r) < 0

\* Where the funnel is shut and stays so, or nothing moves.
LEMMA EdgeGoesAhead ==
  ASSUME PullInv, ConeInv, SightInv, EdgeInv, PullPortal, GoesAhead
  PROVE  EdgeInv'
<1> DEFINE a == apex.pt
           l == Portal(at).l
           r == Portal(at).r
<1> SUFFICES ASSUME ~Shut' PROVE EdgeInv'
  BY DEF EdgeInv
<1> USE DEF PortalPoints
<1>1. PortalPoints /\ UNCHANGED <<corridor, lost, crossings, size>>
  BY PortalCases
<1>2. /\ Narrows(a, left.pt, right.pt, l, r, SeenLeft.pt, SeenRight.pt)
      /\ right' = SeenRight /\ left' = SeenLeft /\ at' = at + 1 /\ at' - 1 = at
      /\ UNCHANGED <<apex, points, pulled>>
  BY <1>1 DEF GoesAhead
<1>3. Side(l, at).pt = l /\ Side(l, at).idx = at /\ Side(r, at).pt = r /\ Side(r, at).idx = at
  BY DEF Side
<1>4. (at + 1)..at = {}
  BY <1>1
<1>5. /\ at \in Ahead(at)
      /\ \/ SeenLeft.pt = l /\ SeenLeft.idx = at
         \/ /\ ~Shut /\ SeenLeft = left /\ left.idx \in Ahead(at)
            /\ left.pt = Portal(left.idx).l
            /\ \A j \in (left.idx + 1)..at : Cross(a, left.pt, Portal(j).l) > 0
      /\ \/ SeenRight.pt = r /\ SeenRight.idx = at
         \/ /\ ~Shut /\ SeenRight = right /\ right.idx \in Ahead(at)
            /\ right.pt = Portal(right.idx).r
            /\ \A j \in (right.idx + 1)..at : Cross(a, right.pt, Portal(j).r) < 0
  <2>1. CASE Shut
    <3>1. left.pt = a /\ right.pt = a /\ ShutAt(at - 1)
      BY <1>1, <2>1 DEF Shut, ConeInv
    <3>2. at = 1 => ~OnPortal(a, Portal(1))
      BY <1>1 DEF StartsOnPortal, Portal
    <3>3. Cross(a, a, r) = 0 /\ Cross(a, l, a) = 0
      BY <1>1, CrossInt
    <3>4. SeenLeft = Side(l, at) /\ SeenRight = Side(r, at)
      BY <3>1, <3>3 DEF SeenLeft, SeenRight
    <3>5. SeenLeft.pt = l /\ SeenRight.pt = r /\ SeenLeft.idx = at /\ SeenRight.idx = at
      BY <1>3, <3>4
    <3>6. Narrows(a, a, a, l, r, l, r)
      BY <1>2, <3>1, <3>5
    <3>7. ~(l = a /\ r = a)
      BY <1>2, <3>5 DEF Shut
    <3>8. OpenAt(l, r, at)
      BY <1>1, <3>1, <3>2, <3>6, <3>7, ShutGoesOn
    <3>9. QED
      BY <3>5, <3>8 DEF OpenAt
  <2>2. CASE ~Shut
    <3>1. /\ OpenAt(left.pt, right.pt, at - 1) /\ left.idx \in Int /\ right.idx \in Int
      BY <2>2, TurningSides
    <3>2. PICK L, R : L = SeenLeft.pt /\ R = SeenRight.pt
      OBVIOUS
    <3>3. OpenAt(L, R, at)
      BY <1>1, <1>2, <3>1, <3>2, OpenGoesOn
    <3>4. Ahead(at - 1) \subseteq Ahead(at)
      BY <1>1 DEF Ahead
    <3>5. /\ left.idx \in Ahead(at - 1) /\ right.idx \in Ahead(at - 1)
          /\ left.pt = Portal(left.idx).l /\ right.pt = Portal(right.idx).r
          /\ \A j \in (left.idx + 1)..(at - 1) : Cross(a, left.pt, Portal(j).l) > 0
          /\ \A j \in (right.idx + 1)..(at - 1) : Cross(a, right.pt, Portal(j).r) < 0
      BY <1>1, <2>2 DEF EdgeInv
    <3>6. Cross(a, l, left.pt) \in Int /\ Cross(a, left.pt, l) = -Cross(a, l, left.pt) /\ Cross(a, right.pt, r) \in Int
      BY <1>1, CrossInt
    <3>7. ASSUME ~(Cross(a, l, left.pt) >= 0) PROVE \A j \in (left.idx + 1)..at : Cross(a, left.pt, Portal(j).l) > 0
      <4>1. Cross(a, left.pt, l) > 0
        BY <3>6, <3>7
      <4>2. \A j \in (left.idx + 1)..at : j = at \/ j \in (left.idx + 1)..(at - 1)
        BY <1>1, <3>1
      <4>3. QED
        BY <3>5, <4>1, <4>2
    <3>8. ASSUME ~(Cross(a, right.pt, r) >= 0) PROVE \A j \in (right.idx + 1)..at : Cross(a, right.pt, Portal(j).r) < 0
      <4>1. Cross(a, right.pt, r) < 0
        BY <3>6, <3>8
      <4>2. \A j \in (right.idx + 1)..at : j = at \/ j \in (right.idx + 1)..(at - 1)
        BY <1>1, <3>1
      <4>3. QED
        BY <3>5, <4>1, <4>2
    <3>9. \/ SeenLeft.pt = l /\ SeenLeft.idx = at
          \/ SeenLeft = left /\ ~(Cross(a, l, left.pt) >= 0)
      BY <1>3 DEF SeenLeft
    <3>10. \/ SeenRight.pt = r /\ SeenRight.idx = at
           \/ SeenRight = right /\ ~(Cross(a, right.pt, r) >= 0)
      BY <1>3 DEF SeenRight
    <3>11. at \in Ahead(at)
      BY <3>3 DEF OpenAt
    <3>12. QED
      BY <2>2, <3>4, <3>5, <3>7, <3>8, <3>9, <3>10, <3>11
  <2>3. QED
    BY <2>1, <2>2
<1>6. PICK m, L, R : m = at /\ L = SeenLeft /\ R = SeenRight
  OBVIOUS
<1>7. /\ L.idx \in Ahead(m) /\ R.idx \in Ahead(m)
      /\ L.pt = Portal(L.idx).l /\ R.pt = Portal(R.idx).r
      /\ \A j \in (L.idx + 1)..m : Cross(a, L.pt, Portal(j).l) > 0
      /\ \A j \in (R.idx + 1)..m : Cross(a, R.pt, Portal(j).r) < 0
  BY <1>4, <1>5, <1>6
<1>8. \A j : Portal(j)' = Portal(j)
  BY <1>1, PortalsStay
<1>9. Ahead(m)' = Ahead(m)
  BY <1>2, <1>8 DEF Ahead
<1>10. left' = L /\ right' = R /\ at' - 1 = m /\ apex' = apex
  BY <1>2, <1>6
<1>11. QED
  BY <1>7, <1>8, <1>9, <1>10 DEF EdgeInv, Ahead

\* The invariant is inductive, relative to those before it.
LEMMA EdgeNext == PathIInv /\ ConeInv /\ SightInv /\ EdgeInv /\ [Next]_vars => EdgeInv'
<1> SUFFICES ASSUME PathIInv, ConeInv, SightInv, EdgeInv, [Next]_vars PROVE EdgeInv'
  OBVIOUS
<1>1. PullInv
  BY DEF PathIInv
<1>2. CASE UNCHANGED pullVars
  <2>1. UNCHANGED <<corridor, at, apex, left, right, points, pulled>>
    BY <1>2 DEF pullVars
  <2>2. \A j : Portal(j)' = Portal(j)
    BY <2>1, PortalsStay
  <2>3. PICK m : m = at - 1
    OBVIOUS
  <2>4. Ahead(m)' = Ahead(m)
    BY <2>1, <2>2 DEF Ahead
  <2>5. QED
    BY <2>1, <2>2, <2>3, <2>4 DEF EdgeInv, Pulling, Shut, Ahead
<1>3. CASE pulled'.code \in {"none", "success"}
  BY <1>3 DEF EdgeInv, Pulling
<1>4. ASSUME NEW c \in Corridors, NEW n \in Sizes, NEW all \in BOOLEAN, NEW gone \in 0..PolyCount(c),
             PullBegin(c, n, all, gone)
      PROVE  EdgeInv'
  BY <1>4 DEF PullBegin, EdgeInv, Shut
<1>5. CASE PullSkip
  <2>1. at = 1 /\ Polys > 1 /\ OnPortal(apex.pt, corridor.portals[1]) /\ Pulling
        /\ UNCHANGED <<apex, left, right>>
    BY <1>5 DEF PullSkip, StartsOnPortal
  <2>2. apex.idx \in 1..Polys /\ Polys \in Nat
    BY <1>1, PolysIsNat DEF PullInv, FunnelShape, ApexShape
  <2>3. ~OpenAt(left.pt, right.pt, at - 1)
    BY <2>1, <2>2 DEF OpenAt, Ahead
  <2>4. Shut
    BY <2>1, <2>3 DEF ConeInv
  <2>5. Shut'
    BY <2>1, <2>4 DEF Shut
  <2>6. QED
    BY <2>5 DEF EdgeInv
<1>6. CASE PullPortal
  <2>1. CASE GoesAhead
    BY <1>1, <1>6, <2>1, EdgeGoesAhead
  <2>2. ASSUME NEW side, Turn(side), SideShape(side) PROVE EdgeInv'
    <3>1. left \in Sides /\ right \in Sides
      BY <1>1 DEF PullInv, FunnelShape, SideShape
    <3> SUFFICES ASSUME Pulling' PROVE Shut'
      BY DEF EdgeInv
    <3>2. /\ apex' = [pt |-> side.pt, idx |-> side.idx]
          /\ left' = [left EXCEPT !.pt = side.pt, !.idx = side.idx]
          /\ right' = [right EXCEPT !.pt = side.pt, !.idx = side.idx]
      BY <2>2 DEF Turn, Pulling, Status
    <3>3. QED
      BY <3>1, <3>2 DEF Shut, Sides
  <2>3. QED
    BY <1>1, <1>6, <2>1, <2>2, TurnsOrGoes
<1>7. CASE PullEnd
  BY <1>3, <1>7 DEF PullEnd, Status
<1>8. QED
  BY <1>2, <1>3, <1>4, <1>5, <1>6, <1>7, PathSteps

\* The sides are ends of the portals they name.
LEMMA EdgeInvariant == Spec => []EdgeInv
<1>1. Init => EdgeInv
  BY DEF Init, EdgeInv, Pulling, Status
<1>2. QED
  BY <1>1, EdgeNext, PathInvariant, ConeInvariant, SightInvariant, PTL DEF Spec
-----------------------------------------------------------------------------
(* Where the string bends                                                  *)

\* Between portals lo and hi one meets the string at q, coming from A, and
\* leaves no room on its left, or its right.
LeftBlocked(A, q, lo, hi) ==
  \E k \in 1..(Polys - 1) :
    /\ lo <= k /\ k <= hi /\ OnPortal(q, Portal(k))
    /\ Cross(A, q, Portal(k).l) <= 0 /\ Cross(A, q, Portal(k).r) <= 0

RightBlocked(A, q, lo, hi) ==
  \E k \in 1..(Polys - 1) :
    /\ lo <= k /\ k <= hi /\ OnPortal(q, Portal(k))
    /\ Cross(A, q, Portal(k).l) >= 0 /\ Cross(A, q, Portal(k).r) >= 0

\* After a turn at q on portal f a portal that lies wholly to the left, or the
\* right, is still to come.
AwaitsLeft(A, q, f, i) ==
  /\ Portal(f).l = q /\ Cross(A, q, Portal(f).r) < 0
  /\ \E to \in (f + 1)..Polys :
       /\ i <= to /\ Cross(A, q, Portal(to).r) >= 0
       /\ \A j \in (f + 1)..(to - 1) : Cross(A, q, Portal(j).l) > 0 /\ Cross(A, q, Portal(j).r) <= 0

AwaitsRight(A, q, f, i) ==
  \E to \in (f + 1)..Polys :
    /\ i <= to /\ Cross(A, q, Portal(to).l) <= 0 /\ Cross(A, q, Portal(to).r) < 0
    /\ \A j \in (f + 1)..(to - 1) : Cross(A, q, Portal(j).r) < 0 /\ Cross(A, q, Portal(j).l) >= 0

\* From then on so does the funnel.
OpensLeft(A, q, L, R) == R # q /\ Cross(A, q, L) >= 0 /\ Cross(A, q, R) >= 0
OpensRight(A, q, L, R) == R # q /\ Cross(A, q, L) <= 0 /\ Cross(A, q, R) <= 0

KeptLeft(A) ==
  AwaitsLeft(A, apex.pt, apex.idx, at) \/ (~Shut /\ OpensLeft(A, apex.pt, left.pt, right.pt))

KeptRight(A) ==
  AwaitsRight(A, apex.pt, apex.idx, at) \/ (~Shut /\ OpensRight(A, apex.pt, left.pt, right.pt))

\* The last portal that the string goes through whatever side it turns at.
Reach == IF Shut THEN at - 1 ELSE IF left.idx < right.idx THEN left.idx ELSE right.idx

\* How an open funnel is seen.
OpenKinds ==
  LET a == apex.pt
        m == at - 1
        l0 == Portal(m).l
        r0 == Portal(m).r
        l == Portal(at).l
        r == Portal(at).r
        L == left.pt
        R == right.pt
    IN  /\ m \in 1..(Polys - 1) /\ m \in Ahead(m) /\ left.idx \in Ahead(m) /\ right.idx \in Ahead(m)
        /\ l0 \in Places /\ r0 \in Places
        /\ OpenAt(L, R, m)
        /\ L = Portal(left.idx).l /\ R = Portal(right.idx).r
        /\ \/ /\ InSight(a, r0, l0, L, R)
              /\ L # a /\ R # a /\ l0 # r0
              /\ Forth(a, r0, l0, L) > 0 /\ Forth(a, r0, l0, R) > 0
              /\ Forth(a, r0, l0, l) > 0 /\ Forth(a, r0, l0, r) > 0
           \/ Ray(L, R, m)
           \/ /\ L = a /\ l0 = a /\ R = r0 /\ r0 # a
              /\ left.idx = m /\ right.idx = m /\ Area(r, r0, a) >= 0
           \/ /\ R = a /\ r0 = a /\ L = l0 /\ l0 # a
              /\ left.idx = m /\ right.idx = m
           \/ /\ Flat(L, R, m)
              /\ L = l0 /\ R = r0 /\ l0 # r0 /\ l0 # a /\ r0 # a /\ Cross(a, r0, l0) = 0
              /\ left.idx = m /\ right.idx = m
              /\ Area(r, r0, l0) >= 0 /\ Area(r0, l0, l) >= 0

LEMMA OpenCases ==
  ASSUME PullInv, ConeInv, EdgeInv, PullPortal, ~Shut
  PROVE  OpenKinds
<1> DEFINE a == apex.pt
           m == at - 1
           l0 == Portal(m).l
           r0 == Portal(m).r
           l == Portal(at).l
           r == Portal(at).r
           L == left.pt
           R == right.pt
<1> USE DEF PortalPoints, OpenKinds
<1>1. PortalPoints /\ m \in 0..Polys
  BY PortalCases
<1>2. OpenAt(L, R, m)
  BY TurningSides
<1>3. /\ left.idx \in Ahead(m) /\ right.idx \in Ahead(m)
      /\ L = Portal(left.idx).l /\ R = Portal(right.idx).r
      /\ \A j \in (left.idx + 1)..m : Cross(a, L, Portal(j).l) > 0
      /\ \A j \in (right.idx + 1)..m : Cross(a, R, Portal(j).r) < 0
  BY <1>1 DEF EdgeInv
<1>4. /\ m \in 1..Polys /\ m \in 1..(Polys - 1) /\ m \in Ahead(m)
      /\ InSight(a, r0, l0, L, R) => L # a /\ R # a /\ l0 # r0
  <2>1. m \in 1..Polys /\ (InSight(a, r0, l0, L, R) => L # a /\ R # a /\ l0 # r0)
    BY <1>1, <1>2, OpenParts
  <2>2. QED
    BY <1>1, <1>2, <2>1 DEF OpenAt
<1>5. l0 \in Places /\ r0 \in Places
  BY <1>1, <1>4, PortalPlaces
<1>6. l0 # r0 => Area(r, r0, l0) >= 0 /\ Area(r0, l0, l) >= 0
  <2>1. at \in 2..Polys
    BY <1>1, <1>4
  <2>2. QED
    BY <1>1, <2>1, PortalsAhead
<1>7. left.idx \in Int /\ right.idx \in Int /\ left.idx <= m /\ right.idx <= m
  BY <1>1, <1>3 DEF Ahead
<1>8. L = a => left.idx = m
  <2> SUFFICES ASSUME L = a, left.idx # m PROVE FALSE
    OBVIOUS
  <2>1. m \in (left.idx + 1)..m
    BY <1>4, <1>7
  <2>2. Cross(a, a, l0) = 0
    BY <1>1, <1>5, CrossInt
  <2>3. QED
    BY <1>3, <2>1, <2>2
<1>9. R = a => right.idx = m
  <2> SUFFICES ASSUME R = a, right.idx # m PROVE FALSE
    OBVIOUS
  <2>1. m \in (right.idx + 1)..m
    BY <1>4, <1>7
  <2>2. Cross(a, a, r0) = 0
    BY <1>1, <1>5, CrossInt
  <2>3. QED
    BY <1>3, <2>1, <2>2
<1>10. CASE InSight(a, r0, l0, L, R)
  <2>1. Cross(a, r0, l0) > 0 /\ Cross(a, r0, l0) \in Int
    BY <1>1, <1>5, <1>10, CrossInt DEF InSight
  <2>2. /\ Area(r, r0, l0) = Forth(a, r0, l0, r) - Cross(a, r0, l0)
        /\ Area(r0, l0, l) = Forth(a, r0, l0, l) - Cross(a, r0, l0)
    BY <1>1, <1>5, BeyondIsForth
  <2>3. Forth(a, r0, l0, r) \in Int /\ Forth(a, r0, l0, l) \in Int
    <3>1. /\ Cross(a, r0, r) \in Int /\ Cross(a, r, l0) \in Int
          /\ Cross(a, r0, l) \in Int /\ Cross(a, l, l0) \in Int
      BY <1>1, <1>5, CrossInt
    <3>2. QED
      BY <3>1 DEF Forth
  <2>4. Forth(a, r0, l0, r) > 0 /\ Forth(a, r0, l0, l) > 0
    BY <1>4, <1>6, <1>10, <2>1, <2>2, <2>3
  <2>5. Forth(a, r0, l0, L) > 0 /\ Forth(a, r0, l0, R) > 0
    BY <1>10 DEF InSight
  <2>6. QED
    BY <1>2, <1>3, <1>4, <1>5, <1>10, <2>4, <2>5
<1>11. CASE Ray(L, R, m)
  BY <1>2, <1>3, <1>4, <1>5, <1>11
<1>12. CASE EndAtApex(L, R, l0, r0, m)
  <2>1. L = a /\ l0 = a /\ R = r0 /\ r0 # a /\ \A j \in Ahead(m) \ {m} : ThroughApex(j)
    BY <1>12 DEF EndAtApex
  <2>2. right.idx = m
    BY <1>3, <2>1 DEF ThroughApex
  <2>3. QED
    BY <1>2, <1>3, <1>4, <1>5, <1>6, <1>8, <2>1, <2>2
<1>13. CASE EndAtApex(R, L, r0, l0, m)
  <2>1. R = a /\ r0 = a /\ L = l0 /\ l0 # a /\ \A j \in Ahead(m) \ {m} : ThroughApex(j)
    BY <1>13 DEF EndAtApex
  <2>2. left.idx = m
    BY <1>3, <2>1 DEF ThroughApex
  <2>3. QED
    BY <1>2, <1>3, <1>4, <1>5, <1>9, <2>1, <2>2
<1>14. CASE Flat(L, R, m)
  <2>1. /\ L = l0 /\ R = r0 /\ l0 # r0 /\ l0 # a /\ r0 # a /\ Cross(a, r0, l0) = 0
        /\ \A j \in Ahead(m) \ {m} : ThroughApex(j)
    BY <1>14 DEF Flat
  <2>2. left.idx = m /\ right.idx = m
    BY <1>3, <2>1 DEF ThroughApex
  <2>3. QED
    BY <1>2, <1>3, <1>4, <1>5, <1>6, <1>14, <2>1, <2>2
<1>15. QED
  BY <1>2, <1>10, <1>11, <1>12, <1>13, <1>14 DEF OpenAt

\* The right end of the next portal is not the left one of this.
LEMMA NextIsNotShut ==
  ASSUME NEW p \in [l : Places, r : Places], NEW q \in [l : Places, r : Places],
         Polygon(p, q), p.l # p.r, q.l # q.r
  PROVE  q.r # p.l
<1> SUFFICES ASSUME q.r = p.l PROVE FALSE
  OBVIOUS
<1>1. p.l \in Places /\ p.r \in Places /\ q.l \in Places /\ q.r \in Places
  OBVIOUS
<1>2. ~InFront(p.l, q) /\ ~InFront(p.r, q)
  <2>1. Area(p.r, q.l, p.l) >= 0 /\ Area(q.l, p.r, p.l) >= 0
    BY DEF Polygon, Before, Behind
  <2>2. /\ Area(p.r, q.l, p.l) = Area(q.l, p.l, p.r) /\ Area(q.l, p.l, p.r) = -Cross(q.l, p.l, p.r)
        /\ Area(q.l, p.r, p.l) = Cross(q.l, p.l, p.r) /\ Cross(q.l, p.l, p.r) \in Int
    <3>1. /\ Area(q.l, p.l, p.r) = -Cross(q.l, p.l, p.r) /\ Area(q.l, p.r, p.l) = -Cross(q.l, p.r, p.l)
          /\ Cross(q.l, p.r, p.l) = -Cross(q.l, p.l, p.r) /\ Cross(q.l, p.l, p.r) \in Int
      BY <1>1, CrossInt
    <3>2. Area(p.r, q.l, p.l) = Area(q.l, p.l, p.r)
      BY <1>1, CrossTurns
    <3>3. QED
      BY <3>1, <3>2
  <2>3. ~(Area(p.l, q.l, p.l) > 0)
    <3>1. PICK c \in Int : Area(p.l, q.l, p.l) = -c /\ c >= 0
      BY <1>1, CrossInt
    <3>2. QED
      BY <3>1
  <2>4. QED
    BY <2>1, <2>2, <2>3 DEF InFront
<1>3. /\ p.l = <<p.l[1], p.l[2], 1>> /\ p.r = <<p.r[1], p.r[2], 1>> /\ q.l = <<q.l[1], q.l[2], 1>>
      /\ p.l[1] \in Int /\ p.l[2] \in Int /\ p.r[1] \in Int /\ p.r[2] \in Int /\ q.l[1] \in Int /\ q.l[2] \in Int
  BY <1>1 DEF Places
<1>4. ASSUME NEW b \in Places, NEW c \in Places, NEW i \in 1..2 PROVE Diff(b, c, i) = c[i] - b[i]
  BY PlaceIsSpot DEF Diff
<1>5. CASE Between(q.l, p.l, q.r)
  <2>1. \A i \in 1..2 : (q.l[i] - p.l[i]) * (p.l[i] - q.l[i]) >= 0
    BY <1>1, <1>4, <1>5 DEF Between
  <2>2. \A x, y \in Int : (y - x) * (x - y) >= 0 => x = y
    OBVIOUS
  <2>3. p.l[1] = q.l[1] /\ p.l[2] = q.l[2]
    BY <1>3, <2>1, <2>2
  <2>4. QED
    BY <1>3, <2>3
<1>6. CASE Between(p.r, p.l, q.l) /\ Between(q.r, p.r, q.l)
  <2>1. \A i \in 1..2 : /\ (p.r[i] - p.l[i]) * (q.l[i] - p.r[i]) >= 0
                        /\ (p.l[i] - p.r[i]) * (q.l[i] - p.l[i]) >= 0
    BY <1>1, <1>4, <1>6 DEF Between
  <2>2. \A x, y, z \in Int : (y - x) * (z - y) >= 0 /\ (x - y) * (z - x) >= 0 => x = y
    <3> SUFFICES ASSUME NEW x \in Int, NEW y \in Int, NEW z \in Int,
                        (y - x) * (z - y) >= 0, (x - y) * (z - x) >= 0
                 PROVE  x = y
      OBVIOUS
    <3>1. (y - x) * (z - y) + (x - y) * (z - x) = (y - x) * (x - y)
      OBVIOUS
    <3>2. (y - x) * (x - y) >= 0
      BY <3>1
    <3>3. QED
      BY <3>2
  <2>3. p.l[1] = p.r[1] /\ p.l[2] = p.r[2]
    BY <1>3, <2>1, <2>2
  <2>4. QED
    BY <1>3, <2>3
<1>7. QED
  BY <1>2, <1>5, <1>6 DEF Polygon, IsPoint, SameEdge

\* What the two sides are when the string turns, and where they come from.
TurnSide(side) == (side = left /\ TurnsLeft) \/ (side = SeenRight /\ TurnsRight)

\* The three ways to turn, told by cross products.
TurnKinds(side) ==
  LET a == apex.pt
        l == Portal(at).l
        r == Portal(at).r
        L == left.pt
        R == right.pt
    IN  \/ /\ side = left
           /\ Cross(a, R, r) >= 0 /\ R # a /\ Cross(a, L, r) >= 0
        \/ /\ side = right /\ L # a
           /\ Cross(a, r, R) > 0 /\ Cross(a, l, L) >= 0 /\ Cross(a, l, R) >= 0
        \/ /\ side.pt = r /\ side.idx = at /\ L # a
           /\ Cross(a, R, r) >= 0 /\ (R = a \/ Cross(a, r, L) > 0)
           /\ Cross(a, l, L) >= 0 /\ Cross(a, l, r) >= 0

LEMMA TurnSideCases ==
  ASSUME NEW side, TurnSide(side), Pulling,
         apex.pt \in Places, left.pt \in Places, right.pt \in Places, Portal(at).r \in Places, Portal(at).l \in Places
  PROVE  TurnKinds(side)
<1> USE DEF TurnKinds
<1> DEFINE a == apex.pt
           l == Portal(at).l
           r == Portal(at).r
           L == left.pt
           R == right.pt
<1>1. /\ Cross(a, L, r) = -Cross(a, r, L) /\ Cross(a, r, L) \in Int
      /\ Cross(a, r, R) = -Cross(a, R, r) /\ Cross(a, R, r) \in Int
      /\ Cross(a, l, R) = -Cross(a, R, l) /\ Cross(a, R, l) \in Int
      /\ Cross(a, l, r) = -Cross(a, r, l) /\ Cross(a, r, l) \in Int
  BY CrossInt
<1>2. CASE side = left /\ TurnsLeft
  BY <1>1, <1>2 DEF TurnsLeft
<1>3. CASE side = SeenRight /\ TurnsRight
  <2>1. /\ Cross(a, R, r) >= 0 => a = R \/ Cross(a, r, L) > 0
        /\ Cross(a, l, L) >= 0 /\ a # L /\ Cross(a, side.pt, l) <= 0
    BY <1>3 DEF TurnsRight
  <2>2. CASE Cross(a, R, r) >= 0
    <3>1. side = Side(r, at)
      BY <1>3, <2>2 DEF SeenRight
    <3>2. side.pt = r /\ side.idx = at
      BY <3>1 DEF Side
    <3>3. QED
      BY <1>1, <2>1, <2>2, <3>2
  <2>3. CASE ~(Cross(a, R, r) >= 0)
    <3>1. side = right
      BY <1>3, <2>3 DEF SeenRight
    <3>2. QED
      BY <1>1, <2>1, <2>3, <3>1
  <2>4. QED
    BY <2>2, <2>3
<1>4. QED
  BY <1>2, <1>3 DEF TurnSide

\* A portal between the one the apex is on and the next.
LEMMA BehindApex ==
  ASSUME Polys \in Nat, apex.idx \in 1..Polys, OnPortal(apex.pt, Portal(apex.idx)), NEW m \in Int, NEW j \in Ahead(m)
  PROVE  j \in (apex.idx + 1)..m /\ j \in Int
<1>1. j \in apex.idx..m /\ j # apex.idx
  BY DEF Ahead
<1>2. QED
  BY <1>1

\* The string is blocked on its way to a side of the funnel, and has not yet
\* come to the next portal there.
LeftBlockedTo(A, e, to) == \E h \in Int : h <= to /\ h < at /\ LeftBlocked(A, apex.pt, e, h)
RightBlockedTo(A, e, to) == \E h \in Int : h <= to /\ h < at /\ RightBlocked(A, apex.pt, e, h)

\* What the proofs know of the cross products that go out from a place.
CrossRules(A, a) ==
  \A x, y \in Places : /\ Cross(a, x, y) \in Int /\ Cross(a, y, x) = -Cross(a, x, y)
                       /\ Cross(a, a, x) = 0 /\ Cross(a, x, a) = 0 /\ Cross(a, x, x) = 0
                       /\ Cross(A, a, x) \in Int /\ Cross(A, a, a) = 0

\* A polygon is not left through a portal around a place on the one it is entered by.
LEMMA NotAround ==
  ASSUME NEW p \in [l : Places, r : Places], NEW q \in [l : Places, r : Places], Polygon(p, q), ~IsPoint(p),
         NEW a \in Places, OnPortal(a, p), OnPortal(a, q), a # q.l, a # q.r
  PROVE  FALSE
<1>1. /\ p.l \in Places /\ p.r \in Places /\ q.l \in Places /\ q.r \in Places /\ p.l # p.r
  BY DEF IsPoint
<1>2. \A b \in Places : b = <<b[1], b[2], 1>> /\ b[1] \in Int /\ b[2] \in Int
  BY DEF Places
<1>3. ASSUME NEW b \in Places, NEW c \in Places, NEW i \in 1..2 PROVE Diff(b, c, i) = c[i] - b[i]
  BY PlaceIsSpot DEF Diff
<1>4. \A b, c \in Places : b[1] = c[1] /\ b[2] = c[2] => b = c
  BY <1>2
<1>5. ~IsPoint(q)
  <2> SUFFICES ASSUME q.l = q.r PROVE FALSE
    BY DEF IsPoint
  <2>1. \A i \in 1..2 : (a[i] - q.l[i]) * (q.l[i] - a[i]) >= 0
    BY <1>1, <1>3 DEF OnPortal, Between
  <2>2. \A x, y \in Int : (x - y) * (y - x) >= 0 => x = y
    OBVIOUS
  <2>3. a[1] = q.l[1] /\ a[2] = q.l[2]
    BY <1>1, <1>2, <2>1, <2>2
  <2>4. QED
    BY <1>1, <1>4, <2>3
<1>6. CASE SameEdge(p, q)
  <2> DEFINE Apart(x, y, z, w) == x * y <= 0 /\ z * w <= 0 /\ (x - y) * (w - x) >= 0 /\ (z - x) * (w - z) >= 0
  <2>1. \A x, y, z, w \in Int : Apart(x, y, z, w) => z = 0
    <3> SUFFICES ASSUME NEW x \in Int, NEW y \in Int, NEW z \in Int, NEW w \in Int, Apart(x, y, z, w), z # 0
                 PROVE  FALSE
      OBVIOUS
    <3>1. \A i, j \in Int : (i > 0 /\ i * j <= 0 => j <= 0) /\ (i < 0 /\ i * j <= 0 => j >= 0)
      OBVIOUS
    <3>2. \A i, j \in Int : (j < 0 /\ i * j >= 0 => i <= 0) /\ (j > 0 /\ i * j >= 0 => i >= 0)
                         /\ (i > 0 /\ i * j >= 0 => j >= 0) /\ (i < 0 /\ i * j >= 0 => j <= 0)
      OBVIOUS
    <3>3. CASE z > 0
      <4>1. w <= 0
        BY <3>1, <3>3
      <4>2. z - x \in Int /\ w - z \in Int /\ w - z < 0
        BY <3>3, <4>1
      <4>3. z - x <= 0
        BY <3>2, <4>2
      <4>4. x > 0 /\ y <= 0
        BY <3>1, <3>3, <4>3
      <4>5. x - y \in Int /\ w - x \in Int /\ x - y > 0
        BY <4>4
      <4>6. w - x >= 0
        BY <3>2, <4>5
      <4>7. QED
        BY <4>1, <4>4, <4>6
    <3>4. CASE z < 0
      <4>1. w >= 0
        BY <3>1, <3>4
      <4>2. z - x \in Int /\ w - z \in Int /\ w - z > 0
        BY <3>4, <4>1
      <4>3. z - x >= 0
        BY <3>2, <4>2
      <4>4. x < 0 /\ y >= 0
        BY <3>1, <3>4, <4>3
      <4>5. x - y \in Int /\ w - x \in Int /\ x - y < 0
        BY <4>4
      <4>6. w - x <= 0
        BY <3>2, <4>5
      <4>7. QED
        BY <4>1, <4>4, <4>6
    <3>5. QED
      BY <3>3, <3>4
  <2>2. ASSUME NEW b \in Places, NEW c \in Places, NEW d \in Places, NEW e \in Places,
               \A i \in 1..2 : /\ (a[i] - b[i]) * (c[i] - a[i]) >= 0 /\ (a[i] - d[i]) * (e[i] - a[i]) >= 0
                               /\ (b[i] - c[i]) * (e[i] - b[i]) >= 0 /\ (d[i] - b[i]) * (e[i] - d[i]) >= 0
        PROVE  d = a
    <3>1. ASSUME NEW i \in 1..2 PROVE d[i] = a[i]
      <4> DEFINE X == b[i] - a[i]
                 Y == c[i] - a[i]
                 Z == d[i] - a[i]
                 W == e[i] - a[i]
      <4>1. a[i] \in Int /\ b[i] \in Int /\ c[i] \in Int /\ d[i] \in Int /\ e[i] \in Int
        BY <1>2
      <4>2. /\ X \in Int /\ Y \in Int /\ Z \in Int /\ W \in Int
            /\ a[i] - b[i] = -X /\ c[i] - a[i] = Y /\ a[i] - d[i] = -Z /\ e[i] - a[i] = W
            /\ b[i] - c[i] = X - Y /\ e[i] - b[i] = W - X /\ d[i] - b[i] = Z - X /\ e[i] - d[i] = W - Z
        BY <4>1
      <4> HIDE DEF X, Y, Z, W
      <4>3. (-X) * Y >= 0 /\ (-Z) * W >= 0 /\ (X - Y) * (W - X) >= 0 /\ (Z - X) * (W - Z) >= 0
        BY <2>2, <4>2
      <4>4. \A x, y \in Int : (-x) * y >= 0 => x * y <= 0
        OBVIOUS
      <4>5. Apart(X, Y, Z, W)
        BY <4>2, <4>3, <4>4
      <4>6. Z = 0
        <5> HIDE DEF Apart
        <5>1. QED
          BY <2>1, <4>2, <4>5
      <4>7. QED
        BY <4>1, <4>6 DEF Z
    <3>2. QED
      BY <1>4, <3>1
  <2>3. \A i \in 1..2 : /\ (a[i] - p.l[i]) * (p.r[i] - a[i]) >= 0 /\ (a[i] - q.l[i]) * (q.r[i] - a[i]) >= 0
                       /\ (a[i] - p.r[i]) * (p.l[i] - a[i]) >= 0 /\ (a[i] - q.r[i]) * (q.l[i] - a[i]) >= 0
    <3>1. \A i \in 1..2 : (a[i] - p.l[i]) * (p.r[i] - a[i]) >= 0 /\ (a[i] - q.l[i]) * (q.r[i] - a[i]) >= 0
      BY <1>1, <1>3 DEF OnPortal, Between
    <3>2. \A x, y, z \in Int : (x - y) * (z - x) = (x - z) * (y - x)
      OBVIOUS
    <3>3. QED
      BY <1>1, <1>2, <3>1, <3>2
  <2>4. CASE Between(p.l, p.r, q.r) /\ Between(q.l, p.l, q.r)
    <3>1. \A i \in 1..2 : (p.l[i] - p.r[i]) * (q.r[i] - p.l[i]) >= 0 /\ (q.l[i] - p.l[i]) * (q.r[i] - q.l[i]) >= 0
      BY <1>1, <1>3, <2>4 DEF Between
    <3>2. QED
      BY <1>1, <2>2, <2>3, <3>1
  <2>5. CASE Between(p.r, p.l, q.l) /\ Between(q.r, p.r, q.l)
    <3>1. \A i \in 1..2 : (p.r[i] - p.l[i]) * (q.l[i] - p.r[i]) >= 0 /\ (q.r[i] - p.r[i]) * (q.l[i] - q.r[i]) >= 0
      BY <1>1, <1>3, <2>5 DEF Between
    <3>2. QED
      BY <1>1, <2>2, <2>3, <3>1
  <2>6. QED
    BY <1>6, <2>4, <2>5 DEF SameEdge
<1>7. CASE InFront(p.l, q) \/ InFront(p.r, q)
  <2> DEFINE d1 == q.r[1] - q.l[1]
             d2 == q.r[2] - q.l[2]
             N(y) == Cross(q.l, q.r, y)
             l1 == p.l[1] - a[1]
             l2 == p.l[2] - a[2]
             r1 == p.r[1] - a[1]
             r2 == p.r[2] - a[2]
  <2>1. ASSUME NEW y \in Places
        PROVE  N(y) \in Int /\ Area(y, q.l, q.r) = -N(y) /\ N(y) = Cross(a, q.r, y) - Cross(a, q.l, y)
    <3>1. Area(y, q.l, q.r) = -Cross(y, q.l, q.r) /\ N(y) \in Int /\ Cross(y, q.l, q.r) = N(y)
      BY <1>1, CrossInt, CrossTurns
    <3>2. N(y) = Cross(a, q.l, q.r) + Cross(a, q.r, y) + Cross(a, y, q.l)
      BY <1>1, CrossMoves
    <3>3. Cross(a, q.l, q.r) \in Int /\ Cross(a, q.r, y) \in Int /\ Cross(a, q.l, y) \in Int
          /\ Cross(a, y, q.l) = -Cross(a, q.l, y)
      BY <1>1, CrossInt
    <3>4. Cross(a, q.l, q.r) = 0
      <4>1. Area(q.l, q.r, a) = 0
        BY DEF OnPortal, Between
      <4>2. Area(q.l, q.r, a) = -Cross(q.l, q.r, a) /\ Cross(q.l, q.r, a) \in Int /\ Cross(a, q.l, q.r) = Cross(q.l, q.r, a)
        BY <1>1, CrossInt, CrossTurns
      <4>3. QED
        BY <4>1, <4>2
    <3> HIDE DEF N
    <3>5. QED
      BY <3>1, <3>2, <3>3, <3>4
  <2>2. N(p.l) <= 0 /\ N(p.r) <= 0 /\ (N(p.l) < 0 \/ N(p.r) < 0)
    <3>1. Area(p.l, q.l, q.r) >= 0 /\ Area(p.r, q.l, q.r) >= 0 /\ (Area(p.l, q.l, q.r) > 0 \/ Area(p.r, q.l, q.r) > 0)
      BY <1>7 DEF Polygon, Before, InFront
    <3> HIDE DEF N
    <3>2. QED
      BY <1>1, <2>1, <3>1
  <2>3. PICK u \in Int, v \in Int : IsMean(a, p, u, v)
    BY OnPortalIsMean
  <2>4. u >= 0 /\ v >= 0 /\ u + v > 0 /\ u * l1 + v * r1 = 0 /\ u * l2 + v * r2 = 0
    BY <2>3 DEF IsMean
  <2>5. /\ d1 \in Int /\ d2 \in Int /\ l1 \in Int /\ l2 \in Int /\ r1 \in Int /\ r2 \in Int
        /\ l1 = 0 /\ l2 = 0 => a = p.l
        /\ r1 = 0 /\ r2 = 0 => a = p.r
    <3>1. /\ q.l[1] \in Int /\ q.l[2] \in Int /\ q.r[1] \in Int /\ q.r[2] \in Int /\ a[1] \in Int /\ a[2] \in Int
          /\ p.l[1] \in Int /\ p.l[2] \in Int /\ p.r[1] \in Int /\ p.r[2] \in Int
      BY <1>1, <1>2
    <3>2. (l1 = 0 => a[1] = p.l[1]) /\ (l2 = 0 => a[2] = p.l[2]) /\ (r1 = 0 => a[1] = p.r[1]) /\ (r2 = 0 => a[2] = p.r[2])
      BY <3>1
    <3>3. QED
      BY <1>1, <1>4, <3>1, <3>2
  <2>6. N(p.l) = d1 * l2 - d2 * l1 /\ N(p.r) = d1 * r2 - d2 * r1
    <3>1. ASSUME NEW y \in Places PROVE N(y) = d1 * (y[2] - a[2]) - d2 * (y[1] - a[1])
      <4>1. N(y) = Cross(a, q.r, y) - Cross(a, q.l, y)
        BY <2>1
      <4>2. /\ q.l[1] \in Int /\ q.l[2] \in Int /\ q.r[1] \in Int /\ q.r[2] \in Int /\ a[1] \in Int /\ a[2] \in Int
            /\ y[1] \in Int /\ y[2] \in Int
        BY <1>1, <1>2
      <4>3. \A a1, a2, b1, b2, c1, c2, y1, y2 \in Int :
              ((c1 - a1) * (y2 - a2) - (c2 - a2) * (y1 - a1)) - ((b1 - a1) * (y2 - a2) - (b2 - a2) * (y1 - a1))
                = (c1 - b1) * (y2 - a2) - (c2 - b2) * (y1 - a1)
        OBVIOUS
      <4>4. /\ Cross(a, q.r, y) = (q.r[1] - a[1]) * (y[2] - a[2]) - (q.r[2] - a[2]) * (y[1] - a[1])
            /\ Cross(a, q.l, y) = (q.l[1] - a[1]) * (y[2] - a[2]) - (q.l[2] - a[2]) * (y[1] - a[1])
        BY DEF Cross
      <4> HIDE DEF N
      <4>5. QED
        BY <4>1, <4>2, <4>3, <4>4
    <3> HIDE DEF N
    <3>2. QED
      BY <1>1, <3>1
  <2> HIDE DEF d1, d2, l1, l2, r1, r2
  <2>7. u * N(p.l) + v * N(p.r) = 0
    <3> HIDE DEF N
    <3>1. u * N(p.l) + v * N(p.r) = d1 * (u * l2 + v * r2) - d2 * (u * l1 + v * r1)
      BY <2>5, <2>6
    <3>2. QED
      BY <2>4, <2>5, <3>1
  <2>8. \A x, y \in Int : x <= 0 /\ y <= 0 /\ u * x + v * y = 0 => (x < 0 => u = 0) /\ (y < 0 => v = 0)
    <3> SUFFICES ASSUME NEW x \in Int, NEW y \in Int, x <= 0, y <= 0, u * x + v * y = 0
                 PROVE  (x < 0 => u = 0) /\ (y < 0 => v = 0)
      OBVIOUS
    <3>1. u * x <= 0 /\ v * y <= 0 /\ (u > 0 /\ x < 0 => u * x < 0) /\ (v > 0 /\ y < 0 => v * y < 0)
      BY <2>4
    <3>2. u * x \in Int /\ v * y \in Int
      OBVIOUS
    <3>3. QED
      BY <2>4, <3>1, <3>2
  <2>9. \A y, z \in Int : z > 0 /\ z * y = 0 => y = 0
    OBVIOUS
  <2>10. N(p.l) \in Int /\ N(p.r) \in Int
    BY <1>1, <2>1
  <2>11. CASE N(p.l) < 0
    <3>1. u = 0
      <4> HIDE DEF N
      <4>1. QED
        BY <2>2, <2>7, <2>8, <2>10, <2>11
    <3>2. v > 0 /\ v * r1 = 0 /\ v * r2 = 0
      BY <2>4, <2>5, <3>1
    <3>3. a = p.r
      BY <2>5, <2>9, <3>2
    <3>4. Cross(a, q.l, p.l) >= 0 /\ Cross(a, q.r, p.l) >= 0
      <4>1. Area(q.l, a, p.l) >= 0 /\ Area(q.r, a, p.l) >= 0
        BY <3>3 DEF Polygon, Behind
      <4>2. /\ Area(a, p.l, q.l) = Area(q.l, a, p.l) /\ Area(a, p.l, q.r) = Area(q.r, a, p.l)
        BY <1>1, CrossTurns
      <4>3. /\ Area(a, p.l, q.l) = -Cross(a, p.l, q.l) /\ Area(a, p.l, q.r) = -Cross(a, p.l, q.r)
            /\ Cross(a, q.l, p.l) = -Cross(a, p.l, q.l) /\ Cross(a, q.r, p.l) = -Cross(a, p.l, q.r)
        BY <1>1, CrossInt
      <4>4. QED
        BY <4>1, <4>2, <4>3
    <3>5. Cross(a, q.l, p.l) = 0 /\ Cross(a, q.r, p.l) = 0
      BY <1>1, <3>4, BothSides
    <3>6. N(p.l) = 0
      <4>1. N(p.l) = Cross(a, q.r, p.l) - Cross(a, q.l, p.l)
        BY <1>1, <2>1
      <4>2. QED
        BY <3>5, <4>1
    <3>7. QED
      BY <2>11, <3>6
  <2>12. CASE N(p.r) < 0
    <3>1. v = 0
      <4> HIDE DEF N
      <4>1. QED
        BY <2>2, <2>7, <2>8, <2>10, <2>12
    <3>2. u > 0 /\ u * l1 = 0 /\ u * l2 = 0
      BY <2>4, <2>5, <3>1
    <3>3. a = p.l
      BY <2>5, <2>9, <3>2
    <3>4. Cross(a, q.l, p.r) <= 0 /\ Cross(a, q.r, p.r) <= 0
      <4>1. Area(q.l, p.r, a) >= 0 /\ Area(q.r, p.r, a) >= 0
        BY <3>3 DEF Polygon, Behind
      <4>2. /\ Area(a, q.l, p.r) = Area(q.l, p.r, a) /\ Area(a, q.r, p.r) = Area(q.r, p.r, a)
        BY <1>1, CrossTurns
      <4>3. /\ Area(a, q.l, p.r) = -Cross(a, q.l, p.r) /\ Area(a, q.r, p.r) = -Cross(a, q.r, p.r)
            /\ Cross(a, q.l, p.r) \in Int /\ Cross(a, q.r, p.r) \in Int
        BY <1>1, CrossInt
      <4>4. QED
        BY <4>1, <4>2, <4>3
    <3>5. Cross(a, q.l, p.r) = 0 /\ Cross(a, q.r, p.r) = 0
      BY <1>1, <3>4, BothSides
    <3>6. N(p.r) = 0
      <4>1. N(p.r) = Cross(a, q.r, p.r) - Cross(a, q.l, p.r)
        BY <1>1, <2>1
      <4>2. QED
        BY <3>5, <4>1
    <3>7. QED
      BY <2>12, <3>6
  <2>13. QED
    BY <2>2, <2>11, <2>12
<1>8. QED
  BY <1>5, <1>6, <1>7 DEF Polygon

\* If the portal that is seen edge-on is around the apex, a polygon is left
\* around a place that it is entered at: only through a connection.
LEMMA FlatIsBlocked ==
  ASSUME SoundCorridor(corridor), ApexShape, NEW L, NEW R, NEW m \in 1..Polys, Flat(L, R, m), m \in Ahead(m),
         OnPortal(apex.pt, Portal(apex.idx)), OnPortal(apex.pt, Portal(m)),
         NEW A \in Places, NEW e \in Int, e <= apex.idx
  PROVE  /\ m - 1 >= e
         /\ LeftBlocked(A, apex.pt, e, m - 1)
         /\ RightBlocked(A, apex.pt, e, m - 1)
<1> DEFINE p == Portal(m - 1)
           q == Portal(m)
           a == apex.pt
<1>1. /\ Polys \in Nat /\ a \in Places /\ apex.idx \in 1..Polys
  BY PolysIsNat DEF ApexShape
<1>2. apex.idx < m /\ m - 1 \in apex.idx..m /\ m - 1 \in apex.idx..(m - 1) /\ m - 1 \in 1..Polys /\ m \in 2..Polys
  BY <1>1 DEF Ahead
<1>3. p \in [l : Places, r : Places] /\ q \in [l : Places, r : Places] /\ p.l \in Places /\ p.r \in Places
  BY <1>1, <1>2, PortalPlaces
<1>4. q.l # q.r /\ a # q.l /\ a # q.r
  BY DEF Flat
<1>5. m - 1 \in Ahead(m) /\ m - 1 # m => ThroughApex(m - 1)
  BY DEF Flat
<1>6. OnPortal(a, p)
  <2>1. CASE ThroughApex(m - 1)
    BY <1>3, <2>1, EndsAreOnPortal DEF ThroughApex
  <2>2. CASE ~ThroughApex(m - 1)
    BY <1>2, <1>5, <2>2 DEF Ahead
  <2>3. QED
    BY <2>1, <2>2
<1>7. IsPoint(p)
  <2> SUFFICES ASSUME ~IsPoint(p) PROVE FALSE
    OBVIOUS
  <2>1. \/ Polygon(p, q)
        \/ q.l = q.r
    BY <1>2, <1>4, PortalsOfPolygon
  <2>2. Polygon(p, q)
    BY <1>4, <2>1
  <2>3. QED
    BY <1>1, <1>3, <1>4, <1>6, <2>2, NotAround
<1>8. p.l = a /\ p.r = a
  BY <1>1, <1>3, <1>6, <1>7, OnlyPlace DEF IsPoint
<1>9. Cross(A, a, a) = 0
  BY <1>1, CrossInt
<1>10. m - 1 \in 1..(Polys - 1) /\ e <= m - 1 /\ m - 1 <= m - 1
  BY <1>1, <1>2
<1>11. /\ OnPortal(a, Portal(m - 1))
       /\ Cross(A, a, Portal(m - 1).l) = 0 /\ Cross(A, a, Portal(m - 1).r) = 0
  BY <1>6, <1>8, <1>9
<1>12. QED
  BY <1>10, <1>11 DEF LeftBlocked, RightBlocked

\* A string kept from the right does not turn to it unless it is blocked there.
LEMMA HeldLeft ==
  ASSUME PullInv, ConeInv, EdgeInv, PullPortal, ~Shut, OnPortal(apex.pt, Portal(apex.idx)),
         NEW A \in Places, KeptLeft(A), NEW e \in Int, e <= apex.idx, NEW side, TurnSide(side)
  PROVE  RightBlockedTo(A, e, side.idx) \/ (side.pt # apex.pt /\ Cross(A, apex.pt, side.pt) >= 0)
<1> DEFINE a == apex.pt
           m == at - 1
           l0 == Portal(m).l
           r0 == Portal(m).r
           l == Portal(at).l
           r == Portal(at).r
           L == left.pt
           R == right.pt
           Goal == RightBlockedTo(A, e, side.idx) \/ (side.pt # a /\ Cross(A, a, side.pt) >= 0)
<1> USE DEF PortalPoints, OpenKinds, TurnKinds, CrossRules
<1>1. PortalPoints
  BY PortalCases
<1>2. OpenKinds
  BY OpenCases
<1>3. TurnKinds(side)
  BY <1>1, TurnSideCases
<1>4. CrossRules(A, a)
  BY <1>1, CrossInt
<1>5. Portal(m) \in [l : Places, r : Places]
  BY <1>1, <1>2, PortalPlaces
<1>6. ASSUME l0 = a \/ r0 = a, m <= side.idx, Cross(A, a, l0) >= 0, Cross(A, a, r0) >= 0 PROVE Goal
  <2>1. OnPortal(a, Portal(m))
    BY <1>5, <1>6, EndsAreOnPortal
  <2>2. e <= m
    BY <1>1, <1>2 DEF Ahead
  <2>3. RightBlocked(A, a, e, m)
    BY <1>2, <1>6, <2>1, <2>2 DEF RightBlocked
  <2>4. QED
    BY <1>1, <1>6, <2>3 DEF RightBlockedTo
<1>7. ASSUME Flat(L, R, m), left.idx = m, right.idx = m, OnPortal(a, Portal(m)) PROVE Goal
  <2>1. m - 1 >= e /\ RightBlocked(A, a, e, m - 1)
    BY <1>1, <1>2, <1>7, FlatIsBlocked
  <2>2. m - 1 <= side.idx /\ m - 1 < at /\ m - 1 \in Int
    BY <1>1, <1>2, <1>3, <1>7
  <2>3. QED
    BY <2>1, <2>2 DEF RightBlockedTo
<1>8. ASSUME AwaitsLeft(A, a, apex.idx, at) PROVE Goal
  <2>1. PICK to \in (apex.idx + 1)..Polys :
          /\ at <= to /\ Cross(A, a, Portal(to).r) >= 0
          /\ \A j \in (apex.idx + 1)..(to - 1) : Cross(A, a, Portal(j).l) > 0 /\ Cross(A, a, Portal(j).r) <= 0
    BY <1>8 DEF AwaitsLeft
  <2>2. \A j \in Ahead(m) : j \in (apex.idx + 1)..m /\ j \in Int
    BY <1>1, <1>2, BehindApex
  <2>3. ASSUME NEW j \in Ahead(m) PROVE Cross(A, a, Portal(j).l) > 0 /\ Cross(A, a, Portal(j).r) <= 0
    BY <1>1, <2>1, <2>2
  <2>4. Cross(A, a, l0) > 0 /\ Cross(A, a, r0) <= 0 /\ Cross(A, a, L) > 0 /\ Cross(A, a, R) <= 0
    BY <1>2, <2>3
  <2>5. at < to => Cross(A, a, l) > 0 /\ Cross(A, a, r) <= 0
    BY <1>1, <1>2, <2>1 DEF Ahead
  <2>6. at = to => Cross(A, a, r) >= 0
    BY <2>1
  <2>7. L # a /\ ~Ray(L, R, m)
    BY <1>1, <1>4, <2>4 DEF Ray
  <2>8. Cross(A, a, l0) > Cross(A, a, r0)
    BY <1>2, <1>4, <2>4
  <2>9. CASE R = a /\ r0 = a
    <3>1. Cross(a, R, r) = 0 /\ Cross(a, r, R) = 0
      BY <1>1, <1>4, <2>9
    <3>2. side = left \/ side.idx = at
      BY <1>3, <3>1
    <3>3. CASE side = left
      BY <2>4, <2>7, <3>3, <1>1, <1>4
    <3>4. CASE side.idx = at
      <4>1. Cross(A, a, r0) >= 0 /\ Cross(A, a, l0) >= 0 /\ m <= side.idx
        BY <1>1, <1>2, <1>4, <2>4, <2>9, <3>4
      <4>2. QED
        BY <1>6, <2>9, <4>1
    <3>5. QED
      BY <3>2, <3>3, <3>4
  <2>10. CASE /\ R # a
              /\ Forth(a, r0, l0, L) > 0 /\ Forth(a, r0, l0, R) > 0
              /\ Forth(a, r0, l0, l) > 0 /\ Forth(a, r0, l0, r) > 0
    <3>1. \A x, y \in {L, R, l, r} : Cross(a, x, y) >= 0 =>
             /\ Cross(A, a, x) >= 0 => Cross(A, a, y) >= 0
             /\ Cross(A, a, x) > 0 => Cross(A, a, y) > 0
             /\ Cross(A, a, x) >= 0 /\ Cross(a, x, y) > 0 => Cross(A, a, y) > 0
      <4>1. ASSUME NEW x \in {L, R, l, r}, NEW y \in {L, R, l, r}, Cross(a, x, y) >= 0
            PROVE  /\ Cross(A, a, x) >= 0 => Cross(A, a, y) >= 0
                   /\ Cross(A, a, x) > 0 => Cross(A, a, y) > 0
                   /\ Cross(A, a, x) >= 0 /\ Cross(a, x, y) > 0 => Cross(A, a, y) > 0
        <5>1. x \in Places /\ y \in Places /\ Forth(a, r0, l0, x) > 0 /\ Forth(a, r0, l0, y) > 0
          BY <1>1, <2>10, <4>1
        <5>2. a \in Places /\ l0 \in Places /\ r0 \in Places
          BY <1>1, <1>2
        <5> HIDE DEF a, l0, r0, L, R, l, r
        <5>3. QED
          BY <2>8, <4>1, <5>1, <5>2, InOrderOfLine
      <4>2. QED
        BY <4>1
    <3>2. CASE side = left
      BY <1>1, <1>4, <2>4, <2>7, <3>2
    <3>3. CASE /\ side = right
               /\ Cross(a, r, R) > 0 /\ Cross(a, l, R) >= 0
      <4> SUFFICES ASSUME Cross(A, a, R) < 0 PROVE FALSE
        BY <1>1, <1>4, <2>10, <3>3
      <4>1. at < to \/ at = to
        BY <1>1, <2>1
      <4>2. CASE at < to
        <5>1. Cross(A, a, R) > 0
          BY <2>5, <3>1, <3>3, <4>2
        <5>2. QED
          BY <1>1, <1>4, <2>4, <5>1
      <4>3. CASE at = to
        <5>1. Cross(a, r, R) >= 0
          BY <1>1, <1>4, <3>3
        <5>2. Cross(A, a, R) > 0
          BY <2>6, <3>1, <3>3, <4>3, <5>1
        <5>3. QED
          BY <1>1, <1>4, <2>4, <5>2
      <4>4. QED
        BY <4>1, <4>2, <4>3
    <3>4. CASE /\ side.pt = r /\ Cross(a, r, L) > 0 /\ Cross(a, l, r) >= 0
      <4>1. r # a
        BY <1>1, <1>4, <3>4
      <4>2. at < to \/ at = to
        BY <1>1, <2>1
      <4>3. CASE at < to
        <5>1. Cross(A, a, r) > 0
          BY <2>5, <3>1, <3>4, <4>3
        <5>2. QED
          BY <1>1, <1>4, <3>4, <4>1, <5>1
      <4>4. CASE at = to
        BY <2>6, <3>4, <4>1, <4>4
      <4>5. QED
        BY <4>2, <4>3, <4>4
    <3>5. QED
      BY <1>3, <2>10, <3>2, <3>3, <3>4
  <2>11. CASE Flat(L, R, m) /\ left.idx = m /\ right.idx = m
    <3>1. l0 # a /\ r0 # a /\ Cross(a, r0, l0) = 0
      BY <2>11 DEF Flat
    <3>2. Cross(a, l0, r0) = 0
      BY <1>1, <1>2, <1>4, <3>1
    <3>3. OnPortal(a, Portal(m))
      BY <1>1, <1>2, <2>4, <3>1, <3>2, PartedIsBetween DEF OnPortal
    <3>4. QED
      BY <1>7, <2>11, <3>3
  <2>12. QED
    BY <1>2, <2>7, <2>9, <2>10, <2>11
<1>9. ASSUME OpensLeft(A, a, L, R) PROVE Goal
  <2>1. R # a /\ Cross(A, a, L) >= 0 /\ Cross(A, a, R) >= 0
    BY <1>9 DEF OpensLeft
  <2>2. CASE side = left /\ L # a
    BY <2>1, <2>2
  <2>3. CASE side = left /\ L = a
    <3>1. l0 = a /\ R = r0 /\ left.idx = m
      BY <1>2, <2>1, <2>3 DEF Ray
    <3>2. m <= side.idx /\ Cross(A, a, l0) >= 0 /\ Cross(A, a, r0) >= 0
      BY <1>1, <1>2, <1>4, <2>1, <2>3, <3>1
    <3>3. QED
      BY <1>6, <3>1, <3>2
  <2>4. CASE side = right
    BY <2>1, <2>4
  <2>5. CASE side.pt = r /\ L # a /\ Cross(a, R, r) >= 0 /\ (R = a \/ Cross(a, r, L) > 0)
    <3>1. Cross(a, r, L) > 0 /\ r # a
      BY <1>1, <1>4, <2>1, <2>5
    <3>2. ~Ray(L, R, m)
      <4>1. L = R => Cross(a, R, r) = -Cross(a, r, L)
        BY <1>1, <1>4
      <4>2. QED
        BY <1>1, <1>4, <2>5, <3>1, <4>1 DEF Ray
    <3>3. CASE Flat(L, R, m) /\ left.idx = m /\ right.idx = m
      <4>1. OnPortal(a, Portal(m))
        BY <1>1, <1>2, <2>5, <3>3, FlatSeen
      <4>2. QED
        BY <1>7, <3>3, <4>1
    <3> SUFFICES ASSUME ~(Flat(L, R, m) /\ left.idx = m /\ right.idx = m) PROVE Goal
      BY <3>3
    <3>4. Forth(a, r0, l0, L) > 0 /\ Forth(a, r0, l0, R) > 0 /\ Forth(a, r0, l0, r) > 0
      BY <1>2, <2>1, <2>5, <3>2
    <3>5. Cross(a, r, L) >= 0
      BY <1>1, <1>4, <3>1
    <3>6. Cross(a, R, L) > 0
      <4>1. a \in Places /\ l0 \in Places /\ r0 \in Places /\ r \in Places /\ L \in Places /\ R \in Places
        BY <1>1, <1>2
      <4>2. Cross(a, R, r) >= 0 /\ Cross(a, r, L) > 0
        BY <2>5, <3>1
      <4> HIDE DEF a, l0, r0, r, L, R
      <4>3. QED
        BY <3>4, <3>5, <4>1, <4>2, ForthInOrder
    <3>7. Cross(A, a, r) >= 0
      <4>1. a \in Places /\ r \in Places /\ L \in Places /\ R \in Places /\ Cross(a, R, r) >= 0
        BY <1>1, <2>5
      <4> HIDE DEF a, r, L, R
      <4>2. QED
        BY <2>1, <3>5, <3>6, <4>1, BetweenOfLine
    <3>8. QED
      BY <2>5, <3>1, <3>7
  <2>6. QED
    BY <1>3, <2>2, <2>3, <2>4, <2>5
<1>10. QED
  BY <1>8, <1>9 DEF KeptLeft

\* A string kept from the left does not turn to it unless it is blocked there.
LEMMA HeldRight ==
  ASSUME PullInv, ConeInv, EdgeInv, PullPortal, ~Shut, OnPortal(apex.pt, Portal(apex.idx)),
         NEW A \in Places, KeptRight(A), NEW e \in Int, e <= apex.idx, NEW side, TurnSide(side)
  PROVE  LeftBlockedTo(A, e, side.idx) \/ (side.pt # apex.pt /\ Cross(A, apex.pt, side.pt) <= 0)
<1> DEFINE a == apex.pt
           m == at - 1
           l0 == Portal(m).l
           r0 == Portal(m).r
           l == Portal(at).l
           r == Portal(at).r
           L == left.pt
           R == right.pt
           Goal == LeftBlockedTo(A, e, side.idx) \/ (side.pt # a /\ Cross(A, a, side.pt) <= 0)
<1> USE DEF PortalPoints, OpenKinds, TurnKinds, CrossRules
<1>1. PortalPoints
  BY PortalCases
<1>2. OpenKinds
  BY OpenCases
<1>3. TurnKinds(side)
  BY <1>1, TurnSideCases
<1>4. CrossRules(A, a)
  BY <1>1, CrossInt
<1>5. Portal(m) \in [l : Places, r : Places]
  BY <1>1, <1>2, PortalPlaces
<1>6. ASSUME l0 = a \/ r0 = a, m <= side.idx, Cross(A, a, l0) <= 0, Cross(A, a, r0) <= 0 PROVE Goal
  <2>1. OnPortal(a, Portal(m))
    BY <1>5, <1>6, EndsAreOnPortal
  <2>2. e <= m
    BY <1>1, <1>2 DEF Ahead
  <2>3. LeftBlocked(A, a, e, m)
    BY <1>2, <1>6, <2>1, <2>2 DEF LeftBlocked
  <2>4. QED
    BY <1>1, <1>6, <2>3 DEF LeftBlockedTo
<1>7. ASSUME Flat(L, R, m), left.idx = m, right.idx = m, OnPortal(a, Portal(m)) PROVE Goal
  <2>1. m - 1 >= e /\ LeftBlocked(A, a, e, m - 1)
    BY <1>1, <1>2, <1>7, FlatIsBlocked
  <2>2. m - 1 <= side.idx /\ m - 1 < at /\ m - 1 \in Int
    BY <1>1, <1>2, <1>3, <1>7
  <2>3. QED
    BY <2>1, <2>2 DEF LeftBlockedTo
<1>8. ASSUME AwaitsRight(A, a, apex.idx, at) PROVE Goal
  <2>1. PICK to \in (apex.idx + 1)..Polys :
          /\ at <= to /\ Cross(A, a, Portal(to).l) <= 0 /\ Cross(A, a, Portal(to).r) < 0
          /\ \A j \in (apex.idx + 1)..(to - 1) : Cross(A, a, Portal(j).r) < 0 /\ Cross(A, a, Portal(j).l) >= 0
    BY <1>8 DEF AwaitsRight
  <2>2. \A j \in Ahead(m) : j \in (apex.idx + 1)..m /\ j \in Int
    BY <1>1, <1>2, BehindApex
  <2>3. ASSUME NEW j \in Ahead(m) PROVE Cross(A, a, Portal(j).r) < 0 /\ Cross(A, a, Portal(j).l) >= 0
    BY <1>1, <2>1, <2>2
  <2>4. Cross(A, a, r0) < 0 /\ Cross(A, a, l0) >= 0 /\ Cross(A, a, R) < 0 /\ Cross(A, a, L) >= 0
    BY <1>2, <2>3
  <2>5. Cross(A, a, r) < 0
    <3>1. at < to \/ at = to
      BY <1>1, <2>1
    <3>2. at < to => at \in (apex.idx + 1)..(to - 1)
      BY <1>1, <1>2, <2>1 DEF Ahead
    <3>3. QED
      BY <2>1, <3>1, <3>2
  <2>6. R # a /\ r # a /\ ~Ray(L, R, m)
    BY <1>1, <1>4, <2>4, <2>5 DEF Ray
  <2>7. CASE L = a /\ l0 = a /\ left.idx = m /\ right.idx = m
    <3>1. m <= side.idx /\ Cross(A, a, l0) <= 0 /\ Cross(A, a, r0) <= 0
      BY <1>1, <1>2, <1>3, <1>4, <2>4, <2>7
    <3>2. QED
      BY <1>6, <2>7, <3>1
  <2>8. CASE /\ Forth(a, r0, l0, L) > 0 /\ Forth(a, r0, l0, r) > 0
    <3>1. ASSUME Cross(a, L, r) >= 0 PROVE FALSE
      <4>1. Cross(A, a, l0) > Cross(A, a, r0)
        BY <1>1, <1>2, <1>4, <2>4
      <4>2. a \in Places /\ l0 \in Places /\ r0 \in Places /\ r \in Places /\ L \in Places
        BY <1>1, <1>2
      <4>3. Cross(A, a, r) >= 0
        <5> HIDE DEF a, l0, r0, L, r
        <5>1. QED
          BY <2>4, <2>8, <3>1, <4>1, <4>2, InOrderOfLine
      <4>4. QED
        BY <1>1, <1>4, <2>5, <4>3
    <3>2. CASE side = right
      BY <1>1, <1>4, <2>4, <2>6, <3>2
    <3>3. CASE side.pt = r
      BY <1>1, <1>4, <2>5, <2>6, <3>3
    <3>4. QED
      BY <1>3, <3>1, <3>2, <3>3
  <2>9. CASE Flat(L, R, m) /\ left.idx = m /\ right.idx = m
    <3>1. l0 # a /\ r0 # a /\ Cross(a, r0, l0) = 0
      BY <2>9 DEF Flat
    <3>2. Cross(a, l0, r0) = 0
      BY <1>1, <1>2, <1>4, <3>1
    <3>3. OnPortal(a, Portal(m))
      BY <1>1, <1>2, <2>4, <3>1, <3>2, PartedIsBetween DEF OnPortal
    <3>4. QED
      BY <1>7, <2>9, <3>3
  <2>10. QED
    BY <1>2, <2>6, <2>7, <2>8, <2>9
<1>9. ASSUME OpensRight(A, a, L, R) PROVE Goal
  <2>1. R # a /\ Cross(A, a, L) <= 0 /\ Cross(A, a, R) <= 0
    BY <1>9 DEF OpensRight
  <2>2. CASE side = left /\ L # a
    BY <2>1, <2>2
  <2>3. CASE side = left /\ L = a
    <3>1. l0 = a /\ R = r0 /\ left.idx = m
      BY <1>2, <2>1, <2>3 DEF Ray
    <3>2. m <= side.idx /\ Cross(A, a, l0) <= 0 /\ Cross(A, a, r0) <= 0
      BY <1>1, <1>2, <1>4, <2>1, <2>3, <3>1
    <3>3. QED
      BY <1>6, <3>1, <3>2
  <2>4. CASE side = right
    BY <2>1, <2>4
  <2>5. CASE side.pt = r /\ L # a /\ Cross(a, R, r) >= 0 /\ (R = a \/ Cross(a, r, L) > 0)
    <3>1. Cross(a, r, L) > 0 /\ r # a
      BY <1>1, <1>4, <2>1, <2>5
    <3>2. ~Ray(L, R, m)
      <4>1. L = R => Cross(a, R, r) = -Cross(a, r, L)
        BY <1>1, <1>4
      <4>2. QED
        BY <1>1, <1>4, <2>5, <3>1, <4>1 DEF Ray
    <3>3. CASE Flat(L, R, m) /\ left.idx = m /\ right.idx = m
      <4>1. OnPortal(a, Portal(m))
        BY <1>1, <1>2, <2>5, <3>3, FlatSeen
      <4>2. QED
        BY <1>7, <3>3, <4>1
    <3> SUFFICES ASSUME ~(Flat(L, R, m) /\ left.idx = m /\ right.idx = m) PROVE Goal
      BY <3>3
    <3>4. Forth(a, r0, l0, L) > 0 /\ Forth(a, r0, l0, R) > 0 /\ Forth(a, r0, l0, r) > 0
      BY <1>2, <2>1, <2>5, <3>2
    <3>5. Cross(a, r, L) >= 0
      BY <1>1, <1>4, <3>1
    <3>6. Cross(a, R, L) > 0
      <4>1. a \in Places /\ l0 \in Places /\ r0 \in Places /\ r \in Places /\ L \in Places /\ R \in Places
        BY <1>1, <1>2
      <4>2. Cross(a, R, r) >= 0 /\ Cross(a, r, L) > 0
        BY <2>5, <3>1
      <4> HIDE DEF a, l0, r0, r, L, R
      <4>3. QED
        BY <3>4, <3>5, <4>1, <4>2, ForthInOrder
    <3>7. Cross(A, a, r) <= 0
      <4>1. a \in Places /\ r \in Places /\ L \in Places /\ R \in Places /\ Cross(a, R, r) >= 0
        BY <1>1, <2>5
      <4> HIDE DEF a, r, L, R
      <4>2. QED
        BY <2>1, <3>5, <3>6, <4>1, BetweenOfLine
    <3>8. QED
      BY <2>5, <3>1, <3>7
  <2>6. QED
    BY <1>3, <2>2, <2>3, <2>4, <2>5
<1>10. QED
  BY <1>8, <1>9 DEF KeptRight

\* What the string has met it has met further on.
LEMMA StaysBlocked ==
  ASSUME Polys \in Nat, NEW A, NEW q, NEW e, NEW lo \in Int, NEW hi \in Int, lo <= hi
  PROVE  /\ LeftBlocked(A, q, e, lo) => LeftBlocked(A, q, e, hi)
         /\ RightBlocked(A, q, e, lo) => RightBlocked(A, q, e, hi)
<1>1. \A k \in 1..(Polys - 1) : k <= lo => k <= hi
  OBVIOUS
<1>2. QED
  BY <1>1 DEF LeftBlocked, RightBlocked

\* A funnel that goes ahead with a portal seen edge-on has the apex on it.
LEMMA FlatGoesOn ==
  ASSUME PullInv, ConeInv, EdgeInv, PullPortal, GoesAhead, ~Shut, OnPortal(apex.pt, Portal(apex.idx)),
         Flat(left.pt, right.pt, at - 1), NEW A \in Places, NEW e \in Int, e <= apex.idx
  PROVE  LeftBlocked(A, apex.pt, e, Reach) /\ RightBlocked(A, apex.pt, e, Reach)
<1> DEFINE a == apex.pt
           m == at - 1
           L == left.pt
           R == right.pt
<1> USE DEF PortalPoints, OpenKinds
<1>1. PortalPoints
  BY PortalCases
<1>2. OpenKinds
  BY OpenCases
<1>3. /\ L = Portal(m).l /\ R = Portal(m).r /\ L # R /\ L # a /\ R # a /\ Cross(a, R, L) = 0
  BY DEF Flat
<1>4. /\ left.idx = m /\ right.idx = m
      /\ Area(Portal(at).r, R, L) >= 0 /\ Area(R, L, Portal(at).l) >= 0
  <2>1. ~(Cross(a, R, L) > 0)
    BY <1>3
  <2>2. ~InSight(a, R, L, L, R)
    BY <2>1 DEF InSight
  <2>3. QED
    BY <1>2, <1>3, <2>2 DEF Ray
<1>5. Narrows(a, L, R, Portal(at).l, Portal(at).r, SeenLeft.pt, SeenRight.pt)
  BY DEF GoesAhead
<1>6. Between(a, L, R)
  BY <1>1, <1>3, <1>4, <1>5, FlatNarrows
<1>7. OnPortal(a, Portal(m))
  BY <1>3, <1>6 DEF OnPortal
<1>8. m - 1 >= e /\ LeftBlocked(A, a, e, m - 1) /\ RightBlocked(A, a, e, m - 1)
  BY <1>1, <1>2, <1>7, FlatIsBlocked
<1>9. Reach = m /\ m \in Int /\ m - 1 \in Int /\ m - 1 <= m
  BY <1>1, <1>2, <1>4 DEF Reach
<1>10. QED
  BY <1>1, <1>8, <1>9, StaysBlocked

\* A polygon that is entered to the right of a line through its left end is not
\* left with the left end of the next portal there, unless the right one is, too.
LEMMA PolygonLeft ==
  ASSUME NEW p \in [l : Places, r : Places], NEW q \in [l : Places, r : Places],
         Polygon(p, q), q.l # q.r, NEW A \in Places, Cross(A, p.l, p.r) < 0, Cross(A, p.l, q.r) >= 0
  PROVE  Cross(A, p.l, q.l) >= 0
<1> DEFINE a == p.l
           r0 == p.r
           l == q.l
           r == q.r
           v == Cross(a, r, l)
           w == Cross(a, r0, r)
           u == Cross(a, r0, l)
<1>1. a \in Places /\ r0 \in Places /\ l \in Places /\ r \in Places
  OBVIOUS
<1>2. /\ u \in Int /\ v \in Int /\ w \in Int
      /\ Cross(a, r, r0) = -w /\ Cross(a, l, r0) = -u /\ Cross(a, l, r) = -v
      /\ Cross(a, r0, a) = 0 /\ Cross(a, a, l) = 0 /\ Cross(a, a, r) = 0
      /\ Cross(A, a, a) = 0
  BY <1>1, CrossInt
<1>3. u >= 0 /\ v >= 0 /\ w >= 0
  <2>1. Area(a, l, r) >= 0 /\ Area(r, r0, a) >= 0 /\ Area(l, r0, a) >= 0
    BY DEF Polygon, Before, Behind
  <2>2. /\ Area(a, l, r) = -Cross(a, l, r)
        /\ Area(r, r0, a) = -Cross(a, r, r0) /\ Area(l, r0, a) = -Cross(a, l, r0)
    <3>1. /\ Area(a, l, r) = -Cross(a, l, r)
          /\ Area(a, r, r0) = -Cross(a, r, r0) /\ Area(a, l, r0) = -Cross(a, l, r0)
      BY <1>1, CrossInt
    <3>2. Area(a, r, r0) = Area(r, r0, a) /\ Area(a, l, r0) = Area(l, r0, a)
      BY <1>1, CrossTurns
    <3>3. QED
      BY <3>1, <3>2
  <2> HIDE DEF u, v, w
  <2>3. QED
    BY <1>2, <2>1, <2>2
<1>4. PICK F \in Places : \A y \in Places : Cross(A, a, y) = Cross(a, F, y)
  BY <1>1, LineGoesOn
<1> DEFINE x == Cross(a, F, r)
           y == Cross(a, F, r0)
           z == Cross(a, F, l)
<1>5. x \in Int /\ y \in Int /\ z \in Int /\ x >= 0 /\ y < 0 /\ Cross(A, a, l) = z /\ Cross(A, a, r) = x
      /\ Cross(A, a, r0) = y
  BY <1>1, <1>4, CrossInt
<1>6. z * w = x * u - y * v
  <2>1. Cross(a, F, r) * Cross(a, r0, l) = Cross(a, F, r0) * Cross(a, r, l) - Cross(a, F, l) * Cross(a, r, r0)
    <3> HIDE DEF a, r, r0, l
    <3>1. QED
      BY <1>1, FourCrosses
  <2>2. x * u = y * v - z * (-w)
    BY <1>2, <2>1
  <2> HIDE DEF x, y, z, u, v, w
  <2>3. \A i, j, k \in Int : i = j - k * (-w) => k * w = i - j
    BY <1>2
  <2>4. x * u \in Int /\ y * v \in Int
    BY <1>2, <1>5
  <2>5. QED
    BY <1>5, <2>2, <2>3, <2>4
<1>7. CASE SameEdge(p, q)
  <2>1. CASE Between(l, a, r)
    <3>1. Cross(A, a, a) >= 0 /\ Cross(A, a, r) >= 0
      BY <1>2
    <3>2. QED
      BY <1>1, <2>1, <3>1, BetweenSides
  <2>2. CASE Between(r0, a, l) /\ Between(r, r0, l)
    <3> SUFFICES ASSUME Cross(A, a, l) < 0 PROVE FALSE
      BY <1>5
    <3>1. Cross(A, a, r0) < 0
      OBVIOUS
    <3>2. Cross(A, a, r) < 0
      BY <1>1, <2>2, <3>1, BetweenSides
    <3>3. QED
      BY <1>5, <3>2
  <2>3. QED
    BY <1>7, <2>1, <2>2 DEF SameEdge
<1>8. CASE ~SameEdge(p, q)
  <2>1. p.l # p.r
    BY <1>2
  <2>2. Area(a, l, r) > 0 \/ Area(r0, l, r) > 0
    BY <1>8, <2>1 DEF Polygon, IsPoint, InFront
  <2>3. Area(a, l, r) = v
    BY <1>1, <1>2, CrossInt
  <2>4. Area(r0, l, r) = v + w - u
    <3>1. Area(r0, l, r) = -Cross(r0, l, r)
      BY <1>1, CrossInt
    <3>2. Cross(r0, l, r) = Cross(a, r0, l) + Cross(a, l, r) + Cross(a, r, r0)
      BY <1>1, CrossMoves
    <3>3. QED
      BY <1>2, <3>1, <3>2
  <2> HIDE DEF u, v, w, x, y, z
  <2>5. v > 0 \/ w > 0
    BY <1>2, <1>3, <2>2, <2>3, <2>4
  <2>6. x * u >= 0 /\ y * v <= 0 /\ (v > 0 => y * v < 0) /\ x * u \in Int /\ y * v \in Int
    BY <1>2, <1>3, <1>5
  <2>7. z * w >= 0 /\ (v > 0 => z * w > 0)
    BY <1>6, <2>6
  <2>8. \A i, j \in Int : j >= 0 => (i * j > 0 => j > 0) /\ (j > 0 /\ i * j >= 0 => i >= 0)
    OBVIOUS
  <2>9. z >= 0
    BY <1>2, <1>3, <1>5, <2>5, <2>7, <2>8
  <2>10. QED
    BY <1>5, <2>9
<1>9. QED
  BY <1>7, <1>8

\* The loop goes on and the string still bends to the left.
LEMMA LeftGoesOn ==
  ASSUME PullInv, ConeInv, EdgeInv, PullPortal, GoesAhead, OnPortal(apex.pt, Portal(apex.idx)),
         NEW A \in Places, KeptLeft(A), NEW e \in Int, e <= apex.idx
  PROVE  \/ RightBlocked(A, apex.pt, e, Reach)
         \/ AwaitsLeft(A, apex.pt, apex.idx, at + 1)
         \/ OpensLeft(A, apex.pt, SeenLeft.pt, SeenRight.pt)
         \/ /\ SeenLeft.pt = apex.pt /\ SeenRight.pt = apex.pt
            /\ at = Polys \/ RightBlocked(A, apex.pt, e, at)
<1> DEFINE a == apex.pt
           f == apex.idx
           m == at - 1
           l0 == Portal(m).l
           r0 == Portal(m).r
           l == Portal(at).l
           r == Portal(at).r
           L == left.pt
           R == right.pt
           newL == SeenLeft.pt
           newR == SeenRight.pt
           Goal == \/ RightBlocked(A, a, e, Reach)
                   \/ AwaitsLeft(A, a, f, at + 1)
                   \/ OpensLeft(A, a, newL, newR)
                   \/ newL = a /\ newR = a /\ (at = Polys \/ RightBlocked(A, a, e, at))
<1> USE DEF PortalPoints, OpenKinds, CrossRules
<1>1. PortalPoints
  BY PortalCases
<1>2. Narrows(a, L, R, l, r, newL, newR)
  BY DEF GoesAhead
<1>3. /\ newR = IF Cross(a, R, r) >= 0 THEN r ELSE R
      /\ newL = IF Cross(a, l, L) >= 0 THEN l ELSE L
      /\ Cross(a, R, r) >= 0 => a = R \/ Cross(a, r, L) > 0
      /\ Cross(a, l, L) >= 0 => a = L \/ Cross(a, newR, l) > 0
  BY <1>2 DEF Narrows
<1>4. CrossRules(A, a)
  BY <1>1, CrossInt
<1>5. ASSUME Shut PROVE newL = l /\ newR = r
  <2>1. Narrows(a, a, a, l, r, newL, newR)
    BY <1>2, <1>5 DEF Shut
  <2> HIDE DEF newL, newR
  <2>2. QED
    BY <1>1, <2>1, ShutNarrows
<1>6. ~Shut => OpenKinds
  BY OpenCases
<1>7. L = a /\ R \in Places /\ R # a /\ Area(r, R, a) >= 0 => FALSE
  BY <1>1, <1>2, LeftShutTurns
<1>8. ASSUME AwaitsLeft(A, a, f, at) PROVE Goal
  <2>1. PICK to \in (f + 1)..Polys :
          /\ at <= to /\ Cross(A, a, Portal(to).r) >= 0
          /\ \A j \in (f + 1)..(to - 1) : Cross(A, a, Portal(j).l) > 0 /\ Cross(A, a, Portal(j).r) <= 0
    BY <1>8 DEF AwaitsLeft
  <2>2. Portal(f).l = a /\ Cross(A, a, Portal(f).r) < 0
    BY <1>8 DEF AwaitsLeft
  <2>3. CASE at < to
    <3>1. at + 1 <= to
      BY <1>1, <2>1, <2>3
    <3>2. QED
      BY <2>1, <2>2, <3>1 DEF AwaitsLeft
  <2>4. CASE at = to /\ Shut
    <3>1. Cross(A, a, r) >= 0 /\ m >= f /\ m \in 1..(Polys - 1) /\ at \in 2..Polys
      BY <1>1, <2>1, <2>4
    <3>2. ShutAt(m)
      BY <1>1, <2>4 DEF ConeInv
    <3>3. m = f
      <4> SUFFICES ASSUME m # f PROVE FALSE
        OBVIOUS
      <4>1. m \in f..m /\ m \in (f + 1)..(to - 1)
        BY <1>1, <2>1, <2>4, <3>1
      <4>2. m \in Ahead(m)
        BY <4>1 DEF Ahead
      <4>3. l0 = a
        BY <3>2, <4>2 DEF ShutAt, ThroughApex
      <4>4. Cross(A, a, l0) > 0
        BY <2>1, <4>1
      <4>5. QED
        BY <1>1, <1>4, <4>3, <4>4
    <3>4. l0 = a /\ Cross(A, a, r0) < 0
      BY <2>2, <3>3
    <3>5. r0 \in Places /\ l0 \in Places
      BY <1>1, <3>1, PortalPlaces
    <3>6. r0 # a
      BY <1>4, <3>4
    <3>7. /\ Portal(m) \in [l : Places, r : Places] /\ Portal(at) \in [l : Places, r : Places]
          /\ \/ at < Polys /\ Polygon(Portal(m), Portal(at))
             \/ at = Polys /\ l = corridor.goal /\ r = corridor.goal
      BY <1>1, <3>1, <3>4, <3>6, PortalsOfPolygon
    <3>8. CASE at = Polys /\ l = corridor.goal /\ r = corridor.goal
      <4>1. newL = l /\ newR = l /\ l = r
        BY <1>5, <2>4, <3>8
      <4>2. CASE l = a
        BY <3>8, <4>1, <4>2
      <4>3. CASE l # a
        BY <3>1, <4>1, <4>3 DEF OpensLeft
      <4>4. QED
        BY <4>2, <4>3
    <3>9. CASE at < Polys /\ Polygon(Portal(m), Portal(at))
      <4>1. newL = l /\ newR = r
        BY <1>5, <2>4
      <4>2. CASE l = a /\ r = a
        <5>1. at \in 1..(Polys - 1) /\ e <= at /\ at <= at
          BY <1>1, <3>1, <3>9
        <5>2. OnPortal(a, Portal(at)) /\ Cross(A, a, l) >= 0 /\ Cross(A, a, r) >= 0
          BY <1>1, <1>4, <3>7, <4>2, EndsAreOnPortal
        <5>3. RightBlocked(A, a, e, at)
          BY <5>1, <5>2 DEF RightBlocked
        <5>4. QED
          BY <4>1, <4>2, <5>3
      <4>3. CASE l = r /\ r # a
        BY <3>1, <4>1, <4>3 DEF OpensLeft
      <4>4. CASE l # r
        <5>1. r # a
          BY <3>4, <3>6, <3>7, <3>9, <4>4, NextIsNotShut
        <5>2. Cross(A, a, l) >= 0
          BY <3>1, <3>4, <3>7, <3>9, <4>4, PolygonLeft
        <5>3. QED
          BY <3>1, <4>1, <5>1, <5>2 DEF OpensLeft
      <4>5. QED
        BY <4>2, <4>3, <4>4
    <3>10. QED
      BY <3>7, <3>8, <3>9
  <2>5. CASE at = to /\ ~Shut
    <3>1. \A j \in Ahead(m) : j \in (f + 1)..m /\ j \in Int
      BY <1>1, <1>6, <2>5, BehindApex
    <3>2. ASSUME NEW j \in Ahead(m) PROVE Cross(A, a, Portal(j).l) > 0 /\ Cross(A, a, Portal(j).r) <= 0
      BY <1>1, <2>1, <2>5, <3>1
    <3>3. /\ Cross(A, a, l0) > 0 /\ Cross(A, a, r0) <= 0 /\ Cross(A, a, L) > 0 /\ Cross(A, a, R) <= 0
          /\ Cross(A, a, r) >= 0
      BY <1>6, <2>1, <2>5, <3>2
    <3>4. L # a /\ ~Ray(L, R, m)
      BY <1>1, <1>4, <3>3 DEF Ray
    <3>5. CASE R = a /\ r0 = a /\ left.idx = m /\ right.idx = m
      <4>1. Reach = m /\ e <= m
        BY <1>1, <1>6, <2>5, <3>1, <3>5 DEF Reach
      <4>2. OnPortal(a, Portal(m))
        BY <1>1, <1>6, <2>5, <3>5, PortalPlaces, EndsAreOnPortal
      <4>3. Cross(A, a, l0) >= 0 /\ Cross(A, a, r0) >= 0
        BY <1>4, <1>6, <2>5, <3>3, <3>5
      <4>4. m <= Reach /\ m \in 1..(Polys - 1)
        BY <1>6, <2>5, <4>1
      <4>5. RightBlocked(A, a, e, Reach)
        BY <4>1, <4>2, <4>3, <4>4 DEF RightBlocked
      <4>6. QED
        BY <4>5
    <3>6. CASE /\ R # a
               /\ Forth(a, r0, l0, L) > 0 /\ Forth(a, r0, l0, R) > 0
               /\ Forth(a, r0, l0, l) > 0 /\ Forth(a, r0, l0, r) > 0
      <4>1. a \in Places /\ l0 \in Places /\ r0 \in Places /\ Cross(A, a, l0) > Cross(A, a, r0)
        BY <1>1, <1>4, <1>6, <2>5, <3>3
      <4>2. Cross(a, R, r) >= 0
        <5> SUFFICES ASSUME ~(Cross(a, R, r) >= 0) PROVE FALSE
          OBVIOUS
        <5>1. Cross(a, r, R) >= 0 /\ Cross(a, r, R) > 0
          BY <1>1, <1>4
        <5>2. Cross(A, a, R) > 0
          <6>1. r \in Places /\ R \in Places
            BY <1>1
          <6> HIDE DEF a, l0, r0, L, R, l, r
          <6>2. QED
            BY <3>3, <3>6, <4>1, <5>1, <6>1, InOrderOfLine
        <5>3. QED
          BY <1>1, <1>4, <3>3, <5>2
      <4>3. newR = r /\ r # a
        BY <1>1, <1>3, <1>4, <3>6, <4>2
      <4>4. CASE Cross(a, l, L) >= 0
        <5>1. newL = l /\ Cross(a, r, l) > 0
          BY <1>3, <3>4, <4>3, <4>4
        <5>2. Cross(a, r, l) >= 0
          BY <1>1, <1>4, <5>1
        <5>3. Cross(A, a, l) >= 0
          <6>1. r \in Places /\ l \in Places
            BY <1>1
          <6> HIDE DEF a, l0, r0, L, R, l, r
          <6>2. QED
            BY <3>3, <3>6, <4>1, <5>2, <6>1, InOrderOfLine
        <5>4. QED
          BY <3>3, <4>3, <5>1, <5>3 DEF OpensLeft
      <4>5. CASE ~(Cross(a, l, L) >= 0)
        <5>1. newL = L /\ Cross(A, a, L) >= 0
          BY <1>1, <1>3, <1>4, <3>3, <4>5
        <5>2. QED
          BY <3>3, <4>3, <5>1 DEF OpensLeft
      <4>6. QED
        BY <4>4, <4>5
    <3>7. CASE Flat(L, R, m)
      BY <2>5, <3>7, FlatGoesOn
    <3>8. QED
      BY <1>6, <2>5, <3>4, <3>5, <3>6, <3>7
  <2>6. QED
    BY <1>1, <2>1, <2>3, <2>4, <2>5
<1>9. ASSUME ~Shut, OpensLeft(A, a, L, R) PROVE Goal
  <2>1. R # a /\ Cross(A, a, L) >= 0 /\ Cross(A, a, R) >= 0
    BY <1>9 DEF OpensLeft
  <2>2. CASE Ray(L, R, m)
    <3>1. L = R /\ a # L
      BY <2>2 DEF Ray
    <3>2. newL = L /\ newR = L
      <4>1. Narrows(a, L, L, l, r, newL, newR)
        BY <1>2, <3>1
      <4> HIDE DEF newL, newR
      <4>2. QED
        BY <1>1, <3>1, <4>1, RayNarrows
    <3>3. QED
      BY <2>1, <3>1, <3>2 DEF OpensLeft
  <2>3. CASE /\ InSight(a, r0, l0, L, R) /\ L # a /\ R # a
             /\ Forth(a, r0, l0, L) > 0 /\ Forth(a, r0, l0, R) > 0
             /\ Forth(a, r0, l0, l) > 0 /\ Forth(a, r0, l0, r) > 0
    <3>1. Cross(a, R, L) >= 0
      BY <2>3 DEF InSight
    <3>2. \/ newL = L /\ newR = R
          \/ /\ Cross(a, R, L) > 0
             /\ Cross(a, R, newL) >= 0 /\ Cross(a, newL, L) >= 0
             /\ Cross(a, R, newR) >= 0 /\ Cross(a, newR, L) >= 0
      <4>1. /\ a \in Places /\ l0 \in Places /\ r0 \in Places /\ L \in Places /\ R \in Places
            /\ l \in Places /\ r \in Places
        BY <1>1, <1>6, <1>9
      <4> HIDE DEF a, l0, r0, L, R, l, r, newL, newR
      <4>2. QED
        BY <1>2, <2>3, <3>1, <4>1, OpenNarrows
    <3>3. newR # a
      BY <1>1, <1>3, <1>4, <2>1
    <3>4. Cross(A, a, newL) >= 0 /\ Cross(A, a, newR) >= 0
      <4>1. a \in Places /\ L \in Places /\ R \in Places /\ newL \in Places /\ newR \in Places
        BY <1>1
      <4> HIDE DEF a, L, R, newL, newR
      <4>2. QED
        BY <2>1, <3>2, <4>1, BetweenOfLine
    <3>5. QED
      BY <3>3, <3>4 DEF OpensLeft
  <2>4. CASE Flat(L, R, m)
    BY <1>9, <2>4, FlatGoesOn
  <2>5. QED
    BY <1>1, <1>6, <1>7, <1>9, <2>1, <2>2, <2>3, <2>4
<1>10. QED
  BY <1>8, <1>9 DEF KeptLeft

\* The loop goes on and the string still bends to the right.
LEMMA RightGoesOn ==
  ASSUME PullInv, ConeInv, EdgeInv, PullPortal, GoesAhead, OnPortal(apex.pt, Portal(apex.idx)),
         NEW A \in Places, KeptRight(A), NEW e \in Int, e <= apex.idx
  PROVE  \/ LeftBlocked(A, apex.pt, e, Reach)
         \/ AwaitsRight(A, apex.pt, apex.idx, at + 1)
         \/ OpensRight(A, apex.pt, SeenLeft.pt, SeenRight.pt)
<1> DEFINE a == apex.pt
           f == apex.idx
           m == at - 1
           l0 == Portal(m).l
           r0 == Portal(m).r
           l == Portal(at).l
           r == Portal(at).r
           L == left.pt
           R == right.pt
           newL == SeenLeft.pt
           newR == SeenRight.pt
           Goal == \/ LeftBlocked(A, a, e, Reach)
                   \/ AwaitsRight(A, a, f, at + 1)
                   \/ OpensRight(A, a, newL, newR)
<1> USE DEF PortalPoints, OpenKinds, CrossRules
<1>1. PortalPoints
  BY PortalCases
<1>2. Narrows(a, L, R, l, r, newL, newR)
  BY DEF GoesAhead
<1>3. /\ newR = IF Cross(a, R, r) >= 0 THEN r ELSE R
      /\ newL = IF Cross(a, l, L) >= 0 THEN l ELSE L
      /\ Cross(a, R, r) >= 0 => a = R \/ Cross(a, r, L) > 0
      /\ Cross(a, l, L) >= 0 => a = L \/ Cross(a, newR, l) > 0
  BY <1>2 DEF Narrows
<1>4. CrossRules(A, a)
  BY <1>1, CrossInt
<1>5. ASSUME Shut PROVE newL = l /\ newR = r
  <2>1. Narrows(a, a, a, l, r, newL, newR)
    BY <1>2, <1>5 DEF Shut
  <2> HIDE DEF newL, newR
  <2>2. QED
    BY <1>1, <2>1, ShutNarrows
<1>6. ~Shut => OpenKinds
  BY OpenCases
<1>7. L = a /\ R \in Places /\ R # a /\ Area(r, R, a) >= 0 => FALSE
  BY <1>1, <1>2, LeftShutTurns
<1>8. ASSUME AwaitsRight(A, a, f, at) PROVE Goal
  <2>1. PICK to \in (f + 1)..Polys :
          /\ at <= to /\ Cross(A, a, Portal(to).l) <= 0 /\ Cross(A, a, Portal(to).r) < 0
          /\ \A j \in (f + 1)..(to - 1) : Cross(A, a, Portal(j).r) < 0 /\ Cross(A, a, Portal(j).l) >= 0
    BY <1>8 DEF AwaitsRight
  <2>2. CASE at < to
    <3>1. at + 1 <= to
      BY <1>1, <2>1, <2>2
    <3>2. QED
      BY <2>1, <3>1 DEF AwaitsRight
  <2>3. CASE at = to /\ Shut
    <3>1. Cross(A, a, l) <= 0 /\ Cross(A, a, r) < 0
      BY <2>1, <2>3
    <3>2. r # a /\ Cross(A, a, r) <= 0
      BY <1>1, <1>4, <3>1
    <3>3. QED
      BY <1>5, <2>3, <3>1, <3>2 DEF OpensRight
  <2>4. CASE at = to /\ ~Shut
    <3>1. \A j \in Ahead(m) : j \in (f + 1)..m /\ j \in Int
      BY <1>1, <1>6, <2>4, BehindApex
    <3>2. ASSUME NEW j \in Ahead(m) PROVE Cross(A, a, Portal(j).r) < 0 /\ Cross(A, a, Portal(j).l) >= 0
      BY <1>1, <2>1, <2>4, <3>1
    <3>3. /\ Cross(A, a, l0) >= 0 /\ Cross(A, a, r0) < 0 /\ Cross(A, a, L) >= 0 /\ Cross(A, a, R) < 0
          /\ Cross(A, a, l) <= 0 /\ Cross(A, a, r) < 0
      BY <1>6, <2>1, <2>4, <3>2
    <3>4. R # a /\ r # a /\ ~Ray(L, R, m)
      BY <1>1, <1>4, <3>3 DEF Ray
    <3>5. CASE Flat(L, R, m)
      BY <2>4, <3>5, FlatGoesOn
    <3> SUFFICES ASSUME ~Flat(L, R, m) PROVE Goal
      BY <3>5
    <3>6. /\ L # a
          /\ Forth(a, r0, l0, L) > 0 /\ Forth(a, r0, l0, R) > 0
          /\ Forth(a, r0, l0, l) > 0 /\ Forth(a, r0, l0, r) > 0
      BY <1>1, <1>6, <1>7, <2>4, <3>4
    <3>7. Cross(a, l, L) >= 0
      <4> SUFFICES ASSUME ~(Cross(a, l, L) >= 0) PROVE FALSE
        OBVIOUS
      <4>1. Cross(a, L, l) > 0 /\ Cross(a, L, l) >= 0
        BY <1>1, <1>4
      <4>2. a \in Places /\ l0 \in Places /\ r0 \in Places /\ Cross(A, a, l0) > Cross(A, a, r0)
        BY <1>1, <1>4, <1>6, <2>4, <3>3
      <4>3. Cross(A, a, l) > 0
        <5>1. l \in Places /\ L \in Places
          BY <1>1
        <5> HIDE DEF a, l0, r0, L, R, l, r
        <5>2. QED
          BY <3>3, <3>6, <4>1, <4>2, <5>1, InOrderOfLine
      <4>4. QED
        BY <1>1, <1>4, <3>3, <4>3
    <3>8. newL = l /\ newR \in {r, R}
      BY <1>3, <3>7
    <3>9. newR # a /\ Cross(A, a, newL) <= 0 /\ Cross(A, a, newR) <= 0
      BY <1>1, <1>4, <3>3, <3>4, <3>8
    <3>10. QED
      BY <3>9 DEF OpensRight
  <2>5. QED
    BY <1>1, <2>1, <2>2, <2>3, <2>4
<1>9. ASSUME ~Shut, OpensRight(A, a, L, R) PROVE Goal
  <2>1. R # a /\ Cross(A, a, L) <= 0 /\ Cross(A, a, R) <= 0
    BY <1>9 DEF OpensRight
  <2>2. CASE Ray(L, R, m)
    <3>1. L = R /\ a # L
      BY <2>2 DEF Ray
    <3>2. newL = L /\ newR = L
      <4>1. Narrows(a, L, L, l, r, newL, newR)
        BY <1>2, <3>1
      <4> HIDE DEF newL, newR
      <4>2. QED
        BY <1>1, <3>1, <4>1, RayNarrows
    <3>3. QED
      BY <2>1, <3>1, <3>2 DEF OpensRight
  <2>3. CASE /\ InSight(a, r0, l0, L, R) /\ L # a /\ R # a
             /\ Forth(a, r0, l0, L) > 0 /\ Forth(a, r0, l0, R) > 0
             /\ Forth(a, r0, l0, l) > 0 /\ Forth(a, r0, l0, r) > 0
    <3>1. Cross(a, R, L) >= 0
      BY <2>3 DEF InSight
    <3>2. \/ newL = L /\ newR = R
          \/ /\ Cross(a, R, L) > 0
             /\ Cross(a, R, newL) >= 0 /\ Cross(a, newL, L) >= 0
             /\ Cross(a, R, newR) >= 0 /\ Cross(a, newR, L) >= 0
      <4>1. /\ a \in Places /\ l0 \in Places /\ r0 \in Places /\ L \in Places /\ R \in Places
            /\ l \in Places /\ r \in Places
        BY <1>1, <1>6, <1>9
      <4> HIDE DEF a, l0, r0, L, R, l, r, newL, newR
      <4>2. QED
        BY <1>2, <2>3, <3>1, <4>1, OpenNarrows
    <3>3. newR # a
      BY <1>1, <1>3, <1>4, <2>1
    <3>4. Cross(A, a, newL) <= 0 /\ Cross(A, a, newR) <= 0
      <4>1. a \in Places /\ L \in Places /\ R \in Places /\ newL \in Places /\ newR \in Places
        BY <1>1
      <4> HIDE DEF a, L, R, newL, newR
      <4>2. QED
        BY <2>1, <3>2, <4>1, BetweenOfLine
    <3>5. QED
      BY <3>3, <3>4 DEF OpensRight
  <2>4. CASE Flat(L, R, m)
    BY <1>9, <2>4, FlatGoesOn
  <2>5. QED
    BY <1>1, <1>6, <1>7, <1>9, <2>1, <2>2, <2>3, <2>4
<1>10. QED
  BY <1>8, <1>9 DEF KeptRight

\* Seen from behind, a polygon that is entered is left at the right end of the
\* portal, if at all.
LEMMA NoTwist ==
  ASSUME NEW p \in [l : Places, r : Places], NEW q \in [l : Places, r : Places],
         Polygon(p, q), p.l # p.r, q.l # q.r, NEW a \in Places,
         Cross(a, p.r, p.l) > 0, Cross(a, q.r, p.l) >= 0, Cross(a, p.r, q.r) >= 0, Cross(a, q.l, q.r) > 0
  PROVE  q.r = p.r
<1> DEFINE l0 == p.l
           r0 == p.r
           l == q.l
           r == q.r
           c == Cross(a, r0, l0)
           x == Cross(a, l, r)
           al == Cross(a, l, l0)
           ar == Cross(a, r, l0)
           bl == Cross(a, r0, l)
           br == Cross(a, r0, r)
<1>1. l0 \in Places /\ r0 \in Places /\ l \in Places /\ r \in Places
  OBVIOUS
<1>2. c \in Int /\ x \in Int /\ al \in Int /\ ar \in Int /\ bl \in Int /\ br \in Int
  BY <1>1, CrossInt
<1>3. c > 0 /\ ar >= 0 /\ br >= 0 /\ x > 0
  OBVIOUS
<1>4. /\ Cross(a, l0, r) = -ar /\ Cross(a, l0, l) = -al /\ Cross(a, r, r0) = -br
      /\ Cross(a, r0, r0) = 0 /\ Cross(a, l0, l0) = 0 /\ Cross(a, r, r) = 0
  BY <1>1, CrossInt
<1>5. c * x = bl * Cross(a, l0, r) - br * Cross(a, l0, l)
  BY <1>1, FourCrosses
<1>6. Area(r, r0, l0) = ar + br - c
  <2>1. Area(r, r0, l0) = Forth(a, r0, l0, r) - c
    BY <1>1, BeyondIsForth
  <2>2. QED
    BY <1>2, <2>1 DEF Forth
<1>7. Area(l0, l, r) = al - ar - x
  <2>1. Area(l0, l, r) = -Cross(l0, l, r) /\ Cross(l0, l, r) \in Int
    BY <1>1, CrossInt
  <2>2. Cross(l0, l, r) = Cross(a, l0, l) + x + ar
    BY <1>1, CrossMoves
  <2>3. QED
    BY <1>2, <1>4, <2>1, <2>2
<1>8. Area(r0, l, r) = br - bl - x
  <2>1. Area(r0, l, r) = -Cross(r0, l, r) /\ Cross(r0, l, r) \in Int /\ Cross(r0, l, r) = Cross(l, r, r0)
    BY <1>1, CrossInt, CrossTurns
  <2>2. Cross(l, r, r0) = x + Cross(a, r, r0) + bl
    BY <1>1, CrossMoves
  <2>3. QED
    BY <1>2, <1>4, <2>1, <2>2
<1>9. ar + br >= c /\ al >= ar + x /\ bl <= br - x
  <2>1. Area(r, r0, l0) >= 0 /\ Area(l0, l, r) >= 0 /\ Area(r0, l, r) >= 0
    BY DEF Polygon, Before, Behind
  <2>2. QED
    BY <1>2, <1>6, <1>7, <1>8, <2>1
<1> HIDE DEF c, x, al, ar, bl, br
<1>10. c * x = al * br - ar * bl
  BY <1>2, <1>4, <1>5
<1>11. ar + br = c /\ (al > ar + x => br = 0) /\ (bl < br - x => ar = 0)
  <2> DEFINE y == ar + br - c
             z == al - ar - x
             w == br - bl - x
  <2>1. y \in Int /\ z \in Int /\ w \in Int /\ y >= 0 /\ z >= 0 /\ w >= 0
    BY <1>2, <1>9
  <2>2. y * x + z * br + w * ar = 0
    <3>1. y * x + z * br + w * ar = (al * br - ar * bl) - c * x
      BY <1>2
    <3>2. QED
      BY <1>2, <1>10, <3>1
  <2>3. y * x \in Int /\ z * br \in Int /\ w * ar \in Int /\ y * x >= 0 /\ z * br >= 0 /\ w * ar >= 0
    BY <1>2, <1>3, <2>1
  <2>4. y * x = 0 /\ z * br = 0 /\ w * ar = 0
    BY <2>2, <2>3
  <2>5. \A i, k \in Int : i > 0 => (i * k = 0 => k = 0) /\ (k * i = 0 => k = 0)
    OBVIOUS
  <2>6. (al > ar + x => z > 0) /\ (bl < br - x => w > 0) /\ (y = 0 => ar + br = c)
    BY <1>2
  <2> HIDE DEF y, z, w
  <2>7. QED
    BY <1>2, <1>3, <2>1, <2>4, <2>5, <2>6
<1>12. ASSUME br = 0 PROVE r = r0
  <2>1. ar = c
    BY <1>2, <1>11, <1>12
  <2>2. Cross(a, r0, r) = Cross(a, r0, r0) /\ Cross(a, r, l0) = Cross(a, r0, l0) /\ Cross(a, r0, l0) > 0
    BY <1>4, <1>12, <2>1 DEF ar, br, c
  <2> HIDE DEF l0, r0, l, r
  <2>3. QED
    BY <1>1, <2>2, TwoCrosses
<1>13. ar # 0
  <2> SUFFICES ASSUME ar = 0 PROVE FALSE
    OBVIOUS
  <2>1. br = c
    BY <1>2, <1>11
  <2>2. Cross(a, r0, r) = Cross(a, r0, l0) /\ Cross(a, r, l0) = Cross(a, l0, l0) /\ Cross(a, r0, l0) > 0
    BY <1>4, <2>1 DEF ar, br, c
  <2>3. r = l0
    <3> HIDE DEF l0, r0, l, r
    <3>1. QED
      BY <1>1, <2>2, TwoCrosses
  <2>4. QED
    BY <2>3, NextIsNotShut
<1>14. CASE InFront(l0, q)
  <2>1. al - ar - x > 0
    BY <1>7, <1>14 DEF InFront
  <2>2. QED
    BY <1>2, <1>11, <1>12, <2>1
<1>15. CASE InFront(r0, q)
  <2>1. br - bl - x > 0
    BY <1>8, <1>15 DEF InFront
  <2>2. QED
    BY <1>2, <1>11, <1>13, <2>1
<1>16. CASE Between(l0, r0, r)
  <2>1. PICK u \in Int, v \in Int :
          /\ u >= 0 /\ v >= 0 /\ u + v > 0
          /\ \A b, d \in Places : u * Cross(b, d, r0) + v * Cross(b, d, r) = (u + v) * Cross(b, d, l0)
    BY <1>1, <1>16, BetweenIsMean
  <2>2. u * Cross(a, r0, r0) + v * br = (u + v) * c
    BY <1>1, <2>1 DEF br, c
  <2>3. v * br = (u + v) * c
    BY <1>2, <1>4, <2>2
  <2>4. br = c - ar
    BY <1>2, <1>11
  <2>5. v * ar + u * c = 0
    <3>1. v * (c - ar) = (u + v) * c
      BY <2>3, <2>4
    <3>2. \A i, k \in Int : v * (i - k) = (u + v) * i => v * k + u * i = 0
      OBVIOUS
    <3>3. QED
      BY <1>2, <3>1, <3>2
  <2>6. v * ar >= 0 /\ u * c >= 0 /\ v * ar \in Int /\ u * c \in Int
    BY <1>2, <1>3, <2>1
  <2>7. v * ar = 0 /\ u * c = 0
    BY <2>5, <2>6
  <2>8. \A i, k \in Int : i > 0 => (i * k = 0 => k = 0) /\ (k * i = 0 => k = 0)
    OBVIOUS
  <2>9. u = 0
    BY <1>2, <1>3, <2>7, <2>8
  <2>10. QED
    BY <1>2, <1>13, <2>1, <2>7, <2>8, <2>9
<1>17. CASE Between(r, r0, l)
  <2>1. PICK u \in Int, v \in Int :
          /\ u >= 0 /\ v >= 0 /\ u + v > 0
          /\ \A b, d \in Places : u * Cross(b, d, r0) + v * Cross(b, d, l) = (u + v) * Cross(b, d, r)
    BY <1>1, <1>17, BetweenIsMean
  <2>2. u * Cross(a, r, r0) + v * Cross(a, r, l) = (u + v) * Cross(a, r, r)
    BY <1>1, <2>1
  <2>3. Cross(a, r, l) = -x
    BY <1>1, CrossInt DEF x
  <2>4. u * br + v * x = 0
    <3>1. u * (-br) + v * (-x) = (u + v) * 0
      BY <1>4, <2>2, <2>3
    <3>2. \A i, k \in Int : u * (-i) + v * (-k) = (u + v) * 0 => u * i + v * k = 0
      OBVIOUS
    <3>3. QED
      BY <1>2, <3>1, <3>2
  <2>5. u * br >= 0 /\ v * x >= 0 /\ u * br \in Int /\ v * x \in Int
    BY <1>2, <1>3, <2>1
  <2>6. u * br = 0 /\ v * x = 0
    BY <2>4, <2>5
  <2>7. \A i, k \in Int : i > 0 => (i * k = 0 => k = 0) /\ (k * i = 0 => k = 0)
    OBVIOUS
  <2>8. v = 0
    BY <1>2, <1>3, <2>6, <2>7
  <2>9. br = 0
    BY <1>2, <2>1, <2>6, <2>7, <2>8
  <2>10. QED
    BY <1>12, <2>9
<1>18. QED
  BY <1>14, <1>15, <1>16, <1>17 DEF Polygon, SameEdge, IsPoint

\* What the string has met and is to meet when it turns away from the apex.
LEMMA TurnBends ==
  ASSUME PullInv, ConeInv, EdgeInv, PullPortal, ~Shut,
         NEW side, TurnSide(side), side.pt # apex.pt, side.idx < Polys, NEW e \in Int, e <= side.idx,
         \A k \in 1..(Polys - 1) :
           k + 1 = side.idx /\ Portal(k).r = side.pt /\ Cross(apex.pt, side.pt, Portal(k).l) # 0 => e <= k
  PROVE  /\ \/ LeftBlocked(apex.pt, side.pt, e, side.idx)
            \/ AwaitsRight(apex.pt, side.pt, side.idx, side.idx + 1)
         /\ \/ RightBlocked(apex.pt, side.pt, e, side.idx)
            \/ AwaitsLeft(apex.pt, side.pt, side.idx, side.idx + 1)
<1> DEFINE a == apex.pt
           f == side.idx
           x == side.pt
           m == at - 1
           l0 == Portal(m).l
           r0 == Portal(m).r
           l == Portal(at).l
           r == Portal(at).r
           L == left.pt
           R == right.pt
           Goal == /\ LeftBlocked(a, x, e, f) \/ AwaitsRight(a, x, f, f + 1)
                   /\ RightBlocked(a, x, e, f) \/ AwaitsLeft(a, x, f, f + 1)
<1> USE DEF PortalPoints, OpenKinds, TurnKinds
<1>1. PortalPoints
  BY PortalCases
<1>2. OpenKinds
  BY OpenCases
<1>3. TurnKinds(side)
  BY <1>1, TurnSideCases
<1>4. \A u, v \in Places : /\ Cross(a, u, v) \in Int /\ Cross(a, v, u) = -Cross(a, u, v)
                           /\ Cross(a, a, u) = 0 /\ Cross(a, u, a) = 0 /\ Cross(a, u, u) = 0
  BY <1>1, CrossInt
<1>5. /\ \A j \in (left.idx + 1)..m : Cross(a, L, Portal(j).l) > 0
      /\ \A j \in (right.idx + 1)..m : Cross(a, R, Portal(j).r) < 0
  BY <1>1 DEF EdgeInv
<1>6. \A j \in Ahead(m) : /\ j \in 1..(Polys - 1) /\ j \in Int /\ apex.idx <= j /\ j <= m
                          /\ Portal(j) \in [l : Places, r : Places] /\ Portal(j).l \in Places /\ Portal(j).r \in Places
                          /\ Passes(L, j) /\ Passes(R, j)
  <2> SUFFICES ASSUME NEW j \in Ahead(m)
               PROVE  /\ j \in 1..(Polys - 1) /\ j \in Int /\ apex.idx <= j /\ j <= m
                      /\ Portal(j) \in [l : Places, r : Places] /\ Portal(j).l \in Places /\ Portal(j).r \in Places
                      /\ Passes(L, j) /\ Passes(R, j)
    OBVIOUS
  <2>1. j \in 1..(Polys - 1) /\ j \in Int /\ apex.idx <= j /\ j <= m /\ j \in 1..Polys
    BY <1>1, <1>2 DEF Ahead
  <2>2. Passes(L, j) /\ Passes(R, j)
    BY <1>2 DEF OpenAt
  <2>3. QED
    BY <1>1, <2>1, <2>2, PortalPlaces
<1>7. \A i, j \in Int : i \in Ahead(m) /\ i + 1 <= j /\ j <= m => j \in Ahead(m)
  BY <1>1, <1>2 DEF Ahead
<1>8. CASE side = left /\ Cross(a, L, r) >= 0
  <2>1. f \in Ahead(m) /\ x = Portal(f).l /\ x = L
    BY <1>2, <1>8
  <2>2. f \in 1..(Polys - 1) /\ f \in Int /\ f + 1 <= at /\ at \in (f + 1)..Polys /\ e <= f /\ f <= f
    BY <1>1, <1>6, <2>1
  <2>3. OnPortal(x, Portal(f))
    BY <1>6, <2>1, EndsAreOnPortal
  <2>4. Cross(a, x, Portal(f).l) = 0 /\ Cross(a, x, Portal(f).r) <= 0 /\ Cross(a, x, Portal(f).r) \in Int
    BY <1>1, <1>4, <1>6, <2>1 DEF Passes
  <2>5. LeftBlocked(a, x, e, f)
    BY <2>3, <2>4, <2>2 DEF LeftBlocked
  <2>6. CASE Cross(a, x, Portal(f).r) = 0
    <3>1. RightBlocked(a, x, e, f)
      BY <2>3, <2>4, <2>6, <2>2 DEF RightBlocked
    <3>2. QED
      BY <2>5, <3>1
  <2>7. CASE Cross(a, x, Portal(f).r) < 0
    <3>1. ASSUME NEW j \in (f + 1)..(at - 1)
          PROVE  Cross(a, x, Portal(j).l) > 0 /\ Cross(a, x, Portal(j).r) <= 0
      <4>1. j \in Ahead(m)
        BY <1>1, <1>7, <2>1, <2>2
      <4>2. Cross(a, x, Portal(j).l) > 0
        BY <1>5, <1>8
      <4>3. QED
        BY <1>1, <1>4, <1>6, <2>1, <4>1, <4>2 DEF Passes
    <3>2. Cross(a, x, Portal(at).r) >= 0
      BY <1>8, <2>1
    <3>3. AwaitsLeft(a, x, f, f + 1)
      BY <2>1, <2>7, <2>2, <3>1, <3>2 DEF AwaitsLeft
    <3>4. QED
      BY <2>5, <3>3
  <2>8. QED
    BY <2>4, <2>6, <2>7
<1>9. CASE side = right /\ Cross(a, r, R) > 0 /\ Cross(a, l, R) >= 0
  <2>1. f \in Ahead(m) /\ x = Portal(f).r /\ x = R
    BY <1>2, <1>9
  <2>2. f \in 1..(Polys - 1) /\ f \in Int /\ f + 1 <= at /\ at \in (f + 1)..Polys /\ e <= f /\ f <= f
    BY <1>1, <1>6, <2>1
  <2>3. OnPortal(x, Portal(f))
    BY <1>6, <2>1, EndsAreOnPortal
  <2>4. Cross(a, x, Portal(f).r) = 0 /\ Cross(a, x, Portal(f).l) >= 0
    BY <1>1, <1>4, <1>6, <2>1 DEF Passes
  <2>5. RightBlocked(a, x, e, f)
    BY <2>3, <2>4, <2>2 DEF RightBlocked
  <2>6. ASSUME NEW j \in (f + 1)..(at - 1)
        PROVE  Cross(a, x, Portal(j).r) < 0 /\ Cross(a, x, Portal(j).l) >= 0
    <3>1. j \in Ahead(m)
      BY <1>1, <1>7, <2>1, <2>2
    <3>2. QED
      BY <1>5, <1>6, <1>9, <3>1 DEF Passes
  <2>7. Cross(a, x, Portal(at).l) <= 0 /\ Cross(a, x, Portal(at).r) < 0
    BY <1>1, <1>4, <1>9, <2>1
  <2>8. AwaitsRight(a, x, f, f + 1)
    BY <2>1, <2>6, <2>7, <2>2 DEF AwaitsRight
  <2>9. QED
    BY <2>5, <2>8
<1>10. CASE /\ side.pt = r /\ side.idx = at /\ L # a
            /\ Cross(a, R, r) >= 0 /\ (R = a \/ Cross(a, r, L) > 0)
            /\ Cross(a, l, L) >= 0 /\ Cross(a, l, r) >= 0
  <2>1. at \in 1..(Polys - 1) /\ at \in 2..Polys /\ x = r
    BY <1>1, <1>2, <1>10
  <2>2. Portal(at) \in [l : Places, r : Places] /\ Portal(m) \in [l : Places, r : Places]
    BY <1>1, <1>2, <1>6, PortalPlaces
  <2>3. OnPortal(x, Portal(at))
    BY <2>1, <2>2, EndsAreOnPortal
  <2>4. Cross(a, x, r) = 0 /\ Cross(a, x, l) <= 0 /\ Cross(a, x, l) \in Int
    BY <1>1, <1>4, <1>10
  <2>5. LeftBlocked(a, x, e, f)
    BY <1>10, <2>1, <2>3, <2>4 DEF LeftBlocked
  <2>6. CASE Cross(a, x, l) = 0
    <3>1. RightBlocked(a, x, e, f)
      BY <1>10, <2>1, <2>3, <2>4, <2>6 DEF RightBlocked
    <3>2. QED
      BY <2>5, <3>1
  <2>7. CASE Cross(a, x, l) < 0
    <3>1. Cross(a, l, r) > 0 /\ l # r
      BY <1>1, <1>4, <2>1, <2>7
    <3>2. Polygon(Portal(m), Portal(at)) /\ (~IsPoint(Portal(m)) \/ ~IsPoint(Portal(at)))
      <4>1. Portal(m).l # Portal(m).r \/ Portal(at).l # Portal(at).r
        BY <3>1
      <4>2. \/ at < Polys /\ Polygon(Portal(m), Portal(at)) /\ (~IsPoint(Portal(m)) \/ ~IsPoint(Portal(at)))
            \/ at = Polys
        BY <1>1, <2>1, <4>1, PortalsOfPolygon
      <4>3. QED
        BY <1>1, <2>1, <4>2
    <3>3. ~OnPortal(a, Portal(m))
      <4> SUFFICES ASSUME OnPortal(a, Portal(m)) PROVE FALSE
        OBVIOUS
      <4>1. Portal(at - 1) = Portal(m)
        OBVIOUS
      <4>2. Cross(a, r, l) >= 0
        BY <1>1, <2>1, <3>1, <4>1, PortalIsAhead
      <4>3. QED
        BY <1>1, <1>4, <3>1, <4>2
    <3>4. Passes(r, m)
      BY <1>1, <1>2, <1>10, NextPasses
    <3>5. Cross(a, r, l0) >= 0 /\ Cross(a, r0, r) >= 0
      BY <3>4 DEF Passes
    <3>6. ~Ray(L, R, m)
      <4>1. L = R => Cross(a, R, r) = -Cross(a, r, L) /\ Cross(a, r, L) \in Int
        BY <1>1, <1>4
      <4>2. QED
        BY <1>10, <4>1 DEF Ray
    <3>7. r0 # a /\ ~Flat(L, R, m)
      <4>1. r0 = a => OnPortal(a, Portal(m))
        BY <2>2, EndsAreOnPortal
      <4>2. Flat(L, R, m) => OnPortal(a, Portal(m))
        BY <1>1, <1>2, <1>10, FlatSeen
      <4>3. QED
        BY <3>3, <4>1, <4>2
    <3>8. CASE InSight(a, r0, l0, L, R) /\ l0 # r0
      <4>1. Cross(a, r0, l0) > 0
        BY <3>8 DEF InSight
      <4>2. Portal(m).l # Portal(m).r /\ Portal(at).l # Portal(at).r /\ Polygon(Portal(m), Portal(at))
        BY <3>1, <3>2, <3>8
      <4>3. r = r0
        BY <1>1, <2>2, <3>1, <3>5, <4>1, <4>2, NoTwist
      <4>4. OnPortal(x, Portal(m)) /\ Portal(m).r = x
        BY <2>1, <2>2, <4>3, EndsAreOnPortal
      <4>5. Cross(a, x, Portal(m).r) = 0 /\ Cross(a, x, Portal(m).l) > 0
        BY <1>1, <1>4, <2>1, <4>1, <4>3
      <4>6. e <= m
        <5>1. m + 1 = side.idx /\ Cross(a, x, Portal(m).l) # 0
          BY <1>1, <1>10, <4>5
        <5>2. QED
          BY <1>2, <4>4, <5>1
      <4>7. Cross(a, x, Portal(m).l) >= 0 /\ Cross(a, x, Portal(m).r) >= 0 /\ m <= f
        BY <1>1, <1>2, <1>4, <1>10, <2>1, <4>5
      <4>8. RightBlocked(a, x, e, f)
        BY <1>2, <4>4, <4>6, <4>7 DEF RightBlocked
      <4>9. QED
        BY <2>5, <4>8
    <3>9. QED
      BY <1>2, <1>10, <3>6, <3>7, <3>8
  <2>8. QED
    BY <2>4, <2>6, <2>7
<1>11. QED
  BY <1>3, <1>8, <1>9, <1>10

-----------------------------------------------------------------------------
(* The string is pulled tight                                              *)

\* It does not bend at point i, or to the right, or left, only round a portal
\* that leaves no room there.
TautAt(s, i) ==
  LET p == s[i - 1].pt
      q == s[i].pt
      n == s[i + 1].pt
      Round(k) == Entered(s[i - 1]) <= k /\ k < Entered(s[i + 1]) /\ OnPortal(q, Portal(k))
  IN  /\ Area(p, q, n) > 0 =>
           \E k \in 1..(Polys - 1) : Round(k) /\ Area(p, q, Portal(k).l) <= 0 /\ Area(p, q, Portal(k).r) <= 0
      /\ Area(p, q, n) < 0 =>
           \E k \in 1..(Polys - 1) : Round(k) /\ Area(p, q, Portal(k).l) >= 0 /\ Area(p, q, Portal(k).r) >= 0

Taut(s) == \A i \in 2..(Len(s) - 1) : TautAt(s, i)

\* The far end is on the line.
LEMMA EndOnLine ==
  ASSUME NEW a \in Places, NEW x \in Places
  PROVE  OnLine(x, a, x)
<1>1. a[1] \in Int /\ a[2] \in Int /\ a[3] \in Int /\ x[1] \in Int /\ x[2] \in Int /\ x[3] \in Int
  BY PlaceIsSpot, SpotParts
<1>2. IsOn(x, a, x, 1, 0, 1)
  BY <1>1 DEF IsOn
<1>3. 1 \in Nat /\ 0 \in Nat
  OBVIOUS
<1>4. QED
  BY <1>2, <1>3 DEF OnLine

\* So is the near end.
LEMMA StartOnLine ==
  ASSUME NEW a \in Places, NEW x \in Places, NEW p \in Spots, SamePoint(p, a)
  PROVE  OnLine(p, a, x)
<1>1. a[1] \in Int /\ a[2] \in Int /\ a[3] = 1 /\ x[1] \in Int /\ x[2] \in Int /\ x[3] \in Int
      /\ p[1] \in Int /\ p[2] \in Int /\ p[3] \in Int /\ p[3] > 0
  BY PlaceIsSpot, SpotParts
<1>2. IsOn(p, a, x, 1, p[3], 0)
  BY <1>1 DEF IsOn, SamePoint
<1>3. 1 \in Nat /\ 0 \in Nat /\ p[3] \in Nat
  BY <1>1
<1>4. QED
  BY <1>2, <1>3 DEF OnLine

\* The side of the line on which a place is, seen from p and from the corner
\* before it.
LEMMA LineSees ==
  ASSUME NEW A \in Places, NEW q \in Places, NEW y \in Places,
         NEW p \in Spots, OnLine(p, A, q), ~SamePoint(p, q), NEW r \in Spots, SamePoint(r, q)
  PROVE  /\ Cross(A, q, y) >= 0 => Area(p, r, y) <= 0
         /\ Cross(A, q, y) <= 0 => Area(p, r, y) >= 0
<1>1. y \in Spots
  BY PlaceIsSpot
<1>2. OnLine(y, q, y)
  BY EndOnLine
<1>3. /\ Area(p, r, y) > 0 => Cross(A, q, y) < 0
      /\ Area(p, r, y) < 0 => Cross(A, q, y) > 0
  BY <1>1, <1>2, LineBends
<1>4. Area(p, r, y) \in Int /\ Cross(A, q, y) \in Int
  BY <1>1, AreaInt, CrossInt
<1>5. QED
  BY <1>3, <1>4

\* The string stays tight where it goes on from the apex to x.
LEMMA StretchTaut ==
  ASSUME SoundCorridor(corridor), ApexShape, AtApex(points), apex.idx <= Last(points), Taut(points), at \in Int,
         NEW x \in Places, NEW to \in Int, NEW u, Stretched(u, x, to), InOrder(u),
         NEW A \in Places,
         Len(points) >= 2 /\ Len(u) > Len(points) =>
           LET p == points[Len(points) - 1] IN
           /\ \A k \in (apex.idx + 1)..(at - 1) : OnPortal(apex.pt, Portal(k)) => Touches(k)
           /\ OnLine(p.pt, A, apex.pt) /\ ~SamePoint(p.pt, apex.pt)
           /\ RightBlockedTo(A, Entered(p), to) \/ Cross(A, apex.pt, x) >= 0
           /\ LeftBlockedTo(A, Entered(p), to) \/ Cross(A, apex.pt, x) <= 0
  PROVE  Taut(u)
<1> DEFINE n == Len(points)
           a == apex.pt
<1>1. /\ Polys \in Nat /\ a \in Places /\ a \in Spots /\ apex.idx \in 1..Polys
      /\ points \in Strings /\ SamePoint(LastPoint(points).pt, a)
  BY PolysIsNat, PlaceIsSpot DEF ApexShape, AtApex, GoodString
<1>2. /\ n \in Nat /\ n >= 1 /\ LastPoint(points) = points[n] /\ Last(points) = Entered(points[n])
      /\ \A i \in 1..n : points[i] \in Vertices
  BY <1>1, StringParts DEF Last
<1>3. /\ u \in Strings /\ Len(u) >= n
      /\ \A i \in 1..(n - 1) : u[i] = points[i]
      /\ u[n].pt = points[n].pt /\ Last(points) <= Entered(u[n])
      /\ \A i \in (n + 1)..Len(u) : OnLine(u[i].pt, a, x) /\ ~SamePoint(u[i - 1].pt, u[i].pt)
      /\ Len(u) > n => \A k \in apex.idx..to : Touches(k) => k < Entered(u[n + 1])
  BY DEF Stretched
<1>4. Len(u) \in Nat /\ \A i \in 1..Len(u) : u[i] \in Vertices /\ u[i].pt \in Spots /\ Entered(u[i]) \in Int
  <2>1. Len(u) \in Nat /\ \A i \in 1..Len(u) : u[i] \in Vertices
    BY <1>3, StringParts
  <2>2. \A v \in Vertices : v.pt \in Spots /\ Entered(v) \in Int
    BY <1>1 DEF Vertices, Entered
  <2>3. QED
    BY <2>1, <2>2
<1>5. \A v \in Vertices : Entered(v) \in Int /\ v.pt \in Spots
  BY <1>1 DEF Vertices, Entered
<1> SUFFICES ASSUME NEW i \in 2..(Len(u) - 1) PROVE TautAt(u, i)
  BY DEF Taut
<1>6. i \in Int /\ i >= 2 /\ i - 1 \in 1..Len(u) /\ i \in 1..Len(u) /\ i + 1 \in 1..Len(u)
  BY <1>4
<1>7. CASE i < n
  <2>1. TautAt(points, i) /\ i - 1 \in 1..(n - 1) /\ i \in 1..(n - 1) /\ i + 1 \in 1..n
    BY <1>2, <1>6, <1>7 DEF Taut
  <2>2. u[i - 1] = points[i - 1] /\ u[i] = points[i]
    BY <1>3, <2>1
  <2>3. u[i + 1].pt = points[i + 1].pt /\ Entered(points[i + 1]) <= Entered(u[i + 1])
    <3>1. CASE i + 1 = n
      BY <1>2, <1>3, <3>1
    <3>2. CASE i + 1 # n
      <4>1. i + 1 \in 1..(n - 1)
        BY <1>2, <2>1, <3>2
      <4>2. u[i + 1] = points[i + 1] /\ Entered(u[i + 1]) \in Int
        BY <1>3, <1>4, <1>6, <4>1
      <4>3. QED
        BY <4>2
    <3>3. QED
      BY <3>1, <3>2
  <2>4. Entered(points[i + 1]) \in Int /\ Entered(u[i + 1]) \in Int
    BY <1>2, <1>4, <1>5, <1>6, <2>1
  <2>5. \A k \in 1..(Polys - 1) : k < Entered(points[i + 1]) => k < Entered(u[i + 1])
    BY <2>3, <2>4
  <2>6. QED
    BY <2>1, <2>2, <2>3, <2>5 DEF TautAt
<1>8. CASE i > n
  <2>1. \A j \in n..Len(u) : u[j].pt \in Spots /\ OnLine(u[j].pt, a, x)
    <3> SUFFICES ASSUME NEW j \in n..Len(u) PROVE u[j].pt \in Spots /\ OnLine(u[j].pt, a, x)
      OBVIOUS
    <3>1. j \in 1..Len(u) /\ u[j].pt \in Spots
      BY <1>2, <1>4
    <3>2. CASE j = n
      <4>1. SamePoint(u[j].pt, a)
        BY <1>1, <1>2, <1>3, <3>2
      <4>2. QED
        BY <1>1, <3>1, <4>1, StartOnLine
    <3>3. CASE j # n
      <4>1. j \in (n + 1)..Len(u)
        BY <1>2, <1>4, <3>3
      <4>2. QED
        BY <1>3, <3>1, <4>1
    <3>4. QED
      BY <3>2, <3>3
  <2>2. i - 1 \in n..Len(u) /\ i \in n..Len(u) /\ i + 1 \in n..Len(u)
    BY <1>2, <1>4, <1>6, <1>8
  <2>3. x \in Spots
    BY PlaceIsSpot
  <2>4. ~(Area(u[i - 1].pt, u[i].pt, u[i + 1].pt) > 0) /\ ~(Area(u[i - 1].pt, u[i].pt, u[i + 1].pt) < 0)
    <3> DEFINE p == u[i - 1].pt
               q == u[i].pt
               y == u[i + 1].pt
    <3>1. /\ p \in Spots /\ q \in Spots /\ y \in Spots
          /\ OnLine(p, a, x) /\ OnLine(q, a, x) /\ OnLine(y, a, x)
      BY <2>1, <2>2
    <3> HIDE DEF p, q, y
    <3>2. Det(p, q, y) = 0
      BY <1>1, <2>3, <3>1, OneLine
    <3>3. (Area(p, q, y) > 0 <=> Det(p, q, y) < 0) /\ (Area(p, q, y) < 0 <=> Det(p, q, y) > 0)
      BY <3>1, AreaIsDet
    <3>4. ~(Area(p, q, y) > 0) /\ ~(Area(p, q, y) < 0)
      BY <3>2, <3>3
    <3>5. QED
      BY <3>4 DEF p, q, y
  <2>5. QED
    BY <2>4 DEF TautAt
<1>9. CASE i = n
  <2> DEFINE p == u[i - 1].pt
             q == u[i].pt
             y == u[i + 1].pt
             e == Entered(u[i - 1])
  <2>1. n >= 2 /\ Len(u) > n /\ n - 1 \in 1..(n - 1) /\ n + 1 \in (n + 1)..Len(u)
    BY <1>2, <1>4, <1>6, <1>9
  <2>2. u[i - 1] = points[n - 1] /\ q = points[n].pt /\ SamePoint(q, a) /\ y = u[n + 1].pt
    BY <1>1, <1>2, <1>3, <1>9, <2>1
  <2>3. /\ \A k \in (apex.idx + 1)..(at - 1) : OnPortal(a, Portal(k)) => Touches(k)
        /\ OnLine(p, A, a) /\ ~SamePoint(p, a)
        /\ RightBlockedTo(A, e, to) \/ Cross(A, a, x) >= 0
        /\ LeftBlockedTo(A, e, to) \/ Cross(A, a, x) <= 0
    BY <2>1, <2>2
  <2>4. OnLine(y, a, x)
    BY <1>3, <2>1, <2>2
  <2>5. p \in Spots /\ q \in Spots /\ y \in Spots
    BY <1>4, <1>6
  <2>6. /\ Area(p, q, y) > 0 => Cross(A, a, x) < 0
        /\ Area(p, q, y) < 0 => Cross(A, a, x) > 0
    BY <1>1, <2>2, <2>3, <2>4, <2>5, LineBends
  <2>7. \A z \in Places : /\ Cross(A, a, z) >= 0 => Area(p, q, z) <= 0
                          /\ Cross(A, a, z) <= 0 => Area(p, q, z) >= 0
    BY <1>1, <2>2, <2>3, <2>5, LineSees
  <2>8. Cross(A, a, x) \in Int
    BY <1>1, CrossInt
  <2>9. ASSUME NEW k \in 1..(Polys - 1), NEW h \in Int, h <= to, h < at, k <= h, OnPortal(a, Portal(k))
        PROVE  k < Entered(u[i + 1]) /\ OnPortal(q, Portal(k)) /\ Portal(k).l \in Places /\ Portal(k).r \in Places
    <3>1. k \in 1..Polys /\ Portal(k) \in [l : Places, r : Places]
      BY <1>1, PortalPlaces
    <3>2. OnPortal(q, Portal(k))
      BY <1>1, <2>2, <2>5, <2>9, <3>1, SameOnPortal
    <3>3. CASE k <= apex.idx
      <4>1. Entered(u[n]) < Entered(u[n + 1])
        BY <1>6, <1>9, <1>2 DEF InOrder
      <4>2. Entered(u[n]) \in Int /\ Entered(u[n + 1]) \in Int /\ Last(points) \in Int
        BY <1>2, <1>4, <1>5, <1>6, <1>9
      <4>3. QED
        BY <1>1, <1>3, <1>9, <3>1, <3>2, <3>3, <4>1, <4>2, PortalEnds
    <3>4. CASE k > apex.idx
      <4>1. k \in (apex.idx + 1)..(at - 1) /\ k \in apex.idx..to
        BY <1>1, <2>9, <3>4
      <4>2. k < Entered(u[n + 1])
        BY <1>3, <2>1, <2>3, <2>9, <4>1
      <4>3. QED
        BY <1>9, <3>1, <3>2, <4>2, PortalEnds
    <3>5. QED
      BY <1>1, <3>3, <3>4
  <2>10. ASSUME Area(p, q, y) > 0
         PROVE  \E k \in 1..(Polys - 1) : /\ e <= k /\ k < Entered(u[i + 1]) /\ OnPortal(q, Portal(k))
                                          /\ Area(p, q, Portal(k).l) <= 0 /\ Area(p, q, Portal(k).r) <= 0
    <3>1. RightBlockedTo(A, e, to)
      BY <2>3, <2>6, <2>8, <2>10
    <3>2. PICK h \in Int : h <= to /\ h < at /\ RightBlocked(A, a, e, h)
      BY <3>1 DEF RightBlockedTo
    <3>3. PICK k \in 1..(Polys - 1) : /\ e <= k /\ k <= h /\ OnPortal(a, Portal(k))
                                      /\ Cross(A, a, Portal(k).l) >= 0 /\ Cross(A, a, Portal(k).r) >= 0
      BY <3>2 DEF RightBlocked
    <3>4. QED
      BY <2>7, <2>9, <3>2, <3>3
  <2>11. ASSUME Area(p, q, y) < 0
         PROVE  \E k \in 1..(Polys - 1) : /\ e <= k /\ k < Entered(u[i + 1]) /\ OnPortal(q, Portal(k))
                                          /\ Area(p, q, Portal(k).l) >= 0 /\ Area(p, q, Portal(k).r) >= 0
    <3>1. LeftBlockedTo(A, e, to)
      BY <2>3, <2>6, <2>8, <2>11
    <3>2. PICK h \in Int : h <= to /\ h < at /\ LeftBlocked(A, a, e, h)
      BY <3>1 DEF LeftBlockedTo
    <3>3. PICK k \in 1..(Polys - 1) : /\ e <= k /\ k <= h /\ OnPortal(a, Portal(k))
                                      /\ Cross(A, a, Portal(k).l) <= 0 /\ Cross(A, a, Portal(k).r) <= 0
      BY <3>2 DEF LeftBlocked
    <3>4. QED
      BY <2>7, <2>9, <3>2, <3>3
  <2>12. QED
    BY <2>10, <2>11 DEF TautAt
<1>10. QED
  BY <1>2, <1>6, <1>7, <1>8, <1>9

\* Where the line has no length.
LEMMA OnPoint ==
  ASSUME NEW a \in Places, NEW p \in Spots, OnLine(p, a, a)
  PROVE  SamePoint(p, a)
<1>1. PICK w \in Nat, u \in Nat, v \in Nat : IsOn(p, a, a, w, u, v)
  BY DEF OnLine
<1>2. a[1] \in Int /\ a[2] \in Int /\ a[3] = 1 /\ p[1] \in Int /\ p[2] \in Int /\ p[3] \in Int
  BY PlaceIsSpot, SpotParts
<1>3. w > 0 /\ w * p[1] = u * a[1] + v * a[1] /\ w * p[2] = u * a[2] + v * a[2] /\ w * p[3] = u + v
  BY <1>1, <1>2 DEF IsOn
<1>4. u * a[1] + v * a[1] = (w * p[3]) * a[1] /\ u * a[2] + v * a[2] = (w * p[3]) * a[2]
  <2>1. (u + v) * a[1] = u * a[1] + v * a[1] /\ (u + v) * a[2] = u * a[2] + v * a[2]
    BY <1>2
  <2>2. QED
    BY <1>3, <2>1
<1>5. w * p[1] = w * (a[1] * p[3]) /\ w * p[2] = w * (a[2] * p[3])
  <2>1. (w * p[3]) * a[1] = w * (a[1] * p[3]) /\ (w * p[3]) * a[2] = w * (a[2] * p[3])
    BY <1>2
  <2>2. QED
    BY <1>3, <1>4, <2>1
<1>6. \A c, d, e \in Int : c > 0 /\ c * d = c * e => d = e
  OBVIOUS
<1>7. a[1] * p[3] \in Int /\ a[2] * p[3] \in Int /\ w \in Int
  BY <1>2
<1>8. p[1] = a[1] * p[3] /\ p[2] = a[2] * p[3]
  BY <1>2, <1>3, <1>5, <1>6, <1>7
<1>9. QED
  BY <1>2, <1>8 DEF SamePoint

\* Two lines meet in the end they share.
LEMMA LinesMeet ==
  ASSUME NEW a \in Places, NEW x \in Places, NEW l \in Places, Cross(a, x, l) # 0,
         NEW p \in Spots, OnLine(p, a, x), Area(l, x, p) = 0
  PROVE  SamePoint(p, x)
<1>1. PICK w \in Nat, u \in Nat, v \in Nat : IsOn(p, a, x, w, u, v)
  BY DEF OnLine
<1>2. a \in Spots /\ x \in Spots /\ l \in Spots
  BY PlaceIsSpot
<1>3. /\ a[1] \in Int /\ a[2] \in Int /\ a[3] = 1 /\ x[1] \in Int /\ x[2] \in Int /\ x[3] = 1
      /\ p[1] \in Int /\ p[2] \in Int /\ p[3] \in Int
  BY PlaceIsSpot, SpotParts
<1>4. u = 0
  <2>1. w * Det(p, l, x) = u * Det(a, l, x) + v * Det(x, l, x)
    <3>1. Linear(p, a, x, w, u, v)
      BY <1>1, <1>2, DetIsLinear
    <3>2. QED
      BY <1>2, <3>1 DEF Linear
  <2>2. Det(p, l, x) = Det(l, x, p) /\ Det(l, x, p) \in Int /\ Det(x, l, x) = 0
    BY <1>2, DetInt
  <2>3. Det(l, x, p) = 0
    <3>1. ~(Area(l, x, p) > 0) /\ ~(Area(l, x, p) < 0)
      OBVIOUS
    <3>2. ~(Det(l, x, p) < 0) /\ ~(Det(l, x, p) > 0)
      BY <1>2, <3>1, AreaIsDet
    <3>3. QED
      BY <2>2, <3>2
  <2>4. Det(a, l, x) = Cross(a, l, x) /\ Cross(a, l, x) = -Cross(a, x, l) /\ Cross(a, x, l) \in Int
    BY DetIsCross, CrossInt
  <2>5. Det(a, l, x) \in Int /\ Det(a, l, x) # 0
    BY <2>4
  <2>6. u * Det(a, l, x) = 0
    <3>1. w * 0 = 0 /\ v * 0 = 0 /\ u * Det(a, l, x) \in Int
      BY <2>5
    <3>2. QED
      BY <2>1, <2>2, <2>3, <3>1
  <2>7. \A c, d \in Int : c * d = 0 /\ d # 0 => c = 0
    OBVIOUS
  <2>8. QED
    BY <2>5, <2>6, <2>7
<1>5. w > 0 /\ w * p[1] = v * x[1] /\ w * p[2] = v * x[2] /\ w * p[3] = v
  BY <1>1, <1>3, <1>4 DEF IsOn
<1>6. w * p[1] = w * (x[1] * p[3]) /\ w * p[2] = w * (x[2] * p[3])
  <2>1. v * x[1] = (w * p[3]) * x[1] /\ v * x[2] = (w * p[3]) * x[2]
    BY <1>5
  <2>2. (w * p[3]) * x[1] = w * (x[1] * p[3]) /\ (w * p[3]) * x[2] = w * (x[2] * p[3])
    BY <1>3
  <2>3. QED
    BY <1>5, <2>1, <2>2
<1>7. \A c, d, e \in Int : c > 0 /\ c * d = c * e => d = e
  OBVIOUS
<1>8. x[1] * p[3] \in Int /\ x[2] * p[3] \in Int /\ w \in Int
  BY <1>3
<1>9. p[1] = x[1] * p[3] /\ p[2] = x[2] * p[3]
  <2>1. w \in Int /\ w > 0 /\ p[1] \in Int /\ p[2] \in Int /\ x[1] * p[3] \in Int /\ x[2] * p[3] \in Int
    BY <1>3, <1>5, <1>8
  <2>2. (w * p[1] = w * (x[1] * p[3]) => p[1] = x[1] * p[3]) /\ (w * p[2] = w * (x[2] * p[3]) => p[2] = x[2] * p[3])
    BY <2>1, <1>7
  <2>3. QED
    BY <1>6, <2>2
<1>10. QED
  BY <1>3, <1>9 DEF SamePoint

\* Points at one place are the same.
LEMMA SameBoth ==
  ASSUME NEW a \in Places, NEW p \in Spots, NEW q \in Spots, SamePoint(p, a), SamePoint(q, a)
  PROVE  SamePoint(p, q)
<1>1. /\ a[1] \in Int /\ a[2] \in Int /\ a[3] = 1
      /\ p[1] \in Int /\ p[2] \in Int /\ p[3] \in Int /\ q[1] \in Int /\ q[2] \in Int /\ q[3] \in Int
  BY PlaceIsSpot, SpotParts
<1>2. /\ p[1] = a[1] * p[3] /\ p[2] = a[2] * p[3]
      /\ q[1] = a[1] * q[3] /\ q[2] = a[2] * q[3]
  BY <1>1 DEF SamePoint
<1>3. /\ (a[1] * p[3]) * q[3] = (a[1] * q[3]) * p[3]
      /\ (a[2] * p[3]) * q[3] = (a[2] * q[3]) * p[3]
  BY <1>1
<1>4. QED
  BY <1>2, <1>3 DEF SamePoint

\* The portals on the apex are the first ones behind it.
LEMMA TouchesOn ==
  ASSUME PullInv, SightInv, Pulling, OnPortal(apex.pt, Portal(apex.idx)),
         NEW k \in (apex.idx + 1)..(at - 1), OnPortal(apex.pt, Portal(k))
  PROVE  Touches(k)
<1>1. /\ SoundCorridor(corridor) /\ Polys \in Nat /\ apex.idx \in 1..Polys /\ apex.pt \in Places
      /\ at \in 1..(Polys + 1)
  BY PolysIsNat DEF PullInv, FunnelShape, ApexShape
<1>2. k \in Ahead(at - 1) /\ k \in 1..Polys /\ Portal(k) \in [l : Places, r : Places]
  <2>1. k \in 1..Polys /\ k \in apex.idx..(at - 1) /\ k # apex.idx
    BY <1>1
  <2>2. QED
    BY <1>1, <2>1, PortalPlaces DEF Ahead
<1>3. ~Faces(k)
  <2>1. Cross(apex.pt, Portal(k).r, Portal(k).l) = 0
    BY <1>1, <1>2, OnPortalIsFlat
  <2>2. QED
    BY <2>1 DEF Faces
<1>4. \A i \in Ahead(at - 1) : i < k => ThroughApex(i)
  BY <1>2, <1>3 DEF SightInv, Facing
<1> SUFFICES ASSUME NEW i \in apex.idx..k PROVE OnPortal(apex.pt, Portal(i))
  BY DEF Touches
<1>5. CASE i = apex.idx \/ i = k
  BY <1>5
<1>6. CASE i # apex.idx /\ i # k
  <2>1. i \in apex.idx..(at - 1) /\ i \in 1..Polys /\ i < k
    BY <1>1, <1>6
  <2>2. i \in Ahead(at - 1)
    BY <1>6, <2>1 DEF Ahead
  <2>3. ThroughApex(i)
    BY <1>4, <2>1, <2>2
  <2>4. Portal(i) \in [l : Places, r : Places]
    BY <1>1, <2>1, PortalPlaces
  <2>5. QED
    BY <2>3, <2>4, EndsAreOnPortal DEF ThroughApex
<1>7. QED
  BY <1>5, <1>6
-----------------------------------------------------------------------------
(* The bend at the apex                                                    *)

\* The line by which the string comes to the apex, from the point before it.
\* On either side a portal that the string meets there leaves no room, or the
\* string will not turn to that side.
Bent(A) ==
  LET p == points[Len(points) - 1] IN
  /\ OnLine(p.pt, A, apex.pt) /\ ~SamePoint(p.pt, apex.pt)
  /\ LeftBlocked(A, apex.pt, Entered(p), Reach) \/ KeptRight(A)
  /\ RightBlocked(A, apex.pt, Entered(p), Reach) \/ KeptLeft(A)

BendInv ==
  Pulling =>
    /\ Polys = 1 => Len(points) = 1
    /\ Len(points) >= 2 =>
         /\ OnPortal(apex.pt, Portal(apex.idx))
         /\ ~(Shut /\ at = Polys + 1) => \E A \in Places : Bent(A)

\* The point before the apex.
LEMMA BeforeApex ==
  ASSUME PullInv, Pulling
  PROVE  /\ points \in Strings /\ Len(points) \in Nat /\ LastPoint(points) = points[Len(points)]
         /\ points[Len(points)].pt \in Spots /\ SamePoint(points[Len(points)].pt, apex.pt)
         /\ Len(points) >= 2 =>
              /\ Len(points) - 1 \in 1..Len(points) /\ points[Len(points) - 1] \in Vertices
              /\ points[Len(points) - 1].pt \in Spots
              /\ Entered(points[Len(points) - 1]) \in Int /\ Entered(points[Len(points) - 1]) <= apex.idx
<1>1. /\ SoundCorridor(corridor) /\ Polys \in Nat /\ apex.idx \in 1..Polys
      /\ GoodString(points) /\ SamePoint(LastPoint(points).pt, apex.pt)
      /\ Last(points) > apex.idx => Last(points) = apex.idx + 1
  BY PolysIsNat DEF PullInv, FunnelShape, ApexShape, FunnelInv, AtApex
<1>2. /\ points \in Strings /\ InOrder(points) /\ Len(points) \in Nat /\ Len(points) >= 1
      /\ LastPoint(points) = points[Len(points)] /\ \A i \in 1..Len(points) : points[i] \in Vertices
  BY <1>1, StringParts DEF GoodString
<1>3. \A v \in Vertices : v.pt \in Spots /\ Entered(v) \in Int
  BY <1>1 DEF Vertices, Entered
<1>4. Len(points) \in 1..Len(points)
  BY <1>2
<1>5. ASSUME Len(points) >= 2
      PROVE  /\ Len(points) - 1 \in 1..Len(points)
             /\ Entered(points[Len(points) - 1]) <= apex.idx
  <2>1. Len(points) - 1 \in 1..Len(points) /\ Len(points) - 1 < Len(points)
    BY <1>2, <1>5
  <2>2. Entered(points[Len(points) - 1]) < Entered(points[Len(points)])
    BY <1>2, <1>4, <2>1 DEF InOrder
  <2>3. Entered(points[Len(points) - 1]) \in Int /\ Entered(points[Len(points)]) \in Int
    BY <1>2, <1>3, <1>4, <2>1
  <2>4. Last(points) = Entered(points[Len(points)])
    BY <1>2 DEF Last
  <2>5. QED
    BY <1>1, <2>1, <2>2, <2>3, <2>4
<1>6. QED
  BY <1>1, <1>2, <1>3, <1>4, <1>5

\* How far the string is known to go.
LEMMA ReachParts ==
  ASSUME PullInv, EdgeInv, Pulling
  PROVE  /\ Reach \in Int /\ Reach <= Polys
         /\ ~Shut => Reach < at /\ Reach <= left.idx /\ Reach <= right.idx
<1>1. /\ Polys \in Nat /\ apex.idx \in 1..Polys /\ at \in 1..(Polys + 1)
      /\ left.idx \in apex.idx..Polys /\ right.idx \in apex.idx..Polys
  BY PolysIsNat DEF PullInv, FunnelShape, ApexShape, SideShape
<1>2. ~Shut => left.idx \in apex.idx..(at - 1)
  BY DEF EdgeInv, Ahead
<1>3. QED
  BY <1>1, <1>2 DEF Reach

\* The string goes at least as far where it turns.
LEMMA ReachToTurn ==
  ASSUME PullInv, EdgeInv, PullPortal, ~Shut, NEW side, TurnSide(side)
  PROVE  Reach \in Int /\ Reach < at /\ Reach <= side.idx
<1>1. Pulling
  BY DEF PullPortal
<1>2. Reach \in Int /\ Reach < at /\ Reach <= left.idx /\ Reach <= right.idx /\ at \in Int
  BY <1>1, ReachParts DEF PullInv, FunnelShape
<1>3. side = left \/ side = right \/ side.idx = at
  BY DEF TurnSide, SeenRight, Side
<1>4. QED
  BY <1>2, <1>3

\* A turn leaves the string tight.
LEMMA TurnedTaut ==
  ASSUME PullInv, ConeInv, SightInv, EdgeInv, BendInv, PullPortal, ~Shut, Taut(points),
         NEW side, TurnSide(side), SideShape(side),
         NEW t, Stretched(t, side.pt, side.idx), InOrder(t)
  PROVE  Taut(t)
<1> DEFINE p == points[Len(points) - 1]
<1>1. Pulling
  BY DEF PullPortal
<1>2. /\ SoundCorridor(corridor) /\ ApexShape /\ AtApex(points) /\ apex.idx <= Last(points) /\ at \in Int
      /\ side.pt \in Places /\ Polys \in Nat /\ apex.pt \in Places /\ side.idx \in Int
  BY <1>1, PolysIsNat DEF PullInv, FunnelShape, FunnelInv, ApexShape, SightInv, SideShape, Sides
<1>3. CASE Len(points) >= 2
  <2>1. /\ Entered(p) \in Int /\ Entered(p) <= apex.idx
    BY <1>1, <1>3, BeforeApex
  <2>2. OnPortal(apex.pt, Portal(apex.idx)) /\ \E A \in Places : Bent(A)
    BY <1>1, <1>3 DEF BendInv
  <2>3. PICK A \in Places : Bent(A)
    BY <2>2
  <2>4. /\ OnLine(p.pt, A, apex.pt) /\ ~SamePoint(p.pt, apex.pt)
        /\ LeftBlocked(A, apex.pt, Entered(p), Reach) \/ KeptRight(A)
        /\ RightBlocked(A, apex.pt, Entered(p), Reach) \/ KeptLeft(A)
    BY <2>3 DEF Bent
  <2>5. PICK e \in Int : e = Entered(p)
    BY <2>1
  <2>6. Reach \in Int /\ Reach < at /\ Reach <= side.idx
    BY ReachToTurn
  <2>7. RightBlockedTo(A, e, side.idx) \/ Cross(A, apex.pt, side.pt) >= 0
    <3>1. CASE KeptLeft(A)
      BY <2>1, <2>2, <2>5, <3>1, HeldLeft
    <3>2. CASE ~KeptLeft(A)
      BY <2>4, <2>5, <2>6, <3>2 DEF RightBlockedTo
    <3>3. QED
      BY <3>1, <3>2
  <2>8. LeftBlockedTo(A, e, side.idx) \/ Cross(A, apex.pt, side.pt) <= 0
    <3>1. CASE KeptRight(A)
      BY <2>1, <2>2, <2>5, <3>1, HeldRight
    <3>2. CASE ~KeptRight(A)
      BY <2>4, <2>5, <2>6, <3>2 DEF LeftBlockedTo
    <3>3. QED
      BY <3>1, <3>2
  <2>9. \A k \in (apex.idx + 1)..(at - 1) : OnPortal(apex.pt, Portal(k)) => Touches(k)
    BY <1>1, <2>2, TouchesOn
  <2> HIDE DEF p
  <2>10. /\ OnLine(p.pt, A, apex.pt) /\ ~SamePoint(p.pt, apex.pt)
         /\ RightBlockedTo(A, Entered(p), side.idx) \/ Cross(A, apex.pt, side.pt) >= 0
         /\ LeftBlockedTo(A, Entered(p), side.idx) \/ Cross(A, apex.pt, side.pt) <= 0
    BY <2>4, <2>5, <2>7, <2>8
  <2>11. QED
    BY <1>2, <2>9, <2>10, StretchTaut DEF p
<1>4. CASE ~(Len(points) >= 2)
  BY <1>2, <1>4, StretchTaut
<1>5. QED
  BY <1>3, <1>4

\* Nor may it bend there where it could be pulled tighter.
LEMMA TurnedBent ==
  ASSUME PullInv, ConeInv, EdgeInv, BendInv, PullPortal, ~Shut,
         NEW side, TurnSide(side), SideShape(side), side.idx < Polys,
         NEW t, Stretched(t, side.pt, side.idx), InOrder(t), Placed(t), Len(t) >= 2,
         SamePoint(t[Len(t)].pt, side.pt), Entered(t[Len(t)]) = side.idx + 1
  PROVE  LET p == t[Len(t) - 1]
             q == side.pt
             f == side.idx
         IN  \E A \in Places :
               /\ OnLine(p.pt, A, q) /\ ~SamePoint(p.pt, q)
               /\ LeftBlocked(A, q, Entered(p), f) \/ AwaitsRight(A, q, f, f + 1)
               /\ RightBlocked(A, q, Entered(p), f) \/ AwaitsLeft(A, q, f, f + 1)
<1> DEFINE n == Len(points)
           a == apex.pt
           p == t[Len(t) - 1]
           q == side.pt
           f == side.idx
<1>1. Pulling
  BY DEF PullPortal
<1>2. /\ SoundCorridor(corridor) /\ Polys \in Nat /\ a \in Places /\ apex.idx \in 1..Polys /\ at \in Int
      /\ q \in Places /\ q \in Spots /\ a \in Spots /\ f \in apex.idx..Polys /\ f \in 1..Polys /\ f \in Int
  BY <1>1, PolysIsNat, PlaceIsSpot DEF PullInv, FunnelShape, ApexShape, SideShape, Sides
<1>3. /\ points \in Strings /\ n \in Nat /\ n >= 1 /\ points[n].pt \in Spots /\ SamePoint(points[n].pt, a)
  BY <1>1, BeforeApex, StringParts
<1>4. /\ t \in Strings /\ Len(t) >= n
      /\ \A i \in 1..(n - 1) : t[i] = points[i]
      /\ t[n].pt = points[n].pt
      /\ \A i \in (n + 1)..Len(t) : OnLine(t[i].pt, a, q) /\ ~SamePoint(t[i - 1].pt, t[i].pt)
  BY DEF Stretched
<1>5. /\ Len(t) \in Nat /\ Len(t) \in 1..Len(t) /\ Len(t) - 1 \in 1..Len(t) /\ Len(t) - 1 < Len(t)
      /\ \A i \in 1..Len(t) : t[i] \in Vertices
  BY <1>4, StringParts
<1>6. \A v \in Vertices : v.pt \in Spots /\ Entered(v) \in Int
  BY <1>2 DEF Vertices, Entered
<1>7. /\ p \in Vertices /\ p.pt \in Spots /\ Entered(p) \in Int /\ Entered(p) <= f
      /\ t[Len(t)].pt \in Spots
  <2>1. Entered(p) < Entered(t[Len(t)])
    BY <1>5 DEF InOrder
  <2>2. QED
    BY <1>2, <1>5, <1>6, <2>1
<1>8. PICK e \in Int : e = Entered(p)
  BY <1>7
<1>9. CASE Len(t) = n
  <2>1. p = points[n - 1] /\ n >= 2
    BY <1>3, <1>4, <1>9
  <2>2. q = a
    <3>1. SamePoint(q, t[n].pt)
      BY <1>2, <1>7, <1>9, SameAsItself, SameBoth
    <3>2. SamePoint(q, a)
      BY <1>2, <1>3, <1>4, <3>1, SameAsPlace
    <3>3. QED
      BY <1>2, <3>2, SamePlace
  <2>3. e <= apex.idx
    BY <1>1, <1>8, <2>1, BeforeApex
  <2>4. OnPortal(a, Portal(apex.idx)) /\ \E A \in Places : Bent(A)
    BY <1>1, <2>1 DEF BendInv
  <2>5. PICK A \in Places : Bent(A)
    BY <2>4
  <2>6. /\ OnLine(p.pt, A, a) /\ ~SamePoint(p.pt, a)
        /\ LeftBlocked(A, a, e, Reach) \/ KeptRight(A)
        /\ RightBlocked(A, a, e, Reach) \/ KeptLeft(A)
    BY <1>8, <2>1, <2>5 DEF Bent
  <2>7. Reach \in Int /\ Reach <= f
    BY ReachToTurn
  <2>8. RightBlocked(A, a, e, f)
    <3>1. CASE KeptLeft(A)
      <4>1. RightBlockedTo(A, e, f)
        BY <2>2, <2>3, <2>4, <3>1, HeldLeft
      <4>2. QED
        BY <1>2, <4>1, StaysBlocked DEF RightBlockedTo
    <3>2. CASE ~KeptLeft(A)
      BY <1>2, <2>6, <2>7, <3>2, StaysBlocked
    <3>3. QED
      BY <3>1, <3>2
  <2>9. LeftBlocked(A, a, e, f)
    <3>1. CASE KeptRight(A)
      <4>1. LeftBlockedTo(A, e, f)
        BY <2>2, <2>3, <2>4, <3>1, HeldRight
      <4>2. QED
        BY <1>2, <4>1, StaysBlocked DEF LeftBlockedTo
    <3>2. CASE ~KeptRight(A)
      BY <1>2, <2>6, <2>7, <3>2, StaysBlocked
    <3>3. QED
      BY <3>1, <3>2
  <2>10. QED
    BY <1>8, <2>2, <2>6, <2>8, <2>9
<1>10. CASE Len(t) # n
  <2>1. Len(t) > n /\ n + 1 \in (n + 1)..Len(t) /\ Len(t) \in (n + 1)..Len(t) /\ (n + 1) - 1 = n
    BY <1>3, <1>4, <1>5, <1>10
  <2>2. q # a
    <3> SUFFICES ASSUME q = a PROVE FALSE
      OBVIOUS
    <3>1. t[n + 1].pt \in Spots /\ OnLine(t[n + 1].pt, a, a) /\ ~SamePoint(t[n].pt, t[n + 1].pt)
      <4>1. n + 1 \in 1..Len(t)
        BY <1>3, <2>1
      <4>2. QED
        BY <1>4, <1>5, <1>6, <2>1, <4>1
    <3>2. SamePoint(t[n + 1].pt, a)
      BY <1>2, <3>1, OnPoint
    <3>3. QED
      BY <1>2, <1>3, <1>4, <3>1, <3>2, SameBoth
  <2>3. OnLine(p.pt, a, q)
    <3>1. CASE Len(t) - 1 = n
      BY <1>2, <1>3, <1>4, <3>1, StartOnLine
    <3>2. CASE Len(t) - 1 # n
      <4>1. Len(t) - 1 \in (n + 1)..Len(t)
        BY <1>3, <1>5, <2>1, <3>2
      <4>2. QED
        BY <1>4, <4>1
    <3>3. QED
      BY <3>1, <3>2
  <2>4. ~SamePoint(p.pt, q)
    <3>1. ~SamePoint(p.pt, t[Len(t)].pt)
      BY <1>4, <2>1
    <3>2. QED
      BY <1>2, <1>7, <3>1, SameBoth
  <2>5. ASSUME NEW k \in 1..(Polys - 1), k + 1 = f, Portal(k).r = q, Cross(a, q, Portal(k).l) # 0
        PROVE  e <= k
    <3> SUFFICES ASSUME e > k PROVE FALSE
      BY <1>2
    <3>1. e = f /\ f > 1 /\ f - 1 = k /\ f # Polys + 1 /\ k \in 1..Polys
      BY <1>2, <1>7, <1>8, <2>5
    <3>2. p.ref = f
      BY <1>8, <3>1 DEF Entered
    <3>3. OnPortal(p.pt, Portal(k))
      BY <1>5, <3>1, <3>2 DEF Placed, IsPlaced
    <3>4. Portal(k).l \in Places /\ Area(Portal(k).l, q, p.pt) = 0
      BY <1>2, <2>5, <3>1, <3>3, PortalPlaces, PortalEnds DEF OnPortal, Between
    <3>5. PICK l \in Places : l = Portal(k).l
      BY <3>4
    <3>6. SamePoint(p.pt, q)
      BY <1>2, <1>7, <2>3, <2>5, <3>4, <3>5, LinesMeet
    <3>7. QED
      BY <2>4, <3>6
  <2>6. e <= f
    BY <1>7, <1>8
  <2>7. /\ LeftBlocked(a, q, e, f) \/ AwaitsRight(a, q, f, f + 1)
        /\ RightBlocked(a, q, e, f) \/ AwaitsLeft(a, q, f, f + 1)
    BY <2>2, <2>5, <2>6, TurnBends
  <2>8. QED
    BY <1>2, <1>8, <2>3, <2>4, <2>7
<1>11. QED
  BY <1>9, <1>10

\* What is known of the corridor stays, as it does.
LEMMA BlockedStay ==
  ASSUME UNCHANGED corridor, NEW A, NEW q, NEW e, NEW h, NEW f, NEW i
  PROVE  /\ LeftBlocked(A, q, e, h) => LeftBlocked(A, q, e, h)'
         /\ RightBlocked(A, q, e, h) => RightBlocked(A, q, e, h)'
         /\ AwaitsLeft(A, q, f, i) => AwaitsLeft(A, q, f, i)'
         /\ AwaitsRight(A, q, f, i) => AwaitsRight(A, q, f, i)'
<1>1. \A k : Portal(k)' = Portal(k)
  BY PortalsStay
<1>2. Polys' = Polys
  BY PolysStay
<1>3. QED
  BY <1>1, <1>2 DEF LeftBlocked, RightBlocked, AwaitsLeft, AwaitsRight

\* How the string comes to the apex after a step.
LEMMA BentAfter ==
  ASSUME UNCHANGED corridor, NEW A, NEW q, NEW f, NEW i, NEW h, NEW t, NEW L, NEW R,
         points' = t, apex'.pt = q, apex'.idx = f, at' = i, Reach' = h, left'.pt = L, right'.pt = R,
         LET p == t[Len(t) - 1] IN
           /\ OnLine(p.pt, A, q) /\ ~SamePoint(p.pt, q)
           /\ LeftBlocked(A, q, Entered(p), h) \/ AwaitsRight(A, q, f, i) \/ (~Shut' /\ OpensRight(A, q, L, R))
           /\ RightBlocked(A, q, Entered(p), h) \/ AwaitsLeft(A, q, f, i) \/ (~Shut' /\ OpensLeft(A, q, L, R))
  PROVE  Bent(A)'
<1> DEFINE p == t[Len(t) - 1]
<1>1. PICK c : c = p
  OBVIOUS
<1>2. PICK e : e = Entered(c)
  OBVIOUS
<1>3. /\ LeftBlocked(A, q, e, h) => LeftBlocked(A, q, e, h)'
      /\ RightBlocked(A, q, e, h) => RightBlocked(A, q, e, h)'
      /\ AwaitsLeft(A, q, f, i) => AwaitsLeft(A, q, f, i)'
      /\ AwaitsRight(A, q, f, i) => AwaitsRight(A, q, f, i)'
  BY BlockedStay
<1>4. points'[Len(points') - 1] = c
  BY <1>1
<1>5. Entered(c)' = e
  BY <1>2, EnteredStays
<1>6. Entered(points[Len(points) - 1])' = e
  BY <1>4, <1>5 DEF Entered
<1>7. /\ LeftBlocked(A, q, e, h)' => LeftBlocked(A, apex.pt, Entered(points[Len(points) - 1]), Reach)'
      /\ RightBlocked(A, q, e, h)' => RightBlocked(A, apex.pt, Entered(points[Len(points) - 1]), Reach)'
  BY <1>6 DEF LeftBlocked, RightBlocked
<1>8. /\ AwaitsLeft(A, q, f, i)' => KeptLeft(A)'
      /\ AwaitsRight(A, q, f, i)' => KeptRight(A)'
  BY DEF KeptLeft, KeptRight, AwaitsLeft, AwaitsRight
<1>9. /\ ~Shut' /\ OpensLeft(A, q, L, R) => KeptLeft(A)'
      /\ ~Shut' /\ OpensRight(A, q, L, R) => KeptRight(A)'
  BY DEF KeptLeft, KeptRight, OpensLeft, OpensRight
<1>10. /\ LeftBlocked(A, q, e, h) \/ AwaitsRight(A, q, f, i) \/ (~Shut' /\ OpensRight(A, q, L, R))
       /\ RightBlocked(A, q, e, h) \/ AwaitsLeft(A, q, f, i) \/ (~Shut' /\ OpensLeft(A, q, L, R))
       /\ OnLine(c.pt, A, q) /\ ~SamePoint(c.pt, q)
  BY <1>1, <1>2
<1>11. OnLine(points'[Len(points') - 1].pt, A, apex'.pt) /\ ~SamePoint(points'[Len(points') - 1].pt, apex'.pt)
  BY <1>4, <1>10
<1>12. QED
  BY <1>3, <1>7, <1>8, <1>9, <1>10, <1>11 DEF Bent

\* A turn leaves a bend of which the same is known.
LEMMA BendTurn ==
  ASSUME PullInv, ConeInv, EdgeInv, BendInv, PullPortal, PullInv', PlacedInv', ~Shut,
         NEW side, TurnSide(side), SideShape(side), FreshSide(side),
         NEW t, points' = t, Stretched(t, side.pt, side.idx), Entered(LastPoint(t)) = side.idx + 1,
         apex'.pt = side.pt, apex'.idx = side.idx, at' = side.idx + 1, Shut', Pulling'
  PROVE  BendInv'
<1>1. /\ Pulling /\ SoundCorridor(corridor) /\ Polys \in Nat /\ Polys > 1 /\ UNCHANGED corridor
      /\ side.idx \in 1..Polys /\ side.pt \in Places
  BY PolysIsNat DEF PullPortal, PullInv, FunnelShape, ApexShape, SideShape, Sides
<1>2. Polys' = Polys /\ \A k : Portal(k)' = Portal(k)
  BY <1>1, PolysStay, PortalsStay
<1>3. Portal(side.idx) \in [l : Places, r : Places] /\ side.pt \in {Portal(side.idx).l, Portal(side.idx).r}
  BY <1>1, PortalPlaces DEF FreshSide, AtEnd
<1>4. OnPortal(side.pt, Portal(side.idx))
  BY <1>3, EndsAreOnPortal
<1>5. OnPortal(apex.pt, Portal(apex.idx))'
  <2>1. PICK f : f = side.idx
    OBVIOUS
  <2>2. Portal(f)' = Portal(f)
    BY <1>2
  <2>3. Portal(apex.idx)' = Portal(f)
    BY <2>1, <2>2 DEF Portal
  <2>4. QED
    BY <1>4, <2>1, <2>3
<1>6. t \in Strings /\ Len(t) \in Nat /\ LastPoint(t) = t[Len(t)]
  BY StringParts DEF Stretched
<1>7. ASSUME Len(t) >= 2, side.idx # Polys
      PROVE  \E A \in Places : Bent(A)'
  <2>1. InOrder(t)
    <3>1. InOrder(points)'
      BY DEF PullInv, FunnelInv, AtApex, GoodString
    <3>2. \A v : Entered(v)' = Entered(v)
      BY <1>1, EnteredStays
    <3>3. \A i \in 1..Len(t) : Entered(t[i])' = Entered(t[i])
      BY <3>2
    <3>4. QED
      BY <3>1, <3>3 DEF InOrder, Entered
  <2>2. Placed(t)
    <3>1. Placed(points)'
      BY DEF PlacedInv
    <3>2. QED
      BY <1>2, <3>1 DEF Placed, IsPlaced
  <2>3. SamePoint(t[Len(t)].pt, side.pt)
    BY <1>6 DEF PullInv, FunnelInv, AtApex, LastPoint
  <2>4. side.idx < Polys
    BY <1>1, <1>7
  <2>5. Entered(t[Len(t)]) = side.idx + 1
    BY <1>6
  <2>6. PICK A \in Places :
          LET p == t[Len(t) - 1]
              q == side.pt
              f == side.idx
          IN  /\ OnLine(p.pt, A, q) /\ ~SamePoint(p.pt, q)
              /\ LeftBlocked(A, q, Entered(p), f) \/ AwaitsRight(A, q, f, f + 1)
              /\ RightBlocked(A, q, Entered(p), f) \/ AwaitsLeft(A, q, f, f + 1)
    BY <1>7, <2>1, <2>2, <2>3, <2>4, <2>5, TurnedBent
  <2>7. Reach' = side.idx
    BY <1>1 DEF Reach
  <2>8. PICK L, R : left'.pt = L /\ right'.pt = R
    OBVIOUS
  <2>9. Bent(A)'
    BY <1>1, <2>6, <2>7, <2>8, BentAfter
  <2>10. QED
    BY <2>9
<1>8. side.idx = Polys => Shut' /\ at' = Polys' + 1
  BY <1>2
<1>9. ~(Shut' /\ at' = Polys' + 1) /\ Len(points') >= 2 => \E A \in Places : Bent(A)'
  BY <1>7, <1>8
<1>10. QED
  BY <1>1, <1>2, <1>5, <1>9 DEF BendInv

\* The funnel narrows, and the string goes no less far.
LEMMA ReachGrows ==
  ASSUME PullInv, ConeInv, EdgeInv, PullPortal, GoesAhead
  PROVE  /\ Reach \in Int /\ Reach' \in Int /\ Reach <= Reach'
<1> USE DEF PortalPoints
<1>1. PortalPoints
  BY PortalCases
<1>2. /\ left' = SeenLeft /\ right' = SeenRight /\ apex' = apex /\ at' = at + 1
      /\ Narrows(apex.pt, left.pt, right.pt, Portal(at).l, Portal(at).r, SeenLeft.pt, SeenRight.pt)
  BY DEF GoesAhead
<1>3. /\ left.idx \in apex.idx..Polys /\ right.idx \in apex.idx..Polys /\ apex.idx <= at
  BY <1>1 DEF PullInv, FunnelShape, SideShape, FunnelInv
<1>4. /\ SeenLeft.idx = left.idx \/ SeenLeft.idx = at
      /\ SeenRight.idx = right.idx \/ SeenRight.idx = at
  BY DEF SeenLeft, SeenRight, Side
<1>5. Reach' = IF Shut' THEN at ELSE IF SeenLeft.idx < SeenRight.idx THEN SeenLeft.idx ELSE SeenRight.idx
  BY <1>1, <1>2 DEF Reach
<1>6. CASE Shut
  <2>1. Cross(apex.pt, right.pt, Portal(at).r) = 0 /\ Cross(apex.pt, Portal(at).l, left.pt) = 0
    BY <1>1, <1>6, CrossInt DEF Shut
  <2>2. SeenLeft.idx = at /\ SeenRight.idx = at
    BY <2>1 DEF SeenLeft, SeenRight, Side
  <2>3. Reach = at - 1 /\ Reach' = at
    BY <1>5, <1>6, <2>2 DEF Reach
  <2>4. QED
    BY <1>1, <2>3
<1>7. CASE ~Shut
  <2>1. left.idx < at /\ right.idx < at /\ OpenAt(left.pt, right.pt, at - 1)
    BY <1>1, <1>7 DEF ConeInv
  <2>2. SeenLeft.pt # apex.pt
    BY <1>1, <1>2, <2>1, OpenGoesOn
  <2>3. ~Shut'
    BY <1>2, <2>2 DEF Shut
  <2>4. QED
    BY <1>1, <1>3, <1>4, <1>5, <1>7, <2>1, <2>3 DEF Reach
<1>8. QED
  BY <1>6, <1>7

\* So does a funnel that narrows.
LEMMA BendGoesAhead ==
  ASSUME PullInv, ConeInv, EdgeInv, BendInv, PullPortal, GoesAhead
  PROVE  BendInv'
<1> DEFINE p == points[Len(points) - 1]
<1>1. /\ Pulling /\ Polys \in Nat /\ Polys > 1 /\ at \in 1..Polys /\ UNCHANGED corridor
  BY PortalCases DEF PortalPoints
<1>2. /\ left' = SeenLeft /\ right' = SeenRight /\ apex' = apex /\ at' = at + 1 /\ points' = points
  BY DEF GoesAhead
<1>3. Polys' = Polys /\ \A k : Portal(k)' = Portal(k)
  BY <1>1, PolysStay, PortalsStay
<1>4. ASSUME Len(points) >= 2 PROVE OnPortal(apex.pt, Portal(apex.idx))'
  <2>1. OnPortal(apex.pt, Portal(apex.idx))
    BY <1>1, <1>4 DEF BendInv
  <2>2. Portal(apex.idx)' = Portal(apex.idx)
    BY <1>2, <1>3 DEF Portal
  <2>3. QED
    BY <1>2, <2>1, <2>2
<1>5. ASSUME Len(points) >= 2, ~(Shut' /\ at' = Polys + 1)
      PROVE  \E A \in Places : Bent(A)'
  <2>1. OnPortal(apex.pt, Portal(apex.idx)) /\ \E A \in Places : Bent(A)
    BY <1>1, <1>5 DEF BendInv
  <2>2. PICK A \in Places : Bent(A)
    BY <2>1
  <2>3. Entered(p) \in Int /\ Entered(p) <= apex.idx
    BY <1>1, <1>5, BeforeApex
  <2>4. PICK e \in Int : e = Entered(p)
    BY <2>3
  <2>5. PICK h \in Int : h = Reach'
    BY ReachGrows
  <2>6. Reach \in Int /\ Reach <= h
    BY <2>5, ReachGrows
  <2>7. /\ OnLine(p.pt, A, apex.pt) /\ ~SamePoint(p.pt, apex.pt)
        /\ LeftBlocked(A, apex.pt, e, Reach) \/ KeptRight(A)
        /\ RightBlocked(A, apex.pt, e, Reach) \/ KeptLeft(A)
    BY <2>2, <2>4 DEF Bent
  <2>8. SeenLeft.pt = apex.pt /\ SeenRight.pt = apex.pt => at # Polys /\ h = at
    BY <1>1, <1>2, <1>5, <2>5 DEF Shut, Reach
  <2>9. \/ RightBlocked(A, apex.pt, e, h)
        \/ AwaitsLeft(A, apex.pt, apex.idx, at + 1)
        \/ OpensLeft(A, apex.pt, SeenLeft.pt, SeenRight.pt)
    <3>1. CASE KeptLeft(A)
      <4>1. \/ RightBlocked(A, apex.pt, e, Reach) \/ RightBlocked(A, apex.pt, e, h)
            \/ AwaitsLeft(A, apex.pt, apex.idx, at + 1)
            \/ OpensLeft(A, apex.pt, SeenLeft.pt, SeenRight.pt)
        BY <2>1, <2>3, <2>4, <2>8, <3>1, LeftGoesOn
      <4>2. QED
        BY <1>1, <2>6, <4>1, StaysBlocked
    <3>2. CASE ~KeptLeft(A)
      BY <1>1, <2>6, <2>7, <3>2, StaysBlocked
    <3>3. QED
      BY <3>1, <3>2
  <2>10. \/ LeftBlocked(A, apex.pt, e, h)
         \/ AwaitsRight(A, apex.pt, apex.idx, at + 1)
         \/ OpensRight(A, apex.pt, SeenLeft.pt, SeenRight.pt)
    <3>1. CASE KeptRight(A)
      <4>1. \/ LeftBlocked(A, apex.pt, e, Reach)
            \/ AwaitsRight(A, apex.pt, apex.idx, at + 1)
            \/ OpensRight(A, apex.pt, SeenLeft.pt, SeenRight.pt)
        BY <2>1, <2>3, <2>4, <3>1, RightGoesOn
      <4>2. QED
        BY <1>1, <2>6, <4>1, StaysBlocked
    <3>2. CASE ~KeptRight(A)
      BY <1>1, <2>6, <2>7, <3>2, StaysBlocked
    <3>3. QED
      BY <3>1, <3>2
  <2>11. SeenRight.pt # apex.pt => ~Shut'
    BY <1>2 DEF Shut
  <2>12. PICK q, f, i, t, L, R : /\ q = apex.pt /\ f = apex.idx /\ i = at + 1 /\ t = points
                                 /\ L = SeenLeft.pt /\ R = SeenRight.pt
    OBVIOUS
  <2>13. /\ points' = t /\ apex'.pt = q /\ apex'.idx = f /\ at' = i /\ Reach' = h /\ left'.pt = L /\ right'.pt = R
    BY <1>2, <2>5, <2>12
  <2>14. /\ LeftBlocked(A, q, e, h) \/ AwaitsRight(A, q, f, i) \/ (~Shut' /\ OpensRight(A, q, L, R))
         /\ RightBlocked(A, q, e, h) \/ AwaitsLeft(A, q, f, i) \/ (~Shut' /\ OpensLeft(A, q, L, R))
    <3>1. /\ OpensRight(A, q, L, R) => ~Shut'
          /\ OpensLeft(A, q, L, R) => ~Shut'
      BY <2>11, <2>12 DEF OpensLeft, OpensRight
    <3>2. QED
      BY <2>9, <2>10, <2>12, <3>1
  <2>15. p = t[Len(t) - 1]
    BY <2>12
  <2> HIDE DEF p
  <2>16. OnLine(p.pt, A, q) /\ ~SamePoint(p.pt, q)
    BY <2>7, <2>12
  <2>17. Bent(A)'
    BY <1>1, <2>4, <2>13, <2>14, <2>15, <2>16, BentAfter
  <2>18. QED
    BY <2>17
<1>6. Len(points') = Len(points)
  BY <1>2
<1>7. QED
  BY <1>1, <1>3, <1>4, <1>5, <1>6 DEF BendInv

\* A step that leaves the funnel alone.
LEMMA BendRests ==
  ASSUME PullInv, BendInv, UNCHANGED <<corridor, apex, left, right, points, pulled>>,
         at' = at \/ (at # Polys + 1 /\ at' \in Int /\ at <= at' /\ at' <= apex.idx + 1)
  PROVE  BendInv'
<1> DEFINE p == points[Len(points) - 1]
<1>1. Polys' = Polys /\ (\A k : Portal(k)' = Portal(k)) /\ UNCHANGED corridor
  BY PolysStay, PortalsStay
<1>2. (Pulling' <=> Pulling) /\ (Shut' <=> Shut)
  BY DEF Pulling, Shut
<1> SUFFICES ASSUME Pulling PROVE BendInv'
  BY <1>2 DEF BendInv
<1>3. Polys \in Nat /\ apex.idx \in 1..Polys /\ apex.idx \in Int
  BY PolysIsNat DEF PullInv, FunnelShape, ApexShape
<1>4. ASSUME Len(points) >= 2 PROVE OnPortal(apex.pt, Portal(apex.idx))'
  <2>1. OnPortal(apex.pt, Portal(apex.idx))
    BY <1>4 DEF BendInv
  <2>2. Portal(apex.idx)' = Portal(apex.idx)
    BY <1>1 DEF Portal
  <2>3. QED
    BY <2>1, <2>2
<1>5. ASSUME Len(points) >= 2, ~(Shut /\ at = Polys + 1)
      PROVE  \E A \in Places : Bent(A)'
  <2>1. PICK A \in Places : Bent(A)
    BY <1>5 DEF BendInv
  <2>2. PICK i : i = at'
    OBVIOUS
  <2>3. i = at \/ (i \in Int /\ i <= apex.idx + 1)
    BY <2>2
  <2>4. \A to \in (apex.idx + 1)..Polys : at <= to => i <= to
    BY <1>3, <2>3
  <2>5. /\ AwaitsLeft(A, apex.pt, apex.idx, at) => AwaitsLeft(A, apex.pt, apex.idx, i)
        /\ AwaitsRight(A, apex.pt, apex.idx, at) => AwaitsRight(A, apex.pt, apex.idx, i)
    BY <2>4 DEF AwaitsLeft, AwaitsRight
  <2>6. PICK h \in Int : h = Reach' /\ Reach \in Int /\ Reach <= h
    <3>1. left.idx \in Int /\ right.idx \in Int /\ at \in Int
      BY <1>3 DEF PullInv, FunnelShape, SideShape
    <3>2. Reach \in Int /\ Reach' \in Int /\ Reach <= Reach'
      BY <1>2, <3>1 DEF Reach
    <3>3. QED
      BY <3>2
  <2>7. /\ LeftBlocked(A, apex.pt, Entered(p), Reach) => LeftBlocked(A, apex.pt, Entered(p), h)
        /\ RightBlocked(A, apex.pt, Entered(p), Reach) => RightBlocked(A, apex.pt, Entered(p), h)
    BY <1>3, <2>6, StaysBlocked
  <2>8. /\ OnLine(p.pt, A, apex.pt) /\ ~SamePoint(p.pt, apex.pt)
        /\ \/ LeftBlocked(A, apex.pt, Entered(p), h)
           \/ AwaitsRight(A, apex.pt, apex.idx, i)
           \/ (~Shut' /\ OpensRight(A, apex.pt, left.pt, right.pt))
        /\ \/ RightBlocked(A, apex.pt, Entered(p), h)
           \/ AwaitsLeft(A, apex.pt, apex.idx, i)
           \/ (~Shut' /\ OpensLeft(A, apex.pt, left.pt, right.pt))
    <3>1. /\ OnLine(p.pt, A, apex.pt) /\ ~SamePoint(p.pt, apex.pt)
          /\ LeftBlocked(A, apex.pt, Entered(p), Reach) \/ KeptRight(A)
          /\ RightBlocked(A, apex.pt, Entered(p), Reach) \/ KeptLeft(A)
      BY <2>1 DEF Bent
    <3>2. /\ KeptRight(A) => AwaitsRight(A, apex.pt, apex.idx, i) \/ (~Shut' /\ OpensRight(A, apex.pt, left.pt, right.pt))
          /\ KeptLeft(A) => AwaitsLeft(A, apex.pt, apex.idx, i) \/ (~Shut' /\ OpensLeft(A, apex.pt, left.pt, right.pt))
      BY <1>2, <2>5 DEF KeptLeft, KeptRight
    <3>3. QED
      BY <2>7, <3>1, <3>2
  <2>9. PICK q, f, t, L, R : /\ q = apex.pt /\ f = apex.idx /\ t = points
                             /\ L = left.pt /\ R = right.pt
    OBVIOUS
  <2>10. points' = t /\ apex'.pt = q /\ apex'.idx = f /\ at' = i /\ Reach' = h /\ left'.pt = L /\ right'.pt = R
    BY <1>2, <2>2, <2>9, <2>6
  <2>11. p = t[Len(t) - 1]
    BY <2>9
  <2> HIDE DEF p
  <2>12. Bent(A)'
    BY <1>1, <2>8, <2>9, <2>10, <2>11, BentAfter
  <2>13. QED
    BY <2>12
<1>6. Len(points') = Len(points) /\ (Shut /\ at = Polys + 1 => Shut' /\ at' = Polys + 1)
  BY <1>2
<1>7. QED
  BY <1>1, <1>2, <1>4, <1>5, <1>6 DEF BendInv

\* The invariant is inductive, relative to those before it.
LEMMA BendNext ==
  PathIInv /\ ConeInv /\ PlacedInv /\ SightInv /\ EdgeInv /\ MetInv /\ BendInv /\ [Next]_vars => BendInv'
<1> SUFFICES ASSUME PathIInv, ConeInv, PlacedInv, SightInv, EdgeInv, MetInv, BendInv, [Next]_vars PROVE BendInv'
  OBVIOUS
<1>1. PullInv /\ PullInv' /\ PlacedInv'
  BY PathNext, ConeNext DEF PathIInv
<1>2. CASE UNCHANGED pullVars
  BY <1>1, <1>2, BendRests DEF pullVars
<1>3. CASE pulled'.code \in {"none", "success"}
  BY <1>3 DEF BendInv, Pulling
<1>4. ASSUME NEW c \in Corridors, NEW n \in Sizes, NEW all \in BOOLEAN, NEW gone \in 0..PolyCount(c),
             PullBegin(c, n, all, gone)
      PROVE  BendInv'
  <2>1. (points' = <<>> /\ pulled' = Status("failure", {"param"})) \/ points' = <<Vertex(c.start, "start", 1)>>
    BY <1>4 DEF PullBegin
  <2>2. ~Pulling' \/ Len(points') = 1
    BY <2>1 DEF Pulling, Status
  <2>3. QED
    BY <2>2 DEF BendInv
<1>5. CASE PullSkip
  <2>1. at = 1 /\ Polys > 1 /\ at' = at + 1 /\ UNCHANGED <<corridor, apex, left, right, points, pulled>>
    BY <1>5 DEF PullSkip, StartsOnPortal
  <2>2. apex.idx \in 1..Polys /\ Polys \in Nat
    BY <1>1, PolysIsNat DEF PullInv, FunnelShape, ApexShape
  <2>3. at # Polys + 1 /\ at' \in Int /\ at <= at' /\ at' <= apex.idx + 1
    BY <2>1, <2>2
  <2>4. QED
    BY <1>1, <2>1, <2>3, BendRests
<1>6. CASE PullPortal
  <2>1. Pulling /\ UNCHANGED <<corridor, lost, crossings, size>>
    BY <1>6 DEF PullPortal
  <2>2. Met(points) /\ apex.idx <= Last(points)
    BY <2>1 DEF MetInv, SightInv
  <2>3. CASE GoesAhead
    BY <1>1, <1>6, <2>3, BendGoesAhead
  <2>4. ASSUME NEW side, ~Shut, Turn(side), TurnSide(side), SideShape(side), FreshSide(side),
               Last(points) <= side.idx, Aim(side.pt, side.idx)
        PROVE  BendInv'
    <3> SUFFICES ASSUME Pulling' PROVE BendInv'
      BY DEF BendInv
    <3>1. /\ \E t : /\ points' = t /\ Stretched(t, side.pt, side.idx) /\ Met(t)
                    /\ Entered(LastPoint(t)) = side.idx + 1
          /\ apex'.pt = side.pt /\ apex'.idx = side.idx /\ at' = side.idx + 1 /\ Shut'
      BY <1>1, <2>1, <2>2, <2>4, TurnGoes
    <3>2. PICK t : points' = t /\ Stretched(t, side.pt, side.idx) /\ Entered(LastPoint(t)) = side.idx + 1
      BY <3>1
    <3>3. QED
      BY <1>1, <1>6, <2>4, <3>1, <3>2, BendTurn
  <2>5. QED
    BY <1>1, <1>6, <2>3, <2>4, TurnsOrGoes DEF TurnSide
<1>7. CASE PullEnd
  BY <1>3, <1>7 DEF PullEnd, Status
<1>8. QED
  BY <1>2, <1>3, <1>4, <1>5, <1>6, <1>7, PathSteps

\* The bend at the apex is justified, or will be.
LEMMA BendInvariant == Spec => []BendInv
<1>1. Init => BendInv
  BY DEF Init, BendInv, Pulling, Status
<1>2. QED
  BY <1>1, BendNext, PathInvariant, ConeInvariant, SightInvariant, EdgeInvariant, MetInvariant, PTL DEF Spec

\* The last stretch leaves the string tight.
LEMMA EndTaut ==
  ASSUME PullInv, ConeInv, SightInv, EdgeInv, BendInv, PullEnd, Polys # 1, Taut(points),
         NEW t, Stretched(t, corridor.goal, Polys), InOrder(t)
  PROVE  Taut(t)
<1> DEFINE g == corridor.goal
           n == Len(points)
           p == points[n - 1]
           a == apex.pt
<1>1. Pulling /\ (at > Polys \/ Polys = 1)
  BY DEF PullEnd
<1>2. /\ SoundCorridor(corridor) /\ ApexShape /\ AtApex(points) /\ apex.idx <= Last(points) /\ at \in Int
      /\ Polys \in Nat /\ a \in Places /\ g \in Places /\ at \in 1..(Polys + 1)
  <2>1. SoundCorridor(corridor) /\ ApexShape /\ at \in 1..(Polys + 1)
    BY DEF PullInv, FunnelShape
  <2>2. AtApex(points) /\ apex.idx <= Last(points)
    BY <1>1 DEF PullInv, FunnelInv, SightInv
  <2>3. Polys \in Nat /\ a \in Places /\ g \in Places
    BY <2>1, PolysIsNat DEF ApexShape, SoundCorridor
  <2>4. QED
    BY <2>1, <2>2, <2>3
<1>3. at = Polys + 1
  BY <1>1, <1>2
<1>4. n \in Nat /\ n >= 1 /\ points[n].pt \in Spots /\ SamePoint(points[n].pt, a)
  BY <1>1, BeforeApex, StringParts
<1>5. CASE Shut
  <2>1. a = g
    BY <1>5, GoalAim
  <2>2. ASSUME Len(t) > n PROVE FALSE
    <3>1. t \in Strings /\ t[n].pt = points[n].pt
          /\ \A i \in (n + 1)..Len(t) : OnLine(t[i].pt, a, a) /\ ~SamePoint(t[i - 1].pt, t[i].pt)
      BY <2>1 DEF Stretched
    <3>2. Len(t) \in Nat /\ \A i \in 1..Len(t) : t[i] \in Vertices
      BY <3>1, StringParts
    <3>3. n + 1 \in (n + 1)..Len(t) /\ n + 1 \in 1..Len(t) /\ (n + 1) - 1 = n
      BY <1>4, <2>2, <3>2
    <3>4. t[n + 1].pt \in Spots /\ OnLine(t[n + 1].pt, a, a) /\ ~SamePoint(t[n].pt, t[n + 1].pt)
      BY <3>1, <3>2, <3>3 DEF Vertices
    <3>5. SamePoint(t[n + 1].pt, a)
      BY <1>2, <3>4, OnPoint
    <3>6. QED
      BY <1>2, <1>4, <3>1, <3>4, <3>5, SameBoth
  <2>3. Polys \in Int /\ ~(Len(points) >= 2 /\ Len(t) > Len(points))
    BY <1>2, <2>2
  <2> HIDE DEF n, p, a
  <2>4. g \in Places /\ at \in Int /\ a \in Places
    BY <1>2
  <2>5. QED
    BY <1>2, <2>3, <2>4, StretchTaut
<1>6. CASE ~Shut /\ n >= 2
  <2>1. left.pt = g
    BY <1>1, <1>3, <1>6 DEF SightInv
  <2>2. OnPortal(a, Portal(apex.idx)) /\ \E A \in Places : Bent(A)
    BY <1>1, <1>6 DEF BendInv
  <2>3. PICK A \in Places : Bent(A)
    BY <2>2
  <2>4. PICK e : e = Entered(p)
    OBVIOUS
  <2>5. /\ OnLine(p.pt, A, a) /\ ~SamePoint(p.pt, a)
        /\ LeftBlocked(A, a, e, Reach) \/ KeptRight(A)
        /\ RightBlocked(A, a, e, Reach) \/ KeptLeft(A)
    BY <2>3, <2>4 DEF Bent
  <2>6. Reach \in Int /\ Reach <= Polys /\ Reach < at
    BY <1>1, <1>6, ReachParts
  <2>7. \A to \in (apex.idx + 1)..Polys : ~(at <= to)
    BY <1>2, <1>3
  <2>8. ~AwaitsLeft(A, a, apex.idx, at) /\ ~AwaitsRight(A, a, apex.idx, at)
    BY <2>7 DEF AwaitsLeft, AwaitsRight
  <2>9. RightBlockedTo(A, e, Polys) \/ Cross(A, a, g) >= 0
    BY <2>1, <2>5, <2>6, <2>8 DEF RightBlockedTo, KeptLeft, OpensLeft
  <2>10. LeftBlockedTo(A, e, Polys) \/ Cross(A, a, g) <= 0
    BY <2>1, <2>5, <2>6, <2>8 DEF LeftBlockedTo, KeptRight, OpensRight
  <2>11. \A k \in (apex.idx + 1)..(at - 1) : OnPortal(a, Portal(k)) => Touches(k)
    BY <1>1, <2>2, TouchesOn
  <2> HIDE DEF p
  <2>12. /\ OnLine(p.pt, A, a) /\ ~SamePoint(p.pt, a)
         /\ RightBlockedTo(A, Entered(p), Polys) \/ Cross(A, a, g) >= 0
         /\ LeftBlockedTo(A, Entered(p), Polys) \/ Cross(A, a, g) <= 0
    BY <2>4, <2>5, <2>9, <2>10
  <2>13. Polys \in Int
    BY <1>2
  <2>14. QED
    BY <1>2, <2>11, <2>12, <2>13, StretchTaut DEF p
<1>7. CASE ~(n >= 2)
  <2>1. Polys \in Int
    BY <1>2
  <2>2. QED
    BY <1>2, <1>7, <2>1, StretchTaut
<1>8. QED
  BY <1>5, <1>6, <1>7

\* The string is tight all along.
TautInv == Pulling \/ Complete => Taut(points)

\* A string that is left alone, or is as good, stays tight.
LEMMA TautStays ==
  ASSUME UNCHANGED corridor, NEW t, Taut(t), points' = t
  PROVE  TautInv'
<1>1. \A k : Portal(k)' = Portal(k)
  BY PortalsStay
<1>2. Polys' = Polys
  BY PolysStay
<1>3. ASSUME NEW i, TautAt(t, i) PROVE TautAt(t, i)'
  <2>1. /\ Entered(t[i - 1])' = Entered(t[i - 1])
        /\ Entered(t[i + 1])' = Entered(t[i + 1])
    BY <1>2 DEF Entered
  <2>2. QED
    BY <1>1, <1>2, <1>3, <2>1 DEF TautAt
<1>4. Taut(t)'
  BY <1>3 DEF Taut
<1>5. Taut(points)'
  BY <1>4 DEF Taut, TautAt, Entered
<1>6. QED
  BY <1>5 DEF TautInv

\* Its points stay in order.
LEMMA OrderNext ==
  ASSUME PullInv', UNCHANGED corridor, Pulling' \/ Complete', NEW t, points' = t
  PROVE  InOrder(t)
<1>1. InOrder(points)'
  BY DEF PullInv, FunnelInv, AtApex, StringInv, GoodString, Complete
<1>2. \A v : Entered(v)' = Entered(v)
  BY EnteredStays
<1>3. \A i \in 1..Len(t) : Entered(t[i])' = Entered(t[i])
  BY <1>2
<1>4. QED
  BY <1>1, <1>3 DEF InOrder, Entered

\* The invariant is inductive, relative to those before it.
LEMMA TautNext ==
  PathIInv /\ ConeInv /\ SightInv /\ EdgeInv /\ MetInv /\ BendInv /\ TautInv /\ [Next]_vars => TautInv'
<1> SUFFICES ASSUME PathIInv, ConeInv, SightInv, EdgeInv, MetInv, BendInv, TautInv, [Next]_vars PROVE TautInv'
  OBVIOUS
<1>1. PullInv /\ PullInv'
  BY PathNext DEF PathIInv
<1>2. CASE UNCHANGED pullVars
  <2>1. UNCHANGED <<corridor, points, pulled>>
    BY <1>2 DEF pullVars
  <2>2. CASE Pulling \/ Complete
    <3>1. PICK t : t = points
      OBVIOUS
    <3>2. Taut(t) /\ points' = t
      BY <2>1, <2>2, <3>1 DEF TautInv
    <3>3. QED
      BY <2>1, <3>2, TautStays
  <2>3. CASE ~(Pulling \/ Complete)
    BY <2>1, <2>3 DEF TautInv, Pulling, Complete, Pulled
  <2>4. QED
    BY <2>2, <2>3
<1>3. CASE pulled'.code = "none" \/ (pulled'.code = "success" /\ "partial" \in pulled'.flags)
  BY <1>3 DEF TautInv, Pulling, Complete, Pulled
<1>4. ASSUME NEW c \in Corridors, NEW n \in Sizes, NEW all \in BOOLEAN, NEW gone \in 0..PolyCount(c),
             PullBegin(c, n, all, gone)
      PROVE  TautInv'
  <2>1. points' = <<>> \/ points' = <<Vertex(c.start, "start", 1)>>
    BY <1>4 DEF PullBegin
  <2>2. Len(points') = 0 \/ Len(points') = 1
    BY <2>1
  <2>3. 2..(0 - 1) = {} /\ 2..(1 - 1) = {}
    OBVIOUS
  <2>4. 2..(Len(points') - 1) = {}
    BY <2>2, <2>3
  <2>5. QED
    BY <2>4 DEF TautInv, Taut
<1>5. CASE PullSkip
  <2>1. Pulling /\ UNCHANGED <<corridor, points>>
    BY <1>5 DEF PullSkip
  <2>2. PICK t : t = points
    OBVIOUS
  <2>3. Taut(t) /\ points' = t
    BY <2>1, <2>2 DEF TautInv
  <2>4. QED
    BY <2>1, <2>3, TautStays
<1>6. CASE PullPortal
  <2>1. Pulling /\ UNCHANGED <<corridor, lost, crossings, size>>
    BY <1>6 DEF PullPortal
  <2>2. Met(points) /\ Taut(points) /\ apex.idx <= Last(points)
    BY <2>1 DEF MetInv, TautInv, SightInv
  <2>3. CASE GoesAhead
    <3>1. points' = points
      BY <2>3 DEF GoesAhead
    <3>2. PICK t : t = points
      OBVIOUS
    <3>3. QED
      BY <2>1, <2>2, <3>1, <3>2, TautStays
  <2>4. ASSUME NEW side, ~Shut, Turn(side), TurnSide(side), SideShape(side), FreshSide(side),
               Last(points) <= side.idx, Aim(side.pt, side.idx)
        PROVE  TautInv'
    <3> SUFFICES ASSUME Pulling' \/ Complete' PROVE TautInv'
      BY DEF TautInv
    <3>1. \E t : points' = t /\ Stretched(t, side.pt, side.idx)
      BY <1>1, <2>1, <2>2, <2>4, TurnGoes
    <3>2. PICK t : points' = t /\ Stretched(t, side.pt, side.idx)
      BY <3>1
    <3>3. InOrder(t)
      BY <1>1, <2>1, <3>2, OrderNext
    <3>4. Taut(t)
      BY <1>1, <1>6, <2>2, <2>4, <3>2, <3>3, TurnedTaut
    <3>5. QED
      BY <2>1, <3>2, <3>4, TautStays
  <2>5. QED
    BY <1>1, <1>6, <2>3, <2>4, TurnsOrGoes DEF TurnSide
<1>7. CASE PullEnd
  <2> SUFFICES ASSUME Pulling' \/ Complete' PROVE TautInv'
    BY DEF TautInv
  <2>1. Pulling /\ UNCHANGED corridor /\ pulled'.code = "success"
    BY <1>7 DEF PullEnd, Status
  <2>2. CASE Polys = 1
    <3> DEFINE v == Vertex(corridor.goal, "end", 0)
    <3>1. points' = points \/ points' = AppendVertex(points, v)
      BY <1>7, <2>2 DEF PullEnd
    <3>2. points \in Strings /\ Len(points) = 1
      BY <1>1, <2>1, <2>2, BeforeApex DEF BendInv
    <3>3. v \in Vertices
      <4>1. corridor.goal \in Spots
        BY <1>1, PlaceIsSpot DEF PullInv, FunnelShape, SoundCorridor
      <4>2. QED
        BY <4>1 DEF Vertices, Vertex, Flags
    <3> HIDE DEF v
    <3>4. Len(AppendVertex(points, v)) \in {1, 2}
      <4>1. \/ Len(AppendVertex(points, v)) = Len(points)
            \/ Len(AppendVertex(points, v)) = Len(points) + 1
        BY <3>2, <3>3, AppendVertexEither
      <4>2. QED
        BY <3>2, <4>1
    <3>5. Len(points') \in {1, 2}
      BY <3>1, <3>2, <3>4
    <3>6. 2..(1 - 1) = {} /\ 2..(2 - 1) = {}
      OBVIOUS
    <3>7. 2..(Len(points') - 1) = {}
      BY <3>5, <3>6
    <3>8. QED
      BY <3>7 DEF TautInv, Taut
  <2>3. CASE Polys # 1
    <3>1. Complete' /\ Met(points) /\ Taut(points)
      BY <2>1 DEF Pulling, MetInv, TautInv
    <3>2. \E t : points' = t /\ Stretched(t, corridor.goal, Polys)
      BY <1>1, <1>7, <2>3, <3>1, EndGoes
    <3>3. PICK t : points' = t /\ Stretched(t, corridor.goal, Polys)
      BY <3>2
    <3>4. InOrder(t)
      BY <1>1, <2>1, <3>1, <3>3, OrderNext
    <3>5. Taut(t)
      BY <1>1, <1>7, <2>3, <3>1, <3>3, <3>4, EndTaut
    <3>6. QED
      BY <2>1, <3>3, <3>5, TautStays
  <2>4. QED
    BY <2>2, <2>3
<1>8. QED
  BY <1>2, <1>3, <1>4, <1>5, <1>6, <1>7, PathSteps

\* The string is tight up to the apex, and in the end.
LEMMA TautInvariant == Spec => []TautInv
<1>1. Init => TautInv
  BY DEF Init, TautInv, Pulling, Complete, Pulled, Status
<1>2. QED
  BY <1>1, TautNext, PathInvariant, ConeInvariant, SightInvariant, EdgeInvariant, MetInvariant, BendInvariant,
     PTL DEF Spec
-----------------------------------------------------------------------------
(* Theorems                                                                *)

\* The array of points is never overrun by more than the one point that is
\* added where the mesh has lost a polygon, and the sides of the funnel name
\* polygons of the path that lie ahead of the apex.
THEOREM PathTypeCorrect == Spec => []TypeOK
<1>1. PathIInv => TypeOK
  <2> SUFFICES ASSUME PathIInv PROVE TypeOK
    OBVIOUS
  <2>1. FunnelShape /\ PulledShape /\ RequestInv
    BY DEF PathIInv, PullInv
  <2>2. apex.idx \in 1..Polys /\ size \in Sizes \cup {1}
    BY <2>1 DEF FunnelShape, ApexShape
  <2>3. \A side \in {left, right} :
          side.idx \in apex.idx..Polys /\ side.ref \in 0..Polys /\ side.jump \in BOOLEAN
    <3>1. left \in Sides /\ right \in Sides
      BY <2>1 DEF FunnelShape, SideShape
    <3>2. left.jump \in BOOLEAN /\ right.jump \in BOOLEAN
      BY <3>1, Zenon DEF Sides
    <3>3. QED
      BY <2>1, <3>2 DEF FunnelShape, SideShape
  <2>4. \A k \in DOMAIN points : points[k].flag \in Flags /\ points[k].ref \in 0..Polys
    <3>1. points \in Seq(Vertices) /\ DOMAIN points = 1..Len(points)
      BY <2>1 DEF PulledShape
    <3>2. \A k \in 1..Len(points) : points[k] \in Vertices
      BY <3>1
    <3>3. QED
      BY <2>1, <3>1, <3>2 DEF PulledShape, Vertices
  <2>5. QED
    BY <2>1, <2>2, <2>3, <2>4 DEF TypeOK, FunnelShape, PulledShape, RequestInv
<1>2. QED
  BY <1>1, PathInvariant, PTL

\* Whatever the corridor, the crossings asked for and the room in the array,
\* the points name the polygons of the path in their order, and are marked as
\* the end and as off-mesh connections where they are.
THEOREM PathPointsInOrder == Spec => []PointsInOrder
<1>1. PathIInv => PointsInOrder
  <2> SUFFICES ASSUME PathIInv, pulled.code = "success" PROVE PointsInOrder
    BY DEF PointsInOrder
  <2>1. SoundCorridor(corridor) /\ StringInv /\ Polys \in Nat
    BY PolysIsNat DEF PathIInv, PullInv, FunnelShape
  <2>2. CASE "partial" \in pulled.flags
    <3>1. CutString(points)
      BY <2>1, <2>2 DEF StringInv
    <3>2. QED
      BY <2>2, <3>1 DEF CutString, PointsInOrder
  <2>3. CASE "partial" \notin pulled.flags
    <3>1. GoodString(points)
      BY <2>1, <2>3 DEF StringInv
    <3>2. points \in Strings /\ Len(points) \in 1..Len(points)
      BY <3>1, StringParts DEF GoodString
    <3>3. ASSUME NEW i \in 1..Len(points), points[i].ref = 0 PROVE i = Len(points)
      <4>1. Entered(points[i]) = Polys + 1
        BY <3>3 DEF Entered
      <4>2. Entered(points[Len(points)]) \in 1..(Polys + 1)
        BY <2>1, <3>1, <3>2, EnteredIsNat DEF GoodString, GoodVertex
      <4>3. i < Len(points) => Entered(points[i]) < Entered(points[Len(points)])
        BY <3>1, <3>2 DEF GoodString, InOrder
      <4>4. QED
        BY <2>1, <3>2, <4>1, <4>2, <4>3
    <3>4. QED
      BY <3>1, <3>3 DEF GoodString, GoodVertex, InOrder, PointsInOrder
  <2>4. QED
    BY <2>2, <2>3
<1>2. QED
  BY <1>1, PathInvariant, PTL

\* As long as the mesh is whole the points follow the path on its portals,
\* crossings and corners alike: for any corridor of convex polygons, with
\* portals cut at the borders of tiles, on one edge or on the line of the one
\* before, and with off-mesh connections, the last polygon among them; and for
\* any room in the array.
THEOREM PathFollowsPath == Spec => []PointsFollowPath
<1>1. PathIInv /\ PlacedInv /\ PointsInOrder => PointsFollowPath
  <2> SUFFICES ASSUME PlacedInv, PointsInOrder, "partial" \notin pulled.flags, pulled.code = "success"
               PROVE  PointsOnPortals
    BY DEF PointsFollowPath, PointsOnPortals
  <2>1. Placed(points)
    BY DEF PlacedInv
  <2>2. QED
    BY <2>1 DEF Placed, IsPlaced, PointsOnPortals
<1>2. QED
  BY <1>1, PathPointsInOrder, PathInvariant, ConeInvariant, PTL

\* A string that is whole goes from the start to the goal.
THEOREM PathReachesGoal ==
  Spec => [](Complete => /\ points # <<>>
                         /\ SamePoint(points[1].pt, corridor.start)
                         /\ SamePoint(LastPoint(points).pt, corridor.goal))
<1>1. PathIInv => (Complete => /\ points # <<>>
                               /\ SamePoint(points[1].pt, corridor.start)
                               /\ SamePoint(LastPoint(points).pt, corridor.goal))
  <2> SUFFICES ASSUME PathIInv, Complete
               PROVE  /\ points # <<>>
                      /\ SamePoint(points[1].pt, corridor.start)
                      /\ SamePoint(LastPoint(points).pt, corridor.goal)
    OBVIOUS
  <2>1. GoodString(points) /\ LastPoint(points).flag = "end"
    BY DEF PathIInv, PullInv, StringInv, Complete
  <2>2. LastPoint(points) = points[Len(points)] /\ Len(points) \in 1..Len(points)
        /\ points # <<>>
    BY <2>1, StringParts DEF GoodString, Strings
  <2>3. QED
    BY <2>1, <2>2 DEF GoodString, GoodVertex
<1>2. QED
  BY <1>1, PathInvariant, PTL

\* What CalculatePathEx returns is what is in its points, for any corridor and
\* anything the search for it may have come to.
THEOREM PathResultIsHonest == Spec => ResultIsHonest
<1> DEFINE Honest ==
      caller = "calculate" /\ caller' = "none" =>
       LET s == result'.status IN
       /\ s.failed <=> result'.length = 0
       /\ s.failed <=> result'.step # "none"
       /\ ~s.failed => lastStatus.flags \subseteq s.flags
       /\ ~s.failed /\ s.flags \cap {"partial", "small"} = {} =>
            reached /\ LastPoint(points).flag = "end"
<1>1. PathIInv /\ [Next]_vars => [Honest]_vars
  <2> SUFFICES ASSUME PathIInv, Next, caller = "calculate", caller' = "none" PROVE Honest
    BY DEF vars, requestVars
  <2>1. PointPath
    <3>1. result = NoResult /\ pulled.code # "none"
      BY DEF PathIInv, RequestInv
    <3>2. ~Call /\ ~Returned
      BY <3>1 DEF Call, NoTile, NoPoly, SamePoly, NoCorridor, Calling, Returned
    <3>3. ~Pull /\ ~SlicedPath
      BY DEF Pull, requestVars, SlicedPath
    <3>4. QED
      BY <3>2, <3>3 DEF Next
  <2>2. /\ type \in {{"normal"}, {"incomplete"}} /\ (type = {"normal"} => reached)
        /\ lastStatus.flags \subseteq {"partial", "nodes", "small"}
    BY DEF PathIInv, RequestInv
  <2>3. ASSUME NEW flags, NEW step, NEW t, step # "none", ReturnError(t, flags, step) PROVE Honest
    <3>1. result'.length = 0 /\ result'.step = step /\ result'.status.failed
      BY <2>3 DEF ReturnError, Return, Failed, Result
    <3>2. QED
      BY <2>3, <3>1
  <2>4. CASE Len(points) >= 2 /\ pulled.code = "success" /\ Return(type, Fine(
               (pulled.flags \cup (lastStatus.flags \ {"param"}))
                 \cup IF "incomplete" \in type THEN {"partial"} ELSE {}), "none", Len(points))
    <3>1. PICK flags : flags = (pulled.flags \cup (lastStatus.flags \ {"param"}))
                                 \cup IF "incomplete" \in type THEN {"partial"} ELSE {}
      OBVIOUS
    <3>2. Return(type, Fine(flags), "none", Len(points))
      BY <2>4, <3>1
    <3>3. Len(points) \in Nat /\ Len(points) # 0 /\ "nopath" \notin type
      BY <2>2, <2>4 DEF PathIInv, PullInv, PulledShape
    <3> DEFINE partial == IF "incomplete" \in type THEN {"partial"} ELSE {}
    <3>4. result' = Result("calculate", Fine(flags \cup partial), "none", Len(points))
      <4>1. "incomplete" \in type =>
              [Fine(flags) EXCEPT !.flags = @ \cup {"partial"}] = Fine(flags \cup {"partial"})
        BY FineWith
      <4>2. ~Fine(flags).failed
        BY DEF Fine
      <4>3. flags \cup {} = flags /\ ~Fine(flags \cup {"partial"}).failed
        BY DEF Fine
      <4>4. CASE "incomplete" \in type
        BY <3>2, <3>3, <4>1, <4>3, <4>4 DEF Return
      <4>5. CASE "incomplete" \notin type
        <5>1. result' = Result("calculate", Fine(flags), "none", Len(points))
          BY <3>2, <3>3, <4>2, <4>5 DEF Return
        <5>2. QED
          BY <4>3, <4>5, <5>1
      <4>6. QED
        BY <4>4, <4>5
    <3>5. /\ ~result'.status.failed /\ result'.status.flags = flags \cup partial
          /\ result'.length = Len(points) /\ result'.step = "none"
      BY <3>4 DEF Result, Fine
    <3>6. lastStatus.flags \subseteq flags \cup partial
      BY <2>2, <3>1
    <3>7. ASSUME (flags \cup partial) \cap {"partial", "small"} = {}
          PROVE  reached /\ LastPoint(points).flag = "end"
      <4>1. "incomplete" \notin type
        BY <3>7
      <4>2. reached
        BY <2>2, <4>1
      <4>3. pulled.flags \cap {"partial", "small"} = {}
        BY <3>1, <3>7
      <4>4. QED
        BY <2>4, <4>2, <4>3 DEF PathIInv, PullInv, StringInv
    <3> HIDE DEF partial
    <3>8. QED
      BY <3>3, <3>5, <3>6, <3>7
  <2>5. QED
    <3> HIDE DEF Honest
    <3>1. ReturnError({"nopath"}, pulled.flags, "straight") => Honest
      <4>1. PICK flags : flags = pulled.flags
        OBVIOUS
      <4>2. ReturnError({"nopath"}, flags, "straight") => Honest
        BY <2>3
      <4>3. QED
        BY <4>1, <4>2
    <3>2. ReturnError({"nopath"}, {"param"}, "straight") => Honest
      BY <2>3
    <3>3. QED
      BY <2>1, <2>4, <3>1, <3>2, PointPathParts
<1>2. [][Honest]_vars => ResultIsHonest
  BY DEF ResultIsHonest
<1>3. QED
  BY <1>1, <1>2, PathInvariant, PTL DEF Spec

\* The string is pulled tight: it goes from the start to the goal through every
\* portal, and wherever it bends it meets a portal that leaves it no room on the
\* inner side, with portals that are seen edge-on, closed into a point or met
\* several at one place.
THEOREM PathStringIsTaut == Spec => []StringIsTaut
<1>1. PathIInv /\ MetInv /\ TautInv => StringIsTaut
  <2> SUFFICES ASSUME PathIInv, MetInv, TautInv, Complete PROVE StringIsTaut
    BY DEF StringIsTaut
  <2>1. /\ SoundCorridor(corridor) /\ Polys \in Nat /\ StringInv
        /\ pulled.code = "success" /\ pulled.flags = {}
    BY PolysIsNat DEF PathIInv, PullInv, FunnelShape, Complete
  <2>2. GoodString(points) /\ LastPoint(points).flag = "end"
    BY <2>1 DEF StringInv
  <2>3. /\ SamePoint(points[1].pt, corridor.start) /\ Len(points) \in Nat /\ Len(points) \in 1..Len(points)
        /\ LastPoint(points) = points[Len(points)] /\ \A i \in 1..Len(points) : points[i] \in Vertices
    BY <2>2, StringParts DEF GoodString
  <2>4. SamePoint(LastPoint(points).pt, corridor.goal)
    BY <2>2, <2>3 DEF GoodString, GoodVertex
  <2>5. \A i \in 1..(Len(points) - 1), k \in 1..(Polys - 1) :
          k \in PortalsBetween(i, i + 1) => Meets(points[i].pt, points[i + 1].pt, Portal(k))
    BY DEF MetInv, Met, PortalsBetween
  <2>6. ASSUME NEW i \in 2..(Len(points) - 1) PROVE ~IsSlack(i, 1) /\ ~IsSlack(i, -1)
    <3> DEFINE p == points[i - 1].pt
               q == points[i].pt
               y == points[i + 1].pt
    <3>1. TautAt(points, i)
      BY <2>6 DEF TautInv, Taut
    <3>2. \A v \in Vertices : v.pt \in Spots
      BY DEF Vertices
    <3>3. p \in Spots /\ q \in Spots /\ y \in Spots
      <4>1. i - 1 \in 1..Len(points) /\ i \in 1..Len(points) /\ i + 1 \in 1..Len(points)
        BY <2>3
      <4>2. QED
        BY <2>3, <3>2, <4>1
    <3>4. /\ Area(p, q, y) \in Int
          /\ \A k \in 1..(Polys - 1) : /\ Portal(k).l \in Spots /\ Portal(k).r \in Spots
                                       /\ Area(p, q, Portal(k).l) \in Int /\ Area(p, q, Portal(k).r) \in Int
      <4>1. \A k \in 1..(Polys - 1) : k \in 1..Polys
        BY <2>1
      <4>2. \A k \in 1..(Polys - 1) : Portal(k) \in [l : Places, r : Places]
        BY <2>1, <4>1, PortalPlaces
      <4>3. \A k \in 1..(Polys - 1) : Portal(k).l \in Places /\ Portal(k).r \in Places
        BY <4>2
      <4>4. \A k \in 1..(Polys - 1) : Portal(k).l \in Spots /\ Portal(k).r \in Spots
        BY <4>3, PlaceIsSpot
      <4> HIDE DEF p, q, y
      <4>5. QED
        BY <3>3, <4>4, AreaInt
    <3> DEFINE Blocked(side) ==
                 \E k \in PortalsBetween(i - 1, i + 1) :
                   /\ OnPortal(q, Portal(k))
                   /\ ~(side * Area(p, q, Portal(k).l) > 0) /\ ~(side * Area(p, q, Portal(k).r) > 0)
    <3>5. \A z \in Int : 1 * z = z /\ (-1) * z = -z /\ -1 * z = -z
      OBVIOUS
    <3>6. Area(p, q, y) > 0 => Blocked(1)
      <4> SUFFICES ASSUME Area(p, q, y) > 0 PROVE Blocked(1)
        OBVIOUS
      <4>1. PICK k \in 1..(Polys - 1) : /\ Entered(points[i - 1]) <= k /\ k < Entered(points[i + 1])
                                        /\ OnPortal(q, Portal(k))
                                        /\ Area(p, q, Portal(k).l) <= 0 /\ Area(p, q, Portal(k).r) <= 0
        BY <3>1 DEF TautAt
      <4>2. ~(1 * Area(p, q, Portal(k).l) > 0) /\ ~(1 * Area(p, q, Portal(k).r) > 0)
        BY <3>4, <4>1
      <4>3. k \in PortalsBetween(i - 1, i + 1)
        BY <4>1 DEF PortalsBetween
      <4>4. QED
        BY <4>1, <4>2, <4>3
    <3>7. Area(p, q, y) < 0 => Blocked(-1)
      <4> SUFFICES ASSUME Area(p, q, y) < 0 PROVE Blocked(-1)
        OBVIOUS
      <4>1. PICK k \in 1..(Polys - 1) : /\ Entered(points[i - 1]) <= k /\ k < Entered(points[i + 1])
                                        /\ OnPortal(q, Portal(k))
                                        /\ Area(p, q, Portal(k).l) >= 0 /\ Area(p, q, Portal(k).r) >= 0
        BY <3>1 DEF TautAt
      <4>2. ~((-1) * Area(p, q, Portal(k).l) > 0) /\ ~((-1) * Area(p, q, Portal(k).r) > 0)
        BY <3>4, <4>1
      <4>3. k \in PortalsBetween(i - 1, i + 1)
        BY <4>1 DEF PortalsBetween
      <4>4. QED
        BY <4>1, <4>2, <4>3
    <3>8. /\ 1 * Area(p, q, y) > 0 => Area(p, q, y) > 0
          /\ (-1) * Area(p, q, y) > 0 => Area(p, q, y) < 0
      BY <3>4
    <3>9. ASSUME NEW side, IsSlack(i, side) PROVE side * Area(p, q, y) > 0 /\ ~Blocked(side)
      BY <3>9 DEF IsSlack
    <3> HIDE DEF Blocked, p, q, y
    <3>10. QED
      BY <3>6, <3>7, <3>8, <3>9
  <2>7. \A i \in 2..(Len(points) - 1), side \in {1, -1} : ~IsSlack(i, side)
    BY <2>6
  <2>8. QED
    BY <2>3, <2>4, <2>5, <2>7 DEF StringIsTaut
<1>2. QED
  BY <1>1, PathInvariant, MetInvariant, TautInvariant, PTL
=============================================================================
