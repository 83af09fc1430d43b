------------------------------- MODULE Lemmas -------------------------------
(***************************************************************************)
(* What the proofs of several components rest on.                          *)
(*                                                                         *)
(* Lists and trees in arrays: walking from an element to the next until    *)
(* there is none, as the free list and the hash chains of dtNavMesh do,    *)
(* and the parents of the nodes of a search; what follows from the fact    *)
(* that nothing leads in a circle, for any number of elements.             *)
(*                                                                         *)
(* The plane: on which side of a line a place is as seen from another, and *)
(* what the funnel of findStraightPath makes of it.                        *)
(***************************************************************************)
EXTENDS Plane, FiniteSetTheorems, WellFoundedInduction, TLAPS

-----------------------------------------------------------------------------
(* Walks                                                                   *)

\* A set of numbers that is not empty has a least one.
LEMMA LeastNumber ==
  ASSUME NEW T \in SUBSET Nat, T # {}
  PROVE  \E x \in T : \A y \in T : x <= y
<1> DEFINE R == OpToRel(<, Nat)
<1>1. \A x, y \in Nat : <<x, y>> \in R <=> x < y
  BY DEF OpToRel
<1>2. IsWellFoundedOn(R, Nat)
  BY NatLessThanWellFounded
<1> HIDE DEF R
<1>3. PICK x \in T : \A y \in T : ~(<<y, x>> \in R)
  BY <1>2, WFMin
<1>4. \A y \in T : x \in Nat /\ y \in Nat /\ ~(y < x)
  BY <1>1, <1>3
<1>5. \A y \in T : x <= y
  BY <1>4
<1>6. QED
  BY <1>5

\* A step on a set can be taken over and over.
IsIteration(f, S, step, i, n) ==
  f \in [0..n -> S] /\ f[0] = i /\ \A k \in 1..n : f[k] = step[f[k-1]]

LEMMA IterationExists ==
  ASSUME NEW S, NEW step \in [S -> S], NEW i \in S, NEW n \in Nat
  PROVE  \E f : IsIteration(f, S, step, i, n)
<1> DEFINE Iterates(m) == \E f \in [0..m -> S] : f[0] = i /\ \A k \in 1..m : f[k] = step[f[k-1]]
<1> DEFINE T == {m \in Nat : ~Iterates(m)}
<1>1. Iterates(0)
  <2> DEFINE f == [k \in 0..0 |-> i]
  <2>1. f \in [0..0 -> S] /\ f[0] = i /\ \A k \in 1..0 : f[k] = step[f[k-1]]
    OBVIOUS
  <2>2. QED
    BY <2>1
<1>2. ASSUME NEW m \in Nat, Iterates(m) PROVE Iterates(m + 1)
  <2>1. PICK f \in [0..m -> S] : f[0] = i /\ \A k \in 1..m : f[k] = step[f[k-1]]
    BY <1>2
  <2> DEFINE g == [k \in 0..(m+1) |-> IF k = m + 1 THEN step[f[m]] ELSE f[k]]
  <2>2. g \in [0..(m+1) -> S]
    BY <2>1
  <2>3. g[0] = i
    BY <2>1
  <2>4. \A k \in 1..m : g[k] = step[g[k-1]]
    BY <2>1
  <2>5. g[m+1] = step[g[m]]
    OBVIOUS
  <2>6. \A k \in 1..(m+1) : g[k] = step[g[k-1]]
    <3> HIDE DEF g
    <3> SUFFICES ASSUME NEW k \in 1..(m+1) PROVE g[k] = step[g[k-1]]
      OBVIOUS
    <3>1. CASE k = m + 1
      BY <2>5, <3>1
    <3>2. CASE k # m + 1
      BY <2>4, <3>2
    <3>3. QED
      BY <3>1, <3>2
  <2> HIDE DEF g
  <2>7. QED
    BY <2>2, <2>3, <2>6
<1> HIDE DEF Iterates
<1>3. T = {}
  <2> SUFFICES ASSUME T # {} PROVE FALSE
    OBVIOUS
  <2>1. PICK m \in T : \A y \in T : m <= y
    BY LeastNumber
  <2>2. m # 0 /\ m \in Nat /\ ~Iterates(m)
    BY <1>1, <2>1
  <2>3. m - 1 \in Nat /\ m - 1 \notin T
    BY <2>1, <2>2
  <2>4. Iterates(m)
    BY <1>2, <2>2, <2>3
  <2>5. QED
    BY <2>2, <2>4
<1>4. Iterates(n)
  BY <1>3
<1>5. QED
  BY <1>4 DEF Iterates, IsIteration

\* The first element, the next one, and so on, each place after the end nil.
WalkFrom(head, nxt, nil, N) ==
  LET nth[k \in 0..N] ==
        IF k = 0 THEN head
        ELSE IF nth[k-1] = nil THEN nil
        ELSE nxt[nth[k-1]]
  IN  nth

LEMMA WalkSteps ==
  ASSUME NEW N \in Nat, NEW E, NEW nil, NEW nxt, NEW head \in E \cup {nil},
         \A j \in E : nxt[j] \in E \cup {nil}
  PROVE  /\ WalkFrom(head, nxt, nil, N) \in [0..N -> E \cup {nil}]
         /\ WalkFrom(head, nxt, nil, N)[0] = head
         /\ \A k \in 1..N :
              WalkFrom(head, nxt, nil, N)[k] =
                IF WalkFrom(head, nxt, nil, N)[k-1] = nil THEN nil
                ELSE nxt[WalkFrom(head, nxt, nil, N)[k-1]]
<1> DEFINE W == WalkFrom(head, nxt, nil, N)
<1> DEFINE S == E \cup {nil}
<1> DEFINE step == [j \in S |-> IF j = nil THEN nil ELSE nxt[j]]
<1> DEFINE Def(f) == [k \in 0..N |->
        IF k = 0 THEN head
        ELSE IF f[k-1] = nil THEN nil
        ELSE nxt[f[k-1]]]
<1>1. N \in Nat
  OBVIOUS
<1>2. step \in [S -> S]
  OBVIOUS
<1>3. head \in S
  OBVIOUS
<1>4. PICK f \in [0..N -> S] : f[0] = head /\ \A k \in 1..N : f[k] = step[f[k-1]]
  <2>1. \E f : IsIteration(f, S, step, head, N)
    <3> HIDE DEF step, S
    <3>1. QED
      BY <1>1, <1>2, <1>3, IterationExists
  <2> HIDE DEF step, S
  <2>2. QED
    BY <2>1 DEF IsIteration
<1>5. \A k \in 1..N : f[k] = IF f[k-1] = nil THEN nil ELSE nxt[f[k-1]]
  <2> SUFFICES ASSUME NEW k \in 1..N
               PROVE  f[k] = IF f[k-1] = nil THEN nil ELSE nxt[f[k-1]]
    OBVIOUS
  <2>1. f[k-1] \in S
    BY <1>1, <1>4
  <2>2. QED
    BY <1>4, <2>1
<1>6. f = Def(f)
  <2>1. ASSUME NEW k \in 0..N
        PROVE  f[k] = IF k = 0 THEN head ELSE IF f[k-1] = nil THEN nil ELSE nxt[f[k-1]]
    <3> HIDE DEF step
    <3>1. CASE k = 0
      BY <1>4, <3>1
    <3>2. CASE k # 0
      <4>1. k \in 1..N
        BY <1>1, <3>2
      <4>2. QED
        BY <1>5, <3>2, <4>1
    <3>3. QED
      BY <3>1, <3>2
  <2>2. f = [k \in 0..N |-> f[k]]
    BY <1>4
  <2>3. QED
    BY <2>1, <2>2
<1>7. W = CHOOSE nth : nth = Def(nth)
  BY DEF WalkFrom
<1>8. W = Def(W)
  <2> HIDE DEF Def
  <2>1. QED
    BY <1>6, <1>7
<1>9. ASSUME NEW g, g = Def(g)
      PROVE  g[0] = head /\ \A k \in 1..N : g[k] = IF g[k-1] = nil THEN nil ELSE nxt[g[k-1]]
  <2>1. \A k \in 0..N :
          Def(g)[k] = IF k = 0 THEN head ELSE IF g[k-1] = nil THEN nil ELSE nxt[g[k-1]]
    OBVIOUS
  <2>2. \A k \in 0..N : g[k] = Def(g)[k]
    BY <1>9
  <2> HIDE DEF Def
  <2>3. QED
    BY <1>1, <2>1, <2>2
<1>10. W = f
  <2> DEFINE T == {k \in 0..N : W[k] # f[k]}
  <2>1. W[0] = head /\ \A k \in 1..N :
          W[k] = IF W[k-1] = nil THEN nil ELSE nxt[W[k-1]]
    BY <1>8, <1>9
  <2>2. ASSUME T # {} PROVE FALSE
    <3>1. T \in SUBSET Nat
      BY <1>1
    <3>2. PICK k \in T : \A m \in T : k <= m
      <4> HIDE DEF T
      <4>1. QED
        BY <2>2, <3>1, LeastNumber
    <3>3. k # 0
      <4> HIDE DEF step, Def
      <4>1. f[0] = W[0]
        BY <1>4, <2>1
      <4>2. QED
        BY <3>2, <4>1
    <3>4. k \in 1..N /\ k - 1 \in 0..N /\ k - 1 \notin T
      <4>1. k \in 0..N
        BY <3>2
      <4>2. k \in 1..N /\ k - 1 \in 0..N /\ ~(k <= k - 1)
        BY <1>1, <3>3, <4>1
      <4> HIDE DEF T
      <4>3. QED
        BY <3>2, <4>2
    <3>5. W[k-1] = f[k-1]
      BY <3>4
    <3>6. QED
      BY <1>5, <2>1, <3>2, <3>4, <3>5
  <2>3. \A k \in 0..N : W[k] = f[k]
    BY <2>2
  <2>4. DOMAIN W = 0..N /\ W = [k \in 0..N |-> W[k]]
    BY <1>8
  <2>5. f = [k \in 0..N |-> f[k]]
    BY <1>4
  <2>6. QED
    BY <2>3, <2>4, <2>5
<1>11. QED
  BY <1>4, <1>5, <1>10

\* The numbers to n, and those below n, are n.
LEMMA CountTo ==
  ASSUME NEW n \in Nat
  PROVE  /\ IsFiniteSet(1..n) /\ Cardinality(1..n) = n
         /\ IsFiniteSet(0..(n-1)) /\ Cardinality(0..(n-1)) = n
<1>1. 1 \in Int /\ 0 \in Int /\ n \in Int /\ n - 1 \in Int /\ n - 1 + 1 = n /\ (n - 1) - 0 + 1 = n
  OBVIOUS
<1>2. (1 > n => n = 0) /\ (0 > n - 1 => n = 0)
  OBVIOUS
<1>3. QED
  BY <1>1, <1>2, FS_Interval

\* There are fewer elements in S than numbers from 0 to N.
Collides(f, N) == \E x, y \in 0..N : x # y /\ f[x] = f[y]

LEMMA MoreThanPlaces ==
  ASSUME NEW N \in Nat, NEW S, IsFiniteSet(S), Cardinality(S) <= N, NEW f \in [0..N -> S]
  PROVE  Collides(f, N)
<1>1. IsFiniteSet(0..N) /\ Cardinality(0..N) = N + 1
  <2>1. 0 \in Int /\ N \in Int /\ ~(0 > N) /\ N - 0 + 1 = N + 1
    OBVIOUS
  <2>2. QED
    BY <2>1, FS_Interval
<1>2. Cardinality(S) < Cardinality(0..N)
  <2>1. Cardinality(S) \in Nat
    BY FS_CardinalityType
  <2>2. QED
    BY <1>1, <2>1
<1> DEFINE A == 0..N
<1>3. IsFiniteSet(A) /\ Cardinality(S) < Cardinality(A) /\ f \in [A -> S]
  BY <1>1, <1>2
<1> HIDE DEF A
<1>4. \E x, y \in A : x # y /\ f[x] = f[y]
  BY <1>3, FS_PigeonHole
<1>5. QED
  BY <1>4 DEF A, Collides

\* A walk c in which par gives the next element: where no elements lead in a
\* circle it meets none twice, and it is over after at most as many steps as
\* there are elements.
WalkIsOver(c, N, nil, S, len) ==
  /\ len \in 0..N
  /\ \A k \in 0..N : c[k] # nil <=> k < len
  /\ \A k \in 0..(len-1) : c[k] \in S
  /\ \A k, m \in 0..(len-1) : c[k] = c[m] => k = m

LEMMA WalkEnds ==
  ASSUME NEW N \in Nat, NEW S, IsFiniteSet(S), Cardinality(S) <= N, NEW nil, nil \notin S,
         NEW par \in [S -> S \cup {nil}], NEW c, c[0] \in S \cup {nil},
         \A k \in 1..N : c[k] = IF c[k-1] = nil THEN nil ELSE par[c[k-1]],
         \A T \in SUBSET S : T # {} => \E j \in T : par[j] \notin T
  PROVE  \E len : WalkIsOver(c, N, nil, S, len)
<1>1. ASSUME NEW T \in SUBSET (0..N), T # {}
      PROVE  \E x \in T : /\ \A y \in T : x <= y
                          /\ x # 0 => x - 1 \in 0..N /\ x - 1 \notin T
  <2>1. T \in SUBSET Nat
    BY <1>1
  <2>2. PICK x \in T : \A y \in T : x <= y
    BY <1>1, <2>1, LeastNumber
  <2>3. x # 0 => x - 1 \in 0..N /\ ~(x <= x - 1)
    BY <1>1, <2>2
  <2>4. QED
    BY <2>2, <2>3
<1>2. \A k \in 0..N : c[k] \in S \cup {nil}
  <2> DEFINE T == {k \in 0..N : c[k] \notin S \cup {nil}}
  <2>1. ASSUME T # {} PROVE FALSE
    <3>1. PICK x \in T : x # 0 => x - 1 \in 0..N /\ x - 1 \notin T
      <4>1. T \in SUBSET (0..N)
        OBVIOUS
      <4> HIDE DEF T
      <4>2. QED
        BY <1>1, <2>1, <4>1
    <3>2. x # 0
      BY <3>1
    <3>3. x \in 1..N /\ c[x-1] \in S \cup {nil}
      BY <3>1, <3>2
    <3>4. c[x] \in S \cup {nil}
      <4>1. CASE c[x-1] = nil
        BY <3>3, <4>1
      <4>2. CASE c[x-1] # nil
        <5>1. c[x] = par[c[x-1]] /\ c[x-1] \in S
          BY <3>3, <4>2
        <5>2. QED
          BY <5>1
      <4>3. QED
        BY <4>1, <4>2
    <3>5. QED
      BY <3>1, <3>4
  <2>2. QED
    BY <2>1
<1>3. ASSUME NEW j \in 0..N, c[j] = nil, NEW k \in 0..N, j <= k PROVE c[k] = nil
  <2> DEFINE T == {m \in 0..N : j <= m /\ c[m] # nil}
  <2>1. ASSUME T # {} PROVE FALSE
    <3>1. PICK x \in T : x # 0 => x - 1 \in 0..N /\ x - 1 \notin T
      <4>1. T \in SUBSET (0..N)
        OBVIOUS
      <4> HIDE DEF T
      <4>2. QED
        BY <1>1, <2>1, <4>1
    <3>2. x \in 0..N /\ x # j /\ j <= x /\ c[x] # nil
      BY <1>3, <3>1
    <3>3. x \in 1..N /\ c[x-1] = nil
      BY <3>1, <3>2
    <3>4. QED
      BY <3>2, <3>3
  <2>2. QED
    BY <1>3, <2>1
<1>4. ASSUME NEW j \in 0..N, NEW k \in 0..N, j < k, c[j] = c[k], c[k] # nil PROVE FALSE
  <2> DEFINE V == {c[m] : m \in j..(k-1)}
  <2>1. \A m \in j..k : m \in 0..N /\ c[m] \in S
    <3> SUFFICES ASSUME NEW m \in j..k PROVE m \in 0..N /\ c[m] \in S
      OBVIOUS
    <3>1. m \in 0..N /\ m <= k
      BY <1>4
    <3>2. c[m] # nil
      BY <1>3, <1>4, <3>1
    <3>3. QED
      BY <1>2, <3>1, <3>2
  <2>2. V \in SUBSET S /\ V # {}
    <3>1. \A m \in j..(k-1) : m \in j..k
      BY <1>4
    <3>2. j \in j..(k-1)
      BY <1>4
    <3>3. c[j] \in V
      BY <3>2
    <3>4. V \subseteq S
      BY <2>1, <3>1
    <3>5. QED
      BY <3>3, <3>4
  <2>3. ASSUME NEW m \in j..(k-1) PROVE par[c[m]] \in V
    <3>1. m \in j..k /\ m + 1 \in j..k /\ m + 1 \in 1..N /\ (m + 1) - 1 = m
      BY <1>4
    <3>2. c[m] \in S /\ c[m] # nil
      BY <2>1, <3>1
    <3>3. c[m+1] = par[c[m]]
      BY <3>1, <3>2
    <3>4. CASE m + 1 = k
      <4>1. c[j] \in V
        <5>1. j \in j..(k-1)
          BY <1>4
        <5>2. QED
          BY <5>1
      <4>2. QED
        BY <1>4, <3>3, <3>4, <4>1
    <3>5. CASE m + 1 # k
      <4>1. m + 1 \in j..(k-1)
        BY <1>4, <3>1, <3>5
      <4>2. QED
        BY <3>3, <4>1
    <3>6. QED
      BY <3>4, <3>5
  <2>4. \A x \in V : par[x] \in V
    BY <2>3
  <2> HIDE DEF V
  <2>5. QED
    BY <2>2, <2>4
<1>5. ASSUME \A k \in 0..N : c[k] # nil PROVE FALSE
  <2> DEFINE f == [k \in 0..N |-> c[k]]
  <2>1. f \in [0..N -> S]
    BY <1>2, <1>5
  <2> HIDE DEF f
  <2>2. PICK x \in 0..N, y \in 0..N : x # y /\ f[x] = f[y]
    <3>1. Collides(f, N)
      BY <2>1, MoreThanPlaces
    <3>2. QED
      BY <3>1 DEF Collides
  <2>3. c[x] = c[y] /\ c[x] # nil
    BY <1>5, <2>2 DEF f
  <2>4. CASE x < y
    BY <1>4, <2>3, <2>4
  <2>5. CASE y < x
    BY <1>4, <2>3, <2>5
  <2>6. QED
    BY <2>2, <2>4, <2>5
<1>6. PICK len \in 0..N : c[len] = nil /\ (len # 0 => len - 1 \in 0..N /\ c[len-1] # nil)
  <2> DEFINE T == {k \in 0..N : c[k] = nil}
  <2>1. T # {} /\ T \in SUBSET (0..N)
    BY <1>5
  <2>2. PICK x \in T : x # 0 => x - 1 \in 0..N /\ x - 1 \notin T
    <3> HIDE DEF T
    <3>1. QED
      BY <1>1, <2>1
  <2>3. QED
    BY <2>2
<1>7. \A k \in 0..N : c[k] # nil <=> k < len
  <2> SUFFICES ASSUME NEW k \in 0..N PROVE c[k] # nil <=> k < len
    OBVIOUS
  <2>1. CASE len <= k
    BY <1>3, <1>6, <2>1
  <2>2. CASE k < len
    <3>1. k <= len - 1 /\ len - 1 \in 0..N /\ c[len-1] # nil
      BY <1>6, <2>2
    <3>2. QED
      BY <1>3, <2>2, <3>1
  <2>3. QED
    BY <2>1, <2>2
<1>8. \A k \in 0..(len-1) : k \in 0..N /\ c[k] \in S /\ c[k] # nil
  <2>1. \A k \in 0..(len-1) : k \in 0..N /\ k < len
    BY <1>6
  <2>2. QED
    BY <1>2, <1>7, <2>1
<1>9. \A k, m \in 0..(len-1) : c[k] = c[m] => k = m
  <2> SUFFICES ASSUME NEW k \in 0..(len-1), NEW m \in 0..(len-1), c[k] = c[m], k # m PROVE FALSE
    OBVIOUS
  <2>1. /\ k \in 0..N /\ m \in 0..N /\ c[k] # nil /\ c[m] # nil
        /\ k < m \/ m < k
    BY <1>8
  <2>2. QED
    BY <1>4, <2>1
<1>10. QED
  BY <1>6, <1>7, <1>8, <1>9 DEF WalkIsOver

-----------------------------------------------------------------------------
(* Places and points                                                       *)

\* The places of a corridor, the points of the string (which may lie between
\* places where it crosses a portal), and strings.
Spots == Int \X Int \X (Nat \ {0})

LEMMA PlaceIsSpot ==
  ASSUME NEW p \in Places
  PROVE  p[1] \in Int /\ p[2] \in Int /\ p[3] = 1 /\ p \in Spots
  BY DEF Places, Spots

LEMMA PerpInt ==
  ASSUME NEW a \in Places, NEW b \in Places, NEW c \in Places, NEW d \in Places
  PROVE  Perp(a, b, c, d) \in Int
<1>1. /\ a[1] \in Int /\ a[2] \in Int /\ b[1] \in Int /\ b[2] \in Int
      /\ c[1] \in Int /\ c[2] \in Int /\ d[1] \in Int /\ d[2] \in Int
  BY PlaceIsSpot
<1>2. QED
  BY <1>1 DEF Perp

\* A portal that is a point is never crossed.
LEMMA PointIsParallel ==
  ASSUME NEW a \in Places, NEW b \in Places, NEW portal \in [l : Places, r : Places], IsPoint(portal)
  PROVE  Parallel(a, b, portal)
<1>1. portal.l = portal.r /\ portal.l \in Places
  BY DEF IsPoint
<1>2. /\ a[1] \in Int /\ a[2] \in Int /\ b[1] \in Int /\ b[2] \in Int
      /\ portal.l[1] \in Int /\ portal.l[2] \in Int
  BY <1>1, PlaceIsSpot
<1>3. QED
  BY <1>1, <1>2 DEF Parallel, Perp

LEMMA CrossingParts ==
  ASSUME NEW a \in Places, NEW b \in Places, NEW portal \in [l : Places, r : Places],
         ~Parallel(a, b, portal)
  PROVE  \E s \in {-1, 1} :
           LET d == Perp(a, b, portal.l, portal.r)
               t == Perp(a, b, portal.l, a)
               X == Crossing(a, b, portal)
           IN  /\ d \in Int /\ d # 0 /\ t \in Int
               /\ s * d > 0
               /\ X[1] = s * (d * portal.l[1] + t * (portal.r[1] - portal.l[1]))
               /\ X[2] = s * (d * portal.l[2] + t * (portal.r[2] - portal.l[2]))
               /\ X[3] = s * d
               /\ X \in Spots
<1> DEFINE d == Perp(a, b, portal.l, portal.r)
           t == Perp(a, b, portal.l, a)
           s == IF d < 0 THEN -1 ELSE 1
           x == s * (d * portal.l[1] + t * (portal.r[1] - portal.l[1]))
           y == s * (d * portal.l[2] + t * (portal.r[2] - portal.l[2]))
<1>1. portal.l \in Places /\ portal.r \in Places
  OBVIOUS
<1>2. d \in Int /\ t \in Int
  BY <1>1, PerpInt
<1>3. d # 0
  BY DEF Parallel
<1>4. /\ portal.l[1] \in Int /\ portal.l[2] \in Int /\ portal.r[1] \in Int /\ portal.r[2] \in Int
  BY <1>1, PlaceIsSpot
<1>5. Crossing(a, b, portal) = <<x, y, s * d>>
  BY DEF Crossing
<1> HIDE DEF d, t
<1>6. s \in {-1, 1} /\ s * d > 0 /\ s * d \in Nat \ {0}
  BY <1>2, <1>3
<1>7. x \in Int /\ y \in Int
  BY <1>2, <1>4
<1>8. <<x, y, s * d>> \in Spots
  BY <1>6, <1>7 DEF Spots
<1> HIDE DEF s
<1>9. /\ Crossing(a, b, portal)[1] = x
      /\ Crossing(a, b, portal)[2] = y
      /\ Crossing(a, b, portal)[3] = s * d
  BY <1>5
<1>10. QED
  BY <1>2, <1>3, <1>5, <1>6, <1>8, <1>9 DEF d, t

\* Where the apex is an end of the portal, the string crosses it at the apex.
LEMMA CrossingAtApex ==
  ASSUME NEW a \in Places, NEW b \in Places, NEW portal \in [l : Places, r : Places],
         ~Parallel(a, b, portal), a \in {portal.l, portal.r},
         NEW p \in Spots, SamePoint(p, a)
  PROVE  SamePoint(p, Crossing(a, b, portal))
<1> DEFINE d == Perp(a, b, portal.l, portal.r)
           t == Perp(a, b, portal.l, a)
           X == Crossing(a, b, portal)
<1>1. PICK s \in {-1, 1} :
        /\ d \in Int /\ d # 0 /\ t \in Int
        /\ s * d > 0
        /\ X[1] = s * (d * portal.l[1] + t * (portal.r[1] - portal.l[1]))
        /\ X[2] = s * (d * portal.l[2] + t * (portal.r[2] - portal.l[2]))
        /\ X[3] = s * d
  BY CrossingParts
<1>2. portal.l \in Places /\ portal.r \in Places
  OBVIOUS
<1>3. /\ portal.l[1] \in Int /\ portal.l[2] \in Int /\ portal.r[1] \in Int /\ portal.r[2] \in Int
      /\ a[1] \in Int /\ a[2] \in Int /\ a[3] = 1 /\ b[1] \in Int /\ b[2] \in Int
  BY <1>2, PlaceIsSpot
<1>4. a = portal.l => t = 0
  BY <1>3 DEF Perp
<1>5. a = portal.r => t = d
  OBVIOUS
<1>6. p[1] \in Int /\ p[2] \in Int /\ p[3] \in Nat
  BY DEF Spots
<1>7. p[1] = a[1] * p[3] /\ p[2] = a[2] * p[3]
  BY <1>3, <1>6 DEF SamePoint
<1> HIDE DEF d, t, X
<1>8. X[1] = a[1] * X[3] /\ X[2] = a[2] * X[3] /\ X[3] \in Int
  <2>1. CASE a = portal.l
    BY <1>1, <1>3, <1>4, <2>1
  <2>2. CASE a = portal.r
    BY <1>1, <1>3, <1>5, <2>2
  <2>3. QED
    BY <2>1, <2>2
<1>9. /\ (a[1] * p[3]) * X[3] = (a[1] * X[3]) * p[3]
      /\ (a[2] * p[3]) * X[3] = (a[2] * X[3]) * p[3]
  BY <1>3, <1>6, <1>8
<1>10. p[1] * X[3] = X[1] * p[3] /\ p[2] * X[3] = X[2] * p[3]
  BY <1>7, <1>8, <1>9
<1>11. QED
  BY <1>10 DEF SamePoint, X

\* Two places that are the same point are the same.
LEMMA SamePlace ==
  ASSUME NEW p \in Places, NEW q \in Places
  PROVE  SamePoint(p, q) <=> p = q
<1>1. /\ p[1] \in Int /\ p[2] \in Int /\ p[3] = 1 /\ p = <<p[1], p[2], p[3]>>
      /\ q[1] \in Int /\ q[2] \in Int /\ q[3] = 1 /\ q = <<q[1], q[2], q[3]>>
  BY DEF Places
<1>2. SamePoint(p, q) <=> p[1] = q[1] /\ p[2] = q[2]
  BY <1>1 DEF SamePoint
<1>3. QED
  BY <1>1, <1>2

LEMMA SameAsItself ==
  ASSUME NEW p \in Spots
  PROVE  SamePoint(p, p)
  BY DEF SamePoint, Spots

LEMMA AreaAtApex ==
  ASSUME NEW a \in Places, NEW b \in Places
  PROVE  Area(a, a, b) = 0
<1>1. /\ a[1] \in Int /\ a[2] \in Int /\ a[3] = 1
      /\ b[1] \in Int /\ b[2] \in Int /\ b[3] = 1
  BY PlaceIsSpot
<1>2. Diff(a, a, 1) = 0 /\ Diff(a, a, 2) = 0 /\ Diff(a, b, 1) \in Int /\ Diff(a, b, 2) \in Int
  BY <1>1 DEF Diff
<1>3. QED
  BY <1>2 DEF Area

\* A place lies on a portal of which it is an end.
LEMMA EndsAreOnPortal ==
  ASSUME NEW portal \in [l : Places, r : Places], NEW p \in {portal.l, portal.r}
  PROVE  OnPortal(p, portal)
<1>1. portal.l \in Places /\ portal.r \in Places /\ p \in Places
  OBVIOUS
<1>2. /\ portal.l[1] \in Int /\ portal.l[2] \in Int /\ portal.l[3] = 1
      /\ portal.r[1] \in Int /\ portal.r[2] \in Int /\ portal.r[3] = 1
      /\ p[1] \in Int /\ p[2] \in Int /\ p[3] = 1
  BY <1>1, PlaceIsSpot
<1> DEFINE l == portal.l
           r == portal.r
<1>3. /\ Diff(l, p, 1) = p[1] - l[1] /\ Diff(l, p, 2) = p[2] - l[2]
      /\ Diff(p, r, 1) = r[1] - p[1] /\ Diff(p, r, 2) = r[2] - p[2]
      /\ Diff(l, r, 1) = r[1] - l[1] /\ Diff(l, r, 2) = r[2] - l[2]
  BY <1>2 DEF Diff
<1>4. Area(l, r, p) = 0
  BY <1>2, <1>3 DEF Area
<1>5. \A i \in 1..2 : Diff(l, p, i) * Diff(p, r, i) >= 0
  <2>1. Diff(l, p, 1) * Diff(p, r, 1) >= 0 /\ Diff(l, p, 2) * Diff(p, r, 2) >= 0
    BY <1>2, <1>3
  <2>2. QED
    BY <2>1
<1>6. QED
  BY <1>4, <1>5 DEF OnPortal, Between

LEMMA SameAsPlace ==
  ASSUME NEW p \in Spots, NEW q \in Spots, NEW r \in Places, SamePoint(p, q), SamePoint(q, r)
  PROVE  SamePoint(p, r)
<1>1. /\ p[1] \in Int /\ p[2] \in Int /\ p[3] \in Int /\ q[1] \in Int /\ q[2] \in Int
      /\ q[3] \in Int /\ q[3] > 0 /\ r[1] \in Int /\ r[2] \in Int /\ r[3] = 1
  BY PlaceIsSpot DEF Spots
<1>2. q[1] = r[1] * q[3] /\ q[2] = r[2] * q[3]
  BY <1>1 DEF SamePoint
<1>3. p[1] * q[3] = (r[1] * p[3]) * q[3] /\ p[2] * q[3] = (r[2] * p[3]) * q[3]
  BY <1>1, <1>2 DEF SamePoint
<1>4. \A x, y, z \in Int : z > 0 /\ x * z = y * z => x = y
  OBVIOUS
<1>5. r[1] * p[3] \in Int /\ r[2] * p[3] \in Int
  BY <1>1
<1>6. p[1] = r[1] * p[3] /\ p[2] = r[2] * p[3]
  BY <1>1, <1>3, <1>4, <1>5
<1>7. QED
  BY <1>1, <1>6 DEF SamePoint

-----------------------------------------------------------------------------
(* Directions seen from a point                                            *)

\* Positive where q lies to the left of p, as seen from a.
Cross(a, p, q) == (p[1] - a[1]) * (q[2] - a[2]) - (p[2] - a[2]) * (q[1] - a[1])

LEMMA CrossInt ==
  ASSUME NEW a \in Places, NEW p \in Places, NEW q \in Places
  PROVE  /\ Cross(a, p, q) \in Int
         /\ Cross(a, q, p) = -Cross(a, p, q)
         /\ Cross(a, p, p) = 0 /\ Cross(a, a, p) = 0 /\ Cross(a, p, a) = 0
         /\ Area(a, p, q) = -Cross(a, p, q)
<1>1. /\ a[1] \in Int /\ a[2] \in Int /\ a[3] = 1 /\ p[1] \in Int /\ p[2] \in Int /\ p[3] = 1
      /\ q[1] \in Int /\ q[2] \in Int /\ q[3] = 1
  BY PlaceIsSpot
<1>2. Cross(a, p, q) \in Int /\ Cross(a, q, p) = -Cross(a, p, q)
  BY <1>1 DEF Cross
<1>3. Cross(a, p, p) = 0 /\ Cross(a, a, p) = 0 /\ Cross(a, p, a) = 0
  BY <1>1 DEF Cross
<1>4. /\ Diff(a, q, 1) = q[1] - a[1] /\ Diff(a, q, 2) = q[2] - a[2]
      /\ Diff(a, p, 1) = p[1] - a[1] /\ Diff(a, p, 2) = p[2] - a[2]
  BY <1>1 DEF Diff
<1>5. Area(a, p, q) = -Cross(a, p, q)
  BY <1>1, <1>4 DEF Area, Cross
<1>6. QED
  BY <1>2, <1>3, <1>5

\* Twice the area of a triangle does not depend on where one stands.
LEMMA CrossMoves ==
  ASSUME NEW a \in Places, NEW p \in Places, NEW q \in Places, NEW r \in Places
  PROVE  Cross(p, q, r) = Cross(a, p, q) + Cross(a, q, r) + Cross(a, r, p)
<1>1. /\ a[1] \in Int /\ a[2] \in Int /\ p[1] \in Int /\ p[2] \in Int
      /\ q[1] \in Int /\ q[2] \in Int /\ r[1] \in Int /\ r[2] \in Int
  BY PlaceIsSpot
<1>2. QED
  BY <1>1 DEF Cross

\* Four directions.
LEMMA FourCrosses ==
  ASSUME NEW a \in Places, NEW p \in Places, NEW q \in Places, NEW x \in Places, NEW y \in Places
  PROVE  Cross(a, p, q) * Cross(a, x, y) =
           Cross(a, p, x) * Cross(a, q, y) - Cross(a, p, y) * Cross(a, q, x)
<1> DEFINE p1 == p[1] - a[1]
           p2 == p[2] - a[2]
           q1 == q[1] - a[1]
           q2 == q[2] - a[2]
           x1 == x[1] - a[1]
           x2 == x[2] - a[2]
           y1 == y[1] - a[1]
           y2 == y[2] - a[2]
<1>1. /\ p1 \in Int /\ p2 \in Int /\ q1 \in Int /\ q2 \in Int
      /\ x1 \in Int /\ x2 \in Int /\ y1 \in Int /\ y2 \in Int
  BY PlaceIsSpot
<1>2. /\ Cross(a, p, q) = p1 * q2 - p2 * q1 /\ Cross(a, x, y) = x1 * y2 - x2 * y1
      /\ Cross(a, p, x) = p1 * x2 - p2 * x1 /\ Cross(a, q, y) = q1 * y2 - q2 * y1
      /\ Cross(a, p, y) = p1 * y2 - p2 * y1 /\ Cross(a, q, x) = q1 * x2 - q2 * x1
  BY DEF Cross
<1> HIDE DEF p1, p2, q1, q2, x1, x2, y1, y2
<1>3. (p1 * q2 - p2 * q1) * (x1 * y2 - x2 * y1) =
        (p1 * x2 - p2 * x1) * (q1 * y2 - q2 * y1) - (p1 * y2 - p2 * y1) * (q1 * x2 - q2 * x1)
  BY <1>1
<1>4. QED
  BY <1>2, <1>3

\* What lies between two directions is on no other side of anything than both.
LEMMA BetweenBoth ==
  ASSUME NEW a \in Places, NEW p \in Places, NEW q \in Places, NEW x \in Places, NEW y \in Places,
         Cross(a, p, q) > 0, Cross(a, p, x) >= 0, Cross(a, x, q) >= 0
  PROVE  /\ Cross(a, p, y) >= 0 /\ Cross(a, q, y) >= 0 => Cross(a, x, y) >= 0
         /\ Cross(a, y, p) >= 0 /\ Cross(a, y, q) >= 0 => Cross(a, y, x) >= 0
<1> DEFINE D == Cross(a, p, q)
           px == Cross(a, p, x)
           xq == Cross(a, x, q)
           py == Cross(a, p, y)
           qy == Cross(a, q, y)
           xy == Cross(a, x, y)
<1>1. D * xy = px * qy + py * xq
  <2>1. D * xy = px * qy - py * Cross(a, q, x)
    BY FourCrosses
  <2>2. Cross(a, q, x) = -xq /\ px \in Int /\ py \in Int /\ qy \in Int /\ xq \in Int
    BY CrossInt
  <2> HIDE DEF D, px, xq, py, qy, xy
  <2>3. QED
    BY <2>1, <2>2
<1>2. /\ D \in Int /\ px \in Int /\ xq \in Int /\ py \in Int /\ qy \in Int /\ xy \in Int
      /\ Cross(a, y, p) = -py /\ Cross(a, y, q) = -qy /\ Cross(a, y, x) = -xy
  BY CrossInt
<1>3. D > 0 /\ px >= 0 /\ xq >= 0
  OBVIOUS
<1> HIDE DEF D, px, xq, py, qy, xy
<1>4. \A u, v \in Int : u > 0 /\ u * v >= 0 => v >= 0
  OBVIOUS
<1>5. ASSUME py >= 0, qy >= 0 PROVE xy >= 0
  <2>1. px * qy >= 0 /\ py * xq >= 0
    BY <1>2, <1>3, <1>5
  <2>2. D * xy >= 0
    BY <1>1, <1>2, <2>1
  <2>3. QED
    BY <1>2, <1>3, <1>4, <2>2
<1>6. ASSUME py <= 0, qy <= 0 PROVE xy <= 0
  <2>1. px * qy <= 0 /\ py * xq <= 0
    BY <1>2, <1>3, <1>6
  <2>2. D * (-xy) >= 0
    BY <1>1, <1>2, <2>1
  <2>3. -xy \in Int /\ -xy >= 0
    BY <1>2, <1>3, <1>4, <2>2
  <2>4. QED
    BY <1>2, <2>3
<1>7. /\ py >= 0 /\ qy >= 0 => xy >= 0
      /\ -py >= 0 /\ -qy >= 0 => -xy >= 0
  BY <1>2, <1>5, <1>6
<1>8. QED
  BY <1>2, <1>7 DEF py, qy, xy

\* How far a direction goes towards the line through r and l.
Forth(a, r, l, x) == Cross(a, r, x) + Cross(a, x, l)

\* Directions that go forth are in order from right to left.
LEMMA ForthInOrder ==
  ASSUME NEW a \in Places, NEW l \in Places, NEW r \in Places,
         NEW x \in Places, NEW y \in Places, NEW z \in Places,
         Forth(a, r, l, x) > 0, Forth(a, r, l, y) > 0, Forth(a, r, l, z) > 0,
         Cross(a, x, y) >= 0, Cross(a, y, z) >= 0
  PROVE  /\ Cross(a, x, z) >= 0
         /\ Cross(a, x, y) > 0 \/ Cross(a, y, z) > 0 => Cross(a, x, z) > 0
<1> DEFINE fx == Forth(a, r, l, x)
           fy == Forth(a, r, l, y)
           fz == Forth(a, r, l, z)
           xy == Cross(a, x, y)
           yz == Cross(a, y, z)
           xz == Cross(a, x, z)
<1>1. fx \in Int /\ fy \in Int /\ fz \in Int /\ xy \in Int /\ yz \in Int /\ xz \in Int
  BY CrossInt DEF Forth
<1>2. fy * xz = fx * yz + fz * xy
  <2> DEFINE rx == Cross(a, r, x)
             ry == Cross(a, r, y)
             rz == Cross(a, r, z)
             xl == Cross(a, x, l)
             yl == Cross(a, y, l)
             zl == Cross(a, z, l)
  <2>1. /\ ry * xz = rx * yz - rz * Cross(a, y, x)
        /\ Cross(a, l, y) * xz = Cross(a, l, x) * yz - Cross(a, l, z) * Cross(a, y, x)
    BY FourCrosses
  <2>2. /\ Cross(a, y, x) = -xy /\ Cross(a, l, y) = -yl
        /\ Cross(a, l, x) = -xl /\ Cross(a, l, z) = -zl
        /\ rx \in Int /\ ry \in Int /\ rz \in Int /\ xl \in Int /\ yl \in Int /\ zl \in Int
    BY CrossInt
  <2>3. fx = rx + xl /\ fy = ry + yl /\ fz = rz + zl
    BY DEF Forth
  <2> HIDE DEF fx, fy, fz, xy, yz, xz, rx, ry, rz, xl, yl, zl
  <2>4. ry * xz = rx * yz + rz * xy
    BY <1>1, <2>1, <2>2
  <2>5. yl * xz = xl * yz + zl * xy
    <3>1. (-yl) * xz = (-xl) * yz - (-zl) * (-xy)
      BY <2>1, <2>2
    <3>2. QED
      BY <1>1, <2>2, <3>1
  <2>6. QED
    BY <1>1, <2>2, <2>3, <2>4, <2>5
<1>3. fx > 0 /\ fy > 0 /\ fz > 0 /\ xy >= 0 /\ yz >= 0
  OBVIOUS
<1> HIDE DEF fx, fy, fz, xy, yz, xz
<1>4. fx * yz >= 0 /\ fz * xy >= 0
  BY <1>1, <1>3
<1>5. fy * xz >= 0
  BY <1>1, <1>2, <1>4
<1>6. xz >= 0
  BY <1>1, <1>3, <1>5
<1>7. ASSUME xy > 0 \/ yz > 0 PROVE xz > 0
  <2>1. fx * yz > 0 \/ fz * xy > 0
    BY <1>1, <1>3, <1>7
  <2>2. fy * xz > 0
    BY <1>1, <1>2, <1>4, <2>1
  <2>3. QED
    BY <1>1, <1>3, <2>2
<1>8. QED
  BY <1>6, <1>7 DEF xy, yz, xz
-----------------------------------------------------------------------------
(* Points on portals                                                       *)

LEMMA PortalEnds ==
  ASSUME NEW portal \in [l : Places, r : Places]
  PROVE  portal.l \in Places /\ portal.r \in Places
  OBVIOUS

\* A place on a portal is a mean of its ends.
IsMean(a, portal, u, v) ==
  /\ u >= 0 /\ v >= 0 /\ u + v > 0
  /\ u * (portal.l[1] - a[1]) + v * (portal.r[1] - a[1]) = 0
  /\ u * (portal.l[2] - a[2]) + v * (portal.r[2] - a[2]) = 0

LEMMA OnPortalIsMean ==
  ASSUME NEW portal \in [l : Places, r : Places], NEW a \in Places, OnPortal(a, portal)
  PROVE  \E u, v \in Int : IsMean(a, portal, u, v)
<1> DEFINE l1 == portal.l[1] - a[1]
           l2 == portal.l[2] - a[2]
           r1 == portal.r[1] - a[1]
           r2 == portal.r[2] - a[2]
<1>1. /\ portal.l[1] \in Int /\ portal.l[2] \in Int /\ portal.l[3] = 1
      /\ portal.r[1] \in Int /\ portal.r[2] \in Int /\ portal.r[3] = 1
      /\ a[1] \in Int /\ a[2] \in Int /\ a[3] = 1
  BY PortalEnds, PlaceIsSpot
<1>2. l1 \in Int /\ l2 \in Int /\ r1 \in Int /\ r2 \in Int
  BY <1>1
<1>3. Cross(portal.l, portal.r, a) = 0
  <2>1. Area(portal.l, portal.r, a) = 0 /\ Cross(portal.l, portal.r, a) \in Int
        /\ Area(portal.l, portal.r, a) = -Cross(portal.l, portal.r, a)
    BY PortalEnds, CrossInt DEF OnPortal, Between
  <2>2. QED
    BY <2>1
<1>4. r1 * l2 = r2 * l1
  BY <1>1, <1>3 DEF Cross
<1>5. /\ Diff(portal.l, a, 1) = -l1 /\ Diff(portal.l, a, 2) = -l2
      /\ Diff(a, portal.r, 1) = r1 /\ Diff(a, portal.r, 2) = r2
  BY <1>1 DEF Diff
<1>6. (-l1) * r1 >= 0 /\ (-l2) * r2 >= 0
  <2>1. /\ Diff(portal.l, a, 1) * Diff(a, portal.r, 1) >= 0
        /\ Diff(portal.l, a, 2) * Diff(a, portal.r, 2) >= 0
    BY DEF OnPortal, Between
  <2>2. QED
    BY <1>5, <2>1
<1> HIDE DEF l1, l2, r1, r2
<1> DEFINE Mean(u, v) == u >= 0 /\ v >= 0 /\ u + v > 0 /\ u * l1 + v * r1 = 0 /\ u * l2 + v * r2 = 0
<1>7. ASSUME NEW u \in Int, NEW v \in Int, Mean(u, v)
      PROVE  \E x, y \in Int : IsMean(a, portal, x, y)
  <2>1. IsMean(a, portal, u, v)
    BY <1>7 DEF IsMean, l1, l2, r1, r2
  <2>2. QED
    BY <2>1
<1>8. /\ r1 - l1 > 0 => Mean(r1, -l1)
      /\ r1 - l1 < 0 => Mean(-r1, l1)
      /\ r2 - l2 > 0 => Mean(r2, -l2)
      /\ r2 - l2 < 0 => Mean(-r2, l2)
  <2>1. r1 - l1 > 0 => r1 >= 0 /\ -l1 >= 0
    BY <1>2, <1>6
  <2>2. r1 - l1 < 0 => -r1 >= 0 /\ l1 >= 0
    BY <1>2, <1>6
  <2>3. r2 - l2 > 0 => r2 >= 0 /\ -l2 >= 0
    BY <1>2, <1>6
  <2>4. r2 - l2 < 0 => -r2 >= 0 /\ l2 >= 0
    BY <1>2, <1>6
  <2>5. /\ r1 * l1 + (-l1) * r1 = 0 /\ r1 * l2 + (-l1) * r2 = 0
        /\ (-r1) * l1 + l1 * r1 = 0 /\ (-r1) * l2 + l1 * r2 = 0
        /\ r2 * l1 + (-l2) * r1 = 0 /\ r2 * l2 + (-l2) * r2 = 0
        /\ (-r2) * l1 + l2 * r1 = 0 /\ (-r2) * l2 + l2 * r2 = 0
    BY <1>2, <1>4
  <2>6. QED
    BY <1>2, <2>1, <2>2, <2>3, <2>4, <2>5
<1>9. r1 - l1 = 0 /\ r2 - l2 = 0 => Mean(1, 0)
  <2> SUFFICES ASSUME r1 = l1, r2 = l2 PROVE Mean(1, 0)
    BY <1>2
  <2>1. l1 = 0 /\ l2 = 0
    BY <1>2, <1>6
  <2>2. QED
    BY <1>2, <2>1
<1>10. r1 \in Int /\ -r1 \in Int /\ l1 \in Int /\ -l1 \in Int /\ r2 \in Int /\ -r2 \in Int
       /\ l2 \in Int /\ -l2 \in Int /\ 1 \in Int /\ 0 \in Int
  BY <1>2
<1>11. \/ r1 - l1 > 0 \/ r1 - l1 < 0 \/ r2 - l2 > 0 \/ r2 - l2 < 0
       \/ r1 - l1 = 0 /\ r2 - l2 = 0
  BY <1>2
<1> HIDE DEF Mean
<1>12. QED
  BY <1>7, <1>8, <1>9, <1>10, <1>11

\* A line through places a and b parts the ends of the portal, or touches one.
Parts(a, b, portal) ==
  \/ Cross(a, b, portal.l) >= 0 /\ Cross(a, b, portal.r) <= 0
  \/ Cross(a, b, portal.l) <= 0 /\ Cross(a, b, portal.r) >= 0

\* Every line through a place on the portal does.
LEMMA LineParts ==
  ASSUME NEW portal \in [l : Places, r : Places], NEW a \in Places, NEW b \in Places, OnPortal(a, portal)
  PROVE  Parts(a, b, portal)
<1> DEFINE A == Cross(a, b, portal.l)
           B == Cross(a, b, portal.r)
           l1 == portal.l[1] - a[1]
           l2 == portal.l[2] - a[2]
           r1 == portal.r[1] - a[1]
           r2 == portal.r[2] - a[2]
           b1 == b[1] - a[1]
           b2 == b[2] - a[2]
<1>1. PICK u \in Int, v \in Int : IsMean(a, portal, u, v)
  BY OnPortalIsMean
<1>2. /\ l1 \in Int /\ l2 \in Int /\ r1 \in Int /\ r2 \in Int /\ b1 \in Int /\ b2 \in Int
      /\ A \in Int /\ B \in Int
  BY PortalEnds, PlaceIsSpot, CrossInt
<1>3. A = b1 * l2 - b2 * l1 /\ B = b1 * r2 - b2 * r1
  BY DEF Cross
<1>4. u >= 0 /\ v >= 0 /\ u + v > 0 /\ u * l1 + v * r1 = 0 /\ u * l2 + v * r2 = 0
  BY <1>1 DEF IsMean
<1> HIDE DEF A, B, l1, l2, r1, r2, b1, b2
<1>5. u * A + v * B = b1 * (u * l2 + v * r2) - b2 * (u * l1 + v * r1)
  BY <1>2, <1>3
<1>6. u * A + v * B = 0
  BY <1>2, <1>4, <1>5
<1>7. CASE u = 0
  <2>1. v > 0 /\ v * B = 0
    BY <1>2, <1>4, <1>6, <1>7
  <2>2. B = 0
    BY <1>2, <2>1
  <2>3. QED
    BY <1>2, <2>2 DEF Parts, A, B
<1>8. CASE u > 0
  <2>1. ~(A > 0 /\ B > 0) /\ ~(A < 0 /\ B < 0)
    <3>1. A > 0 /\ B > 0 => u * A > 0 /\ v * B >= 0
      BY <1>2, <1>4, <1>8
    <3>2. A < 0 /\ B < 0 => u * A < 0 /\ v * B <= 0
      BY <1>2, <1>4, <1>8
    <3>3. u * A \in Int /\ v * B \in Int
      BY <1>2
    <3>4. QED
      BY <1>6, <3>1, <3>2, <3>3
  <2>2. (A >= 0 /\ B <= 0) \/ (A <= 0 /\ B >= 0)
    BY <1>2, <2>1
  <2>3. QED
    BY <2>2 DEF Parts, A, B
<1>9. QED
  BY <1>4, <1>7, <1>8

\* Where a line that parts the ends crosses the portal is on the portal.
LEMMA PartedIsCrossed ==
  ASSUME NEW portal \in [l : Places, r : Places], NEW a \in Places, NEW b \in Places,
         ~Parallel(a, b, portal), Parts(a, b, portal)
  PROVE  OnPortal(Crossing(a, b, portal), portal)
<1> DEFINE d == Perp(a, b, portal.l, portal.r)
           t == Perp(a, b, portal.l, a)
           X == Crossing(a, b, portal)
           l == portal.l
           r == portal.r
           w1 == r[1] - l[1]
           w2 == r[2] - l[2]
<1>1. PICK s \in {-1, 1} :
        /\ d \in Int /\ d # 0 /\ t \in Int
        /\ s * d > 0
        /\ X[1] = s * (d * portal.l[1] + t * (portal.r[1] - portal.l[1]))
        /\ X[2] = s * (d * portal.l[2] + t * (portal.r[2] - portal.l[2]))
        /\ X[3] = s * d
  BY CrossingParts
<1>2. /\ l[1] \in Int /\ l[2] \in Int /\ l[3] = 1 /\ r[1] \in Int /\ r[2] \in Int /\ r[3] = 1
      /\ a[1] \in Int /\ a[2] \in Int /\ b[1] \in Int /\ b[2] \in Int
  BY PortalEnds, PlaceIsSpot
<1>3. t = -Cross(a, b, l) /\ d = Cross(a, b, r) - Cross(a, b, l)
  BY <1>2 DEF Perp, Cross
<1>4. Cross(a, b, l) \in Int /\ Cross(a, b, r) \in Int
  BY PortalEnds, CrossInt
<1>5. (t >= 0 /\ d - t >= 0) \/ (t <= 0 /\ d - t <= 0)
  BY <1>3, <1>4 DEF Parts
<1>6. t * (d - t) >= 0
  <2> HIDE DEF d, t
  <2>1. d - t \in Int
    BY <1>1
  <2>2. QED
    BY <1>1, <1>5, <2>1
<1>7. w1 \in Int /\ w2 \in Int
  BY <1>2
<1>8. /\ Diff(l, X, 1) = X[1] - l[1] * X[3] /\ Diff(l, X, 2) = X[2] - l[2] * X[3]
      /\ Diff(X, r, 1) = r[1] * X[3] - X[1] /\ Diff(X, r, 2) = r[2] * X[3] - X[2]
      /\ Diff(l, r, 1) = w1 /\ Diff(l, r, 2) = w2
  <2>1. X[1] \in Int /\ X[2] \in Int /\ X[3] \in Int
    <3> HIDE DEF d, t, X
    <3>1. QED
      BY <1>1, <1>2
  <2> HIDE DEF X
  <2>2. QED
    BY <1>2, <2>1 DEF Diff
<1>9. /\ X[1] = s * (d * l[1] + t * w1) /\ X[2] = s * (d * l[2] + t * w2) /\ X[3] = s * d
      /\ r[1] = l[1] + w1 /\ r[2] = l[2] + w2
  BY <1>1, <1>2
<1>10. PICK l1 \in Int, l2 \in Int : l1 = l[1] /\ l2 = l[2]
  BY <1>2
<1> HIDE DEF d, t, X, w1, w2
<1>11. /\ Diff(l, X, 1) = s * (t * w1) /\ Diff(l, X, 2) = s * (t * w2)
       /\ Diff(X, r, 1) = s * ((d - t) * w1) /\ Diff(X, r, 2) = s * ((d - t) * w2)
  <2>1. /\ s * (d * l1 + t * w1) - l1 * (s * d) = s * (t * w1)
        /\ s * (d * l2 + t * w2) - l2 * (s * d) = s * (t * w2)
        /\ (l1 + w1) * (s * d) - s * (d * l1 + t * w1) = s * ((d - t) * w1)
        /\ (l2 + w2) * (s * d) - s * (d * l2 + t * w2) = s * ((d - t) * w2)
    BY <1>1, <1>7
  <2>2. QED
    BY <1>8, <1>9, <1>10, <2>1
<1>12. Area(l, r, X) = 0
  <2>1. (s * (t * w1)) * w2 - w1 * (s * (t * w2)) = 0
    BY <1>1, <1>7
  <2>2. QED
    BY <1>8, <1>11, <2>1 DEF Area
<1>13. \A i \in 1..2 : Diff(l, X, i) * Diff(X, r, i) >= 0
  <2>1. ASSUME NEW w \in Int PROVE (s * (t * w)) * (s * ((d - t) * w)) >= 0
    <3>1. (s * (t * w)) * (s * ((d - t) * w)) = (s * s) * ((t * (d - t)) * (w * w))
      BY <1>1
    <3>2. s * s = 1 /\ w * w >= 0 /\ w * w \in Int /\ t * (d - t) \in Int
      BY <1>1
    <3>3. (t * (d - t)) * (w * w) >= 0
      BY <1>6, <3>2
    <3>4. QED
      BY <3>1, <3>2, <3>3
  <2>2. Diff(l, X, 1) * Diff(X, r, 1) >= 0 /\ Diff(l, X, 2) * Diff(X, r, 2) >= 0
    BY <1>7, <1>11, <2>1
  <2>3. QED
    BY <2>2
<1>14. QED
  BY <1>12, <1>13 DEF OnPortal, Between, X

\* Whether a point is on a portal does not depend on how it is written.
LEMMA SameOnPortal ==
  ASSUME NEW portal \in [l : Places, r : Places], NEW p \in Spots, NEW q \in Spots,
         SamePoint(p, q), OnPortal(q, portal)
  PROVE  OnPortal(p, portal)
<1> DEFINE l == portal.l
           r == portal.r
           w1 == Diff(l, r, 1)
           w2 == Diff(l, r, 2)
           P == p[3]
           Q == q[3]
<1>1. /\ l[1] \in Int /\ l[2] \in Int /\ l[3] = 1 /\ r[1] \in Int /\ r[2] \in Int /\ r[3] = 1
      /\ p[1] \in Int /\ p[2] \in Int /\ P \in Int /\ P > 0
      /\ q[1] \in Int /\ q[2] \in Int /\ Q \in Int /\ Q > 0
  BY PortalEnds, PlaceIsSpot DEF Spots
<1>2. /\ Diff(l, p, 1) = p[1] - l[1] * P /\ Diff(l, p, 2) = p[2] - l[2] * P
      /\ Diff(p, r, 1) = r[1] * P - p[1] /\ Diff(p, r, 2) = r[2] * P - p[2]
      /\ Diff(l, q, 1) = q[1] - l[1] * Q /\ Diff(l, q, 2) = q[2] - l[2] * Q
      /\ Diff(q, r, 1) = r[1] * Q - q[1] /\ Diff(q, r, 2) = r[2] * Q - q[2]
      /\ w1 \in Int /\ w2 \in Int
  BY <1>1 DEF Diff
<1>3. p[1] * Q = q[1] * P /\ p[2] * Q = q[2] * P
  BY DEF SamePoint
<1> DEFINE a1 == Diff(l, p, 1)
           a2 == Diff(l, p, 2)
           b1 == Diff(p, r, 1)
           b2 == Diff(p, r, 2)
           c1 == Diff(l, q, 1)
           c2 == Diff(l, q, 2)
           e1 == Diff(q, r, 1)
           e2 == Diff(q, r, 2)
<1>4. /\ a1 \in Int /\ a2 \in Int /\ b1 \in Int /\ b2 \in Int
      /\ c1 \in Int /\ c2 \in Int /\ e1 \in Int /\ e2 \in Int
  BY <1>1, <1>2
<1>5. a1 * Q = c1 * P /\ a2 * Q = c2 * P /\ b1 * Q = e1 * P /\ b2 * Q = e2 * P
  <2>1. PICK x1 \in Int, x2 \in Int, y1 \in Int, y2 \in Int, u1 \in Int, u2 \in Int,
             v1 \in Int, v2 \in Int :
          /\ x1 = p[1] /\ x2 = p[2] /\ y1 = q[1] /\ y2 = q[2]
          /\ u1 = l[1] /\ u2 = l[2] /\ v1 = r[1] /\ v2 = r[2]
    BY <1>1
  <2>2. /\ a1 = x1 - u1 * P /\ a2 = x2 - u2 * P /\ b1 = v1 * P - x1 /\ b2 = v2 * P - x2
        /\ c1 = y1 - u1 * Q /\ c2 = y2 - u2 * Q /\ e1 = v1 * Q - y1 /\ e2 = v2 * Q - y2
        /\ x1 * Q = y1 * P /\ x2 * Q = y2 * P
    BY <1>2, <1>3, <2>1
  <2> HIDE DEF P, Q, a1, a2, b1, b2, c1, c2, e1, e2
  <2>3. \A x, y, z \in Int : x * Q = y * P => (x - z * P) * Q = (y - z * Q) * P
    BY <1>1
  <2>4. \A x, y, z \in Int : x * Q = y * P => (z * P - x) * Q = (z * Q - y) * P
    BY <1>1
  <2>5. QED
    BY <2>2, <2>3, <2>4
<1>6. Area(l, r, q) = 0 /\ c1 * e1 >= 0 /\ c2 * e2 >= 0
  BY DEF OnPortal, Between
<1>7. Area(l, r, q) = c1 * w2 - w1 * c2 /\ Area(l, r, p) = a1 * w2 - w1 * a2
  BY DEF Area
<1> HIDE DEF P, Q, w1, w2, a1, a2, b1, b2, c1, c2, e1, e2
<1>8. a1 * w2 - w1 * a2 = 0
  <2>1. (a1 * w2 - w1 * a2) * Q = (a1 * Q) * w2 - w1 * (a2 * Q)
    BY <1>1, <1>2, <1>4
  <2>2. (c1 * P) * w2 - w1 * (c2 * P) = (c1 * w2 - w1 * c2) * P
    BY <1>1, <1>2, <1>4
  <2>3. (a1 * w2 - w1 * a2) * Q = 0
    BY <1>1, <1>2, <1>4, <1>5, <1>6, <1>7, <2>1, <2>2
  <2>4. a1 * w2 - w1 * a2 \in Int
    BY <1>2, <1>4
  <2>5. QED
    BY <1>1, <2>3, <2>4
<1>9. ASSUME NEW x \in Int, NEW y \in Int, NEW z \in Int, NEW u \in Int,
             x * Q = z * P, y * Q = u * P, z * u >= 0
      PROVE  x * y >= 0
  <2>1. (x * y) * (Q * Q) = (x * Q) * (y * Q) /\ (z * P) * (u * P) = (z * u) * (P * P)
    BY <1>1
  <2>2. P * P > 0 /\ Q * Q > 0 /\ P * P \in Int /\ Q * Q \in Int /\ x * y \in Int /\ z * u \in Int
    BY <1>1
  <2>3. (z * u) * (P * P) >= 0
    BY <1>9, <2>2
  <2>4. (x * y) * (Q * Q) >= 0
    BY <1>9, <2>1, <2>3
  <2>5. QED
    BY <2>2, <2>4
<1>10. a1 * b1 >= 0 /\ a2 * b2 >= 0
  BY <1>4, <1>5, <1>6, <1>9
<1>11. \A i \in 1..2 : Diff(l, p, i) * Diff(p, r, i) >= 0
  <2>1. Diff(l, p, 1) * Diff(p, r, 1) >= 0 /\ Diff(l, p, 2) * Diff(p, r, 2) >= 0
    BY <1>10 DEF a1, a2, b1, b2
  <2>2. QED
    BY <2>1
<1>12. QED
  BY <1>7, <1>8, <1>11 DEF OnPortal, Between

\* Which side of a line a place on a portal is on follows from where the ends of
\* the portal are.
LEMMA CrossIsMean ==
  ASSUME NEW portal \in [l : Places, r : Places], NEW x \in Places, OnPortal(x, portal)
  PROVE  \E u, v \in Int :
           /\ u >= 0 /\ v >= 0 /\ u + v > 0
           /\ \A b, c \in Places : u * Cross(b, c, portal.l) + v * Cross(b, c, portal.r) = (u + v) * Cross(b, c, x)
<1> DEFINE l1 == portal.l[1] - x[1]
           l2 == portal.l[2] - x[2]
           r1 == portal.r[1] - x[1]
           r2 == portal.r[2] - x[2]
<1>1. PICK u \in Int, v \in Int : IsMean(x, portal, u, v)
  BY OnPortalIsMean
<1>2. u >= 0 /\ v >= 0 /\ u + v > 0 /\ u * l1 + v * r1 = 0 /\ u * l2 + v * r2 = 0
  BY <1>1 DEF IsMean
<1>3. portal.l \in Places /\ portal.r \in Places
  OBVIOUS
<1>4. /\ x[1] \in Int /\ x[2] \in Int /\ portal.l[1] \in Int /\ portal.l[2] \in Int
      /\ portal.r[1] \in Int /\ portal.r[2] \in Int
  BY <1>3, PlaceIsSpot
<1>5. l1 \in Int /\ l2 \in Int /\ r1 \in Int /\ r2 \in Int
  BY <1>4
<1>6. ASSUME NEW b \in Places, NEW c \in Places
      PROVE  u * Cross(b, c, portal.l) + v * Cross(b, c, portal.r) = (u + v) * Cross(b, c, x)
  <2> DEFINE d == c[1] - b[1]
             e == c[2] - b[2]
             k == Cross(b, c, x)
  <2>1. /\ b[1] \in Int /\ b[2] \in Int /\ c[1] \in Int /\ c[2] \in Int /\ d \in Int /\ e \in Int /\ k \in Int
    BY PlaceIsSpot, CrossInt
  <2>2. Cross(b, c, portal.l) = k + (d * l2 - e * l1) /\ Cross(b, c, portal.r) = k + (d * r2 - e * r1)
    <3>1. /\ portal.l[1] - b[1] = l1 + (x[1] - b[1]) /\ portal.l[2] - b[2] = l2 + (x[2] - b[2])
          /\ portal.r[1] - b[1] = r1 + (x[1] - b[1]) /\ portal.r[2] - b[2] = r2 + (x[2] - b[2])
      BY <1>4, <2>1
    <3>2. x[1] - b[1] \in Int /\ x[2] - b[2] \in Int
      BY <1>4, <2>1
    <3> HIDE DEF l1, l2, r1, r2, d, e
    <3>3. k = d * (x[2] - b[2]) - e * (x[1] - b[1])
      BY DEF Cross, d, e
    <3>4. /\ Cross(b, c, portal.l) = d * (l2 + (x[2] - b[2])) - e * (l1 + (x[1] - b[1]))
          /\ Cross(b, c, portal.r) = d * (r2 + (x[2] - b[2])) - e * (r1 + (x[1] - b[1]))
      BY <3>1 DEF Cross, d, e
    <3> HIDE DEF k
    <3>5. QED
      BY <1>5, <2>1, <3>2, <3>3, <3>4
  <2> HIDE DEF l1, l2, r1, r2, d, e, k
  <2>3. u * (k + (d * l2 - e * l1)) + v * (k + (d * r2 - e * r1))
          = (u + v) * k + d * (u * l2 + v * r2) - e * (u * l1 + v * r1)
    BY <1>5, <2>1
  <2>4. (u + v) * k + d * (u * l2 + v * r2) - e * (u * l1 + v * r1) = (u + v) * k
    BY <1>2, <2>1
  <2>5. QED
    BY <2>2, <2>3, <2>4 DEF k
<1>7. QED
  BY <1>2, <1>6

\* A triangle turns the same way from each of its corners.
LEMMA CrossTurns ==
  ASSUME NEW a \in Places, NEW p \in Places, NEW q \in Places
  PROVE  /\ Cross(a, p, q) = Cross(p, q, a) /\ Cross(a, p, q) = Cross(q, a, p)
         /\ Area(a, p, q) = Area(p, q, a) /\ Area(a, p, q) = Area(q, a, p)
<1>1. /\ a[1] \in Int /\ a[2] \in Int /\ p[1] \in Int /\ p[2] \in Int /\ q[1] \in Int /\ q[2] \in Int
  BY PlaceIsSpot
<1>2. Cross(a, p, q) = Cross(p, q, a) /\ Cross(a, p, q) = Cross(q, a, p)
  BY <1>1 DEF Cross
<1>3. /\ Area(a, p, q) = -Cross(a, p, q) /\ Area(p, q, a) = -Cross(p, q, a)
      /\ Area(q, a, p) = -Cross(q, a, p)
  BY CrossInt
<1>4. QED
  BY <1>2, <1>3

\* The polygons of a corridor, where they are not entered and left at points.

\* What lies beyond the line through r and l goes forth, if these are in order.
LEMMA BeyondIsForth ==
  ASSUME NEW a \in Places, NEW l \in Places, NEW r \in Places, NEW x \in Places
  PROVE  /\ Area(x, r, l) = Forth(a, r, l, x) - Cross(a, r, l)
         /\ Area(r, l, x) = Forth(a, r, l, x) - Cross(a, r, l)
<1>1. /\ Cross(x, r, l) = Cross(a, x, r) + Cross(a, r, l) + Cross(a, l, x)
      /\ Cross(r, l, x) = Cross(a, r, l) + Cross(a, l, x) + Cross(a, x, r)
  BY CrossMoves
<1>2. Cross(a, x, r) = -Cross(a, r, x) /\ Cross(a, l, x) = -Cross(a, x, l)
  BY CrossInt
<1>3. Area(x, r, l) = -Cross(x, r, l) /\ Area(r, l, x) = -Cross(r, l, x)
  BY CrossInt
<1>4. Cross(a, r, x) \in Int /\ Cross(a, x, l) \in Int /\ Cross(a, r, l) \in Int
  BY CrossInt
<1>5. QED
  BY <1>1, <1>2, <1>3, <1>4 DEF Forth

\* Where the loop does not turn, its sides move to the ends of the portal that
\* lie between them.
Narrows(a, L, R, l, r, newL, newR) ==
  /\ newR = IF Cross(a, R, r) >= 0 THEN r ELSE R
  /\ newL = IF Cross(a, l, L) >= 0 THEN l ELSE L
  /\ Cross(a, R, r) >= 0 => a = R \/ Cross(a, r, L) > 0
  /\ Cross(a, l, L) >= 0 => a = L \/ Cross(a, newR, l) > 0

\* Both sides are seen between r and l, and in order.
InSight(a, r, l, L, R) ==
  /\ Cross(a, r, l) > 0
  /\ Cross(a, R, L) >= 0
  /\ Cross(a, r, L) >= 0 /\ Cross(a, L, l) >= 0
  /\ Cross(a, r, R) >= 0 /\ Cross(a, R, l) >= 0
  /\ Forth(a, r, l, L) > 0 /\ Forth(a, r, l, R) > 0

LEMMA OpenNarrows ==
  ASSUME NEW a \in Places, NEW l0 \in Places, NEW r0 \in Places, NEW L \in Places, NEW R \in Places,
         NEW l \in Places, NEW r \in Places, NEW newL, NEW newR,
         Forth(a, r0, l0, L) > 0, Forth(a, r0, l0, R) > 0,
         Forth(a, r0, l0, l) > 0, Forth(a, r0, l0, r) > 0,
         Cross(a, R, L) >= 0, a # L, a # R, Narrows(a, L, R, l, r, newL, newR)
  PROVE  /\ InSight(a, r, l, newL, newR)
         /\ \/ newL = L /\ newR = R
            \/ /\ Cross(a, R, L) > 0
               /\ Cross(a, R, newL) >= 0 /\ Cross(a, newL, L) >= 0
               /\ Cross(a, R, newR) >= 0 /\ Cross(a, newR, L) >= 0
<1> DEFINE Goes(x) == x \in Places /\ Forth(a, r0, l0, x) > 0
           c(x, y) == Cross(a, x, y)
<1>1. Goes(L) /\ Goes(R) /\ Goes(l) /\ Goes(r) /\ Goes(newL) /\ Goes(newR)
  BY DEF Narrows
<1>2. ASSUME NEW x, NEW y, Goes(x), Goes(y) PROVE c(x, y) \in Int /\ c(y, x) = -c(x, y) /\ c(x, x) = 0
  BY <1>2, CrossInt
<1>3. ASSUME NEW x, NEW y, NEW z, Goes(x), Goes(y), Goes(z), c(x, y) >= 0, c(y, z) >= 0
      PROVE  c(x, z) >= 0 /\ (c(x, y) > 0 \/ c(y, z) > 0 => c(x, z) > 0)
  BY <1>3, ForthInOrder
<1>4. /\ newR = IF c(R, r) >= 0 THEN r ELSE R
      /\ newL = IF c(l, L) >= 0 THEN l ELSE L
      /\ c(R, r) >= 0 => c(r, L) > 0
      /\ c(l, L) >= 0 => c(newR, l) > 0
      /\ c(R, L) >= 0
  BY DEF Narrows
<1> HIDE DEF Goes, c
<1>5. c(R, newR) >= 0 /\ c(newL, L) >= 0
  BY <1>1, <1>2, <1>4
<1>6. c(r, newR) >= 0 /\ c(newL, l) >= 0
      /\ (newR = R => c(r, newR) > 0 \/ c(R, r) >= 0) /\ (newL = L => c(newL, l) > 0 \/ c(l, L) >= 0)
  BY <1>1, <1>2, <1>4
<1>7. c(newR, L) >= 0 /\ (c(R, r) >= 0 => c(newR, L) > 0)
  BY <1>1, <1>2, <1>4
<1>8. c(newR, newL) >= 0 /\ (c(R, r) >= 0 \/ c(l, L) >= 0 => c(newR, newL) > 0)
  <2>1. CASE c(l, L) >= 0
    BY <1>1, <1>2, <1>4, <2>1
  <2>2. CASE ~(c(l, L) >= 0)
    BY <1>7, <1>4, <2>2
  <2>3. QED
    BY <2>1, <2>2
<1>9. c(r, newL) >= 0 /\ (c(r, newR) > 0 \/ c(newR, newL) > 0 => c(r, newL) > 0)
  BY <1>1, <1>3, <1>6, <1>8
<1>10. c(newR, l) >= 0 /\ (c(newR, newL) > 0 => c(newR, l) > 0)
  BY <1>1, <1>3, <1>6, <1>8
<1>11. c(r, l) >= 0 /\ (c(r, newL) > 0 => c(r, l) > 0)
  BY <1>1, <1>3, <1>6, <1>9
<1>12. c(r, l) > 0
  <2>1. CASE c(R, r) >= 0 \/ c(l, L) >= 0
    BY <1>8, <1>9, <1>11, <2>1
  <2>2. CASE ~(c(R, r) >= 0) /\ ~(c(l, L) >= 0)
    <3>1. newR = R
      BY <1>4, <2>2
    <3>2. c(r, newR) > 0
      BY <1>6, <2>2, <3>1
    <3>3. QED
      BY <1>9, <1>11, <3>2
  <2>3. QED
    BY <2>1, <2>2
<1>13. c(R, newL) >= 0 /\ (c(R, newR) > 0 \/ c(newR, newL) > 0 => c(R, newL) > 0)
  BY <1>1, <1>3, <1>5, <1>8
<1>14. (newL = L /\ newR = R) \/ c(R, L) > 0
  <2>1. CASE c(R, r) >= 0 \/ c(l, L) >= 0
    <3>1. c(R, newL) > 0
      BY <1>8, <1>13, <2>1
    <3>2. c(R, L) > 0
      BY <1>1, <1>3, <1>5, <3>1, <1>13
    <3>3. QED
      BY <3>2
  <2>2. CASE ~(c(R, r) >= 0) /\ ~(c(l, L) >= 0)
    BY <1>4, <2>2
  <2>3. QED
    BY <2>1, <2>2
<1>15. Forth(a, r, l, newL) = c(r, newL) + c(newL, l) /\ Forth(a, r, l, newR) = c(r, newR) + c(newR, l)
  BY DEF Forth, c
<1>16. /\ c(r, newL) \in Int /\ c(newL, l) \in Int /\ c(r, newR) \in Int /\ c(newR, l) \in Int
       /\ c(r, l) \in Int
  BY <1>1, <1>2
<1>17. Forth(a, r, l, newL) > 0 /\ Forth(a, r, l, newR) > 0
  <2>1. c(r, newL) > 0 \/ c(newL, l) > 0
    <3> SUFFICES ASSUME ~(c(r, newL) > 0), ~(c(newL, l) > 0) PROVE FALSE
      OBVIOUS
    <3>1. c(newL, r) >= 0 /\ c(l, newL) >= 0
      BY <1>1, <1>2, <1>6, <1>9
    <3>2. c(l, r) >= 0
      BY <1>1, <1>3, <3>1
    <3>3. c(l, r) = -c(r, l)
      BY <1>1, <1>2
    <3>4. QED
      BY <1>12, <1>16, <3>2, <3>3
  <2>2. c(r, newR) > 0 \/ c(newR, l) > 0
    <3> SUFFICES ASSUME ~(c(r, newR) > 0), ~(c(newR, l) > 0) PROVE FALSE
      OBVIOUS
    <3>1. c(newR, r) >= 0 /\ c(l, newR) >= 0
      BY <1>1, <1>2, <1>6, <1>10
    <3>2. c(l, r) >= 0
      BY <1>1, <1>3, <3>1
    <3>3. c(l, r) = -c(r, l)
      BY <1>1, <1>2
    <3>4. QED
      BY <1>12, <1>16, <3>2, <3>3
  <2>3. QED
    BY <1>6, <1>9, <1>10, <1>15, <1>16, <2>1, <2>2
<1>18. InSight(a, r, l, newL, newR)
  BY <1>6, <1>8, <1>9, <1>10, <1>12, <1>17 DEF InSight, c
<1>19. QED
  BY <1>5, <1>7, <1>13, <1>14, <1>18 DEF c
LEMMA EndsInSight ==
  ASSUME NEW a \in Places, NEW l \in Places, NEW r \in Places, Cross(a, r, l) > 0
  PROVE  InSight(a, r, l, l, r)
<1>1. Cross(a, l, l) = 0 /\ Cross(a, r, r) = 0 /\ Cross(a, r, l) \in Int
  BY CrossInt
<1>2. Forth(a, r, l, l) = Cross(a, r, l) /\ Forth(a, r, l, r) = Cross(a, r, l)
  BY <1>1 DEF Forth
<1>3. QED
  BY <1>1, <1>2 DEF InSight

\* A funnel that is shut opens to the ends of the portal.
LEMMA ShutNarrows ==
  ASSUME NEW a \in Places, NEW l \in Places, NEW r \in Places, NEW newL, NEW newR,
         Narrows(a, a, a, l, r, newL, newR)
  PROVE  newL = l /\ newR = r
<1>1. Cross(a, a, r) = 0 /\ Cross(a, l, a) = 0
  BY CrossInt
<1>2. QED
  BY <1>1 DEF Narrows

\* One whose sides meet in e stays as it is if the portal lies around e.
LEMMA RayNarrows ==
  ASSUME NEW a \in Places, NEW e \in Places, NEW l \in Places, NEW r \in Places, NEW newL, NEW newR,
         a # e, Narrows(a, e, e, l, r, newL, newR)
  PROVE  /\ newL = e /\ newR = e
         /\ l # r /\ e # l /\ e # r
         /\ Cross(e, r, l) >= 0 => InSight(a, r, l, e, e)
<1>1. /\ Cross(a, e, r) = -Cross(a, r, e) /\ Cross(a, r, e) \in Int
      /\ Cross(a, l, e) = -Cross(a, e, l) /\ Cross(a, e, l) \in Int
      /\ Cross(a, e, e) = 0 /\ Cross(a, l, r) = -Cross(a, r, l) /\ Cross(a, r, l) \in Int
  BY CrossInt
<1>2. ~(Cross(a, e, r) >= 0) /\ newR = e
  BY <1>1 DEF Narrows
<1>3. ~(Cross(a, l, e) >= 0) /\ newL = e
  BY <1>1, <1>2 DEF Narrows
<1>4. Cross(a, r, e) > 0 /\ Cross(a, e, l) > 0
  BY <1>1, <1>2, <1>3
<1>5. l # r /\ e # l /\ e # r
  BY <1>1, <1>4
<1>6. ASSUME Cross(e, r, l) >= 0 PROVE InSight(a, r, l, e, e)
  <2>1. Cross(e, r, l) = Cross(a, e, r) + Cross(a, r, l) + Cross(a, l, e)
    BY CrossMoves
  <2>2. Cross(a, r, l) > 0
    BY <1>1, <1>4, <1>6, <2>1
  <2>3. Forth(a, r, l, e) > 0
    BY <1>1, <1>4 DEF Forth
  <2>4. Cross(a, r, e) >= 0 /\ Cross(a, e, l) >= 0 /\ Cross(a, e, e) >= 0
    BY <1>1, <1>4
  <2>5. QED
    BY <2>2, <2>3, <2>4 DEF InSight
<1>7. QED
  BY <1>2, <1>3, <1>5, <1>6

\* The apex is the left end of the last portal: the string turns there at once.
LEMMA LeftShutTurns ==
  ASSUME NEW a \in Places, NEW r0 \in Places, NEW l \in Places, NEW r \in Places, NEW newL, NEW newR,
         a # r0, Area(r, r0, a) >= 0
  PROVE  ~Narrows(a, a, r0, l, r, newL, newR)
<1>1. Area(r, r0, a) = Forth(a, r0, a, r) - Cross(a, r0, a)
  BY BeyondIsForth
<1>2. Cross(a, r0, a) = 0 /\ Cross(a, r, a) = 0 /\ Cross(a, r0, r) \in Int
  BY CrossInt
<1>3. Cross(a, r0, r) >= 0
  BY <1>1, <1>2 DEF Forth
<1>4. QED
  BY <1>2, <1>3 DEF Narrows

\* The apex is its right end: the right side goes on, and so does the left one
\* unless the string turns at the right end of the next portal.
LEMMA RightShutNarrows ==
  ASSUME NEW a \in Places, NEW l0 \in Places, NEW l \in Places, NEW r \in Places, NEW newL, NEW newR,
         a # l0, Area(r, a, l0) >= 0, Area(a, l0, l) >= 0,
         Narrows(a, l0, a, l, r, newL, newR)
  PROVE  /\ newL = l /\ newR = r /\ InSight(a, r, l, newL, newR)
         /\ Cross(a, l, l0) >= 0 /\ Cross(a, r, l0) >= 0
<1>1. /\ Area(r, a, l0) = Forth(a, a, l0, r) - Cross(a, a, l0)
      /\ Area(a, l0, l) = Forth(a, a, l0, l) - Cross(a, a, l0)
  BY BeyondIsForth
<1>2. /\ Cross(a, a, l0) = 0 /\ Cross(a, a, r) = 0 /\ Cross(a, a, l) = 0
      /\ Cross(a, r, l0) \in Int /\ Cross(a, l, l0) \in Int
  BY CrossInt
<1>3. Cross(a, l, l0) >= 0 /\ Cross(a, r, l0) >= 0
  BY <1>1, <1>2 DEF Forth
<1>4. newL = l /\ newR = r /\ Cross(a, r, l) > 0
  BY <1>2, <1>3 DEF Narrows
<1>5. InSight(a, r, l, newL, newR)
  BY <1>4, EndsInSight
<1>6. QED
  BY <1>3, <1>4, <1>5
\* Two directions on one line.
LEMMA OneDirection ==
  ASSUME NEW a \in Places, NEW p \in Places, NEW q \in Places, p # a, q # a, Cross(a, p, q) = 0
  PROVE  \E u, v \in Int :
           /\ u > 0 /\ v # 0 /\ (p # q => u # v)
           /\ \A y \in Places : u * Cross(a, q, y) = v * Cross(a, p, y)
           /\ v < 0 => Between(a, p, q)
<1> DEFINE p1 == p[1] - a[1]
           p2 == p[2] - a[2]
           q1 == q[1] - a[1]
           q2 == q[2] - a[2]
           Same(u, v) ==
             /\ u # 0 /\ v # 0 /\ (p # q => u # v)
             /\ \A y1, y2 \in Int : u * (q1 * y2 - q2 * y1) = v * (p1 * y2 - p2 * y1)
             /\ u * v < 0 => p1 * q1 <= 0 /\ p2 * q2 <= 0
<1>1. /\ a = <<a[1], a[2], 1>> /\ p = <<p[1], p[2], 1>> /\ q = <<q[1], q[2], 1>>
      /\ a[1] \in Int /\ a[2] \in Int /\ p[1] \in Int /\ p[2] \in Int /\ q[1] \in Int /\ q[2] \in Int
  BY DEF Places
<1>2. /\ p1 \in Int /\ p2 \in Int /\ q1 \in Int /\ q2 \in Int
      /\ p1 # 0 \/ p2 # 0
      /\ q1 # 0 \/ q2 # 0
      /\ p # q => p1 # q1 \/ p2 # q2
  BY <1>1
<1>3. p1 * q2 = p2 * q1
  BY <1>2 DEF Cross
<1>4. \A x, y \in Int : x # 0 /\ x * y = 0 => y = 0
  OBVIOUS
<1> HIDE DEF p1, p2, q1, q2
<1>5. \E u, v \in Int : Same(u, v)
  <2>1. CASE p1 # 0
    <3>1. q1 # 0
      <4> SUFFICES ASSUME q1 = 0 PROVE FALSE
        OBVIOUS
      <4>1. p1 * q2 = 0
        BY <1>2, <1>3
      <4>2. QED
        BY <1>2, <1>4, <2>1, <4>1
    <3>2. p # q => p1 # q1
      <4> SUFFICES ASSUME p # q, p1 = q1 PROVE FALSE
        OBVIOUS
      <4>1. p1 * (q2 - p2) = 0 /\ q2 - p2 \in Int
        BY <1>2, <1>3
      <4>2. q2 - p2 = 0
        BY <1>2, <1>4, <2>1, <4>1
      <4>3. QED
        BY <1>2, <4>2
    <3>3. ASSUME NEW y1 \in Int, NEW y2 \in Int
          PROVE  p1 * (q1 * y2 - q2 * y1) = q1 * (p1 * y2 - p2 * y1)
      <4>1. p1 * (q1 * y2 - q2 * y1) = q1 * (p1 * y2) - (p1 * q2) * y1
        BY <1>2
      <4>2. q1 * (p1 * y2 - p2 * y1) = q1 * (p1 * y2) - (p2 * q1) * y1
        BY <1>2
      <4>3. QED
        BY <1>3, <4>1, <4>2
    <3>4. p1 * q1 < 0 => p1 * q1 <= 0 /\ p2 * q2 <= 0
      <4> SUFFICES ASSUME p1 * q1 < 0, p2 * q2 > 0 PROVE FALSE
        BY <1>2
      <4>1. \A x, y \in Int : x < 0 /\ y > 0 => x * y < 0
        OBVIOUS
      <4>2. (p1 * q1) * (p2 * q2) < 0
        BY <1>2, <4>1
      <4>3. (p1 * q1) * (p2 * q2) = (p1 * q2) * (p2 * q1)
        BY <1>2
      <4>4. \A x \in Int : x * x >= 0
        OBVIOUS
      <4>5. p2 * q1 \in Int /\ (p2 * q1) * (p2 * q1) < 0
        BY <1>2, <1>3, <4>2, <4>3
      <4>6. QED
        BY <4>4, <4>5
    <3>5. QED
      BY <1>2, <2>1, <3>1, <3>2, <3>3, <3>4
  <2>2. CASE p1 = 0
    <3>1. p2 # 0 /\ p2 * q1 = 0
      BY <1>2, <1>3, <2>2
    <3>2. q1 = 0 /\ q2 # 0
      BY <1>2, <1>4, <3>1
    <3>3. \A y1, y2 \in Int : p2 * (q1 * y2 - q2 * y1) = q2 * (p1 * y2 - p2 * y1)
      BY <1>2, <2>2, <3>2
    <3>4. (p # q => p2 # q2) /\ (p2 * q2 < 0 => p1 * q1 <= 0 /\ p2 * q2 <= 0)
      BY <1>2, <2>2, <3>2
    <3>5. QED
      BY <1>2, <3>1, <3>2, <3>3, <3>4
  <2>3. QED
    BY <2>1, <2>2
<1>6. PICK u \in Int, v \in Int : Same(u, v)
  BY <1>5
<1>7. ASSUME NEW y \in Places PROVE u * Cross(a, q, y) = v * Cross(a, p, y)
  <2>1. y[1] - a[1] \in Int /\ y[2] - a[2] \in Int
    BY <1>1, PlaceIsSpot
  <2>2. QED
    BY <1>6, <2>1 DEF Cross, p1, p2, q1, q2
<1>8. ASSUME u * v < 0 PROVE Between(a, p, q)
  <2>1. Area(p, q, a) = 0
    <3>1. Area(a, p, q) = Area(p, q, a)
      BY CrossTurns
    <3>2. Area(a, p, q) = -Cross(a, p, q) /\ Cross(a, p, q) \in Int
      BY CrossInt
    <3>3. Area(a, p, q) \in Int /\ ~(Area(a, p, q) > 0) /\ ~(Area(a, p, q) < 0)
      BY <3>2
    <3>4. QED
      BY <3>1, <3>3
  <2>2. /\ Diff(p, a, 1) = -p1 /\ Diff(p, a, 2) = -p2 /\ Diff(a, q, 1) = q1 /\ Diff(a, q, 2) = q2
    BY <1>1, PlaceIsSpot DEF Diff, p1, p2, q1, q2
  <2>3. p1 * q1 <= 0 /\ p2 * q2 <= 0
    BY <1>6, <1>8
  <2>4. Diff(p, a, 1) * Diff(a, q, 1) >= 0 /\ Diff(p, a, 2) * Diff(a, q, 2) >= 0
    BY <1>2, <2>2, <2>3
  <2>5. QED
    BY <2>1, <2>4 DEF Between
<1>9. CASE u > 0
  <2>1. v < 0 => u * v < 0
    BY <1>9
  <2>2. QED
    BY <1>6, <1>7, <1>8, <1>9, <2>1
<1>10. CASE u < 0
  <2> DEFINE w == -u
             z == -v
  <2>1. w \in Int /\ z \in Int /\ w > 0 /\ z # 0 /\ (p # q => w # z)
    BY <1>6, <1>10
  <2>2. z < 0 => u * v < 0
    BY <1>10
  <2>3. ASSUME NEW y \in Places PROVE w * Cross(a, q, y) = z * Cross(a, p, y)
    <3>1. Cross(a, q, y) \in Int /\ Cross(a, p, y) \in Int
      BY CrossInt
    <3>2. \A c, d \in Int : u * c = v * d => (-u) * c = (-v) * d
      OBVIOUS
    <3>3. QED
      BY <1>7, <3>1, <3>2
  <2> HIDE DEF w, z
  <2>4. QED
    BY <1>8, <2>1, <2>2, <2>3
<1>11. QED
  BY <1>6, <1>9, <1>10

\* The last portal is seen edge-on: the string turns at once, or the apex is on it.
LEMMA FlatNarrows ==
  ASSUME NEW a \in Places, NEW l0 \in Places, NEW r0 \in Places, NEW l \in Places, NEW r \in Places,
         NEW newL, NEW newR, l0 # r0, l0 # a, r0 # a, Cross(a, r0, l0) = 0,
         Area(r, r0, l0) >= 0, Area(r0, l0, l) >= 0, Narrows(a, l0, r0, l, r, newL, newR)
  PROVE  /\ newL = l /\ newR = r /\ Cross(a, r, l) > 0 /\ Between(a, l0, r0)
         /\ Cross(a, r0, r) > 0 /\ Cross(a, r, l0) > 0 /\ Cross(a, r0, l) >= 0 /\ Cross(a, l, l0) >= 0
<1> DEFINE X(y) == Cross(a, l0, y)
           Y(y) == Cross(a, r0, y)
<1>1. Cross(a, l0, r0) = 0
  <2>1. PICK c \in Int : Cross(a, l0, r0) = -c /\ c <= 0 /\ c >= 0
    BY CrossInt
  <2>2. QED
    BY <2>1
<1>2. PICK u \in Int, v \in Int :
        /\ u > 0 /\ v # 0 /\ u # v
        /\ \A y \in Places : u * Y(y) = v * X(y)
        /\ v < 0 => Between(a, l0, r0)
  BY <1>1, OneDirection
<1>3. /\ X(l) \in Int /\ X(r) \in Int /\ Y(l) \in Int /\ Y(r) \in Int
      /\ Cross(a, l, l0) = -X(l) /\ Cross(a, r, l0) = -X(r)
  BY CrossInt
<1>4. Y(r) - X(r) >= 0 /\ Y(l) - X(l) >= 0
  <2>1. Area(r, r0, l0) = Forth(a, r0, l0, r) - Cross(a, r0, l0) /\ Area(r0, l0, l) = Forth(a, r0, l0, l) - Cross(a, r0, l0)
    BY BeyondIsForth
  <2>2. QED
    BY <1>3, <2>1 DEF Forth
<1>5. /\ newR = IF Y(r) >= 0 THEN r ELSE r0
      /\ newL = IF -X(l) >= 0 THEN l ELSE l0
      /\ Y(r) >= 0 => -X(r) > 0
      /\ -X(l) >= 0 => Cross(a, newR, l) > 0
  BY <1>3 DEF Narrows
<1>6. u * Y(r) = v * X(r) /\ u * Y(l) = v * X(l)
  BY <1>2
<1> DEFINE xl == X(l)
           xr == X(r)
           yl == Y(l)
           yr == Y(r)
           Opposite == \A x, y \in Int : y - x >= 0 /\ u * y = v * x /\ v < 0 =>
                         x <= 0 /\ y >= 0 /\ (y > 0 <=> x < 0)
           Along == \A x, y \in Int : y - x >= 0 /\ u * y = v * x /\ v > 0 =>
                      /\ (x >= 0 <=> y >= 0) /\ (x > 0 <=> y > 0)
                      /\ x < 0 => v < u
                      /\ x > 0 => v > u
<1>7. Opposite
  <2> SUFFICES ASSUME NEW x \in Int, NEW y \in Int, y - x >= 0, u * y = v * x, v < 0
               PROVE  x <= 0 /\ y >= 0 /\ (y > 0 <=> x < 0)
    OBVIOUS
  <2>1. x > 0 => v * x < 0 /\ u * y > 0
    BY <1>2
  <2>2. x < 0 => v * x > 0
    OBVIOUS
  <2>3. (y > 0 => u * y > 0) /\ (y < 0 => u * y < 0) /\ (y = 0 => u * y = 0) /\ (x = 0 => v * x = 0)
    BY <1>2
  <2>4. QED
    BY <2>1, <2>2, <2>3
<1>8. Along
  <2> SUFFICES ASSUME NEW x \in Int, NEW y \in Int, y - x >= 0, u * y = v * x, v > 0
               PROVE  /\ (x >= 0 <=> y >= 0) /\ (x > 0 <=> y > 0)
                      /\ x < 0 => v < u
                      /\ x > 0 => v > u
    OBVIOUS
  <2>1. (x > 0 => v * x > 0) /\ (x < 0 => v * x < 0) /\ (x = 0 => v * x = 0)
    OBVIOUS
  <2>2. (y > 0 => u * y > 0) /\ (y < 0 => u * y < 0) /\ (y = 0 => u * y = 0)
    BY <1>2
  <2>3. (v - u) * x >= 0
    <3>1. u * (y - x) >= 0
      BY <1>2
    <3>2. u * (y - x) = u * y - u * x /\ (v - u) * x = v * x - u * x
      BY <1>2
    <3>3. QED
      BY <3>1, <3>2
  <2>4. \A w \in Int : w * x >= 0 /\ x # 0 => (x < 0 => w <= 0) /\ (x > 0 => w >= 0)
    OBVIOUS
  <2>5. x # 0 => (x < 0 => v - u <= 0) /\ (x > 0 => v - u >= 0)
    BY <2>3, <2>4
  <2>6. QED
    BY <1>2, <2>1, <2>2, <2>5
<1> HIDE DEF Opposite, Along, xl, xr, yl, yr
<1>9. /\ xl \in Int /\ xr \in Int /\ yl \in Int /\ yr \in Int
      /\ yr - xr >= 0 /\ yl - xl >= 0 /\ u * yr = v * xr /\ u * yl = v * xl
      /\ newR = IF yr >= 0 THEN r ELSE r0
      /\ newL = IF -xl >= 0 THEN l ELSE l0
      /\ yr >= 0 => -xr > 0
      /\ -xl >= 0 => Cross(a, newR, l) > 0
  BY <1>3, <1>4, <1>5, <1>6 DEF xl, xr, yl, yr
<1>10. CASE v < 0
  <2>1. xl <= 0 /\ yl >= 0 /\ xr <= 0 /\ yr >= 0 /\ (yr > 0 <=> xr < 0)
    BY <1>7, <1>9, <1>10 DEF Opposite
  <2>2. newR = r /\ newL = l /\ -xr > 0 /\ yr > 0 /\ -xl >= 0
    BY <1>9, <2>1
  <2>3. Cross(a, r, l) > 0
    BY <1>9, <2>2
  <2>4. Cross(a, r0, r) > 0 /\ Cross(a, r, l0) > 0 /\ Cross(a, r0, l) >= 0 /\ Cross(a, l, l0) >= 0
    BY <1>3, <2>1, <2>2 DEF xl, xr, yl, yr
  <2>5. QED
    BY <1>2, <1>10, <2>2, <2>3, <2>4
<1>11. CASE v > 0
  <2>1. /\ (xr >= 0 <=> yr >= 0) /\ (xr < 0 => v < u)
        /\ (xl > 0 <=> yl > 0) /\ (xl > 0 => v > u)
    BY <1>8, <1>9, <1>11 DEF Along
  <2>2. ~(yr >= 0) /\ newR = r0 /\ v < u
    BY <1>9, <2>1
  <2>3. -xl >= 0 /\ Cross(a, r0, l) > 0
    BY <1>2, <1>9, <2>1, <2>2
  <2>4. yl > 0
    BY <2>3 DEF yl
  <2>5. QED
    BY <1>9, <2>1, <2>3, <2>4
<1>12. QED
  BY <1>2, <1>10, <1>11

\* If the next right end is seen between its ends, the apex is on it.
LEMMA FlatIsTouched ==
  ASSUME NEW a \in Places, NEW l0 \in Places, NEW r0 \in Places, NEW r \in Places,
         l0 # a, r0 # a, Cross(a, r0, l0) = 0, Cross(a, r0, r) >= 0, Cross(a, r, l0) > 0
  PROVE  Between(a, l0, r0)
<1>1. /\ Cross(a, l0, r) = -Cross(a, r, l0) /\ Cross(a, r, l0) \in Int /\ Cross(a, r0, r) \in Int
  BY CrossInt
<1>2. Cross(a, l0, r0) = 0
  <2>1. PICK c \in Int : Cross(a, l0, r0) = -c /\ c <= 0 /\ c >= 0
    BY CrossInt
  <2>2. QED
    BY <2>1
<1>3. PICK u \in Int, v \in Int :
        /\ u > 0 /\ v # 0
        /\ u * Cross(a, r0, r) = v * Cross(a, l0, r)
        /\ v < 0 => Between(a, l0, r0)
  BY <1>2, OneDirection
<1>4. ASSUME v > 0 PROVE FALSE
  <2> DEFINE x == Cross(a, l0, r)
             y == Cross(a, r0, r)
  <2>1. x \in Int /\ y \in Int /\ x < 0 /\ y >= 0 /\ u * y = v * x
    BY <1>1, <1>3
  <2> HIDE DEF x, y
  <2>2. v * x < 0 /\ u * y >= 0
    BY <1>3, <1>4, <2>1
  <2>3. QED
    BY <2>1, <2>2
<1>5. QED
  BY <1>3, <1>4

\* What two places on either side of a have in common is on the line through them.
LEMMA BothSides ==
  ASSUME NEW portal \in [l : Places, r : Places], NEW a \in Places, OnPortal(a, portal), a # portal.l, a # portal.r,
         NEW x \in Places
  PROVE  /\ Cross(a, portal.l, x) >= 0 /\ Cross(a, portal.r, x) >= 0 =>
              Cross(a, portal.l, x) = 0 /\ Cross(a, portal.r, x) = 0
         /\ Cross(a, portal.l, x) <= 0 /\ Cross(a, portal.r, x) <= 0 =>
              Cross(a, portal.l, x) = 0 /\ Cross(a, portal.r, x) = 0
<1> DEFINE l1 == portal.l[1] - a[1]
           l2 == portal.l[2] - a[2]
           r1 == portal.r[1] - a[1]
           r2 == portal.r[2] - a[2]
           b == Cross(a, portal.l, x)
           c == Cross(a, portal.r, x)
<1>1. PICK u \in Int, v \in Int : IsMean(a, portal, u, v)
  BY OnPortalIsMean
<1>2. portal.l \in Places /\ portal.r \in Places
  OBVIOUS
<1>3. /\ a = <<a[1], a[2], 1>> /\ portal.l = <<portal.l[1], portal.l[2], 1>> /\ portal.r = <<portal.r[1], portal.r[2], 1>>
      /\ a[1] \in Int /\ a[2] \in Int /\ portal.l[1] \in Int /\ portal.l[2] \in Int
      /\ portal.r[1] \in Int /\ portal.r[2] \in Int /\ x[1] \in Int /\ x[2] \in Int
  BY <1>2 DEF Places
<1>4. /\ l1 \in Int /\ l2 \in Int /\ r1 \in Int /\ r2 \in Int
      /\ l1 # 0 \/ l2 # 0
      /\ r1 # 0 \/ r2 # 0
  BY <1>3
<1>5. u >= 0 /\ v >= 0 /\ u + v > 0 /\ u * l1 + v * r1 = 0 /\ u * l2 + v * r2 = 0
  BY <1>1 DEF IsMean
<1>6. b = l1 * (x[2] - a[2]) - l2 * (x[1] - a[1]) /\ c = r1 * (x[2] - a[2]) - r2 * (x[1] - a[1])
  BY DEF Cross
<1>7. b \in Int /\ c \in Int
  BY <1>2, CrossInt
<1> HIDE DEF l1, l2, r1, r2, b, c
<1>8. u > 0 /\ v > 0
  <2>1. \A y, z \in Int : z > 0 /\ z * y = 0 => y = 0
    OBVIOUS
  <2>2. u = 0 => v > 0 /\ v * r1 = 0 /\ v * r2 = 0
    BY <1>4, <1>5
  <2>3. v = 0 => u > 0 /\ u * l1 = 0 /\ u * l2 = 0
    BY <1>4, <1>5
  <2>4. QED
    BY <1>4, <1>5, <2>1, <2>2, <2>3
<1>9. u * b + v * c = 0
  <2>1. u * b + v * c = (u * l1 + v * r1) * (x[2] - a[2]) - (u * l2 + v * r2) * (x[1] - a[1])
    BY <1>3, <1>4, <1>6
  <2>2. QED
    BY <1>3, <1>5, <2>1
<1>10. \A y, z \in Int : u * y + v * z = 0 => (y >= 0 /\ z >= 0 => y = 0 /\ z = 0) /\ (y <= 0 /\ z <= 0 => y = 0 /\ z = 0)
  <2> SUFFICES ASSUME NEW y \in Int, NEW z \in Int, u * y + v * z = 0
               PROVE  (y >= 0 /\ z >= 0 => y = 0 /\ z = 0) /\ (y <= 0 /\ z <= 0 => y = 0 /\ z = 0)
    OBVIOUS
  <2>1. (y > 0 => u * y > 0) /\ (z > 0 => v * z > 0) /\ (y >= 0 => u * y >= 0) /\ (z >= 0 => v * z >= 0)
    BY <1>8
  <2>2. (y < 0 => u * y < 0) /\ (z < 0 => v * z < 0) /\ (y <= 0 => u * y <= 0) /\ (z <= 0 => v * z <= 0)
    BY <1>8
  <2>3. u * y \in Int /\ v * z \in Int
    OBVIOUS
  <2>4. QED
    BY <2>1, <2>2, <2>3
<1>11. QED
  BY <1>7, <1>9, <1>10 DEF b, c

\* What lies between two places, in the same words.
LEMMA BetweenIsMean ==
  ASSUME NEW p \in Places, NEW q \in Places, NEW x \in Places, Between(x, p, q)
  PROVE  \E u, v \in Int :
           /\ u >= 0 /\ v >= 0 /\ u + v > 0
           /\ \A b, c \in Places : u * Cross(b, c, p) + v * Cross(b, c, q) = (u + v) * Cross(b, c, x)
<1>1. PICK portal \in [l : Places, r : Places] : portal.l = p /\ portal.r = q
  <2>1. [l |-> p, r |-> q] \in [l : Places, r : Places]
    OBVIOUS
  <2>2. QED
    BY <2>1
<1>2. OnPortal(x, portal)
  BY <1>1 DEF OnPortal
<1>3. QED
  BY <1>1, <1>2, CrossIsMean

\* It is on the side of a line that both are on.
LEMMA BetweenSides ==
  ASSUME NEW a \in Places, NEW b \in Places, NEW p \in Places, NEW q \in Places, NEW x \in Places, Between(x, p, q)
  PROVE  /\ Cross(a, b, p) >= 0 /\ Cross(a, b, q) >= 0 => Cross(a, b, x) >= 0
         /\ Cross(a, b, p) < 0 /\ Cross(a, b, q) < 0 => Cross(a, b, x) < 0
<1> DEFINE y == Cross(a, b, p)
           z == Cross(a, b, q)
           w == Cross(a, b, x)
<1>1. PICK u \in Int, v \in Int :
        /\ u >= 0 /\ v >= 0 /\ u + v > 0
        /\ \A c, d \in Places : u * Cross(c, d, p) + v * Cross(c, d, q) = (u + v) * Cross(c, d, x)
  BY BetweenIsMean
<1>2. u * y + v * z = (u + v) * w
  BY <1>1
<1>3. y \in Int /\ z \in Int /\ w \in Int
  BY CrossInt
<1> HIDE DEF y, z, w
<1>4. u + v \in Int /\ u * y \in Int /\ v * z \in Int
  BY <1>3
<1>5. \A s, i \in Int : s > 0 => (s * i >= 0 => i >= 0) /\ (s * i < 0 => i < 0)
  OBVIOUS
<1>6. ASSUME y >= 0, z >= 0 PROVE w >= 0
  <2>1. u * y >= 0 /\ v * z >= 0
    BY <1>1, <1>3, <1>6
  <2>2. (u + v) * w >= 0
    BY <1>2, <1>4, <2>1
  <2>3. QED
    BY <1>1, <1>3, <1>4, <1>5, <2>2
<1>7. ASSUME y < 0, z < 0 PROVE w < 0
  <2>1. u * y <= 0 /\ v * z <= 0 /\ (u > 0 => u * y < 0) /\ (v > 0 => v * z < 0)
    BY <1>1, <1>3, <1>7
  <2>2. u > 0 \/ v > 0
    BY <1>1
  <2>3. u * y + v * z < 0
    BY <1>4, <2>1, <2>2
  <2>4. (u + v) * w < 0
    BY <1>2, <2>3
  <2>5. QED
    BY <1>1, <1>3, <1>4, <1>5, <2>4
<1>8. QED
  BY <1>6, <1>7 DEF y, z, w

\* What two directions tell of a place tells where it is.
LEMMA TwoCrosses ==
  ASSUME NEW a \in Places, NEW p \in Places, NEW q \in Places, Cross(a, p, q) > 0,
         NEW x \in Places, NEW y \in Places,
         Cross(a, p, x) = Cross(a, p, y), Cross(a, x, q) = Cross(a, y, q)
  PROVE  x = y
<1> DEFINE p1 == p[1] - a[1]
           p2 == p[2] - a[2]
           q1 == q[1] - a[1]
           q2 == q[2] - a[2]
           x1 == x[1] - a[1]
           x2 == x[2] - a[2]
           y1 == y[1] - a[1]
           y2 == y[2] - a[2]
<1>1. /\ p1 \in Int /\ p2 \in Int /\ q1 \in Int /\ q2 \in Int
      /\ x1 \in Int /\ x2 \in Int /\ y1 \in Int /\ y2 \in Int
      /\ x1 - y1 = x[1] - y[1] /\ x2 - y2 = x[2] - y[2]
      /\ x[1] \in Int /\ x[2] \in Int /\ y[1] \in Int /\ y[2] \in Int
      /\ x = <<x[1], x[2], 1>> /\ y = <<y[1], y[2], 1>>
  BY DEF Places
<1>2. /\ p1 * q2 - p2 * q1 > 0
      /\ p1 * x2 - p2 * x1 = p1 * y2 - p2 * y1
      /\ x1 * q2 - x2 * q1 = y1 * q2 - y2 * q1
  BY DEF Cross
<1> HIDE DEF p1, p2, q1, q2, x1, x2, y1, y2
<1> DEFINE c == p1 * q2 - p2 * q1
           d1 == x1 - y1
           d2 == x2 - y2
<1>3. c * d1 = 0 /\ c * d2 = 0
  <2>1. p1 * d2 - p2 * d1 = 0 /\ d1 * q2 - d2 * q1 = 0
    BY <1>1, <1>2
  <2>2. /\ c * d1 = p1 * (d1 * q2 - d2 * q1) + q1 * (p1 * d2 - p2 * d1)
        /\ c * d2 = p2 * (d1 * q2 - d2 * q1) + q2 * (p1 * d2 - p2 * d1)
    BY <1>1
  <2>3. QED
    BY <1>1, <2>1, <2>2
<1>4. c \in Int /\ c > 0 /\ d1 \in Int /\ d2 \in Int
  BY <1>1, <1>2
<1>5. \A i, j \in Int : i > 0 /\ i * j = 0 => j = 0
  OBVIOUS
<1>6. d1 = 0 /\ d2 = 0
  <2> HIDE DEF c, d1, d2
  <2>1. QED
    BY <1>3, <1>4, <1>5
<1>7. x[1] - y[1] = 0 /\ x[2] - y[2] = 0
  BY <1>1, <1>6
<1>8. \A i, j \in Int : i - j = 0 => i = j
  OBVIOUS
<1>9. x[1] = y[1] /\ x[2] = y[2]
  BY <1>1, <1>7, <1>8
<1>10. QED
  BY <1>1, <1>9

\* The line from A to q goes on to F.
LEMMA LineGoesOn ==
  ASSUME NEW A \in Places, NEW q \in Places
  PROVE  \E F \in Places : \A y \in Places : Cross(A, q, y) = Cross(q, F, y)
<1> DEFINE F == <<q[1] + q[1] - A[1], q[2] + q[2] - A[2], 1>>
<1>1. /\ A[1] \in Int /\ A[2] \in Int /\ q[1] \in Int /\ q[2] \in Int
      /\ \A y \in Places : y[1] \in Int /\ y[2] \in Int
  BY PlaceIsSpot
<1>2. F \in Places /\ F[1] - q[1] = q[1] - A[1] /\ F[2] - q[2] = q[2] - A[2]
  BY <1>1 DEF Places
<1> HIDE DEF F
<1>3. ASSUME NEW y \in Places PROVE Cross(A, q, y) = Cross(q, F, y)
  <2> DEFINE b == q[1] - A[1]
             c == q[2] - A[2]
             u == y[1] - q[1]
             v == y[2] - q[2]
  <2>1. b \in Int /\ c \in Int /\ u \in Int /\ v \in Int /\ y[2] - A[2] = v + c /\ y[1] - A[1] = u + b
    BY <1>1
  <2>2. Cross(A, q, y) = b * (v + c) - c * (u + b) /\ Cross(q, F, y) = b * v - c * u
    BY <1>2, <2>1 DEF Cross
  <2> HIDE DEF b, c, u, v
  <2>3. b * (v + c) - c * (u + b) = b * v - c * u
    BY <2>1
  <2>4. QED
    BY <2>2, <2>3
<1>4. QED
  BY <1>2, <1>3

\* Two directions on one line that the line from A parts are opposite.
LEMMA PartedIsBetween ==
  ASSUME NEW A \in Places, NEW a \in Places, NEW p \in Places, NEW q \in Places,
         p # a, q # a, Cross(a, p, q) = 0,
         \/ Cross(A, a, p) > 0 /\ Cross(A, a, q) <= 0
         \/ Cross(A, a, p) >= 0 /\ Cross(A, a, q) < 0
  PROVE  Between(a, p, q)
<1> DEFINE x == Cross(A, a, p)
           y == Cross(A, a, q)
<1>1. PICK u \in Int, v \in Int :
        /\ u > 0 /\ v # 0
        /\ \A z \in Places : u * Cross(a, q, z) = v * Cross(a, p, z)
        /\ v < 0 => Between(a, p, q)
  BY OneDirection
<1>2. PICK F \in Places : \A z \in Places : Cross(A, a, z) = Cross(a, F, z)
  BY LineGoesOn
<1>3. x \in Int /\ y \in Int /\ Cross(a, q, F) = -y /\ Cross(a, p, F) = -x
  BY <1>2, CrossInt
<1>4. u * (-y) = v * (-x)
  BY <1>1, <1>2, <1>3
<1>5. (x > 0 /\ y <= 0) \/ (x >= 0 /\ y < 0)
  OBVIOUS
<1> HIDE DEF x, y
<1>6. u * y = v * x
  BY <1>1, <1>3, <1>4
<1>7. ASSUME v > 0 PROVE FALSE
  <2>1. (x > 0 => v * x > 0) /\ (x >= 0 => v * x >= 0)
    BY <1>3, <1>7
  <2>2. (y < 0 => u * y < 0) /\ (y <= 0 => u * y <= 0)
    BY <1>1, <1>3
  <2>3. v * x \in Int /\ u * y \in Int
    BY <1>3
  <2>4. QED
    BY <1>5, <1>6, <2>1, <2>2, <2>3
<1>8. QED
  BY <1>1, <1>7

\* What is further to the left, of two directions that go forth, is left of the
\* line if the other one is.
LEMMA InOrderOfLine ==
  ASSUME NEW A \in Places, NEW a \in Places, NEW l \in Places, NEW r \in Places,
         NEW x \in Places, NEW y \in Places,
         Cross(A, a, l) > Cross(A, a, r), Forth(a, r, l, x) > 0, Forth(a, r, l, y) > 0,
         Cross(a, x, y) >= 0
  PROVE  /\ Cross(A, a, x) >= 0 => Cross(A, a, y) >= 0
         /\ Cross(A, a, x) > 0 => Cross(A, a, y) > 0
         /\ Cross(A, a, x) >= 0 /\ Cross(a, x, y) > 0 => Cross(A, a, y) > 0
<1>1. PICK F \in Places : \A z \in Places : Cross(A, a, z) = Cross(a, F, z)
  BY LineGoesOn
<1>2. /\ Cross(a, F, l) \in Int /\ Cross(a, F, r) \in Int /\ Cross(a, r, F) = -Cross(a, F, r)
      /\ Cross(a, F, l) > Cross(a, F, r)
  BY <1>1, CrossInt
<1>3. Forth(a, r, l, F) > 0
  BY <1>2 DEF Forth
<1>4. Cross(a, F, x) \in Int
  BY CrossInt
<1>5. Cross(a, F, x) >= 0 => Cross(a, F, y) >= 0 /\ (Cross(a, F, x) > 0 \/ Cross(a, x, y) > 0 => Cross(a, F, y) > 0)
  BY <1>3, ForthInOrder
<1>6. Cross(a, F, x) > 0 => Cross(a, F, x) >= 0
  BY <1>4
<1>7. Cross(A, a, x) = Cross(a, F, x) /\ Cross(A, a, y) = Cross(a, F, y)
  BY <1>1
<1>8. QED
  BY <1>5, <1>6, <1>7

\* What lies between two directions on one side of the line is there too.
LEMMA BetweenOfLine ==
  ASSUME NEW A \in Places, NEW a \in Places, NEW p \in Places, NEW q \in Places, NEW x \in Places,
         Cross(a, p, q) > 0, Cross(a, p, x) >= 0, Cross(a, x, q) >= 0
  PROVE  /\ Cross(A, a, p) >= 0 /\ Cross(A, a, q) >= 0 => Cross(A, a, x) >= 0
         /\ Cross(A, a, p) <= 0 /\ Cross(A, a, q) <= 0 => Cross(A, a, x) <= 0
<1>1. PICK F \in Places : \A z \in Places : Cross(A, a, z) = Cross(a, F, z)
  BY LineGoesOn
<1>2. /\ Cross(a, F, p) >= 0 /\ Cross(a, F, q) >= 0 => Cross(a, F, x) >= 0
      /\ Cross(a, p, F) >= 0 /\ Cross(a, q, F) >= 0 => Cross(a, x, F) >= 0
  BY BetweenBoth
<1>3. /\ Cross(a, p, F) = -Cross(a, F, p) /\ Cross(a, F, p) \in Int
      /\ Cross(a, q, F) = -Cross(a, F, q) /\ Cross(a, F, q) \in Int
      /\ Cross(a, x, F) = -Cross(a, F, x) /\ Cross(a, F, x) \in Int
  BY CrossInt
<1>4. Cross(A, a, p) = Cross(a, F, p) /\ Cross(A, a, q) = Cross(a, F, q) /\ Cross(A, a, x) = Cross(a, F, x)
  BY <1>1
<1>5. QED
  BY <1>2, <1>3, <1>4
=============================================================================
