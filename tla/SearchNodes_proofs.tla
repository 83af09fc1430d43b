------------------------- MODULE SearchNodes_proofs -------------------------
(***************************************************************************)
(* The node pool and the open list implement OpenNodes, for any number of  *)
(* nodes, any hash and any totals.                                         *)
(***************************************************************************)
EXTENDS SearchNodes, FiniteSetTheorems, WellFoundedInduction, TLAPS

-----------------------------------------------------------------------------
(* Facts about numbers and heaps                                           *)

\* A set of natural numbers that is not empty has a least element: segments
\* 0..n are finite, and strict inclusion of finite sets is well-founded.
LEMMA LeastNatural ==
  ASSUME NEW T, T \subseteq Nat, T # {}
  PROVE  \E x \in T : \A y \in T : x <= y
<1> DEFINE Below(n) == 0..n
           Segments == {Below(n) : n \in T}
<1>1. Segments \subseteq FiniteSubsetsOf(Nat) /\ Segments # {}
  <2>1. \A n \in T : IsFiniteSet(Below(n)) /\ Below(n) \in SUBSET Nat
    BY FS_Interval
  <2>. QED BY <2>1 DEF FiniteSubsetsOf
<1>2. \E s \in Segments : \A r \in Segments : <<r, s>> \notin StrictSubsetOrdering(Nat)
  <2> HIDE DEF Segments
  <2>. QED
  BY <1>1, FS_StrictSubsetOrderingWellFounded, WFMin
<1>3. PICK x \in T : \A y \in T : <<Below(y), Below(x)>> \notin StrictSubsetOrdering(Nat)
  BY <1>2
<1>4. ASSUME NEW y \in T, y < x
      PROVE  FALSE
  <2>1. Below(y) \subseteq Below(x) /\ x \in Below(x) /\ x \notin Below(y) /\ Below(x) \subseteq Nat
    BY <1>4
  <2>2. <<Below(y), Below(x)>> \in StrictSubsetOrdering(Nat)
    <3> HIDE DEF Below
    <3>. QED BY <2>1 DEF StrictSubsetOrdering
  <2>. QED BY <1>3, <2>2
<1>. QED BY <1>4

\* The two children of a place are the places whose parent it is.
LEMMA ParentFacts ==
  /\ \A i \in Nat \ {0} : Parent(i) \in Nat /\ Parent(i) < i
  /\ \A i \in Nat, p \in Nat : i # 0 => (Parent(i) = p <=> i = LeftChild(p) \/ i = LeftChild(p) + 1)
  /\ \A p \in Nat : LeftChild(p) \in Nat /\ p < LeftChild(p)
  BY DEF Parent, LeftChild

\* In a heap without a hole no total is below that of the root: the first
\* place that had one would have it below its parent's too.
LEMMA RootIsLeast ==
  ASSUME NEW v, NEW n \in Nat, \A i \in 0..n-1 : v[i] \in Nat,
         \A i \in 1..n-1 : v[Parent(i)] <= v[i]
  PROVE  \A i \in 0..n-1 : v[0] <= v[i]
<1> DEFINE T == {i \in 0..n-1 : v[i] < v[0]}
<1> SUFFICES ASSUME T # {} PROVE FALSE
  OBVIOUS
<1>1. PICK x \in T : \A y \in T : x <= y
  <2>1. T \subseteq Nat
    OBVIOUS
  <2> HIDE DEF T
  <2>. QED BY <2>1, LeastNatural
<1>2. x \in 1..n-1
  OBVIOUS
<1>3. Parent(x) \in 0..n-1 /\ Parent(x) < x
  BY <1>2, ParentFacts
<1>4. v[Parent(x)] < v[0]
  BY <1>2, <1>3
<1>. QED BY <1>1, <1>3, <1>4

\* A queue without repetitions of which one node is missing is shorter than the
\* pool.
LEMMA QueueHasRoom ==
  ASSUME NEW m \in Nat, NEW s \in Nat, NEW q,
         \A i \in 0..s-1 : q[i] \in 0..m-1,
         \A i, j \in 0..s-1 : q[i] = q[j] => i = j,
         NEW n \in 0..m-1, \A i \in 0..s-1 : q[i] # n
  PROVE  s < m
<1> DEFINE f == [i \in 0..s |-> IF i = s THEN n ELSE q[i]]
<1>1. f \in [0..s -> 0..m-1]
  OBVIOUS
<1>2. \A i, j \in 0..s : f[i] = f[j] => i = j
  OBVIOUS
<1>3. /\ IsFiniteSet(0..s) /\ Cardinality(0..s) = s + 1
      /\ IsFiniteSet(0..m-1) /\ Cardinality(0..m-1) = m
  BY FS_Interval, SMTT(30)
<1> HIDE DEF f
<1>4. ~(Cardinality(0..m-1) < Cardinality(0..s))
  BY <1>1, <1>2, <1>3, FS_PigeonHole
<1>. QED BY <1>3, <1>4

-----------------------------------------------------------------------------
(* The inductive invariant                                                 *)

\* What tells the nodes in use from the others.
UsedNodes ==
  /\ \A i \in InUse : key[i] \in Keys
  /\ \A i \in Index : flags[i] = "none" <=> i \notin InUse

OneNodePerKey == \A i, j \in InUse : key[i] = key[j] => i = j

\* getNode has passed no node with the key it looks for.
FindInv ==
  loop = "find" =>
    /\ want \in Keys
    /\ at \in InBucket(BucketOf(want)) \cup {NullIdx}
    /\ \A i \in InUse : key[i] = want => i <= at

PoolInv == UsedNodes /\ OneNodePerKey /\ ChainsComplete /\ FindInv

NodesIInv == TypeOK /\ PoolInv /\ QueueHoldsOpen /\ HeapOrder

LEMMA InitOK == Init => NodesIInv
<1> SUFFICES ASSUME Init PROVE NodesIInv
  OBVIOUS
<1> USE MaxNodesAssumption, HashAssumption
<1>1. TypeOK
  BY DEF Init, TypeOK, Index, NullIdx
<1>2. PoolInv
  BY DEF Init, PoolInv, UsedNodes, OneNodePerKey, ChainsComplete, FindInv, InUse, InBucket, IsLatest, Index
<1>3. QueueHoldsOpen /\ HeapOrder
  BY DEF Init, QueueHoldsOpen, HeapOrder, Queued, Filled, Placing
<1>. QED BY <1>1, <1>2, <1>3 DEF NodesIInv

LEMMA StartSearchOK ==
  ASSUME NodesIInv, NEW k \in Keys, NEW t \in Totals, StartSearch(k, t)
  PROVE  NodesIInv'
<1> USE MaxNodesAssumption, HashAssumption, TotalsAssumption
<1>0. BucketOf(k) \in Buckets
  BY DEF BucketOf, Keys
<1>1. TypeOK'
  BY <1>0 DEF NodesIInv, StartSearch, TypeOK, Index, NullIdx, findVars, heapLoopVars
<1>2. PoolInv'
  <2>1. InUse' = {0} /\ key'[0] = k /\ loop' = "none"
    BY DEF StartSearch, InUse, Index
  <2>2. UsedNodes' /\ OneNodePerKey' /\ FindInv'
    BY <2>1 DEF StartSearch, UsedNodes, OneNodePerKey, FindInv, Index
  <2>3. \A b \in Buckets : (InBucket(b))' = IF b = BucketOf(k) THEN {0} ELSE {}
    BY <2>1 DEF InBucket, BucketOf
  <2>4. next'[0] = NullIdx /\ \A b \in Buckets : first'[b] = IF b = BucketOf(k) THEN 0 ELSE NullIdx
    BY DEF StartSearch, NodesIInv, TypeOK, Index
  <2>5. ChainsComplete'
    BY <1>0, <2>1, <2>3, <2>4 DEF ChainsComplete, IsLatest, BucketOf, NullIdx
  <2>. QED BY <2>2, <2>5 DEF PoolInv
<1>3. QueueHoldsOpen' /\ HeapOrder'
  BY DEF StartSearch, QueueHoldsOpen, HeapOrder, Queued, Filled, Placing, Index, heapLoopVars
<1>. QED BY <1>1, <1>2, <1>3 DEF NodesIInv

-----------------------------------------------------------------------------
(* getNode                                                                 *)

\* A step that leaves the nodes in use and their chains alone, out of getNode.
LEMMA PoolKept ==
  ASSUME NodesIInv, UNCHANGED <<key, count, first, next>>, loop' # "find",
         \A i \in Index : flags'[i] = "none" <=> flags[i] = "none"
  PROVE  PoolInv'
  BY DEF NodesIInv, PoolInv, UsedNodes, OneNodePerKey, ChainsComplete, FindInv, InUse, InBucket, IsLatest

\* A step that leaves the open list alone, out of its loops.
LEMMA QueueKept ==
  ASSUME NodesIInv, UNCHANGED <<total, flags, heap, size>>, ~Placing, ~Placing'
  PROVE  QueueHoldsOpen' /\ HeapOrder'
  BY DEF NodesIInv, QueueHoldsOpen, HeapOrder, Queued, Filled, Placing, At

LEMMA GetNodeOK ==
  ASSUME NodesIInv, NEW k \in Keys, GetNode(k)
  PROVE  NodesIInv'
<1> USE HashAssumption
<1>0. BucketOf(k) \in Buckets
  BY DEF BucketOf, Keys
<1>1. TypeOK'
  BY <1>0 DEF NodesIInv, GetNode, TypeOK, poolVars, queueVars, heapLoopVars
<1>2. PoolInv'
  <2>1. UNCHANGED <<key, flags, count, first, next, InUse>> /\ want' = k /\ at' = first[BucketOf(k)]
    BY DEF GetNode, poolVars, InUse
  <2>2. UsedNodes' /\ OneNodePerKey' /\ ChainsComplete'
    BY <2>1 DEF NodesIInv, PoolInv, UsedNodes, OneNodePerKey, ChainsComplete, InBucket, InUse, IsLatest
  <2>3. IsLatest(first[BucketOf(k)], InBucket(BucketOf(k)))
    BY <1>0 DEF NodesIInv, PoolInv, ChainsComplete
  <2>4. \A i \in InUse : key[i] = k => i \in InBucket(BucketOf(k))
    BY DEF InBucket
  <2>5. FindInv'
    BY <2>1, <2>3, <2>4 DEF FindInv, InBucket, IsLatest
  <2>. QED BY <2>2, <2>5 DEF PoolInv
<1>3. QueueHoldsOpen' /\ HeapOrder'
  BY QueueKept DEF GetNode, Placing, poolVars, queueVars
<1>. QED BY <1>1, <1>2, <1>3 DEF NodesIInv

LEMMA FindOnOK ==
  ASSUME NodesIInv, FindOn
  PROVE  NodesIInv'
<1>1. TypeOK'
  BY DEF NodesIInv, FindOn, TypeOK, poolVars, queueVars, heapLoopVars
<1>2. PoolInv'
  <2>1. UNCHANGED <<key, flags, count, first, next, want>> /\ loop = "find" /\ at' = next[at]
    BY DEF FindOn, poolVars
  <2>2. UsedNodes' /\ OneNodePerKey' /\ ChainsComplete'
    BY <2>1 DEF NodesIInv, PoolInv, UsedNodes, OneNodePerKey, ChainsComplete, InBucket, InUse, IsLatest
  <2>3. /\ want \in Keys
        /\ at \in InUse /\ BucketOf(key[at]) = BucketOf(want) /\ key[at] # want
        /\ \A i \in InUse : key[i] = want => i <= at
    BY <2>1 DEF FindOn, NodesIInv, PoolInv, FindInv, InBucket
  <2> DEFINE Before == {j \in InBucket(BucketOf(want)) : j < at}
  <2>4. IsLatest(next[at], Before)
    BY <2>3 DEF NodesIInv, PoolInv, ChainsComplete
  <2>5. \A i \in InUse : key[i] = want => i \in Before
    BY <2>3 DEF InBucket, InUse, NodesIInv, TypeOK
  <2>6. next[at] \in InBucket(BucketOf(want)) \cup {NullIdx}
    BY <2>4 DEF IsLatest
  <2>7. \A i \in InUse : key[i] = want => i <= next[at]
    BY <2>4, <2>5 DEF IsLatest
  <2>8. FindInv'
    BY <2>1, <2>3, <2>6, <2>7 DEF FindInv, InBucket, InUse, BucketOf
  <2>. QED BY <2>2, <2>8 DEF PoolInv
<1>3. QueueHoldsOpen' /\ HeapOrder'
  BY QueueKept DEF FindOn, Placing, poolVars, queueVars
<1>. QED BY <1>1, <1>2, <1>3 DEF NodesIInv

\* getNode ends without a change: Keep and OutOfNodes.
LEMMA GetNodeLeavesOK ==
  ASSUME NodesIInv, Keep \/ OutOfNodes
  PROVE  NodesIInv'
<1>1. /\ UNCHANGED <<poolVars, queueVars, heapLoopVars>>
      /\ loop = "find" /\ loop' = "none" /\ want' = NoKey /\ at' = NullIdx
  BY DEF Keep, OutOfNodes, Found, NotFound, GetNodeEnds
<1>2. TypeOK'
  BY <1>1 DEF NodesIInv, TypeOK, poolVars, queueVars, heapLoopVars
<1>3. PoolInv'
  BY <1>1, PoolKept DEF poolVars
<1>4. QueueHoldsOpen' /\ HeapOrder'
  BY <1>1, QueueKept DEF Placing, poolVars, queueVars
<1>. QED BY <1>2, <1>3, <1>4 DEF NodesIInv

\* push: node n, which is not in the queue, is to be placed at its end.
LEMMA PushOK ==
  ASSUME NodesIInv, ~Placing, NEW n \in Index, flags[n] # "open", Push(n), heap' = heap,
         flags' = [flags EXCEPT ![n] = "open"], NEW t \in Totals, total' = [total EXCEPT ![n] = t]
  PROVE  QueueHoldsOpen' /\ HeapOrder'
<1> USE MaxNodesAssumption DEF NodesIInv, TypeOK, Push, Place
<1>1. size \in Nat /\ Placing' /\ Filled = 0..size-1 /\ Filled' = 0..size-1
  BY DEF Filled, Placing
<1>2. \A i \in Filled : heap[i] \in Index /\ heap[i] # n
  BY <1>1 DEF QueueHoldsOpen, Queued
<1>3. QueueHoldsOpen'
  <2>1. \A m \in Index : Queued(m)' <=> Queued(m) \/ m = n
    BY <1>1 DEF Queued, Placing
  <2>. QED BY <1>1, <1>2, <2>1 DEF QueueHoldsOpen, Placing
<1>4. HeapOrder'
  <2>1. \A i \in Filled : At(i)' = At(i)
    BY <1>2 DEF At
  <2>2. ASSUME NEW i \in Filled \ {0}
        PROVE  Parent(i) # size /\ Parent(i) \in Filled
    <3>1. i \in Nat \ {0} /\ i < size
      BY <1>1
    <3>2. Parent(i) \in Nat /\ Parent(i) < i
      BY <3>1, ParentFacts
    <3>. QED BY <1>1, <3>1, <3>2
  <2>. QED BY <1>1, <2>1, <2>2 DEF HeapOrder
<1>. QED BY <1>3, <1>4

\* The heap has a place for a node that is not open.
LEMMA PushHasRoom ==
  ASSUME NodesIInv, ~Placing, NEW n \in Index, flags[n] # "open"
  PROVE  size < MaxNodes
<1>1. Filled = 0..size-1
  BY DEF Filled
<1>2. \A i \in 0..size-1 : heap[i] \in 0..MaxNodes-1
  <2>1. size \in 0..MaxNodes /\ heap \in [0..MaxNodes -> 0..MaxNodes-1]
    BY DEF NodesIInv, TypeOK, Index
  <2>2. \A i \in 0..size-1 : i \in 0..MaxNodes
    BY <2>1, MaxNodesAssumption
  <2>. QED BY <2>1, <2>2
<1>3. ~Queued(n)
  BY DEF NodesIInv, QueueHoldsOpen
<1>4. \A i \in 0..size-1 : heap[i] # n
  BY <1>1, <1>3 DEF Queued
<1>5. \A i, j \in 0..size-1 : heap[i] = heap[j] => i = j
  BY <1>1 DEF NodesIInv, QueueHoldsOpen
<1>6. size \in Nat /\ MaxNodes \in Nat /\ n \in 0..MaxNodes-1
  BY MaxNodesAssumption DEF NodesIInv, TypeOK, Index
<1> DEFINE q == heap
<1>7. /\ \A i \in 0..size-1 : q[i] \in 0..MaxNodes-1 /\ q[i] # n
      /\ \A i, j \in 0..size-1 : q[i] = q[j] => i = j
  BY <1>2, <1>4, <1>5
<1> HIDE DEF q
<1>. QED BY <1>6, <1>7, QueueHasRoom

LEMMA ReopenOK ==
  ASSUME NodesIInv, NEW t \in Totals, Reopen(t)
  PROVE  NodesIInv'
<1> USE MaxNodesAssumption, TotalsAssumption
<1>0. /\ loop = "find" /\ loop' = "up" /\ at \in Index /\ flags[at] = "closed"
      /\ want' = NoKey /\ at' = NullIdx /\ ~Placing
  BY DEF NodesIInv, TypeOK, Reopen, Found, GetNodeEnds, Push, Place, Placing
<1>1. size < MaxNodes
  BY <1>0, PushHasRoom
<1>2. TypeOK'
  BY <1>0, <1>1 DEF NodesIInv, TypeOK, Reopen, Push, Place
<1>3. PoolInv'
  <2>1. flags' = [flags EXCEPT ![at] = "open"] /\ UNCHANGED <<key, count, first, next>>
    BY DEF Reopen
  <2>2. \A i \in Index : flags'[i] = "none" <=> flags[i] = "none"
    BY <1>0, <2>1 DEF NodesIInv, TypeOK
  <2>. QED BY <1>0, <2>1, <2>2, PoolKept
<1>4. QueueHoldsOpen' /\ HeapOrder'
  <2>1. /\ flags[at] # "open" /\ Push(at) /\ heap' = heap
        /\ flags' = [flags EXCEPT ![at] = "open"] /\ total' = [total EXCEPT ![at] = t]
    BY <1>0 DEF Reopen
  <2>. QED BY <1>0, <2>1, PushOK
<1>. QED BY <1>2, <1>3, <1>4 DEF NodesIInv

LEMMA ModifyOK ==
  ASSUME NodesIInv, NEW t \in Totals, Modify(t)
  PROVE  NodesIInv'
<1> USE MaxNodesAssumption, TotalsAssumption
<1>0. /\ loop = "find" /\ loop' = "up" /\ at \in Index /\ flags[at] = "open" /\ t < total[at]
      /\ total' = [total EXCEPT ![at] = t]
      /\ UNCHANGED <<key, flags, count, first, next, heap, size>>
      /\ want' = NoKey /\ at' = NullIdx /\ ~Placing /\ Placing' /\ moving' = at
  BY DEF NodesIInv, TypeOK, Modify, Found, GetNodeEnds, Place, Placing, queueVars
<1>1. PICK p \in 0..size-1 : heap[p] = at /\ hole' = p
  BY DEF Modify, Place
<1>2. TypeOK'
  BY <1>0, <1>1 DEF NodesIInv, TypeOK
<1>3. PoolInv'
  BY <1>0, PoolKept
<1>4. size \in Nat /\ Filled = 0..size-1 /\ Filled' = Filled \ {p}
  BY <1>0, <1>1 DEF NodesIInv, TypeOK, Filled, Placing
<1>5. \A i \in Filled : heap[i] \in Index /\ (i # p => heap[i] # at)
  BY <1>1, <1>4 DEF NodesIInv, TypeOK, QueueHoldsOpen
<1>6. QueueHoldsOpen'
  <2>1. \A n \in Index : Queued(n)' <=> Queued(n)
    BY <1>0, <1>1, <1>4 DEF Queued
  <2>. QED BY <1>0, <1>1, <1>4, <1>5, <2>1 DEF NodesIInv, QueueHoldsOpen
<1>7. HeapOrder'
  <2>1. \A i \in Filled \ {p} : At(i)' = At(i) /\ At(i) \in Nat
    BY <1>0, <1>5 DEF At, NodesIInv, TypeOK
  <2>2. At(p) = total[at] /\ At(p) \in Nat
    BY <1>0, <1>1 DEF At, NodesIInv, TypeOK
  <2>3. \A i \in Filled \ {0} : Parent(i) \in Filled /\ At(Parent(i)) <= At(i)
    <3>1. \A i \in Filled \ {0} : Parent(i) \in Filled
      <4>1. SUFFICES ASSUME NEW i \in Filled \ {0} PROVE Parent(i) \in Filled
        OBVIOUS
      <4>2. i \in Nat \ {0} /\ i < size
        BY <1>4, <4>1
      <4>3. Parent(i) \in Nat /\ Parent(i) < i
        BY <4>2, ParentFacts
      <4>. QED BY <1>4, <4>2, <4>3
    <3>. QED BY <3>1 DEF NodesIInv, HeapOrder
  <2>4. ASSUME NEW i \in Filled \ {0}, i # p
        PROVE  /\ Parent(i) # p => At(Parent(i))' <= At(i)'
               /\ Parent(i) = p => t <= At(i)' /\ (p > 0 => At(Parent(p))' <= At(i)')
    <3>1. Parent(i) # p => At(Parent(i))' <= At(i)'
      BY <2>1, <2>3, <2>4
    <3>2. ASSUME Parent(i) = p
          PROVE  t <= At(i)'
      <4>1. At(p) <= At(i)
        BY <2>3, <2>4, <3>2
      <4>. QED BY <1>0, <2>1, <2>2, <2>4, <4>1
    <3>3. ASSUME Parent(i) = p, p > 0
          PROVE  At(Parent(p))' <= At(i)'
      <4>1. At(p) <= At(i) /\ p \in Filled \ {0}
        BY <1>1, <1>4, <2>3, <2>4, <3>3
      <4>2. p \in Nat \ {0}
        BY <1>4, <4>1
      <4>3. Parent(p) \in Filled /\ At(Parent(p)) <= At(p) /\ Parent(p) # p
        BY <2>3, <4>1, <4>2, ParentFacts
      <4>4. At(Parent(p))' = At(Parent(p)) /\ At(Parent(p)) \in Nat /\ At(i)' = At(i) /\ At(i) \in Nat
        BY <2>1, <2>4, <4>3
      <4>. QED BY <2>2, <4>1, <4>3, <4>4
    <3>. QED BY <3>1, <3>2, <3>3
  <2>5. total'[moving'] = t
    BY <1>0 DEF NodesIInv, TypeOK
  <2>6. \A i : Parent(i)' = Parent(i)
    BY DEF Parent
  <2>. QED BY <1>0, <1>1, <1>4, <2>4, <2>5, <2>6 DEF HeapOrder
<1>. QED BY <1>2, <1>3, <1>6, <1>7 DEF NodesIInv

LEMMA NewNodeOK ==
  ASSUME NodesIInv, NEW t \in Totals, NewNode(t)
  PROVE  NodesIInv'
<1> USE MaxNodesAssumption, TotalsAssumption, HashAssumption
<1>b. PICK b : b = BucketOf(want)
  OBVIOUS
<1>0. /\ loop = "find" /\ loop' = "up" /\ at = NullIdx /\ count \in Index
      /\ want' = NoKey /\ at' = NullIdx /\ ~Placing
      /\ want \in Keys /\ b \in Buckets
      /\ \A i \in InUse : key[i] # want
  <2>1. loop = "find" /\ loop' = "up" /\ at = NullIdx /\ want' = NoKey /\ at' = NullIdx /\ count < MaxNodes
    BY DEF NewNode, NotFound, GetNodeEnds, Push, Place
  <2>2. count \in Nat /\ count \in Index /\ ~Placing
    BY <2>1 DEF NodesIInv, TypeOK, Placing, Index
  <2>3. want \in Keys /\ \A i \in InUse : key[i] = want => i <= NullIdx
    BY <2>1 DEF NodesIInv, PoolInv, FindInv
  <2>4. \A i \in InUse : key[i] # want
    BY <2>2, <2>3 DEF InUse, NullIdx
  <2>5. b \in Buckets
    BY <1>b, <2>3 DEF BucketOf, Keys
  <2>. QED BY <2>1, <2>2, <2>3, <2>4, <2>5
<1>1. flags[count] = "none"
  BY <1>0 DEF NodesIInv, PoolInv, UsedNodes, InUse, TypeOK
<1>2. size < MaxNodes
  BY <1>0, <1>1, PushHasRoom
<1>3. TypeOK'
  <2>1. /\ key' = [key EXCEPT ![count] = want]
        /\ next' = [next EXCEPT ![count] = first[b]]
        /\ first' = [first EXCEPT ![b] = count]
        /\ total' = [total EXCEPT ![count] = t]
        /\ flags' = [flags EXCEPT ![count] = "open"]
        /\ count' = count + 1 /\ size' = size + 1 /\ hole' = size /\ moving' = count /\ heap' = heap
    BY <1>b DEF NewNode, Push, Place
  <2>2. /\ key \in [Index -> Keys \cup {NoKey}] /\ total \in [Index -> Nat]
        /\ flags \in [Index -> {"none", "open", "closed"}]
        /\ first \in [Buckets -> Index \cup {NullIdx}] /\ next \in [Index -> Index \cup {NullIdx}]
        /\ heap \in [0..MaxNodes -> Index] /\ size \in 0..MaxNodes
    BY DEF NodesIInv, TypeOK
  <2>3. key' \in [Index -> Keys \cup {NoKey}] /\ total' \in [Index -> Nat]
    BY <1>0, <2>1, <2>2
  <2>4. flags' \in [Index -> {"none", "open", "closed"}]
    BY <1>0, <2>1, <2>2
  <2>5. first' \in [Buckets -> Index \cup {NullIdx}] /\ next' \in [Index -> Index \cup {NullIdx}]
    BY <1>0, <2>1, <2>2
  <2>6. count' \in 0..MaxNodes /\ size' \in 0..MaxNodes /\ hole' \in 0..MaxNodes
    BY <1>0, <1>2, <2>1, <2>2 DEF Index
  <2>. QED BY <1>0, <2>1, <2>2, <2>3, <2>4, <2>5, <2>6 DEF TypeOK, Index
<1>4. PoolInv'
  <2>1. InUse' = InUse \cup {count} /\ count \notin InUse /\ \A i \in InUse : i \in Nat /\ i < count
    BY <1>0 DEF InUse, NewNode, Index
  <2>2. /\ key'[count] = want /\ \A i \in InUse : key'[i] = key[i]
        /\ flags'[count] = "open" /\ \A i \in Index : i # count => flags'[i] = flags[i]
        /\ next'[count] = first[b] /\ \A i \in InUse : next'[i] = next[i]
        /\ first'[b] = count /\ \A c \in Buckets : c # b => first'[c] = first[c]
    <3>1. InUse \subseteq Index
      BY <1>0 DEF InUse, Index
    <3>2. /\ key' = [key EXCEPT ![count] = want]
          /\ next' = [next EXCEPT ![count] = first[b]]
          /\ first' = [first EXCEPT ![b] = count]
          /\ flags' = [flags EXCEPT ![count] = "open"]
      BY <1>b DEF NewNode
    <3>3. DOMAIN key = Index /\ DOMAIN next = Index /\ DOMAIN first = Buckets /\ DOMAIN flags = Index
      BY DEF NodesIInv, TypeOK
    <3>. QED BY <1>0, <2>1, <3>1, <3>2, <3>3
  <2>3. UsedNodes' /\ OneNodePerKey' /\ FindInv'
    BY <1>0, <2>1, <2>2 DEF NodesIInv, PoolInv, UsedNodes, OneNodePerKey, FindInv
  <2>4. \A c \in Buckets : InBucket(c)' = IF c = b THEN InBucket(c) \cup {count} ELSE InBucket(c)
    BY <1>b, <2>1, <2>2 DEF InBucket, BucketOf
  <2>5. \A c \in Buckets : IsLatest(first'[c], InBucket(c)')
    <3>1. \A i \in InBucket(b) : i <= count
      BY <1>0, <2>1 DEF InBucket, Index
    <3>2. \A c \in Buckets : IsLatest(first[c], InBucket(c))
      BY DEF NodesIInv, PoolInv, ChainsComplete
    <3>. QED BY <1>0, <2>2, <2>4, <3>1, <3>2 DEF IsLatest, Index
  <2>6. ASSUME NEW i \in InUse
        PROVE  IsLatest(next'[i], {j \in InBucket(BucketOf(key[i])) : j < i})
    BY <2>2 DEF NodesIInv, PoolInv, ChainsComplete
  <2>7. ASSUME NEW i \in InUse
        PROVE  {j \in InBucket(BucketOf(key[i]))' : j < i} = {j \in InBucket(BucketOf(key[i])) : j < i}
    BY <1>0, <2>1, <2>2 DEF InBucket, BucketOf, Index
  <2>8. IsLatest(next'[count], InBucket(b))
    BY <1>0, <2>2 DEF NodesIInv, PoolInv, ChainsComplete
  <2>9. {j \in InBucket(b)' : j < count} = InBucket(b)
    <3>1. InBucket(b)' = InBucket(b) \cup {count}
      BY <1>0, <2>4
    <3>2. \A j \in InBucket(b) : j < count
      BY <2>1 DEF InBucket
    <3>3. ~(count < count)
      BY <1>0 DEF Index
    <3>. QED BY <3>1, <3>2, <3>3
  <2>10. ASSUME NEW i \in InUse'
         PROVE  IsLatest(next'[i], {j \in InBucket(BucketOf(key[i]))' : j < i})
    <3>1. CASE i = count
      <4>1. BucketOf(key'[i]) = b
        BY <1>b, <2>2, <3>1 DEF BucketOf
      <4>2. InBucket(BucketOf(key[i]))' = InBucket(b)'
        BY <4>1 DEF InBucket, BucketOf
      <4>. QED BY <2>2, <2>8, <2>9, <3>1, <4>2
    <3>2. CASE i \in InUse
      BY <2>6, <2>7, <3>2
    <3>. QED BY <2>1, <2>10, <3>1, <3>2
  <2>11. ChainsComplete'
    BY <2>5, <2>10 DEF ChainsComplete, IsLatest, InBucket, BucketOf
  <2>. QED BY <2>3, <2>11 DEF PoolInv
<1>5. QueueHoldsOpen' /\ HeapOrder'
  <2>1. /\ flags[count] # "open" /\ Push(count) /\ heap' = heap
        /\ flags' = [flags EXCEPT ![count] = "open"] /\ total' = [total EXCEPT ![count] = t]
    BY <1>1 DEF NewNode
  <2>. QED BY <1>0, <2>1, PushOK
<1>. QED BY <1>3, <1>4, <1>5 DEF NodesIInv

-----------------------------------------------------------------------------
(* The loops of the heap                                                   *)

LEMMA PopOK ==
  ASSUME NodesIInv, Pop
  PROVE  NodesIInv'
<1> USE MaxNodesAssumption
<1>0. /\ loop = "none" /\ loop' = "down" /\ ~Placing /\ Placing' /\ size > 0 /\ size \in Nat
      /\ flags' = [flags EXCEPT ![heap[0]] = "closed"]
      /\ size' = size - 1 /\ heap' = [heap EXCEPT ![size - 1] = 0]
      /\ hole' = 0 /\ moving' = heap[size - 1]
      /\ UNCHANGED <<key, total, count, first, next, want, at>>
  BY DEF NodesIInv, TypeOK, Pop, Place, Placing, findVars
<1>1. /\ size \in 0..MaxNodes /\ heap \in [0..MaxNodes -> Index]
      /\ flags \in [Index -> {"none", "open", "closed"}] /\ total \in [Index -> Nat]
  BY DEF NodesIInv, TypeOK
<1>2. 0 \in 0..MaxNodes /\ size - 1 \in 0..MaxNodes /\ 0 \in Index
  BY <1>0, <1>1 DEF Index
<1>3. heap[0] \in Index /\ flags[heap[0]] = "open"
  <2>1. 0 \in Filled
    BY <1>0 DEF Filled
  <2>. QED BY <1>1, <1>2, <2>1 DEF NodesIInv, QueueHoldsOpen, Queued
<1>4. TypeOK'
  BY <1>0, <1>1, <1>2 DEF NodesIInv, TypeOK
<1>5. PoolInv'
  BY <1>0, <1>1, <1>3, PoolKept
<1>6. Filled = 0..size-1 /\ Filled' = 1..size-2
  BY <1>0 DEF Filled
<1>7. \A i \in Filled' : heap'[i] = heap[i] /\ i \in Filled
  BY <1>0, <1>1, <1>6
<1>8. \A i, j \in Filled : heap[i] = heap[j] => i = j
  BY DEF NodesIInv, QueueHoldsOpen
<1>9. QueueHoldsOpen'
  <2>1. \A n \in Index : Queued(n) <=> \E i \in 0..size-1 : heap[i] = n
    BY <1>0, <1>6 DEF Queued
  <2>2. \A n \in Index : Queued(n)' <=> \E i \in 1..size-1 : heap[i] = n
    <3>1. \A n : Queued(n)' <=> (\E i \in 1..size-2 : heap[i] = n) \/ (size - 1 > 0 /\ heap[size - 1] = n)
      BY <1>0, <1>6, <1>7 DEF Queued
    <3>. QED BY <1>0, <3>1
  <2>3. \A n \in Index : Queued(n)' <=> Queued(n) /\ n # heap[0]
    BY <1>0, <1>6, <1>8, <2>1, <2>2
  <2>4. \A n \in Index : Queued(n)' <=> flags'[n] = "open"
    BY <1>0, <1>1, <1>3, <2>3 DEF NodesIInv, QueueHoldsOpen
  <2>5. \A i \in Filled' : heap'[i] # moving'
    <3>1. \A i \in Filled' : i # size - 1
      BY <1>0, <1>6
    <3>2. size - 1 \in Filled
      BY <1>0, <1>6
    <3>. QED BY <1>0, <1>7, <1>8, <3>1, <3>2
  <2>. QED BY <1>0, <1>7, <1>8, <2>4, <2>5 DEF QueueHoldsOpen
<1>10. HeapOrder'
  <2>1. \A i \in Filled' : At(i)' = At(i)
    BY <1>0, <1>7 DEF At
  <2>2. \A i : Parent(i)' = Parent(i)
    BY DEF Parent
  <2>. QED BY <1>0, <1>7, <2>1, <2>2 DEF NodesIInv, HeapOrder
<1>. QED BY <1>4, <1>5, <1>9, <1>10 DEF NodesIInv

\* A place h is left empty for another, c, from which its node comes.
LEMMA MoveHole ==
  ASSUME NodesIInv, Placing, UNCHANGED <<flags, size, moving>>, Placing',
         NEW c \in 0..size-1, hole \in 0..size-1, c # hole,
         heap' = [heap EXCEPT ![hole] = heap[c]], hole' = c
  PROVE  /\ QueueHoldsOpen'
         /\ Filled = (0..size-1) \ {hole} /\ Filled' = (0..size-1) \ {c}
         /\ heap'[hole] = heap[c]
         /\ \A i \in Filled' \ {hole} : i \in Filled /\ heap'[i] = heap[i]
<1> USE MaxNodesAssumption
<1>1. size \in 0..MaxNodes /\ heap \in [0..MaxNodes -> Index]
  BY DEF NodesIInv, TypeOK
<1>2. \A i \in 0..size-1 : i \in 0..MaxNodes
  BY <1>1
<1>3. Filled = (0..size-1) \ {hole} /\ Filled' = (0..size-1) \ {c}
  BY DEF Filled
<1>4. heap'[hole] = heap[c] /\ \A i \in Filled' \ {hole} : i \in Filled /\ heap'[i] = heap[i]
  BY <1>1, <1>2, <1>3
<1>5. \A i \in Filled' : \E j \in Filled : heap'[i] = heap[j] /\ (i = hole => j = c) /\ (i # hole => j = i)
  BY <1>3, <1>4
<1>6. \A j \in Filled : \E i \in Filled' : heap'[i] = heap[j]
  BY <1>3, <1>4
<1>7. \A n \in Index : Queued(n)' <=> Queued(n)
  BY <1>5, <1>6 DEF Queued
<1>8. size > 0 /\ size \in Nat
  BY <1>1
<1>9. QueueHoldsOpen'
  BY <1>3, <1>5, <1>7, <1>8 DEF NodesIInv, QueueHoldsOpen
<1>. QED BY <1>3, <1>4, <1>9

LEMMA TrickleDownOK ==
  ASSUME NodesIInv, TrickleDown
  PROVE  NodesIInv'
<1> USE MaxNodesAssumption
<1>c. PICK c, h : c = CheaperChild(hole) /\ h = hole
  OBVIOUS
<1>0. /\ loop = "down" /\ Placing /\ Placing' /\ loop' = loop /\ hole' = c
      /\ heap' = [heap EXCEPT ![hole] = heap[c]]
      /\ UNCHANGED <<key, total, flags, count, first, next, size, want, at, moving>>
  BY <1>c DEF TrickleDown, Placing, poolVars, findVars
<1>1. /\ size \in Nat /\ size <= MaxNodes /\ heap \in [0..MaxNodes -> Index]
      /\ total \in [Index -> Nat] /\ hole \in Nat
  BY DEF NodesIInv, TypeOK
<1>2. LeftChild(hole) < size /\ LeftChild(hole) \in Nat /\ hole < LeftChild(hole)
  BY <1>1, ParentFacts DEF TrickleDown
<1>3. /\ c = LeftChild(hole) \/ c = LeftChild(hole) + 1
      /\ c < size /\ c \in Nat \ {0} /\ hole < c
  BY <1>1, <1>2, <1>c DEF CheaperChild
<1>4. hole \in 0..size-1 /\ c \in 0..size-1 /\ c # hole /\ Parent(c) = hole
  <2>1. Parent(c) = hole
    BY <1>1, <1>3, ParentFacts
  <2>. QED BY <1>1, <1>2, <1>3, <2>1
<1>5. /\ QueueHoldsOpen'
      /\ Filled = (0..size-1) \ {hole} /\ Filled' = (0..size-1) \ {c}
      /\ heap'[hole] = heap[c]
      /\ \A i \in Filled' \ {hole} : i \in Filled /\ heap'[i] = heap[i]
  BY <1>0, <1>4, MoveHole
<1>6. TypeOK'
  <2>1. c \in 0..MaxNodes /\ heap[c] \in Index
    BY <1>1, <1>4
  <2>. QED BY <1>0, <2>1 DEF NodesIInv, TypeOK
<1>7. PoolInv'
  BY <1>0, PoolKept
<1>8. /\ At(h)' = At(c) /\ \A i \in Filled' \ {h} : At(i)' = At(i)
      /\ \A i \in 0..size-1 : At(i) \in Nat
      /\ \A i : Parent(i)' = Parent(i)
  <2>1. total' = total
    BY <1>0
  <2>2. \A i \in 0..size-1 : heap[i] \in Index
    BY <1>1
  <2>3. At(h)' = At(c) /\ \A i \in Filled' \ {h} : At(i)' = At(i)
    BY <1>c, <1>5, <2>1 DEF At
  <2>4. \A i \in 0..size-1 : At(i) \in Nat
    BY <1>1, <2>2 DEF At
  <2>. QED BY <2>3, <2>4 DEF Parent
<1>9. \A i \in Filled \ {0} :
        /\ Parent(i) \in Filled => At(Parent(i)) <= At(i)
        /\ Parent(i) = hole /\ hole > 0 => At(Parent(hole)) <= At(i)
  BY <1>0 DEF NodesIInv, HeapOrder
<1>10. ASSUME NEW i \in Filled \ {0}, Parent(i) = hole
       PROVE  At(c) <= At(i)
  <2>1. i \in Nat /\ i # 0 /\ i < size
    BY <1>1, <1>5
  <2>2. i = LeftChild(hole) \/ i = LeftChild(hole) + 1
    BY <1>1, <1>10, <2>1, ParentFacts
  <2>3. At(LeftChild(hole)) \in Nat /\ (LeftChild(hole) + 1 < size => At(LeftChild(hole) + 1) \in Nat)
    BY <1>1, <1>2, <1>8
  <2>. QED BY <1>c, <1>1, <1>2, <2>1, <2>2, <2>3, SMTT(30) DEF CheaperChild
<1>11. HeapOrder'
  <2>1. ASSUME NEW i \in Filled' \ {0}, Parent(i) \in Filled'
        PROVE  At(Parent(i))' <= At(i)'
    <3>1. CASE i = hole
      <4>1. i \in Nat \ {0}
        BY <1>1, <3>1
      <4>2. Parent(hole) # hole /\ hole > 0
        BY <1>1, <3>1, <4>1, ParentFacts
      <4>3. c \in Filled \ {0}
        BY <1>3, <1>4, <1>5
      <4>4. At(Parent(hole)) <= At(c)
        BY <1>4, <1>9, <4>2, <4>3
      <4>. QED BY <1>c, <1>8, <2>1, <3>1, <4>2, <4>4
    <3>2. CASE i # hole /\ Parent(i) = hole
      BY <1>c, <1>5, <1>8, <1>10, <2>1, <3>2
    <3>3. CASE i # hole /\ Parent(i) # hole
      BY <1>c, <1>5, <1>8, <1>9, <2>1, <3>3
    <3>. QED BY <3>1, <3>2, <3>3
  <2>2. ASSUME NEW i \in Filled' \ {0}, Parent(i) = c
        PROVE  At(h)' <= At(i)'
    <3>1. i \in Nat \ {0}
      BY <1>1, <1>5
    <3>2. c < i
      BY <2>2, <3>1, ParentFacts
    <3>3. i # hole /\ i \in Filled \ {0} /\ c \in Filled
      BY <1>1, <1>3, <1>4, <1>5, <3>1, <3>2
    <3>4. At(c) <= At(i)
      BY <1>9, <2>2, <3>3
    <3>. QED BY <1>c, <1>4, <1>8, <3>3, <3>4
  <2>3. \A i \in Filled' \ {0} : Parent(i)' \in Filled' => At(Parent(i))' <= At(i)'
    BY <1>8, <2>1
  <2>. QED BY <1>c, <1>0, <1>4, <1>8, <2>2, <2>3 DEF HeapOrder
<1>. QED BY <1>5, <1>6, <1>7, <1>11 DEF NodesIInv

LEMMA TrickleEndOK ==
  ASSUME NodesIInv, TrickleEnd
  PROVE  NodesIInv'
<1>0. /\ loop = "down" /\ loop' = "up" /\ Placing /\ Placing' /\ LeftChild(hole) >= size
      /\ UNCHANGED <<key, total, flags, count, first, next, heap, size, want, at, hole, moving>>
  BY DEF TrickleEnd, Placing, poolVars, queueVars, findVars, heapLoopVars
<1>1. TypeOK'
  BY <1>0 DEF NodesIInv, TypeOK
<1>2. PoolInv'
  BY <1>0, PoolKept
<1>3. Filled' = Filled
  BY <1>0 DEF Filled
<1>4. QueueHoldsOpen'
  BY <1>0, <1>3 DEF NodesIInv, QueueHoldsOpen, Queued
<1>5. \A i \in Filled \ {0} : Parent(i) # hole
  <2>1. SUFFICES ASSUME NEW i \in Filled \ {0}, Parent(i) = hole PROVE FALSE
    OBVIOUS
  <2>2. size \in Nat /\ hole \in Nat
    BY MaxNodesAssumption DEF NodesIInv, TypeOK
  <2>3. i \in Nat /\ i # 0 /\ i < size
    BY <2>1, <2>2 DEF Filled
  <2>4. i = LeftChild(hole) \/ i = LeftChild(hole) + 1
    BY <2>1, <2>2, <2>3, ParentFacts
  <2>. QED BY <1>0, <2>2, <2>3, <2>4, ParentFacts
<1>6. HeapOrder'
  BY <1>0, <1>3, <1>5 DEF NodesIInv, HeapOrder, At, Parent
<1>. QED BY <1>1, <1>2, <1>4, <1>6 DEF NodesIInv

LEMMA BubbleUpOK ==
  ASSUME NodesIInv, BubbleUp
  PROVE  NodesIInv'
<1> USE MaxNodesAssumption
<1>c. PICK p, h : p = Parent(hole) /\ h = hole
  OBVIOUS
<1>0. /\ loop = "up" /\ Placing /\ Placing' /\ loop' = loop /\ hole' = p
      /\ hole > 0 /\ At(p) > total[moving]
      /\ heap' = [heap EXCEPT ![hole] = heap[p]]
      /\ UNCHANGED <<key, total, flags, count, first, next, size, want, at, moving>>
  BY <1>c DEF BubbleUp, Rises, Placing, poolVars, findVars
<1>1. /\ size \in Nat /\ size <= MaxNodes /\ heap \in [0..MaxNodes -> Index]
      /\ total \in [Index -> Nat] /\ hole \in Nat /\ moving \in Index
  BY DEF NodesIInv, TypeOK
<1>2. hole \in 0..size-1
  BY <1>0, <1>1 DEF NodesIInv, QueueHoldsOpen
<1>3. p \in Nat /\ p < hole
  BY <1>c, <1>0, <1>1, ParentFacts
<1>4. p \in 0..size-1 /\ p # hole
  BY <1>1, <1>2, <1>3
<1>5. /\ QueueHoldsOpen'
      /\ Filled = (0..size-1) \ {hole} /\ Filled' = (0..size-1) \ {p}
      /\ heap'[hole] = heap[p]
      /\ \A i \in Filled' \ {hole} : i \in Filled /\ heap'[i] = heap[i]
  BY <1>0, <1>2, <1>4, MoveHole
<1>6. TypeOK'
  <2>1. p \in 0..MaxNodes /\ heap[p] \in Index
    BY <1>1, <1>4
  <2>. QED BY <1>0, <2>1 DEF NodesIInv, TypeOK
<1>7. PoolInv'
  BY <1>0, PoolKept
<1>8. /\ At(h)' = At(p) /\ \A i \in Filled' \ {h} : At(i)' = At(i)
      /\ \A i \in 0..size-1 : At(i) \in Nat
      /\ \A i : Parent(i)' = Parent(i)
  <2>1. total' = total
    BY <1>0
  <2>2. \A i \in 0..size-1 : heap[i] \in Index
    BY <1>1
  <2>3. At(h)' = At(p) /\ \A i \in Filled' \ {h} : At(i)' = At(i)
    BY <1>c, <1>5, <2>1 DEF At
  <2>4. \A i \in 0..size-1 : At(i) \in Nat
    BY <1>1, <2>2 DEF At
  <2>. QED BY <2>3, <2>4 DEF Parent
<1>9. \A i \in Filled \ {0} :
        /\ Parent(i) \in Filled => At(Parent(i)) <= At(i)
        /\ Parent(i) = hole /\ hole > 0 => At(Parent(hole)) <= At(i)
  BY <1>0 DEF NodesIInv, HeapOrder
<1>10. p \in Filled /\ (p > 0 => Parent(p) \in Filled /\ Parent(p) # p /\ Parent(p) # hole /\ At(Parent(p)) <= At(p))
  <2>1. p \in Filled
    BY <1>4, <1>5
  <2>2. ASSUME p > 0
        PROVE  Parent(p) \in Filled /\ Parent(p) # p /\ Parent(p) # hole
    <3>1. Parent(p) \in Nat /\ Parent(p) < p
      BY <1>3, <2>2, ParentFacts
    <3>. QED BY <1>1, <1>3, <1>4, <1>5, <3>1
  <2>. QED BY <1>3, <1>9, <2>1, <2>2
<1>11. total[moving] \in Nat /\ At(p) \in Nat /\ total[moving] <= At(p)
  BY <1>0, <1>1, <1>4, <1>8
<1>12. HeapOrder'
  <2>1. ASSUME NEW i \in Filled' \ {0}
        PROVE  i \in 0..size-1 /\ i # p /\ i \in Nat \ {0} /\ Parent(i) \in 0..size-1 /\ Parent(i) # i
    <3>1. i \in 0..size-1 /\ i # p /\ i \in Nat \ {0}
      BY <1>1, <1>5
    <3>2. Parent(i) \in Nat /\ Parent(i) < i
      BY <3>1, ParentFacts
    <3>. QED BY <1>1, <3>1, <3>2
  <2>2. ASSUME NEW i \in Filled' \ {0}, Parent(i) \in Filled'
        PROVE  At(Parent(i))' <= At(i)'
    <3>1. i # hole
      BY <1>c, <1>5, <2>2
    <3>2. i \in Filled \ {0} /\ At(i)' = At(i)
      BY <1>c, <1>5, <1>8, <3>1
    <3>3. CASE Parent(i) = hole
      BY <1>c, <1>0, <1>8, <1>9, <3>2, <3>3
    <3>4. CASE Parent(i) # hole
      BY <1>c, <1>5, <1>8, <1>9, <2>2, <3>2, <3>4
    <3>. QED BY <3>3, <3>4
  <2>3. ASSUME NEW i \in Filled' \ {0}, Parent(i) = p
        PROVE  At(p) <= At(i)' /\ At(i)' \in Nat
    <3>1. CASE i = hole
      BY <1>c, <1>8, <1>11, <3>1
    <3>2. CASE i # hole
      <4>1. i \in Filled \ {0} /\ At(i)' = At(i) /\ At(i) \in Nat
        BY <1>c, <1>5, <1>8, <2>1, <3>2
      <4>. QED BY <1>9, <1>10, <2>3, <4>1
    <3>. QED BY <3>1, <3>2
  <2>4. ASSUME p > 0
        PROVE  At(Parent(p))' = At(Parent(p)) /\ At(Parent(p)) \in Nat
    BY <1>c, <1>5, <1>8, <1>10, <2>4
  <2>5. \A i \in Filled' \ {0} : Parent(i) = p /\ p > 0 => At(Parent(p))' <= At(i)'
    BY <1>10, <1>11, <2>3, <2>4
  <2>6. \A i \in Filled' \ {0} : Parent(i) = p => total[moving] <= At(i)'
    BY <1>11, <2>3
  <2>7. total'[moving'] = total[moving] /\ hole' = p
    BY <1>0
  <2>8. \A i \in Filled' \ {0} : Parent(i)' \in Filled' => At(Parent(i))' <= At(i)'
    BY <1>8, <2>2
  <2>9. \A i \in Filled' \ {0} : Parent(i)' = p /\ p > 0 => At(Parent(p))' <= At(i)'
    BY <1>8, <2>5
  <2>10. \A i \in Filled' \ {0} : Parent(i)' = p => total'[moving'] <= At(i)'
    BY <1>8, <2>6, <2>7
  <2>. QED BY <2>7, <2>8, <2>9, <2>10 DEF HeapOrder
<1>. QED BY <1>5, <1>6, <1>7, <1>12 DEF NodesIInv

LEMMA BubbleEndOK ==
  ASSUME NodesIInv, BubbleEnd
  PROVE  NodesIInv'
<1> USE MaxNodesAssumption
<1>h. PICK h, m : h = hole /\ m = moving
  OBVIOUS
<1>0. /\ loop = "up" /\ Placing /\ ~Placing' /\ loop' = "none" /\ ~Rises
      /\ heap' = [heap EXCEPT ![h] = m] /\ hole' = 0 /\ moving' = 0
      /\ UNCHANGED <<key, total, flags, count, first, next, size, want, at>>
  BY <1>h DEF BubbleEnd, Placing, Place, poolVars, findVars
<1>1. /\ size \in Nat /\ size <= MaxNodes /\ heap \in [0..MaxNodes -> Index]
      /\ total \in [Index -> Nat] /\ h \in 0..MaxNodes /\ m \in Index /\ 0 \in Index
  <2>1. 0 \in Index
    BY DEF Index
  <2>. QED BY <1>h, <2>1 DEF NodesIInv, TypeOK
<1>2. TypeOK'
  BY <1>0, <1>1 DEF NodesIInv, TypeOK
<1>3. PoolInv'
  BY <1>0, PoolKept
<1>4. h = 0 \/ h \in 0..size-1
  BY <1>h, <1>0 DEF NodesIInv, QueueHoldsOpen
<1>5. Filled' = 0..size-1 /\ Filled = (0..size-1) \ {h}
  BY <1>h, <1>0 DEF Filled
<1>6. heap'[h] = m /\ \A i \in Filled : heap'[i] = heap[i] /\ heap[i] \in Index
  BY <1>0, <1>1, <1>5
<1>7. CASE size = 0
  <2>1. Filled = {} /\ Filled' = {}
    BY <1>5, <1>7
  <2>2. QueueHoldsOpen'
    BY <1>0, <1>7, <2>1 DEF NodesIInv, QueueHoldsOpen, Queued
  <2>3. HeapOrder'
    BY <1>0, <2>1 DEF HeapOrder
  <2>. QED BY <1>2, <1>3, <2>2, <2>3 DEF NodesIInv
<1>8. CASE size > 0
  <2>1. h \in Filled' /\ Filled' = Filled \cup {h} /\ h \notin Filled
    BY <1>1, <1>4, <1>5, <1>8
  <2>2. \A i \in Filled : heap[i] # m
    BY <1>h, <1>0, <1>8 DEF NodesIInv, QueueHoldsOpen
  <2>3. QueueHoldsOpen'
    <3>1. \A n \in Index : Queued(n)' <=> Queued(n)
      <4>1. \A n : Queued(n)' <=> \E i \in Filled' : heap'[i] = n
        BY <1>0 DEF Queued
      <4>2. \A n : Queued(n) <=> (\E i \in Filled : heap[i] = n) \/ m = n
        BY <1>h, <1>0, <1>8 DEF Queued
      <4>. QED BY <1>6, <2>1, <4>1, <4>2
    <3>2. \A i, j \in Filled' : heap'[i] = heap'[j] => i = j
      BY <1>6, <2>1, <2>2 DEF NodesIInv, QueueHoldsOpen
    <3>. QED BY <1>0, <3>1, <3>2 DEF NodesIInv, QueueHoldsOpen
  <2>4. At(h)' = total[m] /\ \A i \in Filled : At(i)' = At(i)
    <3>1. total' = total
      BY <1>0
    <3>. QED BY <1>6, <3>1 DEF At
  <2>5. ASSUME NEW i \in Filled' \ {0}, Parent(i) \in Filled'
        PROVE  At(Parent(i))' <= At(i)'
    <3>1. CASE i = h
      <4>1. i \in Nat \ {0} /\ i > 0
        BY <1>1, <2>5, <3>1
      <4>2. Parent(i) < i /\ Parent(i) \in Nat
        BY <4>1, ParentFacts
      <4>3. Parent(h) # h /\ Parent(h) \in Filled
        BY <1>1, <2>1, <2>5, <3>1, <4>1, <4>2
      <4>4. ~(At(Parent(h)) > total[m])
        BY <1>h, <1>0, <3>1, <4>1 DEF Rises
      <4>5. At(Parent(h)) \in Nat /\ total[m] \in Nat
        BY <1>1, <1>6, <4>3 DEF At
      <4>6. At(Parent(h))' = At(Parent(h))
        BY <2>4, <4>3
      <4>. QED BY <2>4, <3>1, <4>4, <4>5, <4>6
    <3>2. CASE i # h /\ Parent(i) = h
      <4>1. i \in Filled \ {0}
        BY <2>1, <3>2
      <4>2. total[m] <= At(i)
        BY <1>h, <1>0, <3>2, <4>1 DEF NodesIInv, HeapOrder
      <4>. QED BY <2>4, <3>2, <4>1, <4>2
    <3>3. CASE i # h /\ Parent(i) # h
      <4>1. i \in Filled \ {0} /\ Parent(i) \in Filled
        BY <2>1, <2>5, <3>3
      <4>2. At(Parent(i)) <= At(i)
        BY <4>1 DEF NodesIInv, HeapOrder
      <4>. QED BY <2>4, <4>1, <4>2
    <3>. QED BY <3>1, <3>2, <3>3
  <2>6. \A i : Parent(i)' = Parent(i)
    BY DEF Parent
  <2>7. HeapOrder'
    BY <1>0, <2>5, <2>6 DEF HeapOrder
  <2>. QED BY <1>2, <1>3, <2>3, <2>7 DEF NodesIInv
<1>. QED BY <1>1, <1>7, <1>8

LEMMA StutterOK ==
  ASSUME NodesIInv, UNCHANGED vars
  PROVE  NodesIInv'
  BY DEF NodesIInv, TypeOK, PoolInv, UsedNodes, OneNodePerKey, ChainsComplete, FindInv, InUse, InBucket,
         IsLatest, BucketOf, QueueHoldsOpen, HeapOrder, Queued, Filled, Placing, At, Parent,
         vars, poolVars, queueVars, findVars, heapLoopVars

LEMMA NextOK ==
  ASSUME NodesIInv, [Next]_vars
  PROVE  NodesIInv'
<1>1. CASE \E k \in Keys : GetNode(k) \/ \E t \in Totals : StartSearch(k, t)
  BY <1>1, GetNodeOK, StartSearchOK
<1>2. CASE \E t \in Totals : Modify(t) \/ Reopen(t) \/ NewNode(t)
  BY <1>2, ModifyOK, ReopenOK, NewNodeOK
<1>3. CASE FindOn
  BY <1>3, FindOnOK
<1>4. CASE Keep \/ OutOfNodes
  BY <1>4, GetNodeLeavesOK
<1>5. CASE Pop
  BY <1>5, PopOK
<1>6. CASE TrickleDown
  BY <1>6, TrickleDownOK
<1>7. CASE TrickleEnd
  BY <1>7, TrickleEndOK
<1>8. CASE BubbleUp
  BY <1>8, BubbleUpOK
<1>9. CASE BubbleEnd
  BY <1>9, BubbleEndOK
<1>10. CASE UNCHANGED vars
  BY <1>10, StutterOK
<1>. QED BY <1>1, <1>2, <1>3, <1>4, <1>5, <1>6, <1>7, <1>8, <1>9, <1>10 DEF Next

\* The nodes, their chains, the loop of getNode, the heap and its hole, step by
\* step.
THEOREM NodesInvariant == Spec => []NodesIInv
  BY InitOK, NextOK, PTL DEF Spec

\* Indices stay within the pool and places within the heap.
THEOREM NodesTypeCorrect == Spec => []TypeOK
<1>1. NodesIInv => TypeOK
  BY DEF NodesIInv
<1>. QED BY <1>1, NodesInvariant, PTL

\* Every chain holds the nodes of its bucket, each once, the latest first: what
\* dtNodePool::getNode finds is all there is.
THEOREM NodesChainsComplete == Spec => []ChainsComplete
<1>1. NodesIInv => ChainsComplete
  BY DEF NodesIInv, PoolInv
<1>. QED BY <1>1, NodesInvariant, PTL

\* The heap holds the nodes flagged open and no others, each once, so it never
\* needs more places than the pool has nodes.
THEOREM NodesQueueHoldsOpen == Spec => []QueueHoldsOpen
<1>1. NodesIInv => QueueHoldsOpen
  BY DEF NodesIInv
<1>. QED BY <1>1, NodesInvariant, PTL

\* dtNodeQueue keeps its heap in order though the totals change under it.
THEOREM NodesHeapOrder == Spec => []HeapOrder
<1>1. NodesIInv => HeapOrder
  BY DEF NodesIInv
<1>. QED BY <1>1, NodesInvariant, PTL

-----------------------------------------------------------------------------
(* What the search sees                                                    *)

LEMMA InitOpens == Init => Open!OpenInit
  BY DEF Init, Open!OpenInit, KnownNodes, OpenKeys, InUse

\* The root of the heap is a cheapest of the open nodes.
LEMMA RootIsCheapest ==
  ASSUME NodesIInv, ~Placing, size > 0, NEW i \in Index, flags[i] = "open"
  PROVE  total[heap[0]] <= total[i]
<1> USE MaxNodesAssumption
<1>1. size \in Nat /\ heap \in [0..MaxNodes -> Index] /\ total \in [Index -> Nat]
      /\ \A p \in 0..size-1 : p \in 0..MaxNodes
  BY DEF NodesIInv, TypeOK
<1>2. Filled = 0..size-1
  BY DEF Filled
<1>3. PICK p \in 0..size-1 : heap[p] = i
  BY <1>2 DEF NodesIInv, QueueHoldsOpen, Queued
<1> DEFINE v == [q \in 0..size-1 |-> At(q)]
<1>4. \A q \in 0..size-1 : v[q] = At(q) /\ v[q] \in Nat
  BY <1>1 DEF At
<1>5. ASSUME NEW q \in 1..size-1
      PROVE  v[Parent(q)] <= v[q]
  <2>1. Parent(q) \in Nat /\ Parent(q) < q
    BY ParentFacts
  <2>2. q \in Filled \ {0} /\ Parent(q) \in Filled
    BY <1>1, <1>2, <2>1
  <2>3. At(Parent(q)) <= At(q)
    BY <2>2 DEF NodesIInv, HeapOrder
  <2>. QED BY <1>2, <1>4, <2>2, <2>3
<1> HIDE DEF v
<1>6. \A q \in 0..size-1 : v[0] <= v[q]
  BY <1>1, <1>4, <1>5, RootIsLeast
<1>. QED BY <1>1, <1>3, <1>4, <1>6 DEF At

\* A step of getNode or of the heap is no step to the search.
LEMMA SameNodesSeen ==
  ASSUME UNCHANGED <<key, total, flags, count>>
  PROVE  UNCHANGED <<KnownNodes, OpenKeys>>
  BY DEF KnownNodes, OpenKeys, InUse

LEMMA InUseIsIndexed ==
  ASSUME NodesIInv
  PROVE  InUse \subseteq Index
<1>1. count \in Nat /\ count <= MaxNodes /\ MaxNodes \in Nat
  BY MaxNodesAssumption DEF NodesIInv, TypeOK
<1>. QED BY <1>1 DEF InUse, Index

LEMMA StartSearchOpens ==
  ASSUME NEW k \in Keys, NEW t \in Totals, StartSearch(k, t)
  PROVE  Open!Start(k, t)
<1>1. InUse' = {0} /\ 0 \in Index
  BY MaxNodesAssumption DEF StartSearch, InUse, Index
<1>2. key'[0] = k /\ total'[0] = t /\ flags'[0] = "open"
  BY <1>1 DEF StartSearch
<1>. QED BY <1>1, <1>2 DEF Open!Start, Open!KnownNode, KnownNodes, OpenKeys

LEMMA NewNodeMeets ==
  ASSUME NodesIInv, NEW t \in Totals, NewNode(t)
  PROVE  want \in Keys /\ Open!Meet(want, t)
<1> USE MaxNodesAssumption
<1>1. want \in Keys /\ \A i \in InUse : key[i] # want
  <2>1. want \in Keys /\ \A i \in InUse : key[i] = want => i <= NullIdx
    BY DEF NodesIInv, PoolInv, FindInv, NewNode, NotFound
  <2>. QED BY <2>1 DEF InUse, NullIdx
<1>2. count \in Index /\ InUse' = InUse \cup {count} /\ count \notin InUse /\ InUse \subseteq Index
  <2>1. count \in Nat /\ count < MaxNodes /\ MaxNodes \in Nat /\ count' = count + 1
    BY DEF NodesIInv, TypeOK, NewNode
  <2>. QED BY <2>1, InUseIsIndexed DEF InUse, Index
<1>3. /\ key'[count] = want /\ total'[count] = t /\ flags'[count] = "open"
      /\ \A i \in InUse : key'[i] = key[i] /\ total'[i] = total[i] /\ flags'[i] = flags[i]
  BY <1>2 DEF NodesIInv, TypeOK, NewNode
<1>4. KnownNodes' = KnownNodes \cup {[key |-> want, total |-> t]}
  BY <1>2, <1>3 DEF KnownNodes
<1>5. OpenKeys' = OpenKeys \cup {want}
  BY <1>2, <1>3 DEF OpenKeys
<1>6. \A n \in KnownNodes : n.key # want
  BY <1>1 DEF KnownNodes
<1>. QED BY <1>1, <1>4, <1>5, <1>6 DEF Open!Meet, Open!KnownNode

LEMMA CheaperCheapens ==
  ASSUME NodesIInv, NEW t \in Totals, Modify(t) \/ Reopen(t)
  PROVE  \E n \in KnownNodes : Open!Cheapen(n, t)
<1>1. /\ at \in InUse /\ at \in Index /\ t < total[at] /\ flags'[at] = "open"
      /\ total' = [total EXCEPT ![at] = t]
      /\ UNCHANGED <<key, count>> /\ \A i \in Index : i # at => flags'[i] = flags[i]
  BY DEF NodesIInv, TypeOK, PoolInv, FindInv, InBucket, Modify, Reopen, Found
<1>2. InUse' = InUse /\ InUse \subseteq Index
  <2>1. count' = count
    BY <1>1
  <2>2. InUse' = InUse
    BY <2>1 DEF InUse
  <2>. QED BY <2>2, InUseIsIndexed
<1>3. \A i \in InUse : total'[i] = IF i = at THEN t ELSE total[i]
  BY <1>1, <1>2 DEF NodesIInv, TypeOK
<1>4. \A i \in InUse : key[i] = key[at] => i = at
  BY <1>1 DEF NodesIInv, PoolInv, OneNodePerKey
<1> DEFINE n == [key |-> key[at], total |-> total[at]]
<1>5. n \in KnownNodes
  BY <1>1 DEF KnownNodes
<1>6. KnownNodes' = (KnownNodes \ {n}) \cup {[key |-> key[at], total |-> t]}
  <2>1. KnownNodes' = {[key |-> key[i], total |-> IF i = at THEN t ELSE total[i]] : i \in InUse}
    BY <1>1, <1>2, <1>3 DEF KnownNodes
  <2>2. \A i \in InUse : [key |-> key[i], total |-> total[i]] = n => i = at
    BY <1>4
  <2>. QED BY <1>1, <2>1, <2>2 DEF KnownNodes
<1>7. OpenKeys' = OpenKeys \cup {key[at]}
  BY <1>1, <1>2 DEF OpenKeys
<1>. QED BY <1>1, <1>5, <1>6, <1>7 DEF Open!Cheapen, Open!KnownNode

LEMMA PopCloses ==
  ASSUME NodesIInv, Pop
  PROVE  \E n \in KnownNodes : Open!Close(n)
<1> DEFINE r == heap[0]
           n == [key |-> key[r], total |-> total[r]]
<1>1. ~Placing /\ size > 0 /\ flags' = [flags EXCEPT ![r] = "closed"] /\ UNCHANGED <<key, total, count>>
  BY DEF Pop, Placing
<1>2. r \in Index /\ flags[r] = "open" /\ r \in InUse
  <2>1. 0 \in Filled /\ 0 \in 0..MaxNodes
    BY <1>1, MaxNodesAssumption DEF Filled, NodesIInv, TypeOK
  <2>2. r \in Index
    BY <2>1 DEF NodesIInv, TypeOK
  <2>3. flags[r] = "open"
    BY <2>1, <2>2 DEF NodesIInv, QueueHoldsOpen, Queued
  <2>. QED BY <2>2, <2>3 DEF NodesIInv, PoolInv, UsedNodes
<1>3. InUse' = InUse /\ InUse \subseteq Index
  <2>1. count' = count
    BY <1>1
  <2>2. InUse' = InUse
    BY <2>1 DEF InUse
  <2>. QED BY <2>2, InUseIsIndexed
<1>4. \A i, j \in InUse : key[i] = key[j] => i = j
  BY DEF NodesIInv, PoolInv, OneNodePerKey
<1>5. n \in KnownNodes /\ n.key \in OpenKeys
  BY <1>2 DEF KnownNodes, OpenKeys
<1>6. ASSUME NEW m \in KnownNodes, m.key \in OpenKeys
      PROVE  n.total <= m.total
  <2>1. PICK i \in InUse : m = [key |-> key[i], total |-> total[i]]
    BY DEF KnownNodes
  <2>2. flags[i] = "open"
    BY <1>4, <1>6, <2>1 DEF OpenKeys
  <2>3. total[r] <= total[i]
    BY <1>1, <1>3, <2>2, RootIsCheapest
  <2>. QED BY <2>1, <2>3
<1>7. \A i \in InUse : flags'[i] = IF i = r THEN "closed" ELSE flags[i]
  BY <1>1, <1>3 DEF NodesIInv, TypeOK
<1>8. OpenKeys' = OpenKeys \ {key[r]}
  <2>1. OpenKeys' = {key[i] : i \in {j \in InUse : j # r /\ flags[j] = "open"}}
    BY <1>1, <1>3, <1>7 DEF OpenKeys
  <2> HIDE DEF r
  <2>. QED BY <1>2, <1>4, <2>1 DEF OpenKeys
<1>9. KnownNodes' = KnownNodes
  BY <1>1, <1>3 DEF KnownNodes
<1>. QED BY <1>5, <1>6, <1>8, <1>9 DEF Open!Close

\* dtNodePool and dtNodeQueue give a search one node for each polygon and state,
\* and of the open ones always a cheapest: RootIsCheapest and OneNodePerKey are
\* what it comes down to.
THEOREM NodesImplementOpenNodes == Spec => ImplementsOpenNodes
<1>1. NodesIInv /\ [Next]_vars => [Open!OpenNext]_<<KnownNodes, OpenKeys>>
  <2> SUFFICES ASSUME NodesIInv, [Next]_vars
               PROVE  Open!OpenNext \/ UNCHANGED <<KnownNodes, OpenKeys>>
    OBVIOUS
  <2>1. CASE \E k \in Keys : \E t \in Totals : StartSearch(k, t)
    BY <2>1, StartSearchOpens DEF Open!OpenNext
  <2>2. CASE \E t \in Totals : NewNode(t)
    BY <2>2, NewNodeMeets DEF Open!OpenNext
  <2>3. CASE \E t \in Totals : Modify(t) \/ Reopen(t)
    BY <2>3, CheaperCheapens DEF Open!OpenNext
  <2>4. CASE Pop
    BY <2>4, PopCloses DEF Open!OpenNext
  <2>5. CASE (\E k \in Keys : GetNode(k)) \/ FindOn \/ Keep \/ OutOfNodes
    BY <2>5, SameNodesSeen DEF GetNode, FindOn, Keep, OutOfNodes, poolVars
  <2>6. CASE TrickleDown \/ TrickleEnd \/ BubbleUp \/ BubbleEnd \/ UNCHANGED vars
    BY <2>6, SameNodesSeen DEF TrickleDown, TrickleEnd, BubbleUp, BubbleEnd, vars, poolVars
  <2>. QED BY <2>1, <2>2, <2>3, <2>4, <2>5, <2>6 DEF Next
<1>. QED BY InitOpens, NodesInvariant, <1>1, PTL DEF Spec, ImplementsOpenNodes, Open!OpenSpec, Open!openVars
=============================================================================
