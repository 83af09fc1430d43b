----------------------------- MODULE SearchNodes -----------------------------
(***************************************************************************)
(* dtNodePool and dtNodeQueue as a search of dtNavMeshQuery uses them: the *)
(* nodes in an array with hash chains through it, and the open list as a   *)
(* binary heap of pointers into that array.                                *)
(*                                                                         *)
(* The loops of getNode, trickleDown and bubbleUp are a step for each      *)
(* turn, so that what holds in the middle of one can be stated.            *)
(***************************************************************************)
EXTENDS Integers

CONSTANTS
  Refs,      \* polygons
  States,    \* dtNode::state; findPath keeps nodes apart by the side crossed
  Buckets,   \* of the hash table
  Hash,      \* Hash[ref], dtHashRef of it within the table
  MaxNodes,  \* m_maxNodes, and m_capacity of the open list
  Totals     \* costs with heuristics

ASSUME HashAssumption == Hash \in [Refs -> Buckets]
ASSUME MaxNodesAssumption == MaxNodes \in Nat \ {0}
ASSUME TotalsAssumption == Totals \subseteq Nat

VARIABLES
  key, total, flags,  \* m_nodes: id with state, total, DT_NODE_OPEN or _CLOSED
  count,              \* m_nodeCount
  first, next,        \* m_first, m_next
  heap, size,         \* m_heap, m_size
  loop,               \* the loop that runs: "none", "find", "down" or "up"
  want, at,           \* locals of getNode: id with state, i
  hole, moving        \* locals of the loops of the heap: i, node

poolVars == <<key, total, flags, count, first, next>>
queueVars == <<heap, size>>
findVars == <<want, at>>
heapLoopVars == <<hole, moving>>
vars == <<poolVars, queueVars, loop, findVars, heapLoopVars>>

-----------------------------------------------------------------------------
Keys == [ref : Refs, state : States]
NoKey == [ref |-> "none", state |-> 0]

\* DT_NULL_IDX: all bits set.
NullIdx == -1

Index == 0..MaxNodes-1

InUse == 0..count-1

BucketOf(k) == Hash[k.ref]

InBucket(b) == {i \in InUse : BucketOf(key[i]) = b}

Parent(i) == (i - 1) \div 2
LeftChild(i) == 2 * i + 1

\* Total of the node in place i of the heap.
At(i) == total[heap[i]]

\* From here on node i is placed by the loops of the heap, beginning at place p.
Place(i, p, which) ==
  /\ moving' = i
  /\ hole' = p
  /\ loop' = which

\* push.
Push(i) ==
  /\ size' = size + 1
  /\ Place(i, size, "up")

-----------------------------------------------------------------------------
\* Mutant of StartSearch: m_first is not reset.
StartSearchDirty(k, t) ==
  /\ loop = "none"
  /\ first' = [first EXCEPT ![BucketOf(k)] = 0]
  /\ next' = [next EXCEPT ![0] = first[BucketOf(k)]]
  /\ key' = [i \in Index |-> IF i = 0 THEN k ELSE NoKey]
  /\ total' = [i \in Index |-> IF i = 0 THEN t ELSE 0]
  /\ flags' = [i \in Index |-> IF i = 0 THEN "open" ELSE "none"]
  /\ count' = 1
  /\ heap' = [i \in 0..MaxNodes |-> 0]
  /\ size' = 1
  /\ UNCHANGED <<loop, findVars, heapLoopVars>>

\* Every search clears both and pushes the node of its start.  What the other
\* nodes and the rest of the heap held is never read and is forgotten here, but
\* for m_next, which clear leaves as it is.
StartSearch(k, t) ==
  /\ loop = "none"
  /\ first' = [b \in Buckets |-> IF b = BucketOf(k) THEN 0 ELSE NullIdx]
  /\ next' = [next EXCEPT ![0] = NullIdx]
  /\ key' = [i \in Index |-> IF i = 0 THEN k ELSE NoKey]
  /\ total' = [i \in Index |-> IF i = 0 THEN t ELSE 0]
  /\ flags' = [i \in Index |-> IF i = 0 THEN "open" ELSE "none"]
  /\ count' = 1
  /\ heap' = [i \in 0..MaxNodes |-> 0]
  /\ size' = 1
  /\ UNCHANGED <<loop, findVars, heapLoopVars>>

\* getNode, for a neighbour of the node that was popped.
GetNode(k) ==
  /\ loop = "none"
  /\ count > 0
  /\ loop' = "find"
  /\ want' = k
  /\ at' = first[BucketOf(k)]
  /\ UNCHANGED <<poolVars, queueVars, heapLoopVars>>

FindOn ==
  /\ loop = "find"
  /\ at # NullIdx
  /\ key[at] # want
  /\ at' = next[at]
  /\ UNCHANGED <<poolVars, queueVars, loop, want, heapLoopVars>>

Found ==
  /\ loop = "find"
  /\ at # NullIdx
  /\ key[at] = want

GetNodeEnds == want' = NoKey /\ at' = NullIdx

\* The search does not improve the node it was given.
Keep ==
  /\ Found
  /\ loop' = "none"
  /\ GetNodeEnds
  /\ UNCHANGED <<poolVars, queueVars, heapLoopVars>>

\* An open node is cheaper now: modify looks its place up.
Modify(t) ==
  /\ Found
  /\ flags[at] = "open"
  /\ t < total[at]
  /\ total' = [total EXCEPT ![at] = t]
  /\ \E i \in 0..size-1 : heap[i] = at /\ Place(at, i, "up")
  /\ GetNodeEnds
  /\ UNCHANGED <<key, flags, count, first, next, queueVars>>

\* Mutant of Reopen: an open node is pushed again.
ReopenAny(t) ==
  /\ Found
  /\ t < total[at]
  /\ total' = [total EXCEPT ![at] = t]
  /\ flags' = [flags EXCEPT ![at] = "open"]
  /\ Push(at)
  /\ GetNodeEnds
  /\ UNCHANGED <<key, count, first, next, heap>>

\* A closed node is cheaper now.
Reopen(t) ==
  /\ Found
  /\ flags[at] = "closed"
  /\ t < total[at]
  /\ total' = [total EXCEPT ![at] = t]
  /\ flags' = [flags EXCEPT ![at] = "open"]
  /\ Push(at)
  /\ GetNodeEnds
  /\ UNCHANGED <<key, count, first, next, heap>>

NotFound == loop = "find" /\ at = NullIdx

\* Mutant of NewNode: the node is put in front of a chain it does not go on.
NewNodeCutsChain(t) ==
  /\ NotFound
  /\ count < MaxNodes
  /\ key' = [key EXCEPT ![count] = want]
  /\ total' = [total EXCEPT ![count] = t]
  /\ flags' = [flags EXCEPT ![count] = "open"]
  /\ next' = next
  /\ first' = [first EXCEPT ![BucketOf(want)] = count]
  /\ count' = count + 1
  /\ Push(count)
  /\ GetNodeEnds
  /\ UNCHANGED heap

\* The next of the array, at the front of its chain.  A search pushes every
\* node that it is given for the first time.
NewNode(t) ==
  /\ NotFound
  /\ count < MaxNodes
  /\ key' = [key EXCEPT ![count] = want]
  /\ total' = [total EXCEPT ![count] = t]
  /\ flags' = [flags EXCEPT ![count] = "open"]
  /\ next' = [next EXCEPT ![count] = first[BucketOf(want)]]
  /\ first' = [first EXCEPT ![BucketOf(want)] = count]
  /\ count' = count + 1
  /\ Push(count)
  /\ GetNodeEnds
  /\ UNCHANGED heap

OutOfNodes ==
  /\ NotFound
  /\ count = MaxNodes
  /\ loop' = "none"
  /\ GetNodeEnds
  /\ UNCHANGED <<poolVars, queueVars, heapLoopVars>>

\* The root is given to the search, which closes it; the last is to be placed.
Pop ==
  /\ loop = "none"
  /\ size > 0
  /\ flags' = [flags EXCEPT ![heap[0]] = "closed"]
  /\ size' = size - 1
  /\ heap' = [heap EXCEPT ![size - 1] = 0]
  /\ Place(heap[size - 1], 0, "down")
  /\ UNCHANGED <<key, total, count, first, next, findVars>>

\* Mutant of CheaperChild: the right one is not looked at.
CheaperChildLeft(i) == LeftChild(i)

CheaperChild(i) ==
  LET l == LeftChild(i)
  IN  IF l + 1 < size /\ At(l) > At(l + 1) THEN l + 1 ELSE l

TrickleDown ==
  /\ loop = "down"
  /\ LeftChild(hole) < size
  /\ heap' = [heap EXCEPT ![hole] = heap[CheaperChild(hole)]]
  /\ hole' = CheaperChild(hole)
  /\ UNCHANGED <<poolVars, size, loop, findVars, moving>>

TrickleEnd ==
  /\ loop = "down"
  /\ LeftChild(hole) >= size
  /\ loop' = "up"
  /\ UNCHANGED <<poolVars, queueVars, findVars, heapLoopVars>>

Rises == hole > 0 /\ At(Parent(hole)) > total[moving]

BubbleUp ==
  /\ loop = "up"
  /\ Rises
  /\ heap' = [heap EXCEPT ![hole] = heap[Parent(hole)]]
  /\ hole' = Parent(hole)
  /\ UNCHANGED <<poolVars, size, loop, findVars, moving>>

BubbleEnd ==
  /\ loop = "up"
  /\ ~Rises
  /\ heap' = [heap EXCEPT ![hole] = moving]
  /\ Place(0, 0, "none")
  /\ UNCHANGED <<poolVars, size, findVars>>

-----------------------------------------------------------------------------
Init ==
  /\ key = [i \in Index |-> NoKey]
  /\ total = [i \in Index |-> 0]
  /\ flags = [i \in Index |-> "none"]
  /\ count = 0
  /\ first = [b \in Buckets |-> NullIdx]
  /\ next = [i \in Index |-> NullIdx]
  /\ heap = [i \in 0..MaxNodes |-> 0]
  /\ size = 0
  /\ loop = "none"
  /\ want = NoKey
  /\ at = NullIdx
  /\ hole = 0
  /\ moving = 0

Next ==
  \/ \E k \in Keys : GetNode(k) \/ \E t \in Totals : StartSearch(k, t)
  \/ FindOn
  \/ Keep
  \/ OutOfNodes
  \/ \E t \in Totals : Modify(t) \/ Reopen(t) \/ NewNode(t)
  \/ Pop
  \/ TrickleDown
  \/ TrickleEnd
  \/ BubbleUp
  \/ BubbleEnd

Spec == Init /\ [][Next]_vars

-----------------------------------------------------------------------------
TypeOK ==
  /\ key \in [Index -> Keys \cup {NoKey}]
  /\ total \in [Index -> Nat]
  /\ flags \in [Index -> {"none", "open", "closed"}]
  /\ count \in 0..MaxNodes
  /\ first \in [Buckets -> Index \cup {NullIdx}]
  /\ next \in [Index -> Index \cup {NullIdx}]
  /\ heap \in [0..MaxNodes -> Index]
  /\ size \in 0..MaxNodes
  /\ loop \in {"none", "find", "down", "up"}
  /\ want \in Keys \cup {NoKey}
  /\ at \in Index \cup {NullIdx}
  /\ hole \in 0..MaxNodes
  /\ moving \in Index

\* The hash chains miss no node and repeat none: the chain of a bucket begins
\* with the node met last in it and goes back in the order they were met.  A
\* node that fell out of its chain would be given to a polygon a second time,
\* and the search would go round in it; a chain into the nodes of an earlier
\* search, which clear leaves linked, would not end.
IsLatest(i, S) == IF S = {} THEN i = NullIdx ELSE i \in S /\ \A j \in S : j <= i

ChainsComplete ==
  /\ \A b \in Buckets : IsLatest(first[b], InBucket(b))
  /\ \A i \in InUse : IsLatest(next[i], {j \in InBucket(BucketOf(key[i])) : j < i})

Placing == loop \in {"down", "up"}

Filled == {i \in 0..size-1 : Placing => i # hole}

\* Node n is in the heap, or is to be placed in it: not when the last one was
\* popped, which is moved too.
Queued(n) ==
  \/ \E i \in Filled : heap[i] = n
  \/ Placing /\ size > 0 /\ moving = n

\* The open list holds each node that is flagged open, once, and no other, in
\* the middle of a push, a pop or a modify too.  Its array has as many places
\* as the pool has nodes: a node pushed twice would in the end be written past
\* it, and one that is flagged but not in it would never be expanded.
QueueHoldsOpen ==
  /\ \A n \in Index : Queued(n) <=> flags[n] = "open"
  /\ \A i, j \in Filled : heap[i] = heap[j] => i = j
  /\ Placing => hole \in {0} \cup (0..size-1)
  /\ Placing /\ size > 0 => \A i \in Filled : heap[i] # moving

\* The heap is in order but at the hole, and the hole can be filled: with
\* anything from below while it sinks, with the node being placed while it
\* rises.  The total of an open node changes under the heap, before modify is
\* called, and modify only moves up: right because totals only fall.
HeapOrder ==
  /\ \A i \in Filled \ {0} : Parent(i) \in Filled => At(Parent(i)) <= At(i)
  /\ Placing => \A i \in Filled \ {0} :
       /\ Parent(i) = hole /\ hole > 0 => At(Parent(hole)) <= At(i)
       /\ Parent(i) = hole /\ loop = "up" => total[moving] <= At(i)

\* The pool and the heap are what a search takes them for: a node for each
\* polygon it meets, never a second, and always the cheapest open one next.
KnownNodes == {[key |-> key[i], total |-> total[i]] : i \in InUse}

OpenKeys == {key[i] : i \in {j \in InUse : flags[j] = "open"}}

Open == INSTANCE OpenNodes WITH known <- KnownNodes, open <- OpenKeys

ImplementsOpenNodes == Open!OpenSpec
=============================================================================
