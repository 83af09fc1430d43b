\* The heap and the hash chains under any search.
CONSTANTS
  a = a
  b = b
  c = c
  d = d
  e = e
  Refs = {a, b, c, d, e}
  States = {0}
  Buckets = {0, 1}
  Hash <- TwoChains
  MaxNodes = 4
  Totals = {0, 1, 2}
SYMMETRY SameChain
SPECIFICATION Spec
INVARIANTS TypeOK ChainsComplete QueueHoldsOpen HeapOrder
PROPERTY ImplementsOpenNodes
