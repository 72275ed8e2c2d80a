SPECIFICATION HeapSpec
CONSTANTS
  max_nodes = 2
  Key <- MCKey
INVARIANTS
  FullMeansFull
