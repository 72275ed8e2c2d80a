SPECIFICATION HeapSpec
CONSTANTS
  max_nodes = 5
  Key <- MCKey
INVARIANTS
  HeapShape
  ContainsIsIn
PROPERTIES
  AbstractHeapSpec
