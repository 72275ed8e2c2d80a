SPECIFICATION FairIrqSpec
CONSTANTS
  MaxHandlers = 3
  Vector = {v1, v2}
  Handler <- MCHandler
  h1 = h1
  h2 = h2
  h3 = h3
  Priority <- MCPriority
  Unhandled = Unhandled
  MaxAdds = 4
CHECK_DEADLOCK FALSE
INVARIANTS
  SlotsAccounted
  CodeFollowsLinks
  CalledInOrder
  ExecutionInChain
PROPERTIES
  EverySourceServed
