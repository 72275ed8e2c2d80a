SPECIFICATION FairSpec
CONSTANTS
  N = 3
  Bytes <- MCBytes
  None = None
  Budget = 6
INVARIANTS
  ChecksHold
PROPERTIES
  AbstractSpec
  BytesRead
