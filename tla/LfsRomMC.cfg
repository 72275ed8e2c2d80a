SPECIFICATION Spec
CONSTANTS
  Blocks = {0}
  Pages = 3
  Bits = {0, 1}
INVARIANT RegionProgrammed
