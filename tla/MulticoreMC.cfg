SPECIFICATION FairSpec
CONSTANTS
  Depth = 2
  NoCore = NoCore
  Budget <- MCBudget
  TimedVictims = FALSE
  MaxResets = 1
CHECK_DEADLOCK FALSE
INVARIANTS
  LaunchComplete
  HolderAlone
  PausedOnRequest
PROPERTIES
  BlockingCallsReturn
