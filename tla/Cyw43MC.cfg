SPECIFICATION FairSpec
CONSTANTS
  Cores <- MCCores
  AlarmCore <- MCAlarmCore
  MaxNest = 2
  Budget = 2
  NoOwner = NoOwner
INVARIANTS
  BackgroundAlone
  NoWorkLost
  HostWakeHeard
PROPERTY WorkServed
