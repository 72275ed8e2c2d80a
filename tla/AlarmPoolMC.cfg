SPECIFICATION FairSpec
CONSTANTS
  t0 = t0
  t1 = t1
  Threads = {t0, t1}
  Local = {t0}
  Irq = Irq
  NoUser = NoUser
  max_nodes = 2
  MaxTime = 3
  LowWord = 2
  Targets = {1, 3}
  Delay = 1
  MaxRepeats = 1
  Budget <- LiveBudget
  MaxAlarms = 3
CHECK_DEADLOCK FALSE
INVARIANTS
  NodesAccounted
  CallbackAsserts
  CancelIsFinal
  RetiredIdsAreFresh
  NoAlarmForgotten
PROPERTIES
  EveryAlarmFires
