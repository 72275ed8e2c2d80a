SPECIFICATION FairSpec
CONSTANTS
  c0 = c0
  c1 = c1
  fifo = fifo
  lock = lock
  Cores = {c0, c1}
  AlarmCore = c0
  Objects = {fifo}
  SpinLocks = {lock}
  SpinOf <- MCSpinOf
  element_count <- MCCount
  Budget <- MCBudget
  Values = {1, 2}
  None = None
  NoCall = NoCall
  NoCtx = NoCtx
CHECK_DEADLOCK FALSE
INVARIANTS
  NoLostWakeup
PROPERTIES
  AbstractSpec
  NoStrandedWaiter
