SPECIFICATION FairSpec
CONSTANTS
  c0 = c0
  c1 = c1
  plain = plain
  nested = nested
  lock = lock
  Cores = {c0, c1}
  AlarmCore = c0
  Objects = {plain, nested}
  SpinLocks = {lock}
  SpinOf <- MCSpinOf
  Recursive = {nested}
  Budget <- MCBudget
  NoCall = NoCall
  MaxNest = 2
  NoCtx = NoCtx
  NoOwner = NoOwner
PROPERTIES
  AbstractSpec
  EveryCallReturns
CHECK_DEADLOCK FALSE
INVARIANTS
  MutualExclusion
  NoLostWakeup
  SpinHolderRuns
