SPECIFICATION FairSpec
CONSTANTS
  c0 = c0
  c1 = c1
  pool = pool
  lock = lock
  Cores = {c0, c1}
  AlarmCore = c0
  Objects = {pool}
  SpinLocks = {lock}
  SpinOf <- MCSpinOf
  InitialPermits <- MCInitialPermits
  MaxPermits <- MCMaxPermits
  Budget <- MCBudget
  NoCall = NoCall
  NoCtx = NoCtx
CHECK_DEADLOCK FALSE
INVARIANTS
  NoLostWakeup
PROPERTIES
  AbstractSpec
  NoStrandedWaiter
  BoundedCallsReturn
