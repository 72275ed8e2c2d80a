--------------------------- MODULE LockCoreProofs ---------------------------
(***************************************************************************)
(* The invariant of the substrate, preserved by each of its actions        *)
(* whatever the primitive does between Acquire and SpinUnlock.  Mutex,     *)
(* Semaphore and Queue cite these lemmas.                                  *)
(***************************************************************************)
EXTENDS LockCore, TLAPS

InCall == {"enter", "spin", "held", "loaded", "wfe", "timed", "twfe"}
Waiting == {"wfe", "timed", "twfe"}

\* A context inside a call knows what it called, and only threads block.
CallInv(Ops) ==
  \A x \in Contexts :
    /\ pc[x] \in InCall => req[x] \in [op : Ops, obj : Objects]
    /\ pc[x] \in Waiting => ~IsHandler(x)

\* A spin lock is owned by the context that is past its acquisition.
SpinInv ==
  \A x \in Contexts : pc[x] \in {"held", "loaded"} => spin[MySpin(x)] = x

CoreInv(Ops) ==
  /\ CoreTypeOK(Ops) /\ CallInv(Ops)
  /\ SpinHolderRuns /\ SpinInv /\ NoLostTimeout

\* Contexts are the threads and the handlers of the cores.
LEMMA ContextFacts ==
  /\ \A x \in Contexts :
       /\ CoreOf(x) \in Cores
       /\ IsHandler(x) => x = Handler(CoreOf(x))
       /\ ~IsHandler(x) => x = Thread(CoreOf(x))
  /\ \A c \in Cores :
       /\ Thread(c) \in Contexts /\ CoreOf(Thread(c)) = c /\ ~IsHandler(Thread(c))
       /\ Handler(c) \in Contexts /\ CoreOf(Handler(c)) = c /\ IsHandler(Handler(c))
  /\ NoCtx \notin Contexts
  BY LockCoreAssumption DEF Contexts, CoreOf, IsHandler, Thread, Handler

\* The initial states satisfy the invariant, for any set of operations.
LEMMA CoreInitInv == ASSUME NEW Ops, CoreInit PROVE CoreInv(Ops)
<1> USE LockCoreAssumption DEF CoreInit
<1>1. CoreTypeOK(Ops)
  BY DEF CoreTypeOK, Stages, Deadlines, Contexts
<1>2. \A x \in Contexts : pc[x] \in {"off", "idle"}
  OBVIOUS
<1> QED
  BY <1>1, <1>2 DEF CoreInv, CallInv, InCall, Waiting, SpinHolderRuns, SpinInv, NoLostTimeout

\* What each action does to the context that takes it; every other context
\* keeps its stage and its call.
LEMMA MaskInv == ASSUME NEW Ops, CoreInv(Ops), NEW x \in Contexts, Mask(x) PROVE CoreInv(Ops)'
<1> USE ContextFacts, LockCoreAssumption DEF CoreInv, Mask
<1>1. CoreTypeOK(Ops)' BY DEF CoreTypeOK, Stages
<1>2. CallInv(Ops)' BY DEF CallInv, InCall, Waiting, CoreTypeOK
<1>3. SpinHolderRuns' BY DEF SpinHolderRuns, Running, CoreTypeOK
<1>4. SpinInv' BY DEF SpinInv, MySpin, CoreTypeOK
<1>5. NoLostTimeout' BY DEF NoLostTimeout, CoreTypeOK
<1> QED BY <1>1, <1>2, <1>3, <1>4, <1>5

LEMMA AcquireInv == ASSUME NEW Ops, CoreInv(Ops), NEW x \in Contexts, Acquire(x) PROVE CoreInv(Ops)'
<1> USE ContextFacts, LockCoreAssumption DEF CoreInv, Acquire
<1>1. CoreTypeOK(Ops)' BY DEF CoreTypeOK, Stages
<1>2. CallInv(Ops)' BY DEF CallInv, InCall, Waiting, CoreTypeOK
<1>3. SpinHolderRuns' BY DEF SpinHolderRuns, Running, CoreTypeOK
<1>4. SpinInv'
  <2>1. req[x].obj \in Objects BY DEF CallInv, InCall
  <2> QED BY <2>1 DEF SpinInv, MySpin, CoreTypeOK
<1>5. NoLostTimeout' BY DEF NoLostTimeout, CoreTypeOK
<1> QED BY <1>1, <1>2, <1>3, <1>4, <1>5

LEMMA CoreLoadInv == ASSUME NEW Ops, CoreInv(Ops), NEW x \in Contexts, Load(x) PROVE CoreInv(Ops)'
<1> USE ContextFacts, LockCoreAssumption DEF CoreInv, Load
<1>1. CoreTypeOK(Ops)' BY DEF CoreTypeOK, Stages, Deadlines
<1>2. CallInv(Ops)' BY DEF CallInv, InCall, Waiting, CoreTypeOK
<1>3. SpinHolderRuns' BY DEF SpinHolderRuns, Running, CoreTypeOK
<1>4. SpinInv' BY DEF SpinInv, MySpin, CoreTypeOK
<1>5. NoLostTimeout' BY DEF NoLostTimeout, CoreTypeOK, CallInv, Waiting
<1> QED BY <1>1, <1>2, <1>3, <1>4, <1>5

LEMMA WfeInv == ASSUME NEW Ops, CoreInv(Ops), NEW x \in Contexts, Wfe(x) PROVE CoreInv(Ops)'
<1> USE ContextFacts, LockCoreAssumption DEF CoreInv, Wfe
<1>1. CoreTypeOK(Ops)' BY DEF CoreTypeOK, Stages, Deadlines
<1>2. CallInv(Ops)' BY DEF CallInv, InCall, Waiting, CoreTypeOK
<1>3. SpinHolderRuns' BY DEF SpinHolderRuns, Running, CoreTypeOK
<1>4. SpinInv' BY DEF SpinInv, MySpin, CoreTypeOK
<1>5. NoLostTimeout' BY DEF NoLostTimeout, CoreTypeOK, CallInv, Waiting
<1> QED BY <1>1, <1>2, <1>3, <1>4, <1>5

LEMMA SevInv == ASSUME NEW Ops, CoreInv(Ops), NEW x \in Contexts, Sev(x) PROVE CoreInv(Ops)'
<1> USE ContextFacts, LockCoreAssumption DEF CoreInv, Sev
<1>1. CoreTypeOK(Ops)' BY DEF CoreTypeOK, Stages, Deadlines
<1>2. CallInv(Ops)' BY DEF CallInv, InCall, Waiting, CoreTypeOK
<1>3. SpinHolderRuns' BY DEF SpinHolderRuns, Running, CoreTypeOK
<1>4. SpinInv' BY DEF SpinInv, MySpin, CoreTypeOK
<1>5. NoLostTimeout' BY DEF NoLostTimeout, CoreTypeOK, CallInv, Waiting
<1> QED BY <1>1, <1>2, <1>3, <1>4, <1>5

LEMMA TimedPollInv == ASSUME NEW Ops, CoreInv(Ops), NEW x \in Contexts, TimedPoll(x) PROVE CoreInv(Ops)'
<1> USE ContextFacts, LockCoreAssumption DEF CoreInv, TimedPoll, AfterTimedWait, EndCall
<1>1. CoreTypeOK(Ops)' BY DEF CoreTypeOK, Stages, Deadlines
<1>2. CallInv(Ops)' BY DEF CallInv, InCall, Waiting, CoreTypeOK
<1>3. SpinHolderRuns' BY DEF SpinHolderRuns, Running, CoreTypeOK
<1>4. SpinInv' BY DEF SpinInv, MySpin, CoreTypeOK
<1>5. NoLostTimeout' BY DEF NoLostTimeout, CoreTypeOK, CallInv, Waiting
<1> QED BY <1>1, <1>2, <1>3, <1>4, <1>5

LEMMA TimedArmInv == ASSUME NEW Ops, CoreInv(Ops), NEW x \in Contexts, TimedArm(x) PROVE CoreInv(Ops)'
<1> USE ContextFacts, LockCoreAssumption DEF CoreInv, TimedArm
<1>1. CoreTypeOK(Ops)' BY DEF CoreTypeOK, Stages, Deadlines
<1>2. CallInv(Ops)' BY DEF CallInv, InCall, Waiting, CoreTypeOK
<1>3. SpinHolderRuns' BY DEF SpinHolderRuns, Running, CoreTypeOK
<1>4. SpinInv' BY DEF SpinInv, MySpin, CoreTypeOK
<1>5. NoLostTimeout' BY DEF NoLostTimeout, CoreTypeOK, CallInv, Waiting
<1> QED BY <1>1, <1>2, <1>3, <1>4, <1>5

LEMMA TimedWakeInv == ASSUME NEW Ops, CoreInv(Ops), NEW x \in Contexts, TimedWake(x) PROVE CoreInv(Ops)'
<1> USE ContextFacts, LockCoreAssumption DEF CoreInv, TimedWake, AfterTimedWait, EndCall
<1>1. CoreTypeOK(Ops)' BY DEF CoreTypeOK, Stages, Deadlines
<1>2. CallInv(Ops)' BY DEF CallInv, InCall, Waiting, CoreTypeOK
<1>3. SpinHolderRuns' BY DEF SpinHolderRuns, Running, CoreTypeOK
<1>4. SpinInv' BY DEF SpinInv, MySpin, CoreTypeOK
<1>5. NoLostTimeout' BY DEF NoLostTimeout, CoreTypeOK, CallInv, Waiting
<1> QED BY <1>1, <1>2, <1>3, <1>4, <1>5

LEMMA TimeReachedInv == ASSUME NEW Ops, CoreInv(Ops), NEW x \in Contexts, TimeReached(x) PROVE CoreInv(Ops)'
<1> USE ContextFacts, LockCoreAssumption DEF CoreInv, TimeReached
<1>1. CoreTypeOK(Ops)' BY DEF CoreTypeOK, Stages, Deadlines
<1>2. CallInv(Ops)' BY DEF CallInv, InCall, Waiting, CoreTypeOK
<1>3. SpinHolderRuns' BY DEF SpinHolderRuns, Running, CoreTypeOK
<1>4. SpinInv' BY DEF SpinInv, MySpin, CoreTypeOK
<1>5. NoLostTimeout' BY DEF NoLostTimeout, CoreTypeOK, CallInv, Waiting
<1> QED BY <1>1, <1>2, <1>3, <1>4, <1>5

LEMMA AlarmFiresInv == ASSUME NEW Ops, CoreInv(Ops), NEW x \in Contexts, AlarmFires(x) PROVE CoreInv(Ops)'
<1> USE ContextFacts, LockCoreAssumption DEF CoreInv, AlarmFires
<1>1. CoreTypeOK(Ops)' BY DEF CoreTypeOK, Stages, Deadlines
<1>2. CallInv(Ops)' BY DEF CallInv, InCall, Waiting, CoreTypeOK
<1>3. SpinHolderRuns' BY DEF SpinHolderRuns, Running, CoreTypeOK
<1>4. SpinInv' BY DEF SpinInv, MySpin, CoreTypeOK
<1>5. NoLostTimeout' BY DEF NoLostTimeout, CoreTypeOK, CallInv, Waiting
<1> QED BY <1>1, <1>2, <1>3, <1>4, <1>5

LEMMA IrqEnterInv == ASSUME NEW Ops, CoreInv(Ops), NEW c \in Cores, IrqEnter(c) PROVE CoreInv(Ops)'
<1> USE ContextFacts, LockCoreAssumption DEF CoreInv, IrqEnter, SpendCall
<1>1. CoreTypeOK(Ops)' BY DEF CoreTypeOK, Stages, Deadlines
<1>2. CallInv(Ops)' BY DEF CallInv, InCall, Waiting, CoreTypeOK
<1>3. SpinHolderRuns' BY DEF SpinHolderRuns, Running, CoreTypeOK
<1>4. SpinInv' BY DEF SpinInv, MySpin, CoreTypeOK
<1>5. NoLostTimeout' BY DEF NoLostTimeout, CoreTypeOK, CallInv, Waiting
<1> QED BY <1>1, <1>2, <1>3, <1>4, <1>5

LEMMA IrqExitInv == ASSUME NEW Ops, CoreInv(Ops), NEW c \in Cores, IrqExit(c) PROVE CoreInv(Ops)'
<1> USE ContextFacts, LockCoreAssumption DEF CoreInv, IrqExit
<1>1. CoreTypeOK(Ops)' BY DEF CoreTypeOK, Stages, Deadlines
<1>2. CallInv(Ops)' BY DEF CallInv, InCall, Waiting, CoreTypeOK
<1>3. SpinHolderRuns' BY DEF SpinHolderRuns, Running, CoreTypeOK
<1>4. SpinInv' BY DEF SpinInv, MySpin, CoreTypeOK
<1>5. NoLostTimeout' BY DEF NoLostTimeout, CoreTypeOK, CallInv, Waiting
<1> QED BY <1>1, <1>2, <1>3, <1>4, <1>5

LEMMA BeginCallInv ==
  ASSUME NEW Ops, CoreInv(Ops), NEW x \in Contexts,
         NEW r \in [op : Ops, obj : Objects], NEW timed \in BOOLEAN,
         BeginCall(x, r, timed), SpendCall(x) \/ UNCHANGED left
  PROVE  CoreInv(Ops)'
<1> USE ContextFacts, LockCoreAssumption DEF CoreInv, BeginCall, SpendCall
<1>1. CoreTypeOK(Ops)' BY DEF CoreTypeOK, Stages, Deadlines
<1>2. CallInv(Ops)' BY DEF CallInv, InCall, Waiting, CoreTypeOK
<1>3. SpinHolderRuns' BY DEF SpinHolderRuns, Running, CoreTypeOK
<1>4. SpinInv' BY DEF SpinInv, MySpin, CoreTypeOK
<1>5. NoLostTimeout' BY DEF NoLostTimeout, CoreTypeOK, CallInv, Waiting
<1> QED BY <1>1, <1>2, <1>3, <1>4, <1>5

\* A primitive decides under the spin lock and goes on at a stage of its
\* choice; it makes only threads wait.
LEMMA SpinUnlockInv ==
  ASSUME NEW Ops, CoreInv(Ops), NEW x \in Contexts, pc[x] = "loaded",
         NEW next \in {"idle", "sev", "wfe", "timed"},
         next \in Waiting => ~IsHandler(x),
         SpinUnlock(x, next)
  PROVE  CoreInv(Ops)'
<1> USE ContextFacts, LockCoreAssumption DEF CoreInv, SpinUnlock, EndCall
<1>0. MySpin(x) \in SpinLocks /\ spin[MySpin(x)] = x
  BY DEF CallInv, InCall, MySpin, SpinInv
<1>1. CoreTypeOK(Ops)' BY <1>0 DEF CoreTypeOK, Stages, Deadlines
<1>2. CallInv(Ops)' BY DEF CallInv, InCall, Waiting, CoreTypeOK
<1>3. SpinHolderRuns' BY DEF SpinHolderRuns, Running, CoreTypeOK
<1>4. SpinInv' BY <1>0 DEF SpinInv, MySpin, CoreTypeOK
<1>5. NoLostTimeout' BY DEF NoLostTimeout, CoreTypeOK, CallInv, Waiting
<1> QED BY <1>1, <1>2, <1>3, <1>4, <1>5

\* Two contexts that have passed Acquire on one spin lock are the same:
\* what is read and written under it is read and written by one of them.
LEMMA SpinExclusion ==
  ASSUME NEW Ops, CoreInv(Ops), NEW x \in Contexts, NEW y \in Contexts,
         pc[x] \in {"held", "loaded"}, pc[y] \in {"held", "loaded"},
         req[x].obj = req[y].obj
  PROVE  x = y
  BY DEF CoreInv, SpinInv, MySpin

LEMMA StutterInv == ASSUME NEW Ops, CoreInv(Ops), UNCHANGED coreVars PROVE CoreInv(Ops)'
  BY DEF CoreInv, coreVars, CoreTypeOK, CallInv, InCall, Waiting, SpinHolderRuns,
         Running, SpinInv, MySpin, NoLostTimeout

\* A core's event register has one consumer: at most one context of a core
\* waits, its thread.
LEMMA OneWaiter ==
  ASSUME NEW Ops, CallInv(Ops), NEW x \in Contexts, NEW y \in Contexts,
         pc[x] \in Waiting, pc[y] \in Waiting, CoreOf(x) = CoreOf(y)
  PROVE  x = y
  BY ContextFacts DEF CallInv
=============================================================================
