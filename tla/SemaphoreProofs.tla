-------------------------- MODULE SemaphoreProofs --------------------------
(***************************************************************************)
(* Proofs about Semaphore, for any cores, semaphores, striping of spin     *)
(* locks and numbers of permits.  The inductive invariant says what the    *)
(* spin lock buys: while a context holds it, the count it has loaded is    *)
(* the count.                                                              *)
(***************************************************************************)
EXTENDS Semaphore, LockCoreProofs

SemTypeOK ==
  /\ permits \in [Objects -> Nat]
  /\ \A s \in Objects : permits[s] <= MaxPermits[s]
  /\ seen \in [Contexts -> Nat]
  /\ taken \in [Contexts -> [Objects -> Nat]]
  /\ given \in [Contexts -> [Objects -> Nat]]

\* A handler makes no call that waits.
ClientInv ==
  \A x \in Contexts : pc[x] \in InCall /\ IsHandler(x) => req[x].op \notin Blocking

\* What was loaded under the spin lock is still so.
LoadInv ==
  \A x \in Contexts : pc[x] = "loaded" => seen[x] = permits[req[x].obj]

IndInv == CoreInv(Ops) /\ SemTypeOK /\ ClientInv /\ LoadInv /\ NoLostWakeup

\* What the counts are when they are numbers.
LEMMA ConstantFacts ==
  /\ \A s \in Objects : MaxPermits[s] \in Nat
  /\ InitialPermits \in [Objects -> Nat]
  /\ \A s \in Objects : InitialPermits[s] <= MaxPermits[s]
<1>1. PermitLimit \in Nat
  BY DEF PermitLimit
<1>2. \A s \in Objects : MaxPermits[s] \in 0..PermitLimit
  BY SemaphoreAssumption
<1>3. \A s \in Objects : MaxPermits[s] \in Nat
  BY <1>1, <1>2
<1> QED BY <1>3, SemaphoreAssumption

\* The initial states satisfy the invariant.
LEMMA InitInd == Init => IndInv
<1> SUFFICES ASSUME Init PROVE IndInv
  OBVIOUS
<1>1. CoreInv(Ops)
  BY CoreInitInv DEF Init
<1>2. \A x \in Contexts : pc[x] \in {"off", "idle"}
  BY DEF Init, CoreInit
<1>3. SemTypeOK
  BY ConstantFacts DEF Init, SemTypeOK
<1> QED
  BY <1>1, <1>2, <1>3 DEF IndInv, ClientInv, InCall, LoadInv, NoLostWakeup

\* A step that leaves the semaphores alone and only moves contexts through
\* the substrate keeps the invariant, if it takes no event from a waiter.
LEMMA FrameInd ==
  ASSUME IndInv, CoreInv(Ops)', UNCHANGED <<permits, seen, history>>,
         \A y \in Contexts :
           /\ pc'[y] \in InCall => pc[y] \in InCall /\ req'[y] = req[y]
           /\ pc'[y] = "loaded" => pc[y] = "loaded"
           /\ pc'[y] \in Waiting =>
                pc[y] \in Waiting /\ (event[CoreOf(y)] => event'[CoreOf(y)])
           /\ pc[y] = "sev" => pc'[y] = "sev" \/ \A c \in Cores : event'[c]
  PROVE  IndInv'
<1>1. SemTypeOK'
  BY DEF IndInv, SemTypeOK, history
<1>2. ClientInv'
  BY DEF IndInv, ClientInv
<1>3. LoadInv'
  BY DEF IndInv, LoadInv, InCall
<1>4. NoLostWakeup'
  BY ContextFacts DEF IndInv, NoLostWakeup, Waiting, InCall
<1> QED BY <1>1, <1>2, <1>3, <1>4 DEF IndInv

LEMMA CoreStepInd ==
  ASSUME IndInv, NEW x \in Contexts, CoreStep(x) \/ TimeReached(x) \/ AlarmFires(x),
         UNCHANGED <<permits, seen, history>>
  PROVE  IndInv'
<1> USE DEF IndInv
<1>0. CoreTypeOK(Ops) /\ CallInv(Ops)
  BY DEF CoreInv
<1>1. CASE Mask(x)
  BY <1>0, <1>1, MaskInv, FrameInd DEF Mask, CoreTypeOK, InCall, Waiting
<1>2. CASE Acquire(x)
  BY <1>0, <1>2, AcquireInv, FrameInd DEF Acquire, CoreTypeOK, InCall, Waiting
<1>3. CASE Wfe(x)
  <2>1. \A y \in Contexts \ {x} : pc[y] \in Waiting => CoreOf(y) # CoreOf(x)
    BY <1>0, <1>3, OneWaiter DEF Wfe, Waiting
  <2> QED
    BY <1>0, <1>3, <2>1, WfeInv, FrameInd, ContextFacts DEF Wfe, CoreTypeOK, InCall, Waiting
<1>4. CASE Sev(x)
  BY <1>0, <1>4, SevInv, FrameInd, ContextFacts DEF Sev, CoreTypeOK, InCall, Waiting
<1>5. CASE TimedPoll(x)
  BY <1>0, <1>5, TimedPollInv, FrameInd
  DEF TimedPoll, AfterTimedWait, EndCall, CoreTypeOK, InCall, Waiting
<1>6. CASE TimedArm(x)
  BY <1>0, <1>6, TimedArmInv, FrameInd DEF TimedArm, CoreTypeOK, InCall, Waiting
<1>7. CASE TimedWake(x)
  <2>1. \A y \in Contexts \ {x} : pc[y] \in Waiting => CoreOf(y) # CoreOf(x)
    BY <1>0, <1>7, OneWaiter DEF TimedWake, Waiting
  <2>2. /\ \A y \in Contexts \ {x} : pc'[y] = pc[y] /\ req'[y] = req[y]
        /\ pc'[x] = "idle" \/ (pc'[x] = "enter" /\ req'[x] = req[x])
        /\ \A c \in Cores \ {CoreOf(x)} : event'[c] = event[c]
    BY <1>0, <1>7 DEF TimedWake, AfterTimedWait, EndCall, CoreTypeOK
  <2>3. pc[x] = "twfe"
    BY <1>7 DEF TimedWake
  <2> QED
    BY <1>7, <2>1, <2>2, <2>3, TimedWakeInv, FrameInd, ContextFacts DEF InCall, Waiting
<1>8. CASE TimeReached(x)
  BY <1>0, <1>8, TimeReachedInv, FrameInd DEF TimeReached, CoreTypeOK, InCall, Waiting
<1>9. CASE AlarmFires(x)
  BY <1>0, <1>9, AlarmFiresInv, FrameInd, ContextFacts DEF AlarmFires, CoreTypeOK, InCall, Waiting
<1> QED
  BY <1>1, <1>2, <1>3, <1>4, <1>5, <1>6, <1>7, <1>8, <1>9 DEF CoreStep

LEMMA HandlerStepInd == ASSUME IndInv, NEW c \in Cores, HandlerStep(c) PROVE IndInv'
<1> USE DEF IndInv
<1>0. CoreTypeOK(Ops)
  BY DEF CoreInv
<1>1. CASE IrqEnter(c)
  BY <1>0, <1>1, IrqEnterInv, FrameInd, ContextFacts
  DEF HandlerStep, IrqEnter, CoreTypeOK, InCall, Waiting
<1>2. CASE IrqExit(c)
  BY <1>0, <1>2, IrqExitInv, FrameInd, ContextFacts
  DEF HandlerStep, IrqExit, CoreTypeOK, InCall, Waiting
<1> QED BY <1>1, <1>2 DEF HandlerStep

\* A call begins; a handler's is one that does not wait.
LEMMA CallInd ==
  ASSUME IndInv, NEW x \in Contexts, NEW s \in Objects, NEW op \in Ops,
         IsHandler(x) => op \notin Blocking, Call(x, s, op)
  PROVE  IndInv'
<1> DEFINE r == [op |-> op, obj |-> s]
<1>0. CoreTypeOK(Ops) /\ CoreInv(Ops) /\ r \in [op : Ops, obj : Objects]
  BY DEF IndInv, CoreInv
<1>1. CoreInv(Ops)'
  BY <1>0, BeginCallInv DEF Call
<1>2. SemTypeOK'
  BY DEF IndInv, SemTypeOK, Call, history
<1>3. /\ \A y \in Contexts \ {x} : pc'[y] = pc[y] /\ req'[y] = req[y]
      /\ pc'[x] = "enter" /\ req'[x] = r /\ UNCHANGED <<event, permits, seen>>
  BY <1>0 DEF Call, BeginCall, CoreTypeOK
<1>4. ClientInv'
  BY <1>3 DEF IndInv, ClientInv
<1>5. LoadInv'
  BY <1>3 DEF IndInv, LoadInv
<1>6. NoLostWakeup'
  <2>1. pc[x] = "idle"
    BY DEF Call, BeginCall
  <2> QED BY <1>3, <2>1 DEF IndInv, NoLostWakeup
<1> QED BY <1>1, <1>2, <1>4, <1>5, <1>6 DEF IndInv

\* The load under the spin lock.
LEMMA LoadPermitsInd == ASSUME IndInv, NEW x \in Contexts, LoadPermits(x) PROVE IndInv'
<1>0. CoreTypeOK(Ops) /\ CoreInv(Ops) /\ CallInv(Ops) /\ SemTypeOK
  BY DEF IndInv, CoreInv
<1>1. CoreInv(Ops)'
  BY <1>0, CoreLoadInv DEF LoadPermits
<1>2. req[x].obj \in Objects /\ pc[x] = "held"
  BY <1>0 DEF LoadPermits, Load, CallInv, InCall
<1>3. /\ \A y \in Contexts \ {x} : pc'[y] = pc[y] /\ seen'[y] = seen[y]
      /\ pc'[x] = "loaded" /\ seen'[x] = permits[req[x].obj]
      /\ UNCHANGED <<req, event, permits, taken, given>>
  BY <1>0 DEF LoadPermits, Load, CoreTypeOK, SemTypeOK, history
<1>4. SemTypeOK'
  BY <1>0, <1>2, <1>3 DEF SemTypeOK, LoadPermits
<1>5. ClientInv'
  BY <1>2, <1>3 DEF IndInv, ClientInv, InCall
<1>6. LoadInv'
  BY <1>3 DEF IndInv, LoadInv
<1>7. NoLostWakeup'
  BY <1>2, <1>3 DEF IndInv, NoLostWakeup
<1> QED BY <1>1, <1>4, <1>5, <1>6, <1>7 DEF IndInv

\* The five ways a call is decided have this in common: the context gives
\* the spin lock up, and the count it loaded is replaced by another one,
\* with a SEV ahead if that one is higher.
LEMMA DecideInd ==
  ASSUME IndInv, NEW x \in Contexts, pc[x] = "loaded",
         NEW next \in {"idle", "sev", "wfe", "timed"},
         next \in Waiting => ~IsHandler(x) /\ permits'[req[x].obj] = 0,
         SpinUnlock(x, next), Forget(x),
         NEW count \in Nat, count <= MaxPermits[req[x].obj],
         permits' = [permits EXCEPT ![req[x].obj] = count],
         next # "sev" => count <= seen[x],
         taken' \in [Contexts -> [Objects -> Nat]],
         given' \in [Contexts -> [Objects -> Nat]]
  PROVE  IndInv'
<1> DEFINE s == req[x].obj
<1>0. CoreTypeOK(Ops) /\ CoreInv(Ops) /\ CallInv(Ops) /\ SemTypeOK
  BY DEF IndInv, CoreInv
<1>1. s \in Objects /\ req[x] \in [op : Ops, obj : Objects] /\ seen[x] = permits[s]
  BY <1>0 DEF CallInv, InCall, IndInv, LoadInv
<1>2. CoreInv(Ops)'
  BY <1>0, SpinUnlockInv
<1>3. /\ \A y \in Contexts \ {x} : /\ pc'[y] = pc[y] /\ req'[y] = req[y]
                                   /\ seen'[y] = seen[y]
      /\ pc'[x] = next /\ (next \in Waiting => req'[x] = req[x])
      /\ event' = event
  <2>1. \A y \in Contexts \ {x} : seen'[y] = seen[y]
    BY <1>0 DEF Forget, SemTypeOK
  <2>2. /\ \A y \in Contexts \ {x} : pc'[y] = pc[y] /\ req'[y] = req[y]
        /\ pc'[x] = next /\ (next \in Waiting => req'[x] = req[x])
    BY <1>0 DEF SpinUnlock, EndCall, CoreTypeOK, Waiting
  <2>3. event' = event
    BY DEF SpinUnlock
  <2> QED BY <2>1, <2>2, <2>3
<1>4. permits'[s] = count /\ \A t \in Objects \ {s} : permits'[t] = permits[t]
  BY <1>0, <1>1 DEF SemTypeOK
<1>5. SemTypeOK'
  <2>1. permits' \in [Objects -> Nat] /\ \A t \in Objects : permits'[t] <= MaxPermits[t]
    BY <1>0, <1>1, <1>4 DEF SemTypeOK
  <2>2. seen' \in [Contexts -> Nat]
    BY <1>0 DEF SemTypeOK, Forget
  <2> QED BY <2>1, <2>2 DEF SemTypeOK
<1>6. ClientInv'
  BY <1>3 DEF IndInv, ClientInv, InCall, Waiting
<1>7. LoadInv'
  <2>1. \A y \in Contexts \ {x} : pc[y] = "loaded" => req[y].obj \in Objects \ {s}
    BY <1>0, <1>1, SpinExclusion DEF CallInv, InCall
  <2>2. pc'[x] # "loaded"
    BY <1>3
  <2> QED BY <2>1, <2>2, <1>3, <1>4 DEF IndInv, LoadInv
<1>8. NoLostWakeup'
  <2> SUFFICES ASSUME NEW y \in Contexts, pc'[y] \in Waiting, permits'[req'[y].obj] > 0
               PROVE  event'[CoreOf(y)] \/ \E z \in Contexts : pc'[z] = "sev"
    BY DEF NoLostWakeup, Waiting
  <2>1. CASE next = "sev"
    BY <2>1, <1>3
  <2>2. CASE next # "sev"
    <3>1. y # x
      <4> SUFFICES ASSUME y = x PROVE FALSE
        OBVIOUS
      <4>1. req'[x] = req[x] /\ permits'[s] = 0
        BY <1>3
      <4> QED BY <4>1
    <3>2. pc[y] \in Waiting /\ req'[y] = req[y] /\ req[y].obj \in Objects
      BY <3>1, <1>0, <1>3 DEF CallInv, InCall, Waiting
    <3>3. permits[req[y].obj] > 0
      <4>1. CASE req[y].obj = s
        <5>1. count > 0 /\ count <= permits[s] /\ permits[s] \in Nat
          BY <4>1, <3>2, <2>2, <1>0, <1>1, <1>4 DEF SemTypeOK
        <5> QED BY <5>1, <4>1
      <4>2. CASE req[y].obj # s
        BY <4>2, <3>2, <1>4
      <4> QED BY <4>1, <4>2
    <3>4. event[CoreOf(y)] \/ \E z \in Contexts : pc[z] = "sev"
      BY <3>2, <3>3 DEF IndInv, NoLostWakeup, Waiting
    <3> QED BY <3>4, <1>3
  <2> QED BY <2>1, <2>2
<1> QED BY <1>2, <1>5, <1>6, <1>7, <1>8 DEF IndInv

\* What a deciding context knows.
LEMMA DecideFacts ==
  ASSUME IndInv, NEW x \in Contexts, pc[x] = "loaded"
  PROVE  /\ req[x].obj \in Objects /\ req[x].op \in Ops
         /\ seen[x] = permits[req[x].obj] /\ seen[x] \in Nat
         /\ seen[x] <= MaxPermits[req[x].obj] /\ MaxPermits[req[x].obj] \in Nat
         /\ IsHandler(x) => req[x].op \notin Blocking
         /\ taken \in [Contexts -> [Objects -> Nat]]
         /\ given \in [Contexts -> [Objects -> Nat]]
<1>1. req[x] \in [op : Ops, obj : Objects]
  BY DEF IndInv, CoreInv, CallInv, InCall
<1> QED BY <1>1, ConstantFacts DEF IndInv, LoadInv, ClientInv, InCall, SemTypeOK

LEMMA AcquiredInd == ASSUME IndInv, NEW x \in Contexts, Acquired(x) PROVE IndInv'
<1> DEFINE s == req[x].obj
<1>1. pc[x] = "loaded" /\ seen[x] > 0 /\ SpinUnlock(x, "idle") /\ Forget(x)
  BY DEF Acquired, Deciding
<1>2. /\ s \in Objects /\ seen[x] = permits[s] /\ seen[x] \in Nat
      /\ seen[x] <= MaxPermits[s] /\ MaxPermits[s] \in Nat
  BY <1>1, DecideFacts
<1>3. seen[x] - 1 \in Nat /\ seen[x] - 1 <= MaxPermits[s] /\ seen[x] - 1 <= seen[x]
  BY <1>1, <1>2
<1>4. /\ taken' \in [Contexts -> [Objects -> Nat]]
      /\ given' \in [Contexts -> [Objects -> Nat]]
  BY <1>1, <1>2, DecideFacts DEF Acquired
<1>5. permits' = [permits EXCEPT ![s] = seen[x] - 1]
  BY DEF Acquired
<1> QED BY <1>1, <1>3, <1>4, <1>5, DecideInd DEF Waiting

LEMMA RefusedInd == ASSUME IndInv, NEW x \in Contexts, Refused(x) PROVE IndInv'
<1> DEFINE s == req[x].obj
           next == CASE req[x].op = "acquire" -> "wfe"
                     [] req[x].op = "until" -> "timed"
                     [] OTHER -> "idle"
<1>1. /\ pc[x] = "loaded" /\ seen[x] = 0 /\ SpinUnlock(x, next) /\ Forget(x)
      /\ UNCHANGED <<permits, taken, given>>
  BY DEF Refused, Deciding, history
<1>2. /\ s \in Objects /\ seen[x] = permits[s] /\ MaxPermits[s] \in Nat
      /\ IsHandler(x) => req[x].op \notin Blocking
  BY <1>1, DecideFacts
<1>3. next \in {"idle", "sev", "wfe", "timed"} /\ (next \in Waiting => ~IsHandler(x))
  BY <1>2 DEF Blocking, Waiting
<1> HIDE DEF next
<1>4. permits' = [permits EXCEPT ![s] = 0] /\ permits'[s] = 0
  BY <1>1, <1>2 DEF IndInv, SemTypeOK
<1>5. /\ taken' \in [Contexts -> [Objects -> Nat]]
      /\ given' \in [Contexts -> [Objects -> Nat]]
  BY <1>1, DecideFacts
<1>6. 0 \in Nat /\ 0 <= MaxPermits[s] /\ 0 <= seen[x]
  BY <1>1, <1>2
<1> QED BY <1>1, <1>3, <1>4, <1>5, <1>6, DecideInd

LEMMA ReleasedInd == ASSUME IndInv, NEW x \in Contexts, Released(x) PROVE IndInv'
<1> DEFINE s == req[x].obj
<1>1. /\ pc[x] = "loaded" /\ seen[x] < MaxPermits[s] /\ SpinUnlock(x, "sev") /\ Forget(x)
      /\ permits' = [permits EXCEPT ![s] = seen[x] + 1]
  BY DEF Released, Deciding, HasRoom
<1>2. s \in Objects /\ seen[x] \in Nat /\ MaxPermits[s] \in Nat
  BY <1>1, DecideFacts
<1>3. seen[x] + 1 \in Nat /\ seen[x] + 1 <= MaxPermits[s]
  BY <1>1, <1>2
<1>4. /\ taken' \in [Contexts -> [Objects -> Nat]]
      /\ given' \in [Contexts -> [Objects -> Nat]]
  BY <1>1, <1>2, DecideFacts DEF Released
<1> QED BY <1>1, <1>3, <1>4, DecideInd DEF Waiting

LEMMA ReleaseRefusedInd == ASSUME IndInv, NEW x \in Contexts, ReleaseRefused(x) PROVE IndInv'
<1> DEFINE s == req[x].obj
<1>1. /\ pc[x] = "loaded" /\ SpinUnlock(x, "idle") /\ Forget(x)
      /\ UNCHANGED <<permits, taken, given>>
  BY DEF ReleaseRefused, Deciding, history
<1>2. /\ s \in Objects /\ seen[x] \in Nat /\ seen[x] <= MaxPermits[s] /\ seen[x] = permits[s]
      /\ seen[x] <= seen[x]
  BY <1>1, DecideFacts
<1>3. permits' = [permits EXCEPT ![s] = seen[x]]
  BY <1>1, <1>2 DEF IndInv, SemTypeOK
<1>4. /\ taken' \in [Contexts -> [Objects -> Nat]]
      /\ given' \in [Contexts -> [Objects -> Nat]]
  BY <1>1, DecideFacts
<1> QED BY <1>1, <1>2, <1>3, <1>4, DecideInd DEF Waiting

LEMMA ResetInd == ASSUME IndInv, NEW x \in Contexts, Reset(x) PROVE IndInv'
<1> DEFINE s == req[x].obj
<1>1. /\ pc[x] = "loaded" /\ Forget(x) /\ UNCHANGED <<taken, given>>
  BY DEF Reset, Deciding, history
<1>2. s \in Objects /\ seen[x] \in Nat /\ MaxPermits[s] \in Nat
  BY <1>1, DecideFacts
<1>3. PICK p \in 0..MaxPermits[s] :
        /\ permits' = [permits EXCEPT ![s] = p]
        /\ SpinUnlock(x, IF p > seen[x] THEN "sev" ELSE "idle")
  BY DEF Reset, RaisesCount
<1> DEFINE next == IF p > seen[x] THEN "sev" ELSE "idle"
<1>4. p \in Nat /\ p <= MaxPermits[s] /\ (next # "sev" => p <= seen[x])
  BY <1>2
<1>5. next \in {"idle", "sev", "wfe", "timed"} /\ next \notin Waiting
  BY DEF Waiting
<1>6. SpinUnlock(x, next)
  BY <1>3
<1> HIDE DEF next
<1>7. /\ taken' \in [Contexts -> [Objects -> Nat]]
      /\ given' \in [Contexts -> [Objects -> Nat]]
  BY <1>1, DecideFacts
<1> QED BY <1>1, <1>3, <1>4, <1>5, <1>6, <1>7, DecideInd

\* Every step keeps the invariant: one case per action.
LEMMA NextInd == IndInv /\ [Next]_vars => IndInv'
<1> SUFFICES ASSUME IndInv, [Next]_vars PROVE IndInv'
  OBVIOUS
<1>1. ASSUME NEW x \in Contexts, Step(x) PROVE IndInv'
  BY <1>1, LoadPermitsInd, AcquiredInd, RefusedInd, ReleasedInd, ReleaseRefusedInd,
     ResetInd, CoreStepInd DEF Step
<1>2. ASSUME NEW x \in Contexts, TimePasses(x) PROVE IndInv'
  BY <1>2, CoreStepInd DEF TimePasses
<1>3. ASSUME NEW x \in Contexts, Client(x) PROVE IndInv'
  BY <1>3, CallInd DEF Client
<1>4. ASSUME NEW c \in Cores, HandlerStep(c) PROVE IndInv'
  BY <1>4, HandlerStepInd
<1>5. ASSUME UNCHANGED vars PROVE IndInv'
  <2>1. CoreInv(Ops)'
    BY <1>5, StutterInv DEF IndInv, vars
  <2> QED BY <1>5, <2>1, FrameInd DEF IndInv, vars, coreVars, InCall, Waiting
<1> QED BY <1>1, <1>2, <1>3, <1>4, <1>5 DEF Next

LEMMA Invariance == Spec => []IndInv
  BY InitInd, NextInd, PTL DEF Spec

\* Every variable keeps its type; in particular no count leaves
\* 0..MaxPermits, whatever the releases and resets.
THEOREM TypeCorrect == Spec => []TypeOK
<1>1. IndInv => TypeOK
  <2> SUFFICES ASSUME IndInv PROVE TypeOK
    OBVIOUS
  <2>1. \A s \in Objects : permits[s] \in 0..MaxPermits[s]
    BY ConstantFacts DEF IndInv, SemTypeOK
  <2> QED BY <2>1 DEF IndInv, CoreInv, SemTypeOK, TypeOK
<1> QED BY <1>1, Invariance, PTL

\* No notification is missed by a thread that waits while permits are
\* available, whether a release or a reset made them so.
THEOREM WakeupNotLost == Spec => []NoLostWakeup
<1>1. IndInv => NoLostWakeup
  BY DEF IndInv
<1> QED BY <1>1, Invariance, PTL

\* A step that grants, gives or resets is that step of the atomic counter;
\* every other step leaves it alone.
LEMMA NextAbs == IndInv /\ [Next]_vars => [Abs!Next]_Abs!vars
<1> SUFFICES ASSUME IndInv, [Next]_vars PROVE [Abs!Next]_Abs!vars
  OBVIOUS
<1>1. ASSUME NEW x \in Contexts, Acquired(x) PROVE Abs!Next
  <2> DEFINE s == req[x].obj
  <2>1. s \in Objects /\ seen[x] = permits[s] /\ permits[s] > 0
    BY <1>1, DecideFacts DEF Acquired, Deciding
  <2>2. Abs!Acquire(x, s)
    BY <1>1, <2>1 DEF Acquired, Abs!Acquire
  <2> QED BY <2>1, <2>2 DEF Abs!Next
<1>2. ASSUME NEW x \in Contexts, Released(x) PROVE Abs!Next
  <2> DEFINE s == req[x].obj
  <2>1. s \in Objects /\ seen[x] = permits[s] /\ permits[s] < MaxPermits[s]
    BY <1>2, DecideFacts DEF Released, Deciding, HasRoom
  <2>2. Abs!Release(x, s)
    BY <1>2, <2>1 DEF Released, Abs!Release
  <2> QED BY <2>1, <2>2 DEF Abs!Next
<1>3. ASSUME NEW x \in Contexts, Reset(x) PROVE Abs!Next
  <2> DEFINE s == req[x].obj
  <2>1. s \in Objects
    BY <1>3, DecideFacts DEF Reset, Deciding
  <2>2. Abs!Reset(s)
    BY <1>3 DEF Reset, Abs!Reset, history
  <2> QED BY <2>1, <2>2 DEF Abs!Next
<1>4. ASSUME NEW x \in Contexts, Step(x) \/ TimePasses(x) \/ Client(x)
      PROVE [Abs!Next]_Abs!vars
  BY <1>1, <1>2, <1>3, <1>4
  DEF Step, TimePasses, Client, LoadPermits, Refused, ReleaseRefused, Call, history, Abs!vars
<1>5. ASSUME NEW c \in Cores, HandlerStep(c) PROVE UNCHANGED Abs!vars
  BY <1>5 DEF HandlerStep, history, Abs!vars
<1>6. CASE UNCHANGED vars
  BY <1>6 DEF vars, history, Abs!vars
<1> QED BY <1>4, <1>5, <1>6 DEF Next

\* The semaphores of pico_sync implement atomic counters of permits.
THEOREM Implements == Spec => AbstractSpec
<1>1. Init => Abs!Init
  BY DEF Init, Abs!Init
<1> QED BY <1>1, NextAbs, Invariance, PTL DEF Spec, AbstractSpec, Abs!Spec
=============================================================================
