---------------------------- MODULE MutexProofs ----------------------------
(***************************************************************************)
(* Proofs about Mutex, for any cores, mutexes, striping of spin locks and  *)
(* bounds.  The inductive invariant says what the spin lock buys: while a  *)
(* context holds it, the owner it has loaded is the owner.                 *)
(***************************************************************************)
EXTENDS Mutex, LockCoreProofs

MutexTypeOK ==
  /\ owner \in [Objects -> Cores \cup {NoOwner}]
  /\ enter_count \in [Objects -> 0..(EnterCountMod - 1)]
  /\ seen \in [Contexts -> Cores \cup {NoOwner}]
  /\ nest \in [Contexts -> [Objects -> 0..MaxNest]]

\* A handler makes no call that waits; who exits has entered; who enters
\* is not at its nesting bound.
ClientInv ==
  \A x \in Contexts :
    pc[x] \in InCall =>
      /\ IsHandler(x) => req[x].op \in {"try", "exit"}
      /\ IF req[x].op = "exit" THEN nest[x][req[x].obj] > 0
                               ELSE nest[x][req[x].obj] < MaxNest

\* What was loaded under the spin lock is still so.
LoadInv ==
  \A x \in Contexts : pc[x] = "loaded" => seen[x] = owner[req[x].obj]

\* The owner and the count account for every enter that was not exited.
OwnInv ==
  /\ \A x \in Contexts, m \in Objects : nest[x][m] > 0 => owner[m] = CoreOf(x)
  /\ \A m \in Objects \ Recursive : \A x, y \in Contexts :
       /\ nest[x][m] <= 1
       /\ nest[x][m] > 0 /\ nest[y][m] > 0 => x = y
  /\ \A m \in Recursive, c \in Cores :
       owner[m] = c => enter_count[m] = nest[Thread(c)][m] + nest[Handler(c)][m]
  /\ \A m \in Recursive : owner[m] = NoOwner => enter_count[m] = 0

IndInv ==
  /\ CoreInv(Ops) /\ MutexTypeOK /\ ClientInv /\ LoadInv /\ OwnInv /\ NoLostWakeup

\* The arithmetic of enter_count, a uint8_t, on its own.
CountUp(k) == (k + 1) % 256
CountDown(k) == (k - 1) % 256

LEMMA CountFacts ==
  /\ \A k \in 0..255 : CountUp(k) \in 0..255
  /\ \A k \in 0..254 : CountUp(k) = k + 1
  /\ \A k \in 2..255 : CountDown(k) = k - 1
  BY DEF CountUp, CountDown

LEMMA RangeFacts ==
  /\ \A k \in 0..255 : k > 0 => k \in 1..255
  /\ \A k \in 1..255 : k # 1 => k \in 2..255
  /\ \A k \in 2..255 : k - 1 \in 0..255
  OBVIOUS

\* The initial states satisfy the invariant.
LEMMA InitInd == Init => IndInv
<1> SUFFICES ASSUME Init PROVE IndInv
  OBVIOUS
<1> USE ContextFacts, LockCoreAssumption, MutexAssumption DEF Init
<1>1. CoreInv(Ops)
  BY CoreInitInv
<1>2. \A x \in Contexts : pc[x] \in {"off", "idle"}
  BY DEF CoreInit
<1>3. MutexTypeOK
  BY DEF MutexTypeOK, EnterCountMod
<1>4. OwnInv
  BY DEF OwnInv
<1> QED
  BY <1>1, <1>2, <1>3, <1>4 DEF IndInv, ClientInv, InCall, LoadInv, NoLostWakeup

\* An enter function that takes the mutex.
LEMMA TakeInd == ASSUME IndInv, NEW x \in Contexts, Take(x) PROVE IndInv'
<1> DEFINE m == req[x].obj
<1>0. CoreInv(Ops) /\ CoreTypeOK(Ops) /\ CallInv(Ops) /\ MutexTypeOK
  BY DEF IndInv, CoreInv
<1>1. /\ m \in Objects /\ nest[x][m] < MaxNest /\ nest[x][m] \in Nat
      /\ pc[x] = "loaded" /\ seen[x] = owner[m]
      /\ owner[m] = NoOwner \/ (m \in Recursive /\ owner[m] = CoreOf(x))
  BY <1>0 DEF IndInv, Take, ClientInv, CallInv, InCall, LoadInv, MutexTypeOK, CanTake
<1>c. /\ CoreOf(x) \in Cores /\ NoOwner \notin Cores
      /\ Recursive \subseteq Objects /\ MaxNest \in Nat /\ 2 * MaxNest < 256
  BY ContextFacts, MutexAssumption DEF EnterCountMod
<1>2. CoreInv(Ops)'
  BY <1>0, <1>1, SpinUnlockInv DEF Take, Waiting
<1>3. MutexTypeOK'
  <2>1. owner' \in [Objects -> Cores \cup {NoOwner}]
    BY <1>0, <1>1, <1>c DEF MutexTypeOK, Take
  <2>2. enter_count' \in [Objects -> 0..(EnterCountMod - 1)]
    <3>1. enter_count \in [Objects -> 0..255]
      BY <1>0 DEF MutexTypeOK, EnterCountMod
    <3>2. CountUp(enter_count[m]) \in 0..255
      <4>1. enter_count[m] \in 0..255
        BY <1>1, <3>1
      <4> QED BY <4>1, CountFacts
    <3>3. \/ enter_count' = enter_count
          \/ enter_count' = [enter_count EXCEPT ![m] = CountUp(enter_count[m])]
      BY DEF Take, EnterCountMod, CountUp
    <3>4. enter_count' \in [Objects -> 0..255]
      BY <3>1, <3>2, <3>3, <1>1
    <3> QED BY <3>4 DEF EnterCountMod
  <2>3. seen' \in [Contexts -> Cores \cup {NoOwner}]
    BY <1>0 DEF MutexTypeOK, Take, Forget
  <2>4. nest' \in [Contexts -> [Objects -> 0..MaxNest]]
    BY <1>0, <1>1, <1>c DEF MutexTypeOK, Take
  <2> QED BY <2>1, <2>2, <2>3, <2>4 DEF MutexTypeOK
<1>4. \A y \in Contexts \ {x} : /\ pc'[y] = pc[y] /\ req'[y] = req[y]
                                /\ nest'[y] = nest[y] /\ seen'[y] = seen[y]
  BY <1>0 DEF CoreTypeOK, MutexTypeOK, Take, SpinUnlock, EndCall, Forget
<1>5. /\ pc'[x] = "idle" /\ event' = event
      /\ \A n \in Objects : nest'[x][n] = nest[x][n] + (IF n = m THEN 1 ELSE 0)
  BY <1>0, <1>1 DEF CoreTypeOK, MutexTypeOK, Take, SpinUnlock
<1>6. /\ owner'[m] = CoreOf(x)
      /\ \A n \in Objects \ {m} : owner'[n] = owner[n] /\ enter_count'[n] = enter_count[n]
  BY <1>0, <1>1 DEF MutexTypeOK, Take
<1>7. ClientInv'
  BY <1>4, <1>5 DEF IndInv, ClientInv, InCall
<1>8. LoadInv'
  <2>1. \A y \in Contexts \ {x} : pc[y] = "loaded" => req[y].obj \in Objects /\ req[y].obj # m
    BY <1>0, <1>1, SpinExclusion DEF CallInv, InCall
  <2> QED BY <2>1, <1>4, <1>5, <1>6 DEF IndInv, LoadInv
<1>9. OwnInv'
  <2>0. OwnInv /\ \A y \in Contexts, n \in Objects : nest[y][n] \in Nat /\ nest[y][n] <= MaxNest
    BY <1>0, <1>c DEF IndInv, MutexTypeOK
  <2>1. \A y \in Contexts, n \in Objects : nest'[y][n] > 0 => owner'[n] = CoreOf(y)
    <3> SUFFICES ASSUME NEW y \in Contexts, NEW n \in Objects, nest'[y][n] > 0
                 PROVE  owner'[n] = CoreOf(y)
      OBVIOUS
    <3>1. CASE y = x
      BY <3>1, <2>0, <1>5, <1>6 DEF OwnInv
    <3>2. CASE y # x
      BY <3>2, <2>0, <1>1, <1>4, <1>6, <1>c, ContextFacts DEF OwnInv
    <3> QED BY <3>1, <3>2
  <2>2. \A n \in Objects \ Recursive : \A y, z \in Contexts :
          nest'[y][n] <= 1 /\ (nest'[y][n] > 0 /\ nest'[z][n] > 0 => y = z)
    <3> SUFFICES ASSUME NEW n \in Objects \ Recursive, NEW y \in Contexts, NEW z \in Contexts
                 PROVE  nest'[y][n] <= 1 /\ (nest'[y][n] > 0 /\ nest'[z][n] > 0 => y = z)
      OBVIOUS
    <3>1. CASE n = m
      <4>1. \A w \in Contexts : nest[w][m] = 0
        BY <3>1, <2>0, <1>1, <1>c, ContextFacts DEF OwnInv
      <4> QED BY <4>1, <3>1, <1>4, <1>5
    <3>2. CASE n # m
      BY <3>2, <2>0, <1>4, <1>5 DEF OwnInv
    <3> QED BY <3>1, <3>2
  <2>3. ASSUME m \in Recursive
        PROVE  LET c == CoreOf(x) IN
               enter_count'[m] = nest'[Thread(c)][m] + nest'[Handler(c)][m]
    <3> DEFINE c == CoreOf(x)
    <3>0. /\ Thread(c) \in Contexts /\ Handler(c) \in Contexts /\ Thread(c) # Handler(c)
          /\ x = Thread(c) \/ x = Handler(c)
      BY ContextFacts
    <3>1. enter_count[m] = nest[Thread(c)][m] + nest[Handler(c)][m]
      <4>1. CASE owner[m] = NoOwner
        <5>1. nest[Thread(c)][m] = 0 /\ nest[Handler(c)][m] = 0 /\ enter_count[m] = 0
          BY <4>1, <2>0, <2>3, <3>0, <1>1, <1>c, ContextFacts DEF OwnInv
        <5> QED BY <5>1
      <4>2. CASE owner[m] = c
        BY <4>2, <2>0, <2>3, <1>c DEF OwnInv
      <4> QED BY <1>1, <4>1, <4>2
    <3>2. enter_count[m] \in 0..254
      <4>1. PICK a \in Nat, b \in Nat :
              /\ a = nest[Thread(c)][m] /\ b = nest[Handler(c)][m]
              /\ a <= MaxNest /\ b <= MaxNest
        BY <3>0, <2>0, <1>1
      <4>2. a + b \in 0..254
        <5>1. a + b \in Nat /\ a + b <= 2 * MaxNest /\ a + b # 2 * MaxNest
          BY <4>1, <3>0, <1>1, <1>c
        <5> QED BY <5>1, <1>c
      <4> QED BY <3>1, <4>1, <4>2
    <3>3. enter_count'[m] = CountUp(enter_count[m])
      BY <2>3, <1>0, <1>1 DEF MutexTypeOK, EnterCountMod, Take, CountUp
    <3>4. enter_count'[m] = enter_count[m] + 1
      BY <3>2, <3>3, CountFacts
    <3> QED BY <3>0, <3>1, <3>4, <2>0, <1>1, <1>4, <1>5
  <2>4. \A n \in Recursive, c \in Cores :
          owner'[n] = c => enter_count'[n] = nest'[Thread(c)][n] + nest'[Handler(c)][n]
    <3> SUFFICES ASSUME NEW n \in Recursive, NEW c \in Cores, owner'[n] = c
                 PROVE  enter_count'[n] = nest'[Thread(c)][n] + nest'[Handler(c)][n]
      OBVIOUS
    <3>1. CASE n = m
      BY <3>1, <2>3, <1>6
    <3>2. CASE n # m
      <4>1. \A y \in Contexts : nest'[y][n] = nest[y][n]
        BY <3>2, <2>0, <1>4, <1>5, <1>c
      <4> QED BY <4>1, <3>2, <2>0, <1>6, <1>c, ContextFacts DEF OwnInv
    <3> QED BY <3>1, <3>2
  <2>5. \A n \in Recursive : owner'[n] = NoOwner => enter_count'[n] = 0
    BY <2>0, <1>6, <1>c DEF OwnInv
  <2> QED BY <2>1, <2>2, <2>4, <2>5 DEF OwnInv
<1>10. NoLostWakeup'
  <2> SUFFICES ASSUME NEW y \in Contexts, pc'[y] \in Waiting, owner'[req'[y].obj] = NoOwner
               PROVE  event'[CoreOf(y)] \/ \E z \in Contexts : pc'[z] = "sev"
    BY DEF NoLostWakeup, Waiting
  <2>1. y # x /\ pc[y] \in Waiting /\ req'[y] = req[y] /\ req[y].obj \in Objects
    BY <1>0, <1>4, <1>5 DEF CallInv, InCall, Waiting
  <2>2. owner[req[y].obj] = NoOwner
    BY <2>1, <1>6, <1>c
  <2> QED BY <2>1, <2>2, <1>1, <1>4, <1>5 DEF IndInv, NoLostWakeup, Waiting
<1> QED BY <1>2, <1>3, <1>7, <1>8, <1>9, <1>10 DEF IndInv

\* A step that leaves the mutexes alone and only moves contexts through
\* the substrate keeps the invariant, if it takes no event from a waiter.
LEMMA FrameInd ==
  ASSUME IndInv, CoreInv(Ops)', UNCHANGED <<owner, enter_count, seen, nest>>,
         \A y \in Contexts :
           /\ pc'[y] \in InCall => pc[y] \in InCall /\ req'[y] = req[y]
           /\ pc'[y] = "loaded" => pc[y] = "loaded"
           /\ pc'[y] \in Waiting =>
                pc[y] \in Waiting /\ (event[CoreOf(y)] => event'[CoreOf(y)])
           /\ pc[y] = "sev" => pc'[y] = "sev" \/ \A c \in Cores : event'[c]
  PROVE  IndInv'
<1>1. MutexTypeOK' /\ OwnInv'
  BY DEF IndInv, MutexTypeOK, OwnInv
<1>2. ClientInv'
  BY DEF IndInv, ClientInv
<1>3. LoadInv'
  BY DEF IndInv, LoadInv, InCall
<1>4. NoLostWakeup'
  BY ContextFacts DEF IndInv, NoLostWakeup, Waiting, InCall
<1> QED BY <1>1, <1>2, <1>3, <1>4 DEF IndInv

LEMMA CoreStepInd ==
  ASSUME IndInv, NEW x \in Contexts, CoreStep(x) \/ TimeReached(x) \/ AlarmFires(x),
         UNCHANGED <<owner, enter_count, seen, nest>>
  PROVE  IndInv'
<1> USE DEF IndInv
<1>0. CoreTypeOK(Ops) /\ CallInv(Ops)
  BY DEF CoreInv
<1>1. CASE Mask(x)
  BY <1>0, <1>1, MaskInv, FrameInd DEF Mask, CoreTypeOK, InCall, Waiting
<1>2. CASE Acquire(x)
  BY <1>0, <1>2, AcquireInv, FrameInd DEF Acquire, CoreTypeOK, InCall, Waiting
<1>3. CASE Wfe(x)
  <2>1. \A y \in Contexts \ {x} : pc[y] \in Waiting => CoreOf(y) # CoreOf(x)
    BY <1>0, <1>3, OneWaiter DEF Wfe, Waiting
  <2> QED
    BY <1>0, <1>3, <2>1, WfeInv, FrameInd, ContextFacts DEF Wfe, CoreTypeOK, InCall, Waiting
<1>4. CASE Sev(x)
  BY <1>0, <1>4, SevInv, FrameInd, ContextFacts DEF Sev, CoreTypeOK, InCall, Waiting
<1>5. CASE TimedPoll(x)
  BY <1>0, <1>5, TimedPollInv, FrameInd
  DEF TimedPoll, AfterTimedWait, EndCall, CoreTypeOK, InCall, Waiting
<1>6. CASE TimedArm(x)
  BY <1>0, <1>6, TimedArmInv, FrameInd DEF TimedArm, CoreTypeOK, InCall, Waiting
<1>7. CASE TimedWake(x)
  <2>1. \A y \in Contexts \ {x} : pc[y] \in Waiting => CoreOf(y) # CoreOf(x)
    BY <1>0, <1>7, OneWaiter DEF TimedWake, Waiting
  <2>2. /\ \A y \in Contexts \ {x} : pc'[y] = pc[y] /\ req'[y] = req[y]
        /\ pc'[x] = "idle" \/ (pc'[x] = "enter" /\ req'[x] = req[x])
        /\ \A c \in Cores \ {CoreOf(x)} : event'[c] = event[c]
    BY <1>0, <1>7 DEF TimedWake, AfterTimedWait, EndCall, CoreTypeOK
  <2>3. pc[x] = "twfe"
    BY <1>7 DEF TimedWake
  <2> QED
    BY <1>7, <2>1, <2>2, <2>3, TimedWakeInv, FrameInd, ContextFacts DEF InCall, Waiting
<1>8. CASE TimeReached(x)
  BY <1>0, <1>8, TimeReachedInv, FrameInd DEF TimeReached, CoreTypeOK, InCall, Waiting
<1>9. CASE AlarmFires(x)
  BY <1>0, <1>9, AlarmFiresInv, FrameInd, ContextFacts DEF AlarmFires, CoreTypeOK, InCall, Waiting
<1> QED
  BY <1>1, <1>2, <1>3, <1>4, <1>5, <1>6, <1>7, <1>8, <1>9 DEF CoreStep

LEMMA HandlerStepInd == ASSUME IndInv, NEW c \in Cores, HandlerStep(c) PROVE IndInv'
<1> USE DEF IndInv
<1>0. CoreTypeOK(Ops)
  BY DEF CoreInv
<1>1. CASE IrqEnter(c)
  BY <1>0, <1>1, IrqEnterInv, FrameInd, ContextFacts
  DEF HandlerStep, IrqEnter, CoreTypeOK, InCall, Waiting
<1>2. CASE IrqExit(c)
  BY <1>0, <1>2, IrqExitInv, FrameInd, ContextFacts
  DEF HandlerStep, IrqExit, CoreTypeOK, InCall, Waiting
<1> QED BY <1>1, <1>2 DEF HandlerStep

\* A call begins: the client's rules make it a legal one.
LEMMA CallInd ==
  ASSUME IndInv, NEW x \in Contexts, NEW m \in Objects, NEW op \in Ops,
         BeginCall(x, [op |-> op, obj |-> m], op = "until"),
         SpendCall(x) \/ UNCHANGED left,
         IsHandler(x) => op \in {"try", "exit"},
         IF op = "exit" THEN nest[x][m] > 0 ELSE nest[x][m] < MaxNest,
         UNCHANGED <<owner, enter_count, seen, nest>>
  PROVE  IndInv'
<1> DEFINE r == [op |-> op, obj |-> m]
<1>0. CoreTypeOK(Ops) /\ CoreInv(Ops) /\ r \in [op : Ops, obj : Objects]
  BY DEF IndInv, CoreInv
<1>1. CoreInv(Ops)'
  BY <1>0, BeginCallInv
<1>2. MutexTypeOK' /\ OwnInv'
  BY DEF IndInv, MutexTypeOK, OwnInv
<1>3. /\ \A y \in Contexts \ {x} : pc'[y] = pc[y] /\ req'[y] = req[y]
      /\ pc'[x] = "enter" /\ req'[x] = r /\ pc[x] = "idle" /\ event' = event
  BY <1>0 DEF BeginCall, CoreTypeOK
<1>4. ClientInv'
  BY <1>3 DEF IndInv, ClientInv
<1>5. LoadInv'
  BY <1>3 DEF IndInv, LoadInv
<1>6. NoLostWakeup'
  BY <1>3 DEF IndInv, NoLostWakeup
<1> QED BY <1>1, <1>2, <1>4, <1>5, <1>6 DEF IndInv

\* The load under the spin lock.
LEMMA LoadOwnerInd == ASSUME IndInv, NEW x \in Contexts, LoadOwner(x) PROVE IndInv'
<1>0. CoreTypeOK(Ops) /\ CoreInv(Ops) /\ CallInv(Ops) /\ MutexTypeOK
  BY DEF IndInv, CoreInv
<1>1. CoreInv(Ops)'
  BY <1>0, CoreLoadInv DEF LoadOwner
<1>2. req[x].obj \in Objects /\ pc[x] = "held"
  BY <1>0 DEF LoadOwner, Load, CallInv, InCall
<1>3. /\ \A y \in Contexts \ {x} : pc'[y] = pc[y] /\ seen'[y] = seen[y]
      /\ pc'[x] = "loaded" /\ seen'[x] = owner[req[x].obj]
      /\ UNCHANGED <<req, event, owner, enter_count, nest>>
  BY <1>0 DEF LoadOwner, Load, CoreTypeOK, MutexTypeOK
<1>4. MutexTypeOK'
  BY <1>0, <1>2 DEF MutexTypeOK, LoadOwner
<1>5. OwnInv'
  BY <1>3 DEF IndInv, OwnInv
<1>6. ClientInv'
  BY <1>2, <1>3 DEF IndInv, ClientInv, InCall
<1>7. LoadInv'
  BY <1>3 DEF IndInv, LoadInv
<1>8. NoLostWakeup'
  BY <1>2, <1>3 DEF IndInv, NoLostWakeup
<1> QED BY <1>1, <1>4, <1>5, <1>6, <1>7, <1>8 DEF IndInv

\* The mutex is owned by another core: the caller gives up or waits.
LEMMA RefuseInd == ASSUME IndInv, NEW x \in Contexts, Refuse(x) PROVE IndInv'
<1> DEFINE m == req[x].obj
           next == CASE req[x].op = "enter" -> "wfe"
                     [] req[x].op = "until" -> "timed"
                     [] OTHER -> "idle"
<1>0. CoreTypeOK(Ops) /\ CoreInv(Ops) /\ CallInv(Ops) /\ MutexTypeOK
  BY DEF IndInv, CoreInv
<1>1. /\ m \in Objects /\ pc[x] = "loaded" /\ owner[m] # NoOwner
      /\ req[x] \in [op : Ops, obj : Objects] /\ req[x].op # "exit"
      /\ SpinUnlock(x, next)
  BY <1>0 DEF IndInv, Refuse, LoadInv, CallInv, InCall, CanTake
<1>2. next \in {"idle", "wfe", "timed"} /\ (next \in Waiting => ~IsHandler(x))
  BY <1>1 DEF IndInv, ClientInv, InCall, Waiting
<1>3. CoreInv(Ops)'
  BY <1>0, <1>1, <1>2, SpinUnlockInv
<1> HIDE DEF next
<1>4. /\ \A y \in Contexts \ {x} : /\ pc'[y] = pc[y] /\ req'[y] = req[y]
                                   /\ seen'[y] = seen[y]
      /\ pc'[x] = next /\ (next # "idle" => req'[x] = req[x])
      /\ UNCHANGED <<event, owner, enter_count, nest>>
  <2>1. UNCHANGED <<event, owner, enter_count, nest>>
    BY DEF Refuse, SpinUnlock
  <2>2. \A y \in Contexts \ {x} : seen'[y] = seen[y]
    BY <1>0 DEF Refuse, Forget, MutexTypeOK
  <2>3. /\ \A y \in Contexts \ {x} : pc'[y] = pc[y] /\ req'[y] = req[y]
        /\ pc'[x] = next /\ (next # "idle" => req'[x] = req[x])
    BY <1>0, <1>1, <1>2 DEF SpinUnlock, EndCall, CoreTypeOK
  <2> QED BY <2>1, <2>2, <2>3
<1>5. MutexTypeOK'
  BY <1>0 DEF MutexTypeOK, Refuse, Forget
<1>6. OwnInv'
  BY <1>4 DEF IndInv, OwnInv
<1>7. ClientInv'
  BY <1>1, <1>2, <1>4 DEF IndInv, ClientInv, InCall
<1>8. LoadInv'
  BY <1>2, <1>4 DEF IndInv, LoadInv
<1>9. NoLostWakeup'
  BY <1>1, <1>2, <1>4 DEF IndInv, NoLostWakeup
<1> QED BY <1>3, <1>5, <1>6, <1>7, <1>8, <1>9 DEF IndInv

\* What an exit finds: the caller's enter is accounted for.
LEMMA ExitFacts ==
  ASSUME IndInv, NEW x \in Contexts, pc[x] = "loaded", req[x].op = "exit"
  PROVE  LET m == req[x].obj
             c == CoreOf(x)
         IN  /\ m \in Objects /\ owner[m] = c /\ c \in Cores /\ c # NoOwner
             /\ seen[x] = c
             /\ nest[x][m] \in Nat /\ nest[x][m] > 0
             /\ m \in Recursive =>
                  /\ enter_count[m] \in 1..255
                  /\ enter_count[m] = nest[Thread(c)][m] + nest[Handler(c)][m]
                  /\ nest[Thread(c)][m] \in Nat /\ nest[Handler(c)][m] \in Nat
             /\ m \notin Recursive => nest[x][m] = 1
<1> DEFINE m == req[x].obj
           c == CoreOf(x)
<1>1. m \in Objects /\ nest[x][m] > 0
  BY DEF IndInv, CoreInv, CallInv, ClientInv, InCall
<1>2. /\ c \in Cores /\ c # NoOwner /\ Thread(c) \in Contexts /\ Handler(c) \in Contexts
      /\ x = Thread(c) \/ x = Handler(c)
      /\ Recursive \subseteq Objects
  BY ContextFacts, MutexAssumption
<1>3. \A y \in Contexts, n \in Objects : nest[y][n] \in Nat
  BY MutexAssumption DEF IndInv, MutexTypeOK
<1>4. owner[m] = c /\ seen[x] = c
  BY <1>1 DEF IndInv, OwnInv, LoadInv
<1>5. ASSUME m \in Recursive
      PROVE  /\ enter_count[m] \in 1..255
             /\ enter_count[m] = nest[Thread(c)][m] + nest[Handler(c)][m]
  <2>1. enter_count[m] = nest[Thread(c)][m] + nest[Handler(c)][m]
    BY <1>2, <1>4, <1>5 DEF IndInv, OwnInv
  <2>2. enter_count[m] \in 0..255
    <3>1. enter_count \in [Objects -> 0..255]
      BY DEF IndInv, MutexTypeOK, EnterCountMod
    <3> QED BY <1>1, <3>1
  <2>3. /\ nest[Thread(c)][m] \in Nat /\ nest[Handler(c)][m] \in Nat
        /\ nest[Thread(c)][m] > 0 \/ nest[Handler(c)][m] > 0
    BY <1>1, <1>2, <1>3
  <2>4. enter_count[m] > 0
    BY <2>1, <2>3
  <2>5. enter_count[m] \in 1..255
    BY <2>2, <2>4, RangeFacts
  <2> QED BY <2>1, <2>5
<1>6. m \notin Recursive => nest[x][m] = 1
  BY <1>1, <1>3 DEF IndInv, OwnInv
<1> QED BY <1>1, <1>2, <1>3, <1>4, <1>5, <1>6

\* A recursive_mutex_exit that leaves the mutex owned.
LEMMA ExitInnerInd == ASSUME IndInv, NEW x \in Contexts, ExitInner(x) PROVE IndInv'
<1> DEFINE m == req[x].obj
           c == CoreOf(x)
<1>0. CoreTypeOK(Ops) /\ CoreInv(Ops) /\ CallInv(Ops) /\ MutexTypeOK
  BY DEF IndInv, CoreInv
<1>1. /\ m \in Objects /\ m \in Recursive /\ owner[m] = c /\ c \in Cores
      /\ pc[x] = "loaded" /\ nest[x][m] \in Nat /\ nest[x][m] > 0
  BY ExitFacts DEF ExitInner, LastExit
<1>c. /\ enter_count[m] \in 2..255
      /\ enter_count[m] = nest[Thread(c)][m] + nest[Handler(c)][m]
  <2>1. /\ enter_count[m] \in 1..255 /\ enter_count[m] # 1
        /\ enter_count[m] = nest[Thread(c)][m] + nest[Handler(c)][m]
    BY ExitFacts DEF ExitInner, LastExit
  <2> QED BY <2>1, RangeFacts
<1>2. CoreInv(Ops)'
  BY <1>0, <1>1, SpinUnlockInv DEF ExitInner, Waiting
<1>3. /\ \A y \in Contexts \ {x} : /\ pc'[y] = pc[y] /\ req'[y] = req[y]
                                   /\ nest'[y] = nest[y] /\ seen'[y] = seen[y]
      /\ pc'[x] = "idle" /\ UNCHANGED <<event, owner>>
      /\ \A n \in Objects : nest'[x][n] = IF n = m THEN nest[x][n] - 1 ELSE nest[x][n]
  BY <1>0, <1>1 DEF CoreTypeOK, MutexTypeOK, ExitInner, SpinUnlock, EndCall, Forget
<1>4. /\ enter_count'[m] = enter_count[m] - 1
      /\ \A n \in Objects \ {m} : enter_count'[n] = enter_count[n]
  <2>1. enter_count'[m] = CountDown(enter_count[m])
    BY <1>0, <1>1 DEF MutexTypeOK, ExitInner, EnterCountMod, CountDown
  <2>2. CountDown(enter_count[m]) = enter_count[m] - 1
    BY <1>c, CountFacts
  <2>3. \A n \in Objects \ {m} : enter_count'[n] = enter_count[n]
    BY <1>0, <1>1 DEF MutexTypeOK, ExitInner
  <2> QED BY <2>1, <2>2, <2>3
<1>5. \A y \in Contexts, n \in Objects : nest[y][n] \in Nat /\ nest[y][n] <= MaxNest
  BY <1>0, MutexAssumption DEF MutexTypeOK
<1>6. MutexTypeOK'
  <2>1. nest' \in [Contexts -> [Objects -> 0..MaxNest]]
    <3>1. nest[x][m] - 1 \in 0..MaxNest
      BY <1>1, <1>5, MutexAssumption
    <3> QED BY <3>1, <1>0, <1>1 DEF MutexTypeOK, ExitInner
  <2>2. enter_count' \in [Objects -> 0..(EnterCountMod - 1)]
    <3>1. enter_count[m] - 1 \in 0..255
      BY <1>c, RangeFacts
    <3>2. enter_count' = [enter_count EXCEPT ![m] = enter_count'[m]]
      BY <1>0, <1>1 DEF MutexTypeOK, ExitInner
    <3>3. enter_count \in [Objects -> 0..255]
      BY <1>0 DEF MutexTypeOK, EnterCountMod
    <3>4. enter_count'[m] \in 0..255
      BY <3>1, <1>4
    <3>5. enter_count' \in [Objects -> 0..255]
      BY <3>2, <3>3, <3>4, <1>1
    <3> QED BY <3>5 DEF EnterCountMod
  <2> QED BY <2>1, <2>2, <1>0 DEF MutexTypeOK, ExitInner, Forget
<1>7. ClientInv'
  BY <1>3 DEF IndInv, ClientInv, InCall
<1>8. LoadInv'
  BY <1>3 DEF IndInv, LoadInv
<1>9. OwnInv'
  <2>0. OwnInv /\ Recursive \subseteq Objects /\ NoOwner \notin Cores
    BY MutexAssumption DEF IndInv
  <2>a. \A y \in Contexts, n \in Objects :
          nest'[y][n] \in Nat /\ nest'[y][n] <= nest[y][n]
    <3> SUFFICES ASSUME NEW y \in Contexts, NEW n \in Objects
                 PROVE  nest'[y][n] \in Nat /\ nest'[y][n] <= nest[y][n]
      OBVIOUS
    <3>1. CASE y = x /\ n = m
      BY <3>1, <1>1, <1>3
    <3>2. CASE ~(y = x /\ n = m)
      BY <3>2, <1>3, <1>5
    <3> QED BY <3>1, <3>2
  <2>1. \A y \in Contexts, n \in Objects : nest'[y][n] > 0 => owner'[n] = CoreOf(y)
    BY <2>0, <2>a, <1>3, <1>5 DEF OwnInv
  <2>2. \A n \in Objects \ Recursive : \A y, z \in Contexts :
          nest'[y][n] <= 1 /\ (nest'[y][n] > 0 /\ nest'[z][n] > 0 => y = z)
    BY <2>0, <2>a, <1>5 DEF OwnInv
  <2>3. \A n \in Recursive, d \in Cores :
          owner'[n] = d => enter_count'[n] = nest'[Thread(d)][n] + nest'[Handler(d)][n]
    <3> SUFFICES ASSUME NEW n \in Recursive, NEW d \in Cores, owner'[n] = d
                 PROVE  enter_count'[n] = nest'[Thread(d)][n] + nest'[Handler(d)][n]
      OBVIOUS
    <3>1. /\ Thread(d) \in Contexts /\ Handler(d) \in Contexts /\ Thread(d) # Handler(d)
          /\ x = Thread(c) \/ x = Handler(c)
      BY ContextFacts
    <3>2. CASE n = m
      <4>1. d = c /\ nest[Thread(c)][m] \in Nat /\ nest[Handler(c)][m] \in Nat
        BY <3>1, <3>2, <1>1, <1>3, <1>5
      <4>2. CASE x = Thread(c)
        <5>1. nest'[Thread(c)][m] = nest[Thread(c)][m] - 1
          BY <4>2, <1>1, <1>3
        <5>2. nest'[Handler(c)][m] = nest[Handler(c)][m]
          BY <4>2, <4>1, <3>1, <1>3
        <5>3. \A t, h \in Nat : (t - 1) + h = (t + h) - 1 /\ t + (h - 1) = (t + h) - 1
          OBVIOUS
        <5>4. nest'[Thread(c)][m] + nest'[Handler(c)][m] = (nest[Thread(c)][m] + nest[Handler(c)][m]) - 1
          BY <5>1, <5>2, <5>3, <4>1
        <5>5. enter_count'[m] = nest'[Thread(c)][m] + nest'[Handler(c)][m]
          BY <5>4, <1>c, <1>4
        <5> QED BY <5>5, <4>1, <3>2
      <4>3. CASE x = Handler(c)
        <5>1. nest'[Handler(c)][m] = nest[Handler(c)][m] - 1
          BY <4>3, <1>1, <1>3
        <5>2. nest'[Thread(c)][m] = nest[Thread(c)][m]
          BY <4>3, <4>1, <3>1, <1>3
        <5>3. \A t, h \in Nat : (t - 1) + h = (t + h) - 1 /\ t + (h - 1) = (t + h) - 1
          OBVIOUS
        <5>4. nest'[Thread(c)][m] + nest'[Handler(c)][m] = (nest[Thread(c)][m] + nest[Handler(c)][m]) - 1
          BY <5>1, <5>2, <5>3, <4>1
        <5>5. enter_count'[m] = nest'[Thread(c)][m] + nest'[Handler(c)][m]
          BY <5>4, <1>c, <1>4
        <5> QED BY <5>5, <4>1, <3>2
      <4> QED BY <3>1, <4>2, <4>3
    <3>3. CASE n # m
      <4>1. \A y \in Contexts : nest'[y][n] = nest[y][n]
        BY <3>3, <2>0, <1>3
      <4> QED BY <4>1, <3>1, <3>3, <2>0, <1>3, <1>4 DEF OwnInv
    <3> QED BY <3>2, <3>3
  <2>4. \A n \in Recursive : owner'[n] = NoOwner => enter_count'[n] = 0
    <3>1. owner[m] # NoOwner
      BY <2>0, <1>1
    <3> QED BY <3>1, <2>0, <1>3, <1>4 DEF OwnInv
  <2> QED BY <2>1, <2>2, <2>3, <2>4 DEF OwnInv
<1>10. NoLostWakeup'
  BY <1>1, <1>3 DEF IndInv, NoLostWakeup
<1> QED BY <1>2, <1>6, <1>7, <1>8, <1>9, <1>10 DEF IndInv

\* mutex_exit, and the recursive_mutex_exit that gives the mutex up.
LEMMA ExitLastInd == ASSUME IndInv, NEW x \in Contexts, ExitLast(x) PROVE IndInv'
<1> DEFINE m == req[x].obj
           c == CoreOf(x)
<1>0. CoreTypeOK(Ops) /\ CoreInv(Ops) /\ CallInv(Ops) /\ MutexTypeOK
  BY DEF IndInv, CoreInv
<1>1. /\ m \in Objects /\ owner[m] = c /\ c \in Cores /\ pc[x] = "loaded"
      /\ nest[x][m] \in Nat /\ nest[x][m] = 1
      /\ m \in Recursive => \A y \in {Thread(c), Handler(c)} \ {x} : nest[y][m] = 0
  <2>1. /\ m \in Objects /\ owner[m] = c /\ c \in Cores /\ pc[x] = "loaded"
        /\ nest[x][m] \in Nat /\ nest[x][m] > 0
        /\ m \notin Recursive => nest[x][m] = 1
    BY ExitFacts DEF ExitLast, LastExit
  <2>2. CASE m \in Recursive
    <3>1. /\ nest[Thread(c)][m] \in Nat /\ nest[Handler(c)][m] \in Nat
          /\ nest[Thread(c)][m] + nest[Handler(c)][m] = 1
      BY <2>2, ExitFacts DEF ExitLast, LastExit
    <3>2. x = Thread(c) \/ x = Handler(c)
      BY ContextFacts
    <3> QED BY <2>1, <3>1, <3>2
  <2> QED BY <2>1, <2>2
<1>2. CoreInv(Ops)'
  BY <1>0, <1>1, SpinUnlockInv DEF ExitLast, Waiting
<1>3. /\ \A y \in Contexts \ {x} : /\ pc'[y] = pc[y] /\ req'[y] = req[y]
                                   /\ nest'[y] = nest[y] /\ seen'[y] = seen[y]
      /\ pc'[x] = "sev" /\ UNCHANGED event
      /\ \A n \in Objects : nest'[x][n] = IF n = m THEN 0 ELSE nest[x][n]
  BY <1>0, <1>1 DEF CoreTypeOK, MutexTypeOK, ExitLast, SpinUnlock, EndCall, Forget
<1>4. /\ owner'[m] = NoOwner /\ enter_count'[m] = 0
      /\ \A n \in Objects \ {m} : owner'[n] = owner[n] /\ enter_count'[n] = enter_count[n]
  BY <1>0, <1>1 DEF MutexTypeOK, ExitLast, CountAfterLast
<1>5. \A y \in Contexts, n \in Objects : nest[y][n] \in Nat
  BY <1>0, MutexAssumption DEF MutexTypeOK
<1>6. MutexTypeOK'
  BY <1>0, <1>1, MutexAssumption DEF MutexTypeOK, ExitLast, CountAfterLast, Forget, EnterCountMod
<1>7. ClientInv'
  BY <1>3 DEF IndInv, ClientInv, InCall
<1>8. LoadInv'
  <2>1. \A y \in Contexts \ {x} : pc[y] = "loaded" => req[y].obj \in Objects /\ req[y].obj # m
    BY <1>0, <1>1, SpinExclusion DEF CallInv, InCall
  <2> QED BY <2>1, <1>3, <1>4 DEF IndInv, LoadInv
<1>9. \A y \in Contexts : nest'[y][m] = 0
  <2> SUFFICES ASSUME NEW y \in Contexts, y # x, nest[y][m] > 0 PROVE FALSE
    BY <1>3, <1>1, <1>5
  <2>1. CoreOf(y) = c
    BY <1>1 DEF IndInv, OwnInv
  <2>2. y \in {Thread(c), Handler(c)}
    BY <2>1, ContextFacts
  <2> QED BY <2>2, <1>1 DEF IndInv, OwnInv
<1>10. OwnInv'
  <2>0. OwnInv /\ Recursive \subseteq Objects /\ NoOwner \notin Cores
        /\ \A d \in Cores : Thread(d) \in Contexts /\ Handler(d) \in Contexts
    BY MutexAssumption, ContextFacts DEF IndInv
  <2>1. \A y \in Contexts, n \in Objects \ {m} : nest'[y][n] = nest[y][n]
    BY <1>3
  <2> QED BY <2>0, <2>1, <1>4, <1>9 DEF OwnInv
<1>11. NoLostWakeup'
  BY <1>3 DEF NoLostWakeup
<1> QED BY <1>2, <1>6, <1>7, <1>8, <1>10, <1>11 DEF IndInv

\* Every step keeps the invariant: one case per action.
LEMMA NextInd == IndInv /\ [Next]_vars => IndInv'
<1> SUFFICES ASSUME IndInv, [Next]_vars PROVE IndInv'
  OBVIOUS
<1>1. ASSUME NEW x \in Contexts, Step(x) PROVE IndInv'
  BY <1>1, LoadOwnerInd, TakeInd, RefuseInd, ExitInnerInd, ExitLastInd, CoreStepInd DEF Step
<1>2. ASSUME NEW x \in Contexts, TimePasses(x) PROVE IndInv'
  BY <1>2, CoreStepInd DEF TimePasses
<1>3. ASSUME NEW x \in Contexts, NEW m \in Objects, CallExit(x, m) PROVE IndInv'
  <2>1. BeginCall(x, [op |-> "exit", obj |-> m], "exit" = "until")
    BY <1>3 DEF CallExit
  <2> QED BY <1>3, <2>1, CallInd DEF CallExit, Ops
<1>4. ASSUME NEW x \in Contexts, NEW m \in Objects, NEW op \in {"enter", "try", "until"},
             IsHandler(x) => op = "try", CallEnter(x, m, op)
      PROVE  IndInv'
  BY <1>4, CallInd DEF CallEnter, Ops
<1>5. ASSUME NEW c \in Cores, HandlerStep(c) PROVE IndInv'
  BY <1>5, HandlerStepInd
<1>6. ASSUME UNCHANGED vars PROVE IndInv'
  <2>1. CoreInv(Ops)'
    BY <1>6, StutterInv DEF IndInv, vars
  <2> QED BY <1>6, <2>1, FrameInd DEF IndInv, vars, coreVars, InCall, Waiting
<1> QED BY <1>1, <1>2, <1>3, <1>4, <1>5, <1>6 DEF Next, Client

LEMMA Invariance == Spec => []IndInv
  BY InitInd, NextInd, PTL DEF Spec

\* Every variable keeps its type.
THEOREM TypeCorrect == Spec => []TypeOK
<1>1. IndInv => TypeOK
  BY DEF IndInv, CoreInv, MutexTypeOK, TypeOK
<1> QED BY <1>1, Invariance, PTL

\* No two cores are inside one mutex, and no two contexts inside a plain
\* one, whatever spin locks the mutexes share.
THEOREM Exclusion == Spec => []MutualExclusion
<1>1. IndInv => MutualExclusion
  <2> SUFFICES ASSUME IndInv, NEW m \in Objects, NEW x \in Contexts, NEW y \in Contexts,
                      nest[x][m] > 0, nest[y][m] > 0
               PROVE  owner[m] = CoreOf(x) /\ CoreOf(x) = CoreOf(y) /\ (m \notin Recursive => x = y)
    BY DEF MutualExclusion
  <2>1. owner[m] = CoreOf(x) /\ owner[m] = CoreOf(y)
    BY DEF IndInv, OwnInv
  <2> QED BY <2>1 DEF IndInv, OwnInv
<1> QED BY <1>1, Invariance, PTL

\* No notification is missed by a thread that waits for a free mutex.
THEOREM WakeupNotLost == Spec => []NoLostWakeup
<1>1. IndInv => NoLostWakeup
  BY DEF IndInv
<1> QED BY <1>1, Invariance, PTL

\* A fired alarm wakes the timed wait it was armed for.
THEOREM TimeoutNotLost == Spec => []NoLostTimeout
<1>1. IndInv => NoLostTimeout
  BY DEF IndInv, CoreInv
<1> QED BY <1>1, Invariance, PTL

\* The holder of a spin lock is never preempted.
THEOREM HolderRuns == Spec => []SpinHolderRuns
<1>1. IndInv => SpinHolderRuns
  BY DEF IndInv, CoreInv
<1> QED BY <1>1, Invariance, PTL

\* The asserts of the exit functions never fail.
THEOREM AssertsHold == Spec => []ExitAsserts
<1>1. IndInv => ExitAsserts
  <2> SUFFICES ASSUME IndInv, NEW x \in Contexts, pc[x] = "loaded", req[x].op = "exit"
               PROVE  seen[x] # NoOwner /\ (req[x].obj \in Recursive => enter_count[req[x].obj] # 0)
    BY DEF ExitAsserts
  <2>1. /\ seen[x] = CoreOf(x) /\ CoreOf(x) # NoOwner
        /\ req[x].obj \in Recursive => enter_count[req[x].obj] \in 1..255
    BY ExitFacts
  <2>2. \A k \in 1..255 : k # 0
    OBVIOUS
  <2> QED BY <2>1, <2>2
<1> QED BY <1>1, Invariance, PTL

\* A step that takes or exits a mutex is that step of the atomic mutex;
\* every other step leaves it alone.
LEMMA NextAbs == IndInv /\ [Next]_vars => [Abs!Next]_nest
<1> SUFFICES ASSUME IndInv, [Next]_vars PROVE [Abs!Next]_nest
  OBVIOUS
<1>0. CoreInv(Ops) /\ CallInv(Ops) /\ MutexTypeOK /\ ClientInv /\ LoadInv /\ OwnInv
  BY DEF IndInv, CoreInv
<1>1. ASSUME NEW x \in Contexts, Take(x) PROVE Abs!Next
  <2> DEFINE m == req[x].obj
  <2>1. /\ m \in Objects /\ nest[x][m] < MaxNest
        /\ owner[m] = NoOwner \/ (m \in Recursive /\ owner[m] = CoreOf(x))
    BY <1>0, <1>1 DEF Take, CanTake, LoadInv, ClientInv, CallInv, InCall
  <2>2. Abs!MayEnter(x, m)
    <3> SUFFICES ASSUME NEW y \in Contexts, nest[y][m] > 0
                 PROVE  m \in Recursive /\ CoreOf(y) = CoreOf(x)
      BY DEF Abs!MayEnter
    <3>1. owner[m] = CoreOf(y) /\ CoreOf(y) # NoOwner
      BY <1>0, <2>1, ContextFacts, MutexAssumption DEF OwnInv
    <3> QED BY <3>1, <2>1
  <2>3. Abs!Enter(x, m)
    BY <1>1, <2>1, <2>2 DEF Abs!Enter, Take
  <2> QED BY <2>1, <2>3 DEF Abs!Next
<1>2. ASSUME NEW x \in Contexts, ExitInner(x) \/ ExitLast(x) PROVE Abs!Next
  <2> DEFINE m == req[x].obj
  <2>1. m \in Objects /\ nest[x][m] > 0 /\ nest' = [nest EXCEPT ![x][m] = @ - 1]
    BY <1>0, <1>2 DEF ExitInner, ExitLast, ClientInv, CallInv, InCall
  <2>2. Abs!Exit(x, m)
    BY <2>1 DEF Abs!Exit
  <2> QED BY <2>1, <2>2 DEF Abs!Next
<1>3. CASE UNCHANGED vars
  BY <1>3 DEF vars
<1>4. ASSUME NEW x \in Contexts, Step(x) \/ TimePasses(x) \/ Client(x) PROVE [Abs!Next]_nest
  BY <1>1, <1>2, <1>4
  DEF Step, TimePasses, Client, LoadOwner, Refuse, CallEnter, CallExit
<1>5. ASSUME NEW c \in Cores, HandlerStep(c) PROVE UNCHANGED nest
  BY <1>5 DEF HandlerStep
<1> QED BY <1>3, <1>4, <1>5 DEF Next

\* The mutexes of pico_sync implement atomic mutexes.
THEOREM Implements == Spec => AbstractSpec
<1>1. Init => Abs!Init
  BY DEF Init, Abs!Init
<1> QED BY <1>1, NextAbs, Invariance, PTL DEF Spec, AbstractSpec, Abs!Spec
=============================================================================
