----------------------------- MODULE UtilProofs -----------------------------
(***************************************************************************)
(* Proofs about the two structures of pico_util, Queue and PHeap.          *)
(*                                                                         *)
(* Queue, for any cores, queues, striping of spin locks and sizes.  The    *)
(* inductive invariant says what the spin lock buys: while a context holds *)
(* it, the level it has computed is the level.  The arithmetic of the ring *)
(* is proved once, on numbers.                                             *)
(*                                                                         *)
(* PHeap, for any number of nodes and any keys.  The inductive invariant   *)
(* says that the ids in the heap are the nodes of one tree (Trees) and     *)
(* that the free ids form one list (FreeAre); no two links meet and, along *)
(* every link, a rank falls, so that none leads in a circle.  Each function*)
(* of the links is taken from a forest to the forest it makes: the merge   *)
(* of two roots, the separation of the children of a root, their merge by  *)
(* pairs, the removal of a root, the unlinking of a node.                  *)
(***************************************************************************)
EXTENDS
  Queue, PHeap, LockCoreProofs, FiniteSetTheorems, SequenceTheorems,
  WellFoundedInduction, TLAPS

(* Queue *)

Elements == Values \cup {None}

QueueTypeOK ==
  /\ wptr \in [Objects -> Nat] /\ rptr \in [Objects -> Nat]
  /\ DOMAIN data = Objects
  /\ \A q \in Objects :
       /\ wptr[q] \in Slots(q) /\ rptr[q] \in Slots(q)
       /\ data[q] \in [Slots(q) -> Elements]
  /\ seen \in [Contexts -> Nat]
  /\ got \in [Contexts -> Elements]

\* A handler makes no call that waits; no timed calls exist.
ClientInv ==
  \A x \in Contexts :
    /\ pc[x] \in InCall /\ IsHandler(x) => req[x].op \notin Blocking
    /\ pc[x] \notin {"timed", "twfe"}

\* The level computed under the spin lock is still the level.
LoadInv ==
  \A x \in Contexts : pc[x] = "loaded" => seen[x] = Used(req[x].obj)

IndInv == CoreInv(Ops) /\ QueueTypeOK /\ ClientInv /\ LoadInv /\ NoLostWakeup

\* element_count is a number, and an index fits in a uint16_t.
LEMMA ConstantFacts ==
  \A q \in Objects :
    /\ element_count[q] \in Nat /\ element_count[q] < IndexMod
    /\ element_count[q] \in Slots(q) /\ 0 \in Slots(q)
<1>1. IndexMod \in Nat
  BY DEF IndexMod
<1>2. \A q \in Objects : element_count[q] \in 0..(IndexMod - 1)
  BY QueueAssumption
<1>3. \A q \in Objects : element_count[q] \in Nat /\ element_count[q] < IndexMod
  BY <1>1, <1>2
<1> QED BY <1>3 DEF Slots

\* The increment of an index never overflows before it wraps.
LEMMA IncFacts ==
  ASSUME NEW q \in Objects, NEW i \in Slots(q)
  PROVE  /\ IncIndex(q, i) = IF i = element_count[q] THEN 0 ELSE i + 1
         /\ IncIndex(q, i) \in Slots(q)
<1>1. /\ element_count[q] \in Nat /\ element_count[q] < 65536
      /\ i \in Nat /\ i <= element_count[q]
  BY ConstantFacts DEF Slots, IndexMod
<1>2. IncIndex(q, i) = IF (i + 1) % 65536 > element_count[q] THEN 0 ELSE (i + 1) % 65536
  BY DEF IncIndex, IndexMod
<1>3. \A n, k \in Nat : n < 65536 /\ k <= n =>
        (IF (k + 1) % 65536 > n THEN 0 ELSE (k + 1) % 65536) = IF k = n THEN 0 ELSE k + 1
  <2> SUFFICES ASSUME NEW n \in Nat, NEW k \in Nat, n < 65536, k <= n
               PROVE  (IF (k + 1) % 65536 > n THEN 0 ELSE (k + 1) % 65536) = IF k = n THEN 0 ELSE k + 1
    OBVIOUS
  <2>1. CASE k + 1 < 65536
    <3>1. (k + 1) % 65536 = k + 1
      BY <2>1
    <3> QED BY <3>1
  <2>2. CASE k + 1 = 65536
    <3>1. (k + 1) % 65536 = 0 /\ k = n
      BY <2>2
    <3> QED BY <3>1
  <2> QED BY <2>1, <2>2
<1>4. IncIndex(q, i) = IF i = element_count[q] THEN 0 ELSE i + 1
  BY <1>1, <1>2, <1>3
<1> QED BY <1>1, <1>4, ConstantFacts DEF Slots

\* The arithmetic of the ring: a level fits in it, and the slots after an
\* index are its slots.
LEMMA RingFacts ==
  ASSUME NEW q \in Objects, NEW w \in Slots(q), NEW r \in Slots(q)
  PROVE  /\ Level(q, w, r) \in Nat /\ Level(q, w, r) <= element_count[q]
         /\ \A k \in 0..element_count[q] : SlotAfter(q, r, k) \in Slots(q)
         /\ SlotAfter(q, r, 0) = r
<1> DEFINE n == element_count[q]
<1>1. n \in Nat /\ w \in 0..n /\ r \in 0..n
  BY ConstantFacts DEF Slots
<1>2. Level(q, w, r) \in Nat /\ Level(q, w, r) <= n
  BY <1>1 DEF Level
<1>3. /\ \A k \in 0..n : SlotAfter(q, r, k) \in Slots(q)
      /\ SlotAfter(q, r, 0) = r
  BY <1>1 DEF SlotAfter, Slots
<1> QED BY <1>2, <1>3

\* Writing a slot of a ring with room uses one more: the one after those in
\* use, which is none of them.
LEMMA RingAdd ==
  ASSUME NEW q \in Objects, NEW w \in Slots(q), NEW r \in Slots(q),
         Level(q, w, r) # element_count[q]
  PROVE  /\ Level(q, IncIndex(q, w), r) = Level(q, w, r) + 1
         /\ SlotAfter(q, r, Level(q, w, r)) = w
         /\ \A k \in 0..(Level(q, w, r) - 1) : SlotAfter(q, r, k) # w
<1> DEFINE n == element_count[q]
<1>1. n \in Nat /\ w \in 0..n /\ r \in 0..n
  BY ConstantFacts DEF Slots
<1>2. IncIndex(q, w) = IF w = n THEN 0 ELSE w + 1
  BY IncFacts
<1>3. Level(q, IncIndex(q, w), r) = Level(q, w, r) + 1
  BY <1>1, <1>2 DEF Level
<1>4. SlotAfter(q, r, Level(q, w, r)) = w
  BY <1>1 DEF Level, SlotAfter
<1>5. \A k \in 0..(Level(q, w, r) - 1) : SlotAfter(q, r, k) # w
  BY <1>1 DEF Level, SlotAfter
<1> QED BY <1>3, <1>4, <1>5

\* Reading a slot uses one less, and every other one is one place nearer.
LEMMA RingRemove ==
  ASSUME NEW q \in Objects, NEW w \in Slots(q), NEW r \in Slots(q),
         Level(q, w, r) # 0
  PROVE  Level(q, w, IncIndex(q, r)) = Level(q, w, r) - 1
<1>1. /\ element_count[q] \in Nat
      /\ w \in 0..element_count[q] /\ r \in 0..element_count[q]
  BY ConstantFacts DEF Slots
<1>2. IncIndex(q, r) = IF r = element_count[q] THEN 0 ELSE r + 1
  BY IncFacts
<1> QED BY <1>1, <1>2 DEF Level

LEMMA RingShift ==
  ASSUME NEW q \in Objects, NEW r \in Slots(q), NEW k \in 0..(element_count[q] - 1)
  PROVE  SlotAfter(q, IncIndex(q, r), k) = SlotAfter(q, r, k + 1)
<1>1. element_count[q] \in Nat /\ r \in 0..element_count[q]
  BY ConstantFacts DEF Slots
<1>2. IncIndex(q, r) = IF r = element_count[q] THEN 0 ELSE r + 1
  BY IncFacts
<1> QED BY <1>1, <1>2 DEF SlotAfter

\* What the elements of a queue are, as a sequence.
LEMMA ContentsFacts ==
  ASSUME QueueTypeOK, NEW q \in Objects
  PROVE  /\ Used(q) \in Nat /\ Used(q) <= element_count[q]
         /\ Contents(q) \in Seq(Elements) /\ Len(Contents(q)) = Used(q)
         /\ \A i \in 1..Used(q) :
              /\ SlotAfter(q, rptr[q], i - 1) \in Slots(q)
              /\ Contents(q)[i] = data[q][SlotAfter(q, rptr[q], i - 1)]
<1>1. wptr[q] \in Slots(q) /\ rptr[q] \in Slots(q) /\ data[q] \in [Slots(q) -> Elements]
  BY DEF QueueTypeOK
<1>2. Used(q) \in Nat /\ Used(q) <= element_count[q]
  BY <1>1, RingFacts DEF Used
<1>3. ASSUME NEW i \in 1..Used(q)
      PROVE  SlotAfter(q, rptr[q], i - 1) \in Slots(q)
  <2>1. i - 1 \in 0..element_count[q]
    BY <1>2, ConstantFacts
  <2> QED BY <2>1, <1>1, RingFacts
<1>4. \A i \in 1..Used(q) : data[q][SlotAfter(q, rptr[q], i - 1)] \in Elements
  BY <1>1, <1>3
<1>5. Contents(q) \in [1..Used(q) -> Elements]
  BY <1>4 DEF Contents
<1>6. Contents(q) \in Seq(Elements)
  BY <1>2, <1>5, SeqDef
<1>7. Len(Contents(q)) = Used(q)
  BY <1>2, <1>5, <1>6, LenProperties
<1> QED BY <1>2, <1>3, <1>6, <1>7 DEF Contents

\* The initial states satisfy the invariant.
LEMMA InitInd == Init => IndInv
<1> SUFFICES ASSUME Init PROVE IndInv
  OBVIOUS
<1>1. CoreInv(Ops)
  BY CoreInitInv DEF Init
<1>2. \A x \in Contexts : pc[x] \in {"off", "idle"}
  BY DEF Init, CoreInit
<1>3. QueueTypeOK
  BY ConstantFacts DEF Init, QueueTypeOK, Elements
<1> QED
  BY <1>1, <1>2, <1>3 DEF IndInv, ClientInv, InCall, LoadInv, NoLostWakeup

\* A step that leaves the queues alone and only moves contexts through
\* the substrate keeps the invariant, if it takes no event from a waiter.
LEMMA FrameInd ==
  ASSUME IndInv, CoreInv(Ops)', UNCHANGED <<wptr, rptr, data, seen, got>>,
         \A y \in Contexts :
           /\ pc'[y] \in InCall => pc[y] \in InCall /\ req'[y] = req[y]
           /\ pc'[y] = "loaded" => pc[y] = "loaded"
           /\ pc'[y] \in Waiting =>
                pc'[y] = pc[y] /\ (event[CoreOf(y)] => event'[CoreOf(y)])
           /\ pc[y] = "sev" => pc'[y] = "sev" \/ \A c \in Cores : event'[c]
  PROVE  IndInv'
<1>1. QueueTypeOK'
  BY DEF IndInv, QueueTypeOK, Slots
<1>2. ClientInv'
  BY DEF IndInv, ClientInv, Waiting
<1>3. LoadInv'
  BY DEF IndInv, LoadInv, Used, Level, InCall
<1>4. NoLostWakeup'
  BY ContextFacts DEF IndInv, NoLostWakeup, WaitsInVain, Used, Level, Waiting, InCall
<1> QED BY <1>1, <1>2, <1>3, <1>4 DEF IndInv

LEMMA CoreStepInd ==
  ASSUME IndInv, NEW x \in Contexts, Mask(x) \/ Acquire(x) \/ Wfe(x) \/ Sev(x),
         UNCHANGED <<wptr, rptr, data, seen, got>>
  PROVE  IndInv'
<1> USE DEF IndInv
<1>0. CoreTypeOK(Ops) /\ CallInv(Ops)
  BY DEF CoreInv
<1>1. CASE Mask(x)
  BY <1>0, <1>1, MaskInv, FrameInd DEF Mask, CoreTypeOK, InCall, Waiting
<1>2. CASE Acquire(x)
  BY <1>0, <1>2, AcquireInv, FrameInd DEF Acquire, CoreTypeOK, InCall, Waiting
<1>3. CASE Wfe(x)
  <2>1. \A y \in Contexts \ {x} : pc[y] \in Waiting => CoreOf(y) # CoreOf(x)
    BY <1>0, <1>3, OneWaiter DEF Wfe, Waiting
  <2> QED
    BY <1>0, <1>3, <2>1, WfeInv, FrameInd, ContextFacts DEF Wfe, CoreTypeOK, InCall, Waiting
<1>4. CASE Sev(x)
  BY <1>0, <1>4, SevInv, FrameInd, ContextFacts DEF Sev, CoreTypeOK, InCall, Waiting
<1> QED BY <1>1, <1>2, <1>3, <1>4

LEMMA HandlerStepInd == ASSUME IndInv, NEW c \in Cores, HandlerStep(c) PROVE IndInv'
<1> USE DEF IndInv
<1>0. CoreTypeOK(Ops)
  BY DEF CoreInv
<1>1. CASE IrqEnter(c)
  BY <1>0, <1>1, IrqEnterInv, FrameInd, ContextFacts
  DEF HandlerStep, IrqEnter, CoreTypeOK, InCall, Waiting
<1>2. CASE IrqExit(c)
  BY <1>0, <1>2, IrqExitInv, FrameInd, ContextFacts
  DEF HandlerStep, IrqExit, CoreTypeOK, InCall, Waiting
<1> QED BY <1>1, <1>2 DEF HandlerStep

\* A call begins; a handler's is one that does not wait.
LEMMA CallInd ==
  ASSUME IndInv, NEW x \in Contexts, NEW q \in Objects, NEW op \in Ops,
         IsHandler(x) => op \notin Blocking, Call(x, q, op)
  PROVE  IndInv'
<1> DEFINE r == [op |-> op, obj |-> q]
<1>0. CoreTypeOK(Ops) /\ CoreInv(Ops) /\ r \in [op : Ops, obj : Objects] /\ FALSE \in BOOLEAN
  BY DEF IndInv, CoreInv
<1>1. CoreInv(Ops)'
  BY <1>0, BeginCallInv DEF Call
<1>2. QueueTypeOK'
  BY DEF IndInv, QueueTypeOK, Call, Slots, Elements
<1>3. /\ \A y \in Contexts \ {x} : pc'[y] = pc[y] /\ req'[y] = req[y]
      /\ pc'[x] = "enter" /\ req'[x] = r /\ UNCHANGED <<event, wptr, rptr, data, seen>>
  BY <1>0 DEF Call, BeginCall, CoreTypeOK
<1>4. ClientInv'
  BY <1>3 DEF IndInv, ClientInv
<1>5. LoadInv'
  BY <1>3 DEF IndInv, LoadInv, Used, Level
<1>6. NoLostWakeup'
  <2>1. pc[x] = "idle"
    BY DEF Call, BeginCall
  <2> QED BY <1>3, <2>1 DEF IndInv, NoLostWakeup, WaitsInVain, Used, Level
<1> QED BY <1>1, <1>2, <1>4, <1>5, <1>6 DEF IndInv

\* The load of the indices under the spin lock.
LEMMA LoadLevelInd == ASSUME IndInv, NEW x \in Contexts, LoadLevel(x) PROVE IndInv'
<1>0. CoreTypeOK(Ops) /\ CoreInv(Ops) /\ CallInv(Ops) /\ QueueTypeOK
  BY DEF IndInv, CoreInv
<1>1. CoreInv(Ops)'
  BY <1>0, CoreLoadInv DEF LoadLevel
<1>2. req[x].obj \in Objects /\ pc[x] = "held"
  BY <1>0 DEF LoadLevel, Load, CallInv, InCall
<1>3. /\ \A y \in Contexts \ {x} : pc'[y] = pc[y] /\ seen'[y] = seen[y]
      /\ pc'[x] = "loaded" /\ seen'[x] = Used(req[x].obj)
      /\ UNCHANGED <<req, event, wptr, rptr, data, got>>
  BY <1>0 DEF LoadLevel, Load, CoreTypeOK, QueueTypeOK, Used
<1>4. QueueTypeOK'
  <2>1. Used(req[x].obj) \in Nat
    BY <1>0, <1>2, ContentsFacts
  <2>2. seen' = [seen EXCEPT ![x] = Used(req[x].obj)]
    BY DEF LoadLevel, Used
  <2>3. seen' \in [Contexts -> Nat]
    BY <2>1, <2>2, <1>0 DEF QueueTypeOK
  <2> QED BY <2>3, <1>0, <1>3 DEF QueueTypeOK, Slots
<1>5. ClientInv'
  BY <1>2, <1>3 DEF IndInv, ClientInv, InCall
<1>6. LoadInv'
  BY <1>3 DEF IndInv, LoadInv, Used, Level
<1>7. NoLostWakeup'
  BY <1>2, <1>3 DEF IndInv, NoLostWakeup, WaitsInVain, Used, Level
<1> QED BY <1>1, <1>4, <1>5, <1>6, <1>7 DEF IndInv

\* What a deciding context knows.
LEMMA DecideFacts ==
  ASSUME IndInv, NEW x \in Contexts, pc[x] = "loaded"
  PROVE  /\ req[x] \in [op : Ops, obj : Objects]
         /\ req[x].obj \in Objects /\ req[x].op \in Ops
         /\ seen[x] = Used(req[x].obj)
         /\ IsHandler(x) => req[x].op \notin Blocking
<1>1. req[x] \in [op : Ops, obj : Objects]
  BY DEF IndInv, CoreInv, CallInv, InCall
<1> QED BY <1>1 DEF IndInv, LoadInv, ClientInv, InCall

\* A call that changes or reads a queue's elements leaves with a SEV ahead,
\* so nobody waits in vain; it leaves other queues alone.
LEMMA NotifyInd ==
  ASSUME IndInv, NEW x \in Contexts, pc[x] = "loaded",
         SpinUnlock(x, "sev"), Forget(x), QueueTypeOK',
         \A p \in Objects \ {req[x].obj} : wptr'[p] = wptr[p] /\ rptr'[p] = rptr[p]
  PROVE  IndInv'
<1>0. CoreTypeOK(Ops) /\ CoreInv(Ops) /\ CallInv(Ops) /\ QueueTypeOK
  BY DEF IndInv, CoreInv
<1>1. CoreInv(Ops)'
  BY <1>0, SpinUnlockInv DEF Waiting
<1>2. /\ \A y \in Contexts \ {x} : /\ pc'[y] = pc[y] /\ req'[y] = req[y]
                                   /\ seen'[y] = seen[y]
      /\ pc'[x] = "sev"
  BY <1>0 DEF SpinUnlock, EndCall, Forget, CoreTypeOK, QueueTypeOK
<1>3. ClientInv'
  BY <1>2 DEF IndInv, ClientInv, InCall
<1>4. LoadInv'
  <2>1. \A y \in Contexts \ {x} : pc[y] = "loaded" => req[y].obj \in Objects \ {req[x].obj}
    BY <1>0, SpinExclusion DEF CallInv, InCall
  <2> QED BY <2>1, <1>2 DEF IndInv, LoadInv, Used, Level
<1>5. NoLostWakeup'
  BY <1>2 DEF NoLostWakeup
<1> QED BY <1>1, <1>3, <1>4, <1>5 DEF IndInv

LEMMA AddedInd == ASSUME IndInv, NEW x \in Contexts, Added(x) PROVE IndInv'
<1> DEFINE q == req[x].obj
<1>1. pc[x] = "loaded" /\ SpinUnlock(x, "sev") /\ Forget(x)
  BY DEF Added, Deciding
<1>2. q \in Objects /\ QueueTypeOK
  BY <1>1, DecideFacts DEF IndInv
<1>3. /\ wptr[q] \in Slots(q) /\ IncIndex(q, wptr[q]) \in Slots(q)
      /\ IncIndex(q, wptr[q]) \in Nat
  <2>1. IncIndex(q, wptr[q]) \in Slots(q)
    BY <1>2, IncFacts DEF QueueTypeOK
  <2> QED BY <1>2, <2>1 DEF QueueTypeOK, Slots
<1>4. PICK v \in Values : data' = [data EXCEPT ![q][wptr[q]] = v]
  BY DEF Added
<1>5. QueueTypeOK'
  <2>1. /\ wptr' \in [Objects -> Nat]
        /\ \A p \in Objects : wptr'[p] \in Slots(p)
    BY <1>2, <1>3 DEF Added, QueueTypeOK
  <2>2. v \in Elements
    BY DEF Elements
  <2>3. DOMAIN data' = Objects /\ \A p \in Objects : data'[p] \in [Slots(p) -> Elements]
    <3>1. data'[q] = [data[q] EXCEPT ![wptr[q]] = v]
      BY <1>2, <1>4 DEF QueueTypeOK
    <3>2. data'[q] \in [Slots(q) -> Elements]
      BY <3>1, <2>2, <1>2 DEF QueueTypeOK
    <3>3. \A p \in Objects \ {q} : data'[p] = data[p]
      BY <1>2, <1>4 DEF QueueTypeOK
    <3> QED BY <3>2, <3>3, <1>2, <1>4 DEF QueueTypeOK
  <2> QED BY <2>1, <2>3, <1>2 DEF Added, Forget, QueueTypeOK, Slots
<1>6. \A p \in Objects \ {q} : wptr'[p] = wptr[p] /\ rptr'[p] = rptr[p]
  BY <1>2 DEF Added, QueueTypeOK
<1> QED BY <1>1, <1>5, <1>6, NotifyInd

\* The element at the read index is one.
LEMMA HeadFacts ==
  ASSUME IndInv, NEW x \in Contexts, pc[x] = "loaded"
  PROVE  data[req[x].obj][rptr[req[x].obj]] \in Elements
  BY DecideFacts DEF IndInv, QueueTypeOK

LEMMA RemovedInd == ASSUME IndInv, NEW x \in Contexts, Removed(x) PROVE IndInv'
<1> DEFINE q == req[x].obj
<1>1. pc[x] = "loaded" /\ SpinUnlock(x, "sev") /\ Forget(x)
  BY DEF Removed, Deciding
<1>2. q \in Objects /\ QueueTypeOK
  BY <1>1, DecideFacts DEF IndInv
<1>3. IncIndex(q, rptr[q]) \in Slots(q) /\ IncIndex(q, rptr[q]) \in Nat
  <2>1. IncIndex(q, rptr[q]) \in Slots(q)
    BY <1>2, IncFacts DEF QueueTypeOK
  <2> QED BY <2>1 DEF Slots
<1>4. QueueTypeOK'
  <2>1. /\ rptr' \in [Objects -> Nat]
        /\ \A p \in Objects : rptr'[p] \in Slots(p)
    BY <1>2, <1>3 DEF Removed, QueueTypeOK
  <2>2. got' \in [Contexts -> Elements]
    BY <1>1, <1>2, HeadFacts DEF Removed, QueueTypeOK
  <2> QED BY <2>1, <2>2, <1>2 DEF Removed, Forget, QueueTypeOK, Slots
<1>5. \A p \in Objects \ {q} : wptr'[p] = wptr[p] /\ rptr'[p] = rptr[p]
  BY <1>2 DEF Removed, QueueTypeOK
<1> QED BY <1>1, <1>4, <1>5, NotifyInd

LEMMA PeekedInd == ASSUME IndInv, NEW x \in Contexts, Peeked(x) PROVE IndInv'
<1>1. pc[x] = "loaded" /\ SpinUnlock(x, "sev") /\ Forget(x) /\ QueueTypeOK
  BY DEF Peeked, Deciding, IndInv
<1>2. got' \in [Contexts -> Elements]
  BY <1>1, HeadFacts DEF Peeked, QueueTypeOK
<1>3. QueueTypeOK'
  BY <1>1, <1>2 DEF Peeked, Forget, QueueTypeOK, Slots
<1>4. \A p \in Objects \ {req[x].obj} : wptr'[p] = wptr[p] /\ rptr'[p] = rptr[p]
  BY DEF Peeked
<1> QED BY <1>1, <1>3, <1>4, NotifyInd

\* A call that finds no room or no element waits, or returns false.
LEMMA RefusedInd == ASSUME IndInv, NEW x \in Contexts, Refused(x) PROVE IndInv'
<1> DEFINE q == req[x].obj
           next == IF req[x].op \in Blocking THEN "wfe" ELSE "idle"
<1>0. CoreTypeOK(Ops) /\ CoreInv(Ops) /\ CallInv(Ops) /\ QueueTypeOK
  BY DEF IndInv, CoreInv
<1>1. /\ pc[x] = "loaded" /\ SpinUnlock(x, next) /\ Forget(x)
      /\ UNCHANGED <<wptr, rptr, data, got>>
      /\ ~WaitsInVain(x)
  <2>1. pc[x] = "loaded" /\ SpinUnlock(x, next) /\ Forget(x) /\ UNCHANGED <<wptr, rptr, data, got>>
    BY DEF Refused, Deciding
  <2>2. seen[x] = Used(q) /\ Used(q) \in Nat /\ element_count[q] \in Nat
    BY <2>1, <1>0, DecideFacts, ContentsFacts, ConstantFacts
  <2>3. IF req[x].op \in Adds THEN seen[x] = element_count[q] ELSE seen[x] = 0
    BY DEF Refused, Full, Empty
  <2>4. ~WaitsInVain(x)
    BY <2>2, <2>3 DEF WaitsInVain
  <2> QED BY <2>1, <2>4
<1>2. next \in {"idle", "sev", "wfe", "timed"} /\ (next \in Waiting => ~IsHandler(x))
  BY <1>1, DecideFacts DEF Waiting
<1>3. CoreInv(Ops)'
  BY <1>0, <1>1, <1>2, SpinUnlockInv
<1>n. next \in {"idle", "wfe"}
  OBVIOUS
<1> HIDE DEF next
<1>4. /\ \A y \in Contexts \ {x} : /\ pc'[y] = pc[y] /\ req'[y] = req[y]
                                   /\ seen'[y] = seen[y]
      /\ pc'[x] = next /\ (next = "wfe" => req'[x] = req[x])
      /\ UNCHANGED <<event, wptr, rptr>>
  <2>1. \A y \in Contexts \ {x} : seen'[y] = seen[y]
    BY <1>0, <1>1 DEF Forget, QueueTypeOK
  <2>2. /\ \A y \in Contexts \ {x} : pc'[y] = pc[y] /\ req'[y] = req[y]
        /\ pc'[x] = next /\ (next = "wfe" => req'[x] = req[x])
    BY <1>0, <1>1 DEF SpinUnlock, EndCall, CoreTypeOK
  <2>3. UNCHANGED <<event, wptr, rptr>>
    BY <1>1 DEF SpinUnlock
  <2> QED BY <2>1, <2>2, <2>3
<1>5. QueueTypeOK'
  BY <1>0, <1>1 DEF Forget, QueueTypeOK, Slots
<1>6. ClientInv'
  BY <1>1, <1>n, <1>4 DEF IndInv, ClientInv, InCall
<1>7. LoadInv'
  BY <1>n, <1>4 DEF IndInv, LoadInv, Used, Level
<1>8. NoLostWakeup'
  <2> SUFFICES ASSUME NEW y \in Contexts, pc'[y] = "wfe", WaitsInVain(y)'
               PROVE  event'[CoreOf(y)] \/ \E z \in Contexts : pc'[z] = "sev"
    BY DEF NoLostWakeup
  <2>1. req'[y] = req[y]
    BY <1>n, <1>4
  <2>2. WaitsInVain(y)
    BY <2>1, <1>4 DEF WaitsInVain, Used, Level
  <2>3. y # x
    BY <2>2, <1>1
  <2>4. event[CoreOf(y)] \/ \E z \in Contexts : pc[z] = "sev"
    BY <2>2, <2>3, <1>4 DEF IndInv, NoLostWakeup
  <2> QED BY <2>4, <1>1, <1>4
<1> QED BY <1>3, <1>5, <1>6, <1>7, <1>8 DEF IndInv

\* Every step keeps the invariant: one case per action.
LEMMA NextInd == IndInv /\ [Next]_vars => IndInv'
<1> SUFFICES ASSUME IndInv, [Next]_vars PROVE IndInv'
  OBVIOUS
<1>1. ASSUME NEW x \in Contexts, Step(x) PROVE IndInv'
  BY <1>1, LoadLevelInd, AddedInd, RemovedInd, PeekedInd, RefusedInd, CoreStepInd DEF Step
<1>2. ASSUME NEW x \in Contexts, Client(x) PROVE IndInv'
  BY <1>2, CallInd DEF Client
<1>3. ASSUME NEW c \in Cores, HandlerStep(c) PROVE IndInv'
  BY <1>3, HandlerStepInd
<1>4. ASSUME UNCHANGED vars PROVE IndInv'
  <2>1. CoreInv(Ops)'
    BY <1>4, StutterInv DEF IndInv, vars
  <2> QED BY <1>4, <2>1, FrameInd DEF IndInv, vars, coreVars, InCall, Waiting
<1> QED BY <1>1, <1>2, <1>3, <1>4 DEF Next

LEMMA Invariance == Spec => []IndInv
  BY InitInd, NextInd, PTL DEF Spec

\* Every variable keeps its type: no index leaves its ring, whatever its
\* size, 65535 elements included.
THEOREM TypeCorrect == Spec => []TypeOK
<1>1. IndInv => TypeOK
  BY DEF IndInv, CoreInv, QueueTypeOK, TypeOK, Elements
<1> QED BY <1>1, Invariance, PTL

\* No notification is missed by a thread that waits for room or for an
\* element while there is some.
THEOREM WakeupNotLost == Spec => []NoLostWakeup
<1>1. IndInv => NoLostWakeup
  BY DEF IndInv
<1> QED BY <1>1, Invariance, PTL

\* An element is appended where the ring is next written.
LEMMA AddedContents ==
  ASSUME IndInv, NEW x \in Contexts, Added(x), NEW q \in Objects, q = req[x].obj
  PROVE  /\ Len(Contents(q)) < element_count[q]
         /\ \E v \in Values : Contents(q)' = Append(Contents(q), v)
         /\ \A p \in Objects \ {q} : Contents(p)' = Contents(p)
<1>1. /\ q \in Objects /\ QueueTypeOK /\ seen[x] = Used(q)
      /\ Used(q) # element_count[q]
  BY DecideFacts DEF Added, Deciding, Full, IndInv
<1>2. QueueTypeOK'
  BY AddedInd DEF IndInv
<1>3. /\ wptr[q] \in Slots(q) /\ rptr[q] \in Slots(q)
      /\ data[q] \in [Slots(q) -> Elements]
  BY <1>1 DEF QueueTypeOK
<1>4. PICK v \in Values : data' = [data EXCEPT ![q][wptr[q]] = v]
  BY DEF Added
<1>5. /\ rptr' = rptr /\ wptr'[q] = IncIndex(q, wptr[q])
      /\ \A p \in Objects \ {q} : wptr'[p] = wptr[p] /\ data'[p] = data[p]
      /\ data'[q] = [data[q] EXCEPT ![wptr[q]] = v]
  BY <1>1, <1>4 DEF Added, QueueTypeOK
<1>6. /\ Used(q)' = Used(q) + 1
      /\ SlotAfter(q, rptr[q], Used(q)) = wptr[q]
      /\ \A k \in 0..(Used(q) - 1) : SlotAfter(q, rptr[q], k) # wptr[q]
  BY <1>1, <1>3, <1>5, RingAdd DEF Used
<1>7. /\ Used(q) \in Nat /\ Used(q) <= element_count[q] /\ Len(Contents(q)) = Used(q)
      /\ Contents(q) \in Seq(Elements)
      /\ \A i \in 1..Used(q) :
           /\ SlotAfter(q, rptr[q], i - 1) \in Slots(q)
           /\ Contents(q)[i] = data[q][SlotAfter(q, rptr[q], i - 1)]
  BY <1>1, ContentsFacts
<1>8. Contents(q)' = [i \in 1..Used(q)' |-> data'[q][SlotAfter(q, rptr'[q], i - 1)]]
  BY DEF Contents, SlotAfter
<1>9. Contents(q)' \in Seq(Elements) /\ Len(Contents(q)') = Used(q) + 1
  <2>1. \A i \in 1..Used(q)' : SlotAfter(q, rptr'[q], i - 1) \in Slots(q)
    <3> SUFFICES ASSUME NEW i \in 1..(Used(q) + 1)
                 PROVE  SlotAfter(q, rptr[q], i - 1) \in Slots(q)
      BY <1>5, <1>6
    <3>1. i - 1 \in 0..element_count[q]
      BY <1>1, <1>7, ConstantFacts
    <3> QED BY <3>1, <1>1, <1>3, RingFacts
  <2>2. data'[q] \in [Slots(q) -> Elements]
    BY <1>1, <1>2 DEF QueueTypeOK, Slots
  <2>3. Contents(q)' \in [1..(Used(q) + 1) -> Elements]
    BY <2>1, <2>2, <1>6, <1>8
  <2>4. Used(q) + 1 \in Nat
    BY <1>7
  <2>5. Contents(q)' \in Seq(Elements)
    BY <2>3, <2>4, SeqDef
  <2> QED BY <2>3, <2>4, <2>5, LenProperties
<1>10. Contents(q)' = Append(Contents(q), v)
  <2>1. v \in Elements
    BY DEF Elements
  <2>2. /\ Append(Contents(q), v) \in Seq(Elements)
        /\ Len(Append(Contents(q), v)) = Used(q) + 1
        /\ \A i \in 1..Used(q) : Append(Contents(q), v)[i] = Contents(q)[i]
        /\ Append(Contents(q), v)[Used(q) + 1] = v
    BY <2>1, <1>7, AppendProperties
  <2>3. ASSUME NEW i \in 1..(Used(q) + 1)
        PROVE  Contents(q)'[i] = Append(Contents(q), v)[i]
    <3>1. Contents(q)'[i] = data'[q][SlotAfter(q, rptr[q], i - 1)]
      BY <1>5, <1>6, <1>8
    <3>2. CASE i = Used(q) + 1
      <4>1. SlotAfter(q, rptr[q], i - 1) = wptr[q]
        BY <3>2, <1>6, <1>7
      <4> QED BY <4>1, <3>1, <3>2, <2>2, <1>3, <1>5
    <3>3. CASE i # Used(q) + 1
      <4>1. i \in 1..Used(q) /\ i - 1 \in 0..(Used(q) - 1)
        BY <3>3, <1>7
      <4>2. /\ SlotAfter(q, rptr[q], i - 1) # wptr[q]
            /\ SlotAfter(q, rptr[q], i - 1) \in Slots(q)
        BY <4>1, <1>6, <1>7
      <4>3. Contents(q)'[i] = data[q][SlotAfter(q, rptr[q], i - 1)]
        BY <4>2, <3>1, <1>3, <1>5
      <4> QED BY <4>1, <4>3, <2>2, <1>7
    <3> QED BY <3>2, <3>3
  <2> QED BY <2>2, <2>3, <1>9, SeqEqual
<1>11. \A p \in Objects \ {q} : Contents(p)' = Contents(p)
  BY <1>5 DEF Contents, Used, Level, SlotAfter
<1>12. Len(Contents(q)) < element_count[q]
  BY <1>1, <1>7, ConstantFacts
<1> QED BY <1>1, <1>10, <1>11, <1>12

\* The element at the read index is the oldest one.
LEMMA HeadContents ==
  ASSUME QueueTypeOK, NEW q \in Objects, Used(q) # 0
  PROVE  Contents(q) # << >> /\ Head(Contents(q)) = data[q][rptr[q]]
<1>1. /\ Used(q) \in Nat /\ Len(Contents(q)) = Used(q) /\ Contents(q) \in Seq(Elements)
      /\ \A i \in 1..Used(q) : Contents(q)[i] = data[q][SlotAfter(q, rptr[q], i - 1)]
  BY ContentsFacts
<1>2. Contents(q) # << >>
  BY <1>1, EmptySeq
<1>3. SlotAfter(q, rptr[q], 0) = rptr[q]
  BY RingFacts DEF QueueTypeOK
<1>4. 1 \in 1..Used(q) /\ 1 - 1 = 0
  BY <1>1
<1>5. Contents(q)[1] = data[q][rptr[q]]
  BY <1>1, <1>3, <1>4
<1>6. Head(Contents(q)) = Contents(q)[1]
  BY <1>1, <1>2
<1> QED BY <1>2, <1>5, <1>6

\* The read index moves past the oldest element.
LEMMA RemovedContents ==
  ASSUME IndInv, NEW x \in Contexts, Removed(x), NEW q \in Objects, q = req[x].obj
  PROVE  /\ Contents(q) # << >>
         /\ got' = [got EXCEPT ![x] = Head(Contents(q))]
         /\ Contents(q)' = Tail(Contents(q))
         /\ \A p \in Objects \ {q} : Contents(p)' = Contents(p)
<1>1. q \in Objects /\ QueueTypeOK /\ Used(q) # 0
  BY DecideFacts DEF Removed, Deciding, Empty, IndInv
<1>2. QueueTypeOK'
  BY RemovedInd DEF IndInv
<1>3. wptr[q] \in Slots(q) /\ rptr[q] \in Slots(q)
  BY <1>1 DEF QueueTypeOK
<1>4. /\ UNCHANGED <<wptr, data>> /\ rptr'[q] = IncIndex(q, rptr[q])
      /\ \A p \in Objects \ {q} : rptr'[p] = rptr[p]
  BY <1>1 DEF Removed, QueueTypeOK
<1>5. /\ Used(q)' = Used(q) - 1
      /\ \A k \in 0..(element_count[q] - 1) :
           SlotAfter(q, rptr'[q], k) = SlotAfter(q, rptr[q], k + 1)
  <2>1. Used(q)' = Level(q, wptr[q], IncIndex(q, rptr[q])) /\ Level(q, wptr[q], rptr[q]) # 0
    BY <1>1, <1>4 DEF Used, Level
  <2>2. Level(q, wptr[q], IncIndex(q, rptr[q])) = Level(q, wptr[q], rptr[q]) - 1
    BY <2>1, <1>3, RingRemove
  <2>3. ASSUME NEW k \in 0..(element_count[q] - 1)
        PROVE  SlotAfter(q, IncIndex(q, rptr[q]), k) = SlotAfter(q, rptr[q], k + 1)
    BY <1>3, RingShift
  <2> QED BY <2>1, <2>2, <2>3, <1>4 DEF Used
<1>6. /\ Used(q) \in Nat /\ Used(q) <= element_count[q] /\ Len(Contents(q)) = Used(q)
      /\ Contents(q) \in Seq(Elements)
      /\ \A i \in 1..Used(q) : Contents(q)[i] = data[q][SlotAfter(q, rptr[q], i - 1)]
  BY <1>1, ContentsFacts
<1>7. Contents(q)' = [i \in 1..Used(q)' |-> data'[q][SlotAfter(q, rptr'[q], i - 1)]]
  BY DEF Contents, SlotAfter
<1>8. Contents(q) # << >> /\ Head(Contents(q)) = data[q][rptr[q]]
  BY <1>1, HeadContents
<1>9. /\ Tail(Contents(q)) \in Seq(Elements) /\ Len(Tail(Contents(q))) = Used(q) - 1
      /\ \A i \in 1..(Used(q) - 1) : Tail(Contents(q))[i] = Contents(q)[i + 1]
  BY <1>6, <1>8, HeadTailProperties
<1>10. ASSUME NEW i \in 1..(Used(q) - 1)
       PROVE  Contents(q)'[i] = Tail(Contents(q))[i]
  <2>1. /\ i - 1 \in 0..(element_count[q] - 1) /\ (i - 1) + 1 = i
        /\ i + 1 \in 1..Used(q) /\ (i + 1) - 1 = i
    BY <1>1, <1>6, ConstantFacts
  <2>2. Contents(q)'[i] = data[q][SlotAfter(q, rptr[q], i)]
    <3>1. Contents(q)'[i] = data'[q][SlotAfter(q, rptr'[q], i - 1)]
      BY <1>5, <1>7
    <3>2. SlotAfter(q, rptr'[q], i - 1) = SlotAfter(q, rptr[q], i)
      BY <2>1, <1>5
    <3> QED BY <3>1, <3>2, <1>4
  <2>3. Contents(q)[i + 1] = data[q][SlotAfter(q, rptr[q], i)]
    BY <2>1, <1>6
  <2> QED BY <2>2, <2>3, <1>9
<1>11. Contents(q)' \in Seq(Elements) /\ Len(Contents(q)') = Used(q) - 1
  <2>1. Used(q) - 1 \in Nat
    BY <1>1, <1>6
  <2>2. \A i \in 1..(Used(q) - 1) : Tail(Contents(q))[i] \in Elements
    BY <2>1, <1>9, ElementOfSeq
  <2>3. Contents(q)' \in [1..(Used(q) - 1) -> Elements]
    BY <2>2, <1>5, <1>7, <1>10
  <2>4. Contents(q)' \in Seq(Elements)
    BY <2>1, <2>3, SeqDef
  <2> QED BY <2>1, <2>3, <2>4, LenProperties
<1>12. Contents(q)' = Tail(Contents(q))
  BY <1>9, <1>10, <1>11, SeqEqual
<1>13. \A p \in Objects \ {q} : Contents(p)' = Contents(p)
  BY <1>4 DEF Contents, Used, Level, SlotAfter
<1>14. got' = [got EXCEPT ![x] = Head(Contents(q))]
  BY <1>8 DEF Removed
<1> QED BY <1>1, <1>8, <1>12, <1>13, <1>14

\* An unchanged ring holds the same elements.
LEMMA SameContents ==
  ASSUME UNCHANGED <<wptr, rptr, data>>
  PROVE  \A q \in Objects : Contents(q)' = Contents(q)
  BY DEF Contents, Used, Level, SlotAfter

\* A step that adds, removes or peeks is that step of the bounded FIFO.
LEMMA NextAbs == IndInv /\ [Next]_vars => [Abs!Next]_Abs!vars
<1> SUFFICES ASSUME IndInv, [Next]_vars PROVE [Abs!Next]_Abs!vars
  OBVIOUS
<1> DEFINE contents == [q \in Objects |-> Contents(q)]
<1>1. ASSUME NEW x \in Contexts, Added(x) PROVE Abs!Next
  <2>0. pc[x] = "loaded"
    BY <1>1 DEF Added, Deciding
  <2>q. PICK q \in Objects : q = req[x].obj
    BY <2>0, DecideFacts
  <2>1. PICK v \in Values : Contents(q)' = Append(Contents(q), v)
    BY <1>1, <2>q, AddedContents
  <2>2. /\ q \in Objects /\ Len(Contents(q)) < element_count[q]
        /\ \A p \in Objects \ {q} : Contents(p)' = Contents(p)
    BY <1>1, <2>q, AddedContents
  <2>3. contents' = [contents EXCEPT ![q] = Append(Contents(q), v)]
    BY <2>1, <2>2
  <2>4. Abs!Add(q, v)
    BY <1>1, <2>2, <2>3 DEF Abs!Add, Count, Added
  <2> QED BY <2>2, <2>4 DEF Abs!Next
<1>2. ASSUME NEW x \in Contexts, Removed(x) PROVE Abs!Next
  <2>0. pc[x] = "loaded"
    BY <1>2 DEF Removed, Deciding
  <2>q. PICK q \in Objects : q = req[x].obj
    BY <2>0, DecideFacts
  <2>1. /\ q \in Objects /\ Contents(q) # << >>
        /\ got' = [got EXCEPT ![x] = Head(Contents(q))]
        /\ Contents(q)' = Tail(Contents(q))
        /\ \A p \in Objects \ {q} : Contents(p)' = Contents(p)
    BY <1>2, <2>q, RemovedContents
  <2>2. contents' = [contents EXCEPT ![q] = Tail(Contents(q))]
    BY <2>1
  <2>3. Abs!Remove(x, q)
    BY <2>1, <2>2 DEF Abs!Remove
  <2> QED BY <2>1, <2>3 DEF Abs!Next
<1>3. ASSUME NEW x \in Contexts, Peeked(x) PROVE Abs!Next
  <2>0. pc[x] = "loaded"
    BY <1>3 DEF Peeked, Deciding
  <2>q. PICK q \in Objects : q = req[x].obj
    BY <2>0, DecideFacts
  <2>1. q \in Objects /\ QueueTypeOK /\ Used(q) # 0
    BY <1>3, <2>q, DecideFacts DEF Peeked, Deciding, Empty, IndInv
  <2>2. Contents(q) # << >> /\ got' = [got EXCEPT ![x] = Head(Contents(q))]
    BY <1>3, <2>q, <2>1, HeadContents DEF Peeked
  <2>3. contents' = contents
    BY <1>3, SameContents DEF Peeked
  <2>4. Abs!Peek(x, q)
    BY <2>1, <2>2, <2>3 DEF Abs!Peek
  <2> QED BY <2>1, <2>4 DEF Abs!Next
<1>4. ASSUME NEW x \in Contexts, NEW q \in Objects, NEW op \in Ops, Call(x, q, op)
      PROVE  Abs!Next
  <2>1. contents' = contents
    BY <1>4, SameContents DEF Call
  <2>2. Abs!Fresh(x)
    BY <1>4, <2>1 DEF Abs!Fresh, Call
  <2> QED BY <2>2 DEF Abs!Next
<1>5. ASSUME UNCHANGED <<wptr, rptr, data, got>> PROVE UNCHANGED Abs!vars
  <2>1. contents' = contents
    BY <1>5, SameContents
  <2> QED BY <1>5, <2>1 DEF Abs!vars
<1>6. ASSUME NEW x \in Contexts, Step(x) \/ Client(x) PROVE [Abs!Next]_Abs!vars
  BY <1>1, <1>2, <1>3, <1>4, <1>5, <1>6 DEF Step, Client, LoadLevel, Refused
<1>7. ASSUME NEW c \in Cores, HandlerStep(c) PROVE UNCHANGED Abs!vars
  BY <1>5, <1>7 DEF HandlerStep
<1>8. CASE UNCHANGED vars
  BY <1>5, <1>8 DEF vars
<1> QED BY <1>6, <1>7, <1>8 DEF Next

\* The queues of pico_util implement bounded FIFOs of any size.
THEOREM Implements == Spec => AbstractSpec
<1>1. Init => Abs!Init
  <2> SUFFICES ASSUME Init PROVE Abs!Init
    OBVIOUS
  <2>1. ASSUME NEW q \in Objects PROVE Contents(q) = << >>
    <3>1. QueueTypeOK
      BY InitInd DEF IndInv
    <3>2. Used(q) = 0
      BY <2>1 DEF Used, Level, Init
    <3>3. Contents(q) \in Seq(Elements) /\ Len(Contents(q)) = 0
      BY <3>1, <3>2, ContentsFacts
    <3> QED BY <3>3, EmptySeq
  <2> QED BY <2>1 DEF Init, Abs!Init
<1> QED BY <1>1, NextAbs, Invariance, PTL DEF Spec, AbstractSpec, Abs!Spec
-----------------------------------------------------------------------------
(* PHeap *)

(* The trees *)

\* S are the nodes of trees whose roots are R: the links go where the parents
\* say, and no node comes before its parent.
Linkage(n, S, R) ==
  /\ R \subseteq S
  /\ \A i \in R : n[i].sibling = 0
  /\ \A i \in S : n[i].child # 0 => n[i].child \in S \ R /\ n[n[i].child].parent = i
  /\ \A i \in S : n[i].sibling # 0 =>
       n[i].sibling \in S \ R /\ n[n[i].sibling].parent = n[i].parent
  /\ \A i \in S \ R : n[i].parent \in S /\ ~Before(i, n[i].parent)

\* Every node but the roots is linked once.
Once(n, S, R) ==
  /\ \A j \in S \ R : \E i \in S : n[i].child = j \/ n[i].sibling = j
  /\ \A i, k \in S : n[i].child # 0 /\ n[i].child = n[k].child => i = k
  /\ \A i, k \in S : n[i].sibling # 0 /\ n[i].sibling = n[k].sibling => i = k
  /\ \A i, k \in S : n[i].child # 0 => n[i].child # n[k].sibling

\* No links lead in a circle: they lead to lower ranks.
Ranked(n, S, R, rank) ==
  /\ \A i \in S : n[i].child # 0 => rank[n[i].child] < rank[i]
  /\ \A i \in S : n[i].sibling # 0 => rank[n[i].sibling] < rank[i]
  /\ \A i \in S \ R : rank[i] < rank[n[i].parent]

Trees(n, S, R) ==
  /\ S \subseteq Ids /\ Linkage(n, S, R) /\ Once(n, S, R)
  /\ \E rank \in [Ids -> Nat] : Ranked(n, S, R, rank)

LEMMA HeapConstants ==
  /\ max_nodes \in Nat /\ max_nodes > 0
  /\ 0 \notin Ids /\ NodeId = Ids \cup {0} /\ Ids \subseteq Nat
  /\ \A i \in Ids : Key[i] \in Int
  /\ IsFiniteSet(Ids) /\ Cardinality(Ids) = max_nodes
<1>1. max_nodes \in Nat /\ max_nodes > 0
  BY PHeapAssumption
<1>2. IsFiniteSet(Ids) /\ Cardinality(Ids) = max_nodes
  BY <1>1, FS_Interval DEF Ids
<1> QED
  BY <1>1, <1>2, PHeapAssumption DEF Ids, NodeId

LEMMA Least ==
  ASSUME NEW T, T \subseteq Nat, T # {}
  PROVE  \E n \in T : \A m \in T : n <= m
<1>1. IsWellFoundedOn(OpToRel(<, Nat), Nat)
  BY NatLessThanWellFounded
<1>2. \E n \in T : \A m \in T : ~(<<m, n>> \in OpToRel(<, Nat))
  BY <1>1, WFMin
<1>3. \A m, n \in Nat : m < n => <<m, n>> \in OpToRel(<, Nat)
  BY DEF OpToRel
<1>4. PICK n \in T : \A m \in T : ~(<<m, n>> \in OpToRel(<, Nat))
  BY <1>2
<1>5. \A m \in T : ~(m < n)
  BY <1>3, <1>4
<1>6. \A m \in T : n <= m
  BY <1>5
<1> QED
  BY <1>6

LEMMA RankBound ==
  ASSUME NEW rank \in [Ids -> Nat]
  PROVE  \E top \in Nat : \A i \in Ids : rank[i] <= top
<1> DEFINE Bounds(k, top) == \A i \in Ids : i <= k => rank[i] <= top
           Bad == {k \in Nat : ~ \E top \in Nat : Bounds(k, top)}
<1>1. Bad = {}
  <2> SUFFICES ASSUME Bad # {} PROVE FALSE
    OBVIOUS
  <2>1. PICK k \in Bad : \A j \in Bad : k <= j
    BY Least
  <2>2. k \in Nat /\ ~ \E top \in Nat : Bounds(k, top)
    BY <2>1
  <2>3. CASE k = 0
    <3>1. Bounds(0, 0)
      BY DEF Ids
    <3> QED
      BY <2>2, <2>3, <3>1
  <2>4. CASE k # 0
    <3>1. k - 1 \in Nat /\ ~(k <= k - 1)
      BY <2>2, <2>4
    <3>2. PICK top \in Nat : Bounds(k - 1, top)
      BY <2>1, <3>1
    <3>3. \A i \in Ids : i <= k => i = k \/ i <= k - 1
      BY <2>2 DEF Ids
    <3>4. CASE k \in Ids
      <4>1. PICK up \in Nat : top <= up /\ rank[k] <= up
        <5>1. rank[k] \in Nat /\ top \in Nat
          BY <3>4
        <5>2. top <= rank[k] \/ rank[k] <= top
          BY <5>1
        <5>3. top <= top /\ rank[k] <= rank[k]
          BY <5>1
        <5> HIDE DEF Bounds
        <5> QED
          BY <5>1, <5>2, <5>3
      <4>2. \A i \in Ids : rank[i] <= top => rank[i] <= up
        BY <4>1
      <4>3. Bounds(k, up)
        BY <3>2, <3>3, <4>1, <4>2
      <4> QED
        BY <2>2, <4>3
    <3>5. CASE k \notin Ids
      <4>1. Bounds(k, top)
        BY <3>2, <3>3, <3>5
      <4> QED
        BY <2>2, <4>1
    <3> QED
      BY <3>4, <3>5
  <2> QED
    BY <2>3, <2>4
<1>2. PICK top \in Nat : Bounds(max_nodes, top)
  BY <1>1, HeapConstants
<1> QED
  BY <1>2, HeapConstants DEF Ids

LEMMA LinksType ==
  ASSUME NEW n \in [Ids -> Links], NEW i \in Ids
  PROVE  n[i].child \in NodeId /\ n[i].sibling \in NodeId /\ n[i].parent \in NodeId
  BY DEF Links

\* ph_add_child_node.
LEMMA AddChildIs ==
  ASSUME NEW n \in [Ids -> Links], NEW p \in Ids, NEW c \in Ids, p # c
  PROVE  LET m == AddChild(n, p, c) IN
         /\ m \in [Ids -> Links]
         /\ m[p].child = c /\ m[p].sibling = n[p].sibling /\ m[p].parent = n[p].parent
         /\ m[c].child = n[c].child /\ m[c].parent = p
         /\ m[c].sibling = IF n[p].child = 0 THEN n[c].sibling ELSE n[p].child
         /\ \A i \in Ids \ {p, c} : m[i] = n[i]
<1>1. c \in NodeId /\ p \in NodeId /\ n[p].child \in NodeId
  BY HeapConstants, LinksType
<1>2. CASE n[p].child = 0
  BY <1>1, <1>2 DEF AddChild, Links
<1>3. CASE n[p].child # 0
  BY <1>1, <1>3 DEF AddChild, Links
<1> QED
  BY <1>2, <1>3

LEMMA AddChildTrees ==
  ASSUME NEW n \in [Ids -> Links], NEW S, NEW R, Trees(n, S, R),
         NEW p \in R, NEW c \in R, p # c, ~Before(c, p)
  PROVE  Trees(AddChild(n, p, c), S, R \ {c})
<1> DEFINE m == AddChild(n, p, c)
           next == n[p].child
<1>1. S \subseteq Ids /\ R \subseteq S /\ p \in Ids /\ c \in Ids /\ p \in S /\ c \in S
  BY DEF Trees, Linkage
<1>2. /\ m[p].child = c /\ m[p].sibling = n[p].sibling /\ m[p].parent = n[p].parent
      /\ m[c].child = n[c].child /\ m[c].parent = p
      /\ m[c].sibling = IF n[p].child = 0 THEN n[c].sibling ELSE n[p].child
      /\ \A i \in Ids \ {p, c} : m[i] = n[i]
  BY <1>1, AddChildIs
<1> HIDE DEF m
<1>3. Linkage(n, S, R) /\ Once(n, S, R) /\ 0 \notin S
  BY <1>1, HeapConstants DEF Trees
<1>4. n[c].sibling = 0 /\ n[p].sibling = 0
  BY <1>3 DEF Linkage
<1>5. m[c].sibling = n[p].child /\ m[p].sibling = 0
  BY <1>2, <1>4
<1>6. \A i \in S : /\ m[i].child = IF i = p THEN c ELSE n[i].child
                   /\ m[i].sibling = IF i = c THEN n[p].child ELSE n[i].sibling
                   /\ m[i].parent = IF i = c THEN p ELSE n[i].parent
  BY <1>1, <1>2, <1>5
<1>7. Linkage(m, S, R \ {c})
  <2>1. \A i \in R \ {c} : m[i].sibling = 0
    BY <1>1, <1>3, <1>6 DEF Linkage
  <2>2. \A i \in S : m[i].child # 0 => m[i].child \in S \ (R \ {c}) /\ m[m[i].child].parent = i
    BY <1>1, <1>3, <1>6 DEF Linkage
  <2>3. ASSUME NEW i \in S, m[i].sibling # 0
        PROVE  m[i].sibling \in S \ (R \ {c}) /\ m[m[i].sibling].parent = m[i].parent
    <3>1. CASE i = c
      BY <1>1, <1>3, <1>6, <2>3, <3>1 DEF Linkage
    <3>2. CASE i # c
      BY <1>1, <1>3, <1>6, <2>3, <3>2 DEF Linkage
    <3> QED
      BY <3>1, <3>2
  <2>4. \A i \in S \ (R \ {c}) : m[i].parent \in S /\ ~Before(i, m[i].parent)
    BY <1>1, <1>3, <1>6 DEF Linkage
  <2> QED
    BY <1>1, <2>1, <2>2, <2>3, <2>4 DEF Linkage
<1>8. Once(m, S, R \ {c})
  <2>1. ASSUME NEW j \in S \ (R \ {c}) PROVE \E i \in S : m[i].child = j \/ m[i].sibling = j
    <3>1. CASE j = c
      BY <1>1, <1>6, <3>1
    <3>2. CASE j # c
      <4>1. PICK i \in S : n[i].child = j \/ n[i].sibling = j
        BY <1>3, <2>1, <3>2 DEF Once
      <4>2. CASE n[i].child = j
        BY <1>1, <1>6, <4>1, <4>2
      <4>3. CASE n[i].sibling = j
        BY <1>1, <1>3, <1>4, <1>6, <2>1, <4>1, <4>3
      <4> QED
        BY <4>1, <4>2, <4>3
    <3> QED
      BY <3>1, <3>2
  <2>2. \A i, k \in S : m[i].child # 0 /\ m[i].child = m[k].child => i = k
    BY <1>1, <1>3, <1>6 DEF Once, Linkage
  <2>3. \A i, k \in S : m[i].sibling # 0 /\ m[i].sibling = m[k].sibling => i = k
    BY <1>1, <1>3, <1>6 DEF Once
  <2>4. \A i, k \in S : m[i].child # 0 => m[i].child # m[k].sibling
    BY <1>1, <1>3, <1>6 DEF Once, Linkage
  <2> QED
    BY <2>1, <2>2, <2>3, <2>4 DEF Once
<1>9. \E rank \in [Ids -> Nat] : Ranked(m, S, R \ {c}, rank)
  <2>1. PICK old \in [Ids -> Nat] : Ranked(n, S, R, old)
    BY DEF Trees
  <2>2. PICK top \in Nat : \A i \in Ids : old[i] <= top
    BY RankBound
  <2> DEFINE rank == [i \in Ids |-> IF i = p THEN top + 2 ELSE IF i = c THEN top + 1 ELSE old[i]]
  <2>3. rank \in [Ids -> Nat]
    OBVIOUS
  <2>4. rank[p] = top + 2 /\ rank[c] = top + 1 /\ \A i \in Ids \ {p, c} : rank[i] = old[i]
    BY <1>1
  <2> HIDE DEF rank
  <2>5. \A i \in Ids : i # p => rank[i] < top + 2
    BY <2>2, <2>4
  <2>6. \A i \in Ids : i # p /\ i # c => rank[i] < top + 1
    BY <2>2, <2>4
  <2>7. ASSUME NEW i \in S, m[i].child # 0 PROVE rank[m[i].child] < rank[i]
    <3>1. CASE i = p
      BY <1>1, <1>6, <2>4, <2>5, <3>1
    <3>2. CASE i # p
      <4>1. m[i].child = n[i].child /\ n[i].child \in S \ R /\ n[i].child \in Ids
        BY <1>1, <1>3, <1>6, <2>7, <3>2 DEF Linkage
      <4>2. n[i].child # p /\ n[i].child # c /\ old[n[i].child] < old[i]
        BY <2>1, <2>7, <4>1 DEF Ranked
      <4>3. CASE i = c
        BY <2>4, <2>6, <4>1, <4>2, <4>3
      <4>4. CASE i # c
        BY <1>1, <2>4, <3>2, <4>1, <4>2, <4>4
      <4> QED
        BY <4>3, <4>4
    <3> QED
      BY <3>1, <3>2
  <2>8. ASSUME NEW i \in S, m[i].sibling # 0 PROVE rank[m[i].sibling] < rank[i]
    <3>1. i # p
      BY <1>1, <1>5, <2>8
    <3>2. CASE i = c
      <4>1. m[i].sibling = n[p].child /\ n[p].child \in S \ R /\ n[p].child \in Ids
        BY <1>1, <1>3, <1>6, <2>8, <3>2 DEF Linkage
      <4> QED
        BY <2>4, <2>6, <3>2, <4>1
    <3>3. CASE i # c
      <4>1. m[i].sibling = n[i].sibling /\ n[i].sibling \in S \ R /\ n[i].sibling \in Ids
        BY <1>1, <1>3, <1>6, <2>8, <3>3 DEF Linkage
      <4>2. old[n[i].sibling] < old[i]
        BY <2>1, <2>8, <4>1 DEF Ranked
      <4> QED
        BY <1>1, <2>4, <3>1, <3>3, <4>1, <4>2
    <3> QED
      BY <3>2, <3>3
  <2>9. ASSUME NEW i \in S \ (R \ {c}) PROVE rank[i] < rank[m[i].parent]
    <3>1. CASE i = c
      BY <1>1, <1>6, <2>4, <2>5, <3>1
    <3>2. CASE i # c
      <4>1. i \in S \ R /\ m[i].parent = n[i].parent /\ n[i].parent \in Ids
        BY <1>1, <1>3, <1>6, <2>9, <3>2 DEF Linkage
      <4>2. old[i] < old[n[i].parent] /\ i # p /\ i \in Ids
        BY <1>1, <2>1, <4>1 DEF Ranked
      <4>3. rank[i] = old[i] /\ rank[i] < top + 1
        BY <2>4, <2>6, <3>2, <4>2
      <4> QED
        BY <2>3, <2>4, <4>1, <4>2, <4>3
    <3> QED
      BY <3>1, <3>2
  <2> QED
    BY <2>3, <2>7, <2>8, <2>9 DEF Ranked
<1> QED
  BY <1>1, <1>7, <1>8, <1>9 DEF Trees, m

Root(id) == IF id = 0 THEN {} ELSE {id}

\* What ph_merge_nodes makes of the roots a and b.
Merged(n, S, R, a, b, m) ==
  /\ m.nodes \in [Ids -> Links] /\ m.id \in {a, b} /\ (m.id = 0 <=> a = 0 /\ b = 0)
  /\ Trees(m.nodes, S, (R \ {a, b}) \cup Root(m.id))
  /\ \A i \in Ids \ {a, b} : m.nodes[i] = n[i]
  /\ m.id # 0 => m.nodes[m.id].parent = n[m.id].parent

LEMMA MergeTrees ==
  ASSUME NEW n \in [Ids -> Links], NEW S, NEW R, Trees(n, S, R),
         NEW a \in R \cup {0}, NEW b \in R \cup {0}, a = b => a = 0,
         NEW m, m = Merge(n, a, b)
  PROVE  Merged(n, S, R, a, b, m)
<1>1. R \subseteq Ids /\ 0 \notin R
  BY HeapConstants DEF Trees, Linkage
<1>2. CASE a = 0 \/ b = 0
  <2>1. m.nodes = n /\ m.id = IF a = 0 THEN b ELSE a
    BY <1>2 DEF Merge
  <2>2. (R \ {a, b}) \cup Root(m.id) = R
    BY <1>1, <1>2, <2>1 DEF Root
  <2> QED
    BY <1>2, <2>1, <2>2 DEF Merged
<1>3. CASE a # 0 /\ b # 0
  <2>1. a \in R /\ b \in R /\ a # b /\ a \in Ids /\ b \in Ids
    BY <1>1, <1>3
  <2>2. ASSUME NEW p \in {a, b}, NEW c \in {a, b}, p # c, ~Before(c, p),
               m = [nodes |-> AddChild(n, p, c), id |-> p]
        PROVE  Merged(n, S, R, a, b, m)
    <3>1. m.nodes = AddChild(n, p, c) /\ m.id = p /\ p # 0 /\ p \in Ids /\ c \in Ids
      BY <1>3, <2>1, <2>2
    <3>2. /\ m.nodes \in [Ids -> Links] /\ m.nodes[p].parent = n[p].parent
          /\ \A i \in Ids \ {p, c} : m.nodes[i] = n[i]
      BY <2>2, <3>1, AddChildIs
    <3>3. Trees(m.nodes, S, R \ {c})
      BY <2>1, <2>2, <3>1, AddChildTrees
    <3>4. (R \ {a, b}) \cup Root(m.id) = R \ {c}
      BY <2>1, <2>2, <3>1 DEF Root
    <3>5. {p, c} = {a, b}
      BY <2>1, <2>2
    <3> QED
      BY <1>3, <3>1, <3>2, <3>3, <3>4, <3>5 DEF Merged
  <2>3. CASE Before(a, b)
    <3>1. m = [nodes |-> AddChild(n, a, b), id |-> a]
      BY <1>3, <2>3 DEF Merge
    <3>2. ~Before(b, a)
      BY <2>1, <2>3, HeapConstants DEF Before
    <3> QED
      BY <2>1, <2>2, <3>1, <3>2
  <2>4. CASE ~Before(a, b)
    <3>1. m = [nodes |-> AddChild(n, b, a), id |-> b]
      BY <1>3, <2>4 DEF Merge
    <3> QED
      BY <2>1, <2>2, <2>4, <3>1
  <2> QED
    BY <2>3, <2>4
<1> QED
  BY <1>2, <1>3
-----------------------------------------------------------------------------
(* The lists *)

\* f is the list that the siblings from i on form.
Listed(n, i, f) ==
  /\ f \in Seq(Ids) /\ (i = 0 <=> f = << >>)
  /\ f # << >> => f[1] = i /\ n[f[Len(f)]].sibling = 0
  /\ \A k \in 1..Len(f) : k < Len(f) => f[k + 1] = n[f[k]].sibling
  /\ \A j, k \in 1..Len(f) : f[j] = f[k] => j = k

LEMMA ListedLength ==
  ASSUME NEW n, NEW i, NEW f, Listed(n, i, f)
  PROVE  Len(f) \in Nat /\ Len(f) <= max_nodes
<1>1. Len(f) \in Nat /\ f \in [1..Len(f) -> Ids]
  BY DEF Listed
<1>2. f \in Injection(1..Len(f), Ids)
  BY <1>1 DEF Listed, Injection, IsInjective
<1>3. IsFiniteSet(1..Len(f)) /\ Cardinality(1..Len(f)) = Len(f)
  BY <1>1, FS_Interval
<1>4. Cardinality(1..Len(f)) <= Cardinality(Ids)
  BY <1>2, HeapConstants, FS_Injection
<1> QED
  BY <1>1, <1>3, <1>4, HeapConstants

\* The rest of a list.
LEMMA ListedRest ==
  ASSUME NEW n, NEW i \in Ids, NEW f, Listed(n, i, f)
  PROVE  /\ f # << >> /\ f = << i >> \o Tail(f)
         /\ Listed(n, n[i].sibling, Tail(f)) /\ Len(Tail(f)) = Len(f) - 1
<1>1. f \in Seq(Ids) /\ f # << >> /\ f[1] = i /\ n[f[Len(f)]].sibling = 0
  BY HeapConstants DEF Listed
<1> DEFINE t == Tail(f)
<1>2. /\ t \in Seq(Ids) /\ Len(t) = Len(f) - 1 /\ Len(f) \in Nat /\ Len(f) > 0
      /\ \A k \in 1..Len(t) : t[k] = f[k + 1]
  BY <1>1
<1>3. f = << i >> \o t
  BY <1>1
<1> HIDE DEF t
<1>4. CASE Len(f) = 1
  <2>1. t = << >> /\ n[i].sibling = 0
    BY <1>1, <1>2, <1>4
  <2> QED
    BY <1>1, <1>2, <1>3, <2>1 DEF Listed, t
<1>5. CASE Len(f) # 1
  <2>1. 1 \in 1..Len(f) /\ 1 < Len(f) /\ t # << >> /\ 1 \in 1..Len(t) /\ Len(t) \in 1..Len(t)
    BY <1>2, <1>5
  <2>2. f[2] = n[i].sibling /\ t[1] = f[2]
    BY <1>1, <1>2, <2>1 DEF Listed
  <2>3. t[Len(t)] = f[Len(f)]
    BY <1>2, <2>1
  <2>4. n[i].sibling # 0
    BY <1>2, <2>1, <2>2, HeapConstants
  <2>5. ASSUME NEW k \in 1..Len(t), k < Len(t) PROVE t[k + 1] = n[t[k]].sibling
    <3>1. k + 1 \in 1..Len(t) /\ k + 1 \in 1..Len(f) /\ k + 1 < Len(f)
      BY <1>2, <2>5
    <3>2. t[k + 1] = f[(k + 1) + 1] /\ t[k] = f[k + 1]
      BY <1>2, <3>1
    <3> QED
      BY <3>1, <3>2 DEF Listed
  <2>6. ASSUME NEW j \in 1..Len(t), NEW k \in 1..Len(t), t[j] = t[k] PROVE j = k
    <3>1. j + 1 \in 1..Len(f) /\ k + 1 \in 1..Len(f) /\ f[j + 1] = f[k + 1]
      BY <1>2, <2>6
    <3>2. j + 1 = k + 1
      BY <3>1 DEF Listed
    <3> QED
      BY <3>2
  <2>7. Listed(n, n[i].sibling, t)
    BY <1>1, <1>2, <2>1, <2>2, <2>3, <2>4, <2>5, <2>6 DEF Listed
  <2> QED
    BY <1>1, <1>2, <1>3, <2>7 DEF t
<1> QED
  BY <1>4, <1>5

\* What Chain collects.
LEMMA ChainFrom ==
  ASSUME NEW n
  PROVE  \E from :
           /\ from = [k \in 0..max_nodes |->
                        [i \in NodeId |-> IF i = 0 \/ k = 0 THEN << >>
                                          ELSE << i >> \o from[k - 1][n[i].sibling]]]
           /\ \A id : Chain(n, id) = from[max_nodes][id]
<1> DEFINE Body(k, g) == [i \in NodeId |-> IF i = 0 \/ k = 0 THEN << >>
                                           ELSE << i >> \o g[n[i].sibling]]
           Upto(q, f) == f = [k \in 0..q |-> Body(k, f[k - 1])]
           Bad == {q \in Nat : ~ \E f : Upto(q, f)}
<1>1. Bad = {}
  <2> SUFFICES ASSUME Bad # {} PROVE FALSE
    OBVIOUS
  <2>1. PICK q \in Bad : \A m \in Bad : q <= m
    BY Least
  <2>0. q \in Nat
    BY <2>1
  <2> HIDE DEF Body
  <2>2. CASE q = 0
    <3> DEFINE f == [k \in 0..0 |-> [i \in NodeId |-> << >>]]
    <3>1. \A g : Body(0, g) = [i \in NodeId |-> << >>]
      BY DEF Body
    <3>2. Upto(0, f)
      BY <3>1
    <3> QED
      BY <2>1, <2>2, <3>2
  <2>3. CASE q # 0
    <3>1. q - 1 \in Nat /\ q - 1 \notin Bad
      <4>1. q - 1 \in Nat /\ ~(q <= q - 1)
        BY <2>0, <2>3
      <4> QED
        BY <2>1, <4>1
    <3>2. PICK g : Upto(q - 1, g)
      BY <3>1
    <3>3. \A k \in 0..(q - 1) : g[k] = Body(k, g[k - 1])
      BY <3>2
    <3> DEFINE f == [k \in 0..q |-> IF k = q THEN Body(q, g[q - 1]) ELSE g[k]]
    <3>4. /\ f[q] = Body(q, g[q - 1])
          /\ \A k \in 0..(q - 1) : k \in 0..q /\ k # q /\ f[k] = g[k]
      BY <2>0
    <3>5. ASSUME NEW k \in 0..q, k # 0 PROVE f[k] = Body(k, f[k - 1])
      <4>1. k - 1 \in 0..(q - 1) /\ (k # q => k \in 0..(q - 1))
        BY <2>0, <3>5
      <4> HIDE DEF f
      <4> QED
        BY <3>3, <3>4, <4>1
    <3>6. f[0] = Body(0, f[0 - 1])
      <4>1. 0 \in 0..(q - 1) /\ 0 # q
        BY <2>0, <2>3
      <4>2. \A x, y : Body(0, x) = Body(0, y)
        BY DEF Body
      <4> HIDE DEF f
      <4> QED
        BY <3>3, <3>4, <4>1, <4>2
    <3>7. f = [k \in 0..q |-> f[k]]
      OBVIOUS
    <3> HIDE DEF f
    <3>8. Upto(q, f)
      BY <3>5, <3>6, <3>7
    <3> QED
      BY <2>1, <3>8
  <2> QED
    BY <2>2, <2>3
<1> HIDE DEF Upto
<1>2. \E f : Upto(max_nodes, f)
  BY <1>1, HeapConstants
<1> DEFINE from == CHOOSE f : Upto(max_nodes, f)
<1>3. Upto(max_nodes, from)
  BY <1>2
<1>4. \A id : Chain(n, id) = from[max_nodes][id]
  BY DEF Chain, Upto
<1> HIDE DEF from
<1> QED
  BY <1>3, <1>4 DEF Upto

LEMMA ChainIs ==
  ASSUME NEW n \in [Ids -> Links], NEW id \in NodeId, NEW f, Listed(n, id, f)
  PROVE  Chain(n, id) = f
<1>1. PICK from :
         /\ from = [k \in 0..max_nodes |->
                      [i \in NodeId |-> IF i = 0 \/ k = 0 THEN << >>
                                        ELSE << i >> \o from[k - 1][n[i].sibling]]]
         /\ Chain(n, id) = from[max_nodes][id]
  BY ChainFrom
<1>2. \A k \in 0..max_nodes : \A i \in NodeId :
        from[k][i] = IF i = 0 \/ k = 0 THEN << >> ELSE << i >> \o from[k - 1][n[i].sibling]
  <2>1. \A k \in 0..max_nodes :
          from[k] = [i \in NodeId |-> IF i = 0 \/ k = 0 THEN << >>
                                      ELSE << i >> \o from[k - 1][n[i].sibling]]
    BY <1>1
  <2> QED
    BY <2>1
<1> DEFINE Right(k) == \A i \in NodeId : \A g : Listed(n, i, g) /\ Len(g) <= k => from[k][i] = g
           Bad == {k \in 0..max_nodes : ~Right(k)}
<1>3. Bad = {}
  <2> SUFFICES ASSUME Bad # {} PROVE FALSE
    OBVIOUS
  <2>0. Bad \subseteq Nat
    BY HeapConstants
  <2>1. PICK k \in Bad : \A m \in Bad : k <= m
    <3> HIDE DEF Bad
    <3> QED
      BY <2>0, Least
  <2>2. k \in 0..max_nodes /\ k \in Nat /\ ~Right(k)
    BY <2>0, <2>1
  <2>3. PICK i \in NodeId : \E g : Listed(n, i, g) /\ Len(g) <= k /\ from[k][i] # g
    BY <2>2
  <2>4. PICK g : Listed(n, i, g) /\ Len(g) <= k /\ from[k][i] # g
    BY <2>3
  <2>5. CASE i = 0
    BY <1>2, <2>2, <2>4, <2>5 DEF Listed
  <2>6. CASE i # 0
    <3>1. i \in Ids /\ n[i].sibling \in NodeId
      BY <2>6, HeapConstants, LinksType
    <3>2. /\ g # << >> /\ g = << i >> \o Tail(g)
          /\ Listed(n, n[i].sibling, Tail(g)) /\ Len(Tail(g)) = Len(g) - 1 /\ Len(g) \in Nat
      BY <2>4, <3>1, ListedRest, ListedLength
    <3>3. k # 0
      BY <2>2, <2>4, <3>2 DEF Listed
    <3>4. k - 1 \in 0..max_nodes /\ ~(k <= k - 1) /\ Len(Tail(g)) <= k - 1
      BY <2>2, <2>4, <3>2, <3>3, HeapConstants
    <3>5. Right(k - 1)
      BY <2>1, <3>4
    <3>6. from[k - 1][n[i].sibling] = Tail(g)
      BY <3>1, <3>2, <3>4, <3>5
    <3> QED
      BY <1>2, <2>2, <2>4, <2>6, <3>2, <3>3, <3>6
  <2> QED
    BY <2>5, <2>6
<1>4. max_nodes \in 0..max_nodes /\ Len(f) <= max_nodes
  BY HeapConstants, ListedLength
<1> QED
  BY <1>1, <1>3, <1>4

LEMMA ListedBefore ==
  ASSUME NEW n, NEW i \in Ids, NEW g, Listed(n, n[i].sibling, g),
         \A k \in 1..Len(g) : g[k] # i
  PROVE  LET f == << i >> \o g IN
         /\ Listed(n, i, f) /\ Len(f) = Len(g) + 1 /\ f[1] = i
         /\ \A k \in 1..Len(f) : k # 1 => k - 1 \in 1..Len(g) /\ f[k] = g[k - 1]
<1> DEFINE f == << i >> \o g
<1>1. g \in Seq(Ids) /\ Len(g) \in Nat
  BY DEF Listed
<1>2. f \in Seq(Ids) /\ Len(f) = Len(g) + 1 /\ f[1] = i /\ f # << >>
  BY <1>1
<1>3. \A k \in 1..Len(f) : k # 1 => k - 1 \in 1..Len(g) /\ f[k] = g[k - 1]
  BY <1>1
<1> HIDE DEF f
<1>4. n[f[Len(f)]].sibling = 0
  <2>1. CASE g = << >>
    BY <1>2, <2>1 DEF Listed
  <2>2. CASE g # << >>
    <3>1. Len(f) \in 1..Len(f) /\ Len(f) # 1 /\ Len(f) - 1 = Len(g)
      BY <1>1, <1>2, <2>2
    <3> QED
      BY <1>3, <2>2, <3>1 DEF Listed
  <2> QED
    BY <2>1, <2>2
<1>5. ASSUME NEW k \in 1..Len(f), k < Len(f) PROVE f[k + 1] = n[f[k]].sibling
  <2>0. k + 1 \in 1..Len(f) /\ k + 1 # 1 /\ (k + 1) - 1 = k /\ k \in 1..Len(g)
    BY <1>1, <1>2, <1>5
  <2>1. f[k + 1] = g[k]
    BY <1>3, <2>0
  <2>2. CASE k = 1
    <3>1. g # << >> /\ g[1] = n[i].sibling
      BY <1>1, <2>0, <2>2 DEF Listed
    <3> QED
      BY <1>2, <2>1, <2>2, <3>1
  <2>3. CASE k # 1
    <3>1. k - 1 \in 1..Len(g) /\ k - 1 < Len(g) /\ (k - 1) + 1 = k
      BY <1>1, <2>0, <2>3
    <3>2. g[(k - 1) + 1] = n[g[k - 1]].sibling
      BY <3>1 DEF Listed
    <3>3. f[k] = g[k - 1]
      BY <1>3, <2>3
    <3> QED
      BY <2>1, <3>1, <3>2, <3>3
  <2> QED
    BY <2>2, <2>3
<1>6. ASSUME NEW j \in 1..Len(f), NEW k \in 1..Len(f), f[j] = f[k] PROVE j = k
  <2>1. CASE j = 1 \/ k = 1
    BY <1>2, <1>3, <1>6, <2>1
  <2>2. CASE j # 1 /\ k # 1
    <3>1. j - 1 \in 1..Len(g) /\ k - 1 \in 1..Len(g) /\ g[j - 1] = g[k - 1]
      BY <1>3, <1>6, <2>2
    <3>2. j - 1 = k - 1
      BY <3>1 DEF Listed
    <3> QED
      BY <1>2, <3>2
  <2> QED
    BY <2>1, <2>2
<1>7. Listed(n, i, f)
  BY <1>2, <1>4, <1>5, <1>6, HeapConstants DEF Listed
<1> QED
  BY <1>2, <1>3, <1>7 DEF f

\* From a node of a tree its later siblings.
Siblings(n, S, R, i, f) ==
  /\ Listed(n, i, f)
  /\ i \notin R => \A k \in 1..Len(f) : f[k] \in S \ R /\ n[f[k]].parent = n[i].parent

LEMMA SiblingList ==
  ASSUME NEW n \in [Ids -> Links], NEW S, NEW R, Trees(n, S, R), NEW i \in S
  PROVE  \E f : Siblings(n, S, R, i, f)
<1>1. S \subseteq Ids /\ Linkage(n, S, R)
  BY DEF Trees
<1>2. PICK rank \in [Ids -> Nat] : Ranked(n, S, R, rank)
  BY DEF Trees
<1> DEFINE Fits(j, f) ==
             /\ Listed(n, j, f)
             /\ \A k \in 1..Len(f) : rank[f[k]] <= rank[j]
             /\ j \notin R => \A k \in 1..Len(f) : f[k] \in S \ R /\ n[f[k]].parent = n[j].parent
           BadIds == {j \in S : ~ \E f : Fits(j, f)}
           Bad == {rank[j] : j \in BadIds}
<1>3. BadIds = {}
  <2> SUFFICES ASSUME BadIds # {} PROVE FALSE
    OBVIOUS
  <2>1. Bad \subseteq Nat /\ Bad # {}
    BY <1>1
  <2>2. PICK r \in Bad : \A m \in Bad : r <= m
    BY <2>1, Least
  <2>3. PICK j \in BadIds : r = rank[j]
    BY <2>2
  <2>4. j \in S /\ j \in Ids /\ rank[j] \in Nat /\ ~ \E f : Fits(j, f)
    BY <1>1, <2>3
  <2>5. \A m \in S : rank[m] < rank[j] => \E f : Fits(m, f)
    <3>1. ASSUME NEW m \in S, rank[m] < rank[j], ~ \E f : Fits(m, f) PROVE FALSE
      <4>1. rank[m] \in Bad /\ rank[m] \in Nat
        BY <1>1, <3>1
      <4>2. r <= rank[m]
        BY <2>2, <4>1
      <4> QED
        BY <2>3, <2>4, <3>1, <4>1, <4>2
    <3> QED
      BY <3>1
  <2>6. CASE n[j].sibling = 0
    <3>1. Listed(n, n[j].sibling, << >>)
      BY <2>6 DEF Listed
    <3>2. << j >> \o << >> = << j >> /\ Len(<< j >>) = 1 /\ << j >>[1] = j
      OBVIOUS
    <3>3. Listed(n, j, << j >>)
      <4>1. \A k \in 1..Len(<< >>) : << >>[k] # j
        OBVIOUS
      <4>2. Listed(n, j, << j >> \o << >>)
        BY <2>4, <3>1, <4>1, ListedBefore
      <4> QED
        BY <3>2, <4>2
    <3>4. \A k \in 1..Len(<< j >>) : << j >>[k] = j
      BY <3>2
    <3>5. Fits(j, << j >>)
      BY <2>4, <3>3, <3>4
    <3> QED
      BY <2>4, <3>5
  <2>7. CASE n[j].sibling # 0
    <3>1. /\ n[j].sibling \in S \ R /\ n[n[j].sibling].parent = n[j].parent
          /\ rank[n[j].sibling] < rank[j] /\ rank[n[j].sibling] \in Nat
      BY <1>1, <1>2, <2>4, <2>7 DEF Linkage, Ranked
    <3>2. PICK g : Fits(n[j].sibling, g)
      BY <2>5, <3>1
    <3>3. \A k \in 1..Len(g) : g[k] \in Ids /\ rank[g[k]] < rank[j]
      <4>1. \A k \in 1..Len(g) : g[k] \in Ids /\ rank[g[k]] <= rank[n[j].sibling] /\ rank[g[k]] \in Nat
        BY <3>2 DEF Listed
      <4> QED
        BY <2>4, <3>1, <4>1
    <3> DEFINE f == << j >> \o g
    <3>4. /\ Listed(n, j, f) /\ Len(f) = Len(g) + 1 /\ f[1] = j
          /\ \A k \in 1..Len(f) : k # 1 => k - 1 \in 1..Len(g) /\ f[k] = g[k - 1]
      <4>1. \A k \in 1..Len(g) : g[k] # j
        BY <2>4, <3>3
      <4> QED
        BY <2>4, <3>2, <4>1, ListedBefore
    <3> HIDE DEF f
    <3>5. ASSUME NEW k \in 1..Len(f) PROVE rank[f[k]] <= rank[j]
      <4>1. CASE k = 1
        BY <2>4, <3>4, <4>1
      <4>2. CASE k # 1
        <5>1. k - 1 \in 1..Len(g) /\ f[k] = g[k - 1]
          BY <3>4, <4>2
        <5>2. rank[f[k]] < rank[j] /\ rank[f[k]] \in Nat
          BY <3>3, <5>1
        <5> QED
          BY <2>4, <5>2
      <4> QED
        BY <4>1, <4>2
    <3>6. j \notin R => \A k \in 1..Len(f) : f[k] \in S \ R /\ n[f[k]].parent = n[j].parent
      <4>1. \A k \in 1..Len(g) : g[k] \in S \ R /\ n[g[k]].parent = n[j].parent
        BY <3>1, <3>2
      <4>2. ASSUME j \notin R, NEW k \in 1..Len(f)
            PROVE  f[k] \in S \ R /\ n[f[k]].parent = n[j].parent
        <5>1. CASE k = 1
          BY <2>4, <3>4, <4>2, <5>1
        <5>2. CASE k # 1
          <6>1. k - 1 \in 1..Len(g) /\ f[k] = g[k - 1]
            BY <3>4, <5>2
          <6> QED
            BY <4>1, <6>1
        <5> QED
          BY <5>1, <5>2
      <4> QED
        BY <4>2
    <3>7. Fits(j, f)
      BY <3>4, <3>5, <3>6
    <3> QED
      BY <2>4, <3>7
  <2> QED
    BY <2>6, <2>7
<1> QED
  BY <1>3 DEF Siblings

\* The chain of the children of a node.
LEMMA Children ==
  ASSUME NEW n \in [Ids -> Links], NEW S, NEW R, Trees(n, S, R), NEW id \in S
  PROVE  LET c == Chain(n, n[id].child) IN
         /\ Listed(n, n[id].child, c)
         /\ \A k \in 1..Len(c) : c[k] \in S \ R /\ n[c[k]].parent = id
         /\ \A j \in S \ R : n[j].parent = id => \E k \in 1..Len(c) : c[k] = j
<1> DEFINE first == n[id].child
           c == Chain(n, first)
<1>1. S \subseteq Ids /\ Linkage(n, S, R) /\ Once(n, S, R)
  BY DEF Trees
<1>2. PICK rank \in [Ids -> Nat] : Ranked(n, S, R, rank)
  BY DEF Trees
<1>3. first \in NodeId /\ (first # 0 => first \in S \ R /\ n[first].parent = id)
  BY <1>1, LinksType DEF Linkage
<1>4. PICK f : /\ Listed(n, first, f)
               /\ \A k \in 1..Len(f) : f[k] \in S \ R /\ n[f[k]].parent = id
  <2>1. CASE first = 0
    <3>1. Listed(n, first, << >>)
      BY <2>1 DEF Listed
    <3> QED
      BY <3>1
  <2>2. CASE first # 0
    <3>0. first \in S /\ first \notin R /\ n[first].parent = id
      BY <1>3, <2>2
    <3> HIDE DEF first
    <3>1. PICK f : Siblings(n, S, R, first, f)
      BY <3>0, SiblingList
    <3> QED
      BY <3>0, <3>1 DEF Siblings
  <2> QED
    BY <2>1, <2>2
<1>5. c = f
  BY <1>3, <1>4, ChainIs
<1> DEFINE Missing == {j \in S \ R : n[j].parent = id /\ \A k \in 1..Len(f) : f[k] # j}
<1>6. Missing = {}
  <2> SUFFICES ASSUME Missing # {} PROVE FALSE
    OBVIOUS
  <2>1. PICK top \in Nat : \A i \in Ids : rank[i] <= top
    BY RankBound
  <2> DEFINE Depths == {top - rank[j] : j \in Missing}
  <2>2. Depths \subseteq Nat /\ Depths # {}
    <3>1. ASSUME NEW j \in Missing PROVE top - rank[j] \in Nat
      <4>1. j \in Ids
        BY <1>1
      <4>2. rank[j] \in Nat /\ rank[j] <= top
        BY <2>1, <4>1
      <4> QED
        BY <4>2
    <3> HIDE DEF Missing
    <3> QED
      BY <3>1
  <2>3. PICK d \in Depths : \A e \in Depths : d <= e
    BY <2>2, Least
  <2>4. PICK j \in Missing : d = top - rank[j]
    BY <2>3
  <2>5. \A i \in Missing : rank[i] <= rank[j]
    <3>1. ASSUME NEW i \in Missing PROVE rank[i] <= rank[j]
      <4>1. top - rank[j] <= top - rank[i]
        BY <2>3, <2>4
      <4>2. rank[i] \in Nat /\ rank[j] \in Nat
        BY <1>1, <2>4
      <4> QED
        BY <4>1, <4>2
    <3> QED
      BY <3>1
  <2>6. j \in S \ R /\ n[j].parent = id /\ \A k \in 1..Len(f) : f[k] # j
    BY <2>4
  <2>7. PICK i \in S : n[i].child = j \/ n[i].sibling = j
    BY <1>1, <2>6 DEF Once
  <2>8. j # 0 /\ rank[j] \in Nat /\ rank[i] \in Nat
    BY <1>1, <2>6, <2>7, HeapConstants
  <2>9. CASE n[i].child = j
    <3>1. i = id
      BY <1>1, <2>6, <2>7, <2>8, <2>9 DEF Linkage
    <3>2. f # << >> /\ f[1] = j /\ 1 \in 1..Len(f)
      <4>1. f \in Seq(Ids) /\ f # << >> /\ f[1] = j
        BY <1>4, <2>8, <2>9, <3>1 DEF Listed
      <4> QED
        BY <4>1
    <3> QED
      BY <2>6, <3>2
  <2>10. CASE n[i].sibling = j
    <3>1. n[i].parent = id /\ i \notin R /\ rank[j] < rank[i]
      BY <1>1, <1>2, <2>6, <2>7, <2>8, <2>10 DEF Linkage, Ranked
    <3>2. i \notin Missing
      BY <2>5, <2>8, <3>1
    <3>3. PICK k \in 1..Len(f) : f[k] = i
      BY <2>7, <3>1, <3>2
    <3>4. Len(f) \in Nat
      BY <1>4, ListedLength
    <3>5. k # Len(f)
      <4>1. f # << >>
        BY <3>3, <3>4
      <4> QED
        BY <1>4, <2>8, <2>10, <3>3, <4>1 DEF Listed
    <3>6. k < Len(f) /\ k + 1 \in 1..Len(f)
      BY <3>4, <3>5
    <3>7. f[k + 1] = j
      BY <1>4, <2>10, <3>3, <3>6 DEF Listed
    <3> QED
      BY <2>6, <3>6, <3>7
  <2> QED
    BY <2>7, <2>9, <2>10
<1> QED
  BY <1>4, <1>5, <1>6
-----------------------------------------------------------------------------
(* ph_merge_two_pass *)

Kids(c) == {c[k] : k \in 1..Len(c)}

\* The children of the root id became roots, each with its own tree.
Apart(n, S, R, id, c, m) ==
  /\ m \in [Ids -> Links] /\ Kids(c) \subseteq S \ R
  /\ Trees(m, S \ {id}, (R \ {id}) \cup Kids(c))
  /\ \A i \in Ids \ Kids(c) : m[i] = n[i]

LEMMA SeparatedTrees ==
  ASSUME NEW n \in [Ids -> Links], NEW S, NEW R, Trees(n, S, R), NEW id \in R,
         NEW c, c = Chain(n, n[id].child)
  PROVE  Apart(n, S, R, id, c, Separated(n, c))
<1> DEFINE m == Separated(n, c)
           kids == {c[k] : k \in 1..Len(c)}
           T == S \ {id}
           Q == (R \ {id}) \cup kids
<1>1. S \subseteq Ids /\ R \subseteq S /\ id \in S /\ Linkage(n, S, R) /\ Once(n, S, R)
  BY DEF Trees, Linkage
<1>2. /\ \A j \in kids : j \in S \ R /\ n[j].parent = id
      /\ \A j \in S \ R : n[j].parent = id => j \in kids
  <2>1. /\ \A k \in 1..Len(c) : c[k] \in S \ R /\ n[c[k]].parent = id
        /\ \A j \in S \ R : n[j].parent = id => \E k \in 1..Len(c) : c[k] = j
    BY <1>1, Children
  <2> QED
    BY <2>1
<1>3. \A i \in Ids : m[i] = IF i \in kids THEN [n[i] EXCEPT !.sibling = 0] ELSE n[i]
  <2>1. \A i : i \in kids <=> \E k \in 1..Len(c) : c[k] = i
    OBVIOUS
  <2> HIDE DEF kids
  <2> QED
    BY <2>1 DEF Separated
<1> HIDE DEF kids
<1>4. m \in [Ids -> Links]
  <2>1. m = [i \in Ids |-> m[i]]
    BY DEF Separated
  <2>2. ASSUME NEW i \in Ids PROVE m[i] \in Links
    <3>1. n[i] \in Links /\ 0 \in NodeId
      BY HeapConstants
    <3>2. [n[i] EXCEPT !.sibling = 0] \in Links
      BY <3>1 DEF Links
    <3> QED
      BY <1>3, <3>1, <3>2
  <2> HIDE DEF m
  <2> QED
    BY <2>1, <2>2
<1> HIDE DEF m
<1>5. \A i \in Ids : /\ m[i].child = n[i].child /\ m[i].parent = n[i].parent
                     /\ m[i].sibling = IF i \in kids THEN 0 ELSE n[i].sibling
  <2>1. ASSUME NEW i \in Ids
        PROVE  /\ m[i].child = n[i].child /\ m[i].parent = n[i].parent
               /\ m[i].sibling = IF i \in kids THEN 0 ELSE n[i].sibling
    BY <1>3 DEF Links
  <2> QED
    BY <2>1
<1>6. \A i \in Ids : i \notin kids => m[i] = n[i]
  BY <1>3
<1>7. Linkage(m, T, Q)
  <2>1. Q \subseteq T
    BY <1>1, <1>2
  <2>2. \A i \in Q : m[i].sibling = 0
    BY <1>1, <1>2, <1>5 DEF Linkage
  <2>3. ASSUME NEW i \in T, m[i].child # 0
        PROVE  m[i].child \in T \ Q /\ m[m[i].child].parent = i
    BY <1>1, <1>2, <1>5, <2>3 DEF Linkage
  <2>4. ASSUME NEW i \in T, m[i].sibling # 0
        PROVE  m[i].sibling \in T \ Q /\ m[m[i].sibling].parent = m[i].parent
    <3>1. i \notin kids /\ i \in S /\ i \in Ids /\ n[i].sibling # 0 /\ m[i].sibling = n[i].sibling
      BY <1>1, <1>5, <2>4
    <3>2. i \notin R /\ n[i].sibling \in S \ R /\ n[n[i].sibling].parent = n[i].parent
      BY <1>1, <3>1 DEF Linkage
    <3>3. n[i].parent # id
      BY <1>2, <3>1, <3>2
    <3> QED
      BY <1>1, <1>2, <1>5, <3>1, <3>2, <3>3
  <2>5. ASSUME NEW i \in T \ Q PROVE m[i].parent \in T /\ ~Before(i, m[i].parent)
    <3>1. i \in S \ R /\ i \in Ids
      BY <1>1, <2>5
    <3>2. n[i].parent # id /\ n[i].parent \in S /\ ~Before(i, n[i].parent)
      BY <1>1, <1>2, <2>5, <3>1 DEF Linkage
    <3> QED
      BY <1>5, <3>1, <3>2
  <2> QED
    BY <2>1, <2>2, <2>3, <2>4, <2>5 DEF Linkage
<1>8. Once(m, T, Q)
  <2>1. ASSUME NEW j \in T \ Q PROVE \E i \in T : m[i].child = j \/ m[i].sibling = j
    <3>1. j \in S \ R /\ j \in Ids /\ j # 0 /\ n[j].parent # id
      BY <1>1, <1>2, <2>1, HeapConstants
    <3>2. PICK i \in S : n[i].child = j \/ n[i].sibling = j
      BY <1>1, <3>1 DEF Once
    <3>3. CASE n[i].child = j
      BY <1>1, <1>5, <3>1, <3>2, <3>3 DEF Linkage
    <3>4. CASE n[i].sibling = j
      <4>1. i \notin R /\ n[j].parent = n[i].parent
        BY <1>1, <3>1, <3>2, <3>4 DEF Linkage
      <4>2. i \notin kids /\ i # id
        BY <1>2, <3>1, <4>1
      <4> QED
        BY <1>1, <1>5, <3>2, <3>4, <4>2
    <3> QED
      BY <3>2, <3>3, <3>4
  <2>2. \A i, k \in T : m[i].child # 0 /\ m[i].child = m[k].child => i = k
    BY <1>1, <1>5 DEF Once
  <2>3. \A i, k \in T : m[i].sibling # 0 /\ m[i].sibling = m[k].sibling => i = k
    BY <1>1, <1>5 DEF Once
  <2>4. \A i, k \in T : m[i].child # 0 => m[i].child # m[k].sibling
    BY <1>1, <1>5 DEF Once
  <2> QED
    BY <2>1, <2>2, <2>3, <2>4 DEF Once
<1>9. \E rank \in [Ids -> Nat] : Ranked(m, T, Q, rank)
  <2>1. PICK rank \in [Ids -> Nat] : Ranked(n, S, R, rank)
    BY DEF Trees
  <2>2. \A i \in T : m[i].child # 0 => rank[m[i].child] < rank[i]
    BY <1>1, <1>5, <2>1 DEF Ranked
  <2>3. \A i \in T : m[i].sibling # 0 => rank[m[i].sibling] < rank[i]
    BY <1>1, <1>5, <2>1 DEF Ranked
  <2>4. \A i \in T \ Q : rank[i] < rank[m[i].parent]
    BY <1>1, <1>5, <2>1 DEF Ranked
  <2> QED
    BY <2>2, <2>3, <2>4 DEF Ranked
<1>10. T \subseteq Ids /\ kids \subseteq S \ R
  BY <1>1, <1>2
<1>11. Trees(m, T, Q)
  BY <1>7, <1>8, <1>9, <1>10 DEF Trees
<1> QED
  BY <1>4, <1>6, <1>10, <1>11 DEF m, kids, Kids, Apart

\* The roots among L and those of three became one.
Joined(n, S, L, three, m) ==
  /\ m.nodes \in [Ids -> Links] /\ m.id \in three /\ m.id # 0
  /\ Trees(m.nodes, S, L \cup {m.id})
  /\ \A i \in Ids \ three : m.nodes[i] = n[i]

\* Two roots merged, and what becomes of them with the pairs to their right.
LEMMA PairMerged ==
  ASSUME NEW n \in [Ids -> Links], NEW S, NEW L, NEW a, NEW b, NEW e,
         a # 0, a \notin L, b \notin L, e \notin L, a # b, a # e, b = e => b = 0,
         Trees(n, S, L \cup {a} \cup Root(b) \cup Root(e)),
         NEW pair, pair = Merge(n, a, b), NEW m, m = Merge(pair.nodes, pair.id, e)
  PROVE  Joined(n, S, L, {a, b, e}, m)
<1> DEFINE R == L \cup {a} \cup Root(b) \cup Root(e)
           P == (R \ {a, b}) \cup Root(pair.id)
<1>1. R \subseteq Ids /\ 0 \notin R
  BY HeapConstants DEF Trees, Linkage
<1>2. a \in R /\ b \in R \cup {0} /\ e \in R \cup {0} /\ 0 \notin L
  BY <1>1 DEF Root
<1>3. /\ pair.nodes \in [Ids -> Links] /\ pair.id \in {a, b} /\ pair.id # 0
      /\ Trees(pair.nodes, S, P) /\ \A i \in Ids \ {a, b} : pair.nodes[i] = n[i]
  <2> HIDE DEF R
  <2>1. Trees(n, S, R)
    BY DEF R
  <2>2. a \in R \cup {0} /\ b \in R \cup {0} /\ (a = b => a = 0)
    BY <1>2
  <2> HIDE DEF P
  <2>3. /\ pair.nodes \in [Ids -> Links] /\ pair.id \in {a, b} /\ (pair.id = 0 <=> a = 0 /\ b = 0)
        /\ Trees(pair.nodes, S, (R \ {a, b}) \cup Root(pair.id))
        /\ \A i \in Ids \ {a, b} : pair.nodes[i] = n[i]
    <3>1. Merged(n, S, R, a, b, pair)
      BY <2>1, <2>2, MergeTrees
    <3> QED
      BY <3>1 DEF Merged
  <2> QED
    BY <2>3 DEF P
<1>4. pair.id \in P /\ e \in P \cup {0} /\ pair.id # e
  BY <1>2, <1>3 DEF Root
<1>5. /\ m.nodes \in [Ids -> Links] /\ m.id \in {pair.id, e} /\ m.id # 0
      /\ Trees(m.nodes, S, (P \ {pair.id, e}) \cup Root(m.id))
      /\ \A i \in Ids \ {pair.id, e} : m.nodes[i] = pair.nodes[i]
  <2> HIDE DEF P
  <2>1. pair.id \in P \cup {0} /\ e \in P \cup {0} /\ (pair.id = e => pair.id = 0)
    BY <1>4
  <2>2. /\ m.nodes \in [Ids -> Links] /\ m.id \in {pair.id, e} /\ (m.id = 0 <=> pair.id = 0 /\ e = 0)
        /\ Trees(m.nodes, S, (P \ {pair.id, e}) \cup Root(m.id))
        /\ \A i \in Ids \ {pair.id, e} : m.nodes[i] = pair.nodes[i]
    <3>1. Merged(pair.nodes, S, P, pair.id, e, m)
      BY <1>3, <2>1, MergeTrees
    <3> QED
      BY <3>1 DEF Merged
  <2> QED
    BY <1>3, <2>2
<1>6. (P \ {pair.id, e}) \cup Root(m.id) = L \cup {m.id}
  <2>1. P \ {pair.id, e} = L
    BY <1>2, <1>3 DEF Root
  <2> QED
    BY <1>5, <2>1 DEF Root
<1>7. Trees(m.nodes, S, L \cup {m.id})
  BY <1>5, <1>6
<1>8. \A i \in Ids \ {a, b, e} : m.nodes[i] = n[i]
  BY <1>3, <1>5
<1> QED
  BY <1>3, <1>5, <1>7, <1>8 DEF Joined

LEMMA MergedPairsIs ==
  ASSUME NEW n, NEW c, Pairs(c) \in Nat
  PROVE  /\ MergedPairs(n, c)[0] = [nodes |-> Separated(n, c), id |-> 0]
         /\ \A q \in 1..Pairs(c) :
              \E rest, pair :
                /\ rest = MergedPairs(n, c)[q - 1]
                /\ pair = Merge(rest.nodes, At(c, 2 * (Pairs(c) - q) + 1), At(c, 2 * (Pairs(c) - q) + 2))
                /\ MergedPairs(n, c)[q] = Merge(pair.nodes, pair.id, rest.id)
<1> DEFINE Joint(q, rest) ==
             LET p == Pairs(c) - q
                 pair == Merge(rest.nodes, At(c, 2 * p + 1), At(c, 2 * p + 2))
             IN  Merge(pair.nodes, pair.id, rest.id)
           base == [nodes |-> Separated(n, c), id |-> 0]
           Upto(q, f) == f = [k \in 0..q |-> IF k = 0 THEN base ELSE Joint(k, f[k - 1])]
           Bad == {q \in Nat : ~ \E f : Upto(q, f)}
<1>1. Bad = {}
  <2> SUFFICES ASSUME Bad # {} PROVE FALSE
    OBVIOUS
  <2>1. PICK q \in Bad : \A m \in Bad : q <= m
    BY Least
  <2>0. q \in Nat
    BY <2>1
  <2> HIDE DEF Joint, base
  <2>2. CASE q = 0
    <3>1. Upto(0, [k \in 0..0 |-> base])
      OBVIOUS
    <3> QED
      BY <2>1, <2>2, <3>1
  <2>3. CASE q # 0
    <3>1. q - 1 \in Nat /\ q - 1 \notin Bad
      <4>1. q - 1 \in Nat /\ ~(q <= q - 1)
        BY <2>0, <2>3
      <4> QED
        BY <2>1, <4>1
    <3>2. PICK g : Upto(q - 1, g)
      BY <3>1
    <3>3. \A k \in 0..(q - 1) : g[k] = IF k = 0 THEN base ELSE Joint(k, g[k - 1])
      BY <3>2
    <3> DEFINE f == [k \in 0..q |-> IF k = 0 THEN base ELSE Joint(k, g[k - 1])]
    <3>4. \A k \in 0..q : f[k] = IF k = 0 THEN base ELSE Joint(k, g[k - 1])
      OBVIOUS
    <3>5. \A k \in 0..q : k # 0 => k - 1 \in 0..(q - 1) /\ k - 1 \in 0..q
      BY <2>0
    <3>6. \A k \in 0..(q - 1) : k \in 0..q /\ f[k] = g[k]
      BY <2>0, <3>3, <3>4
    <3>7. f = [k \in 0..q |-> f[k]]
      OBVIOUS
    <3> HIDE DEF f
    <3>8. \A k \in 0..q : f[k] = IF k = 0 THEN base ELSE Joint(k, f[k - 1])
      BY <3>4, <3>5, <3>6
    <3>9. Upto(q, f)
      BY <3>7, <3>8
    <3> QED
      BY <2>1, <3>9
  <2> QED
    BY <2>2, <2>3
<1> HIDE DEF Upto
<1>2. \E f : Upto(Pairs(c), f)
  BY <1>1
<1> DEFINE merged == CHOOSE f : Upto(Pairs(c), f)
<1>3. Upto(Pairs(c), merged)
  BY <1>2
<1>4. MergedPairs(n, c) = merged
  BY DEF MergedPairs, Upto
<1> HIDE DEF merged
<1>5. \A k \in 0..Pairs(c) : merged[k] = IF k = 0 THEN base ELSE Joint(k, merged[k - 1])
  <2> HIDE DEF Joint, base
  <2> QED
    BY <1>3 DEF Upto
<1>6. merged[0] = base /\ \A q \in 1..Pairs(c) : merged[q] = Joint(q, merged[q - 1])
  <2> HIDE DEF Joint, base
  <2> QED
    BY <1>5
<1> QED
  BY <1>4, <1>6

LEMMA PairsAre ==
  ASSUME NEW c \in Seq(Ids)
  PROVE  /\ Pairs(c) \in Nat /\ Len(c) \in Nat
         /\ 2 * Pairs(c) = Len(c) \/ 2 * Pairs(c) = Len(c) + 1
<1> DEFINE l == Len(c)
<1>1. l \in Nat
  OBVIOUS
<1> HIDE DEF l
<1>2. (l + 1) \div 2 \in Nat /\ (2 * ((l + 1) \div 2) = l \/ 2 * ((l + 1) \div 2) = l + 1)
  BY <1>1
<1> QED
  BY <1>1, <1>2 DEF Pairs, l

\* The first x ids of a chain.
First(c, x) == {c[k] : k \in {j \in 1..Len(c) : j <= x}}

\* a and b are the two ids after the first x of c, or a is and c ends there.
NextTwo(c, x, a, b) ==
  /\ First(c, x + 2) = First(c, x) \cup {a} \cup Root(b)
  /\ a \in Ids /\ b \in NodeId /\ a # b /\ a \notin First(c, x) /\ b \notin First(c, x)
  /\ a = c[x + 1] /\ (b # 0 => x + 2 \in 1..Len(c) /\ b = c[x + 2])

LEMMA FirstTwo ==
  ASSUME NEW c \in Seq(Ids), NEW p \in Nat, 2 * p + 1 <= Len(c),
         NEW a, a = At(c, 2 * p + 1), NEW b, b = At(c, 2 * p + 2),
         \A j, k \in 1..Len(c) : c[j] = c[k] => j = k
  PROVE  NextTwo(c, 2 * p, a, b)
<1> DEFINE x == 2 * p
           l == Len(c)
<1>0. x \in Nat /\ l \in Nat /\ x + 1 <= l
  OBVIOUS
<1>1. x + 1 \in 1..Len(c) /\ a = c[x + 1]
  BY DEF At
<1>2. \A k \in 1..Len(c) : c[k] \in Ids /\ c[k] # 0
  BY HeapConstants
<1>3. IF x + 2 <= l THEN x + 2 \in 1..Len(c) /\ b = c[x + 2] ELSE b = 0
  BY DEF At
<1> HIDE DEF x, l
<1>4. a \in Ids /\ b \in NodeId /\ a # b
  <2>1. CASE x + 2 <= l
    <3>1. b = c[x + 2] /\ x + 2 \in 1..Len(c) /\ x + 1 # x + 2
      BY <1>0, <1>3, <2>1
    <3> QED
      BY <1>1, <1>2, <3>1, HeapConstants
  <2>2. CASE ~(x + 2 <= l)
    BY <1>1, <1>2, <1>3, <2>2, HeapConstants
  <2> QED
    BY <2>1, <2>2
<1>5. a \notin First(c, x) /\ b \notin First(c, x)
  <2>1. ASSUME NEW k \in 1..Len(c), k <= x PROVE c[k] # a /\ c[k] # b
    <3>1. k # x + 1 /\ k # x + 2 /\ c[k] # 0
      BY <1>0, <1>2, <2>1
    <3> QED
      BY <1>1, <1>3, <3>1
  <2> QED
    BY <2>1 DEF First
<1>6. First(c, x + 2) = First(c, x) \cup {a} \cup Root(b)
  <2>1. ASSUME NEW i \in First(c, x + 2) PROVE i \in First(c, x) \cup {a} \cup Root(b)
    <3>1. PICK k \in 1..Len(c) : k <= x + 2 /\ i = c[k]
      BY DEF First
    <3>2. k <= x \/ k = x + 1 \/ k = x + 2
      BY <1>0, <3>1
    <3>3. CASE k <= x
      BY <3>1, <3>3 DEF First
    <3>4. CASE k = x + 1
      BY <1>1, <3>1, <3>4
    <3>5. CASE k = x + 2
      <4>1. x + 2 <= l
        BY <1>0, <3>1, <3>5 DEF l
      <4> QED
        BY <1>2, <1>3, <3>1, <3>5, <4>1 DEF Root
    <3> QED
      BY <3>2, <3>3, <3>4, <3>5
  <2>2. First(c, x) \subseteq First(c, x + 2)
    BY <1>0 DEF First
  <2>3. a \in First(c, x + 2)
    BY <1>0, <1>1 DEF First
  <2>4. Root(b) \subseteq First(c, x + 2)
    BY <1>0, <1>3 DEF First, Root
  <2> QED
    BY <2>1, <2>2, <2>3, <2>4
<1>7. b # 0 => x + 2 \in 1..Len(c) /\ b = c[x + 2]
  BY <1>3
<1> QED
  BY <1>1, <1>4, <1>5, <1>6, <1>7 DEF x, NextTwo

\* What ph_merge_two_pass makes of the children of a root.
TwoPassed(n, S, R, id, c, m) ==
  /\ m.nodes \in [Ids -> Links] /\ (m.id = 0 <=> c = << >>)
  /\ m.id # 0 => \E k \in 1..Len(c) : m.id = c[k]
  /\ \A k \in 1..Len(c) : c[k] \in S \ R
  /\ Trees(m.nodes, S \ {id}, (R \ {id}) \cup Root(m.id))
  /\ \A i \in Ids : (\A k \in 1..Len(c) : c[k] # i) => m.nodes[i] = n[i]

LEMMA TwoPassTrees ==
  ASSUME NEW n \in [Ids -> Links], NEW S, NEW R, Trees(n, S, R), NEW id \in R,
         NEW c, c = Chain(n, n[id].child), NEW m, m = MergeTwoPass(n, n[id].child)
  PROVE  TwoPassed(n, S, R, id, c, m)
<1> DEFINE kids == Kids(c)
           T == S \ {id}
           Q == R \ {id}
           merged == MergedPairs(n, c)
           P == Pairs(c)
           At1(q) == At(c, 2 * (P - q) + 1)
           At2(q) == At(c, 2 * (P - q) + 2)
<1>1. S \subseteq Ids /\ R \subseteq S /\ id \in S
  BY DEF Trees, Linkage
<1>2. /\ c \in Seq(Ids) /\ \A j, k \in 1..Len(c) : c[j] = c[k] => j = k
  <2>1. Listed(n, n[id].child, c)
    BY <1>1, Children
  <2> QED
    BY <2>1 DEF Listed
<1>3. /\ Separated(n, c) \in [Ids -> Links] /\ kids \subseteq S \ R
      /\ Trees(Separated(n, c), T, Q \cup kids)
      /\ \A i \in Ids \ kids : Separated(n, c)[i] = n[i]
  <2>1. Apart(n, S, R, id, c, Separated(n, c))
    BY SeparatedTrees
  <2> QED
    BY <2>1 DEF Apart
<1>4. P \in Nat /\ Len(c) \in Nat /\ (2 * P = Len(c) \/ 2 * P = Len(c) + 1)
  BY <1>2, PairsAre
<1>5. /\ merged[0] = [nodes |-> Separated(n, c), id |-> 0]
      /\ \A q \in 1..P :
           \E rest, pair :
             /\ rest = merged[q - 1]
             /\ pair = Merge(rest.nodes, At1(q), At2(q))
             /\ merged[q] = Merge(pair.nodes, pair.id, rest.id)
  BY <1>4, MergedPairsIs
<1>6. m = merged[P]
  BY DEF MergeTwoPass
<1> HIDE DEF merged, P, At1, At2
<1> DEFINE Good(q) ==
             /\ merged[q].nodes \in [Ids -> Links] /\ (merged[q].id = 0 <=> q = 0)
             /\ merged[q].id # 0 => \E k \in 1..Len(c) : k > 2 * (P - q) /\ merged[q].id = c[k]
             /\ Trees(merged[q].nodes, T, (Q \cup First(c, 2 * (P - q))) \cup Root(merged[q].id))
             /\ \A i \in Ids \ kids : merged[q].nodes[i] = n[i]
<1>7. Good(0)
  <2>1. First(c, 2 * (P - 0)) = kids
    <3>1. \A k \in 1..Len(c) : k <= 2 * (P - 0)
      BY <1>4
    <3> QED
      BY <3>1 DEF First, Kids
  <2>2. (Q \cup First(c, 2 * (P - 0))) \cup Root(merged[0].id) = Q \cup kids
    BY <1>5, <2>1 DEF Root
  <2>3. merged[0].nodes = Separated(n, c) /\ merged[0].id = 0
    BY <1>5
  <2> QED
    BY <1>3, <2>2, <2>3
<1>8. ASSUME NEW q \in 1..P, Good(q - 1) PROVE Good(q)
  <2>1. PICK rest, pair :
             /\ rest = merged[q - 1]
             /\ pair = Merge(rest.nodes, At1(q), At2(q))
             /\ merged[q] = Merge(pair.nodes, pair.id, rest.id)
    BY <1>5
  <2> DEFINE p == P - q
             L == Q \cup First(c, 2 * p)
             a == At1(q)
             b == At2(q)
             e == rest.id
             final == merged[q]
  <2>2. p \in Nat /\ 2 * p + 1 <= Len(c) /\ 2 * (P - (q - 1)) = 2 * p + 2 /\ q # 0
    BY <1>4
  <2>3. a = At(c, 2 * p + 1) /\ b = At(c, 2 * p + 2)
    BY DEF At1, At2
  <2> HIDE DEF p, a, b
  <2>4. /\ First(c, 2 * p + 2) = First(c, 2 * p) \cup {a} \cup Root(b)
        /\ a \in Ids /\ b \in NodeId /\ a # b /\ a \notin First(c, 2 * p) /\ b \notin First(c, 2 * p)
        /\ a = c[2 * p + 1] /\ (b # 0 => 2 * p + 2 \in 1..Len(c) /\ b = c[2 * p + 2])
    <3>1. NextTwo(c, 2 * p, a, b)
      BY <1>2, <2>2, <2>3, FirstTwo
    <3> QED
      BY <3>1 DEF NextTwo
  <2>5. a \in kids /\ (b # 0 => b \in kids) /\ a # 0 /\ 2 * p + 1 \in 1..Len(c)
    <3>1. 2 * p + 1 \in 1..Len(c)
      BY <1>4, <2>2
    <3> QED
      BY <2>4, <3>1, HeapConstants DEF Kids
  <2>6. /\ rest.nodes \in [Ids -> Links]
        /\ e # 0 => \E k \in 1..Len(c) : k > 2 * p + 2 /\ e = c[k]
        /\ Trees(rest.nodes, T, (Q \cup First(c, 2 * p + 2)) \cup Root(e))
        /\ \A i \in Ids \ kids : rest.nodes[i] = n[i]
    BY <1>8, <2>1, <2>2
  <2>7. 0 \notin L /\ 0 \notin kids
    <3>1. 0 \notin S
      BY <1>1, HeapConstants
    <3>2. First(c, 2 * p) \subseteq kids
      BY DEF First, Kids
    <3> QED
      BY <1>1, <1>3, <3>1, <3>2
  <2>8. a \notin L /\ b \notin L
    BY <1>3, <2>4, <2>5, <2>7
  <2>9. a # e /\ (b = e => b = 0) /\ e \notin L
    <3>1. CASE e = 0
      BY <2>5, <2>7, <3>1
    <3>2. CASE e # 0
      <4>1. PICK k \in 1..Len(c) : k > 2 * p + 2 /\ e = c[k]
        BY <2>6, <3>2
      <4>2. k # 2 * p + 1 /\ k # 2 * p + 2 /\ ~(k <= 2 * p)
        BY <2>2, <4>1
      <4>3. e # a /\ (b # 0 => e # b)
        BY <1>2, <2>4, <2>5, <4>1, <4>2
      <4>4. e \notin First(c, 2 * p)
        BY <1>2, <4>1, <4>2 DEF First
      <4>5. e \in kids
        BY <4>1 DEF Kids
      <4> QED
        BY <1>3, <4>3, <4>4, <4>5
    <3> QED
      BY <3>1, <3>2
  <2>10. (Q \cup First(c, 2 * p + 2)) \cup Root(e) = L \cup {a} \cup Root(b) \cup Root(e)
    BY <2>4
  <2>11. pair = Merge(rest.nodes, a, b) /\ final = Merge(pair.nodes, pair.id, e)
    BY <2>1 DEF a, b
  <2> HIDE DEF L, e, final
  <2>12. Joined(rest.nodes, T, L, {a, b, e}, final)
    <3>1. Trees(rest.nodes, T, L \cup {a} \cup Root(b) \cup Root(e))
      BY <2>6, <2>10
    <3>2. rest.nodes \in [Ids -> Links] /\ a # 0 /\ a # b
      BY <2>4, <2>5, <2>6
    <3> HIDE DEF T
    <3> QED
      BY <2>8, <2>9, <2>11, <3>1, <3>2, PairMerged
  <2>13. final.id \in {a, b, e} /\ final.id # 0 /\ Root(final.id) = {final.id}
    BY <2>12 DEF Joined, Root
  <2>14. \E k \in 1..Len(c) : k > 2 * p /\ final.id = c[k]
    <3>1. CASE final.id = a
      BY <2>2, <2>4, <2>5, <3>1
    <3>2. CASE final.id = b
      BY <2>2, <2>4, <2>13, <3>2
    <3>3. CASE final.id = e
      <4>1. PICK k \in 1..Len(c) : k > 2 * p + 2 /\ e = c[k]
        BY <2>6, <2>13, <3>3
      <4>2. k > 2 * p
        BY <2>2, <4>1
      <4> QED
        BY <3>3, <4>1, <4>2
    <3> QED
      BY <2>13, <3>1, <3>2, <3>3
  <2>15. \A i \in Ids \ kids : final.nodes[i] = n[i]
    <3>1. ASSUME NEW i \in Ids \ kids PROVE final.nodes[i] = n[i]
      <4>1. i # a /\ i # b /\ i # e
        BY <2>5, <2>6, <3>1, HeapConstants DEF Kids
      <4> HIDE DEF kids
      <4> QED
        BY <2>6, <2>12, <3>1, <4>1 DEF Joined
    <3> QED
      BY <3>1
  <2>16. Trees(final.nodes, T, L \cup Root(final.id)) /\ final.nodes \in [Ids -> Links]
    BY <2>12, <2>13 DEF Joined
  <2> HIDE DEF kids
  <2> QED
    BY <2>2, <2>13, <2>14, <2>15, <2>16 DEF final, p, L
<1> DEFINE Bad == {q \in 0..P : ~Good(q)}
<1> HIDE DEF Good
<1>9. Bad = {}
  <2> SUFFICES ASSUME Bad # {} PROVE FALSE
    OBVIOUS
  <2>1. Bad \subseteq Nat
    BY <1>4
  <2>2. PICK q \in Bad : \A j \in Bad : q <= j
    <3> HIDE DEF Bad
    <3> QED
      BY <2>1, Least
  <2>3. q \in Nat /\ q \in 0..P /\ ~Good(q)
    BY <2>1, <2>2
  <2>4. q # 0
    BY <1>7, <2>3
  <2>5. q - 1 \in 0..P /\ ~(q <= q - 1) /\ q \in 1..P
    BY <1>4, <2>3, <2>4
  <2>6. Good(q - 1)
    BY <2>2, <2>5
  <2> QED
    BY <1>8, <2>3, <2>5, <2>6
<1>10. Good(P)
  BY <1>4, <1>9
<1>11. First(c, 2 * (P - P)) = {}
  <2>1. \A k \in 1..Len(c) : ~(k <= 2 * (P - P))
    BY <1>4
  <2> QED
    BY <2>1 DEF First
<1>12. /\ m.nodes \in [Ids -> Links] /\ (m.id = 0 <=> P = 0)
       /\ m.id # 0 => \E k \in 1..Len(c) : m.id = c[k]
       /\ Trees(m.nodes, T, Q \cup Root(m.id))
       /\ \A i \in Ids \ kids : m.nodes[i] = n[i]
  <2>1. (Q \cup First(c, 2 * (P - P))) \cup Root(m.id) = Q \cup Root(m.id)
    BY <1>11
  <2> HIDE DEF kids
  <2> QED
    BY <1>6, <1>10, <2>1 DEF Good
<1>13. P = 0 <=> c = << >>
  BY <1>2, <1>4
<1>14. \A k \in 1..Len(c) : c[k] \in S \ R
  BY <1>3 DEF Kids
<1>15. \A i \in Ids : (\A k \in 1..Len(c) : c[k] # i) => m.nodes[i] = n[i]
  <2>1. \A i \in Ids : (\A k \in 1..Len(c) : c[k] # i) => i \notin kids
    BY DEF Kids
  <2> QED
    BY <1>12, <2>1
<1> QED
  BY <1>12, <1>13, <1>14, <1>15 DEF TwoPassed
-----------------------------------------------------------------------------
(* ph_remove_any_head *)

\* The trees of nodes whose links are the same, but for the parents of roots.
LEMMA TreesSame ==
  ASSUME NEW n, NEW S, NEW R, Trees(n, S, R), NEW m,
         \A i \in S : m[i].child = n[i].child /\ m[i].sibling = n[i].sibling,
         \A i \in S \ R : m[i].parent = n[i].parent
  PROVE  Trees(m, S, R)
<1>1. S \subseteq Ids /\ Linkage(n, S, R) /\ Once(n, S, R)
  BY DEF Trees
<1>2. Linkage(m, S, R)
  <2>1. ASSUME NEW i \in S, m[i].sibling # 0
        PROVE  m[i].sibling \in S \ R /\ m[m[i].sibling].parent = m[i].parent
    <3>1. n[i].sibling # 0 /\ i \notin R
      BY <1>1, <2>1 DEF Linkage
    <3> QED
      BY <1>1, <3>1 DEF Linkage
  <2>2. \A i \in S : m[i].child # 0 => m[i].child \in S \ R /\ m[m[i].child].parent = i
    BY <1>1 DEF Linkage
  <2> QED
    BY <1>1, <2>1, <2>2 DEF Linkage
<1>3. Once(m, S, R)
  BY <1>1 DEF Once
<1>4. \E rank \in [Ids -> Nat] : Ranked(m, S, R, rank)
  BY DEF Trees, Ranked
<1> QED
  BY <1>1, <1>2, <1>3, <1>4 DEF Trees

\* The node of the highest rank is a root.
LEMMA NoRoots ==
  ASSUME NEW n, NEW S, Trees(n, S, {})
  PROVE  S = {}
<1>1. PICK rank \in [Ids -> Nat] : Ranked(n, S, {}, rank)
  BY DEF Trees
<1>2. PICK top \in Nat : \A i \in Ids : rank[i] <= top
  BY RankBound
<1>3. S \subseteq Ids /\ \A i \in S : n[i].parent \in S
  BY DEF Trees, Linkage
<1> DEFINE Depths == {top - rank[j] : j \in S}
<1> SUFFICES ASSUME S # {} PROVE FALSE
  OBVIOUS
<1>4. Depths \subseteq Nat /\ Depths # {}
  <2>1. ASSUME NEW j \in S PROVE top - rank[j] \in Nat
    <3>1. j \in Ids
      BY <1>3
    <3>2. rank[j] \in Nat /\ rank[j] <= top
      BY <1>2, <3>1
    <3> QED
      BY <3>2
  <2> QED
    BY <2>1
<1>5. PICK d \in Depths : \A e \in Depths : d <= e
  BY <1>4, Least
<1>6. PICK j \in S : d = top - rank[j]
  BY <1>5
<1>7. n[j].parent \in S /\ rank[j] < rank[n[j].parent]
  BY <1>1, <1>3, <1>6 DEF Ranked
<1>8. rank[j] \in Nat /\ rank[n[j].parent] \in Nat
  BY <1>3, <1>6, <1>7
<1>9. top - rank[j] <= top - rank[n[j].parent]
  BY <1>5, <1>6, <1>7
<1> QED
  BY <1>7, <1>8, <1>9

\* What ph_remove_any_head makes of the tree of the root id.
Headless(n, S, R, id, m) ==
  /\ m.nodes \in [Ids -> Links] /\ m.id \in NodeId
  /\ m.id # 0 => m.id \in S \ R /\ m.nodes[m.id].parent = 0
  /\ Trees(m.nodes, S \ {id}, (R \ {id}) \cup Root(m.id))
  /\ m.nodes[id].sibling = 0 /\ m.nodes[id].parent = n[id].parent
  /\ \A i \in Ids : i # id /\ (i \notin S \/ i \in R) => m.nodes[i] = n[i]

LEMMA RemoveAnyHeadTrees ==
  ASSUME NEW n \in [Ids -> Links], NEW S, NEW R, Trees(n, S, R), NEW id \in R
  PROVE  Headless(n, S, R, id, RemoveAnyHead(n, id))
<1> DEFINE c == Chain(n, n[id].child)
           merged == MergeTwoPass(n, n[id].child)
           g == merged.nodes
           orphan == IF merged.id = 0 THEN g ELSE [g EXCEPT ![merged.id].parent = 0]
           m == [orphan EXCEPT ![id].sibling = 0]
           T == S \ {id}
           Q == (R \ {id}) \cup Root(merged.id)
<1>1. S \subseteq Ids /\ R \subseteq S /\ id \in S /\ id \in Ids
  BY DEF Trees, Linkage
<1>2. TwoPassed(n, S, R, id, c, merged)
  BY TwoPassTrees
<1>3. RemoveAnyHead(n, id) = [nodes |-> m, id |-> merged.id]
  BY DEF RemoveAnyHead
<1> HIDE DEF merged, c
<1>4. /\ g \in [Ids -> Links] /\ (merged.id # 0 => merged.id \in S \ R)
      /\ Trees(g, T, Q)
      /\ \A i \in Ids : i \notin S \/ i \in R => g[i] = n[i]
  <2>1. \A i \in Ids : i \notin S \/ i \in R => \A k \in 1..Len(c) : c[k] # i
    BY <1>2 DEF TwoPassed
  <2> QED
    BY <1>2, <2>1 DEF TwoPassed
<1> HIDE DEF g
<1>5. merged.id \in NodeId /\ 0 \in NodeId
  BY <1>1, <1>4, HeapConstants
<1>6. /\ orphan \in [Ids -> Links]
      /\ \A i \in Ids : /\ orphan[i].child = g[i].child /\ orphan[i].sibling = g[i].sibling
                        /\ i # merged.id => orphan[i] = g[i]
      /\ merged.id # 0 => orphan[merged.id].parent = 0
  <2>1. CASE merged.id = 0
    BY <1>4, <2>1
  <2>2. CASE merged.id # 0
    <3>1. merged.id \in Ids
      BY <1>1, <1>4, <2>2
    <3>2. orphan = [g EXCEPT ![merged.id].parent = 0]
      BY <2>2
    <3> HIDE DEF orphan
    <3> QED
      BY <1>4, <1>5, <3>1, <3>2 DEF Links
  <2> QED
    BY <2>1, <2>2
<1> HIDE DEF orphan
<1>7. /\ m \in [Ids -> Links]
      /\ \A i \in Ids \ {id} : m[i] = orphan[i]
      /\ m[id].sibling = 0 /\ m[id].parent = orphan[id].parent
  BY <1>1, <1>5, <1>6 DEF Links
<1> HIDE DEF m
<1>8. merged.id # id
  BY <1>1, <1>4, HeapConstants
<1>9. Trees(m, T, Q)
  <2>1. \A i \in T : i \in Ids /\ i # id
    BY <1>1
  <2>2. \A i \in T : m[i].child = g[i].child /\ m[i].sibling = g[i].sibling
    BY <1>6, <1>7, <2>1
  <2>3. \A i \in T \ Q : m[i].parent = g[i].parent
    BY <1>1, <1>4, <1>6, <1>7, <2>1, HeapConstants DEF Root
  <2> HIDE DEF T, Q
  <2> QED
    BY <1>4, <2>2, <2>3, TreesSame
<1>10. m[id].parent = n[id].parent
  BY <1>1, <1>4, <1>6, <1>7, <1>8
<1>11. merged.id # 0 => m[merged.id].parent = 0
  BY <1>1, <1>4, <1>6, <1>7, <1>8
<1>12. \A i \in Ids : i # id /\ (i \notin S \/ i \in R) => m[i] = n[i]
  BY <1>4, <1>6, <1>7, HeapConstants
<1>13. RemoveAnyHead(n, id).nodes = m /\ RemoveAnyHead(n, id).id = merged.id
  BY <1>3
<1> QED
  BY <1>4, <1>5, <1>7, <1>9, <1>10, <1>11, <1>12, <1>13 DEF Headless
-----------------------------------------------------------------------------
(* The unlinking of ph_remove_and_free_node *)

\* The link to id leads to its sibling, and id has no parent.
Bridged(S, id, m) ==
  /\ m \in [Ids -> Links] /\ \A i \in Ids \ S : m[i] = node[i]
  /\ \A i \in S :
       /\ m[i].child = IF node[i].child = id THEN node[id].sibling ELSE node[i].child
       /\ m[i].sibling = IF i = id THEN 0
                         ELSE IF node[i].sibling = id THEN node[id].sibling ELSE node[i].sibling
       /\ m[i].parent = IF i = id THEN 0 ELSE node[i].parent

LEMMA OrphanIs ==
  ASSUME NEW n \in [Ids -> Links], NEW id \in Ids, 0 \in NodeId
  PROVE  LET m == [n EXCEPT ![id].sibling = 0, ![id].parent = 0] IN
         /\ m \in [Ids -> Links] /\ \A i \in Ids \ {id} : m[i] = n[i]
         /\ m[id].child = n[id].child /\ m[id].sibling = 0 /\ m[id].parent = 0
<1> DEFINE m == [n EXCEPT ![id].sibling = 0, ![id].parent = 0]
           new == [n[id] EXCEPT !.sibling = 0, !.parent = 0]
<1>1. n[id] \in Links
  OBVIOUS
<1>2. new \in Links /\ new.child = n[id].child /\ new.sibling = 0 /\ new.parent = 0
  BY <1>1 DEF Links
<1>3. m = [n EXCEPT ![id] = new]
  OBVIOUS
<1> HIDE DEF m, new
<1>4. m \in [Ids -> Links] /\ m[id] = new /\ \A i \in Ids \ {id} : m[i] = n[i]
  BY <1>2, <1>3
<1> QED
  BY <1>2, <1>4 DEF m

LEMMA UnlinkedIs ==
  ASSUME node \in [Ids -> Links], NEW S, NEW R, Trees(node, S, R), NEW id \in S \ R
  PROVE  Bridged(S, id, Unlinked(id))
<1> DEFINE p == node[id].parent
           after == node[id].sibling
           c == Chain(node, node[p].child)
           prev == CHOOSE i \in Linked(node, node[p].child) : node[i].sibling = id
           bridged == IF node[p].child = id THEN [node EXCEPT ![p].child = after]
                      ELSE [node EXCEPT ![prev].sibling = after]
           m == [bridged EXCEPT ![id].sibling = 0, ![id].parent = 0]
<1>1. S \subseteq Ids /\ id \in Ids /\ id # 0 /\ Linkage(node, S, R) /\ Once(node, S, R)
  BY HeapConstants DEF Trees
<1>2. p \in S /\ p \in Ids /\ after \in NodeId /\ 0 \in NodeId
  BY <1>1, LinksType, HeapConstants DEF Linkage
<1>3. p # id /\ after # id
  <2>1. PICK rank \in [Ids -> Nat] : Ranked(node, S, R, rank)
    BY DEF Trees
  <2>2. rank[id] < rank[p] /\ rank[id] \in Nat
    BY <1>1, <2>1 DEF Ranked
  <2>3. after # 0 => rank[after] < rank[id]
    BY <2>1 DEF Ranked
  <2> QED
    BY <1>1, <2>2, <2>3
<1>4. Unlinked(id) = m
  BY DEF Unlinked
<1>5. CASE node[p].child = id
  <2>1. \A i \in S : node[i].child = id => i = p
    BY <1>1, <1>2, <1>5 DEF Once
  <2>2. \A i \in S : node[i].sibling # id
    BY <1>1, <1>2, <1>5 DEF Once
  <2>3. bridged = [node EXCEPT ![p].child = after]
    BY <1>5
  <2> HIDE DEF bridged, p, after
  <2>4. /\ bridged \in [Ids -> Links]
        /\ \A i \in Ids : bridged[i] = IF i = p THEN [node[i] EXCEPT !.child = after] ELSE node[i]
    BY <1>2, <2>3 DEF Links
  <2>5. \A i \in Ids : /\ bridged[i].child = IF i = p THEN after ELSE node[i].child
                       /\ bridged[i].sibling = node[i].sibling
                       /\ bridged[i].parent = node[i].parent
    BY <2>4 DEF Links
  <2>6. /\ m \in [Ids -> Links]
        /\ \A i \in Ids \ {id} : m[i] = bridged[i]
        /\ m[id].child = bridged[id].child /\ m[id].sibling = 0 /\ m[id].parent = 0
    BY <1>1, <1>2, <2>4, OrphanIs
  <2> HIDE DEF m, bridged
  <2>7. \A i \in Ids \ S : m[i] = node[i]
    BY <1>2, <2>4, <2>6
  <2>8. ASSUME NEW i \in S
        PROVE  /\ m[i].child = IF node[i].child = id THEN after ELSE node[i].child
               /\ m[i].sibling = IF i = id THEN 0
                                 ELSE IF node[i].sibling = id THEN after ELSE node[i].sibling
               /\ m[i].parent = IF i = id THEN 0 ELSE node[i].parent
    BY <1>1, <1>2, <1>5, <2>1, <2>2, <2>5, <2>6 DEF p
  <2> QED
    BY <1>4, <2>6, <2>7, <2>8 DEF Bridged, after
<1>6. CASE node[p].child # id
  <2>1. \A i \in S : node[i].child # id
    BY <1>1, <1>6 DEF Linkage
  <2>2. PICK s \in S : node[s].sibling = id
    BY <1>1, <2>1 DEF Once
  <2>3. \A i \in S : node[i].sibling = id => i = s
    BY <1>1, <2>2 DEF Once
  <2>4. s \notin R /\ node[s].parent = p /\ s \in Ids
    BY <1>1, <2>2 DEF Linkage
  <2>5. prev = s
    <3>1. /\ \A k \in 1..Len(c) : c[k] \in S \ R
          /\ \E k \in 1..Len(c) : c[k] = s
      BY <1>2, <2>2, <2>4, Children
    <3>2. Linked(node, node[p].child) = {c[k] : k \in 1..Len(c)}
      BY DEF Linked
    <3> HIDE DEF p, c
    <3>3. s \in Linked(node, node[p].child) /\ Linked(node, node[p].child) \subseteq S
      BY <3>1, <3>2
    <3> QED
      BY <2>2, <2>3, <3>3
  <2>6. s # id
    BY <1>3, <2>2
  <2>7. bridged = [node EXCEPT ![s].sibling = after]
    BY <1>6, <2>5
  <2> HIDE DEF bridged, p, after, prev, c
  <2>8. /\ bridged \in [Ids -> Links]
        /\ \A i \in Ids : bridged[i] = IF i = s THEN [node[i] EXCEPT !.sibling = after] ELSE node[i]
    BY <1>2, <2>4, <2>7 DEF Links
  <2>9. \A i \in Ids : /\ bridged[i].child = node[i].child
                       /\ bridged[i].sibling = IF i = s THEN after ELSE node[i].sibling
                       /\ bridged[i].parent = node[i].parent
    BY <2>8 DEF Links
  <2>10. /\ m \in [Ids -> Links]
         /\ \A i \in Ids \ {id} : m[i] = bridged[i]
         /\ m[id].child = bridged[id].child /\ m[id].sibling = 0 /\ m[id].parent = 0
    BY <1>1, <1>2, <2>8, OrphanIs
  <2> HIDE DEF m, bridged
  <2>11. \A i \in Ids \ S : m[i] = node[i]
    BY <2>2, <2>8, <2>10
  <2>12. ASSUME NEW i \in S
         PROVE  /\ m[i].child = IF node[i].child = id THEN after ELSE node[i].child
                /\ m[i].sibling = IF i = id THEN 0
                                  ELSE IF node[i].sibling = id THEN after ELSE node[i].sibling
                /\ m[i].parent = IF i = id THEN 0 ELSE node[i].parent
    BY <1>1, <2>1, <2>2, <2>3, <2>9, <2>10
  <2> QED
    BY <1>4, <2>10, <2>11, <2>12 DEF Bridged, after
<1> QED
  BY <1>5, <1>6

LEMMA UnlinkedTrees ==
  ASSUME node \in [Ids -> Links], NEW S, NEW R, Trees(node, S, R), NEW id \in S \ R,
         NEW m, Bridged(S, id, m)
  PROVE  Trees(m, S, R \cup {id})
<1> DEFINE Q == R \cup {id}
           after == node[id].sibling
<1>1. S \subseteq Ids /\ id \in S /\ id # 0 /\ Linkage(node, S, R) /\ Once(node, S, R)
  BY HeapConstants DEF Trees
<1>2. \A i \in S :
        /\ m[i].child = IF node[i].child = id THEN after ELSE node[i].child
        /\ m[i].sibling = IF i = id THEN 0
                          ELSE IF node[i].sibling = id THEN after ELSE node[i].sibling
        /\ m[i].parent = IF i = id THEN 0 ELSE node[i].parent
  BY DEF Bridged
<1>3. PICK rank \in [Ids -> Nat] : Ranked(node, S, R, rank)
  BY DEF Trees
<1>4. /\ after # 0 => after \in S \ R /\ node[after].parent = node[id].parent /\ after # id
      /\ after # 0 => rank[after] < rank[id]
  <2>1. after # 0 => rank[after] < rank[id] /\ rank[id] \in Nat
    BY <1>1, <1>3 DEF Ranked
  <2> QED
    BY <1>1, <2>1 DEF Linkage
<1> HIDE DEF after
<1>5. Linkage(m, S, Q)
  <2>1. Q \subseteq S /\ \A i \in Q : m[i].sibling = 0
    BY <1>1, <1>2 DEF Linkage
  <2>2. ASSUME NEW i \in S, m[i].child # 0 PROVE m[i].child \in S \ Q /\ m[m[i].child].parent = i
    <3>1. CASE node[i].child = id
      <4>1. node[id].parent = i /\ m[i].child = after /\ after # 0
        BY <1>1, <1>2, <2>2, <3>1 DEF Linkage
      <4> QED
        BY <1>2, <1>4, <4>1
    <3>2. CASE node[i].child # id
      BY <1>1, <1>2, <2>2, <3>2 DEF Linkage
    <3> QED
      BY <3>1, <3>2
  <2>3. ASSUME NEW i \in S, m[i].sibling # 0
        PROVE  m[i].sibling \in S \ Q /\ m[m[i].sibling].parent = m[i].parent
    <3>1. i # id
      BY <1>2, <2>3
    <3>2. CASE node[i].sibling = id
      <4>1. node[id].parent = node[i].parent /\ m[i].sibling = after /\ after # 0
        BY <1>1, <1>2, <2>3, <3>1, <3>2 DEF Linkage
      <4> QED
        BY <1>2, <1>4, <3>1, <4>1
    <3>3. CASE node[i].sibling # id
      BY <1>1, <1>2, <2>3, <3>1, <3>3 DEF Linkage
    <3> QED
      BY <3>2, <3>3
  <2>4. \A i \in S \ Q : m[i].parent \in S /\ ~Before(i, m[i].parent)
    BY <1>1, <1>2 DEF Linkage
  <2> QED
    BY <2>1, <2>2, <2>3, <2>4 DEF Linkage
<1>6. Once(m, S, Q)
  <2>1. ASSUME NEW j \in S \ Q PROVE \E i \in S : m[i].child = j \/ m[i].sibling = j
    <3>1. PICK i \in S : node[i].child = j \/ node[i].sibling = j
      BY <1>1 DEF Once
    <3>2. CASE i # id \/ node[i].child = j
      BY <1>1, <1>2, <3>1, <3>2
    <3>3. CASE i = id /\ node[i].child # j
      <4>1. after = j /\ j # 0
        BY <1>1, <3>1, <3>3, HeapConstants DEF after
      <4>2. PICK k \in S : node[k].child = id \/ node[k].sibling = id
        BY <1>1 DEF Once
      <4>3. k # id
        <5>1. node[id].sibling # id
          BY <1>4, <4>1 DEF after
        <5>2. node[id].child # id
          <6>1. node[id].child # 0 => rank[node[id].child] < rank[id] /\ rank[id] \in Nat
            BY <1>1, <1>3 DEF Ranked
          <6> QED
            BY <1>1, <6>1
        <5> QED
          BY <4>2, <5>1, <5>2
      <4> QED
        BY <1>2, <4>1, <4>2, <4>3
    <3> QED
      BY <3>2, <3>3
  <2>2. \A i \in S : node[i].child # 0 /\ node[i].child = after => FALSE
    BY <1>1, <1>4 DEF Once, after
  <2>3. \A i \in S : node[i].sibling # 0 /\ node[i].sibling = after => i = id
    BY <1>1, <1>4 DEF Once, after
  <2>4. ASSUME NEW i \in S, NEW k \in S, m[i].child # 0, m[i].child = m[k].child PROVE i = k
    BY <1>1, <1>2, <2>2, <2>4 DEF Once
  <2>5. ASSUME NEW i \in S, NEW k \in S, m[i].sibling # 0, m[i].sibling = m[k].sibling PROVE i = k
    BY <1>1, <1>2, <2>3, <2>5 DEF Once
  <2>6. ASSUME NEW i \in S, NEW k \in S, m[i].child # 0, m[i].child = m[k].sibling PROVE FALSE
    BY <1>1, <1>2, <2>2, <2>3, <2>6 DEF Once
  <2> QED
    BY <2>1, <2>4, <2>5, <2>6 DEF Once
<1>7. Ranked(m, S, Q, rank)
  <2>1. ASSUME NEW i \in S, m[i].child # 0 PROVE rank[m[i].child] < rank[i]
    <3>1. CASE node[i].child = id
      <4>1. m[i].child = after /\ after # 0 /\ rank[id] < rank[i]
        BY <1>1, <1>2, <1>3, <2>1, <3>1 DEF Ranked
      <4>2. rank[id] \in Nat /\ rank[i] \in Nat /\ rank[after] \in Nat
        BY <1>1, <1>4, <4>1
      <4> QED
        BY <1>4, <4>1, <4>2
    <3>2. CASE node[i].child # id
      BY <1>2, <1>3, <2>1, <3>2 DEF Ranked
    <3> QED
      BY <3>1, <3>2
  <2>2. ASSUME NEW i \in S, m[i].sibling # 0 PROVE rank[m[i].sibling] < rank[i]
    <3>1. i # id
      BY <1>2, <2>2
    <3>2. CASE node[i].sibling = id
      <4>1. m[i].sibling = after /\ after # 0 /\ rank[id] < rank[i]
        BY <1>1, <1>2, <1>3, <2>2, <3>1, <3>2 DEF Ranked
      <4>2. rank[id] \in Nat /\ rank[i] \in Nat /\ rank[after] \in Nat
        BY <1>1, <1>4, <4>1
      <4> QED
        BY <1>4, <4>1, <4>2
    <3>3. CASE node[i].sibling # id
      BY <1>2, <1>3, <2>2, <3>1, <3>3 DEF Ranked
    <3> QED
      BY <3>2, <3>3
  <2>3. \A i \in S \ Q : rank[i] < rank[m[i].parent]
    BY <1>1, <1>2, <1>3 DEF Ranked
  <2> QED
    BY <2>1, <2>2, <2>3 DEF Ranked
<1> QED
  BY <1>1, <1>5, <1>6, <1>7 DEF Trees
-----------------------------------------------------------------------------
(* The queue of free ids *)

\* f are the free ids between head h and tail t, none of them in U.  A queue
\* that has run empty has no head again.
FreeAre(n, h, t, U, f) ==
  /\ Listed(n, h, f) /\ \A k \in 1..Len(f) : f[k] \notin U
  /\ IF f = << >> THEN t \notin U ELSE t = f[Len(f)]

LEMMA FreeIsChain ==
  ASSUME NEW n \in [Ids -> Links], NEW h \in NodeId, NEW t, NEW U, NEW f,
         FreeAre(n, h, t, U, f)
  PROVE  Chain(n, h) = f
  BY ChainIs DEF FreeAre

LEMMA FreeSame ==
  ASSUME NEW n, NEW h, NEW t, NEW U, NEW f, FreeAre(n, h, t, U, f),
         NEW m, NEW V, V \subseteq U, \A i \in Ids \ U : m[i].sibling = n[i].sibling
  PROVE  FreeAre(m, h, t, V, f)
<1>1. Listed(n, h, f) /\ f \in Seq(Ids) /\ Len(f) \in Nat
  BY DEF FreeAre, Listed
<1>2. \A k \in 1..Len(f) : f[k] \in Ids \ U /\ m[f[k]].sibling = n[f[k]].sibling
  BY <1>1 DEF FreeAre
<1>3. f # << >> => Len(f) \in 1..Len(f)
  BY <1>1
<1>4. Listed(m, h, f)
  BY <1>1, <1>2, <1>3 DEF Listed
<1> QED
  BY <1>2, <1>4 DEF FreeAre

\* The rest of the queue, when its head has been taken.
LEMMA FreeRest ==
  ASSUME NEW n \in [Ids -> Links], NEW h \in Ids, NEW t, NEW U, NEW f, FreeAre(n, h, t, U, f),
         0 \notin U, NEW m, \A i \in Ids \ {h} : m[i] = n[i]
  PROVE  /\ h \notin U
         /\ f # << >>
         /\ FreeAre(m, n[h].sibling, IF n[h].sibling = 0 THEN 0 ELSE t, U \cup {h}, Tail(f))
<1> DEFINE g == Tail(f)
           next == n[h].sibling
           tail == IF next = 0 THEN 0 ELSE t
<1>1. f # << >> /\ f = << h >> \o g /\ Listed(n, next, g) /\ Len(g) = Len(f) - 1
  BY ListedRest DEF FreeAre
<1>2. /\ f \in Seq(Ids) /\ g \in Seq(Ids) /\ Len(f) \in Nat /\ Len(f) > 0 /\ f[1] = h
      /\ \A k \in 1..Len(g) : k + 1 \in 1..Len(f) /\ g[k] = f[k + 1] /\ k + 1 # 1
  <2>1. f \in Seq(Ids) /\ f[1] = h
    BY <1>1 DEF FreeAre, Listed
  <2> QED
    BY <1>1, <2>1
<1> HIDE DEF g, next
<1>3. 1 \in 1..Len(f) /\ h \notin U
  BY <1>2 DEF FreeAre
<1>4. \A k \in 1..Len(g) : g[k] \in Ids \ (U \cup {h})
  <2>1. ASSUME NEW k \in 1..Len(g) PROVE g[k] \in Ids \ (U \cup {h})
    <3>1. f[k + 1] # f[1]
      BY <1>2, <1>3 DEF FreeAre, Listed
    <3> QED
      BY <1>2, <3>1 DEF FreeAre
  <2> QED
    BY <2>1
<1>5. g # << >> => Len(g) \in 1..Len(g)
  BY <1>2
<1>6. Listed(m, next, g)
  <2>1. \A k \in 1..Len(g) : m[g[k]].sibling = n[g[k]].sibling
    BY <1>4
  <2> QED
    BY <1>1, <1>5, <2>1 DEF Listed
<1>7. IF g = << >> THEN tail \notin U \cup {h} ELSE tail = g[Len(g)]
  <2>1. g = << >> <=> next = 0
    BY <1>1 DEF Listed
  <2>2. CASE g = << >>
    <3>1. tail = 0 /\ h # 0
      BY <2>1, <2>2, HeapConstants
    <3> QED
      BY <2>2, <3>1
  <2>3. CASE g # << >>
    <3>1. tail = t /\ t = f[Len(f)]
      BY <1>1, <2>1, <2>3 DEF FreeAre
    <3>2. Len(g) \in 1..Len(g) /\ g[Len(g)] = f[Len(f)]
      BY <1>1, <1>2, <1>5, <2>3
    <3> QED
      BY <2>3, <3>1, <3>2
  <2> QED
    BY <2>2, <2>3
<1> QED
  BY <1>1, <1>3, <1>4, <1>6, <1>7 DEF FreeAre, g, next

\* What the freeing of id makes of the free ids f and of the nodes n.
Queued(f, id) == IF f = << >> THEN << >> ELSE Append(f, id)

Freed(n, id, U, f) ==
  /\ node' \in [Ids -> Links] /\ free_tail_id' = id /\ free_head_id' = free_head_id
  /\ \A i \in Ids : node'[i].child = n[i].child /\ node'[i].parent = n[i].parent
  /\ \A i \in Ids : i \in U => node'[i] = n[i]
  /\ FreeAre(node', free_head_id', free_tail_id', U \ {id}, Queued(f, id))

LEMMA FreeIs ==
  ASSUME NEW n \in [Ids -> Links], NEW id \in Ids, NEW U, NEW f, id \in U,
         free_tail_id \in NodeId, FreeAre(n, free_head_id, free_tail_id, U, f),
         n[id].sibling = 0, Free(n, id)
  PROVE  Freed(n, id, U, f)
<1> DEFINE t == free_tail_id
           h == free_head_id
<1>1. /\ free_tail_id' = id /\ free_head_id' = h
      /\ node' = IF t = 0 THEN n ELSE [n EXCEPT ![t].sibling = id]
  BY DEF Free
<1>2. Listed(n, h, f) /\ f \in Seq(Ids) /\ Len(f) \in Nat
  BY DEF FreeAre, Listed
<1>3. id \in NodeId /\ id # 0 /\ 0 \notin Ids /\ (t # 0 => t \in Ids)
  BY HeapConstants
<1>4. /\ node' \in [Ids -> Links]
      /\ \A i \in Ids : /\ node'[i].child = n[i].child /\ node'[i].parent = n[i].parent
                        /\ node'[i].sibling = IF i = t THEN id ELSE n[i].sibling
                        /\ i # t => node'[i] = n[i]
  <2>1. CASE t = 0
    BY <1>1, <1>3, <2>1
  <2>2. CASE t # 0
    BY <1>1, <1>3, <2>2 DEF Links
  <2> QED
    BY <2>1, <2>2
<1>5. CASE f = << >>
  <2>1. Listed(node', h, << >>) /\ t \notin U /\ Queued(f, id) = << >>
    BY <1>2, <1>5 DEF Listed, FreeAre, Queued
  <2>2. FreeAre(node', h, id, U \ {id}, << >>)
    BY <2>1 DEF FreeAre
  <2> QED
    BY <1>1, <1>4, <2>1, <2>2 DEF Freed
<1>6. CASE f # << >>
  <2> DEFINE g == Append(f, id)
  <2>1. t = f[Len(f)] /\ Len(f) > 0 /\ Len(f) \in 1..Len(f) /\ 1 \in 1..Len(f)
    BY <1>2, <1>6 DEF FreeAre
  <2>2. \A k \in 1..Len(f) : f[k] \in Ids /\ f[k] \notin U /\ f[k] # id
    BY <1>2 DEF FreeAre
  <2>3. t \notin U
    BY <2>1, <2>2
  <2>4. /\ g \in Seq(Ids) /\ g # << >> /\ Len(g) = Len(f) + 1 /\ g[Len(f) + 1] = id
        /\ \A k \in 1..Len(f) : g[k] = f[k]
    BY <1>2
  <2> HIDE DEF g
  <2>5. g[1] = h /\ h # 0
    BY <1>2, <1>6, <2>1, <2>4 DEF Listed
  <2>6. node'[id].sibling = 0
    BY <1>4, <2>3
  <2>7. ASSUME NEW k \in 1..Len(g), k < Len(g) PROVE g[k + 1] = node'[g[k]].sibling
    <3>1. k \in 1..Len(f) /\ g[k] = f[k] /\ f[k] \in Ids
      BY <1>2, <2>2, <2>4, <2>7
    <3>2. CASE k = Len(f)
      BY <1>4, <2>1, <2>4, <3>1, <3>2
    <3>3. CASE k # Len(f)
      <4>1. k < Len(f) /\ k + 1 \in 1..Len(f)
        BY <1>2, <3>1, <3>3
      <4>2. f[k] # t /\ f[k + 1] = n[f[k]].sibling
        BY <1>2, <2>1, <3>1, <3>3, <4>1 DEF Listed
      <4> QED
        BY <1>4, <2>4, <3>1, <4>1, <4>2
    <3> QED
      BY <3>2, <3>3
  <2>8. \A k \in 1..Len(g) : (k \in 1..Len(f) /\ g[k] = f[k]) \/ (k = Len(f) + 1 /\ g[k] = id)
    <3>1. \A k \in 1..Len(g) : k \in 1..Len(f) \/ k = Len(f) + 1
      BY <1>2, <2>4
    <3> QED
      BY <2>4, <3>1
  <2>9. \A j, k \in 1..Len(g) : g[j] = g[k] => j = k
    BY <1>2, <2>2, <2>8 DEF Listed
  <2>10. Listed(node', h, g)
    BY <2>4, <2>5, <2>6, <2>7, <2>9 DEF Listed
  <2>11. \A k \in 1..Len(g) : g[k] \notin U \ {id}
    BY <2>2, <2>8
  <2>12. FreeAre(node', h, id, U \ {id}, g)
    BY <2>4, <2>10, <2>11 DEF FreeAre
  <2>13. Queued(f, id) = g
    BY <1>6 DEF Queued, g
  <2> QED
    BY <1>1, <1>4, <2>3, <2>12, <2>13 DEF Freed
<1> QED
  BY <1>5, <1>6
-----------------------------------------------------------------------------
(* The invariant *)

FreeIds == Chain(node, free_head_id)

\* Only a stale id that is not the heap's has a parent; an allocated id, as
\* one that has left the heap, ends the list it will be appended to.
HeapInv ==
  /\ HeapTypeOK
  /\ Trees(node, in, Root(root_id))
  /\ root_id # 0 => node[root_id].parent = 0
  /\ in \cap out = {} /\ stale \cap (in \cup out) = {}
  /\ \A i \in out : node[i].sibling = 0
  /\ \A i \in Ids \ (in \cup stale) : node[i].parent = 0
  /\ FreeAre(node, free_head_id, free_tail_id, in \cup out, FreeIds)

LEMMA FreeIdsAre ==
  ASSUME HeapTypeOK, NEW f, NEW U, FreeAre(node, free_head_id, free_tail_id, U, f)
  PROVE  FreeIds = f
  BY FreeIsChain DEF FreeIds, HeapTypeOK

\* The nodes that ph_clear leaves: no trees, and every id free.
LEMMA ClearedIs ==
  ASSUME NEW n \in [Ids -> Links], NEW m, m = Cleared(n)
  PROVE  /\ m \in [Ids -> Links] /\ Trees(m, {}, {})
         /\ \A i \in Ids : m[i].parent = n[i].parent
         /\ 1 \in NodeId /\ max_nodes \in NodeId /\ 0 \in NodeId
         /\ [k \in Ids |-> k] \in [1..max_nodes -> Ids]
         /\ FreeAre(m, 1, max_nodes, {}, [k \in Ids |-> k])
<1>1. max_nodes \in Nat /\ max_nodes > 0 /\ Ids = 1..max_nodes /\ 1 \in Ids /\ max_nodes \in Ids
  BY HeapConstants DEF Ids
<1>2. \A i \in Ids : i + 1 \in Nat /\ (i # max_nodes => i + 1 \in Ids)
  BY <1>1
<1>3. \A i \in Ids : (IF i = max_nodes THEN 0 ELSE i + 1) \in NodeId
  BY <1>2, HeapConstants
<1>4. /\ m \in [Ids -> Links]
      /\ \A i \in Ids : /\ m[i].parent = n[i].parent
                        /\ m[i].sibling = IF i = max_nodes THEN 0 ELSE i + 1
  <2>1. \A i \in Ids : m[i] = [n[i] EXCEPT !.sibling = IF i = max_nodes THEN 0 ELSE i + 1]
    BY DEF Cleared
  <2>2. ASSUME NEW i \in Ids, NEW s \in NodeId
        PROVE  /\ [n[i] EXCEPT !.sibling = s] \in Links
               /\ [n[i] EXCEPT !.sibling = s].parent = n[i].parent
               /\ [n[i] EXCEPT !.sibling = s].sibling = s
    BY DEF Links
  <2>3. \A i \in Ids : /\ m[i] \in Links /\ m[i].parent = n[i].parent
                       /\ m[i].sibling = IF i = max_nodes THEN 0 ELSE i + 1
    <3>1. ASSUME NEW i \in Ids
          PROVE  /\ m[i] \in Links /\ m[i].parent = n[i].parent
                 /\ m[i].sibling = IF i = max_nodes THEN 0 ELSE i + 1
      <4> DEFINE s == IF i = max_nodes THEN 0 ELSE i + 1
      <4>1. s \in NodeId
        BY <1>3
      <4>2. m[i] = [n[i] EXCEPT !.sibling = s]
        BY <2>1
      <4> HIDE DEF s
      <4>3. m[i] \in Links /\ m[i].parent = n[i].parent /\ m[i].sibling = s
        BY <2>2, <4>1, <4>2
      <4> QED
        BY <4>3 DEF s
    <3> QED
      BY <3>1
  <2>4. m = [i \in Ids |-> m[i]]
    BY DEF Cleared
  <2> QED
    BY <2>3, <2>4
<1>5. Trees(m, {}, {})
  <2>1. [i \in Ids |-> 0] \in [Ids -> Nat] /\ Ranked(m, {}, {}, [i \in Ids |-> 0])
    BY DEF Ranked
  <2> QED
    BY <2>1 DEF Trees, Linkage, Once
<1> DEFINE f == [k \in Ids |-> k]
<1>6. /\ f \in Seq(Ids) /\ Len(f) = max_nodes /\ f # << >>
      /\ \A k \in Ids : f[k] = k
  <2>1. f \in [1..max_nodes -> Ids]
    BY <1>1
  <2>2. f \in Seq(Ids) /\ Len(f) = max_nodes
    BY <1>1, <2>1
  <2> QED
    BY <1>1, <2>2
<1>7. f \in [1..max_nodes -> Ids]
  BY <1>1
<1> HIDE DEF f
<1>8. Listed(m, 1, f)
  <2>1. f[1] = 1 /\ f[Len(f)] = max_nodes /\ m[max_nodes].sibling = 0
    BY <1>1, <1>4, <1>6
  <2>2. \A k \in 1..Len(f) : k < Len(f) => f[k + 1] = m[f[k]].sibling
    BY <1>1, <1>2, <1>4, <1>6
  <2>3. \A j, k \in 1..Len(f) : f[j] = f[k] => j = k
    BY <1>1, <1>6
  <2> QED
    BY <1>6, <2>1, <2>2, <2>3 DEF Listed
<1>9. FreeAre(m, 1, max_nodes, {}, f)
  BY <1>1, <1>6, <1>8 DEF FreeAre
<1> QED
  BY <1>1, <1>4, <1>5, <1>7, <1>9, HeapConstants DEF f

LEMMA HeapInvInit == HeapInit => HeapInv
<1> SUFFICES ASSUME HeapInit PROVE HeapInv
  OBVIOUS
<1> DEFINE n == [i \in Ids |-> NoLinks]
<1>1. /\ node = Cleared(n) /\ root_id = 0 /\ free_head_id = 1 /\ free_tail_id = max_nodes
      /\ out = {} /\ in = {} /\ stale = {}
  BY DEF HeapInit
<1>2. NoLinks \in Links /\ NoLinks.parent = 0
  BY HeapConstants DEF NoLinks, Links
<1>3. n \in [Ids -> Links] /\ \A i \in Ids : n[i].parent = 0
  BY <1>2
<1> HIDE DEF n
<1>4. /\ node \in [Ids -> Links] /\ Trees(node, {}, {}) /\ \A i \in Ids : node[i].parent = 0
      /\ FreeAre(node, 1, max_nodes, {}, [k \in Ids |-> k])
      /\ 1 \in NodeId /\ max_nodes \in NodeId /\ 0 \in NodeId
  BY <1>1, <1>3, ClearedIs
<1>5. HeapTypeOK
  BY <1>1, <1>4 DEF HeapTypeOK
<1>6. FreeAre(node, free_head_id, free_tail_id, in \cup out, FreeIds)
  <2>1. FreeAre(node, free_head_id, free_tail_id, in \cup out, [k \in Ids |-> k])
    BY <1>1, <1>4
  <2> QED
    BY <1>5, <2>1, FreeIdsAre
<1> QED
  BY <1>1, <1>4, <1>5, <1>6 DEF HeapInv, Root

\* Every call, from an invariant state: the invariant after it, and the free
\* ids after it.
After(f) == HeapInv' /\ FreeIds' = f

LEMMA AfterIs ==
  ASSUME HeapTypeOK', NEW f,
         FreeAre(node', free_head_id', free_tail_id', (in \cup out)', f),
         Trees(node', in', Root(root_id')), root_id' # 0 => node'[root_id'].parent = 0,
         in' \cap out' = {}, stale' \cap (in' \cup out') = {},
         \A i \in out' : node'[i].sibling = 0,
         \A i \in Ids \ (in' \cup stale') : node'[i].parent = 0
  PROVE  After(f)
<1>1. Chain(node', free_head_id') = f
  <2>1. node' \in [Ids -> Links] /\ free_head_id' \in NodeId
    BY DEF HeapTypeOK
  <2> QED
    BY <2>1, FreeIsChain
<1> QED
  BY <1>1 DEF After, HeapInv, FreeIds

\* ph_new_node.
LEMMA NewNodeInv ==
  ASSUME HeapInv, NewNode
  PROVE  After(Tail(FreeIds)) /\ FreeIds # << >>
<1> DEFINE id == free_head_id
           next == node[id].sibling
<1>1. /\ id # 0 /\ free_head_id' = next /\ free_tail_id' = (IF next = 0 THEN 0 ELSE free_tail_id)
      /\ node' = [node EXCEPT ![id] = NoLinks]
      /\ out' = out \cup {id} /\ stale' = stale \ {id} /\ root_id' = root_id /\ in' = in
  BY DEF NewNode
<1>2. HeapTypeOK /\ Trees(node, in, Root(root_id)) /\ id \in Ids /\ 0 \notin in \cup out
  BY <1>1, HeapConstants DEF HeapInv, HeapTypeOK
<1>3. NoLinks \in Links /\ NoLinks.parent = 0 /\ NoLinks.sibling = 0
  BY HeapConstants DEF NoLinks, Links
<1>4. /\ node' \in [Ids -> Links] /\ node'[id] = NoLinks
      /\ \A i \in Ids \ {id} : node'[i] = node[i]
  BY <1>1, <1>2, <1>3 DEF HeapTypeOK
<1>5. /\ id \notin in \cup out /\ FreeIds # << >>
      /\ FreeAre(node', next, IF next = 0 THEN 0 ELSE free_tail_id, (in \cup out) \cup {id}, Tail(FreeIds))
  BY <1>2, <1>4, FreeRest DEF HeapInv, HeapTypeOK
<1>6. HeapTypeOK'
  <2>1. next \in NodeId /\ 0 \in NodeId
    BY <1>2, LinksType, HeapConstants DEF HeapTypeOK
  <2> QED
    BY <1>1, <1>2, <1>4, <2>1 DEF HeapTypeOK
<1>7. Trees(node', in', Root(root_id'))
  <2>1. \A i \in in : i \in Ids /\ i # id
    BY <1>2, <1>5 DEF HeapTypeOK
  <2>2. \A i \in in : node'[i] = node[i]
    BY <1>4, <2>1
  <2> QED
    BY <1>1, <1>2, <2>2, TreesSame
<1>8. root_id' # 0 => node'[root_id'].parent = 0
  <2>1. root_id # 0 => root_id \in in /\ root_id \in Ids
    BY <1>2 DEF Trees, Linkage, Root
  <2> QED
    BY <1>1, <1>4, <1>5, <2>1 DEF HeapInv
<1>9. in' \cap out' = {} /\ stale' \cap (in' \cup out') = {}
  BY <1>1, <1>5 DEF HeapInv
<1>10. \A i \in out' : node'[i].sibling = 0
  BY <1>1, <1>2, <1>3, <1>4 DEF HeapInv, HeapTypeOK
<1>11. \A i \in Ids \ (in' \cup stale') : node'[i].parent = 0
  BY <1>1, <1>3, <1>4 DEF HeapInv
<1>12. FreeAre(node', free_head_id', free_tail_id', (in \cup out)', Tail(FreeIds))
  <2>1. (in \cup out)' = (in \cup out) \cup {id}
    BY <1>1
  <2> QED
    BY <1>1, <1>5, <2>1
<1> QED
  BY <1>5, <1>6, <1>7, <1>8, <1>9, <1>10, <1>11, <1>12, AfterIs

\* ph_insert_node.
LEMMA RootAdded ==
  ASSUME NEW n \in [Ids -> Links], NEW S, NEW R, Trees(n, S, R), NEW id \in Ids \ S
  PROVE  Trees([n EXCEPT ![id] = NoLinks], S \cup {id}, R \cup {id})
<1> DEFINE m == [n EXCEPT ![id] = NoLinks]
           T == S \cup {id}
           Q == R \cup {id}
<1>1. S \subseteq Ids /\ Linkage(n, S, R) /\ Once(n, S, R) /\ id # 0 /\ 0 \notin S
  BY HeapConstants DEF Trees
<1>2. m[id].child = 0 /\ m[id].sibling = 0
  BY DEF NoLinks
<1>3. \A i \in S : m[i] = n[i]
  BY <1>1
<1> HIDE DEF m
<1>4. Linkage(m, T, Q)
  <2>1. Q \subseteq T /\ \A i \in Q : m[i].sibling = 0
    BY <1>1, <1>2, <1>3 DEF Linkage
  <2>2. \A i \in T : m[i].child # 0 => m[i].child \in T \ Q /\ m[m[i].child].parent = i
    BY <1>1, <1>2, <1>3 DEF Linkage
  <2>3. \A i \in T : m[i].sibling # 0 => m[i].sibling \in T \ Q /\ m[m[i].sibling].parent = m[i].parent
    BY <1>1, <1>2, <1>3 DEF Linkage
  <2>4. \A i \in T \ Q : m[i].parent \in T /\ ~Before(i, m[i].parent)
    BY <1>1, <1>3 DEF Linkage
  <2> QED
    BY <2>1, <2>2, <2>3, <2>4 DEF Linkage
<1>5. Once(m, T, Q)
  <2>1. \A j \in T \ Q : \E i \in T : m[i].child = j \/ m[i].sibling = j
    BY <1>1, <1>3 DEF Once
  <2>2. \A i, k \in T : m[i].child # 0 /\ m[i].child = m[k].child => i = k
    BY <1>1, <1>2, <1>3 DEF Once
  <2>3. \A i, k \in T : m[i].sibling # 0 /\ m[i].sibling = m[k].sibling => i = k
    BY <1>1, <1>2, <1>3 DEF Once
  <2>4. \A i, k \in T : m[i].child # 0 => m[i].child # m[k].sibling
    BY <1>1, <1>2, <1>3 DEF Once
  <2> QED
    BY <2>1, <2>2, <2>3, <2>4 DEF Once
<1>6. \E rank \in [Ids -> Nat] : Ranked(m, T, Q, rank)
  <2>1. PICK rank \in [Ids -> Nat] : Ranked(n, S, R, rank)
    BY DEF Trees
  <2> QED
    BY <1>1, <1>2, <1>3, <2>1 DEF Ranked
<1> QED
  BY <1>1, <1>4, <1>5, <1>6 DEF Trees, m

LEMMA InsertNodeInv ==
  ASSUME HeapInv, NEW id \in in \cup out, InsertNode(id)
  PROVE  After(FreeIds) /\ root_id' \in {root_id, id}
<1> DEFINE n == [node EXCEPT ![id] = NoLinks]
           m == Merge(n, root_id, id)
           S == in \cup {id}
           R == Root(root_id) \cup {id}
<1>1. /\ id \in out /\ node' = m.nodes /\ root_id' = m.id
      /\ out' = out \ {id} /\ in' = S /\ free_head_id' = free_head_id
      /\ free_tail_id' = free_tail_id /\ stale' = stale
  BY DEF InsertNode
<1>2. HeapTypeOK /\ Trees(node, in, Root(root_id)) /\ id \in Ids \ in /\ id # 0
  BY <1>1, HeapConstants DEF HeapInv, HeapTypeOK
<1>3. NoLinks \in Links /\ NoLinks.parent = 0 /\ NoLinks.sibling = 0
  BY HeapConstants DEF NoLinks, Links
<1>4. /\ n \in [Ids -> Links] /\ n[id] = NoLinks
      /\ \A i \in Ids \ {id} : n[i] = node[i]
  BY <1>2, <1>3 DEF HeapTypeOK
<1>5. Trees(n, S, R)
  BY <1>2, RootAdded DEF HeapTypeOK
<1>6. root_id # 0 => root_id \in in /\ root_id \in Ids /\ root_id # id
  BY <1>2 DEF Trees, Linkage, Root
<1> HIDE DEF n
<1>7. Merged(n, S, R, root_id, id, m)
  <2>1. root_id \in R \cup {0} /\ id \in R \cup {0} /\ (root_id = id => root_id = 0)
    BY <1>2, <1>6 DEF Root
  <2> HIDE DEF S, R
  <2> QED
    BY <1>4, <1>5, <2>1, MergeTrees
<1> HIDE DEF m
<1>8. m.id \in {root_id, id} /\ m.id # 0 /\ m.id \in Ids
  BY <1>2, <1>6, <1>7 DEF Merged
<1>9. \A i \in Ids : i # root_id /\ i # id => node'[i] = node[i]
  BY <1>1, <1>4, <1>7 DEF Merged
<1>10. \A i \in Ids \ in : i # root_id
  BY <1>6, HeapConstants
<1>11. HeapTypeOK'
  <2>1. node' \in [Ids -> Links] /\ root_id' \in NodeId
    BY <1>1, <1>7, <1>8, HeapConstants DEF Merged
  <2> QED
    BY <1>1, <1>2, <2>1 DEF HeapTypeOK
<1>12. Trees(node', in', Root(root_id'))
  <2>1. (R \ {root_id, id}) \cup Root(m.id) = Root(m.id)
    BY DEF Root
  <2> QED
    BY <1>1, <1>7, <2>1 DEF Merged
<1>13. root_id' # 0 => node'[root_id'].parent = 0
  <2>1. node'[root_id'].parent = n[m.id].parent
    BY <1>1, <1>7, <1>8 DEF Merged
  <2>2. n[m.id].parent = 0
    BY <1>3, <1>4, <1>6, <1>8 DEF HeapInv
  <2> QED
    BY <2>1, <2>2
<1>14. in' \cap out' = {} /\ stale' \cap (in' \cup out') = {}
  BY <1>1 DEF HeapInv
<1>15. \A i \in out' : node'[i].sibling = 0
  BY <1>1, <1>2, <1>9, <1>10 DEF HeapInv, HeapTypeOK
<1>16. \A i \in Ids \ (in' \cup stale') : node'[i].parent = 0
  BY <1>1, <1>9, <1>10 DEF HeapInv
<1>17. FreeAre(node', free_head_id', free_tail_id', (in \cup out)', FreeIds)
  <2>1. (in \cup out)' \subseteq in \cup out
    BY <1>1
  <2>2. \A i \in Ids \ (in \cup out) : node'[i].sibling = node[i].sibling
    BY <1>1, <1>9, <1>10
  <2>3. FreeAre(node, free_head_id, free_tail_id, in \cup out, FreeIds)
    BY DEF HeapInv
  <2> QED
    BY <1>1, <2>1, <2>2, <2>3, FreeSame
<1>18. After(FreeIds)
  BY <1>11, <1>12, <1>13, <1>14, <1>15, <1>16, <1>17, AfterIs
<1> QED
  BY <1>1, <1>8, <1>18

\* ph_remove_head.
LEMMA RemoveHeadInv ==
  ASSUME HeapInv, NEW freed \in BOOLEAN, RemoveHead(freed)
  PROVE  /\ root_id \in in /\ in' = in \ {root_id}
         /\ After(IF freed THEN Queued(FreeIds, root_id) ELSE FreeIds)
<1> DEFINE id == root_id
           m == RemoveAnyHead(node, id)
           n == m.nodes
           S == in \ {id}
           f == FreeIds
<1>1. /\ id # 0 /\ root_id' = m.id /\ in' = S /\ stale' = stale
      /\ IF freed THEN Free(n, id) /\ out' = out
         ELSE /\ node' = n /\ out' = out \cup {id}
              /\ free_head_id' = free_head_id /\ free_tail_id' = free_tail_id
  BY DEF RemoveHead
<1>2. HeapTypeOK /\ Trees(node, in, {id}) /\ id \in in /\ id \in Ids /\ node[id].parent = 0
  BY <1>1 DEF HeapInv, HeapTypeOK, Root, Trees, Linkage
<1>3. Headless(node, in, {id}, id, m)
  BY <1>2, RemoveAnyHeadTrees DEF HeapTypeOK
<1> HIDE DEF m, f
<1>4. /\ n \in [Ids -> Links] /\ m.id \in NodeId
      /\ Trees(n, S, Root(m.id)) /\ (m.id # 0 => m.id \in S /\ n[m.id].parent = 0)
      /\ n[id].sibling = 0 /\ n[id].parent = 0
      /\ \A i \in Ids \ in : n[i] = node[i]
  <2>1. ({id} \ {id}) \cup Root(m.id) = Root(m.id)
    OBVIOUS
  <2> QED
    BY <1>2, <1>3, <2>1 DEF Headless
<1> HIDE DEF n
<1>5. FreeAre(n, free_head_id, free_tail_id, in \cup out, f)
  <2>1. FreeAre(node, free_head_id, free_tail_id, in \cup out, f)
    BY DEF HeapInv, f
  <2>2. \A i \in Ids \ (in \cup out) : n[i].sibling = node[i].sibling
    BY <1>4
  <2> QED
    BY <2>1, <2>2, FreeSame
<1>6. in' \cap out' = {} /\ stale' \cap (in' \cup out') = {}
  <2>1. out' \subseteq out \cup {id}
    BY <1>1
  <2> QED
    BY <1>1, <1>2, <2>1 DEF HeapInv
<1>7. CASE freed
  <2>1. Freed(n, id, in \cup out, f)
    <3>1. Free(n, id) /\ id \in in \cup out /\ free_tail_id \in NodeId
      BY <1>1, <1>2, <1>7 DEF HeapTypeOK
    <3> QED
      BY <1>2, <1>4, <1>5, <3>1, FreeIs
  <2>2. \A i \in in \cup out : i \in Ids /\ node'[i] = n[i]
    BY <1>2, <2>1 DEF Freed, HeapTypeOK
  <2>3. HeapTypeOK'
    <3>1. node' \in [Ids -> Links] /\ free_head_id' = free_head_id /\ free_tail_id' \in NodeId
      BY <1>2, <2>1, HeapConstants DEF Freed
    <3> QED
      BY <1>1, <1>2, <1>4, <1>7, <3>1 DEF HeapTypeOK
  <2>4. Trees(node', in', Root(root_id'))
    <3>1. \A i \in S : node'[i] = n[i]
      BY <2>2
    <3> QED
      BY <1>1, <1>4, <3>1, TreesSame
  <2>5. root_id' # 0 => node'[root_id'].parent = 0
    BY <1>1, <1>4, <2>2
  <2>6. \A i \in out' : node'[i].sibling = 0
    <3>1. \A i \in out : i \in Ids \ in /\ node[i].sibling = 0
      BY <1>2 DEF HeapInv, HeapTypeOK
    <3> QED
      BY <1>1, <1>4, <1>7, <2>2, <3>1
  <2>7. \A i \in Ids \ (in' \cup stale') : node'[i].parent = 0
    <3>1. \A i \in Ids : node'[i].parent = n[i].parent
      BY <2>1 DEF Freed
    <3> QED
      BY <1>1, <1>4, <3>1 DEF HeapInv
  <2>8. FreeAre(node', free_head_id', free_tail_id', (in \cup out)', Queued(f, id))
    <3>1. FreeAre(node', free_head_id', free_tail_id', (in \cup out) \ {id}, Queued(f, id))
      BY <2>1 DEF Freed
    <3>2. (in \cup out)' = (in \cup out) \ {id}
      BY <1>1, <1>2, <1>7 DEF HeapInv
    <3> QED
      BY <3>1, <3>2
  <2>9. After(Queued(f, id))
    BY <1>6, <2>3, <2>4, <2>5, <2>6, <2>7, <2>8, AfterIs
  <2> QED
    BY <1>1, <1>2, <1>7, <2>9 DEF f
<1>8. CASE ~freed
  <2>1. /\ node' = n /\ out' = out \cup {id}
        /\ free_head_id' = free_head_id /\ free_tail_id' = free_tail_id
    BY <1>1, <1>8
  <2>2. HeapTypeOK'
    BY <1>1, <1>2, <1>4, <2>1 DEF HeapTypeOK
  <2>3. Trees(node', in', Root(root_id')) /\ (root_id' # 0 => node'[root_id'].parent = 0)
    BY <1>1, <1>4, <2>1
  <2>4. \A i \in out' : node'[i].sibling = 0
    <3>1. \A i \in out : i \in Ids \ in /\ node[i].sibling = 0
      BY <1>2 DEF HeapInv, HeapTypeOK
    <3> QED
      BY <1>4, <2>1, <3>1
  <2>5. \A i \in Ids \ (in' \cup stale') : node'[i].parent = 0
    BY <1>1, <1>4, <2>1 DEF HeapInv
  <2>6. FreeAre(node', free_head_id', free_tail_id', (in \cup out)', f)
    <3>1. (in \cup out)' = in \cup out
      BY <1>1, <1>2, <2>1
    <3> QED
      BY <1>5, <2>1, <3>1
  <2>7. After(f)
    BY <1>6, <2>2, <2>3, <2>4, <2>5, <2>6, AfterIs
  <2> QED
    BY <1>1, <1>2, <1>8, <2>7 DEF f
<1> QED
  BY <1>7, <1>8

\* ph_remove_and_free_node: a node that has a parent is in the heap.
LEMMA RemoveAndFreeNodeInv ==
  ASSUME HeapInv, NEW id \in in \cup out, RemoveAndFreeNode(id)
  PROVE  id \in in /\ in' = in \ {id} /\ After(Queued(FreeIds, id))
<1> DEFINE u == Unlinked(id)
           sub == RemoveAnyHead(u, id)
           m == Merge(sub.nodes, root_id, sub.id)
           n == m.nodes
           S == in \ {id}
           f == FreeIds
<1>1. /\ id # root_id /\ node[id].parent # 0 /\ root_id' = m.id /\ Free(n, id)
      /\ in' = S /\ out' = out /\ stale' = stale
  BY DEF RemoveAndFreeNode
<1>2. HeapTypeOK /\ node \in [Ids -> Links] /\ in \subseteq Ids /\ out \subseteq Ids
  BY DEF HeapInv, HeapTypeOK
<1>3. id \in in /\ id \in Ids
  <2>1. id \notin out
    <3>1. id \in out => id \in Ids \ (in \cup stale)
      BY <1>2 DEF HeapInv
    <3> QED
      BY <1>1, <3>1 DEF HeapInv
  <2> QED
    BY <1>2, <2>1
<1>4. root_id # 0 /\ Trees(node, in, {root_id}) /\ root_id \in in /\ node[root_id].parent = 0
  <2>1. Trees(node, in, Root(root_id))
    BY DEF HeapInv
  <2>2. root_id # 0
    <3>1. root_id = 0 => in = {}
      BY <2>1, NoRoots DEF Root
    <3> QED
      BY <1>3, <3>1
  <2>3. Root(root_id) = {root_id}
    BY <2>2 DEF Root
  <2>4. Trees(node, in, {root_id})
    BY <2>1, <2>3
  <2>5. root_id \in in
    BY <2>4 DEF Trees, Linkage
  <2> QED
    BY <2>2, <2>4, <2>5 DEF HeapInv
<1>5. /\ u \in [Ids -> Links] /\ Trees(u, in, {root_id} \cup {id})
      /\ \A i \in Ids \ in : u[i] = node[i]
      /\ u[id].parent = 0 /\ u[root_id].parent = 0
  <2>1. id \in in \ {root_id}
    BY <1>1, <1>3
  <2>2. Bridged(in, id, u)
    BY <1>2, <1>4, <2>1, UnlinkedIs
  <2> HIDE DEF u
  <2>3. Trees(u, in, {root_id} \cup {id})
    BY <1>2, <1>4, <2>1, <2>2, UnlinkedTrees
  <2> QED
    BY <1>1, <1>3, <1>4, <2>2, <2>3 DEF Bridged
<1> HIDE DEF u
<1>6. Headless(u, in, {root_id} \cup {id}, id, sub)
  BY <1>5, RemoveAnyHeadTrees
<1> HIDE DEF sub
<1> DEFINE R == {root_id} \cup Root(sub.id)
<1>7. /\ sub.nodes \in [Ids -> Links] /\ sub.id \in NodeId
      /\ (sub.id # 0 => sub.id \in in /\ sub.id # root_id /\ sub.id # id /\ sub.nodes[sub.id].parent = 0)
      /\ Trees(sub.nodes, S, R)
      /\ sub.nodes[id].sibling = 0 /\ sub.nodes[id].parent = 0
      /\ sub.nodes[root_id].parent = 0
      /\ \A i \in Ids \ in : sub.nodes[i] = node[i]
  <2>1. (({root_id} \cup {id}) \ {id}) \cup Root(sub.id) = R
    BY <1>1
  <2>2. sub.nodes[root_id] = u[root_id]
    BY <1>1, <1>2, <1>4, <1>6 DEF Headless
  <2>3. sub.id # 0 => sub.id \in in \ ({root_id} \cup {id}) /\ sub.nodes[sub.id].parent = 0
    BY <1>6 DEF Headless
  <2>4. \A i \in Ids \ in : sub.nodes[i] = node[i]
    BY <1>3, <1>5, <1>6 DEF Headless
  <2> HIDE DEF R
  <2> QED
    BY <1>5, <1>6, <2>1, <2>2, <2>3, <2>4 DEF Headless
<1>8. Merged(sub.nodes, S, R, root_id, sub.id, m)
  <2>1. root_id \in R \cup {0} /\ sub.id \in R \cup {0} /\ (root_id = sub.id => root_id = 0)
    BY <1>4, <1>7 DEF Root
  <2> HIDE DEF S, R
  <2> QED
    BY <1>7, <2>1, MergeTrees
<1> HIDE DEF m
<1>9. (R \ {root_id, sub.id}) \cup Root(m.id) = Root(m.id)
  BY DEF Root
<1> HIDE DEF R
<1>10. /\ n \in [Ids -> Links] /\ m.id \in {root_id, sub.id} /\ m.id # 0 /\ m.id \in S
       /\ Trees(n, S, Root(m.id)) /\ n[m.id].parent = 0
       /\ \A i \in Ids \ {root_id, sub.id} : n[i] = sub.nodes[i]
  <2>1. /\ n \in [Ids -> Links] /\ m.id \in {root_id, sub.id} /\ m.id # 0
        /\ Trees(n, S, Root(m.id))
        /\ \A i \in Ids \ {root_id, sub.id} : n[i] = sub.nodes[i]
        /\ n[m.id].parent = sub.nodes[m.id].parent
    BY <1>4, <1>8, <1>9 DEF Merged
  <2> QED
    BY <1>1, <1>4, <1>7, <2>1
<1>11. /\ n[id].sibling = 0 /\ n[id].parent = 0
       /\ \A i \in Ids \ in : n[i] = node[i]
  <2>1. id \in Ids \ {root_id, sub.id}
    BY <1>1, <1>3, <1>7, HeapConstants
  <2>2. \A i \in Ids \ in : i \in Ids \ {root_id, sub.id}
    BY <1>4, <1>7, HeapConstants
  <2> QED
    BY <1>7, <1>10, <2>1, <2>2
<1> HIDE DEF n, f
<1>12. Freed(n, id, in \cup out, f)
  <2>1. FreeAre(node, free_head_id, free_tail_id, in \cup out, f)
    BY DEF HeapInv, f
  <2>2. \A i \in Ids \ (in \cup out) : n[i].sibling = node[i].sibling
    BY <1>11
  <2>3. FreeAre(n, free_head_id, free_tail_id, in \cup out, f)
    BY <2>1, <2>2, FreeSame
  <2>4. free_tail_id \in NodeId
    BY <1>2 DEF HeapTypeOK
  <2> QED
    BY <1>1, <1>3, <1>10, <1>11, <2>3, <2>4, FreeIs
<1>13. \A i \in in \cup out : i \in Ids /\ node'[i] = n[i]
  BY <1>2, <1>12 DEF Freed
<1>14. HeapTypeOK'
  <2>1. node' \in [Ids -> Links] /\ free_head_id' = free_head_id /\ free_tail_id' \in NodeId
    BY <1>3, <1>12, HeapConstants DEF Freed
  <2>2. m.id \in NodeId
    BY <1>2, <1>10, HeapConstants
  <2> QED
    BY <1>1, <1>2, <2>1, <2>2 DEF HeapTypeOK
<1>15. Trees(node', in', Root(root_id'))
  <2>1. \A i \in S : node'[i] = n[i]
    BY <1>13
  <2> QED
    BY <1>1, <1>10, <2>1, TreesSame
<1>16. root_id' # 0 => node'[root_id'].parent = 0
  BY <1>1, <1>10, <1>13
<1>17. in' \cap out' = {} /\ stale' \cap (in' \cup out') = {}
  BY <1>1 DEF HeapInv
<1>18. \A i \in out' : node'[i].sibling = 0
  <2>1. \A i \in out : i \in Ids \ in /\ node[i].sibling = 0
    BY <1>2 DEF HeapInv
  <2> QED
    BY <1>1, <1>11, <1>13, <2>1
<1>19. \A i \in Ids \ (in' \cup stale') : node'[i].parent = 0
  <2>1. \A i \in Ids : node'[i].parent = n[i].parent
    BY <1>12 DEF Freed
  <2> QED
    BY <1>1, <1>11, <2>1 DEF HeapInv
<1>20. FreeAre(node', free_head_id', free_tail_id', (in \cup out)', Queued(f, id))
  <2>1. FreeAre(node', free_head_id', free_tail_id', (in \cup out) \ {id}, Queued(f, id))
    BY <1>12 DEF Freed
  <2>2. (in \cup out)' = (in \cup out) \ {id}
    BY <1>1, <1>3 DEF HeapInv
  <2> QED
    BY <2>1, <2>2
<1>21. After(Queued(f, id))
  BY <1>14, <1>15, <1>16, <1>17, <1>18, <1>19, <1>20, AfterIs
<1> QED
  BY <1>1, <1>3, <1>21 DEF f

\* ph_free_node.
LEMMA FreeNodeInv ==
  ASSUME HeapInv, NEW id \in in \cup out, FreeNode(id)
  PROVE  id \in out /\ After(Queued(FreeIds, id))
<1> DEFINE f == FreeIds
<1>1. /\ id \in out /\ Free(node, id) /\ out' = out \ {id}
      /\ root_id' = root_id /\ in' = in /\ stale' = stale
  BY DEF FreeNode
<1>2. /\ HeapTypeOK /\ node \in [Ids -> Links] /\ in \subseteq Ids /\ out \subseteq Ids
      /\ free_tail_id \in NodeId /\ id \in Ids
  BY <1>1 DEF HeapInv, HeapTypeOK
<1>3. Freed(node, id, in \cup out, f)
  <2>1. FreeAre(node, free_head_id, free_tail_id, in \cup out, f) /\ node[id].sibling = 0
    BY <1>1 DEF HeapInv, f
  <2> QED
    BY <1>1, <1>2, <2>1, FreeIs
<1> HIDE DEF f
<1>4. \A i \in in \cup out : i \in Ids /\ node'[i] = node[i]
  BY <1>2, <1>3 DEF Freed
<1>5. HeapTypeOK'
  <2>1. node' \in [Ids -> Links] /\ free_head_id' = free_head_id /\ free_tail_id' \in NodeId
    BY <1>2, <1>3, HeapConstants DEF Freed
  <2> QED
    BY <1>1, <1>2, <2>1 DEF HeapTypeOK
<1>6. Trees(node', in', Root(root_id'))
  <2>1. \A i \in in : node'[i] = node[i]
    BY <1>4
  <2> QED
    BY <1>1, <2>1, TreesSame DEF HeapInv
<1>7. root_id' # 0 => node'[root_id'].parent = 0
  <2>1. root_id # 0 => root_id \in in
    BY DEF HeapInv, Trees, Linkage, Root
  <2> QED
    BY <1>1, <1>4, <2>1 DEF HeapInv
<1>8. in' \cap out' = {} /\ stale' \cap (in' \cup out') = {}
  BY <1>1 DEF HeapInv
<1>9. \A i \in out' : node'[i].sibling = 0
  BY <1>1, <1>4 DEF HeapInv
<1>10. \A i \in Ids \ (in' \cup stale') : node'[i].parent = 0
  BY <1>1, <1>3 DEF HeapInv, Freed
<1>11. FreeAre(node', free_head_id', free_tail_id', (in \cup out)', Queued(f, id))
  <2>1. FreeAre(node', free_head_id', free_tail_id', (in \cup out) \ {id}, Queued(f, id))
    BY <1>3 DEF Freed
  <2>2. (in \cup out)' = (in \cup out) \ {id}
    BY <1>1 DEF HeapInv
  <2> QED
    BY <2>1, <2>2
<1>12. After(Queued(f, id))
  BY <1>5, <1>6, <1>7, <1>8, <1>9, <1>10, <1>11, AfterIs
<1> QED
  BY <1>1, <1>12 DEF f

\* ph_clear.
LEMMA ClearInv ==
  ASSUME HeapInv, Clear
  PROVE  After([k \in Ids |-> k])
<1>1. /\ node' = Cleared(node) /\ root_id' = 0 /\ free_head_id' = 1 /\ free_tail_id' = max_nodes
      /\ out' = {} /\ in' = {} /\ stale' = stale \cup in
  BY DEF Clear
<1>2. HeapTypeOK /\ node \in [Ids -> Links]
  BY DEF HeapInv, HeapTypeOK
<1>3. /\ node' \in [Ids -> Links] /\ Trees(node', {}, {})
      /\ \A i \in Ids : node'[i].parent = node[i].parent
      /\ FreeAre(node', 1, max_nodes, {}, [k \in Ids |-> k])
      /\ 1 \in NodeId /\ max_nodes \in NodeId /\ 0 \in NodeId
  BY <1>1, <1>2, ClearedIs
<1>4. HeapTypeOK'
  BY <1>1, <1>2, <1>3 DEF HeapTypeOK
<1>5. Trees(node', in', Root(root_id'))
  BY <1>1, <1>3 DEF Root
<1>6. FreeAre(node', free_head_id', free_tail_id', (in \cup out)', [k \in Ids |-> k])
  BY <1>1, <1>3
<1>7. \A i \in Ids \ (in' \cup stale') : node'[i].parent = 0
  BY <1>1, <1>3 DEF HeapInv
<1> QED
  BY <1>1, <1>4, <1>5, <1>6, <1>7, AfterIs

LEMMA HeapInvStep ==
  ASSUME HeapInv, [HeapNext]_heapVars
  PROVE  HeapInv'
<1>1. CASE NewNode
  BY <1>1, NewNodeInv DEF After
<1>2. CASE Clear
  BY <1>2, ClearInv DEF After
<1>3. ASSUME NEW freed \in BOOLEAN, RemoveHead(freed) PROVE HeapInv'
  BY <1>3, RemoveHeadInv DEF After
<1>4. ASSUME NEW id \in in \cup out, InsertNode(id) PROVE HeapInv'
  BY <1>4, InsertNodeInv DEF After
<1>5. ASSUME NEW id \in in \cup out, RemoveAndFreeNode(id) PROVE HeapInv'
  BY <1>5, RemoveAndFreeNodeInv DEF After
<1>6. ASSUME NEW id \in in \cup out, FreeNode(id) PROVE HeapInv'
  BY <1>6, FreeNodeInv DEF After
<1>7. CASE UNCHANGED heapVars
  BY <1>7 DEF heapVars, HeapInv, HeapTypeOK, FreeIds
<1> QED
  BY <1>1, <1>2, <1>3, <1>4, <1>5, <1>6, <1>7 DEF HeapNext
-----------------------------------------------------------------------------
(* The properties *)

\* Nothing compares before the root.
LEMMA RootIsHead ==
  ASSUME HeapInv
  PROVE  /\ in = {} => root_id = 0
         /\ in # {} => root_id \in in /\ \A i \in in : Key[root_id] <= Key[i]
<1>1. /\ in \subseteq Ids /\ Linkage(node, in, Root(root_id))
      /\ Trees(node, in, Root(root_id))
  BY DEF HeapInv, Trees
<1>2. in = {} => root_id = 0
  BY <1>1 DEF Linkage, Root
<1>3. ASSUME in # {} PROVE root_id \in in /\ \A i \in in : Key[root_id] <= Key[i]
  <2>1. root_id # 0
    <3>1. root_id = 0 => Root(root_id) = {}
      BY DEF Root
    <3> QED
      BY <1>1, <1>3, <3>1, NoRoots
  <2>2. root_id \in in /\ Root(root_id) = {root_id}
    BY <1>1, <2>1 DEF Root, Linkage
  <2>3. PICK rank \in [Ids -> Nat] : Ranked(node, in, {root_id}, rank)
    BY <1>1, <2>2 DEF Trees
  <2>4. PICK top \in Nat : \A i \in Ids : rank[i] <= top
    BY RankBound
  <2> DEFINE Early == {i \in in : ~(Key[root_id] <= Key[i])}
             Depths == {top - rank[i] : i \in Early}
  <2>5. Early = {}
    <3> SUFFICES ASSUME Early # {} PROVE FALSE
      OBVIOUS
    <3>1. Depths \subseteq Nat /\ Depths # {}
      <4>1. ASSUME NEW i \in Early PROVE top - rank[i] \in Nat
        <5>1. i \in Ids
          BY <1>1
        <5>2. rank[i] \in Nat /\ rank[i] <= top
          BY <2>4, <5>1
        <5> QED
          BY <5>2
      <4> HIDE DEF Early
      <4> QED
        BY <4>1
    <3>2. PICK d \in Depths : \A e \in Depths : d <= e
      BY <3>1, Least
    <3>3. PICK i \in Early : d = top - rank[i]
      BY <3>2
    <3>4. i \in in /\ i \in Ids /\ root_id \in Ids /\ ~(Key[root_id] <= Key[i])
      BY <1>1, <2>2, <3>3
    <3>5. i # root_id
      BY <3>4, HeapConstants
    <3>6. /\ node[i].parent \in in /\ ~Before(i, node[i].parent)
          /\ rank[i] < rank[node[i].parent]
      BY <1>1, <2>2, <2>3, <3>4, <3>5 DEF Linkage, Ranked
    <3>7. node[i].parent \in Ids
      BY <1>1, <3>6
    <3>8. ~(Key[root_id] <= Key[node[i].parent])
      <4>1. Key[root_id] \in Int /\ Key[i] \in Int /\ Key[node[i].parent] \in Int
        BY <3>4, <3>7, HeapConstants
      <4>2. ~(Key[i] < Key[node[i].parent])
        BY <3>6 DEF Before
      <4> QED
        BY <3>4, <4>1, <4>2
    <3>9. top - rank[i] <= top - rank[node[i].parent]
      BY <3>2, <3>3, <3>6, <3>8
    <3>10. rank[i] \in Nat /\ rank[node[i].parent] \in Nat
      BY <3>4, <3>7
    <3> QED
      BY <3>6, <3>9, <3>10
  <2> QED
    BY <2>2, <2>5
<1> QED
  BY <1>2, <1>3

LEMMA HeapInvShape == HeapInv => HeapShape
<1> SUFFICES ASSUME HeapInv PROVE HeapShape
  OBVIOUS
<1>1. /\ HeapTypeOK /\ node \in [Ids -> Links] /\ in \subseteq Ids /\ 0 \notin in
      /\ Trees(node, in, Root(root_id))
      /\ Linkage(node, in, Root(root_id)) /\ Once(node, in, Root(root_id))
  BY HeapConstants DEF HeapInv, HeapTypeOK, Trees
<1>2. (root_id = 0 <=> in = {}) /\ (root_id # 0 => root_id \in in)
  BY <1>1, RootIsHead
<1>3. Root(root_id) = {i \in in : i = root_id}
  BY <1>1, <1>2 DEF Root
<1>4. root_id # 0 => node[root_id].sibling = 0
  BY <1>1, <1>2, <1>3 DEF Linkage
<1>5. ASSUME NEW id \in in
      PROVE  /\ node[id].parent = 0 <=> id = root_id
             /\ id # root_id =>
                  Cardinality({p \in in : node[p].child = id}
                              \cup {s \in in : node[s].sibling = id}) = 1
             /\ id # root_id => ~Before(id, node[id].parent)
             /\ \A c \in Linked(node, node[id].child) : c \in in /\ node[c].parent = id
  <2>1. id # root_id => node[id].parent \in in /\ ~Before(id, node[id].parent)
    BY <1>1, <1>3 DEF Linkage
  <2>2. node[id].parent = 0 <=> id = root_id
    BY <1>1, <2>1 DEF HeapInv
  <2>3. ASSUME id # root_id
        PROVE  Cardinality({p \in in : node[p].child = id}
                           \cup {s \in in : node[s].sibling = id}) = 1
    <3> DEFINE Linkers == {p \in in : node[p].child = id} \cup {s \in in : node[s].sibling = id}
    <3>1. PICK i \in in : node[i].child = id \/ node[i].sibling = id
      BY <1>1, <1>3, <2>3 DEF Once
    <3>2. id # 0
      BY <1>1
    <3>3. ASSUME NEW k \in in, node[k].child = id \/ node[k].sibling = id PROVE k = i
      BY <1>1, <3>1, <3>2, <3>3 DEF Once
    <3>4. Linkers = {i}
      BY <3>1, <3>3
    <3> QED
      BY <3>4, FS_Singleton
  <2>4. \A c \in Linked(node, node[id].child) : c \in in /\ node[c].parent = id
    <3> DEFINE l == Chain(node, node[id].child)
    <3>1. \A k \in 1..Len(l) : l[k] \in in \ Root(root_id) /\ node[l[k]].parent = id
      BY <1>1, Children
    <3>2. Linked(node, node[id].child) = {l[k] : k \in 1..Len(l)}
      BY DEF Linked
    <3> HIDE DEF l
    <3> QED
      BY <3>1, <3>2
  <2> QED
    BY <2>1, <2>2, <2>3, <2>4
<1> QED
  BY <1>1, <1>2, <1>4, <1>5 DEF HeapShape

LEMMA HeapInvContains == HeapInv => ContainsIsIn
<1> SUFFICES ASSUME HeapInv, NEW id \in Ids \ stale PROVE Contains(id) <=> id \in in
  BY DEF ContainsIsIn
<1>1. in \subseteq Ids /\ 0 \notin Ids /\ Linkage(node, in, Root(root_id))
  BY HeapConstants DEF HeapInv, HeapTypeOK, Trees
<1>2. root_id # 0 => root_id \in in
  BY <1>1 DEF Linkage, Root
<1>3. id \in in /\ id # root_id => node[id].parent \in in
  BY <1>1 DEF Linkage, Root
<1>4. id \notin in => node[id].parent = 0
  BY DEF HeapInv
<1> QED
  BY <1>1, <1>2, <1>3, <1>4 DEF Contains

\* HeapInv is inductive, so it holds of every reachable state.
THEOREM HeapInvariance == HeapSpec => []HeapInv
<1>1. HeapInit => HeapInv
  BY HeapInvInit
<1>2. HeapInv /\ [HeapNext]_heapVars => HeapInv'
  BY HeapInvStep
<1> QED
  BY <1>1, <1>2, PTL DEF HeapSpec

\* The heap of any number of nodes keeps its shape through every sequence of
\* calls: the asserts of ph_remove_any_head and ph_remove_and_free_node never
\* fail, a link is never lost, doubled or closed to a circle, and no node
\* compares before its parent.
THEOREM HeapKeepsShape == HeapSpec => []HeapShape
  BY HeapInvariance, HeapInvShape, PTL

\* ph_contains_node answers for every id but those that ph_clear left behind.
THEOREM ContainsTells == HeapSpec => []ContainsIsIn
  BY HeapInvariance, HeapInvContains, PTL
-----------------------------------------------------------------------------
(* The refinement of AbstractHeap *)

HeadIsHead == AbsHeap!IsHead(root_id, in)

LEMMA HeadKept == HeapInv => HeadIsHead
<1> SUFFICES ASSUME HeapInv PROVE HeadIsHead
  OBVIOUS
<1> QED
  BY RootIsHead DEF HeadIsHead, AbsHeap!IsHead

LEMMA SameCardinality == AbsHeap!Cardinality(Ids) = Cardinality(Ids)
  BY DEF AbsHeap!Cardinality, Cardinality

LEMMA HeapInitMaps == HeapInit => AbsHeap!Init
<1> SUFFICES ASSUME HeapInit PROVE AbsHeap!Init
  OBVIOUS
<1> DEFINE f == [k \in Ids |-> k]
           n == [i \in Ids |-> NoLinks]
<1>1. node = Cleared(n) /\ root_id = 0 /\ free_head_id = 1 /\ in = {}
  BY DEF HeapInit
<1>2. n \in [Ids -> Links]
  BY HeapConstants DEF NoLinks, Links
<1> HIDE DEF n
<1>3. node \in [Ids -> Links] /\ 1 \in NodeId /\ FreeAre(node, 1, max_nodes, {}, f)
      /\ f \in [1..max_nodes -> Ids]
  BY <1>1, <1>2, ClearedIs
<1>4. Chain(node, free_head_id) = f
  <2> HIDE DEF f
  <2> QED
    BY <1>1, <1>3, FreeIsChain
<1>5. Cardinality(Ids) = max_nodes
  BY HeapConstants
<1>6. \A i \in Ids : \E k \in 1..Len(f) : f[k] = i
  <2>1. Len(f) = max_nodes /\ Ids = 1..max_nodes /\ \A k \in Ids : f[k] = k
    <3>1. max_nodes \in Nat /\ Ids = 1..max_nodes
      BY HeapConstants DEF Ids
    <3>2. Len(f) = max_nodes
      BY <1>3, <3>1
    <3> QED
      BY <3>1, <3>2
  <2> HIDE DEF f
  <2> QED
    BY <2>1
<1> HIDE DEF f
<1>7. /\ Chain(node, free_head_id) \in [1..Cardinality(Ids) -> Ids]
      /\ \A i \in Ids : \E k \in 1..Len(Chain(node, free_head_id)) : Chain(node, free_head_id)[k] = i
  BY <1>3, <1>4, <1>5, <1>6
<1> QED
  BY <1>1, <1>7, SameCardinality DEF AbsHeap!Init

\* An allocated id is neither in the heap nor free.
LEMMA OutIsOut ==
  ASSUME HeapInv, NEW id \in out
  PROVE  id \in AbsHeap!Out /\ id \in Ids
<1>1. id \in Ids /\ id \notin in
  BY DEF HeapInv, HeapTypeOK
<1>2. \A k \in 1..Len(FreeIds) : FreeIds[k] # id
  BY DEF HeapInv, FreeAre
<1> QED
  BY <1>1, <1>2 DEF AbsHeap!Out, FreeIds

LEMMA HeapStepMaps ==
  ASSUME HeapInv, HeapInv', HeadIsHead', [HeapNext]_heapVars
  PROVE  [AbsHeap!Next]_(AbsHeap!vars)
<1> DEFINE f == FreeIds
           F == Chain(node', free_head_id')
<1>1. f = Chain(node, free_head_id) /\ FreeIds' = F
  BY DEF FreeIds
<1>2. AbsHeap!IsHead(root_id', in') /\ root_id' \in Ids \cup {0} /\ in \subseteq Ids /\ out \subseteq Ids
  <2>1. AbsHeap!IsHead(root_id', in')
    BY DEF HeadIsHead, AbsHeap!IsHead
  <2>2. root_id' \in NodeId
    BY DEF HeapInv, HeapTypeOK
  <2> QED
    BY <2>1, <2>2, HeapConstants DEF HeapInv, HeapTypeOK, AbsHeap!IsHead
<1> HIDE DEF f, F
<1>3. CASE NewNode
  <2>1. f # << >> /\ F = Tail(f) /\ in' = in /\ root_id' = root_id
    BY <1>1, <1>3, NewNodeInv DEF After, NewNode, f
  <2> QED
    BY <1>1, <2>1 DEF AbsHeap!Next, AbsHeap!New, f, F
<1>4. CASE Clear
  <2>1. F = [k \in Ids |-> k] /\ in' = {} /\ root_id' = 0
    BY <1>1, <1>4, ClearInv DEF After, Clear
  <2>2. AbsHeap!Init'
    <3>1. Cardinality(Ids) = max_nodes /\ max_nodes \in Nat /\ Ids = 1..max_nodes
      BY HeapConstants DEF Ids
    <3>2. F \in [1..max_nodes -> Ids] /\ Len(F) = max_nodes /\ \A k \in Ids : F[k] = k
      <4>1. F \in [1..max_nodes -> Ids] /\ \A k \in Ids : F[k] = k
        BY <2>1, <3>1
      <4>2. Len(F) = max_nodes
        BY <2>1, <3>1
      <4> QED
        BY <4>1, <4>2
    <3>3. \A i \in Ids : \E k \in 1..Len(F) : F[k] = i
      BY <3>1, <3>2
    <3>4. F \in [1..Cardinality(Ids) -> Ids]
      BY <3>1, <3>2
    <3> QED
      BY <2>1, <3>3, <3>4, SameCardinality DEF AbsHeap!Init, F
  <2> QED
    BY <2>2 DEF AbsHeap!Next, AbsHeap!Clear
<1>5. ASSUME NEW freed \in BOOLEAN, RemoveHead(freed) PROVE AbsHeap!Next
  <2>1. /\ root_id \in in /\ in' = in \ {root_id}
        /\ F = IF freed THEN Queued(f, root_id) ELSE f
    BY <1>1, <1>5, RemoveHeadInv DEF After, f
  <2>2. AbsHeap!Remove(root_id) /\ root_id \in Ids
    BY <1>2, <2>1 DEF AbsHeap!Remove
  <2>3. CASE freed
    <3>1. AbsHeap!Free(root_id)
      BY <1>1, <2>1, <2>3 DEF AbsHeap!Free, Queued, F
    <3> QED
      BY <2>2, <3>1 DEF AbsHeap!Next
  <2>4. CASE ~freed
    <3>1. Chain(node', free_head_id') = Chain(node, free_head_id)
      BY <1>1, <2>1, <2>4 DEF F
    <3> QED
      BY <2>2, <3>1 DEF AbsHeap!Next
  <2> QED
    BY <2>3, <2>4
<1>6. ASSUME NEW id \in in \cup out, InsertNode(id) PROVE AbsHeap!Next
  <2>1. /\ id \in out /\ in' = in \cup {id} /\ F = f /\ root_id' \in {root_id, id}
    BY <1>1, <1>6, InsertNodeInv DEF After, InsertNode, f
  <2>2. id \in AbsHeap!Out /\ id \in Ids
    BY <2>1, OutIsOut
  <2>3. AbsHeap!Insert(id)
    BY <1>1, <1>2, <2>1, <2>2 DEF AbsHeap!Insert, F
  <2> QED
    BY <2>2, <2>3 DEF AbsHeap!Next
<1>7. ASSUME NEW id \in in \cup out, RemoveAndFreeNode(id) PROVE AbsHeap!Next
  <2>1. id \in in /\ in' = in \ {id} /\ F = Queued(f, id)
    BY <1>1, <1>7, RemoveAndFreeNodeInv DEF After, f
  <2>2. AbsHeap!Remove(id) /\ id \in Ids
    BY <1>2, <2>1 DEF AbsHeap!Remove
  <2>3. AbsHeap!Free(id)
    BY <1>1, <2>1 DEF AbsHeap!Free, Queued, F
  <2> QED
    BY <2>2, <2>3 DEF AbsHeap!Next
<1>8. ASSUME NEW id \in in \cup out, FreeNode(id) PROVE AbsHeap!Next
  <2>1. id \in out /\ F = Queued(f, id) /\ in' = in /\ root_id' = root_id
    BY <1>1, <1>8, FreeNodeInv DEF After, FreeNode, f
  <2>2. id \in AbsHeap!Out /\ id \in Ids
    BY <2>1, OutIsOut
  <2>3. AbsHeap!Free(id)
    BY <1>1, <2>1 DEF AbsHeap!Free, Queued, F
  <2> QED
    BY <2>1, <2>2, <2>3 DEF AbsHeap!Next
<1>9. CASE UNCHANGED heapVars
  BY <1>9 DEF heapVars, AbsHeap!vars
<1> QED
  BY <1>3, <1>4, <1>5, <1>6, <1>7, <1>8, <1>9 DEF HeapNext

\* Through every sequence of calls the linked structure behaves as the heap
\* and the queue of free ids of AbstractHeap.
THEOREM HeapRefinement == HeapSpec => AbstractHeapSpec
<1>1. HeapInit => AbsHeap!Init
  BY HeapInitMaps
<1>2. HeapInv /\ HeapInv' /\ HeadIsHead' /\ [HeapNext]_heapVars => [AbsHeap!Next]_(AbsHeap!vars)
  BY HeapStepMaps
<1> QED
  BY <1>1, <1>2, HeapInvariance, HeadKept, PTL DEF HeapSpec, AbsHeap!Spec, AbstractHeapSpec
=============================================================================
