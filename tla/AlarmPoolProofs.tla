-------------------------- MODULE AlarmPoolProofs --------------------------
(***************************************************************************)
(* Proofs about AlarmPool, for any number of nodes and threads, any times, *)
(* word size and bounds: where every node is, the asserts of the callback, *)
(* that a cancel is final, and that the public id of a retired alarm is    *)
(* not that of another one until the 8-bit count of a node can wrap.  The  *)
(* timer's registers matter to none of these: whatever set_target reports, *)
(* and whenever the interrupt comes, they hold.  The last theorem is about *)
(* the registers: the hardware alarm is set for the head of the heap.      *)
(***************************************************************************)
EXTENDS AlarmPool, TLAPS

\* The stages under the pool's lock that take more than a step.
Busy == {"check", "program", "write", "verify", "late", "settle"}

Tasks == [kind : Kinds, id : 0..max_nodes, time : Nat, fire : BOOLEAN, missed : BOOLEAN,
          pid : Nat, repeat : Repeats, which : 0..MaxAlarms]

Typed == at \in [Contexts -> Stages] /\ task \in [Contexts -> Tasks]

\* TypeOK without the contexts.
Rest ==
  /\ TimerTypeOK(Contexts) /\ prompt \in BOOLEAN
  /\ lock \in Contexts \cup {NoUser}
  /\ heap \subseteq Ids /\ head \in heap \cup {0}
  /\ free \in Seq(Ids)
  /\ target \in [Ids -> Nat] /\ entry_ids_high \in [Ids -> 0..255]
  /\ alarm_in_progress \in Nat
  /\ left \in [Threads -> Nat] /\ repeats \in 0..MaxRepeats
  /\ who \in [Ids -> 0..MaxAlarms] /\ count \in 0..MaxAlarms
  /\ known \in [Alarms -> Nat]
  /\ retired \subseteq Alarms /\ stopped \subseteq Alarms

\* The stages of a thread and of the interrupt, and what they do there.
PlaceInv ==
  /\ \A x \in Threads :
       /\ at[x] \in Busy \cup {"idle", "entry", "past", "return"}
       /\ at[x] \notin {"idle", "entry"} => task[x].kind = "add"
  /\ at[Irq] \in Busy \cup {"idle", "accept", "valid", "rewind", "top", "peek", "callback", "after"}
  /\ at[Irq] \in Busy => task[Irq].kind \in {"rearm", "again"}

LockInv == \A x \in Contexts : at[x] \in Busy <=> lock = x

\* The interrupt holds a node whose callback it runs.
Out == at[Irq] \in {"callback", "after"}
InFree(i) == \E k \in 1..Len(free) : free[k] = i

\* Unless the free list has run empty, every node is somewhere ...
AllPlaced ==
  free # << >> => \A i \in Ids : i \in heap \/ InFree(i) \/ (Out /\ i = task[Irq].id)

\* ... and in any case in one place, once.
OutApart == Out => task[Irq].id \in Ids \ heap /\ ~InFree(task[Irq].id)
FreeApart == \A i \in Ids : InFree(i) => i \notin heap
Distinct == \A j, k \in 1..Len(free) : free[j] = free[k] => j = k

NodeInv ==
  /\ AllPlaced /\ OutApart /\ FreeApart /\ Distinct
  /\ heap = {} <=> head = 0
  /\ \A x \in Threads : at[x] \in Busy => task[x].id \in heap

ProgressInv ==
  alarm_in_progress # 0 =>
    \/ Out /\ alarm_in_progress = Public(task[Irq].id)
    \/ at[Irq] \in Busy /\ task[Irq].kind = "again"

\* Every node in use was allocated for an alarm of its own; the interrupt
\* knows when the alarm of the node it holds has been stopped.
WhoInv ==
  /\ \A i \in Ids : who[i] <= count
  /\ \A i, j \in Ids : who[i] = who[j] /\ who[i] # 0 => i = j
  /\ \A i \in heap : who[i] # 0 /\ who[i] \notin stopped
  /\ Out => /\ task[Irq].which # 0 /\ who[task[Irq].id] # 0
            /\ who[task[Irq].id] \in stopped => alarm_in_progress = 0
  /\ \A a \in stopped : a <= count

IndInv ==
  /\ Typed /\ Rest
  /\ PlaceInv /\ LockInv /\ NodeInv /\ ProgressInv /\ WhoInv
-----------------------------------------------------------------------------
(* Numbers, sequences and records *)

\* Lo and Hi are a quotient and a remainder.
LEMMA Words ==
  ASSUME NEW t \in Nat
  PROVE  Lo(t) \in 0..(LowWord - 1) /\ Hi(t) \in Nat
<1>1. LowWord \in Nat /\ LowWord > 0
  BY HardwareAlarmAssumption
<1> HIDE DEF Lo, Hi
<1> QED
  BY <1>1 DEF Lo, Hi

\* make_public_id is never 0, and the cancel finds the node in it.
LEMMA PublicIds ==
  ASSUME Rest, NEW i \in Ids
  PROVE  Public(i) \in Nat /\ Public(i) # 0 /\ NodeOf(Public(i)) = i
<1>1. entry_ids_high[i] \in 0..255 /\ i \in 1..255
  <2>1. entry_ids_high \in [Ids -> 0..255]
    BY DEF Rest
  <2>2. i \in 1..255
    BY AlarmPoolAssumption DEF Ids
  <2> QED
    BY <2>1, <2>2
<1>2. \A h \in 0..255, k \in 1..255 : ((h * 256 + k) % 256) = k /\ h * 256 + k \in Nat /\ h * 256 + k # 0
  OBVIOUS
<1>3. \A p \in Nat : NodeOf(p) = (p % 256)
  BY DEF NodeOf
<1>4. PICK h \in 0..255 : Public(i) = h * 256 + i
  BY <1>1 DEF Public
<1>5. ((h * 256 + i) % 256) = i /\ h * 256 + i \in Nat /\ h * 256 + i # 0
  BY <1>1, <1>2
<1> QED
  BY <1>3, <1>4, <1>5

LEMMA Tails ==
  ASSUME NEW S, NEW s \in Seq(S), s # << >>
  PROVE  /\ Tail(s) \in Seq(S) /\ Head(s) = s[1] /\ Head(s) \in S
         /\ 1 \in 1..Len(s) /\ \A k \in 1..Len(Tail(s)) : k + 1 \in 1..Len(s) /\ Tail(s)[k] = s[k + 1]
         /\ \A k \in 1..Len(s) : k = 1 \/ (k - 1 \in 1..Len(Tail(s)) /\ Tail(s)[k - 1] = s[k])
  OBVIOUS

LEMMA Appends ==
  ASSUME NEW S, NEW s \in Seq(S), NEW e \in S
  PROVE  /\ Append(s, e) \in Seq(S) /\ Append(s, e) # << >>
         /\ Len(s) + 1 \in 1..Len(Append(s, e)) /\ Append(s, e)[Len(s) + 1] = e
         /\ \A k \in 1..Len(s) : k \in 1..Len(Append(s, e)) /\ Append(s, e)[k] = s[k]
         /\ \A k \in 1..Len(Append(s, e)) : k \in 1..Len(s) \/ k = Len(s) + 1
  OBVIOUS

LEMMA Names ==
  /\ {"add", "cancel", "fire", "rearm", "again"} = Kinds
  /\ {"no", "target", "now"} = Repeats
  /\ Busy \subseteq Stages
  /\ {"idle", "entry", "past", "return", "accept", "valid", "rewind", "top", "peek", "callback",
      "after"} \subseteq Stages
  BY DEF Kinds, Repeats, Busy, Stages

LEMMA NoTaskRecord ==
  NoTask \in Tasks /\ NoTask.kind = "add"
  BY AlarmPoolAssumption DEF NoTask, Tasks, Kinds, Repeats

\* The changes of a task that the actions make.
LEMMA Missing ==
  ASSUME NEW t \in Tasks, NEW b \in BOOLEAN
  PROVE  /\ [t EXCEPT !.missed = b] \in Tasks
         /\ [t EXCEPT !.missed = b].id = t.id /\ [t EXCEPT !.missed = b].kind = t.kind
  BY DEF Tasks

LEMMA Repeating ==
  ASSUME NEW t \in Tasks, NEW r \in Repeats
  PROVE  /\ [t EXCEPT !.repeat = r] \in Tasks /\ [t EXCEPT !.repeat = r].id = t.id
         /\ [t EXCEPT !.repeat = r].which = t.which
  BY DEF Tasks

LEMMA Timed ==
  ASSUME NEW t \in Tasks, NEW n \in Nat
  PROVE  [t EXCEPT !.time = n] \in Tasks /\ [t EXCEPT !.time = n].kind = t.kind
  BY DEF Tasks

LEMMA TimedFire ==
  ASSUME NEW t \in Tasks, NEW n \in Nat, NEW f \in BOOLEAN
  PROVE  [t EXCEPT !.time = n, !.fire = f] \in Tasks
  BY DEF Tasks

LEMMA TimedAgain ==
  ASSUME NEW t \in Tasks, NEW n \in Nat
  PROVE  /\ [t EXCEPT !.kind = "again", !.time = n] \in Tasks
         /\ [t EXCEPT !.kind = "again", !.time = n].kind = "again"
  BY DEF Tasks, Kinds

LEMMA TimedRearm ==
  ASSUME NEW t \in Tasks, NEW n \in Nat
  PROVE  /\ [t EXCEPT !.kind = "rearm", !.time = n] \in Tasks
         /\ [t EXCEPT !.kind = "rearm", !.time = n].kind = "rearm"
  BY DEF Tasks, Kinds

LEMMA Cancelling ==
  ASSUME NEW t \in Tasks, NEW p \in Nat
  PROVE  [t EXCEPT !.kind = "cancel", !.pid = p] \in Tasks
  BY DEF Tasks, Kinds

LEMMA Identified ==
  ASSUME NEW t \in Tasks, NEW p \in Nat
  PROVE  [t EXCEPT !.pid = p] \in Tasks /\ [t EXCEPT !.pid = p].kind = t.kind
  BY DEF Tasks

\* What is left of a call that is about to return without an id.
LEMMA Ending ==
  ASSUME NEW w \in 0..MaxAlarms, NEW u, u = [NoTask EXCEPT !.which = w]
  PROVE  u \in Tasks /\ u.kind = "add" /\ u.which = w /\ u.pid = 0
<1>1. PICK t \in Tasks : t = NoTask /\ t.kind = "add" /\ t.pid = 0
  BY NoTaskRecord DEF NoTask
<1>2. u = [t EXCEPT !.which = w]
  BY <1>1
<1> QED
  BY <1>1, <1>2 DEF Tasks

LEMMA TaskFields ==
  ASSUME NEW t \in Tasks
  PROVE  /\ t.kind \in Kinds /\ t.id \in 0..max_nodes /\ t.time \in Nat /\ t.fire \in BOOLEAN
         /\ t.missed \in BOOLEAN /\ t.pid \in Nat /\ t.repeat \in Repeats /\ t.which \in 0..MaxAlarms
  BY DEF Tasks

LEMMA TypeParts == Typed /\ Rest => TypeOK
  BY TaskFields DEF TypeOK, Typed, Rest

-----------------------------------------------------------------------------
(* The timer *)

LEMMA TimerSteps ==
  ASSUME TimerTypeOK(Contexts), NEW x \in Contexts, NEW t \in Nat, NEW here \in BOOLEAN
  PROVE  /\ Program(x) => TimerTypeOK(Contexts)'
         /\ SetAlarm(t) => TimerTypeOK(Contexts)'
         /\ Fired => TimerTypeOK(Contexts)'
         /\ Verify(t, here) => TimerTypeOK(Contexts)'
         /\ Interrupt \/ Acknowledge(x) => TimerTypeOK(Contexts)'
         /\ Accept \/ Dismiss \/ Early \/ Rewind => TimerTypeOK(Contexts)'
         /\ Tick => TimerTypeOK(Contexts)'
<1>1. Lo(t) \in 0..(LowWord - 1) /\ Hi(t) \in Nat
  BY Words
<1>2. ASSUME Program(x) PROVE TimerTypeOK(Contexts)'
  BY <1>2 DEF TimerTypeOK, Program
<1>3. ASSUME SetAlarm(t) PROVE TimerTypeOK(Contexts)'
  BY <1>1, <1>3 DEF TimerTypeOK, SetAlarm, WriteAlarm
<1>4. ASSUME Fired PROVE TimerTypeOK(Contexts)'
  BY <1>4 DEF TimerTypeOK, Fired, Release
<1>5. ASSUME Verify(t, here) PROVE TimerTypeOK(Contexts)'
  <2>1. /\ now' \in 0..MaxTime /\ alarm' \in 0..(LowWord - 1) /\ target_hi' \in Nat
        /\ setter' \in [user : Contexts \cup {NoUser}, old : BOOLEAN] /\ setter.old \in BOOLEAN
    BY <1>5 DEF TimerTypeOK, Verify, Release
  <2>2. armed' \in BOOLEAN /\ intr' \in BOOLEAN
    BY <1>5 DEF TimerTypeOK, Verify
  <2>3. pending' \in BOOLEAN
    BY <1>5, <2>1 DEF TimerTypeOK, Verify
  <2>4. latched' \in BOOLEAN
    BY <1>5 DEF TimerTypeOK, Verify
  <2> QED
    BY <2>1, <2>2, <2>3, <2>4 DEF TimerTypeOK
<1>6. ASSUME Interrupt \/ Acknowledge(x) PROVE TimerTypeOK(Contexts)'
  <2>1. CASE Interrupt
    BY <2>1 DEF TimerTypeOK, Interrupt
  <2>2. CASE Acknowledge(x)
    BY <2>2 DEF TimerTypeOK, Acknowledge
  <2> QED
    BY <1>6, <2>1, <2>2
<1>7. ASSUME Accept \/ Dismiss \/ Early PROVE TimerTypeOK(Contexts)'
  <2>1. CASE Accept
    BY <2>1 DEF TimerTypeOK, Accept, Release
  <2>2. CASE Dismiss
    BY <2>2 DEF TimerTypeOK, Dismiss, Release
  <2>3. CASE Early
    BY <2>3 DEF TimerTypeOK, Early, timerVars
  <2> QED
    BY <1>7, <2>1, <2>2, <2>3
<1>8. ASSUME Rewind PROVE TimerTypeOK(Contexts)'
  BY <1>8 DEF TimerTypeOK, Rewind, Release, WriteAlarm
<1>9. ASSUME Tick PROVE TimerTypeOK(Contexts)'
  BY <1>9, HardwareAlarmAssumption DEF TimerTypeOK, Tick
<1> QED
  BY <1>2, <1>3, <1>4, <1>5, <1>6, <1>7, <1>8, <1>9

-----------------------------------------------------------------------------
(* Moving a context *)

\* Context x goes to a stage with a task; the others stay.
LEMMA Going ==
  ASSUME Typed, NEW x \in Contexts, NEW g \in Stages, NEW t \in Tasks, Go(x, g, t)
  PROVE  /\ Typed' /\ at'[x] = g /\ task'[x] = t
         /\ \A y \in Contexts \ {x} : at'[y] = at[y] /\ task'[y] = task[y]
  BY DEF Typed, Go

Only(x) == \A y \in Contexts \ {x} : at'[y] = at[y] /\ task'[y] = task[y]

LEMMA Contexture ==
  /\ Threads \subseteq Contexts /\ Irq \in Contexts /\ Irq \notin Threads /\ NoUser \notin Contexts
  /\ \A x \in Contexts : x \in Threads \/ x = Irq
  BY AlarmPoolAssumption DEF Contexts

\* A thread may stand where it went.
LEMMA ThreadPlaces ==
  ASSUME PlaceInv, NEW x \in Threads, Only(x),
         at'[x] \in Busy \cup {"idle", "entry", "past", "return"},
         at'[x] \notin {"idle", "entry"} => task'[x].kind = "add"
  PROVE  PlaceInv'
  BY Contexture DEF PlaceInv, Only

LEMMA IrqPlaces ==
  ASSUME PlaceInv, Only(Irq),
         at'[Irq] \in Busy \cup {"idle", "accept", "valid", "rewind", "top", "peek", "callback", "after"},
         at'[Irq] \in Busy => task'[Irq].kind \in {"rearm", "again"}
  PROVE  PlaceInv'
  BY Contexture DEF PlaceInv, Only

\* The lock does not change hands.
LEMMA LockFrame ==
  ASSUME LockInv, NEW x \in Contexts, Only(x), UNCHANGED lock,
         at'[x] \in Busy <=> at[x] \in Busy
  PROVE  LockInv'
  BY DEF LockInv, Only

\* It is taken, or given back.
LEMMA LockTaken ==
  ASSUME LockInv, NEW x \in Contexts, Only(x), lock = NoUser,
         lock' = IF at'[x] \in Busy THEN x ELSE NoUser
  PROVE  LockInv'
  BY Contexture DEF LockInv, Only

LEMMA LockGiven ==
  ASSUME LockInv, NEW x \in Contexts, Only(x), at[x] \in Busy, at'[x] \notin Busy, lock' = NoUser
  PROVE  LockInv'
  BY Contexture DEF LockInv, Only

\* While nobody holds the lock no context is under it, and while one does
\* no other is.
LEMMA Alone ==
  ASSUME LockInv
  PROVE  /\ lock = NoUser => \A x \in Contexts : at[x] \notin Busy
         /\ \A x \in Contexts : at[x] \in Busy => \A y \in Contexts \ {x} : at[y] \notin Busy
  BY Contexture DEF LockInv

\* A step of x that changes nothing of the pool's nodes.
PoolSame == UNCHANGED <<heap, head, free, entry_ids_high, alarm_in_progress, who, count, stopped>>

LEMMA ThreadFrame ==
  ASSUME NodeInv, ProgressInv, WhoInv, NEW x \in Threads, Only(x), PoolSame,
         at'[x] \in Busy => task'[x].id \in heap
  PROVE  NodeInv' /\ ProgressInv' /\ WhoInv'
<1>1. at'[Irq] = at[Irq] /\ task'[Irq] = task[Irq]
  BY Contexture DEF Only
<1>2. NodeInv'
  BY <1>1, Contexture DEF NodeInv, AllPlaced, OutApart, FreeApart, Distinct, PoolSame, Only, Out, InFree
<1>3. ProgressInv'
  BY <1>1 DEF ProgressInv, PoolSame, Out, Public
<1>4. WhoInv'
  BY <1>1 DEF WhoInv, PoolSame, Out
<1> QED
  BY <1>2, <1>3, <1>4

LEMMA IrqFrame ==
  ASSUME NodeInv, ProgressInv, WhoInv, Only(Irq), PoolSame,
         Out' <=> Out,
         Out => task'[Irq].id = task[Irq].id /\ task'[Irq].which = task[Irq].which,
         at[Irq] \in Busy /\ task[Irq].kind = "again" =>
           at'[Irq] \in Busy /\ task'[Irq].kind = "again"
  PROVE  NodeInv' /\ ProgressInv' /\ WhoInv'
<1>1. NodeInv'
  BY Contexture DEF NodeInv, AllPlaced, OutApart, FreeApart, Distinct, PoolSame, Only, InFree
<1>2. ProgressInv'
  BY DEF ProgressInv, PoolSame, Public
<1>3. WhoInv'
  BY DEF WhoInv, PoolSame
<1> QED
  BY <1>1, <1>2, <1>3

-----------------------------------------------------------------------------
(* Steps that leave the nodes alone *)

NodesSame == UNCHANGED <<lock, heapVars, target, entry_ids_high, alarm_in_progress,
                         who, count, retired, stopped>>

LEMMA ThreadQuiet ==
  ASSUME IndInv, NEW x \in Threads, NEW g, NEW t \in Tasks, Go(x, g, t), NodesSame,
         g \in Busy \cup {"idle", "entry", "past", "return"},
         g \notin {"idle", "entry"} => t.kind = "add",
         g \in Busy <=> at[x] \in Busy,
         g \in Busy => t.id = task[x].id,
         TimerTypeOK(Contexts)', prompt' = prompt, left' \in [Threads -> Nat],
         repeats' \in 0..MaxRepeats, known' \in [Alarms -> Nat]
  PROVE  IndInv'
<1>0. x \in Contexts /\ g \in Stages
  BY Contexture, Names
<1>1. Typed' /\ Only(x) /\ at'[x] = g /\ task'[x] = t
  BY <1>0, Going DEF IndInv, Only
<1>2. Rest'
  BY DEF IndInv, Rest, NodesSame, heapVars
<1>3. PlaceInv'
  BY <1>1, ThreadPlaces DEF IndInv
<1>4. LockInv'
  BY <1>0, <1>1, LockFrame DEF IndInv, NodesSame
<1>5. NodeInv' /\ ProgressInv' /\ WhoInv'
  <2>1. at'[x] \in Busy => task'[x].id \in heap
    BY <1>1 DEF IndInv, NodeInv
  <2>2. PoolSame
    BY DEF NodesSame, PoolSame, heapVars
  <2> QED
    BY <1>1, <2>1, <2>2, ThreadFrame DEF IndInv
<1> QED
  BY <1>1, <1>2, <1>3, <1>4, <1>5 DEF IndInv

LEMMA IrqQuiet ==
  ASSUME IndInv, NEW g, NEW t \in Tasks, Go(Irq, g, t), NodesSame,
         g \in Busy \cup {"idle", "accept", "valid", "rewind", "top", "peek", "callback", "after"},
         g \in Busy => t.kind \in {"rearm", "again"},
         g \in Busy <=> at[Irq] \in Busy,
         g \in {"callback", "after"} <=> Out,
         Out => t.id = task[Irq].id /\ t.which = task[Irq].which,
         at[Irq] \in Busy => t.kind = task[Irq].kind,
         TimerTypeOK(Contexts)', prompt' = prompt, left' \in [Threads -> Nat],
         repeats' \in 0..MaxRepeats, known' \in [Alarms -> Nat]
  PROVE  IndInv'
<1>0. Irq \in Contexts /\ g \in Stages
  BY Contexture, Names
<1>1. Typed' /\ Only(Irq) /\ at'[Irq] = g /\ task'[Irq] = t
  BY <1>0, Going DEF IndInv, Only
<1>2. Rest'
  BY DEF IndInv, Rest, NodesSame, heapVars
<1>3. PlaceInv'
  BY <1>1, IrqPlaces DEF IndInv
<1>4. LockInv'
  BY <1>0, <1>1, LockFrame DEF IndInv, NodesSame
<1>5. NodeInv' /\ ProgressInv' /\ WhoInv'
  <2>1. PoolSame
    BY DEF NodesSame, PoolSame, heapVars
  <2> QED
    BY <1>1, <2>1, IrqFrame DEF IndInv, Out
<1> QED
  BY <1>1, <1>2, <1>3, <1>4, <1>5 DEF IndInv

\* What these steps do not change of the rest.
LEMMA RestNow ==
  ASSUME IndInv
  PROVE  /\ TimerTypeOK(Contexts) /\ now \in Nat /\ prompt \in BOOLEAN /\ left \in [Threads -> Nat]
         /\ repeats \in 0..MaxRepeats /\ known \in [Alarms -> Nat]
         /\ target \in [Ids -> Nat] /\ heap \subseteq Ids /\ head \in heap \cup {0}
         /\ UNCHANGED timerVars => TimerTypeOK(Contexts)'
         /\ \A x \in Contexts : task[x] \in Tasks
  BY DEF IndInv, Rest, TimerTypeOK, timerVars, Typed

LEMMA CallAddInd ==
  ASSUME IndInv, NEW x \in Threads, CallAdd(x)
  PROVE  IndInv'
<1>1. /\ NodesSame /\ UNCHANGED <<timerVars, prompt, repeats, known>> /\ at[x] = "idle"
      /\ left[x] > 0 /\ left' = [left EXCEPT ![x] = @ - 1]
  BY DEF CallAdd, NodesSame, timing, history
<1>2. left' \in [Threads -> Nat]
  BY <1>1, RestNow
<1>3. PICK n \in Targets, f \in BOOLEAN : Go(x, "entry", [NoTask EXCEPT !.time = n, !.fire = f])
  BY DEF CallAdd
<1>4. [NoTask EXCEPT !.time = n, !.fire = f] \in Tasks
  BY TimedFire, NoTaskRecord, AlarmPoolAssumption
<1> QED
  BY <1>1, <1>2, <1>3, <1>4, ThreadQuiet, RestNow DEF Busy

LEMMA CallCancelInd ==
  ASSUME IndInv, NEW x \in Threads, CallCancel(x)
  PROVE  IndInv'
<1>1. /\ NodesSame /\ UNCHANGED <<timerVars, prompt, repeats, known>> /\ at[x] = "idle"
      /\ left[x] > 0 /\ left' = [left EXCEPT ![x] = @ - 1]
  BY DEF CallCancel, NodesSame, timing, history
<1>2. left' \in [Threads -> Nat]
  BY <1>1, RestNow
<1>3. PICK a \in Alarms : Go(x, "entry", [NoTask EXCEPT !.kind = "cancel", !.pid = known[a]])
  BY DEF CallCancel
<1>4. [NoTask EXCEPT !.kind = "cancel", !.pid = known[a]] \in Tasks
  BY Cancelling, NoTaskRecord, RestNow
<1> QED
  BY <1>1, <1>2, <1>3, <1>4, ThreadQuiet, RestNow DEF Busy

LEMMA NoSpaceInd ==
  ASSUME IndInv, NEW x \in Threads, NoSpace(x)
  PROVE  IndInv'
<1>1. NodesSame /\ UNCHANGED <<timerVars, prompt, left, repeats, known>> /\ at[x] = "entry"
      /\ Go(x, "idle", NoTask)
  BY DEF NoSpace, NodesSame, timing, history
<1> QED
  BY <1>1, ThreadQuiet, RestNow, NoTaskRecord DEF Busy

LEMMA NewTimes ==
  ASSUME IndInv, NEW r \in Repeats, NEW t \in Nat
  PROVE  NewTime(r, t) \in Nat
  BY RestNow, AlarmPoolAssumption DEF NewTime

LEMMA Asking ==
  ASSUME IndInv, NEW r \in Repeats, Asks(r), repeats' <= MaxRepeats
  PROVE  repeats' \in 0..MaxRepeats
  BY RestNow, AlarmPoolAssumption DEF Asks

LEMMA RunPastInd ==
  ASSUME IndInv, NEW x \in Threads, RunPast(x)
  PROVE  IndInv'
<1>1. /\ NodesSame /\ UNCHANGED <<timerVars, prompt, left, known>> /\ at[x] = "past"
  BY DEF RunPast, NodesSame, timing, history
<1>2. PICK r \in Repeats :
        /\ Asks(r) /\ repeats' <= MaxRepeats
        /\ IF r = "no" THEN Go(x, "return", [NoTask EXCEPT !.which = task[x].which])
           ELSE Go(x, "entry", [task[x] EXCEPT !.time = NewTime(r, @)])
  BY DEF RunPast
<1>3. repeats' \in 0..MaxRepeats
  BY <1>2, Asking
<1>4. task[x] \in Tasks /\ task[x].time \in Nat /\ task[x].kind = "add"
  BY <1>1, RestNow, TaskFields, Contexture DEF IndInv, PlaceInv
<1>5. CASE r = "no"
  <2>1. PICK t : t = [NoTask EXCEPT !.which = task[x].which]
    OBVIOUS
  <2>2. task[x].which \in 0..MaxAlarms
    BY <1>4, TaskFields
  <2>3. t \in Tasks /\ t.kind = "add"
    BY <2>1, <2>2, Ending
  <2>4. Go(x, "return", t)
    BY <1>2, <1>5, <2>1
  <2> QED
    BY <1>1, <1>3, <2>3, <2>4, ThreadQuiet, RestNow DEF Busy
<1>6. CASE r # "no"
  <2>1. [task[x] EXCEPT !.time = NewTime(r, @)] \in Tasks
    BY <1>4, NewTimes, Timed
  <2> QED
    BY <1>1, <1>2, <1>3, <1>6, <2>1, ThreadQuiet, RestNow DEF Busy
<1> QED
  BY <1>5, <1>6

LEMMA ReturnInd ==
  ASSUME IndInv, NEW x \in Threads, Return(x)
  PROVE  IndInv'
<1>1. /\ NodesSame /\ UNCHANGED <<timerVars, prompt, left, repeats>> /\ at[x] = "return"
      /\ Go(x, "idle", NoTask) /\ known' = [known EXCEPT ![task[x].which] = task[x].pid]
  BY DEF Return, NodesSame, timing
<1>2. known' \in [Alarms -> Nat]
  BY <1>1, RestNow, TaskFields, Contexture
<1> QED
  BY <1>1, <1>2, ThreadQuiet, RestNow, NoTaskRecord DEF Busy

\* set_target, in a thread or in the interrupt.
LEMMA CheckInd ==
  ASSUME IndInv, NEW x \in Contexts, Check(x)
  PROVE  IndInv'
<1>1. NodesSame /\ UNCHANGED <<timerVars, prompt, left, repeats, known>> /\ at[x] = "check"
  BY DEF Check, NodesSame, timing, history
<1>2. PICK g \in {"settle", "program"}, t \in Tasks :
        Go(x, g, t) /\ t.kind = task[x].kind /\ t.id = task[x].id
  <2> DEFINE u == [task[x] EXCEPT !.missed = Overtaken(task[x].time)]
             h == IF Overtaken(task[x].time) THEN "settle" ELSE "program"
  <2>0. Overtaken(task[x].time) \in BOOLEAN
    BY RestNow, TaskFields DEF Overtaken
  <2>1. u \in Tasks /\ u.kind = task[x].kind /\ u.id = task[x].id
    BY <2>0, RestNow, Missing
  <2>2. Go(x, h, u) /\ h \in {"settle", "program"}
    BY DEF Check
  <2> HIDE DEF u, h
  <2> QED
    BY <2>1, <2>2
<1>3. CASE x \in Threads
  <2>1. t.kind = "add"
    BY <1>1, <1>2, <1>3 DEF IndInv, PlaceInv
  <2> QED
    BY <1>1, <1>2, <1>3, <2>1, ThreadQuiet, RestNow DEF Busy
<1>4. CASE x = Irq
  <2>1. t.kind \in {"rearm", "again"}
    BY <1>1, <1>2, <1>4 DEF IndInv, PlaceInv, Busy
  <2> QED
    BY <1>1, <1>2, <1>4, <2>1, IrqQuiet, RestNow DEF Busy, Out
<1> QED
  BY <1>3, <1>4, Contexture

LEMMA SetTargetInd ==
  ASSUME IndInv, NEW x \in Contexts, SetTarget(x)
  PROVE  IndInv'
<1>1. NodesSame /\ UNCHANGED <<prompt, left, repeats, known>> /\ at[x] \in {"program", "write", "verify", "late"}
  BY DEF SetTarget, NodesSame, history
<1>2. task[x] \in Tasks /\ task[x].time \in Nat /\ Overtaken(task[x].time) \in BOOLEAN
  BY RestNow, TaskFields DEF Overtaken
<1>3. TimerTypeOK(Contexts)'
  <2> DEFINE here == x \in Local \cup {Irq}
  <2>1. here \in BOOLEAN
    OBVIOUS
  <2>2. \/ Program(x) \/ SetAlarm(task[x].time) \/ Fired \/ UNCHANGED timerVars
        \/ Verify(task[x].time, here)
    BY DEF SetTarget
  <2> HIDE DEF here
  <2> QED
    BY <1>2, <2>1, <2>2, RestNow, TimerSteps
<1>4. PICK g \in {"write", "verify", "late", "settle"}, t \in Tasks :
        Go(x, g, t) /\ t.kind = task[x].kind /\ t.id = task[x].id
  <2> DEFINE u == [task[x] EXCEPT !.missed = Overtaken(task[x].time)]
  <2>1. u \in Tasks /\ u.kind = task[x].kind /\ u.id = task[x].id
    BY <1>2, Missing
  <2>2. \/ Go(x, "write", task[x]) \/ Go(x, "verify", task[x]) \/ Go(x, "late", task[x])
        \/ Go(x, "settle", task[x]) \/ Go(x, "settle", u)
    BY DEF SetTarget
  <2> HIDE DEF u
  <2> QED
    BY <1>2, <2>1, <2>2
<1>5. CASE x \in Threads
  <2>1. t.kind = "add"
    BY <1>1, <1>4, <1>5 DEF IndInv, PlaceInv
  <2> QED
    BY <1>1, <1>3, <1>4, <1>5, <2>1, ThreadQuiet, RestNow DEF Busy
<1>6. CASE x = Irq
  <2>1. t.kind \in {"rearm", "again"}
    BY <1>1, <1>4, <1>6 DEF IndInv, PlaceInv, Busy
  <2> QED
    BY <1>1, <1>3, <1>4, <1>6, <2>1, IrqQuiet, RestNow DEF Busy, Out
<1> QED
  BY <1>5, <1>6, Contexture

LEMMA IrqWaits ==
  ASSUME IndInv, IrqEnter \/ IrqAccept \/ ReadTime \/ NothingLeft
  PROVE  IndInv'
<1>1. NodesSame /\ UNCHANGED <<prompt, left, repeats, known>>
      /\ at[Irq] \in {"idle", "accept", "valid", "rewind", "top", "peek"}
  BY DEF IrqEnter, IrqAccept, ReadTime, NothingLeft, NodesSame, timing, history
<1>2. TimerTypeOK(Contexts)'
  <2>1. \/ UNCHANGED timerVars \/ Interrupt \/ Acknowledge(Irq)
        \/ Accept \/ Dismiss \/ Early \/ Rewind
    BY DEF IrqEnter, IrqAccept, ReadTime, NothingLeft, timing
  <2> QED
    BY <2>1, RestNow, TimerSteps, Contexture
<1>3. PICK g \in {"idle", "accept", "valid", "rewind", "top", "peek"}, t \in Tasks : Go(Irq, g, t)
  <2>1. NoTask \in Tasks /\ [NoTask EXCEPT !.time = now] \in Tasks
    BY NoTaskRecord, Timed, RestNow
  <2> QED
    BY <2>1 DEF IrqEnter, IrqAccept, ReadTime, NothingLeft
<1> QED
  BY <1>1, <1>2, <1>3, IrqQuiet, RestNow DEF Busy, Out

LEMMA CallbackInd ==
  ASSUME IndInv, Callback
  PROVE  IndInv'
<1>1. NodesSame /\ UNCHANGED <<timerVars, prompt, left, known>> /\ at[Irq] = "callback"
  BY DEF Callback, NodesSame, timing, history
<1>2. PICK r \in Repeats : /\ Asks(r) /\ repeats' <= MaxRepeats
                           /\ Go(Irq, "after", [task[Irq] EXCEPT !.repeat = r])
  BY DEF Callback
<1>3. /\ repeats' \in 0..MaxRepeats
      /\ [task[Irq] EXCEPT !.repeat = r] \in Tasks
      /\ [task[Irq] EXCEPT !.repeat = r].id = task[Irq].id
      /\ [task[Irq] EXCEPT !.repeat = r].which = task[Irq].which
  BY <1>2, Asking, Repeating, RestNow, Contexture
<1> QED
  BY <1>1, <1>2, <1>3, IrqQuiet, RestNow DEF Busy, Out

LEMMA TimePassesInd ==
  ASSUME IndInv, TimePasses
  PROVE  IndInv'
<1>1. UNCHANGED <<prompt, at, task, lock, heap, head, free, target, entry_ids_high,
                  alarm_in_progress, left, repeats, who, count, known, retired, stopped>>
  BY DEF TimePasses, heapVars, history
<1>2. TimerTypeOK(Contexts)'
  <2>1. Tick
    BY DEF TimePasses
  <2> QED
    BY <2>1, RestNow, TimerSteps, Contexture
<1>3. Typed' /\ Rest' /\ PlaceInv' /\ LockInv'
  BY <1>1, <1>2 DEF IndInv, Typed, Rest, PlaceInv, LockInv
<1>4. NodeInv' /\ ProgressInv' /\ WhoInv'
  BY <1>1 DEF IndInv, NodeInv, AllPlaced, OutApart, FreeApart, Distinct, ProgressInv, WhoInv, Out, InFree, Public
<1> QED
  BY <1>3, <1>4 DEF IndInv

LEMMA StutterInd ==
  ASSUME IndInv, UNCHANGED vars
  PROVE  IndInv'
<1>1. UNCHANGED <<prompt, at, task, lock, heap, head, free, target, entry_ids_high,
                  alarm_in_progress, left, repeats, who, count, known, retired, stopped>>
  BY DEF vars, timing, heapVars, history
<1>2. TimerTypeOK(Contexts)'
  BY RestNow DEF vars, timing
<1>3. Typed' /\ Rest' /\ PlaceInv' /\ LockInv'
  BY <1>1, <1>2 DEF IndInv, Typed, Rest, PlaceInv, LockInv
<1>4. NodeInv' /\ ProgressInv' /\ WhoInv'
  BY <1>1 DEF IndInv, NodeInv, AllPlaced, OutApart, FreeApart, Distinct, ProgressInv, WhoInv, Out, InFree, Public
<1> QED
  BY <1>3, <1>4 DEF IndInv

-----------------------------------------------------------------------------
(* The heap and the free list *)

HeapOK == heap \subseteq Ids /\ head \in heap \cup {0} /\ (heap = {} <=> head = 0)

LEMMA PoolNow ==
  ASSUME IndInv
  PROVE  /\ HeapOK /\ Distinct /\ free \in Seq(Ids) /\ target \in [Ids -> Nat]
         /\ \A i \in Ids : InFree(i) => i \notin heap
         /\ 0 \notin Ids
  BY AlarmPoolAssumption DEF IndInv, Rest, NodeInv, FreeApart, HeapOK, Ids

LEMMA Inserting ==
  ASSUME HeapOK, target \in [Ids -> Nat], NEW i \in Ids, NEW t \in Nat, Insert(i, t)
  PROVE  /\ heap' = heap \cup {i} /\ HeapOK' /\ target' \in [Ids -> Nat]
         /\ head' \in heap'
<1>1. i # 0
  BY AlarmPoolAssumption DEF Ids
<1> QED
  BY <1>1 DEF Insert, HeapOK

LEMMA Removing ==
  ASSUME HeapOK, NEW i \in heap, Remove(i)
  PROVE  heap' = heap \ {i} /\ HeapOK'
<1>1. 0 \notin heap
  BY AlarmPoolAssumption DEF HeapOK, Ids
<1> QED
  BY <1>1 DEF Remove, HeapOK

\* A freed node is on the list, unless that had run empty.
LEMMA Freeing ==
  ASSUME free \in Seq(Ids), Distinct, NEW i \in Ids, ~InFree(i), free' = Freed(i)
  PROVE  /\ free' \in Seq(Ids) /\ Distinct'
         /\ \A j \in Ids : InFree(j)' => InFree(j) \/ j = i
         /\ free' # << >> => free # << >> /\ InFree(i)' /\ \A j \in Ids : InFree(j) => InFree(j)'
<1>1. CASE free = << >>
  BY <1>1 DEF Freed, Distinct, InFree
<1>2. CASE free # << >>
  <2>1. free' = Append(free, i)
    BY <1>2 DEF Freed
  <2>2. /\ free' \in Seq(Ids) /\ Len(free) + 1 \in 1..Len(free') /\ free'[Len(free) + 1] = i
        /\ \A k \in 1..Len(free) : k \in 1..Len(free') /\ free'[k] = free[k]
        /\ \A k \in 1..Len(free') : k \in 1..Len(free) \/ k = Len(free) + 1
    BY <2>1, Appends
  <2>3. Distinct'
    BY <2>2 DEF Distinct, InFree
  <2>4. \A j \in Ids : InFree(j)' <=> InFree(j) \/ j = i
    BY <2>2 DEF InFree
  <2> QED
    BY <1>2, <2>2, <2>3, <2>4
<1> QED
  BY <1>1, <1>2

\* The first node of the list is no more on it.
LEMMA Allocating ==
  ASSUME free \in Seq(Ids), free # << >>, Distinct, free' = Tail(free), NEW h, h = Head(free)
  PROVE  /\ h \in Ids /\ InFree(h)
         /\ free' \in Seq(Ids) /\ Distinct' /\ ~InFree(h)'
         /\ \A j \in Ids : InFree(j)' => InFree(j)
         /\ \A j \in Ids : InFree(j) => InFree(j)' \/ j = h
<1>1. /\ free' \in Seq(Ids) /\ h = free[1] /\ h \in Ids
      /\ 1 \in 1..Len(free) /\ \A k \in 1..Len(free') : k + 1 \in 1..Len(free) /\ free'[k] = free[k + 1]
      /\ \A k \in 1..Len(free) : k = 1 \/ (k - 1 \in 1..Len(free') /\ free'[k - 1] = free[k])
  BY Tails
<1>2. Distinct'
  <2> SUFFICES ASSUME NEW j \in 1..Len(free'), NEW k \in 1..Len(free'), free'[j] = free'[k]
               PROVE  j = k
    BY DEF Distinct
  <2>1. j + 1 = k + 1
    BY <1>1 DEF Distinct
  <2> QED
    BY <2>1
<1>3. ~InFree(h)'
  <2>1. ASSUME NEW k \in 1..Len(free'), free'[k] = free[1] PROVE FALSE
    <3>1. k + 1 = 1
      BY <1>1, <2>1 DEF Distinct
    <3> QED
      BY <3>1
  <2> QED
    BY <1>1, <2>1 DEF InFree
<1>4. \A j \in Ids : InFree(j)' => InFree(j)
  BY <1>1 DEF InFree
<1>5. \A j \in Ids : InFree(j) => InFree(j)' \/ j = h
  BY <1>1 DEF InFree
<1> QED
  BY <1>1, <1>2, <1>3, <1>4, <1>5 DEF InFree

-----------------------------------------------------------------------------
(* Steps of the threads that move nodes *)

\* The end of alarm_pool_add_alarm_at.
LEMMA Done ==
  ASSUME Rest, NEW x, NEW t \in Tasks, t.kind = "add", t.id \in Ids, AddDone(x, t)
  PROVE  \E g \in {"past", "return"}, u \in Tasks :
           /\ Go(x, g, u) /\ u.kind = "add" /\ u.which = t.which
           /\ g = "return" /\ u.pid # 0 => u.pid = Public(t.id)
<1>1. CASE t.missed /\ t.fire
  BY <1>1 DEF AddDone
<1>2. CASE ~(t.missed /\ t.fire)
  <2>1. PICK p \in Nat : p = IF t.missed THEN 0 ELSE Public(t.id)
    BY PublicIds
  <2>2. PICK w \in 0..MaxAlarms : w = t.which
    BY TaskFields
  <2>3. PICK u : u = [NoTask EXCEPT !.which = w, !.pid = p]
    OBVIOUS
  <2>4. u \in Tasks /\ u.kind = "add" /\ u.which = w /\ u.pid = p
    <3>1. PICK n \in Tasks : n = NoTask /\ n.kind = "add"
      BY NoTaskRecord
    <3>2. u = [n EXCEPT !.which = w, !.pid = p]
      BY <2>3, <3>1
    <3> QED
      BY <3>1, <3>2 DEF Tasks
  <2>5. Go(x, "return", u)
    BY <1>2, <2>1, <2>2, <2>3 DEF AddDone
  <2>6. u.pid # 0 => u.pid = Public(t.id)
    BY <2>1, <2>4
  <2> QED
    BY <2>2, <2>4, <2>5, <2>6
<1> QED
  BY <1>1, <1>2

LEMMA AddNodeInd ==
  ASSUME IndInv, NEW x \in Threads, AddNode(x)
  PROVE  IndInv'
<1> DEFINE id == Head(free)
           t == [task[x] EXCEPT !.id = id, !.which = count + 1]
<1>0. /\ at[x] = "entry" /\ task[x].kind = "add" /\ lock = NoUser
      /\ free # << >> /\ count < MaxAlarms /\ Insert(id, task[x].time)
      /\ free' = Tail(free) /\ count' = count + 1 /\ who' = [who EXCEPT ![id] = count + 1]
      /\ IF head' = id THEN lock' = x /\ Go(x, "check", t) ELSE UNCHANGED lock /\ AddDone(x, t)
      /\ UNCHANGED <<timerVars, prompt, entry_ids_high, alarm_in_progress, left, repeats,
                     known, retired, stopped>>
  <2>1. t = [task[x] EXCEPT !.id = id, !.which = count + 1] /\ [task[x] EXCEPT !.id = id, !.which = count + 1].time = task[x].time
    BY RestNow, Contexture DEF Tasks
  <2> QED
    BY <2>1 DEF AddNode, timing, Unlocked
<1>1. /\ id \in Ids /\ InFree(id) /\ free' \in Seq(Ids) /\ Distinct' /\ ~(\E k \in 1..Len(free') : free'[k] = id)
      /\ \A j \in Ids : InFree(j)' => InFree(j)
      /\ \A j \in Ids : InFree(j) => InFree(j)' \/ j = id
  BY <1>0, PoolNow, Allocating DEF InFree
<1>2. task[x] \in Tasks /\ task[x].time \in Nat /\ count + 1 \in 0..MaxAlarms /\ count \in Nat
  <2>1. task[x] \in Tasks /\ task[x].time \in Nat
    BY RestNow, TaskFields, Contexture
  <2>2. count \in 0..MaxAlarms
    BY DEF IndInv, Rest
  <2> QED
    BY <1>0, <2>1, <2>2, AlarmPoolAssumption
<1>3. t \in Tasks /\ t.id = id /\ t.kind = "add"
  <2>1. PICK i \in Ids, w \in 0..MaxAlarms, u \in Tasks :
          i = id /\ w = count + 1 /\ u = task[x]
    BY <1>1, <1>2
  <2> DEFINE v == [u EXCEPT !.id = i, !.which = w]
  <2>2. v \in Tasks /\ v.id = i /\ v.kind = u.kind
    <3>1. i \in 0..max_nodes
      BY AlarmPoolAssumption DEF Ids
    <3> QED
      BY <3>1 DEF Tasks
  <2>3. t = v
    BY <2>1
  <2> HIDE DEF v
  <2> HIDE DEF t, id
  <2> QED
    BY <1>0, <2>1, <2>2, <2>3
<1>4. heap' = heap \cup {id} /\ HeapOK' /\ target' \in [Ids -> Nat] /\ id \notin heap
  BY <1>0, <1>1, <1>2, PoolNow, Inserting
<1>5. PICK g \in {"check", "past", "return"}, u \in Tasks :
        /\ Go(x, g, u) /\ u.kind = "add" /\ (g = "check" => u.id = id)
        /\ lock' = IF g = "check" THEN x ELSE NoUser
  <2>1. CASE head' = id
    BY <1>0, <1>3, <2>1
  <2>2. CASE head' # id
    <3>1. AddDone(x, t) /\ lock' = NoUser
      BY <1>0, <2>2
    <3>2. PICK g \in {"past", "return"}, u \in Tasks : Go(x, g, u) /\ u.kind = "add"
      <4> HIDE DEF t
      <4> QED
        BY <1>1, <1>3, <3>1, Done DEF IndInv
    <3> QED
      BY <3>1, <3>2
  <2> QED
    BY <2>1, <2>2
<1> HIDE DEF t
<1>6. Typed' /\ Only(x) /\ at'[x] = g /\ task'[x] = u /\ x \in Contexts
      /\ at'[Irq] = at[Irq] /\ task'[Irq] = task[Irq]
  BY <1>5, Going, Contexture, Names DEF IndInv, Only, Busy
<1>7. Rest'
  <2>1. who' \in [Ids -> 0..MaxAlarms] /\ count' \in 0..MaxAlarms
    BY <1>0, <1>1, <1>2 DEF IndInv, Rest
  <2>2. lock' \in Contexts \cup {NoUser}
    BY <1>5, <1>6
  <2>3. TimerTypeOK(Contexts)'
    BY <1>0, RestNow
  <2> QED
    BY <1>0, <1>1, <1>4, <2>1, <2>2, <2>3 DEF IndInv, Rest, HeapOK
<1>8. PlaceInv'
  BY <1>5, <1>6, ThreadPlaces DEF IndInv, Busy
<1>9. LockInv'
  BY <1>0, <1>5, <1>6, LockTaken DEF IndInv, Busy
<1>10. NodeInv'
  <2>1. AllPlaced'
    BY <1>0, <1>1, <1>4, <1>6 DEF IndInv, NodeInv, AllPlaced, Out
  <2>2. OutApart'
    <3>1. Out => task[Irq].id \in Ids \ heap /\ ~InFree(task[Irq].id)
      BY DEF IndInv, NodeInv, OutApart
    <3>2. Out => task[Irq].id # id /\ ~InFree(task[Irq].id)'
      BY <1>1, <1>6, <3>1 DEF InFree
    <3> QED
      BY <1>4, <1>6, <3>1, <3>2 DEF OutApart, Out
  <2>3. FreeApart'
    BY <1>1, <1>4, PoolNow DEF InFree, FreeApart
  <2>4. \A y \in Threads : at'[y] \in Busy => task'[y].id \in heap'
    <3> SUFFICES ASSUME NEW y \in Threads, at'[y] \in Busy PROVE task'[y].id \in heap'
      OBVIOUS
    <3>1. y = x
      BY <1>0, <1>6, Alone, Contexture DEF IndInv, Only
    <3> QED
      BY <1>4, <1>5, <1>6, <3>1 DEF Busy
  <2> QED
    BY <1>1, <1>4, <2>1, <2>2, <2>3, <2>4 DEF NodeInv, HeapOK
<1>11. ProgressInv'
  BY <1>0, <1>6 DEF IndInv, ProgressInv, Out, Public
<1>12. WhoInv'
  <2>1. who'[id] = count + 1 /\ \A i \in Ids : i # id => who'[i] = who[i]
    BY <1>0, <1>1 DEF IndInv, Rest
  <2>2. \A i \in Ids : who[i] <= count /\ who[i] \in Nat
    BY <1>2 DEF IndInv, WhoInv, Rest
  <2>3. \A i \in heap' : who'[i] # 0 /\ who'[i] \notin stopped'
    <3>1. count + 1 \notin stopped
      BY <1>2 DEF IndInv, WhoInv
    <3> QED
      BY <1>0, <1>2, <1>4, <2>1, <3>1, PoolNow DEF IndInv, WhoInv, HeapOK
  <2>4. Out' => /\ task'[Irq].which # 0 /\ who'[task'[Irq].id] # 0
                /\ who'[task'[Irq].id] \in stopped' => alarm_in_progress' = 0
    <3>1. Out => task[Irq].id \in Ids /\ task[Irq].id # id
      BY <1>1 DEF IndInv, NodeInv, OutApart
    <3> QED
      BY <1>0, <1>6, <2>1, <3>1 DEF IndInv, WhoInv, Out
  <2>5. \A a \in stopped : a <= count + 1
    <3>1. stopped \subseteq Alarms /\ \A a \in stopped : a <= count
      BY DEF IndInv, WhoInv, Rest
    <3>2. \A a \in stopped : a \in Nat /\ a <= count
      BY <3>1 DEF Alarms
    <3> QED
      BY <1>2, <3>2
  <2>6. \A i \in Ids : who'[i] <= count'
    BY <1>0, <1>2, <2>1, <2>2
  <2>7. \A i, j \in Ids : who'[i] = who'[j] /\ who'[i] # 0 => i = j
    BY <1>2, <2>1, <2>2 DEF IndInv, WhoInv
  <2> QED
    BY <1>0, <2>3, <2>4, <2>5, <2>6, <2>7 DEF WhoInv
<1> QED
  BY <1>6, <1>7, <1>8, <1>9, <1>10, <1>11, <1>12 DEF IndInv

LEMMA AddSettledInd ==
  ASSUME IndInv, NEW x \in Threads, AddSettled(x)
  PROVE  IndInv'
<1> DEFINE id == task[x].id
<1>0. /\ at[x] = "settle" /\ task[x].kind = "add" /\ lock' = NoUser
      /\ IF task[x].missed THEN Remove(id) /\ free' = Freed(id) ELSE UNCHANGED <<heap, head, free>>
      /\ AddDone(x, task[x])
      /\ UNCHANGED <<timerVars, prompt, target, entry_ids_high, alarm_in_progress, left, repeats,
                     who, count, known, retired, stopped>>
  BY DEF AddSettled, timing, heapVars, history
<1>1. task[x] \in Tasks /\ id \in heap /\ id \in Ids /\ ~InFree(id) /\ x \in Contexts
  BY <1>0, RestNow, PoolNow, Contexture DEF IndInv, NodeInv, Busy
\* The interrupt holds another node.
<1>2. Out => task[Irq].id # id
  BY <1>1 DEF IndInv, NodeInv, OutApart
<1>3. PICK g \in {"past", "return"}, u \in Tasks : Go(x, g, u) /\ u.kind = "add"
  BY <1>0, <1>1, Done DEF IndInv
<1>4. Typed' /\ Only(x) /\ at'[x] = g /\ task'[x] = u
      /\ at'[Irq] = at[Irq] /\ task'[Irq] = task[Irq]
  BY <1>1, <1>3, Going, Contexture, Names DEF IndInv, Only
<1>5. /\ HeapOK' /\ Distinct' /\ free' \in Seq(Ids) /\ heap' \subseteq heap
      /\ \A i \in Ids : InFree(i)' => InFree(i) \/ (i = id /\ id \notin heap')
      /\ free' # << >> => /\ free # << >>
                          /\ \A i \in Ids : i \in heap \/ InFree(i) => i \in heap' \/ InFree(i)'
  <2>1. CASE task[x].missed
    <3>1. heap' = heap \ {id} /\ HeapOK'
      BY <1>0, <1>1, <2>1, PoolNow, Removing
    <3>2. /\ free' \in Seq(Ids) /\ Distinct'
          /\ \A j \in Ids : InFree(j)' => InFree(j) \/ j = id
          /\ free' # << >> => free # << >> /\ \A j \in Ids : InFree(j) \/ j = id => InFree(j)'
      <4>1. PICK i \in Ids : i = id
        BY <1>1
      <4>2. ~InFree(i) /\ free' = Freed(i)
        BY <1>0, <1>1, <2>1, <4>1
      <4>3. /\ free' \in Seq(Ids) /\ Distinct'
            /\ \A j \in Ids : InFree(j)' => InFree(j) \/ j = i
            /\ free' # << >> => free # << >> /\ InFree(i)' /\ \A j \in Ids : InFree(j) => InFree(j)'
        BY <4>2, PoolNow, Freeing
      <4> QED
        BY <4>1, <4>3
    <3> QED
      BY <1>1, <3>1, <3>2
  <2>2. CASE ~task[x].missed
    BY <1>0, <2>2, PoolNow DEF HeapOK, Distinct, InFree
  <2> QED
    BY <2>1, <2>2
<1>6. Rest'
  <2>1. TimerTypeOK(Contexts)'
    BY <1>0, RestNow
  <2> QED
    BY <1>0, <1>5, <2>1 DEF IndInv, Rest, HeapOK
<1>7. PlaceInv'
  BY <1>3, <1>4, ThreadPlaces DEF IndInv, Busy
<1>8. LockInv'
  BY <1>0, <1>1, <1>3, <1>4, LockGiven DEF IndInv, Busy
<1>9. NodeInv'
  <2>1. AllPlaced'
    BY <1>4, <1>5 DEF IndInv, NodeInv, AllPlaced, Out
  <2>2. OutApart'
    <3>1. Out => task[Irq].id \in Ids \ heap /\ ~InFree(task[Irq].id)
      BY DEF IndInv, NodeInv, OutApart
    <3>2. \A i \in Ids : i \notin heap /\ ~InFree(i) /\ i # id => i \notin heap' /\ ~InFree(i)'
      BY <1>5
    <3> QED
      BY <1>2, <1>4, <3>1, <3>2 DEF OutApart, Out, InFree
  <2>3. FreeApart'
    BY <1>5, PoolNow DEF FreeApart
  <2>4. \A y \in Threads : at'[y] \in Busy => task'[y].id \in heap'
    BY <1>0, <1>1, <1>3, <1>4, Alone, Contexture DEF IndInv, Only, Busy
  <2> QED
    BY <1>5, <2>1, <2>2, <2>3, <2>4 DEF NodeInv, HeapOK
<1>10. ProgressInv'
  BY <1>0, <1>4 DEF IndInv, ProgressInv, Out, Public
<1>11. WhoInv'
  BY <1>0, <1>4, <1>5 DEF IndInv, WhoInv, Out
<1> QED
  BY <1>4, <1>6, <1>7, <1>8, <1>9, <1>10, <1>11 DEF IndInv

\* The cancel of a node in the heap, of the alarm in progress, or of neither.
LEMMA CancelInd ==
  ASSUME IndInv, NEW x \in Threads, Cancel(x)
  PROVE  IndInv'
<1> DEFINE p == task[x].pid
           id == NodeOf(p)
<1>0. /\ at[x] = "entry" /\ lock = NoUser /\ Go(x, "idle", NoTask)
      /\ \/ id \in heap /\ Remove(id) /\ free' = Freed(id)
         \/ UNCHANGED <<heap, head, free>>
      /\ alarm_in_progress' = IF id \notin heap /\ p = alarm_in_progress
                              THEN 0 ELSE alarm_in_progress
      /\ stopped' = IF heap' # heap \/ alarm_in_progress' # alarm_in_progress
                    THEN stopped \cup {who[id]} ELSE stopped
      /\ UNCHANGED <<timerVars, prompt, lock, target, entry_ids_high, left, repeats, who,
                     count, known, retired>>
  BY DEF Cancel, timing, heapVars, Unlocked
<1>1. Typed' /\ Only(x) /\ at'[x] = "idle" /\ x \in Contexts
      /\ at'[Irq] = at[Irq] /\ task'[Irq] = task[Irq]
  BY <1>0, Going, Contexture, Names, NoTaskRecord DEF IndInv, Only
<1>2. /\ HeapOK' /\ Distinct' /\ free' \in Seq(Ids) /\ heap' \subseteq heap
      /\ heap' # heap => id \in heap /\ heap' = heap \ {id}
      /\ \A i \in Ids : InFree(i)' => InFree(i) \/ (i = id /\ i \in heap /\ i \notin heap')
      /\ free' # << >> => /\ free # << >>
                          /\ \A i \in Ids : i \in heap \/ InFree(i) => i \in heap' \/ InFree(i)'
  <2>1. CASE id \in heap /\ Remove(id) /\ free' = Freed(id)
    <3>0. id \in Ids /\ ~InFree(id)
      BY <2>1, PoolNow DEF HeapOK
    <3>1. heap' = heap \ {id} /\ HeapOK'
      BY <2>1, PoolNow, Removing
    <3>2. /\ free' \in Seq(Ids) /\ Distinct'
          /\ \A j \in Ids : InFree(j)' => InFree(j) \/ j = id
          /\ free' # << >> => free # << >> /\ \A j \in Ids : InFree(j) \/ j = id => InFree(j)'
      <4>1. PICK i \in Ids : i = id
        BY <3>0
      <4>2. ~InFree(i) /\ free' = Freed(i)
        BY <2>1, <3>0, <4>1
      <4>3. /\ free' \in Seq(Ids) /\ Distinct'
            /\ \A j \in Ids : InFree(j)' => InFree(j) \/ j = i
            /\ free' # << >> => free # << >> /\ InFree(i)' /\ \A j \in Ids : InFree(j) => InFree(j)'
        BY <4>2, PoolNow, Freeing
      <4> QED
        BY <4>1, <4>3
    <3> QED
      BY <2>1, <3>1, <3>2
  <2>2. CASE UNCHANGED <<heap, head, free>>
    BY <2>2, PoolNow DEF HeapOK, Distinct, InFree
  <2> QED
    BY <1>0, <2>1, <2>2
\* The alarm in progress is stopped at most while its callback runs.
<1>3. alarm_in_progress' # alarm_in_progress =>
        /\ alarm_in_progress' = 0 /\ heap' = heap
        /\ Out /\ id = task[Irq].id
  <2> SUFFICES ASSUME alarm_in_progress' # alarm_in_progress
               PROVE  alarm_in_progress' = 0 /\ heap' = heap /\ Out /\ id = task[Irq].id
    OBVIOUS
  <2>1. alarm_in_progress' = 0 /\ p = alarm_in_progress /\ alarm_in_progress # 0 /\ id \notin heap
    BY <1>0
  <2>2. at[Irq] \notin Busy
    BY <1>0, Alone, Contexture DEF IndInv
  <2>3. Out /\ p = Public(task[Irq].id)
    BY <2>1, <2>2 DEF IndInv, ProgressInv
  <2>4. task[Irq].id \in Ids
    BY <2>3 DEF IndInv, NodeInv, OutApart
  <2>5. id = task[Irq].id
    BY <2>3, <2>4, PublicIds DEF IndInv
  <2> QED
    BY <1>2, <2>1, <2>3, <2>5
<1>4. \/ stopped' = stopped /\ heap' = heap /\ alarm_in_progress' = alarm_in_progress
      \/ /\ stopped' = stopped \cup {who[id]} /\ id \in Ids /\ who[id] # 0
         /\ id \notin heap'
         /\ Out /\ task[Irq].id = id => alarm_in_progress' = 0
  <2>1. CASE heap' # heap
    <3>1. id \in Ids /\ id \in heap /\ id \notin heap'
      BY <1>2, <2>1, PoolNow DEF HeapOK
    <3>2. who[id] # 0 /\ (Out => task[Irq].id # id)
      BY <3>1 DEF IndInv, WhoInv, NodeInv, OutApart
    <3> QED
      BY <1>0, <2>1, <3>1, <3>2
  <2>2. CASE alarm_in_progress' # alarm_in_progress
    <3>1. Out /\ id = task[Irq].id /\ alarm_in_progress' = 0 /\ heap' = heap
      BY <1>3, <2>2
    <3>2. id \in Ids /\ id \notin heap /\ who[id] # 0
      BY <3>1 DEF IndInv, WhoInv, NodeInv, OutApart
    <3> QED
      BY <1>0, <2>2, <3>1, <3>2
  <2> QED
    BY <1>0, <2>1, <2>2
<1> HIDE DEF id, p
<1>5. Rest'
  <2>1. TimerTypeOK(Contexts)'
    BY <1>0, RestNow
  <2>2. stopped' \subseteq Alarms
    <3>1. id \in Ids /\ who[id] # 0 => who[id] \in Alarms
      BY AlarmPoolAssumption DEF IndInv, Rest, Alarms
    <3> QED
      BY <1>4, <3>1 DEF IndInv, Rest
  <2>3. alarm_in_progress' \in Nat
    BY <1>0 DEF IndInv, Rest
  <2> QED
    BY <1>0, <1>2, <2>1, <2>2, <2>3 DEF IndInv, Rest, HeapOK
<1>6. PlaceInv'
  BY <1>1, ThreadPlaces DEF IndInv
<1>7. LockInv'
  BY <1>0, <1>1, LockFrame DEF IndInv, Busy
<1>8. NodeInv'
  <2>1. AllPlaced'
    BY <1>1, <1>2 DEF IndInv, NodeInv, AllPlaced, Out
  <2>2. OutApart'
    <3>1. Out => task[Irq].id \in Ids \ heap /\ ~InFree(task[Irq].id)
      BY DEF IndInv, NodeInv, OutApart
    <3>2. \A i \in Ids : i \notin heap /\ ~InFree(i) => i \notin heap' /\ ~InFree(i)'
      BY <1>2
    <3> QED
      BY <1>1, <3>1, <3>2 DEF OutApart, Out, InFree
  <2>3. FreeApart'
    BY <1>2, PoolNow DEF FreeApart
  <2>4. \A y \in Threads : at'[y] \in Busy => task'[y].id \in heap'
    BY <1>0, <1>1, Alone, Contexture DEF IndInv, Only, Busy
  <2> QED
    BY <1>2, <2>1, <2>2, <2>3, <2>4 DEF NodeInv, HeapOK
<1>9. ProgressInv'
  BY <1>0, <1>1 DEF IndInv, ProgressInv, Out, Public
<1>10. WhoInv'
  <2>1. \A i \in heap' : who'[i] # 0 /\ who'[i] \notin stopped'
    <3>1. \A i \in heap' : i \in heap /\ i \in Ids /\ who[i] # 0 /\ who[i] \notin stopped
      BY <1>2, PoolNow DEF IndInv, WhoInv, HeapOK
    <3>2. id \in Ids /\ id \notin heap' => \A i \in heap' : who[i] # who[id]
      BY <3>1 DEF IndInv, WhoInv
    <3> QED
      BY <1>0, <1>4, <3>1, <3>2
  <2>2. Out' => /\ task'[Irq].which # 0 /\ who'[task'[Irq].id] # 0
                /\ who'[task'[Irq].id] \in stopped' => alarm_in_progress' = 0
    <3> SUFFICES ASSUME Out PROVE task[Irq].which # 0 /\ who[task[Irq].id] # 0
                                  /\ (who[task[Irq].id] \in stopped' => alarm_in_progress' = 0)
      BY <1>0, <1>1 DEF Out
    <3>1. /\ task[Irq].id \in Ids /\ task[Irq].which # 0 /\ who[task[Irq].id] # 0
          /\ who[task[Irq].id] \in stopped => alarm_in_progress = 0
      BY DEF IndInv, WhoInv, NodeInv, OutApart
    <3>2. id \in Ids /\ who[task[Irq].id] = who[id] => task[Irq].id = id
      BY <3>1 DEF IndInv, WhoInv
    <3> QED
      BY <1>0, <1>4, <3>1, <3>2
  <2>3. \A a \in stopped' : a <= count
    BY <1>4 DEF IndInv, WhoInv
  <2> QED
    BY <1>0, <2>1, <2>2, <2>3 DEF WhoInv, IndInv
<1> QED
  BY <1>1, <1>5, <1>6, <1>7, <1>8, <1>9, <1>10 DEF IndInv

-----------------------------------------------------------------------------
(* Steps of the interrupt that move nodes, or the lock *)

LEMMA RearmInd ==
  ASSUME IndInv, Rearm
  PROVE  IndInv'
<1>0. /\ at[Irq] = "peek" /\ lock = NoUser /\ heap # {} /\ lock' = Irq
      /\ Go(Irq, "check", [NoTask EXCEPT !.kind = "rearm", !.time = target[head]])
      /\ UNCHANGED <<timerVars, prompt, heap, head, free, target, entry_ids_high,
                     alarm_in_progress, left, repeats, who, count, known, retired, stopped>>
  BY DEF Rearm, timing, heapVars, history, Unlocked
<1>1. target[head] \in Nat
  BY <1>0, PoolNow DEF HeapOK
<1>2. PICK u \in Tasks : Go(Irq, "check", u) /\ u.kind = "rearm"
  BY <1>0, <1>1, TimedRearm, NoTaskRecord
<1>3. Typed' /\ Only(Irq) /\ at'[Irq] = "check" /\ task'[Irq] = u
  BY <1>2, Going, Contexture, Names DEF IndInv, Only, Busy
<1>4. Rest'
  <2>1. TimerTypeOK(Contexts)'
    BY <1>0, RestNow
  <2> QED
    BY <1>0, <2>1, Contexture DEF IndInv, Rest
<1>5. PlaceInv'
  BY <1>2, <1>3, IrqPlaces DEF IndInv, Busy
<1>6. LockInv'
  BY <1>0, <1>3, LockTaken, Contexture DEF IndInv, Busy
<1>7. NodeInv' /\ ProgressInv' /\ WhoInv'
  <2>1. PoolSame
    BY <1>0 DEF PoolSame
  <2> QED
    BY <1>0, <1>3, <2>1, IrqFrame DEF IndInv, Out, Busy
<1> QED
  BY <1>3, <1>4, <1>5, <1>6, <1>7 DEF IndInv

LEMMA IrqSettledInd ==
  ASSUME IndInv, IrqSettled
  PROVE  IndInv'
<1>0. /\ at[Irq] = "settle" /\ lock' = NoUser
      /\ alarm_in_progress' = IF task[Irq].kind = "again" THEN 0 ELSE alarm_in_progress
      /\ Go(Irq, AfterSettle(task[Irq]), NoTask)
      /\ UNCHANGED <<timerVars, prompt, heap, head, free, target, entry_ids_high,
                     left, repeats, who, count, known, retired, stopped>>
  BY DEF IrqSettled, timing, heapVars, history
<1>1. PICK g \in {"idle", "top"} : Go(Irq, g, NoTask)
  BY <1>0 DEF AfterSettle
<1>2. Typed' /\ Only(Irq) /\ at'[Irq] = g /\ ~Out /\ ~Out'
  BY <1>0, <1>1, Going, Contexture, Names, NoTaskRecord DEF IndInv, Only, Out
<1>3. Rest'
  <2>1. TimerTypeOK(Contexts)'
    BY <1>0, RestNow
  <2> QED
    BY <1>0, <2>1, Contexture DEF IndInv, Rest
<1>4. PlaceInv'
  BY <1>1, <1>2, IrqPlaces DEF IndInv, Busy
<1>5. LockInv'
  BY <1>0, <1>1, <1>2, LockGiven, Contexture DEF IndInv, Busy
<1>6. NodeInv'
  BY <1>0, <1>2, Contexture DEF IndInv, NodeInv, AllPlaced, OutApart, FreeApart, Distinct, InFree, Only
<1>7. ProgressInv'
  BY <1>0, <1>2 DEF IndInv, ProgressInv
<1>8. WhoInv'
  BY <1>0, <1>2 DEF IndInv, WhoInv
<1> QED
  BY <1>2, <1>3, <1>4, <1>5, <1>6, <1>7, <1>8 DEF IndInv

\* The head leaves the heap and is held by the interrupt.
LEMMA TakeHeadInd ==
  ASSUME IndInv, TakeHead
  PROVE  IndInv'
<1>0. /\ at[Irq] = "peek" /\ lock = NoUser /\ heap # {}
      /\ alarm_in_progress' = Public(head)
      /\ Go(Irq, "callback",
            [NoTask EXCEPT !.kind = "fire", !.id = head, !.time = target[head],
                           !.pid = Public(head), !.which = who[head]])
      /\ Remove(head)
      /\ UNCHANGED <<timerVars, prompt, lock, free, target, entry_ids_high, left, repeats,
                     who, count, known, retired, stopped>>
  BY DEF TakeHead, timing, history, Unlocked
<1>1. PICK h \in Ids : h = head /\ h \in heap
  BY <1>0, PoolNow DEF HeapOK
<1>2. target[h] \in Nat /\ who[h] \in 0..MaxAlarms /\ Public(h) \in Nat /\ Public(h) # 0
  BY PublicIds DEF IndInv, Rest
<1>3. PICK u \in Tasks : Go(Irq, "callback", u) /\ u.id = h /\ u.which # 0
  <2> DEFINE v == [NoTask EXCEPT !.kind = "fire", !.id = head, !.time = target[head],
                                 !.pid = Public(head), !.which = who[head]]
  <2>1. PICK n \in Nat, q \in Nat, w \in 0..MaxAlarms :
          n = target[h] /\ q = Public(h) /\ w = who[h] /\ w # 0
    BY <1>1, <1>2 DEF IndInv, WhoInv
  <2>2. v = [NoTask EXCEPT !.kind = "fire", !.id = h, !.time = n, !.pid = q, !.which = w]
    BY <1>1, <2>1
  <2>3. Go(Irq, "callback", v)
    BY <1>0
  <2> HIDE DEF v
  <2>4. h \in 0..max_nodes
    BY AlarmPoolAssumption DEF Ids
  <2>5. [NoTask EXCEPT !.kind = "fire", !.id = h, !.time = n] \in Tasks
    BY <2>4, NoTaskRecord DEF Tasks, Kinds
  <2>6. ASSUME NEW t \in Tasks
        PROVE  [t EXCEPT !.pid = q, !.which = w] \in Tasks
    BY DEF Tasks
  <2>7. v = [[NoTask EXCEPT !.kind = "fire", !.id = h, !.time = n] EXCEPT !.pid = q, !.which = w]
    BY <2>2
  <2>8. v.id = h /\ v.which = w
    BY <2>2 DEF NoTask
  <2> QED
    BY <2>1, <2>3, <2>5, <2>6, <2>7, <2>8
<1>4. Typed' /\ Only(Irq) /\ at'[Irq] = "callback" /\ task'[Irq] = u /\ ~Out /\ Out'
  BY <1>0, <1>3, Going, Contexture, Names DEF IndInv, Only, Out
<1>5. heap' = heap \ {h} /\ HeapOK' /\ ~InFree(h)
  BY <1>0, <1>1, PoolNow, Removing
<1>6. Rest'
  <2>1. TimerTypeOK(Contexts)'
    BY <1>0, RestNow
  <2> QED
    BY <1>0, <1>1, <1>2, <1>5, <2>1 DEF IndInv, Rest, HeapOK
<1>7. PlaceInv'
  BY <1>4, IrqPlaces DEF IndInv, Busy
<1>8. LockInv'
  BY <1>0, <1>4, LockFrame, Contexture DEF IndInv, Busy
<1>9. NodeInv'
  <2>1. AllPlaced'
    BY <1>0, <1>3, <1>4, <1>5 DEF IndInv, NodeInv, AllPlaced, InFree
  <2>2. OutApart'
    BY <1>0, <1>3, <1>4, <1>5 DEF OutApart, InFree
  <2>3. FreeApart' /\ Distinct'
    BY <1>0, <1>5 DEF IndInv, NodeInv, FreeApart, Distinct, InFree
  <2>4. \A y \in Threads : at'[y] \in Busy => task'[y].id \in heap'
    BY <1>0, <1>4, Alone, Contexture DEF IndInv, Only
  <2> QED
    BY <1>5, <2>1, <2>2, <2>3, <2>4 DEF NodeInv, HeapOK
<1>10. ProgressInv'
  BY <1>0, <1>1, <1>3, <1>4 DEF ProgressInv, Public
<1>11. WhoInv'
  BY <1>0, <1>1, <1>3, <1>4, <1>5 DEF IndInv, WhoInv
<1> QED
  BY <1>4, <1>6, <1>7, <1>8, <1>9, <1>10, <1>11 DEF IndInv

\* A node whose alarm was not cancelled meanwhile goes back into the heap.
LEMMA ReAddInd ==
  ASSUME IndInv, ReAdd
  PROVE  IndInv'
<1> DEFINE t == task[Irq]
           time == NewTime(t.repeat, t.time)
<1>0. /\ at[Irq] = "after" /\ lock = NoUser /\ alarm_in_progress # 0
      /\ Insert(t.id, time)
      /\ \/ /\ lock' = Irq /\ UNCHANGED alarm_in_progress
            /\ Go(Irq, "check", [t EXCEPT !.kind = "again", !.time = time])
         \/ /\ alarm_in_progress' = 0 /\ Go(Irq, "top", NoTask) /\ UNCHANGED lock
      /\ UNCHANGED <<timerVars, prompt, free, entry_ids_high, left, repeats,
                     who, count, known, retired, stopped>>
  BY DEF ReAdd, StillWanted, timing, history, Unlocked
<1>1. t \in Tasks /\ time \in Nat
  BY RestNow, Contexture, TaskFields, NewTimes
<1>2. PICK h \in Ids : h = t.id /\ h \notin heap /\ ~InFree(h) /\ Out
  BY <1>0 DEF IndInv, NodeInv, OutApart, Out
<1>3. PICK g \in {"check", "top"}, u \in Tasks :
        /\ Go(Irq, g, u) /\ (g = "check" => u.kind = "again")
        /\ lock' = IF g = "check" THEN Irq ELSE NoUser
        /\ alarm_in_progress' = IF g = "check" THEN alarm_in_progress ELSE 0
  <2>1. PICK v \in Tasks : v = [t EXCEPT !.kind = "again", !.time = time] /\ v.kind = "again"
    BY <1>1, TimedAgain
  <2> QED
    BY <1>0, <2>1, NoTaskRecord
<1>4. Typed' /\ Only(Irq) /\ at'[Irq] = g /\ task'[Irq] = u /\ ~Out'
  BY <1>3, Going, Contexture, Names DEF IndInv, Only, Out, Busy
<1>5. heap' = heap \cup {h} /\ HeapOK' /\ target' \in [Ids -> Nat]
  BY <1>0, <1>1, <1>2, PoolNow, Inserting
<1> HIDE DEF t, time
<1>6. Rest'
  <2>1. TimerTypeOK(Contexts)'
    BY <1>0, RestNow
  <2> QED
    BY <1>0, <1>3, <1>5, <2>1, Contexture DEF IndInv, Rest, HeapOK
<1>7. PlaceInv'
  BY <1>3, <1>4, IrqPlaces DEF IndInv, Busy
<1>8. LockInv'
  BY <1>0, <1>3, <1>4, LockTaken, Contexture DEF IndInv, Busy
<1>9. NodeInv'
  <2>1. AllPlaced'
    BY <1>0, <1>2, <1>5 DEF IndInv, NodeInv, AllPlaced, InFree, t
  <2>2. OutApart'
    BY <1>4 DEF OutApart
  <2>3. FreeApart' /\ Distinct'
    BY <1>0, <1>2, <1>5 DEF IndInv, NodeInv, FreeApart, Distinct, InFree
  <2>4. \A y \in Threads : at'[y] \in Busy => task'[y].id \in heap'
    BY <1>0, <1>4, Alone, Contexture DEF IndInv, Only
  <2> QED
    BY <1>5, <2>1, <2>2, <2>3, <2>4 DEF NodeInv, HeapOK
<1>10. ProgressInv'
  BY <1>3, <1>4 DEF ProgressInv, Busy
<1>11. WhoInv'
  <2>1. who[h] # 0 /\ who[h] \notin stopped
    BY <1>0, <1>2 DEF IndInv, WhoInv, t
  <2> QED
    BY <1>0, <1>4, <1>5, <2>1 DEF IndInv, WhoInv
<1> QED
  BY <1>4, <1>6, <1>7, <1>8, <1>9, <1>10, <1>11 DEF IndInv

\* A node whose alarm is over is freed.
LEMMA RetireInd ==
  ASSUME IndInv, Retire
  PROVE  IndInv'
<1>0. /\ at[Irq] = "after" /\ lock = NoUser
      /\ free' = Freed(task[Irq].id)
      /\ entry_ids_high' = [entry_ids_high EXCEPT ![task[Irq].id] = Bumped(@)]
      /\ alarm_in_progress' = 0 /\ retired' = retired \cup {task[Irq].which}
      /\ Go(Irq, "top", NoTask)
      /\ UNCHANGED <<timerVars, prompt, lock, heap, head, target, left, repeats, who,
                     count, known, stopped>>
  BY DEF Retire, timing, Unlocked
<1>1. PICK h \in Ids : h = task[Irq].id /\ h \notin heap /\ ~InFree(h) /\ Out
  BY <1>0 DEF IndInv, NodeInv, OutApart, Out
<1>2. Typed' /\ Only(Irq) /\ at'[Irq] = "top" /\ ~Out'
  BY <1>0, Going, Contexture, Names, NoTaskRecord DEF IndInv, Only, Out
<1>3. /\ free' \in Seq(Ids) /\ Distinct'
      /\ \A j \in Ids : InFree(j)' => InFree(j) \/ j = h
      /\ free' # << >> => free # << >> /\ InFree(h)' /\ \A j \in Ids : InFree(j) => InFree(j)'
  BY <1>0, <1>1, PoolNow, Freeing
<1>4. Rest'
  <2>1. TimerTypeOK(Contexts)'
    BY <1>0, RestNow
  <2>2. entry_ids_high' \in [Ids -> 0..255]
    <3>1. \A b \in 0..255 : Bumped(b) \in 0..255
      BY DEF Bumped
    <3>2. entry_ids_high \in [Ids -> 0..255]
      BY DEF IndInv, Rest
    <3>3. entry_ids_high' = [entry_ids_high EXCEPT ![h] = Bumped(@)]
      BY <1>0, <1>1
    <3> HIDE DEF Bumped
    <3> QED
      BY <3>1, <3>2, <3>3
  <2>3. retired' \subseteq Alarms
    <3>1. task[Irq].which \in 0..MaxAlarms /\ task[Irq].which # 0
      BY <1>1, RestNow, TaskFields, Contexture DEF IndInv, WhoInv
    <3>2. task[Irq].which \in Alarms
      BY <3>1, AlarmPoolAssumption DEF Alarms
    <3> QED
      BY <1>0, <3>2 DEF IndInv, Rest
  <2> QED
    BY <1>0, <1>3, <2>1, <2>2, <2>3 DEF IndInv, Rest
<1>5. PlaceInv'
  BY <1>2, IrqPlaces DEF IndInv, Busy
<1>6. LockInv'
  BY <1>0, <1>2, LockFrame, Contexture DEF IndInv, Busy
<1>7. NodeInv'
  <2>1. AllPlaced'
    BY <1>0, <1>1, <1>3 DEF IndInv, NodeInv, AllPlaced
  <2>2. OutApart'
    BY <1>2 DEF OutApart
  <2>3. FreeApart'
    BY <1>0, <1>1, <1>3, PoolNow DEF FreeApart
  <2>4. \A y \in Threads : at'[y] \in Busy => task'[y].id \in heap'
    BY <1>0, <1>2, Alone, Contexture DEF IndInv, Only
  <2> QED
    BY <1>0, <1>3, <2>1, <2>2, <2>3, <2>4 DEF IndInv, NodeInv
<1>8. ProgressInv'
  BY <1>0 DEF ProgressInv
<1>9. WhoInv'
  BY <1>0, <1>2 DEF IndInv, WhoInv
<1> QED
  BY <1>2, <1>4, <1>5, <1>6, <1>7, <1>8, <1>9 DEF IndInv

-----------------------------------------------------------------------------
(* The invariant, and the theorems *)

LEMMA InitInd ==
  ASSUME Init
  PROVE  IndInv
<1>1. at = [x \in Contexts |-> "idle"] /\ task = [x \in Contexts |-> NoTask] /\ lock = NoUser
      /\ heap = {} /\ head = 0 /\ free = [k \in Ids |-> k] /\ alarm_in_progress = 0
      /\ who = [i \in Ids |-> 0] /\ count = 0 /\ stopped = {}
  BY DEF Init
<1>2. Typed
  BY <1>1, NoTaskRecord, Names DEF Typed
<1>3. free \in Seq(Ids) /\ Len(free) = max_nodes
  BY <1>1, AlarmPoolAssumption DEF Ids
<1>4. Rest
  <2>1. TimerTypeOK(Contexts)
    <3>1. now \in 0..MaxTime /\ alarm \in 0..(LowWord - 1) /\ target_hi \in Nat
      BY HardwareAlarmAssumption DEF Init, TimerInit
    <3>2. armed \in BOOLEAN /\ intr \in BOOLEAN /\ latched \in BOOLEAN /\ pending \in BOOLEAN
      BY DEF Init, TimerInit
    <3>3. setter \in [user : Contexts \cup {NoUser}, old : BOOLEAN]
      BY DEF Init, TimerInit
    <3> QED
      BY <3>1, <3>2, <3>3 DEF TimerTypeOK
  <2>2. target \in [Ids -> Nat] /\ entry_ids_high \in [Ids -> 0..255] /\ known \in [Alarms -> Nat]
    BY DEF Init
  <2>3. who \in [Ids -> 0..MaxAlarms] /\ count \in 0..MaxAlarms /\ repeats \in 0..MaxRepeats
    BY <1>1, AlarmPoolAssumption DEF Init
  <2> QED
    BY <1>1, <1>3, <2>1, <2>2, <2>3, AlarmPoolAssumption DEF Init, Rest
<1>5. \A x \in Contexts : at[x] = "idle" /\ x # lock
  BY <1>1, Contexture
<1>6. PlaceInv /\ LockInv /\ ~Out
  BY <1>5, Contexture DEF PlaceInv, LockInv, Busy, Out
<1>7. NodeInv
  <2>1. \A k \in 1..Len(free) : free[k] = k
    BY <1>1, <1>3 DEF Ids
  <2>2. AllPlaced
    BY <1>3, <2>1 DEF AllPlaced, InFree, Ids
  <2>3. OutApart /\ FreeApart /\ Distinct
    BY <1>1, <1>6, <2>1 DEF OutApart, FreeApart, Distinct
  <2> QED
    BY <1>1, <1>5, <2>2, <2>3, Contexture DEF NodeInv, Busy
<1>8. ProgressInv /\ WhoInv
  BY <1>1, <1>6 DEF ProgressInv, WhoInv
<1> QED
  BY <1>2, <1>4, <1>6, <1>7, <1>8 DEF IndInv

LEMMA NextInd ==
  ASSUME IndInv, [Next]_vars
  PROVE  IndInv'
<1>1. CASE UNCHANGED vars
  BY <1>1, StutterInd
<1>2. CASE TimePasses
  BY <1>2, TimePassesInd
<1>3. CASE IrqStep
  BY <1>3, IrqWaits, TakeHeadInd, RearmInd, CallbackInd, ReAddInd, RetireInd, IrqSettledInd,
     CheckInd, SetTargetInd, Contexture DEF IrqStep
<1>4. CASE \E x \in Threads : ThreadStep(x) \/ CallAdd(x) \/ CallCancel(x)
  <2> SUFFICES ASSUME NEW x \in Threads, ThreadStep(x) \/ CallAdd(x) \/ CallCancel(x)
               PROVE  IndInv'
    BY <1>4
  <2> QED
    BY NoSpaceInd, AddNodeInd, AddSettledInd, RunPastInd, ReturnInd, CancelInd, CheckInd,
       SetTargetInd, CallAddInd, CallCancelInd, Contexture DEF ThreadStep
<1> QED
  BY <1>1, <1>2, <1>3, <1>4 DEF Next

LEMMA Invariance == Spec => []IndInv
<1>1. Init => IndInv
  BY InitInd
<1>2. IndInv /\ [Next]_vars => IndInv'
  BY NextInd
<1> QED
  BY <1>1, <1>2, PTL DEF Spec

\* Only the interrupt holds a node.
LEMMA HeldNow ==
  ASSUME PlaceInv
  PROVE  Held = IF Out THEN {task[Irq].id} ELSE {}
<1>1. \A y \in Contexts : at[y] \in {"callback", "after"} <=> y = Irq /\ Out
  BY Contexture DEF PlaceInv, Out, Busy
<1> QED
  BY <1>1, Contexture DEF Held

\* The nodes, the lock and the registers have their types in every state,
\* whatever the threads and the interrupt do: alarm_pool_add_alarm_at,
\* _cancel_alarm and alarm_pool_alarm_callback.
THEOREM TypeCorrect == Spec => []TypeOK
<1>1. IndInv => TypeOK
  BY TypeParts DEF IndInv
<1> QED
  BY <1>1, Invariance, PTL

\* Cancels, missed adds and callbacks that end free a node exactly once, and
\* no node is lost until the free list has run empty: any number of nodes.
THEOREM Accounted == Spec => []NodesAccounted
<1>1. ASSUME IndInv PROVE NodesAccounted
  <2>1. TypeOK
    BY <1>1, TypeParts DEF IndInv
  <2>2. Held = IF Out THEN {task[Irq].id} ELSE {}
    BY <1>1, HeldNow DEF IndInv
  <2>3. heap \subseteq Ids /\ \A k \in 1..Len(free) : free[k] \in Ids
    BY <1>1 DEF IndInv, Rest
  <2>4. Held \subseteq Ids /\ heap \cap Held = {}
    BY <1>1, <2>2 DEF IndInv, NodeInv, OutApart
  <2>5. \A i \in Ids : InFree(i) <=> i \in {free[k] : k \in 1..Len(free)}
    BY DEF InFree
  <2>6. free # << >> => heap \cup Held \cup {free[k] : k \in 1..Len(free)} = Ids
    <3> SUFFICES ASSUME free # << >>
                 PROVE  heap \cup Held \cup {free[k] : k \in 1..Len(free)} = Ids
      OBVIOUS
    <3>1. \A i \in Ids : i \in heap \cup Held \cup {free[k] : k \in 1..Len(free)}
      BY <1>1, <2>2, <2>5 DEF IndInv, NodeInv, AllPlaced
    <3> QED
      BY <2>3, <2>4, <3>1
  <2>7. \A k \in 1..Len(free) : free[k] \notin heap \cup Held
    BY <1>1, <2>2, <2>3 DEF IndInv, NodeInv, FreeApart, OutApart, InFree
  <2> QED
    BY <1>1, <2>1, <2>4, <2>6, <2>7 DEF NodesAccounted, IndInv, NodeInv, Distinct
<1> QED
  BY <1>1, Invariance, PTL

\* While the interrupt runs a callback, unlocked, the alarm in progress is
\* that callback's or has been cancelled, and its node is not in the heap:
\* the asserts of alarm_pool_alarm_callback.
THEOREM AssertsHold == Spec => []CallbackAsserts
<1>1. ASSUME IndInv PROVE CallbackAsserts
  <2> SUFFICES ASSUME Out
               PROVE  alarm_in_progress \in {0, Public(task[Irq].id)} /\ task[Irq].id \notin heap
    BY DEF CallbackAsserts, Out
  <2>1. at[Irq] \notin Busy
    BY DEF Out, Busy
  <2> QED
    BY <1>1, <2>1 DEF IndInv, NodeInv, OutApart, ProgressInv
<1> QED
  BY <1>1, Invariance, PTL

\* An alarm that alarm_pool_cancel_alarm has stopped is in the heap never
\* again, also when the cancel came between the callback and the lock that
\* alarm_pool_alarm_callback takes to re-add it.
THEOREM CancelFinal == Spec => []CancelIsFinal
<1>1. IndInv => CancelIsFinal
  BY DEF IndInv, WhoInv, CancelIsFinal
<1> QED
  BY <1>1, Invariance, PTL
-----------------------------------------------------------------------------
(* The public ids of retired alarms.  A node is retired at most once for   *)
(* an alarm, and a later alarm has a greater number: as long as these are  *)
(* below 256 the high byte of a node does not wrap.                        *)

InUse(i) == i \in heap \/ (Out /\ i = task[Irq].id)

\* The node of alarm a's public id p is not another alarm's under that id.
IdFresh(a, p) ==
  /\ NodeOf(p) \in Ids /\ HighOf(p) <= entry_ids_high[NodeOf(p)]
  /\ a <= count /\ \A j \in Ids : who[j] = a => j = NodeOf(p)
  /\ a \in retired => HighOf(p) < entry_ids_high[NodeOf(p)]

\* The ids that a thread has been given and not yet stored.
TaskFresh(x) ==
  /\ at[x] \in Busy => task[x].which = who[task[x].id]
  /\ at[x] = "return" /\ task[x].pid # 0 => IdFresh(task[x].which, task[x].pid)

NodesFresh ==
  /\ \A i \in Ids : /\ entry_ids_high[i] <= who[i]
                    /\ InUse(i) => entry_ids_high[i] < who[i] /\ who[i] \notin retired
  /\ \A a \in retired : a <= count

FreshInv ==
  count < 256 =>
    /\ NodesFresh
    /\ Out => task[Irq].which = who[task[Irq].id]
    /\ \A x \in Threads : TaskFresh(x)
    /\ \A a \in Alarms : known[a] # 0 => IdFresh(a, known[a])

\* The high byte of a public id.
LEMMA HighBytes ==
  ASSUME Rest, NEW i \in Ids
  PROVE  HighOf(Public(i)) = entry_ids_high[i] /\ entry_ids_high[i] \in 0..255
<1>1. entry_ids_high[i] \in 0..255 /\ i \in 1..255
  <2>1. entry_ids_high \in [Ids -> 0..255]
    BY DEF Rest
  <2>2. i \in 1..255
    BY AlarmPoolAssumption DEF Ids
  <2> QED
    BY <2>1, <2>2
<1>2. \A h \in 0..255, k \in 1..255 : ((h * 256 + k) \div 256) = h
  OBVIOUS
<1>3. \A p \in Nat : HighOf(p) = (p \div 256)
  BY DEF HighOf
<1>4. PICK h \in 0..255 : Public(i) = h * 256 + i /\ h = entry_ids_high[i]
  BY <1>1 DEF Public
<1>5. ((h * 256 + i) \div 256) = h /\ h * 256 + i \in Nat
  BY <1>1, <1>2
<1> QED
  BY <1>3, <1>4, <1>5

\* The field that set_target changes.
LEMMA FieldsKept ==
  ASSUME NEW t \in Tasks, NEW b \in BOOLEAN
  PROVE  [t EXCEPT !.missed = b].id = t.id /\ [t EXCEPT !.missed = b].which = t.which
  BY DEF Tasks

\* A step of x that allocates no node and retires none.
LEMMA FreshFrame ==
  ASSUME FreshInv, NEW x \in Contexts, Only(x), UNCHANGED <<who, count, entry_ids_high, retired>>,
         \A i \in Ids : InUse(i)' => InUse(i),
         count < 256 /\ Out' => task'[Irq].which = who[task'[Irq].id],
         x \in Threads /\ count < 256 => TaskFresh(x)',
         count < 256 => \A a \in Alarms : known'[a] # 0 => known'[a] = known[a] \/ IdFresh(a, known'[a])
  PROVE  FreshInv'
<1> SUFFICES ASSUME count < 256
             PROVE  /\ NodesFresh' /\ (Out' => task'[Irq].which = who[task'[Irq].id])
                    /\ \A y \in Threads : TaskFresh(y)'
                    /\ \A a \in Alarms : known'[a] # 0 => IdFresh(a, known[a])'
  BY DEF FreshInv
<1>1. \A a, p : IdFresh(a, p) => IdFresh(a, p)'
  BY DEF IdFresh
<1>2. NodesFresh'
  BY DEF FreshInv, NodesFresh
<1>3. ASSUME NEW y \in Threads PROVE TaskFresh(y)'
  <2>1. CASE y # x
    <3>1. at'[y] = at[y] /\ task'[y] = task[y]
      BY <2>1, Contexture DEF Only
    <3>2. TaskFresh(y)
      BY DEF FreshInv
    <3> QED
      BY <1>1, <3>1, <3>2 DEF TaskFresh
  <2> QED
    BY <2>1
<1>4. ASSUME NEW a \in Alarms, known'[a] # 0 PROVE IdFresh(a, known[a])'
  BY <1>1, <1>4 DEF FreshInv
<1> QED
  BY <1>2, <1>3, <1>4

\* A thread's step that leaves the nodes where they are, or frees some.
LEMMA ThreadFresh ==
  ASSUME FreshInv, NEW x \in Threads, Only(x), UNCHANGED <<who, count, entry_ids_high, retired>>,
         heap' \subseteq heap, count < 256 => TaskFresh(x)',
         count < 256 => \A a \in Alarms : known'[a] # 0 => known'[a] = known[a] \/ IdFresh(a, known'[a])
  PROVE  FreshInv'
<1>1. at'[Irq] = at[Irq] /\ task'[Irq] = task[Irq] /\ x \in Contexts
  BY Contexture DEF Only
<1>2. /\ \A i \in Ids : InUse(i)' => InUse(i)
      /\ count < 256 /\ Out' => task'[Irq].which = who[task'[Irq].id]
  BY <1>1 DEF InUse, Out, FreshInv
<1> QED
  BY <1>1, <1>2, FreshFrame

\* The public id that alarm_pool_add_alarm_at returns for a node in the heap.
LEMMA PublicFresh ==
  ASSUME IndInv, FreshInv, count < 256, NEW i \in heap
  PROVE  IdFresh(who[i], Public(i))
<1>1. i \in Ids /\ NodeOf(Public(i)) = i /\ HighOf(Public(i)) = entry_ids_high[i]
      /\ entry_ids_high[i] \in 0..255
  BY PublicIds, HighBytes DEF IndInv, Rest
<1>2. who[i] \notin retired /\ who[i] <= count /\ who[i] # 0
      /\ \A j \in Ids : who[j] = who[i] => j = i
  BY <1>1 DEF IndInv, WhoInv, FreshInv, NodesFresh, InUse
<1> QED
  BY <1>1, <1>2 DEF IdFresh

LEMMA ThreadStepFresh ==
  ASSUME IndInv, FreshInv, NEW x \in Threads,
         CallAdd(x) \/ CallCancel(x) \/ NoSpace(x) \/ RunPast(x) \/ Return(x) \/ Cancel(x)
  PROVE  FreshInv'
<1>0. x \in Contexts /\ task[x] \in Tasks /\ task[x].which \in 0..MaxAlarms /\ known \in [Alarms -> Nat]
      /\ \A a \in Alarms : known[a] \in Nat
  BY Contexture, RestNow, TaskFields
<1>1. ASSUME NEW g \in {"idle", "entry"}, NEW t \in Tasks, Go(x, g, t), heap' \subseteq heap,
             UNCHANGED <<who, count, entry_ids_high, retired, known>>
      PROVE  FreshInv'
  <2>1. Only(x) /\ at'[x] = g
    BY <1>0, <1>1, Going, Names DEF IndInv, Only
  <2>2. TaskFresh(x)'
    BY <2>1 DEF TaskFresh, Busy
  <2> QED
    BY <1>1, <2>1, <2>2, ThreadFresh
<1>2. CASE CallAdd(x)
  <2>1. PICK n \in Targets, f \in BOOLEAN : Go(x, "entry", [NoTask EXCEPT !.time = n, !.fire = f])
    BY <1>2 DEF CallAdd
  <2>2. [NoTask EXCEPT !.time = n, !.fire = f] \in Tasks
    BY TimedFire, NoTaskRecord, AlarmPoolAssumption
  <2> QED
    BY <1>1, <1>2, <2>1, <2>2 DEF CallAdd, history, heapVars
<1>3. CASE CallCancel(x)
  <2>1. PICK a \in Alarms : Go(x, "entry", [NoTask EXCEPT !.kind = "cancel", !.pid = known[a]])
    BY <1>3 DEF CallCancel
  <2>2. [NoTask EXCEPT !.kind = "cancel", !.pid = known[a]] \in Tasks
    BY <1>0, Cancelling, NoTaskRecord
  <2> QED
    BY <1>1, <1>3, <2>1, <2>2 DEF CallCancel, history, heapVars
<1>4. CASE NoSpace(x)
  BY <1>1, <1>4, NoTaskRecord DEF NoSpace, history, heapVars
<1>5. CASE Cancel(x)
  <2>1. heap' \subseteq heap
    BY <1>5 DEF Cancel, Remove, heapVars
  <2> QED
    BY <1>1, <1>5, <2>1, NoTaskRecord DEF Cancel
<1>6. CASE RunPast(x)
  <2>0. UNCHANGED <<who, count, entry_ids_high, retired, known, heap>> /\ at[x] = "past"
    BY <1>6 DEF RunPast, history, heapVars
  <2>1. PICK r \in Repeats :
          IF r = "no" THEN Go(x, "return", [NoTask EXCEPT !.which = task[x].which])
          ELSE Go(x, "entry", [task[x] EXCEPT !.time = NewTime(r, @)])
    BY <1>6 DEF RunPast
  <2>2. CASE r = "no"
    <3>0. PICK t : t = [NoTask EXCEPT !.which = task[x].which]
      OBVIOUS
    <3>1. t \in Tasks /\ t.pid = 0 /\ Go(x, "return", t)
      BY <1>0, <2>1, <2>2, <3>0, Ending
    <3>2. Only(x) /\ at'[x] = "return" /\ task'[x] = t
      BY <1>0, <3>1, Going, Names DEF IndInv, Only
    <3>3. TaskFresh(x)'
      BY <3>1, <3>2 DEF TaskFresh, Busy
    <3> QED
      BY <2>0, <3>2, <3>3, ThreadFresh
  <2>3. CASE r # "no"
    <3>1. [task[x] EXCEPT !.time = NewTime(r, @)] \in Tasks
      BY <1>0, TaskFields, NewTimes, Timed
    <3> QED
      BY <1>1, <2>0, <2>1, <2>3, <3>1
  <2> QED
    BY <2>2, <2>3
<1>7. CASE Return(x)
  <2>0. /\ UNCHANGED <<who, count, entry_ids_high, retired, heap>> /\ at[x] = "return"
        /\ Go(x, "idle", NoTask) /\ known' = [known EXCEPT ![task[x].which] = task[x].pid]
    BY <1>7 DEF Return, heapVars
  <2>1. Only(x) /\ at'[x] = "idle"
    BY <1>0, <2>0, Going, Names, NoTaskRecord DEF IndInv, Only
  <2>2. TaskFresh(x)'
    BY <2>1 DEF TaskFresh, Busy
  <2>3. ASSUME count < 256, NEW a \in Alarms, known'[a] # 0
        PROVE  known'[a] = known[a] \/ IdFresh(a, known'[a])
    <3>1. CASE a = task[x].which
      <4>1. known'[a] = task[x].pid
        BY <1>0, <2>0, <3>1
      <4> QED
        BY <2>0, <2>3, <3>1, <4>1 DEF FreshInv, TaskFresh
    <3>2. CASE a # task[x].which
      BY <1>0, <2>0, <3>2
    <3> QED
      BY <3>1, <3>2
  <2> QED
    BY <2>0, <2>1, <2>2, <2>3, ThreadFresh
<1> QED
  BY <1>2, <1>3, <1>4, <1>5, <1>6, <1>7

\* The interrupt's steps, but for Retire: the node whose callback it runs is
\* one it took from the heap.
LEMMA IrqFresh ==
  ASSUME FreshInv, Only(Irq), UNCHANGED <<who, count, entry_ids_high, retired, known>>,
         \A i \in Ids : InUse(i)' => InUse(i),
         count < 256 /\ Out' => task'[Irq].which = who[task'[Irq].id]
  PROVE  FreshInv'
  BY FreshFrame, Contexture

LEMMA IrqStepFresh ==
  ASSUME IndInv, FreshInv,
         \/ IrqEnter \/ IrqAccept \/ ReadTime \/ NothingLeft \/ TakeHead \/ Rearm
         \/ Callback \/ ReAdd \/ IrqSettled
  PROVE  FreshInv'
<1>0. Irq \in Contexts /\ task[Irq] \in Tasks /\ now \in Nat /\ target \in [Ids -> Nat]
      /\ heap \subseteq Ids /\ head \in heap \cup {0} /\ (heap # {} => head # 0)
  BY Contexture, RestNow DEF IndInv, NodeInv
\* It runs no callback after the step.
<1>1. ASSUME NEW g \in Stages \ {"callback", "after"}, NEW t \in Tasks, Go(Irq, g, t),
             heap' \subseteq heap \cup {i \in Ids : InUse(i)},
             UNCHANGED <<who, count, entry_ids_high, retired, known>>
      PROVE  FreshInv'
  <2>1. Only(Irq) /\ at'[Irq] = g
    BY <1>0, <1>1, Going DEF IndInv, Only
  <2>2. ~Out'
    BY <1>1, <2>1 DEF Out
  <2>3. \A i \in Ids : InUse(i)' => InUse(i)
    BY <1>1, <2>2 DEF InUse
  <2> QED
    BY <1>1, <2>1, <2>2, <2>3, IrqFresh
<1>2. CASE IrqEnter \/ IrqAccept \/ ReadTime \/ NothingLeft
  <2>1. UNCHANGED <<who, count, entry_ids_high, retired, known, heap>>
    BY <1>2 DEF IrqEnter, IrqAccept, ReadTime, NothingLeft, history, heapVars
  <2>2. PICK g \in {"idle", "accept", "valid", "rewind", "top", "peek"}, t \in Tasks : Go(Irq, g, t)
    <3>1. NoTask \in Tasks /\ [NoTask EXCEPT !.time = now] \in Tasks
      BY <1>0, NoTaskRecord, Timed
    <3> QED
      BY <1>2, <3>1 DEF IrqEnter, IrqAccept, ReadTime, NothingLeft
  <2> QED
    BY <1>1, <2>1, <2>2, Names
<1>3. CASE Rearm
  <2>1. UNCHANGED <<who, count, entry_ids_high, retired, known, heap>> /\ heap # {}
        /\ Go(Irq, "check", [NoTask EXCEPT !.kind = "rearm", !.time = target[head]])
    BY <1>3 DEF Rearm, history, heapVars
  <2>2. [NoTask EXCEPT !.kind = "rearm", !.time = target[head]] \in Tasks
    BY <1>0, <2>1, TimedRearm, NoTaskRecord
  <2> QED
    BY <1>1, <2>1, <2>2, Names DEF Busy
<1>4. CASE IrqSettled
  <2>1. UNCHANGED <<who, count, entry_ids_high, retired, known, heap>>
        /\ Go(Irq, AfterSettle(task[Irq]), NoTask)
    BY <1>4 DEF IrqSettled, history, heapVars
  <2>2. AfterSettle(task[Irq]) \in {"idle", "top"}
    BY DEF AfterSettle
  <2> QED
    BY <1>1, <2>1, <2>2, Names, NoTaskRecord
<1>5. CASE ReAdd
  <2>1. /\ UNCHANGED <<who, count, entry_ids_high, retired, known>> /\ at[Irq] = "after"
        /\ heap' = heap \cup {task[Irq].id}
        /\ LET t == [task[Irq] EXCEPT !.kind = "again",
                                      !.time = NewTime(task[Irq].repeat, task[Irq].time)]
           IN  Go(Irq, "check", t) \/ Go(Irq, "top", NoTask)
    BY <1>5 DEF ReAdd, Insert, history
  <2>2. NewTime(task[Irq].repeat, task[Irq].time) \in Nat
    BY <1>0, TaskFields, NewTimes
  <2>3. PICK g \in {"check", "top"}, t \in Tasks : Go(Irq, g, t)
    BY <1>0, <2>1, <2>2, TimedAgain, NoTaskRecord
  <2>4. heap' \subseteq heap \cup {i \in Ids : InUse(i)}
    <3>1. task[Irq].id \in Ids
      BY <2>1 DEF IndInv, NodeInv, OutApart, Out
    <3> QED
      BY <2>1, <3>1 DEF InUse, Out
  <2> QED
    BY <1>1, <2>1, <2>3, <2>4, Names DEF Busy
<1>6. CASE Callback
  <2>1. UNCHANGED <<who, count, entry_ids_high, retired, known, heap>> /\ at[Irq] = "callback"
    BY <1>6 DEF Callback, history, heapVars
  <2>2. PICK r \in Repeats : Go(Irq, "after", [task[Irq] EXCEPT !.repeat = r])
    BY <1>6 DEF Callback
  <2>3. PICK t \in Tasks : t = [task[Irq] EXCEPT !.repeat = r]
                           /\ t.id = task[Irq].id /\ t.which = task[Irq].which
    BY <1>0, Repeating
  <2>4. Only(Irq) /\ at'[Irq] = "after" /\ task'[Irq] = t
    BY <1>0, <2>2, <2>3, Going, Names DEF IndInv, Only
  <2>5. Out /\ \A i \in Ids : InUse(i)' => InUse(i)
    BY <2>1, <2>3, <2>4 DEF InUse, Out
  <2> QED
    BY <2>1, <2>3, <2>4, <2>5, IrqFresh DEF FreshInv
<1>7. CASE TakeHead
  <2>1. /\ UNCHANGED <<who, count, entry_ids_high, retired, known>> /\ heap # {}
        /\ Go(Irq, "callback",
              [NoTask EXCEPT !.kind = "fire", !.id = head, !.time = target[head],
                             !.pid = Public(head), !.which = who[head]])
        /\ heap' = heap \ {head}
    BY <1>7 DEF TakeHead, Remove, history
  <2>2. head \in heap /\ head \in Ids /\ target[head] \in Nat
    BY <1>0, <2>1
  <2>3. PICK i \in Ids, n \in Nat, p \in Nat, w \in 0..MaxAlarms :
          i = head /\ n = target[head] /\ p = Public(head) /\ w = who[head]
    BY <2>2, PublicIds DEF IndInv, Rest
  <2>4. PICK t : t = [NoTask EXCEPT !.kind = "fire", !.id = i, !.time = n, !.pid = p, !.which = w]
    OBVIOUS
  <2>5. t \in Tasks /\ t.id = i /\ t.which = w
    <3>1. i \in 0..max_nodes
      BY AlarmPoolAssumption DEF Ids
    <3> QED
      BY <2>4, <3>1, NoTaskRecord DEF Tasks, Kinds
  <2>6. Only(Irq) /\ at'[Irq] = "callback" /\ task'[Irq] = t
    BY <1>0, <2>1, <2>3, <2>4, <2>5, Going, Names DEF IndInv, Only
  <2>7. \A k \in Ids : InUse(k)' => InUse(k)
    BY <2>1, <2>2, <2>3, <2>5, <2>6 DEF InUse
  <2> QED
    BY <2>1, <2>3, <2>5, <2>6, <2>7, IrqFresh
<1> QED
  BY <1>2, <1>3, <1>4, <1>5, <1>6, <1>7

\* set_target keeps which node and which alarm it is called for.
LEMMA TargetFresh ==
  ASSUME IndInv, FreshInv, NEW x \in Contexts, Check(x) \/ SetTarget(x)
  PROVE  FreshInv'
<1>0. /\ UNCHANGED <<who, count, entry_ids_high, retired, known, heap>>
      /\ at[x] \in Busy /\ task[x] \in Tasks /\ task[x].time \in Nat
  BY RestNow, TaskFields DEF Check, SetTarget, history, heapVars, Busy
<1>1. PICK g \in Busy, t \in Tasks : Go(x, g, t) /\ t.id = task[x].id /\ t.which = task[x].which
  <2> DEFINE u == [task[x] EXCEPT !.missed = Overtaken(task[x].time)]
  <2>1. u \in Tasks /\ u.id = task[x].id /\ u.which = task[x].which
    <3>1. Overtaken(task[x].time) \in BOOLEAN
      BY <1>0 DEF Overtaken
    <3> QED
      BY <1>0, <3>1, Missing, FieldsKept
  <2>2. \/ Go(x, "write", task[x]) \/ Go(x, "verify", task[x]) \/ Go(x, "late", task[x])
        \/ Go(x, "settle", task[x]) \/ Go(x, "settle", u) \/ Go(x, "program", u)
    BY DEF Check, SetTarget
  <2> HIDE DEF u
  <2> QED
    BY <1>0, <2>1, <2>2 DEF Busy
<1>2. Only(x) /\ at'[x] = g /\ task'[x] = t
  BY <1>1, Going, Names DEF IndInv, Only
<1>3. CASE x \in Threads
  <2>1. count < 256 => TaskFresh(x)'
    BY <1>0, <1>1, <1>2, <1>3 DEF FreshInv, TaskFresh, Busy
  <2> QED
    BY <1>0, <1>2, <1>3, <2>1, ThreadFresh
<1>4. CASE x = Irq
  <2>1. ~Out' /\ \A i \in Ids : InUse(i)' => InUse(i)
    BY <1>0, <1>2, <1>4 DEF Out, InUse, Busy
  <2> QED
    BY <1>0, <1>2, <1>4, <2>1, IrqFresh
<1> QED
  BY <1>3, <1>4, Contexture

\* The public id of an added node is fresh.
LEMMA AddSettledFresh ==
  ASSUME IndInv, FreshInv, NEW x \in Threads, AddSettled(x)
  PROVE  FreshInv'
<1>0. /\ at[x] = "settle" /\ task[x].kind = "add" /\ AddDone(x, task[x])
      /\ UNCHANGED <<who, count, entry_ids_high, retired, known>> /\ heap' \subseteq heap
  BY DEF AddSettled, Remove, history, heapVars
<1>1. x \in Contexts /\ task[x] \in Tasks /\ task[x].id \in heap /\ task[x].id \in Ids
  BY <1>0, Contexture, RestNow DEF IndInv, NodeInv, Busy
<1>2. PICK g \in {"past", "return"}, u \in Tasks :
        /\ Go(x, g, u) /\ u.which = task[x].which
        /\ g = "return" /\ u.pid # 0 => u.pid = Public(task[x].id)
  BY <1>0, <1>1, Done DEF IndInv
<1>3. Only(x) /\ at'[x] = g /\ task'[x] = u
  BY <1>1, <1>2, Going, Names DEF IndInv, Only
<1>4. ASSUME count < 256 PROVE TaskFresh(x)'
  <2>1. task[x].which = who[task[x].id]
    BY <1>0, <1>4 DEF FreshInv, TaskFresh, Busy
  <2>2. g = "return" /\ u.pid # 0 => IdFresh(u.which, u.pid)
    BY <1>1, <1>2, <1>4, <2>1, PublicFresh
  <2>3. g = "return" /\ u.pid # 0 => IdFresh(task[x].which, task[x].pid)'
    BY <1>0, <1>3, <2>2 DEF IdFresh
  <2> QED
    BY <1>2, <1>3, <2>3 DEF TaskFresh, Busy
<1> QED
  BY <1>0, <1>3, <1>4, ThreadFresh

LEMMA AddNodeFresh ==
  ASSUME IndInv, FreshInv, NEW x \in Threads, AddNode(x)
  PROVE  FreshInv'
<1> DEFINE id == Head(free)
           t == [task[x] EXCEPT !.id = id, !.which = count + 1]
<1>0. /\ at[x] = "entry" /\ task[x].kind = "add" /\ lock = NoUser /\ free # << >> /\ count < MaxAlarms
      /\ free' = Tail(free) /\ count' = count + 1 /\ who' = [who EXCEPT ![id] = count + 1]
      /\ Go(x, "check", t) \/ AddDone(x, t)
      /\ heap' = heap \cup {id} /\ UNCHANGED <<entry_ids_high, retired, known>>
  BY DEF AddNode, Insert, Unlocked
<1>1. id \in Ids /\ InFree(id)
  BY <1>0, PoolNow, Allocating
<1>2. task[x] \in Tasks /\ x \in Contexts /\ count \in Nat /\ count + 1 \in 0..MaxAlarms
  <2>1. count \in 0..MaxAlarms
    BY DEF IndInv, Rest
  <2> QED
    BY <1>0, <2>1, RestNow, Contexture, AlarmPoolAssumption
<1>3. t \in Tasks /\ t.id = id /\ t.which = count + 1 /\ t.kind = "add"
  <2>1. PICK i \in Ids, w \in 0..MaxAlarms, r \in Tasks : i = id /\ w = count + 1 /\ r = task[x]
    BY <1>1, <1>2
  <2>2. PICK v : v = [r EXCEPT !.id = i, !.which = w]
    OBVIOUS
  <2>3. v \in Tasks /\ v.id = i /\ v.which = w /\ v.kind = r.kind
    <3>1. i \in 0..max_nodes
      BY AlarmPoolAssumption DEF Ids
    <3> QED
      BY <2>2, <3>1 DEF Tasks
  <2>4. t = v
    BY <2>1, <2>2
  <2> HIDE DEF t, id
  <2> QED
    BY <1>0, <2>1, <2>3, <2>4
<1>4. PICK g \in {"check", "past", "return"}, u \in Tasks :
        /\ Go(x, g, u) /\ u.which = count + 1
        /\ g = "check" => u.id = id
        /\ g = "return" /\ u.pid # 0 => u.pid = Public(id)
  <2> HIDE DEF t
  <2>1. CASE Go(x, "check", t)
    BY <1>3, <2>1
  <2>2. CASE AddDone(x, t)
    BY <1>1, <1>3, <2>2, Done DEF IndInv
  <2> QED
    BY <1>0, <2>1, <2>2
<1> HIDE DEF t
<1>5. Only(x) /\ at'[x] = g /\ task'[x] = u
  BY <1>2, <1>4, Going, Names DEF IndInv, Only, Busy
<1>6. at'[Irq] = at[Irq] /\ task'[Irq] = task[Irq] /\ (Out' <=> Out)
      /\ (Out => task[Irq].id \in Ids /\ task[Irq].id # id)
  BY <1>1, <1>5, Contexture DEF Only, Out, IndInv, NodeInv, OutApart
<1> SUFFICES ASSUME count' < 256
             PROVE  /\ NodesFresh' /\ (Out => task[Irq].which = who'[task[Irq].id])
                    /\ \A y \in Threads : TaskFresh(y)'
                    /\ \A a \in Alarms : known[a] # 0 => IdFresh(a, known[a])'
  BY <1>0, <1>6 DEF FreshInv, Out
<1>7. count < 256
  BY <1>0, <1>2
<1>8. /\ who'[id] = count + 1 /\ \A j \in Ids : j # id => who'[j] = who[j]
      /\ \A j \in Ids : who[j] \in Nat /\ who[j] <= count
  BY <1>0, <1>1 DEF IndInv, Rest, WhoInv
<1> HIDE DEF id
<1>9. \A a, p : IdFresh(a, p) /\ a \in Nat => IdFresh(a, p)'
  BY <1>0, <1>2, <1>8 DEF IdFresh
<1>10. NodesFresh'
  <2>1. \A a \in retired : a \in Nat /\ a <= count
    BY <1>7 DEF FreshInv, NodesFresh, IndInv, Rest, Alarms
  <2>2. ASSUME NEW i \in Ids
        PROVE  /\ entry_ids_high[i] <= who'[i]
               /\ InUse(i)' => entry_ids_high[i] < who'[i] /\ who'[i] \notin retired
    <3>0. entry_ids_high[i] \in Nat /\ entry_ids_high[i] <= who[i]
      BY <1>7, <2>2, HighBytes DEF FreshInv, NodesFresh, IndInv
    <3>1. CASE i = id
      <4>1. who'[i] = count + 1 /\ who[i] <= count
        BY <1>8, <3>1
      <4>2. who'[i] \notin retired
        BY <1>2, <2>1, <4>1
      <4> QED
        BY <1>2, <1>8, <3>0, <4>1, <4>2
    <3>2. CASE i # id
      <4>1. who'[i] = who[i] /\ (InUse(i)' => InUse(i))
        BY <1>0, <1>6, <1>8, <3>2 DEF InUse
      <4> QED
        BY <1>7, <4>1 DEF FreshInv, NodesFresh
    <3> QED
      BY <3>1, <3>2
  <2> QED
    BY <1>0, <1>2, <2>1, <2>2 DEF NodesFresh
<1>11. Out => task[Irq].which = who'[task[Irq].id]
  BY <1>6, <1>7, <1>8 DEF FreshInv
<1>12. ASSUME NEW y \in Threads PROVE TaskFresh(y)'
  <2>1. CASE y = x
    <3>1. CASE g = "check"
      BY <1>4, <1>5, <1>8, <2>1, <3>1 DEF TaskFresh
    <3>2. CASE g = "return" /\ u.pid # 0
      <4>1. u.pid = Public(id) /\ NodeOf(Public(id)) = id /\ HighOf(Public(id)) = entry_ids_high[id]
        BY <1>1, <1>4, <3>2, PublicIds, HighBytes DEF IndInv, id
      <4>2. entry_ids_high[id] \in Nat /\ id \in Ids
        BY <1>1, HighBytes DEF IndInv, id
      <4>3. count + 1 \notin retired
        BY <1>2, <1>7 DEF FreshInv, NodesFresh, IndInv, Rest, Alarms
      <4>4. \A j \in Ids : who'[j] = count + 1 => j = id
        BY <1>2, <1>8
      <4>5. task'[x].pid = Public(id) /\ task'[x].which = count + 1
        BY <1>4, <1>5, <4>1
      <4>6. IdFresh(task[x].which, task[x].pid)'
        BY <1>0, <1>2, <4>1, <4>2, <4>3, <4>4, <4>5 DEF IdFresh
      <4> QED
        BY <1>4, <1>5, <2>1, <3>2, <4>6 DEF TaskFresh, Busy
    <3>3. CASE g = "past" \/ (g = "return" /\ u.pid = 0)
      BY <1>4, <1>5, <2>1, <3>3 DEF TaskFresh, Busy
    <3> QED
      BY <3>1, <3>2, <3>3
  <2>2. CASE y # x
    <3>1. at'[y] = at[y] /\ task'[y] = task[y] /\ at[y] \notin Busy /\ y \in Contexts
      BY <1>0, <1>5, <2>2, Alone, Contexture DEF Only, IndInv
    <3>2. TaskFresh(y) /\ task[y].which \in Nat
      BY <1>7, <3>1, RestNow, TaskFields DEF FreshInv
    <3>3. at[y] = "return" /\ task[y].pid # 0 => IdFresh(task[y].which, task[y].pid)'
      BY <1>9, <3>1, <3>2 DEF TaskFresh
    <3> QED
      BY <3>1, <3>2, <3>3 DEF TaskFresh
  <2> QED
    BY <2>1, <2>2
<1>13. ASSUME NEW a \in Alarms, known[a] # 0 PROVE IdFresh(a, known[a])'
  <2>1. IdFresh(a, known[a]) /\ a \in Nat
    BY <1>7, <1>13 DEF FreshInv, Alarms
  <2>2. PICK p : p = known[a]
    OBVIOUS
  <2>3. IdFresh(a, p)'
    BY <1>9, <2>1, <2>2
  <2> QED
    BY <1>0, <2>2, <2>3 DEF IdFresh
<1> QED
  BY <1>10, <1>11, <1>12, <1>13

\* The high byte of the node is bumped, and does not wrap.
LEMMA RetireFresh ==
  ASSUME IndInv, FreshInv, Retire
  PROVE  FreshInv'
<1>0. /\ at[Irq] = "after" /\ UNCHANGED <<heap, who, count, known>>
      /\ entry_ids_high' = [entry_ids_high EXCEPT ![task[Irq].id] = Bumped(@)]
      /\ retired' = retired \cup {task[Irq].which}
      /\ Go(Irq, "top", NoTask)
  BY DEF Retire
<1>1. PICK h \in Ids : h = task[Irq].id /\ h \notin heap /\ Out
  BY <1>0 DEF IndInv, NodeInv, OutApart, Out
<1>2. Only(Irq) /\ at'[Irq] = "top" /\ ~Out'
  BY <1>0, Going, Contexture, Names, NoTaskRecord DEF IndInv, Only, Out
<1> SUFFICES ASSUME count < 256
             PROVE  /\ NodesFresh' /\ \A x \in Threads : TaskFresh(x)'
                    /\ \A a \in Alarms : known[a] # 0 => IdFresh(a, known[a])'
  BY <1>0, <1>2 DEF FreshInv
<1>3. /\ task[Irq].which = who[h] /\ who[h] # 0 /\ InUse(h)
      /\ entry_ids_high[h] < who[h] /\ who[h] \in Nat /\ who[h] <= count /\ count \in Nat
      /\ entry_ids_high[h] \in 0..255
      /\ \A j \in Ids : who[j] = who[h] => j = h
  <2>1. task[Irq].which = who[h] /\ InUse(h) /\ entry_ids_high[h] < who[h]
    BY <1>1 DEF FreshInv, NodesFresh, InUse
  <2>2. who[h] \in Nat /\ count \in Nat
    BY DEF IndInv, Rest
  <2>3. who[h] # 0 /\ who[h] <= count /\ \A j \in Ids : who[j] = who[h] => j = h
    BY <1>1 DEF IndInv, WhoInv
  <2>4. entry_ids_high[h] \in 0..255
    BY HighBytes DEF IndInv
  <2> QED
    BY <2>1, <2>2, <2>3, <2>4
<1>4. Bumped(entry_ids_high[h]) = entry_ids_high[h] + 1
  <2>1. \A b \in 0..254 : Bumped(b) = b + 1
    BY DEF Bumped
  <2>2. entry_ids_high[h] \in 0..254
    BY <1>3
  <2> QED
    BY <2>1, <2>2
<1>5. /\ entry_ids_high'[h] = entry_ids_high[h] + 1
      /\ \A i \in Ids : i # h => entry_ids_high'[i] = entry_ids_high[i]
      /\ \A i \in Ids : entry_ids_high[i] \in Nat
  <2>1. entry_ids_high \in [Ids -> 0..255]
    BY DEF IndInv, Rest
  <2>2. entry_ids_high' = [entry_ids_high EXCEPT ![h] = entry_ids_high[h] + 1]
    BY <1>0, <1>1, <1>4
  <2> QED
    BY <2>1, <2>2
<1>6. retired' = retired \cup {who[h]}
  BY <1>0, <1>3
<1>7. ASSUME NEW a, NEW p \in Nat, IdFresh(a, p) PROVE IdFresh(a, p)'
  <2>1. PICK i \in Ids : i = NodeOf(p)
    BY <1>7 DEF IdFresh
  <2>2. PICK n \in Int : n = HighOf(p)
    BY DEF HighOf
  <2>3. entry_ids_high[i] \in Nat /\ n <= entry_ids_high[i]
    BY <1>5, <1>7, <2>1, <2>2 DEF IdFresh
  <2>4. n <= entry_ids_high'[i] /\ (n < entry_ids_high[i] => n < entry_ids_high'[i])
        /\ (i = h => n < entry_ids_high'[i])
    BY <1>5, <2>3
  <2>5. a \in retired' => n < entry_ids_high'[i]
    <3>1. a = who[h] => i = h
      BY <1>1, <1>7, <2>1 DEF IdFresh
    <3>2. a \in retired => n < entry_ids_high[i]
      BY <1>7, <2>1, <2>2 DEF IdFresh
    <3> QED
      BY <1>6, <2>4, <3>1, <3>2
  <2> QED
    BY <1>0, <1>7, <2>1, <2>2, <2>4, <2>5 DEF IdFresh
<1>8. NodesFresh'
  <2>1. ASSUME NEW i \in Ids
        PROVE  /\ entry_ids_high'[i] <= who[i]
               /\ InUse(i)' => entry_ids_high'[i] < who[i] /\ who[i] \notin retired'
    <3>1. CASE i = h
      <4>1. ~InUse(i)'
        BY <1>0, <1>1, <1>2, <3>1 DEF InUse
      <4>2. entry_ids_high'[i] <= who[i]
        BY <1>3, <1>5, <3>1
      <4> QED
        BY <4>1, <4>2
    <3>2. CASE i # h
      <4>1. InUse(i)' => InUse(i)
        BY <1>0, <1>2 DEF InUse
      <4> QED
        BY <1>3, <1>5, <1>6, <3>2, <4>1 DEF FreshInv, NodesFresh
    <3> QED
      BY <3>1, <3>2
  <2>2. \A a \in retired' : a <= count
    BY <1>3, <1>6 DEF FreshInv, NodesFresh
  <2> QED
    BY <1>0, <2>1, <2>2 DEF NodesFresh
<1>9. ASSUME NEW x \in Threads PROVE TaskFresh(x)'
  <2>1. at'[x] = at[x] /\ task'[x] = task[x] /\ task[x].pid \in Nat
    BY <1>2, Contexture, RestNow, TaskFields DEF Only
  <2>2. TaskFresh(x)
    BY DEF FreshInv
  <2>3. at[x] = "return" /\ task[x].pid # 0 => IdFresh(task[x].which, task[x].pid)'
    <3>0. PICK a : a = task[x].which
      OBVIOUS
    <3>1. PICK p \in Nat : p = task[x].pid
      BY <2>1
    <3>2. at[x] = "return" /\ task[x].pid # 0 => IdFresh(a, p)'
      BY <1>7, <2>2, <3>0, <3>1 DEF TaskFresh
    <3> QED
      BY <2>1, <3>0, <3>1, <3>2 DEF IdFresh
  <2> QED
    BY <1>0, <2>1, <2>2, <2>3 DEF TaskFresh
<1>10. ASSUME NEW a \in Alarms, known[a] # 0 PROVE IdFresh(a, known[a])'
  <2>1. PICK p \in Nat : p = known[a] /\ IdFresh(a, p)
    BY <1>10, RestNow DEF FreshInv
  <2>2. IdFresh(a, p)'
    BY <1>7, <2>1
  <2> QED
    BY <1>0, <2>1, <2>2 DEF IdFresh
<1> QED
  BY <1>8, <1>9, <1>10

LEMMA InitFresh ==
  ASSUME Init
  PROVE  FreshInv
<1>1. /\ at = [x \in Contexts |-> "idle"] /\ heap = {} /\ who = [i \in Ids |-> 0] /\ count = 0
      /\ entry_ids_high = [i \in Ids |-> 0] /\ known = [a \in Alarms |-> 0] /\ retired = {}
  BY DEF Init
<1>2. ~Out /\ \A x \in Threads : at[x] = "idle"
  BY <1>1, Contexture DEF Out
<1>3. NodesFresh
  BY <1>1, <1>2 DEF NodesFresh, InUse
<1>4. \A x \in Threads : TaskFresh(x)
  BY <1>2 DEF TaskFresh, Busy
<1>5. \A a \in Alarms : known[a] = 0
  BY <1>1
<1> QED
  BY <1>2, <1>3, <1>4, <1>5 DEF FreshInv

LEMMA NextFresh ==
  ASSUME IndInv, FreshInv, [Next]_vars
  PROVE  FreshInv'
<1>1. CASE UNCHANGED vars \/ TimePasses
  <2>1. UNCHANGED <<at, task, heap, entry_ids_high, who, count, known, retired>>
    BY <1>1 DEF vars, TimePasses, heapVars, history
  <2>2. NodesFresh' <=> NodesFresh
    BY <2>1 DEF NodesFresh, InUse, Out
  <2>3. \A a, p : IdFresh(a, p)' <=> IdFresh(a, p)
    BY <2>1 DEF IdFresh
  <2>4. Only(Irq) /\ (Out' <=> Out) /\ \A i \in Ids : InUse(i)' => InUse(i)
    BY <2>1 DEF Only, Out, InUse
  <2> QED
    BY <2>1, <2>4, IrqFresh DEF FreshInv
<1>2. CASE IrqStep
  BY <1>2, IrqStepFresh, RetireFresh, TargetFresh, Contexture DEF IrqStep
<1>3. CASE \E x \in Threads : ThreadStep(x) \/ CallAdd(x) \/ CallCancel(x)
  <2> SUFFICES ASSUME NEW x \in Threads, ThreadStep(x) \/ CallAdd(x) \/ CallCancel(x)
               PROVE  FreshInv'
    BY <1>3
  <2> QED
    BY ThreadStepFresh, AddNodeFresh, AddSettledFresh, TargetFresh, Contexture DEF ThreadStep
<1> QED
  BY <1>1, <1>2, <1>3 DEF Next

\* The high byte of a public id is 8 bits wide: until 256 alarms have been
\* allocated, a cancel with the public id of an alarm whose node
\* alarm_pool_alarm_callback has freed cancels no later alarm of that node.
THEOREM RetiredFresh == Spec => [](count < 256 => RetiredIdsAreFresh)
<1>1. ASSUME IndInv, FreshInv, count < 256, NEW i \in heap, NEW a \in retired, known[a] # 0
      PROVE  known[a] # Public(i)
  <2>1. i \in Ids /\ a \in Alarms
    BY <1>1 DEF IndInv, Rest
  <2>2. IdFresh(a, known[a])
    BY <1>1, <2>1 DEF FreshInv
  <2>3. NodeOf(Public(i)) = i /\ HighOf(Public(i)) = entry_ids_high[i] /\ entry_ids_high[i] \in Nat
    BY <1>1, <2>1, PublicIds, HighBytes DEF IndInv
  <2> SUFFICES ASSUME known[a] = Public(i) PROVE FALSE
    OBVIOUS
  <2>4. entry_ids_high[i] < entry_ids_high[i]
    BY <1>1, <2>2, <2>3 DEF IdFresh
  <2> QED
    BY <2>3, <2>4
<1>2. IndInv /\ FreshInv => (count < 256 => RetiredIdsAreFresh)
  BY <1>1 DEF RetiredIdsAreFresh
<1>3. Init => FreshInv
  BY InitFresh
<1>4. IndInv /\ FreshInv /\ [Next]_vars => FreshInv'
  BY NextFresh
<1> QED
  BY <1>2, <1>3, <1>4, Invariance, PTL DEF Spec
-----------------------------------------------------------------------------
(* The alarm of the hardware covers the heap *)

\* The registers are set for u, and the alarm is raised or will match at u.
Aimed(u) == Lo(u) = alarm /\ Hi(u) = target_hi
Ahead(u) == intr \/ (armed /\ now < u)

\* The handler has cleared the IRQ and not yet looked at what is pending.
Handling == at[Irq] \in {"valid", "rewind"}

\* The interrupt comes, or is being taken, no later than at t.
Cover(t) == pending /\ \E u \in Nat : u <= t /\ Aimed(u) /\ (Ahead(u) \/ Handling)

\* In set_target under the timer's lock.
Racing == {"write", "verify", "late"}

\* A thread is at work on node i: it will set the alarm for it, is between
\* the writes and the check, or will remove the node.
OwedBy(x, i) ==
  \/ i = task[x].id /\ (at[x] \in {"check", "program"} \/ (at[x] = "settle" /\ task[x].missed))
  \/ at[x] \in Racing
Owed(i) == \E x \in Threads : OwedBy(x, i)

\* The interrupt is not in its loop: only a new interrupt looks at the heap.
Watching ==
  \/ at[Irq] \in {"idle", "accept", "valid", "rewind"}
  \/ at[Irq] = "settle" /\ task[Irq].kind = "rearm" /\ ~task[Irq].missed

OrderInv == \A i \in heap : target[head] <= target[i]
TimeInv == \A x \in Contexts : at[x] \in Busy => task[x].time = target[head]
SetterInv == \A x \in Contexts : at[x] \in Racing \cup {"valid", "rewind"} => setter.user = x
ProgramInv == \A x \in Contexts : at[x] \in {"program", "write"} => now < task[x].time
RewindInv == at[Irq] = "rewind" => pending /\ Hi(now) < target_hi
VerifyInv ==
  \A x \in Contexts :
    /\ at[x] \in Racing => pending
    /\ at[x] \in {"verify", "late"} => Aimed(task[x].time) /\ Ahead(task[x].time)

\* A thread that found nothing pending withdraws the alarm from nobody else.
SingleInv ==
  \A x \in Threads :
    at[x] \in Racing /\ ~setter.old /\ Watching => \A i \in heap : i = task[x].id

CoverInv == Watching => \A i \in heap : Cover(target[i]) \/ Owed(i)

PromptInv == ProgramInv /\ RewindInv /\ VerifyInv /\ SingleInv /\ CoverInv
AlarmInv == OrderInv /\ TimeInv /\ SetterInv /\ (prompt => PromptInv)

\* What of the timer these invariants read.
registers == <<now, armed, alarm, intr, pending, target_hi, setter>>

\* A time with a smaller high word is earlier.
LEMMA HighWords ==
  ASSUME NEW n \in Nat, NEW u \in Nat, Hi(n) < Hi(u)
  PROVE  n < u
<1>1. PICK w \in Nat : w = LowWord /\ w > 0
  BY HardwareAlarmAssumption
<1>2. PICK p \in Nat, q \in Nat : p = n \div w /\ q = u \div w /\ p < q
  BY <1>1 DEF Hi
<1>3. n < w * p + w /\ w * q <= u
  BY <1>1, <1>2
<1>4. w * p + w <= w * q
  <2>1. PICK d \in Nat : q = p + 1 + d
    <3>1. q - p - 1 \in Nat /\ q = p + 1 + (q - p - 1)
      BY <1>2
    <3> QED
      BY <3>1
  <2>2. w * (p + 1 + d) = w * p + w + w * d
    BY <1>1, <1>2
  <2>3. w * d \in Nat /\ w * p \in Nat
    BY <1>1, <1>2
  <2> QED
    BY <1>1, <2>1, <2>2, <2>3
<1> QED
  BY <1>1, <1>2, <1>3, <1>4

LEMMA Later ==
  ASSUME NEW s \in Nat, NEW t \in Nat, s <= t, Cover(s)
  PROVE  Cover(t)
  BY DEF Cover

\* A tick before the match leaves the target ahead, and the match raises
\* the interrupt.
LEMMA TickAhead ==
  ASSUME now \in Nat, Tick, NEW u \in Nat, Aimed(u), Ahead(u)
  PROVE  Aimed(u)' /\ Ahead(u)'
<1>1. Aimed(u)'
  BY DEF Tick, Aimed
<1>2. CASE intr
  BY <1>1, <1>2 DEF Tick, Ahead
<1>3. CASE ~intr /\ alarm = Lo(now + 1)
  BY <1>1, <1>3 DEF Tick, Ahead
<1>4. CASE ~intr /\ alarm # Lo(now + 1)
  <2>1. now < u /\ u # now + 1 /\ armed
    BY <1>4 DEF Aimed, Ahead
  <2>2. now + 1 < u
    BY <2>1
  <2> QED
    BY <1>1, <1>4, <2>1, <2>2 DEF Tick, Ahead
<1> QED
  BY <1>2, <1>3, <1>4

\* What the steps below need of IndInv.
LEMMA AlarmNow ==
  ASSUME IndInv
  PROVE  /\ now \in Nat /\ LockInv /\ target \in [Ids -> Nat] /\ heap \subseteq Ids
         /\ target_hi \in Nat /\ pending \in BOOLEAN
         /\ \A x \in Contexts : task[x] \in Tasks /\ task[x].time \in Nat
         /\ \A i \in heap : target[i] \in Nat
         /\ heap # {} => head \in heap
         /\ lock = NoUser => \A i \in heap : ~Owed(i)
<1>1. lock = NoUser => \A i \in heap : ~Owed(i)
  BY Alone, Contexture DEF IndInv, Owed, OwedBy, Busy, Racing
<1>2. heap # {} => head \in heap
  BY DEF IndInv, Rest, NodeInv
<1>3. target_hi \in Nat /\ pending \in BOOLEAN
  BY DEF IndInv, Rest, TimerTypeOK
<1> QED
  BY <1>1, <1>2, <1>3, RestNow, TaskFields DEF IndInv

\* While somebody holds the timer's lock in set_target or in the handler,
\* nobody else does; while it is free nobody does.
LEMMA Owner ==
  ASSUME SetterInv
  PROVE  /\ ~TimerLocked => \A y \in Contexts : at[y] \notin Racing \cup {"valid", "rewind"}
         /\ \A x \in Contexts : at[x] \in Racing \cup {"valid", "rewind"} =>
              \A y \in Contexts \ {x} : at[y] \notin Racing \cup {"valid", "rewind"}
  BY Contexture DEF SetterInv, TimerLocked

\* A step of x outside set_target and the handler that changes neither the
\* heap nor the registers.
LEMMA AlarmFrame ==
  ASSUME AlarmInv, NEW x \in Contexts, Only(x),
         UNCHANGED <<registers, prompt, heap, head, target>>,
         x = Irq \/ at[x] \notin Busy, at'[x] \notin Busy,
         at[x] \notin {"valid", "rewind"}, at'[x] \notin {"valid", "rewind"},
         Watching' /\ heap # {} => Watching
  PROVE  AlarmInv'
<1>1. OrderInv' /\ (prompt' <=> prompt)
  BY DEF AlarmInv, OrderInv
<1>2. TimeInv'
  BY DEF AlarmInv, TimeInv, Only
<1>3. SetterInv'
  BY DEF AlarmInv, SetterInv, Only, registers, Busy, Racing
<1>4. ProgramInv => ProgramInv'
  BY DEF ProgramInv, Only, registers, Busy
<1>5. RewindInv => RewindInv'
  BY Contexture DEF RewindInv, Only, registers
<1>6. VerifyInv => VerifyInv'
  BY DEF VerifyInv, Only, registers, Busy, Racing, Aimed, Ahead
<1>7. ASSUME SingleInv PROVE SingleInv'
  <2> SUFFICES ASSUME NEW y \in Threads, at'[y] \in Racing, ~setter'.old, Watching', NEW i \in heap
               PROVE  i = task'[y].id
    BY DEF SingleInv
  <2>1. y # x /\ y \in Contexts
    BY Contexture DEF Busy, Racing
  <2>2. at'[y] = at[y] /\ task'[y] = task[y] /\ setter' = setter /\ Watching
    BY <2>1 DEF Only, registers
  <2> QED
    BY <1>7, <2>2 DEF SingleInv
<1>8. ASSUME CoverInv PROVE CoverInv'
  <2> SUFFICES ASSUME Watching', NEW i \in heap PROVE Cover(target[i])' \/ Owed(i)'
    BY DEF CoverInv
  <2>1. CASE Cover(target[i])
    <3>1. Handling' <=> Handling
      BY Contexture DEF Handling, Only
    <3> QED
      BY <2>1, <3>1 DEF Cover, Aimed, Ahead, registers
  <2>2. CASE Owed(i)
    <3>1. PICK y \in Threads : OwedBy(y, i)
      BY <2>2 DEF Owed
    <3>2. y # x /\ y \in Contexts
      BY <3>1, Contexture DEF OwedBy, Busy, Racing
    <3> QED
      BY <3>1, <3>2 DEF Owed, OwedBy, Only
  <2> QED
    BY <1>8, <2>1, <2>2 DEF CoverInv
<1> QED
  BY <1>1, <1>2, <1>3, <1>4, <1>5, <1>6, <1>7, <1>8 DEF AlarmInv, PromptInv

\* The calls of the threads, and the ends of their calls.
LEMMA ThreadAlarm ==
  ASSUME IndInv, AlarmInv, NEW x \in Threads,
         CallAdd(x) \/ CallCancel(x) \/ NoSpace(x) \/ RunPast(x) \/ Return(x)
  PROVE  AlarmInv'
<1>1. /\ UNCHANGED <<timerVars, prompt, heap, head, target>> /\ at[x] \in {"idle", "entry", "past", "return"}
      /\ \E g \in {"idle", "entry", "return"} : at' = [at EXCEPT ![x] = g]
      /\ \E t : task' = [task EXCEPT ![x] = t]
  BY DEF CallAdd, CallCancel, NoSpace, RunPast, Return, timing, heapVars, Go
<1>2. x \in Contexts /\ x # Irq
  BY Contexture
<1>3. Only(x) /\ at'[x] \in {"idle", "entry", "return"} /\ at'[Irq] = at[Irq] /\ task'[Irq] = task[Irq]
  BY <1>1, <1>2, Contexture DEF Only, IndInv, Typed
<1>4. Watching' <=> Watching
  BY <1>3 DEF Watching
<1>5. UNCHANGED <<registers, prompt, heap, head, target>>
  BY <1>1 DEF timerVars, registers
<1> QED
  BY <1>1, <1>2, <1>3, <1>4, <1>5, AlarmFrame DEF Busy

\* The steps of the interrupt that leave both the heap and the registers
\* alone.
LEMMA IrqAlarm ==
  ASSUME IndInv, AlarmInv,
         IrqEnter \/ ReadTime \/ NothingLeft \/ Callback \/ Retire \/ IrqSettled
  PROVE  AlarmInv'
<1>1. /\ UNCHANGED <<registers, prompt, heap, head, target>>
      /\ at[Irq] \in {"idle", "top", "peek", "callback", "after", "settle"}
      /\ \E g : at' = [at EXCEPT ![Irq] = g]
      /\ \E t : task' = [task EXCEPT ![Irq] = t]
  BY DEF IrqEnter, ReadTime, NothingLeft, Callback, Retire, IrqSettled, timing, heapVars, Go, timerVars,
     registers, Interrupt
<1>2. Only(Irq) /\ Irq \in Contexts
  BY <1>1, Contexture DEF Only, IndInv, Typed
<1>3. /\ at'[Irq] \in {"idle", "accept", "top", "peek", "after"}
      /\ at'[Irq] \in {"idle", "accept"} /\ heap # {} => Watching
  BY Contexture DEF IrqEnter, ReadTime, NothingLeft, Callback, Retire, IrqSettled, Go, AfterSettle,
     Watching, IndInv, Typed
<1>4. Watching' /\ heap # {} => Watching
  BY <1>3 DEF Watching
<1> QED
  BY <1>1, <1>2, <1>3, <1>4, AlarmFrame DEF Busy

\* hardware_alarm_set_target reads the time.
LEMMA CheckAlarm ==
  ASSUME IndInv, AlarmInv, NEW x \in Contexts, Check(x)
  PROVE  AlarmInv'
<1> DEFINE u == [task[x] EXCEPT !.missed = Overtaken(task[x].time)]
<1>1. /\ at[x] = "check" /\ UNCHANGED <<timerVars, prompt, heap, head, target>>
      /\ \/ Overtaken(task[x].time) /\ Go(x, "settle", u)
         \/ ~Overtaken(task[x].time) /\ Go(x, "program", u)
  BY DEF Check, timing, heapVars
<1>2. /\ u.id = task[x].id /\ u.kind = task[x].kind /\ u.time = task[x].time
      /\ u.missed = Overtaken(task[x].time)
  BY AlarmNow DEF Tasks
<1> HIDE DEF u
<1>3. /\ task'[x] = u /\ Only(x) /\ at'[x] \in {"settle", "program"}
      /\ at'[x] = "settle" => u.missed
      /\ at'[x] = "program" => now < u.time
  <2>1. ~Overtaken(task[x].time) => now < task[x].time
    BY AlarmNow DEF Overtaken
  <2> QED
    BY <1>1, <1>2, <2>1 DEF Go, Only, IndInv, Typed
<1>4. \A y \in Contexts \ {x} : at[y] \notin Busy /\ at'[y] \notin Busy
  BY <1>1, <1>3, AlarmNow, Alone DEF Only, Busy
<1>5. OrderInv' /\ TimeInv'
  BY <1>1, <1>2, <1>3, <1>4 DEF AlarmInv, OrderInv, TimeInv, Busy
<1>6. SetterInv' /\ (RewindInv => RewindInv')
  BY <1>1, <1>3, <1>4, Contexture DEF AlarmInv, SetterInv, RewindInv, timerVars, Only, Racing, Busy
<1>7. ProgramInv' /\ VerifyInv' /\ SingleInv'
  BY <1>1, <1>2, <1>3, <1>4, Contexture DEF ProgramInv, VerifyInv, SingleInv, timerVars, Busy, Racing
<1>8. ASSUME CoverInv PROVE CoverInv'
  <2> SUFFICES ASSUME Watching', NEW i \in heap PROVE Cover(target[i])' \/ Owed(i)'
    BY <1>1 DEF CoverInv
  <2>1. x \in Threads /\ Watching /\ (Handling' <=> Handling)
    BY <1>1, <1>2, <1>3, Contexture DEF Watching, Only, Handling
  <2>2. CASE Cover(target[i])
    BY <1>1, <2>1, <2>2 DEF Cover, Aimed, Ahead, timerVars
  <2>3. CASE Owed(i)
    <3>1. i = task[x].id
      BY <1>1, <1>4, <2>3, Contexture DEF Owed, OwedBy, Busy, Racing
    <3> QED
      BY <1>2, <1>3, <2>1, <3>1 DEF Owed, OwedBy
  <2> QED
    BY <1>8, <2>1, <2>2, <2>3 DEF CoverInv
<1> QED
  BY <1>1, <1>5, <1>6, <1>7, <1>8 DEF AlarmInv, PromptInv

\* In set_target, where no other context is in it or holds the timer's lock.
LEMMA TargetFrame ==
  ASSUME IndInv, AlarmInv, NEW x \in Contexts, SetTarget(x), NEW g, NEW t, Go(x, g, t),
         g \in {"write", "verify", "late", "settle"}, t.time = task[x].time
  PROVE  /\ Only(x) /\ at'[x] = g /\ task'[x] = t /\ UNCHANGED <<prompt, heap, head, target>>
         /\ OrderInv' /\ TimeInv'
         /\ \A y \in Contexts \ {x} : at[y] \notin Busy /\ at'[y] \notin Busy
         /\ \A y \in Contexts \ {x} : at[y] \notin Racing \cup {"valid", "rewind"}
         /\ at'[Irq] # "rewind"
         /\ \A y \in Contexts \ {x} : at'[y] \notin Racing \cup {"valid", "rewind"}
<1>1. Only(x) /\ at'[x] = g /\ task'[x] = t /\ UNCHANGED <<prompt, heap, head, target>>
      /\ at[x] \in {"program", "write", "verify", "late"}
  BY DEF SetTarget, heapVars, Go, Only, IndInv, Typed
<1>2. \A y \in Contexts \ {x} : at[y] \notin Busy /\ at'[y] \notin Busy
  BY <1>1, AlarmNow, Alone DEF Only, Busy
<1>3. \A y \in Contexts \ {x} : at[y] \notin Racing \cup {"valid", "rewind"}
  <2>1. CASE at[x] = "program"
    BY <2>1, Owner DEF SetTarget, Program, AlarmInv
  <2>2. CASE at[x] \in Racing
    BY <2>2, Owner DEF AlarmInv
  <2> QED
    BY <1>1, <2>1, <2>2 DEF Racing
<1>4. OrderInv' /\ TimeInv'
  BY <1>1, <1>2 DEF AlarmInv, OrderInv, TimeInv, Busy
<1>5. at'[Irq] # "rewind" /\ \A y \in Contexts \ {x} : at'[y] \notin Racing \cup {"valid", "rewind"}
  BY <1>1, <1>3, Contexture DEF Only
<1> QED
  BY <1>1, <1>2, <1>3, <1>4, <1>5

\* It takes the timer's lock: if nothing was pending, no other node than its
\* own is in the heap while the interrupt is not in its loop.
LEMMA ProgramAlarm ==
  ASSUME IndInv, AlarmInv, NEW x \in Contexts, at[x] = "program", SetTarget(x)
  PROVE  AlarmInv'
<1>1. Program(x) /\ Go(x, "write", task[x])
  BY DEF SetTarget
<1>2. /\ Only(x) /\ at'[x] = "write" /\ task'[x] = task[x] /\ UNCHANGED <<prompt, heap, head, target>>
      /\ OrderInv' /\ TimeInv' /\ at'[Irq] # "rewind"
      /\ \A y \in Contexts \ {x} : at[y] \notin Busy /\ at'[y] \notin Busy
      /\ \A y \in Contexts \ {x} : at'[y] \notin Racing \cup {"valid", "rewind"}
  BY <1>1, TargetFrame
<1>3. /\ setter'.user = x /\ setter'.old = pending /\ pending' = TRUE /\ now' = now
  BY <1>1 DEF Program
<1>4. SetterInv' /\ RewindInv'
  BY <1>2, <1>3 DEF SetterInv, RewindInv
<1>5. ProgramInv => ProgramInv'
  BY <1>2, <1>3 DEF ProgramInv, Busy
<1>6. VerifyInv'
  BY <1>2, <1>3 DEF VerifyInv, Racing
<1>7. ASSUME CoverInv PROVE SingleInv'
  <2> SUFFICES ASSUME x \in Threads, ~pending, Watching', NEW i \in heap PROVE i = task[x].id
    BY <1>2, <1>3, Contexture DEF SingleInv
  <2>1. Watching
    BY <1>2, Contexture DEF Watching, Only
  <2>2. Owed(i)
    BY <1>7, <2>1 DEF CoverInv, Cover
  <2> QED
    BY <1>2, <2>2, Contexture DEF Owed, OwedBy, Busy, Racing
<1>8. CoverInv'
  <2>1. x \in Threads => \A i : Owed(i)'
    BY <1>2 DEF Owed, OwedBy, Racing
  <2>2. x = Irq => ~Watching'
    BY <1>2 DEF Watching
  <2> QED
    BY <2>1, <2>2, Contexture DEF CoverInv
<1> QED
  BY <1>2, <1>4, <1>5, <1>6, <1>7, <1>8 DEF AlarmInv, PromptInv

\* It writes the registers: the target is ahead.
LEMMA RegistersAlarm ==
  ASSUME IndInv, AlarmInv, NEW x \in Contexts, at[x] = "write", SetTarget(x)
  PROVE  AlarmInv'
<1>1. SetAlarm(task[x].time) /\ Go(x, "verify", task[x])
  BY DEF SetTarget
<1>2. /\ Only(x) /\ at'[x] = "verify" /\ task'[x] = task[x] /\ UNCHANGED <<prompt, heap, head, target>>
      /\ OrderInv' /\ TimeInv' /\ at'[Irq] # "rewind"
      /\ \A y \in Contexts \ {x} : at[y] \notin Busy /\ at'[y] \notin Busy
      /\ \A y \in Contexts \ {x} : at'[y] \notin Racing \cup {"valid", "rewind"}
  BY <1>1, TargetFrame
<1>3. UNCHANGED <<now, pending, setter>>
  BY <1>1 DEF SetAlarm
<1>4. SetterInv' /\ RewindInv'
  BY <1>2, <1>3 DEF SetterInv, RewindInv, AlarmInv, Racing
<1>5. ProgramInv'
  BY <1>2 DEF ProgramInv, Busy
<1>6. ASSUME ProgramInv, VerifyInv PROVE VerifyInv'
  <2>1. now < task[x].time /\ pending
    BY <1>6 DEF ProgramInv, VerifyInv, Racing
  <2>2. Aimed(task[x].time)' /\ Ahead(task[x].time)'
    BY <1>1, <1>2, <1>3, <2>1 DEF SetAlarm, WriteAlarm, Aimed, Ahead
  <2> QED
    BY <1>2, <1>3, <2>1, <2>2 DEF VerifyInv, Racing
<1>7. ASSUME SingleInv PROVE SingleInv'
  <2>1. Watching' => Watching
    BY <1>2, Contexture DEF Watching, Only
  <2> QED
    BY <1>2, <1>3, <1>7, <2>1, Contexture DEF SingleInv, Racing
<1>8. CoverInv'
  <2>1. x \in Threads => \A i : Owed(i)'
    BY <1>2 DEF Owed, OwedBy, Racing
  <2>2. x = Irq => ~Watching'
    BY <1>2 DEF Watching
  <2> QED
    BY <2>1, <2>2, Contexture DEF CoverInv
<1> QED
  BY <1>2, <1>4, <1>5, <1>6, <1>7, <1>8 DEF AlarmInv, PromptInv

\* What is set for the head covers every node of the heap.
LEMMA HeadCovers ==
  ASSUME IndInv, AlarmInv, VerifyInv, NEW x \in Contexts, at[x] \in {"verify", "late"},
         UNCHANGED <<armed, intr, pending, now, alarm, target_hi, target>>
  PROVE  \A i \in heap : Cover(target[i])'
<1>1. pending /\ Aimed(task[x].time) /\ Ahead(task[x].time) /\ task[x].time \in Nat
  BY AlarmNow DEF VerifyInv, Racing
<1>2. \A i \in heap : task[x].time <= target[i]
  BY DEF AlarmInv, OrderInv, TimeInv, Busy
<1> QED
  BY <1>1, <1>2 DEF Cover, Aimed, Ahead

\* It reads ARMED: the alarm has fired, or it goes on to read the time.
LEMMA ArmedAlarm ==
  ASSUME IndInv, AlarmInv, NEW x \in Contexts, at[x] = "verify", SetTarget(x)
  PROVE  AlarmInv'
<1>1. PICK g \in {"late", "settle"} :
        /\ Go(x, g, task[x])
        /\ UNCHANGED <<now, armed, alarm, intr, pending, target_hi>>
        /\ g = "late" => UNCHANGED setter
  BY DEF SetTarget, Fired, timerVars
<1>2. /\ Only(x) /\ at'[x] = g /\ task'[x] = task[x] /\ UNCHANGED <<prompt, heap, head, target>>
      /\ OrderInv' /\ TimeInv' /\ at'[Irq] # "rewind"
      /\ \A y \in Contexts \ {x} : at[y] \notin Busy /\ at'[y] \notin Busy
      /\ \A y \in Contexts \ {x} : at'[y] \notin Racing \cup {"valid", "rewind"}
  BY <1>1, TargetFrame
<1>3. SetterInv' /\ RewindInv'
  BY <1>1, <1>2 DEF SetterInv, RewindInv, AlarmInv, Racing
<1>4. ProgramInv'
  BY <1>1, <1>2 DEF ProgramInv, Busy
<1>5. VerifyInv => VerifyInv'
  BY <1>1, <1>2 DEF VerifyInv, Racing, Aimed, Ahead
<1>6. ASSUME SingleInv PROVE SingleInv'
  <2> SUFFICES ASSUME x \in Threads, g = "late", ~setter'.old, Watching', NEW i \in heap
               PROVE  i = task[x].id
    BY <1>1, <1>2, Contexture DEF SingleInv, Racing
  <2>1. Watching
    BY <1>2, Contexture DEF Watching, Only
  <2> QED
    BY <1>1, <1>6, <2>1 DEF SingleInv, Racing
<1>7. VerifyInv => CoverInv'
  BY <1>1, <1>2, HeadCovers DEF CoverInv
<1> QED
  BY <1>2, <1>3, <1>4, <1>5, <1>6, <1>7 DEF AlarmInv, PromptInv

\* It reads the time: an overtaken target has matched since, and is
\* withdrawn only if nothing was pending before, so that no other node
\* relies on it.
LEMMA VerifyAlarm ==
  ASSUME IndInv, AlarmInv, NEW x \in Contexts, at[x] = "late", SetTarget(x)
  PROVE  AlarmInv'
<1> DEFINE t == [task[x] EXCEPT !.missed = Overtaken(task[x].time)]
<1>1. Verify(task[x].time, x \in Local \cup {Irq}) /\ Go(x, "settle", t)
  BY DEF SetTarget
<1>2. t.time = task[x].time /\ t.id = task[x].id /\ t.missed = Overtaken(task[x].time)
  BY AlarmNow DEF Tasks
<1> HIDE DEF t
<1>3. /\ Only(x) /\ at'[x] = "settle" /\ task'[x] = t /\ UNCHANGED <<prompt, heap, head, target>>
      /\ OrderInv' /\ TimeInv' /\ at'[Irq] # "rewind"
      /\ \A y \in Contexts \ {x} : at'[y] \notin Busy
      /\ \A y \in Contexts \ {x} : at'[y] \notin Racing \cup {"valid", "rewind"}
  BY <1>1, <1>2, TargetFrame
<1>4. SetterInv' /\ RewindInv' /\ ProgramInv' /\ VerifyInv' /\ SingleInv'
  BY <1>3, Contexture DEF SetterInv, RewindInv, ProgramInv, VerifyInv, SingleInv, Racing, Busy
<1>5. ASSUME VerifyInv, SingleInv PROVE CoverInv'
  <2>1. CASE Overtaken(task[x].time) /\ NothingBefore
    <3> SUFFICES ASSUME Watching', NEW i \in heap PROVE Owed(i)'
      BY <1>3 DEF CoverInv
    <3>1. ~setter.old
      <4>1. pending = TRUE /\ setter.old \in BOOLEAN
        BY <1>5, AlarmNow DEF VerifyInv, Racing, IndInv, Rest, TimerTypeOK
      <4> QED
        BY <2>1, <4>1 DEF NothingBefore
    <3>2. x \in Threads
      BY <1>2, <1>3, <2>1, Contexture DEF Watching
    <3>3. Watching
      BY <1>3, <3>2, Contexture DEF Watching, Only
    <3>4. i = task[x].id
      BY <1>5, <3>1, <3>2, <3>3 DEF SingleInv, Racing
    <3> QED
      BY <1>2, <1>3, <2>1, <3>2, <3>4 DEF Owed, OwedBy
  <2>2. CASE ~(Overtaken(task[x].time) /\ NothingBefore)
    <3>1. UNCHANGED <<armed, intr, pending, now, alarm, target_hi>>
      BY <1>1, <2>2 DEF Verify
    <3> QED
      BY <1>3, <1>5, <3>1, HeadCovers DEF CoverInv
  <2> QED
    BY <2>1, <2>2
<1> QED
  BY <1>3, <1>4, <1>5 DEF AlarmInv, PromptInv

\* A node inserted before the head, or not, and a head removed.
LEMMA InsertOrder ==
  ASSUME IndInv, AlarmInv, NEW i \in Ids, NEW t \in Nat, i \notin heap, Insert(i, t)
  PROVE  OrderInv' /\ target'[i] = t /\ \A j \in heap : target'[j] = target[j]
<1>1. target'[i] = t /\ \A j \in heap : target'[j] = target[j] /\ target[j] \in Nat
  BY AlarmNow DEF Insert
<1>2. CASE heap = {}
  BY <1>1, <1>2 DEF Insert, OrderInv
<1>3. CASE heap # {}
  <2>1. head \in heap /\ \A j \in heap : target[head] <= target[j]
    BY <1>3, AlarmNow DEF AlarmInv, OrderInv
  <2>2. CASE t <= target[head]
    BY <1>1, <2>1, <2>2 DEF Insert, OrderInv
  <2>3. CASE ~(t <= target[head])
    BY <1>1, <1>3, <2>1, <2>3 DEF Insert, OrderInv
  <2> QED
    BY <2>2, <2>3
<1> QED
  BY <1>1, <1>2, <1>3

\* hardware_alarm_irq_handler: the callback looks at the heap, or the alarm
\* is set again for the same target.
LEMMA AcceptAlarm ==
  ASSUME IndInv, AlarmInv, IrqAccept
  PROVE  AlarmInv'
<1>1. PICK g \in {"valid", "rewind", "top", "idle"} : Go(Irq, g, task[Irq]) \/ Go(Irq, g, NoTask)
  BY DEF IrqAccept
<1>2. /\ Only(Irq) /\ at'[Irq] = g /\ Irq \in Contexts
      /\ at[Irq] \in {"accept", "valid", "rewind"} /\ Watching
      /\ UNCHANGED <<prompt, heap, head, target>>
  BY <1>1, Contexture DEF Go, Only, IndInv, Typed, IrqAccept, heapVars, Watching
<1>3. \A y \in Threads : /\ at[y] \notin Racing /\ at'[y] = at[y] /\ y \in Contexts
                         /\ at'[y] \notin Racing \cup {"valid", "rewind"}
  <2>1. CASE at[Irq] = "accept"
    <3>1. ~TimerLocked
      BY <2>1 DEF IrqAccept, Acknowledge
    <3> QED
      BY <1>2, <3>1, Owner, Contexture DEF AlarmInv, Only
  <2>2. CASE at[Irq] \in {"valid", "rewind"}
    BY <1>2, <2>2, Owner, Contexture DEF AlarmInv, Only
  <2> QED
    BY <1>2, <2>1, <2>2
<1>4. /\ UNCHANGED <<now, alarm, target_hi>>
      /\ g = "valid" => UNCHANGED pending /\ setter'.user = Irq
      /\ g = "rewind" => UNCHANGED <<armed, intr, pending, setter>> /\ at[Irq] = "valid" /\ Early
      /\ g = "idle" => \/ Dismiss
                       \/ Rewind /\ at[Irq] = "rewind"
  BY <1>1, <1>2, Contexture DEF IrqAccept, Acknowledge, Accept, Dismiss, Early, Rewind, WriteAlarm, timerVars,
     Go, IndInv, Typed
<1>5. OrderInv' /\ TimeInv'
  BY <1>2 DEF AlarmInv, OrderInv, TimeInv, Only, Busy
<1>6. SetterInv'
  <2>1. g = "rewind" => setter'.user = Irq
    BY <1>2, <1>4 DEF AlarmInv, SetterInv
  <2> QED
    BY <1>2, <1>3, <1>4, <2>1, Contexture DEF SetterInv, Racing
<1>7. ProgramInv => ProgramInv'
  BY <1>2, <1>4 DEF ProgramInv, Only
<1>8. VerifyInv' /\ SingleInv'
  BY <1>2, <1>3, Contexture DEF VerifyInv, SingleInv, Racing
<1>9. RewindInv'
  <2>1. g = "rewind" => pending /\ Hi(now) < target_hi
    <3>1. Hi(now) \in Nat /\ target_hi \in Nat
      BY AlarmNow, Words
    <3> QED
      BY <1>4, <3>1 DEF Early, HiReached
  <2> QED
    BY <1>2, <1>4, <2>1 DEF RewindInv
<1>10. ASSUME RewindInv, CoverInv PROVE CoverInv'
  <2> SUFFICES ASSUME Watching', NEW i \in heap PROVE Cover(target[i])' \/ Owed(i)'
    BY <1>2 DEF CoverInv
  <2>1. CASE Cover(target[i])
    <3>1. PICK u \in Nat : u <= target[i] /\ Aimed(u) /\ pending
      BY <2>1 DEF Cover
    <3>2. Aimed(u)'
      BY <1>4, <3>1 DEF Aimed
    <3>3. pending' /\ (Ahead(u)' \/ Handling')
      <4>1. CASE g \in {"valid", "rewind"}
        BY <1>2, <1>4, <3>1, <4>1 DEF Handling
      <4>2. CASE g = "idle"
        <5>1. Rewind /\ Hi(now) < target_hi
          BY <1>4, <1>10, <3>1, <4>2 DEF Dismiss, RewindInv
        <5>2. now < u
          BY <3>1, <5>1, HighWords, AlarmNow DEF Aimed
        <5> QED
          BY <1>4, <3>1, <5>1, <5>2 DEF Rewind, WriteAlarm, Ahead
      <4>3. CASE g = "top"
        BY <1>2, <4>3 DEF Watching
      <4> QED
        BY <4>1, <4>2, <4>3
    <3> QED
      BY <1>2, <3>1, <3>2, <3>3 DEF Cover
  <2>2. CASE Owed(i)
    BY <1>2, <2>2, Contexture DEF Owed, OwedBy, Only
  <2> QED
    BY <1>2, <1>10, <2>1, <2>2 DEF CoverInv
<1> QED
  BY <1>2, <1>5, <1>6, <1>7, <1>8, <1>9, <1>10 DEF AlarmInv, PromptInv

\* A step of x, with the lock free before it, that leaves x outside
\* set_target or about to read the time for the head.
LEMMA HeapSteps ==
  ASSUME IndInv, AlarmInv, NEW x \in Contexts, Only(x),
         UNCHANGED <<timerVars, prompt>>, lock = NoUser \/ at[x] = "settle", OrderInv',
         at'[x] \notin Busy \/ (at'[x] = "check" /\ task'[x].time = target'[head']),
         at'[x] \notin {"valid", "rewind"},
         CoverInv => CoverInv'
  PROVE  AlarmInv'
<1>1. \A y \in Contexts \ {x} : at'[y] \notin Busy
  BY AlarmNow, Alone DEF Only, Busy
<1>2. TimeInv' /\ ProgramInv' /\ VerifyInv' /\ SingleInv'
  BY <1>1, Contexture DEF TimeInv, ProgramInv, VerifyInv, SingleInv, Busy, Racing
<1>3. SetterInv' /\ (RewindInv => RewindInv')
  BY <1>1, Contexture DEF AlarmInv, SetterInv, RewindInv, timerVars, Only, Busy, Racing
<1> QED
  BY <1>2, <1>3 DEF AlarmInv, PromptInv

\* The interrupt in its loop owes the heap an alarm until it rearms.
LEMMA LoopAlarm ==
  ASSUME IndInv, AlarmInv, TakeHead \/ Rearm \/ ReAdd
  PROVE  AlarmInv'
<1>1. UNCHANGED <<timerVars, prompt>> /\ lock = NoUser
  BY DEF TakeHead, Rearm, ReAdd, timing, Unlocked
<1>2. PICK g, t :
        /\ g \in {"callback", "check", "top"}
        /\ Go(Irq, g, t) /\ (g = "check" => t.time = target'[head'])
  <2>1. CASE TakeHead
    BY <2>1 DEF TakeHead
  <2>2. CASE Rearm
    <3> DEFINE t == [NoTask EXCEPT !.kind = "rearm", !.time = target[head]]
    <3>1. t.time = target[head]
      BY DEF NoTask
    <3>2. Go(Irq, "check", t) /\ UNCHANGED <<head, target>>
      BY <2>2 DEF Rearm, heapVars
    <3> HIDE DEF t
    <3> QED
      BY <3>1, <3>2
  <2>3. CASE ReAdd
    <3> DEFINE time == NewTime(task[Irq].repeat, task[Irq].time)
               t == [task[Irq] EXCEPT !.kind = "again", !.time = time]
    <3>1. t.time = time
      BY AlarmNow, Contexture DEF Tasks
    <3>2. /\ Insert(task[Irq].id, time)
          /\ \/ head' = task[Irq].id /\ Go(Irq, "check", t)
             \/ Go(Irq, "top", NoTask)
      BY <2>3 DEF ReAdd
    <3>3. task[Irq].id \in Ids
      BY <2>3 DEF ReAdd, IndInv, NodeInv, OutApart, Out
    <3>4. head' = task[Irq].id => target'[head'] = time
      BY <3>2, <3>3, AlarmNow DEF Insert
    <3> HIDE DEF time, t
    <3> QED
      BY <3>1, <3>2, <3>4
  <2> QED
    BY <2>1, <2>2, <2>3
<1>3. Only(Irq) /\ at'[Irq] = g /\ task'[Irq] = t /\ Irq \in Contexts
  BY <1>2, Contexture DEF Go, Only, IndInv, Typed
<1>4. OrderInv'
  <2>1. CASE TakeHead
    BY <2>1 DEF TakeHead, Remove, OrderInv
  <2>2. CASE Rearm
    BY <2>2 DEF Rearm, OrderInv, heapVars, AlarmInv
  <2>3. CASE ReAdd
    <3>1. /\ task[Irq].id \in Ids \ heap
          /\ Insert(task[Irq].id, NewTime(task[Irq].repeat, task[Irq].time))
      BY <2>3 DEF ReAdd, IndInv, NodeInv, OutApart, Out
    <3>2. NewTime(task[Irq].repeat, task[Irq].time) \in Nat
      BY NewTimes, RestNow, TaskFields, Contexture
    <3> QED
      BY <3>1, <3>2, InsertOrder
  <2> QED
    BY <2>1, <2>2, <2>3
<1>5. CoverInv'
  BY <1>2, <1>3 DEF CoverInv, Watching
<1> QED
  BY <1>1, <1>2, <1>3, <1>4, <1>5, HeapSteps DEF Busy

LEMMA TimeAlarm ==
  ASSUME IndInv, AlarmInv, TimePasses
  PROVE  AlarmInv'
<1>1. /\ prompt => InTime
      /\ Tick /\ UNCHANGED <<prompt, at, task, heap, head, target>>
  BY DEF TimePasses, heapVars
<1>2. now' = now + 1 /\ UNCHANGED <<alarm, pending, target_hi, setter>>
  BY <1>1 DEF Tick
<1>3. OrderInv' /\ TimeInv' /\ SetterInv'
  BY <1>1, <1>2 DEF AlarmInv, OrderInv, TimeInv, SetterInv
<1>4. (prompt => ProgramInv') /\ (prompt /\ RewindInv => RewindInv')
  BY <1>1, <1>2 DEF ProgramInv, RewindInv, InTime
<1>5. SingleInv => SingleInv'
  BY <1>1, <1>2 DEF SingleInv, Watching
<1>6. ASSUME VerifyInv PROVE VerifyInv'
  <2> SUFFICES ASSUME NEW x \in Contexts, at[x] \in {"verify", "late"}
               PROVE  Aimed(task[x].time)' /\ Ahead(task[x].time)'
    BY <1>1, <1>2, <1>6 DEF VerifyInv
  <2>1. PICK u \in Nat : u = task[x].time
    BY AlarmNow
  <2>2. Aimed(u)' /\ Ahead(u)'
    BY <1>1, <1>6, <2>1, TickAhead, AlarmNow DEF VerifyInv
  <2> QED
    BY <1>1, <2>1, <2>2 DEF Aimed, Ahead
<1>7. ASSUME CoverInv PROVE CoverInv'
  <2> SUFFICES ASSUME Watching', NEW i \in heap PROVE Cover(target[i])' \/ Owed(i)'
    BY <1>1 DEF CoverInv
  <2>1. CASE Cover(target[i])
    <3>1. PICK u \in Nat : u <= target[i] /\ Aimed(u) /\ (Ahead(u) \/ Handling) /\ pending
      BY <2>1 DEF Cover
    <3>2. Aimed(u)' /\ (Ahead(u)' \/ Handling') /\ pending'
      <4>1. Aimed(u)' /\ pending' /\ (Handling' <=> Handling)
        BY <1>1, <1>2, <3>1 DEF Aimed, Handling
      <4>2. Ahead(u) => Ahead(u)'
        BY <1>1, <3>1, TickAhead, AlarmNow
      <4> QED
        BY <3>1, <4>1, <4>2
    <3> QED
      BY <1>1, <3>1, <3>2 DEF Cover
  <2>2. CASE Owed(i)
    BY <1>1, <2>2 DEF Owed, OwedBy
  <2> QED
    BY <1>1, <1>7, <2>1, <2>2 DEF CoverInv, Watching
<1> QED
  BY <1>1, <1>3, <1>4, <1>5, <1>6, <1>7 DEF AlarmInv, PromptInv

\* A node that becomes the head will have the alarm programmed for it; the
\* alarm that covers the head covers every other.
LEMMA AddNodeAlarm ==
  ASSUME IndInv, AlarmInv, NEW x \in Threads, AddNode(x)
  PROVE  AlarmInv'
<1> DEFINE id == Head(free)
           u == [task[x] EXCEPT !.id = id, !.which = count + 1]
<1>1. u.time = task[x].time /\ u.id = id
  BY AlarmNow, Contexture DEF Tasks
<1>2. /\ lock = NoUser /\ at[x] = "entry" /\ Insert(id, task[x].time)
      /\ free # << >> /\ free' = Tail(free) /\ UNCHANGED <<timerVars, prompt>>
      /\ IF head' = id THEN Go(x, "check", u) ELSE AddDone(x, u)
  BY <1>1 DEF AddNode, timing, Unlocked
<1>3. id \in Ids /\ id \notin heap
  BY <1>2, PoolNow, Allocating
<1>4. PICK g, t :
        /\ g \in {"check", "past", "return"}
        /\ Go(x, g, t) /\ (head' = id <=> g = "check")
        /\ g = "check" => t.time = task[x].time /\ t.id = id
  <2> DEFINE v == [NoTask EXCEPT !.which = u.which, !.pid = IF u.missed THEN 0 ELSE Public(u.id)]
  <2>1. head' = id => Go(x, "check", u)
    BY <1>2
  <2>2. head' # id => Go(x, "past", u) \/ Go(x, "return", v)
    BY <1>2 DEF AddDone
  <2> HIDE DEF u, v
  <2> QED
    BY <1>1, <2>1, <2>2
<1> HIDE DEF u, id
<1>5. /\ Only(x) /\ at'[x] = g /\ task'[x] = t /\ x \in Contexts
      /\ at'[Irq] = at[Irq] /\ task'[Irq] = task[Irq]
  BY <1>4, Contexture DEF Go, Only, IndInv, Typed
<1>6. OrderInv' /\ target'[id] = task[x].time /\ (\A j \in heap : target'[j] = target[j])
      /\ heap' = heap \cup {id}
  BY <1>2, <1>3, <1>5, AlarmNow, InsertOrder DEF Insert
<1>7. ASSUME CoverInv PROVE CoverInv'
  <2> SUFFICES ASSUME Watching', NEW i \in heap' PROVE Cover(target[i])' \/ Owed(i)'
    BY DEF CoverInv
  <2>1. \A j \in heap : Cover(target[j])
    BY <1>2, <1>5, <1>7, AlarmNow DEF CoverInv, Watching
  <2>2. CASE i = id /\ head' = id
    BY <1>4, <1>5, <2>2 DEF Owed, OwedBy
  <2>3. CASE i = id /\ head' # id
    <3>1. heap # {} /\ target[head] <= task[x].time
      BY <1>2, <2>3, AlarmNow, Contexture DEF Insert
    <3>2. head \in heap /\ Cover(target[head])
      BY <2>1, <3>1, AlarmNow
    <3>3. Cover(task[x].time)
      BY <1>5, <3>1, <3>2, Later, AlarmNow
    <3> QED
      BY <1>2, <1>5, <1>6, <2>3, <3>3 DEF Cover, Aimed, Ahead, Handling, timerVars
  <2>4. CASE i # id
    BY <1>2, <1>5, <1>6, <2>1, <2>4 DEF Cover, Aimed, Ahead, Handling, timerVars
  <2> QED
    BY <2>2, <2>3, <2>4
<1> QED
  BY <1>2, <1>4, <1>5, <1>6, <1>7, HeapSteps DEF Busy

\* A missed alarm is removed, the others are covered; one that was not
\* missed is covered by what Verify left.
LEMMA AddSettledAlarm ==
  ASSUME IndInv, AlarmInv, NEW x \in Threads, AddSettled(x)
  PROVE  AlarmInv'
<1>1. /\ at[x] = "settle" /\ UNCHANGED <<timerVars, prompt, target>> /\ x \in Contexts
      /\ IF task[x].missed THEN Remove(task[x].id) ELSE UNCHANGED <<heap, head>>
      /\ AddDone(x, task[x])
  BY Contexture DEF AddSettled, timing, heapVars
<1>2. PICK g, t : g \in {"past", "return"} /\ Go(x, g, t)
  BY <1>1 DEF AddDone
<1>3. Only(x) /\ at'[x] = g /\ at'[Irq] = at[Irq] /\ task'[Irq] = task[Irq]
  BY <1>1, <1>2, Contexture DEF Go, Only, IndInv, Typed
<1>4. OrderInv'
  BY <1>1 DEF Remove, OrderInv, AlarmInv
<1>5. ASSUME CoverInv PROVE CoverInv'
  <2> SUFFICES ASSUME Watching', NEW i \in heap' PROVE Cover(target[i])'
    BY DEF CoverInv
  <2>1. i \in heap /\ (task[x].missed => i # task[x].id)
    BY <1>1 DEF Remove
  <2>2. ~Owed(i)
    <3>1. \A y \in Threads \ {x} : at[y] \notin Busy
      BY <1>1, AlarmNow, Alone, Contexture DEF Busy
    <3> QED
      BY <1>1, <2>1, <3>1 DEF Owed, OwedBy, Busy, Racing
  <2>3. Cover(target[i])
    BY <1>3, <1>5, <2>1, <2>2 DEF CoverInv, Watching
  <2> QED
    BY <1>1, <1>3, <2>3 DEF Cover, Aimed, Ahead, Handling, timerVars
<1> QED
  BY <1>1, <1>2, <1>3, <1>4, <1>5, HeapSteps DEF Busy

\* A cancel leaves the alarm set for a node that is gone: early, not late.
LEMMA CancelAlarm ==
  ASSUME IndInv, AlarmInv, NEW x \in Threads, Cancel(x)
  PROVE  AlarmInv'
<1>1. /\ lock = NoUser /\ Go(x, "idle", NoTask) /\ UNCHANGED <<timerVars, prompt, target>>
      /\ (\E i \in heap : Remove(i)) \/ UNCHANGED <<heap, head>>
      /\ x \in Contexts
  BY Contexture DEF Cancel, timing, heapVars, Unlocked
<1>2. Only(x) /\ at'[x] = "idle" /\ at'[Irq] = at[Irq] /\ task'[Irq] = task[Irq]
  BY <1>1, Contexture DEF Go, Only, IndInv, Typed
<1>3. OrderInv' /\ heap' \subseteq heap
  BY <1>1 DEF Remove, OrderInv, AlarmInv
<1>4. ASSUME CoverInv PROVE CoverInv'
  <2> SUFFICES ASSUME Watching', NEW i \in heap' PROVE Cover(target[i])'
    BY DEF CoverInv
  <2>1. Cover(target[i])
    BY <1>1, <1>2, <1>3, <1>4, AlarmNow DEF CoverInv, Watching
  <2> QED
    BY <1>1, <1>2, <2>1 DEF Cover, Aimed, Ahead, Handling, timerVars
<1> QED
  BY <1>1, <1>2, <1>3, <1>4, HeapSteps DEF Busy

LEMMA InitAlarm ==
  ASSUME Init
  PROVE  AlarmInv
<1>1. at = [x \in Contexts |-> "idle"] /\ heap = {}
  BY DEF Init
<1> QED
  BY <1>1, Contexture DEF AlarmInv, PromptInv, OrderInv, TimeInv, SetterInv, ProgramInv, RewindInv,
     VerifyInv, SingleInv, CoverInv, Busy, Racing

LEMMA NextAlarm ==
  ASSUME IndInv, AlarmInv, [Next]_vars
  PROVE  AlarmInv'
<1>1. CASE UNCHANGED vars
  <2>1. UNCHANGED <<timerVars, prompt, at, task, heap, head, target>>
    BY <1>1 DEF vars, timing, heapVars
  <2>2. AlarmInv' <=> AlarmInv
    BY <2>1 DEF AlarmInv, PromptInv, OrderInv, TimeInv, SetterInv, ProgramInv, RewindInv, VerifyInv,
       SingleInv, CoverInv, Watching, Cover, Aimed, Ahead, Handling, Owed, OwedBy, timerVars
  <2> QED
    BY <2>2
<1>2. \A x \in Contexts : Check(x) \/ SetTarget(x) => AlarmInv'
  BY CheckAlarm, ProgramAlarm, RegistersAlarm, ArmedAlarm, VerifyAlarm DEF SetTarget
<1>3. CASE IrqStep
  BY <1>2, <1>3, IrqAlarm, AcceptAlarm, LoopAlarm, Contexture DEF IrqStep
<1>4. CASE TimePasses
  BY <1>4, TimeAlarm
<1>5. CASE \E x \in Threads : ThreadStep(x) \/ CallAdd(x) \/ CallCancel(x)
  <2> SUFFICES ASSUME NEW x \in Threads, ThreadStep(x) \/ CallAdd(x) \/ CallCancel(x)
               PROVE  AlarmInv'
    BY <1>5
  <2> QED
    BY <1>2, ThreadAlarm, AddNodeAlarm, AddSettledAlarm, CancelAlarm, Contexture DEF ThreadStep
<1> QED
  BY <1>1, <1>3, <1>4, <1>5 DEF Next

\* No lost wakeup: while alarms are in the heap and neither a thread nor the
\* interrupt is at work on them, the alarm of the hardware is raised or will
\* match no later than the first of them is due, if set_target and the handler
\* write the alarm before the time it is for is reached.
THEOREM AlarmsCovered == Spec => []NoAlarmForgotten
<1>1. ASSUME IndInv, AlarmInv, prompt, heap # {}, Unlocked, at[Irq] = "idle"
      PROVE  WillFire(target[head])
  <2>1. head \in heap /\ Cover(target[head])
    BY <1>1, AlarmNow DEF AlarmInv, PromptInv, CoverInv, Watching, Unlocked
  <2>2. PICK u \in Nat : u <= target[head] /\ Aimed(u) /\ Ahead(u) /\ pending
    BY <1>1, <2>1 DEF Cover, Handling
  <2>3. CASE intr
    BY <2>2, <2>3 DEF WillFire
  <2>4. CASE ~intr
    <3>1. armed /\ now < u /\ Lo(u) = alarm /\ Hi(u) = target_hi
      BY <2>2, <2>4 DEF Aimed, Ahead
    <3>2. u \in (now + 1)..target[head] /\ Hi(u) >= target_hi
      BY <1>1, <2>1, <2>2, <3>1, AlarmNow, Words
    <3> QED
      BY <2>2, <3>1, <3>2 DEF WillFire
  <2> QED
    BY <2>3, <2>4
<1>2. IndInv /\ AlarmInv => NoAlarmForgotten
  BY <1>1 DEF NoAlarmForgotten
<1>3. Init => AlarmInv
  BY InitAlarm
<1>4. IndInv /\ AlarmInv /\ [Next]_vars => AlarmInv'
  BY NextAlarm
<1> QED
  BY <1>2, <1>3, <1>4, Invariance, PTL DEF Spec
=============================================================================
