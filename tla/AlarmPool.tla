----------------------------- MODULE AlarmPool -----------------------------
(***************************************************************************)
(* An alarm pool (pico_time/time.c) over one hardware alarm: threads add   *)
(* and cancel alarms, the timer's interrupt runs the callbacks of those    *)
(* that are due.  The pairing heap is taken at its interface               *)
(* (AbstractHeap), with the free list that pheap.c really keeps.           *)
(*                                                                         *)
(* Where a context stands in alarm_pool_add_alarm_at, _cancel_alarm or     *)
(* alarm_pool_alarm_callback:                                              *)
(*   idle     outside the pool; the interrupt is not active                *)
(*   entry    a call that waits for the pool's spin lock                   *)
(*   check    under the lock, in set_target, before it reads the time      *)
(*   program  under the lock, in set_target, found the target ahead        *)
(*   write    under both locks, has cleared the IRQ                        *)
(*   verify   under both locks, has written the alarm registers            *)
(*   late     under both locks, has found the alarm still armed            *)
(*   settle   under the lock, set_target (if it was called) has returned   *)
(*   past     a thread, about to run the callback of a missed alarm        *)
(*   return   a thread, unlocked, its public id not yet stored             *)
(*   accept   the interrupt, before the timer's lock                       *)
(*   valid    the interrupt, under the timer's lock, has cleared the IRQ   *)
(*   rewind   there, has found the high word not reached                   *)
(*   top      the interrupt, at the head of its loop                       *)
(*   peek     the interrupt, has read the time, before the pool's lock     *)
(*   callback the interrupt, running a callback, unlocked                  *)
(*   after    the interrupt, after the callback, before the pool's lock    *)
(***************************************************************************)
EXTENDS HardwareAlarm, Sequences, FiniteSets

CONSTANTS
  Threads,     \* the threads that use the pool
  Local,       \* those of them on the core that takes the interrupt
  Irq,         \* the timer's interrupt handler
  max_nodes,   \* the argument of alarm_pool_create
  Targets,     \* bound: the times alarms are added for
  Delay,       \* bound: what a callback returns, if not 0
  MaxRepeats,  \* bound: how many callbacks return other than 0
  Budget,      \* bound: Budget[x]: the calls x makes
  MaxAlarms    \* bound: how many alarms are allocated

ASSUME AlarmPoolAssumption ==
  /\ Local \subseteq Threads /\ Irq \notin Threads /\ NoUser \notin Threads \cup {Irq}
  /\ max_nodes \in 1..255 /\ MaxAlarms \in Nat /\ MaxRepeats \in Nat
  /\ Targets \subseteq Nat /\ Delay \in Nat \ {0}
  /\ Budget \in [Threads -> Nat]

Contexts == Threads \cup {Irq}
Ids == 1..max_nodes
Alarms == 1..MaxAlarms

Stages == {"idle", "entry", "check", "program", "write", "verify", "late",
           "settle", "past", "return", "accept", "valid", "rewind", "top",
           "peek", "callback", "after"}

Kinds == {"add", "cancel",    \* the calls of the threads
          "fire",             \* the interrupt: run the head's callback ...
          "rearm", "again"}   \* ... set the alarm for it, re-add a repeating node
Repeats == {"no", "target", "now"}  \* a callback returned 0, < 0, > 0

\* The locals of a call: node, time read or target, fire_if_past, missed,
\* public_id (or the argument of cancel), what the callback returned; and
\* (history) which alarm the node was allocated for.
NoTask == [kind |-> "add", id |-> 0, time |-> 0, fire |-> FALSE,
           missed |-> FALSE, pid |-> 0, repeat |-> "no", which |-> 0]

VARIABLES
  prompt,             \* in this behaviour ALARM is written before the time it
                      \*   is for is reached
  at,                 \* at[x]: the stage of context x
  task,               \* task[x]: the locals of x's call
  lock,               \* who holds the pool's spin lock, or NoUser
  heap,               \* the nodes in the heap
  head,               \* the head of the heap, or 0
  free,               \* the free list
  target,             \* target[i]: entry i's target
  entry_ids_high,     \* entry_ids_high[i]: a uint8_t
  alarm_in_progress,  \* a public id, or 0
  left,               \* left[x]: what is left of Budget[x]
  repeats,            \* how many repeats were asked for
  who,                \* history: who[i]: the alarm node i was last allocated for
  count,              \* history: how many alarms were allocated
  known,              \* history: known[a]: the public id returned for alarm a, or 0
  retired,            \* history: the alarms whose node the interrupt has freed
  stopped             \* history: the alarms that a cancel has stopped

timing == <<timerVars, prompt>>
heapVars == <<heap, head, free>>
history == <<who, count, known, retired, stopped>>
vars == <<timing, at, task, lock, heapVars, target, entry_ids_high,
          alarm_in_progress, left, repeats, history>>

TypeOK ==
  /\ TimerTypeOK(Contexts) /\ prompt \in BOOLEAN
  /\ at \in [Contexts -> Stages]
  /\ \A x \in Contexts :
       /\ task[x].kind \in Kinds /\ task[x].repeat \in Repeats
       /\ task[x].id \in 0..max_nodes /\ task[x].which \in 0..MaxAlarms
       /\ task[x].time \in Nat /\ task[x].pid \in Nat
       /\ task[x].fire \in BOOLEAN /\ task[x].missed \in BOOLEAN
  /\ lock \in Contexts \cup {NoUser}
  /\ heap \subseteq Ids /\ head \in heap \cup {0}
  /\ free \in Seq(Ids)
  /\ target \in [Ids -> Nat] /\ entry_ids_high \in [Ids -> 0..255]
  /\ alarm_in_progress \in Nat
  /\ left \in [Threads -> Nat] /\ repeats \in 0..MaxRepeats
  /\ who \in [Ids -> 0..MaxAlarms] /\ count \in 0..MaxAlarms
  /\ known \in [Alarms -> Nat]
  /\ retired \subseteq Alarms /\ stopped \subseteq Alarms

Init ==
  /\ TimerInit /\ prompt \in BOOLEAN
  /\ at = [x \in Contexts |-> "idle"]
  /\ task = [x \in Contexts |-> NoTask]
  /\ lock = NoUser
  /\ heap = {} /\ head = 0 /\ free = [k \in Ids |-> k]
  /\ target = [i \in Ids |-> 0]
  /\ entry_ids_high = [i \in Ids |-> 0]
  /\ alarm_in_progress = 0
  /\ left = Budget /\ repeats = 0
  /\ who = [i \in Ids |-> 0] /\ count = 0
  /\ known = [a \in Alarms |-> 0]
  /\ retired = {} /\ stopped = {}

\* make_public_id, and its parts.
Public(id) == entry_ids_high[id] * 256 + id
NodeOf(p) == p % 256
HighOf(p) == p \div 256

\* The interrupt preempts the threads of its core.
Runs(x) == x \in Local => at[Irq] = "idle"
Unlocked == lock = NoUser

Go(x, stage, t) ==
  /\ at' = [at EXCEPT ![x] = stage]
  /\ task' = [task EXCEPT ![x] = t]

\* ph_insert_node: a node that compares equal to the head becomes the head.
Insert(id, t) ==
  /\ target' = [target EXCEPT ![id] = t]
  /\ heap' = heap \cup {id}
  /\ head' = IF heap = {} \/ t <= target[head] THEN id ELSE head

\* Mutant: the node is not unlinked.
RemoveNothing(id) == UNCHANGED <<heap, head>>

\* A removal: any node that no other compares before may become the head.
Remove(id) ==
  /\ heap' = heap \ {id}
  /\ IF heap' = {} THEN head' = 0
     ELSE /\ head' \in heap'
          /\ \A i \in heap' : target[head'] <= target[i]

\* Mutant: the node is never given back.
NeverFreed(id) == free

\* ph_free_node: a free list that has run empty stays empty.
Freed(id) == IF free = << >> THEN << >> ELSE Append(free, id)
-----------------------------------------------------------------------------
(* alarm_pool_add_alarm_at *)

CallAdd(x) ==
  /\ at[x] = "idle" /\ Runs(x)
  /\ left[x] > 0 /\ left' = [left EXCEPT ![x] = @ - 1]
  /\ \E t \in Targets, f \in BOOLEAN :
       Go(x, "entry", [NoTask EXCEPT !.time = t, !.fire = f])
  /\ UNCHANGED <<timing, lock, heapVars, target, entry_ids_high,
                 alarm_in_progress, repeats, history>>

\* Unlocked again: a missed alarm has no public id, and its callback is
\* run here if fire_if_past.
AddDone(x, t) ==
  IF t.missed /\ t.fire THEN Go(x, "past", t)
  ELSE Go(x, "return",
          [NoTask EXCEPT !.which = t.which,
                         !.pid = IF t.missed THEN 0 ELSE Public(t.id)])

NoSpace(x) ==
  /\ at[x] = "entry" /\ task[x].kind = "add" /\ Runs(x) /\ Unlocked
  /\ free = << >>
  /\ Go(x, "idle", NoTask)
  /\ UNCHANGED <<timing, lock, heapVars, target, entry_ids_high,
                 alarm_in_progress, left, repeats, history>>

\* add_alarm_under_lock: set_target is called if the node is the new head.
AddNode(x) ==
  LET id == Head(free)
      t == [task[x] EXCEPT !.id = id, !.which = count + 1]
  IN
  /\ at[x] = "entry" /\ task[x].kind = "add" /\ Runs(x) /\ Unlocked
  /\ free # << >> /\ count < MaxAlarms
  /\ Insert(id, t.time)
  /\ free' = Tail(free)
  /\ count' = count + 1 /\ who' = [who EXCEPT ![id] = count + 1]
  /\ IF head' = id THEN lock' = x /\ Go(x, "check", t)
     ELSE UNCHANGED lock /\ AddDone(x, t)
  /\ UNCHANGED <<timing, entry_ids_high, alarm_in_progress, left, repeats,
                 known, retired, stopped>>

\* set_target missed it: the node is removed and freed, its high byte kept.
AddSettled(x) ==
  LET id == task[x].id IN
  /\ at[x] = "settle" /\ task[x].kind = "add"
  /\ IF task[x].missed THEN Remove(id) /\ free' = Freed(id)
     ELSE UNCHANGED heapVars
  /\ lock' = NoUser
  /\ AddDone(x, task[x])
  /\ UNCHANGED <<timing, target, entry_ids_high, alarm_in_progress, left,
                 repeats, history>>

\* What a callback returns; NewTime is the target it asks for.
Asks(r) == repeats' = IF r = "no" THEN repeats ELSE repeats + 1
NewTime(r, t) == (IF r = "target" THEN t ELSE now) + Delay

\* The callback of a missed alarm, in the thread: it asks for no repeat, or
\* the loop goes on with the new time and the missed of this round.
RunPast(x) ==
  \E r \in Repeats :
    /\ at[x] = "past" /\ Runs(x)
    /\ Asks(r) /\ repeats' <= MaxRepeats
    /\ IF r = "no" THEN Go(x, "return", [NoTask EXCEPT !.which = task[x].which])
       ELSE Go(x, "entry", [task[x] EXCEPT !.time = NewTime(r, @)])
    /\ UNCHANGED <<timing, lock, heapVars, target, entry_ids_high,
                   alarm_in_progress, left, history>>

\* The caller stores the public id it was returned.
Return(x) ==
  /\ at[x] = "return" /\ Runs(x)
  /\ known' = [known EXCEPT ![task[x].which] = task[x].pid]
  /\ Go(x, "idle", NoTask)
  /\ UNCHANGED <<timing, lock, heapVars, target, entry_ids_high,
                 alarm_in_progress, left, repeats, who, count, retired, stopped>>
-----------------------------------------------------------------------------
(* alarm_pool_cancel_alarm *)

CallCancel(x) ==
  /\ at[x] = "idle" /\ Runs(x)
  /\ left[x] > 0 /\ left' = [left EXCEPT ![x] = @ - 1]
  /\ \E a \in Alarms :
       /\ known[a] # 0
       /\ Go(x, "entry", [NoTask EXCEPT !.kind = "cancel", !.pid = known[a]])
  /\ UNCHANGED <<timing, lock, heapVars, target, entry_ids_high,
                 alarm_in_progress, repeats, history>>

\* The whole critical section: a node in the heap whose high byte agrees
\* is removed and freed, an alarm in progress is kept from repeating.
Cancel(x) ==
  LET p == task[x].pid
      id == NodeOf(p)
  IN
  /\ at[x] = "entry" /\ task[x].kind = "cancel" /\ Runs(x) /\ Unlocked
  /\ IF id \in heap /\ HighOf(p) = entry_ids_high[id]
     THEN Remove(id) /\ free' = Freed(id) ELSE UNCHANGED heapVars
  /\ alarm_in_progress' = IF id \notin heap /\ p = alarm_in_progress
                          THEN 0 ELSE alarm_in_progress
  /\ stopped' = IF heap' # heap \/ alarm_in_progress' # alarm_in_progress
                THEN stopped \cup {who[id]} ELSE stopped
  /\ Go(x, "idle", NoTask)
  /\ UNCHANGED <<timing, lock, target, entry_ids_high, left, repeats, who,
                 count, known, retired>>
-----------------------------------------------------------------------------
(* hardware_alarm_set_target, called under the pool's lock *)

Check(x) ==
  /\ at[x] = "check"
  /\ Go(x, IF Overtaken(task[x].time) THEN "settle" ELSE "program",
        [task[x] EXCEPT !.missed = Overtaken(task[x].time)])
  /\ UNCHANGED <<timing, lock, heapVars, target, entry_ids_high,
                 alarm_in_progress, left, repeats, history>>

\* The ARMED bit and the time are read one after the other: a match between
\* them raises the interrupt of a target that is reported as missed.
SetTarget(x) ==
  /\ \/ at[x] = "program" /\ Program(x) /\ Go(x, "write", task[x])
     \/ at[x] = "write" /\ SetAlarm(task[x].time) /\ Go(x, "verify", task[x])
     \/ at[x] = "verify" /\ Fired /\ Go(x, "settle", task[x])
     \/ at[x] = "verify" /\ armed /\ UNCHANGED timerVars /\ Go(x, "late", task[x])
     \/ /\ at[x] = "late" /\ Verify(task[x].time, x \in Local \cup {Irq})
        /\ Go(x, "settle", [task[x] EXCEPT !.missed = Overtaken(task[x].time)])
  /\ UNCHANGED <<prompt, lock, heapVars, target, entry_ids_high,
                 alarm_in_progress, left, repeats, history>>
-----------------------------------------------------------------------------
(* alarm_pool_alarm_callback, in the interrupt *)

\* The interrupt is taken unless a thread of its core holds the lock.
IrqEnter ==
  /\ at[Irq] = "idle" /\ lock \notin Local
  /\ Interrupt /\ Go(Irq, "accept", NoTask)
  /\ UNCHANGED <<prompt, lock, heapVars, target, entry_ids_high,
                 alarm_in_progress, left, repeats, history>>

IrqAccept ==
  /\ \/ at[Irq] = "accept" /\ Acknowledge(Irq) /\ Go(Irq, "valid", NoTask)
     \/ at[Irq] = "valid" /\ Accept /\ Go(Irq, "top", NoTask)
     \/ at[Irq] = "valid" /\ Dismiss /\ Go(Irq, "idle", NoTask)
     \/ at[Irq] = "valid" /\ Early /\ Go(Irq, "rewind", NoTask)
     \/ at[Irq] = "rewind" /\ Rewind /\ Go(Irq, "idle", NoTask)
  /\ UNCHANGED <<prompt, lock, heapVars, target, entry_ids_high,
                 alarm_in_progress, left, repeats, history>>

\* The time is read before the lock is taken.
ReadTime ==
  /\ at[Irq] = "top"
  /\ Go(Irq, "peek", [NoTask EXCEPT !.time = now])
  /\ UNCHANGED <<timing, lock, heapVars, target, entry_ids_high,
                 alarm_in_progress, left, repeats, history>>

NothingLeft ==
  /\ at[Irq] = "peek" /\ Unlocked /\ heap = {}
  /\ Go(Irq, "idle", NoTask)
  /\ UNCHANGED <<timing, lock, heapVars, target, entry_ids_high,
                 alarm_in_progress, left, repeats, history>>

\* The head is due: it leaves the heap, its node stays allocated.
TakeHead ==
  /\ at[Irq] = "peek" /\ Unlocked /\ heap # {}
  /\ target[head] <= task[Irq].time
  /\ alarm_in_progress' = Public(head)
  /\ Go(Irq, "callback",
        [NoTask EXCEPT !.kind = "fire", !.id = head, !.time = target[head],
                       !.pid = Public(head), !.which = who[head]])
  /\ Remove(head)
  /\ UNCHANGED <<timing, lock, free, target, entry_ids_high, left, repeats,
                 history>>

\* The head is not due: the alarm is set for it.
Rearm ==
  /\ at[Irq] = "peek" /\ Unlocked /\ heap # {}
  /\ target[head] > task[Irq].time
  /\ lock' = Irq
  /\ Go(Irq, "check", [NoTask EXCEPT !.kind = "rearm", !.time = target[head]])
  /\ UNCHANGED <<timing, heapVars, target, entry_ids_high,
                 alarm_in_progress, left, repeats, history>>

Callback ==
  \E r \in Repeats :
    /\ at[Irq] = "callback"
    /\ Asks(r) /\ repeats' <= MaxRepeats
    /\ Go(Irq, "after", [task[Irq] EXCEPT !.repeat = r])
    /\ UNCHANGED <<timing, lock, heapVars, target, entry_ids_high,
                   alarm_in_progress, left, history>>

\* Mutant: a cancel during the callback goes unnoticed.
AlwaysWanted(t) == t.repeat # "no"

\* The alarm repeats unless it was cancelled while its callback ran.
StillWanted(t) == t.repeat # "no" /\ alarm_in_progress # 0

\* It is re-added under its id, for create_if_past.
ReAdd ==
  LET t == task[Irq]
      time == NewTime(t.repeat, t.time)
  IN
  /\ at[Irq] = "after" /\ Unlocked /\ StillWanted(t)
  /\ Insert(t.id, time)
  /\ IF head' = t.id
     THEN /\ lock' = Irq
          /\ Go(Irq, "check", [t EXCEPT !.kind = "again", !.time = time])
          /\ UNCHANGED alarm_in_progress
     ELSE /\ alarm_in_progress' = 0
          /\ Go(Irq, "top", NoTask)
          /\ UNCHANGED lock
  /\ UNCHANGED <<timing, free, entry_ids_high, left, repeats, history>>

\* Mutant: the high byte of a retired node is kept.
Kept(h) == h

Bumped(h) == (h + 1) % 256

\* It does not: its node is freed and its high byte bumped.
Retire ==
  LET id == task[Irq].id IN
  /\ at[Irq] = "after" /\ Unlocked /\ ~StillWanted(task[Irq])
  /\ free' = Freed(id)
  /\ entry_ids_high' = [entry_ids_high EXCEPT ![id] = Bumped(@)]
  /\ alarm_in_progress' = 0
  /\ retired' = retired \cup {task[Irq].which}
  /\ Go(Irq, "top", NoTask)
  /\ UNCHANGED <<timing, lock, heap, head, target, left, repeats, who,
                 count, known, stopped>>

\* Mutant: a missed rearm ends the loop.
NextAfterRearm(t) == IF t.kind = "rearm" THEN "idle" ELSE "top"

\* The loop goes on after a callback, and after a rearm that was missed.
AfterSettle(t) == IF t.kind = "rearm" /\ ~t.missed THEN "idle" ELSE "top"

IrqSettled ==
  LET t == task[Irq] IN
  /\ at[Irq] = "settle"
  /\ lock' = NoUser
  /\ alarm_in_progress' = IF t.kind = "again" THEN 0 ELSE alarm_in_progress
  /\ Go(Irq, AfterSettle(t), NoTask)
  /\ UNCHANGED <<timing, heapVars, target, entry_ids_high, left, repeats,
                 history>>
-----------------------------------------------------------------------------
ThreadStep(x) ==
  \/ NoSpace(x) \/ AddNode(x) \/ AddSettled(x) \/ RunPast(x) \/ Return(x)
  \/ Cancel(x) \/ Check(x) \/ SetTarget(x)

IrqStep ==
  \/ IrqEnter \/ IrqAccept \/ ReadTime \/ NothingLeft \/ TakeHead \/ Rearm
  \/ Callback \/ ReAdd \/ Retire \/ IrqSettled \/ Check(Irq) \/ SetTarget(Irq)

\* ALARM will be written before the time it is for is reached, by
\* set_target and by the handler.
InTime ==
  /\ \A x \in Contexts : at[x] \in {"program", "write"} => now + 1 < task[x].time
  /\ at[Irq] = "rewind" => Hi(now + 1) < target_hi

TimePasses ==
  /\ prompt => InTime
  /\ Tick
  /\ UNCHANGED <<prompt, at, task, lock, heapVars, target, entry_ids_high,
                 alarm_in_progress, left, repeats, history>>

Next ==
  \/ IrqStep \/ TimePasses
  \/ \E x \in Threads : ThreadStep(x) \/ CallAdd(x) \/ CallCancel(x)

Spec == Init /\ [][Next]_vars

\* The processors run and time passes; nobody has to add or cancel.  A
\* handler that is raised again and again within one microsecond keeps
\* neither time from passing nor the timer's lock from the other core.
Fairness ==
  /\ WF_vars(IrqStep) /\ SF_vars(TimePasses)
  /\ \A x \in Threads : WF_vars(ThreadStep(x))
  /\ \A x \in Threads \ Local : SF_vars(SetTarget(x))

FairSpec == Spec /\ Fairness
-----------------------------------------------------------------------------
(* Properties *)

\* Nodes a context has taken out of the heap or not yet put there.
Held == {task[x].id : x \in {y \in Contexts : at[y] \in {"callback", "after"}}}

\* While the free list has not run empty, every node is in the heap, on the
\* free list or held by the interrupt, and in one of them once: cancels,
\* missed adds and callbacks that end free a node exactly once.
NodesAccounted ==
  /\ TypeOK
  /\ free # << >> =>
       heap \cup Held \cup {free[k] : k \in 1..Len(free)} = Ids
  /\ heap \cap Held = {}
  /\ \A j, k \in 1..Len(free) :
       free[j] \notin heap \cup Held /\ (free[j] = free[k] => j = k)

\* The asserts of alarm_pool_alarm_callback and add_alarm_under_lock: the
\* alarm in progress is the one whose callback ran, unless it was cancelled,
\* and its node is not in the heap.
CallbackAsserts ==
  at[Irq] \in {"callback", "after"} =>
    /\ alarm_in_progress \in {0, Public(task[Irq].id)}
    /\ task[Irq].id \notin heap

\* An alarm that a cancel has stopped is never in the heap again: it does
\* not fire, also when the cancel came while its callback was running.
CancelIsFinal == \A i \in heap : who[i] \notin stopped

\* The public id of an alarm whose node the interrupt has freed is not that
\* of a later alarm: cancelling it late cancels nothing.
RetiredIdsAreFresh ==
  \A i \in heap : \A a \in retired : known[a] # 0 => known[a] # Public(i)

\* The alarm that will match next, in time for t.
WillFire(t) ==
  /\ pending
  /\ \/ intr
     \/ armed /\ \E u \in (now + 1)..t : Lo(u) = alarm /\ Hi(u) >= target_hi

\* While alarms are in the heap and nobody is at work on them, the hardware
\* alarm is raised, or set to match no later than the first of them.
NoAlarmForgotten ==
  prompt /\ heap # {} /\ Unlocked /\ at[Irq] = "idle" => WillFire(target[head])

\* Every alarm in the heap that is due within the bound leaves it: it fires
\* or is cancelled.
EveryAlarmFires ==
  \A i \in Ids : prompt /\ i \in heap /\ target[i] <= MaxTime ~> i \notin heap
=============================================================================
