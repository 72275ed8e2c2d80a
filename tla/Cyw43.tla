------------------------------- MODULE Cyw43 -------------------------------
(***************************************************************************)
(* The background processing of the CYW43 wireless driver                  *)
(* (pico_cyw43_arch/cyw43_arch_threadsafe_background.c).  Threads of both  *)
(* cores use the driver under a recursive mutex; what the chip or a timer  *)
(* asks for is put in a dispatch slot by an interrupt handler and run by a *)
(* low priority interrupt of the core that initialised the driver, when it *)
(* finds the mutex free.                                                   *)
(*                                                                         *)
(* A context is a core's thread or one of three handlers, "low" and "gpio" *)
(* on cyw43_core_num and "alarm" on the alarm pool's core; a handler       *)
(* preempts what has a lower priority on its core.  The mutex is the one   *)
(* AbstractMutex describes (module Mutex implements it).                   *)
(*                                                                         *)
(* Where a context stands:                                                 *)
(*   off      a handler that is not active                                 *)
(*   idle     a thread outside the functions of this module                *)
(*   load     about to load cyw43_poll for low_prio_irq_schedule_dispatch  *)
(*   store    about to store the function into its slot                    *)
(*   notify   about to pend the low priority interrupt, or force gpio      *)
(*   release  about to exit the mutex                                      *)
(*   scan     low: about to look at a slot                                 *)
(*   clear    low: has loaded a slot, not cleared it                       *)
(*   call     low: about to call what it has loaded                        *)
(*   hook     low: at the end of cyw43_poll_func                           *)
(***************************************************************************)
EXTENDS Naturals, FiniteSets

CONSTANTS
  Cores,      \* the processor cores
  AlarmCore,  \* the core that services the alarm pool's interrupt
  MaxNest,    \* bound: how deep a thread nests cyw43_thread_enter
  Budget,     \* bound: the enters, starts and stops of the threads together
  NoOwner     \* LOCK_INVALID_OWNER_ID

ASSUME Cyw43Assumption ==
  /\ AlarmCore \in Cores
  /\ MaxNest \in Nat /\ Budget \in Nat
  /\ NoOwner \notin Cores

Threads == Cores \X {"thread"}
Low == <<"low">>
Gpio == <<"gpio">>
Alarm == <<"alarm">>
Handlers == {Low, Gpio, Alarm}
Contexts == Threads \cup Handlers

Slots == {"CYW43", "ADAPTER"}
\* What a slot, or cyw43_poll, may hold: NULL, cyw43_poll_func, periodic_worker.
Functions == {"null", "poll", "worker"}
NoArg == [slot |-> "none", f |-> "null", next |-> "off"]

VARIABLES
  pc,              \* pc[x]: where context x stands
  arg,             \* arg[x]: the slot and function in x's hands, and the
                   \*   stage x goes to after a dispatch is scheduled
  slots,           \* slots[s]: low_priority_irq_dispatch_slots
  cyw43_poll,      \* the driver is up when it is not NULL
  cyw43_core_num,  \* the core that called cyw43_arch_init
  pending,         \* pending[c]: the low priority interrupt, in c's NVIC
  force,           \* the force bit of the host-wake interrupt
  enabled,         \* the host-wake interrupt is enabled
  wake,            \* the level of the host-wake pin
  owner,           \* cyw43_mutex: the core that owns it, and
  enter_count,     \*   how often it was entered
  sem,             \* the permits of cyw43_irq_sem
  nest,            \* nest[t]: how deep thread t is in the driver
  left,            \* what is left of Budget
  owed             \* history: owed[s]: s was scheduled and nothing it asked
                   \*   for has started since

mutexVars == <<owner, enter_count, nest>>
irqVars == <<pending, force, enabled, wake>>
vars == <<pc, arg, slots, cyw43_poll, cyw43_core_num, irqVars, mutexVars, sem, left, owed>>

CoreOf(x) ==
  CASE x \in Threads -> x[1]
    [] x = Alarm -> AlarmCore
    [] OTHER -> cyw43_core_num

Priority(x) ==
  CASE x = Gpio -> 3 [] x = Alarm -> 2 [] x = Low -> 1 [] OTHER -> 0

Active(x) == pc[x] # "off"

\* No handler of a higher priority is active on the core of x.
Running(x) ==
  \A h \in Handlers :
    Active(h) /\ CoreOf(h) = CoreOf(x) => Priority(h) <= Priority(x)

\* A handler starts when its core runs nothing of its priority or above.
MayPreempt(h) == ~Active(h) /\ Running(h)

\* cyw43_arch_init has returned, on either core; the driver is not up yet, or
\* it is and has nothing to do.
Init ==
  /\ pc = [x \in Contexts |-> IF x \in Threads THEN "idle" ELSE "off"]
  /\ arg = [x \in Contexts |-> NoArg]
  /\ slots = [s \in Slots |-> "null"]
  /\ cyw43_poll \in {"null", "poll"}
  /\ cyw43_core_num \in Cores
  /\ pending = [c \in Cores |-> FALSE]
  /\ force = FALSE /\ enabled = TRUE /\ wake = FALSE
  /\ owner = NoOwner /\ enter_count = 0
  /\ sem = 0
  /\ nest = [t \in Threads |-> 0]
  /\ left = Budget
  /\ owed = [s \in Slots |-> FALSE]

Goto(x, stage) == pc' = [pc EXCEPT ![x] = stage] /\ UNCHANGED arg
GotoWith(x, stage, a) == pc' = [pc EXCEPT ![x] = stage] /\ arg' = [arg EXCEPT ![x] = a]

Dispatch(s, f, next) == [slot |-> s, f |-> f, next |-> next]
-----------------------------------------------------------------------------
(* low_prio_irq_schedule_dispatch, by any context *)

\* The callers that pass cyw43_poll load it first.
LoadPoll(x) ==
  /\ pc[x] = "load" /\ Running(x)
  /\ GotoWith(x, "store", [arg[x] EXCEPT !.f = cyw43_poll])
  /\ UNCHANGED <<slots, cyw43_poll, cyw43_core_num, irqVars, mutexVars, sem, left, owed>>

Store(x) ==
  /\ pc[x] = "store" /\ Running(x)
  /\ slots' = [slots EXCEPT ![arg[x].slot] = arg[x].f]
  /\ owed' = [owed EXCEPT ![arg[x].slot] =
                @ \/ arg[x].f = "worker" \/ (arg[x].f = "poll" /\ cyw43_poll = "poll")]
  /\ Goto(x, "notify")
  /\ UNCHANGED <<cyw43_poll, cyw43_core_num, irqVars, mutexVars, sem, left>>

\* Mutant: the interrupt is pended whatever the core.
PendsAnywhere(x) == TRUE

PendsDirectly(x) == CoreOf(x) = cyw43_core_num

\* irq_set_pending works on the caller's own core only.
Notify(x) ==
  /\ pc[x] = "notify" /\ Running(x)
  /\ IF PendsDirectly(x)
     THEN pending' = [pending EXCEPT ![CoreOf(x)] = TRUE] /\ UNCHANGED force
     ELSE force' = TRUE /\ UNCHANGED pending
  /\ GotoWith(x, arg[x].next,
              IF x = Low THEN [arg[x] EXCEPT !.f = "null"] ELSE NoArg)
  /\ UNCHANGED <<slots, cyw43_poll, cyw43_core_num, enabled, wake, mutexVars, sem, left, owed>>

Schedule(x) == LoadPoll(x) \/ Store(x) \/ Notify(x)
-----------------------------------------------------------------------------
(* The interrupt handlers that schedule *)

\* periodic_alarm_handler.
AlarmEnter ==
  /\ MayPreempt(Alarm)
  /\ GotoWith(Alarm, "store", Dispatch("ADAPTER", "worker", "off"))
  /\ UNCHANGED <<slots, cyw43_poll, cyw43_core_num, irqVars, mutexVars, sem, left, owed>>

\* gpio_irq_handler: the level stays until it is served, so the interrupt
\* is disabled; the force bit is cleared before cyw43_poll is loaded.
GpioEnter ==
  /\ (enabled /\ wake) \/ force
  /\ MayPreempt(Gpio)
  /\ enabled' = FALSE /\ force' = FALSE
  /\ GotoWith(Gpio, "load", Dispatch("CYW43", "null", "off"))
  /\ UNCHANGED <<slots, cyw43_poll, cyw43_core_num, pending, wake, mutexVars, sem, left, owed>>
-----------------------------------------------------------------------------
(* low_priority_irq_handler *)

CanEnter(c) == owner \in {NoOwner, c}

\* Mutant: the handler runs when its core's thread is inside the driver.
AloneOnCore == TRUE

\* recursive_mutex_enter_count is 1 after try_enter: nobody was inside.
EnteredAlone == enter_count = 0

LowTaken == pending[cyw43_core_num] /\ MayPreempt(Low)

LowEnter ==
  /\ LowTaken /\ CanEnter(cyw43_core_num) /\ EnteredAlone
  /\ pending' = [pending EXCEPT ![cyw43_core_num] = FALSE]
  /\ owner' = cyw43_core_num /\ enter_count' = enter_count + 1
  /\ GotoWith(Low, "scan", Dispatch("CYW43", "null", "off"))
  /\ UNCHANGED <<slots, cyw43_poll, cyw43_core_num, force, enabled, wake, nest, sem, left, owed>>

\* low_priority_irq_missed: a thread of either core is inside the driver.
\* The semaphore is released all the same.
LowMissed ==
  /\ LowTaken /\ ~(CanEnter(cyw43_core_num) /\ EnteredAlone)
  /\ pending' = [pending EXCEPT ![cyw43_core_num] = FALSE]
  /\ sem' = 1
  /\ UNCHANGED <<pc, arg, slots, cyw43_poll, cyw43_core_num, force, enabled, wake, mutexVars, left, owed>>

\* On to the next slot, or out of the loop.
NextSlot ==
  IF arg[Low].slot = "CYW43"
  THEN GotoWith(Low, "scan", Dispatch("ADAPTER", "null", "off"))
  ELSE GotoWith(Low, "release", NoArg)

LowScan ==
  /\ pc[Low] = "scan" /\ Running(Low)
  /\ LET f == slots[arg[Low].slot] IN
     IF f = "null" THEN NextSlot
                   ELSE GotoWith(Low, "clear", [arg[Low] EXCEPT !.f = f])
  /\ UNCHANGED <<slots, cyw43_poll, cyw43_core_num, irqVars, mutexVars, sem, left, owed>>

LowClear ==
  /\ pc[Low] = "clear" /\ Running(Low)
  /\ slots' = [slots EXCEPT ![arg[Low].slot] = "null"]
  /\ Goto(Low, "call")
  /\ UNCHANGED <<cyw43_poll, cyw43_core_num, irqVars, mutexVars, sem, left, owed>>

Served == owed' = [owed EXCEPT ![arg[Low].slot] = FALSE]

\* cyw43_poll_func after a cyw43_deinit: ignored.
PollIgnored ==
  /\ pc[Low] = "call" /\ Running(Low)
  /\ arg[Low].f = "poll" /\ cyw43_poll = "null"
  /\ Served /\ NextSlot
  /\ UNCHANGED <<slots, cyw43_poll, cyw43_core_num, irqVars, mutexVars, sem, left>>

\* cyw43_poll_func: the packets are processed; one of them may be an event
\* that schedules another poll.
Poll ==
  /\ pc[Low] = "call" /\ Running(Low)
  /\ arg[Low].f = "poll" /\ cyw43_poll = "poll"
  /\ wake' = FALSE
  /\ Served
  /\ \/ Goto(Low, "hook")
     \/ GotoWith(Low, "store", Dispatch("CYW43", "poll", "hook"))
  /\ UNCHANGED <<slots, cyw43_poll, cyw43_core_num, pending, force, enabled, mutexVars, sem, left>>

\* Mutant: the slot is cleared when its function has returned.
ClearedAtReturn == [slots EXCEPT ![arg[Low].slot] = "null"]

SlotsAtReturn == slots

\* cyw43_post_poll_hook.
PollHook ==
  /\ pc[Low] = "hook" /\ Running(Low)
  /\ enabled' = TRUE
  /\ slots' = SlotsAtReturn
  /\ NextSlot
  /\ UNCHANGED <<cyw43_poll, cyw43_core_num, pending, force, wake, mutexVars, sem, left, owed>>

\* periodic_worker: when cyw43_sleep has counted down it schedules a poll.
\* The counter is abstracted: it may have, or not, whenever the driver is up.
Worker ==
  /\ pc[Low] = "call" /\ Running(Low) /\ arg[Low].f = "worker"
  /\ Served
  /\ \/ NextSlot
     \/ /\ cyw43_poll = "poll"
        /\ GotoWith(Low, "load", Dispatch("CYW43", "null", "release"))
  /\ UNCHANGED <<slots, cyw43_poll, cyw43_core_num, irqVars, mutexVars, sem, left>>

LowExit ==
  /\ pc[Low] = "release" /\ Running(Low)
  /\ enter_count' = enter_count - 1
  /\ owner' = IF enter_count = 1 THEN NoOwner ELSE owner
  /\ sem' = 1
  /\ GotoWith(Low, "off", NoArg)
  /\ UNCHANGED <<slots, cyw43_poll, cyw43_core_num, irqVars, nest, left, owed>>

LowStep ==
  \/ LowEnter \/ LowMissed \/ LowScan \/ LowClear
  \/ PollIgnored \/ Poll \/ PollHook \/ Worker \/ LowExit
  \/ Schedule(Low)
-----------------------------------------------------------------------------
(* The threads *)

AtRest(t) == pc[t] = "idle" /\ Running(t)
Spend == left > 0 /\ left' = left - 1

\* cyw43_thread_enter, when recursive_mutex_enter_blocking returns.
ThreadEnter(t) ==
  /\ AtRest(t) /\ CanEnter(CoreOf(t)) /\ nest[t] < MaxNest
  /\ Spend
  /\ owner' = CoreOf(t) /\ enter_count' = enter_count + 1
  /\ nest' = [nest EXCEPT ![t] = @ + 1]
  /\ UNCHANGED <<pc, arg, slots, cyw43_poll, cyw43_core_num, irqVars, sem, owed>>

\* The test of cyw43_thread_exit: the outermost exit schedules a poll again
\* that the low priority interrupt has missed.
ThreadExit(t) ==
  /\ AtRest(t) /\ nest[t] > 0
  /\ IF enter_count = 1 /\ slots["CYW43"] # "null"
     THEN GotoWith(t, "load", Dispatch("CYW43", "null", "release"))
     ELSE Goto(t, "release")
  /\ UNCHANGED <<slots, cyw43_poll, cyw43_core_num, irqVars, mutexVars, sem, left, owed>>

\* recursive_mutex_exit.
ThreadRelease(t) ==
  /\ pc[t] = "release" /\ Running(t)
  /\ enter_count' = enter_count - 1
  /\ owner' = IF enter_count = 1 THEN NoOwner ELSE owner
  /\ nest' = [nest EXCEPT ![t] = @ - 1]
  /\ GotoWith(t, "idle", NoArg)
  /\ UNCHANGED <<slots, cyw43_poll, cyw43_core_num, irqVars, sem, left, owed>>

\* Mutant: the driver starts and waits for the chip to ask for a poll.
NoKick(t) == UNCHANGED <<pc, arg>>

Kick(t) == GotoWith(t, "store", Dispatch("CYW43", "poll", "idle"))

\* cyw43_ensure_up: the driver starts and kicks its first poll.
DriverUp(t) ==
  /\ AtRest(t) /\ nest[t] > 0 /\ cyw43_poll = "null"
  /\ Spend
  /\ cyw43_poll' = "poll"
  /\ Kick(t)
  /\ UNCHANGED <<slots, cyw43_core_num, irqVars, mutexVars, sem, owed>>

\* cyw43_deinit: the chip is powered off, its host-wake pin falls, and
\* nothing is owed to the driver any more.
DriverDown(t) ==
  /\ AtRest(t) /\ nest[t] > 0 /\ cyw43_poll # "null"
  /\ Spend
  /\ cyw43_poll' = "null" /\ wake' = FALSE
  /\ owed' = [owed EXCEPT !["CYW43"] = FALSE]
  /\ UNCHANGED <<pc, arg, slots, cyw43_core_num, pending, force, enabled, mutexVars, sem>>

\* cyw43_await_background_or_timeout_us that takes the permit.
Await(t) ==
  /\ AtRest(t) /\ sem = 1
  /\ sem' = 0
  /\ UNCHANGED <<pc, arg, slots, cyw43_poll, cyw43_core_num, irqVars, mutexVars, left, owed>>

ThreadStep(t) == Schedule(t) \/ ThreadRelease(t)

Client(t) == ThreadEnter(t) \/ DriverUp(t) \/ DriverDown(t) \/ Await(t)

\* The chip raises host-wake.
HostWake ==
  /\ cyw43_poll = "poll" /\ ~wake
  /\ wake' = TRUE
  /\ UNCHANGED <<pc, arg, slots, cyw43_poll, cyw43_core_num, pending, force, enabled, mutexVars, sem, left, owed>>

Next ==
  \/ \E t \in Threads : ThreadStep(t) \/ ThreadExit(t) \/ Client(t)
  \/ LowStep
  \/ GpioEnter \/ Schedule(Gpio)
  \/ AlarmEnter \/ Schedule(Alarm)
  \/ HostWake

Spec == Init /\ [][Next]_vars

\* Interrupts are taken and handlers return; the alarm comes every
\* CYW43_SLEEP_CHECK_MS, far apart enough for what it preempts to go on;
\* whoever has entered the driver exits it.  Contention is bounded by Budget.
Fairness ==
  /\ \A t \in Threads : SF_vars(ThreadStep(t)) /\ SF_vars(ThreadExit(t))
  /\ SF_vars(LowStep)
  /\ WF_vars(GpioEnter \/ Schedule(Gpio))
  /\ SF_vars(AlarmEnter \/ Schedule(Alarm))

FairSpec == Spec /\ Fairness
-----------------------------------------------------------------------------
(* Properties *)

TypeOK ==
  /\ pc \in [Contexts -> {"off", "idle", "load", "store", "notify", "release",
                          "scan", "clear", "call", "hook"}]
  /\ \A x \in Contexts : arg[x].slot \in Slots \cup {"none"} /\ arg[x].f \in Functions
  /\ slots \in [Slots -> Functions]
  /\ cyw43_poll \in {"null", "poll"} /\ cyw43_core_num \in Cores
  /\ pending \in [Cores -> BOOLEAN]
  /\ force \in BOOLEAN /\ enabled \in BOOLEAN /\ wake \in BOOLEAN
  /\ owner \in Cores \cup {NoOwner}
  /\ nest \in [Threads -> 0..MaxNest] /\ enter_count \in 0..(MaxNest + 1)
  /\ sem \in 0..1

\* Background work runs with no thread of either core inside the driver,
\* and it and whoever is inside the driver pass cyw43_thread_lock_check.
BackgroundAlone ==
  /\ TypeOK
  /\ Active(Low) => /\ owner = cyw43_core_num /\ enter_count = 1
                    /\ \A t \in Threads : nest[t] = 0
  /\ \A t \in Threads : nest[t] > 0 => owner = CoreOf(t) /\ enter_count = nest[t]

\* Some context is about to put a function into slot s.
OnItsWay(s) ==
  \E x \in Contexts :
    /\ arg[x].slot = s
    /\ \/ pc[x] = "load" /\ cyw43_poll = "poll"
       \/ pc[x] = "store" /\ arg[x].f # "null"

\* Low has taken s and not called it yet.
InHand(s) == pc[Low] \in {"clear", "call"} /\ arg[Low].slot = s

\* A host-wake interrupt is forced, or will be.
ForceAhead ==
  force \/ \E x \in Contexts : pc[x] = "notify" /\ CoreOf(x) # cyw43_core_num

\* Work that was scheduled and not run is in its slot, or somebody is about
\* to run it or to schedule it again: a handler that overwrites a slot, the
\* loop that clears it, the driver that starts while the host-wake handler
\* holds a stale NULL never make it disappear.
NoWorkLost ==
  \A s \in Slots :
    owed[s] => slots[s] # "null" \/ InHand(s) \/ OnItsWay(s) \/ ForceAhead

\* While the driver is up and its host-wake interrupt is disabled a poll,
\* which enables it again, is owed or running: the chip does not call in vain.
HostWakeHeard ==
  cyw43_poll = "poll" /\ ~enabled =>
    \/ owed["CYW43"] \/ OnItsWay("CYW43") \/ ForceAhead
    \/ pc[Low] = "hook" \/ arg[Low].next = "hook"

\* What is scheduled runs, unless the driver is stopped, whichever core or
\* handler scheduled it and whoever was inside the driver then: at the latest
\* when the alarm comes while no thread is.
WorkServed == \A s \in Slots : owed[s] ~> ~owed[s]
=============================================================================
