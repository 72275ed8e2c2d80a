------------------------------ MODULE LockCore ------------------------------
(***************************************************************************)
(* The substrate every blocking primitive of pico_sync and pico_util is    *)
(* built from: a hardware spin lock taken with interrupts masked           *)
(* (spin_lock_blocking / spin_unlock), and the three macros of             *)
(* pico/lock_core.h that release it and then do nothing, wait (WFE) or     *)
(* notify (SEV).  A primitive (Mutex, Semaphore, Queue) EXTENDS this       *)
(* module and supplies what happens between Acquire and SpinUnlock.        *)
(*                                                                         *)
(* A context is a core's thread or the interrupt handler of that core.     *)
(* A handler preempts its core's thread whenever PRIMASK allows it.        *)
(* Where a context stands in a call:                                       *)
(*   off     a handler that is not active                                  *)
(*   idle    outside the primitive                                         *)
(*   enter   at the head of the do-loop, about to call spin_lock_blocking  *)
(*   spin    interrupts masked, polling the spin lock                      *)
(*   held    owns the spin lock, has not read the primitive's state        *)
(*   loaded  owns the spin lock and has read the primitive's state         *)
(*   wfe     spin lock released, about to execute or sleeping in WFE       *)
(*   timed   spin lock released, about to call best_effort_wfe_or_timeout  *)
(*   twfe    in the WFE of best_effort_wfe_or_timeout, its alarm armed     *)
(*   sev     spin lock released, about to execute SEV                      *)
(***************************************************************************)
EXTENDS Naturals, FiniteSets

CONSTANTS
  Cores,      \* the processor cores
  AlarmCore,  \* the core that services the default alarm pool's interrupt
  Objects,    \* the primitives (mutexes, semaphores, queues) in memory
  SpinLocks,  \* the hardware spin locks
  SpinOf,     \* SpinOf[o]: the (striped, hence shareable) spin lock of o
  Budget,     \* bound: Budget[x]: the calls x makes, a handler's activations included
  NoCtx,      \* no context: the value of a free spin lock
  NoCall      \* the call of a context that is outside the primitive

ASSUME LockCoreAssumption ==
  /\ AlarmCore \in Cores
  /\ SpinOf \in [Objects -> SpinLocks]
  /\ Budget \in [Cores \X {"thread", "irq"} -> Nat]
  /\ NoCtx \notin Cores \X {"thread", "irq"}

Contexts == Cores \X {"thread", "irq"}
CoreOf(x) == x[1]
Thread(c) == <<c, "thread">>
Handler(c) == <<c, "irq">>
IsHandler(x) == x[2] = "irq"

Stages == {"off", "idle", "enter", "spin", "held", "loaded",
           "wfe", "timed", "twfe", "sev"}
Deadlines == {"none", "pending", "reached", "fired"}

VARIABLES
  pc,      \* pc[x]: the stage of context x
  req,     \* req[x]: the call x is making, [op, obj], or NoCall
  spin,    \* spin[s]: the context that owns spin lock s, or NoCtx
  masked,  \* masked[c]: PRIMASK of core c
  event,   \* event[c]: the event register of core c
  due,     \* due[x]: the deadline of x's timed call
  left     \* left[x]: what is left of Budget[x]

coreVars == <<pc, req, spin, masked, event, due, left>>

CoreTypeOK(Ops) ==
  /\ pc \in [Contexts -> Stages]
  /\ req \in [Contexts -> [op : Ops, obj : Objects] \cup {NoCall}]
  /\ spin \in [SpinLocks -> Contexts \cup {NoCtx}]
  /\ masked \in [Cores -> BOOLEAN]
  /\ event \in [Cores -> BOOLEAN]
  /\ due \in [Contexts -> Deadlines]
  /\ left \in [Contexts -> Nat]

CoreInit ==
  /\ pc = [x \in Contexts |-> IF IsHandler(x) THEN "off" ELSE "idle"]
  /\ req = [x \in Contexts |-> NoCall]
  /\ spin = [s \in SpinLocks |-> NoCtx]
  /\ masked = [c \in Cores |-> FALSE]
  /\ event = [c \in Cores |-> FALSE]
  /\ due = [x \in Contexts |-> "none"]
  /\ left = Budget

\* A thread runs while the handler of its core is not active.
Running(x) == IsHandler(x) \/ pc[Handler(CoreOf(x))] = "off"

MySpin(x) == SpinOf[req[x].obj]

\* The context's call starts; timed calls carry a deadline.
BeginCall(x, r, timed) ==
  /\ pc[x] = "idle" /\ Running(x)
  /\ pc' = [pc EXCEPT ![x] = "enter"]
  /\ req' = [req EXCEPT ![x] = r]
  /\ due' = [due EXCEPT ![x] = IF timed THEN "pending" ELSE "none"]
  /\ UNCHANGED <<spin, masked, event>>

SpendCall(x) == left[x] > 0 /\ left' = [left EXCEPT ![x] = @ - 1]

\* Mutant: spin_lock_unsafe_blocking, which leaves interrupts enabled.
MaskNothing(x) ==
  /\ pc[x] = "enter" /\ Running(x)
  /\ pc' = [pc EXCEPT ![x] = "spin"]
  /\ UNCHANGED <<req, spin, masked, event, due, left>>

\* spin_lock_blocking, first half: save_and_disable_interrupts.
Mask(x) ==
  /\ pc[x] = "enter" /\ Running(x)
  /\ masked' = [masked EXCEPT ![CoreOf(x)] = TRUE]
  /\ pc' = [pc EXCEPT ![x] = "spin"]
  /\ UNCHANGED <<req, spin, event, due, left>>

\* Mutant: the spin lock is not waited for.
AcquireAnyway(x) ==
  /\ pc[x] = "spin"
  /\ spin' = [spin EXCEPT ![MySpin(x)] = x]
  /\ pc' = [pc EXCEPT ![x] = "held"]
  /\ UNCHANGED <<req, masked, event, due, left>>

\* spin_lock_blocking, second half: the read of the SIO register that
\* returns non-zero to exactly one core.
Acquire(x) ==
  /\ pc[x] = "spin"
  /\ spin[MySpin(x)] = NoCtx
  /\ spin' = [spin EXCEPT ![MySpin(x)] = x]
  /\ pc' = [pc EXCEPT ![x] = "held"]
  /\ UNCHANGED <<req, masked, event, due, left>>

\* The load of the primitive's state that the decision is taken on.
Load(x) ==
  /\ pc[x] = "held"
  /\ pc' = [pc EXCEPT ![x] = "loaded"]
  /\ UNCHANGED <<req, spin, masked, event, due, left>>

\* The call is decided: what it was, and its deadline, are forgotten.
EndCall(x) ==
  /\ req' = [req EXCEPT ![x] = NoCall]
  /\ due' = [due EXCEPT ![x] = "none"]

\* spin_unlock: the store that frees the spin lock, then the interrupt
\* mask restored (callers enter with interrupts enabled).  The context
\* goes on at stage next.
SpinUnlock(x, next) ==
  /\ spin' = [spin EXCEPT ![MySpin(x)] = NoCtx]
  /\ masked' = [masked EXCEPT ![CoreOf(x)] = FALSE]
  /\ pc' = [pc EXCEPT ![x] = next]
  /\ IF next \in {"idle", "sev"} THEN EndCall(x) ELSE UNCHANGED <<req, due>>
  /\ UNCHANGED <<event, left>>

\* WFE: falls through and clears the core's event register when it is set,
\* sleeps until then otherwise; the caller then loops.
Wfe(x) ==
  /\ pc[x] = "wfe" /\ Running(x)
  /\ event[CoreOf(x)]
  /\ event' = [event EXCEPT ![CoreOf(x)] = FALSE]
  /\ pc' = [pc EXCEPT ![x] = "enter"]
  /\ UNCHANGED <<req, spin, masked, due, left>>

\* Mutant: an event that stays on the core that sends it.
SevOwnCore(x) ==
  /\ pc[x] = "sev" /\ Running(x)
  /\ event' = [event EXCEPT ![CoreOf(x)] = TRUE]
  /\ pc' = [pc EXCEPT ![x] = "idle"]
  /\ UNCHANGED <<req, spin, masked, due, left>>

\* SEV: sets the event register of every core.
Sev(x) ==
  /\ pc[x] = "sev" /\ Running(x)
  /\ event' = [c \in Cores |-> TRUE]
  /\ pc' = [pc EXCEPT ![x] = "idle"]
  /\ UNCHANGED <<req, spin, masked, due, left>>

\* What best_effort_wfe_or_timeout returns decides whether the primitive
\* gives up or loops.
AfterTimedWait(x) ==
  IF due[x] \in {"reached", "fired"}
  THEN pc' = [pc EXCEPT ![x] = "idle"] /\ EndCall(x)
  ELSE pc' = [pc EXCEPT ![x] = "enter"] /\ UNCHANGED <<req, due>>

\* No alarm could be armed (the pool is full or the time is past): poll.
TimedPoll(x) ==
  /\ pc[x] = "timed" /\ Running(x)
  /\ AfterTimedWait(x)
  /\ UNCHANGED <<spin, masked, event, left>>

\* add_alarm_at succeeded: an alarm is armed for the deadline.
TimedArm(x) ==
  /\ pc[x] = "timed" /\ Running(x) /\ due[x] = "pending"
  /\ pc' = [pc EXCEPT ![x] = "twfe"]
  /\ UNCHANGED <<req, spin, masked, event, due, left>>

\* The WFE returns; cancel_alarm, then time_reached decides.
TimedWake(x) ==
  /\ pc[x] = "twfe" /\ Running(x)
  /\ event[CoreOf(x)]
  /\ event' = [event EXCEPT ![CoreOf(x)] = FALSE]
  /\ AfterTimedWait(x)
  /\ UNCHANGED <<spin, masked, left>>

\* Time passes the deadline of x's call.
TimeReached(x) ==
  /\ due[x] = "pending"
  /\ due' = [due EXCEPT ![x] = "reached"]
  /\ UNCHANGED <<pc, req, spin, masked, event, left>>

\* Mutant: sleep_until_callback unlocks without notifying.
AlarmFiresSilently(x) ==
  /\ pc[x] = "twfe" /\ due[x] = "reached"
  /\ ~masked[AlarmCore]
  /\ due' = [due EXCEPT ![x] = "fired"]
  /\ UNCHANGED <<pc, req, spin, masked, event, left>>

\* The alarm armed by x fires on the pool's core: sleep_until_callback
\* executes SEV.
AlarmFires(x) ==
  /\ pc[x] = "twfe" /\ due[x] = "reached"
  /\ ~masked[AlarmCore]
  /\ due' = [due EXCEPT ![x] = "fired"]
  /\ event' = [c \in Cores |-> TRUE]
  /\ UNCHANGED <<pc, req, spin, masked, left>>

\* An interrupt is taken on core c, and returned from; both set the
\* core's event register.
IrqEnter(c) ==
  /\ pc[Handler(c)] = "off" /\ ~masked[c]
  /\ SpendCall(Handler(c))
  /\ pc' = [pc EXCEPT ![Handler(c)] = "idle"]
  /\ event' = [event EXCEPT ![c] = TRUE]
  /\ UNCHANGED <<req, spin, masked, due>>

IrqExit(c) ==
  /\ pc[Handler(c)] = "idle"
  /\ pc' = [pc EXCEPT ![Handler(c)] = "off"]
  /\ event' = [event EXCEPT ![c] = TRUE]
  /\ UNCHANGED <<req, spin, masked, due, left>>

\* The steps that no primitive adds anything to.
CoreStep(x) ==
  \/ Mask(x) \/ Acquire(x)
  \/ Wfe(x) \/ Sev(x)
  \/ TimedPoll(x) \/ TimedArm(x) \/ TimedWake(x)
-----------------------------------------------------------------------------
(* What holds of the substrate under every primitive *)

\* Whoever owns or polls a spin lock cannot be preempted: its core has
\* interrupts masked, and no handler of that core is active over it.
SpinHolderRuns ==
  \A x \in Contexts :
    pc[x] \in {"spin", "held", "loaded"} =>
      masked[CoreOf(x)] /\ Running(x)

\* A timed wait whose alarm has fired is not asleep.
NoLostTimeout ==
  \A x \in Contexts :
    pc[x] = "twfe" /\ due[x] = "fired" => event[CoreOf(x)]
=============================================================================
