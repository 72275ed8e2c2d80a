--------------------------- MODULE HardwareAlarm ---------------------------
(***************************************************************************)
(* One alarm of the RP2040 timer as hardware/timer.c uses it.  The alarm   *)
(* register holds the low word of a time and matches it alone; writing it  *)
(* arms the alarm, a match disarms it and raises its interrupt.  The high  *)
(* word of the target is kept in memory and compared by the handler.       *)
(***************************************************************************)
EXTENDS Integers

CONSTANTS
  MaxTime,  \* bound: the last microsecond
  LowWord,  \* how many microseconds a low word counts (2^32)
  NoUser    \* nobody is between the writes and the check of set_target

ASSUME HardwareAlarmAssumption == MaxTime \in Nat /\ LowWord \in Nat \ {0}

VARIABLES
  now,        \* the 64-bit counter
  armed,      \* the ARMED bit
  alarm,      \* the ALARM register
  intr,       \* the INTR bit: the interrupt is raised
  latched,    \* the pending bit of the interrupt in its core's NVIC
  pending,    \* the alarm's bit of timer_callbacks_pending
  target_hi,  \* the alarm's entry of target_hi
  setter      \* who holds the timer's spin lock, and in set_target
              \* whether a callback was pending before

timerVars == <<now, armed, alarm, intr, latched, pending, target_hi, setter>>

Lo(t) == t % LowWord
Hi(t) == t \div LowWord

TimerTypeOK(Users) ==
  /\ now \in 0..MaxTime
  /\ armed \in BOOLEAN /\ intr \in BOOLEAN /\ latched \in BOOLEAN /\ pending \in BOOLEAN
  /\ alarm \in 0..(LowWord - 1)
  /\ target_hi \in Nat
  /\ setter \in [user : Users \cup {NoUser}, old : BOOLEAN]

\* After hardware_alarm_claim, _cancel and _set_callback.
TimerInit ==
  /\ now = 0 /\ alarm = 0 /\ target_hi = 0
  /\ armed = FALSE /\ intr = FALSE /\ latched = FALSE /\ pending = FALSE
  /\ setter = [user |-> NoUser, old |-> FALSE]

TimerLocked == setter.user # NoUser
Release == setter' = [user |-> NoUser, old |-> FALSE]

\* The counter advances; the comparator sees the new low word.
Tick ==
  /\ now < MaxTime
  /\ now' = now + 1
  /\ LET match == armed /\ alarm = Lo(now + 1)
     IN  /\ armed' = (armed /\ ~match)
         /\ intr' = (intr \/ match) /\ latched' = (latched \/ match)
  /\ UNCHANGED <<alarm, pending, target_hi, setter>>

\* A write of the ALARM register: when it names the present microsecond
\* the comparator may match at once or not at all.
WriteAlarm(low) ==
  /\ alarm' = low
  /\ \/ armed' = TRUE /\ UNCHANGED <<intr, latched>>
     \/ low = Lo(now) /\ armed' = FALSE /\ intr' = TRUE /\ latched' = TRUE

\* hardware_alarm_set_target takes the timer's lock and clears the IRQ ...
Program(x) ==
  /\ ~TimerLocked
  /\ setter' = [user |-> x, old |-> pending]
  /\ pending' = TRUE /\ intr' = FALSE
  /\ UNCHANGED <<now, armed, alarm, latched, target_hi>>

\* ... sets the alarm ...
SetAlarm(t) ==
  /\ WriteAlarm(Lo(t)) /\ target_hi' = Hi(t)
  /\ UNCHANGED <<now, pending, setter>>

\* ... finds that it has fired, and is done ...
Fired ==
  /\ ~armed /\ Release
  /\ UNCHANGED <<now, armed, alarm, intr, latched, pending, target_hi>>

\* ... or found it armed, and then reads the time.
Overtaken(t) == now >= t

\* Mutant: a callback that was pending before is given up as well.
GivenUp == TRUE

NothingBefore == pending # setter.old

\* An overtaken target is withdrawn, unless a callback was pending before;
\* irq_clear reaches the interrupt only on its own core.
Verify(t, here) ==
  /\ Release
  /\ IF Overtaken(t) /\ NothingBefore
     THEN /\ armed' = FALSE /\ intr' = FALSE /\ pending' = setter.old
          /\ latched' = (latched /\ ~here)
     ELSE UNCHANGED <<armed, intr, latched, pending>>
  /\ UNCHANGED <<now, alarm, target_hi>>

\* hardware_alarm_irq_handler, on the core of the interrupt, is entered ...
Interrupt ==
  /\ intr \/ latched
  /\ latched' = FALSE
  /\ UNCHANGED <<now, armed, alarm, intr, pending, target_hi, setter>>

\* ... takes the timer's lock and clears the IRQ ...
Acknowledge(x) ==
  /\ ~TimerLocked
  /\ setter' = [user |-> x, old |-> FALSE]
  /\ intr' = FALSE
  /\ UNCHANGED <<now, armed, alarm, latched, pending, target_hi>>

HiReached == Hi(now) >= target_hi

\* ... calls the callback ...
Accept ==
  /\ pending /\ HiReached
  /\ pending' = FALSE /\ Release
  /\ UNCHANGED <<now, armed, alarm, intr, latched, target_hi>>

\* ... or does not: nothing is pending any more ...
Dismiss ==
  /\ ~pending /\ Release
  /\ UNCHANGED <<now, armed, alarm, intr, latched, pending, target_hi>>

\* ... or the high word is not reached: the alarm is set again.
Early == pending /\ ~HiReached /\ UNCHANGED timerVars
Rewind == WriteAlarm(alarm) /\ Release /\ UNCHANGED <<now, pending, target_hi>>
=============================================================================
