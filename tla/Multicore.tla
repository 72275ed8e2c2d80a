----------------------------- MODULE Multicore -----------------------------
(***************************************************************************)
(* pico_multicore on one pair of FIFOs: core 0 launches core 1, then       *)
(* either core locks the other one out, and core 1 may be reset and        *)
(* launched again.                                                         *)
(***************************************************************************)
EXTENDS Launch, Lockout

CONSTANT MaxResets  \* bound: how often core 1 is reset

ASSUME MulticoreAssumption == MaxResets \in Nat

VARIABLE resets  \* how often core 1 was reset

multicoreVars == <<fifoVars, launchVars, lockoutVars, resets>>

MulticoreTypeOK ==
  /\ FifoTypeOK(BootWords \cup Magic,
                ThreadStages \cup {"send", "launched"}, {"launch", "start", "end"})
  /\ LaunchTypeOK /\ LockoutTypeOK
  /\ resets \in 0..MaxResets

MulticoreInit == FifoInit /\ LaunchInit /\ LockoutInit /\ resets = 0

\* Core c executes the program.
Up(c) == c = 0 \/ core1 = "app"

\* Core 1 is reset when neither core is in a call or a lockout.
Reset ==
  /\ resets < MaxResets /\ resets' = resets + 1
  /\ ResetCore1
  /\ at[1] = "idle" /\ \A c \in Cores : isr[c] = "off" /\ phase[c] = "none"
  /\ victims' = victims \ {1}
  /\ irq_enabled' = [irq_enabled EXCEPT ![1] = FALSE]
  /\ UNCHANGED <<fifo, event, at, call, saved, isr, lockout_mutex,
                 lockout_in_progress, phase, timed, left>>

BootSteps ==
  /\ (ThreadRuns(0) /\ LaunchStep) \/ BootStep
  /\ UNCHANGED <<lockoutVars, resets>>
Lockouts(c) == Up(c) /\ LockoutThreadStep(c) /\ UNCHANGED <<launchVars, resets>>
Handlers(c) == Up(c) /\ HandlerStep(c) /\ UNCHANGED <<launchVars, resets>>
End(c) == Call(c, "end", Never) /\ UNCHANGED <<launchVars, resets>>

MulticoreNext ==
  \/ BootSteps \/ Reset
  \/ ThreadRuns(0) /\ CallLaunch /\ UNCHANGED <<lockoutVars, resets>>
  \/ \E c \in Cores :
       \/ Lockouts(c) \/ Handlers(c) \/ End(c)
       \/ Up(c) /\ VictimInit(c) /\ UNCHANGED <<launchVars, resets>>
       \/ \E op \in {"start", "end"}, time \in {Never, "ahead"} :
            Up(c) /\ Call(c, op, time) /\ UNCHANGED <<launchVars, resets>>
       \/ TimePasses(c) /\ UNCHANGED <<launchVars, lockoutVars, resets>>

MulticoreSpec == MulticoreInit /\ [][MulticoreNext]_multicoreVars

\* Both cores run; whoever holds a lockout ends it.
Fairness ==
  /\ WF_multicoreVars(BootSteps)
  /\ \A c \in Cores :
       /\ WF_multicoreVars(Lockouts(c)) /\ WF_multicoreVars(Handlers(c))
       /\ WF_multicoreVars(End(c))

FairSpec == MulticoreSpec /\ Fairness
-----------------------------------------------------------------------------
(* Properties *)

\* When multicore_launch_core1_raw has ended its handshake, core 1 runs the
\* program it was given and no word of the handshake is left in a FIFO.
LaunchComplete ==
  at[0] = "launched" =>
    /\ core1 = "app" /\ got = Program
    /\ \A c \in Cores : \A k \in 1..Len(fifo[c]) : fifo[c][k] \in Magic

\* While a start has returned true and no end was called, the other core
\* executes the loop of its handler: code may be written to the flash.  The
\* asserts of start and end hold: no lockout is in progress when one is
\* started, and one is when it is ended.
HolderAlone ==
  /\ MulticoreTypeOK
  /\ \A c \in Cores : phase[c] = "held" => LockedOut(Other(c))
  /\ \A c \in Cores : at[c] = "locked" => lockout_in_progress = (call[c].op = "end")

\* multicore.h: the functions "enable one core to force the other core to
\* pause": a core is locked out only on the request of the other.
PausedOnRequest == \A c \in Cores : LockedOut(c) => phase[Other(c)] # "none"

\* The calls of the lockout functions without a deadline return, also after
\* timed ones that have left their words in the FIFOs.
BlockingCallsReturn ==
  \A c \in Cores :
    call[c].op \in {"start", "end"} /\ call[c].time = Never ~> at[c] = "idle"
=============================================================================
