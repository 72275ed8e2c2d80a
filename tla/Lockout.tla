------------------------------ MODULE Lockout ------------------------------
(***************************************************************************)
(* The lockout of pico_multicore: one core makes the handler of the FIFO   *)
(* interrupt of the other spin with interrupts disabled.  lockout_mutex is *)
(* taken at its interface (AbstractMutex).  Besides those of Fifo, a       *)
(* thread stands at                                                        *)
(*   mutex    mutex_enter_block_until                                      *)
(*   locked   has the mutex, its FIFO interrupt not yet disabled           *)
(*   head     the head of the handshake's loop                             *)
(*   check    after the push, before it looks at the time again            *)
(*   done, failed  the handshake's loop has ended                          *)
(*   unlock   its FIFO interrupt restored, before the mutex is released    *)
(* and the handler at                                                      *)
(*   off      not active                                                   *)
(*   drain    the head of its outer loop                                   *)
(*   ack      about to answer LOCKOUT_MAGIC_START                          *)
(*   pop, wfe locked out                                                   *)
(*   leave    about to answer LOCKOUT_MAGIC_END                            *)
(***************************************************************************)
EXTENDS Fifo

CONSTANTS
  NoCore,        \* nobody has lockout_mutex
  Budget,        \* bound: Budget[c]: the lockouts core c starts
  TimedVictims   \* whether the cores that make timed calls are victims too

ASSUME LockoutAssumption ==
  NoCore \notin Cores /\ Budget \in [Cores -> Nat] /\ TimedVictims \in BOOLEAN

VARIABLES
  isr,                  \* isr[c]: where the handler of core c stands
  victims,              \* the cores that have called victim_init
  lockout_mutex,        \* the core that has it, or NoCore
  lockout_in_progress,
  phase,      \* history: phase[c]: "asked" once core c has called start,
              \* "held" once it returned true, "ending" once core c has
              \* called end, "none" before and after
  timed,      \* history: the cores that have made timed calls
  left        \* left[c]: what is left of Budget[c]

threadVars == <<victims, lockout_mutex, lockout_in_progress, phase, timed, left>>
lockoutVars == <<isr, threadVars>>

Magic == {"START", "END"}
HandlerStages == {"off", "drain", "ack", "pop", "wfe", "leave"}
ThreadStages == {"mutex", "locked", "head", "check", "done", "failed", "unlock"}

LockoutTypeOK ==
  /\ isr \in [Cores -> HandlerStages]
  /\ victims \subseteq Cores /\ timed \subseteq Cores
  /\ lockout_mutex \in Cores \cup {NoCore}
  /\ lockout_in_progress \in BOOLEAN
  /\ phase \in [Cores -> {"none", "asked", "held", "ending"}]
  /\ left \in [Cores -> Nat]

LockoutInit ==
  /\ isr = [c \in Cores |-> "off"]
  /\ victims = {} /\ timed = {}
  /\ lockout_mutex = NoCore /\ lockout_in_progress = FALSE
  /\ phase = [c \in Cores |-> "none"]
  /\ left = Budget

LockedOut(c) == isr[c] \in {"pop", "wfe"}
ThreadRuns(c) == isr[c] = "off"
-----------------------------------------------------------------------------
(* multicore_lockout_handler *)

IsrGo(c, stage) == isr' = [isr EXCEPT ![c] = stage]

\* The interrupt is level triggered by the FIFO; exception entry and return
\* set the event register.
IsrEnter(c) ==
  /\ isr[c] = "off" /\ irq_enabled[c] /\ RValid(c)
  /\ IsrGo(c, "drain")
  /\ event' = [event EXCEPT ![c] = TRUE]
  /\ UNCHANGED fifo

\* Mutant: any word locks the core out.
LockedOutBy(word) == TRUE

AsksLockout(word) == word = "START"

IsrDrain(c) ==
  /\ isr[c] = "drain"
  /\ \/ Pop(c) /\ IsrGo(c, IF AsksLockout(Head(fifo[c])) THEN "ack" ELSE "drain")
     \/ /\ ~RValid(c) /\ IsrGo(c, "off")
        /\ event' = [event EXCEPT ![c] = TRUE]
        /\ UNCHANGED fifo

IsrAck(c) == isr[c] = "ack" /\ Push(c, "START") /\ IsrGo(c, "pop")

\* Mutant: any word ends the lockout.
ReleasedBy(word) == TRUE

EndsLockout(word) == word = "END"

IsrPop(c) ==
  \/ /\ isr[c] = "pop" /\ Pop(c)
     /\ IsrGo(c, IF EndsLockout(Head(fifo[c])) THEN "leave" ELSE "pop")
  \/ /\ isr[c] = "pop" /\ ~RValid(c) /\ IsrGo(c, "wfe")
     /\ UNCHANGED <<fifo, event>>
  \/ isr[c] = "wfe" /\ Wfe(c) /\ IsrGo(c, "pop")

IsrLeave(c) == isr[c] = "leave" /\ Push(c, "END") /\ IsrGo(c, "drain")

HandlerStep(c) ==
  /\ IsrEnter(c) \/ IsrDrain(c) \/ IsrAck(c) \/ IsrPop(c) \/ IsrLeave(c)
  /\ UNCHANGED <<at, call, irq_enabled, saved, threadVars>>
-----------------------------------------------------------------------------
(* The functions *)

\* multicore_lockout_victim_init.
VictimInit(c) ==
  /\ at[c] = "idle" /\ ThreadRuns(c) /\ c \notin victims
  /\ c \in timed => TimedVictims
  /\ victims' = victims \cup {c}
  /\ irq_enabled' = [irq_enabled EXCEPT ![c] = TRUE]
  /\ UNCHANGED <<fifo, event, at, call, saved, isr, lockout_mutex,
                 lockout_in_progress, phase, timed, left>>

\* Not nestable, the other core must be a victim, an end follows a start.
Call(c, op, time) ==
  /\ at[c] = "idle" /\ ThreadRuns(c) /\ Other(c) \in victims
  /\ time = Never \/ c \notin victims \/ TimedVictims
  /\ timed' = IF time = Never THEN timed ELSE timed \cup {c}
  /\ \/ /\ op = "start" /\ phase[c] \in {"none", "asked"}
        /\ left[c] > 0 /\ left' = [left EXCEPT ![c] = @ - 1]
        /\ phase' = [phase EXCEPT ![c] = "asked"]
     \/ /\ op = "end" /\ phase[c] \in {"held", "ending"}
        /\ phase' = [phase EXCEPT ![c] = "ending"]
        /\ UNCHANGED left
  /\ Go(c, "mutex")
  /\ call' = [call EXCEPT ![c] = [op |-> op, time |-> time]]
  /\ UNCHANGED <<fifo, event, irq_enabled, saved, isr, victims, lockout_mutex,
                 lockout_in_progress>>

EnterMutex(c) ==
  /\ at[c] = "mutex"
  /\ IF lockout_mutex = NoCore
     THEN lockout_mutex' = c /\ Go(c, "locked") /\ UNCHANGED call
     ELSE /\ TimeReached(c)
          /\ Go(c, "idle") /\ call' = [call EXCEPT ![c] = NoCall]
          /\ UNCHANGED lockout_mutex
  /\ UNCHANGED <<fifo, event, irq_enabled, saved, isr, victims,
                 lockout_in_progress, phase, timed, left>>

\* Mutant: the interrupt stays enabled.
StaysEnabled(c) == UNCHANGED irq_enabled

DisableIrq(c) == irq_enabled' = [irq_enabled EXCEPT ![c] = FALSE]

BeginHandshake(c) ==
  /\ at[c] = "locked"
  /\ saved' = [saved EXCEPT ![c] = irq_enabled[c]]
  /\ DisableIrq(c)
  /\ Go(c, "head")
  /\ UNCHANGED <<fifo, event, call, lockoutVars>>

\* The tests of the time, and multicore_fifo_push_timeout_us, whose result
\* is not looked at.
HandshakePush(c) ==
  /\ \/ at[c] = "head" /\ Go(c, IF Late(c) THEN "failed" ELSE "push")
        /\ UNCHANGED <<fifo, event>>
     \/ /\ at[c] = "push" /\ call[c].op \in {"start", "end"}
        /\ Push(c, IF call[c].op = "start" THEN "START" ELSE "END")
        /\ Go(c, "check")
     \/ /\ at[c] = "push" /\ call[c].op \in {"start", "end"}
        /\ ~WReady(c) /\ TimeReached(c)
        /\ Go(c, "check") /\ UNCHANGED <<fifo, event>>
     \/ at[c] = "check" /\ Go(c, IF Late(c) THEN "failed" ELSE "pop")
        /\ UNCHANGED <<fifo, event>>
  /\ UNCHANGED <<call, irq_enabled, saved, lockoutVars>>

Answers(c, word) == word = IF call[c].op = "start" THEN "START" ELSE "END"

\* The handshake waits for its magic word to come back.
HandshakePop(c) ==
  /\ at[c] = "pop" /\ call[c].op \in {"start", "end"}
  /\ Pop(c)
  /\ Go(c, IF Answers(c, Head(fifo[c])) THEN "done" ELSE "head")
  /\ UNCHANGED <<call, irq_enabled, saved, lockoutVars>>

InProgressAfter(c, rc) == IF call[c].op = "start" THEN rc
                          ELSE lockout_in_progress /\ ~rc

\* The end of the handshake: lockout_in_progress follows its result.
EndHandshake(c) ==
  LET rc == at[c] = "done" IN
  /\ at[c] \in {"done", "failed"}
  /\ irq_enabled' = [irq_enabled EXCEPT ![c] = saved[c]]
  /\ lockout_in_progress' = InProgressAfter(c, rc)
  /\ phase' = [phase EXCEPT ![c] = CASE ~rc -> @
                                     [] rc /\ @ = "asked" -> "held"
                                     [] OTHER -> "none"]
  /\ Go(c, "unlock")
  /\ UNCHANGED <<fifo, event, call, saved, isr, victims, lockout_mutex, timed, left>>

ExitMutex(c) ==
  /\ at[c] = "unlock"
  /\ lockout_mutex' = NoCore
  /\ Go(c, "idle") /\ call' = [call EXCEPT ![c] = NoCall]
  /\ UNCHANGED <<fifo, event, irq_enabled, saved, isr, victims,
                 lockout_in_progress, phase, timed, left>>

LockoutThreadStep(c) ==
  /\ ThreadRuns(c)
  /\ \/ EnterMutex(c) \/ BeginHandshake(c) \/ HandshakePush(c)
     \/ HandshakePop(c) \/ EndHandshake(c) \/ ExitMutex(c)
     \/ call[c].op \in {"start", "end"} /\ PopWait(c) /\ UNCHANGED lockoutVars
=============================================================================
