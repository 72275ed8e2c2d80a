-------------------------------- MODULE Fifo --------------------------------
(***************************************************************************)
(* The two inter-core FIFOs of the RP2040, the event registers, and a      *)
(* thread per core in the functions of pico_multicore that push and pop.   *)
(* A thread stands at                                                      *)
(*   push   a push, until there is room                                    *)
(*   pop    a pop, about to look for a word                                *)
(*   wfe    a pop, has found none, at its WFE                              *)
(* or at a stage of the caller.                                            *)
(***************************************************************************)
EXTENDS Naturals, Sequences

CONSTANT Depth  \* the words a FIFO holds

ASSUME FifoAssumption == Depth \in Nat \ {0}

Cores == 0..1
Other(c) == 1 - c

VARIABLES
  fifo,         \* fifo[c]: the words core c can read
  event,        \* event[c]: the event register of core c
  at,           \* at[c]: where the thread of core c stands
  call,         \* call[c]: its call: the function, and for a timed one
                \* whether its deadline is ahead, now or past
  irq_enabled,  \* irq_enabled[c]: core c takes SIO_IRQ_PROC0 + c
  saved         \* saved[c]: the local "enabled" of the call

fifoVars == <<fifo, event, at, call, irq_enabled, saved>>

Never == "never"  \* the deadline of a blocking call
Clock == {Never, "ahead", "now", "past"}
NoCall == [op |-> "none", time |-> Never]

FifoTypeOK(Words, Stages, Ops) ==
  /\ fifo \in [Cores -> Seq(Words)]
  /\ \A c \in Cores : Len(fifo[c]) <= Depth
  /\ event \in [Cores -> BOOLEAN]
  /\ at \in [Cores -> Stages \cup {"idle", "push", "pop", "wfe"}]
  /\ call \in [Cores -> [op : Ops \cup {"none"}, time : Clock]]
  /\ irq_enabled \in [Cores -> BOOLEAN] /\ saved \in [Cores -> BOOLEAN]

FifoInit ==
  /\ fifo = [c \in Cores |-> << >>]
  /\ event = [c \in Cores |-> FALSE]
  /\ at = [c \in Cores |-> "idle"]
  /\ call = [c \in Cores |-> NoCall]
  /\ irq_enabled = [c \in Cores |-> FALSE]
  /\ saved = [c \in Cores |-> FALSE]

WReady(c) == Len(fifo[Other(c)]) < Depth  \* multicore_fifo_wready
RValid(c) == fifo[c] # << >>              \* multicore_fifo_rvalid

Go(c, stage) == at' = [at EXCEPT ![c] = stage]

TimeReached(c) == call[c].time \in {"now", "past"}
Late(c) == call[c].time = "past"

\* __sev reaches both cores.
Sev == event' = [c \in Cores |-> TRUE]

\* multicore_fifo_push_blocking_inline, when there is room.
Push(c, word) ==
  /\ WReady(c)
  /\ fifo' = [fifo EXCEPT ![Other(c)] = Append(@, word)]
  /\ Sev

\* The read of fifo_rd.
Pop(c) ==
  /\ RValid(c)
  /\ fifo' = [fifo EXCEPT ![c] = Tail(@)]
  /\ UNCHANGED event

\* A WFE that returns.
Wfe(c) ==
  /\ event[c]
  /\ event' = [event EXCEPT ![c] = FALSE]
  /\ UNCHANGED fifo

\* multicore_fifo_pop_blocking, multicore_fifo_pop_timeout_us: nothing to
\* read.  A timed pop looks at its deadline only after the WFE.
PopWait(c) ==
  /\ \/ at[c] = "pop" /\ ~RValid(c) /\ Go(c, "wfe") /\ UNCHANGED <<fifo, event>>
     \/ at[c] = "wfe" /\ Wfe(c) /\ Go(c, IF TimeReached(c) THEN "failed" ELSE "pop")
  /\ UNCHANGED <<call, irq_enabled, saved>>

\* The deadline of a timed call comes, and passes.
TimePasses(c) ==
  /\ call[c].time \in {"ahead", "now"}
  /\ call' = [call EXCEPT ![c] =
               [@ EXCEPT !.time = IF @ = "ahead" THEN "now" ELSE "past"]]
  /\ UNCHANGED <<fifo, event, at, irq_enabled, saved>>
=============================================================================
