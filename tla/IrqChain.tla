------------------------------ MODULE IrqChain ------------------------------
(***************************************************************************)
(* The chains of shared interrupt handlers of hardware_irq.  A chain is    *)
(* made of slots that are code and data at once: inst1 and inst2 call the  *)
(* handler, inst3 branches to the next slot or returns from the interrupt, *)
(* and link repeats inst3 as an index.  The chains of all vectors, one     *)
(* vector table entry of one core each, share one list of free slots.      *)
(* The functions hold the spin lock PICO_SPINLOCK_ID_IRQ and are one step  *)
(* each; the execution of a chain takes no lock and stands, at[v], at      *)
(*   idle     not in the interrupt                                         *)
(*   handler  inside of running[v], which returns to inst3 of pos[v]       *)
(*   tail     in irq_handler_chain_remove_tail, on behalf of pos[v]        *)
(***************************************************************************)
EXTENDS Integers, FiniteSets

CONSTANTS
  MaxHandlers,  \* PICO_MAX_SHARED_IRQ_HANDLERS
  Vector,       \* vector table entries, of any core
  Handler,      \* interrupt handlers
  Priority,     \* Priority[h]: the order priority h is installed with
  Unhandled,    \* __unhandled_user_irq
  MaxAdds       \* bound: how many handlers are installed

Slot == 0 .. MaxHandlers - 1

\* The address of a handler lies outside of the slots: how irq.c tells what
\* a vector holds.
ASSUME IrqChainAssumption ==
  /\ MaxHandlers \in Nat \ {0} /\ Priority \in [Handler -> Nat] /\ MaxAdds \in Nat
  /\ Unhandled \notin Handler /\ (Handler \cup {Unhandled}) \cap Slot = {}

End == -1                \* link of the last slot, inst3 is pop {pc}
Trashed == MaxHandlers   \* inst3 is a bl to irq_handler_chain_remove_tail:
                         \* its second half has overwritten link and
                         \* priority, with an index behind all slots

VARIABLES
  slots,           \* irq_handler_chain_slots
  free_slot_head,  \* irq_hander_chain_free_slot_head
  vtable,          \* the slot or handler a vector calls
  at, pos, running,
  removed,    \* removed[v]: running[v] has removed itself
  asserted,   \* asserted[v]: the handlers whose hardware sources interrupt
  installed,  \* history: the handlers added to v and not removed since
  adds        \* how often a handler was installed

execVars == <<at, pos, running>>
irqVars == <<slots, free_slot_head, vtable, execVars, removed, asserted,
          installed, adds>>

IrqTypeOK ==
  /\ slots \in [Slot -> [first : BOOLEAN, inst3 : Slot \cup {End, Trashed},
                         link : Slot \cup {End, Trashed},
                         priority : Nat,
                         handler : Handler \cup {Unhandled}]]
  /\ free_slot_head \in Slot \cup {End}
  /\ vtable \in [Vector -> Slot \cup Handler \cup {Unhandled}]
  /\ at \in [Vector -> {"idle", "handler", "tail"}]
  /\ pos \in [Vector -> Slot \cup {End}]
  /\ running \in [Vector -> Handler \cup {Unhandled}]
  /\ removed \in [Vector -> BOOLEAN]
  /\ asserted \in [Vector -> SUBSET Handler]
  /\ installed \in [Vector -> SUBSET Handler]
  /\ adds \in 0..MaxAdds

IrqInit ==
  /\ slots = [s \in Slot |->
       [first |-> FALSE, inst3 |-> End,
        link |-> IF s + 1 \in Slot THEN s + 1 ELSE End,
        priority |-> 0, handler |-> Unhandled]]
  /\ free_slot_head = 0
  /\ vtable = [v \in Vector |-> Unhandled]
  /\ at = [v \in Vector |-> "idle"]
  /\ pos = [v \in Vector |-> End]
  /\ running = [v \in Vector |-> Unhandled]
  /\ removed = [v \in Vector |-> FALSE]
  /\ asserted = [v \in Vector |-> {}] /\ installed = [v \in Vector |-> {}]
  /\ adds = 0

\* The n-th entry along the links from s: a slot, or the end of the list.
Along(s) ==
  LET entry[n \in 0..MaxHandlers] ==
        IF n = 0 THEN s
        ELSE LET before == entry[n - 1]
             IN  IF before \in Slot THEN slots[before].link ELSE End
  IN  entry

Listed(s) == {Along(s)[n] : n \in 0..MaxHandlers} \cap Slot
IsShared(v) == vtable[v] \in Slot
Chain(v) == Listed(vtable[v])
TailOf(v) == CHOOSE s \in Chain(v) : slots[s].link \notin Slot
-----------------------------------------------------------------------------
(* The functions *)

\* Mutant: the order priority is not looked at.
RankLast(v, priority) ==
  CHOOSE n \in 0..MaxHandlers :
    /\ Along(vtable[v])[n] \notin Slot
    /\ \A m \in 0 .. n - 1 : Along(vtable[v])[m] \in Slot

\* Where the first slot stands that does not have a greater priority.
Rank(v, priority) ==
  CHOOSE n \in 0..MaxHandlers :
    /\ \A m \in 0 .. n - 1 :
         Along(vtable[v])[m] \in Slot /\ slots[Along(vtable[v])[m]].priority > priority
    /\ \/ Along(vtable[v])[n] \notin Slot
       \/ slots[Along(vtable[v])[n]].priority <= priority

\* Where in the chain, and whose inst3, the new slot takes over.
AddFirst(v, new) ==
  /\ slots' = [slots EXCEPT ![free_slot_head] = [new EXCEPT !.first = TRUE]]
  /\ vtable' = [vtable EXCEPT ![v] = free_slot_head]

\* Mutant: the former first slot still saves the return address.
AddHeadKeepingFirst(v, new) ==
  /\ slots' = [slots EXCEPT
       ![free_slot_head] = [new EXCEPT !.first = TRUE, !.inst3 = vtable[v],
                                       !.link = vtable[v]]]
  /\ vtable' = [vtable EXCEPT ![v] = free_slot_head]

AddHead(v, new) ==
  /\ slots' = [slots EXCEPT
       ![free_slot_head] = [new EXCEPT !.first = TRUE, !.inst3 = vtable[v],
                                       !.link = vtable[v]],
       ![vtable[v]].first = FALSE]
  /\ vtable' = [vtable EXCEPT ![v] = free_slot_head]

\* Mutant: the new slot is the last whatever was behind prev.
AddAfterCutting(prev, new) ==
  /\ slots' = [slots EXCEPT
       ![free_slot_head] = new,
       ![prev].inst3 = free_slot_head, ![prev].link = free_slot_head]
  /\ UNCHANGED vtable

AddAfter(prev, new) ==
  /\ slots' = [slots EXCEPT
       ![free_slot_head] = [new EXCEPT !.inst3 = slots[prev].inst3,
                                       !.link = slots[prev].link],
       ![prev].inst3 = free_slot_head, ![prev].link = free_slot_head]
  /\ UNCHANGED vtable

\* irq_add_shared_handler, from a thread or a handler of v's core.  Callers
\* do not add to a chain whose tail is being removed.
AddShared(v, h) ==
  LET new == [first |-> FALSE, inst3 |-> End, link |-> End,
              priority |-> Priority[h], handler |-> h]
      rank == Rank(v, Priority[h])
  IN
  /\ h \notin installed[v] /\ adds < MaxAdds
  /\ free_slot_head # End
  /\ \/ vtable[v] = Unhandled /\ AddFirst(v, new)
     \/ /\ IsShared(v) /\ slots[TailOf(v)].link # Trashed
        /\ IF rank = 0 THEN AddHead(v, new)
           ELSE AddAfter(Along(vtable[v])[rank - 1], new)
  /\ free_slot_head' = slots[free_slot_head].link
  /\ installed' = [installed EXCEPT ![v] = @ \cup {h}]
  /\ adds' = adds + 1
  /\ UNCHANGED <<execVars, removed, asserted>>

\* irq_set_exclusive_handler.
SetExclusive(v, h) ==
  /\ vtable[v] = Unhandled /\ adds < MaxAdds
  /\ vtable' = [vtable EXCEPT ![v] = h]
  /\ installed' = [installed EXCEPT ![v] = {h}]
  /\ adds' = adds + 1
  /\ UNCHANGED <<slots, free_slot_head, execVars, removed, asserted>>

\* Mutant: the next slot is not freed.
RemoveBeforeNextLeaking(s) ==
  /\ slots' = [slots EXCEPT ![s] = [slots[slots[s].link] EXCEPT !.first = slots[s].first]]
  /\ UNCHANGED <<free_slot_head, vtable>>

\* The next slot is copied over s, then it is free.
RemoveBeforeNext(s) ==
  LET next == slots[s].link IN
  /\ slots' = [slots EXCEPT ![s] = [slots[next] EXCEPT !.first = slots[s].first],
                            ![next].link = free_slot_head]
  /\ free_slot_head' = next
  /\ UNCHANGED vtable

\* The slot before s, if there is one, becomes the last; s is free.
Unlink(v, s) ==
  /\ slots' = [t \in Slot |->
       IF t = s THEN [slots[s] EXCEPT !.link = free_slot_head]
       ELSE IF slots[t].link = s THEN [slots[t] EXCEPT !.link = End, !.inst3 = End]
       ELSE slots[t]]
  /\ free_slot_head' = s
  /\ vtable' = IF vtable[v] = s THEN [vtable EXCEPT ![v] = Unhandled] ELSE vtable

\* The last slot is being executed: it is removed when it has returned.
RemoveLater(s) ==
  /\ slots' = [slots EXCEPT ![s].inst3 = Trashed, ![s].link = Trashed,
                            ![s].priority = Trashed]
  /\ UNCHANGED <<free_slot_head, vtable>>

\* Mutant: the last slot is freed although it is being executed.
RemoveSlotAtOnce(v, s) ==
  IF slots[s].link # End THEN RemoveBeforeNext(s) ELSE Unlink(v, s)

RemoveSlot(v, s) ==
  \/ slots[s].link # End /\ RemoveBeforeNext(s)
  \/ slots[s].link = End /\ at[v] = "idle" /\ Unlink(v, s)
  \/ slots[s].link = End /\ at[v] # "idle" /\ RemoveLater(s)

\* irq_remove_handler, from a thread or from the handler itself.  The
\* source of a removed handler no longer interrupts.
Remove(v, h) ==
  /\ h \in installed[v]
  /\ at[v] = "idle" \/ (at[v] = "handler" /\ running[v] = h /\ ~removed[v])
  /\ \/ /\ IsShared(v)
        /\ \E s \in Chain(v) : slots[s].handler = h /\ RemoveSlot(v, s)
     \/ /\ vtable[v] = h /\ vtable' = [vtable EXCEPT ![v] = Unhandled]
        /\ UNCHANGED <<slots, free_slot_head>>
  /\ removed' = [removed EXCEPT ![v] = at[v] = "handler"]
  /\ installed' = [installed EXCEPT ![v] = @ \ {h}]
  /\ asserted' = [asserted EXCEPT ![v] = @ \ {h}]
  /\ UNCHANGED <<execVars, adds>>
-----------------------------------------------------------------------------
(* The execution of a chain *)

Call(v, s, h) ==
  /\ at' = [at EXCEPT ![v] = "handler"]
  /\ pos' = [pos EXCEPT ![v] = s]
  /\ running' = [running EXCEPT ![v] = h]
  /\ removed' = [removed EXCEPT ![v] = FALSE]

Assert(v, h) ==
  /\ h \in installed[v] \ asserted[v]
  /\ asserted' = [asserted EXCEPT ![v] = @ \cup {h}]
  /\ UNCHANGED <<slots, free_slot_head, vtable, execVars, removed, installed, adds>>

\* The interrupt: irq_handler_chain_first_slot, or an exclusive handler.
Enter(v) ==
  /\ at[v] = "idle" /\ asserted[v] # {}
  /\ IF IsShared(v) THEN Call(v, vtable[v], slots[vtable[v]].handler)
     ELSE Call(v, End, vtable[v])
  /\ UNCHANGED <<slots, free_slot_head, vtable, asserted, installed, adds>>

Leave(v) ==
  /\ at' = [at EXCEPT ![v] = "idle"]
  /\ pos' = [pos EXCEPT ![v] = End]
  /\ running' = [running EXCEPT ![v] = Unhandled]
  /\ removed' = [removed EXCEPT ![v] = FALSE]

\* A handler has cleared its source and returns to inst3 of its slot.
Return(v) ==
  LET next == IF pos[v] = End THEN End ELSE slots[pos[v]].inst3 IN
  /\ at[v] = "handler"
  /\ asserted' = [asserted EXCEPT ![v] = @ \ {running[v]}]
  /\ \/ next = End /\ Leave(v)
     \/ next \in Slot /\ Call(v, next, slots[next].handler)
     \/ next = Trashed /\ at' = [at EXCEPT ![v] = "tail"]
        /\ UNCHANGED <<pos, running, removed>>
  /\ UNCHANGED <<slots, free_slot_head, vtable, installed, adds>>

\* irq_handler_chain_remove_tail and irq_add_tail_to_free_list.
RemoveTail(v) ==
  /\ at[v] = "tail"
  /\ Unlink(v, pos[v])
  /\ Leave(v)
  /\ UNCHANGED <<asserted, installed, adds>>

Execute(v) == Enter(v) \/ Return(v) \/ RemoveTail(v)

IrqNext ==
  \E v \in Vector :
    \/ Execute(v)
    \/ \E h \in Handler :
         Assert(v, h) \/ Remove(v, h) \/ SetExclusive(v, h) \/ AddShared(v, h)

IrqSpec == IrqInit /\ [][IrqNext]_irqVars

\* An asserted interrupt is taken and its handlers run.
FairIrqSpec == IrqSpec /\ \A v \in Vector : WF_irqVars(Execute(v))
-----------------------------------------------------------------------------
(* Properties *)

\* Every slot is in one chain or in the free list, once.
SlotsAccounted ==
  LET lists == {vtable[v] : v \in {w \in Vector : IsShared(w)}} \cup {free_slot_head}
  IN
  /\ IrqTypeOK
  /\ UNION {Listed(head) : head \in lists} = Slot
  /\ \A a, b \in lists : a # b => Listed(a) \cap Listed(b) = {}
  /\ \A v, w \in Vector : v # w /\ IsShared(v) => vtable[v] # vtable[w]

\* The code of a chain does what its links say: the vector enters the slot
\* that saves the return address, no later slot saves it again, and inst3
\* goes where link goes.
CodeFollowsLinks ==
  \A v \in Vector : IsShared(v) =>
    /\ slots[vtable[v]].first
    /\ \A s \in Chain(v) :
         slots[s].inst3 = slots[s].link /\ slots[s].first = (s = vtable[v])

\* irq.h: the handlers of a vector are those installed, "called in sequence
\* from highest order_priority to lowest".
CalledInOrder ==
  \A v \in Vector : IsShared(v) =>
    LET live == {s \in Chain(v) : slots[s].link # Trashed} IN
    /\ {slots[s].handler : s \in live} = installed[v]
    /\ Cardinality(live) = Cardinality(installed[v])
    /\ \A s \in live : slots[s].link \in live =>
         slots[s].priority >= slots[slots[s].link].priority

\* What is executed stays the code of the chain: the slot a handler returns
\* to is not freed or overwritten before its inst3 was executed, and a slot
\* to be removed is the one being executed.
ExecutionInChain ==
  \A v \in Vector :
    /\ pos[v] # End =>
         /\ IsShared(v) /\ pos[v] \in Chain(v)
         /\ at[v] = "handler" /\ ~removed[v] => slots[pos[v]].handler = running[v]
    /\ IsShared(v) => \A s \in Chain(v) : slots[s].link = Trashed => pos[v] = s

\* "The shared irq handlers for an interrupt are all called when an IRQ
\* fires": a source that interrupts is served, or its handler is removed,
\* although a handler that removes itself skips the next one.
EverySourceServed ==
  \A v \in Vector, h \in Handler : h \in asserted[v] ~> h \notin asserted[v]
=============================================================================
