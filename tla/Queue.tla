------------------------------- MODULE Queue -------------------------------
(***************************************************************************)
(* pico_util queues (pico_util/queue.c): a ring of element_count + 1 slots *)
(* with a write and a read index.  Threads add, remove and peek, blocking  *)
(* or not; interrupt handlers only try.  A call loads the indices in one   *)
(* step and copies the element and stores its index in another, so that    *)
(* what protects them is the spin lock.                                    *)
(***************************************************************************)
EXTENDS LockCore, Integers, Sequences

CONSTANTS
  element_count,  \* element_count[q]: the argument of queue_init
  Values,         \* what an element may be
  None            \* the variable of a call that returned no element

IndexMod == 65536  \* the indices are uint16_t

ASSUME QueueAssumption ==
  /\ element_count \in [Objects -> 0..(IndexMod - 1)]
  /\ None \notin Values

Slots(q) == 0..element_count[q]

VARIABLES
  wptr,  \* wptr[q], rptr[q]: the next slot to write, to read
  rptr,
  data,  \* data[q][i]: slot i of q
  seen,  \* seen[x]: the level that context x computed
  got    \* got[x]: the element the current or last call of x returned

vars == <<coreVars, wptr, rptr, data, seen, got>>

Adds == {"add", "try_add"}
Removes == {"remove", "try_remove"}
Peeks == {"peek", "try_peek"}
Blocking == {"add", "remove", "peek"}
Ops == Adds \cup Removes \cup Peeks

TypeOK ==
  /\ CoreTypeOK(Ops)
  /\ DOMAIN wptr = Objects /\ DOMAIN rptr = Objects /\ DOMAIN data = Objects
  /\ \A q \in Objects :
       /\ wptr[q] \in Slots(q) /\ rptr[q] \in Slots(q)
       /\ data[q] \in [Slots(q) -> Values \cup {None}]
  /\ seen \in [Contexts -> Nat]
  /\ got \in [Contexts -> Values \cup {None}]

\* calloc leaves the slots without an element.
Init ==
  /\ CoreInit
  /\ wptr = [q \in Objects |-> 0]
  /\ rptr = [q \in Objects |-> 0]
  /\ data = [q \in Objects |-> [i \in Slots(q) |-> None]]
  /\ seen = [x \in Contexts |-> 0]
  /\ got = [x \in Contexts |-> None]

\* queue_get_level_unsafe.
Level(q, w, r) == IF w >= r THEN w - r ELSE (w - r) + element_count[q] + 1

\* Mutant: >= for >.
IncIndexEarly(q, i) == IF i + 1 >= element_count[q] THEN 0 ELSE i + 1

\* inc_index; the increment is of a uint16_t.
IncIndex(q, i) ==
  LET next == (i + 1) % IndexMod IN IF next > element_count[q] THEN 0 ELSE next

\* A call returns into a variable of its own.
Call(x, q, op) ==
  /\ SpendCall(x)
  /\ BeginCall(x, [op |-> op, obj |-> q], FALSE)
  /\ got' = [got EXCEPT ![x] = None]
  /\ UNCHANGED <<wptr, rptr, data, seen>>

LoadLevel(x) ==
  /\ Load(x)
  /\ LET q == req[x].obj IN seen' = [seen EXCEPT ![x] = Level(q, wptr[q], rptr[q])]
  /\ UNCHANGED <<wptr, rptr, data, got>>

Deciding(x, ops) == pc[x] = "loaded" /\ req[x].op \in ops
Full(x) == seen[x] = element_count[req[x].obj]
Empty(x) == seen[x] = 0
Forget(x) == seen' = [seen EXCEPT ![x] = 0]

\* queue_add_internal with room.
Added(x) ==
  LET q == req[x].obj IN
  /\ Deciding(x, Adds) /\ ~Full(x)
  /\ \E v \in Values : data' = [data EXCEPT ![q][wptr[q]] = v]
  /\ wptr' = [wptr EXCEPT ![q] = IncIndex(q, @)]
  /\ SpinUnlock(x, "sev")
  /\ Forget(x) /\ UNCHANGED <<rptr, got>>

\* Mutant: a removal wakes nobody.
RemovedQuietly(x) ==
  LET q == req[x].obj IN
  /\ Deciding(x, Removes) /\ ~Empty(x)
  /\ got' = [got EXCEPT ![x] = data[q][rptr[q]]]
  /\ rptr' = [rptr EXCEPT ![q] = IncIndex(q, @)]
  /\ SpinUnlock(x, "idle")
  /\ Forget(x) /\ UNCHANGED <<wptr, data>>

\* queue_remove_internal with an element.
Removed(x) ==
  LET q == req[x].obj IN
  /\ Deciding(x, Removes) /\ ~Empty(x)
  /\ got' = [got EXCEPT ![x] = data[q][rptr[q]]]
  /\ rptr' = [rptr EXCEPT ![q] = IncIndex(q, @)]
  /\ SpinUnlock(x, "sev")
  /\ Forget(x) /\ UNCHANGED <<wptr, data>>

\* queue_peek_internal with an element.
Peeked(x) ==
  LET q == req[x].obj IN
  /\ Deciding(x, Peeks) /\ ~Empty(x)
  /\ got' = [got EXCEPT ![x] = data[q][rptr[q]]]
  /\ SpinUnlock(x, "sev")
  /\ Forget(x) /\ UNCHANGED <<wptr, rptr, data>>

\* Full for an add, empty for the others: wait, or return false.
Refused(x) ==
  /\ Deciding(x, Ops)
  /\ IF req[x].op \in Adds THEN Full(x) ELSE Empty(x)
  /\ SpinUnlock(x, IF req[x].op \in Blocking THEN "wfe" ELSE "idle")
  /\ Forget(x) /\ UNCHANGED <<wptr, rptr, data, got>>

Step(x) ==
  \/ LoadLevel(x) \/ Added(x) \/ Removed(x) \/ Peeked(x) \/ Refused(x)
  \/ /\ Mask(x) \/ Acquire(x) \/ Wfe(x) \/ Sev(x)
     /\ UNCHANGED <<wptr, rptr, data, seen, got>>

HandlerStep(c) ==
  (IrqEnter(c) \/ IrqExit(c)) /\ UNCHANGED <<wptr, rptr, data, seen, got>>

\* A handler does not block.
Client(x) ==
  \E q \in Objects, op \in Ops :
    (IsHandler(x) => op \notin Blocking) /\ Call(x, q, op)

Next ==
  \/ \E x \in Contexts : Step(x) \/ Client(x)
  \/ \E c \in Cores : HandlerStep(c)

Spec == Init /\ [][Next]_vars

\* The processors run and interrupt handlers return; nothing is assumed of
\* who adds or removes.
Fairness ==
  /\ \A x \in Contexts : WF_vars(Step(x))
  /\ \A c \in Cores : WF_vars(IrqExit(c) /\ UNCHANGED <<wptr, rptr, data, seen, got>>)

FairSpec == Spec /\ Fairness
-----------------------------------------------------------------------------
(* Properties *)

Used(q) == Level(q, wptr[q], rptr[q])

\* The slot k places after slot i on the ring.
SlotAfter(q, i, k) ==
  IF i + k > element_count[q] THEN (i + k) - (element_count[q] + 1) ELSE i + k

\* The elements from the read index up to the write index.
Contents(q) ==
  [i \in 1..Used(q) |-> data[q][SlotAfter(q, rptr[q], i - 1)]]

\* The ring is a bounded FIFO: no element is lost, doubled, overwritten or
\* returned out of order, whichever cores and handlers add and remove.
Count(q) == element_count[q]
Abs == INSTANCE AbstractQueue WITH
         contents <- [q \in Objects |-> Contents(q)]
AbstractSpec == Abs!Spec

WaitsInVain(x) ==
  LET q == req[x].obj IN
  IF req[x].op \in Adds THEN Used(q) < element_count[q] ELSE Used(q) > 0

\* A thread that waits for room while there is some, or for an element
\* while there is one, has its wake-up ahead of it.
NoLostWakeup ==
  \A x \in Contexts :
    pc[x] = "wfe" /\ WaitsInVain(x) =>
      event[CoreOf(x)] \/ \E y \in Contexts : pc[y] = "sev"

\* No call stays for ever inside queue.c while its queue has the room or
\* the element it needs.
NoStrandedWaiter ==
  \A x \in Contexts : ~<>[](req[x] # NoCall /\ WaitsInVain(x))
=============================================================================
