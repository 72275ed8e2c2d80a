--------------------------- MODULE AbstractQueue ---------------------------
(***************************************************************************)
(* What pico/util/queue.h promises of a queue: a bounded FIFO whose        *)
(* elements are added, removed and peeked at atomically.                   *)
(***************************************************************************)
EXTENDS Naturals, Sequences

CONSTANTS Contexts, Objects, Values, Count(_), None

VARIABLES
  contents,  \* contents[q]: the elements of q, oldest first
  got        \* got[x]: the element the last call of x returned, or None

vars == <<contents, got>>

Init ==
  /\ contents = [q \in Objects |-> << >>]
  /\ got = [x \in Contexts |-> None]

Add(q, v) ==
  /\ Len(contents[q]) < Count(q)
  /\ contents' = [contents EXCEPT ![q] = Append(@, v)]
  /\ UNCHANGED got

Peek(x, q) ==
  /\ contents[q] # << >>
  /\ got' = [got EXCEPT ![x] = Head(contents[q])]
  /\ UNCHANGED contents

Remove(x, q) ==
  /\ contents[q] # << >>
  /\ got' = [got EXCEPT ![x] = Head(contents[q])]
  /\ contents' = [contents EXCEPT ![q] = Tail(@)]

\* A new call gives x a new variable to return into.
Fresh(x) == got' = [got EXCEPT ![x] = None] /\ UNCHANGED contents

Next ==
  \/ \E q \in Objects, v \in Values : Add(q, v)
  \/ \E x \in Contexts : Fresh(x) \/ \E q \in Objects : Peek(x, q) \/ Remove(x, q)

Spec == Init /\ [][Next]_vars
=============================================================================
