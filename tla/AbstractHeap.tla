---------------------------- MODULE AbstractHeap ----------------------------
(***************************************************************************)
(* What pico/util/pheap.h promises of its nodes: an id is free, allocated  *)
(* or in the heap; the free ids are handed out in the order they were      *)
(* freed ("to stop reusing the same ids"); the head is one that no other   *)
(* compares before.  In one thing it follows pheap.c against pheap.h: a    *)
(* queue of free ids that has run empty stays empty.                       *)
(***************************************************************************)
EXTENDS Integers, Sequences, FiniteSets

CONSTANTS Ids, Key, NoId

VARIABLES
  free,  \* the free ids, longest free first
  heap,  \* the ids in the heap
  head   \* the head of the heap, or NoId

vars == <<free, heap, head>>

Out == Ids \ (heap \cup {free[k] : k \in 1..Len(free)})

Init ==
  /\ heap = {} /\ head = NoId
  /\ free \in [1..Cardinality(Ids) -> Ids]
  /\ \A i \in Ids : \E k \in 1..Len(free) : free[k] = i

\* h may be the head of the nodes in S.
IsHead(h, S) ==
  IF S = {} THEN h = NoId ELSE h \in S /\ \A i \in S : Key[h] <= Key[i]

New ==
  /\ free # << >>
  /\ free' = Tail(free)
  /\ UNCHANGED <<heap, head>>

Insert(i) ==
  /\ i \in Out
  /\ heap' = heap \cup {i}
  /\ head' \in {head, i} /\ IsHead(head', heap')
  /\ UNCHANGED free

Remove(i) ==
  /\ i \in heap
  /\ heap' = heap \ {i}
  /\ head' \in Ids \cup {NoId} /\ IsHead(head', heap')

Free(i) == free' = IF free = << >> THEN << >> ELSE Append(free, i)

Clear == Init'

Next ==
  \/ New \/ Clear
  \/ \E i \in Ids :
       \/ Insert(i)
       \/ i = head /\ Remove(i) /\ UNCHANGED free
       \/ Remove(i) /\ Free(i)
       \/ i \in Out /\ Free(i) /\ UNCHANGED <<heap, head>>

Spec == Init /\ [][Next]_vars
=============================================================================
