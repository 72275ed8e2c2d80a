--------------------------- MODULE AbstractMutex ---------------------------
(***************************************************************************)
(* What pico/mutex.h promises of a mutex, with no spin lock, no event and  *)
(* no core-local state: entering and exiting are atomic, a plain mutex is  *)
(* held by one context, a recursive one by the contexts of one core.       *)
(***************************************************************************)
EXTENDS Naturals

CONSTANTS Contexts, CoreOf(_), Objects, Recursive, MaxNest

VARIABLE nest  \* nest[x][m]: how deep context x is inside m

Init == nest = [x \in Contexts |-> [m \in Objects |-> 0]]

MayEnter(x, m) ==
  \A y \in Contexts :
    nest[y][m] > 0 => m \in Recursive /\ CoreOf(y) = CoreOf(x)

Enter(x, m) ==
  /\ MayEnter(x, m) /\ nest[x][m] < MaxNest
  /\ nest' = [nest EXCEPT ![x][m] = @ + 1]

Exit(x, m) ==
  /\ nest[x][m] > 0
  /\ nest' = [nest EXCEPT ![x][m] = @ - 1]

Next == \E x \in Contexts, m \in Objects : Enter(x, m) \/ Exit(x, m)

Spec == Init /\ [][Next]_nest
=============================================================================
