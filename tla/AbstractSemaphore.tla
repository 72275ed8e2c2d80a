------------------------- MODULE AbstractSemaphore -------------------------
(***************************************************************************)
(* What pico/sem.h promises of a semaphore: permits are granted and given  *)
(* back one at a time and atomically, never more than max_permits are      *)
(* available, and a reset sets how many are.                               *)
(***************************************************************************)
EXTENDS Naturals

CONSTANTS Contexts, Objects, InitialPermits, MaxPermits

VARIABLES
  permits,  \* permits[s]: what is available
  taken,    \* taken[x][s]: how many permits context x was granted
  given     \* given[x][s]: how many permits context x gave

vars == <<permits, taken, given>>

Init ==
  /\ permits = InitialPermits
  /\ taken = [x \in Contexts |-> [s \in Objects |-> 0]]
  /\ given = [x \in Contexts |-> [s \in Objects |-> 0]]

Acquire(x, s) ==
  /\ permits[s] > 0
  /\ permits' = [permits EXCEPT ![s] = @ - 1]
  /\ taken' = [taken EXCEPT ![x][s] = @ + 1]
  /\ UNCHANGED given

Release(x, s) ==
  /\ permits[s] < MaxPermits[s]
  /\ permits' = [permits EXCEPT ![s] = @ + 1]
  /\ given' = [given EXCEPT ![x][s] = @ + 1]
  /\ UNCHANGED taken

Reset(s) ==
  /\ \E p \in 0..MaxPermits[s] : permits' = [permits EXCEPT ![s] = p]
  /\ UNCHANGED <<taken, given>>

Next ==
  \E s \in Objects :
    Reset(s) \/ \E x \in Contexts : Acquire(x, s) \/ Release(x, s)

Spec == Init /\ [][Next]_vars
=============================================================================
