------------------------------ MODULE MutexMC ------------------------------
(* Mutex on two cores, with a plain and a recursive mutex on one striped   *)
(* spin lock.                                                              *)
EXTENDS Mutex

CONSTANTS c0, c1, plain, nested, lock

MCSpinOf == [m \in {plain, nested} |-> lock]
MCBudget == [x \in {c0, c1} \X {"thread", "irq"} |->
               IF x = <<c1, "irq">> THEN 0 ELSE 2]
=============================================================================
