---------------------------- MODULE SemaphoreMC ----------------------------
(* Semaphore on two cores: one pool of two permits, one free at first.     *)
EXTENDS Semaphore

CONSTANTS c0, c1, pool, lock

MCSpinOf == [s \in {pool} |-> lock]
MCInitialPermits == [s \in {pool} |-> 1]
MCMaxPermits == [s \in {pool} |-> 2]
MCBudget == [x \in {c0, c1} \X {"thread", "irq"} |->
               CASE x[2] = "thread" -> 2
                 [] x = <<c0, "irq">> -> 1
                 [] OTHER -> 0]
=============================================================================
