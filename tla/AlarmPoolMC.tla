---------------------------- MODULE AlarmPoolMC ----------------------------
(* AlarmPool with a thread on the interrupt's core and one on the other.   *)
EXTENDS AlarmPool

CONSTANTS t0, t1

LiveBudget == [x \in {t0, t1} |-> IF x = t0 THEN 1 ELSE 2]
=============================================================================
