---------------------------- MODULE MulticoreMC ----------------------------
(* Multicore with two lockouts of either core.                             *)
EXTENDS Multicore

MCBudget == [c \in Cores |-> 2]
=============================================================================
