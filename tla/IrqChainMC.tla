----------------------------- MODULE IrqChainMC -----------------------------
(* IrqChain with three slots for the chains of two vectors.                *)
EXTENDS IrqChain

CONSTANTS h1, h2, h3

MCHandler == {h1, h2, h3}
MCPriority == [h \in MCHandler |-> IF h = h1 THEN 2 ELSE 1]
=============================================================================
