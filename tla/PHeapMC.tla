------------------------------ MODULE PHeapMC ------------------------------
(* PHeap with ties and every order of insertion.                           *)
EXTENDS PHeap

MCKey == [i \in Ids |-> i % 3]
=============================================================================
