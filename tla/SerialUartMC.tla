---------------------------- MODULE SerialUartMC ----------------------------
(* A ring of three bytes: two fill it, and the indices wrap in every run.  *)
EXTENDS SerialUart

MCBytes == {1, 2}
=============================================================================
