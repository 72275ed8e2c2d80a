------------------------------ MODULE Cyw43MC ------------------------------
(* Two cores; the alarm pool is on core 0, the driver on either.           *)
EXTENDS Cyw43

MCCores == {0, 1}
MCAlarmCore == 0
=============================================================================
