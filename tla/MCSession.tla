------------------------------ MODULE MCSession ------------------------------
EXTENDS SessionProperties
(* Of 32 counters the gate is at 29; a refresh is due from 26 on.           *)
LowAndHigh == {1} \union (24 .. 28)
=============================================================================
