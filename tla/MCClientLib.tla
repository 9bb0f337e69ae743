----------------------------- MODULE MCClientLib -----------------------------
(* ClientLib instantiated for TLC: two threads of one process.             *)
EXTENDS ClientLib

CONSTANTS t1, t2
=============================================================================
