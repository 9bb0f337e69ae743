------------------------------ MODULE MCLibCalls ------------------------------
(* LibCalls instantiated for TLC: a thread that makes every call and one   *)
(* whose simple calls set the status in between.                           *)
EXTENDS LibCalls, TLC

CONSTANTS t1, t2

MCMayCall == (t1 :> Calls) @@ (t2 :> {"ibwrt"})
=============================================================================
