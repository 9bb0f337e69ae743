------------------------------ MODULE MCBroker ------------------------------
(* Broker instantiated for TLC: two clients, two adapters at most attached  *)
(* at the start, small tables.                                              *)
EXTENDS Broker, TLC

CONSTANTS c1, c2, a1, a2, a3

OneBoard  == {0}
TwoBoards == {0, 1}
OnePlugged == <<a1>>
TwoPlugged == <<a1, a2>>
AllButUse == {"open", "close", "probe", "list"}
OpenCloseWait == {"open", "close", "wait"}
ClientSymmetry == Permutations(Clients)
=============================================================================
