------------------------------ MODULE MCWorker ------------------------------
(* Worker for TLC: a request, a daemon with the request's state directory but *)
(* another checkout, and a daemon with its checkout but another state         *)
(* directory.                                                                 *)
EXTENDS Worker

CONSTANTS s1, d1, d2, stateA, stateB, checkoutA, checkoutB

CrossedStates == [a \in {s1, d1, d2} |-> IF a = d2 THEN stateB ELSE stateA]
CrossedCheckouts == [a \in {s1, d1, d2} |-> IF a = d1 THEN checkoutB ELSE checkoutA]
=============================================================================
