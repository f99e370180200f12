------------------------------ MODULE MCTable -------------------------------
(* Five keys that collide in small tables; one of them reduces to the sentinel *)
(* range in the run that looks for it.                                         *)
EXTENDS Table, TLC

MCKeys == 1..5
MCHash == (1 :> 2) @@ (2 :> 18) @@ (3 :> 3) @@ (4 :> 6) @@ (5 :> 22)
MCHashSentinel == [MCHash EXCEPT ![2] = 16]
MCStores == [k \in MCKeys |-> {1 + (k % 2)}]
MCCapacities == [n \in BOOLEAN |-> IF n THEN {4, 8, 16} ELSE {2, 4, 8, 16}]
MCMinCapacity == [n \in BOOLEAN |-> IF n THEN 4 ELSE 2]
=============================================================================
