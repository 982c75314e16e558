------------------------------ MODULE MCJobQueue ------------------------------
(* JobQueue for TLC. *)
EXTENDS JobQueue, TLC

CONSTANTS e1, e2, e3, p1, p2, j1, j2, j3, k1

(* Every job has the same deduplication key, or each one its own. *)
SameKey == [j \in Jobs |-> k1]
OwnKey  == [j \in Jobs |-> j]

(* One slot in each of two processes, three in one. *)
TwoProcesses == e1 :> p1 @@ e2 :> p2
ThreeSlots   == e1 :> p1 @@ e2 :> p1 @@ e3 :> p1
=============================================================================
