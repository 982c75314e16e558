------------------------------ MODULE MCChatTurn ------------------------------
(* ChatTurn for TLC. *)
EXTENDS ChatTurn, TLC

CONSTANTS e1, e2, p1, p2

(* One process with a slot for a zombie and one for its successor. *)
OneProcess == e1 :> p1 @@ e2 :> p1

(* One slot: the job is executed in p1 and swept from p1 and p2. *)
OneSlot == e1 :> p1

(* The slots of one process are interchangeable. *)
SlotSymmetry == Permutations({e1, e2})
=============================================================================
