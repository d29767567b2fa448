---------------------------- MODULE MCPayoutRequests ----------------------------
(* PayoutRequests on small instances. *)
EXTENDS PayoutRequests, TLC

CONSTANT l1
LineAmounts == [l \in Lines |-> IF l = l1 THEN 2 ELSE 1]
Symmetric == Permutations(Calls)
================================================================================
