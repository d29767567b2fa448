---------------------------- MODULE MCOfflineRequests ----------------------------
(* OfflineRequests on small instances. *)
EXTENDS OfflineRequests, TLC

RequestSymmetry == Permutations(Requests)
================================================================================
