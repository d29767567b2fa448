----------------------------- MODULE MCPriceChanges -----------------------------
(* PriceChanges on small instances. *)
EXTENDS PriceChanges, TLC

CallSymmetry == Permutations(Calls)
================================================================================
