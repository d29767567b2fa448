----------------------------- MODULE MCPayments -----------------------------
(* Payments on small instances. *)
EXTENDS Payments, TLC

RequestSymmetry == Permutations(Requests)
=============================================================================
