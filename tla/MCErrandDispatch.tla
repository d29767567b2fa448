-------------------------- MODULE MCErrandDispatch --------------------------
(* ErrandDispatch on small instances. *)
EXTENDS ErrandDispatch, TLC

\* Errands differ only in the sets a run names.
ErrandSymmetry == Permutations(Errands)
=============================================================================
