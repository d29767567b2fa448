------------------------- MODULE MCErrandCompletion -------------------------
(* ErrandCompletion on small instances. *)
EXTENDS ErrandCompletion, TLC

\* Sound where UnpaidErrands and PatchedErrands do not tell the errands apart.
ErrandSymmetry == Permutations(Errands)
=============================================================================
