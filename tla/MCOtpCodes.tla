------------------------------- MODULE MCOtpCodes -------------------------------
(* OtpCodes on small instances. *)
EXTENDS OtpCodes, TLC

CallSymmetry == Permutations(Calls)
================================================================================
