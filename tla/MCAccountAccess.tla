---- MODULE MCAccountAccess ----
(* AccountAccess on small instances. *)
EXTENDS AccountAccess
====
