------------------------------ MODULE MCTaskMoney ------------------------------
(* TaskMoney on small instances. *)
EXTENDS TaskMoney, TLC

ReceiptSymmetry == Permutations(Receipts)
================================================================================
