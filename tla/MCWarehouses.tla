---------------------------- MODULE MCWarehouses ----------------------------
(* An instance of Warehouses: three requests at a time, room for two.       *)
EXTENDS Warehouses, TLC

WorkerSymmetry == Permutations(Workers)
=============================================================================
