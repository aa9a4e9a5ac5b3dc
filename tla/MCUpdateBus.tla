------------------------------ MODULE MCUpdateBus ------------------------------
(* Small instances of UpdateBus for TLC. *)
EXTENDS UpdateBus, TLC

Symmetry == Permutations(Requests)
================================================================================
