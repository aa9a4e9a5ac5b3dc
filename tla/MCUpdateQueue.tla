----------------------------- MODULE MCUpdateQueue -----------------------------
(* A small instance of UpdateQueue for TLC. *)
EXTENDS UpdateQueue, TLC

Symmetry == Permutations(Requests)
================================================================================
