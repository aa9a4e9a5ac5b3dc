------------------------------ MODULE MCMTSession ------------------------------
(* Small instances of MTSession. *)
EXTENDS MTSession, TLC
================================================================================
