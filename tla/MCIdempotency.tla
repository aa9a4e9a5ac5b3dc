----------------------------- MODULE MCIdempotency -----------------------------
(***************************************************************************)
(* Two requests with one key on any path; TTL and Stale keep their order:  *)
(* a claim can be fresh, stale, and outlived.                              *)
(***************************************************************************)
EXTENDS Idempotency
================================================================================
