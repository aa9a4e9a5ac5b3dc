--------------------------- MODULE MCCredentials ---------------------------
(* Credentials with two aliases that are interchangeable. *)
EXTENDS Credentials, TLC

MCSymmetry == Permutations(Aliases) \cup Permutations(Bots) \cup Permutations(Keys)

=============================================================================
