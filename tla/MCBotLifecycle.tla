----------------------------- MODULE MCBotLifecycle -----------------------------
(* TLC instances of BotLifecycle. *)
EXTENDS BotLifecycle, TLC

\* Handlers are interchangeable, and so are tokens.
Symmetry == Permutations(Admins) \cup Permutations(Tokens)
================================================================================
