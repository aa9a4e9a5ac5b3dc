------------------------------ MODULE MCTyping ------------------------------
EXTENDS Typing

MCBoot == [enabled |-> TRUE, private_only |-> FALSE]

\* The indicator is switched off for the whole gateway, or one bot leaves its
\* groups out.
MCGlobalPatches == {[enabled |-> FALSE, private_only |-> Nil]}
MCBotPatches == {[enabled |-> Nil, private_only |-> TRUE]}
=============================================================================
