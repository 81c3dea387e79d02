---- MODULE MCAgent ----
EXTENDS Agent

\* A question with little money and one with none to mind and a single turn.
MCBudgets == {[max_turns |-> MaxTurns, max_usd |-> 1], [max_turns |-> 1, max_usd |-> NoLimit]}
====
