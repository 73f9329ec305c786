------------------------------ MODULE MCIntentTree ------------------------------
(* IntentTree for TLC: no action tells two requests or two traces apart.   *)
EXTENDS IntentTree, TLC

Symmetry == Permutations(Requests) \cup Permutations(Traces) \cup Permutations(Agents)
=============================================================================
