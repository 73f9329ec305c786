----------------------------- MODULE MCDelegation -----------------------------
(* Delegation for TLC.  Symmetry: no action or property tells two agents,  *)
(* two capabilities, two traces or two threads apart.                      *)
EXTENDS Delegation, TLC

Symmetry == Permutations(Agents) \cup Permutations(Caps) \cup Permutations(Traces)
            \cup Permutations(Requests) \cup Permutations(Jtis) \cup Permutations(Threads)
=============================================================================
