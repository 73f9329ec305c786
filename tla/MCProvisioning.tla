----------------------------- MODULE MCProvisioning -----------------------------
(* Provisioning for TLC: no action tells two keys or two threads apart.    *)
EXTENDS Provisioning, TLC

Symmetry == Permutations(Threads) \cup Permutations(Keys)
=============================================================================
