----------------------------- MODULE MCGraphics -----------------------------
(* Instances of Graphics for TLC.                                          *)
EXTENDS Graphics, TLC

Symmetry == Permutations(Threads) \cup Permutations(Chains) \cup Permutations(Addresses)
=============================================================================
