----------------------------- MODULE MCOptions ------------------------------
(* Instances of Options for TLC.                                           *)
EXTENDS Options, TLC

Symmetry == Permutations(Reloaders)
=============================================================================
