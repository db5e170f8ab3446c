----------------------------- MODULE MCCapture -----------------------------
(* Instances of Capture for TLC.                                           *)
EXTENDS Capture, TLC

Symmetry == Permutations(Results)
=============================================================================
