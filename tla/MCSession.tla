----------------------------- MODULE MCSession -----------------------------
(* Instances of Session for TLC.                                            *)
EXTENDS Session, TLC

Symmetry == Permutations(Callers) \cup Permutations(Frames)
=============================================================================
