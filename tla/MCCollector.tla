---------------------------- MODULE MCCollector ----------------------------
(* Instances of Collector for TLC.                                          *)
EXTENDS Collector, TLC

Symmetry == Permutations(Producers) \cup Permutations(Callers)
=============================================================================
