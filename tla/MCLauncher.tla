---------------------------- MODULE MCLauncher ----------------------------
(* Instances of Launcher for TLC.                                           *)
EXTENDS Launcher, TLC

CONSTANT User

UserStartsAndStops == {<<User, "start">>, <<User, "stop">>}

Symmetry == Permutations(Launchers)
=============================================================================
