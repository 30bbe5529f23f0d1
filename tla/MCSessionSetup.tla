---------------------------- MODULE MCSessionSetup ----------------------------
(* Instances of SessionSetup for TLC. *)
EXTENDS SessionSetup, TLC

\* Peers do the same.
SetupSymmetry == Permutations(Peers)
===============================================================================
