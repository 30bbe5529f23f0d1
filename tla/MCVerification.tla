---------------------------- MODULE MCVerification ----------------------------
(* Instances of Verification for TLC. *)
EXTENDS Verification
===============================================================================
