------------------------------ MODULE MCAccount ------------------------------
(* Instances of Account for TLC. *)
EXTENDS Account, TLC

\* Users do the same, and so do passwords.
AccountSymmetry == Permutations(Users) \cup Permutations(Passwords)
===============================================================================
