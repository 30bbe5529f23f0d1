----------------------------- MODULE MCMessenger -----------------------------
(* Instances of Messenger for TLC. *)
EXTENDS Messenger

\* The two users do the same.
UserSymmetry == Permutations({Alice, Bob})
===============================================================================
