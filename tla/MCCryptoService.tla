--------------------------- MODULE MCCryptoService ---------------------------
(* Instances of CryptoService for TLC. *)
EXTENDS CryptoService, TLC

\* The two users do the same.
UserSymmetry == Permutations({Alice, Bob})
===============================================================================
