---------------------------- MODULE MCMerkleAnchor ----------------------------
(* Instances of MerkleAnchor for TLC. *)
EXTENDS MerkleAnchor, TLC

\* Transactions are told apart by their status and their roots only.
TxSymmetry == Permutations(Txs)
===============================================================================
