------------------------------ MODULE MerkleTree ------------------------------
(***************************************************************************)
(* merkle-core.js: leaves, trees and proofs.  keccak256 is a constructor:  *)
(* what is hashed differently is different.  A tree is given by its leaves *)
(* in the order of leaf_index; merkletreejs hashes pairs in order, and an  *)
(* odd node is promoted as it is ("PIN THESE EXACTLY", merkle-core.js:1).  *)
(***************************************************************************)
EXTENDS Naturals, Sequences, SequencesExt

\* The leaf of a message: length-prefixed context, and the ciphertext.
Leaf(m)     == <<"leaf", m>>
\* keccak256 of the ciphertext alone.
Bare(m)     == <<"bare", m>>
Inner(l, r) == <<"node", l, r>>

\* (Mutation: duplicateOdd.)
Parents_Duplicate(nodes) ==
  [k \in 1..((Len(nodes) + 1) \div 2) |->
    IF 2 * k <= Len(nodes) THEN Inner(nodes[2 * k - 1], nodes[2 * k])
    ELSE IF Len(nodes) = 1 THEN nodes[1] ELSE Inner(nodes[2 * k - 1], nodes[2 * k - 1])]

\* The layer above.
Parents(nodes) ==
  [k \in 1..((Len(nodes) + 1) \div 2) |->
    IF 2 * k <= Len(nodes) THEN Inner(nodes[2 * k - 1], nodes[2 * k]) ELSE nodes[2 * k - 1]]

\* Layer n of the tree; above the root it repeats.
Layers(leaves) ==
  LET layer[n \in Nat] == IF n = 0 THEN leaves ELSE Parents(layer[n - 1])
  IN  [n \in 0..Len(leaves) |-> layer[n]]

Root(leaves) == Layers(leaves)[Len(leaves)][1]

\* (Mutation: siblings are all taken to be on the right.)
Sibling_Right(layer, i) == [left |-> FALSE, at |-> IF i % 2 = 1 THEN i - 1 ELSE i + 1]

\* Where the sibling of node i (from 0) of a layer is.
Sibling(layer, i) == [left |-> i % 2 = 1, at |-> IF i % 2 = 1 THEN i - 1 ELSE i + 1]

\* The proof of leaf i (from 0): a promoted node has no sibling.
GetProof(leaves, i) ==
  LET layers  == Layers(leaves)
      place[n \in Nat] == IF n = 0 THEN i ELSE place[n - 1] \div 2
      Step(n) == LET s == Sibling(layers[n], place[n])
                 IN  IF s.at < Len(layers[n])
                     THEN <<[left |-> s.left, data |-> layers[n][s.at + 1]]>> ELSE <<>>
  IN  FlattenSeq([n \in 1..Len(leaves) |-> Step(n - 1)])

VerifyProof(leaf, proof, root) ==
  FoldLeft(LAMBDA h, p : IF p.left THEN Inner(p.data, h) ELSE Inner(h, p.data), leaf, proof)
    = root
===============================================================================
