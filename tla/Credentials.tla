----------------------------- MODULE Credentials -----------------------------
(***************************************************************************)
(* What a login is about.  Argon2id and HKDF give one key per password and *)
(* salt, SRP gives one proof per run of the protocol: both are values that *)
(* are equal if and only if what they were computed from is equal.         *)
(***************************************************************************)
EXTENDS Naturals

CONSTANTS
  Users, Nobody,
  Passwords, NoPassword,
  MaxGens,    \* bound: identity bundles that are generated
  MaxFlows    \* bound: login attempts

ASSUME CredentialsAssumption ==
  /\ Nobody \notin Users
  /\ NoPassword \notin Passwords
  /\ MaxGens \in Nat /\ MaxFlows \in Nat

\* Bundles are numbered.  Bundle g comes with salt g; 0 is a salt no bundle came with.
Gens  == 1 .. MaxGens
Salts == 0 .. MaxGens

\* Login attempts are numbered; A is the number of the attempt it was made for, B that of
\* the attempt the server made it for, or 0 if B was made from a fake verifier.
Flows == 1 .. MaxFlows

\* derive_master_components: the key of the keystore.
Key   == [word : Passwords, salt : Salts]
NoKey == [word |-> NoPassword, salt |-> 0]

\* What M1 and M2 are computed from (srp_session.py:108-128).
Proof   == [a : Flows, word : Passwords, salt : Salts, b : Flows \cup {0}]
NoProof == [a |-> 0, word |-> NoPassword, salt |-> 0, b |-> 0]
===============================================================================
