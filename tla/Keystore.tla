------------------------------- MODULE Keystore -------------------------------
(***************************************************************************)
(* The keystore of one machine and the calls of the crypto service that    *)
(* open it: generate_identity_bundle, srp_start, srp_challenge, srp_verify *)
(* and unlock_keystore.  The service handles one call at a time.  A call   *)
(* is an operator from the memory before it to the memory after it.        *)
(*                                                                         *)
(* Two files matter: the salt, and the identity bundle, encrypted with the *)
(* key that was derived from the password and that salt.  They are written *)
(* one after the other, each atomically.                                   *)
(***************************************************************************)
EXTENDS Credentials, Sequences

VARIABLES
  gens,    \* bundles generated so far: their user and password
  disk,    \* the bundles whose salt and identity are in the keystore; 0: no file
  mem      \* module-level state of crypto_service.py

keystoreVars == <<gens, disk, mem>>

\* The password of _srp_session is left out: srp_challenge sets it before it is used.
Memory ==
  [srp : Flows \cup {0},                \* _srp_session: the attempt its A was made for
   proof : Proof \cup {NoProof},        \* its M1, from process_challenge on
   password : Passwords \cup {NoPassword},
   staged : Key \cup {NoKey},           \* _pending_keystore_key
   cached : Key \cup {NoKey},           \* _cached_keystore_key
   store : Key \cup {NoKey},            \* _store: its key
   bundle : Gens \cup {0}]              \* _local_bundle

NoMemory ==
  [srp |-> 0, proof |-> NoProof, password |-> NoPassword, staged |-> NoKey,
   cached |-> NoKey, store |-> NoKey, bundle |-> 0]

NoFiles == [salt |-> 0, ident |-> 0]

KeystoreInit == gens = <<>> /\ disk = NoFiles /\ mem = NoMemory

KeystoreTypeOK ==
  /\ gens \in Seq([user : Users, word : Passwords]) /\ Len(gens) <= MaxGens
  /\ disk \in [salt : Gens \cup {0}, ident : Gens \cup {0}]
  /\ mem \in Memory

-------------------------------------------------------------------------------
(* Logging in *)

\* srp_start forgets whatever an earlier attempt has left.
\* (Mutation: the proof of the earlier attempt stays.)
SrpStarted_Keeps(m, f, word) ==
  [m EXCEPT !.srp = f, !.password = word, !.staged = NoKey, !.cached = NoKey]

SrpStarted(m, f, word) ==
  [m EXCEPT !.srp = f, !.proof = NoProof, !.password = word,
            !.staged = NoKey, !.cached = NoKey]

\* srp_challenge needs an attempt whose password is not used up.  What it is given may be
\* the server's answer to another attempt.
CanChallenge(m) == m.srp # 0 /\ m.password # NoPassword

\* (Mutation: the password is dropped before the key is derived.)
Challenged_Late(m, salt, b) ==
  [m EXCEPT !.proof = [a |-> m.srp, word |-> m.password, salt |-> salt, b |-> b],
            !.staged = [word |-> NoPassword, salt |-> salt],
            !.password = NoPassword]

Challenged(m, salt, b) ==
  [m EXCEPT !.proof = [a |-> m.srp, word |-> m.password, salt |-> salt, b |-> b],
            !.staged = [word |-> m.password, salt |-> salt],
            !.password = NoPassword]

\* verify_server: is this M2 the server's answer to our M1?
Verifies(m, proof) == m.proof # NoProof /\ m.proof = proof

\* (Mutation: the staged key is promoted whatever the server has proved.)
SrpVerified_Promotes(m, proof) ==
  [m EXCEPT !.srp = 0, !.proof = NoProof, !.password = NoPassword, !.staged = NoKey,
            !.cached = m.staged]

\* srp_verify ends the attempt.  Only a right proof promotes the staged key; a wrong one
\* evicts what was unlocked.
SrpVerified(m, proof) ==
  LET ended == [m EXCEPT !.srp = 0, !.proof = NoProof, !.password = NoPassword,
                         !.staged = NoKey]
  IN  IF Verifies(m, proof)
      THEN [ended EXCEPT !.cached = m.staged]
      ELSE [ended EXCEPT !.cached = NoKey, !.store = NoKey, !.bundle = 0]

-------------------------------------------------------------------------------
(* Unlocking *)

\* The key of the last login, or one derived from the password and the salt file.
UnlockKey(m, word) ==
  IF m.cached # NoKey THEN m.cached ELSE [word |-> word, salt |-> disk.salt]

\* The identity file decrypts: otherwise InvalidTag.
Opens(key) == disk.ident # 0 /\ key = [word |-> gens[disk.ident].word, salt |-> disk.ident]

Unlocks(m, word) == disk.salt # 0 /\ Opens(UnlockKey(m, word))

\* unlock_keystore.  If it fails, _local_bundle stays what it was.
Unlocked(m, word) ==
  CASE disk.salt = 0     -> [m EXCEPT !.cached = NoKey]
    [] Unlocks(m, word)  -> [m EXCEPT !.cached = NoKey, !.store = UnlockKey(m, word),
                                      !.bundle = disk.ident]
    [] OTHER             -> [m EXCEPT !.cached = NoKey, !.store = NoKey]

-------------------------------------------------------------------------------
(* Registration *)

\* The bundle that is generated next; its keys exist before the keystore is created.
NewGen == Len(gens) + 1
Generates(u, word) ==
  /\ NewGen \in Gens
  /\ gens' = Append(gens, [user |-> u, word |-> word])

\* create_with_key refuses a keystore that is there already, complete or not.
CanCreate == disk.salt = 0

\* generate_identity_bundle.
Generate(u, word) ==
  /\ CanCreate
  /\ Generates(u, word)
  /\ disk' = [salt |-> NewGen, ident |-> NewGen]
  /\ mem' = [mem EXCEPT !.store = [word |-> word, salt |-> NewGen], !.bundle = NewGen]

\* It stops between the two files: the service has died, or the write of the second failed.
GenerateStops(u, word, dies) ==
  /\ CanCreate
  /\ Generates(u, word)
  /\ disk' = [salt |-> NewGen, ident |-> 0]
  /\ mem' = IF dies THEN NoMemory
            ELSE [mem EXCEPT !.store = [word |-> word, salt |-> NewGen]]
===============================================================================
