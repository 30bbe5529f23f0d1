---------------------------- MODULE LegacyService ----------------------------
(***************************************************************************)
(* The TCP server of main.py: one asyncio loop that serves any number of   *)
(* connections, each of them one request at a time.  A handler runs alone  *)
(* up to its next await; what it has handed to a thread (asyncio.to_thread)*)
(* runs beside the loop.  The state of the handlers is global, so two      *)
(* connections (two instances of the app) meet in it.                      *)
(*                                                                         *)
(* A keystore is a salt file and an identity file.  It is named by the     *)
(* number of its salt and the password its identity is encrypted with.  A  *)
(* key is a number if this service derived it as the initiator; the keys   *)
(* of Theirs are those that the bundles of peers lead to.  The sessions    *)
(* are in memory only.  (The three SRP handlers are not part of this.)     *)
(***************************************************************************)
EXTENDS Naturals, Sequences

CONSTANTS
  Conns,       \* connections
  Passwords,
  Convs,       \* conversations
  Theirs,      \* keys that peers initiate with
  MaxStores,   \* bound: keystores created
  MaxKeys      \* bound: keys derived as the initiator

ASSUME LegacyAssumption == MaxStores \in Nat /\ MaxKeys \in Nat /\ Theirs \cap (0..MaxKeys) = {}

VARIABLES
  disk,      \* KEYSTORE_DIR: whether it exists, its salt and its identity
  handle,    \* _keystore_store and _keystore_password
  lock,      \* _registration_lock: its holder, and who waits for it
  sk,        \* _session_keys
  pending,   \* _pending_initiation_bundles
  job,       \* what each connection is doing
  stores,    \* salts made so far
  made,      \* keys made so far
  sent       \* history: messages encrypted

storeVars   == <<disk, handle, lock, stores>>
sessionVars == <<sk, pending, made, sent>>
legacyVars  == <<storeVars, sessionVars, job>>

Salts   == 1..MaxStores
Ours    == 1..MaxKeys
NoKey   == 0
Store   == [salt : Salts, pw : Passwords]
NoStore == [salt |-> 0]
Empty   == [dir |-> FALSE, salt |-> 0, identity |-> NoStore]

Idle == [do |-> "idle"]

LegacyInit ==
  /\ disk = Empty /\ handle = NoStore /\ lock = <<>> /\ stores = 0
  /\ sk = [v \in Convs |-> NoKey] /\ pending = [v \in Convs |-> NoKey]
  /\ made = 0 /\ sent = {}
  /\ job = [c \in Conns |-> Idle]

Does(c, what)  == job[c].do = what
Becomes(c, j)  == job' = [job EXCEPT ![c] = j]

-------------------------------------------------------------------------------
(* unlock_keystore: _ensure_keystore() in a thread, without the lock *)

Unlock(c, pw) ==
  /\ Does(c, "idle")
  /\ Becomes(c, [do |-> "unlock", pw |-> pw])
  /\ UNCHANGED <<storeVars, sessionVars>>

\* The handle that is there will do; or there is no salt; or a key is derived from the salt.
UnlockReads(c) ==
  LET cached == handle # NoStore /\ handle.pw = job[c].pw
  IN  /\ Does(c, "unlock")
      /\ \/ /\ cached \/ disk.salt = 0
            /\ Becomes(c, Idle)
         \/ /\ ~ cached /\ disk.salt # 0
            /\ Becomes(c, [do |-> "open", with |-> [salt |-> disk.salt, pw |-> job[c].pw]])
      /\ UNCHANGED <<storeVars, sessionVars>>

\* (Mutation: the salt is read again, and the password is not validated.)
Opened_Unchecked(c) == [salt |-> disk.salt, pw |-> job[c].with.pw]

\* The identity shows whether the key is right.
Opened(c) == IF disk.identity = job[c].with THEN job[c].with ELSE handle

\* StateStore() makes the directory.
UnlockOpens(c) ==
  /\ Does(c, "open")
  /\ disk' = [disk EXCEPT !.dir = TRUE]
  /\ handle' = Opened(c)
  /\ Becomes(c, Idle)
  /\ UNCHANGED <<lock, stores, sessionVars>>

-------------------------------------------------------------------------------
(* generate_identity_bundle *)

Generate(c, pw) ==
  /\ Does(c, "idle")
  /\ lock' = Append(lock, c)
  /\ Becomes(c, [do |-> "wait", pw |-> pw])
  /\ UNCHANGED <<disk, handle, stores, sessionVars>>

\* (Mutation: without the lock.)
HasTurn_Always(c) == lock # <<>>

HasTurn(c) == lock # <<>> /\ Head(lock) = c

\* (Mutation: the lock is not released when a registration is refused.)
Refuse_Locked(c) == Becomes(c, Idle) /\ lock' = lock

\* An error answer; the lock is released.
Refuse(c) == Becomes(c, Idle) /\ lock' = Tail(lock)

\* There is no keystore, or it is opened with the password.
LookForKeystore(c) ==
  /\ Does(c, "wait") /\ HasTurn(c)
  /\ \/ /\ ~ disk.dir
        /\ Becomes(c, [job[c] EXCEPT !.do = "make"]) /\ UNCHANGED lock
     \/ /\ disk.dir /\ disk.salt # 0
        /\ Becomes(c, [do |-> "check", pw |-> job[c].pw, salt |-> disk.salt])
        /\ UNCHANGED lock
     \/ disk.dir /\ disk.salt = 0 /\ Refuse(c)
  /\ UNCHANGED <<disk, handle, stores, sessionVars>>

Checked(c) == disk.identity = [salt |-> job[c].salt, pw |-> job[c].pw]

\* What is left of a keystore whose removal stops midway.
Remains == {[disk EXCEPT !.salt = 0], [disk EXCEPT !.identity = NoStore], [Empty EXCEPT !.dir = TRUE]}

\* The keystore there is was opened, and is removed at once (or in part, if that fails), or
\* was not.
RemoveKeystore(c) ==
  /\ Does(c, "check")
  /\ \/ /\ Checked(c)
        /\ disk' = Empty
        /\ Becomes(c, [do |-> "make", pw |-> job[c].pw]) /\ UNCHANGED lock
     \/ /\ Checked(c)
        /\ disk' \in {disk} \cup Remains
        /\ Refuse(c)
     \/ /\ ~ Checked(c)
        /\ disk' = [disk EXCEPT !.dir = TRUE]
        /\ Refuse(c)
  /\ UNCHANGED <<handle, stores, sessionVars>>

\* The bundle is made, and StateStore.create() begins.  Either may fail.
MakeBundle(c) ==
  /\ Does(c, "make")
  /\ \/ /\ disk.salt = 0 /\ stores < MaxStores
        /\ disk' = [disk EXCEPT !.dir = TRUE]
        /\ stores' = stores + 1
        /\ Becomes(c, [do |-> "salt", with |-> [salt |-> stores + 1, pw |-> job[c].pw]])
        /\ UNCHANGED lock
     \/ /\ disk' \in {disk, [disk EXCEPT !.dir = TRUE]}
        /\ Refuse(c)
        /\ UNCHANGED stores
  /\ UNCHANGED <<handle, sessionVars>>

WriteSalt(c) ==
  /\ Does(c, "salt")
  /\ disk' = [disk EXCEPT !.salt = job[c].with.salt]
  /\ Becomes(c, [job[c] EXCEPT !.do = "save"])
  /\ UNCHANGED <<handle, lock, stores, sessionVars>>

\* The identity is saved and the keystore is open.  Whether the nonce can be signed after
\* that changes nothing.
SaveIdentity(c) ==
  /\ Does(c, "save")
  /\ disk' = [disk EXCEPT !.identity = job[c].with]
  /\ handle' = job[c].with
  /\ lock' = Tail(lock)
  /\ Becomes(c, Idle)
  /\ UNCHANGED <<stores, sessionVars>>

\* Salt or identity cannot be written.
WriteFails(c) ==
  /\ Does(c, "salt") \/ Does(c, "save")
  /\ Refuse(c)
  /\ UNCHANGED <<disk, handle, stores, sessionVars>>

-------------------------------------------------------------------------------
(* Sessions *)

\* _load_identity() returns the identity.
Loads == handle # NoStore /\ disk.identity = handle

Initiate(c, v) ==
  /\ Does(c, "idle") /\ sk[v] = NoKey /\ Loads
  /\ Becomes(c, [do |-> "initiate", conv |-> v])
  /\ UNCHANGED <<storeVars, sessionVars>>

\* (Mutation: a bundle that waits is kept.)
Initiated_Keeps(c) ==
  LET v == job[c].conv
  IN  /\ Does(c, "initiate") /\ made < MaxKeys
      /\ made' = made + 1
      /\ sk' = [sk EXCEPT ![v] = made + 1]
      /\ pending' = [pending EXCEPT ![v] = IF @ = NoKey THEN made + 1 ELSE @]
      /\ Becomes(c, Idle)
      /\ UNCHANGED <<storeVars, sent>>

\* Key and bundle are stored, whatever is there by now.
Initiated(c) ==
  /\ Does(c, "initiate") /\ made < MaxKeys
  /\ made' = made + 1
  /\ sk' = [sk EXCEPT ![job[c].conv] = made + 1]
  /\ pending' = [pending EXCEPT ![job[c].conv] = made + 1]
  /\ Becomes(c, Idle)
  /\ UNCHANGED <<storeVars, sent>>

\* respond_session, and decrypt_message with a bundle.
Respond(c, v, k) ==
  /\ Does(c, "idle") /\ sk[v] = NoKey /\ Loads
  /\ Becomes(c, [do |-> "respond", conv |-> v, key |-> k])
  /\ UNCHANGED <<storeVars, sessionVars>>

Responded(c) ==
  /\ Does(c, "respond")
  /\ sk' = [sk EXCEPT ![job[c].conv] = job[c].key]
  /\ Becomes(c, Idle)
  /\ UNCHANGED <<storeVars, pending, made, sent>>

\* PQXDH raises: always for a bundle that names a one-time prekey, of which the handlers
\* pass no secret.
PqxdhFails(c) ==
  /\ Does(c, "initiate") \/ Does(c, "respond")
  /\ Becomes(c, Idle)
  /\ UNCHANGED <<storeVars, sessionVars>>

\* encrypt_message: the bundle that waits goes with the message.
Encrypt(c, v) ==
  /\ Does(c, "idle") /\ sk[v] # NoKey
  /\ sent' = sent \cup {[conv |-> v, key |-> sk[v], bundle |-> pending[v]]}
  /\ pending' = [pending EXCEPT ![v] = NoKey]
  /\ UNCHANGED <<storeVars, sk, made, job>>

-------------------------------------------------------------------------------

\* What a process that dies leaves of the keystore: all, or a part if it is being removed.
Left ==
  {disk} \cup IF \E c \in Conns : Does(c, "check") /\ Checked(c) THEN Remains ELSE {}

\* The service is killed and started again.
Restart ==
  /\ job # [c \in Conns |-> Idle] \/ handle # NoStore
  /\ disk' \in Left
  /\ handle' = NoStore /\ lock' = <<>>
  /\ sk' = [v \in Convs |-> NoKey] /\ pending' = [v \in Convs |-> NoKey]
  /\ job' = [c \in Conns |-> Idle]
  /\ UNCHANGED <<stores, made, sent>>

LegacyStep(c) ==
  \/ UnlockReads(c) \/ UnlockOpens(c)
  \/ LookForKeystore(c) \/ RemoveKeystore(c) \/ MakeBundle(c) \/ WriteSalt(c)
  \/ SaveIdentity(c) \/ WriteFails(c)
  \/ Initiated(c) \/ Responded(c) \/ PqxdhFails(c)

LegacyNext ==
  \/ \E c \in Conns :
       \/ \E pw \in Passwords : Unlock(c, pw) \/ Generate(c, pw)
       \/ \E v \in Convs : \/ Initiate(c, v) \/ Encrypt(c, v)
                           \/ \E k \in Theirs : Respond(c, v, k)
       \/ LegacyStep(c)
  \/ Restart

LegacySpec == LegacyInit /\ [][LegacyNext]_legacyVars

\* Threads end, and the loop goes on with each handler whose thread has ended.
FairLegacy == LegacySpec /\ \A c \in Conns : WF_legacyVars(LegacyStep(c))

-------------------------------------------------------------------------------
(* Properties *)

\* Type invariant.
LegacyTypeOK ==
  /\ disk \in [dir : BOOLEAN, salt : 0..MaxStores, identity : Store \cup {NoStore}]
  /\ handle \in Store \cup {NoStore}
  /\ lock \in Seq(Conns)
  /\ stores \in 0..MaxStores /\ made \in 0..MaxKeys
  /\ sk \in [Convs -> Ours \cup Theirs \cup {NoKey}]
  /\ pending \in [Convs -> Ours \cup {NoKey}]
  /\ sent \subseteq [conv : Convs, key : Ours \cup Theirs, bundle : Ours \cup {NoKey}]
  /\ \A c \in Conns : job[c].do \in {"idle", "unlock", "open", "wait", "check", "make", "salt",
                                     "save", "initiate", "respond"}

\* The identity on disk was encrypted under the salt on disk: whatever two registrations, an
\* unlock and a service that is killed do at the same time, no identity is left that its own
\* password does not open ("validate password", main.py:93).
StoreOpens ==
  disk.salt # 0 /\ disk.identity # NoStore => disk.identity.salt = disk.salt

\* "the PQXDH initiation bundle is included in the response so the server can relay it to the
\* recipient" (main.py:329-330): of every key that this service has made and encrypted with,
\* the bundle was sent, though another connection may have replaced the session at any await.
PeerCanFollow ==
  \A m \in sent : m.key \in Ours => \E n \in sent : n.conv = m.conv /\ n.bundle = m.key

\* Every request is answered, also those that wait for the registration lock and those that
\* are refused, unless the service is killed.
AllAnswered == \A c \in Conns : ~ Does(c, "idle") ~> Does(c, "idle")

-------------------------------------------------------------------------------
(* The inductive invariant of LegacyProofs. *)

Job ==
  [do : {"idle"}] \cup [do : {"unlock", "wait", "make"}, pw : Passwords]
    \cup [do : {"open", "salt", "save"}, with : Store]
    \cup [do : {"check"}, pw : Passwords, salt : Salts]
    \cup [do : {"initiate"}, conv : Convs] \cup [do : {"respond"}, conv : Convs, key : Theirs]

Working == {"check", "make", "salt", "save"}

\* Registrations are in the queue of the lock, once, and only the first of them works.
LockInv ==
  /\ \A i, j \in 1..Len(lock) : lock[i] = lock[j] => i = j
  /\ \A i \in 1..Len(lock) : job[lock[i]].do \in {"wait"} \cup (IF i = 1 THEN Working ELSE {})
  /\ \A c \in Conns : job[c].do \in {"wait"} \cup Working => \E i \in 1..Len(lock) : lock[i] = c

\* What a registration knows of the disk while it works.
DiskInv ==
  /\ ~ disk.dir => disk = Empty
  /\ \A c \in Conns : /\ job[c].do \in {"make", "salt"} => disk.salt = 0
                      /\ job[c].do \in {"make", "salt", "save"} => disk.identity = NoStore
                      /\ job[c].do = "save" => disk.salt = job[c].with.salt
                      /\ job[c].do \in {"salt", "save"} => disk.dir

\* The bundle of a key in use waits for the next message, or was sent.
BundleInv ==
  \A v \in Convs : sk[v] \in Ours =>
    pending[v] = sk[v] \/ \E n \in sent : n.conv = v /\ n.bundle = sk[v]

LegacyInv ==
  /\ LegacyTypeOK /\ job \in [Conns -> Job]
  /\ LockInv /\ DiskInv /\ StoreOpens /\ BundleInv /\ PeerCanFollow
===============================================================================
