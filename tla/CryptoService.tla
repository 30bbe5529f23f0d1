---------------------------- MODULE CryptoService ----------------------------
(***************************************************************************)
(* The sessions of one conversation: the crypto services of its two users  *)
(* (client/cryptography/crypto_service.py, core/dh_ratchet/session.py) and *)
(* the one-time prekeys the server hands out (GET /keys/:username).        *)
(*                                                                         *)
(* A service serves one request at a time and keeps, per conversation, a   *)
(* PQXDH result that waits for the first message (_pending_sessions), a    *)
(* ratchet in memory (_sessions) and two files of the keystore: the        *)
(* ratchet and the session's metadata.  Each file is replaced atomically   *)
(* (core/state_store.py), but a handler writes several: it may stop at any *)
(* write, because the write fails ("disk") or because the process dies     *)
(* ("crash"; its restart and the unlocking of the keystore are one step    *)
(* with that).                                                             *)
(*                                                                         *)
(* The Double Ratchet itself is a library.  Here a session is one end of a *)
(* ratchet: `init` is the PQXDH run its secret comes from and `take` tells *)
(* the ends with that secret apart, 0 for the initiator and a fresh number *)
(* each time the responder creates its end, which draws new ratchet keys.  *)
(* The initiator's end belongs to the responder's end it first heard from  *)
(* (`peer`); from then on its messages are for that end only.  A message   *)
(* key is used up by one decryption, and messages may come in any order    *)
(* (gaps of more than MAX_SKIP messages are left out).                     *)
(***************************************************************************)
EXTENDS Integers, FiniteSets

CONSTANTS
  Alice, Bob,   \* the users of the conversation, one device each
  Opks,         \* ids of the one-time prekeys each of them has uploaded
  NoOpk,        \* a bundle without a one-time prekey
  Nobody,
  MaxInits,     \* bound: PQXDH runs
  MaxTakes,     \* bound: ends of a responder that matter at a time
  MaxSends,     \* bound: messages encrypted
  Faults        \* which faults the environment may inject

ASSUME UsersAssumption == Alice # Bob /\ Nobody \notin {Alice, Bob}
ASSUME OpksAssumption == NoOpk \notin Opks
ASSUME BoundsAssumption == MaxInits \in Nat /\ MaxTakes \in Nat /\ MaxSends \in Nat
ASSUME FaultsAssumption == Faults \subseteq {"disk", "crash"}

Users == {Alice, Bob}
Peer(u) == IF u = Alice THEN Bob ELSE Alice

Inits == 1 .. MaxInits
Takes == 1 .. MaxTakes
NoInit == 0

Sessions == [init : Inits \cup {NoInit}, take : Takes \cup {0}, peer : Takes \cup {0},
             sent : Nat, got : SUBSET Nat]
NoSession == [init |-> NoInit, take |-> 0, peer |-> 0, sent |-> 0, got |-> {}]

\* What encrypt_message returns: `to` is the responder's end the message is for, 0 for
\* any, and n counts the messages of the end that sends.
WireSet == [id : Nat, init : Inits, take : Takes \cup {0}, to : Takes \cup {0}, n : Nat]

VARIABLES
  \* the server
  pool,         \* rows of one_time_prekeys with used = FALSE, by owner
  \* the PQXDH runs there have been
  initBy,       \* who initiated
  initOpk,      \* the one-time prekey of the peer it used
  \* the services
  pending,      \* _pending_sessions
  memory,       \* _sessions
  ratchetFile,  \* the file <conversation>
  metaFile,     \* whether the file meta_<conversation> exists
  opkMemory,    \* secret one-time prekeys in _local_bundle
  opkFile,      \* the same, in the keystore
  wires         \* every message that encrypt_message has returned

initVars    == <<initBy, initOpk>>
sessionVars == <<pending, memory, ratchetFile, metaFile>>
opkVars     == <<opkMemory, opkFile>>
vars        == <<pool, initVars, sessionVars, opkVars, wires>>

Init ==
  /\ pool = [u \in Users |-> Opks]
  /\ initBy = [i \in Inits |-> Nobody] /\ initOpk = [i \in Inits |-> NoOpk]
  /\ pending = [u \in Users |-> NoInit]
  /\ memory = [u \in Users |-> NoSession]
  /\ ratchetFile = [u \in Users |-> NoSession] /\ metaFile = [u \in Users |-> FALSE]
  /\ opkMemory = [u \in Users |-> Opks] /\ opkFile = [u \in Users |-> Opks]
  /\ wires = {}

-------------------------------------------------------------------------------

Sender(w) == IF w.take = 0 THEN initBy[w.init] ELSE Peer(initBy[w.init])

\* The first message of the initiator comes with the initiation bundle.
HasBundle(w) == w.take = 0 /\ w.n = 1

\* _require_session: the session in memory, or the one both files are there for.
Session(u) ==
  IF memory[u] # NoSession THEN memory[u]
  ELSE IF metaFile[u] THEN ratchetFile[u] ELSE NoSession

\* The sessions in memory and on disk.
Stored == {memory[u] : u \in Users} \cup {ratchetFile[u] : u \in Users}

\* The end s can derive the key of w, and has not used it up.
Accepts(s, w) ==
  /\ s # NoSession
  /\ w.init = s.init
  /\ w.n \notin s.got
  /\ IF s.take = 0 THEN w.take # 0 /\ s.peer \in {0, w.take}
                   ELSE w.take = 0 /\ w.to \in {0, s.take}

\* The end s after it decrypted w.
Receive(s, w) == [s EXCEPT !.got = @ \cup {w.n}, !.peer = w.take]

\* The end s after it encrypted a message, and that message.
Advance(s) == [s EXCEPT !.sent = @ + 1]
Wire(s) == [id |-> Cardinality(wires) + 1, init |-> s.init, take |-> s.take,
            to |-> s.peer, n |-> s.sent + 1]

Set(f, u, s) == f' = [f EXCEPT ![u] = s]

\* The two files of u's session.
Files(u) == <<ratchetFile[u], metaFile[u]>>
SetFiles(u, f) == Set(ratchetFile, u, f[1]) /\ Set(metaFile, u, f[2])

\* The process dies and is started again: what it had in memory is gone.
Die(u) ==
  /\ "crash" \in Faults
  /\ Set(pending, u, NoInit)
  /\ Set(memory, u, NoSession)
  /\ Set(opkMemory, u, opkFile'[u])

\* A handler stops between or at its writes: it dies, or a write fails and it raises, with
\* p, s and opks in memory.  (A write may fail after it replaced the file: the directory
\* is synchronised last.)
Stop(u, dies, p, s, opks) ==
  IF dies THEN Die(u)
  ELSE /\ "disk" \in Faults
       /\ Set(pending, u, p)
       /\ Set(memory, u, s)
       /\ Set(opkMemory, u, opks)

Crash(u) ==
  /\ opkFile' = opkFile
  /\ Die(u)
  /\ UNCHANGED <<pool, initVars, ratchetFile, metaFile, wires>>

-------------------------------------------------------------------------------
(* GET /keys/:username and initiate_session *)

\* One statement claims an unused prekey of the peer; what other conversations have
\* claimed is not modelled, so the server may have none left at any time.
Claim(u, k) ==
  /\ k \in pool[Peer(u)] \cup {NoOpk}
  /\ pool' = [pool EXCEPT ![Peer(u)] = @ \ {k}]

\* The response does not arrive, or is not used: the prekey is spent.
LoseBundle(u) ==
  /\ \E k \in Opks : Claim(u, k)
  /\ UNCHANGED <<initVars, sessionVars, opkVars, wires>>

\* The bundle arrives and the run is made of it: it replaces one that waits, and leaves
\* a session alone.
InitiateSession(u) ==
  /\ \E i \in Inits, k \in Opks \cup {NoOpk} :
       /\ \A j \in Inits : initBy[j] = Nobody <=> j >= i
       /\ Claim(u, k)
       /\ initBy' = [initBy EXCEPT ![i] = u]
       /\ initOpk' = [initOpk EXCEPT ![i] = k]
       /\ Set(pending, u, i)
  /\ UNCHANGED <<memory, ratchetFile, metaFile, opkVars, wires>>

-------------------------------------------------------------------------------
(* encrypt_message *)

NewEnd(i, t) == [NoSession EXCEPT !.init = i, !.take = t]

\* (Mutation: nobody checks that a run waits.)
EncryptFirst_Unchecked(u) ==
  /\ LET s == NewEnd(pending[u], 0)
     IN  /\ SetFiles(u, <<Advance(s), TRUE>>)
         /\ Set(memory, u, Advance(s))
         /\ wires' = wires \cup {Wire(s)}
  /\ Set(pending, u, NoInit)
  /\ UNCHANGED <<pool, initVars, opkVars>>

\* The first message of a run that waits: the ratchet is created with it, and the two
\* files are written.  A session there was is replaced.
EncryptFirst(u) ==
  /\ pending[u] # NoInit
  /\ LET s == NewEnd(pending[u], 0)
     IN  /\ SetFiles(u, <<Advance(s), TRUE>>)
         /\ Set(memory, u, Advance(s))
         /\ wires' = wires \cup {Wire(s)}
  /\ Set(pending, u, NoInit)
  /\ UNCHANGED <<pool, initVars, opkVars>>

\* It stops before or after either file.  The run no longer waits.
EncryptFirstStops(u, dies) ==
  /\ pending[u] # NoInit
  /\ LET s == Advance(NewEnd(pending[u], 0))
     IN  \E f \in {Files(u), <<s, metaFile[u]>>, <<s, TRUE>>} : SetFiles(u, f)
  /\ opkFile' = opkFile
  /\ Stop(u, dies, NoInit, memory[u], opkMemory[u])
  /\ UNCHANGED <<pool, initVars, wires>>

\* (Mutation: the message is returned and the file is not written.)
EncryptNext_NotPersisted(u) ==
  /\ pending[u] = NoInit
  /\ Session(u) # NoSession
  /\ Set(memory, u, Advance(Session(u)))
  /\ wires' = wires \cup {Wire(Session(u))}
  /\ UNCHANGED <<pool, initVars, pending, ratchetFile, metaFile, opkVars>>

\* Another message: the ratchet advances in memory, its file is written, and only then
\* is the message returned.
EncryptNext(u) ==
  /\ pending[u] = NoInit
  /\ Session(u) # NoSession
  /\ Set(memory, u, Advance(Session(u)))
  /\ Set(ratchetFile, u, Advance(Session(u)))
  /\ wires' = wires \cup {Wire(Session(u))}
  /\ UNCHANGED <<pool, initVars, pending, metaFile, opkVars>>

\* No message is returned, and the ratchet in memory has advanced all the same.
EncryptNextStops(u, dies) ==
  /\ pending[u] = NoInit
  /\ Session(u) # NoSession
  /\ \E s \in {ratchetFile[u], Advance(Session(u))} : Set(ratchetFile, u, s)
  /\ UNCHANGED <<metaFile, opkFile>>
  /\ Stop(u, dies, NoInit, Advance(Session(u)), opkMemory[u])
  /\ UNCHANGED <<pool, initVars, wires>>

\* MaxSends bounds the messages, and those that are lost before they are returned.
Encrypt(u) ==
  /\ Cardinality(wires) < MaxSends
  /\ EncryptFirst(u) \/ EncryptNext(u)

EncryptStops(u, dies) ==
  /\ Cardinality(wires) + Session(u).sent < MaxSends
  /\ EncryptFirstStops(u, dies) \/ EncryptNextStops(u, dies)

-------------------------------------------------------------------------------
(* decrypt_message, with an initiation bundle *)

\* The ends of run i that hold a session or have sent a message.
EndsOf(i) ==
  {w.take : w \in {v \in wires : v.init = i}} \cup
  {s.take : s \in {r \in Stored : r.init = i}}

\* A number for a new end of run i that no message and no session refers to.
IsNewTake(i, t) ==
  /\ t \notin EndsOf(i)
  /\ \A w \in wires : w.init = i => w.to # t
  /\ \A s \in Stored : s.init = i => s.peer # t

\* The ratchet's file is deleted and then the metadata's; an error ends that, and is ignored.
Deletions(u) ==
  {<<NoSession, FALSE>>} \cup
  IF "disk" \in Faults THEN {Files(u), <<NoSession, metaFile[u]>>} ELSE {}

\* The session in memory, if there is one, is wiped before anything about the bundle is
\* checked; one that is only on disk is left there.
Wipe(u) == IF memory[u] # NoSession THEN Deletions(u) ELSE {Files(u)}

\* respond() needs the secret of the prekey the run used, and it is consumed.
HasSecret(u, w) == initOpk[w.init] \in opkMemory[u] \cup {NoOpk}
Consumed(u, w) == opkMemory[u] \ {initOpk[w.init]}
ConsumedFile(u, w) == IF initOpk[w.init] = NoOpk THEN opkFile[u] ELSE Consumed(u, w)

\* The end that create_as_responder makes of the first message.
ResponderEnd(w, t) == Receive(NewEnd(w.init, t), w)

\* (Mutation: the prekey is not consumed.)
DecryptInitial_KeepsOpk(u, w) ==
  /\ HasBundle(w)
  /\ HasSecret(u, w)
  /\ \E t \in Takes :
       /\ IsNewTake(w.init, t)
       /\ SetFiles(u, <<ResponderEnd(w, t), TRUE>>)
       /\ Set(memory, u, ResponderEnd(w, t))
  /\ UNCHANGED <<pool, initVars, pending, opkVars, wires>>

\* pending is not touched: a run of this user's own still replaces the session with
\* the next message.
DecryptInitial(u, w) ==
  /\ HasBundle(w)
  /\ HasSecret(u, w)
  /\ Set(opkMemory, u, Consumed(u, w))
  /\ Set(opkFile, u, ConsumedFile(u, w))
  /\ \E t \in Takes :
       /\ IsNewTake(w.init, t)
       /\ SetFiles(u, <<ResponderEnd(w, t), TRUE>>)
       /\ Set(memory, u, ResponderEnd(w, t))
  /\ UNCHANGED <<pool, initVars, pending, wires>>

\* The secret is gone, by an earlier delivery: the error comes after the wipe.
DecryptInitialFails(u, w) ==
  /\ HasBundle(w)
  /\ ~ HasSecret(u, w)
  /\ \E f \in Wipe(u) : SetFiles(u, f)
  /\ Set(memory, u, NoSession)
  /\ UNCHANGED <<pool, initVars, pending, opkVars, wires>>

\* It stops before or after the write of the keystore's bundle, of the ratchet, or of the
\* metadata.
DecryptInitialStops(u, w, dies) ==
  /\ HasBundle(w)
  /\ HasSecret(u, w)
  /\ \/ /\ opkFile' = opkFile
        /\ \E f \in Wipe(u) : SetFiles(u, f)
     \/ /\ Set(opkFile, u, ConsumedFile(u, w))
        /\ \E f \in Wipe(u) :
             \/ SetFiles(u, f)
             \/ \E t \in Takes, m \in {f[2], TRUE} :
                  IsNewTake(w.init, t) /\ SetFiles(u, <<ResponderEnd(w, t), m>>)
  /\ Stop(u, dies, pending[u], NoSession, Consumed(u, w))
  /\ UNCHANGED <<pool, initVars, wires>>

\* The process dies in the middle of the wipe.
DecryptInitialWipes(u, w) ==
  /\ HasBundle(w)
  /\ memory[u] # NoSession
  /\ SetFiles(u, <<NoSession, metaFile[u]>>)
  /\ opkFile' = opkFile
  /\ Die(u)
  /\ UNCHANGED <<pool, initVars, wires>>

-------------------------------------------------------------------------------
(* decrypt_message, without a bundle *)

\* (Mutation: the ratchet is not written.)
DecryptNext_NotPersisted(u, w) ==
  /\ ~ HasBundle(w)
  /\ Accepts(Session(u), w)
  /\ Set(memory, u, Receive(Session(u), w))
  /\ UNCHANGED <<pool, initVars, pending, ratchetFile, metaFile, opkVars, wires>>

DecryptNext(u, w) ==
  /\ ~ HasBundle(w)
  /\ Accepts(Session(u), w)
  /\ Set(memory, u, Receive(Session(u), w))
  /\ Set(ratchetFile, u, Receive(Session(u), w))
  /\ UNCHANGED <<pool, initVars, pending, metaFile, opkVars, wires>>

\* The ratchet in memory has used up the key, whatever the file says.
DecryptNextStops(u, w, dies) ==
  /\ ~ HasBundle(w)
  /\ Accepts(Session(u), w)
  /\ \E s \in {ratchetFile[u], Receive(Session(u), w)} : Set(ratchetFile, u, s)
  /\ UNCHANGED <<metaFile, opkFile>>
  /\ Stop(u, dies, pending[u], Receive(Session(u), w), opkMemory[u])
  /\ UNCHANGED <<pool, initVars, wires>>

\* No session, or one that has no key for w: the session is loaded and left alone.
DecryptNextFails(u, w) ==
  /\ ~ HasBundle(w)
  /\ ~ Accepts(Session(u), w)
  /\ Set(memory, u, Session(u))
  /\ UNCHANGED <<pool, initVars, pending, ratchetFile, metaFile, opkVars, wires>>

Decrypt(u, w) == DecryptInitial(u, w) \/ DecryptNext(u, w)

DecryptFails(u, w) == DecryptInitialFails(u, w) \/ DecryptNextFails(u, w)

DecryptStops(u, w, dies) ==
  \/ DecryptInitialStops(u, w, dies) \/ DecryptNextStops(u, w, dies)
  \/ dies /\ DecryptInitialWipes(u, w)

-------------------------------------------------------------------------------
(* reset_session *)

ResetSession(u) ==
  /\ Set(pending, u, NoInit)
  /\ Set(memory, u, NoSession)
  /\ \E f \in Deletions(u) : SetFiles(u, f)
  /\ UNCHANGED <<pool, initVars, opkVars, wires>>

-------------------------------------------------------------------------------

\* Whoever calls the service may hand it any message of the peer, in any order and
\* any number of times.
Next ==
  \E u \in Users :
    \/ LoseBundle(u) \/ InitiateSession(u)
    \/ Encrypt(u) \/ \E dies \in BOOLEAN : EncryptStops(u, dies)
    \/ \E w \in wires :
         /\ Sender(w) = Peer(u)
         /\ \/ Decrypt(u, w) \/ DecryptFails(u, w)
            \/ \E dies \in BOOLEAN : DecryptStops(u, w, dies)
    \/ ResetSession(u)
    \/ Crash(u)

Spec == Init /\ [][Next]_vars

-------------------------------------------------------------------------------
(* Properties *)

\* Type invariant.
TypeOK ==
  /\ pool \in [Users -> SUBSET Opks]
  /\ initBy \in [Inits -> Users \cup {Nobody}]
  /\ initOpk \in [Inits -> Opks \cup {NoOpk}]
  /\ pending \in [Users -> Inits \cup {NoInit}]
  /\ memory \in [Users -> Sessions]
  /\ ratchetFile \in [Users -> Sessions]
  /\ metaFile \in [Users -> BOOLEAN]
  /\ opkMemory \in [Users -> SUBSET Opks]
  /\ opkFile \in [Users -> SUBSET Opks]
  /\ wires \subseteq WireSet

\* No message key encrypts two messages, whatever the service does between two
\* writes, and however often it is restarted (about.md: "Crash recovery cannot re-derive
\* a previously used key").
KeysAreUsedOnce ==
  \A v, w \in wires : v.init = w.init /\ v.take = w.take /\ v.n = w.n => v = w

\* A PQXDH run with a one-time prekey gives the responder one end, however often its first
\* message is delivered, and whatever is reset, fails or dies in between ("so that the same
\* secret key is never reused across session resets", crypto_service.py:181).
OneEndPerOpk ==
  \A i \in Inits : initOpk[i] # NoOpk => \A s, t \in EndsOf(i) \ {0} : s = t

\* If every write succeeds, a session in memory is on disk to the last message: the
\* crash of a service costs no session.
DiskHasSession ==
  "disk" \notin Faults =>
    \A u \in Users : memory[u] # NoSession => ratchetFile[u] = memory[u] /\ metaFile[u]

-------------------------------------------------------------------------------
(* The inductive invariant *)

\* A session is the end of a run that the run gives to u; no message of that end is ahead
\* of it; and if u responds, the prekey of the run is not in the keystore.
Mine(u, s) ==
  s # NoSession =>
    /\ s.init # NoInit
    /\ initBy[s.init] = (IF s.take = 0 THEN u ELSE Peer(u))
    /\ \A w \in wires : w.init = s.init /\ w.take = s.take => w.n <= s.sent
    /\ s.take # 0 => initOpk[s.init] \notin opkFile[u]

SessionsInv == \A u \in Users : Mine(u, memory[u]) /\ Mine(u, ratchetFile[u])

\* The same of a message: its run has started, and if a responder sent it, the prekey of the
\* run is not in that keystore.
WiresInv ==
  /\ IsFiniteSet(wires)
  /\ \A w \in wires :
       /\ initBy[w.init] # Nobody
       /\ w.take # 0 => initOpk[w.init] \notin opkFile[Peer(initBy[w.init])]

\* A run that waits has no session and no message yet.
PendingInv ==
  \A u \in Users : pending[u] # NoInit =>
    /\ initBy[pending[u]] = u
    /\ \A w \in wires : w.init # pending[u]
    /\ \A v \in Users : memory[v].init # pending[u] /\ ratchetFile[v].init # pending[u]

\* What is in memory of the prekeys is in the keystore too.
OpkInv == \A u \in Users : opkMemory[u] \subseteq opkFile[u]

IInv ==
  /\ TypeOK /\ SessionsInv /\ WiresInv /\ PendingInv /\ OpkInv
  /\ KeysAreUsedOnce /\ OneEndPerOpk
===============================================================================
