# A formal model of DESperate

DESperate is an end-to-end encrypted messenger: a Qt client with a local crypto service in
Python, a Node.js server on PostgreSQL, and a contract on an Ethereum chain that holds
Merkle roots over the ciphertexts. This directory has TLA+ modules for its core, TLC runs
over small instances, and TLAPS proofs for every size. Paths below are relative to the root
of the repository.

## 1. The system

| Component | State it keeps | Operations | Talks to |
|---|---|---|---|
| Crypto service (`client/cryptography/crypto_service.py`) | `_sessions`, `_pending_sessions`, `_local_bundle`, keystore files | `initiate_session`, `encrypt_message`, `decrypt_message`, `reset_session`, `has_session`, SRP and keystore calls | its client, over a local socket, one call at a time |
| Double Ratchet, PQXDH (`core/dh_ratchet`, `core/pqxdh.py`) | ratchet state of a conversation | create as initiator or responder, encrypt, decrypt, persist | the keystore (`core/state_store.py`) |
| RPC channel (`CryptoServiceClient.cpp`) | socket, `m_serviceStarted`, the last error | `rpc`, with a timeout; starts the service once | service |
| Client messaging (`MessageController.cpp`, `ApiClient.cpp`) | pending encryptions and decryptions, HTTP requests in flight | send, pull every 5 s, store, acknowledge, delete, revoke, forward | service, server, local store |
| Client conversations (`ConversationController.cpp`, `TrustStore.cpp`) | participants, key bundles being fetched, pinned fingerprints | open, set up a session, re-initiate | service, server |
| Client storage (`LocalMessageStore.cpp`) | envelopes and decrypted messages, on disk | store, tombstone, swap ids | - |
| Key server (`server/server.js`, `/keys`) | `one_time_prekeys` | hand out a bundle and claim a prekey | clients |
| Message queue (`server.js`, `/messages`) | `messages`, `message_queue`, `message_hidden` | post, pending, acknowledge, delete, revoke, history | clients, worker |
| Authentication (`handlers/auth`, `middleware`, `state/session_keys.js`) | nonces, SRP challenges, session keys in a cache and a table | register, log in, check a request, change a password, revoke a device | clients |
| Registration and login (`AuthController.cpp`, `ApiClient.cpp`) | stored device id, active device, token, user shown | sign up, log in, log out | service, server |
| TCP server (`client/cryptography/main.py`) | `_session_keys`, `_pending_initiation_bundles`, the keystore, a registration lock | the calls of an earlier crypto service, for several connections | apps |
| Anchoring worker (`server/blockchain`) | `merkle_leaves`, `merkle_roots`, a tick in progress | build, broadcast, confirm, reconcile | PostgreSQL, RPC node |
| Contract (`MessagesContract.sol`) | an event per root | `storeBatchHashes` | worker |
| Verification (`handlers/merkle`, `verification.js`, `merkle-verify.js`) | what the page shows | status of a message, search of a root on the chain, whether a leaf is under a root | clients, RPC node |

What is hard here, and what makes each part correct:

- *Sessions.* A handler of the service writes several files; it may be interrupted between
  any two, and messages come in any order and more than once. No message key may encrypt
  twice, and the secret of a one-time prekey must serve one session.
- *Delivery.* Posts, pulls and acknowledgements are separate requests, each may be lost or
  late, the service may be slow or dead, and the app may be restarted in between. The server
  must not forget a message its recipient has not stored.
- *Anchoring.* The worker changes two tables and a chain. A message must be reported as
  anchored only if it is, for good, and must not be forgotten on the way.
- *Logging in.* The handlers of a login react to the success of any attempt, the service has
  one attempt at a time, the server's handlers interleave at each await, and a session key is
  in a cache and in a table. Only a login that both sides have verified may open the keystore,
  and a revoked device must stay out.
- *Session setup.* The answers of the key server do not say whose conversation they are for.
  A pair of one-time prekeys must serve one session, with the peer whose key is pinned.
- *Taking back.* Deletion and revocation race with the message itself and with its
  decryption, and pulls overlap. What is taken back must not come back.
- *Calls over the socket.* The app waits for a call for a time only. What it has given up is
  still handled, its answer comes while a later call waits, and either process may die. An
  answer must never be taken for that of another call, and no call may take effect twice.
- *Verification.* Worker, server and page build leaves and trees each from a query of their
  own, and the chain is searched in chunks while blocks are mined. They must agree on the leaf,
  its place, and the odd node of a layer.
- *Registration in two connections* (`main.py`): handlers interleave at each await, and threads
  run beside them. Salt and identity on disk must belong together.

`PROJECT.json` lists all components, also those with no module, and, under `hazards`, what
is hard to test, at its line, with the properties that are about it.

## 2. Modules

### AnchorLedger, MerkleAnchor: from a posted message to the chain

`MerkleAnchor` has the rows of `merkle_leaves` and `merkle_roots`, the transactions with
what the node did with them, and the worker as a program counter (`pc`) with the rows it
read (`rows`), its transaction (`tx`) and its count (`limit`). An action is the code between
two awaits: `Start`, `Reconcile...` (`publisher.js:26-98`), `Build...`
(`build-worker.js:8-65`), `Broadcast...`, `Submit`, `PersistTxHash`, `WaitMined`, `Confirm`
and the catch block `Catch...` (`publisher.js:149-242`). `Resolve` is the node. `Crash` may
come between any two. Each await of PostgreSQL or of the node may fail, as `Faults` allows:
`db` (a transaction rolls back), `ack` (a COMMIT takes effect and its answer is lost), `rpc`,
`revert`, `drop`. One process runs, so the advisory lock excludes nobody.

`AnchorLedger` is what this is for: messages are posted, the chain covers some of them, and
only those are reported as stored, for good. `Ledger` in `MerkleAnchor` is the refinement
mapping: the status is what `handlers/merkle/verify.js` computes.

### CryptoService: the sessions of one conversation

Two users, one device each, and the crypto service of each. `pending`, `memory`,
`ratchetFile`, `metaFile`, `opkMemory` and `opkFile` are `_pending_sessions`, `_sessions`,
the two files of a session, and the secret prekeys in `_local_bundle` and in the keystore;
`pool` is the server's table. The ratchet is a library and is abstracted to the *ends* of a
PQXDH run: the initiator has one, and the responder gets a new one, with fresh ratchet keys,
each time it processes the first message. An end counts what it sent and keeps the set of
what it received. It can decrypt a message of the other end of its run, once, in any order.

Each handler is one action for success (`EncryptFirst`, `EncryptNext`, `DecryptInitial`,
`DecryptNext`, `ResetSession`, `InitiateSession`), one for failure without a fault
(`DecryptInitialFails`, `DecryptNextFails`) and one for stopping at a write (`...Stops`):
any prefix of its writes has taken effect, and then the process has died (`crash`) or the
write raised an error (`disk`) with the memory as the code has it at that line. `_atomic_write` makes
a file old or new, nothing else. `Next` lets the caller do anything: any message of the
peer, again and again.

### Delivery, Messenger: two clients and the server between them

`Messenger` extends `CryptoService` with the client: `up` (the service can be reached),
`fetching` (a key bundle is awaited), `backlog` (decryptions queued in the event loop),
`shown` and `lost` (messages stored decrypted, or as an envelope only), and with the mail:
`air` (posts on their way), `queue` (rows of `message_queue` with state `pending`), `acks`.
Requests arrive in any order; one that is lost never arrives. `Process` is one queued call of
`decrypt_message` with the handler of its result: answered (`handleDecryptCompleted`,
`handleDecryptFailed`, with re-initiation), not answered (the call timed out though it took
effect, stopped, or the service died) or impossible (the service is down). `AppRestarts`
empties what the client had in memory; a message may be in decryption at that moment.

`Delivery` is what the users are promised. Its state is what was sent, what the server
keeps for each user, and what each user has stored, decrypted or given up.

### Credentials, Keystore, ServerAuth, Account: registration and login

`Credentials` has the values: a key of the keystore is a password with a salt, a proof of SRP
is the A, B, password and salt it was computed from, so that equal means computed from equals.

`Keystore` is `crypto_service.py` as far as SRP, registration and unlocking go: `mem` is its
module-level state, `disk` the salt file and the identity file, and each call an operator on
`mem` (`SrpStarted`, `Challenged`, `SrpVerified`, `Unlocked`, `Generate`). The service handles
one call at a time. `ServerAuth` is the server; there an action is the code between two
awaits, so the rounds of a login (`InitRead` to `StoreInTable`, `auth_init.js`,
`auth_verify.js`, `session_keys.js`) and the steps of an authenticated request
(`CheckDevice`, `UseCache`, `ReadTable`, `FillCache`), of a change of password and of a
revocation (`MarkRevoked`, `DropFromCache`, `EraseFromTable`) interleave.

`Account` composes both with the app. `logins` are the handlers that `login()` has connected
and that wait: an attempt that succeeds runs all of them (`AfterHandlers`), one that fails
removes all. `m_loginInProgress` is set but read nowhere, so a second attempt may begin.
Any call may go unanswered although it acted; `ServiceDies`, `AppRestarts` and
`ServerRestarts` may come at any time, and a query may fail at each await (`Fault`).

### Prekeys, SessionSetup: how a session comes about

`Prekeys` has the operators of `core/keys.py` and `core/pqxdh.py` on numbered prekeys:
which pair an initiator takes (`Parses`, `Initiate`), what a responder must still have
(`CanRespond`), consumption (`Without`) and replenishment (`Batch`, `Highest`, `Replenished`).
The two lists of a bundle are sequences, and may differ.

`SessionSetup` is one app with a conversation per peer, the key server, and the peers. A
`fetch` is one `GET /keys/:username`: asked, served with a pair that is claimed (`Serve`),
heard or lost. `handlers` are the conversations whose handlers are connected to the signal
that carries no conversation; `BundleArrives` runs all of them with the one bundle, each with
`initiate_session` and `TrustStore::verifyIdentity`. `crossed` remembers that a bundle has
reached the handler of another conversation. Other users claim and use prekeys of the same
peers (`OthersClaim`, `OthersArrive`).

### Mailbox: taking a message back

One sender, one recipient, the server between them. `queue`, `deleted` and `hidden` are
`message_queue.state`, `messages.deleted_at` and the row of `message_hidden` with its
`notice_sent`. A pull is two queries with its own state (`ReadEnvelopes`, `TakeNotices`), the
second of which marks notices as sent; several may be under way. `Answer` runs the handlers of
the client, which hear whichever answer comes first; `Decrypt` is later. `missed` is history:
notices that no handler heard.

### LegacyService: the TCP server of main.py

Not what the client starts, but what the repository's README describes. A job per connection
tells what its handler waits for: a thread that reads the salt (`open`, `check`), makes a
bundle (`make`), writes the salt (`salt`), or runs PQXDH (`initiate`, `respond`), or the
registration lock (`wait`; `lock` is its queue). What a handler does between two awaits is one
action. A keystore is named by the number of its salt and its password. `Restart` kills the
service, in the midst of `shutil.rmtree` too.

### Calls, RpcChannel: the socket below every call

`RpcChannel` is `CryptoServiceClient::rpc` and the loop of the service: `inbox` are the
requests the service has not handled, `pipe` and `buf` the pieces of answers on their way and
in the buffer of the socket, two to a line. A call drains `buf` first (`Call`), or connects,
starting the service if it has to (`CallConnects`, `CallFails`). `ReadLine` takes the first
line: its answer, that of an earlier call, which is discarded by its id, or half a line, which
fails the call. `TimeOut`, `ServiceDies`, `LinkDrops` and `AppRestarts` may come at any time; a
service that writes to a connection that is closed may die of it (`Serve`).

`Calls` is what the other modules assume of a call: it returns its own answer or fails, takes
effect at most once, in the order of the calls, and may do so after it has failed.
`CallState` is the refinement mapping. In `Messenger` and `Account` a call is one action
with the outcomes of `Calls`.

### MerkleTree, Verification: is it on the chain?

`MerkleTree` is `merkle-core.js`: leaves, layers, root, proofs (an index halved from layer to
layer) and their verification. Hashes are constructors, so that equal means computed from equals. In `Verification` the
pipeline is reduced to batches that are built, mined and confirmed; `check` is the verifier:
the search of a root over chunks of blocks (`LookUp` to `SearchEnds`), and the question whether
a leaf is under a root, as the page asks it (`PageAsks`, with another leaf and no session) and
as a client with a session would (`ClientAsks`), with the two queries of the server between
which the pipeline goes on (`SelectRoot`, `RecomputeRoot`).

## 3. Runs

| Run | Properties | What it shows |
|---|---|---|
| `anchor` | `TypeOK`, `LeavesFollowRoots`, `SettledStays`, `LedgerSpec` | with all faults but `ack`: tables agree, settled rows stay, the ledger is implemented |
| `anchor_unheard` | `ConfirmedOnChain`, `IndexesAreDense`, `HashesMatch`, `AttemptsBounded`, `SubmissionsAreCounted` | the same with `ack`: what still holds |
| `anchor_live` | `EveryLeafSettles` | each posted leaf is confirmed or given up after its attempts |
| `crypto` | `TypeOK`, `KeysAreUsedOnce`, `OneEndPerOpk` | sessions under crashes, failing writes, resets and redelivery |
| `messenger` | `MTypeOK`, `DiskHasSession`, `DeliverySpec` | two clients under crashes, timeouts, lost requests and crossed initiations |
| `account` | `AccountTypeOK`, `VerifiedBeforeCached`, `SignedInAsVerified`, `RevokedStaysOut` | registration, overlapping logins, revocation and change of password, under crashes and failing queries |
| `setup` | `SetupTypeOK`, `PairsServeOnce`, `SessionsArePinned`, `ReplenishesToTarget` | two conversations of one app, other users of the same prekeys, lost and reordered answers |
| `mailbox` | `MailboxTypeOK`, `SentIsShown`, `StaysTakenBack`, `TakenBackAtLast` | deletion and revocation against posting, pulling, decrypting and overlapping pulls |
| `legacy` | `LegacyTypeOK`, `StoreOpens`, `PeerCanFollow`, `AllAnswered` | two connections that register, unlock and set up sessions |
| `rpc` | `RpcTypeOK`, `GarbledAfterFailure`, `CallsSpec` | calls that time out, late and partial answers, both processes dying: `Calls` is implemented |
| `verify` | `VerificationTypeOK`, `SearchIsExact`, `AnswerIsRight`, `ProofsVerify`, `RootFixesLeaves` | the search over chunks and the server's answer while the pipeline goes on; proofs of trees of one to seven leaves |
| `messenger_wiped` | `WipedByOtherRun` | a comment says what the code does not do |

`messenger_wiped`: the first message of a session, pulled twice before its acknowledgement
arrives, wipes the very session it made (with a one-time prekey: for good).

Bounds. The anchor runs have three leaves, two roots, two transactions and one crash: a
full and a partial batch, a root with a first and a last attempt, two transactions that
carry the same root, and a crash at every place of the code. `anchor_live` has four
transactions, for two roots with two attempts each, and leaves out `drop` and crashes.
`crypto` has two runs (crossed initiations, a re-initiation), two ends of a responder at a
time (a redelivered first message), three messages and one prekey per user, which suffices
as the server may claim to have none. `MaxSends` also counts what a session sent without a
message coming of it. `messenger` has no prekeys, as in the shipped client, which uploads
none; two runs, two messages, and a backlog of two, so that a message can be pulled twice;
failing writes are left to `crypto`. `OpenConversation` asks for a bundle only while
`MaxInits` leaves a run. Users are symmetric; so are transactions, in runs without liveness.

`account` has two users and passwords (they may coincide), two bundles, two logins, both of
which may be under way, one request at a time and one fault: enough for a login of another
user during a login, a registration after a lost one, a login or request that overlaps a
revocation, and a crash at any of these places. `setup` has two peers with two pairs of
prekeys each and three fetches: an answer may be late while two others are used, and a peer
may run out. `mailbox` has one message, since nothing in the code relates two, and two pulls,
the least that overlap; pulls are unlimited in number. `legacy` has two connections, one
conversation, two keystores and two keys, so that each may be replaced once, and any number of
restarts. `rpc` has four calls: one that times out, the next, whose answer is late in turn, one
more, and one after a restart of the app. `verify` has three messages, two batches, four blocks
in chunks of two (a full, a partial and an empty last chunk), and trees of up to seven leaves:
with three a node is promoted once, with five twice in a row, with seven next to a full subtree.

Deadlock is not checked in the safety runs: bounds on messages, runs, transactions and
crashes let the models stop where the program would go on. `anchor_live` and `legacy` check it.

Fairness, `anchor_live`: weak fairness of each phase of the worker, because
`setInterval` calls it for ever and what it awaits ends; strong fairness of `BuildCount` and
`BroadcastMark`, because leaves and roots age past the waiting times, so that a tick cannot
skip for ever; weak fairness of `Resolve`: a transaction in the pool leaves it. A transaction that is dropped
is excluded: `tx.wait()` has no timeout, and then nothing goes on until a restart. `mailbox`: weak
fairness of `Pull`, as the timer of `main.qml:148` fires for ever; strong fairness of
`ReadEnvelopes` and `TakeNotices`, as requests do not fail for ever; weak fairness of
`Answer`. Nothing is assumed of the sender's requests. `legacy`: weak fairness of each
connection's steps, as threads end and the loop goes on with each handler whose thread has
ended. The other specifications have no fairness: the client retries nothing, so nothing would
follow.

## 4. Proofs

All theorems are checked by TLAPS, for any sets of leaves, roots, transactions, prekeys and
any bounds, under the assumptions that the modules name (users differ, NULL values are not
ids, configured sizes are positive). Every safety invariant and action property of the passing
runs is the conclusion of a theorem, as are the three refinements. Nine inductive invariants
carry them.

- `MerkleAnchorProofs` (`IInv` of `MerkleAnchor`). The properties alone are not inductive:
  what `Confirm` writes is right because of what the worker knows at that line. `WorkerInv`
  says it for each place of the code (the rows it holds are `broadcasting`, their hash is the
  transaction it waits for, ...). From it: `TypeCorrectness`, `ConfirmedRootsAreOnChain`,
  `HashesAreFresh`, `AttemptsHaveABound`, `EverySubmissionCounts` (the worker counts an attempt
  before each transaction, so it is always one ahead of the chain when it submits), and, if no answer of a COMMIT is lost, `TablesAgree`
  and `SettledNeverChanges`. `PositionsHaveNoGaps`: the positions that `append_leaves` deals
  out grow by one and stay below the number of leaves, so they map the leaves one to one onto
  0 .. n-1. Last, each step of the pipeline is a step of `AnchorLedger` or a stutter
  (`AnchorImplementsLedger`), under the condition on COMMIT.
- `MessengerProofs`, first part (`IInv` of `CryptoService`). A message key is not reused because no
  stored copy of an end, in memory or on disk, is behind a message of this end (`Mine`), the
  run that waits has no end and no message yet (`PendingInv`), and memory never has a prekey
  that the keystore has not (`OpkInv`). A prekey serves once because a responder's end, or a
  message of one, implies that its secret is gone from the keystore (`Mine`, `WiresInv`).
  Most steps are of one kind, a user's own copies replaced by equal or advanced ones; this
  is lemma `QuietKeepsIInv`, and the other steps add a run, an end or a message.
  `SessionsSurvive` needs that writes do not fail.
- `MessengerProofs`, second part (`MInv` of `Messenger`). A step of the messenger is a step of
  `CryptoService` or leaves the services alone (`UsesServices`): the client hands its service
  messages of the peer only (`Routed`). Then `Kept` (what is acknowledged is stored, what is
  in the backlog is queued or stored) and `AirIsNew` (what is still on its way has not been
  on the server) are invariant, and with them each step is one of `Delivery`
  (`MessengerDelivers`). `Kept` is what makes an acknowledgement safe that arrives late.

- `MailboxProofs` (`MailboxInv` of `Mailbox`). What the server takes for sent has been heard,
  was missed, or is in an answer still on its way with the right kind of notice
  (`SentIsRight`); only answers carry notices (`NoticesInAnswers`), and where nothing is stored
  nothing is taken back (`NothingStored`). From it: the types, `SentIsShown` and
  `StaysTakenBack`.
- `LegacyProofs` (`LegacyInv` of `LegacyService`). Only the head of the lock's queue works
  (`LockInv`); so what a registration has found or written stays as it was while its threads
  run (`DiskInv`), and salt and identity belong together (`KeystoreOpens`). A key in use has its
  bundle waiting, or sent (`BundleInv`), hence `PeersCanFollow`.
- `RpcProofs` (`RpcInv` of `RpcChannel`). No result but its own, no answer to what was not
  handled (`AnswersOfActed`), requests in the order of the calls and behind those handled
  (`InOrder`): with these each step of the socket is one of `Calls`
  (`ChannelImplementsCalls`).
  `GarbledOnlyAfterFailure` rests on `StreamInv`: halves of answers alternate on the stream;
  if the last call was answered, nothing is on its way; and the stream begins with the rest of
  an answer only behind a call that failed.
- `AccountProofs` (`AccountInv` of `Account`). `FlowInv` says what is known of an attempt by
  where its handlers are: a device that was found is the user's, an accepted proof was made
  for this attempt's A, an attempt that came after a revocation gets no further than its proof;
  `RequestInv` the same of requests. `ProofInv` ties the staged key to the service's latest
  proof. That does not suffice when logins overlap: `AttemptInv` says that the service's latest
  attempt is that of the active device and of the handler connected last, all with one
  password. Its conclusions are `OnlyVerifiedKeys`, `SignedInIsVerified` and `RevokedStayOut`.
- `SessionSetupProofs` (`SetupInv` of `SessionSetup`). As long as no bundle has reached another
  conversation's handler, the pairs the server has left, those others got, those of answers
  under way and those of runs are disjoint, and all are the peer's (`PairInv`); both lists of
  a bundle are the same, without repetition (`BundleInv`), so popping both heads gives a pair.
  From it: `EachPairOnce`; `PinnedSessions` from `PinInv`; `Replenishes` is about
  `replenish_one_time_prekeys`, for every set of prekeys left.
- `VerificationProofs` (`VerificationInv` of `Verification`). The leaves in batches are those
  of the first messages (`PrefixInv`), so a leaf is in one batch; what the search has passed
  does not hold the root (`Searched`); what the server has selected still holds when it answers
  (`Asked`). From it `SearchFindsExactly` and `AnswersAreRight`.
  The rest is about `MerkleTree`, for trees of any size. That the layers, and the indices of a
  proof, exist as the recursive functions `MerkleTree` defines is proved from `WFMin` on the
  naturals (a least place where no such function exists), and whatever holds of all layers by
  a least counterexample; no induction theorem with an operator parameter is needed.
  `RootIsInjective`: equal roots have equal sequences of leaves, whatever their lengths (a node
  determines its two children, and the depth of the first leaf below a node the number of its
  layer). `ProofFitsItsLeaf`: `verifyProof` accepts the proof of place i for the leaf at i and
  for no other (going up, a hash is that of the node at half the index, or the leaf differed).
  Hence `ProofsFitLeaves` and `RootsFixLeaves`, and `BatchesHaveTheirOwnRoots`: the constraint
  UNIQUE on `merkle_root` (`schema.sql:453-455`) never refuses a batch.

Only model-checked: the liveness properties `EveryLeafSettles`, `TakenBackAtLast` and
`AllAnswered` (fairness and ENABLED are out of the prover's reach), and the violation. The
theorems take hashes for constructors: that keccak has no collisions is an abstraction of
`MerkleTree`, not a result.

## 5. Docs that the code does not follow

Beside the finding that a run shows:

- `publisher.js:62` and `Contract Dev Notes.md:72-74,95-99` mean to submit no root twice, and
  the contract has no guard of its own (`MessagesContract.sol:138-153`). After a crash between
  submission and `UPDATE tx_hash`, or an error of `tx.wait()` (`publisher.js:90-91,234-238`), a
  root is submitted again; what holds is `SubmissionsAreCounted`.
- Two conversations are opened before a key bundle has arrived: the first bundle fires the
  handlers of both (`ConversationController.cpp:246-261`). One of them has its session with the
  peer of the other, and pins that peer's key as its own peer's; `SessionsArePinned` and
  `PairsServeOnce` say what holds all the same.
- `verification.js:264` hashes the ciphertext alone and sends no session (266-270), while
  leaves have a context (`merkle-core.js:30`, `server.js:373-377`) and the endpoint requires a
  session (`server.js:792`): step 2 of the page never verifies a message, against its text
  (`verification.js:313-314`). `merkle-core.js:4` says "Leaf = keccak256(ciphertext)", and
  `server.js:369-371` that the leaf reduces to that without a context; 16 bytes of lengths remain.
- `CryptoServiceClient.cpp:312-313` drains what a timed-out call has left, so that it is not
  mistaken for a response. Of an answer that has half arrived the rest comes afterwards, and the
  call fails with "Invalid RPC response"; `GarbledAfterFailure` is what holds.

- `schema.sql:443-446` has no transition from confirmed to built. If the COMMIT that confirms
  a root is not heard, the catch block (`publisher.js:224`) makes it, though the leaves stay
  confirmed; the root is broadcast again.
- `schema.sql:476` fails a root at `merkle_max_broadcast_attempts`; `reconcile()`
  (`publisher.js:62,85-88`) does not compare, so each crash during the last attempt adds one
  (`AttemptsBounded` has the bound that holds).
- `schema.sql:981` describes a broadcast at `merkle_max_roots_per_tx` built roots; the code
  compares with `merkle_broadcast_min_roots` (`publisher.js:167`).
- `schema.sql:445` has a transition confirmed → broadcasting on a deep reorg; no code does it.
- `MessageController.cpp:468` acknowledges "undecryptable messages". It also does so when the
  service has died or is late, for messages it could have decrypted.
- `require_auth.js:19` and `auth_verify.js:72` say that a session lasts 2 h;
  `session_keys.js:12` gives it 24 h.
- `session_keys.js:5-7` says that a restart of the server forces nobody to log in again. Two
  logins of one device may store in one order in the cache and in the other in the table; the
  one in use before the restart is then refused after it. The key of a revoked device may
  also be back in both (a login under way, or `getSessionKey` filling the cache); it is of no
  use, because the device is looked up first (`RevokedStaysOut`).
- `AuthController.cpp:74` means to prevent that handlers accumulate. A double click still
  connects two, and both run at the first success: the user shown may be that of the other
  attempt, and opens the keystore if both have the same password.
- `crypto_service.py:322-324` means to prevent the keystore from being opened before the server
  is verified. With three logins under way at a time, the handler of the second opens it
  with a password that no server has confirmed (`unlock_keystore` falls back to the password
  of its call, 216-222, once the cached key is used up). The handler of the third then fails and
  closes the store, but the user stays signed in and the identity loaded. `SignedInAsVerified`,
  proved of any number of attempts, therefore speaks of an open keystore only; without that
  condition TLC finds such a trace when `MaxFlows` and `MaxWaiting` are 3, and none when they are 2.
- `server.js:757` stores the bytes of the new verifier in a column of text whose hex digits
  `authVerify` reads: after `PATCH /auth/password` no login succeeds. The keystore stays
  encrypted with the old password as well.
- `VerifyDialog.qml` offers to accept a new key; the pin of `TrustStore` is not changed, and
  `verified` stays false. Opening the conversation again makes `sessionReady` true, against
  what the mismatch is said to block.
- `keys.py:662` numbers new prekeys on from the highest that is left. That may be a number
  already used up, which `POST /keys/opks` counts as uploaded and drops; neither
  `replenish_one_time_prekeys` nor that endpoint has a caller.
- `main.py:269` says "Don't overwrite an existing live session": the check is before the await
  and the assignment after it. With two connections a session is overwritten, and a message may
  carry the bundle of another key than its own; what holds is `PeerCanFollow`. `respond` fails
  for every bundle that names a one-time prekey, because the handlers pass no secrets.
- `README.md:250` names `client/cryptography/main.py` as the crypto service; what is built
  and started is `crypto_service.py`.
- `server.js:272,294` promise the existing conversation if there is one; the check and the
  insert are two statements (`server.js:295-315`).

- `server.js:519,537-561` pages through the history with `before`, in ascending order: it returns the
  50 oldest messages before the cursor, not the 50 that come before it, so what lies between
  is on no page.
- `main.py:249` reads the global SRP session again after the await: with two connections it
  may be that of another login.

What no doc promises, but a reader should know: two requests for the Merkle root of a message
at a time (`MessageController.cpp:141-164`) share one handler, and the second is never answered. a registration whose answer is lost, or that
the server refuses, leaves a keystore that blocks the next one until its directory is deleted;
so does a crash between the salt and the identity, and then unlocking fails too. `main.py`
removes the old keystore before the new one is made. A message deleted before the server has
given it an id is shown as deleted to its sender alone, for good. A notice whose answer goes
unheard is not sent again.

## 6. Not modelled

Within the modelled parts: several devices per user (nothing but registration makes one), rows
that expire after seven days, a page of more than 100 pending messages, history, forwarding,
creation and deletion of conversations, gaps of more than `MAX_SKIP` messages, and a message
that is rejected for its signature (the models assume that what is not the peer's is
rejected); sessions and challenges that expire by time, rate limits, single use of a nonce;
the SRP handlers of `main.py`, which differ from those in `Keystore` by an await in
`srp_verify`, after which it reads the global session again (`main.py:246-249`); malformed
requests on the RPC socket, answers of builds without ids, and `_check_peer_uid`, which has no
caller; `loadMerkleConfig` is modelled to the point that the worker never
starts.
Outside them: QML views and list models, TLS, migrations, key derivation, signatures and
password hashing, SRP arithmetic, the header counter (`core/header_counter.py`, which no call
of the service uses), the layout of the verification page and ownership of the contract; these are I/O,
computations, or not in use.

## 7. Plan

1. Proofs: what the lemmas of `VerificationProofs` allow beyond the runs (a proof is as long
   as the tree is deep), and what `TablesAgree` and `AnchorImplementsLedger` leave of `AnchorLedger`
   when the answer of a COMMIT is lost.
2. Creation of a conversation by both users at once, several devices of a user, and the pages
   of the history.
