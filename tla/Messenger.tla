------------------------------ MODULE Messenger ------------------------------
(***************************************************************************)
(* Two clients that talk through the server, each with its crypto service. *)
(*                                                                         *)
(* The client (MessageController.cpp, ConversationController.cpp,          *)
(* ApiClient.cpp) posts what the service encrypts, once and without a      *)
(* retry; the server queues it for the peer's device (message_queue) until *)
(* the device acknowledges it; a timer pulls whatever is pending, so a     *)
(* message may be pulled again before its acknowledgement arrives, or      *)
(* because that is lost.  Each pulled message waits in the event loop for  *)
(* its decryption, is stored, and is acknowledged whether it could be      *)
(* decrypted or not.                                                       *)
(*                                                                         *)
(* A call of the service may time out though the service acts, and a       *)
(* service that died is not started again before the app is                *)
(* (CryptoServiceClient.cpp:357-367).  Posts and acknowledgements arrive   *)
(* in any order, and one that is lost is one that never arrives: no        *)
(* property says that one does.  Rows of the queue that expire after seven *)
(* days are left out.                                                      *)
(***************************************************************************)
EXTENDS CryptoService, Sequences, SequencesExt

CONSTANTS
  MaxBacklog,   \* bound: messages that wait for decryption, per client
  RpcTimesOut   \* whether a call of the service may time out

ASSUME MessengerAssumption == MaxBacklog \in Nat /\ RpcTimesOut \in BOOLEAN

VARIABLES
  up,         \* whether the client can reach its service
  fetching,   \* whether the client waits for the peer's key bundle
  air,        \* messages on their way to the server
  queue,      \* rows of message_queue with status 'pending', by msg_sequence
  backlog,    \* messages that wait for decryption (m_pendingDecryptions)
  acks,       \* messages whose acknowledgement is on its way
  shown,      \* messages the client has stored decrypted
  lost        \* messages of which it has stored the envelope only

mailVars   == <<air, queue, acks>>
clientVars == <<up, fetching, backlog, shown, lost>>
allVars    == <<vars, mailVars, clientVars>>

MInit ==
  /\ Init
  /\ up = [u \in Users |-> TRUE] /\ fetching = [u \in Users |-> FALSE]
  /\ air = {}
  /\ queue = [u \in Users |-> <<>>] /\ backlog = [u \in Users |-> <<>>]
  /\ acks = [u \in Users |-> {}]
  /\ shown = [u \in Users |-> {}] /\ lost = [u \in Users |-> {}]

-------------------------------------------------------------------------------
(* Setting up a session *)

\* hasSession() is false as well when the service does not answer.
FindsNoSession(u) ==
  \/ RpcTimesOut \/ ~ up[u]
  \/ pending[u] = NoInit /\ Session(u) = NoSession

\* openConversation() asks for a bundle if it finds no session and none is on its way
\* (bound: as long as MaxInits allows another run).
OpenConversation(u) ==
  /\ \E i \in Inits : initBy[i] = Nobody
  /\ FindsNoSession(u)
  /\ ~ fetching[u]
  /\ Set(fetching, u, TRUE)
  /\ UNCHANGED <<vars, mailVars, up, backlog, shown, lost>>

\* The bundle arrives and the session is initiated, whatever happened since it was asked
\* for; or the request fails, or the service cannot be reached.
BundleArrives(u) ==
  /\ fetching[u]
  /\ Set(fetching, u, FALSE)
  /\ \/ up[u] /\ InitiateSession(u)
     \/ LoseBundle(u) \/ UNCHANGED vars
  /\ UNCHANGED <<mailVars, up, backlog, shown, lost>>

-------------------------------------------------------------------------------
(* Sending *)

\* handleEncryptCompleted() posts the message at once.  If the call timed out, or the
\* service died, the message is given up, whatever the service did.
Send(u) ==
  /\ up[u]
  /\ \/ Encrypt(u) /\ up' = up /\ air' \in {air \cup (wires' \ wires)}
                                           \cup (IF RpcTimesOut THEN {air} ELSE {})
     \/ \E dies \in BOOLEAN : /\ EncryptStops(u, dies)
                              /\ up' = [up EXCEPT ![u] = ~ dies]
                              /\ air' = air
  /\ UNCHANGED <<queue, acks, fetching, backlog, shown, lost>>

\* POST /messages: the row of the peer's device.  Requests overtake one another.
PostArrives(w) ==
  /\ w \in air
  /\ air' = air \ {w}
  /\ queue' = [queue EXCEPT ![Peer(Sender(w))] = Append(@, w)]
  /\ UNCHANGED <<vars, acks, clientVars>>

-------------------------------------------------------------------------------
(* Receiving *)

\* (Mutation: what is pulled is acknowledged at once.)
Pull_Acknowledges(u) ==
  /\ queue[u] # <<>>
  /\ Len(backlog[u]) + Len(queue[u]) <= MaxBacklog
  /\ Set(backlog, u, backlog[u] \o queue[u])
  /\ Set(acks, u, acks[u] \cup ToSet(queue[u]))
  /\ UNCHANGED <<vars, air, queue, up, fetching, shown, lost>>

\* GET /messages/pending: every pending message gets a place in the event loop, those
\* too that have one already.
Pull(u) ==
  /\ queue[u] # <<>>
  /\ Len(backlog[u]) + Len(queue[u]) <= MaxBacklog
  /\ Set(backlog, u, backlog[u] \o queue[u])
  /\ UNCHANGED <<vars, mailVars, up, fetching, shown, lost>>

\* handleDecryptCompleted(): stored if it was not, then acknowledged.
Store(u, w) ==
  /\ Set(shown, u, shown[u] \cup {w})
  /\ Set(lost, u, lost[u] \ {w})
  /\ Set(acks, u, acks[u] \cup {w})
  /\ UNCHANGED <<up, fetching>>

\* handleDecryptFailed(): the envelope is stored if it was not, and acknowledged.
GiveUp(u, w) ==
  /\ Set(lost, u, lost[u] \cup ({w} \ shown[u]))
  /\ Set(acks, u, acks[u] \cup {w})
  /\ UNCHANGED shown

\* The error says "no initiation_bundle".
NoSessionFor(u, w) == ~ HasBundle(w) /\ Session(u) = NoSession

\* reinitiateSession() resets the session, if the service is still there to do so, and asks
\* for a bundle.
Reinitiate(u) ==
  /\ \/ ResetSession(u) /\ up' = up
     \/ Crash(u) /\ up' = [up EXCEPT ![u] = FALSE]
  /\ Set(fetching, u, TRUE)

\* The outcomes of decrypt_message for the next message, and what the client does.
Answered(u, w) ==
  \/ Decrypt(u, w) /\ Store(u, w)
  \/ /\ DecryptFails(u, w)
     /\ NoSessionFor(u, w) => pending[u] # NoInit
     /\ GiveUp(u, w)
     /\ UNCHANGED <<up, fetching>>
  \/ NoSessionFor(u, w) /\ FindsNoSession(u) /\ GiveUp(u, w) /\ Reinitiate(u)

\* The answer does not come in time, or not at all.
Unanswered(u, w) ==
  /\ \/ RpcTimesOut /\ (Decrypt(u, w) \/ DecryptFails(u, w)) /\ up' = up
     \/ \E dies \in BOOLEAN : DecryptStops(u, w, dies) /\ up' = [up EXCEPT ![u] = ~ dies]
     \/ Crash(u) /\ up' = [up EXCEPT ![u] = FALSE]
  /\ GiveUp(u, w)
  /\ fetching' = fetching

\* The service is down, and the call fails at once.
Unreachable(u, w) ==
  /\ ~ up[u]
  /\ GiveUp(u, w)
  /\ UNCHANGED <<vars, up, fetching>>

Process(u) ==
  /\ backlog[u] # <<>>
  /\ Set(backlog, u, Tail(backlog[u]))
  /\ \E w \in {Head(backlog[u])} :
       (up[u] /\ (Answered(u, w) \/ Unanswered(u, w))) \/ Unreachable(u, w)
  /\ UNCHANGED <<air, queue>>

\* POST /messages/:id/ack: the row is not pending any more.
AckArrives(u, w) ==
  /\ w \in acks[u]
  /\ Set(acks, u, acks[u] \ {w})
  /\ \/ \E i \in DOMAIN queue[u] : queue[u][i] = w /\ Set(queue, u, RemoveAt(queue[u], i))
     \/ w \notin ToSet(queue[u]) /\ queue' = queue
  /\ UNCHANGED <<vars, air, clientVars>>

-------------------------------------------------------------------------------
(* Crashes *)

ServiceDies(u) ==
  /\ up[u]
  /\ Crash(u)
  /\ Set(up, u, FALSE)
  /\ UNCHANGED <<mailVars, fetching, backlog, shown, lost>>

\* The app is restarted, and with it a service that is down.  It may have died while a
\* message was decrypted, before it was stored.
AppRestarts(u) ==
  /\ "crash" \in Faults
  /\ \/ UNCHANGED vars
     \/ up[u] /\ backlog[u] # <<>> /\ \E w \in {Head(backlog[u])} :
          Decrypt(u, w) \/ DecryptFails(u, w)
  /\ Set(up, u, TRUE)
  /\ Set(fetching, u, FALSE)
  /\ Set(backlog, u, <<>>)
  /\ UNCHANGED <<mailVars, shown, lost>>

-------------------------------------------------------------------------------

MNext ==
  \/ \E u \in Users :
       \/ OpenConversation(u) \/ BundleArrives(u)
       \/ Send(u) \/ Pull(u) \/ Process(u)
       \/ \E w \in acks[u] : AckArrives(u, w)
       \/ ServiceDies(u) \/ AppRestarts(u)
  \/ \E w \in air : PostArrives(w)

MSpec == MInit /\ [][MNext]_allVars

-------------------------------------------------------------------------------
(* Properties *)

\* Type invariant.
MTypeOK ==
  /\ TypeOK
  /\ up \in [Users -> BOOLEAN] /\ fetching \in [Users -> BOOLEAN]
  /\ air \subseteq wires
  /\ queue \in [Users -> Seq(wires)] /\ backlog \in [Users -> Seq(wires)]
  /\ acks \in [Users -> SUBSET wires]
  /\ shown \in [Users -> SUBSET wires] /\ lost \in [Users -> SUBSET wires]

\* The messenger implements Delivery: a message leaves the server's queue only when its
\* recipient has stored it, whatever answers are lost and wherever the app dies.
D == INSTANCE Delivery WITH sent <- wires, queued <- [u \in Users |-> ToSet(queue[u])]
DeliverySpec == D!Spec

\* A session in memory is replaced for the bundle of another run only: "An incoming
\* initiation_bundle signals a session reset by the peer" (crypto_service.py:482).
WipedByOtherRun ==
  [][\A u \in Users :
       LET w == Head(backlog[u])
       IN  /\ backlog[u] # <<>> /\ backlog'[u] = Tail(backlog[u])
           /\ HasBundle(w) /\ up'[u]
           /\ memory[u] # NoSession /\ memory'[u] # memory[u]
           => w.init # memory[u].init]_allVars

-------------------------------------------------------------------------------
(* The inductive invariant *)

\* What u may get is from its peer.
Routed ==
  \A u \in Users : \A w \in ToSet(queue[u]) \cup ToSet(backlog[u]) : Sender(w) = Peer(u)

\* What u acknowledges is stored, what waits for decryption is on the server or stored, and
\* a message is stored either decrypted or as an envelope.
Kept ==
  \A u \in Users :
    /\ acks[u] \subseteq shown[u] \cup lost[u]
    /\ ToSet(backlog[u]) \subseteq ToSet(queue[u]) \cup shown[u] \cup lost[u]
    /\ shown[u] \cap lost[u] = {}

\* What is on its way to the server has not been there.
AirIsNew == \A u \in Users : air \cap (ToSet(queue[u]) \cup shown[u] \cup lost[u]) = {}

MInv == IInv /\ MTypeOK /\ Routed /\ Kept /\ AirIsNew
===============================================================================
