----------------------------- MODULE SessionSetup -----------------------------
(***************************************************************************)
(* How a session is set up: the conversations one app opens                *)
(* (ConversationController.cpp), the key bundles it fetches, the server    *)
(* that claims a pair of one-time prekeys for each answer, the identities  *)
(* the app pins (TrustStore.cpp), and the devices of its peers, which      *)
(* respond to what the app and other users initiate.                       *)
(*                                                                         *)
(* A conversation is named by its peer.  The signal of a bundle that has   *)
(* arrived does not say whose it is, so it fires every handler there is.   *)
(* A fetch that is lost is one that never gets an answer.                  *)
(***************************************************************************)
EXTENDS Prekeys, FiniteSets

CONSTANTS
  Peers, Nobody,
  MaxFetches   \* bound: key bundles the app asks for

ASSUME SessionSetupAssumption == Nobody \notin Peers /\ MaxFetches \in Nat

Fetches == 1 .. MaxFetches
Opks    == 1 .. OpkCount

VARIABLES
  \* the server: pairs with used = FALSE
  unused,
  \* the peers
  bundle,     \* the lists of their _local_bundle and keystore
  accepted,   \* runs of this app's they have a session of
  others,     \* pairs claimed for other users, whose first message has not arrived
  \* the app
  fetch,      \* its requests for key bundles
  handlers,   \* conversations with handlers of setupSessionAsync() connected
  current,    \* m_currentConversationId
  ready,      \* m_sessionReady
  mismatch,   \* m_identityMismatch
  pin,        \* whose fingerprint the trust store has pinned
  verified,   \* whether it says the user is verified
  \* its crypto service
  pending,    \* _pending_sessions
  session,    \* the sessions in the keystore
  \* between them
  mail,       \* first messages on their way: the conversation and its run
  crossed     \* history: a handler was given the bundle of another conversation's peer

peerVars  == <<bundle, accepted, others>>
appVars   == <<handlers, current, ready, mismatch, pin, verified>>
sessions  == <<pending, session, mail>>
setupVars == <<unused, peerVars, fetch, appVars, sessions, crossed>>

\* A run of PQXDH: its ephemeral key is named by the fetch and the conversation.
Runs  == [ephemeral : Fetches \X Peers, with : Peers, pair : Opks \cup {NoPair}]
NoRun == [ephemeral |-> <<0, Nobody>>, with |-> Nobody, pair |-> NoPair]

\* "left": the app waits no longer, but the server may still act.
NoFetch == [pc |-> "none", who |-> Nobody, pair |-> NoPair]

\* A peer's pairs have been uploaded (POST /keys/opks, which this client never calls), or not.
SetupInit ==
  /\ unused \in [Peers -> {Opks, {}}]
  /\ bundle = [p \in Peers |-> Pairs(OpkCount, 1)]
  /\ accepted = [p \in Peers |-> {}] /\ others = [p \in Peers |-> {}]
  /\ fetch = [f \in Fetches |-> NoFetch]
  /\ handlers = {} /\ current = Nobody
  /\ ready = TRUE /\ mismatch = FALSE
  /\ pin = [p \in Peers |-> Nobody] /\ verified = [p \in Peers |-> FALSE]
  /\ pending = [p \in Peers |-> NoRun] /\ session = [p \in Peers |-> NoRun]
  /\ mail = {} /\ crossed = FALSE

-------------------------------------------------------------------------------
(* GET /keys/:username *)

\* (Mutation: the pair is not marked as used.)
Claim_Unmarked(p, n) ==
  /\ IF unused[p] = {} THEN n = NoPair ELSE n \in unused[p]
  /\ unused' = unused

\* One statement takes an unused pair, if there is one, and marks both keys as used.
Claim(p, n) ==
  /\ IF unused[p] = {} THEN n = NoPair ELSE n \in unused[p]
  /\ unused' = [unused EXCEPT ![p] = @ \ {n}]

\* The server answers, or fails after it has claimed.
Serve(f) ==
  /\ fetch[f].pc \in {"asked", "left"}
  /\ \E n \in Opks \cup {NoPair} :
       /\ Claim(fetch[f].who, n)
       /\ fetch' = [fetch EXCEPT ![f] =
            IF @.pc = "asked" THEN [@ EXCEPT !.pc = "answered", !.pair = n]
            ELSE [NoFetch EXCEPT !.pc = "over"]]
  /\ UNCHANGED <<peerVars, appVars, sessions, crossed>>

\* A pair is claimed for another user.
OthersClaim(p) ==
  /\ \E n \in Opks : Claim(p, n) /\ others' = [others EXCEPT ![p] = @ \cup {n}]
  /\ UNCHANGED <<bundle, accepted, fetch, appVars, sessions, crossed>>

-------------------------------------------------------------------------------
(* Opening a conversation *)

\* setupSessionAsync(): handlers are connected and a bundle is asked for.
Setup(p) ==
  \E f \in Fetches :
    /\ \A g \in Fetches : fetch[g].pc = "none" <=> g >= f
    /\ fetch' = [fetch EXCEPT ![f] = [NoFetch EXCEPT !.pc = "asked", !.who = p]]
    /\ handlers' = handlers \cup {p}

Run(p)  == IF pending[p] # NoRun THEN pending[p] ELSE session[p]
Open(p) == current' = p

\* openConversation(): nothing is done while a bundle for the conversation is on its way,
\* and sessionReady stays what it was;
OpenWaiting(p) ==
  /\ Open(p) /\ p \in handlers
  /\ UNCHANGED <<unused, peerVars, fetch, handlers, ready, mismatch, pin, verified>>
  /\ UNCHANGED <<sessions, crossed>>

\* a session is taken as it is;
OpenWithSession(p) ==
  /\ Open(p) /\ p \notin handlers /\ Run(p) # NoRun
  /\ ready' = TRUE
  /\ UNCHANGED <<unused, peerVars, fetch, handlers, mismatch, pin, verified>>
  /\ UNCHANGED <<sessions, crossed>>

\* without one, or if hasSession() is not answered, one is set up.
OpenWithout(p) ==
  /\ Open(p) /\ p \notin handlers
  /\ ready' = FALSE
  /\ Setup(p)
  /\ UNCHANGED <<unused, peerVars, mismatch, pin, verified, sessions, crossed>>

\* reinitiateSession(): a message came for which there is no session, or the user accepts
\* the key the dialog shows.  (What that does to the list's fingerprint is left out, except
\* that it may clear the mismatch.)  Nothing here asks what is on its way.
Reinitiate(p) ==
  /\ \/ Run(p) = NoRun /\ mismatch' = mismatch
     \/ p = current /\ mismatch /\ mismatch' \in BOOLEAN
  /\ pending' = [pending EXCEPT ![p] = NoRun] /\ session' = [session EXCEPT ![p] = NoRun]
  /\ Setup(p)
  /\ UNCHANGED <<unused, peerVars, current, ready, pin, verified, mail, crossed>>

-------------------------------------------------------------------------------
(* The answer *)

\* The bundle of fetch f.
Offer(f) ==
  LET pairs == IF fetch[f].pair = NoPair THEN <<>> ELSE <<fetch[f].pair>>
  IN  [of |-> fetch[f].who, x25519 |-> pairs, kem |-> pairs]

\* (Mutation: the handlers set up the conversation that is open now.)
SetUp_Current == IF handlers = {} THEN {} ELSE {current}

\* The conversations for which initiate_session is called.
SetUp == handlers

\* verifyIdentity(): the first fingerprint is pinned, another one is not trusted.
Trusted(p, q) == pin[p] \in {Nobody, q}

\* fetchKeyBundleSucceeded: every handler runs, with the same bundle; each calls
\* initiate_session, then looks at the identity.  ok: whether the service has answered.
\* (A conversation that has two handlers is set up twice, to the same end.)
BundleArrives(f) ==
  LET q == fetch[f].who IN
  /\ fetch[f].pc = "answered"
  /\ fetch' = [fetch EXCEPT ![f] = [NoFetch EXCEPT !.pc = "over"]]
  /\ \E ok \in BOOLEAN :
       /\ pending' = [p \in Peers |-> IF p \in SetUp /\ ok /\ Parses(Offer(f))
                                     THEN Initiate(<<f, p>>, Offer(f)) ELSE pending[p]]
       /\ ready' = IF current \in handlers THEN ok /\ Trusted(current, q) ELSE ready
  /\ mismatch' = IF current \in handlers THEN ~ Trusted(current, q) ELSE mismatch
  /\ pin' = [p \in Peers |-> IF p \in handlers /\ pin[p] = Nobody THEN q ELSE pin[p]]
  /\ verified' = [p \in Peers |-> IF p \in handlers
                                  THEN pin[p] = Nobody \/ (verified[p] /\ pin[p] = q)
                                  ELSE verified[p]]
  /\ handlers' = {}
  /\ crossed' = (crossed \/ \E p \in handlers : p # q)
  /\ UNCHANGED <<unused, peerVars, current, session, mail>>

\* fetchKeyBundleFailed, or no answer in time: every handler gives up.
BundleFails(f) ==
  /\ fetch[f].pc \in {"asked", "answered"}
  /\ fetch' = [fetch EXCEPT ![f] =
       IF @.pc = "asked" THEN [@ EXCEPT !.pc = "left"] ELSE [NoFetch EXCEPT !.pc = "over"]]
  /\ handlers' = {}
  /\ ready' = (ready /\ current \notin handlers)
  /\ UNCHANGED <<unused, peerVars, current, mismatch, pin, verified, sessions, crossed>>

-------------------------------------------------------------------------------
(* First messages *)

\* The user sends; the service makes the session of the run that waits.
SendFirst(p) ==
  /\ p = current /\ ready /\ pending[p] # NoRun
  /\ session' = [session EXCEPT ![p] = pending[p]]
  /\ pending' = [pending EXCEPT ![p] = NoRun]
  /\ mail' = mail \cup {[to |-> p, run |-> pending[p]]}
  /\ UNCHANGED <<unused, peerVars, fetch, appVars, crossed>>

\* It arrives.  respond() succeeds if the secrets are there; the pair is consumed before the
\* message is decrypted, which takes the secret the app has computed.
FirstArrives(m) ==
  /\ mail' = mail \ {m}
  /\ IF CanRespond(bundle[m.to], m.run)
     THEN /\ bundle' = [bundle EXCEPT ![m.to] = Without(@, m.run.pair)]
          /\ accepted' = [accepted EXCEPT ![m.to] =
               IF Respond(m.to, m.run) = m.run THEN @ \cup {m.run} ELSE @]
     ELSE UNCHANGED <<bundle, accepted>>
  /\ UNCHANGED <<unused, others, fetch, appVars, pending, session, crossed>>

\* The first message of another user, for the pair n.
OthersArrive(p, n) ==
  /\ others' = [others EXCEPT ![p] = @ \ {n}]
  /\ bundle' = [bundle EXCEPT ![p] = Without(@, n)]
  /\ UNCHANGED <<unused, accepted, fetch, appVars, sessions, crossed>>

\* The app is restarted, with its service.
Restart ==
  /\ current # Nobody
  /\ fetch' = [f \in Fetches |-> CASE fetch[f].pc = "asked" -> [fetch[f] EXCEPT !.pc = "left"]
                                   [] fetch[f].pc = "answered" -> [NoFetch EXCEPT !.pc = "over"]
                                   [] OTHER -> fetch[f]]
  /\ handlers' = {} /\ current' = Nobody /\ ready' = TRUE /\ mismatch' = FALSE
  /\ pending' = [p \in Peers |-> NoRun]
  /\ UNCHANGED <<unused, peerVars, pin, verified, session, mail, crossed>>

-------------------------------------------------------------------------------

SetupNext ==
  \/ \E p \in Peers : \/ OpenWaiting(p) \/ OpenWithSession(p) \/ OpenWithout(p)
                      \/ Reinitiate(p) \/ SendFirst(p) \/ OthersClaim(p)
                      \/ \E n \in others[p] : OthersArrive(p, n)
  \/ \E f \in Fetches : Serve(f) \/ BundleArrives(f) \/ BundleFails(f)
  \/ \E m \in mail : FirstArrives(m)
  \/ Restart

SetupSpec == SetupInit /\ [][SetupNext]_setupVars

-------------------------------------------------------------------------------
(* Properties *)

\* Type invariant.
SetupTypeOK ==
  /\ unused \in [Peers -> SUBSET Opks]
  /\ bundle \in [Peers -> [x25519 : Seq(Opks), kem : Seq(Opks)]]
  /\ accepted \in [Peers -> SUBSET Runs] /\ others \in [Peers -> SUBSET Opks]
  /\ fetch \in [Fetches -> [pc : {"none", "asked", "left", "answered", "over"},
                            who : Peers \cup {Nobody}, pair : Opks \cup {NoPair}]]
  /\ handlers \subseteq Peers /\ current \in Peers \cup {Nobody}
  /\ ready \in BOOLEAN /\ mismatch \in BOOLEAN /\ crossed \in BOOLEAN
  /\ pin \in [Peers -> Peers \cup {Nobody}] /\ verified \in [Peers -> BOOLEAN]
  /\ pending \in [Peers -> Runs \cup {NoRun}] /\ session \in [Peers -> Runs \cup {NoRun}]
  /\ mail \subseteq [to : Peers, run : Runs]

\* The runs there are, by conversation.
AllRuns ==
  {[to |-> p, run |-> pending[p]] : p \in {q \in Peers : pending[q] # NoRun}} \cup mail

\* "Each OPK is consumed by exactly one PQXDH session initiation" (keys.py:490): what the
\* server may still hand out, what it has handed out for a run under way and what others
\* were given are different pairs, and their owner has the secrets of all of them, so no
\* honest first message is refused.  It is so until a bundle has reached the handler of
\* another conversation: then a peer is made to consume a pair the server still offers.
PairsServeOnce ==
  ~ crossed =>
    \A p \in Peers :
      LET mine == {f \in Fetches : fetch[f].pc = "answered" /\ fetch[f].who = p
                                   /\ fetch[f].pair # NoPair}
          runs == {m \in AllRuns : m.to = p /\ m.run.pair # NoPair}
          used == others[p] \cup {m.run.pair : m \in runs} \cup {fetch[f].pair : f \in mine}
      IN  /\ Cardinality(used) = Cardinality(others[p]) + Cardinality(runs) + Cardinality(mine)
          /\ used \cap unused[p] = {}
          /\ used \cup unused[p] \subseteq ToSet(bundle[p].x25519) \cap ToSet(bundle[p].kem)

\* A session is with the peer of its conversation, under the fingerprint that is pinned
\* ("before allowing any messages", ConversationController.cpp:261), whatever answers are
\* lost, late or out of order, until bundles have crossed.
SessionsArePinned ==
  ~ crossed =>
    \A p \in Peers : Run(p) # NoRun => Run(p).with = p /\ pin[p] = p /\ verified[p]

\* "... to avoid collisions regardless of which list consumed more keys" (keys.py:662): from
\* whatever the lists have come to, what replenish_one_time_prekeys adds makes OpkCount
\* pairs of them, no two with the same number.  (It may be the number of a pair that is gone.)
ReplenishesToTarget ==
  \A p \in Peers :
    LET new == Replenished(bundle[p])
        sum == [x25519 |-> bundle[p].x25519 \o new.x25519, kem |-> bundle[p].kem \o new.kem]
    IN  ListsValid(sum) /\ Len(sum.x25519) = OpkCount /\ Cardinality(Numbers(sum)) = OpkCount

===============================================================================
