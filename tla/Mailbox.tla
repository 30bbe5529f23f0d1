------------------------------- MODULE Mailbox -------------------------------
(***************************************************************************)
(* How a sender takes a message back: DELETE /messages/:id and POST        *)
(* /messages/:id/revoke, the notice that GET /messages/pending gives the   *)
(* recipient (server.js), and the two clients (MessageController.cpp).     *)
(*                                                                         *)
(* A message is queued for one device.  A pull makes two queries, first    *)
(* the envelopes that are pending, then the notices that are due, which    *)
(* are marked as sent by the query that reads them.  The recipient pulls   *)
(* every five seconds, whether or not the last pull has been answered, and *)
(* reacts to signals that do not say which pull they answer.  Whether a    *)
(* message decrypts is the subject of Messenger.                           *)
(***************************************************************************)
EXTENDS Naturals

CONSTANTS
  Messages,
  Pulls     \* bound: pulls under way at a time

VARIABLES
  \* the server
  queue,      \* message_queue: "none", "pending", "acknowledged" or "removed"
  deleted,    \* messages with deleted_at set
  hidden,     \* message_hidden: "none", or a row whose notice is "due" or "sent"
  \* the sender
  outbox,     \* "none", "local" while the message has a local id, "known" with the server's
  bubble,     \* what the sender's own bubble says: "shown" or "deleted", and "revoked"
  posts, deletes, revokes,   \* its requests on their way
  \* the recipient
  pull,       \* its pulls
  listens,    \* whether handlers are connected for envelopes and for notices
  backlog,    \* messages that wait for decryption
  view,       \* what is stored and shown
  acks,       \* acknowledgements on their way
  missed      \* history: messages a notice of which no handler has heard

serverVars == <<queue, deleted, hidden>>
senderVars == <<outbox, bubble, posts, deletes, revokes>>
readerVars == <<pull, listens, backlog, view, acks, missed>>
mailVars   == <<serverVars, senderVars, readerVars>>

\* "stone" is the placeholder for a message that was not received before it was taken back.
View    == [text : {"none", "plain", "stone"}, deleted : BOOLEAN, revoked : BOOLEAN]
NoView  == [text |-> "none", deleted |-> FALSE, revoked |-> FALSE]
Notice  == [msg : Messages, type : {"deleted", "revoked"}]
PullSet == [pc : {"idle", "asked", "read", "answered"}, heard : BOOLEAN,
            envelopes : SUBSET Messages, notices : SUBSET Notice]
NoPull  == [pc |-> "idle", heard |-> FALSE, envelopes |-> {}, notices |-> {}]

MailboxInit ==
  /\ queue = [m \in Messages |-> "none"] /\ deleted = {}
  /\ hidden = [m \in Messages |-> "none"]
  /\ outbox = [m \in Messages |-> "none"]
  /\ bubble = [m \in Messages |-> [deleted |-> FALSE, revoked |-> FALSE]]
  /\ posts = {} /\ deletes = {} /\ revokes = {}
  /\ pull = [i \in Pulls |-> NoPull]
  /\ listens = [envelopes |-> FALSE, notices |-> FALSE]
  /\ backlog = {} /\ view = [m \in Messages |-> NoView] /\ acks = {} /\ missed = {}

-------------------------------------------------------------------------------
(* Sending *)

Send(m) ==
  /\ outbox[m] = "none"
  /\ outbox' = [outbox EXCEPT ![m] = "local"] /\ posts' = posts \cup {m}
  /\ UNCHANGED <<serverVars, bubble, deletes, revokes, readerVars>>

\* POST /messages: one transaction stores and queues the message.
PostArrives(m) ==
  /\ m \in posts
  /\ posts' = posts \ {m}
  /\ queue' = [queue EXCEPT ![m] = "pending"]
  /\ UNCHANGED <<deleted, hidden, outbox, bubble, deletes, revokes, readerVars>>

\* messageSentToServer: the id is swapped.  The answer may never arrive.
PostAnswered(m) ==
  /\ outbox[m] = "local" /\ queue[m] # "none"
  /\ outbox' = [outbox EXCEPT ![m] = "known"]
  /\ UNCHANGED <<serverVars, bubble, posts, deletes, revokes, readerVars>>

-------------------------------------------------------------------------------
(* Taking a message back *)

\* deleteMessage(): the bubble changes before the server is asked, and for good.  The server
\* knows no local id, and refuses.
DeleteMessage(m) ==
  /\ outbox[m] # "none" /\ ~ bubble[m].deleted
  /\ bubble' = [bubble EXCEPT ![m].deleted = TRUE]
  /\ deletes' = IF outbox[m] = "known" THEN deletes \cup {m} ELSE deletes
  /\ UNCHANGED <<serverVars, outbox, posts, revokes, readerVars>>

\* (Mutation: the row takes the state of the queue.)
Hide_Removed(m) == hidden' = [hidden EXCEPT ![m] = "removed"]

\* (Mutation: ON CONFLICT DO NOTHING.)
Hide_Once(m) == hidden' = [hidden EXCEPT ![m] = IF @ = "none" THEN "due" ELSE @]

\* The row is there, and its notice is due, again if need be.
Hide(m) == hidden' = [hidden EXCEPT ![m] = "due"]

\* DELETE /messages/:id: one transaction.  A message that is deleted is left alone.
DeleteArrives(m) ==
  /\ m \in deletes
  /\ deletes' = deletes \ {m}
  /\ \/ m \notin deleted /\ deleted' = deleted \cup {m} /\ Hide(m)
     \/ m \in deleted /\ UNCHANGED <<deleted, hidden>>
  /\ UNCHANGED <<queue, outbox, bubble, posts, revokes, readerVars>>

\* revokeMessage(): a local id is refused as well.
RevokeMessage(m) ==
  /\ outbox[m] = "known" /\ ~ bubble[m].deleted /\ ~ bubble[m].revoked
  /\ revokes' = revokes \cup {m}
  /\ UNCHANGED <<serverVars, outbox, bubble, posts, deletes, readerVars>>

\* POST /messages/:id/revoke, and revokeMessageSucceeded if the answer arrives.
RevokeArrives(m) ==
  /\ m \in revokes
  /\ revokes' = revokes \ {m}
  /\ queue' = [queue EXCEPT ![m] = IF @ = "pending" THEN "removed" ELSE @]
  /\ Hide(m)
  /\ \/ bubble' = [bubble EXCEPT ![m].revoked = TRUE]
     \/ bubble' = bubble
  /\ UNCHANGED <<deleted, outbox, posts, deletes, readerVars>>

-------------------------------------------------------------------------------
(* Pulling *)

Becomes(i, new) == pull' = [pull EXCEPT ![i] = new]

\* pullAndProcessMessages().
Pull(i) ==
  /\ pull[i].pc = "idle"
  /\ Becomes(i, [NoPull EXCEPT !.pc = "asked", !.heard = TRUE])
  /\ listens' = [envelopes |-> TRUE, notices |-> TRUE]
  /\ UNCHANGED <<serverVars, senderVars, backlog, view, acks, missed>>

ReadEnvelopes(i) ==
  /\ pull[i].pc = "asked"
  /\ Becomes(i, [pull[i] EXCEPT !.pc = "read", !.envelopes =
       {m \in Messages : /\ queue[m] = "pending" /\ m \notin deleted /\ hidden[m] = "none"
                        /\ pull[i].heard}])
  /\ UNCHANGED <<serverVars, senderVars, listens, backlog, view, acks, missed>>

Due == {m \in Messages : hidden[m] = "due"}
DueNotices ==
  {[msg |-> m, type |-> IF m \in deleted THEN "deleted" ELSE "revoked"] : m \in Due}

\* Nobody waits for the answer any more: what it says is missed.
Unheard(i, notices) == IF pull[i].heard THEN {} ELSE {n.msg : n \in notices}

TakeNotices(i) ==
  /\ pull[i].pc = "read"
  /\ hidden' = [m \in Messages |-> IF m \in Due THEN "sent" ELSE hidden[m]]
  /\ Becomes(i, IF pull[i].heard
                THEN [pull[i] EXCEPT !.pc = "answered", !.notices = DueNotices] ELSE NoPull)
  /\ missed' = missed \cup Unheard(i, DueNotices)
  /\ UNCHANGED <<queue, deleted, senderVars, listens, backlog, view, acks>>

\* The client hears of an error, or nothing, or is restarted; the server may still act.
PullFails(i) ==
  /\ pull[i].heard
  /\ Becomes(i, IF pull[i].pc = "answered" THEN NoPull
                ELSE [pull[i] EXCEPT !.heard = FALSE, !.envelopes = {}])
  /\ missed' = missed \cup {n.msg : n \in pull[i].notices}
  /\ UNCHANGED <<serverVars, senderVars, listens, backlog, view, acks>>

\* A query fails, or the server is restarted.
ServerFails(i) ==
  /\ pull[i].pc \in {"asked", "read"}
  /\ Becomes(i, NoPull)
  /\ UNCHANGED <<serverVars, senderVars, listens, backlog, view, acks, missed>>

\* (Mutation: no placeholder for a message that has not been received.)
Noticed_Seen(v, types) ==
  IF v.text = "none" THEN v
  ELSE [v EXCEPT !.deleted = @ \/ "deleted" \in types, !.revoked = @ \/ "revoked" \in types]

\* A notice marks the message, or puts a placeholder where it would be.
Noticed(v, types) ==
  IF types = {} THEN v
  ELSE [text    |-> IF v.text = "none" THEN "stone" ELSE v.text,
        deleted |-> v.deleted \/ "deleted" \in types,
        revoked |-> v.revoked \/ "revoked" \in types]

\* pullMessagesSucceeded, and pullNoticesSucceeded if there are notices.  The first answer is
\* heard by all handlers and disconnects them.
Answer(i) ==
  /\ pull[i].pc = "answered"
  /\ LET notices == pull[i].notices
         types(m) == {n.type : n \in {k \in notices : k.msg = m}}
     IN  /\ Becomes(i, NoPull)
         /\ backlog' = IF listens.envelopes THEN backlog \cup pull[i].envelopes ELSE backlog
         /\ \/ /\ listens.notices
               /\ view' = [m \in Messages |-> Noticed(view[m], types(m))]
               /\ missed' = missed
            \/ /\ ~ listens.notices
               /\ view' = view
               /\ missed' = missed \cup {n.msg : n \in notices}
         /\ listens' = [envelopes |-> FALSE, notices |-> listens.notices /\ notices = {}]
  /\ UNCHANGED <<serverVars, senderVars, acks>>

\* (Mutation: what is stored is not looked up.)
Stored_Anew(v) == [NoView EXCEPT !.text = "plain"]

\* storeDecryptedMessage(): what is stored under the id stays.
Stored(v) == IF v.text = "none" THEN [NoView EXCEPT !.text = "plain"] ELSE v

\* A message is decrypted and stored, or fails to; it is acknowledged in either case.
Decrypt(m) ==
  /\ m \in backlog
  /\ backlog' = backlog \ {m} /\ acks' = acks \cup {m}
  /\ \/ view' = [view EXCEPT ![m] = Stored(@)]
     \/ view' = view
  /\ UNCHANGED <<serverVars, senderVars, pull, listens, missed>>

AckArrives(m) ==
  /\ m \in acks
  /\ acks' = acks \ {m}
  /\ queue' = [queue EXCEPT ![m] = IF @ = "pending" THEN "acknowledged" ELSE @]
  /\ UNCHANGED <<deleted, hidden, senderVars, pull, listens, backlog, view, missed>>

\* The recipient's app is restarted; what it has stored is on disk.  (The pulls it waited for
\* fail.)
ReaderRestarts ==
  /\ backlog # {}
  /\ \A i \in Pulls : ~ pull[i].heard
  /\ backlog' = {} /\ listens' = [envelopes |-> FALSE, notices |-> FALSE]
  /\ UNCHANGED <<serverVars, senderVars, pull, view, acks, missed>>

-------------------------------------------------------------------------------

MailboxNext ==
  \/ \E m \in Messages : \/ Send(m) \/ PostArrives(m) \/ PostAnswered(m)
                         \/ DeleteMessage(m) \/ DeleteArrives(m)
                         \/ RevokeMessage(m) \/ RevokeArrives(m)
                         \/ Decrypt(m) \/ AckArrives(m)
  \/ \E i \in Pulls : \/ Pull(i) \/ ReadEnvelopes(i) \/ TakeNotices(i) \/ Answer(i)
                      \/ PullFails(i) \/ ServerFails(i)
  \/ ReaderRestarts

MailboxSpec == MailboxInit /\ [][MailboxNext]_mailVars

\* The poll timer fires again and again, pulls do not fail for ever, and an answer that has
\* arrived is heard unless its pull fails.
MailboxFairness ==
  \A i \in Pulls : /\ WF_mailVars(Pull(i)) /\ SF_mailVars(ReadEnvelopes(i))
                   /\ SF_mailVars(TakeNotices(i)) /\ WF_mailVars(Answer(i))

FairMailbox == MailboxSpec /\ MailboxFairness

-------------------------------------------------------------------------------
(* Properties *)

\* Type invariant.
MailboxTypeOK ==
  /\ queue \in [Messages -> {"none", "pending", "acknowledged", "removed"}]
  /\ deleted \subseteq Messages /\ hidden \in [Messages -> {"none", "due", "sent"}]
  /\ outbox \in [Messages -> {"none", "local", "known"}]
  /\ bubble \in [Messages -> [deleted : BOOLEAN, revoked : BOOLEAN]]
  /\ posts \subseteq Messages /\ deletes \subseteq Messages /\ revokes \subseteq Messages
  /\ pull \in [Pulls -> PullSet]
  /\ listens \in [envelopes : BOOLEAN, notices : BOOLEAN]
  /\ backlog \subseteq Messages /\ view \in [Messages -> View]
  /\ acks \subseteq Messages /\ missed \subseteq Messages

\* The answer that carries the notice of m is on its way.
Coming(m) == \E i \in Pulls : \E n \in pull[i].notices : n.msg = m

\* What the last notice of m says.
TakenBack(m) == IF m \in deleted THEN view[m].deleted ELSE view[m].revoked

\* "FALSE until the deletion/revocation notice has been delivered to the recipient's next
\* pending-messages poll" (schema.sql:553-554): when the server takes a notice for sent and no
\* answer carries it, the recipient shows the message as deleted or revoked, in whatever order
\* the message, its decryption, the notices and the sender's requests came, unless an answer
\* went unheard.
SentIsShown ==
  \A m \in Messages : hidden[m] = "sent" /\ ~ Coming(m) /\ m \notin missed => TakenBack(m)

\* What the recipient shows as deleted or revoked is never readable again, although its
\* envelope may still wait for decryption, or be pulled again
\* ("Message was deleted/revoked before we ever received it", MessageController.cpp:541).
StaysTakenBack ==
  [][\A m \in Messages : /\ view[m].deleted => view'[m].deleted
                         /\ view[m].revoked => view'[m].revoked]_mailVars

\* "On next poll the recipient receives a 'revoked' notice and their UI updates"
\* (server.js:683): what is taken back is shown so some time, or a notice went unheard.
TakenBackAtLast ==
  \A m \in Messages : hidden[m] # "none" ~> TakenBack(m) \/ m \in missed

-------------------------------------------------------------------------------
(* The inductive invariant of MailboxProofs. *)

\* Only an answer carries notices, and where nothing is stored nothing is taken back.
NoticesInAnswers == \A i \in Pulls : pull[i].pc # "answered" => pull[i].notices = {}
NothingStored    == \A m \in Messages : view[m].text = "none" => view[m] = NoView

\* The notice that the state of the server calls for.
RightNotice(m) == [msg |-> m, type |-> IF m \in deleted THEN "deleted" ELSE "revoked"]

\* What is taken for sent is shown, or the right notice is coming: an older one that comes
\* as well will not do.
SentIsRight ==
  \A m \in Messages : hidden[m] = "sent" =>
    TakenBack(m) \/ m \in missed \/ \E i \in Pulls : RightNotice(m) \in pull[i].notices

MailboxInv == MailboxTypeOK /\ NoticesInAnswers /\ NothingStored /\ SentIsRight
===============================================================================
