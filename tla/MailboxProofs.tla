---------------------------- MODULE MailboxProofs ----------------------------
(***************************************************************************)
(* Proofs about Mailbox, for any messages and any number of pulls: what    *)
(* the server takes for notified is shown as taken back, and stays so.     *)
(***************************************************************************)
EXTENDS Mailbox, TLAPS

LEMMA InitMailbox == MailboxInit => MailboxInv
BY DEF MailboxInit, MailboxInv, MailboxTypeOK, NoticesInAnswers, NothingStored, SentIsRight,
       NoPull, PullSet, Notice, NoView, View

\* What the two ways to change what is stored do: nothing that was taken back comes back.
LEMMA NoticedFacts ==
  ASSUME NEW v \in View, NEW types \in SUBSET {"deleted", "revoked"}
  PROVE  /\ Noticed(v, types) \in View
         /\ v.deleted => Noticed(v, types).deleted
         /\ v.revoked => Noticed(v, types).revoked
         /\ "deleted" \in types => Noticed(v, types).deleted
         /\ "revoked" \in types => Noticed(v, types).revoked
         /\ Noticed(v, types).text = "none" => Noticed(v, types) = v
<1>1. CASE types = {}
  BY <1>1 DEF Noticed
<1>2. CASE types # {}
  BY <1>2 DEF Noticed, View
<1> QED
  BY <1>1, <1>2

LEMMA StoredFacts ==
  ASSUME NEW v \in View, v.text = "none" => v = NoView
  PROVE  /\ Stored(v) \in View
         /\ Stored(v).deleted = v.deleted /\ Stored(v).revoked = v.revoked
         /\ Stored(v).text # "none"
BY DEF Stored, NoView, View

\* What becomes of the pulls.
LEMMA PullBecomes ==
  ASSUME MailboxTypeOK, NEW i \in Pulls, NEW new \in PullSet, Becomes(i, new)
  PROVE  /\ pull' \in [Pulls -> PullSet]
         /\ pull'[i] = new
         /\ \A j \in Pulls \ {i} : pull'[j] = pull[j]
BY DEF MailboxTypeOK, Becomes

LEMMA NoPullFacts == NoPull \in PullSet /\ NoPull.notices = {} /\ NoPull.pc = "idle"
BY DEF NoPull, PullSet

-------------------------------------------------------------------------------
(* Each step keeps the invariant *)

\* Steps that neither the invariant's parts about pulls nor those about what is stored see.
LEMMA QuietStep ==
  ASSUME MailboxInv, MailboxTypeOK',
         UNCHANGED <<deleted, hidden, view, missed>>,
         \A i \in Pulls : /\ pull'[i].notices = pull[i].notices
                          /\ pull'[i].pc # "answered" => pull[i].pc # "answered"
  PROVE  MailboxInv'
<1>1. NoticesInAnswers'
  BY DEF MailboxInv, NoticesInAnswers
<1>2. NothingStored'
  BY DEF MailboxInv, NothingStored
<1>3. SentIsRight'
  BY DEF MailboxInv, SentIsRight, TakenBack, RightNotice
<1> QED
  BY <1>1, <1>2, <1>3 DEF MailboxInv

LEMMA SenderStep ==
  ASSUME MailboxInv, NEW m \in Messages,
         \/ Send(m) \/ PostArrives(m) \/ PostAnswered(m) \/ DeleteMessage(m) \/ RevokeMessage(m)
         \/ AckArrives(m)
  PROVE  MailboxInv'
<1>1. MailboxTypeOK'
  <2>1. CASE Send(m) \/ PostAnswered(m)
    BY <2>1 DEF MailboxInv, MailboxTypeOK, Send, PostAnswered, serverVars, readerVars
  <2>2. CASE PostArrives(m) \/ AckArrives(m)
    BY <2>2 DEF MailboxInv, MailboxTypeOK, PostArrives, AckArrives, senderVars, readerVars
  <2>3. CASE DeleteMessage(m)
    BY <2>3 DEF MailboxInv, MailboxTypeOK, DeleteMessage, serverVars, readerVars
  <2>4. CASE RevokeMessage(m)
    BY <2>4 DEF MailboxInv, MailboxTypeOK, RevokeMessage, serverVars, readerVars
  <2> QED
    BY <2>1, <2>2, <2>3, <2>4
<1>2. UNCHANGED <<deleted, hidden, view, missed, pull>>
  BY DEF Send, PostArrives, PostAnswered, DeleteMessage, RevokeMessage, AckArrives,
         serverVars, readerVars, senderVars
<1> QED
  BY <1>1, <1>2, QuietStep

\* DELETE and revoke make the notice due again.
LEMMA TakeBackStep ==
  ASSUME MailboxInv, NEW m \in Messages, DeleteArrives(m) \/ RevokeArrives(m)
  PROVE  MailboxInv'
<1>1. MailboxTypeOK'
  <2>1. CASE DeleteArrives(m)
    BY <2>1 DEF MailboxInv, MailboxTypeOK, DeleteArrives, Hide, readerVars
  <2>2. CASE RevokeArrives(m)
    <3>1. /\ queue' \in [Messages -> {"none", "pending", "acknowledged", "removed"}]
          /\ hidden' \in [Messages -> {"none", "due", "sent"}]
          /\ revokes' \subseteq Messages
      BY <2>2 DEF MailboxInv, MailboxTypeOK, RevokeArrives, Hide
    <3>2. bubble' = [bubble EXCEPT ![m].revoked = TRUE] \/ bubble' = bubble
      BY <2>2 DEF RevokeArrives
    <3>3. bubble' \in [Messages -> [deleted : BOOLEAN, revoked : BOOLEAN]]
      <4>1. bubble \in [Messages -> [deleted : BOOLEAN, revoked : BOOLEAN]]
        BY DEF MailboxInv, MailboxTypeOK
      <4>2. CASE bubble' = [bubble EXCEPT ![m].revoked = TRUE]
        BY <4>1, <4>2
      <4> QED
        BY <3>2, <4>1, <4>2
    <3> QED
      BY <2>2, <3>1, <3>3 DEF MailboxInv, MailboxTypeOK, RevokeArrives, readerVars
  <2> QED
    BY <2>1, <2>2
<1>2. UNCHANGED <<view, missed, pull>>
  BY DEF DeleteArrives, RevokeArrives, readerVars
<1>3. /\ \A k \in Messages \ {m} : hidden'[k] = hidden[k] /\ (k \in deleted' <=> k \in deleted)
      /\ \/ hidden'[m] = "due"
         \/ hidden'[m] = hidden[m] /\ (m \in deleted' <=> m \in deleted)
  BY DEF MailboxInv, MailboxTypeOK, DeleteArrives, RevokeArrives, Hide
<1>4. SentIsRight'
  BY <1>2, <1>3 DEF MailboxInv, SentIsRight, TakenBack, RightNotice
<1> QED
  BY <1>1, <1>2, <1>4 DEF MailboxInv, NoticesInAnswers, NothingStored

\* Pulls that carry no notice, or whose notices are missed.
LEMMA PullStep ==
  ASSUME MailboxInv, NEW i \in Pulls, Pull(i) \/ ReadEnvelopes(i) \/ ServerFails(i)
  PROVE  MailboxInv'
<1>1. UNCHANGED <<deleted, hidden, view, missed>>
  BY DEF Pull, ReadEnvelopes, ServerFails, serverVars, senderVars
<1>2. pull[i].pc # "answered" /\ pull[i].notices = {} /\ pull[i] \in PullSet
  BY DEF MailboxInv, MailboxTypeOK, NoticesInAnswers, Pull, ReadEnvelopes, ServerFails
<1>3. PICK new \in PullSet : Becomes(i, new) /\ new.notices = {}
  <2>1. CASE Pull(i)
    <3>1. [NoPull EXCEPT !.pc = "asked", !.heard = TRUE] \in PullSet
      BY DEF NoPull, PullSet
    <3>2. [NoPull EXCEPT !.pc = "asked", !.heard = TRUE].notices = {}
      BY DEF NoPull
    <3> QED
      BY <2>1, <3>1, <3>2 DEF Pull
  <2>2. CASE ReadEnvelopes(i)
    <3> DEFINE es == {m \in Messages : /\ queue[m] = "pending" /\ m \notin deleted
                                       /\ hidden[m] = "none" /\ pull[i].heard}
               new == [pull[i] EXCEPT !.pc = "read", !.envelopes = es]
    <3>1. es \subseteq Messages
      OBVIOUS
    <3>2. Becomes(i, new)
      BY <2>2 DEF ReadEnvelopes
    <3> HIDE DEF es
    <3>3. new \in PullSet /\ new.notices = {}
      BY <1>2, <3>1 DEF PullSet
    <3> QED
      BY <3>2, <3>3
  <2>3. CASE ServerFails(i)
    BY <2>3, NoPullFacts DEF ServerFails
  <2> QED
    BY <2>1, <2>2, <2>3
<1>4. /\ pull' \in [Pulls -> PullSet]
      /\ pull'[i].notices = {} /\ \A j \in Pulls \ {i} : pull'[j] = pull[j]
  BY <1>3, PullBecomes DEF MailboxInv
<1>5. listens' \in [envelopes : BOOLEAN, notices : BOOLEAN]
  <2>1. \/ listens' = [envelopes |-> TRUE, notices |-> TRUE]
        \/ listens' = listens
    BY DEF Pull, ReadEnvelopes, ServerFails
  <2>2. listens \in [envelopes : BOOLEAN, notices : BOOLEAN]
    BY DEF MailboxInv, MailboxTypeOK
  <2>3. [envelopes |-> TRUE, notices |-> TRUE] \in [envelopes : BOOLEAN, notices : BOOLEAN]
    OBVIOUS
  <2>4. CASE listens' = listens
    BY <2>2, <2>4
  <2> QED
    BY <2>1, <2>3, <2>4, Zenon
<1>6. MailboxTypeOK'
  BY <1>4, <1>5 DEF MailboxInv, MailboxTypeOK, Pull, ReadEnvelopes, ServerFails, serverVars,
                    senderVars
<1> QED
  BY <1>1, <1>2, <1>4, <1>6, QuietStep

LEMMA PullFailsStep ==
  ASSUME MailboxInv, NEW i \in Pulls, PullFails(i)
  PROVE  MailboxInv'
<1>1. pull[i] \in PullSet
  BY DEF MailboxInv, MailboxTypeOK
<1>2. UNCHANGED <<deleted, hidden, view>>
  BY DEF PullFails, serverVars, senderVars
<1>3. missed' = missed \cup {n.msg : n \in pull[i].notices}
  BY DEF PullFails
<1>4. /\ pull' \in [Pulls -> PullSet]
      /\ pull'[i].notices = {}
      /\ \A j \in Pulls \ {i} : pull'[j] = pull[j]
  <2>1. CASE pull[i].pc = "answered"
    <3>1. Becomes(i, NoPull)
      BY <2>1 DEF PullFails
    <3> QED
      BY <3>1, NoPullFacts, PullBecomes DEF MailboxInv
  <2>2. CASE pull[i].pc # "answered"
    <3> DEFINE new == [pull[i] EXCEPT !.heard = FALSE, !.envelopes = {}]
    <3>1. Becomes(i, new)
      BY <2>2 DEF PullFails
    <3>2. pull[i].notices = {}
      BY <2>2 DEF MailboxInv, NoticesInAnswers
    <3>3. new \in PullSet /\ new.notices = {}
      BY <1>1, <3>2 DEF PullSet
    <3> HIDE DEF new
    <3> QED
      BY <3>1, <3>3, PullBecomes DEF MailboxInv
  <2> QED
    BY <2>1, <2>2
<1>8. missed' \subseteq Messages
  BY <1>1, <1>3 DEF MailboxInv, MailboxTypeOK, PullSet, Notice
<1>9. MailboxTypeOK'
  BY <1>4, <1>8 DEF MailboxInv, MailboxTypeOK, PullFails, serverVars, senderVars
<1>5. NoticesInAnswers'
  BY <1>4 DEF MailboxInv, NoticesInAnswers
<1>6. ASSUME NEW m \in Messages, RightNotice(m) \in pull[i].notices PROVE m \in missed'
  BY <1>3, <1>6 DEF RightNotice
<1>7. SentIsRight'
  BY <1>2, <1>3, <1>4, <1>6 DEF MailboxInv, SentIsRight, TakenBack, RightNotice
<1> QED
  BY <1>2, <1>5, <1>7, <1>9 DEF MailboxInv, NothingStored

\* The query that marks notices as sent returns the right ones.
LEMMA TakeNoticesStep ==
  ASSUME MailboxInv, NEW i \in Pulls, TakeNotices(i)
  PROVE  MailboxInv'
<1>1. DueNotices \subseteq Notice /\ Unheard(i, DueNotices) \subseteq Messages
  BY DEF DueNotices, Due, Notice, Unheard
<1>3. UNCHANGED <<deleted, view>>
  BY DEF TakeNotices, senderVars
<1>4. /\ pull' \in [Pulls -> PullSet]
      /\ pull'[i].notices = IF pull[i].heard THEN DueNotices ELSE {}
      /\ pull'[i].pc = IF pull[i].heard THEN "answered" ELSE "idle"
      /\ \A j \in Pulls \ {i} : pull'[j] = pull[j]
      /\ pull[i].notices = {}
  <2>1. pull[i].notices = {} /\ pull[i] \in PullSet
    BY DEF MailboxInv, MailboxTypeOK, NoticesInAnswers, TakeNotices
  <2>2. CASE pull[i].heard
    <3> DEFINE new == [pull[i] EXCEPT !.pc = "answered", !.notices = DueNotices]
    <3>1. Becomes(i, new)
      BY <2>2 DEF TakeNotices
    <3>2. new \in PullSet /\ new.notices = DueNotices /\ new.pc = "answered"
      BY <1>1, <2>1 DEF PullSet
    <3> HIDE DEF new
    <3> QED
      BY <2>1, <2>2, <3>1, <3>2, PullBecomes DEF MailboxInv
  <2>3. CASE ~ pull[i].heard
    <3>1. Becomes(i, NoPull)
      BY <2>3 DEF TakeNotices
    <3> QED
      BY <2>1, <2>3, <3>1, NoPullFacts, PullBecomes DEF MailboxInv
  <2> QED
    BY <2>2, <2>3
<1>2. MailboxTypeOK'
  BY <1>1, <1>4 DEF MailboxInv, MailboxTypeOK, TakeNotices, senderVars
<1>5. NoticesInAnswers'
  BY <1>4 DEF MailboxInv, NoticesInAnswers
<1>6. ASSUME NEW m \in Messages, hidden[m] = "due"
      PROVE  m \in missed' \/ RightNotice(m)' \in pull'[i].notices
  <2>1. RightNotice(m)' \in DueNotices
    BY <1>3, <1>6 DEF RightNotice, DueNotices, Due
  <2>2. CASE pull[i].heard
    BY <1>4, <2>1, <2>2
  <2>3. CASE ~ pull[i].heard
    <3>1. RightNotice(m)'.msg = m
      BY DEF RightNotice
    <3> QED
      BY <2>1, <2>3, <3>1 DEF TakeNotices, Unheard
  <2> QED
    BY <2>2, <2>3
<1>7. ASSUME NEW m \in Messages, hidden'[m] = "sent", hidden[m] # "due"
      PROVE  TakenBack(m)' \/ m \in missed' \/ \E j \in Pulls : RightNotice(m)' \in pull'[j].notices
  <2>1. hidden[m] = "sent"
    BY <1>7 DEF TakeNotices, Due
  <2>2. TakenBack(m) \/ m \in missed \/ \E j \in Pulls : RightNotice(m) \in pull[j].notices
    BY <2>1 DEF MailboxInv, SentIsRight
  <2>3. missed \subseteq missed'
    BY DEF TakeNotices
  <2> QED
    BY <1>3, <1>4, <2>2, <2>3 DEF TakenBack, RightNotice
<1>8. SentIsRight'
  BY <1>6, <1>7 DEF SentIsRight
<1> QED
  BY <1>2, <1>3, <1>5, <1>8 DEF MailboxInv, NothingStored

\* An answer: its notices are shown, or missed.
LEMMA AnswerStep ==
  ASSUME MailboxInv, NEW i \in Pulls, Answer(i)
  PROVE  /\ MailboxInv'
         /\ \A m \in Messages : /\ view[m].deleted => view'[m].deleted
                                /\ view[m].revoked => view'[m].revoked
<1> DEFINE ns == pull[i].notices
           types(m) == {n.type : n \in {k \in ns : k.msg = m}}
<1>1. /\ pull[i] \in PullSet /\ ns \subseteq Notice /\ pull[i].envelopes \subseteq Messages
      /\ view \in [Messages -> View]
  BY DEF MailboxInv, MailboxTypeOK, PullSet
<1>2. \A m \in Messages : types(m) \in SUBSET {"deleted", "revoked"}
  BY <1>1 DEF Notice
<1>3. /\ pull' \in [Pulls -> PullSet]
      /\ pull'[i].notices = {} /\ pull'[i].pc = "idle"
      /\ \A j \in Pulls \ {i} : pull'[j] = pull[j]
  <2>1. Becomes(i, NoPull)
    BY DEF Answer
  <2> QED
    BY <2>1, NoPullFacts, PullBecomes DEF MailboxInv
<1>4. UNCHANGED <<deleted, hidden>>
  BY DEF Answer, serverVars
<1>5. \/ /\ view' = [m \in Messages |-> Noticed(view[m], types(m))]
         /\ missed' = missed
      \/ /\ view' = view
         /\ missed' = missed \cup {n.msg : n \in ns}
  BY DEF Answer
<1>6. ASSUME NEW m \in Messages
      PROVE  /\ view'[m] \in View
             /\ view[m].deleted => view'[m].deleted
             /\ view[m].revoked => view'[m].revoked
             /\ view'[m].text = "none" => view'[m] = view[m]
             /\ \/ m \in missed'
                \/ /\ "deleted" \in types(m) => view'[m].deleted
                   /\ "revoked" \in types(m) => view'[m].revoked
  <2> HIDE DEF types
  <2>1. CASE view' = [k \in Messages |-> Noticed(view[k], types(k))]
    BY <1>1, <1>2, <2>1, NoticedFacts
  <2>2. CASE view' = view /\ missed' = missed \cup {n.msg : n \in ns}
    <3>1. view[m] \in View
      BY <1>1
    <3>2. types(m) # {} => m \in missed'
      BY <2>2 DEF types
    <3> QED
      BY <2>2, <3>1, <3>2
  <2> QED
    BY <1>5, <2>1, <2>2
<1>7. view' \in [Messages -> View]
  <2>1. view' = [m \in Messages |-> view'[m]]
    BY <1>1, <1>5
  <2> QED
    BY <1>6, <2>1
<1>8. missed \subseteq missed' /\ missed' \subseteq Messages
  BY <1>1, <1>5 DEF MailboxInv, MailboxTypeOK, Notice
<1>9. MailboxTypeOK'
  <2>1. backlog' \subseteq Messages /\ listens' \in [envelopes : BOOLEAN, notices : BOOLEAN]
    BY <1>1 DEF MailboxInv, MailboxTypeOK, Answer
  <2> QED
    BY <1>3, <1>7, <1>8, <2>1 DEF MailboxInv, MailboxTypeOK, Answer, serverVars, senderVars
<1>10. NoticesInAnswers'
  BY <1>3 DEF MailboxInv, NoticesInAnswers
<1>11. NothingStored'
  BY <1>6 DEF MailboxInv, NothingStored
<1>12. SentIsRight'
  <2> SUFFICES ASSUME NEW m \in Messages, hidden[m] = "sent"
               PROVE  \/ TakenBack(m)' \/ m \in missed'
                      \/ \E j \in Pulls : RightNotice(m) \in pull'[j].notices
    BY <1>4 DEF SentIsRight, RightNotice
  <2>1. CASE TakenBack(m)
    BY <1>4, <1>6, <2>1 DEF TakenBack
  <2>2. CASE m \in missed
    BY <1>8, <2>2
  <2>3. CASE \E j \in Pulls \ {i} : RightNotice(m) \in pull[j].notices
    BY <1>3, <2>3
  <2>4. CASE RightNotice(m) \in ns
    <3>1. (IF m \in deleted THEN "deleted" ELSE "revoked") \in types(m)
      BY <2>4 DEF RightNotice
    <3> HIDE DEF types
    <3> QED
      BY <1>4, <1>6, <3>1 DEF TakenBack
  <2> QED
    BY <2>1, <2>2, <2>3, <2>4 DEF MailboxInv, SentIsRight
<1> QED
  BY <1>6, <1>9, <1>10, <1>11, <1>12 DEF MailboxInv

LEMMA DecryptStep ==
  ASSUME MailboxInv, NEW m \in Messages, Decrypt(m)
  PROVE  /\ MailboxInv'
         /\ \A k \in Messages : view'[k].deleted = view[k].deleted
                                /\ view'[k].revoked = view[k].revoked
<1>1. view \in [Messages -> View] /\ (view[m].text = "none" => view[m] = NoView)
  BY DEF MailboxInv, MailboxTypeOK, NothingStored
<1>2. \/ view' = [view EXCEPT ![m] = Stored(view[m])]
      \/ view' = view
  BY DEF Decrypt
<1>3. /\ view' \in [Messages -> View]
      /\ \A k \in Messages : /\ view'[k].deleted = view[k].deleted
                             /\ view'[k].revoked = view[k].revoked
                             /\ view'[k].text = "none" => view'[k] = view[k]
  BY <1>1, <1>2, StoredFacts
<1>4. UNCHANGED <<deleted, hidden, pull, missed>>
  BY DEF Decrypt, serverVars, senderVars
<1>5. MailboxTypeOK'
  BY <1>3 DEF MailboxInv, MailboxTypeOK, Decrypt, serverVars, senderVars
<1>6. NothingStored'
  BY <1>3 DEF MailboxInv, NothingStored
<1>7. SentIsRight'
  BY <1>3, <1>4 DEF MailboxInv, SentIsRight, TakenBack, RightNotice
<1> QED
  BY <1>3, <1>4, <1>5, <1>6, <1>7 DEF MailboxInv, NoticesInAnswers

LEMMA RestartStep ==
  ASSUME MailboxInv, ReaderRestarts
  PROVE  MailboxInv'
<1>1. MailboxTypeOK'
  BY DEF MailboxInv, MailboxTypeOK, ReaderRestarts, serverVars, senderVars
<1>2. UNCHANGED <<deleted, hidden, view, missed, pull>>
  BY DEF ReaderRestarts, serverVars, senderVars
<1> QED
  BY <1>1, <1>2, QuietStep

\* Nothing but answers and decryptions changes what is stored.
LEMMA ViewSteps ==
  ASSUME [MailboxNext]_mailVars
  PROVE  \/ view' = view
         \/ \E i \in Pulls : Answer(i)
         \/ \E m \in Messages : Decrypt(m)
BY DEF MailboxNext, mailVars, readerVars, senderVars, serverVars, Send, PostArrives, PostAnswered,
       DeleteMessage, DeleteArrives, RevokeMessage, RevokeArrives, AckArrives, Pull,
       ReadEnvelopes, TakeNotices, PullFails, ServerFails, ReaderRestarts

-------------------------------------------------------------------------------
(* Theorems *)

\* The inductive invariant: what is taken for sent is shown, missed, or comes with the right
\* notice; an answer alone carries notices; nothing is taken back where nothing is stored.
THEOREM MailboxInvariance == MailboxSpec => []MailboxInv
<1>1. MailboxInv /\ [MailboxNext]_mailVars => MailboxInv'
  <2> SUFFICES ASSUME MailboxInv, [MailboxNext]_mailVars PROVE MailboxInv'
    OBVIOUS
  <2>1. CASE UNCHANGED mailVars
    <3>1. MailboxTypeOK'
      BY <2>1 DEF MailboxInv, MailboxTypeOK, mailVars, serverVars, senderVars, readerVars
    <3>2. UNCHANGED <<deleted, hidden, view, missed, pull>>
      BY <2>1 DEF mailVars, serverVars, readerVars
    <3> QED
      BY <3>1, <3>2, QuietStep
  <2> QED
    BY <2>1, SenderStep, TakeBackStep, PullStep, PullFailsStep, TakeNoticesStep, AnswerStep,
       DecryptStep, RestartStep DEF MailboxNext
<1> QED
  BY <1>1, InitMailbox, PTL DEF MailboxSpec

\* The types of server, sender and recipient.
THEOREM MailboxTypes == MailboxSpec => []MailboxTypeOK
<1>1. MailboxInv => MailboxTypeOK
  BY DEF MailboxInv
<1> QED
  BY <1>1, MailboxInvariance, PTL

\* What the server takes for notified (message_hidden.notice_sent) is shown as deleted or
\* revoked, or its answer went unheard, for any number of pulls that overlap and fail.
THEOREM NoticesAreShown == MailboxSpec => []SentIsShown
<1>1. MailboxInv => SentIsShown
  BY DEF MailboxInv, SentIsRight, SentIsShown, Coming, RightNotice
<1> QED
  BY <1>1, MailboxInvariance, PTL

\* What the recipient shows as taken back is never readable again.
THEOREM TakenBackForGood == MailboxSpec => StaysTakenBack
<1>1. MailboxInv /\ [MailboxNext]_mailVars
        => [\A m \in Messages : /\ view[m].deleted => view'[m].deleted
                                /\ view[m].revoked => view'[m].revoked]_mailVars
  BY ViewSteps, AnswerStep, DecryptStep
<1> QED
  BY <1>1, MailboxInvariance, PTL DEF MailboxSpec, StaysTakenBack
=============================================================================
