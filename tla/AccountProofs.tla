---------------------------- MODULE AccountProofs ----------------------------
(***************************************************************************)
(* Registration and login, for any users, passwords and bounds: what the   *)
(* service keeps is typed, no key is promoted before its login was         *)
(* granted, who is signed in has the token of the password that opened the *)
(* keystore, and a revoked device stays out.                               *)
(***************************************************************************)
EXTENDS Account, SequenceTheorems, WellFoundedInduction, TLAPS

-------------------------------------------------------------------------------
(* The inductive invariant *)

\* An attempt that has not begun, or has ended without a session.
Gone == {"none", "refused", "over"}

\* What is known of the attempt f by where its handlers are: whose it is; that the device is
\* the user's once a row was found; that a proof that was accepted is for this attempt's A;
\* that one that came after the revocation of its device gets no further than its proof.
Good(f, a, gone) ==
  /\ a \in Attempt
  /\ a.pc \notin Gone => a.user \in Users /\ a.device \in Users /\ a.word \in Passwords
  /\ a.pc \in {"checked", "taken", "storing", "granted", "in"} => a.device = a.user
  /\ a.pc \in {"taken", "storing", "granted", "in"} => a.proof # NoProof /\ a.proof.a = f
  /\ a.late => a.pc \in {"init", "challenged", "proof"} /\ a.user \in gone

FlowInv == \A f \in Flows : Good(f, flow[f], revoked)

\* Only tokens that were issued are used, and no request that came after the revocation of
\* its device has passed the check of the device.
GoodRequest(q, flows, gone) ==
  /\ q.pc # "idle" => q.token \in Flows /\ flows[q.token].pc = "in"
  /\ q.late => q.pc = "sent" /\ flows[q.token].user \in gone

RequestInv == \A r \in Requests : GoodRequest(request[r], flow, revoked)

\* The proof that the service has made is that of its latest attempt, and the key it has
\* staged is derived from what went into it.
ProofInv ==
  mem.proof # NoProof =>
    /\ mem.proof.a = mem.srp /\ mem.srp # 0 /\ mem.password = NoPassword
    /\ mem.staged = [word |-> mem.proof.word, salt |-> mem.proof.salt]

\* The password of the service's latest attempt, used up or not.
Secret == IF mem.password # NoPassword THEN mem.password ELSE mem.proof.word

\* The latest attempt of the service is that of the active device and of the last handler.
AttemptInv ==
  mem.srp # 0 =>
    /\ current = Nobody
    /\ flow[mem.srp].pc \notin Gone => active = flow[mem.srp].device /\ flow[mem.srp].word = Secret
    /\ logins # <<>> => logins[Len(logins)].word = Secret

\* A service that is down has no memory.
DownInv == up = TRUE \/ mem = NoMemory

TokenInv == token # 0 => flow[token].pc = "in"

AccountInv ==
  /\ AccountTypeOK /\ FlowInv /\ RequestInv
  /\ DownInv /\ ProofInv /\ AttemptInv /\ TokenInv
  /\ VerifiedBeforeCached /\ SignedInAsVerified

-------------------------------------------------------------------------------
(* Attempts *)

LEMMA NoAttemptTyped == NoAttempt \in Attempt /\ NoAttempt.pc = "none" /\ NoAttempt.late = FALSE
<1>1. Garbled \in Creds /\ 0 \in Salts /\ NoProof \in Proof \cup {NoProof}
  BY CredentialsAssumption DEF Creds, Garbled, Salts
<1>2. NoAttempt \in Attempt
  BY <1>1 DEF NoAttempt, Attempt
<1> QED BY <1>2 DEF NoAttempt

LEMMA RestIsAttempt ==
  ASSUME NEW a \in Attempt
  PROVE  /\ Rest(a) \in Attempt
         /\ Rest(a) = a \/ (Rest(a).pc \in {"refused", "over"} /\ Rest(a).late = FALSE)
         /\ a.pc = "in" => Rest(a) = a
<1> DEFINE R1 == [NoAttempt EXCEPT !.pc = "refused", !.hears = TRUE]
           R2 == [NoAttempt EXCEPT !.pc = "over"]
<1>0. NoAttempt \in Attempt
  BY NoAttemptTyped
<1>1. R1 \in Attempt /\ R2 \in Attempt
  <2>1. R1 \in Attempt
    BY <1>0 DEF Attempt
  <2>2. R2 \in Attempt
    BY <1>0 DEF Attempt
  <2> QED BY <2>1, <2>2
<1>2. R1.pc = "refused" /\ R1.late = FALSE /\ R2.pc = "over" /\ R2.late = FALSE
  BY DEF NoAttempt
<1>3. Rest(a) = a \/ Rest(a) = R1 \/ Rest(a) = R2
  BY DEF Rest
<1>4. a.pc = "in" => Rest(a) = a
  BY DEF Rest
<1> HIDE DEF R1, R2
<1> QED BY <1>1, <1>2, <1>3, <1>4

\* An attempt that ends leaves nothing behind.
LEMMA RestEnds ==
  ASSUME NEW a \in Attempt, a.pc \in {"refused", "over"}
  PROVE  Rest(a) \in Attempt /\ Rest(a).pc \in {"refused", "over"} /\ Rest(a).late = FALSE
<1> DEFINE R1 == [NoAttempt EXCEPT !.pc = "refused", !.hears = TRUE]
           R2 == [NoAttempt EXCEPT !.pc = "over"]
<1>1. R1.pc = "refused" /\ R1.late = FALSE /\ R2.pc = "over" /\ R2.late = FALSE
  BY DEF NoAttempt
<1>2. a.hears \in BOOLEAN
  BY DEF Attempt
<1>3. Rest(a) = R1 \/ Rest(a) = R2
  <2>1. CASE a.pc = "over"
    BY <2>1 DEF Rest
  <2>2. CASE a.pc = "refused" /\ a.hears
    BY <2>2 DEF Rest
  <2>3. CASE a.pc = "refused" /\ ~ a.hears
    BY <2>3 DEF Rest
  <2> QED BY <2>1, <2>2, <2>3
<1>4. Rest(a) \in Attempt
  BY RestIsAttempt
<1> HIDE DEF R1, R2
<1> QED BY <1>1, <1>3, <1>4

LEMMA GoodRest ==
  ASSUME NEW f, NEW gone, NEW a, Good(f, a, gone)
  PROVE  Good(f, Rest(a), gone)
<1>1. a \in Attempt
  BY DEF Good
<1>2. /\ Rest(a) \in Attempt
      /\ Rest(a) = a \/ (Rest(a).pc \in {"refused", "over"} /\ Rest(a).late = FALSE)
  BY <1>1, RestIsAttempt
<1>3. CASE Rest(a) = a
  BY <1>3
<1>4. CASE Rest(a).pc \in {"refused", "over"} /\ Rest(a).late = FALSE
  BY <1>2, <1>4 DEF Good, Gone
<1> QED BY <1>2, <1>3, <1>4

\* What a step does to an attempt that has begun: it ends, or goes on with the same user,
\* device and password; a session stays what it is.
Stays(a, b) == b.user = a.user /\ b.device = a.device /\ b.word = a.word
Advances(a, b) ==
  /\ a.pc = "in" => b.pc = "in" /\ Stays(a, b) /\ b.proof = a.proof
  /\ b.pc \notin Gone => a.pc \notin Gone /\ Stays(a, b)
FlowsAdvance == \A f \in Flows : Advances(flow[f], flow'[f])

LEMMA AdvancesRest ==
  ASSUME NEW a, NEW b \in Attempt, Advances(a, b)
  PROVE  Advances(a, Rest(b))
<1>1. Rest(b) \in Attempt /\ (Rest(b) = b \/ (Rest(b).pc \in {"refused", "over"}))
      /\ (b.pc = "in" => Rest(b) = b)
  BY RestIsAttempt
<1>2. CASE Rest(b) = b
  BY <1>2
<1>3. CASE Rest(b).pc \in {"refused", "over"}
  BY <1>1, <1>3 DEF Advances, Gone
<1> QED BY <1>1, <1>2, <1>3

\* An attempt moves on, or ends: what is known of attempts stays known.
Leads(f, a) ==
  flow' = [flow EXCEPT ![f] = a] /\ Good(f, a, revoked) /\ Advances(flow[f], a)

LEMMA MovesLeads ==
  ASSUME NEW f \in Flows, NEW a, Moves(f, a), Good(f, a, revoked), Advances(flow[f], a)
  PROVE  Leads(f, Rest(a))
<1>1. a \in Attempt
  BY DEF Good
<1> QED BY <1>1, GoodRest, AdvancesRest DEF Leads, Moves

LEMMA EndLeads ==
  ASSUME NEW f \in Flows, flow[f].pc # "in", NEW a \in Attempt, a.pc \in {"refused", "over"},
         Moves(f, a)
  PROVE  Leads(f, Rest(a))
<1>1. Rest(a) \in Attempt /\ Rest(a).pc \in {"refused", "over"} /\ Rest(a).late = FALSE
  BY RestEnds
<1>2. Good(f, Rest(a), revoked)
  BY <1>1 DEF Good, Gone
<1>3. Advances(flow[f], Rest(a))
  BY <1>1 DEF Advances, Gone
<1> QED BY <1>2, <1>3 DEF Leads, Moves

LEMMA LeadsKeeps ==
  ASSUME FlowInv, flow \in [Flows -> Attempt], NEW f \in Flows, NEW a,
         Leads(f, a), revoked' = revoked
  PROVE  flow' \in [Flows -> Attempt] /\ FlowInv' /\ FlowsAdvance
<1>1. a \in Attempt
  BY DEF Leads, Good
<1>2. flow' \in [Flows -> Attempt] /\ flow'[f] = a /\ \A g \in Flows : g # f => flow'[g] = flow[g]
  BY <1>1 DEF Leads
<1>3. FlowInv'
  BY <1>2 DEF FlowInv, Leads
<1>4. FlowsAdvance
  BY <1>2 DEF FlowsAdvance, Leads, Advances, Stays
<1> QED BY <1>2, <1>3, <1>4

LoginStep(f) ==
  \/ InitRead(f) \/ InitWrite(f) \/ VerifyRead(f) \/ TakeChallenge(f)
  \/ StoreInCache(f) \/ StoreInTable(f) \/ LoginFails(f)

\* What a handler of the server does to its attempt.
LEMMA LoginStepMoves ==
  ASSUME AccountInv, NEW f \in Flows, LoginStep(f)
  PROVE  \E a : Leads(f, a)
<1>0. Good(f, flow[f], revoked) /\ flow[f] \in Attempt
      /\ account \in [Users -> [ident : Gens \cup {0}, creds : Creds]]
  BY DEF AccountInv, FlowInv, AccountTypeOK, ServerTypeOK, Good
<1>1. ASSUME Known(f), flow[f].pc \in {"init", "proof"}
      PROVE  Row(f) \in Creds /\ flow[f].device = flow[f].user /\ flow[f].late = FALSE
  <2>1. flow[f].user \in Users /\ flow[f].device = flow[f].user /\ flow[f].user \notin revoked
    BY <1>0, <1>1 DEF Known, Good, Gone
  <2>2. Row(f) \in Creds
    BY <1>0, <2>1 DEF Row
  <2>3. flow[f].late \in BOOLEAN
    BY <1>0 DEF Attempt
  <2>4. flow[f].late = FALSE
    BY <1>0, <2>1, <2>3 DEF Good
  <2> QED BY <2>1, <2>2, <2>4
<1>2. flow[f].pc \notin {"init", "challenged", "proof"} => flow[f].late = FALSE
  <2>1. flow[f].late \in BOOLEAN
    BY <1>0 DEF Attempt
  <2> QED BY <1>0, <2>1 DEF Good
<1>3. ASSUME flow[f].pc # "in", Moves(f, [flow[f] EXCEPT !.pc = "refused"])
      PROVE  \E a : Leads(f, a)
  <2>1. [flow[f] EXCEPT !.pc = "refused"] \in Attempt
        /\ [flow[f] EXCEPT !.pc = "refused"].pc = "refused"
    BY <1>0 DEF Attempt
  <2> QED BY <1>3, <2>1, EndLeads
<1>4. CASE InitRead(f)
  <2>1. CASE ~ Known(f) /\ Moves(f, [flow[f] EXCEPT !.pc = "challenged", !.salt = 0, !.b = 0])
    <3>1. flow[f].pc = "init"
      BY <1>4 DEF InitRead, At
    <3>a. 0 \in Salts
      BY CredentialsAssumption DEF Salts
    <3>2. Good(f, [flow[f] EXCEPT !.pc = "challenged", !.salt = 0, !.b = 0], revoked)
      BY <1>0, <3>1, <3>a DEF Good, Attempt, Gone
    <3>3. Advances(flow[f], [flow[f] EXCEPT !.pc = "challenged", !.salt = 0, !.b = 0])
      BY <1>0, <3>1 DEF Advances, Attempt, Gone, Stays
    <3> QED BY <2>1, <3>2, <3>3, MovesLeads
  <2>2. CASE Known(f) /\ Moves(f, [flow[f] EXCEPT !.pc = "read", !.row = Row(f)])
    <3>1. flow[f].pc = "init"
      BY <1>4 DEF InitRead, At
    <3>2. Good(f, [flow[f] EXCEPT !.pc = "read", !.row = Row(f)], revoked)
      BY <1>0, <1>1, <2>2, <3>1 DEF Good, Attempt, Gone
    <3>3. Advances(flow[f], [flow[f] EXCEPT !.pc = "read", !.row = Row(f)])
      BY <1>0, <3>1 DEF Advances, Attempt, Gone, Stays
    <3> QED BY <2>2, <3>2, <3>3, MovesLeads
  <2>3. CASE Known(f) /\ Moves(f, [flow[f] EXCEPT !.pc = "refused"])
    BY <1>3, <1>4, <2>3 DEF InitRead, At
  <2> QED BY <1>4, <2>1, <2>2, <2>3 DEF InitRead
<1>5. CASE InitWrite(f)
  <2> DEFINE a == [flow[f] EXCEPT !.pc = "challenged", !.salt = flow[f].row.salt, !.b = f]
  <2>1. flow[f].pc = "read" /\ Moves(f, a)
    BY <1>5 DEF InitWrite, At
  <2>2. flow[f].row.salt \in Salts
    BY <1>0 DEF Attempt, Creds
  <2>3. Good(f, a, revoked)
    BY <1>0, <1>2, <2>1, <2>2 DEF Good, Attempt, Gone
  <2>4. Advances(flow[f], a)
    BY <1>0, <2>1 DEF Advances, Attempt, Gone, Stays
  <2> QED BY <2>1, <2>3, <2>4, MovesLeads
<1>6. CASE VerifyRead(f)
  <2>0. flow[f].pc = "proof"
    BY <1>6 DEF VerifyRead, At
  <2>1. CASE Known(f) /\ Moves(f, [flow[f] EXCEPT !.pc = "checked", !.row = Row(f)])
    <3>2. Good(f, [flow[f] EXCEPT !.pc = "checked", !.row = Row(f)], revoked)
      BY <1>0, <1>1, <2>0, <2>1 DEF Good, Attempt, Gone
    <3>3. Advances(flow[f], [flow[f] EXCEPT !.pc = "checked", !.row = Row(f)])
      BY <1>0, <2>0 DEF Advances, Attempt, Gone, Stays
    <3> QED BY <2>1, <3>2, <3>3, MovesLeads
  <2>2. CASE ~ Known(f) /\ Moves(f, [flow[f] EXCEPT !.pc = "refused"])
    BY <1>3, <2>0, <2>2
  <2> QED BY <1>6, <2>1, <2>2 DEF VerifyRead
<1>7. CASE TakeChallenge(f)
  <2>0. flow[f].pc = "checked"
    BY <1>7 DEF TakeChallenge, At
  <2> DEFINE a == [flow[f] EXCEPT !.pc = "taken"]
  <2>1. CASE RightProof(f, challenge[flow[f].user]) /\ Moves(f, a)
    <3>1. flow[f].proof.a = f /\ flow[f].proof # NoProof
      BY <2>1 DEF RightProof, NoProof, Flows
    <3>2. Good(f, a, revoked)
      BY <1>0, <1>2, <2>0, <3>1 DEF Good, Attempt, Gone
    <3>3. Advances(flow[f], a)
      BY <1>0, <2>0 DEF Advances, Attempt, Gone, Stays
    <3> QED BY <2>1, <3>2, <3>3, MovesLeads
  <2>2. CASE Moves(f, [flow[f] EXCEPT !.pc = "refused"])
    BY <1>3, <2>0, <2>2
  <2> QED BY <1>7, <2>1, <2>2 DEF TakeChallenge
<1>8. CASE StoreInCache(f)
  <2> DEFINE a == [flow[f] EXCEPT !.pc = "storing"]
  <2>1. flow[f].pc = "taken" /\ Moves(f, a)
    BY <1>8 DEF StoreInCache, At
  <2>2. Good(f, a, revoked)
    BY <1>0, <1>2, <2>1 DEF Good, Attempt, Gone
  <2>3. Advances(flow[f], a)
    BY <1>0, <2>1 DEF Advances, Attempt, Gone, Stays
  <2> QED BY <2>1, <2>2, <2>3, MovesLeads
<1>9. CASE StoreInTable(f)
  <2> DEFINE a == [flow[f] EXCEPT !.pc = "granted"]
  <2>1. flow[f].pc = "storing" /\ Moves(f, a)
    BY <1>9 DEF StoreInTable, At
  <2>2. Good(f, a, revoked)
    BY <1>0, <1>2, <2>1 DEF Good, Attempt, Gone
  <2>3. Advances(flow[f], a)
    BY <1>0, <2>1 DEF Advances, Attempt, Gone, Stays
  <2> QED BY <2>1, <2>2, <2>3, MovesLeads
<1>10. CASE LoginFails(f)
  BY <1>3, <1>10 DEF LoginFails
<1> QED BY <1>4, <1>5, <1>6, <1>7, <1>8, <1>9, <1>10 DEF LoginStep

-------------------------------------------------------------------------------
(* What a step leaves alone stays as good as it was *)

SessionsStay ==
  \A f \in Flows : flow[f].pc = "in" => /\ flow'[f].pc = "in" /\ Stays(flow[f], flow'[f])
                                        /\ flow'[f].proof = flow[f].proof

LEMMA AdvancingSessionsStay == FlowsAdvance => SessionsStay
  BY DEF FlowsAdvance, SessionsStay, Advances

LEMMA UnchangedAdvances == flow' = flow => FlowsAdvance
  BY DEF FlowsAdvance, Advances, Stays

LEMMA RequestsStay ==
  ASSUME SessionsStay, revoked \subseteq revoked', NEW q, GoodRequest(q, flow, revoked),
         q.late \in BOOLEAN
  PROVE  GoodRequest(q, flow', revoked')
<1>1. q.pc # "idle" => q.token \in Flows /\ flow'[q.token].pc = "in"
  BY DEF GoodRequest, SessionsStay
<1>2. CASE q.late
  <2>1. q.pc = "sent" /\ flow[q.token].user \in revoked
    BY <1>2 DEF GoodRequest
  <2>2. q.token \in Flows /\ flow[q.token].pc = "in"
    BY <2>1 DEF GoodRequest
  <2>3. flow'[q.token].user = flow[q.token].user
    BY <2>2 DEF SessionsStay, Stays
  <2> QED BY <1>1, <2>1, <2>3 DEF GoodRequest
<1>3. CASE ~ q.late
  BY <1>1, <1>3 DEF GoodRequest
<1> QED BY <1>2, <1>3

LEMMA UnchangedRequests ==
  ASSUME AccountInv, SessionsStay, revoked \subseteq revoked', request' = request
  PROVE  RequestInv'
<1>1. \A r \in Requests : GoodRequest(request[r], flow, revoked) /\ request[r].late \in BOOLEAN
  BY DEF AccountInv, RequestInv, AccountTypeOK, ServerTypeOK, Request
<1>2. \A r \in Requests : GoodRequest(request[r], flow', revoked')
  BY <1>1, RequestsStay
<1> QED BY <1>2 DEF RequestInv

SameLogin ==
  /\ mem'.srp = mem.srp /\ mem'.proof = mem.proof /\ mem'.password = mem.password
  /\ mem'.staged = mem.staged /\ mem'.cached = mem.cached

\* The login that is under way in the service is not disturbed.
LEMMA LoginStays ==
  ASSUME AccountInv, mem'.srp = mem.srp, Secret' = Secret, mem'.cached = mem.cached,
         FlowsAdvance, active' = active, current' = current,
         token' = token, logins' \in {logins, <<>>}
  PROVE  AttemptInv' /\ TokenInv' /\ VerifiedBeforeCached'
<1>0. SessionsStay /\ mem \in Memory /\ token \in Flows \cup {0}
  BY AdvancingSessionsStay DEF AccountInv, AccountTypeOK, KeystoreTypeOK
<1>2. AttemptInv'
  <2> SUFFICES ASSUME mem'.srp # 0
               PROVE  /\ current' = Nobody
                      /\ flow'[mem'.srp].pc \notin Gone =>
                           active' = flow'[mem'.srp].device /\ flow'[mem'.srp].word = Secret'
                      /\ logins' # <<>> => logins'[Len(logins')].word = Secret'
    BY DEF AttemptInv
  <2>2. mem.srp \in Flows
    BY <1>0 DEF Memory
  <2>3. Advances(flow[mem.srp], flow'[mem.srp])
    BY <2>2 DEF FlowsAdvance
  <2> QED BY <2>2, <2>3 DEF AccountInv, AttemptInv, Advances, Stays
<1>3. TokenInv'
  BY <1>0 DEF AccountInv, TokenInv, SessionsStay
<1>4. VerifiedBeforeCached'
  <2> SUFFICES ASSUME mem'.cached # NoKey
               PROVE  \E f \in Flows :
                        /\ flow'[f].pc = "in"
                        /\ mem'.cached = [word |-> flow'[f].proof.word, salt |-> flow'[f].proof.salt]
    BY DEF VerifiedBeforeCached
  <2>1. PICK f \in Flows :
          /\ flow[f].pc = "in"
          /\ mem.cached = [word |-> flow[f].proof.word, salt |-> flow[f].proof.salt]
    BY DEF AccountInv, VerifiedBeforeCached
  <2> QED BY <1>0, <2>1 DEF SessionsStay
<1> QED BY <1>2, <1>3, <1>4

LEMMA SameLoginStays ==
  ASSUME AccountInv, SameLogin, FlowsAdvance, active' = active, current' = current,
         token' = token, logins' \in {logins, <<>>}
  PROVE  ProofInv' /\ AttemptInv' /\ TokenInv' /\ VerifiedBeforeCached'
<1>1. ProofInv'
  BY DEF AccountInv, ProofInv, SameLogin
<1>2. Secret' = Secret
  BY DEF Secret, SameLogin
<1> QED BY <1>1, <1>2, LoginStays DEF SameLogin

\* Nor is anybody who is signed in.
LEMMA SignedStays ==
  ASSUME AccountInv, FlowsAdvance, active' = active, current' = current, token' = token,
         gens' = gens, mem'.store = mem.store, mem'.bundle = mem.bundle, up' = up
  PROVE  SignedInAsVerified'
<1>0. SessionsStay /\ token \in Flows \cup {0}
  BY AdvancingSessionsStay DEF AccountInv, AccountTypeOK
<1>1. CASE current = Nobody
  BY <1>1 DEF SignedInAsVerified
<1>2. CASE current # Nobody
  <2>1. token \in Flows /\ flow[token].pc = "in" /\ SignedInAsVerified
    BY <1>0, <1>2 DEF AccountInv, SignedInAsVerified
  <2>2. flow'[token].pc = "in" /\ Stays(flow[token], flow'[token])
    BY <1>0, <2>1 DEF SessionsStay
  <2> QED BY <1>2, <2>1, <2>2 DEF SignedInAsVerified, Stays
<1> QED BY <1>1, <1>2

\* So most steps only have to keep the types, the attempts and the requests.
LEMMA QuietKeeps ==
  ASSUME AccountInv, AccountTypeOK', FlowInv', RequestInv', FlowsAdvance,
         UNCHANGED <<gens, mem, up, active, current, token>>, logins' \in {logins, <<>>}
  PROVE  AccountInv'
<1>1. SameLogin
  BY DEF SameLogin
<1>2. DownInv'
  BY DEF AccountInv, DownInv
<1> QED BY <1>1, <1>2, SameLoginStays, SignedStays DEF AccountInv

LEMMA ServerLogin ==
  ASSUME AccountInv, NEW f \in Flows, LoginStep(f), UNCHANGED <<keystoreVars, appVars>>
  PROVE  AccountInv'
<1>1. PICK a : Leads(f, a)
  BY LoginStepMoves
<1>2. revoked' = revoked /\ request' = request /\ account' = account
  BY DEF LoginStep, InitRead, InitWrite, VerifyRead, TakeChallenge, StoreInCache, StoreInTable,
         LoginFails, tables
<1>3. flow' \in [Flows -> Attempt] /\ FlowInv' /\ FlowsAdvance
  BY <1>1, <1>2, LeadsKeeps DEF AccountInv, AccountTypeOK, ServerTypeOK
<1>4. ServerTypeOK'
  <2>1. challenge' \in [Users -> Flows \cup {0}] /\ cache' \in [Users -> Flows \cup {0}]
        /\ table' \in [Users -> Flows \cup {0}]
    BY DEF AccountInv, AccountTypeOK, ServerTypeOK, LoginStep, InitRead, InitWrite, VerifyRead,
           TakeChallenge, StoreInCache, StoreInTable, LoginFails, tables
  <2>2. faults' \in 0 .. MaxFaults
    BY ServerAuthAssumption
       DEF AccountInv, AccountTypeOK, ServerTypeOK, LoginStep, InitRead, InitWrite, VerifyRead,
           TakeChallenge, StoreInCache, StoreInTable, LoginFails, Fault
  <2> QED BY <1>2, <1>3, <2>1, <2>2 DEF AccountInv, AccountTypeOK, ServerTypeOK
<1>5. AccountTypeOK'
  BY <1>4 DEF AccountInv, AccountTypeOK, KeystoreTypeOK, keystoreVars, appVars
<1>6. RequestInv'
  BY <1>2, <1>3, UnchangedRequests, AdvancingSessionsStay
<1> QED BY <1>3, <1>5, <1>6, QuietKeeps DEF keystoreVars, appVars

-------------------------------------------------------------------------------
(* Authenticated requests *)

RequestStep(r) ==
  \/ CheckDevice(r) \/ UseCache(r) \/ ReadTable(r) \/ FillCache(r) \/ Use(r)
  \/ ChangePassword(r) \/ MarkRevoked(r) \/ DropFromCache(r) \/ EraseFromTable(r)
  \/ RequestFails(r)

LEMMA IdleIsGood == Idle \in Request /\ \A flows, gone : GoodRequest(Idle, flows, gone)
<1>1. Idle \in Request
  BY DEF Idle, Request
<1>2. Idle.pc = "idle" /\ Idle.late = FALSE
  BY DEF Idle
<1> QED BY <1>1, <1>2 DEF GoodRequest

\* What a handler of the server does to its request.
LEMMA RequestStepBecomes ==
  ASSUME AccountInv, NEW r \in Requests, RequestStep(r)
  PROVE  \E q \in Request : Becomes(r, q) /\ GoodRequest(q, flow, revoked')
<1> DEFINE q == request[r]
<1>0. q \in Request /\ GoodRequest(q, flow, revoked) /\ q.late \in BOOLEAN
  BY DEF AccountInv, AccountTypeOK, ServerTypeOK, RequestInv, Request
<1>1. Idle \in Request /\ GoodRequest(Idle, flow, revoked')
  BY IdleIsGood
<1>2. ASSUME q.pc \notin {"idle", "sent"}
      PROVE  q.late = FALSE /\ q.token \in Flows /\ flow[q.token].pc = "in"
  BY <1>0, <1>2 DEF GoodRequest
<1>3. ASSUME q.pc \notin {"idle", "sent"},
             NEW pc \in {"granted", "drop", "erase"}
      PROVE  /\ [q EXCEPT !.pc = pc] \in Request
             /\ GoodRequest([q EXCEPT !.pc = pc], flow, revoked')
  <2>1. [q EXCEPT !.pc = pc] \in Request
    BY <1>0 DEF Request
  <2>2. LET n == [q EXCEPT !.pc = pc] IN n.pc = pc /\ n.token = q.token /\ n.late = FALSE
    BY <1>0, <1>2, <1>3 DEF Request
  <2>3. q.token \in Flows /\ flow[q.token].pc = "in"
    BY <1>2, <1>3
  <2> QED BY <2>1, <2>2, <2>3 DEF GoodRequest
<1> HIDE DEF q
<1>4. CASE Becomes(r, Idle)
  BY <1>1, <1>4
<1>5. CASE CheckDevice(r)
  <2>1. q.pc = "sent" /\ q.token \in Flows /\ flow[q.token].pc = "in"
    BY <1>0, <1>5 DEF CheckDevice, GoodRequest, q
  <2>2. CASE User(r) \in revoked
    BY <1>4, <1>5, <2>2 DEF CheckDevice
  <2>3. CASE User(r) \notin revoked
    <3>1. q.late = FALSE
      BY <1>0, <2>3 DEF GoodRequest, User, q
    <3>2. [q EXCEPT !.pc = "active"] \in Request
      BY <1>0 DEF Request
    <3>3. LET n == [q EXCEPT !.pc = "active"] IN n.pc = "active" /\ n.token = q.token /\ n.late = FALSE
      BY <1>0, <3>1 DEF Request
    <3>4. GoodRequest([q EXCEPT !.pc = "active"], flow, revoked')
      BY <2>1, <3>3 DEF GoodRequest
    <3>5. Becomes(r, [q EXCEPT !.pc = "active"])
      BY <1>5, <2>3 DEF CheckDevice, q
    <3> QED BY <3>2, <3>4, <3>5
  <2> QED BY <2>2, <2>3
<1>6. CASE UseCache(r)
  <2>1. q.pc = "active" /\ (Becomes(r, Idle) \/ Becomes(r, [q EXCEPT !.pc = "granted"]))
    BY <1>6 DEF UseCache, q
  <2> QED BY <1>3, <1>4, <2>1
<1>7. CASE ReadTable(r)
  <2> DEFINE n == [q EXCEPT !.pc = "fill", !.row = table[User(r)]]
  <2>1. q.pc = "active" /\ (Becomes(r, Idle) \/ Becomes(r, n))
    BY <1>7 DEF ReadTable, q
  <2>2. q.late = FALSE /\ q.token \in Flows /\ flow[q.token].pc = "in"
    BY <1>2, <2>1
  <2>3. User(r) \in Users
    BY <2>2 DEF User, q, AccountInv, FlowInv, Good, Gone
  <2>4. table[User(r)] \in Flows \cup {0}
    BY <2>3 DEF AccountInv, AccountTypeOK, ServerTypeOK
  <2>5. n \in Request
    BY <1>0, <2>4 DEF Request
  <2>6. n.pc = "fill" /\ n.token = q.token /\ n.late = FALSE
    BY <1>0, <2>2 DEF Request
  <2>7. GoodRequest(n, flow, revoked')
    BY <2>2, <2>6 DEF GoodRequest
  <2> HIDE DEF n
  <2> QED BY <1>4, <2>1, <2>5, <2>7
<1>8. CASE FillCache(r)
  <2>1. q.pc = "fill" /\ (Becomes(r, Idle) \/ Becomes(r, [q EXCEPT !.pc = "granted"]))
    BY <1>8 DEF FillCache, q
  <2> QED BY <1>3, <1>4, <2>1
<1>9. CASE MarkRevoked(r)
  <2>1. q.pc = "granted" /\ Becomes(r, [q EXCEPT !.pc = "drop"])
    BY <1>9 DEF MarkRevoked, q
  <2> QED BY <1>3, <2>1
<1>10. CASE DropFromCache(r)
  <2>1. q.pc = "drop" /\ Becomes(r, [q EXCEPT !.pc = "erase"])
    BY <1>10 DEF DropFromCache, q
  <2> QED BY <1>3, <2>1
<1>11. CASE Use(r) \/ ChangePassword(r) \/ EraseFromTable(r) \/ RequestFails(r)
  BY <1>4, <1>11 DEF Use, ChangePassword, EraseFromTable, RequestFails
<1> QED BY <1>5, <1>6, <1>7, <1>8, <1>9, <1>10, <1>11 DEF RequestStep

\* What it does to the tables.
LEMMA RequestStepTables ==
  ASSUME AccountInv, NEW r \in Requests, RequestStep(r)
  PROVE  /\ account' \in [Users -> [ident : Gens \cup {0}, creds : Creds]]
         /\ revoked' \subseteq Users /\ revoked \subseteq revoked'
         /\ challenge' \in [Users -> Flows \cup {0}]
         /\ cache' \in [Users -> Flows \cup {0}] /\ table' \in [Users -> Flows \cup {0}]
         /\ flow' = flow /\ faults' \in 0 .. MaxFaults
<1>0. /\ account \in [Users -> [ident : Gens \cup {0}, creds : Creds]] /\ revoked \subseteq Users
      /\ challenge \in [Users -> Flows \cup {0}]
      /\ cache \in [Users -> Flows \cup {0}] /\ table \in [Users -> Flows \cup {0}]
      /\ faults \in 0 .. MaxFaults /\ request[r] \in Request
  BY DEF AccountInv, AccountTypeOK, ServerTypeOK
<1>1. request[r].pc # "idle" => User(r) \in Users
  BY DEF User, AccountInv, FlowInv, Good, Gone, RequestInv, GoodRequest
<1>2. account' \in [Users -> [ident : Gens \cup {0}, creds : Creds]]
  <2>1. Garbled \in Creds
    BY CredentialsAssumption DEF Garbled, Creds, Salts
  <2>2. CASE ChangePassword(r)
    BY <1>0, <2>1, <2>2 DEF ChangePassword
  <2>3. CASE ~ ChangePassword(r)
    BY <1>0, <2>3 DEF RequestStep, CheckDevice, UseCache, ReadTable, FillCache, Use, MarkRevoked,
       DropFromCache, EraseFromTable, RequestFails, tables
  <2> QED BY <2>2, <2>3
<1>3. revoked' \subseteq Users /\ revoked \subseteq revoked'
  <2>1. CASE MarkRevoked(r)
    BY <1>0, <1>1, <2>1 DEF MarkRevoked
  <2>2. CASE ~ MarkRevoked(r)
    BY <1>0, <2>2 DEF RequestStep, CheckDevice, UseCache, ReadTable, FillCache, Use,
       ChangePassword, DropFromCache, EraseFromTable, RequestFails, tables
  <2> QED BY <2>1, <2>2
<1>4. /\ challenge' \in [Users -> Flows \cup {0}]
      /\ cache' \in [Users -> Flows \cup {0}] /\ table' \in [Users -> Flows \cup {0}]
      /\ flow' = flow
  BY <1>0 DEF RequestStep, CheckDevice, UseCache, ReadTable, FillCache, Use, Request,
     ChangePassword, MarkRevoked, DropFromCache, EraseFromTable, RequestFails, tables
<1>5. faults' \in 0 .. MaxFaults
  BY <1>0, ServerAuthAssumption
     DEF RequestStep, CheckDevice, UseCache, ReadTable, FillCache, Use,
     ChangePassword, MarkRevoked, DropFromCache, EraseFromTable, RequestFails, Fault
<1> QED BY <1>2, <1>3, <1>4, <1>5

LEMMA ServerRequest ==
  ASSUME AccountInv, NEW r \in Requests, RequestStep(r), UNCHANGED <<keystoreVars, appVars>>
  PROVE  AccountInv'
<1>1. PICK q \in Request : Becomes(r, q) /\ GoodRequest(q, flow, revoked')
  BY RequestStepBecomes
<1>2. revoked \subseteq revoked' /\ flow' = flow
  BY RequestStepTables
<1>3. request' \in [Requests -> Request] /\ request'[r] = q
      /\ \A o \in Requests : o # r => request'[o] = request[o]
  BY <1>1 DEF Becomes, AccountInv, AccountTypeOK, ServerTypeOK
<1>4. ServerTypeOK'
  BY <1>3, RequestStepTables DEF AccountInv, AccountTypeOK, ServerTypeOK
<1>5. AccountTypeOK'
  BY <1>4 DEF AccountInv, AccountTypeOK, KeystoreTypeOK, keystoreVars, appVars
<1>6. FlowsAdvance /\ SessionsStay
  BY <1>2, UnchangedAdvances, AdvancingSessionsStay
<1>7. FlowInv'
  BY <1>2 DEF AccountInv, FlowInv, Good
<1>8. RequestInv'
  <2>1. \A o \in Requests : GoodRequest(request[o], flow, revoked) /\ request[o].late \in BOOLEAN
    BY DEF AccountInv, RequestInv, AccountTypeOK, ServerTypeOK, Request
  <2>2. \A o \in Requests : GoodRequest(request[o], flow', revoked')
    BY <1>2, <1>6, <2>1, RequestsStay
  <2> QED BY <1>1, <1>2, <1>3, <2>2 DEF RequestInv
<1> QED BY <1>5, <1>6, <1>7, <1>8, QuietKeeps DEF keystoreVars, appVars

LEMMA SendKeeps ==
  ASSUME AccountInv, NEW r \in Requests, SendRequest(r)
  PROVE  AccountInv'
<1> DEFINE q == [pc |-> "sent", token |-> token, row |-> 0, late |-> flow[token].user \in revoked]
<1>1. token \in Flows /\ flow[token].pc = "in"
  BY DEF SendRequest, AccountInv, AccountTypeOK, TokenInv
<1>2. Becomes(r, q) /\ flow' = flow /\ UNCHANGED <<tables, faults, keystoreVars, appVars>>
  BY DEF SendRequest, Send
<1>3. q \in Request
  BY <1>1 DEF Request
<1>4. GoodRequest(q, flow, revoked')
  <2>1. q.pc = "sent" /\ q.token = token /\ (q.late => flow[token].user \in revoked)
    OBVIOUS
  <2> HIDE DEF q
  <2> QED BY <1>1, <1>2, <2>1 DEF GoodRequest, tables
<1> HIDE DEF q
<1>5. request' \in [Requests -> Request] /\ request'[r] = q
      /\ \A o \in Requests : o # r => request'[o] = request[o]
  BY <1>2, <1>3 DEF Becomes, AccountInv, AccountTypeOK, ServerTypeOK
<1>6. AccountTypeOK'
  BY <1>2, <1>5 DEF AccountInv, AccountTypeOK, ServerTypeOK, KeystoreTypeOK, keystoreVars,
     appVars, tables
<1>7. FlowsAdvance
  BY <1>2, UnchangedAdvances
<1>8. FlowInv' /\ RequestInv'
  BY <1>2, <1>4, <1>5 DEF AccountInv, FlowInv, RequestInv, tables
<1> QED BY <1>2, <1>6, <1>7, <1>8, QuietKeeps DEF keystoreVars, appVars

LEMMA RestartKeeps ==
  ASSUME AccountInv, ServerRestarts, UNCHANGED <<keystoreVars, appVars>>
  PROVE  AccountInv'
<1>0. flow \in [Flows -> Attempt] /\ \A f \in Flows : Good(f, flow[f], revoked)
  BY DEF AccountInv, AccountTypeOK, ServerTypeOK, FlowInv
<1>1. ASSUME NEW f \in Flows
      PROVE  flow'[f] \in Attempt /\ Good(f, flow'[f], revoked) /\ Advances(flow[f], flow'[f])
  <2> DEFINE a == [flow[f] EXCEPT !.pc = "refused"]
  <2>1. CASE flow[f].pc \in {"read", "checked", "taken", "storing"}
    <3>1. flow'[f] = Rest(a)
      BY <2>1 DEF ServerRestarts
    <3>2. a \in Attempt /\ a.pc = "refused"
      BY <1>0 DEF Attempt
    <3> HIDE DEF a
    <3>3. Rest(a) \in Attempt /\ Rest(a).pc \in {"refused", "over"} /\ Rest(a).late = FALSE
      BY <3>2, RestEnds
    <3> QED BY <2>1, <3>1, <3>3 DEF Good, Gone, Advances
  <2>2. CASE flow[f].pc \notin {"read", "checked", "taken", "storing"}
    <3>1. flow'[f] = flow[f]
      BY <2>2 DEF ServerRestarts
    <3> QED BY <1>0, <3>1 DEF Good, Advances, Stays
  <2> QED BY <2>1, <2>2
<1>2. UNCHANGED <<account, revoked, challenge, table>> /\ flow' = [f \in Flows |-> flow'[f]]
      /\ cache' = [u \in Users |-> 0]
  BY DEF ServerRestarts
<1>3. faults' \in 0 .. MaxFaults
  BY ServerAuthAssumption DEF AccountInv, AccountTypeOK, ServerTypeOK, ServerRestarts, Fault
<1>4. flow' \in [Flows -> Attempt] /\ FlowsAdvance /\ FlowInv'
  BY <1>1, <1>2 DEF FlowsAdvance, FlowInv
<1>5. SessionsStay
  BY <1>4, AdvancingSessionsStay
<1>6. request' \in [Requests -> Request] /\ RequestInv'
  <2>1. \A r \in Requests : /\ request[r] \in Request /\ GoodRequest(request[r], flow, revoked)
                            /\ request[r].late \in BOOLEAN
    BY DEF AccountInv, RequestInv, AccountTypeOK, ServerTypeOK, Request
  <2>2. \A r \in Requests : GoodRequest(request[r], flow', revoked')
    BY <1>2, <1>5, <2>1, RequestsStay
  <2>3. \A r \in Requests : request'[r] = request[r] \/ request'[r] = Idle
    BY DEF ServerRestarts
  <2>4. request' = [r \in Requests |-> request'[r]]
    BY DEF ServerRestarts
  <2> QED BY <2>1, <2>2, <2>3, <2>4, IdleIsGood DEF RequestInv
<1>7. AccountTypeOK'
  BY <1>2, <1>3, <1>4, <1>6 DEF AccountInv, AccountTypeOK, ServerTypeOK, KeystoreTypeOK,
     keystoreVars, appVars
<1> QED BY <1>4, <1>6, <1>7, QuietKeeps DEF keystoreVars, appVars

-------------------------------------------------------------------------------
(* Registration *)

\* A step that touches neither attempts nor requests has only types to keep.
LEMMA AppKeeps ==
  ASSUME AccountInv, AccountTypeOK', flow' = flow, revoked' = revoked, request' = request
  PROVE  FlowInv' /\ RequestInv' /\ FlowsAdvance
<1>1. FlowsAdvance /\ SessionsStay
  BY UnchangedAdvances, AdvancingSessionsStay
<1>2. FlowInv'
  BY DEF AccountInv, FlowInv
<1> QED BY <1>1, <1>2, UnchangedRequests

LEMMA RegistrationKeeps ==
  ASSUME AccountInv, NEW g \in 1 .. Len(gens),
         RegisterArrives(g) \/ Registered(g) \/ NotRegistered(g)
  PROVE  AccountInv'
<1>0. /\ KeystoreTypeOK /\ ServerTypeOK /\ posted \in [Gens -> Posting] /\ signUps \subseteq Users
      /\ logins \in Seq([user : Users, word : Passwords]) /\ Len(logins) <= MaxWaiting
      /\ deviceId \in [Users -> Users \cup {Nobody}]
  BY DEF AccountInv, AccountTypeOK
<1>1. g \in Gens /\ gens[g] \in [user : Users, word : Passwords]
  <2>1. gens \in Seq([user : Users, word : Passwords]) /\ Len(gens) <= MaxGens /\ MaxGens \in Nat
    BY <1>0, CredentialsAssumption DEF KeystoreTypeOK
  <2>2. Len(gens) \in Nat /\ gens[g] \in [user : Users, word : Passwords]
    BY <2>1, ElementOfSeq, LenProperties
  <2> QED BY <2>1, <2>2 DEF Gens
<1>2. posted' \in [Gens -> Posting]
  BY <1>0 DEF RegisterArrives, Registered, NotRegistered, Posting, Leave
<1>3. account' \in [Users -> [ident : Gens \cup {0}, creds : Creds]]
  <2>1. [ident |-> g, creds |-> [salt |-> g, word |-> gens[g].word]]
          \in [ident : Gens \cup {0}, creds : Creds]
    BY <1>1, CredentialsAssumption DEF Creds, Salts, Gens
  <2>2. CASE Insert(gens[g].user, g, gens[g].word)
    BY <1>0, <2>1, <2>2 DEF Insert, ServerTypeOK
  <2>3. CASE account' = account
    BY <1>0, <2>3 DEF ServerTypeOK
  <2> QED BY <2>2, <2>3 DEF RegisterArrives, Registered, NotRegistered, serverVars
<1>4. deviceId' \in [Users -> Users \cup {Nobody}] /\ signUps' \subseteq Users
  BY <1>0, <1>1 DEF RegisterArrives, Registered, NotRegistered
<1>5. /\ UNCHANGED <<keystoreVars, revoked, challenge, cache, table, flow, request, faults>>
      /\ UNCHANGED <<up, logins, active, token, current>>
  BY DEF RegisterArrives, Registered, NotRegistered, serverVars
<1>6. AccountTypeOK'
  BY <1>0, <1>2, <1>3, <1>4, <1>5 DEF AccountInv, AccountTypeOK, ServerTypeOK, KeystoreTypeOK,
     keystoreVars
<1>7. FlowInv' /\ RequestInv' /\ FlowsAdvance
  BY <1>5, <1>6, AppKeeps
<1> QED BY <1>5, <1>6, <1>7, QuietKeeps DEF keystoreVars

LEMMA DeleteKeeps ==
  ASSUME AccountInv, DeleteDirectory
  PROVE  AccountInv'
<1>1. UNCHANGED <<gens, mem, serverVars, appVars>> /\ disk' = NoFiles
  BY DEF DeleteDirectory
<1>2. AccountTypeOK'
  <2>1. KeystoreTypeOK'
    BY <1>1 DEF AccountInv, AccountTypeOK, KeystoreTypeOK, NoFiles
  <2>2. ServerTypeOK'
    BY <1>1 DEF AccountInv, AccountTypeOK, ServerTypeOK, serverVars
  <2> QED BY <1>1, <2>1, <2>2 DEF AccountInv, AccountTypeOK, appVars
<1>3. FlowInv' /\ RequestInv' /\ FlowsAdvance
  BY <1>1, <1>2, AppKeeps DEF serverVars
<1> QED BY <1>1, <1>2, <1>3, QuietKeeps DEF appVars

LEMMA UnknownKeeps ==
  ASSUME AccountInv, NEW u \in Users, LoginUnknown(u)
  PROVE  AccountInv'
<1>1. /\ UNCHANGED <<keystoreVars, serverVars, up, posted, signUps>>
      /\ UNCHANGED <<deviceId, active, token, current>>
      /\ logins' = <<>>
  BY DEF LoginUnknown, AllFail
<1>2. logins' \in Seq([user : Users, word : Passwords]) /\ Len(logins') <= MaxWaiting
  BY <1>1, AccountAssumption, EmptySeq
<1>3. AccountTypeOK'
  BY <1>1, <1>2
  DEF AccountInv, AccountTypeOK, ServerTypeOK, KeystoreTypeOK, serverVars, keystoreVars
<1>4. FlowInv' /\ RequestInv' /\ FlowsAdvance
  BY <1>1, <1>3, AppKeeps DEF serverVars
<1> QED BY <1>1, <1>3, <1>4, QuietKeeps DEF keystoreVars

LEMMA ErrorKeeps ==
  ASSUME AccountInv, NEW f \in Flows, LoginError(f)
  PROVE  AccountInv'
<1> DEFINE a == [flow[f] EXCEPT !.hears = FALSE]
<1>1. /\ UNCHANGED <<keystoreVars, tables, request, faults, up, posted, signUps, deviceId, active,
                     token, current>>
      /\ logins' = <<>> /\ Moves(f, a) /\ flow[f].pc \notin {"in", "over"}
  BY DEF LoginError, AllFail, At
<1>2. Good(f, flow[f], revoked) /\ flow[f] \in Attempt
  BY DEF AccountInv, FlowInv, Good
<1>a. a \in Attempt
  BY <1>2 DEF Attempt
<1>b. /\ a.pc = flow[f].pc /\ a.user = flow[f].user /\ a.device = flow[f].device
      /\ a.word = flow[f].word /\ a.proof = flow[f].proof
  BY <1>2 DEF Attempt
<1>c. a.late = flow[f].late
  BY <1>2 DEF Attempt
<1>3. Good(f, a, revoked) /\ Advances(flow[f], a)
  <2> HIDE DEF a
  <2>1. Good(f, a, revoked)
    BY <1>2, <1>a, <1>b, <1>c DEF Good
  <2> QED BY <2>1, <1>b DEF Advances, Stays
<1>4. Leads(f, Rest(a))
  BY <1>1, <1>3, MovesLeads
<1>5. flow' \in [Flows -> Attempt] /\ FlowInv' /\ FlowsAdvance
  BY <1>1, <1>4, LeadsKeeps DEF AccountInv, AccountTypeOK, ServerTypeOK, tables
<1>6. logins' \in Seq([user : Users, word : Passwords]) /\ Len(logins') <= MaxWaiting
  BY <1>1, AccountAssumption, EmptySeq
<1>7. AccountTypeOK'
  BY <1>1, <1>5, <1>6
  DEF AccountInv, AccountTypeOK, ServerTypeOK, KeystoreTypeOK, tables, keystoreVars
<1>8. RequestInv'
  BY <1>1, <1>5, UnchangedRequests, AdvancingSessionsStay DEF tables
<1> QED BY <1>1, <1>5, <1>7, <1>8, QuietKeeps DEF keystoreVars

\* Nobody is signed in where no user is.
LEMMA SignedOut == current' = Nobody => SignedInAsVerified'
  BY DEF SignedInAsVerified

\* Memory that holds no attempt is as good as none.
LEMMA Forgets ==
  ASSUME mem' = NoMemory
  PROVE  ProofInv' /\ AttemptInv' /\ DownInv' /\ VerifiedBeforeCached'
<1>1. mem'.proof = NoProof /\ mem'.srp = 0 /\ mem'.cached = NoKey
  BY DEF NoMemory
<1> QED BY <1>1 DEF ProofInv, AttemptInv, DownInv, VerifiedBeforeCached

LEMMA NoMemoryTyped == NoMemory \in Memory
  BY DEF NoMemory, Memory

LEMMA DiesKeeps ==
  ASSUME AccountInv, ServiceDies
  PROVE  AccountInv'
<1>1. /\ mem' = NoMemory /\ up' = FALSE
      /\ UNCHANGED <<gens, disk, tables, flow, request, posted, signUps, logins, deviceId, active,
                     token, current>>
  BY DEF ServiceDies
<1>2. faults' \in 0 .. MaxFaults
  BY ServerAuthAssumption DEF AccountInv, AccountTypeOK, ServerTypeOK, ServiceDies, Fault
<1>3. AccountTypeOK'
  <2>1. KeystoreTypeOK'
    BY <1>1, NoMemoryTyped DEF AccountInv, AccountTypeOK, KeystoreTypeOK
  <2>2. ServerTypeOK'
    BY <1>1, <1>2 DEF AccountInv, AccountTypeOK, ServerTypeOK, tables
  <2> QED BY <1>1, <2>1, <2>2 DEF AccountInv, AccountTypeOK
<1>4. FlowInv' /\ RequestInv'
  BY <1>1, <1>3, AppKeeps DEF tables
<1>5. TokenInv'
  BY <1>1 DEF AccountInv, TokenInv
<1>6. SignedInAsVerified'
  <2>1. /\ current' # Nobody => token' # 0 /\ flow'[token'].pc = "in" /\ active' = flow'[token'].user
        /\ ~ up'
    BY <1>1 DEF AccountInv, SignedInAsVerified
  <2> QED BY <2>1 DEF SignedInAsVerified
<1> QED BY <1>1, <1>3, <1>4, <1>5, <1>6, Forgets DEF AccountInv

LEMMA AppRestartKeeps ==
  ASSUME AccountInv, AppRestarts
  PROVE  AccountInv'
<1>1. /\ mem' = NoMemory /\ up' = TRUE /\ token' = 0 /\ current' = Nobody /\ active' = Nobody
      /\ signUps' = {} /\ logins' = <<>>
      /\ UNCHANGED <<gens, disk, tables, request, deviceId>>
  BY DEF AppRestarts
<1>2. faults' \in 0 .. MaxFaults
  BY ServerAuthAssumption DEF AccountInv, AccountTypeOK, ServerTypeOK, AppRestarts, Fault
<1>3. ASSUME NEW f \in Flows
      PROVE  Good(f, flow'[f], revoked) /\ Advances(flow[f], flow'[f])
  <2> DEFINE a == [flow[f] EXCEPT !.hears = FALSE]
  <2>0. Good(f, flow[f], revoked) /\ flow[f] \in Attempt
    BY DEF AccountInv, FlowInv, Good
  <2>1. a \in Attempt
    BY <2>0 DEF Attempt
  <2>2. /\ a.pc = flow[f].pc /\ a.user = flow[f].user /\ a.device = flow[f].device
        /\ a.word = flow[f].word /\ a.proof = flow[f].proof
    BY <2>0 DEF Attempt
  <2>3. a.late = flow[f].late
    BY <2>0 DEF Attempt
  <2>4. flow'[f] = Rest(a)
    BY DEF AppRestarts
  <2> HIDE DEF a
  <2>5. Good(f, a, revoked)
    BY <2>0, <2>1, <2>2, <2>3 DEF Good
  <2>6. Advances(flow[f], a)
    BY <2>2 DEF Advances, Stays
  <2> QED BY <2>1, <2>4, <2>5, <2>6, GoodRest, AdvancesRest
<1>4. flow' = [f \in Flows |-> flow'[f]]
  BY DEF AppRestarts
<1>5. flow' \in [Flows -> Attempt] /\ FlowInv' /\ FlowsAdvance
  BY <1>1, <1>3, <1>4 DEF FlowInv, FlowsAdvance, Good, tables
<1>6. posted' \in [Gens -> Posting]
  <2>1. posted' = [g \in Gens |-> Leave(posted[g])] /\ posted \in [Gens -> Posting]
    BY DEF AppRestarts, AccountInv, AccountTypeOK
  <2> QED BY <2>1 DEF Leave, Posting
<1>7. AccountTypeOK'
  <2>1. KeystoreTypeOK'
    BY <1>1, NoMemoryTyped DEF AccountInv, AccountTypeOK, KeystoreTypeOK
  <2>2. ServerTypeOK'
    BY <1>1, <1>2, <1>5 DEF AccountInv, AccountTypeOK, ServerTypeOK, tables
  <2>3. logins' \in Seq([user : Users, word : Passwords]) /\ Len(logins') <= MaxWaiting
    BY <1>1, AccountAssumption, EmptySeq
  <2> QED BY <1>1, <1>6, <2>1, <2>2, <2>3 DEF AccountInv, AccountTypeOK
<1>8. RequestInv'
  BY <1>1, <1>5, UnchangedRequests, AdvancingSessionsStay DEF tables
<1> QED BY <1>1, <1>5, <1>7, <1>8, Forgets, SignedOut DEF AccountInv, TokenInv

LEMMA LogoutKeeps ==
  ASSUME AccountInv, Logout
  PROVE  AccountInv'
<1>1. /\ current # Nobody /\ current' = Nobody /\ token' = 0 /\ active' = Nobody
      /\ UNCHANGED <<keystoreVars, serverVars, up, posted, signUps, logins, deviceId>>
  BY DEF Logout
<1>2. AccountTypeOK'
  BY <1>1 DEF AccountInv, AccountTypeOK, ServerTypeOK, KeystoreTypeOK, serverVars, keystoreVars
<1>3. FlowInv' /\ RequestInv'
  BY <1>1, <1>2, AppKeeps DEF serverVars
<1>4. mem' = mem /\ mem.srp = 0 /\ up' = up /\ flow' = flow
  BY <1>1 DEF AccountInv, AttemptInv, keystoreVars, serverVars
<1>5. ProofInv' /\ AttemptInv' /\ DownInv' /\ VerifiedBeforeCached'
  BY <1>4 DEF AccountInv, ProofInv, AttemptInv, DownInv, VerifiedBeforeCached
<1> QED BY <1>1, <1>2, <1>3, <1>5, SignedOut DEF AccountInv, TokenInv

\* What generate_identity_bundle does, if all of it or only part.
LEMMA Generated ==
  ASSUME AccountInv, NEW u \in Users, NEW word \in Passwords,
         \/ Generate(u, word) \/ GenerateStops(u, word, FALSE) \/ GenerateStops(u, word, TRUE)
  PROVE  KeystoreTypeOK' /\ NewGen \in Gens /\ (SameLogin \/ mem' = NoMemory)
<1>0. /\ gens \in Seq([user : Users, word : Passwords]) /\ Len(gens) <= MaxGens
      /\ mem \in Memory
  BY DEF AccountInv, AccountTypeOK, KeystoreTypeOK
<1>1. /\ NewGen \in Gens /\ gens' = Append(gens, [user |-> u, word |-> word])
      /\ disk' \in {[salt |-> NewGen, ident |-> NewGen], [salt |-> NewGen, ident |-> 0]}
      /\ \/ mem' = [mem EXCEPT !.store = [word |-> word, salt |-> NewGen], !.bundle = NewGen]
         \/ mem' = [mem EXCEPT !.store = [word |-> word, salt |-> NewGen]]
         \/ mem' = NoMemory
  BY DEF Generate, GenerateStops, Generates
<1>2. gens' \in Seq([user : Users, word : Passwords]) /\ Len(gens') <= MaxGens
  <2>1. Len(gens') = NewGen /\ gens' \in Seq([user : Users, word : Passwords])
    BY <1>0, <1>1, AppendProperties DEF NewGen
  <2> QED BY <1>1, <2>1, CredentialsAssumption DEF Gens
<1>3. mem' \in Memory /\ (SameLogin \/ mem' = NoMemory)
  <2>1. [word |-> word, salt |-> NewGen] \in Key /\ NewGen \in Gens
    BY <1>1, CredentialsAssumption DEF Key, Gens, Salts
  <2> QED BY <1>0, <1>1, <2>1, NoMemoryTyped DEF Memory, SameLogin
<1> QED BY <1>1, <1>2, <1>3 DEF KeystoreTypeOK

LEMMA SignUpKeeps ==
  ASSUME AccountInv, NEW u \in Users, NEW word \in Passwords,
         SignUp(u, word) \/ SignUpStops(u, word)
  PROVE  AccountInv'
<1>1. /\ current = Nobody
      /\ UNCHANGED <<tables, flow, request, logins, deviceId, active, token, current>>
  BY DEF SignUp, SignUpStops, serverVars, tables
<1>2. KeystoreTypeOK' /\ NewGen \in Gens /\ (SameLogin \/ mem' = NoMemory)
  BY Generated DEF SignUp, SignUpStops
<1>3. faults' \in 0 .. MaxFaults
  <2>1. faults \in 0 .. MaxFaults /\ MaxFaults \in Nat
    BY ServerAuthAssumption DEF AccountInv, AccountTypeOK, ServerTypeOK
  <2>2. faults' = faults \/ Fault
    BY DEF SignUp, SignUpStops, serverVars
  <2> QED BY <2>1, <2>2 DEF Fault
<1>4. posted' \in [Gens -> Posting] /\ signUps' \subseteq Users
  <2>1. posted \in [Gens -> Posting] /\ signUps \subseteq Users /\ "sent" \in Posting
    BY DEF AccountInv, AccountTypeOK, Posting
  <2> QED BY <1>2, <2>1 DEF SignUp, SignUpStops
<1>5. up' \in BOOLEAN
  BY DEF AccountInv, AccountTypeOK, SignUp, SignUpStops
<1>6. AccountTypeOK'
  <2>2. ServerTypeOK'
    BY <1>1, <1>3 DEF AccountInv, AccountTypeOK, ServerTypeOK, tables
  <2> QED BY <1>1, <1>2, <1>4, <1>5, <2>2 DEF AccountInv, AccountTypeOK
<1>7. FlowInv' /\ RequestInv' /\ FlowsAdvance
  BY <1>1, <1>6, AppKeeps DEF tables
<1>8. TokenInv'
  BY <1>1 DEF AccountInv, TokenInv
<1>9. DownInv'
  <2>1. up' = TRUE \/ mem' = NoMemory
    BY DEF SignUp, SignUpStops, GenerateStops
  <2> QED BY <2>1 DEF DownInv
<1>10. ProofInv' /\ AttemptInv' /\ VerifiedBeforeCached'
  BY <1>1, <1>2, <1>7, SameLoginStays, Forgets
<1> QED BY <1>1, <1>6, <1>7, <1>8, <1>9, <1>10, SignedOut DEF AccountInv

-------------------------------------------------------------------------------
(* Login *)

LEMMA LoginKeeps ==
  ASSUME AccountInv, NEW f \in Flows, NEW u \in Users, NEW word \in Passwords, Login(f, u, word)
  PROVE  AccountInv'
<1>0. /\ mem \in Memory /\ flow \in [Flows -> Attempt]
      /\ logins \in Seq([user : Users, word : Passwords]) /\ Len(logins) <= MaxWaiting
      /\ deviceId \in [Users -> Users \cup {Nobody}] /\ \A g \in Flows : Good(g, flow[g], revoked)
  BY DEF AccountInv, AccountTypeOK, KeystoreTypeOK, ServerTypeOK, FlowInv
<1>1. /\ current = Nobody /\ flow[f].pc = "none" /\ Len(logins) < MaxWaiting
      /\ active' = deviceId[u] /\ deviceId[u] \in Users
      /\ UNCHANGED <<gens, disk, tables, request, faults, up, posted, signUps, deviceId, token,
                     current>>
  BY <1>0 DEF Login, NextFlow, At
<1>2. CASE ~ up
  <2>1. mem' = mem /\ flow' = flow /\ logins' = <<>> /\ mem = NoMemory
    BY <1>2 DEF Login, AccountInv, DownInv
  <2>2. logins' \in Seq([user : Users, word : Passwords]) /\ Len(logins') <= MaxWaiting
    BY <2>1, AccountAssumption, EmptySeq
  <2>3. AccountTypeOK'
    BY <1>1, <2>1, <2>2 DEF AccountInv, AccountTypeOK, ServerTypeOK, KeystoreTypeOK, tables
  <2>4. FlowInv' /\ RequestInv'
    BY <1>1, <2>1, <2>3, AppKeeps DEF tables
  <2>5. TokenInv'
    BY <1>1, <2>1 DEF AccountInv, TokenInv
  <2> QED BY <1>1, <2>1, <2>3, <2>4, <2>5, Forgets, SignedOut DEF AccountInv
<1>3. CASE up
  <2> DEFINE a(heard) == [NoAttempt EXCEPT !.pc = IF heard THEN "init" ELSE "over",
                            !.user = u, !.device = deviceId[u], !.word = word,
                            !.hears = heard, !.late = u \in revoked]
  <2>1. PICK heard \in BOOLEAN : /\ Moves(f, a(heard))
                                 /\ logins' = IF heard THEN Append(logins, [user |-> u, word |-> word])
                                                       ELSE <<>>
    BY <1>3 DEF Login
  <2>2. mem' = SrpStarted(mem, f, word)
    BY <1>3 DEF Login
  <2>3. /\ mem' \in Memory /\ mem'.srp = f /\ mem'.proof = NoProof /\ mem'.password = word
        /\ mem'.cached = NoKey
    BY <1>0, <2>2 DEF SrpStarted, Memory
  <2>4. f # 0 /\ word # NoPassword
    BY CredentialsAssumption DEF Flows
  <2>5. logins' \in Seq([user : Users, word : Passwords]) /\ Len(logins') <= MaxWaiting
        /\ (logins' # <<>> => logins'[Len(logins')].word = word)
    <3>1. CASE heard
      <4>1. /\ logins' = Append(logins, [user |-> u, word |-> word])
            /\ [user |-> u, word |-> word] \in [user : Users, word : Passwords]
        BY <2>1, <3>1
      <4>2. /\ logins' \in Seq([user : Users, word : Passwords]) /\ Len(logins') = Len(logins) + 1
            /\ logins'[Len(logins) + 1] = [user |-> u, word |-> word]
        BY <1>0, <4>1, AppendProperties
      <4>3. Len(logins) \in Nat
        BY <1>0, LenProperties
      <4> QED BY <1>1, <4>2, <4>3, AccountAssumption
    <3>2. CASE ~ heard
      BY <2>1, <3>2, AccountAssumption, EmptySeq
    <3> QED BY <3>1, <3>2
  <2>6. /\ flow' \in [Flows -> Attempt] /\ Good(f, flow'[f], revoked)
        /\ \A g \in Flows : g # f => flow'[g] = flow[g]
        /\ flow'[f].pc \notin Gone => flow'[f].device = deviceId[u] /\ flow'[f].word = word
    <3>0. NoAttempt \in Attempt
      BY NoAttemptTyped
    <3>1. a(heard) \in Attempt
      <4> DEFINE pc == IF heard THEN "init" ELSE "over"
                 late == u \in revoked
      <4>1. pc \in {"init", "over"} /\ late \in BOOLEAN
        OBVIOUS
      <4>2. a(heard) = [NoAttempt EXCEPT !.pc = pc, !.user = u, !.device = deviceId[u],
                          !.word = word, !.hears = heard, !.late = late]
        OBVIOUS
      <4> HIDE DEF pc, late
      <4>3. [NoAttempt EXCEPT !.pc = pc, !.user = u, !.device = deviceId[u],
               !.word = word, !.hears = heard, !.late = late] \in Attempt
        BY <1>1, <3>0, <4>1 DEF Attempt
      <4> QED BY <4>2, <4>3
    <3>2. Good(f, Rest(a(heard)), revoked) /\ Rest(a(heard)) \in Attempt
          /\ (Rest(a(heard)).pc \notin Gone =>
                Rest(a(heard)).device = deviceId[u] /\ Rest(a(heard)).word = word)
      <4>1. CASE heard
        <5> DEFINE n == a(heard)
        <5>1. n.pc = "init" /\ n.user = u /\ n.device = deviceId[u] /\ n.word = word
          BY <4>1 DEF NoAttempt
        <5>2. n.late => u \in revoked
          BY DEF NoAttempt
        <5> HIDE DEF n
        <5>3. Good(f, n, revoked)
          BY <1>1, <3>1, <5>1, <5>2 DEF Good, n
        <5>4. Rest(n) = n
          BY <5>1 DEF Rest
        <5> QED BY <3>1, <5>1, <5>3, <5>4 DEF n
      <4>2. CASE ~ heard
        <5>1. a(heard).pc = "over"
          BY <4>2 DEF NoAttempt
        <5> HIDE DEF a
        <5>2. Rest(a(heard)) \in Attempt /\ Rest(a(heard)).pc \in {"refused", "over"}
              /\ Rest(a(heard)).late = FALSE
          BY <3>1, <5>1, RestEnds
        <5> QED BY <5>2 DEF Good, Gone
      <4> QED BY <4>1, <4>2
    <3> HIDE DEF a
    <3>3. flow' = [flow EXCEPT ![f] = Rest(a(heard))]
      BY <2>1 DEF Moves
    <3>4. flow'[f] = Rest(a(heard)) /\ \A g \in Flows : g # f => flow'[g] = flow[g]
      BY <1>0, <3>3
    <3>5. flow' \in [Flows -> Attempt]
      BY <1>0, <3>2, <3>3
    <3> QED BY <3>2, <3>4, <3>5
  <2> HIDE DEF a
  <2>7. AccountTypeOK'
    <3>1. KeystoreTypeOK'
      BY <1>1, <2>3 DEF AccountInv, AccountTypeOK, KeystoreTypeOK
    <3>2. ServerTypeOK'
      BY <1>1, <2>6 DEF AccountInv, AccountTypeOK, ServerTypeOK, tables
    <3> QED BY <1>1, <2>5, <3>1, <3>2 DEF AccountInv, AccountTypeOK
  <2>8. FlowInv'
    BY <1>0, <1>1, <2>6 DEF FlowInv, tables
  <2>9. SessionsStay
    BY <1>1, <2>6 DEF SessionsStay, Stays
  <2>10. RequestInv'
    BY <1>1, <2>9, UnchangedRequests DEF tables
  <2>11. ProofInv' /\ VerifiedBeforeCached'
    BY <2>3 DEF ProofInv, VerifiedBeforeCached
  <2>12. AttemptInv'
    <3>1. Secret' = word
      BY <2>3, <2>4 DEF Secret
    <3> QED BY <1>1, <2>3, <2>5, <2>6, <3>1 DEF AttemptInv
  <2>13. DownInv'
    BY <1>1, <1>3 DEF DownInv, AccountInv, AccountTypeOK
  <2>14. TokenInv'
    BY <1>1, <2>9 DEF AccountInv, AccountTypeOK, TokenInv, SessionsStay
  <2> QED BY <1>1, <2>7, <2>8, <2>10, <2>11, <2>12, <2>13, <2>14, SignedOut DEF AccountInv
<1> QED BY <1>2, <1>3

LEMMA ChallengedMemory ==
  ASSUME AccountInv, CanChallenge(mem), NEW salt \in Salts, NEW b \in Flows \cup {0},
         mem' = Challenged(mem, salt, b)
  PROVE  /\ mem' \in Memory /\ ProofInv' /\ mem'.srp = mem.srp /\ Secret' = Secret
         /\ mem'.cached = mem.cached /\ mem'.store = mem.store /\ mem'.bundle = mem.bundle
         /\ mem'.proof \in Proof /\ mem'.proof # NoProof
<1> DEFINE pf == [a |-> mem.srp, word |-> mem.password, salt |-> salt, b |-> b]
           key == [word |-> mem.password, salt |-> salt]
<1>0. mem \in Memory /\ mem.srp \in Flows /\ mem.password \in Passwords /\ mem.srp # 0
      /\ mem.password # NoPassword
  BY DEF AccountInv, AccountTypeOK, KeystoreTypeOK, Memory, CanChallenge
<1>1. pf \in Proof /\ pf # NoProof /\ key \in Key /\ pf.word = mem.password /\ pf.a = mem.srp
      /\ key = [word |-> pf.word, salt |-> pf.salt]
  BY <1>0 DEF Proof, NoProof, Key
<1>2. mem' = [mem EXCEPT !.proof = pf, !.staged = key, !.password = NoPassword]
  BY DEF Challenged
<1> HIDE DEF pf, key
<1>3. /\ mem' \in Memory /\ mem'.srp = mem.srp /\ mem'.proof = pf /\ mem'.staged = key
      /\ mem'.password = NoPassword
      /\ mem'.cached = mem.cached /\ mem'.store = mem.store /\ mem'.bundle = mem.bundle
  BY <1>0, <1>1, <1>2 DEF Memory
<1>4. Secret' = Secret
  BY <1>0, <1>1, <1>3 DEF Secret
<1>5. ProofInv'
  BY <1>0, <1>1, <1>3 DEF ProofInv
<1> QED BY <1>1, <1>3, <1>4, <1>5

LEMMA ChallengeKeeps ==
  ASSUME AccountInv, NEW f \in Flows, Challenge(f)
  PROVE  AccountInv'
<1>0. /\ mem \in Memory /\ flow \in [Flows -> Attempt] /\ Good(f, flow[f], revoked)
      /\ flow[f] \in Attempt /\ flow[f].pc = "challenged"
      /\ flow[f].salt \in Salts /\ flow[f].b \in Flows \cup {0}
  BY DEF AccountInv, AccountTypeOK, KeystoreTypeOK, ServerTypeOK, FlowInv, Good, Attempt,
         Challenge, At
<1>1. UNCHANGED <<gens, disk, tables, request, faults, up, posted, signUps, deviceId, active>>
      /\ token' = token /\ current' = current
  BY DEF Challenge, AllFail
<1>2. /\ mem' \in Memory /\ ProofInv' /\ mem'.srp = mem.srp /\ Secret' = Secret
      /\ mem'.cached = mem.cached /\ mem'.store = mem.store /\ mem'.bundle = mem.bundle
      /\ DownInv'
  <2>1. CASE up /\ CanChallenge(mem)
    <3>1. mem' = Challenged(mem, flow[f].salt, flow[f].b)
      BY <2>1 DEF Challenge
    <3>2. DownInv'
      BY <1>1, <2>1 DEF DownInv, AccountInv, AccountTypeOK
    <3> QED BY <1>0, <2>1, <3>1, <3>2, ChallengedMemory
  <2>2. CASE ~ (up /\ CanChallenge(mem))
    <3>1. mem' = mem
      BY <2>2 DEF Challenge
    <3>2. DownInv' /\ ProofInv' /\ Secret' = Secret
      BY <1>1, <3>1 DEF DownInv, ProofInv, Secret, AccountInv
    <3> QED BY <1>0, <3>1, <3>2
  <2> QED BY <2>1, <2>2
<1>3. logins' \in {logins, <<>>} /\ \E a : Leads(f, a)
  <2>1. CASE /\ up /\ CanChallenge(mem) /\ logins' = logins
             /\ mem' = Challenged(mem, flow[f].salt, flow[f].b)
             /\ Moves(f, [flow[f] EXCEPT !.pc = "proof", !.proof = mem'.proof])
    <3> DEFINE a == [flow[f] EXCEPT !.pc = "proof", !.proof = mem'.proof]
    <3>1. mem'.proof \in Proof
      BY <1>0, <2>1, ChallengedMemory
    <3>2. a \in Attempt
      BY <1>0, <3>1 DEF Attempt
    <3>3. /\ a.pc = "proof" /\ a.user = flow[f].user /\ a.device = flow[f].device
          /\ a.word = flow[f].word
      BY <1>0 DEF Attempt
    <3>4. a.late = flow[f].late
      BY <1>0 DEF Attempt
    <3>5. Moves(f, a)
      BY <2>1
    <3> HIDE DEF a
    <3>6. Good(f, a, revoked)
      BY <1>0, <3>2, <3>3, <3>4 DEF Good, Gone
    <3>7. Advances(flow[f], a)
      BY <1>0, <3>3 DEF Advances, Stays, Gone
    <3> QED BY <2>1, <3>5, <3>6, <3>7, MovesLeads
  <2>2. CASE Moves(f, [flow[f] EXCEPT !.pc = "over"]) /\ AllFail
    <3>1. [flow[f] EXCEPT !.pc = "over"] \in Attempt /\ [flow[f] EXCEPT !.pc = "over"].pc = "over"
      BY <1>0 DEF Attempt
    <3> QED BY <1>0, <2>2, <3>1, EndLeads DEF AllFail
  <2>3. PICK heard \in BOOLEAN :
          IF up /\ CanChallenge(mem) /\ heard
          THEN /\ Moves(f, [flow[f] EXCEPT !.pc = "proof", !.proof = mem'.proof])
               /\ UNCHANGED <<logins, token, current>>
          ELSE Moves(f, [flow[f] EXCEPT !.pc = "over"]) /\ AllFail
    BY DEF Challenge
  <2>4. up /\ CanChallenge(mem) => mem' = Challenged(mem, flow[f].salt, flow[f].b)
    BY DEF Challenge
  <2>5. CASE up /\ CanChallenge(mem) /\ heard
    BY <2>1, <2>3, <2>4, <2>5
  <2>6. CASE ~ (up /\ CanChallenge(mem) /\ heard)
    BY <2>2, <2>3, <2>6
  <2> QED BY <2>5, <2>6
<1>4. flow' \in [Flows -> Attempt] /\ FlowInv' /\ FlowsAdvance
  BY <1>0, <1>1, <1>3, LeadsKeeps DEF AccountInv, tables
<1>5. AccountTypeOK'
  <2>1. KeystoreTypeOK'
    BY <1>1, <1>2 DEF AccountInv, AccountTypeOK, KeystoreTypeOK
  <2>2. ServerTypeOK'
    BY <1>1, <1>4 DEF AccountInv, AccountTypeOK, ServerTypeOK, tables
  <2>3. logins' \in Seq([user : Users, word : Passwords]) /\ Len(logins') <= MaxWaiting
    <3>1. logins \in Seq([user : Users, word : Passwords]) /\ Len(logins) <= MaxWaiting
      BY DEF AccountInv, AccountTypeOK
    <3>2. CASE logins' = logins
      BY <3>1, <3>2
    <3>3. CASE logins' = <<>>
      BY <3>3, AccountAssumption, EmptySeq
    <3> QED BY <1>3, <3>2, <3>3
  <2> QED BY <1>1, <2>1, <2>2, <2>3 DEF AccountInv, AccountTypeOK
<1>6. RequestInv'
  BY <1>1, <1>4, UnchangedRequests, AdvancingSessionsStay DEF tables
<1> QED BY <1>1, <1>2, <1>3, <1>4, <1>5, <1>6, LoginStays, SignedStays DEF AccountInv

\* A set of natural numbers that is not empty has a least element; so a set of numbers up to n
\* has a greatest.
Less == {p \in Nat \X Nat : p[1] < p[2]}

LEMMA LeastElement ==
  ASSUME NEW S, S \subseteq Nat, S # {}
  PROVE  \E n \in S : \A m \in S : n <= m
<1>0. IsWellFoundedOn(Less, Nat)
  BY NatLessThanWellFounded DEF OpToRel, Less
<1>1. PICK x \in S : \A y \in S : ~ (<<y, x>> \in Less)
  BY <1>0, WFMin
<1>2. ASSUME NEW y \in S PROVE x <= y
  <2>1. <<y, x>> \in Nat \X Nat /\ ~ (<<y, x>> \in Less)
    BY <1>1
  <2>2. ~ (<<y, x>>[1] < <<y, x>>[2])
    BY <2>1 DEF Less
  <2> QED BY <2>2
<1> QED BY <1>2

LEMMA GreatestElement ==
  ASSUME NEW n \in Nat, NEW S, S \subseteq 1 .. n, S # {}
  PROVE  Max(S) \in S
<1> DEFINE D == {n - x : x \in S}
<1>1. D \subseteq Nat /\ D # {}
  <2>1. \A x \in S : n - x \in Nat
    OBVIOUS
  <2>2. D \subseteq Nat
    BY <2>1
  <2>3. PICK x \in S : TRUE
    OBVIOUS
  <2>4. n - x \in D
    OBVIOUS
  <2> QED BY <2>2, <2>4
<1>2. PICK d \in D : \A e \in D : d <= e
  BY <1>1, LeastElement
<1>3. PICK x \in S : d = n - x
  OBVIOUS
<1>4. ASSUME NEW y \in S
      PROVE  x >= y
  <2>1. n - y \in D
    OBVIOUS
  <2>2. d <= n - y
    BY <1>2, <2>1
  <2>3. n \in Nat /\ x \in 1 .. n /\ y \in 1 .. n
    OBVIOUS
  <2> HIDE DEF D
  <2> QED BY <1>3, <2>2, <2>3
<1>5. \A y \in S : x >= y
  BY <1>4
<1> QED BY <1>5 DEF Max

\* What the handlers of login() make of a memory m: its attempt is what it was, and if the
\* keystore is open after the last of them and somebody was signed in, it is the last one that
\* opened it.
LEMMA HandlersKeep ==
  ASSUME AccountInv, NEW m \in Memory, NEW heard \in [1 .. Len(logins) -> BOOLEAN]
  PROVE  LET s == AfterHandlers(m, heard)
             n == Len(logins)
         IN  /\ s.mem \in Memory /\ s.mem.srp = m.srp /\ s.mem.proof = m.proof
             /\ s.mem.cached \in {m.cached, NoKey}
             /\ s.current \in Users \cup {Nobody}
             /\ s.current # current /\ s.mem.store # NoKey =>
                  /\ n > 0 /\ s.mem.bundle = disk.ident
                  /\ UnlockKey(Reached(m, n), logins[n].word).word = gens[disk.ident].word
<1> DEFINE n == Len(logins)
           opened == {i \in 1 .. n : Unlocks(Reached(m, i), logins[i].word)}
           taken  == {i \in opened : heard[i]}
           last   == Unlocked(Reached(m, n), logins[n].word)
           mm     == IF n = 0 THEN m ELSE [last EXCEPT !.bundle = IF opened = {} THEN @ ELSE disk.ident]
           cc     == IF taken = {} THEN current ELSE logins[Max(taken)].user
           key    == UnlockKey(Reached(m, n), logins[n].word)
<1>0. AfterHandlers(m, heard) = [mem |-> mm, current |-> cc]
  BY DEF AfterHandlers
<1>1. /\ n \in Nat /\ \A i \in 1 .. n : logins[i] \in [user : Users, word : Passwords]
      /\ current \in Users \cup {Nobody} /\ disk \in [salt : Gens \cup {0}, ident : Gens \cup {0}]
  BY LenProperties, ElementOfSeq DEF AccountInv, AccountTypeOK, KeystoreTypeOK
<1>2. cc \in Users \cup {Nobody}
  <2>1. CASE taken = {}
    BY <1>1, <2>1
  <2>2. CASE taken # {}
    <3>1. Max(taken) \in taken
      BY <1>1, <2>2, GreatestElement
    <3> QED BY <1>1, <2>2, <3>1
  <2> QED BY <2>1, <2>2
<1>3. n = 0 => mm = m /\ cc = current
  OBVIOUS
<1>4. ASSUME n # 0
      PROVE  /\ last \in Memory /\ last.srp = m.srp /\ last.proof = m.proof /\ last.cached = NoKey
             /\ key \in Key
             /\ disk.salt # 0 => last.store = IF Unlocks(Reached(m, n), logins[n].word) THEN key ELSE NoKey
  <2> DEFINE r == Reached(m, n)
  <2>1. r \in Memory /\ r.srp = m.srp /\ r.proof = m.proof
    BY DEF Reached, Memory
  <2>2. key \in Key
    BY <1>1, <1>4, <2>1, CredentialsAssumption DEF UnlockKey, Key, Salts, Gens, Memory
  <2> DEFINE w == logins[n].word
  <2>3. last \in {[r EXCEPT !.cached = NoKey],
                  [r EXCEPT !.cached = NoKey, !.store = key, !.bundle = disk.ident],
                  [r EXCEPT !.cached = NoKey, !.store = NoKey]}
    BY DEF Unlocked
  <2>4. disk.salt # 0 =>
          last = IF Unlocks(r, w)
                 THEN [r EXCEPT !.cached = NoKey, !.store = key, !.bundle = disk.ident]
                 ELSE [r EXCEPT !.cached = NoKey, !.store = NoKey]
    BY DEF Unlocked
  <2> HIDE DEF last, key, r, w
  <2>5. last \in Memory /\ last.srp = r.srp /\ last.proof = r.proof /\ last.cached = NoKey
    BY <1>1, <2>1, <2>2, <2>3 DEF Memory
  <2>6. disk.salt # 0 => last.store = IF Unlocks(r, w) THEN key ELSE NoKey
    BY <2>1, <2>4 DEF Memory
  <2> QED BY <2>1, <2>2, <2>5, <2>6 DEF r, w
<1>5. ASSUME n # 0
      PROVE  /\ mm \in Memory /\ mm.srp = m.srp /\ mm.proof = m.proof /\ mm.cached = NoKey
             /\ mm.store = last.store /\ (opened # {} => mm.bundle = disk.ident)
  <2> HIDE DEF last, opened
  <2>1. mm = [last EXCEPT !.bundle = IF opened = {} THEN last.bundle ELSE disk.ident]
    BY <1>5
  <2> HIDE DEF mm
  <2> QED BY <1>1, <1>4, <1>5, <2>1 DEF Memory
<1>6. ASSUME cc # current, mm.store # NoKey
      PROVE  n > 0 /\ mm.bundle = disk.ident /\ key.word = gens[disk.ident].word
  <2>1. n # 0 /\ taken # {} /\ opened # {}
    BY <1>6
  <2>2. disk.salt # 0
    BY <2>1 DEF Unlocks
  <2>3. Unlocks(Reached(m, n), logins[n].word)
    BY <1>4, <1>5, <1>6, <2>1, <2>2
  <2>4. key.word = gens[disk.ident].word
    BY <2>3 DEF Unlocks, Opens
  <2> QED BY <1>1, <1>5, <2>1, <2>4
<1> HIDE DEF mm, cc, key, n
<1>7. mm \in Memory /\ mm.srp = m.srp /\ mm.proof = m.proof /\ mm.cached \in {m.cached, NoKey}
  BY <1>3, <1>5
<1> QED BY <1>0, <1>2, <1>6, <1>7 DEF n, key

\* What srp_verify leaves in memory: no attempt, and a key only if the proof was right.
LEMMA VerifiedMemory ==
  ASSUME AccountInv, mem.srp # 0, NEW proof
  PROVE  LET m == SrpVerified(mem, proof)
         IN  /\ m \in Memory /\ m.srp = 0 /\ m.proof = NoProof
             /\ ~ Verifies(mem, proof) => m.cached = NoKey
             /\ Verifies(mem, proof) => m.cached = [word |-> proof.word, salt |-> proof.salt]
<1> DEFINE m == SrpVerified(mem, proof)
<1>0. mem \in Memory /\ mem.staged \in Key \cup {NoKey}
  BY DEF AccountInv, AccountTypeOK, KeystoreTypeOK, Memory
<1>1. CASE Verifies(mem, proof)
  <2>1. m = [mem EXCEPT !.srp = 0, !.proof = NoProof, !.password = NoPassword, !.staged = NoKey,
                        !.cached = mem.staged]
    BY <1>1 DEF SrpVerified
  <2>2. mem.staged = [word |-> proof.word, salt |-> proof.salt]
    BY <1>1 DEF AccountInv, ProofInv, Verifies
  <2> HIDE DEF m
  <2>3. m \in Memory /\ m.srp = 0 /\ m.proof = NoProof /\ m.cached = mem.staged
    BY <1>0, <2>1 DEF Memory
  <2> QED BY <1>1, <2>2, <2>3 DEF m
<1>2. CASE ~ Verifies(mem, proof)
  <2>1. m = [mem EXCEPT !.srp = 0, !.proof = NoProof, !.password = NoPassword, !.staged = NoKey,
                        !.cached = NoKey, !.store = NoKey, !.bundle = 0]
    BY <1>2 DEF SrpVerified
  <2> HIDE DEF m
  <2>3. m \in Memory /\ m.srp = 0 /\ m.proof = NoProof /\ m.cached = NoKey
    BY <1>0, <2>1 DEF Memory
  <2> QED BY <1>2, <2>3 DEF m
<1> QED BY <1>1, <1>2

LEMMA GrantedKeeps ==
  ASSUME AccountInv, NEW f \in Flows, Granted(f)
  PROVE  AccountInv'
<1> DEFINE a == [flow[f] EXCEPT !.pc = "in"]
           proof == flow[f].proof
           n == Len(logins)
<1>0. /\ mem \in Memory /\ flow \in [Flows -> Attempt] /\ Good(f, flow[f], revoked)
      /\ flow[f] \in Attempt /\ flow[f].pc = "granted" /\ Moves(f, a)
      /\ logins \in Seq([user : Users, word : Passwords]) /\ n \in Nat /\ f # 0
      /\ current \in Users \cup {Nobody} /\ token \in Flows \cup {0}
  <2>1. /\ mem \in Memory /\ flow \in [Flows -> Attempt] /\ Good(f, flow[f], revoked)
        /\ logins \in Seq([user : Users, word : Passwords])
        /\ current \in Users \cup {Nobody} /\ token \in Flows \cup {0}
    BY DEF AccountInv, AccountTypeOK, KeystoreTypeOK, ServerTypeOK, FlowInv
  <2>2. flow[f].pc = "granted" /\ Moves(f, a)
    BY DEF Granted, At
  <2>3. n \in Nat /\ f # 0
    BY <2>1, LenProperties DEF Flows
  <2> QED BY <2>1, <2>2, <2>3
<1>1. /\ UNCHANGED <<gens, disk, tables, request, faults, up, posted, signUps, deviceId, active>>
      /\ logins' = <<>>
  BY DEF Granted, AllFail
<1>2. /\ a \in Attempt /\ a.pc = "in" /\ a.user = flow[f].user /\ a.device = flow[f].device
      /\ a.word = flow[f].word /\ a.proof = proof
  BY <1>0 DEF Attempt
<1>3. a.late = flow[f].late
  BY <1>0 DEF Attempt
<1> HIDE DEF a
<1>4. flow'[f] = a /\ FlowInv' /\ FlowsAdvance /\ flow' \in [Flows -> Attempt]
  <2>1. Good(f, a, revoked)
    BY <1>0, <1>2, <1>3 DEF Good, Gone
  <2>2. Advances(flow[f], a)
    BY <1>0, <1>2 DEF Advances, Stays, Gone
  <2>3. Rest(a) = a
    BY <1>2 DEF Rest
  <2>4. Leads(f, a)
    BY <1>0, <2>1, <2>2, <2>3 DEF Leads, Moves
  <2>5. FlowInv' /\ FlowsAdvance /\ flow' \in [Flows -> Attempt]
    BY <1>0, <1>1, <2>4, LeadsKeeps DEF AccountInv, tables
  <2> QED BY <1>0, <2>4, <2>5 DEF Leads
<1>5. SessionsStay
  BY <1>4, AdvancingSessionsStay
<1>6. RequestInv'
  BY <1>1, <1>5, UnchangedRequests DEF tables
<1>7. /\ flow[f].user \in Users /\ flow[f].device = flow[f].user
      /\ proof.a = f /\ proof # NoProof
  BY <1>0 DEF Good, Gone
<1>8. logins' \in Seq([user : Users, word : Passwords]) /\ Len(logins') <= MaxWaiting
  BY <1>1, AccountAssumption, EmptySeq
<1>9. ServerTypeOK'
  BY <1>1, <1>4 DEF AccountInv, AccountTypeOK, ServerTypeOK, tables
\* The answer is to another attempt than the latest, or the service has forgotten it; or else
\* it is srp_verify that decides.
<1>10. /\ mem' \in Memory /\ token' \in Flows \cup {0} /\ current' \in Users \cup {Nobody}
       /\ ProofInv' /\ AttemptInv' /\ DownInv' /\ TokenInv' /\ VerifiedBeforeCached'
       /\ SignedInAsVerified'
  <2>11. CASE ~ (up /\ mem.srp # 0)
    <3>1. ~ Verifies(mem, proof) \/ ~ up
      BY <2>11 DEF Verifies, AccountInv, ProofInv
    <3>2. mem' = mem /\ token' = token /\ current' = current
      BY <2>11, <3>1 DEF Granted, AllFail
    <3>3. SameLogin
      BY <3>2 DEF SameLogin
    <3>4. ProofInv' /\ AttemptInv' /\ TokenInv' /\ VerifiedBeforeCached'
      BY <1>1, <1>4, <3>2, <3>3, SameLoginStays
    <3>5. SignedInAsVerified'
      BY <1>1, <1>4, <3>2, SignedStays
    <3>6. DownInv'
      BY <1>1, <3>2 DEF AccountInv, DownInv
    <3> QED BY <1>0, <3>2, <3>4, <3>5, <3>6
  <2>12. CASE up /\ mem.srp # 0
    <3> DEFINE m == SrpVerified(mem, proof)
    <3>1. PICK verified \in BOOLEAN, heard \in [1 .. Len(logins) -> BOOLEAN] :
            IF Verifies(mem, proof) /\ verified
            THEN /\ token' = f /\ mem' = AfterHandlers(m, heard).mem
                 /\ current' = AfterHandlers(m, heard).current
            ELSE mem' = m /\ AllFail
      BY <2>12 DEF Granted
    <3> HIDE DEF m
    <3>2. /\ m \in Memory /\ m.srp = 0 /\ m.proof = NoProof
          /\ ~ Verifies(mem, proof) => m.cached = NoKey
          /\ Verifies(mem, proof) => m.cached = [word |-> proof.word, salt |-> proof.salt]
      BY <2>12, VerifiedMemory DEF m
    <3>3. current = Nobody
      BY <2>12 DEF AccountInv, AttemptInv
    <3>4. /\ AfterHandlers(m, heard).mem \in Memory /\ AfterHandlers(m, heard).mem.srp = m.srp
          /\ AfterHandlers(m, heard).mem.proof = m.proof
          /\ AfterHandlers(m, heard).mem.cached \in {m.cached, NoKey}
          /\ AfterHandlers(m, heard).current \in Users \cup {Nobody}
          /\ AfterHandlers(m, heard).current # current /\ AfterHandlers(m, heard).mem.store # NoKey =>
               /\ n > 0 /\ AfterHandlers(m, heard).mem.bundle = disk.ident
               /\ UnlockKey(Reached(m, n), logins[n].word).word = gens[disk.ident].word
      BY <3>2, HandlersKeep
    <3>5. /\ mem' \in Memory /\ mem'.srp = 0 /\ mem'.proof = NoProof /\ mem'.cached \in {m.cached, NoKey}
          /\ token' \in {token, f} /\ current' \in Users \cup {Nobody}
      BY <1>0, <3>1, <3>2, <3>4 DEF AllFail
    <3>6. ProofInv' /\ AttemptInv'
      BY <3>5 DEF ProofInv, AttemptInv
    <3>7. DownInv'
      BY <1>1, <2>12 DEF AccountInv, AccountTypeOK, DownInv
    <3>8. TokenInv'
      BY <1>0, <1>2, <1>4, <1>5, <3>5 DEF AccountInv, TokenInv, SessionsStay
    <3>9. VerifiedBeforeCached'
      BY <1>2, <1>4, <3>2, <3>5 DEF VerifiedBeforeCached
    <3>10. SignedInAsVerified'
      <4>1. CASE ~ (Verifies(mem, proof) /\ verified)
        BY <3>1, <3>3, <4>1, SignedOut DEF AllFail
      <4>2. CASE (Verifies(mem, proof) /\ verified) /\ current' # Nobody
        <5>1. /\ token' = f /\ mem' = AfterHandlers(m, heard).mem
              /\ current' = AfterHandlers(m, heard).current
          BY <3>1, <4>2
        <5>2. mem.proof = proof /\ mem.srp = f /\ mem.password = NoPassword
          BY <1>7, <4>2 DEF Verifies, AccountInv, ProofInv
        <5>3. /\ active = flow[f].user /\ flow[f].word = proof.word
              /\ n # 0 => logins[n].word = proof.word
          <6>1. logins # <<>> <=> n # 0
            BY <1>0, EmptySeq
          <6> QED BY <1>0, <1>7, <5>2, <6>1 DEF AccountInv, AttemptInv, Secret, Gone
        <5>4. ASSUME mem'.store # NoKey
              PROVE  gens[mem'.bundle].word = flow[f].word
          <6>1. /\ n > 0 /\ mem'.bundle = disk.ident
                /\ UnlockKey(Reached(m, n), logins[n].word).word = gens[disk.ident].word
            BY <3>3, <3>4, <4>2, <5>1, <5>4
          <6>2. UnlockKey(Reached(m, n), logins[n].word).word = proof.word
            <7>1. logins[n].word = proof.word
              BY <1>0, <5>3, <6>1
            <7>2. Reached(m, n).cached \in {m.cached, NoKey}
              BY <3>2 DEF Reached, Memory
            <7> QED BY <3>2, <4>2, <7>1, <7>2 DEF UnlockKey
          <6> QED BY <5>3, <6>1, <6>2
        <5> QED BY <1>0, <1>1, <1>2, <1>4, <5>1, <5>3, <5>4 DEF SignedInAsVerified
      <4>3. CASE current' = Nobody
        BY <4>3, SignedOut
      <4> QED BY <4>1, <4>2, <4>3
    <3> QED BY <3>5, <1>0, <3>6, <3>7, <3>8, <3>9, <3>10
  <2> QED BY <2>11, <2>12
<1>11. KeystoreTypeOK'
  BY <1>1, <1>10 DEF AccountInv, AccountTypeOK, KeystoreTypeOK
<1>12. AccountTypeOK'
  BY <1>1, <1>8, <1>9, <1>10, <1>11 DEF AccountInv, AccountTypeOK
<1> QED BY <1>4, <1>6, <1>10, <1>12 DEF AccountInv

-------------------------------------------------------------------------------
(* The invariant, and what follows from it *)

LEMMA InitAccountInv == AccountInit => AccountInv
<1> SUFFICES ASSUME AccountInit PROVE AccountInv
  OBVIOUS
<1>0. NoAttempt \in Attempt /\ NoAttempt.pc = "none" /\ NoAttempt.late = FALSE
  BY NoAttemptTyped
<1>1. KeystoreTypeOK
  <2>1. gens \in Seq([user : Users, word : Passwords]) /\ Len(gens) <= MaxGens
    BY CredentialsAssumption, EmptySeq DEF AccountInit, KeystoreInit
  <2> QED BY <2>1, NoMemoryTyped DEF AccountInit, KeystoreInit, KeystoreTypeOK, NoFiles
<1>2. ServerTypeOK
  <2>1. NoAccount \in [ident : Gens \cup {0}, creds : Creds]
    BY CredentialsAssumption DEF NoAccount, Garbled, Creds, Salts
  <2> QED BY <1>0, <2>1, IdleIsGood, ServerAuthAssumption
          DEF AccountInit, ServerInit, ServerTypeOK
<1>3. AccountTypeOK
  <2>1. logins \in Seq([user : Users, word : Passwords]) /\ Len(logins) <= MaxWaiting
    BY AccountAssumption, EmptySeq DEF AccountInit
  <2>2. posted \in [Gens -> Posting]
    BY DEF AccountInit, Posting
  <2> QED BY <1>1, <1>2, <2>1, <2>2 DEF AccountInit, AccountTypeOK
<1>4. FlowInv
  BY <1>0 DEF AccountInit, ServerInit, FlowInv, Good, Gone
<1>5. RequestInv
  BY IdleIsGood DEF AccountInit, ServerInit, RequestInv
<1>6. mem.proof = NoProof /\ mem.srp = 0 /\ mem.cached = NoKey
  BY DEF AccountInit, KeystoreInit, NoMemory
<1>7. DownInv /\ TokenInv /\ SignedInAsVerified
  BY DEF AccountInit, DownInv, TokenInv, SignedInAsVerified
<1> QED BY <1>3, <1>4, <1>5, <1>6, <1>7 DEF AccountInv, ProofInv, AttemptInv, VerifiedBeforeCached

LEMMA NextAccountInv == AccountInv /\ [AccountNext]_accountVars => AccountInv'
<1> SUFFICES ASSUME AccountInv, [AccountNext]_accountVars PROVE AccountInv'
  OBVIOUS
<1>1. CASE UNCHANGED accountVars
  <2>1. AccountTypeOK'
    BY <1>1 DEF AccountInv, AccountTypeOK, ServerTypeOK, KeystoreTypeOK, accountVars, keystoreVars,
       serverVars, appVars
  <2>2. FlowInv' /\ RequestInv' /\ FlowsAdvance
    BY <1>1, <2>1, AppKeeps DEF accountVars, serverVars
  <2> QED BY <1>1, <2>1, <2>2, QuietKeeps DEF accountVars, keystoreVars, appVars
<1>2. ASSUME NEW u \in Users, NEW word \in Passwords, SignUp(u, word) \/ SignUpStops(u, word)
      PROVE  AccountInv'
  BY <1>2, SignUpKeeps
<1>3. ASSUME NEW u \in Users, NEW word \in Passwords, NEW f \in Flows, Login(f, u, word)
      PROVE  AccountInv'
  BY <1>3, LoginKeeps
<1>4. ASSUME NEW u \in Users, LoginUnknown(u) PROVE AccountInv'
  BY <1>4, UnknownKeeps
<1>5. ASSUME NEW g \in 1 .. Len(gens), RegisterArrives(g) \/ Registered(g) \/ NotRegistered(g)
      PROVE  AccountInv'
  BY <1>5, RegistrationKeeps
<1>6. ASSUME NEW f \in Flows, Challenge(f) \/ Granted(f) \/ LoginError(f) PROVE AccountInv'
  BY <1>6, ChallengeKeeps, GrantedKeeps, ErrorKeeps
<1>7. CASE Logout \/ DeleteDirectory \/ ServiceDies \/ AppRestarts
  BY <1>7, LogoutKeeps, DeleteKeeps, DiesKeeps, AppRestartKeeps
<1>8. ASSUME NEW r \in Requests, SendRequest(r) PROVE AccountInv'
  BY <1>8, SendKeeps
<1>9. CASE ServerSteps
  <2>1. UNCHANGED <<keystoreVars, appVars>> /\ (ServerStep \/ ServerRestarts)
    BY <1>9 DEF ServerSteps
  <2>2. ServerStep => (\E f \in Flows : LoginStep(f)) \/ (\E r \in Requests : RequestStep(r))
    BY DEF ServerStep, LoginStep, RequestStep
  <2>3. ASSUME NEW f \in Flows, LoginStep(f) PROVE AccountInv'
    BY <2>1, <2>3, ServerLogin
  <2>4. ASSUME NEW r \in Requests, RequestStep(r) PROVE AccountInv'
    BY <2>1, <2>4, ServerRequest
  <2>5. CASE ServerRestarts
    BY <2>1, <2>5, RestartKeeps
  <2> QED BY <2>1, <2>2, <2>3, <2>4, <2>5
<1> QED BY <1>1, <1>2, <1>3, <1>4, <1>5, <1>6, <1>7, <1>8, <1>9 DEF AccountNext

LEMMA AccountInvariance == AccountSpec => []AccountInv
  BY InitAccountInv, NextAccountInv, PTL DEF AccountSpec

\* Every variable of the app, of the service and of the server has the values that it is
\* declared with.
THEOREM AccountTypes == AccountSpec => []AccountTypeOK
<1>1. AccountInv => AccountTypeOK
  BY DEF AccountInv
<1> QED BY <1>1, AccountInvariance, PTL

\* The key that unlock_keystore would use without a password is that of a login which the
\* server granted, whatever attempts overlap (crypto_service.py:322).
THEOREM OnlyVerifiedKeys == AccountSpec => []VerifiedBeforeCached
<1>1. AccountInv => VerifiedBeforeCached
  BY DEF AccountInv
<1> QED BY <1>1, AccountInvariance, PTL

\* Whoever is signed in has the token of the attempt whose password opened the keystore, and
\* its device is the active one, with any number of attempts under way.
THEOREM SignedInIsVerified == AccountSpec => []SignedInAsVerified
<1>1. AccountInv => SignedInAsVerified
  BY DEF AccountInv
<1> QED BY <1>1, AccountInvariance, PTL

\* A request sent, or a login begun, after its device was revoked is not granted.
THEOREM RevokedStayOut == AccountSpec => []RevokedStaysOut
<1>1. AccountInv => RevokedStaysOut
  <2> SUFFICES ASSUME AccountInv PROVE RevokedStaysOut
    OBVIOUS
  <2>1. \A r \in Requests : request[r].late => request[r].pc = "sent"
    BY DEF AccountInv, RequestInv, GoodRequest
  <2>2. \A f \in Flows : flow[f].late => flow[f].pc \in {"init", "challenged", "proof"}
    BY DEF AccountInv, FlowInv, Good
  <2> QED BY <2>1, <2>2 DEF RevokedStaysOut
<1> QED BY <1>1, AccountInvariance, PTL
================================================================================
