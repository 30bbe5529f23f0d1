------------------------------ MODULE ServerAuth ------------------------------
(***************************************************************************)
(* The server's side of registration, login, authenticated requests,       *)
(* revocation and change of password (handlers/auth, middleware,           *)
(* state/session_keys.js).                                                 *)
(*                                                                         *)
(* An action is the code between two awaits, so requests of one device     *)
(* interleave.  A user has one device: only registration makes one.  A     *)
(* session token is the number of the login that made it.  A session lives *)
(* in the cache of the process and in the table device_sessions.           *)
(* Left out: the 24 h and 2 h after which sessions end, rate limits, and   *)
(* the checks of a request's form, timestamp and HMAC.                     *)
(***************************************************************************)
EXTENDS Credentials

CONSTANTS
  Requests,   \* bound: authenticated requests at a time
  MaxFaults   \* bound: crashes and failures of a database or a disk

ASSUME ServerAuthAssumption == MaxFaults \in Nat

VARIABLES
  account,    \* users: the bundle registered, and the salt and the password of the verifier
  revoked,    \* users whose device is revoked
  challenge,  \* srp_challenges: the attempt whose secret b is stored, or 0
  cache,      \* _cache: the token of a device, or 0
  table,      \* device_sessions: the same
  flow,       \* login attempts, with what their handlers hold between awaits
  request,    \* authenticated requests, with what their handlers hold between awaits
  faults      \* crashes and failures so far

serverVars == <<account, revoked, challenge, cache, table, flow, request, faults>>
tables     == <<account, revoked, challenge, cache, table>>

\* Change of password stores the verifier's bytes where its hex digits are expected
\* (decode() in server.js:757): no password has that verifier.
Creds     == [salt : Salts, word : Passwords \cup {NoPassword}]
Garbled   == [salt |-> 0, word |-> NoPassword]
NoAccount == [ident |-> 0, creds |-> Garbled]

\* A login attempt: user and device are what the requests say, hears whether its client
\* still waits, row the credentials its handler has read, salt and b the server's answer.
Attempt ==
  [pc : {"none", "init", "read", "challenged", "proof", "checked", "taken", "storing",
         "granted", "refused", "in", "over"},
   user : Users \cup {Nobody}, device : Users \cup {Nobody}, word : Passwords \cup {NoPassword},
   hears : BOOLEAN, row : Creds, salt : Salts, b : Flows \cup {0},
   proof : Proof \cup {NoProof}, late : BOOLEAN]

NoAttempt ==
  [pc |-> "none", user |-> Nobody, device |-> Nobody, word |-> NoPassword, hears |-> FALSE,
   row |-> Garbled, salt |-> 0, b |-> 0, proof |-> NoProof, late |-> FALSE]

\* A request with the token of a login; row is the token its handler has read, late whether
\* it was sent after the device was revoked.
Request ==
  [pc : {"idle", "sent", "active", "fill", "granted", "drop", "erase"},
   token : Flows \cup {0}, row : Flows \cup {0}, late : BOOLEAN]

Idle == [pc |-> "idle", token |-> 0, row |-> 0, late |-> FALSE]

ServerInit ==
  /\ account = [u \in Users |-> NoAccount]
  /\ revoked = {}
  /\ challenge = [u \in Users |-> 0]
  /\ cache = [u \in Users |-> 0] /\ table = [u \in Users |-> 0]
  /\ flow = [f \in Flows |-> NoAttempt]
  /\ request = [r \in Requests |-> Idle]
  /\ faults = 0

ServerTypeOK ==
  /\ account \in [Users -> [ident : Gens \cup {0}, creds : Creds]]
  /\ revoked \subseteq Users
  /\ challenge \in [Users -> Flows \cup {0}]
  /\ cache \in [Users -> Flows \cup {0}] /\ table \in [Users -> Flows \cup {0}]
  /\ flow \in [Flows -> Attempt]
  /\ request \in [Requests -> Request]
  /\ faults \in 0 .. MaxFaults

Fault == faults < MaxFaults /\ faults' = faults + 1

-------------------------------------------------------------------------------
(* Registration *)

\* POST /auth/register: the transaction inserts the user and the device, unless the user
\* name is taken.
Inserts(u) == account[u] = NoAccount
Insert(u, g, word) ==
  account' = [account EXCEPT ![u] = [ident |-> g, creds |-> [salt |-> g, word |-> word]]]

-------------------------------------------------------------------------------
(* Login *)

At(f, pc) == flow[f].pc = pc

\* Nothing depends on an attempt that no handler works on and no client waits for, nor on
\* what one was refused for.
Rest(new) ==
  CASE new.pc = "refused" /\ new.hears -> [NoAttempt EXCEPT !.pc = "refused", !.hears = TRUE]
    [] new.pc = "over" \/ (new.pc \in {"challenged", "granted", "refused"} /\ ~ new.hears) ->
         [NoAttempt EXCEPT !.pc = "over"]
    [] OTHER -> new
Moves(f, new) == flow' = [flow EXCEPT ![f] = Rest(new)]

\* The row that both rounds read: the device must be the user's, and not revoked.
Known(f) == flow[f].device = flow[f].user /\ account[flow[f].user] # NoAccount
            /\ flow[f].user \notin revoked
Row(f) == account[flow[f].user].creds

\* POST /auth/init: an unknown device gets a challenge as well, from a fake verifier.
InitRead(f) ==
  /\ At(f, "init")
  /\ \/ ~ Known(f) /\ Moves(f, [flow[f] EXCEPT !.pc = "challenged", !.salt = 0, !.b = 0])
     \/ /\ Known(f) /\ Row(f).word # NoPassword
        /\ Moves(f, [flow[f] EXCEPT !.pc = "read", !.row = Row(f)])
     \/ Known(f) /\ Row(f).word = NoPassword /\ Moves(f, [flow[f] EXCEPT !.pc = "refused"])
  /\ UNCHANGED <<tables, request, faults>>

\* The challenge replaces that of an earlier attempt.
InitWrite(f) ==
  /\ At(f, "read")
  /\ challenge' = [challenge EXCEPT ![flow[f].user] = f]
  /\ Moves(f, [flow[f] EXCEPT !.pc = "challenged", !.salt = flow[f].row.salt, !.b = f])
  /\ UNCHANGED <<account, revoked, cache, table, request, faults>>

\* POST /auth/login.
VerifyRead(f) ==
  /\ At(f, "proof")
  /\ IF Known(f) THEN Moves(f, [flow[f] EXCEPT !.pc = "checked", !.row = Row(f)])
                 ELSE Moves(f, [flow[f] EXCEPT !.pc = "refused"])
  /\ UNCHANGED <<tables, request, faults>>

\* The proof is for this attempt, this challenge and these credentials.
RightProof(f, b) ==
  b # 0 /\ flow[f].proof = [a |-> f, word |-> flow[f].row.word, salt |-> flow[f].row.salt,
                            b |-> b]

\* The challenge is used up, whatever the proof.  It may have expired.
TakeChallenge(f) ==
  /\ At(f, "checked")
  /\ challenge' = [challenge EXCEPT ![flow[f].user] = 0]
  /\ \/ RightProof(f, challenge[flow[f].user]) /\ Moves(f, [flow[f] EXCEPT !.pc = "taken"])
     \/ Moves(f, [flow[f] EXCEPT !.pc = "refused"])
  /\ UNCHANGED <<account, revoked, cache, table, request, faults>>

\* storeSessionKey: the cache first, then the table.
StoreInCache(f) ==
  /\ At(f, "taken")
  /\ cache' = [cache EXCEPT ![flow[f].user] = f]
  /\ Moves(f, [flow[f] EXCEPT !.pc = "storing"])
  /\ UNCHANGED <<account, revoked, challenge, table, request, faults>>

StoreInTable(f) ==
  /\ At(f, "storing")
  /\ table' = [table EXCEPT ![flow[f].user] = f]
  /\ Moves(f, [flow[f] EXCEPT !.pc = "granted"])
  /\ UNCHANGED <<account, revoked, challenge, cache, request, faults>>

\* A query fails: 500, and nothing is undone.
LoginFails(f) ==
  /\ flow[f].pc \in {"init", "read", "proof", "checked", "storing"}
  /\ Fault
  /\ Moves(f, [flow[f] EXCEPT !.pc = "refused"])
  /\ UNCHANGED <<tables, request>>

-------------------------------------------------------------------------------
(* Authenticated requests *)

User(r) == flow[request[r].token].user
Becomes(r, new) == request' = [request EXCEPT ![r] = new]

\* A client sends a request with the token of a login.
Send(r, f) ==
  /\ request[r].pc = "idle"
  /\ Becomes(r, [pc |-> "sent", token |-> f, row |-> 0,
                 late |-> flow[f].user \in revoked])
  /\ UNCHANGED <<tables, flow, faults>>

\* (Mutation: the device is not looked up.)
CheckDevice_Not(r) ==
  /\ request[r].pc = "sent"
  /\ Becomes(r, [request[r] EXCEPT !.pc = "active"])
  /\ UNCHANGED <<tables, flow, faults>>

\* requireAuth: the device must not be revoked.
CheckDevice(r) ==
  /\ request[r].pc = "sent"
  /\ Becomes(r, IF User(r) \in revoked THEN Idle ELSE [request[r] EXCEPT !.pc = "active"])
  /\ UNCHANGED <<tables, flow, faults>>

\* getSessionKey finds the key in the cache, and the token is compared with it.
UseCache(r) ==
  /\ request[r].pc = "active" /\ cache[User(r)] # 0
  /\ Becomes(r, IF cache[User(r)] = request[r].token
                THEN [request[r] EXCEPT !.pc = "granted"] ELSE Idle)
  /\ UNCHANGED <<tables, flow, faults>>

\* It does not, and the table is read;
ReadTable(r) ==
  /\ request[r].pc = "active" /\ cache[User(r)] = 0
  /\ Becomes(r, IF table[User(r)] = 0 THEN Idle
                ELSE [request[r] EXCEPT !.pc = "fill", !.row = table[User(r)]])
  /\ UNCHANGED <<tables, flow, faults>>

\* what was read goes to the cache, whatever happened there since.
FillCache(r) ==
  /\ request[r].pc = "fill"
  /\ cache' = [cache EXCEPT ![User(r)] = request[r].row]
  /\ Becomes(r, IF request[r].row = request[r].token
                THEN [request[r] EXCEPT !.pc = "granted"] ELSE Idle)
  /\ UNCHANGED <<account, revoked, challenge, table, flow, faults>>

\* Any other endpoint.
Use(r) ==
  /\ request[r].pc = "granted"
  /\ Becomes(r, Idle)
  /\ UNCHANGED <<tables, flow, faults>>

\* PATCH /auth/password.
ChangePassword(r) ==
  /\ request[r].pc = "granted"
  /\ account' = [account EXCEPT ![User(r)].creds = Garbled]
  /\ Becomes(r, Idle)
  /\ UNCHANGED <<revoked, challenge, cache, table, flow, faults>>

\* POST /devices/revoke: the device is marked, then its key is dropped from the cache,
\* then from the table.
MarkRevoked(r) ==
  /\ request[r].pc = "granted"
  /\ revoked' = revoked \cup {User(r)}
  /\ Becomes(r, [request[r] EXCEPT !.pc = "drop"])
  /\ UNCHANGED <<account, challenge, cache, table, flow, faults>>

DropFromCache(r) ==
  /\ request[r].pc = "drop"
  /\ cache' = [cache EXCEPT ![User(r)] = 0]
  /\ Becomes(r, [request[r] EXCEPT !.pc = "erase"])
  /\ UNCHANGED <<account, revoked, challenge, table, flow, faults>>

EraseFromTable(r) ==
  /\ request[r].pc = "erase"
  /\ table' = [table EXCEPT ![User(r)] = 0]
  /\ Becomes(r, Idle)
  /\ UNCHANGED <<account, revoked, challenge, cache, flow, faults>>

\* A query of a request fails.
RequestFails(r) ==
  /\ request[r].pc \in {"sent", "active", "granted", "erase"}
  /\ Fault
  /\ Becomes(r, Idle)
  /\ UNCHANGED <<tables, flow>>

-------------------------------------------------------------------------------

\* The process is restarted: the cache is gone, and so is every handler.
ServerRestarts ==
  /\ Fault
  /\ cache' = [u \in Users |-> 0]
  /\ flow' = [f \in Flows |->
       IF flow[f].pc \in {"read", "checked", "taken", "storing"}
       THEN Rest([flow[f] EXCEPT !.pc = "refused"]) ELSE flow[f]]
  /\ request' = [r \in Requests |-> IF request[r].pc = "sent" THEN request[r] ELSE Idle]
  /\ UNCHANGED <<account, revoked, challenge, table>>

ServerStep ==
  \/ \E f \in Flows : \/ InitRead(f) \/ InitWrite(f) \/ VerifyRead(f) \/ TakeChallenge(f)
                      \/ StoreInCache(f) \/ StoreInTable(f) \/ LoginFails(f)
  \/ \E r \in Requests : \/ CheckDevice(r) \/ UseCache(r) \/ ReadTable(r) \/ FillCache(r)
                         \/ Use(r) \/ ChangePassword(r)
                         \/ MarkRevoked(r) \/ DropFromCache(r) \/ EraseFromTable(r)
                         \/ RequestFails(r)

-------------------------------------------------------------------------------
(* Properties *)

\* A revoked device stays out ("the bearer token is dead on the device's very next
\* request", session_keys.js:74): a request that was sent after the device was marked is
\* not granted, and a login that began after it gets no session, although logins and
\* requests that overlapped the revocation may bring keys back into cache and table.
RevokedStaysOut ==
  /\ \A r \in Requests : request[r].late => request[r].pc \notin {"granted", "drop", "erase"}
  /\ \A f \in Flows : flow[f].late => flow[f].pc \notin {"taken", "storing", "granted", "in"}
===============================================================================
