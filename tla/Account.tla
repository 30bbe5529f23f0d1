------------------------------- MODULE Account -------------------------------
(***************************************************************************)
(* Registration and login: the app on one machine (AuthController.cpp,     *)
(* ApiClient.cpp), its crypto service and keystore, and the server.        *)
(*                                                                         *)
(* The app reacts to signals that do not say whose they are: what login()  *)
(* and signUp() connect stays connected until any attempt succeeds or      *)
(* fails, and neither of them refuses to begin while another is under way. *)
(* A call of the service may not be answered in time though it acts; a     *)
(* service that died stays down until the app is restarted.                *)
(***************************************************************************)
EXTENDS Keystore, ServerAuth, FiniteSetsExt

CONSTANT MaxWaiting   \* bound: login attempts the app has under way

ASSUME AccountAssumption == MaxWaiting \in Nat

VARIABLES
  up,          \* whether the service can be reached
  posted,      \* registrations: what became of the request
  signUps,     \* users whose signUp() waits for an answer
  logins,      \* connected handlers of login(), with the user and password they captured
  deviceId,    \* the stored device id of a user: whose device it is
  active,      \* m_activeDeviceId
  token,       \* m_authToken
  current      \* m_currentUserId, or Nobody if m_authenticated is false

appVars    == <<up, posted, signUps, logins, deviceId, active, token, current>>
accountVars == <<keystoreVars, serverVars, appVars>>

\* "sent" as long as the app waits for the answer, "left" if it does no longer.
Posting == {"none", "sent", "left", "stored", "refused", "over"}

AccountInit ==
  /\ KeystoreInit /\ ServerInit
  /\ up = TRUE
  /\ posted = [g \in Gens |-> "none"]
  /\ signUps = {} /\ logins = <<>>
  /\ deviceId = [u \in Users |-> Nobody] /\ active = Nobody
  /\ token = 0 /\ current = Nobody

-------------------------------------------------------------------------------
(* Registration *)

\* signUp(), from the nonce on: the keystore is made, and registered.
SignUp(u, word) ==
  /\ current = Nobody /\ up
  /\ Generate(u, word)
  /\ posted' = [posted EXCEPT ![NewGen] = "sent"]
  /\ signUps' = signUps \cup {u}
  /\ UNCHANGED <<serverVars, up, logins, deviceId, active, token, current>>

\* The keystore is made, or half made, and the app does not learn of it.
SignUpStops(u, word) ==
  /\ current = Nobody /\ up
  /\ \/ Generate(u, word) /\ up' = up /\ faults' = faults
     \/ Fault /\ GenerateStops(u, word, FALSE) /\ up' = up
     \/ Fault /\ GenerateStops(u, word, TRUE) /\ up' = FALSE
  /\ UNCHANGED <<tables, flow, request, posted, signUps, logins, deviceId, active, token, current>>

\* POST /auth/register.  The nonce that was signed may have expired, or been forgotten in a
\* restart.
RegisterArrives(g) ==
  /\ posted[g] \in {"sent", "left"}
  /\ \/ /\ Inserts(gens[g].user)
        /\ Insert(gens[g].user, g, gens[g].word)
        /\ posted' = [posted EXCEPT ![g] = IF @ = "sent" THEN "stored" ELSE "over"]
     \/ /\ account' = account
        /\ posted' = [posted EXCEPT ![g] = IF @ = "sent" THEN "refused" ELSE "over"]
  /\ UNCHANGED <<keystoreVars, revoked, challenge, cache, table, flow, request, faults>>
  /\ UNCHANGED <<up, signUps, logins, deviceId, active, token, current>>

\* registerUserSucceeded: every signUp() that waits stores the device id.
Registered(g) ==
  /\ posted[g] = "stored"
  /\ posted' = [posted EXCEPT ![g] = "over"]
  /\ deviceId' = [u \in Users |-> IF u \in signUps THEN gens[g].user ELSE deviceId[u]]
  /\ signUps' = {}
  /\ UNCHANGED <<keystoreVars, serverVars, up, logins, active, token, current>>

Leave(pc) ==
  CASE pc = "sent" -> "left" [] pc \in {"stored", "refused"} -> "over" [] OTHER -> pc

\* registerUserFailed: refused, or no answer.  The server may have acted, or may yet act.
NotRegistered(g) ==
  /\ posted[g] \in {"sent", "stored", "refused"}
  /\ posted' = [posted EXCEPT ![g] = Leave(@)]
  /\ signUps' = {}
  /\ UNCHANGED <<keystoreVars, serverVars, up, logins, deviceId, active, token, current>>

-------------------------------------------------------------------------------
(* Login *)

\* loginUserFailed reaches every handler, and disconnects them all.
AllFail == logins' = <<>> /\ UNCHANGED <<token, current>>

NextFlow(f) == At(f, "none") /\ \A g \in Flows : g < f => ~ At(g, "none")

\* login(), if a device id is stored: srp_start, and round 1.
Login(f, u, word) ==
  /\ current = Nobody /\ Len(logins) < MaxWaiting /\ NextFlow(f)
  /\ deviceId[u] # Nobody
  /\ active' = deviceId[u]
  /\ \/ /\ up
        /\ mem' = SrpStarted(mem, f, word)
        /\ \E heard \in BOOLEAN :
             /\ Moves(f, [NoAttempt EXCEPT !.pc = IF heard THEN "init" ELSE "over",
                            !.user = u, !.device = deviceId[u], !.word = word,
                            !.hears = heard, !.late = u \in revoked])
             /\ IF heard THEN logins' = Append(logins, [user |-> u, word |-> word])
                         ELSE logins' = <<>>
     \/ ~ up /\ mem' = mem /\ flow' = flow /\ logins' = <<>>
  /\ UNCHANGED <<gens, disk, tables, request, faults, up, posted, signUps, deviceId, token, current>>

\* login(), if none is: whoever waits is told so.
LoginUnknown(u) ==
  /\ current = Nobody /\ deviceId[u] = Nobody /\ logins # <<>>
  /\ AllFail
  /\ UNCHANGED <<keystoreVars, serverVars, up, posted, signUps, deviceId, active>>

\* Round 1 is answered: srp_challenge, and round 2, with the A of this attempt.
Challenge(f) ==
  /\ At(f, "challenged") /\ flow[f].hears
  /\ \E heard \in BOOLEAN :
       LET m == IF up /\ CanChallenge(mem) THEN Challenged(mem, flow[f].salt, flow[f].b)
                ELSE mem
       IN  /\ mem' = m
           /\ IF up /\ CanChallenge(mem) /\ heard
              THEN /\ Moves(f, [flow[f] EXCEPT !.pc = "proof", !.proof = m.proof])
                   /\ UNCHANGED <<logins, token, current>>
              ELSE Moves(f, [flow[f] EXCEPT !.pc = "over"]) /\ AllFail
  /\ UNCHANGED <<gens, disk, tables, request, faults, up, posted, signUps, deviceId, active>>

\* What the handlers of login() do one after the other.  Each unlocks the keystore with the
\* password it captured, and takes over its user if that is answered with success.  Only the
\* first can find a key in mem.cached: it is used up whether or not it opens anything.
Reached(m, i) == IF i = 1 THEN m ELSE [m EXCEPT !.cached = NoKey]

AfterHandlers(m, heard) ==
  LET n == Len(logins)
      opened == {i \in 1 .. n : Unlocks(Reached(m, i), logins[i].word)}
      taken  == {i \in opened : heard[i]}
      last   == Unlocked(Reached(m, n), logins[n].word)
  IN  [mem |-> IF n = 0 THEN m
               ELSE [last EXCEPT !.bundle = IF opened = {} THEN @ ELSE disk.ident],
       current |-> IF taken = {} THEN current ELSE logins[Max(taken)].user]

\* Round 2 is answered: srp_verify, and if the server proved itself, loginUserSucceeded
\* reaches every handler.
Granted(f) ==
  /\ At(f, "granted") /\ flow[f].hears
  /\ Moves(f, [flow[f] EXCEPT !.pc = "in"])
  /\ \E verified \in BOOLEAN, heard \in [1 .. Len(logins) -> BOOLEAN] :
       LET m == IF up /\ mem.srp # 0 THEN SrpVerified(mem, flow[f].proof) ELSE mem
           s == AfterHandlers(m, heard)
       IN  IF up /\ Verifies(mem, flow[f].proof) /\ verified
           THEN token' = f /\ mem' = s.mem /\ current' = s.current /\ logins' = <<>>
           ELSE mem' = m /\ AllFail
  /\ UNCHANGED <<gens, disk, tables, request, faults, up, posted, signUps, deviceId, active>>

\* An attempt is refused, or its answer does not come.
LoginError(f) ==
  /\ flow[f].hears /\ ~ At(f, "in") /\ ~ At(f, "over")
  /\ Moves(f, [flow[f] EXCEPT !.hears = FALSE])
  /\ AllFail
  /\ UNCHANGED <<keystoreVars, tables, request, faults, up, posted, signUps, deviceId, active>>

Logout ==
  /\ current # Nobody
  /\ current' = Nobody /\ token' = 0 /\ active' = Nobody
  /\ UNCHANGED <<keystoreVars, serverVars, up, posted, signUps, logins, deviceId>>

-------------------------------------------------------------------------------
(* Crashes *)

\* What the error messages tell the user to do: "Delete that directory and re-register."
DeleteDirectory ==
  /\ current = Nobody /\ disk # NoFiles
  /\ disk' = NoFiles
  /\ UNCHANGED <<gens, mem, serverVars, appVars>>

ServiceDies ==
  /\ up /\ Fault
  /\ up' = FALSE /\ mem' = NoMemory
  /\ UNCHANGED <<gens, disk, tables, flow, request, posted, signUps, logins, deviceId, active,
                 token, current>>

AppRestarts ==
  /\ IF up THEN Fault ELSE faults' = faults
  /\ up' = TRUE /\ mem' = NoMemory
  /\ posted' = [g \in Gens |-> Leave(posted[g])]
  /\ flow' = [f \in Flows |-> Rest([flow[f] EXCEPT !.hears = FALSE])]
  /\ signUps' = {} /\ logins' = <<>>
  /\ active' = Nobody /\ token' = 0 /\ current' = Nobody
  /\ UNCHANGED <<gens, disk, tables, request, deviceId>>

-------------------------------------------------------------------------------

\* A request of the app, with the token it has, for the active device.  (For another device
\* than the token's it is refused.)
SendRequest(r) ==
  /\ token # 0 /\ active = flow[token].user
  /\ Send(r, token)
  /\ UNCHANGED <<keystoreVars, appVars>>

ServerSteps ==
  (ServerStep \/ ServerRestarts) /\ UNCHANGED <<keystoreVars, appVars>>

AccountNext ==
  \/ \E u \in Users, word \in Passwords :
       \/ SignUp(u, word) \/ SignUpStops(u, word)
       \/ \E f \in Flows : Login(f, u, word)
  \/ \E u \in Users : LoginUnknown(u)
  \/ \E g \in 1 .. Len(gens) : RegisterArrives(g) \/ Registered(g) \/ NotRegistered(g)
  \/ \E f \in Flows : Challenge(f) \/ Granted(f) \/ LoginError(f)
  \/ Logout \/ DeleteDirectory \/ ServiceDies \/ AppRestarts
  \/ \E r \in Requests : SendRequest(r)
  \/ ServerSteps

AccountSpec == AccountInit /\ [][AccountNext]_accountVars

-------------------------------------------------------------------------------
(* Properties *)

\* Type invariant.
AccountTypeOK ==
  /\ KeystoreTypeOK /\ ServerTypeOK
  /\ up \in BOOLEAN
  /\ posted \in [Gens -> Posting]
  /\ signUps \subseteq Users
  /\ logins \in Seq([user : Users, word : Passwords]) /\ Len(logins) <= MaxWaiting
  /\ deviceId \in [Users -> Users \cup {Nobody}]
  /\ active \in Users \cup {Nobody} /\ current \in Users \cup {Nobody}
  /\ token \in Flows \cup {0}

\* "Key is staged here; promoted to _cached_keystore_key only after srp_verify confirms
\* mutual authentication" (crypto_service.py:322): a key that unlock_keystore would use is
\* that of a login the server granted, for the password it proved to know, however attempts
\* overlap and in whatever order they are answered.
VerifiedBeforeCached ==
  mem.cached # NoKey =>
    \E f \in Flows : /\ flow[f].pc = "in"
                     /\ mem.cached = [word |-> flow[f].proof.word, salt |-> flow[f].proof.salt]

\* Who is signed in ("handlers ... leak and accumulate", AuthController.cpp:74, which this code
\* means to prevent): the token in use is that of the attempt whose password opened the
\* keystore in use, and the active device is the one that password was verified for, although
\* every handler that waits reacts to the success of any attempt.  (The user shown may be that
\* of another attempt; and of three attempts the second may leave its identity loaded, though
\* the third has then closed the keystore.)
SignedInAsVerified ==
  current # Nobody =>
    /\ token # 0 /\ flow[token].pc = "in"
    /\ active = flow[token].user
    /\ up /\ mem.store # NoKey /\ mem.bundle # 0 => gens[mem.bundle].word = flow[token].word
===============================================================================
