------------------------------ MODULE RpcChannel ------------------------------
(***************************************************************************)
(* The socket between the app (CryptoServiceClient.cpp) and its crypto     *)
(* service (crypto_service.py).  The app waits for each call, but not for  *)
(* ever: what it has given up is still handled, and the answer comes when  *)
(* the next call is under way.  An answer is a line that arrives in two    *)
(* pieces.  The service serves one connection at a time, line by line.     *)
(***************************************************************************)
EXTENDS Naturals, Sequences

CONSTANT MaxCalls    \* bound: calls made

ASSUME MaxCallsAssumption == MaxCalls \in Nat

VARIABLES
  calls,     \* calls made so far; they are numbered
  waiting,   \* the last of them is in readResponse()
  got,       \* whose answer each call has returned
  garbled,   \* calls that failed as "Invalid RPC response"
  link,      \* m_socket.state() is ConnectedState
  started,   \* m_serviceStarted
  alive,     \* the service runs
  since,     \* calls made before this run of the app
  inbox,     \* requests the service has not handled
  pipe,      \* pieces of answers on their way
  buf,       \* pieces in the buffer of m_socket
  acted      \* history: requests handled

clientVars  == <<calls, waiting, got, garbled, started, since>>
serviceVars == <<alive, inbox, acted>>
rpcVars     == <<clientVars, serviceVars, link, pipe, buf>>

RpcInit ==
  /\ calls = 0 /\ since = 0 /\ got = [i \in 1..MaxCalls |-> 0] /\ garbled = {}
  /\ waiting = FALSE /\ link = FALSE /\ started = FALSE
  /\ alive = FALSE /\ inbox = <<>> /\ acted = {}
  /\ pipe = <<>> /\ buf = <<>>

-------------------------------------------------------------------------------
(* The client *)

\* The call is written.  waitForBytesWritten() may give up though it will be, or because it
\* will not.
Write(service) ==
  /\ waiting' \in BOOLEAN
  /\ \/ service /\ inbox' = Append(inbox, calls + 1)
     \/ (waiting' => ~ service) /\ UNCHANGED inbox

\* On the connection there is, after what has arrived is drained.  The service may have died.
Call ==
  /\ ~ waiting /\ calls < MaxCalls /\ link
  /\ calls' = calls + 1
  /\ buf' = <<>>
  /\ Write(alive)
  /\ UNCHANGED <<got, garbled, link, started, since, alive, acted, pipe>>

\* On a new connection, to the service that runs or is started now.
CallConnects ==
  /\ ~ waiting /\ calls < MaxCalls /\ ~ link
  /\ alive \/ ~ started
  /\ calls' = calls + 1
  /\ link' = TRUE /\ alive' = TRUE /\ started' = (started \/ ~ alive)
  /\ pipe' = <<>> /\ buf' = <<>>
  /\ Write(TRUE)
  /\ UNCHANGED <<got, garbled, since, acted>>

\* No connection: the service is down and was started before, or it does not start, or it is
\* too slow.
CallFails ==
  /\ ~ waiting /\ calls < MaxCalls /\ ~ link
  /\ calls' = calls + 1
  /\ \/ UNCHANGED <<started, alive>>
     \/ ~ started /\ ~ alive /\ started' = TRUE /\ alive' \in BOOLEAN
  /\ UNCHANGED <<waiting, got, garbled, link, since, inbox, acted, pipe, buf>>

Arrive ==
  /\ pipe # <<>>
  /\ buf' = Append(buf, Head(pipe))
  /\ pipe' = Tail(pipe)
  /\ UNCHANGED <<clientVars, serviceVars, link>>

\* canReadLine(): where lines end.
Ends == {n \in 1..Len(buf) : buf[n].last}

\* (Mutation: what has arrived first is taken for a line.)
IsLine_Arrived(n) == n = 1

\* The first line is the first n pieces.
IsLine(n) == n \in Ends /\ \A k \in Ends : n <= k

\* It parses as an object.
Whole(n) == n = 2

\* (Mutation: the id is not compared.)
IsMine_Any == TRUE

\* The id is that of the request.
IsMine == buf[1].of = calls

\* A line is read: the answer; that of an earlier call, which is discarded; or none, and the
\* call fails.
ReadLine(n) ==
  /\ waiting /\ IsLine(n)
  /\ buf' = SubSeq(buf, n + 1, Len(buf))
  /\ \/ /\ Whole(n) /\ IsMine
        /\ got' = [got EXCEPT ![calls] = buf[1].of] /\ waiting' = FALSE
        /\ UNCHANGED garbled
     \/ /\ Whole(n) /\ ~ IsMine
        /\ UNCHANGED <<got, waiting, garbled>>
     \/ /\ ~ Whole(n)
        /\ garbled' = garbled \cup {calls} /\ waiting' = FALSE
        /\ UNCHANGED got
  /\ UNCHANGED <<calls, started, since, serviceVars, link, pipe>>

\* waitForReadyRead() gives up, or finds the connection closed.
TimeOut ==
  /\ waiting /\ Ends = {}
  /\ waiting' = FALSE
  /\ link' = alive
  /\ UNCHANGED <<calls, got, garbled, started, since, serviceVars, pipe, buf>>

\* The socket hears that the service has gone.
LinkDrops ==
  /\ ~ waiting /\ link /\ ~ alive
  /\ link' = FALSE
  /\ UNCHANGED <<clientVars, serviceVars, pipe, buf>>

\* The app dies, and is started again.  The service may survive it.
AppRestarts ==
  /\ since < calls
  /\ waiting' = FALSE /\ link' = FALSE /\ started' = FALSE
  /\ since' = calls
  /\ pipe' = <<>> /\ buf' = <<>>
  /\ UNCHANGED <<calls, got, garbled, serviceVars>>

-------------------------------------------------------------------------------
(* The service *)

Pieces(i) == <<[of |-> i, last |-> FALSE], [of |-> i, last |-> TRUE]>>

\* Lines are handled in their order.
NextRequest == Head(inbox)

\* A request is handled, and its answer sent.  If the connection is closed, sendall() may
\* raise, which ends the service and the requests of that connection with it.
Serve ==
  /\ alive /\ inbox # <<>>
  /\ acted' = acted \cup {NextRequest}
  /\ \/ /\ inbox' = Tail(inbox)
        /\ pipe' = IF NextRequest > since THEN pipe \o Pieces(NextRequest) ELSE pipe
        /\ UNCHANGED alive
     \/ /\ NextRequest <= since
        /\ alive' = FALSE /\ inbox' = <<>>
        /\ UNCHANGED pipe
  /\ UNCHANGED <<clientVars, link, buf>>

\* (Mutation: what it has not handled waits for the next one.)
ServiceDies_Keeps ==
  /\ alive
  /\ alive' = FALSE
  /\ \E n \in 0..Len(pipe) : pipe' = SubSeq(pipe, 1, n)
  /\ UNCHANGED <<clientVars, inbox, acted, link, buf>>

\* The service dies; of what it has sent, any part arrives.
ServiceDies ==
  /\ alive
  /\ alive' = FALSE /\ inbox' = <<>>
  /\ \E n \in 0..Len(pipe) : pipe' = SubSeq(pipe, 1, n)
  /\ UNCHANGED <<clientVars, acted, link, buf>>

RpcNext ==
  \/ Call \/ CallConnects \/ CallFails \/ TimeOut \/ LinkDrops \/ AppRestarts
  \/ Arrive \/ \E n \in DOMAIN buf : ReadLine(n)
  \/ Serve \/ ServiceDies

RpcSpec == RpcInit /\ [][RpcNext]_rpcVars

-------------------------------------------------------------------------------
(* Properties *)

Piece == [of : 1..MaxCalls, last : BOOLEAN]

Switches ==
  /\ waiting \in BOOLEAN /\ link \in BOOLEAN /\ started \in BOOLEAN /\ alive \in BOOLEAN
  /\ inbox # <<>> => alive

\* Type invariant.
RpcTypeOK ==
  /\ calls \in 0..MaxCalls /\ since \in 0..calls
  /\ got \in [1..MaxCalls -> 0..MaxCalls] /\ garbled \subseteq 1..MaxCalls
  /\ acted \subseteq 1..calls
  /\ inbox \in Seq(1..MaxCalls)
  /\ pipe \in Seq(Piece) /\ buf \in Seq(Piece)
  /\ Switches

\* "Drain any bytes left over from a previous timed-out call so they don't get mistaken for
\* the response to this request" (CryptoServiceClient.cpp:312-313): only a call right after
\* one that failed, in the same run of the app, can find half an answer.  (It can: the rest of
\* an answer that was drained in part arrives later.)
GarbledAfterFailure ==
  \A i \in garbled : i > 1 /\ got[i - 1] = 0

\* The calls as the other modules see them.
CallState ==
  [i \in 1..MaxCalls |->
    IF i > calls THEN "none"
    ELSE IF got[i] # 0 THEN IF got[i] = i THEN "answered" ELSE "wrong"
    ELSE IF waiting /\ i = calls THEN "open" ELSE "failed"]

Contract == INSTANCE Calls WITH state <- CallState

\* Whatever is late, lost or cut off, and whoever dies: a call returns its own answer or
\* fails, and calls take effect once and in their order ("JSON-RPC 2.0: clients must correlate
\* responses by id", CryptoServiceClient.cpp:474).
CallsSpec == Contract!Spec

-------------------------------------------------------------------------------
(* The inductive invariant of RpcProofs. *)

\* A call has no result but its own, and none while it waits.
OwnResults ==
  /\ \A i \in 1..MaxCalls : got[i] \in {0, i} /\ (i > calls => got[i] = 0)
  /\ waiting => calls > 0 /\ got[calls] = 0

\* Requests are in the order of the calls, and behind those that took effect.
InOrder ==
  /\ \A n \in DOMAIN inbox : inbox[n] <= calls
  /\ \A m, n \in DOMAIN inbox : m < n => inbox[m] < inbox[n]
  /\ \A i \in acted, n \in DOMAIN inbox : i < inbox[n]

\* There is no answer to what has not taken effect.
AnswersOfActed ==
  /\ \A n \in DOMAIN pipe : pipe[n].of \in acted
  /\ \A n \in DOMAIN buf : buf[n].of \in acted

RpcInv == RpcTypeOK /\ OwnResults /\ InOrder /\ AnswersOfActed
===============================================================================
