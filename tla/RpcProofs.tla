------------------------------- MODULE RpcProofs -------------------------------
(***************************************************************************)
(* Proofs about RpcChannel, for any number of calls: the socket implements *)
(* Calls, whoever dies and whatever comes late, and half an answer is      *)
(* found only by a call after one that failed.                             *)
(***************************************************************************)
EXTENDS RpcChannel, SequenceTheorems, TLAPS

LEMMA InitRpc == RpcInit => RpcInv
<1> SUFFICES ASSUME RpcInit PROVE RpcInv
  OBVIOUS
<1>1. RpcTypeOK
  <2>1. /\ inbox \in Seq(1..MaxCalls) /\ pipe \in Seq(Piece) /\ buf \in Seq(Piece)
        /\ inbox = <<>>
    BY EmptySeq DEF RpcInit
  <2>2. got \in [1..MaxCalls -> 0..MaxCalls] /\ garbled \subseteq 1..MaxCalls
    BY MaxCallsAssumption DEF RpcInit
  <2>3. Switches
    BY DEF RpcInit, Switches
  <2>4. calls = 0 /\ since = 0 /\ acted = {}
    BY DEF RpcInit
  <2> QED
    BY <2>1, <2>2, <2>3, <2>4, MaxCallsAssumption DEF RpcTypeOK
<1>2. OwnResults /\ InOrder /\ AnswersOfActed
  BY MaxCallsAssumption DEF RpcInit, OwnResults, InOrder, AnswersOfActed
<1> QED
  BY <1>1, <1>2 DEF RpcInv

-------------------------------------------------------------------------------
(* The invariant *)

\* Typing, in the form the steps use.
LEMMA Types ==
  ASSUME RpcInv
  PROVE  /\ MaxCalls \in Nat /\ calls \in 0..MaxCalls /\ since \in 0..calls
         /\ acted \subseteq 1..calls
         /\ inbox \in Seq(1..MaxCalls) /\ pipe \in Seq(Piece) /\ buf \in Seq(Piece)
         /\ Len(inbox) \in Nat /\ DOMAIN inbox = 1..Len(inbox)
         /\ Len(pipe) \in Nat /\ DOMAIN pipe = 1..Len(pipe)
         /\ Len(buf) \in Nat /\ DOMAIN buf = 1..Len(buf)
<1>1. /\ MaxCalls \in Nat /\ calls \in 0..MaxCalls /\ since \in 0..calls /\ acted \subseteq 1..calls
      /\ inbox \in Seq(1..MaxCalls) /\ pipe \in Seq(Piece) /\ buf \in Seq(Piece)
  BY MaxCallsAssumption DEF RpcInv, RpcTypeOK
<1> QED
  BY <1>1, LenProperties

\* What writing a request does to those that the service has not handled.
LEMMA WriteFacts ==
  ASSUME RpcInv, NEW service \in BOOLEAN, Write(service), calls < MaxCalls,
         calls' = calls + 1, acted' = acted
  PROVE  /\ waiting' \in BOOLEAN
         /\ inbox' \in Seq(1..MaxCalls)
         /\ inbox' # <<>> => inbox # <<>> \/ service
         /\ InOrder'
<1>0. /\ calls \in 0..MaxCalls /\ MaxCalls \in Nat /\ acted \subseteq 1..calls
      /\ inbox \in Seq(1..MaxCalls) /\ Len(inbox) \in Nat /\ DOMAIN inbox = 1..Len(inbox)
  BY Types
<1>1. CASE inbox' = inbox
  <2>1. waiting' \in BOOLEAN
    BY DEF Write
  <2>2. InOrder'
    BY <1>0, <1>1 DEF RpcInv, InOrder
  <2> QED
    BY <1>0, <1>1, <2>1, <2>2
<1>2. CASE service /\ inbox' = Append(inbox, calls + 1)
  <2>1. calls + 1 \in 1..MaxCalls
    BY <1>0
  <2>2. /\ inbox' \in Seq(1..MaxCalls) /\ Len(inbox') = Len(inbox) + 1
        /\ \A n \in 1..Len(inbox) : inbox'[n] = inbox[n]
        /\ inbox'[Len(inbox) + 1] = calls + 1
    BY <1>0, <1>2, <2>1, AppendProperties
  <2>3. DOMAIN inbox' = 1..(Len(inbox) + 1)
    BY <2>2, LenProperties
  <2>4. /\ \A n \in 1..Len(inbox) : inbox[n] <= calls
        /\ \A m, n \in 1..Len(inbox) : m < n => inbox[m] < inbox[n]
        /\ \A i \in acted, n \in 1..Len(inbox) : i < inbox[n]
        /\ \A n \in 1..Len(inbox) : inbox[n] \in 1..MaxCalls
    BY <1>0, ElementOfSeq DEF RpcInv, InOrder
  <2>5. InOrder'
    <3>1. \A n \in DOMAIN inbox' : inbox'[n] <= calls'
      BY <1>0, <2>2, <2>3, <2>4
    <3>2. ASSUME NEW m \in 1..(Len(inbox) + 1), NEW n \in 1..(Len(inbox) + 1), m < n
          PROVE  inbox'[m] < inbox'[n]
      <4>1. m \in 1..Len(inbox) /\ inbox'[m] = inbox[m] /\ inbox[m] <= calls /\ inbox[m] \in Nat
        BY <1>0, <2>2, <2>4, <3>2
      <4>2. CASE n = Len(inbox) + 1
        BY <1>0, <2>2, <4>1, <4>2
      <4>3. CASE n \in 1..Len(inbox)
        BY <2>2, <2>4, <3>2, <4>1, <4>3
      <4> QED
        BY <1>0, <4>2, <4>3
    <3>3. ASSUME NEW i \in acted, NEW n \in 1..(Len(inbox) + 1)
          PROVE  i < inbox'[n]
      <4>1. i \in 1..calls
        BY <1>0
      <4>2. CASE n = Len(inbox) + 1
        BY <1>0, <2>2, <4>1, <4>2
      <4>3. CASE n \in 1..Len(inbox)
        BY <2>2, <2>4, <4>3
      <4> QED
        BY <1>0, <4>2, <4>3
    <3> QED
      BY <2>3, <3>1, <3>2, <3>3 DEF InOrder
  <2> QED
    BY <1>2, <2>2, <2>5 DEF Write
<1> QED
  BY <1>1, <1>2 DEF Write

LEMMA CallKeepsRpcInv ==
  ASSUME RpcInv, Call \/ CallConnects
  PROVE  RpcInv'
<1>0. /\ MaxCalls \in Nat /\ calls \in 0..MaxCalls /\ since \in 0..calls /\ acted \subseteq 1..calls
      /\ inbox \in Seq(1..MaxCalls) /\ pipe \in Seq(Piece) /\ DOMAIN pipe = 1..Len(pipe)
  BY Types
<1>1. /\ calls < MaxCalls /\ calls' = calls + 1
      /\ got' = got /\ garbled' = garbled /\ since' = since /\ acted' = acted
  BY DEF Call, CallConnects
<1>2. /\ buf' = <<>> /\ (pipe' = pipe \/ pipe' = <<>>)
  BY DEF Call, CallConnects
<1>3. \E service \in BOOLEAN : Write(service) /\ (service \/ alive => alive')
  <2>1. CASE Call
    BY <2>1 DEF Call, RpcInv, RpcTypeOK, Switches
  <2>2. CASE CallConnects
    BY <2>2 DEF CallConnects
  <2> QED
    BY <2>1, <2>2
<1>4. PICK service \in BOOLEAN : Write(service) /\ (service \/ alive => alive')
  BY <1>3
<1>5. /\ waiting' \in BOOLEAN
      /\ inbox' \in Seq(1..MaxCalls)
      /\ inbox' # <<>> => inbox # <<>> \/ service
      /\ InOrder'
  BY <1>1, <1>4, WriteFacts
<1>6. Switches'
  <2>1. CASE Call
    BY <1>4, <1>5, <2>1 DEF Call, RpcInv, RpcTypeOK, Switches
  <2>2. CASE CallConnects
    <3>1. started' \in BOOLEAN
      BY <2>2 DEF CallConnects
    <3> QED
      BY <1>5, <2>2, <3>1 DEF CallConnects, Switches
  <2> QED
    BY <2>1, <2>2
<1>7. RpcTypeOK'
  <2>1. got \in [1..MaxCalls -> 0..MaxCalls] /\ garbled \subseteq 1..MaxCalls
    BY DEF RpcInv, RpcTypeOK
  <2>2. pipe' \in Seq(Piece) /\ buf' \in Seq(Piece)
    BY <1>0, <1>2, EmptySeq
  <2>3. calls' \in 0..MaxCalls /\ since' \in 0..calls' /\ acted' \subseteq 1..calls'
    BY <1>0, <1>1
  <2> QED
    BY <1>1, <1>5, <1>6, <2>1, <2>2, <2>3 DEF RpcTypeOK
<1>8. OwnResults'
  <2>1. /\ \A i \in 1..MaxCalls : got[i] \in {0, i} /\ (i > calls => got[i] = 0)
        /\ calls + 1 \in 1..MaxCalls
    BY <1>0, <1>1 DEF RpcInv, OwnResults
  <2> QED
    BY <1>0, <1>1, <2>1 DEF OwnResults
<1>9. AnswersOfActed'
  BY <1>1, <1>2 DEF RpcInv, AnswersOfActed
<1> QED
  BY <1>5, <1>7, <1>8, <1>9 DEF RpcInv

LEMMA CallFailsKeepsRpcInv == ASSUME RpcInv, CallFails PROVE RpcInv'
<1>0. /\ MaxCalls \in Nat /\ calls \in 0..MaxCalls /\ since \in 0..calls /\ acted \subseteq 1..calls
      /\ inbox \in Seq(1..MaxCalls) /\ DOMAIN inbox = 1..Len(inbox)
  BY Types
<1>1. /\ ~ waiting /\ calls < MaxCalls /\ calls' = calls + 1
      /\ UNCHANGED <<waiting, got, garbled, since, inbox, acted, pipe, buf>>
  BY DEF CallFails
<1>2. Switches'
  <2>1. alive => alive'
    BY DEF CallFails
  <2>2. alive' \in BOOLEAN /\ started' \in BOOLEAN /\ link' = link
    BY DEF CallFails, RpcInv, RpcTypeOK, Switches
  <2> QED
    BY <1>1, <2>1, <2>2 DEF RpcInv, RpcTypeOK, Switches
<1>3. RpcTypeOK'
  <2>1. calls' \in 0..MaxCalls /\ since' \in 0..calls' /\ acted' \subseteq 1..calls'
    BY <1>0, <1>1
  <2> QED
    BY <1>1, <1>2, <2>1 DEF RpcInv, RpcTypeOK
<1>4. OwnResults'
  BY <1>0, <1>1 DEF RpcInv, OwnResults
<1>5. InOrder'
  <2>1. \A n \in 1..Len(inbox) : inbox[n] <= calls /\ inbox[n] \in 1..MaxCalls
    BY <1>0, ElementOfSeq DEF RpcInv, InOrder
  <2> QED
    BY <1>0, <1>1, <2>1 DEF RpcInv, InOrder
<1>6. AnswersOfActed'
  BY <1>1 DEF RpcInv, AnswersOfActed
<1> QED
  BY <1>3, <1>4, <1>5, <1>6 DEF RpcInv

LEMMA ArriveKeepsRpcInv == ASSUME RpcInv, Arrive PROVE RpcInv'
<1>1. /\ pipe # <<>> /\ buf' = Append(buf, Head(pipe)) /\ pipe' = Tail(pipe)
      /\ UNCHANGED <<calls, waiting, got, garbled, started, since, alive, inbox, acted, link>>
  BY DEF Arrive, clientVars, serviceVars
<1>2. /\ pipe \in Seq(Piece) /\ buf \in Seq(Piece) /\ Len(pipe) \in Nat \ {0} /\ Len(buf) \in Nat
      /\ DOMAIN pipe = 1..Len(pipe) /\ DOMAIN buf = 1..Len(buf)
  BY <1>1, Types, EmptySeq
<1>3. /\ Head(pipe) \in Piece /\ Head(pipe) = pipe[1] /\ pipe' \in Seq(Piece)
      /\ Len(pipe') = Len(pipe) - 1 /\ \A n \in 1..Len(pipe') : pipe'[n] = pipe[n + 1]
  BY <1>1, <1>2, HeadTailProperties
<1>4. /\ buf' \in Seq(Piece) /\ Len(buf') = Len(buf) + 1
      /\ \A n \in 1..Len(buf) : buf'[n] = buf[n]
      /\ buf'[Len(buf) + 1] = pipe[1]
  BY <1>1, <1>2, <1>3, AppendProperties
<1>5. DOMAIN pipe' = 1..Len(pipe') /\ DOMAIN buf' = 1..Len(buf')
  BY <1>3, <1>4, LenProperties
<1>6. RpcTypeOK'
  BY <1>1, <1>3, <1>4 DEF RpcInv, RpcTypeOK, Switches
<1>7. \A n \in 1..Len(pipe') : pipe'[n].of \in acted
  <2> TAKE n \in 1..Len(pipe')
  <2>1. n + 1 \in 1..Len(pipe)
    BY <1>2, <1>3
  <2> QED
    BY <1>2, <1>3, <2>1 DEF RpcInv, AnswersOfActed
<1>8. \A n \in 1..Len(buf') : buf'[n].of \in acted
  <2> TAKE n \in 1..Len(buf')
  <2>1. n \in 1..Len(buf) \/ n = Len(buf) + 1
    BY <1>2, <1>4
  <2>2. pipe[1].of \in acted
    BY <1>2 DEF RpcInv, AnswersOfActed
  <2> QED
    BY <1>2, <1>4, <2>1, <2>2 DEF RpcInv, AnswersOfActed
<1>9. AnswersOfActed'
  BY <1>1, <1>5, <1>7, <1>8 DEF AnswersOfActed
<1> QED
  BY <1>1, <1>6, <1>9 DEF RpcInv, OwnResults, InOrder

\* What is left of the buffer when n pieces are taken.
LEMMA ReadRest ==
  ASSUME RpcInv, NEW n \in DOMAIN buf, buf' = SubSeq(buf, n + 1, Len(buf))
  PROVE  /\ buf' \in Seq(Piece)
         /\ \A k \in DOMAIN buf' : buf'[k].of \in acted
<1>1. buf \in Seq(Piece) /\ Len(buf) \in Nat /\ n \in 1..Len(buf) /\ DOMAIN buf = 1..Len(buf)
  BY Types
<1>2. \A k \in (n + 1)..Len(buf) : buf[k] \in Piece
  BY <1>1, ElementOfSeq
<1>3. /\ buf' \in Seq(Piece) /\ \A k \in 1..(Len(buf) - (n + 1) + 1) : buf'[k] = buf[n + 1 + k - 1]
      /\ Len(buf') = IF n + 1 <= Len(buf) THEN Len(buf) - (n + 1) + 1 ELSE 0
  BY <1>1, <1>2, SubSeqProperties
<1>4. DOMAIN buf' = 1..(Len(buf) - n)
  BY <1>1, <1>3, LenProperties
<1>5. ASSUME NEW k \in 1..(Len(buf) - n) PROVE buf'[k].of \in acted
  <2>1. n + k \in 1..Len(buf) /\ buf'[k] = buf[n + k]
    BY <1>1, <1>3
  <2> QED
    BY <1>1, <2>1 DEF RpcInv, AnswersOfActed
<1> QED
  BY <1>3, <1>4, <1>5

LEMMA ReadLineKeepsRpcInv == ASSUME RpcInv, NEW n \in DOMAIN buf, ReadLine(n) PROVE RpcInv'
<1>0. MaxCalls \in Nat /\ calls \in 0..MaxCalls
  BY Types
<1>1. /\ waiting /\ UNCHANGED <<calls, started, since, alive, inbox, acted, link, pipe>>
      /\ waiting' = FALSE \/ waiting' = waiting
      /\ buf' = SubSeq(buf, n + 1, Len(buf))
  BY DEF ReadLine, serviceVars
<1>2. calls \in 1..MaxCalls
  BY <1>0, <1>1 DEF RpcInv, OwnResults
<1>3. \/ got' = got /\ (~ waiting' \/ waiting')
      \/ got' = [got EXCEPT ![calls] = calls] /\ waiting' = FALSE
  BY DEF ReadLine, IsMine
<1>4. garbled' = garbled \/ garbled' = garbled \cup {calls}
  BY DEF ReadLine
<1>5. Switches'
  BY <1>1 DEF RpcInv, RpcTypeOK, Switches
<1>6. RpcTypeOK'
  <2>1. got' \in [1..MaxCalls -> 0..MaxCalls]
    BY <1>0, <1>2, <1>3 DEF RpcInv, RpcTypeOK
  <2>2. garbled' \subseteq 1..MaxCalls
    BY <1>2, <1>4 DEF RpcInv, RpcTypeOK
  <2> QED
    BY <1>1, <1>5, <2>1, <2>2, ReadRest DEF RpcInv, RpcTypeOK
<1>7. OwnResults'
  <2>1. /\ \A i \in 1..MaxCalls : got[i] \in {0, i} /\ (i > calls => got[i] = 0)
        /\ got \in [1..MaxCalls -> 0..MaxCalls] /\ got[calls] = 0
    BY <1>1 DEF RpcInv, RpcTypeOK, OwnResults
  <2>2. \A i \in 1..MaxCalls : got'[i] \in {0, i} /\ (i > calls' => got'[i] = 0)
    BY <1>0, <1>1, <1>2, <1>3, <2>1
  <2>3. waiting' => got' = got
    BY <1>3
  <2> QED
    BY <1>0, <1>1, <1>2, <2>1, <2>2, <2>3 DEF OwnResults
<1>8. AnswersOfActed'
  BY <1>1, ReadRest DEF RpcInv, AnswersOfActed
<1> QED
  BY <1>1, <1>6, <1>7, <1>8 DEF RpcInv, InOrder

\* What serving a request sends.
LEMMA AnswerSent ==
  ASSUME RpcInv, NEW i \in 1..MaxCalls
  PROVE  /\ (pipe \o Pieces(i)) \in Seq(Piece)
         /\ \A n \in DOMAIN (pipe \o Pieces(i)) : (pipe \o Pieces(i))[n].of \in acted \cup {i}
<1> DEFINE p == Pieces(i)
<1>1. /\ pipe \in Seq(Piece) /\ Len(pipe) \in Nat
      /\ \A n \in 1..Len(pipe) : pipe[n].of \in acted
  BY Types DEF RpcInv, AnswersOfActed
<1>2. p \in Seq(Piece) /\ Len(p) = 2 /\ \A n \in 1..2 : p[n].of = i
  BY DEF Pieces, Piece
<1> HIDE DEF p
<1>3. Len(pipe) \in Nat
  BY <1>1
<1>4. /\ (pipe \o p) \in Seq(Piece) /\ Len(pipe \o p) = Len(pipe) + Len(p)
      /\ \A n \in 1..(Len(pipe) + Len(p)) :
           (pipe \o p)[n] = IF n <= Len(pipe) THEN pipe[n] ELSE p[n - Len(pipe)]
  <2>1. pipe \in Seq(Piece) /\ p \in Seq(Piece)
    BY <1>1, <1>2
  <2> QED
    BY ONLY <2>1, ConcatProperties
<1>5. /\ (pipe \o p) \in Seq(Piece) /\ Len(pipe \o p) = Len(pipe) + 2
      /\ \A n \in 1..(Len(pipe) + 2) :
           (pipe \o p)[n] = IF n <= Len(pipe) THEN pipe[n] ELSE p[n - Len(pipe)]
  BY <1>2, <1>4
<1>6. DOMAIN (pipe \o p) = 1..(Len(pipe) + 2)
  BY <1>5, LenProperties
<1>7. ASSUME NEW n \in 1..(Len(pipe) + 2) PROVE (pipe \o p)[n].of \in acted \cup {i}
  <2>1. CASE n <= Len(pipe)
    BY <1>1, <1>5, <2>1
  <2>2. CASE n > Len(pipe)
    <3>1. n - Len(pipe) \in 1..2 /\ (pipe \o p)[n] = p[n - Len(pipe)]
      BY <1>1, <1>5, <2>2
    <3> QED
      BY <1>2, <3>1
  <2>3. n <= Len(pipe) \/ n > Len(pipe)
    BY <1>3
  <2> QED
    BY <2>1, <2>2, <2>3
<1> QED
  BY <1>5, <1>6, <1>7 DEF p

\* The request that is served next.
LEMMA NextFacts ==
  ASSUME RpcInv, inbox # <<>>
  PROVE  /\ NextRequest \in 1..calls /\ \A i \in acted : i < NextRequest
         /\ Tail(inbox) \in Seq(1..MaxCalls)
         /\ DOMAIN Tail(inbox) = 1..(Len(inbox) - 1)
         /\ \A n \in 1..(Len(inbox) - 1) :
              Tail(inbox)[n] = inbox[n + 1] /\ NextRequest < inbox[n + 1]
<1>1. /\ MaxCalls \in Nat /\ calls \in 0..MaxCalls
      /\ inbox \in Seq(1..MaxCalls) /\ DOMAIN inbox = 1..Len(inbox) /\ Len(inbox) \in Nat \ {0}
  BY Types, EmptySeq
<1>2. /\ NextRequest = inbox[1] /\ Tail(inbox) \in Seq(1..MaxCalls) /\ Len(Tail(inbox)) = Len(inbox) - 1
      /\ \A n \in 1..(Len(inbox) - 1) : Tail(inbox)[n] = inbox[n + 1]
  BY <1>1, HeadTailProperties DEF NextRequest
<1>3. 1 \in DOMAIN inbox /\ inbox[1] \in 1..MaxCalls
  BY <1>1, ElementOfSeq
<1>4. \A n \in 1..(Len(inbox) - 1) : inbox[1] < inbox[n + 1]
  BY <1>1, <1>3 DEF RpcInv, InOrder
<1>5. inbox[1] <= calls /\ \A i \in acted : i < inbox[1]
  BY <1>3 DEF RpcInv, InOrder
<1> QED
  BY <1>1, <1>2, <1>3, <1>4, <1>5, LenProperties

LEMMA ServeKeepsRpcInv == ASSUME RpcInv, Serve PROVE RpcInv'
<1> DEFINE i == NextRequest
<1>0. /\ MaxCalls \in Nat /\ calls \in 0..MaxCalls /\ since \in 0..calls /\ acted \subseteq 1..calls
      /\ inbox \in Seq(1..MaxCalls) /\ pipe \in Seq(Piece) /\ DOMAIN inbox = 1..Len(inbox)
  BY Types
<1>1. /\ inbox # <<>> /\ acted' = acted \cup {i}
      /\ inbox' = Tail(inbox) \/ inbox' = <<>>
      /\ pipe' = pipe \/ pipe' = pipe \o Pieces(i)
      /\ UNCHANGED <<calls, waiting, got, garbled, started, since, link, buf>>
  <2>1. inbox # <<>> /\ acted' = acted \cup {i} /\ (inbox' = Tail(inbox) \/ inbox' = <<>>)
    BY DEF Serve
  <2>2. pipe' = pipe \/ pipe' = pipe \o Pieces(i)
    BY DEF Serve
  <2>3. UNCHANGED <<calls, waiting, got, garbled, started, since, link, buf>>
    BY DEF Serve, clientVars
  <2> QED
    BY <2>1, <2>2, <2>3
<1>2. i \in 1..calls /\ i \in 1..MaxCalls
  BY <1>0, <1>1, NextFacts
<1>3. Switches'
  <2>1. (inbox' = <<>> /\ alive' = FALSE) \/ (alive /\ alive' = alive)
    BY DEF Serve
  <2> QED
    BY <1>1, <2>1 DEF RpcInv, RpcTypeOK, Switches
<1>4. RpcTypeOK'
  <2>1. inbox' \in Seq(1..MaxCalls) /\ pipe' \in Seq(Piece)
    <3>1. Tail(inbox) \in Seq(1..MaxCalls) /\ <<>> \in Seq(1..MaxCalls)
      BY <1>1, NextFacts, EmptySeq
    <3>2. (pipe \o Pieces(i)) \in Seq(Piece)
      BY <1>2, AnswerSent
    <3> QED
      BY <1>0, <1>1, <3>1, <3>2
  <2>2. acted' \subseteq 1..calls
    BY <1>0, <1>1, <1>2
  <2> QED
    BY <1>1, <1>3, <2>1, <2>2 DEF RpcInv, RpcTypeOK
<1>5. InOrder'
  <2>1. CASE inbox' = <<>>
    BY <2>1 DEF InOrder
  <2>2. CASE inbox' = Tail(inbox)
    <3> DEFINE k == Len(inbox) - 1
    <3>1. /\ DOMAIN inbox' = 1..k /\ Len(inbox) \in Nat
          /\ \A n \in 1..k : inbox'[n] = inbox[n + 1] /\ i < inbox[n + 1] /\ n + 1 \in DOMAIN inbox
      BY <1>0, <1>1, <2>2, NextFacts, Types
    <3>2. \A n \in DOMAIN inbox' : inbox'[n] <= calls'
      BY <1>1, <3>1 DEF RpcInv, InOrder
    <3>3. \A m, n \in DOMAIN inbox' : m < n => inbox'[m] < inbox'[n]
      <4> SUFFICES ASSUME NEW m \in 1..k, NEW n \in 1..k, m < n PROVE inbox[m + 1] < inbox[n + 1]
        BY <3>1
      <4>1. m + 1 \in DOMAIN inbox /\ n + 1 \in DOMAIN inbox /\ m + 1 < n + 1
        BY <3>1
      <4> QED
        BY <4>1 DEF RpcInv, InOrder
    <3>4. \A j \in acted', n \in DOMAIN inbox' : j < inbox'[n]
      BY <1>1, <3>1 DEF RpcInv, InOrder
    <3> QED
      BY <3>2, <3>3, <3>4 DEF InOrder
  <2> QED
    BY <1>1, <2>1, <2>2
<1>6. AnswersOfActed'
  <2>1. \A n \in DOMAIN pipe' : pipe'[n].of \in acted'
    BY <1>1, <1>2, AnswerSent DEF RpcInv, AnswersOfActed
  <2> QED
    BY <1>1, <2>1 DEF RpcInv, AnswersOfActed
<1> QED
  BY <1>1, <1>4, <1>5, <1>6 DEF RpcInv, OwnResults

LEMMA TimeOutKeepsRpcInv == ASSUME RpcInv, TimeOut \/ LinkDrops PROVE RpcInv'
<1>1. /\ UNCHANGED <<calls, got, garbled, started, since, alive, inbox, acted, pipe, buf>>
      /\ waiting' = FALSE \/ waiting' = waiting
  BY DEF TimeOut, LinkDrops, clientVars, serviceVars
<1>2. Switches'
  <2>1. link' = alive \/ link' = FALSE
    BY DEF TimeOut, LinkDrops
  <2> QED
    BY <1>1, <2>1 DEF RpcInv, RpcTypeOK, Switches
<1>3. OwnResults'
  BY <1>1 DEF RpcInv, OwnResults
<1> QED
  BY <1>1, <1>2, <1>3 DEF RpcInv, RpcTypeOK, InOrder, AnswersOfActed

LEMMA AppRestartsKeepsRpcInv == ASSUME RpcInv, AppRestarts PROVE RpcInv'
<1>1. /\ waiting' = FALSE /\ since' = calls /\ pipe' = <<>> /\ buf' = <<>>
      /\ UNCHANGED <<calls, got, garbled, alive, inbox, acted>>
  BY DEF AppRestarts, serviceVars
<1>2. Switches'
  <2>1. link' = FALSE /\ started' = FALSE
    BY DEF AppRestarts
  <2> QED
    BY <1>1, <2>1 DEF RpcInv, RpcTypeOK, Switches
<1>3. RpcTypeOK'
  <2>1. since' \in 0..calls'
    BY <1>1, Types
  <2>2. pipe' \in Seq(Piece) /\ buf' \in Seq(Piece)
    BY <1>1, EmptySeq
  <2> QED
    BY <1>1, <1>2, <2>1, <2>2 DEF RpcInv, RpcTypeOK
<1>4. AnswersOfActed'
  BY <1>1 DEF AnswersOfActed
<1> QED
  BY <1>1, <1>3, <1>4 DEF RpcInv, OwnResults, InOrder

LEMMA ServiceDiesKeepsRpcInv == ASSUME RpcInv, ServiceDies PROVE RpcInv'
<1>1. /\ alive' = FALSE /\ inbox' = <<>>
      /\ UNCHANGED <<calls, waiting, got, garbled, started, since, acted, link, buf>>
  BY DEF ServiceDies, clientVars
<1>2. PICK n \in 0..Len(pipe) : pipe' = SubSeq(pipe, 1, n)
  BY DEF ServiceDies
<1>3. pipe \in Seq(Piece) /\ Len(pipe) \in Nat /\ DOMAIN pipe = 1..Len(pipe)
  BY Types
<1>4. \A k \in 1..n : pipe[k] \in Piece
  BY <1>3, ElementOfSeq
<1>5. /\ pipe' \in Seq(Piece) /\ Len(pipe') = IF 1 <= n THEN n - 1 + 1 ELSE 0
      /\ \A k \in 1..(n - 1 + 1) : pipe'[k] = pipe[1 + k - 1]
  BY <1>2, <1>3, <1>4, SubSeqProperties
<1>6. DOMAIN pipe' = 1..n
  BY <1>2, <1>3, <1>5, LenProperties
<1>7. RpcTypeOK'
  BY <1>1, <1>5, EmptySeq DEF RpcInv, RpcTypeOK, Switches
<1>8. AnswersOfActed'
  <2>1. \A k \in 1..n : pipe'[k] = pipe[k] /\ k \in 1..Len(pipe)
    BY <1>2, <1>3, <1>5
  <2> QED
    BY <1>1, <1>3, <1>6, <2>1 DEF RpcInv, AnswersOfActed
<1>9. InOrder'
  BY <1>1 DEF InOrder
<1> QED
  BY <1>1, <1>7, <1>8, <1>9 DEF RpcInv, OwnResults

LEMMA NextKeepsRpcInv == ASSUME RpcInv, [RpcNext]_rpcVars PROVE RpcInv'
<1>1. CASE UNCHANGED rpcVars
  BY <1>1 DEF rpcVars, clientVars, serviceVars, RpcInv, RpcTypeOK, Switches, OwnResults, InOrder,
     AnswersOfActed
<1> QED
  BY <1>1, CallKeepsRpcInv, CallFailsKeepsRpcInv, ArriveKeepsRpcInv, ReadLineKeepsRpcInv,
     ServeKeepsRpcInv, TimeOutKeepsRpcInv, AppRestartsKeepsRpcInv, ServiceDiesKeepsRpcInv
     DEF RpcNext

\* For any number of calls, timeouts and deaths, the invariant holds.
THEOREM RpcInvariance == RpcSpec => []RpcInv
  BY InitRpc, NextKeepsRpcInv, PTL DEF RpcSpec

\* The state of both ends, and of what is between them, keeps its types.
THEOREM RpcTypes == RpcSpec => []RpcTypeOK
<1>1. RpcInv => RpcTypeOK
  BY DEF RpcInv
<1> QED
  BY <1>1, RpcInvariance, PTL

-------------------------------------------------------------------------------
(* The refinement *)

\* A state in which nothing is said of the calls but what was.
LEMMA SameCalls ==
  ASSUME UNCHANGED <<calls, waiting, got>>
  PROVE  CallState' = CallState
  BY DEF CallState

\* How the calls look while none, or the last, is waited for.
LEMMA CallsSoFar ==
  ASSUME RpcInv
  PROVE  /\ \A i \in 1..MaxCalls : i > calls => CallState[i] = "none"
         /\ \A i \in 1..MaxCalls : i <= calls => CallState[i] # "none"
         /\ ~ waiting => \A i \in 1..MaxCalls : i <= calls => CallState[i] \in {"answered", "failed"}
         /\ waiting => calls \in 1..MaxCalls /\ CallState[calls] = "open"
<1>1. /\ MaxCalls \in Nat /\ calls \in 0..MaxCalls
      /\ \A i \in 1..MaxCalls : got[i] = 0 \/ got[i] = i
  BY Types DEF RpcInv, OwnResults
<1>2. waiting => calls \in 1..MaxCalls /\ got[calls] = 0
  BY <1>1 DEF RpcInv, OwnResults
<1> QED
  BY <1>1, <1>2 DEF CallState

LEMMA CallOpens ==
  ASSUME RpcInv, RpcInv', Call \/ CallConnects \/ CallFails
  PROVE  Contract!Open(calls + 1) /\ calls + 1 \in 1..MaxCalls
<1>1. /\ ~ waiting /\ calls < MaxCalls /\ calls' = calls + 1 /\ got' = got /\ acted' = acted
  BY DEF Call, CallConnects, CallFails
<1>2. /\ MaxCalls \in Nat /\ calls \in 0..MaxCalls
      /\ \A i \in 1..MaxCalls : got[i] = 0 \/ got[i] = i
  BY Types DEF RpcInv, OwnResults
<1>3. calls + 1 \in 1..MaxCalls /\ got[calls + 1] = 0
  BY <1>1, <1>2 DEF RpcInv, OwnResults
<1> DEFINE s == IF waiting' THEN "open" ELSE "failed"
<1>4. CallState' = [CallState EXCEPT ![calls + 1] = s]
  <2>1. ASSUME NEW i \in 1..MaxCalls, i # calls + 1 PROVE CallState'[i] = CallState[i]
    BY <1>1, <1>2, <2>1 DEF CallState
  <2>2. CallState'[calls + 1] = s
    BY <1>1, <1>2, <1>3 DEF CallState
  <2>3. /\ CallState' = [i \in 1..MaxCalls |-> CallState'[i]]
        /\ CallState = [i \in 1..MaxCalls |-> CallState[i]]
    BY DEF CallState
  <2> HIDE DEF s
  <2> QED
    BY <1>3, <2>1, <2>2, <2>3
<1>5. \A j \in 1..MaxCalls :
        CallState[j] \in IF j < calls + 1 THEN {"answered", "failed"} ELSE {"none"}
  BY <1>1, <1>2, CallsSoFar
<1>6. s \in {"open", "failed"}
  OBVIOUS
<1> QED
  BY <1>1, <1>3, <1>4, <1>5, <1>6 DEF Contract!Open

\* The call that is waited for ends without a result.
LEMMA CallEnds ==
  ASSUME RpcInv, waiting, waiting' = FALSE, UNCHANGED <<calls, got, acted>>
  PROVE  Contract!Fail(calls) /\ calls \in 1..MaxCalls
<1>1. calls \in 1..MaxCalls /\ CallState[calls] = "open" /\ got[calls] = 0 /\ MaxCalls \in Nat
  BY CallsSoFar, Types DEF RpcInv, OwnResults
<1>2. CallState' = [CallState EXCEPT ![calls] = "failed"]
  BY <1>1 DEF CallState
<1> QED
  BY <1>1, <1>2 DEF Contract!Fail

LEMMA ReadLineReturns ==
  ASSUME RpcInv, NEW n \in DOMAIN buf, ReadLine(n)
  PROVE  Contract!Next \/ UNCHANGED Contract!callVars
<1>0. waiting /\ UNCHANGED <<calls, acted>>
  BY DEF ReadLine, serviceVars
<1>1. calls \in 1..MaxCalls /\ CallState[calls] = "open" /\ MaxCalls \in Nat
      /\ got \in [1..MaxCalls -> 0..MaxCalls]
  BY <1>0, CallsSoFar, Types DEF RpcInv, RpcTypeOK
<1>2. CASE IsMine /\ got' = [got EXCEPT ![calls] = buf[1].of] /\ waiting' = FALSE
  <2>1. buf[1].of = calls
    BY <1>2 DEF IsMine
  <2>2. calls \in acted
    <3>1. 1 \in DOMAIN buf
      BY Types
    <3> QED
      BY <2>1, <3>1 DEF RpcInv, AnswersOfActed
  <2>3. CallState' = [CallState EXCEPT ![calls] = "answered"]
    <3>1. got' = [got EXCEPT ![calls] = calls]
      BY <1>2, <2>1
    <3>2. got'[calls] = calls /\ \A i \in 1..MaxCalls : i # calls => got'[i] = got[i]
      BY <1>1, <3>1
    <3>3. CallState'[calls] = "answered"
      BY <1>0, <1>1, <3>2 DEF CallState
    <3>4. ASSUME NEW i \in 1..MaxCalls, i # calls PROVE CallState'[i] = CallState[i]
      BY <1>0, <1>1, <3>2, <3>4 DEF CallState
    <3>5. /\ CallState' = [i \in 1..MaxCalls |-> CallState'[i]]
          /\ CallState = [i \in 1..MaxCalls |-> CallState[i]]
      BY DEF CallState
    <3> QED
      BY <1>1, <3>3, <3>4, <3>5
  <2> QED
    BY <1>0, <1>1, <2>2, <2>3 DEF Contract!Next, Contract!Return
<1>3. CASE UNCHANGED <<got, waiting>>
  BY <1>0, <1>3, SameCalls DEF Contract!callVars
<1>4. CASE got' = got /\ waiting' = FALSE
  BY <1>0, <1>4, CallEnds DEF Contract!Next
<1> QED
  BY <1>2, <1>3, <1>4 DEF ReadLine

LEMMA ServeActs ==
  ASSUME RpcInv, Serve
  PROVE  Contract!Act(NextRequest) /\ NextRequest \in 1..MaxCalls
<1>1. inbox # <<>> /\ acted' = acted \cup {NextRequest} /\ UNCHANGED <<calls, waiting, got>>
  BY DEF Serve, clientVars
<1>2. NextRequest \in 1..calls /\ \A i \in acted : i < NextRequest
  BY <1>1, NextFacts
<1>3. NextRequest \in 1..MaxCalls /\ CallState[NextRequest] # "none"
  BY <1>2, Types, CallsSoFar
<1> QED
  BY <1>1, <1>2, <1>3, SameCalls DEF Contract!Act

LEMMA StepsAreOfCalls ==
  ASSUME RpcInv, RpcInv', [RpcNext]_rpcVars
  PROVE  Contract!Next \/ UNCHANGED Contract!callVars
<1>1. CASE Call \/ CallConnects \/ CallFails
  BY <1>1, CallOpens DEF Contract!Next
<1>2. CASE TimeOut
  BY <1>2, CallEnds DEF TimeOut, serviceVars, Contract!Next
<1>3. CASE AppRestarts
  <2>1. UNCHANGED <<calls, got, acted>> /\ waiting' = FALSE
    BY <1>3 DEF AppRestarts, serviceVars
  <2>2. CASE waiting
    BY <2>1, <2>2, CallEnds DEF Contract!Next
  <2>3. CASE ~ waiting
    <3>1. waiting' = waiting
      BY <2>1, <2>3 DEF RpcInv, RpcTypeOK, Switches
    <3> QED
      BY <2>1, <3>1, SameCalls DEF Contract!callVars
  <2> QED
    BY <2>2, <2>3
<1>4. CASE LinkDrops \/ Arrive \/ ServiceDies \/ UNCHANGED rpcVars
  <2>1. UNCHANGED <<calls, waiting, got, acted>>
    BY <1>4 DEF LinkDrops, Arrive, ServiceDies, rpcVars, clientVars, serviceVars
  <2> QED
    BY <2>1, SameCalls DEF Contract!callVars
<1>5. CASE Serve
  BY <1>5, ServeActs DEF Contract!Next
<1>6. CASE \E n \in DOMAIN buf : ReadLine(n)
  BY <1>6, ReadLineReturns
<1> QED
  BY <1>1, <1>2, <1>3, <1>4, <1>5, <1>6 DEF RpcNext

\* For any number of calls: whatever is late, lost or cut off, and whoever dies, a call returns
\* its own answer or fails, and takes effect at most once, in the order of the calls
\* (CryptoServiceClient.cpp:304-553; crypto_service.py:631-658).
THEOREM ChannelImplementsCalls == RpcSpec => CallsSpec
<1>1. RpcInit => Contract!Init
  BY MaxCallsAssumption DEF RpcInit, Contract!Init, CallState
<1>2. RpcInv /\ RpcInv' /\ [RpcNext]_rpcVars => [Contract!Next]_(Contract!callVars)
  BY StepsAreOfCalls
<1> QED
  BY <1>1, <1>2, RpcInvariance, PTL DEF RpcSpec, CallsSpec, Contract!Spec

-------------------------------------------------------------------------------
(* Half an answer is found only after a call that failed *)

\* What the service has sent and the app has not read.
Sent == buf \o pipe

\* Halves of answers take turns, and the answers are in the order of the calls.
Alternates(s) ==
  \A k \in 1 .. Len(s) - 1 :
    /\ s[k].last => ~ s[k + 1].last /\ s[k].of < s[k + 1].of
    /\ ~ s[k].last => s[k + 1].last

\* Both halves are of one call.
SameCall(s) == \A k \in 1 .. Len(s) - 1 : ~ s[k].last => s[k + 1].of = s[k].of

\* The last answer is whole, unless the service has died.
Ended == alive /\ (link \/ inbox # <<>>) => Sent = <<>> \/ Sent[Len(Sent)].last

\* After the answer to the last call nothing is on its way.
AnsweredIsLast == calls > 0 /\ got[calls] # 0 => Sent = <<>> /\ inbox = <<>>

\* The rest of an answer comes first only if the call before has failed.
TornAfterFailure == Sent # <<>> /\ Sent[1].last => calls > 1 /\ got[calls - 1] = 0

StreamInv ==
  /\ waiting => link
  /\ garbled \subseteq 1 .. calls
  /\ Alternates(Sent) /\ SameCall(Sent)
  /\ Ended /\ AnsweredIsLast /\ TornAfterFailure
  /\ GarbledAfterFailure

\* Two sequences in a row.
LEMMA Joined ==
  ASSUME NEW b \in Seq(Piece), NEW p \in Seq(Piece)
  PROVE  /\ b \o p \in Seq(Piece)
         /\ Len(b) \in Nat /\ Len(p) \in Nat /\ Len(b \o p) = Len(b) + Len(p)
         /\ \A k \in 1 .. Len(b) : (b \o p)[k] = b[k]
         /\ \A k \in 1 .. Len(p) : (b \o p)[Len(b) + k] = p[k]
<1>1. Len(b) \in Nat /\ Len(p) \in Nat
  BY LenProperties
<1>2. /\ b \o p \in Seq(Piece) /\ Len(b \o p) = Len(b) + Len(p)
      /\ \A k \in 1 .. Len(b) + Len(p) :
           (b \o p)[k] = IF k <= Len(b) THEN b[k] ELSE p[k - Len(b)]
  BY ConcatProperties
<1>3. \A k \in 1 .. Len(p) : Len(b) + k - Len(b) = k /\ ~ (Len(b) + k <= Len(b))
  BY <1>1
<1> QED BY <1>1, <1>2, <1>3

\* A piece of such a stream is one.
LEMMA WindowAlternates ==
  ASSUME NEW s \in Seq(Piece), NEW t \in Seq(Piece), NEW a \in Nat, Len(t) + a <= Len(s),
         \A k \in 1 .. Len(t) : t[k] = s[a + k],
         Alternates(s), SameCall(s)
  PROVE  Alternates(t) /\ SameCall(t)
<1>1. Len(s) \in Nat /\ Len(t) \in Nat
  BY LenProperties
<1> SUFFICES ASSUME NEW k \in 1 .. Len(t) - 1
             PROVE  /\ t[k].last => ~ t[k + 1].last /\ t[k].of < t[k + 1].of
                    /\ ~ t[k].last => t[k + 1].last
                    /\ ~ t[k].last => t[k + 1].of = t[k].of
  BY DEF Alternates, SameCall
<1>2. k \in 1 .. Len(t) /\ k + 1 \in 1 .. Len(t)
  BY <1>1
<1>3. t[k] = s[a + k] /\ t[k + 1] = s[a + (k + 1)]
  BY <1>2
<1> DEFINE j == a + k
<1>4. j \in 1 .. Len(s) - 1 /\ a + (k + 1) = j + 1
  BY <1>1
<1> HIDE DEF j
<1>5. t[k] = s[j] /\ t[k + 1] = s[j + 1]
  BY <1>3, <1>4 DEF j
<1>6. /\ s[j].last => ~ s[j + 1].last /\ s[j].of < s[j + 1].of
      /\ ~ s[j].last => s[j + 1].last
      /\ ~ s[j].last => s[j + 1].of = s[j].of
  BY <1>4 DEF Alternates, SameCall
<1> QED BY <1>5, <1>6

LEMMA EmptyAlternates == Alternates(<<>>) /\ SameCall(<<>>)
  BY DEF Alternates, SameCall

LEMMA SentIs ==
  ASSUME RpcInv
  PROVE  /\ Sent \in Seq(Piece) /\ Len(Sent) \in Nat /\ Len(Sent) = Len(buf) + Len(pipe)
         /\ Len(buf) \in Nat /\ Len(pipe) \in Nat
         /\ \A k \in 1 .. Len(buf) : Sent[k] = buf[k]
         /\ \A k \in 1 .. Len(pipe) : Sent[Len(buf) + k] = pipe[k]
         /\ Sent = <<>> <=> Len(Sent) = 0
         /\ \A k \in 1 .. Len(Sent) : Sent[k] \in Piece /\ Sent[k].of \in acted
<1>1. buf \in Seq(Piece) /\ pipe \in Seq(Piece)
  BY Types
<1>2. /\ Sent \in Seq(Piece) /\ Len(Sent) = Len(buf) + Len(pipe)
      /\ Len(buf) \in Nat /\ Len(pipe) \in Nat
      /\ \A k \in 1 .. Len(buf) : Sent[k] = buf[k]
      /\ \A k \in 1 .. Len(pipe) : Sent[Len(buf) + k] = pipe[k]
  BY <1>1, Joined DEF Sent
<1>3. Len(Sent) \in Nat /\ (Sent = <<>> <=> Len(Sent) = 0)
  BY <1>2, EmptySeq
<1>4. \A k \in 1 .. Len(Sent) : Sent[k] \in Piece
  BY <1>2, ElementOfSeq
<1>5. ASSUME NEW k \in 1 .. Len(Sent) PROVE Sent[k].of \in acted
  <2>1. CASE k \in 1 .. Len(buf)
    BY <1>2, <2>1, Types DEF RpcInv, AnswersOfActed
  <2>2. CASE k > Len(buf)
    <3>1. k - Len(buf) \in 1 .. Len(pipe) /\ Len(buf) + (k - Len(buf)) = k
      BY <1>2, <2>2
    <3>2. Sent[k] = pipe[k - Len(buf)]
      BY <1>2, <3>1
    <3> QED BY <3>1, <3>2, Types DEF RpcInv, AnswersOfActed
  <2> QED BY <1>2, <2>1, <2>2
<1> QED BY <1>2, <1>3, <1>4, <1>5

\* While something is on its way, there was a call and the last one has no answer yet.
LEMMA StillToCome ==
  ASSUME RpcInv, StreamInv, Sent # <<>> \/ inbox # <<>>
  PROVE  calls > 0 /\ got[calls] = 0
<1>1. calls \in Nat /\ acted \subseteq 1 .. calls
  BY Types
<1>2. CASE Sent # <<>>
  <2>1. Len(Sent) \in Nat /\ Len(Sent) # 0
    BY <1>2, SentIs
  <2>2. 1 \in 1 .. Len(Sent)
    BY <2>1
  <2>3. Sent[1].of \in 1 .. calls
    BY <1>1, <2>2, SentIs
  <2>4. calls > 0
    BY <1>1, <2>3
  <2> QED BY <1>2, <2>4 DEF StreamInv, AnsweredIsLast
<1>3. CASE inbox # <<>>
  <2>1. NextRequest \in 1 .. calls
    BY <1>3, NextFacts
  <2>2. calls > 0
    BY <1>1, <2>1
  <2> QED BY <1>3, <2>2 DEF StreamInv, AnsweredIsLast
<1> QED BY <1>2, <1>3

LEMMA InitStream == RpcInit => StreamInv
<1> SUFFICES ASSUME RpcInit PROVE StreamInv
  OBVIOUS
<1>1. Sent = <<>>
  <2>1. buf = <<>> /\ pipe = <<>>
    BY DEF RpcInit
  <2>2. <<>> \in Seq(Piece)
    OBVIOUS
  <2> QED BY <2>1, <2>2, ConcatEmptySeq DEF Sent
<1>2. calls = 0 /\ garbled = {} /\ ~ waiting /\ ~ alive
  BY DEF RpcInit
<1> QED BY <1>1, <1>2, EmptyAlternates
        DEF StreamInv, Ended, AnsweredIsLast, TornAfterFailure, GarbledAfterFailure

LEMMA SentNext ==
  ASSUME RpcInv'
  PROVE  /\ Sent' \in Seq(Piece) /\ Len(Sent') \in Nat /\ (Sent' = <<>> <=> Len(Sent') = 0)
         /\ Len(Sent') = Len(buf') + Len(pipe') /\ Len(buf') \in Nat /\ Len(pipe') \in Nat
         /\ \A k \in 1 .. Len(buf') : Sent'[k] = buf'[k]
         /\ \A k \in 1 .. Len(pipe') : Sent'[Len(buf') + k] = pipe'[k]
<1>1. buf' \in Seq(Piece) /\ pipe' \in Seq(Piece)
  BY DEF RpcInv, RpcTypeOK
<1>2. /\ Sent' \in Seq(Piece) /\ Len(Sent') = Len(buf') + Len(pipe')
      /\ Len(buf') \in Nat /\ Len(pipe') \in Nat
      /\ \A k \in 1 .. Len(buf') : Sent'[k] = buf'[k]
      /\ \A k \in 1 .. Len(pipe') : Sent'[Len(buf') + k] = pipe'[k]
  BY <1>1, Joined DEF Sent
<1> QED BY <1>2, EmptySeq, LenProperties

LEMMA SentActed ==
  ASSUME RpcInv'
  PROVE  \A k \in 1 .. Len(Sent') : Sent'[k].of \in acted'
<1>1. /\ Len(Sent') = Len(buf') + Len(pipe') /\ Len(buf') \in Nat /\ Len(pipe') \in Nat
      /\ \A k \in 1 .. Len(buf') : Sent'[k] = buf'[k]
      /\ \A k \in 1 .. Len(pipe') : Sent'[Len(buf') + k] = pipe'[k]
  BY SentNext
<1>2. DOMAIN buf' = 1 .. Len(buf') /\ DOMAIN pipe' = 1 .. Len(pipe')
  BY LenProperties DEF RpcInv, RpcTypeOK
<1>3. /\ \A k \in 1 .. Len(buf') : buf'[k].of \in acted'
      /\ \A k \in 1 .. Len(pipe') : pipe'[k].of \in acted'
  BY <1>2 DEF RpcInv, AnswersOfActed
<1> SUFFICES ASSUME NEW k \in 1 .. Len(Sent') PROVE Sent'[k].of \in acted'
  OBVIOUS
<1>4. CASE k \in 1 .. Len(buf')
  BY <1>1, <1>3, <1>4
<1>5. CASE k > Len(buf')
  <2> DEFINE j == k - Len(buf')
  <2>1. j \in 1 .. Len(pipe') /\ Len(buf') + j = k
    BY <1>1, <1>5
  <2> HIDE DEF j
  <2> QED BY <1>1, <1>3, <2>1
<1> QED BY <1>1, <1>4, <1>5

\* A new call: what is not drained has no whole answer to the call before in it.
LEMMA NewCall ==
  ASSUME RpcInv, StreamInv, RpcInv', calls' = calls + 1, UNCHANGED <<got, garbled>>,
         waiting' => link',
         NEW a \in Nat, Len(Sent') + a <= Len(Sent),
         \A k \in 1 .. Len(Sent') : Sent'[k] = Sent[a + k],
         Ended'
  PROVE  StreamInv'
<1>1. /\ Sent \in Seq(Piece) /\ Len(Sent) \in Nat
      /\ Sent' \in Seq(Piece) /\ Len(Sent') \in Nat
      /\ Sent = <<>> <=> Len(Sent) = 0
      /\ Sent' = <<>> <=> Len(Sent') = 0
  BY SentIs, SentNext
<1>2. Alternates(Sent') /\ SameCall(Sent')
  BY <1>1, WindowAlternates DEF StreamInv
<1>3. calls \in Nat /\ calls + 1 \in 1 .. MaxCalls
  <2>1. calls \in Nat /\ calls' \in 0 .. MaxCalls
    BY Types DEF RpcInv, RpcTypeOK
  <2> QED BY <2>1, MaxCallsAssumption
<1>4. AnsweredIsLast'
  <2>1. got[calls + 1] = 0
    BY <1>3 DEF RpcInv, OwnResults
  <2> QED BY <2>1 DEF AnsweredIsLast
<1>5. TornAfterFailure'
  <2>1. ASSUME Sent' # <<>> PROVE calls' > 1 /\ got[calls' - 1] = 0
    <3>1. Sent # <<>>
      BY <1>1, <2>1
    <3>2. calls > 0 /\ got[calls] = 0
      BY <3>1, StillToCome
    <3>3. calls' - 1 = calls
      BY <1>3
    <3> QED BY <1>3, <3>2, <3>3
  <2> QED BY <2>1 DEF TornAfterFailure
<1>6. garbled' \subseteq 1 .. calls' /\ GarbledAfterFailure'
  BY <1>3 DEF StreamInv, GarbledAfterFailure
<1> QED BY <1>2, <1>4, <1>5, <1>6 DEF StreamInv

\* No new call, and the stream has lost at most its end, or all.
LEMMA NoNewCall ==
  ASSUME RpcInv, StreamInv, RpcInv', UNCHANGED <<calls, got, garbled>>,
         waiting' => link',
         inbox' = inbox \/ inbox' = <<>>,
         Len(Sent') <= Len(Sent),
         \A k \in 1 .. Len(Sent') : Sent'[k] = Sent[k],
         Ended'
  PROVE  StreamInv'
<1>1. /\ Sent \in Seq(Piece) /\ Len(Sent) \in Nat
      /\ Sent' \in Seq(Piece) /\ Len(Sent') \in Nat
      /\ Sent = <<>> <=> Len(Sent) = 0
      /\ Sent' = <<>> <=> Len(Sent') = 0
  BY SentIs, SentNext
<1>2. Alternates(Sent') /\ SameCall(Sent')
  <2>1. 0 \in Nat /\ Len(Sent') + 0 <= Len(Sent) /\ \A k \in 1 .. Len(Sent') : 0 + k = k
    BY <1>1
  <2>2. \A k \in 1 .. Len(Sent') : Sent'[k] = Sent[0 + k]
    BY <2>1
  <2> QED BY <1>1, <2>1, <2>2, WindowAlternates DEF StreamInv
<1>3. AnsweredIsLast'
  BY <1>1 DEF StreamInv, AnsweredIsLast
<1>4. TornAfterFailure'
  <2>1. ASSUME Sent' # <<>> PROVE Sent # <<>> /\ Sent'[1] = Sent[1]
    BY <1>1, <2>1
  <2> QED BY <2>1 DEF StreamInv, TornAfterFailure
<1>5. garbled' \subseteq 1 .. calls' /\ GarbledAfterFailure'
  BY DEF StreamInv, GarbledAfterFailure
<1> QED BY <1>2, <1>3, <1>4, <1>5 DEF StreamInv

LEMMA CallKeepsStream == ASSUME RpcInv, StreamInv, RpcInv', Call PROVE StreamInv'
<1>1. /\ link /\ calls' = calls + 1 /\ buf' = <<>>
      /\ UNCHANGED <<got, garbled, link, alive, pipe>>
  BY DEF Call
<1> DEFINE a == Len(buf)
<1>2. /\ a \in Nat /\ Len(Sent) = a + Len(pipe) /\ Len(pipe) \in Nat /\ Len(Sent') \in Nat
      /\ \A k \in 1 .. Len(pipe) : Sent[a + k] = pipe[k]
  BY SentIs, SentNext
<1>3. Len(Sent') = Len(pipe) /\ \A k \in 1 .. Len(pipe) : Sent'[k] = pipe[k]
  <2>1. /\ Len(Sent') = Len(buf') + Len(pipe')
        /\ \A k \in 1 .. Len(pipe') : Sent'[Len(buf') + k] = pipe'[k]
    BY SentNext
  <2>2. Len(buf') = 0
    BY <1>1, EmptySeq
  <2>3. \A k \in 1 .. Len(pipe) : 0 + k = k
    OBVIOUS
  <2> QED BY <1>1, <1>2, <2>1, <2>2, <2>3
<1> HIDE DEF a
<1>4. Len(Sent') + a <= Len(Sent) /\ \A k \in 1 .. Len(Sent') : Sent'[k] = Sent[a + k]
  BY <1>2, <1>3
<1>5. Ended'
  <2> SUFFICES ASSUME alive' PROVE Sent' = <<>> \/ Sent'[Len(Sent')].last
    BY DEF Ended
  <2>1. Sent = <<>> \/ Sent[Len(Sent)].last
    BY <1>1 DEF StreamInv, Ended
  <2>2. CASE Len(Sent') = 0
    BY <2>2, SentNext
  <2>3. CASE Len(Sent') # 0
    <3>1. Len(Sent') \in 1 .. Len(Sent') /\ a + Len(Sent') = Len(Sent) /\ Len(Sent) # 0
      BY <1>2, <1>3, <2>3
    <3>2. Sent'[Len(Sent')] = Sent[Len(Sent)]
      BY <1>4, <3>1
    <3> QED BY <2>1, <3>1, <3>2, SentIs
  <2> QED BY <2>2, <2>3
<1> QED BY <1>1, <1>2, <1>4, <1>5, NewCall

LEMMA CallConnectsKeepsStream == ASSUME RpcInv, StreamInv, RpcInv', CallConnects PROVE StreamInv'
<1>1. /\ link' = TRUE /\ calls' = calls + 1 /\ buf' = <<>> /\ pipe' = <<>>
      /\ UNCHANGED <<got, garbled>>
  BY DEF CallConnects
<1>2. Sent' = <<>> /\ Len(Sent') = 0
  <2>1. Len(buf') = 0 /\ Len(pipe') = 0
    BY <1>1, EmptySeq
  <2> QED BY <2>1, SentNext
<1>3. Ended'
  BY <1>2 DEF Ended
<1>4. /\ 0 \in Nat /\ Len(Sent') + 0 <= Len(Sent)
      /\ \A k \in 1 .. Len(Sent') : Sent'[k] = Sent[0 + k]
  BY <1>2, SentIs
<1> QED BY <1>1, <1>3, <1>4, NewCall

LEMMA CallFailsKeepsStream == ASSUME RpcInv, StreamInv, RpcInv', CallFails PROVE StreamInv'
<1>1. /\ ~ link /\ calls' = calls + 1
      /\ UNCHANGED <<waiting, got, garbled, link, inbox, pipe, buf>>
  BY DEF CallFails
<1>2. Sent' = Sent
  BY <1>1 DEF Sent
<1>3. Ended'
  <2>1. inbox # <<>> => alive
    BY DEF RpcInv, RpcTypeOK, Switches
  <2> QED BY <1>1, <1>2, <2>1 DEF StreamInv, Ended
<1>4. /\ 0 \in Nat /\ Len(Sent') + 0 <= Len(Sent)
      /\ \A k \in 1 .. Len(Sent') : Sent'[k] = Sent[0 + k]
  <2>1. Len(Sent) \in Nat /\ \A k \in 1 .. Len(Sent) : 0 + k = k
    BY SentIs
  <2> QED BY <1>2, <2>1
<1> QED BY <1>1, <1>3, <1>4, NewCall DEF StreamInv

LEMMA ArriveKeepsStream == ASSUME RpcInv, StreamInv, RpcInv', Arrive PROVE StreamInv'
<1>1. /\ pipe # <<>> /\ buf' = Append(buf, Head(pipe)) /\ pipe' = Tail(pipe)
      /\ UNCHANGED <<calls, waiting, got, garbled, started, since, alive, inbox, acted, link>>
  BY DEF Arrive, clientVars, serviceVars
<1>2. /\ pipe \in Seq(Piece) /\ buf \in Seq(Piece) /\ Len(pipe) \in Nat \ {0} /\ Len(buf) \in Nat
  BY <1>1, Types, EmptySeq
<1>3. /\ Head(pipe) \in Piece /\ Head(pipe) = pipe[1]
      /\ Len(pipe') = Len(pipe) - 1 /\ \A n \in 1..Len(pipe') : pipe'[n] = pipe[n + 1]
  BY <1>1, <1>2, HeadTailProperties
<1>4. /\ Len(buf') = Len(buf) + 1
      /\ \A n \in 1..Len(buf) : buf'[n] = buf[n]
      /\ buf'[Len(buf) + 1] = pipe[1]
  BY <1>1, <1>2, <1>3, AppendProperties
<1>5. /\ Len(Sent) = Len(buf) + Len(pipe)
      /\ \A k \in 1 .. Len(buf) : Sent[k] = buf[k]
      /\ \A k \in 1 .. Len(pipe) : Sent[Len(buf) + k] = pipe[k]
  BY SentIs
<1>6. /\ Len(Sent') = Len(buf') + Len(pipe')
      /\ \A k \in 1 .. Len(buf') : Sent'[k] = buf'[k]
      /\ \A k \in 1 .. Len(pipe') : Sent'[Len(buf') + k] = pipe'[k]
  BY SentNext
<1>7. Len(Sent') = Len(Sent)
  BY <1>2, <1>3, <1>4, <1>5, <1>6
<1>8. ASSUME NEW k \in 1 .. Len(Sent) PROVE Sent'[k] = Sent[k]
  <2>1. CASE k \in 1 .. Len(buf)
    BY <2>1, <1>2, <1>4, <1>5, <1>6
  <2>2. CASE k = Len(buf) + 1
    <3>1. k \in 1 .. Len(buf') /\ 1 \in 1 .. Len(pipe)
      BY <2>2, <1>2, <1>4
    <3> QED BY <3>1, <2>2, <1>4, <1>5, <1>6
  <2>3. CASE k > Len(buf) + 1
    <3> DEFINE j == k - Len(buf) - 1
    <3>1. /\ j \in 1 .. Len(pipe') /\ j + 1 \in 1 .. Len(pipe)
          /\ Len(buf') + j = k /\ Len(buf) + (j + 1) = k
      BY <2>3, <1>2, <1>3, <1>4, <1>5
    <3> HIDE DEF j
    <3>2. Sent'[k] = pipe'[j]
      BY <3>1, <1>6
    <3>3. Sent[k] = pipe[j + 1]
      BY <3>1, <1>5
    <3> QED BY <3>1, <3>2, <3>3, <1>3
  <2> QED BY <2>1, <2>2, <2>3, <1>2
<1>9. Ended'
  <2>1. Len(Sent) \in Nat /\ (Sent = <<>> <=> Len(Sent) = 0) /\ (Sent' = <<>> <=> Len(Sent') = 0)
    BY SentIs, SentNext
  <2>2. Len(Sent) # 0 => Sent'[Len(Sent')] = Sent[Len(Sent)]
    BY <1>7, <1>8, <2>1
  <2> QED BY <1>1, <1>7, <2>1, <2>2 DEF StreamInv, Ended
<1>10. Len(Sent') <= Len(Sent) /\ \A k \in 1 .. Len(Sent') : Sent'[k] = Sent[k]
  BY <1>7, <1>8, SentIs
<1> QED BY <1>1, <1>9, <1>10, NoNewCall DEF StreamInv

LEMMA TimeOutKeepsStream ==
  ASSUME RpcInv, StreamInv, RpcInv', TimeOut \/ LinkDrops
  PROVE  StreamInv'
<1>1. /\ UNCHANGED <<calls, got, garbled, alive, inbox, pipe, buf>>
      /\ waiting' = FALSE
  BY DEF TimeOut, LinkDrops, clientVars, serviceVars, RpcInv, RpcTypeOK, Switches
<1>2. Sent' = Sent
  BY <1>1 DEF Sent
<1>3. Ended'
  <2>1. CASE TimeOut
    <3>1. waiting /\ link
      BY <2>1 DEF TimeOut, StreamInv
    <3> QED BY <1>1, <1>2, <3>1 DEF StreamInv, Ended
  <2>2. CASE LinkDrops
    <3>1. ~ alive
      BY <2>2 DEF LinkDrops
    <3> QED BY <1>1, <3>1 DEF Ended
  <2> QED BY <2>1, <2>2
<1>4. Len(Sent') <= Len(Sent) /\ \A k \in 1 .. Len(Sent') : Sent'[k] = Sent[k]
  BY <1>2, SentIs
<1> QED BY <1>1, <1>3, <1>4, NoNewCall

LEMMA AppRestartsKeepsStream == ASSUME RpcInv, StreamInv, RpcInv', AppRestarts PROVE StreamInv'
<1>1. /\ waiting' = FALSE /\ pipe' = <<>> /\ buf' = <<>>
      /\ UNCHANGED <<calls, got, garbled, inbox>>
  BY DEF AppRestarts, serviceVars
<1>2. Sent' = <<>> /\ Len(Sent') = 0
  <2>1. Len(buf') = 0 /\ Len(pipe') = 0
    BY <1>1, EmptySeq
  <2> QED BY <2>1, SentNext
<1>3. Ended'
  BY <1>2 DEF Ended
<1>4. Len(Sent') <= Len(Sent) /\ \A k \in 1 .. Len(Sent') : Sent'[k] = Sent[k]
  BY <1>2, SentIs
<1> QED BY <1>1, <1>3, <1>4, NoNewCall

LEMMA ServiceDiesKeepsStream == ASSUME RpcInv, StreamInv, RpcInv', ServiceDies PROVE StreamInv'
<1>1. /\ alive' = FALSE /\ inbox' = <<>>
      /\ UNCHANGED <<calls, waiting, got, garbled, link, buf>>
  BY DEF ServiceDies, clientVars
<1>2. PICK n \in 0..Len(pipe) : pipe' = SubSeq(pipe, 1, n)
  BY DEF ServiceDies
<1>3. pipe \in Seq(Piece) /\ Len(pipe) \in Nat /\ Len(buf) \in Nat
  BY Types
<1>4. \A k \in 1..n : pipe[k] \in Piece
  BY <1>3, ElementOfSeq
<1>5. /\ Len(pipe') = IF 1 <= n THEN n - 1 + 1 ELSE 0
      /\ \A k \in 1..(n - 1 + 1) : pipe'[k] = pipe[1 + k - 1]
  BY <1>2, <1>3, <1>4, SubSeqProperties
<1>6. Len(pipe') = n /\ n <= Len(pipe) /\ \A k \in 1..n : pipe'[k] = pipe[k]
  <2>1. (IF 1 <= n THEN n - 1 + 1 ELSE 0) = n /\ n - 1 + 1 = n /\ \A k \in 1..n : 1 + k - 1 = k
    BY <1>2, <1>3
  <2> QED BY <1>2, <1>3, <1>5, <2>1
<1>7. Len(Sent') = Len(buf) + n /\ Len(Sent) = Len(buf) + Len(pipe)
  BY <1>1, <1>6, SentIs, SentNext
<1>8. ASSUME NEW k \in 1 .. Len(Sent') PROVE Sent'[k] = Sent[k]
  <2>1. CASE k \in 1 .. Len(buf)
    BY <2>1, <1>1, SentIs, SentNext
  <2>2. CASE k > Len(buf)
    <3> DEFINE j == k - Len(buf)
    <3>1. j \in 1 .. n /\ j \in 1 .. Len(pipe) /\ Len(buf) + j = k
      BY <2>2, <1>2, <1>3, <1>7
    <3> HIDE DEF j
    <3>2. Sent'[k] = pipe'[j]
      BY <3>1, <1>1, <1>6, SentNext
    <3>3. Sent[k] = pipe[j]
      BY <3>1, SentIs
    <3> QED BY <3>1, <3>2, <3>3, <1>6
  <2> QED BY <2>1, <2>2, <1>2, <1>3, <1>7
<1>9. Len(Sent') <= Len(Sent)
  BY <1>2, <1>3, <1>7
<1>10. Ended' /\ (waiting' => link')
  BY <1>1 DEF Ended, StreamInv
<1> QED BY <1>1, <1>8, <1>9, <1>10, NoNewCall

\* A line is one answer, or the rest of one at the head of the stream.
LEMMA LineFacts ==
  ASSUME RpcInv, StreamInv, NEW n \in DOMAIN buf, ReadLine(n)
  PROVE  /\ n \in 1 .. Len(buf) /\ 1 \in 1 .. Len(buf) /\ buf[1] = Sent[1]
         /\ n = 1 \/ n = 2
         /\ Sent[n].last
         /\ n = 2 => ~ Sent[1].last /\ Sent[2].of = Sent[1].of
         /\ Len(Sent') = Len(Sent) - n
         /\ \A k \in 1 .. Len(Sent') : Sent'[k] = Sent[n + k]
<1>0. /\ Len(buf) \in Nat /\ Len(pipe) \in Nat /\ Len(Sent) = Len(buf) + Len(pipe)
      /\ n \in 1 .. Len(buf) /\ \A k \in 1 .. Len(buf) : Sent[k] = buf[k]
  BY Types, SentIs
<1>1. buf[n].last /\ \A k \in 1 .. Len(buf) : buf[k].last => n <= k
  BY <1>0 DEF ReadLine, IsLine, Ends
<1>2. 1 \in 1 .. Len(buf) /\ buf[1] = Sent[1] /\ Sent[n].last
  BY <1>0, <1>1
<1>3. ASSUME n # 1 PROVE n = 2 /\ ~ Sent[1].last /\ Sent[2].of = Sent[1].of
  <2>1. 2 \in 1 .. Len(buf) /\ 1 \in 1 .. Len(Sent) - 1 /\ ~ (n <= 1) /\ 1 + 1 = 2
    BY <1>0, <1>3
  <2>2. ~ Sent[1].last
    BY <1>0, <1>1, <1>2, <2>1
  <2>3. Sent[2].last /\ Sent[2].of = Sent[1].of
    BY <2>1, <2>2 DEF StreamInv, Alternates, SameCall
  <2>4. n <= 2
    BY <1>0, <1>1, <2>1, <2>3
  <2> QED BY <1>0, <2>1, <2>2, <2>3, <2>4
<1>4. Len(buf') = Len(buf) - n /\ \A k \in 1 .. Len(buf) - n : buf'[k] = buf[n + k]
  <2>1. buf' = SubSeq(buf, n + 1, Len(buf)) /\ buf \in Seq(Piece)
    BY Types DEF ReadLine
  <2>2. \A k \in (n + 1)..Len(buf) : buf[k] \in Piece
    BY <1>0, <2>1, ElementOfSeq
  <2>3. /\ \A k \in 1..(Len(buf) - (n + 1) + 1) : buf'[k] = buf[n + 1 + k - 1]
        /\ Len(buf') = IF n + 1 <= Len(buf) THEN Len(buf) - (n + 1) + 1 ELSE 0
    BY <1>0, <2>1, <2>2, SubSeqProperties
  <2>4. ASSUME NEW N \in Nat, n \in 1 .. N
        PROVE  /\ (IF n + 1 <= N THEN N - (n + 1) + 1 ELSE 0) = N - n
               /\ N - (n + 1) + 1 = N - n
               /\ \A k \in 1 .. N - n : n + 1 + k - 1 = n + k
    BY <2>4
  <2> QED BY <1>0, <2>3, <2>4
<1>5. pipe' = pipe
  BY DEF ReadLine
<1>6. Len(Sent') = Len(Sent) - n
  BY <1>0, <1>4, <1>5, SentNext, ReadLineKeepsRpcInv
<1>7. ASSUME NEW k \in 1 .. Len(Sent') PROVE Sent'[k] = Sent[n + k]
  <2>0. RpcInv'
    BY ReadLineKeepsRpcInv
  <2>1. CASE k \in 1 .. Len(buf')
    <3>1. n + k \in 1 .. Len(buf) /\ k \in 1 .. Len(buf) - n
      BY <1>0, <1>4, <2>1
    <3> QED BY <2>0, <2>1, <3>1, <1>0, <1>4, SentNext
  <2>2. CASE k > Len(buf')
    <3>0. ASSUME NEW B \in Nat, NEW P \in Nat, n \in 1 .. B, k \in 1 .. B + P - n, k > B - n
          PROVE  /\ k - (B - n) \in 1 .. P /\ B - n + (k - (B - n)) = k
                 /\ B + (k - (B - n)) = n + k
      BY <3>0
    <3> DEFINE j == k - (Len(buf) - n)
    <3>1. j \in 1 .. Len(pipe) /\ Len(buf') + j = k /\ Len(buf) + j = n + k
      BY <1>0, <1>4, <1>6, <2>2, <3>0
    <3> HIDE DEF j
    <3>2. Sent'[k] = pipe[j]
      BY <2>0, <3>1, <1>5, SentNext
    <3>3. Sent[n + k] = pipe[j]
      BY <3>1, SentIs
    <3> QED BY <3>2, <3>3
  <2> QED BY <1>0, <1>4, <2>1, <2>2
<1> QED BY <1>0, <1>2, <1>3, <1>6, <1>7

LEMMA ReadLineKeepsStream ==
  ASSUME RpcInv, StreamInv, RpcInv', NEW n \in DOMAIN buf, ReadLine(n)
  PROVE  StreamInv'
<1>0. /\ calls \in 1 .. MaxCalls /\ MaxCalls \in Nat /\ acted \subseteq 1 .. calls
      /\ got \in [1 .. MaxCalls -> 0 .. MaxCalls] /\ got[calls] = 0
  BY Types DEF ReadLine, RpcInv, OwnResults, RpcTypeOK
<1>1. /\ waiting /\ link /\ waiting' \in BOOLEAN
      /\ UNCHANGED <<calls, alive, inbox, acted, link, pipe>>
  BY DEF ReadLine, serviceVars, StreamInv, RpcInv, RpcTypeOK, Switches
<1>2. /\ n \in 1 .. Len(buf) /\ 1 \in 1 .. Len(buf) /\ buf[1] = Sent[1]
      /\ n = 1 \/ n = 2
      /\ Sent[n].last
      /\ n = 2 => ~ Sent[1].last /\ Sent[2].of = Sent[1].of
      /\ Len(Sent') = Len(Sent) - n
      /\ \A k \in 1 .. Len(Sent') : Sent'[k] = Sent[n + k]
  BY LineFacts
<1>3. /\ Sent \in Seq(Piece) /\ Len(Sent) \in Nat /\ Len(buf) \in Nat /\ Len(buf) <= Len(Sent)
      /\ Sent' \in Seq(Piece) /\ Len(Sent') \in Nat
      /\ Sent = <<>> <=> Len(Sent) = 0
      /\ Sent' = <<>> <=> Len(Sent') = 0
  BY SentIs, SentNext
<1>4. Alternates(Sent') /\ SameCall(Sent')
  <2>1. n \in Nat /\ Len(Sent') + n <= Len(Sent)
    BY <1>2, <1>3
  <2> QED BY <1>2, <1>3, <2>1, WindowAlternates DEF StreamInv
<1>5. Ended'
  <2>1. Sent = <<>> \/ Sent[Len(Sent)].last \/ ~ alive
    BY <1>1 DEF StreamInv, Ended
  <2>2. ASSUME Len(Sent') # 0 PROVE Sent'[Len(Sent')] = Sent[Len(Sent)] /\ Len(Sent) # 0
    <3>1. Len(Sent') \in 1 .. Len(Sent') /\ n + Len(Sent') = Len(Sent) /\ Len(Sent) # 0
      BY <1>2, <1>3, <2>2
    <3> QED BY <1>2, <3>1
  <2> QED BY <1>1, <1>3, <2>1, <2>2 DEF Ended
\* What follows a line begins with the first half of an answer, to a later call.
<1>6. ASSUME Sent' # <<>> PROVE ~ Sent'[1].last /\ Sent[n].of < Sent'[1].of /\ Sent'[1].of <= calls
  <2>1. 1 \in 1 .. Len(Sent') /\ n \in 1 .. Len(Sent) - 1 /\ n + 1 \in 1 .. Len(Sent)
    BY <1>2, <1>3, <1>6
  <2>2. Sent'[1] = Sent[n + 1]
    BY <1>2, <2>1
  <2>3. ~ Sent[n + 1].last /\ Sent[n].of < Sent[n + 1].of
    BY <1>2, <2>1 DEF StreamInv, Alternates
  <2>4. Sent[n + 1].of \in 1 .. calls
    BY <1>0, <2>1, SentIs
  <2>5. Sent[n + 1].of <= calls
    BY <2>4
  <2> QED BY <2>2, <2>3, <2>5
<1>7. TornAfterFailure'
  BY <1>6 DEF TornAfterFailure
<1>8. CASE /\ Whole(n) /\ IsMine
           /\ got' = [got EXCEPT ![calls] = buf[1].of] /\ waiting' = FALSE
           /\ UNCHANGED garbled
  <2>1. n = 2 /\ Sent[n].of = calls
    BY <1>2, <1>8 DEF Whole, IsMine
  <2>2. Sent' = <<>>
    <3>1. ASSUME Sent' # <<>> PROVE FALSE
      <4>1. Len(Sent') # 0 /\ 1 \in 1 .. Len(Sent') /\ Sent'[1].of \in acted'
        BY <1>3, <3>1, SentActed
      <4>2. Sent'[1].of \in 1 .. calls /\ calls < Sent'[1].of
        BY <1>0, <1>1, <1>6, <2>1, <3>1, <4>1
      <4> QED BY <1>0, <4>2
    <3> QED BY <3>1
  <2>3. inbox = <<>>
    <3>1. 1 \in 1 .. Len(Sent) /\ 2 \in 1 .. Len(Sent)
      BY <1>2, <1>3, <2>1
    <3>2. calls \in acted
      BY <2>1, <3>1, SentIs
    <3>3. inbox # <<>> => NextRequest \in 1 .. calls /\ calls < NextRequest
      BY <3>2, NextFacts
    <3> QED BY <1>0, <3>3
  <2>4. AnsweredIsLast'
    BY <1>1, <2>2, <2>3 DEF AnsweredIsLast
  <2>5. GarbledAfterFailure'
    <3>1. garbled \subseteq 1 .. calls /\ \A i \in garbled : i > 1 /\ got[i - 1] = 0
      BY DEF StreamInv, GarbledAfterFailure
    <3>2. \A i \in 1 .. calls : i > 1 => i - 1 # calls /\ i - 1 \in 1 .. MaxCalls
      BY <1>0
    <3>3. \A j \in 1 .. MaxCalls : j # calls => got'[j] = got[j]
      BY <1>0, <1>8
    <3> QED BY <1>8, <3>1, <3>2, <3>3 DEF GarbledAfterFailure
  <2> QED BY <1>1, <1>4, <1>5, <1>7, <1>8, <2>4, <2>5 DEF StreamInv
<1>9. CASE UNCHANGED <<got, waiting, garbled>>
  <2>1. AnsweredIsLast'
    BY <1>0, <1>1, <1>9 DEF AnsweredIsLast
  <2>2. GarbledAfterFailure'
    BY <1>9 DEF StreamInv, GarbledAfterFailure
  <2> QED BY <1>1, <1>4, <1>5, <1>7, <1>9, <2>1, <2>2 DEF StreamInv
<1>10. CASE /\ ~ Whole(n)
            /\ garbled' = garbled \cup {calls} /\ waiting' = FALSE
            /\ UNCHANGED got
  <2>1. Sent # <<>> /\ Sent[1].last
    BY <1>2, <1>3, <1>10 DEF Whole
  <2>2. calls > 1 /\ got[calls - 1] = 0
    BY <2>1 DEF StreamInv, TornAfterFailure
  <2>3. AnsweredIsLast'
    BY <1>0, <1>1, <1>10 DEF AnsweredIsLast
  <2>4. GarbledAfterFailure' /\ garbled' \subseteq 1 .. calls
    BY <1>0, <1>10, <2>2 DEF StreamInv, GarbledAfterFailure
  <2> QED BY <1>1, <1>4, <1>5, <1>7, <1>10, <2>3, <2>4 DEF StreamInv
<1> QED BY <1>8, <1>9, <1>10 DEF ReadLine

\* An answer behind what is on its way.
LEMMA AnswerAlternates ==
  ASSUME NEW s \in Seq(Piece), NEW t \in Seq(Piece), NEW i \in 1 .. MaxCalls,
         Alternates(s), SameCall(s),
         Len(s) = 0 \/ s[Len(s)].last,
         \A k \in 1 .. Len(s) : s[k].of < i,
         Len(t) = Len(s) + 2, \A k \in 1 .. Len(s) : t[k] = s[k],
         t[Len(s) + 1] = Pieces(i)[1], t[Len(s) + 2] = Pieces(i)[2]
  PROVE  Alternates(t) /\ SameCall(t) /\ ~ t[Len(s) + 1].last /\ t[Len(t)].last
<1>1. Len(s) \in Nat
  BY LenProperties
<1>2. /\ t[Len(s) + 1].of = i /\ ~ t[Len(s) + 1].last
      /\ t[Len(s) + 2].of = i /\ t[Len(s) + 2].last
  BY DEF Pieces
<1>3. ASSUME NEW k \in 1 .. Len(t) - 1
      PROVE  /\ t[k].last => ~ t[k + 1].last /\ t[k].of < t[k + 1].of
             /\ ~ t[k].last => t[k + 1].last
             /\ ~ t[k].last => t[k + 1].of = t[k].of
  <2>1. CASE k < Len(s)
    <3>1. k \in 1 .. Len(s) - 1 /\ k \in 1 .. Len(s) /\ k + 1 \in 1 .. Len(s)
      BY <1>1, <2>1
    <3>2. t[k] = s[k] /\ t[k + 1] = s[k + 1]
      BY <3>1
    <3>3. /\ s[k].last => ~ s[k + 1].last /\ s[k].of < s[k + 1].of
          /\ ~ s[k].last => s[k + 1].last
          /\ ~ s[k].last => s[k + 1].of = s[k].of
      BY <3>1 DEF Alternates, SameCall
    <3> QED BY <3>2, <3>3
  <2>2. CASE k = Len(s)
    <3>1. k \in 1 .. Len(s) /\ Len(s) # 0
      BY <2>2, <1>1
    <3>2. t[k] = s[k] /\ s[k].last /\ s[k].of < i
      BY <2>2, <3>1
    <3> QED BY <1>2, <2>2, <3>2
  <2>3. CASE k = Len(s) + 1
    <3>1. k + 1 = Len(s) + 2
      BY <2>3, <1>1
    <3> QED BY <1>2, <2>3, <3>1
  <2> QED BY <1>1, <2>1, <2>2, <2>3
<1> QED BY <1>2, <1>3 DEF Alternates, SameCall

LEMMA ServeKeepsStream == ASSUME RpcInv, StreamInv, RpcInv', Serve PROVE StreamInv'
<1> DEFINE i == NextRequest
<1>1. /\ alive /\ inbox # <<>>
      /\ UNCHANGED <<calls, waiting, got, garbled, link, buf>>
  BY DEF Serve, clientVars
<1>2. /\ i \in 1 .. calls /\ i \in 1 .. MaxCalls /\ \A j \in acted : j < i
  BY <1>1, NextFacts, Types
<1>3. calls > 0 /\ got[calls] = 0
  BY <1>1, StillToCome
<1>4. AnsweredIsLast' /\ GarbledAfterFailure' /\ garbled' \subseteq 1 .. calls' /\ (waiting' => link')
  BY <1>1, <1>3 DEF StreamInv, AnsweredIsLast, GarbledAfterFailure
<1>5. Sent = <<>> \/ Sent[Len(Sent)].last
  BY <1>1 DEF StreamInv, Ended
<1>6. CASE pipe' = pipe
  <2>1. Sent' = Sent
    BY <1>1, <1>6 DEF Sent
  <2>2. Ended'
    BY <1>5, <2>1 DEF Ended
  <2>3. TornAfterFailure'
    BY <1>1, <2>1 DEF StreamInv, TornAfterFailure
  <2>4. Alternates(Sent') /\ SameCall(Sent')
    BY <2>1 DEF StreamInv
  <2> QED BY <1>4, <2>2, <2>3, <2>4 DEF StreamInv
<1>7. CASE pipe' = pipe \o Pieces(i)
  <2> DEFINE p == Pieces(i)
             L == Len(Sent)
  <2>1. p \in Seq(Piece) /\ Len(p) = 2
    BY <1>2 DEF Pieces, Piece
  <2>2. /\ Len(buf) \in Nat /\ Len(pipe) \in Nat /\ L = Len(buf) + Len(pipe) /\ L \in Nat
        /\ Sent \in Seq(Piece) /\ pipe \in Seq(Piece)
        /\ \A k \in 1 .. Len(buf) : Sent[k] = buf[k]
        /\ \A k \in 1 .. Len(pipe) : Sent[Len(buf) + k] = pipe[k]
        /\ \A k \in 1 .. L : Sent[k].of \in acted
    BY SentIs, Types
  <2>3. /\ Len(pipe') = Len(pipe) + 2
        /\ \A k \in 1 .. Len(pipe) : pipe'[k] = pipe[k]
        /\ pipe'[Len(pipe) + 1] = p[1] /\ pipe'[Len(pipe) + 2] = p[2]
    <3> HIDE DEF p
    <3>1. /\ Len(pipe \o p) = Len(pipe) + Len(p)
          /\ \A k \in 1 .. Len(pipe) : (pipe \o p)[k] = pipe[k]
          /\ \A k \in 1 .. Len(p) : (pipe \o p)[Len(pipe) + k] = p[k]
      BY <2>1, <2>2, Joined
    <3>2. pipe' = pipe \o p
      BY <1>7 DEF p
    <3> QED BY <2>1, <3>1, <3>2
  <2> HIDE DEF p, L
  <2>4. /\ Len(Sent') = Len(buf) + Len(pipe') /\ Sent' \in Seq(Piece)
        /\ \A k \in 1 .. Len(buf) : Sent'[k] = buf[k]
        /\ \A k \in 1 .. Len(pipe') : Sent'[Len(buf) + k] = pipe'[k]
    BY <1>1, SentNext
  <2>5. Len(Sent') = L + 2
    BY <2>2, <2>3, <2>4
  <2>6. ASSUME NEW k \in 1 .. L PROVE Sent'[k] = Sent[k]
    <3>1. CASE k \in 1 .. Len(buf)
      BY <3>1, <2>2, <2>4
    <3>2. CASE k > Len(buf)
      <4> DEFINE j == k - Len(buf)
      <4>1. j \in 1 .. Len(pipe) /\ j \in 1 .. Len(pipe') /\ Len(buf) + j = k
        BY <3>2, <2>2, <2>3
      <4> HIDE DEF j
      <4> QED BY <4>1, <2>2, <2>3, <2>4
    <3> QED BY <3>1, <3>2, <2>2
  <2>7. Sent'[L + 1] = p[1] /\ Sent'[L + 2] = p[2]
    <3>1. /\ Len(pipe) + 1 \in 1 .. Len(pipe') /\ Len(pipe) + 2 \in 1 .. Len(pipe')
          /\ Len(buf) + (Len(pipe) + 1) = L + 1 /\ Len(buf) + (Len(pipe) + 2) = L + 2
      BY <2>2, <2>3
    <3>2. /\ Sent'[Len(buf) + (Len(pipe) + 1)] = pipe'[Len(pipe) + 1]
          /\ Sent'[Len(buf) + (Len(pipe) + 2)] = pipe'[Len(pipe) + 2]
      BY <3>1, <2>4
    <3> QED BY <3>1, <3>2, <2>3
  <2>8. L = 0 \/ Sent[L].last
    BY <1>5, SentIs DEF L
  <2>9. \A k \in 1 .. L : Sent[k].of < i
    BY <1>2, <2>2
  <2>10. Alternates(Sent') /\ SameCall(Sent') /\ ~ Sent'[L + 1].last /\ Sent'[Len(Sent')].last
    <3>1. Alternates(Sent) /\ SameCall(Sent)
      BY DEF StreamInv
    <3> QED BY <1>2, <2>2, <2>4, <2>5, <2>6, <2>7, <2>8, <2>9, <3>1, AnswerAlternates DEF L, p
  <2>11. TornAfterFailure'
    <3>1. CASE L = 0
      BY <2>10, <3>1 DEF TornAfterFailure
    <3>2. CASE L # 0
      <4>1. Sent # <<>> /\ Sent'[1] = Sent[1]
        BY <2>2, <2>6, <3>2, SentIs DEF L
      <4> QED BY <1>1, <4>1 DEF StreamInv, TornAfterFailure
    <3> QED BY <3>1, <3>2
  <2>12. Ended'
    BY <2>10 DEF Ended
  <2> QED BY <1>4, <2>10, <2>11, <2>12 DEF StreamInv
<1> QED BY <1>6, <1>7 DEF Serve

LEMMA NextKeepsStream == ASSUME RpcInv, StreamInv, [RpcNext]_rpcVars PROVE StreamInv'
<1>1. RpcInv'
  BY NextKeepsRpcInv
<1>2. CASE UNCHANGED rpcVars
  BY <1>2 DEF rpcVars, clientVars, serviceVars, StreamInv, Sent, Ended, AnsweredIsLast,
     TornAfterFailure, GarbledAfterFailure
<1> QED
  BY <1>1, <1>2, CallKeepsStream, CallConnectsKeepsStream, CallFailsKeepsStream,
     ArriveKeepsStream, ReadLineKeepsStream, ServeKeepsStream, TimeOutKeepsStream,
     AppRestartsKeepsStream, ServiceDiesKeepsStream DEF RpcNext

\* For any number of calls: only a call right after one that failed is answered with half a
\* line, so a call that follows an answer never fails for what an earlier one has left
\* (CryptoServiceClient.cpp:312-317).
THEOREM GarbledOnlyAfterFailure == RpcSpec => []GarbledAfterFailure
<1>1. StreamInv => GarbledAfterFailure
  BY DEF StreamInv
<1> QED
  BY <1>1, InitStream, NextKeepsStream, RpcInvariance, PTL DEF RpcSpec
===============================================================================
