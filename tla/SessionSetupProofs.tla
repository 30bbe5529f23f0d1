-------------------------- MODULE SessionSetupProofs --------------------------
(***************************************************************************)
(* Setting up sessions, for any number of peers, pairs and fetches: no     *)
(* one-time prekey is handed out twice and none that its owner lacks, a    *)
(* session is with the peer its fingerprint was pinned for (both until     *)
(* bundles cross), and replenishing the prekeys reaches its target.        *)
(***************************************************************************)
EXTENDS SessionSetup, SequenceTheorems, FiniteSetTheorems, WellFoundedInduction, TLAPS

USE OpkCountAssumption, SessionSetupAssumption
    DEF OpkCountAssumption, SessionSetupAssumption

-------------------------------------------------------------------------------
(* Lists of prekeys *)

LEMMA BatchTyped ==
  ASSUME NEW n \in Nat, NEW k \in Nat \ {0}
  PROVE  /\ Batch(n, k) \in Seq(Nat \ {0})
         /\ Len(Batch(n, k)) = n
         /\ \A i \in 1 .. n : Batch(n, k)[i] = k + i - 1
         /\ IsInjective(Batch(n, k))
<1>1. \A i \in 1 .. n : k + i - 1 \in Nat \ {0}
  OBVIOUS
<1>2. Batch(n, k) \in Seq(Nat \ {0}) /\ Len(Batch(n, k)) = n
  BY <1>1 DEF Batch
<1>3. \A i \in 1 .. n : Batch(n, k)[i] = k + i - 1
  BY DEF Batch
<1>4. DOMAIN Batch(n, k) = 1 .. n
  BY DEF Batch
<1>5. IsInjective(Batch(n, k))
  BY <1>3, <1>4 DEF IsInjective
<1> QED BY <1>2, <1>3, <1>5

LEMMA InitialBatch ==
  /\ Batch(OpkCount, 1) \in Seq(Opks)
  /\ ToSet(Batch(OpkCount, 1)) = Opks
  /\ IsInjective(Batch(OpkCount, 1))
<1> DEFINE l == Batch(OpkCount, 1)
<1>1. /\ Len(l) = OpkCount /\ l \in Seq(Nat \ {0})
      /\ \A i \in 1 .. OpkCount : l[i] = i
      /\ IsInjective(l)
  <2>1. 1 \in Nat \ {0} /\ OpkCount \in Nat
    OBVIOUS
  <2>2. \A i \in 1 .. OpkCount : 1 + i - 1 = i
    OBVIOUS
  <2> HIDE DEF l
  <2>3. /\ Batch(OpkCount, 1) \in Seq(Nat \ {0})
        /\ Len(Batch(OpkCount, 1)) = OpkCount
        /\ \A i \in 1 .. OpkCount : Batch(OpkCount, 1)[i] = 1 + i - 1
        /\ IsInjective(Batch(OpkCount, 1))
    BY <2>1, BatchTyped
  <2> QED BY <2>2, <2>3 DEF l
<1>2. DOMAIN l = 1 .. OpkCount
  BY DEF Batch
<1>3. l \in Seq(Opks)
  <2>1. \A i \in 1 .. OpkCount : 1 + i - 1 \in Opks
    BY DEF Opks
  <2> QED BY <2>1 DEF Batch
<1>4. ToSet(l) = Opks
  BY <1>1, <1>2 DEF ToSet, Opks
<1> QED BY <1>1, <1>3, <1>4

\* What is left of a list that a number is dropped from.
LEMMA DropProperties ==
  ASSUME NEW S, NEW l \in Seq(S), NEW n, IsInjective(l)
  PROVE  /\ Drop(l, n) \in Seq(S)
         /\ IsInjective(Drop(l, n))
         /\ ToSet(Drop(l, n)) = ToSet(l) \ {n}
<1>1. CASE n \notin ToSet(l)
  BY <1>1 DEF Drop
<1>2. CASE n \in ToSet(l)
  <2> DEFINE k == CHOOSE i \in DOMAIN l : l[i] = n
             d == SubSeq(l, 1, k - 1)
             e == SubSeq(l, k + 1, Len(l))
             N == Len(l)
  <2>1. N \in Nat /\ DOMAIN l = 1 .. N /\ \A i \in 1 .. N : l[i] \in S
    BY LenProperties, ElementOfSeq
  <2>2. k \in 1 .. N /\ l[k] = n
    <3>1. \E i \in DOMAIN l : l[i] = n
      BY <1>2 DEF ToSet
    <3> QED BY <3>1, <2>1
  <2>3. Drop(l, n) = d \o e
    BY <1>2 DEF Drop, RemoveAt
  <2> HIDE DEF k
  <2>4. d \in Seq(S) /\ Len(d) = k - 1 /\ \A i \in 1 .. k - 1 : d[i] = l[i]
    <3>1. 1 \in Int /\ k - 1 \in Int /\ \A i \in 1 .. k - 1 : l[i] \in S
      BY <2>1, <2>2
    <3>2. /\ SubSeq(l, 1, k - 1) \in Seq(S)
          /\ Len(SubSeq(l, 1, k - 1)) = IF 1 <= k - 1 THEN k - 1 - 1 + 1 ELSE 0
          /\ \A i \in 1 .. k - 1 - 1 + 1 : SubSeq(l, 1, k - 1)[i] = l[1 + i - 1]
      BY <3>1, SubSeqProperties
    <3>3. \A i \in 1 .. k - 1 : 1 + i - 1 = i /\ i \in 1 .. k - 1 - 1 + 1
      BY <2>2
    <3>4. (IF 1 <= k - 1 THEN k - 1 - 1 + 1 ELSE 0) = k - 1
      BY <2>2
    <3> HIDE DEF d
    <3>5. d = SubSeq(l, 1, k - 1)
      BY DEF d
    <3> QED BY <3>2, <3>3, <3>4, <3>5
  <2>5. e \in Seq(S) /\ Len(e) = N - k /\ \A i \in 1 .. N - k : e[i] = l[k + i]
    <3>1. k + 1 \in Int /\ N \in Int /\ \A i \in k + 1 .. N : l[i] \in S
      BY <2>1, <2>2
    <3>2. /\ SubSeq(l, k + 1, N) \in Seq(S)
          /\ Len(SubSeq(l, k + 1, N)) = IF k + 1 <= N THEN N - (k + 1) + 1 ELSE 0
          /\ \A i \in 1 .. N - (k + 1) + 1 : SubSeq(l, k + 1, N)[i] = l[k + 1 + i - 1]
      BY <3>1, SubSeqProperties
    <3>3. \A i \in 1 .. N - k : k + 1 + i - 1 = k + i /\ i \in 1 .. N - (k + 1) + 1
      BY <2>1, <2>2
    <3>4. (IF k + 1 <= N THEN N - (k + 1) + 1 ELSE 0) = N - k
      <4>1. N \in Nat /\ k \in 1 .. N
        BY <2>1, <2>2
      <4> HIDE DEF N
      <4> QED BY <4>1
    <3>5. e = SubSeq(l, k + 1, N)
      OBVIOUS
    <3> HIDE DEF e
    <3> QED BY <3>2, <3>3, <3>4, <3>5
  <2> HIDE DEF d, e
  <2>6. /\ d \o e \in Seq(S) /\ Len(d \o e) = N - 1
        /\ \A i \in 1 .. N - 1 : (d \o e)[i] = IF i < k THEN l[i] ELSE l[i + 1]
    <3>1. /\ d \o e \in Seq(S) /\ Len(d \o e) = Len(d) + Len(e)
          /\ \A i \in 1 .. Len(d) + Len(e) :
               (d \o e)[i] = IF i <= Len(d) THEN d[i] ELSE e[i - Len(d)]
      BY <2>4, <2>5, ConcatProperties
    <3>2. Len(d) + Len(e) = N - 1
      BY <2>1, <2>2, <2>4, <2>5
    <3>3. ASSUME NEW i \in 1 .. N - 1
          PROVE  (d \o e)[i] = IF i < k THEN l[i] ELSE l[i + 1]
      <4>1. CASE i < k
        <5>1. i <= Len(d) /\ i \in 1 .. k - 1
          BY <4>1, <2>2, <2>4
        <5> QED BY <5>1, <4>1, <3>1, <3>2, <2>4
      <4>2. CASE ~ (i < k)
        <5>1. ~ (i <= Len(d)) /\ i - Len(d) \in 1 .. N - k /\ k + (i - Len(d)) = i + 1
          BY <4>2, <2>1, <2>2, <2>4
        <5>2. (d \o e)[i] = e[i - Len(d)]
          BY <5>1, <3>1, <3>2
        <5> QED BY <5>1, <5>2, <4>2, <2>5
      <4> QED BY <4>1, <4>2
    <3> QED BY <3>1, <3>2, <3>3
  <2> DEFINE c == d \o e
  <2>7. DOMAIN c = 1 .. N - 1
    BY <2>6, LenProperties
  <2> HIDE DEF c
  <2>8. \A i \in 1 .. N - 1 : c[i] = IF i < k THEN l[i] ELSE l[i + 1]
    BY <2>6 DEF c
  <2>9. IsInjective(c)
    <3> SUFFICES ASSUME NEW i \in 1 .. N - 1, NEW j \in 1 .. N - 1, c[i] = c[j]
                 PROVE  i = j
      BY <2>7 DEF IsInjective
    <3> DEFINE ii == IF i < k THEN i ELSE i + 1
               jj == IF j < k THEN j ELSE j + 1
    <3>1. ii \in 1 .. N /\ jj \in 1 .. N
      BY <2>1, <2>2
    <3>2. c[i] = l[ii] /\ c[j] = l[jj]
      BY <2>8
    <3>3. ii = jj
      BY <3>1, <3>2, <2>1 DEF IsInjective
    <3> QED BY <3>3, <2>2
  <2>10. ToSet(c) = ToSet(l) \ {n}
    <3>1. ASSUME NEW x \in ToSet(c) PROVE x \in ToSet(l) \ {n}
      <4>1. PICK i \in 1 .. N - 1 : x = c[i]
        BY <2>7 DEF ToSet
      <4> DEFINE ii == IF i < k THEN i ELSE i + 1
      <4>2. ii \in 1 .. N /\ ii # k /\ x = l[ii]
        BY <4>1, <2>1, <2>2, <2>8
      <4> QED BY <4>2, <2>1, <2>2 DEF ToSet, IsInjective
    <3>2. ASSUME NEW x \in ToSet(l) \ {n} PROVE x \in ToSet(c)
      <4>1. PICK i \in 1 .. N : x = l[i]
        BY <2>1 DEF ToSet
      <4>2. i # k
        BY <4>1, <2>2
      <4> DEFINE ii == IF i < k THEN i ELSE i - 1
      <4>3. ii \in 1 .. N - 1 /\ (IF ii < k THEN ii ELSE ii + 1) = i
        BY <4>2, <2>1, <2>2
      <4>4. c[ii] = l[i]
        BY <4>3, <2>8
      <4> QED BY <4>1, <4>3, <4>4, <2>7 DEF ToSet
    <3> QED BY <3>1, <3>2
  <2> QED BY <2>3, <2>6, <2>9, <2>10 DEF c
<1> QED BY <1>1, <1>2

-------------------------------------------------------------------------------
(* The inductive invariant *)

\* Both lists of a peer are the same, without repetition.
BundleInv ==
  \A p \in Peers : bundle[p].kem = bundle[p].x25519 /\ IsInjective(bundle[p].x25519)

\* A request under way is for the bundle of a peer.
FetchInv ==
  \A f \in Fetches : fetch[f].pc \in {"asked", "left", "answered"} => fetch[f].who \in Peers

\* A run was made when its fetch had ended, and one that waits has not been sent.
RunInv ==
  /\ \A p \in Peers : pending[p] # NoRun => fetch[pending[p].ephemeral[1]].pc = "over"
  /\ \A m \in mail : fetch[m.run.ephemeral[1]].pc = "over"
  /\ \A p \in Peers : [to |-> p, run |-> pending[p]] \notin mail

\* The fetches answered with a pair of p, the runs with one.
Answered(p) ==
  {f \in Fetches : fetch[f].pc = "answered" /\ fetch[f].who = p /\ fetch[f].pair # NoPair}
RunsTo(p) == {m \in AllRuns : m.to = p /\ m.run.pair # NoPair}

\* Of a peer's pairs B, those the server has left (U), those given to others (O), those of
\* answers under way (F) and those of runs (R) are all different.
Apart(U, O, F, R, B, answer) ==
  /\ U \cup O \subseteq B /\ O \cap U = {}
  /\ \A f \in F : answer[f].pair \in B \ (U \cup O)
  /\ \A m \in R : m.run.pair \in B \ (U \cup O)
  /\ \A f, g \in F : answer[f].pair = answer[g].pair => f = g
  /\ \A m, n \in R : m.run.pair = n.run.pair => m = n
  /\ \A f \in F, m \in R : answer[f].pair # m.run.pair

PairInv ==
  ~ crossed =>
    \A p \in Peers :
      Apart(unused[p], others[p], Answered(p), RunsTo(p), ToSet(bundle[p].x25519), fetch)

\* A fingerprint is pinned when the user is verified, and before a run is made.
PinInv ==
  ~ crossed =>
    \A p \in Peers :
      /\ pin[p] \in {Nobody, p} /\ (pin[p] = p => verified[p] = TRUE)
      /\ pending[p] # NoRun => pending[p].with = p /\ pin[p] = p
      /\ session[p] # NoRun => session[p].with = p /\ pin[p] = p

SetupInv == SetupTypeOK /\ BundleInv /\ FetchInv /\ RunInv /\ PairInv /\ PinInv

Fetch == [pc : {"none", "asked", "left", "answered", "over"},
          who : Peers \cup {Nobody}, pair : Opks \cup {NoPair}]

-------------------------------------------------------------------------------
(* Types *)

LEMMA NoFetchTyped == NoFetch \in Fetch /\ NoFetch.pc = "none" /\ NoFetch.who = Nobody
BY DEF NoFetch, Fetch

LEMMA NoRunIsNone == NoRun \notin Runs
BY DEF NoRun, Runs

\* The run made from the bundle of fetch f for the conversation p.
LEMMA RunMade ==
  ASSUME NEW f \in Fetches, NEW p \in Peers, fetch[f] \in Fetch, fetch[f].who \in Peers
  PROVE  LET r == Initiate(<<f, p>>, Offer(f))
         IN  /\ r \in Runs /\ r.ephemeral = <<f, p>>
             /\ r.with = fetch[f].who /\ r.pair = fetch[f].pair
<1> DEFINE r == Initiate(<<f, p>>, Offer(f))
<1>1. fetch[f].pair \in Opks \cup {NoPair}
  BY DEF Fetch
<1>2. r = [ephemeral |-> <<f, p>>, with |-> fetch[f].who, pair |-> fetch[f].pair]
  <2>1. CASE fetch[f].pair = NoPair
    BY <2>1 DEF Initiate, Offer
  <2>2. CASE fetch[f].pair # NoPair
    <3>1. <<fetch[f].pair>> # <<>> /\ <<fetch[f].pair>>[1] = fetch[f].pair
      OBVIOUS
    <3> QED BY <2>2, <3>1 DEF Initiate, Offer
  <2> QED BY <2>1, <2>2
<1>3. <<f, p>> \in Fetches \X Peers
  OBVIOUS
<1> HIDE DEF r
<1> QED BY <1>1, <1>2, <1>3 DEF Runs, r

\* The types of the variables, one by one.
LEMMA TypesOf ==
  ASSUME SetupTypeOK
  PROVE  /\ fetch \in [Fetches -> Fetch]
         /\ \A f \in Fetches : fetch[f] \in Fetch
         /\ \A p \in Peers : /\ unused[p] \subseteq Opks /\ others[p] \subseteq Opks
                             /\ bundle[p] \in [x25519 : Seq(Opks), kem : Seq(Opks)]
                             /\ pending[p] \in Runs \cup {NoRun}
                             /\ session[p] \in Runs \cup {NoRun}
BY DEF SetupTypeOK, Fetch

LEMMA InitInv == SetupInit => SetupInv
<1> SUFFICES ASSUME SetupInit PROVE SetupInv
  OBVIOUS
<1> USE DEF SetupInit
<1>0. \A p \in Peers : /\ bundle[p].x25519 = Batch(OpkCount, 1)
                       /\ bundle[p].kem = Batch(OpkCount, 1)
  BY DEF Pairs
<1>1. SetupTypeOK
  <2>1. unused \in [Peers -> SUBSET Opks]
    OBVIOUS
  <2>2. bundle \in [Peers -> [x25519 : Seq(Opks), kem : Seq(Opks)]]
    BY InitialBatch DEF Pairs
  <2>3. fetch \in [Fetches -> Fetch]
    BY NoFetchTyped
  <2> QED BY <2>1, <2>2, <2>3 DEF SetupTypeOK, Fetch
<1>2. BundleInv
  BY <1>0, InitialBatch DEF BundleInv
<1>3. FetchInv
  BY DEF FetchInv, NoFetch
<1>4. RunInv
  BY DEF RunInv
<1>5. PairInv
  <2> SUFFICES ASSUME NEW p \in Peers
               PROVE  Apart(unused[p], others[p], Answered(p), RunsTo(p),
                            ToSet(bundle[p].x25519), fetch)
    BY DEF PairInv
  <2>1. AllRuns = {} /\ RunsTo(p) = {}
    BY DEF AllRuns, RunsTo
  <2>2. Answered(p) = {}
    BY DEF Answered, NoFetch
  <2>3. unused[p] \subseteq Opks /\ others[p] = {} /\ ToSet(bundle[p].x25519) = Opks
    BY <1>0, InitialBatch
  <2> QED BY <2>1, <2>2, <2>3 DEF Apart
<1>6. PinInv
  BY DEF PinInv
<1> QED BY <1>1, <1>2, <1>3, <1>4, <1>5, <1>6 DEF SetupInv

\* The fetch taken for a new request, and what becomes of the requests.
LEMMA SetupAsks ==
  ASSUME SetupInv, NEW p \in Peers, Setup(p)
  PROVE  /\ fetch' \in [Fetches -> Fetch]
         /\ handlers' = handlers \cup {p}
         /\ \E f \in Fetches :
              /\ fetch[f].pc = "none" /\ fetch'[f].pc = "asked" /\ fetch'[f].who = p
              /\ \A g \in Fetches \ {f} : fetch'[g] = fetch[g]
<1>1. PICK f \in Fetches :
        /\ \A g \in Fetches : fetch[g].pc = "none" <=> g >= f
        /\ fetch' = [fetch EXCEPT ![f] = [NoFetch EXCEPT !.pc = "asked", !.who = p]]
        /\ handlers' = handlers \cup {p}
  BY DEF Setup
<1> DEFINE a == [NoFetch EXCEPT !.pc = "asked", !.who = p]
<1>2. a \in Fetch /\ a.pc = "asked" /\ a.who = p
  BY NoFetchTyped DEF NoFetch, Fetch
<1>3. fetch \in [Fetches -> Fetch]
  BY TypesOf DEF SetupInv
<1>4. fetch[f].pc = "none"
  <2>1. f >= f
    BY DEF Fetches
  <2> QED BY <1>1, <2>1
<1> HIDE DEF a
<1>5. fetch' = [fetch EXCEPT ![f] = a]
  BY <1>1 DEF a
<1> QED BY <1>1, <1>2, <1>3, <1>4, <1>5


LEMMA RunsThereAre ==
  ASSUME NEW m
  PROVE  m \in AllRuns <=>
           m \in mail \/ \E p \in Peers : pending[p] # NoRun /\ m = [to |-> p, run |-> pending[p]]
BY DEF AllRuns

\* Fewer claims on the same pairs.
LEMMA ApartShrinks ==
  ASSUME NEW U, NEW O, NEW F, NEW R, NEW B, NEW answer, Apart(U, O, F, R, B, answer),
         NEW G, NEW Q, NEW reply, G \subseteq F, Q \subseteq R,
         \A f \in G : reply[f] = answer[f]
  PROVE  Apart(U, O, G, Q, B, reply)
BY DEF Apart

-------------------------------------------------------------------------------
(* Steps that take no pair and pin nothing *)

\* Requests may end, runs may be sent or dropped.
LEMMA QuietStep ==
  ASSUME SetupInv, SetupTypeOK', UNCHANGED <<unused, bundle, others, pin, verified, crossed>>,
         \A f \in Fetches : fetch[f].pc = "over" => fetch'[f].pc = "over",
         \A f \in Fetches : fetch'[f].pc = "answered" => fetch'[f] = fetch[f],
         \A p \in Peers : pending'[p] \in {pending[p], NoRun},
         \A p \in Peers : session'[p] \in {session[p], pending[p], NoRun},
         \A m \in mail' : m \in mail \/ \E p \in Peers :
                            pending[p] # NoRun /\ pending'[p] = NoRun
                            /\ m = [to |-> p, run |-> pending[p]]
  PROVE  BundleInv' /\ RunInv' /\ PairInv' /\ PinInv'
<1>0. /\ BundleInv /\ RunInv /\ PairInv /\ PinInv
      /\ \A p \in Peers : pending[p] \in Runs \cup {NoRun}
      /\ \A r \in Runs : r.ephemeral[1] \in Fetches
  <2>1. \A r \in Runs : r.ephemeral[1] \in Fetches
    BY DEF Runs
  <2> QED BY <2>1, TypesOf DEF SetupInv
<1>1. BundleInv'
  BY <1>0 DEF BundleInv
<1>2. RunInv'
  <2>1. ASSUME NEW p \in Peers, pending'[p] # NoRun
        PROVE  fetch'[pending'[p].ephemeral[1]].pc = "over"
    BY <2>1, <1>0 DEF RunInv
  <2>2. ASSUME NEW m \in mail'
        PROVE  fetch'[m.run.ephemeral[1]].pc = "over"
    <3>1. CASE m \in mail
      <4>1. m.run \in Runs
        BY <3>1 DEF SetupInv, SetupTypeOK
      <4> QED BY <3>1, <4>1, <1>0 DEF RunInv
    <3>2. CASE \E p \in Peers : pending[p] # NoRun /\ m = [to |-> p, run |-> pending[p]]
      <4>1. PICK p \in Peers : pending[p] # NoRun /\ m = [to |-> p, run |-> pending[p]]
        BY <3>2
      <4>2. m.run = pending[p] /\ m.run \in Runs
        BY <4>1, <1>0
      <4> QED BY <4>1, <4>2, <1>0 DEF RunInv
    <3> QED BY <3>1, <3>2
  <2>3. ASSUME NEW p \in Peers
        PROVE  [to |-> p, run |-> pending'[p]] \notin mail'
    <3>1. CASE pending'[p] = NoRun
      <4>1. \A m \in mail' : m.run \in Runs
        BY DEF SetupTypeOK
      <4>2. [to |-> p, run |-> NoRun].run = NoRun
        OBVIOUS
      <4> QED BY <4>1, <4>2, <3>1, NoRunIsNone
    <3>2. CASE pending'[p] # NoRun
      <4>1. pending'[p] = pending[p]
        BY <3>2
      <4>2. [to |-> p, run |-> pending[p]] \notin mail
        BY <1>0 DEF RunInv
      <4>3. ASSUME NEW q \in Peers, pending'[q] = NoRun,
                   [to |-> p, run |-> pending[p]] = [to |-> q, run |-> pending[q]]
            PROVE  FALSE
        <5>1. p = q
          BY <4>3
        <5> QED BY <5>1, <4>3, <3>2
      <4> QED BY <4>1, <4>2, <4>3
    <3> QED BY <3>1, <3>2
  <2> QED BY <2>1, <2>2, <2>3 DEF RunInv
<1>3. PairInv'
  <2> SUFFICES ASSUME ~ crossed, NEW p \in Peers
               PROVE  Apart(unused[p], others[p], Answered(p)', RunsTo(p)',
                            ToSet(bundle[p].x25519), fetch')
    BY DEF PairInv
  <2>1. Apart(unused[p], others[p], Answered(p), RunsTo(p), ToSet(bundle[p].x25519), fetch)
    BY <1>0 DEF PairInv
  <2>2. Answered(p)' \subseteq Answered(p) /\ \A f \in Answered(p)' : fetch'[f] = fetch[f]
    BY DEF Answered
  <2>3. RunsTo(p)' \subseteq RunsTo(p)
    <3>1. ASSUME NEW m \in AllRuns' PROVE m \in AllRuns
      <4>1. m \in mail' \/ \E q \in Peers : pending'[q] # NoRun
                                            /\ m = [to |-> q, run |-> pending'[q]]
        BY DEF AllRuns
      <4> QED BY <4>1, RunsThereAre
    <3> QED BY <3>1 DEF RunsTo
  <2> QED BY <2>1, <2>2, <2>3, ApartShrinks
<1>4. PinInv'
  BY <1>0 DEF PinInv
<1> QED BY <1>1, <1>2, <1>3, <1>4

\* An action that leaves the sessions alone.
LEMMA QuietRequests ==
  ASSUME SetupInv, SetupTypeOK', UNCHANGED <<unused, bundle, others, pin, verified, crossed>>,
         UNCHANGED sessions,
         \A f \in Fetches : fetch[f].pc = "over" => fetch'[f].pc = "over",
         \A f \in Fetches : fetch'[f].pc = "answered" => fetch'[f] = fetch[f]
  PROVE  BundleInv' /\ RunInv' /\ PairInv' /\ PinInv'
<1>1. pending' = pending /\ session' = session /\ mail' = mail
  BY DEF sessions
<1>2. /\ \A p \in Peers : pending'[p] \in {pending[p], NoRun}
      /\ \A p \in Peers : session'[p] \in {session[p], pending[p], NoRun}
      /\ \A m \in mail' : m \in mail
  BY <1>1
<1> QED BY <1>2, QuietStep

LEMMA OpenKeepsInv ==
  ASSUME SetupInv, NEW p \in Peers, OpenWaiting(p) \/ OpenWithSession(p) \/ OpenWithout(p)
  PROVE  SetupInv'
<1>0. SetupTypeOK /\ FetchInv /\ fetch \in [Fetches -> Fetch]
  BY TypesOf DEF SetupInv
<1>1. CASE OpenWaiting(p) \/ OpenWithSession(p)
  <2>1. UNCHANGED <<unused, bundle, others, pin, verified, crossed, fetch, sessions>>
        /\ UNCHANGED <<accepted, handlers, mismatch>> /\ current' = p /\ ready' \in BOOLEAN
    BY <1>0, <1>1 DEF OpenWaiting, OpenWithSession, Open, peerVars, SetupTypeOK
  <2>2. SetupTypeOK'
    BY <2>1, <1>0 DEF SetupTypeOK, sessions
  <2>3. FetchInv'
    BY <2>1, <1>0 DEF FetchInv
  <2>4. BundleInv' /\ RunInv' /\ PairInv' /\ PinInv'
    BY <2>1, <2>2, QuietRequests
  <2> QED BY <2>2, <2>3, <2>4 DEF SetupInv
<1>2. CASE OpenWithout(p)
  <2>1. /\ UNCHANGED <<unused, bundle, others, pin, verified, crossed, sessions>>
        /\ UNCHANGED <<accepted, mismatch>> /\ current' = p /\ ready' = FALSE /\ Setup(p)
    BY <1>2 DEF OpenWithout, Open, peerVars
  <2>2. PICK f \in Fetches :
          /\ fetch' \in [Fetches -> Fetch] /\ handlers' = handlers \cup {p}
          /\ fetch[f].pc = "none" /\ fetch'[f].pc = "asked" /\ fetch'[f].who = p
          /\ \A g \in Fetches \ {f} : fetch'[g] = fetch[g]
    BY <2>1, SetupAsks
  <2>3. SetupTypeOK'
    BY <2>1, <2>2, <1>0 DEF SetupTypeOK, sessions, Fetch
  <2>4. FetchInv'
    BY <2>2, <1>0 DEF FetchInv
  <2>5. /\ \A g \in Fetches : fetch[g].pc = "over" => fetch'[g].pc = "over"
        /\ \A g \in Fetches : fetch'[g].pc = "answered" => fetch'[g] = fetch[g]
    BY <2>2
  <2>6. BundleInv' /\ RunInv' /\ PairInv' /\ PinInv'
    BY <2>1, <2>3, <2>5, QuietRequests
  <2> QED BY <2>3, <2>4, <2>6 DEF SetupInv
<1> QED BY <1>1, <1>2

LEMMA ReinitiateKeepsInv ==
  ASSUME SetupInv, NEW p \in Peers, Reinitiate(p)
  PROVE  SetupInv'
<1>0. SetupTypeOK /\ FetchInv /\ fetch \in [Fetches -> Fetch]
  BY TypesOf DEF SetupInv
<1>1. /\ UNCHANGED <<unused, bundle, others, pin, verified, crossed, accepted>>
      /\ UNCHANGED <<current, ready, mail>>
      /\ pending' = [pending EXCEPT ![p] = NoRun] /\ session' = [session EXCEPT ![p] = NoRun]
      /\ mismatch' \in BOOLEAN /\ Setup(p)
  BY <1>0 DEF Reinitiate, peerVars, SetupTypeOK
<1>2. PICK f \in Fetches :
        /\ fetch' \in [Fetches -> Fetch] /\ handlers' = handlers \cup {p}
        /\ fetch[f].pc = "none" /\ fetch'[f].pc = "asked" /\ fetch'[f].who = p
        /\ \A g \in Fetches \ {f} : fetch'[g] = fetch[g]
  BY <1>1, SetupAsks
<1>3. SetupTypeOK'
  BY <1>0, <1>1, <1>2 DEF SetupTypeOK, Fetch
<1>4. FetchInv'
  BY <1>0, <1>2 DEF FetchInv
<1>5. /\ \A g \in Fetches : fetch[g].pc = "over" => fetch'[g].pc = "over"
      /\ \A g \in Fetches : fetch'[g].pc = "answered" => fetch'[g] = fetch[g]
  BY <1>2
<1>6. /\ \A q \in Peers : pending'[q] \in {pending[q], NoRun}
      /\ \A q \in Peers : session'[q] \in {session[q], pending[q], NoRun}
      /\ \A m \in mail' : m \in mail
  BY <1>0, <1>1 DEF SetupTypeOK
<1>7. BundleInv' /\ RunInv' /\ PairInv' /\ PinInv'
  BY <1>1, <1>3, <1>5, <1>6, QuietStep
<1> QED BY <1>3, <1>4, <1>7 DEF SetupInv

LEMMA SendFirstKeepsInv ==
  ASSUME SetupInv, NEW p \in Peers, SendFirst(p)
  PROVE  SetupInv'
<1>0. SetupTypeOK /\ FetchInv /\ pending[p] \in Runs \cup {NoRun}
  BY TypesOf DEF SetupInv
<1>1. /\ UNCHANGED <<unused, bundle, others, pin, verified, crossed, accepted, fetch>>
      /\ UNCHANGED <<handlers, current, ready, mismatch>>
      /\ pending[p] # NoRun
      /\ session' = [session EXCEPT ![p] = pending[p]]
      /\ pending' = [pending EXCEPT ![p] = NoRun]
      /\ mail' = mail \cup {[to |-> p, run |-> pending[p]]}
  BY DEF SendFirst, peerVars, appVars
<1>2. SetupTypeOK'
  BY <1>0, <1>1 DEF SetupTypeOK
<1>3. FetchInv'
  BY <1>0, <1>1 DEF FetchInv
<1>4. /\ \A q \in Peers : pending'[q] \in {pending[q], NoRun}
      /\ \A q \in Peers : session'[q] \in {session[q], pending[q], NoRun}
      /\ pending'[p] = NoRun
  BY <1>0, <1>1 DEF SetupTypeOK
<1>5. \A m \in mail' : m \in mail \/ \E q \in Peers :
                         pending[q] # NoRun /\ pending'[q] = NoRun
                         /\ m = [to |-> q, run |-> pending[q]]
  BY <1>1, <1>4
<1>6. BundleInv' /\ RunInv' /\ PairInv' /\ PinInv'
  BY <1>1, <1>2, <1>4, <1>5, QuietStep
<1> QED BY <1>2, <1>3, <1>6 DEF SetupInv

LEMMA BundleFailsKeepsInv ==
  ASSUME SetupInv, NEW f \in Fetches, BundleFails(f)
  PROVE  SetupInv'
<1>0. SetupTypeOK /\ FetchInv /\ fetch \in [Fetches -> Fetch] /\ fetch[f] \in Fetch
  BY TypesOf DEF SetupInv
<1>1. /\ UNCHANGED <<unused, bundle, others, pin, verified, crossed, accepted, sessions>>
      /\ UNCHANGED <<current, mismatch>> /\ handlers' = {} /\ ready' \in BOOLEAN
      /\ fetch[f].pc \in {"asked", "answered"}
      /\ fetch' = [fetch EXCEPT ![f] = IF @.pc = "asked" THEN [@ EXCEPT !.pc = "left"]
                                       ELSE [NoFetch EXCEPT !.pc = "over"]]
  BY DEF BundleFails, peerVars
<1> DEFINE a == [fetch[f] EXCEPT !.pc = "left"]
           b == [NoFetch EXCEPT !.pc = "over"]
<1>2. /\ a \in Fetch /\ a.pc = "left" /\ a.who = fetch[f].who
      /\ b \in Fetch /\ b.pc = "over"
  BY <1>0, NoFetchTyped DEF Fetch, NoFetch
<1>3. /\ fetch' = [fetch EXCEPT ![f] = IF fetch[f].pc = "asked" THEN a ELSE b]
      /\ fetch[f].pc \in {"asked", "answered"}
  BY <1>1, <1>0
<1> HIDE DEF a, b
<1>4. /\ fetch' \in [Fetches -> Fetch]
      /\ fetch'[f] = IF fetch[f].pc = "asked" THEN a ELSE b
      /\ \A g \in Fetches \ {f} : fetch'[g] = fetch[g]
  BY <1>0, <1>2, <1>3
<1>5. SetupTypeOK'
  BY <1>0, <1>1, <1>4 DEF SetupTypeOK, sessions, Fetch
<1>6. FetchInv'
  BY <1>0, <1>2, <1>3, <1>4 DEF FetchInv
<1>7. /\ \A g \in Fetches : fetch[g].pc = "over" => fetch'[g].pc = "over"
      /\ \A g \in Fetches : fetch'[g].pc = "answered" => fetch'[g] = fetch[g]
  BY <1>2, <1>3, <1>4
<1>8. BundleInv' /\ RunInv' /\ PairInv' /\ PinInv'
  BY <1>1, <1>5, <1>7, QuietRequests
<1> QED BY <1>5, <1>6, <1>8 DEF SetupInv

LEMMA RestartKeepsInv ==
  ASSUME SetupInv, Restart
  PROVE  SetupInv'
<1>0. SetupTypeOK /\ FetchInv /\ \A f \in Fetches : fetch[f] \in Fetch
  BY TypesOf DEF SetupInv
<1>1. /\ UNCHANGED <<unused, bundle, others, pin, verified, crossed, accepted, session, mail>>
      /\ current' = Nobody /\ mismatch' = FALSE /\ handlers' = {} /\ ready' = TRUE
      /\ pending' = [p \in Peers |-> NoRun]
  BY DEF Restart, peerVars
<1>2. ASSUME NEW f \in Fetches
      PROVE  /\ fetch'[f] \in Fetch
             /\ fetch'[f].pc \in {"asked", "left", "answered"} => fetch'[f].who \in Peers
             /\ fetch[f].pc = "over" => fetch'[f].pc = "over"
             /\ fetch'[f].pc = "answered" => fetch'[f] = fetch[f]
  <2> DEFINE a == [fetch[f] EXCEPT !.pc = "left"]
             b == [NoFetch EXCEPT !.pc = "over"]
  <2>1. /\ a \in Fetch /\ a.pc = "left" /\ a.who = fetch[f].who
        /\ b \in Fetch /\ b.pc = "over"
    BY <1>0, NoFetchTyped DEF Fetch, NoFetch
  <2>2. fetch'[f] = CASE fetch[f].pc = "asked" -> a [] fetch[f].pc = "answered" -> b
                      [] OTHER -> fetch[f]
    BY DEF Restart
  <2> HIDE DEF a, b
  <2>3. CASE fetch[f].pc = "asked"
    BY <2>1, <2>2, <2>3, <1>0 DEF FetchInv
  <2>4. CASE fetch[f].pc = "answered"
    BY <2>1, <2>2, <2>4
  <2>5. CASE fetch[f].pc \notin {"asked", "answered"}
    BY <2>2, <2>5, <1>0 DEF FetchInv
  <2> QED BY <2>3, <2>4, <2>5
<1>3. fetch' \in [Fetches -> Fetch]
  <2>1. \E F : fetch' = [f \in Fetches |-> F[f]]
    <3>1. fetch' = [f \in Fetches |-> fetch'[f]]
      BY DEF Restart
    <3> QED BY <3>1
  <2> QED BY <1>2, <2>1
<1>4. SetupTypeOK'
  BY <1>0, <1>1, <1>3 DEF SetupTypeOK, Fetch
<1>5. FetchInv'
  BY <1>2 DEF FetchInv
<1>6. /\ \A p \in Peers : pending'[p] \in {pending[p], NoRun}
      /\ \A p \in Peers : session'[p] \in {session[p], pending[p], NoRun}
      /\ \A m \in mail' : m \in mail
  BY <1>1
<1>7. BundleInv' /\ RunInv' /\ PairInv' /\ PinInv'
  BY <1>1, <1>2, <1>4, <1>6, QuietStep
<1> QED BY <1>4, <1>5, <1>7 DEF SetupInv

-------------------------------------------------------------------------------
(* Steps that take a pair *)

\* A pair the server has left goes to another user,
LEMMA ApartGives ==
  ASSUME NEW U, NEW O, NEW F, NEW R, NEW B, NEW answer, Apart(U, O, F, R, B, answer), NEW n \in U
  PROVE  Apart(U \ {n}, O \cup {n}, F, R, B, answer)
BY DEF Apart

\* who consumes it.
LEMMA ApartLoses ==
  ASSUME NEW U, NEW O, NEW F, NEW R, NEW B, NEW answer, Apart(U, O, F, R, B, answer), NEW n \in O
  PROVE  Apart(U, O \ {n}, F, R, B \ {n}, answer)
BY DEF Apart

\* The pair of an answer becomes that of a run,
LEMMA ApartRuns ==
  ASSUME NEW U, NEW O, NEW F, NEW R, NEW B, NEW answer, Apart(U, O, F, R, B, answer),
         NEW f, NEW G, G \subseteq F \ {f}, NEW m, NEW Q, Q \subseteq R \cup {m},
         m \in Q => f \in F /\ m.run.pair = answer[f].pair,
         NEW reply, \A g \in G : reply[g] = answer[g]
  PROVE  Apart(U, O, G, Q, B, reply)
BY DEF Apart

\* whose first message consumes it.
LEMMA ApartConsumes ==
  ASSUME NEW U, NEW O, NEW F, NEW R, NEW B, NEW answer, Apart(U, O, F, R, B, answer),
         NEW m \in R, NEW Q, Q \subseteq R \ {m}
  PROVE  Apart(U, O, F, Q, B \ {m.run.pair}, answer)
BY DEF Apart

LEMMA NoPairIsNone == NoPair \notin Opks
BY DEF NoPair, Opks

LEMMA ServeKeepsInv ==
  ASSUME SetupInv, NEW f \in Fetches, Serve(f)
  PROVE  SetupInv'
<1>0. /\ SetupTypeOK /\ BundleInv /\ FetchInv /\ RunInv /\ PairInv /\ PinInv
      /\ fetch \in [Fetches -> Fetch] /\ fetch[f] \in Fetch
      /\ unused \in [Peers -> SUBSET Opks]
  BY TypesOf DEF SetupInv, SetupTypeOK
<1> DEFINE p == fetch[f].who
<1>1. /\ UNCHANGED <<bundle, accepted, others>> /\ UNCHANGED <<pending, session, mail, crossed>>
      /\ UNCHANGED <<handlers, current, ready, mismatch, pin, verified>>
      /\ fetch[f].pc \in {"asked", "left"}
  BY DEF Serve, peerVars, appVars, sessions
<1>2. PICK n \in Opks \cup {NoPair} :
        /\ IF unused[p] = {} THEN n = NoPair ELSE n \in unused[p]
        /\ unused' = [unused EXCEPT ![p] = @ \ {n}]
        /\ fetch' = [fetch EXCEPT ![f] =
             IF @.pc = "asked" THEN [@ EXCEPT !.pc = "answered", !.pair = n]
             ELSE [NoFetch EXCEPT !.pc = "over"]]
  BY DEF Serve, Claim
<1> DEFINE a == [fetch[f] EXCEPT !.pc = "answered", !.pair = n]
           b == [NoFetch EXCEPT !.pc = "over"]
<1>3. /\ a \in Fetch /\ a.pc = "answered" /\ a.who = fetch[f].who /\ a.pair = n
      /\ b \in Fetch /\ b.pc = "over"
  BY <1>0, NoFetchTyped DEF Fetch, NoFetch
<1>4. fetch' = [fetch EXCEPT ![f] = IF fetch[f].pc = "asked" THEN a ELSE b]
  BY <1>0, <1>2
<1>p. p \in Peers
  BY <1>0, <1>1 DEF FetchInv
<1> HIDE DEF a, b, p
<1>5. /\ fetch' \in [Fetches -> Fetch]
      /\ fetch'[f] = IF fetch[f].pc = "asked" THEN a ELSE b
      /\ \A g \in Fetches \ {f} : fetch'[g] = fetch[g]
  BY <1>0, <1>3, <1>4
<1>6. /\ unused' \in [Peers -> SUBSET Opks] /\ unused'[p] = unused[p] \ {n}
      /\ \A q \in Peers \ {p} : unused'[q] = unused[q]
  BY <1>0, <1>2, <1>p
<1>7. SetupTypeOK'
  BY <1>0, <1>1, <1>5, <1>6 DEF SetupTypeOK, Fetch
<1>8. FetchInv'
  BY <1>0, <1>1, <1>3, <1>5, <1>p DEF FetchInv, p
<1>9. BundleInv'
  BY <1>0, <1>1 DEF BundleInv
<1>10. RunInv'
  <2>1. \A g \in Fetches : fetch[g].pc = "over" => fetch'[g].pc = "over"
    BY <1>1, <1>5
  <2>2. /\ \A q \in Peers : pending[q] # NoRun => pending[q].ephemeral[1] \in Fetches
        /\ \A m \in mail : m.run.ephemeral[1] \in Fetches
    BY <1>0 DEF SetupTypeOK, Runs
  <2> QED BY <2>1, <2>2, <1>0, <1>1 DEF RunInv
<1>11. PairInv'
  <2> SUFFICES ASSUME ~ crossed, NEW q \in Peers
               PROVE  Apart(unused'[q], others[q], Answered(q)', RunsTo(q)',
                            ToSet(bundle[q].x25519), fetch')
    BY <1>1 DEF PairInv
  <2>1. Apart(unused[q], others[q], Answered(q), RunsTo(q), ToSet(bundle[q].x25519), fetch)
    BY <1>0 DEF PairInv
  <2>2. RunsTo(q)' = RunsTo(q)
    BY <1>1 DEF RunsTo, AllRuns
  <2>3. CASE q # p
    <3>1. unused'[q] = unused[q]
      BY <1>6, <2>3
    <3>2. fetch'[f].pc = "answered" => fetch'[f].who # q
      BY <1>3, <1>5, <2>3 DEF p
    <3>3. Answered(q)' \subseteq Answered(q) /\ \A g \in Answered(q)' : fetch'[g] = fetch[g]
      BY <3>2, <1>5 DEF Answered
    <3> QED BY <2>1, <2>2, <3>1, <3>3, ApartShrinks
  <2>4. CASE q = p
    <3>1. unused'[q] \subseteq unused[q]
      BY <1>6, <2>4
    <3>2. /\ Answered(q)' \subseteq Answered(q) \cup {f}
          /\ \A g \in Answered(q)' \ {f} : fetch'[g] = fetch[g]
      BY <1>5 DEF Answered
    <3>3. ASSUME f \in Answered(q)' PROVE fetch'[f].pair \in unused[q] \ unused'[q]
      <4>1. fetch'[f].pc = "answered" /\ fetch'[f].pair # NoPair
        BY <3>3 DEF Answered
      <4>2. fetch'[f].pair = n
        BY <4>1, <1>3, <1>5
      <4> QED BY <4>1, <4>2, <1>2, <1>6, <2>4
    <3> DEFINE V == unused'[q]
               G == Answered(q)'
               reply == fetch'
    <3> HIDE DEF V, G, reply
    <3>4. /\ V \subseteq unused[q] /\ G \subseteq Answered(q) \cup {f}
          /\ \A g \in G \ {f} : reply[g] = fetch[g]
          /\ f \in G => reply[f].pair \in unused[q] \ V
      BY <3>1, <3>2, <3>3 DEF V, G, reply
    <3>5. Apart(V, others[q], G, RunsTo(q), ToSet(bundle[q].x25519), reply)
      BY <2>1, <3>4 DEF Apart
    <3> QED BY <2>2, <3>5 DEF V, G, reply
  <2> QED BY <2>3, <2>4
<1>12. PinInv'
  BY <1>0, <1>1 DEF PinInv
<1> QED BY <1>7, <1>8, <1>9, <1>10, <1>11, <1>12 DEF SetupInv

LEMMA OthersClaimKeepsInv ==
  ASSUME SetupInv, NEW p \in Peers, OthersClaim(p)
  PROVE  SetupInv'
<1>0. /\ SetupTypeOK /\ BundleInv /\ FetchInv /\ RunInv /\ PairInv /\ PinInv
      /\ unused \in [Peers -> SUBSET Opks] /\ others \in [Peers -> SUBSET Opks]
  BY DEF SetupInv, SetupTypeOK
<1>1. /\ UNCHANGED <<bundle, accepted, fetch>> /\ UNCHANGED <<pending, session, mail, crossed>>
      /\ UNCHANGED <<handlers, current, ready, mismatch, pin, verified>>
  BY DEF OthersClaim, appVars, sessions
<1>2. PICK n \in Opks :
        /\ IF unused[p] = {} THEN n = NoPair ELSE n \in unused[p]
        /\ unused' = [unused EXCEPT ![p] = @ \ {n}]
        /\ others' = [others EXCEPT ![p] = @ \cup {n}]
  BY DEF OthersClaim, Claim
<1>3. n \in unused[p]
  BY <1>2, NoPairIsNone
<1>4. SetupTypeOK'
  BY <1>0, <1>1, <1>2 DEF SetupTypeOK
<1>5. FetchInv' /\ BundleInv' /\ RunInv' /\ PinInv'
  <2>1. FetchInv' /\ BundleInv'
    BY <1>0, <1>1 DEF FetchInv, BundleInv
  <2>2. RunInv'
    BY <1>0, <1>1 DEF RunInv
  <2>3. PinInv'
    BY <1>0, <1>1 DEF PinInv
  <2> QED BY <2>1, <2>2, <2>3
<1>6. PairInv'
  <2> SUFFICES ASSUME ~ crossed, NEW q \in Peers
               PROVE  Apart(unused'[q], others'[q], Answered(q)', RunsTo(q)',
                            ToSet(bundle[q].x25519), fetch)
    BY <1>1 DEF PairInv
  <2>1. Apart(unused[q], others[q], Answered(q), RunsTo(q), ToSet(bundle[q].x25519), fetch)
    BY <1>0 DEF PairInv
  <2>2. RunsTo(q)' = RunsTo(q) /\ Answered(q)' = Answered(q)
    BY <1>1 DEF RunsTo, AllRuns, Answered
  <2>3. CASE q # p
    <3>1. unused'[q] = unused[q] /\ others'[q] = others[q]
      BY <1>0, <1>2, <2>3
    <3> QED BY <2>1, <2>2, <3>1
  <2>4. CASE q = p
    <3>1. unused'[q] = unused[q] \ {n} /\ others'[q] = others[q] \cup {n} /\ n \in unused[q]
      BY <1>0, <1>2, <1>3, <2>4
    <3> QED BY <2>1, <2>2, <3>1, ApartGives
  <2> QED BY <2>3, <2>4
<1> QED BY <1>4, <1>5, <1>6 DEF SetupInv

\* A peer's lists without one number.
LEMMA WithoutProperties ==
  ASSUME NEW b \in [x25519 : Seq(Opks), kem : Seq(Opks)],
         b.kem = b.x25519, IsInjective(b.x25519), NEW n
  PROVE  /\ Without(b, n) \in [x25519 : Seq(Opks), kem : Seq(Opks)]
         /\ Without(b, n).kem = Without(b, n).x25519 /\ IsInjective(Without(b, n).x25519)
         /\ ToSet(Without(b, n).x25519) = ToSet(b.x25519) \ {n}
<1>1. b.x25519 \in Seq(Opks)
  OBVIOUS
<1>2. /\ Drop(b.x25519, n) \in Seq(Opks) /\ IsInjective(Drop(b.x25519, n))
      /\ ToSet(Drop(b.x25519, n)) = ToSet(b.x25519) \ {n}
  BY <1>1, DropProperties
<1> QED BY <1>2 DEF Without

LEMMA OthersArriveKeepsInv ==
  ASSUME SetupInv, NEW p \in Peers, NEW n \in others[p], OthersArrive(p, n)
  PROVE  SetupInv'
<1>0. /\ SetupTypeOK /\ BundleInv /\ FetchInv /\ RunInv /\ PairInv /\ PinInv
      /\ others \in [Peers -> SUBSET Opks]
      /\ bundle \in [Peers -> [x25519 : Seq(Opks), kem : Seq(Opks)]]
  BY DEF SetupInv, SetupTypeOK
<1>1. /\ UNCHANGED <<unused, accepted, fetch>> /\ UNCHANGED <<pending, session, mail, crossed>>
      /\ UNCHANGED <<handlers, current, ready, mismatch, pin, verified>>
      /\ others' = [others EXCEPT ![p] = @ \ {n}]
      /\ bundle' = [bundle EXCEPT ![p] = Without(@, n)]
  BY DEF OthersArrive, appVars, sessions
<1> DEFINE b == Without(bundle[p], n)
<1>2. /\ b \in [x25519 : Seq(Opks), kem : Seq(Opks)]
      /\ b.kem = b.x25519 /\ IsInjective(b.x25519)
      /\ ToSet(b.x25519) = ToSet(bundle[p].x25519) \ {n}
  BY <1>0, WithoutProperties DEF BundleInv
<1>b. bundle' = [bundle EXCEPT ![p] = b]
  BY <1>0, <1>1
<1> HIDE DEF b
<1>3. /\ bundle' \in [Peers -> [x25519 : Seq(Opks), kem : Seq(Opks)]]
      /\ bundle'[p] = b /\ \A q \in Peers \ {p} : bundle'[q] = bundle[q]
  BY <1>0, <1>b, <1>2
<1>4. SetupTypeOK'
  BY <1>0, <1>1, <1>3 DEF SetupTypeOK
<1>5. FetchInv' /\ BundleInv' /\ RunInv' /\ PinInv'
  <2>1. FetchInv' /\ BundleInv'
    BY <1>0, <1>1, <1>2, <1>3 DEF FetchInv, BundleInv
  <2>2. RunInv'
    BY <1>0, <1>1 DEF RunInv
  <2>3. PinInv'
    BY <1>0, <1>1 DEF PinInv
  <2> QED BY <2>1, <2>2, <2>3
<1>6. PairInv'
  <2> SUFFICES ASSUME ~ crossed, NEW q \in Peers
               PROVE  Apart(unused[q], others'[q], Answered(q)', RunsTo(q)',
                            ToSet(bundle'[q].x25519), fetch)
    BY <1>1 DEF PairInv
  <2>1. Apart(unused[q], others[q], Answered(q), RunsTo(q), ToSet(bundle[q].x25519), fetch)
    BY <1>0 DEF PairInv
  <2>2. RunsTo(q)' = RunsTo(q) /\ Answered(q)' = Answered(q)
    BY <1>1 DEF RunsTo, AllRuns, Answered
  <2>3. CASE q # p
    <3>1. bundle'[q] = bundle[q] /\ others'[q] = others[q]
      BY <1>0, <1>1, <1>3, <2>3
    <3> QED BY <2>1, <2>2, <3>1
  <2>4. CASE q = p
    <3>1. /\ others'[q] = others[q] \ {n} /\ n \in others[q]
          /\ ToSet(bundle'[q].x25519) = ToSet(bundle[q].x25519) \ {n}
      BY <1>0, <1>1, <1>2, <1>3, <2>4
    <3> QED BY <2>1, <2>2, <3>1, ApartLoses
  <2> QED BY <2>3, <2>4
<1> QED BY <1>4, <1>5, <1>6 DEF SetupInv


LEMMA FirstArrivesKeepsInv ==
  ASSUME SetupInv, NEW m \in mail, FirstArrives(m)
  PROVE  SetupInv'
<1>0. /\ SetupTypeOK /\ BundleInv /\ FetchInv /\ RunInv /\ PairInv /\ PinInv
      /\ bundle \in [Peers -> [x25519 : Seq(Opks), kem : Seq(Opks)]]
      /\ accepted \in [Peers -> SUBSET Runs]
      /\ m.to \in Peers /\ m.run \in Runs /\ m = [to |-> m.to, run |-> m.run]
  BY DEF SetupInv, SetupTypeOK
<1>1. /\ UNCHANGED <<unused, others, fetch, pending, session, crossed>>
      /\ UNCHANGED <<handlers, current, ready, mismatch, pin, verified>>
      /\ mail' = mail \ {m}
  BY DEF FirstArrives, appVars
<1> DEFINE p == m.to
           n == m.run.pair
           b == Without(bundle[p], n)
<1>2. /\ b \in [x25519 : Seq(Opks), kem : Seq(Opks)]
      /\ b.kem = b.x25519 /\ IsInjective(b.x25519)
      /\ ToSet(b.x25519) = ToSet(bundle[p].x25519) \ {n}
  BY <1>0, WithoutProperties DEF BundleInv
<1>3. \/ bundle' = [bundle EXCEPT ![p] = b]
      \/ bundle' = bundle /\ ~ CanRespond(bundle[p], m.run)
  BY <1>0 DEF FirstArrives
<1>4. accepted' \in [Peers -> SUBSET Runs]
  <2>1. accepted' = accepted \/ accepted' = [accepted EXCEPT ![p] =
          IF Respond(p, m.run) = m.run THEN accepted[p] \cup {m.run} ELSE accepted[p]]
    BY <1>0 DEF FirstArrives
  <2>2. accepted[p] \in SUBSET Runs /\ accepted[p] \cup {m.run} \in SUBSET Runs
    BY <1>0
  <2> HIDE DEF p
  <2> QED BY <1>0, <2>1, <2>2
<1> HIDE DEF b, p, n
<1>5. /\ bundle' \in [Peers -> [x25519 : Seq(Opks), kem : Seq(Opks)]]
      /\ bundle'[p] \in {b, bundle[p]} /\ \A q \in Peers \ {p} : bundle'[q] = bundle[q]
      /\ bundle'[p] = b \/ ~ CanRespond(bundle[p], m.run)
  BY <1>0, <1>2, <1>3 DEF p
<1>6. SetupTypeOK'
  BY <1>0, <1>1, <1>4, <1>5 DEF SetupTypeOK
<1>7. FetchInv' /\ BundleInv' /\ RunInv' /\ PinInv'
  <2>1. FetchInv' /\ BundleInv'
    BY <1>0, <1>1, <1>2, <1>5 DEF FetchInv, BundleInv
  <2>2. RunInv'
    BY <1>0, <1>1 DEF RunInv
  <2>3. PinInv'
    BY <1>0, <1>1 DEF PinInv
  <2> QED BY <2>1, <2>2, <2>3
<1>8. PairInv'
  <2> SUFFICES ASSUME ~ crossed, NEW q \in Peers
               PROVE  Apart(unused[q], others[q], Answered(q)', RunsTo(q)',
                            ToSet(bundle'[q].x25519), fetch)
    BY <1>1 DEF PairInv
  <2>1. Apart(unused[q], others[q], Answered(q), RunsTo(q), ToSet(bundle[q].x25519), fetch)
    BY <1>0 DEF PairInv
  <2>2. Answered(q)' = Answered(q)
    BY <1>1 DEF Answered
  <2>3. RunsTo(q)' \subseteq RunsTo(q) \ {m}
    <3>1. ASSUME NEW r \in AllRuns' PROVE r \in AllRuns \ {m}
      <4>1. r \in mail \ {m} \/ \E s \in Peers : pending[s] # NoRun
                                                 /\ r = [to |-> s, run |-> pending[s]]
        BY <3>1, <1>1 DEF AllRuns
      <4>2. \A s \in Peers : [to |-> s, run |-> pending[s]] # m
        BY <1>0 DEF RunInv
      <4> QED BY <4>1, <4>2, RunsThereAre
    <3> QED BY <3>1 DEF RunsTo
  <2>4. CASE q # p
    <3>1. bundle'[q] = bundle[q]
      BY <1>5, <2>4
    <3> QED BY <2>1, <2>2, <2>3, <3>1, ApartShrinks
  <2>5. CASE q = p
    <3>1. m \in AllRuns
      BY <1>0, RunsThereAre
    <3>2. CASE n = NoPair
      <4>1. ToSet(bundle'[q].x25519) = ToSet(bundle[q].x25519)
        <5>1. ToSet(bundle[p].x25519) \subseteq Opks
          <6>1. bundle[p].x25519 \in Seq(Opks)
            BY <1>0 DEF p
          <6>2. \A i \in DOMAIN bundle[p].x25519 : bundle[p].x25519[i] \in Opks
            BY <6>1, LenProperties, ElementOfSeq
          <6> QED BY <6>2 DEF ToSet
        <5> QED BY <5>1, <3>2, <1>2, <1>5, <2>5, NoPairIsNone
      <4> QED BY <4>1, <2>1, <2>2, <2>3, ApartShrinks
    <3>3. CASE n # NoPair
      <4>1. m \in RunsTo(q)
        BY <3>1, <3>3, <2>5 DEF RunsTo, n, p
      <4>2. n \in ToSet(bundle[p].x25519)
        BY <2>1, <2>5, <4>1 DEF Apart, n
      <4>3. CanRespond(bundle[p], m.run)
        BY <4>2, <1>0 DEF CanRespond, n, p, BundleInv
      <4>4. ToSet(bundle'[q].x25519) = ToSet(bundle[q].x25519) \ {m.run.pair}
        BY <4>3, <1>2, <1>5, <2>5 DEF n
      <4>5. Apart(unused[q], others[q], Answered(q), RunsTo(q)', ToSet(bundle'[q].x25519), fetch)
        BY <2>1, <2>3, <4>1, <4>4, ApartConsumes
      <4> QED BY <4>5, <2>2
    <3> QED BY <3>2, <3>3
  <2> QED BY <2>4, <2>5
<1> QED BY <1>6, <1>7, <1>8 DEF SetupInv

-------------------------------------------------------------------------------
(* A bundle arrives *)

LEMMA BundleArrivesKeepsInv ==
  ASSUME SetupInv, NEW f \in Fetches, BundleArrives(f)
  PROVE  SetupInv'
<1> DEFINE q == fetch[f].who
           r(p) == Initiate(<<f, p>>, Offer(f))
           b == [NoFetch EXCEPT !.pc = "over"]
<1>0. /\ SetupTypeOK /\ BundleInv /\ FetchInv /\ RunInv /\ PairInv /\ PinInv
      /\ fetch \in [Fetches -> Fetch] /\ fetch[f] \in Fetch
      /\ handlers \subseteq Peers
  BY TypesOf DEF SetupInv, SetupTypeOK
<1>1. /\ UNCHANGED <<unused, bundle, accepted, others, current, session, mail>>
      /\ fetch[f].pc = "answered" /\ handlers' = {}
      /\ crossed' = (crossed \/ \E p \in handlers : p # q)
  BY DEF BundleArrives, peerVars
<1>2. b \in Fetch /\ b.pc = "over"
  BY NoFetchTyped DEF Fetch, NoFetch
<1>3. fetch' = [fetch EXCEPT ![f] = b]
  BY DEF BundleArrives
<1>4. PICK ok \in BOOLEAN :
        /\ pending' = [p \in Peers |-> IF p \in handlers /\ ok /\ Parses(Offer(f))
                                       THEN r(p) ELSE pending[p]]
        /\ ready' = IF current \in handlers THEN ok /\ Trusted(current, q) ELSE ready
  BY DEF BundleArrives, SetUp
<1>5. /\ mismatch' = IF current \in handlers THEN ~ Trusted(current, q) ELSE mismatch
      /\ pin' = [p \in Peers |-> IF p \in handlers /\ pin[p] = Nobody THEN q ELSE pin[p]]
      /\ verified' = [p \in Peers |-> IF p \in handlers
                                      THEN pin[p] = Nobody \/ (verified[p] /\ pin[p] = q)
                                      ELSE verified[p]]
  BY DEF BundleArrives
<1>q. q \in Peers
  BY <1>0, <1>1 DEF FetchInv
<1>6. \A p \in Peers : /\ r(p) \in Runs /\ r(p).ephemeral = <<f, p>>
                       /\ r(p).with = q /\ r(p).pair = fetch[f].pair
  BY <1>0, <1>q, RunMade
<1> HIDE DEF b, q, r
<1>7. /\ fetch' \in [Fetches -> Fetch] /\ fetch'[f] = b
      /\ \A g \in Fetches \ {f} : fetch'[g] = fetch[g]
  BY <1>0, <1>2, <1>3
<1>8. \A p \in Peers : pending'[p] = pending[p] \/ (p \in handlers /\ pending'[p] = r(p))
  BY <1>4
<1>9. SetupTypeOK'
  <2>1. pending' \in [Peers -> Runs \cup {NoRun}]
    BY <1>0, <1>4, <1>6 DEF SetupTypeOK
  <2>2. pin' \in [Peers -> Peers \cup {Nobody}]
    BY <1>0, <1>5, <1>q DEF SetupTypeOK
  <2>3. verified' \in [Peers -> BOOLEAN]
    BY <1>0, <1>5 DEF SetupTypeOK
  <2>4. ready' \in BOOLEAN /\ mismatch' \in BOOLEAN /\ crossed' \in BOOLEAN
    BY <1>0, <1>1, <1>4, <1>5 DEF SetupTypeOK, Trusted
  <2> QED BY <2>1, <2>2, <2>3, <2>4, <1>0, <1>1, <1>7 DEF SetupTypeOK, Fetch
<1>10. BundleInv' /\ FetchInv'
  BY <1>0, <1>1, <1>2, <1>7 DEF BundleInv, FetchInv
<1>11. RunInv'
  <2>1. \A g \in Fetches : fetch[g].pc = "over" => fetch'[g].pc = "over"
    BY <1>2, <1>7
  <2>2. /\ \A p \in Peers : pending[p] # NoRun => pending[p].ephemeral[1] \in Fetches
        /\ \A m \in mail : m.run.ephemeral[1] \in Fetches
    BY <1>0 DEF SetupTypeOK, Runs
  <2>3. \A p \in Peers : r(p).ephemeral[1] = f
    BY <1>6
  <2>4. ASSUME NEW p \in Peers, pending'[p] # NoRun
        PROVE  fetch'[pending'[p].ephemeral[1]].pc = "over"
    <3>1. CASE pending'[p] = pending[p]
      BY <3>1, <2>1, <2>2, <2>4, <1>0 DEF RunInv
    <3>2. CASE pending'[p] = r(p)
      BY <3>2, <2>3, <1>2, <1>7
    <3> QED BY <3>1, <3>2, <1>8
  <2>5. \A m \in mail : fetch'[m.run.ephemeral[1]].pc = "over"
    BY <2>1, <2>2, <1>0 DEF RunInv
  <2>6. ASSUME NEW p \in Peers
        PROVE  [to |-> p, run |-> pending'[p]] \notin mail
    <3>1. CASE pending'[p] = pending[p]
      BY <3>1, <1>0 DEF RunInv
    <3>2. CASE pending'[p] = r(p)
      <4>1. ASSUME [to |-> p, run |-> r(p)] \in mail PROVE FALSE
        <5>1. fetch[[to |-> p, run |-> r(p)].run.ephemeral[1]].pc = "over"
          BY <4>1, <1>0 DEF RunInv
        <5>2. [to |-> p, run |-> r(p)].run.ephemeral[1] = f
          BY <2>3
        <5> QED BY <5>1, <5>2, <1>1
      <4> QED BY <4>1, <3>2
    <3> QED BY <3>1, <3>2, <1>8
  <2> QED BY <2>4, <2>5, <2>6, <1>1 DEF RunInv
<1>12. ASSUME ~ crossed'
       PROVE  ~ crossed /\ \A p \in handlers : p = q
  BY <1>12, <1>1
<1>13. PairInv'
  <2> SUFFICES ASSUME ~ crossed', NEW p \in Peers
               PROVE  Apart(unused[p], others[p], Answered(p)', RunsTo(p)',
                            ToSet(bundle[p].x25519), fetch')
    BY <1>1 DEF PairInv
  <2>1. Apart(unused[p], others[p], Answered(p), RunsTo(p), ToSet(bundle[p].x25519), fetch)
    BY <1>0, <1>12 DEF PairInv
  <2> DEFINE m == [to |-> p, run |-> r(p)]
  <2>2. Answered(p)' \subseteq Answered(p) \ {f} /\ \A g \in Answered(p)' : fetch'[g] = fetch[g]
    BY <1>2, <1>7 DEF Answered
  <2>3. RunsTo(p)' \subseteq RunsTo(p) \cup {m}
    <3>1. ASSUME NEW s \in AllRuns', s.to = p PROVE s \in AllRuns \cup {m}
      <4>1. s \in mail \/ \E t \in Peers : pending'[t] # NoRun
                                            /\ s = [to |-> t, run |-> pending'[t]]
        BY <3>1, <1>1 DEF AllRuns
      <4>2. ASSUME NEW t \in Peers, pending'[t] # NoRun, s = [to |-> t, run |-> pending'[t]]
            PROVE  s \in AllRuns \cup {m}
        <5>1. t = p
          BY <3>1, <4>2
        <5> QED BY <5>1, <4>2, <1>8, RunsThereAre
      <4> QED BY <4>1, <4>2, RunsThereAre
    <3> QED BY <3>1 DEF RunsTo
  <2>4. m.run.pair = fetch[f].pair
    BY <1>6
  <2>5. CASE p = q
    <3>1. m \in RunsTo(p)' => f \in Answered(p)
      BY <2>4, <2>5, <1>1 DEF RunsTo, Answered, q
    <3> HIDE DEF m
    <3> QED BY <2>1, <2>2, <2>3, <2>4, <3>1, ApartRuns
  <2>6. CASE p # q
    <3>1. pending'[p] = pending[p]
      BY <2>6, <1>8, <1>12
    <3>2. RunsTo(p)' \subseteq RunsTo(p)
      <4>1. ASSUME NEW s \in AllRuns', s.to = p PROVE s \in AllRuns
        <5>1. s \in mail \/ \E t \in Peers : pending'[t] # NoRun
                                              /\ s = [to |-> t, run |-> pending'[t]]
          BY <4>1, <1>1 DEF AllRuns
        <5>2. ASSUME NEW t \in Peers, pending'[t] # NoRun, s = [to |-> t, run |-> pending'[t]]
              PROVE  s \in AllRuns
          <6>1. t = p
            BY <4>1, <5>2
          <6> QED BY <6>1, <5>2, <3>1, RunsThereAre
        <5> QED BY <5>1, <5>2, RunsThereAre
      <4> QED BY <4>1 DEF RunsTo
    <3> QED BY <2>1, <2>2, <3>2, ApartShrinks
  <2> QED BY <2>5, <2>6
<1>14. PinInv'
  <2> SUFFICES ASSUME ~ crossed', NEW p \in Peers
               PROVE  /\ pin'[p] \in {Nobody, p} /\ (pin'[p] = p => verified'[p] = TRUE)
                      /\ pending'[p] # NoRun => pending'[p].with = p /\ pin'[p] = p
                      /\ session'[p] # NoRun => session'[p].with = p /\ pin'[p] = p
    BY DEF PinInv
  <2>1. /\ pin[p] \in {Nobody, p} /\ (pin[p] = p => verified[p] = TRUE)
        /\ pending[p] # NoRun => pending[p].with = p /\ pin[p] = p
        /\ session[p] # NoRun => session[p].with = p /\ pin[p] = p
    BY <1>0, <1>12 DEF PinInv
  <2>2. CASE p \notin handlers
    BY <2>1, <2>2, <1>1, <1>5, <1>8
  <2>3. CASE p \in handlers
    <3>1. p = q
      BY <2>3, <1>12
    <3>2. pin'[p] = p
      BY <2>1, <2>3, <3>1, <1>5
    <3>3. verified'[p] = (pin[p] = Nobody \/ (verified[p] /\ pin[p] = q))
      BY <2>3, <1>5
    <3>4. verified'[p] = TRUE
      BY <3>1, <3>3, <2>1
    <3>5. pending'[p].with = p \/ pending'[p] = pending[p]
      BY <3>1, <1>6, <1>8
    <3>6. session'[p] = session[p]
      BY <1>1
    <3> QED BY <3>1, <3>2, <3>4, <3>5, <3>6, <2>1
  <2> QED BY <2>2, <2>3
<1> QED BY <1>9, <1>10, <1>11, <1>13, <1>14 DEF SetupInv

-------------------------------------------------------------------------------
(* The invariant, and the properties *)

LEMMA SetupInvariant == SetupSpec => []SetupInv
<1>1. SetupInit => SetupInv
  BY InitInv
<1>2. SetupInv /\ [SetupNext]_setupVars => SetupInv'
  <2> SUFFICES ASSUME SetupInv, [SetupNext]_setupVars PROVE SetupInv'
    OBVIOUS
  <2>1. CASE UNCHANGED setupVars
    <3>1. /\ UNCHANGED <<unused, bundle, accepted, others, fetch, handlers, current, ready>>
          /\ UNCHANGED <<mismatch, pin, verified, pending, session, mail, crossed>>
      BY <2>1 DEF setupVars, peerVars, appVars, sessions
    <3>2. SetupTypeOK' /\ BundleInv' /\ FetchInv'
      BY <3>1 DEF SetupInv, SetupTypeOK, BundleInv, FetchInv
    <3>3. RunInv' /\ PinInv'
      BY <3>1 DEF SetupInv, RunInv, PinInv
    <3>4. PairInv'
      BY <3>1 DEF SetupInv, PairInv, Answered, RunsTo, AllRuns
    <3> QED BY <3>2, <3>3, <3>4 DEF SetupInv
  <2>2. ASSUME NEW p \in Peers, OpenWaiting(p) \/ OpenWithSession(p) \/ OpenWithout(p)
        PROVE  SetupInv'
    BY <2>2, OpenKeepsInv
  <2>3. ASSUME NEW p \in Peers, Reinitiate(p) PROVE SetupInv'
    BY <2>3, ReinitiateKeepsInv
  <2>4. ASSUME NEW p \in Peers, SendFirst(p) PROVE SetupInv'
    BY <2>4, SendFirstKeepsInv
  <2>5. ASSUME NEW p \in Peers, OthersClaim(p) PROVE SetupInv'
    BY <2>5, OthersClaimKeepsInv
  <2>6. ASSUME NEW p \in Peers, NEW n \in others[p], OthersArrive(p, n) PROVE SetupInv'
    BY <2>6, OthersArriveKeepsInv
  <2>7. ASSUME NEW f \in Fetches, Serve(f) PROVE SetupInv'
    BY <2>7, ServeKeepsInv
  <2>8. ASSUME NEW f \in Fetches, BundleArrives(f) PROVE SetupInv'
    BY <2>8, BundleArrivesKeepsInv
  <2>9. ASSUME NEW f \in Fetches, BundleFails(f) PROVE SetupInv'
    BY <2>9, BundleFailsKeepsInv
  <2>10. ASSUME NEW m \in mail, FirstArrives(m) PROVE SetupInv'
    BY <2>10, FirstArrivesKeepsInv
  <2>11. CASE Restart
    BY <2>11, RestartKeepsInv
  <2> QED BY <2>1, <2>2, <2>3, <2>4, <2>5, <2>6, <2>7, <2>8, <2>9, <2>10, <2>11 DEF SetupNext
<1> QED BY <1>1, <1>2, PTL DEF SetupSpec

\* What the app, the server and the peers keep has its types, for any number of peers,
\* pairs and fetches.
THEOREM SetupTypes == SetupSpec => []SetupTypeOK
<1>1. SetupInv => SetupTypeOK
  BY DEF SetupInv
<1> QED BY <1>1, SetupInvariant, PTL

\* A run is with the peer of its conversation, whose fingerprint is pinned and who is
\* verified, until bundles have crossed.
THEOREM PinnedSessions == SetupSpec => []SessionsArePinned
<1>1. SetupInv => SessionsArePinned
  BY DEF SetupInv, PinInv, SessionsArePinned, Run
<1> QED BY <1>1, SetupInvariant, PTL

LEMMA SameSize ==
  ASSUME NEW S, NEW T, IsFiniteSet(T), NEW h \in [S -> T],
         IsInjective(h), \A t \in T : \E x \in S : h[x] = t
  PROVE  IsFiniteSet(S) /\ Cardinality(S) = Cardinality(T)
<1>1. h \in Injection(S, T) /\ h \in Surjection(S, T)
  BY DEF Injection, Surjection
<1> QED BY <1>1, FS_Injection

LEMMA OpksAreFinite == IsFiniteSet(Opks) /\ Cardinality(Opks) = OpkCount
<1>1. 1 \in Int /\ OpkCount \in Int /\ (IF 1 > OpkCount THEN 0 ELSE OpkCount - 1 + 1) = OpkCount
  OBVIOUS
<1> QED BY <1>1, FS_Interval DEF Opks

LEMMA ThreeApart ==
  ASSUME NEW S, NEW T, NEW V, IsFiniteSet(S), IsFiniteSet(T), IsFiniteSet(V),
         S \cap T = {}, S \cap V = {}, T \cap V = {}
  PROVE  Cardinality(S \cup T \cup V) = Cardinality(S) + Cardinality(T) + Cardinality(V)
<1>1. /\ IsFiniteSet(S \cup T)
      /\ Cardinality(S \cup T) = Cardinality(S) + Cardinality(T) - Cardinality(S \cap T)
  BY FS_Union
<1>2. Cardinality((S \cup T) \cup V)
        = Cardinality(S \cup T) + Cardinality(V) - Cardinality((S \cup T) \cap V)
  BY <1>1, FS_Union
<1>3. Cardinality(S \cap T) = 0 /\ Cardinality((S \cup T) \cap V) = 0
  <2>1. S \cap T = {} /\ (S \cup T) \cap V = {}
    OBVIOUS
  <2> QED BY <2>1, FS_EmptySet
<1>4. /\ Cardinality(S) \in Nat /\ Cardinality(T) \in Nat /\ Cardinality(V) \in Nat
      /\ Cardinality(S \cup T) \in Nat
  BY <1>1, FS_CardinalityType
<1> QED BY <1>1, <1>2, <1>3, <1>4

\* The pairs the server still offers, those under way and those given to others are different,
\* and their owner has the secrets of all of them, for any number of peers, pairs and fetches.
THEOREM EachPairOnce == SetupSpec => []PairsServeOnce
<1>1. SetupInv => PairsServeOnce
  <2> SUFFICES ASSUME SetupInv, ~ crossed, NEW p \in Peers
               PROVE
      LET mine == Answered(p)
          runs == RunsTo(p)
          used == others[p] \cup {m.run.pair : m \in runs} \cup {fetch[f].pair : f \in mine}
      IN  /\ Cardinality(used) = Cardinality(others[p]) + Cardinality(runs) + Cardinality(mine)
          /\ used \cap unused[p] = {}
          /\ used \cup unused[p] \subseteq ToSet(bundle[p].x25519) \cap ToSet(bundle[p].kem)
    BY DEF PairsServeOnce, Answered, RunsTo
  <2> DEFINE O == others[p]
             R == RunsTo(p)
             F == Answered(p)
             A == {m.run.pair : m \in R}
             C == {fetch[f].pair : f \in F}
             B == ToSet(bundle[p].x25519)
  <2>1. Apart(unused[p], O, F, R, B, fetch) /\ ToSet(bundle[p].kem) = B
    BY DEF SetupInv, PairInv, BundleInv
  <2>2. B \subseteq Opks
    <3>1. bundle[p].x25519 \in Seq(Opks)
      BY TypesOf DEF SetupInv
    <3>2. \A i \in DOMAIN bundle[p].x25519 : bundle[p].x25519[i] \in Opks
      BY <3>1, LenProperties, ElementOfSeq
    <3> QED BY <3>2 DEF ToSet
  <2> HIDE DEF O, R, F, B
  <2>3. /\ O \subseteq B /\ A \subseteq B /\ C \subseteq B
        /\ O \cap A = {} /\ O \cap C = {} /\ A \cap C = {}
        /\ O \cap unused[p] = {} /\ A \cap unused[p] = {} /\ C \cap unused[p] = {}
        /\ unused[p] \subseteq B
    BY <2>1 DEF Apart
  <2>4. IsFiniteSet(O) /\ IsFiniteSet(A) /\ IsFiniteSet(C)
    <3>1. O \in SUBSET Opks /\ A \in SUBSET Opks /\ C \in SUBSET Opks
      BY <2>2, <2>3
    <3> QED BY <3>1, OpksAreFinite, FS_Subset
  <2>5. Cardinality(R) = Cardinality(A)
    <3> DEFINE h == [m \in R |-> m.run.pair]
    <3>1. h \in [R -> A] /\ \A a \in A : \E m \in R : h[m] = a
      OBVIOUS
    <3>2. IsInjective(h)
      BY <2>1 DEF Apart, IsInjective
    <3> HIDE DEF h, A
    <3> QED BY <3>1, <3>2, <2>4, SameSize
  <2>6. Cardinality(F) = Cardinality(C)
    <3> DEFINE h == [f \in F |-> fetch[f].pair]
    <3>1. h \in [F -> C] /\ \A c \in C : \E f \in F : h[f] = c
      OBVIOUS
    <3>2. IsInjective(h)
      BY <2>1 DEF Apart, IsInjective
    <3> HIDE DEF h, C
    <3> QED BY <3>1, <3>2, <2>4, SameSize
  <2> HIDE DEF A, C
  <2>7. Cardinality(O \cup A \cup C) = Cardinality(O) + Cardinality(R) + Cardinality(F)
    BY <2>3, <2>4, <2>5, <2>6, ThreeApart
  <2>8. /\ (O \cup A \cup C) \cap unused[p] = {}
        /\ (O \cup A \cup C) \cup unused[p] \subseteq B \cap ToSet(bundle[p].kem)
    BY <2>1, <2>3
  <2> QED BY <2>7, <2>8 DEF O, A, C, R, F, B
<1> QED BY <1>1, SetupInvariant, PTL

-------------------------------------------------------------------------------
(* Replenishing *)

LEMMA InjectiveListSize ==
  ASSUME NEW S, NEW l \in Seq(S), IsInjective(l)
  PROVE  IsFiniteSet(ToSet(l)) /\ Cardinality(ToSet(l)) = Len(l)
<1> DEFINE D == 1 .. Len(l)
<1>1. Len(l) \in Nat /\ DOMAIN l = D /\ l \in [D -> S]
  BY LenProperties
<1>2. IsFiniteSet(D) /\ Cardinality(D) = Len(l)
  <2>1. 1 \in Int /\ Len(l) \in Int /\ (IF 1 > Len(l) THEN 0 ELSE Len(l) - 1 + 1) = Len(l)
    BY <1>1
  <2> QED BY <2>1, FS_Interval
<1>3. l \in [D -> ToSet(l)] /\ \A t \in ToSet(l) : \E x \in D : l[x] = t
  BY <1>1 DEF ToSet
<1>4. l \in Surjection(D, ToSet(l)) /\ l \in Injection(D, ToSet(l))
  BY <1>3 DEF Surjection, Injection
<1> HIDE DEF D
<1> QED BY <1>2, <1>4, FS_Surjection

LEMMA ListIsNoLonger ==
  ASSUME NEW l \in Seq(Opks), IsInjective(l)
  PROVE  Len(l) <= OpkCount
<1>1. ToSet(l) \in SUBSET Opks
  BY LenProperties, ElementOfSeq DEF ToSet
<1>2. Cardinality(ToSet(l)) <= Cardinality(Opks)
  BY <1>1, OpksAreFinite, FS_Subset
<1> QED BY <1>2, OpksAreFinite, InjectiveListSize

\* Two lists without a common number, one after the other.
LEMMA JoinedLists ==
  ASSUME NEW l \in Seq(Nat), NEW c \in Seq(Nat), IsInjective(l), IsInjective(c),
         \A i \in 1 .. Len(l), j \in 1 .. Len(c) : l[i] # c[j]
  PROVE  l \o c \in Seq(Nat) /\ Len(l \o c) = Len(l) + Len(c) /\ IsInjective(l \o c)
<1> DEFINE N == Len(l)
           K == Len(c)
<1>1. N \in Nat /\ DOMAIN l = 1 .. N /\ K \in Nat /\ DOMAIN c = 1 .. K
  BY LenProperties
<1>2. /\ l \o c \in Seq(Nat) /\ Len(l \o c) = N + K
      /\ \A i \in 1 .. N + K : (l \o c)[i] = IF i <= N THEN l[i] ELSE c[i - N]
  BY ConcatProperties
<1>3. DOMAIN (l \o c) = 1 .. N + K
  BY <1>2, LenProperties
<1>4. IsInjective(l \o c)
  <2> SUFFICES ASSUME NEW i \in 1 .. N + K, NEW j \in 1 .. N + K, (l \o c)[i] = (l \o c)[j]
               PROVE  i = j
    BY <1>3 DEF IsInjective
  <2>1. \A x, y \in 1 .. N : l[x] = l[y] => x = y
    BY <1>1 DEF IsInjective
  <2>2. \A x, y \in 1 .. K : c[x] = c[y] => x = y
    BY <1>1 DEF IsInjective
  <2> DEFINE s == l \o c
  <2>3. s[i] = (IF i <= N THEN l[i] ELSE c[i - N]) /\ s[j] = (IF j <= N THEN l[j] ELSE c[j - N])
        /\ s[i] = s[j]
    BY <1>2
  <2> HIDE DEF N, K, s
  <2>4. \A x \in 1 .. N, y \in 1 .. K : l[x] # c[y]
    BY DEF N, K
  <2>5. CASE i <= N /\ j <= N
    BY <2>1, <2>3, <2>5, <1>1
  <2>6. CASE ~ (i <= N) /\ ~ (j <= N)
    <3>1. i - N \in 1 .. K /\ j - N \in 1 .. K
      BY <2>6, <1>1
    <3>2. c[i - N] = c[j - N]
      BY <2>3, <2>6
    <3>3. i - N = j - N
      BY <2>2, <3>1, <3>2
    <3> QED BY <3>3, <1>1
  <2>7. CASE i <= N /\ ~ (j <= N)
    <3>1. i \in 1 .. N /\ j - N \in 1 .. K
      BY <2>7, <1>1
    <3> QED BY <3>1, <2>3, <2>4, <2>7
  <2>8. CASE ~ (i <= N) /\ j <= N
    <3>1. j \in 1 .. N /\ i - N \in 1 .. K
      BY <2>8, <1>1
    <3> QED BY <3>1, <2>3, <2>4, <2>8
  <2> QED BY <2>5, <2>6, <2>7, <2>8
<1> QED BY <1>2, <1>4

Less == {p \in Nat \X Nat : p[1] < p[2]}

LEMMA LeastNatural ==
  ASSUME NEW S, S \subseteq Nat, S # {}
  PROVE  \E n \in S : \A m \in S : n <= m
<1>0. IsWellFoundedOn(Less, Nat)
  BY NatLessThanWellFounded DEF OpToRel, Less
<1>1. PICK x \in S : \A y \in S : ~ (<<y, x>> \in Less)
  BY <1>0, WFMin
<1>2. ASSUME NEW y \in S PROVE x <= y
  <2>1. <<y, x>> \in Nat \X Nat /\ ~ (<<y, x>> \in Less)
    BY <1>1
  <2>2. ~ (<<y, x>>[1] < <<y, x>>[2])
    BY <2>1 DEF Less
  <2> QED BY <2>2
<1> QED BY <1>2

\* The highest number of a bundle that is not empty.
LEMMA HighestIsHighest ==
  ASSUME NEW b, Numbers(b) \subseteq Opks, Numbers(b) # {}
  PROVE  Highest(b) \in Numbers(b) /\ \A m \in Numbers(b) : m <= Highest(b)
<1> DEFINE S == Numbers(b)
           D == {OpkCount - x : x \in S}
<1>1. \A x \in S : OpkCount - x \in Nat
  BY DEF Opks
<1>2. D \subseteq Nat /\ D # {}
  BY <1>1
<1>3. PICK d \in D : \A e \in D : d <= e
  BY <1>2, LeastNatural
<1>4. PICK x \in S : d = OpkCount - x
  OBVIOUS
<1>5. ASSUME NEW y \in S PROVE y <= x
  <2>1. d <= OpkCount - y
    BY <1>3
  <2>2. x \in Opks /\ y \in Opks
    OBVIOUS
  <2> HIDE DEF D, S
  <2> QED BY <1>4, <2>1, <2>2 DEF Opks
<1> HIDE DEF D
<1>6. \E n \in Numbers(b) : \A m \in Numbers(b) : m <= n
  BY <1>5
<1> QED BY <1>6 DEF Highest

\* Whatever a peer's lists have come to, replenishing makes OpkCount pairs of them, for any
\* OpkCount.
THEOREM Replenishes == SetupSpec => []ReplenishesToTarget
<1>1. SetupInv => ReplenishesToTarget
  <2> SUFFICES ASSUME SetupInv, NEW p \in Peers
               PROVE
      LET new == Replenished(bundle[p])
          sum == [x25519 |-> bundle[p].x25519 \o new.x25519, kem |-> bundle[p].kem \o new.kem]
      IN  ListsValid(sum) /\ Len(sum.x25519) = OpkCount /\ Cardinality(Numbers(sum)) = OpkCount
    BY DEF ReplenishesToTarget
  <2> DEFINE b == bundle[p]
             l == b.x25519
             N == Len(l)
             new == Replenished(b)
             sum == [x25519 |-> b.x25519 \o new.x25519, kem |-> b.kem \o new.kem]
  <2>1. l \in Seq(Opks) /\ b.kem = l /\ IsInjective(l)
    BY TypesOf DEF SetupInv, BundleInv
  <2>2. N \in Nat /\ N <= OpkCount /\ DOMAIN l = 1 .. N /\ \A i \in 1 .. N : l[i] \in Opks
    BY <2>1, ListIsNoLonger, LenProperties, ElementOfSeq
  <2>3. Numbers(b) = ToSet(l) /\ ToSet(l) = {l[i] : i \in 1 .. N}
    BY <2>1, <2>2 DEF Numbers, ToSet
  <2>4. \E s \in Nat \ {0} : /\ new = Pairs(OpkCount - N, s)
                            /\ \A i \in 1 .. N : l[i] < s \/ N = OpkCount
    <3>1. CASE l = <<>>
      <4>1. N = 0 /\ IsEmptyBundle(b)
        BY <3>1, <2>1 DEF IsEmptyBundle
      <4>2. new = Pairs(OpkCount - N, 1)
        BY <4>1 DEF Replenished
      <4> QED BY <4>1, <4>2
    <3>2. CASE l # <<>> /\ N >= OpkCount
      <4>1. N = OpkCount /\ ~ IsEmptyBundle(b)
        BY <3>2, <2>2 DEF IsEmptyBundle
      <4>2. new = Pairs(OpkCount - N, 1)
        BY <4>1, <3>2 DEF Replenished
      <4> QED BY <4>1, <4>2
    <3>3. CASE l # <<>> /\ ~ (N >= OpkCount)
      <4>1. ~ IsEmptyBundle(b) /\ N > 0
        BY <3>3, <2>1, EmptySeq DEF IsEmptyBundle
      <4>2. new = Pairs(OpkCount - N, Highest(b) + 1)
        BY <3>3, <4>1 DEF Replenished
      <4>3. Numbers(b) \subseteq Opks /\ l[1] \in Numbers(b)
        BY <2>2, <2>3, <4>1
      <4>4. Highest(b) \in Numbers(b) /\ \A m \in Numbers(b) : m <= Highest(b)
        BY <4>3, HighestIsHighest
      <4>5. Highest(b) \in Nat /\ \A i \in 1 .. N : l[i] \in Nat /\ l[i] <= Highest(b)
        BY <4>3, <4>4, <2>2, <2>3 DEF Opks
      <4>6. Highest(b) + 1 \in Nat \ {0} /\ \A i \in 1 .. N : l[i] < Highest(b) + 1
        BY <4>5
      <4> QED BY <4>2, <4>6
    <3> QED BY <3>1, <3>2, <3>3
  <2>5. PICK s \in Nat \ {0} :
          new = Pairs(OpkCount - N, s) /\ \A i \in 1 .. N : l[i] < s \/ N = OpkCount
    BY <2>4
  <2> DEFINE c == Batch(OpkCount - N, s)
  <2>6. new.x25519 = c /\ new.kem = c
    BY <2>5 DEF Pairs
  <2>7. /\ c \in Seq(Nat) /\ Len(c) = OpkCount - N /\ IsInjective(c)
        /\ \A i \in 1 .. OpkCount - N : c[i] = s + i - 1
    <3>1. OpkCount - N \in Nat
      BY <2>2
    <3>2. /\ c \in Seq(Nat \ {0}) /\ Len(c) = OpkCount - N /\ IsInjective(c)
          /\ \A i \in 1 .. OpkCount - N : c[i] = s + i - 1
      BY <3>1, BatchTyped
    <3>3. c \in Seq(Nat)
      BY <3>2, SeqMonotonic
    <3> QED BY <3>2, <3>3
  <2>8. l \in Seq(Nat)
    <3>1. Opks \subseteq Nat
      BY DEF Opks
    <3> QED BY <2>1, <3>1, SeqMonotonic
  <2> HIDE DEF b, l, N, c, new
  <2>9. \A i \in 1 .. N, j \in 1 .. OpkCount - N : l[i] # c[j]
    <3> SUFFICES ASSUME NEW i \in 1 .. N, NEW j \in 1 .. OpkCount - N PROVE l[i] # c[j]
      OBVIOUS
    <3>1. c[j] = s + j - 1 /\ l[i] \in Nat /\ N # OpkCount
      BY <2>2, <2>7 DEF Opks
    <3>2. l[i] < s
      BY <2>5, <3>1
    <3> QED BY <3>1, <3>2, <2>2
  <2>10. l \o c \in Seq(Nat) /\ Len(l \o c) = N + (OpkCount - N) /\ IsInjective(l \o c)
    BY <2>1, <2>7, <2>8, <2>9, JoinedLists DEF N
  <2>11. sum.x25519 = l \o c /\ sum.kem = l \o c
    BY <2>1, <2>6 DEF l
  <2>12. Numbers(sum) = ToSet(l \o c)
    BY <2>11 DEF Numbers
  <2>13. Len(l \o c) = OpkCount /\ Cardinality(ToSet(l \o c)) = OpkCount
    <3>1. N + (OpkCount - N) = OpkCount
      BY <2>2
    <3>2. Cardinality(ToSet(l \o c)) = Len(l \o c)
      BY <2>10, InjectiveListSize
    <3> QED BY <3>1, <3>2, <2>10
  <2> HIDE DEF sum
  <2>14. ListsValid(sum) /\ Len(sum.x25519) = OpkCount /\ Cardinality(Numbers(sum)) = OpkCount
    BY <2>11, <2>12, <2>13 DEF ListsValid
  <2> QED BY <2>14 DEF sum, b, new
<1> QED BY <1>1, SetupInvariant, PTL

===============================================================================
