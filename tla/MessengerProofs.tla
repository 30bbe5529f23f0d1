--------------------------- MODULE MessengerProofs ---------------------------
(***************************************************************************)
(* Proofs about CryptoService and Messenger, for any sets of prekeys and   *)
(* faults and any bounds: no message key is used twice, a run with a       *)
(* one-time prekey gives the responder one end; the clients use their      *)
(* services as CryptoService allows, so its theorems hold for them too,    *)
(* and what they do with the server's queue implements Delivery.           *)
(***************************************************************************)
EXTENDS Messenger, SequenceTheorems, FiniteSetTheorems, TLAPS

USE UsersAssumption, OpksAssumption, BoundsAssumption DEF NoInit, Inits, Takes

-------------------------------------------------------------------------------
(* The crypto service: facts about the operators *)

\* Most actions of the service only remove sessions, advance them, or create the responder's
\* end of a run whose prekey is consumed with that: Quiet says so, and one lemma shows that
\* this keeps the invariant.  Those that start a run or return a message have a lemma each.

LEMMA PeerFacts ==
  ASSUME NEW u \in Users
  PROVE  Peer(u) \in Users /\ Peer(u) # u /\ Peer(Peer(u)) = u /\ u # Nobody
  BY DEF Users, Peer

\* An end belongs to a run if a message or a session is of it.
LEMMA EndsOfFacts ==
  ASSUME NEW i
  PROVE  \A t : t \in EndsOf(i) <=>
           \/ \E w \in wires : w.init = i /\ w.take = t
           \/ \E u \in Users : \/ memory[u].init = i /\ memory[u].take = t
                               \/ ratchetFile[u].init = i /\ ratchetFile[u].take = t
  BY DEF EndsOf, Stored

\* What the operators on sessions return is a session, of the end they are given.
LEMMA SessionFacts ==
  /\ NoSession \in Sessions /\ NoSession.init = 0 /\ NoSession.sent = 0
  /\ \A s \in Sessions :
       /\ Advance(s) \in Sessions /\ Advance(s).init = s.init
       /\ Advance(s).take = s.take /\ Advance(s).sent = s.sent + 1
  /\ \A s \in Sessions, w \in WireSet :
       /\ Receive(s, w) \in Sessions /\ Receive(s, w).init = s.init
       /\ Receive(s, w).take = s.take /\ Receive(s, w).sent = s.sent
  /\ \A i \in Inits, t \in Takes \cup {0} :
       /\ NewEnd(i, t) \in Sessions /\ NewEnd(i, t).init = i
       /\ NewEnd(i, t).take = t /\ NewEnd(i, t).sent = 0
<1>1. NoSession \in Sessions /\ NoSession.init = 0 /\ NoSession.sent = 0
  BY DEF NoSession, Sessions
<1>2. ASSUME NEW s \in Sessions
      PROVE  /\ Advance(s) \in Sessions /\ Advance(s).init = s.init
             /\ Advance(s).take = s.take /\ Advance(s).sent = s.sent + 1
  BY DEF Sessions, Advance
<1>3. ASSUME NEW s \in Sessions, NEW w \in WireSet
      PROVE  /\ Receive(s, w) \in Sessions /\ Receive(s, w).init = s.init
             /\ Receive(s, w).take = s.take /\ Receive(s, w).sent = s.sent
  BY DEF Sessions, WireSet, Receive
<1>4. ASSUME NEW i \in Inits, NEW t \in Takes \cup {0}
      PROVE  /\ NewEnd(i, t) \in Sessions /\ NewEnd(i, t).init = i
             /\ NewEnd(i, t).take = t /\ NewEnd(i, t).sent = 0
  BY DEF Sessions, NoSession, NewEnd
<1> QED
  BY <1>1, <1>2, <1>3, <1>4

LEMMA LiveSession ==
  ASSUME TypeOK, NEW u \in Users
  PROVE  /\ Session(u) \in Sessions
         /\ Session(u) \in {NoSession, memory[u], ratchetFile[u]}
  BY SessionFacts DEF Session, TypeOK

LEMMA InitIInv == Init => IInv
<1> SUFFICES ASSUME Init PROVE IInv
  OBVIOUS
<1>1. IsFiniteSet(wires)
  BY FS_EmptySet DEF Init
<1>2. TypeOK
  BY SessionFacts DEF Init, TypeOK
<1>3. SessionsInv /\ WiresInv /\ PendingInv /\ OpkInv /\ KeysAreUsedOnce
  BY <1>1 DEF Init, SessionsInv, Mine, WiresInv, PendingInv, OpkInv, KeysAreUsedOnce
<1>4. OneEndPerOpk
  BY EndsOfFacts DEF Init, OneEndPerOpk, NoSession
<1> QED
  BY <1>2, <1>3, <1>4 DEF IInv

-------------------------------------------------------------------------------
(* Steps that start no run and return no message *)

\* s is no session, or one u has, advanced or not.
Derived(u, s) ==
  s = NoSession \/
  \E r \in {memory[u], ratchetFile[u]} :
    r # NoSession /\ s.init = r.init /\ s.take = r.take /\ s.sent >= r.sent

\* s is end t of run i: the responder u creates it, and the run's prekey goes.
Created(u, s, i, t) ==
  /\ \E w \in wires : w.init = i
  /\ initBy[i] = Peer(u) /\ t # 0 /\ t \notin EndsOf(i)
  /\ initOpk[i] \in opkMemory[u] \cup {NoOpk}
  /\ initOpk[i] \notin opkFile'[u]
  /\ s.init = i /\ s.take = t

Quiet(u, i, t) ==
  /\ UNCHANGED <<initVars, wires>>
  /\ \E p \in {pending[u], NoInit} : Set(pending, u, p)
  /\ \E s \in Sessions : Set(memory, u, s) /\ (Derived(u, s) \/ Created(u, s, i, t))
  /\ \E s \in Sessions : Set(ratchetFile, u, s) /\ (Derived(u, s) \/ Created(u, s, i, t))
  /\ \E k \in SUBSET opkFile[u] : Set(opkFile, u, k)
  /\ \E k \in SUBSET opkFile'[u] : Set(opkMemory, u, k)
  /\ pool' \in [Users -> SUBSET Opks] /\ metaFile' \in [Users -> BOOLEAN]

LEMMA QuietKeepsIInv ==
  ASSUME IInv, NEW u \in Users, NEW i, NEW t, Quiet(u, i, t)
  PROVE  IInv'
<1> USE DEF Set
<1>t. TypeOK
  BY DEF IInv
<1>1. /\ UNCHANGED <<initBy, initOpk, wires>>
      /\ opkFile' \in [Users -> SUBSET Opks] /\ opkMemory' \in [Users -> SUBSET Opks]
      /\ \A v \in Users : opkFile'[v] \subseteq opkFile[v]
      /\ \A v \in Users : v # u => opkFile'[v] = opkFile[v] /\ opkMemory'[v] = opkMemory[v]
      /\ opkMemory'[u] \subseteq opkFile'[u]
  BY <1>t DEF Quiet, initVars, TypeOK
<1>2. PICK m \in Sessions : /\ memory' = [memory EXCEPT ![u] = m]
                            /\ Derived(u, m) \/ Created(u, m, i, t)
  BY DEF Quiet
<1>3. PICK f \in Sessions : /\ ratchetFile' = [ratchetFile EXCEPT ![u] = f]
                            /\ Derived(u, f) \/ Created(u, f, i, t)
  BY DEF Quiet
<1>4. PICK p \in {pending[u], NoInit} : pending' = [pending EXCEPT ![u] = p]
  BY DEF Quiet
<1>5. TypeOK'
  BY <1>t, <1>1, <1>2, <1>3, <1>4 DEF TypeOK, Quiet
<1>6. OpkInv'
  BY <1>1 DEF OpkInv, IInv
<1>7. WiresInv' /\ KeysAreUsedOnce'
  <2>1. \A w \in wires : initBy[w.init] \in Users \cup {Nobody}
    BY <1>t DEF TypeOK, WireSet
  <2>2. \A w \in wires : initBy[w.init] # Nobody => Peer(initBy[w.init]) \in Users
    BY <2>1, PeerFacts
  <2> QED
    BY <1>1, <2>2 DEF WiresInv, KeysAreUsedOnce, IInv
<1>8. ASSUME NEW s \in Sessions, Derived(u, s) \/ Created(u, s, i, t)
      PROVE  Mine(u, s)'
  <2>1. CASE Derived(u, s)
    <3>1. SUFFICES ASSUME s # NoSession PROVE Mine(u, s)'
      BY DEF Mine
    <3>2. PICK r \in {memory[u], ratchetFile[u]} :
            r # NoSession /\ s.init = r.init /\ s.take = r.take /\ s.sent >= r.sent
      BY <2>1, <3>1 DEF Derived
    <3>3. Mine(u, r) /\ r \in Sessions
      BY <3>2, <1>t DEF IInv, SessionsInv, TypeOK
    <3>4. \A w \in wires : w.n \in Nat
      BY <1>t DEF TypeOK, WireSet
    <3>5. \A w \in wires : w.init = s.init /\ w.take = s.take => w.n <= s.sent
      BY <3>2, <3>3, <3>4 DEF Mine, Sessions
    <3> QED
      BY <3>2, <3>3, <3>5, <1>1 DEF Mine
  <2>2. CASE Created(u, s, i, t)
    <3>1. \A w \in wires : ~ (w.init = i /\ w.take = t)
      BY <2>2, EndsOfFacts DEF Created
    <3>2. i # NoInit
      BY <2>2, <1>t DEF Created, TypeOK, WireSet
    <3> QED
      BY <2>2, <3>1, <3>2, <1>1 DEF Created, Mine
  <2> QED
    BY <1>8, <2>1, <2>2
<1>9. SessionsInv'
  <2>1. \A v \in Users \ {u} : Mine(v, memory[v])' /\ Mine(v, ratchetFile[v])'
    BY <1>1, <1>2, <1>3, <1>t DEF IInv, SessionsInv, Mine, TypeOK
  <2>2. Mine(u, memory[u])' /\ Mine(u, ratchetFile[u])'
    BY <1>8, <1>2, <1>3, <1>t DEF TypeOK, Mine
  <2> QED
    BY <2>1, <2>2 DEF SessionsInv
<1>10. PendingInv'
  <2>1. SUFFICES ASSUME NEW v \in Users, pending'[v] # NoInit
        PROVE  /\ initBy[pending[v]] = v /\ pending'[v] = pending[v]
               /\ \A w \in wires : w.init # pending[v]
               /\ \A x \in Users : memory'[x].init # pending[v] /\ ratchetFile'[x].init # pending[v]
    BY <1>1 DEF PendingInv
  <2>2. pending'[v] = pending[v]
    BY <1>4, <2>1, <1>t DEF TypeOK
  <2>3. /\ initBy[pending[v]] = v
        /\ \A w \in wires : w.init # pending[v]
        /\ \A x \in Users : memory[x].init # pending[v] /\ ratchetFile[x].init # pending[v]
    BY <2>1, <2>2 DEF IInv, PendingInv
  <2>4. m.init # pending[v] /\ f.init # pending[v]
    BY <1>2, <1>3, <2>1, <2>2, <2>3, SessionFacts DEF Derived, Created
  <2> QED
    BY <2>2, <2>3, <2>4, <1>2, <1>3, <1>t DEF TypeOK
<1>11. OneEndPerOpk'
  <2>1. SUFFICES ASSUME NEW j \in Inits, initOpk[j] # NoOpk,
                        NEW a \in EndsOf(j)' \ {0}, NEW b \in EndsOf(j)' \ {0}
                 PROVE  a = b
    BY <1>1 DEF OneEndPerOpk
  <2>2. ASSUME NEW c \in EndsOf(j)'
        PROVE  c \in EndsOf(j) \/ (j = i /\ c = t /\ (Created(u, m, i, t) \/ Created(u, f, i, t)))
    <3>1. \/ \E w \in wires : w.init = j /\ w.take = c
          \/ \E x \in Users : \/ memory'[x].init = j /\ memory'[x].take = c
                              \/ ratchetFile'[x].init = j /\ ratchetFile'[x].take = c
      BY <2>2, <1>1, EndsOfFacts DEF EndsOf, Stored
    <3>2. CASE \E w \in wires : w.init = j /\ w.take = c
      BY <3>2, EndsOfFacts
    <3>3. ASSUME NEW s, s.init = j, s.take = c, Derived(u, s)
          PROVE  c \in EndsOf(j)
      BY <3>3, EndsOfFacts, SessionFacts DEF Derived
    <3>4. CASE \E x \in Users : memory'[x].init = j /\ memory'[x].take = c
      BY <3>4, <3>3, <1>2, <1>t, EndsOfFacts DEF TypeOK, Created
    <3>5. CASE \E x \in Users : ratchetFile'[x].init = j /\ ratchetFile'[x].take = c
      BY <3>5, <3>3, <1>3, <1>t, EndsOfFacts DEF TypeOK, Created
    <3> QED
      BY <3>1, <3>2, <3>4, <3>5
  <2>3. CASE a \in EndsOf(j) /\ b \in EndsOf(j)
    BY <2>1, <2>3 DEF IInv, OneEndPerOpk
  <2>4. CASE j = i /\ (Created(u, m, i, t) \/ Created(u, f, i, t))
    <3>1. initOpk[i] \in opkFile[u] /\ initBy[i] = Peer(u)
      BY <2>1, <2>4 DEF Created, IInv, OpkInv
    <3>2. EndsOf(i) \subseteq {0}
      <4>1. SUFFICES ASSUME NEW c \in EndsOf(i), c # 0 PROVE FALSE
        OBVIOUS
      <4>2. CASE \E w \in wires : w.init = i /\ w.take = c
        BY <3>1, <4>1, <4>2, PeerFacts DEF IInv, WiresInv
      <4>3. ASSUME NEW x \in Users, NEW s \in {memory[x], ratchetFile[x]}, s.init = i, s.take = c
            PROVE FALSE
        <5>1. Mine(x, s) /\ s # NoSession
          BY <2>4, <4>3, SessionFacts DEF IInv, SessionsInv
        <5>2. Peer(x) = Peer(u) /\ initOpk[i] \notin opkFile[x]
          BY <5>1, <4>1, <4>3, <3>1 DEF Mine
        <5> QED
          BY <5>2, <3>1, PeerFacts
      <4> QED
        BY <4>1, <4>2, <4>3, EndsOfFacts
    <3> QED
      BY <2>1, <2>2, <2>4, <3>2
  <2> QED
    BY <2>1, <2>2, <2>3, <2>4
<1> QED
  BY <1>5, <1>6, <1>7, <1>9, <1>10, <1>11 DEF IInv

\* Deletions and a wipe remove files or leave them.
LEMMA DeletionFacts ==
  ASSUME TypeOK, NEW u \in Users
  PROVE  \A f \in Deletions(u) \cup Wipe(u) :
           f[1] \in {NoSession, ratchetFile[u]} /\ f[2] \in BOOLEAN
<1>1. ASSUME NEW f, NEW s \in {NoSession, ratchetFile[u]}, NEW m \in BOOLEAN, f = <<s, m>>
      PROVE  f[1] \in {NoSession, ratchetFile[u]} /\ f[2] \in BOOLEAN
  <2>1. f[1] = s /\ f[2] = m
    BY <1>1
  <2> QED
    BY <2>1
<1>2. /\ FALSE \in BOOLEAN /\ metaFile[u] \in BOOLEAN
      /\ NoSession \in {NoSession, ratchetFile[u]}
      /\ ratchetFile[u] \in {NoSession, ratchetFile[u]}
  BY DEF TypeOK
<1>3. ASSUME NEW f \in Deletions(u) \cup Wipe(u)
      PROVE  f[1] \in {NoSession, ratchetFile[u]} /\ f[2] \in BOOLEAN
  <2>1. Deletions(u) \cup Wipe(u) \subseteq
          {<<NoSession, FALSE>>, <<ratchetFile[u], metaFile[u]>>, <<NoSession, metaFile[u]>>}
    BY DEF Wipe, Deletions, Files
  <2>2. \/ f = <<NoSession, FALSE>> \/ f = <<ratchetFile[u], metaFile[u]>>
        \/ f = <<NoSession, metaFile[u]>>
    BY <2>1, Zenon
  <2> QED
    BY <1>1, <1>2, <2>2, Zenon
<1> QED
  BY <1>3

\* What the client hands to the service, and what the service does with it, keeps the
\* invariant.
LEMMA DecryptInitialKeepsIInv ==
  ASSUME IInv, NEW u \in Users, NEW w \in wires, Sender(w) = Peer(u), NEW dies \in BOOLEAN,
         \/ DecryptInitial(u, w) \/ DecryptInitialFails(u, w)
         \/ DecryptInitialStops(u, w, dies) \/ DecryptInitialWipes(u, w)
  PROVE  IInv'
<1> USE DEF Set
<1>t. TypeOK /\ w \in WireSet
  BY DEF IInv, TypeOK
<1>1. HasBundle(w)
  BY DEF DecryptInitial, DecryptInitialFails, DecryptInitialStops, DecryptInitialWipes
<1>2. initBy[w.init] = Peer(u) /\ w.init \in Inits /\ w.take \in Takes \cup {0}
  BY <1>1, <1>t DEF Sender, HasBundle, WireSet
<1>3. /\ opkMemory[u] \subseteq opkFile[u] /\ opkFile[u] \subseteq Opks
      /\ initOpk[w.init] \in Opks \cup {NoOpk}
  BY <1>2, <1>t DEF IInv, OpkInv, TypeOK
<1>4. ASSUME NEW t \in Takes, IsNewTake(w.init, t), HasSecret(u, w),
             Set(opkFile, u, ConsumedFile(u, w))
      PROVE  /\ ResponderEnd(w, t) \in Sessions
             /\ Created(u, ResponderEnd(w, t), w.init, t)
  <2>1. /\ ResponderEnd(w, t) \in Sessions /\ ResponderEnd(w, t).init = w.init
        /\ ResponderEnd(w, t).take = t
    <3>1. NewEnd(w.init, t) \in Sessions /\ NewEnd(w.init, t).init = w.init
          /\ NewEnd(w.init, t).take = t
      BY <1>2, SessionFacts
    <3> QED
      BY <1>t, <3>1, SessionFacts DEF ResponderEnd
  <2>2. initOpk[w.init] \notin opkFile'[u]
    BY <1>3, <1>4, <1>t DEF ConsumedFile, Consumed, TypeOK
  <2> QED
    BY <1>2, <1>4, <2>1, <2>2 DEF Created, IsNewTake, HasSecret
<1>5. /\ Consumed(u, w) \subseteq ConsumedFile(u, w)
      /\ ConsumedFile(u, w) \subseteq opkFile[u]
      /\ Consumed(u, w) \subseteq opkFile[u]
  BY <1>3 DEF Consumed, ConsumedFile
<1>6. NoSession \in Sessions /\ Derived(u, NoSession)
  BY SessionFacts DEF Derived
<1>7. memory[u] \in Sessions /\ ratchetFile[u] \in Sessions
      /\ metaFile \in [Users -> BOOLEAN] /\ metaFile[u] \in BOOLEAN
      /\ Derived(u, ratchetFile[u]) /\ pending \in [Users -> Inits \cup {NoInit}] /\ pool \in [Users -> SUBSET Opks]
      /\ opkMemory \in [Users -> SUBSET Opks] /\ opkFile \in [Users -> SUBSET Opks]
  <2>1. ratchetFile[u] \in Sessions /\ ratchetFile[u].sent >= ratchetFile[u].sent
    BY <1>t DEF TypeOK, Sessions
  <2> QED
    BY <2>1, <1>t DEF TypeOK, Derived
<1>8. \A f \in Wipe(u) : f[1] \in {NoSession, ratchetFile[u]} /\ f[2] \in BOOLEAN
  BY <1>t, DeletionFacts
<1>9. ASSUME DecryptInitial(u, w)
      PROVE  \E t : Quiet(u, w.init, t)
  <2>1. PICK t \in Takes : /\ IsNewTake(w.init, t)
                           /\ SetFiles(u, <<ResponderEnd(w, t), TRUE>>)
                           /\ Set(memory, u, ResponderEnd(w, t))
    BY <1>9 DEF DecryptInitial
  <2>2. Created(u, ResponderEnd(w, t), w.init, t) /\ ResponderEnd(w, t) \in Sessions
    BY <1>4, <1>9, <2>1 DEF DecryptInitial
  <2>3. /\ \E k \in SUBSET opkFile[u] : Set(opkFile, u, k)
        /\ \E k \in SUBSET opkFile'[u] : Set(opkMemory, u, k)
    BY <1>5, <1>7, <1>9 DEF DecryptInitial
  <2> QED
    BY <1>7, <1>9, <2>1, <2>2, <2>3 DEF Quiet, DecryptInitial, SetFiles, initVars
<1>10. ASSUME DecryptInitialFails(u, w)
       PROVE  Quiet(u, 0, 0)
  <2>1. /\ \E k \in SUBSET opkFile[u] : Set(opkFile, u, k)
        /\ \E k \in SUBSET opkFile'[u] : Set(opkMemory, u, k)
        /\ \E p \in {pending[u], NoInit} : Set(pending, u, p)
    BY <1>3, <1>7, <1>10, <1>t DEF DecryptInitialFails, opkVars, TypeOK
  <2> QED
    BY <1>6, <1>7, <1>8, <1>10, <2>1 DEF Quiet, DecryptInitialFails, SetFiles, initVars
<1>11. ASSUME DecryptInitialWipes(u, w)
       PROVE  Quiet(u, 0, 0)
  <2>1. /\ \E k \in SUBSET opkFile[u] : Set(opkFile, u, k)
        /\ \E k \in SUBSET opkFile'[u] : Set(opkMemory, u, k)
        /\ \E p \in {pending[u], NoInit} : Set(pending, u, p)
    <3>1. opkFile' = opkFile /\ Set(opkMemory, u, opkFile'[u]) /\ Set(pending, u, NoInit)
      BY <1>11 DEF DecryptInitialWipes, Die
    <3> QED
      BY <1>7, <3>1
  <2>2. Set(ratchetFile, u, NoSession) /\ Set(metaFile, u, metaFile[u])
    BY <1>11 DEF DecryptInitialWipes, SetFiles
  <2> QED
    <3>1. metaFile' \in [Users -> BOOLEAN] /\ pool' \in [Users -> SUBSET Opks]
      BY <1>7, <1>11, <2>2 DEF DecryptInitialWipes
    <3>2. Set(memory, u, NoSession) /\ UNCHANGED <<initVars, wires>>
      BY <1>11 DEF DecryptInitialWipes, Die
    <3> QED
      BY <1>6, <2>1, <2>2, <3>1, <3>2 DEF Quiet
<1>12. ASSUME DecryptInitialStops(u, w, dies)
       PROVE  \E t : Quiet(u, w.init, t)
  <2>1. /\ \E k \in SUBSET opkFile[u] : Set(opkFile, u, k)
        /\ opkFile'[u] \in {opkFile[u], ConsumedFile(u, w)}
    BY <1>5, <1>7, <1>12 DEF DecryptInitialStops
  <2>2. /\ \E k \in SUBSET opkFile'[u] : Set(opkMemory, u, k)
        /\ \E p \in {pending[u], NoInit} : Set(pending, u, p)
        /\ \E s \in Sessions : Set(memory, u, s) /\ Derived(u, s)
    BY <1>5, <1>6, <1>7, <1>12, <2>1 DEF DecryptInitialStops, Stop, Die
  <2>3. \E t \in Takes \cup {0}, s \in Sessions, m \in BOOLEAN :
          /\ Set(ratchetFile, u, s) /\ Set(metaFile, u, m)
          /\ Derived(u, s) \/ Created(u, s, w.init, t)
    <3>1. CASE \E f \in Wipe(u) : SetFiles(u, f)
      BY <1>6, <1>7, <1>8, <3>1 DEF SetFiles
    <3>2. CASE /\ Set(opkFile, u, ConsumedFile(u, w))
               /\ \E f \in Wipe(u) : \E t \in Takes, m \in {f[2], TRUE} :
                    IsNewTake(w.init, t) /\ SetFiles(u, <<ResponderEnd(w, t), m>>)
      <4>1. PICK f \in Wipe(u) : \E t \in Takes, m \in {f[2], TRUE} :
              IsNewTake(w.init, t) /\ SetFiles(u, <<ResponderEnd(w, t), m>>)
        BY <3>2
      <4>4. PICK t \in Takes, m \in {f[2], TRUE} :
              IsNewTake(w.init, t) /\ SetFiles(u, <<ResponderEnd(w, t), m>>)
        BY <4>1
      <4>2. ResponderEnd(w, t) \in Sessions /\ Created(u, ResponderEnd(w, t), w.init, t)
        BY <1>4, <1>12, <3>2, <4>4 DEF DecryptInitialStops
      <4>3. m \in BOOLEAN
        BY <1>8, <4>1
      <4> QED
        BY <4>2, <4>3, <4>4 DEF SetFiles
    <3> QED
      BY <1>12, <3>1, <3>2 DEF DecryptInitialStops
  <2> QED
    <3>1. PICK t \in Takes \cup {0}, s \in Sessions, m \in BOOLEAN :
            /\ Set(ratchetFile, u, s) /\ Set(metaFile, u, m)
            /\ Derived(u, s) \/ Created(u, s, w.init, t)
      BY <2>3
    <3>2. metaFile' \in [Users -> BOOLEAN] /\ pool' \in [Users -> SUBSET Opks]
          /\ UNCHANGED <<initVars, wires>>
      BY <1>7, <1>12, <3>1 DEF DecryptInitialStops
    <3> QED
      BY <2>1, <2>2, <3>1, <3>2 DEF Quiet
<1> QED
  BY <1>9, <1>10, <1>11, <1>12, QuietKeepsIInv

LEMMA DerivedFacts ==
  ASSUME TypeOK, NEW u \in Users
  PROVE  /\ \A s \in {NoSession, memory[u], ratchetFile[u], Session(u)} :
              s \in Sessions /\ Derived(u, s)
         /\ Session(u) # NoSession =>
              /\ Advance(Session(u)) \in Sessions /\ Derived(u, Advance(Session(u)))
              /\ \A w \in wires : /\ Receive(Session(u), w) \in Sessions
                                  /\ Derived(u, Receive(Session(u), w))
<1>1. \A s \in {NoSession, memory[u], ratchetFile[u], Session(u)} :
        s \in Sessions /\ s.sent \in Nat /\ s \in {NoSession, memory[u], ratchetFile[u]}
  BY LiveSession, SessionFacts DEF TypeOK, Sessions
<1>2. \A s \in {NoSession, memory[u], ratchetFile[u], Session(u)} : Derived(u, s)
  BY <1>1 DEF Derived
<1>3. ASSUME Session(u) # NoSession
      PROVE  Advance(Session(u)) \in Sessions /\ Derived(u, Advance(Session(u)))
  BY <1>1, <1>3, SessionFacts DEF Derived
<1>4. ASSUME Session(u) # NoSession, NEW w \in wires
      PROVE  Receive(Session(u), w) \in Sessions /\ Derived(u, Receive(Session(u), w))
  <2>1. w \in WireSet
    BY DEF TypeOK
  <2> QED
    BY <1>1, <1>4, <2>1, SessionFacts DEF Derived
<1> QED
  BY <1>1, <1>2, <1>3, <1>4

\* What remains of a step of u that leaves the server's keys and the keystore's bundle alone.
LEMMA LocalStepIsQuiet ==
  ASSUME IInv, NEW u \in Users, UNCHANGED <<initVars, wires, opkFile>>,
         pool' \in [Users -> SUBSET Opks], metaFile' \in [Users -> BOOLEAN],
         NEW p \in {pending[u], NoInit}, Set(pending, u, p),
         NEW m \in Sessions, Set(memory, u, m), Derived(u, m),
         NEW f \in Sessions, Set(ratchetFile, u, f), Derived(u, f),
         NEW k \in {opkMemory[u], opkFile[u]}, Set(opkMemory, u, k)
  PROVE  Quiet(u, 0, 0)
<1>1. /\ opkFile' = [opkFile EXCEPT ![u] = opkFile[u]] /\ opkFile[u] \in SUBSET opkFile[u]
      /\ k \in SUBSET opkFile'[u]
  BY DEF IInv, TypeOK, OpkInv
<1> QED
  BY <1>1 DEF Quiet, Set

LEMMA LocalStepKeepsIInv ==
  ASSUME IInv, NEW u \in Users, NEW dies \in BOOLEAN, NEW w,
         \/ LoseBundle(u) \/ EncryptNextStops(u, dies) \/ ResetSession(u) \/ Crash(u)
         \/ w \in wires /\ (DecryptNext(u, w) \/ DecryptNextFails(u, w)
                            \/ DecryptNextStops(u, w, dies))
  PROVE  IInv'
<1>t. TypeOK
  BY DEF IInv
<1>1. /\ Set(memory, u, memory[u]) <=> memory' = memory
      /\ Set(ratchetFile, u, ratchetFile[u]) <=> ratchetFile' = ratchetFile
      /\ Set(pending, u, pending[u]) <=> pending' = pending
      /\ Set(opkMemory, u, opkMemory[u]) <=> opkMemory' = opkMemory
      /\ pool \in [Users -> SUBSET Opks] /\ metaFile \in [Users -> BOOLEAN]
  BY <1>t DEF TypeOK, Set
<1>2. CASE LoseBundle(u)
  <2>1. pool' \in [Users -> SUBSET Opks]
    BY <1>1, <1>2, PeerFacts DEF LoseBundle, Claim
  <2>2. UNCHANGED <<initVars, sessionVars, opkVars, wires>>
    BY <1>2 DEF LoseBundle
  <2>3. Quiet(u, 0, 0)
    BY <1>1, <1>t, <2>1, <2>2, DerivedFacts, LocalStepIsQuiet DEF sessionVars, opkVars
  <2> QED
    BY <2>3, QuietKeepsIInv
<1>3. ASSUME NEW p \in {pending[u], NoInit}, NEW s \in Sessions, Derived(u, s),
             Stop(u, dies, p, s, opkMemory[u]), UNCHANGED <<pool, initVars, metaFile, opkFile, wires>>,
             NEW f \in Sessions, Derived(u, f), Set(ratchetFile, u, f)
      PROVE  IInv'
  <2>1. CASE dies
    <3>1. /\ Set(pending, u, NoInit) /\ Set(memory, u, NoSession)
          /\ Set(opkMemory, u, opkFile[u])
      BY <1>3, <2>1 DEF Stop, Die, Set
    <3>2. Quiet(u, 0, 0)
      BY <1>1, <1>3, <1>t, <3>1, DerivedFacts, LocalStepIsQuiet
    <3> QED
      BY <3>2, QuietKeepsIInv
  <2>2. CASE ~ dies
    <3>1. Quiet(u, 0, 0)
      BY <1>1, <1>3, <2>2, LocalStepIsQuiet DEF Stop
    <3> QED
      BY <3>1, QuietKeepsIInv
  <2> QED
    BY <2>1, <2>2
<1>4. CASE EncryptNextStops(u, dies)
  <2>1. Session(u) # NoSession /\ pending[u] = NoInit
    BY <1>4 DEF EncryptNextStops
  <2>2. PICK f \in {ratchetFile[u], Advance(Session(u))} : Set(ratchetFile, u, f)
    BY <1>4 DEF EncryptNextStops
  <2>3. /\ f \in Sessions /\ Derived(u, f)
        /\ Advance(Session(u)) \in Sessions /\ Derived(u, Advance(Session(u)))
    BY <1>t, <2>1, DerivedFacts
  <2>4. /\ Stop(u, dies, NoInit, Advance(Session(u)), opkMemory[u])
        /\ UNCHANGED <<pool, initVars, metaFile, opkFile, wires>>
    BY <1>4 DEF EncryptNextStops
  <2> QED
    BY <1>3, <2>2, <2>3, <2>4 DEF Set
<1>5. CASE ResetSession(u)
  <2>1. PICK f \in Deletions(u) : SetFiles(u, f)
    BY <1>5 DEF ResetSession
  <2>2. f[1] \in {NoSession, ratchetFile[u]} /\ f[2] \in BOOLEAN
    BY <1>t, DeletionFacts
  <2>3. metaFile' \in [Users -> BOOLEAN]
    BY <1>1, <2>1, <2>2 DEF SetFiles, Set
  <2>4. Quiet(u, 0, 0)
    BY <1>1, <1>5, <1>t, <2>1, <2>2, <2>3, DerivedFacts, LocalStepIsQuiet
       DEF ResetSession, SetFiles, opkVars
  <2> QED
    BY <2>4, QuietKeepsIInv
<1>6. CASE Crash(u)
  <2>1. /\ Set(pending, u, NoInit) /\ Set(memory, u, NoSession)
        /\ Set(opkMemory, u, opkFile[u])
    BY <1>6 DEF Crash, Die, Set
  <2>2. Quiet(u, 0, 0)
    BY <1>1, <1>6, <1>t, <2>1, DerivedFacts, LocalStepIsQuiet DEF Crash
  <2> QED
    BY <2>2, QuietKeepsIInv
<1>7. CASE w \in wires /\ DecryptNext(u, w)
  <2>1. Quiet(u, 0, 0)
    BY <1>1, <1>7, <1>t, DerivedFacts, LocalStepIsQuiet DEF DecryptNext, Accepts, opkVars
  <2> QED
    BY <2>1, QuietKeepsIInv
<1>8. CASE w \in wires /\ DecryptNextFails(u, w)
  <2>1. Quiet(u, 0, 0)
    BY <1>1, <1>8, <1>t, DerivedFacts, LocalStepIsQuiet DEF DecryptNextFails, opkVars
  <2> QED
    BY <2>1, QuietKeepsIInv
<1>9. CASE w \in wires /\ DecryptNextStops(u, w, dies)
  <2>1. Session(u) # NoSession
    BY <1>9 DEF DecryptNextStops, Accepts
  <2>2. PICK f \in {ratchetFile[u], Receive(Session(u), w)} : Set(ratchetFile, u, f)
    BY <1>9 DEF DecryptNextStops
  <2>3. /\ f \in Sessions /\ Derived(u, f)
        /\ Receive(Session(u), w) \in Sessions /\ Derived(u, Receive(Session(u), w))
    BY <1>9, <1>t, <2>1, DerivedFacts
  <2>4. /\ Stop(u, dies, pending[u], Receive(Session(u), w), opkMemory[u])
        /\ UNCHANGED <<pool, initVars, metaFile, opkFile, wires>>
    BY <1>9 DEF DecryptNextStops
  <2> QED
    BY <1>3, <2>2, <2>3, <2>4 DEF Set
<1> QED
  BY <1>2, <1>4, <1>5, <1>6, <1>7, <1>8, <1>9

-------------------------------------------------------------------------------
(* Steps that start a run *)

\* Nothing refers to a run before it is started.
LEMMA InitiateSessionKeepsIInv ==
  ASSUME IInv, NEW u \in Users, InitiateSession(u)
  PROVE  IInv'
<1>t. TypeOK /\ SessionsInv /\ WiresInv /\ PendingInv
  BY DEF IInv
<1>1. PICK i \in Inits, k \in Opks \cup {NoOpk} :
        /\ \A j \in Inits : initBy[j] = Nobody <=> j >= i
        /\ Claim(u, k)
        /\ initBy' = [initBy EXCEPT ![i] = u]
        /\ initOpk' = [initOpk EXCEPT ![i] = k]
        /\ Set(pending, u, i)
  BY DEF InitiateSession
<1>2. UNCHANGED <<memory, ratchetFile, metaFile, opkMemory, opkFile, wires>>
  BY DEF InitiateSession, opkVars
<1>3. initBy[i] = Nobody
  BY <1>1
<1>4. pool' \in [Users -> SUBSET Opks]
  BY <1>1, <1>t, PeerFacts DEF Claim, TypeOK
<1>5. TypeOK'
  BY <1>1, <1>2, <1>4, <1>t DEF TypeOK, Set
<1>6. \A w \in wires : w.init \in Inits /\ w.init # i
  BY <1>3, <1>t DEF WiresInv, TypeOK, WireSet
<1>7. ASSUME NEW v \in Users, NEW s \in {memory[v], ratchetFile[v]}
      PROVE  s.init # i /\ s.init \in Inits \cup {NoInit} /\ Mine(v, s)
  <2>1. s \in Sessions /\ Mine(v, s)
    BY <1>t DEF TypeOK, SessionsInv
  <2> QED
    BY <1>3, <2>1, PeerFacts, SessionFacts DEF Mine, Sessions
<1>8. SessionsInv'
  <2>1. ASSUME NEW v \in Users, NEW s \in {memory[v], ratchetFile[v]}, s # NoSession
        PROVE  initBy'[s.init] = initBy[s.init] /\ initOpk'[s.init] = initOpk[s.init]
    BY <1>1, <1>7, <1>t, <2>1 DEF TypeOK, Mine
  <2> QED
    BY <1>2, <1>7, <2>1 DEF SessionsInv, Mine
<1>9. WiresInv' /\ KeysAreUsedOnce' /\ OpkInv'
  BY <1>1, <1>2, <1>6, <1>t DEF WiresInv, TypeOK, KeysAreUsedOnce, OpkInv, IInv
<1>10. PendingInv'
  <2>1. SUFFICES ASSUME NEW v \in Users, pending'[v] # NoInit
        PROVE  /\ initBy'[pending'[v]] = v
               /\ \A w \in wires : w.init # pending'[v]
               /\ \A x \in Users : memory[x].init # pending'[v] /\ ratchetFile[x].init # pending'[v]
    BY <1>2 DEF PendingInv
  <2>2. CASE v = u
    <3>1. pending'[v] = i /\ initBy'[i] = u
      BY <1>1, <1>t, <2>2 DEF TypeOK, Set
    <3> QED
      BY <1>6, <1>7, <2>2, <3>1
  <2>3. CASE v # u
    <3>1. pending'[v] = pending[v] /\ pending[v] \in Inits
      BY <1>1, <1>t, <2>1, <2>3 DEF TypeOK, Set
    <3>2. initBy[pending[v]] = v
      BY <1>t, <2>1, <3>1 DEF PendingInv
    <3>3. initBy'[pending[v]] = v
      BY <1>1, <1>3, <1>t, <3>1, <3>2, PeerFacts DEF TypeOK
    <3> QED
      BY <1>t, <2>1, <3>1, <3>3 DEF PendingInv
  <2> QED
    BY <2>2, <2>3
<1>11. OneEndPerOpk'
  <2>1. \A j : EndsOf(j)' = EndsOf(j)
    BY <1>2 DEF EndsOf, Stored
  <2>2. EndsOf(i) = {}
    BY <1>6, <1>7, EndsOfFacts
  <2>3. \A j \in Inits \ {i} : initOpk'[j] = initOpk[j]
    BY <1>1, <1>t DEF TypeOK
  <2> QED
    BY <2>1, <2>2, <2>3 DEF OneEndPerOpk, IInv
<1> QED
  BY <1>5, <1>8, <1>9, <1>10, <1>11 DEF IInv

-------------------------------------------------------------------------------
(* Steps that return a message *)

\* u puts a session of its own in memory and on disk, or on disk only; if a message of it is
\* returned, the message is the latest of its end.
LEMMA EncryptKeepsIInv ==
  ASSUME IInv, NEW u \in Users, NEW W \in SUBSET WireSet, NEW s \in Sessions,
         UNCHANGED <<pool, initVars, opkFile>>, metaFile' \in [Users -> BOOLEAN],
         Set(pending, u, NoInit),
         NEW m \in {memory[u], NoSession, s}, Set(memory, u, m), Set(ratchetFile, u, s),
         NEW k \in SUBSET opkFile[u], Set(opkMemory, u, k),
         wires' = wires \cup W, IsFiniteSet(W),
         \A w \in W : /\ w.init = s.init /\ w.take = s.take /\ w.n = s.sent
                      /\ \A v \in W : v = w,
         s.init \in Inits, initBy[s.init] = (IF s.take = 0 THEN u ELSE Peer(u)),
         \A w \in wires : w.init = s.init /\ w.take = s.take => w.n < s.sent,
         W = {} \/ m = s,
         s.take # 0 => s.take \in EndsOf(s.init),
         \A v \in Users : v # u => pending[v] # s.init
  PROVE  IInv'
<1> USE DEF Set
<1>t. TypeOK /\ SessionsInv /\ WiresInv /\ PendingInv /\ OpkInv
  BY DEF IInv
<1>1. UNCHANGED <<pool, initBy, initOpk, opkFile>>
  BY DEF initVars
<1>2. m \in Sessions
  BY <1>t, SessionFacts DEF TypeOK
<1>3. TypeOK'
  <2>1. opkMemory' \in [Users -> SUBSET Opks]
    BY <1>t DEF TypeOK
  <2> QED
    BY <1>1, <1>2, <1>t, <2>1 DEF TypeOK
<1>4. OpkInv'
  BY <1>1, <1>t DEF OpkInv, TypeOK
<1>5. \A w \in W : w.init = s.init /\ w.take = s.take /\ w.n = s.sent
  OBVIOUS
<1>6. s.take # 0 => initOpk[s.init] \notin opkFile[u]
  <2>1. SUFFICES ASSUME s.take # 0 PROVE initOpk[s.init] \notin opkFile[u]
    OBVIOUS
  <2>2. initBy[s.init] = Peer(u) /\ s.take \in EndsOf(s.init) /\ s.init # NoInit
    BY <2>1
  <2>3. CASE \E w \in wires : w.init = s.init /\ w.take = s.take
    BY <1>t, <2>1, <2>2, <2>3, PeerFacts DEF WiresInv
  <2>4. ASSUME NEW x \in Users, NEW r \in {memory[x], ratchetFile[x]},
               r.init = s.init, r.take = s.take
        PROVE  initOpk[s.init] \notin opkFile[u]
    <3>1. Mine(x, r) /\ r # NoSession
      BY <1>t, <2>2, <2>4, SessionFacts DEF SessionsInv
    <3>2. Peer(x) = Peer(u) /\ initOpk[s.init] \notin opkFile[x]
      BY <2>1, <2>2, <2>4, <3>1 DEF Mine
    <3> QED
      BY <3>2, PeerFacts
  <2> QED
    BY <2>2, <2>3, <2>4, EndsOfFacts
<1>7. WiresInv'
  <2>1. IsFiniteSet(wires')
    BY <1>t, FS_Union DEF WiresInv
  <2>2. \A w \in wires : w.init \in Inits /\ initBy[w.init] \in Users \cup {Nobody}
    BY <1>t DEF TypeOK, WireSet
  <2>3. ASSUME NEW w \in W
        PROVE  initBy[w.init] # Nobody /\ (w.take # 0 => initOpk[w.init] \notin opkFile[Peer(initBy[w.init])])
    BY <1>5, <1>6, PeerFacts
  <2> QED
    BY <1>1, <1>t, <2>1, <2>2, <2>3 DEF WiresInv
<1>8. KeysAreUsedOnce'
  <2>1. \A w \in wires : w.n \in Nat
    BY <1>t DEF TypeOK, WireSet
  <2>2. s.sent \in Nat
    BY DEF Sessions
  <2> QED
    BY <1>5, <2>1, <2>2 DEF KeysAreUsedOnce, IInv
<1>9. Mine(u, s)'
  <2>1. s.sent \in Nat /\ \A w \in wires : w.n \in Nat
    BY <1>t DEF Sessions, TypeOK, WireSet
  <2>2. \A w \in wires' : w.init = s.init /\ w.take = s.take => w.n <= s.sent
    BY <1>5, <2>1
  <2> QED
    BY <1>1, <1>6, <2>2 DEF Mine
<1>10. ASSUME NEW v \in Users, NEW r \in {memory[v], ratchetFile[v]}, v # u \/ W = {}
       PROVE  Mine(v, r)'
  <2>1. Mine(v, r)
    BY <1>t DEF SessionsInv
  <2>2. CASE W = {}
    BY <1>1, <2>1, <2>2 DEF Mine
  <2>3. CASE v # u
    <3>1. \A w \in W : r # NoSession => ~ (w.init = r.init /\ w.take = r.take)
      BY <1>5, <2>1, <2>3, PeerFacts DEF Mine
    <3> QED
      BY <1>1, <2>1, <3>1 DEF Mine
  <2> QED
    BY <1>10, <2>2, <2>3
<1>11. SessionsInv'
  <2>1. ASSUME NEW v \in Users, v # u
        PROVE  memory'[v] = memory[v] /\ ratchetFile'[v] = ratchetFile[v]
    BY <1>t, <2>1 DEF TypeOK
  <2>2. memory'[u] = m /\ ratchetFile'[u] = s
    BY <1>t DEF TypeOK
  <2>3. Mine(u, m)'
    <3>1. CASE m = s
      BY <1>9, <3>1
    <3>2. CASE m = NoSession
      BY <3>2 DEF Mine
    <3>3. CASE m = memory[u] /\ W = {}
      BY <1>10, <3>3
    <3> QED
      BY <3>1, <3>2, <3>3
  <2>4. \A v \in Users : Mine(v, memory[v])' /\ Mine(v, ratchetFile[v])'
    BY <1>9, <1>10, <2>1, <2>2, <2>3 DEF Mine
  <2> QED
    BY <2>4 DEF SessionsInv
<1>12. PendingInv'
  <2>1. SUFFICES ASSUME NEW v \in Users, pending'[v] # NoInit
        PROVE  /\ initBy[pending'[v]] = v
               /\ \A w \in wires' : w.init # pending'[v]
               /\ \A x \in Users : memory'[x].init # pending'[v] /\ ratchetFile'[x].init # pending'[v]
    BY <1>1 DEF PendingInv
  <2>2. v # u /\ pending'[v] = pending[v] /\ pending[v] # s.init
    BY <1>t, <2>1 DEF TypeOK
  <2>3. m.init # pending[v]
    BY <1>t, <2>1, <2>2, SessionFacts DEF PendingInv
  <2> QED
    BY <1>5, <1>t, <2>1, <2>2, <2>3 DEF PendingInv, TypeOK
<1>13. OneEndPerOpk'
  <2>1. ASSUME NEW j, NEW c \in EndsOf(j)', c # 0
        PROVE  c \in EndsOf(j)
    <3>1. \/ \E w \in wires' : w.init = j /\ w.take = c
          \/ \E x \in Users : \/ memory'[x].init = j /\ memory'[x].take = c
                              \/ ratchetFile'[x].init = j /\ ratchetFile'[x].take = c
      BY EndsOfFacts DEF EndsOf, Stored
    <3>2. CASE \E w \in wires' : w.init = j /\ w.take = c
      BY <1>5, <2>1, <3>2, EndsOfFacts
    <3>3. CASE \E x \in Users : memory'[x].init = j /\ memory'[x].take = c
      BY <1>t, <2>1, <3>3, EndsOfFacts DEF TypeOK, NoSession
    <3>4. CASE \E x \in Users : ratchetFile'[x].init = j /\ ratchetFile'[x].take = c
      BY <1>t, <2>1, <3>4, EndsOfFacts DEF TypeOK
    <3> QED
      BY <3>1, <3>2, <3>3, <3>4
  <2> QED
    BY <1>1, <2>1 DEF OneEndPerOpk, IInv
<1> QED
  BY <1>3, <1>4, <1>7, <1>8, <1>11, <1>12, <1>13 DEF IInv

\* The end that the first message of a run is of.
LEMMA FirstEnd ==
  ASSUME IInv, NEW u \in Users, pending[u] # NoInit
  PROVE  LET s == Advance(NewEnd(pending[u], 0))
         IN  /\ s \in Sessions /\ s.init = pending[u] /\ s.take = 0 /\ s.sent = 1
             /\ pending[u] \in Inits /\ initBy[pending[u]] = u
             /\ \A w \in wires : w.init # pending[u]
             /\ \A v \in Users : v # u => pending[v] # pending[u]
<1>1. pending[u] \in Inits
  BY DEF IInv, TypeOK
<1>2. /\ initBy[pending[u]] = u
      /\ \A w \in wires : w.init # pending[u]
      /\ \A v \in Users : v # u => pending[v] # pending[u]
  BY DEF IInv, PendingInv
<1>3. /\ NewEnd(pending[u], 0) \in Sessions /\ NewEnd(pending[u], 0).init = pending[u]
      /\ NewEnd(pending[u], 0).take = 0 /\ NewEnd(pending[u], 0).sent = 0
  BY <1>1, SessionFacts
<1> QED
  BY <1>1, <1>2, <1>3, SessionFacts

\* The message of an end is typed, and is numbered by the end's counter.
LEMMA WireFacts ==
  ASSUME IsFiniteSet(wires), NEW s \in Sessions, s.init \in Inits
  PROVE  /\ {Wire(s)} \in SUBSET WireSet /\ IsFiniteSet({Wire(s)})
         /\ Wire(s).init = s.init /\ Wire(s).take = s.take /\ Wire(s).n = s.sent + 1
<1>1. Cardinality(wires) \in Nat
  BY FS_CardinalityType
<1>2. IsFiniteSet({Wire(s)})
  BY FS_Singleton
<1> QED
  BY <1>1, <1>2 DEF Wire, WireSet, Sessions

LEMMA EncryptFirstKeepsIInv ==
  ASSUME IInv, NEW u \in Users, EncryptFirst(u)
  PROVE  IInv'
<1> DEFINE s == NewEnd(pending[u], 0)
<1>1. pending[u] # NoInit
  BY DEF EncryptFirst
<1>2. s \in Sessions /\ s.init = pending[u] /\ s.init \in Inits /\ s.take = 0 /\ s.sent = 0
  BY <1>1, FirstEnd, SessionFacts
<1>3. /\ {Wire(s)} \in SUBSET WireSet /\ IsFiniteSet({Wire(s)})
      /\ Wire(s).init = s.init /\ Wire(s).take = s.take /\ Wire(s).n = s.sent + 1
  BY <1>2, WireFacts DEF IInv, WiresInv
<1>4. /\ Set(pending, u, NoInit) /\ Set(memory, u, Advance(s)) /\ Set(ratchetFile, u, Advance(s))
      /\ metaFile' = [metaFile EXCEPT ![u] = TRUE] /\ wires' = wires \cup {Wire(s)}
      /\ UNCHANGED <<pool, initVars, opkFile, opkMemory>>
  BY DEF EncryptFirst, SetFiles, opkVars, Set
<1>5. metaFile' \in [Users -> BOOLEAN]
  BY <1>4 DEF IInv, TypeOK
<1>6. Set(opkMemory, u, opkMemory[u]) /\ opkMemory[u] \in SUBSET opkFile[u]
  BY <1>4 DEF Set, IInv, TypeOK, OpkInv
<1> HIDE DEF s
<1>7. /\ Advance(s) \in Sessions /\ Advance(s).init = s.init /\ Advance(s).take = 0
      /\ Advance(s).sent = s.sent + 1
  BY <1>2, SessionFacts
<1>8. /\ initBy[s.init] = u /\ \A w \in wires : w.init # s.init
      /\ \A v \in Users : v # u => pending[v] # s.init
  BY <1>1, <1>2, FirstEnd
<1> QED
  BY <1>2, <1>3, <1>4, <1>5, <1>6, <1>7, <1>8, EncryptKeepsIInv

LEMMA EncryptFirstStopsKeepsIInv ==
  ASSUME IInv, NEW u \in Users, NEW dies \in BOOLEAN, EncryptFirstStops(u, dies)
  PROVE  IInv'
<1> DEFINE s == Advance(NewEnd(pending[u], 0))
<1>1. pending[u] # NoInit
  BY DEF EncryptFirstStops
<1>2. /\ s \in Sessions /\ s.init = pending[u] /\ s.init \in Inits /\ s.take = 0
      /\ initBy[s.init] = u /\ \A w \in wires : w.init # s.init
      /\ \A v \in Users : v # u => pending[v] # s.init
  BY <1>1, FirstEnd
<1>3. PICK f \in {Files(u), <<s, metaFile[u]>>, <<s, TRUE>>} : SetFiles(u, f)
  BY DEF EncryptFirstStops
<1>4. UNCHANGED <<pool, initVars, opkFile, wires>>
  BY DEF EncryptFirstStops
<1>5. PICK m \in {memory[u], NoSession}, k \in {opkMemory[u], opkFile[u]} :
        Set(pending, u, NoInit) /\ Set(memory, u, m) /\ Set(opkMemory, u, k)
  BY <1>4 DEF EncryptFirstStops, Stop, Die, Set
<1>6. k \in SUBSET opkFile[u] /\ pool' \in [Users -> SUBSET Opks]
  BY <1>4, <1>5 DEF IInv, OpkInv, TypeOK
<1> HIDE DEF s
<1>7. PICK r \in {ratchetFile[u], s}, b \in BOOLEAN : Set(ratchetFile, u, r) /\ Set(metaFile, u, b)
  <2>1. metaFile[u] \in BOOLEAN
    BY DEF IInv, TypeOK
  <2>2. CASE f = Files(u)
    BY <1>3, <2>1, <2>2 DEF Files, SetFiles
  <2>3. CASE f = <<s, metaFile[u]>>
    BY <1>3, <2>1, <2>3 DEF SetFiles
  <2>4. CASE f = <<s, TRUE>>
    BY <1>3, <2>4 DEF SetFiles
  <2> QED
    BY <1>3, <2>2, <2>3, <2>4
<1>8. metaFile' \in [Users -> BOOLEAN]
  BY <1>7 DEF IInv, TypeOK, Set
<1>9. CASE r = ratchetFile[u]
  <2>1. m \in Sessions /\ Derived(u, m) /\ r \in Sessions /\ Derived(u, r)
    BY <1>5, <1>9, DerivedFacts DEF IInv
  <2>2. Quiet(u, 0, 0)
    BY <1>4, <1>5, <1>6, <1>7, <1>8, <2>1, LocalStepIsQuiet
  <2> QED
    BY <2>2, QuietKeepsIInv
<1>10. CASE r = s
  <2>1. IsFiniteSet({}) /\ {} \in SUBSET WireSet /\ wires' = wires \cup {}
    BY <1>4, FS_EmptySet
  <2> QED
    BY <1>2, <1>4, <1>5, <1>6, <1>7, <1>8, <1>10, <2>1, EncryptKeepsIInv
<1> QED
  BY <1>7, <1>9, <1>10

LEMMA EncryptNextKeepsIInv ==
  ASSUME IInv, NEW u \in Users, EncryptNext(u)
  PROVE  IInv'
<1> DEFINE s == Session(u)
<1>1. s # NoSession /\ pending[u] = NoInit
  BY DEF EncryptNext
<1>2. s \in Sessions /\ s \in {memory[u], ratchetFile[u]} /\ Mine(u, s)
  BY <1>1, LiveSession DEF IInv, SessionsInv
<1>3. /\ s.init \in Inits /\ initBy[s.init] = (IF s.take = 0 THEN u ELSE Peer(u))
      /\ \A w \in wires : w.init = s.init /\ w.take = s.take => w.n <= s.sent
  BY <1>1, <1>2 DEF Mine, Sessions
<1>4. /\ {Wire(s)} \in SUBSET WireSet /\ IsFiniteSet({Wire(s)})
      /\ Wire(s).init = s.init /\ Wire(s).take = s.take /\ Wire(s).n = s.sent + 1
  BY <1>2, <1>3, WireFacts DEF IInv, WiresInv
<1>5. /\ Set(memory, u, Advance(s)) /\ Set(ratchetFile, u, Advance(s))
      /\ wires' = wires \cup {Wire(s)}
      /\ UNCHANGED <<pool, initVars, pending, metaFile, opkFile, opkMemory>>
  BY DEF EncryptNext, opkVars
<1>6. /\ Set(opkMemory, u, opkMemory[u]) /\ opkMemory[u] \in SUBSET opkFile[u]
      /\ Set(pending, u, NoInit) /\ metaFile' \in [Users -> BOOLEAN]
  BY <1>1, <1>5 DEF Set, IInv, TypeOK, OpkInv
<1>7. s.take # 0 => s.take \in EndsOf(s.init)
  BY <1>2, EndsOfFacts
<1>8. \A v \in Users : pending[v] # s.init
  BY <1>2, <1>3 DEF IInv, PendingInv
<1> HIDE DEF s
<1>9. /\ Advance(s) \in Sessions /\ Advance(s).init = s.init /\ Advance(s).take = s.take
      /\ Advance(s).sent = s.sent + 1 /\ s.sent \in Nat
  BY <1>2, SessionFacts DEF Sessions
<1>10. \A w \in wires : w.init = s.init /\ w.take = s.take => w.n < s.sent + 1
  <2>1. \A w \in wires : w.n \in Nat
    BY DEF IInv, TypeOK, WireSet
  <2> QED
    BY <1>3, <1>9, <2>1
<1> QED
  BY <1>3, <1>4, <1>5, <1>6, <1>7, <1>8, <1>9, <1>10, EncryptKeepsIInv

-------------------------------------------------------------------------------
(* The theorems *)

LEMMA NextKeepsIInv ==
  ASSUME IInv, [Next]_vars
  PROVE  IInv'
<1>1. CASE UNCHANGED vars
  BY <1>1 DEF vars, initVars, sessionVars, opkVars, IInv, TypeOK, SessionsInv, Mine, WiresInv,
              PendingInv, OpkInv, KeysAreUsedOnce, OneEndPerOpk, EndsOf, Stored
<1>2. CASE Next
  <2>1. PICK u \in Users :
          \/ LoseBundle(u) \/ InitiateSession(u)
          \/ Encrypt(u) \/ \E dies \in BOOLEAN : EncryptStops(u, dies)
          \/ \E w \in wires :
               /\ Sender(w) = Peer(u)
               /\ \/ Decrypt(u, w) \/ DecryptFails(u, w)
                  \/ \E dies \in BOOLEAN : DecryptStops(u, w, dies)
          \/ ResetSession(u)
          \/ Crash(u)
    BY <1>2 DEF Next
  <2>2. CASE LoseBundle(u) \/ ResetSession(u) \/ Crash(u)
    BY <2>2, LocalStepKeepsIInv
  <2>3. CASE InitiateSession(u)
    BY <2>3, InitiateSessionKeepsIInv
  <2>4. CASE Encrypt(u)
    BY <2>4, EncryptFirstKeepsIInv, EncryptNextKeepsIInv DEF Encrypt
  <2>5. ASSUME NEW dies \in BOOLEAN, EncryptStops(u, dies) PROVE IInv'
    BY <2>5, EncryptFirstStopsKeepsIInv, LocalStepKeepsIInv DEF EncryptStops
  <2>6. ASSUME NEW w \in wires, Sender(w) = Peer(u), NEW dies \in BOOLEAN,
               Decrypt(u, w) \/ DecryptFails(u, w) \/ DecryptStops(u, w, dies)
        PROVE  IInv'
    BY <2>6, DecryptInitialKeepsIInv, LocalStepKeepsIInv
       DEF Decrypt, DecryptFails, DecryptStops
  <2> QED
    BY <2>1, <2>2, <2>3, <2>4, <2>5, <2>6
<1> QED
  BY <1>1, <1>2

THEOREM Invariance == Spec => []IInv
  BY InitIInv, NextKeepsIInv, PTL DEF Spec

\* Type correctness.
THEOREM TypeCorrectness == Spec => []TypeOK
<1>1. IInv => TypeOK
  BY DEF IInv
<1> QED
  BY <1>1, Invariance, PTL

\* No message key encrypts two messages: whatever handlers are stopped between two writes, a
\* session restored from disk is never behind a message that was returned.
THEOREM KeysAreNotReused == Spec => []KeysAreUsedOnce
<1>1. IInv => KeysAreUsedOnce
  BY DEF IInv
<1> QED
  BY <1>1, Invariance, PTL

\* A run with a one-time prekey gives the responder one end: the prekey leaves the keystore
\* before the session enters it.
THEOREM PrekeysServeOnce == Spec => []OneEndPerOpk
<1>1. IInv => OneEndPerOpk
  BY DEF IInv
<1> QED
  BY <1>1, Invariance, PTL

\* If every write succeeds, what is in memory is on disk to the last message.
THEOREM SessionsSurvive == Spec => []DiskHasSession
<1>1. Init => DiskHasSession
  BY DEF Init, DiskHasSession
<1>2. TypeOK /\ DiskHasSession /\ [Next]_vars => DiskHasSession'
  <2> SUFFICES ASSUME TypeOK, DiskHasSession, [Next]_vars, "disk" \notin Faults
               PROVE  DiskHasSession'
    BY DEF DiskHasSession
  <2> DEFINE OnDisk(u) == memory[u] # NoSession => ratchetFile[u] = memory[u] /\ metaFile[u] = TRUE
  <2>2. \A u \in Users : OnDisk(u)
    BY DEF DiskHasSession, TypeOK
  <2>3. DiskHasSession' <=> \A u \in Users : memory'[u] # NoSession =>
                              ratchetFile'[u] = memory'[u] /\ metaFile'[u]
    BY DEF DiskHasSession
  <2>4. CASE UNCHANGED vars
    BY <2>4 DEF vars, sessionVars, DiskHasSession
  <2>5. ASSUME NEW u \in Users,
               memory' = [memory EXCEPT ![u] = NoSession],
               \A v \in Users \ {u} : ratchetFile'[v] = ratchetFile[v] /\ metaFile'[v] = metaFile[v]
        PROVE  DiskHasSession'
    BY <2>2, <2>3, <2>5 DEF TypeOK
  <2>6. ASSUME NEW u \in Users, NEW s,
               memory' = [memory EXCEPT ![u] = s], ratchetFile' = [ratchetFile EXCEPT ![u] = s],
               \/ metaFile' = [metaFile EXCEPT ![u] = TRUE]
               \/ metaFile' = metaFile /\ (s # NoSession => Session(u) # NoSession)
        PROVE  DiskHasSession'
    <3>1. Session(u) # NoSession => metaFile[u] = TRUE
      BY <2>2 DEF Session, TypeOK
    <3>2. \A v \in Users \ {u} : memory'[v] = memory[v] /\ ratchetFile'[v] = ratchetFile[v]
                                 /\ metaFile'[v] = metaFile[v]
      BY <2>6 DEF TypeOK
    <3>3. memory'[u] = s /\ ratchetFile'[u] = s /\ (s # NoSession => metaFile'[u] = TRUE)
      BY <2>6, <3>1 DEF TypeOK
    <3> QED
      BY <2>2, <2>3, <3>2, <3>3
  <2>7. PICK u \in Users :
          \/ LoseBundle(u) \/ InitiateSession(u)
          \/ Encrypt(u) \/ \E dies \in BOOLEAN : EncryptStops(u, dies)
          \/ \E w \in wires :
               \/ Decrypt(u, w) \/ DecryptFails(u, w)
               \/ \E dies \in BOOLEAN : DecryptStops(u, w, dies)
          \/ ResetSession(u)
          \/ Crash(u)
          \/ UNCHANGED vars
    BY DEF Next, Users
  <2>8. ASSUME UNCHANGED <<memory, ratchetFile, metaFile>> PROVE DiskHasSession'
    BY <2>8 DEF DiskHasSession
  <2>9. CASE LoseBundle(u) \/ InitiateSession(u) \/ UNCHANGED vars
    BY <2>8, <2>9 DEF LoseBundle, InitiateSession, sessionVars, vars
  <2>10. ASSUME NEW f, SetFiles(u, f)
         PROVE  \A v \in Users \ {u} : ratchetFile'[v] = ratchetFile[v] /\ metaFile'[v] = metaFile[v]
    BY <2>10 DEF SetFiles, Set, TypeOK
  <2>11. ASSUME NEW s, Set(ratchetFile, u, s), metaFile' = metaFile
         PROVE  \A v \in Users \ {u} : ratchetFile'[v] = ratchetFile[v] /\ metaFile'[v] = metaFile[v]
    BY <2>11 DEF Set, TypeOK
  <2>12. CASE Encrypt(u)
    <3>1. CASE EncryptFirst(u)
      BY <2>6, <3>1 DEF EncryptFirst, SetFiles, Set
    <3>2. CASE EncryptNext(u)
      BY <2>6, <3>2 DEF EncryptNext, Set
    <3> QED
      BY <2>12, <3>1, <3>2 DEF Encrypt
  <2>13. ASSUME NEW dies \in BOOLEAN, EncryptStops(u, dies) PROVE DiskHasSession'
    <3>1. memory' = [memory EXCEPT ![u] = NoSession]
      BY <2>13 DEF EncryptStops, EncryptFirstStops, EncryptNextStops, Stop, Die, Set
    <3>2. CASE EncryptFirstStops(u, dies)
      BY <2>5, <2>10, <3>1, <3>2 DEF EncryptFirstStops
    <3>3. CASE EncryptNextStops(u, dies)
      BY <2>5, <2>11, <3>1, <3>3 DEF EncryptNextStops
    <3> QED
      BY <2>13, <3>2, <3>3 DEF EncryptStops
  <2>14. ASSUME NEW w, Decrypt(u, w) PROVE DiskHasSession'
    <3>1. CASE DecryptInitial(u, w)
      BY <2>6, <3>1 DEF DecryptInitial, SetFiles, Set
    <3>2. CASE DecryptNext(u, w)
      BY <2>6, <3>2 DEF DecryptNext, Accepts, Set
    <3> QED
      BY <2>14, <3>1, <3>2 DEF Decrypt
  <2>15. ASSUME NEW w, DecryptFails(u, w) PROVE DiskHasSession'
    <3>1. CASE DecryptInitialFails(u, w)
      BY <2>5, <2>10, <3>1 DEF DecryptInitialFails, Set
    <3>2. CASE DecryptNextFails(u, w)
      <4>1. Session(u) # NoSession => ratchetFile[u] = Session(u)
        BY <2>2 DEF Session
      <4>2. CASE Session(u) = NoSession
        BY <2>5, <3>2, <4>2 DEF DecryptNextFails, Set
      <4>3. CASE Session(u) # NoSession
        <5>1. ratchetFile' = [ratchetFile EXCEPT ![u] = Session(u)]
          BY <3>2, <4>1, <4>3 DEF DecryptNextFails, TypeOK
        <5> QED
          BY <2>6, <3>2, <4>3, <5>1 DEF DecryptNextFails, Set
      <4> QED
        BY <4>2, <4>3
    <3> QED
      BY <2>15, <3>1, <3>2 DEF DecryptFails
  <2>16. ASSUME NEW w, NEW dies \in BOOLEAN, DecryptStops(u, w, dies) PROVE DiskHasSession'
    <3>1. memory' = [memory EXCEPT ![u] = NoSession]
      BY <2>16 DEF DecryptStops, DecryptInitialStops, DecryptNextStops,
                         DecryptInitialWipes, Stop, Die, Set
    <3>2. CASE DecryptInitialWipes(u, w)
      <4>1. \A v \in Users \ {u} : ratchetFile'[v] = ratchetFile[v] /\ metaFile'[v] = metaFile[v]
        BY <3>2 DEF DecryptInitialWipes, SetFiles, Set, TypeOK
      <4> QED
        BY <2>5, <3>1, <4>1
    <3>3. CASE DecryptInitialStops(u, w, dies)
      <4>1. CASE \E f \in Wipe(u) : SetFiles(u, f)
        BY <2>5, <2>10, <3>1, <4>1
      <4>2. CASE \E f \in Wipe(u) : \E r \in Takes, m \in {f[2], TRUE} :
                   SetFiles(u, <<ResponderEnd(w, r), m>>)
        BY <2>5, <2>10, <3>1, <4>2
      <4> QED
        BY <3>3, <4>1, <4>2 DEF DecryptInitialStops
    <3>4. CASE DecryptNextStops(u, w, dies)
      BY <2>5, <2>11, <3>1, <3>4 DEF DecryptNextStops
    <3> QED
      BY <2>16, <3>2, <3>3, <3>4 DEF DecryptStops
  <2>17. CASE ResetSession(u)
    BY <2>5, <2>10, <2>17 DEF ResetSession, Set
  <2>18. CASE Crash(u)
    BY <2>5, <2>18 DEF Crash, Die, Set
  <2> QED
    BY <2>7, <2>9, <2>12, <2>13, <2>14, <2>15, <2>16, <2>17, <2>18
<1> QED
  BY <1>1, <1>2, TypeCorrectness, PTL DEF Spec

HIDE DEF NoInit, Inits, Takes

-------------------------------------------------------------------------------
(* The clients and the queue: facts about sequences *)

LEMMA ToSetFacts ==
  ASSUME NEW S, NEW q \in Seq(S)
  PROVE  /\ ToSet(q) \subseteq S
         /\ \A i \in 1 .. Len(q) : q[i] \in ToSet(q)
         /\ \A T : S \subseteq T => q \in Seq(T)
<1>1. ASSUME NEW T, S \subseteq T PROVE q \in Seq(T)
  BY <1>1
<1> QED
  BY <1>1 DEF ToSet

LEMMA ToSetOfAppend ==
  ASSUME NEW S, NEW q \in Seq(S), NEW x \in S
  PROVE  Append(q, x) \in Seq(S) /\ ToSet(Append(q, x)) = ToSet(q) \cup {x}
<1>1. /\ Append(q, x) \in Seq(S) /\ Len(Append(q, x)) = Len(q) + 1
      /\ \A i \in 1 .. Len(q) : Append(q, x)[i] = q[i]
      /\ Append(q, x)[Len(q) + 1] = x
  BY AppendProperties
<1> QED
  BY <1>1 DEF ToSet

LEMMA ToSetOfConcat ==
  ASSUME NEW S, NEW q \in Seq(S), NEW r \in Seq(S)
  PROVE  q \o r \in Seq(S) /\ ToSet(q \o r) = ToSet(q) \cup ToSet(r)
<1>1. /\ q \o r \in Seq(S) /\ Len(q \o r) = Len(q) + Len(r)
      /\ \A i \in 1 .. Len(q) : (q \o r)[i] = q[i]
      /\ \A i \in 1 .. Len(r) : (q \o r)[Len(q) + i] = r[i]
  BY ConcatProperties
<1>2. ASSUME NEW i \in 1 .. Len(q) + Len(r) PROVE (q \o r)[i] \in ToSet(q) \cup ToSet(r)
  <2>1. CASE i \in 1 .. Len(q)
    BY <1>1, <2>1, ToSetFacts
  <2>2. CASE i - Len(q) \in 1 .. Len(r)
    <3>1. i = Len(q) + (i - Len(q))
      OBVIOUS
    <3>2. (q \o r)[i] = r[i - Len(q)]
      BY <1>1, <2>2, <3>1
    <3> QED
      BY <2>2, <3>2, ToSetFacts
  <2>3. i \in 1 .. Len(q) \/ i - Len(q) \in 1 .. Len(r)
    OBVIOUS
  <2> QED
    BY <2>1, <2>2, <2>3
<1>3. ASSUME NEW i \in 1 .. Len(q) PROVE q[i] \in ToSet(q \o r)
  <2>1. i \in 1 .. Len(q \o r)
    BY <1>1
  <2> QED
    BY <1>1, <2>1, ToSetFacts
<1>4. ASSUME NEW i \in 1 .. Len(r) PROVE r[i] \in ToSet(q \o r)
  <2>1. Len(q) + i \in 1 .. Len(q \o r)
    BY <1>1
  <2> QED
    BY <1>1, <2>1, ToSetFacts
<1>5. ToSet(q \o r) \subseteq ToSet(q) \cup ToSet(r)
  <2>1. ASSUME NEW x \in ToSet(q \o r) PROVE x \in ToSet(q) \cup ToSet(r)
    <3>1. PICK i \in 1 .. Len(q) + Len(r) : x = (q \o r)[i]
      BY <1>1, <2>1 DEF ToSet
    <3> QED
      BY <1>2, <3>1
  <2> QED
    BY <2>1
<1>6. ToSet(q) \subseteq ToSet(q \o r) /\ ToSet(r) \subseteq ToSet(q \o r)
  <2>1. ToSet(q) = {q[i] : i \in 1 .. Len(q)} /\ ToSet(r) = {r[i] : i \in 1 .. Len(r)}
    BY DEF ToSet
  <2> QED
    BY <1>3, <1>4, <2>1
<1> QED
  BY <1>1, <1>5, <1>6

LEMMA ToSetOfTail ==
  ASSUME NEW S, NEW q \in Seq(S), q # <<>>
  PROVE  /\ Head(q) \in ToSet(q) /\ Tail(q) \in Seq(S)
         /\ ToSet(q) = ToSet(Tail(q)) \cup {Head(q)}
<1>1. /\ Len(q) \in Nat /\ Len(q) >= 1 /\ Head(q) = q[1]
      /\ Tail(q) \in Seq(S) /\ Len(Tail(q)) = Len(q) - 1
      /\ \A i \in 1 .. Len(q) - 1 : Tail(q)[i] = q[i + 1]
  BY HeadTailProperties
<1>2. ASSUME NEW i \in 1 .. Len(q) - 1 PROVE Tail(q)[i] \in ToSet(q)
  <2>1. i + 1 \in 1 .. Len(q)
    BY <1>1
  <2> QED
    BY <1>1, <2>1, ToSetFacts
<1>3. ASSUME NEW i \in 1 .. Len(q), i # 1 PROVE q[i] \in ToSet(Tail(q))
  <2>1. i - 1 \in 1 .. Len(Tail(q)) /\ (i - 1) + 1 = i
    BY <1>1, <1>3
  <2>2. Tail(q)[i - 1] = q[i]
    BY <1>1, <2>1
  <2> QED
    BY <1>1, <2>1, <2>2, ToSetFacts
<1>4. Head(q) \in ToSet(q)
  <2>1. 1 \in 1 .. Len(q)
    BY <1>1
  <2> QED
    BY <1>1, <2>1, ToSetFacts
<1> QED
  BY <1>1, <1>2, <1>3, <1>4 DEF ToSet

\* Removing one place of a sequence loses at most what was there.
LEMMA RemoveAtFacts ==
  ASSUME NEW S, NEW q \in Seq(S), NEW i \in DOMAIN q
  PROVE  /\ RemoveAt(q, i) \in Seq(S)
         /\ ToSet(RemoveAt(q, i)) \subseteq ToSet(q)
         /\ ToSet(q) \subseteq ToSet(RemoveAt(q, i)) \cup {q[i]}
<1> DEFINE a == SubSeq(q, 1, i - 1)
           b == SubSeq(q, i + 1, Len(q))
<1>1. /\ a \in Seq(S) /\ Len(a) = i - 1 /\ \A j \in 1 .. i - 1 : a[j] = q[j]
  <2>1. \A j \in 1 .. i - 1 : q[j] \in S
    OBVIOUS
  <2> QED
    BY <2>1, SubSeqProperties
<1>2. /\ b \in Seq(S) /\ Len(b) = Len(q) - i /\ \A j \in 1 .. Len(q) - i : b[j] = q[i + j]
  <2>1. \A j \in i + 1 .. Len(q) : q[j] \in S
    OBVIOUS
  <2> QED
    BY <2>1, SubSeqProperties
<1>3. a \o b \in Seq(S) /\ ToSet(a \o b) = ToSet(a) \cup ToSet(b)
  <2> HIDE DEF a, b
  <2> QED
    BY <1>1, <1>2, ToSetOfConcat
<1>4. ToSet(a) \subseteq ToSet(q)
  BY <1>1 DEF ToSet
<1>5. ToSet(b) \subseteq ToSet(q)
  <2>1. ASSUME NEW j \in 1 .. Len(q) - i PROVE b[j] \in ToSet(q)
    <3>1. i + j \in DOMAIN q
      OBVIOUS
    <3> QED
      BY <1>2, <3>1 DEF ToSet
  <2> QED
    BY <1>2, <2>1 DEF ToSet
<1>6. ASSUME NEW j \in DOMAIN q PROVE q[j] \in ToSet(a) \cup ToSet(b) \cup {q[i]}
  <2>1. CASE j < i
    <3>1. j \in 1 .. i - 1
      BY <2>1
    <3>2. j \in DOMAIN a /\ a[j] = q[j]
      BY <1>1, <3>1
    <3> QED
      BY <3>2 DEF ToSet
  <2>2. CASE j > i
    <3>1. j - i \in 1 .. Len(q) - i /\ i + (j - i) = j
      BY <2>2
    <3>2. j - i \in DOMAIN b /\ b[j - i] = q[j]
      BY <1>2, <3>1
    <3> QED
      BY <3>2 DEF ToSet
  <2> QED
    BY <2>1, <2>2
<1> QED
  BY <1>3, <1>4, <1>5, <1>6 DEF RemoveAt, ToSet

-------------------------------------------------------------------------------
(* What a step of a service does to the messages there are *)

\* Only encrypt_message makes messages, and only initiate_session makes runs.
LEMMA DecryptsMakeNothing ==
  ASSUME NEW u, NEW w, NEW dies,
         Decrypt(u, w) \/ DecryptFails(u, w) \/ DecryptStops(u, w, dies) \/ Crash(u)
  PROVE  UNCHANGED <<initVars, wires>>
  BY DEF Decrypt, DecryptInitial, DecryptNext, DecryptFails, DecryptInitialFails,
         DecryptNextFails, DecryptStops, DecryptInitialStops, DecryptNextStops,
         DecryptInitialWipes, Crash

\* Messages are never taken back, and keep their sender.
LEMMA WiresStay ==
  ASSUME IInv, [Next]_vars
  PROVE  wires \subseteq wires' /\ \A w \in wires : Sender(w)' = Sender(w)
<1>1. UNCHANGED <<initVars, wires>> \/ \E u \in Users : InitiateSession(u) \/ Encrypt(u)
  <2>1. ASSUME NEW u \in Users, NEW w, NEW dies,
               Decrypt(u, w) \/ DecryptFails(u, w) \/ DecryptStops(u, w, dies)
        PROVE  UNCHANGED <<initVars, wires>>
    BY <2>1, DecryptsMakeNothing
  <2>2. ASSUME NEW u \in Users, NEW dies,
               LoseBundle(u) \/ EncryptStops(u, dies) \/ ResetSession(u) \/ Crash(u)
        PROVE  UNCHANGED <<initVars, wires>>
    BY <2>2 DEF LoseBundle, EncryptStops, EncryptFirstStops, EncryptNextStops,
                ResetSession, Crash
  <2>3. UNCHANGED vars => UNCHANGED <<initVars, wires>>
    BY DEF vars
  <2> QED
    BY <2>1, <2>2, <2>3 DEF Next
<1>2. CASE UNCHANGED <<initVars, wires>>
  BY <1>2 DEF Sender, initVars
<1>3. CASE \E u \in Users : Encrypt(u)
  BY <1>3 DEF Sender, Encrypt, EncryptFirst, EncryptNext, initVars
<1>4. CASE \E u \in Users : InitiateSession(u)
  <2>1. PICK u \in Users : InitiateSession(u)
    BY <1>4
  <2>2. wires' = wires
    BY <2>1 DEF InitiateSession
  <2>3. ASSUME NEW w \in wires PROVE Sender(w)' = Sender(w)
    <3>1. w.init \in Inits /\ initBy[w.init] # Nobody /\ initBy \in [Inits -> Users \cup {Nobody}]
      BY DEF IInv, TypeOK, WiresInv, WireSet
    <3>2. PICK i \in Inits : /\ initBy' = [initBy EXCEPT ![i] = u]
                             /\ \A j \in Inits : initBy[j] = Nobody <=> j >= i
      BY <2>1 DEF InitiateSession
    <3>3. initBy[i] = Nobody
      BY <3>2 DEF Inits
    <3> QED
      BY <3>1, <3>2, <3>3 DEF Sender
  <2> QED
    BY <2>2, <2>3
<1> QED
  BY <1>1, <1>2, <1>3, <1>4

-------------------------------------------------------------------------------
(* The clients use their services as CryptoService allows *)

\* The service is given messages of the peer only.
LEMMA BacklogIsRouted ==
  ASSUME MInv, NEW u \in Users, backlog[u] # <<>>
  PROVE  /\ Head(backlog[u]) \in wires /\ Sender(Head(backlog[u])) = Peer(u)
         /\ Head(backlog[u]) \in ToSet(backlog[u])
         /\ Tail(backlog[u]) \in Seq(wires)
         /\ ToSet(backlog[u]) = ToSet(Tail(backlog[u])) \cup {Head(backlog[u])}
<1>1. backlog[u] \in Seq(wires)
  BY DEF MInv, MTypeOK
<1>2. /\ Head(backlog[u]) \in ToSet(backlog[u]) /\ Tail(backlog[u]) \in Seq(wires)
      /\ ToSet(backlog[u]) = ToSet(Tail(backlog[u])) \cup {Head(backlog[u])}
  BY <1>1, ToSetOfTail
<1>3. Head(backlog[u]) \in wires
  BY <1>1, <1>2, ToSetFacts
<1> QED
  BY <1>2, <1>3 DEF MInv, Routed

LEMMA DecryptIsNext ==
  ASSUME NEW u \in Users, NEW w \in wires, Sender(w) = Peer(u), NEW dies \in BOOLEAN,
         Decrypt(u, w) \/ DecryptFails(u, w) \/ DecryptStops(u, w, dies) \/ Crash(u)
  PROVE  Next
  BY DEF Next

LEMMA ProcessUsesService ==
  ASSUME MInv, NEW u \in Users, Process(u)
  PROVE  [Next]_vars /\ wires' = wires
<1>1. PICK w : /\ w = Head(backlog[u])
               /\ \/ up[u] /\ (Answered(u, w) \/ Unanswered(u, w))
                  \/ Unreachable(u, w)
  BY DEF Process
<1>2. w \in wires /\ Sender(w) = Peer(u)
  BY <1>1, BacklogIsRouted DEF Process
<1>3. \/ \E dies \in BOOLEAN :
           Decrypt(u, w) \/ DecryptFails(u, w) \/ DecryptStops(u, w, dies) \/ Crash(u)
      \/ ResetSession(u)
      \/ UNCHANGED vars
  BY <1>1 DEF Answered, Reinitiate, Unanswered, Unreachable
<1>4. CASE UNCHANGED vars
  BY <1>4 DEF vars
<1>6. CASE ResetSession(u)
  BY <1>6 DEF ResetSession, Next
<1>5. ASSUME NEW dies \in BOOLEAN,
             Decrypt(u, w) \/ DecryptFails(u, w) \/ DecryptStops(u, w, dies) \/ Crash(u)
      PROVE  Next /\ wires' = wires
  BY <1>2, <1>5, DecryptIsNext, DecryptsMakeNothing
<1> QED
  BY <1>3, <1>4, <1>5, <1>6

LEMMA AppRestartsUsesService ==
  ASSUME MInv, NEW u \in Users, AppRestarts(u)
  PROVE  [Next]_vars /\ wires' = wires
<1>1. CASE UNCHANGED vars
  BY <1>1 DEF vars
<1>2. CASE /\ backlog[u] # <<>>
           /\ \E w \in {Head(backlog[u])} : Decrypt(u, w) \/ DecryptFails(u, w)
  <2>1. PICK w \in wires : Sender(w) = Peer(u) /\ (Decrypt(u, w) \/ DecryptFails(u, w))
    BY <1>2, BacklogIsRouted
  <2>2. Next
    BY <2>1, DecryptIsNext
  <2>3. wires' = wires
    BY <2>1, DecryptsMakeNothing
  <2> QED
    BY <2>2, <2>3
<1> QED
  BY <1>1, <1>2 DEF AppRestarts

\* Every step of the messenger is a step of CryptoService, or leaves the services alone.
LEMMA UsesService ==
  ASSUME MInv, [MNext]_allVars
  PROVE  [Next]_vars
<1>1. CASE UNCHANGED allVars
  BY <1>1 DEF allVars
<1>2. ASSUME NEW w \in air, PostArrives(w) PROVE [Next]_vars
  BY <1>2 DEF PostArrives
<1>3. ASSUME NEW u \in Users,
             \/ OpenConversation(u) \/ Pull(u) \/ \E w \in acks[u] : AckArrives(u, w)
      PROVE  [Next]_vars
  BY <1>3 DEF OpenConversation, Pull, AckArrives
<1>4. ASSUME NEW u \in Users, BundleArrives(u) \/ Send(u) \/ ServiceDies(u) PROVE [Next]_vars
  BY <1>4 DEF BundleArrives, Send, ServiceDies, Next
<1> QED
  BY <1>1, <1>2, <1>3, <1>4, ProcessUsesService, AppRestartsUsesService DEF MNext

-------------------------------------------------------------------------------
(* The invariant of the messenger *)

LEMMA InitMInv == MInit => MInv
<1> SUFFICES ASSUME MInit PROVE MInv
  OBVIOUS
<1>1. IInv
  BY InitIInv DEF MInit
<1>2. \A u \in Users : /\ queue[u] = <<>> /\ backlog[u] = <<>>
                       /\ ToSet(queue[u]) = {} /\ ToSet(backlog[u]) = {}
                       /\ acks[u] = {} /\ shown[u] = {} /\ lost[u] = {}
  BY DEF MInit, ToSet
<1>3. MTypeOK
  BY <1>1 DEF IInv, MInit, MTypeOK
<1> QED
  BY <1>1, <1>2, <1>3 DEF MInv, Routed, Kept, AirIsNew, MInit

\* What the clients and the server hold is of the messages there are, also of those there
\* will be.
LEMMA TypesGrow ==
  ASSUME MTypeOK, wires \subseteq wires'
  PROVE  /\ queue \in [Users -> Seq(wires')] /\ backlog \in [Users -> Seq(wires')]
         /\ acks \in [Users -> SUBSET wires']
         /\ shown \in [Users -> SUBSET wires'] /\ lost \in [Users -> SUBSET wires']
<1>1. ASSUME NEW f \in [Users -> Seq(wires)] PROVE f \in [Users -> Seq(wires')]
  <2>1. ASSUME NEW u \in Users PROVE f[u] \in Seq(wires')
    <3>1. f[u] \in Seq(wires)
      OBVIOUS
    <3> QED
      BY <3>1, ToSetFacts
  <2> QED
    BY <2>1
<1> QED
  BY <1>1 DEF MTypeOK

\* Steps that leave the server's queue and what the clients hold of it alone.
LEMMA QuietMail ==
  ASSUME MInv, IInv', wires \subseteq wires', \A w \in wires : Sender(w)' = Sender(w),
         up' \in [Users -> BOOLEAN], fetching' \in [Users -> BOOLEAN],
         air' \subseteq air \cup (wires' \ wires),
         UNCHANGED <<queue, acks, backlog, shown, lost>>
  PROVE  MInv'
<1>1. \A u \in Users : /\ ToSet(queue[u]) \subseteq wires /\ ToSet(backlog[u]) \subseteq wires
                       /\ shown[u] \subseteq wires /\ lost[u] \subseteq wires
  BY ToSetFacts DEF MInv, MTypeOK
<1>2. MTypeOK'
  BY TypesGrow DEF MInv, MTypeOK, IInv
<1>3. Routed'
  BY <1>1 DEF MInv, Routed
<1>4. Kept'
  BY DEF MInv, Kept
<1>5. AirIsNew'
  BY <1>1 DEF MInv, AirIsNew
<1> QED
  BY <1>2, <1>3, <1>4, <1>5 DEF MInv

\* A client stores the next message, and acknowledges it.
LEMMA ProcessKeepsMInv ==
  ASSUME MInv, IInv', NEW u \in Users, Process(u)
  PROVE  MInv'
<1>1. wires' = wires /\ \A v \in wires : Sender(v)' = Sender(v)
  BY ProcessUsesService, WiresStay DEF MInv
<1>2. PICK w : /\ w = Head(backlog[u])
               /\ \/ up[u] /\ (Answered(u, w) \/ Unanswered(u, w))
                  \/ Unreachable(u, w)
  BY DEF Process
<1>3. /\ w \in wires /\ w \in ToSet(backlog[u]) /\ Tail(backlog[u]) \in Seq(wires)
      /\ ToSet(Tail(backlog[u])) \subseteq ToSet(backlog[u])
  BY <1>2, BacklogIsRouted DEF Process
<1>4. /\ acks' = [acks EXCEPT ![u] = @ \cup {w}]
      /\ \/ /\ shown' = [shown EXCEPT ![u] = @ \cup {w}] /\ lost' = [lost EXCEPT ![u] = @ \ {w}]
         \/ shown' = shown /\ lost' = [lost EXCEPT ![u] = @ \cup ({w} \ shown[u])]
  BY <1>2 DEF Answered, Unanswered, Unreachable, Store, GiveUp, Set, MInv, MTypeOK
<1>5. up' \in [Users -> BOOLEAN] /\ fetching' \in [Users -> BOOLEAN]
  <2> MTypeOK
    BY DEF MInv
  <2>1. /\ fetching' \in {fetching, [fetching EXCEPT ![u] = TRUE]}
        /\ up' = up \/ \E b \in BOOLEAN : up' = [up EXCEPT ![u] = b]
    BY <1>2 DEF Answered, Reinitiate, Unanswered, Unreachable, Store, Set, MTypeOK
  <2>2. [fetching EXCEPT ![u] = TRUE] \in [Users -> BOOLEAN]
    BY Zenon DEF MTypeOK
  <2>3. \A b \in BOOLEAN : [up EXCEPT ![u] = b] \in [Users -> BOOLEAN]
    BY Zenon DEF MTypeOK
  <2> QED
    BY <2>1, <2>2, <2>3 DEF MTypeOK
<1>6. backlog' = [backlog EXCEPT ![u] = Tail(@)] /\ UNCHANGED <<air, queue>>
  BY DEF Process, Set
<1>7. MTypeOK'
  <2> MTypeOK
    BY DEF MInv
  <2>1. TypeOK' /\ air' \subseteq wires'
    BY <1>1, <1>6 DEF IInv, MTypeOK
  <2>2. acks' \in [Users -> SUBSET wires]
    BY <1>3, <1>4 DEF MTypeOK
  <2>3. shown' \in [Users -> SUBSET wires] /\ lost' \in [Users -> SUBSET wires]
    <3>1. /\ shown[u] \cup {w} \in SUBSET wires /\ lost[u] \ {w} \in SUBSET wires
          /\ lost[u] \cup ({w} \ shown[u]) \in SUBSET wires
      BY <1>3 DEF MTypeOK
    <3>2. \A X \in SUBSET wires : /\ [shown EXCEPT ![u] = X] \in [Users -> SUBSET wires]
                                  /\ [lost EXCEPT ![u] = X] \in [Users -> SUBSET wires]
      BY DEF MTypeOK
    <3>3. \/ /\ shown' = [shown EXCEPT ![u] = shown[u] \cup {w}]
             /\ lost' = [lost EXCEPT ![u] = lost[u] \ {w}]
          \/ shown' = shown /\ lost' = [lost EXCEPT ![u] = lost[u] \cup ({w} \ shown[u])]
      BY <1>4 DEF MTypeOK
    <3>4. shown \in [Users -> SUBSET wires]
      BY DEF MTypeOK
    <3> HIDE DEF MTypeOK
    <3> QED
      BY <3>1, <3>2, <3>3, <3>4
  <2>4. queue' \in [Users -> Seq(wires)] /\ backlog' \in [Users -> Seq(wires)]
    BY <1>3, <1>6 DEF MTypeOK
  <2> QED
    BY <1>1, <1>5, <2>1, <2>2, <2>3, <2>4 DEF MTypeOK
<1>8. \A v \in Users : ToSet(backlog'[v]) \subseteq ToSet(backlog[v]) /\ queue'[v] = queue[v]
  BY <1>3, <1>6 DEF MInv, MTypeOK
<1>9. Routed'
  <2>1. \A v \in Users : ToSet(queue[v]) \subseteq wires /\ ToSet(backlog[v]) \subseteq wires
    BY ToSetFacts DEF MInv, MTypeOK
  <2> QED
    BY <1>1, <1>8, <2>1 DEF MInv, Routed
<1>10. \A v \in Users : /\ shown[v] \cup lost[v] \subseteq shown'[v] \cup lost'[v]
                        /\ shown'[v] \cup lost'[v] \subseteq
                             shown[v] \cup lost[v] \cup ToSet(backlog[v])
                        /\ acks'[v] \subseteq acks[v] \cup {w}
                        /\ v # u => acks'[v] = acks[v]
                        /\ shown'[v] \cap lost'[v] = {}
  BY <1>3, <1>4 DEF MInv, MTypeOK, Kept
<1>11. w \in shown'[u] \cup lost'[u]
  BY <1>4 DEF MInv, MTypeOK
<1>12. Kept'
  BY <1>6, <1>8, <1>10, <1>11 DEF MInv, Kept
<1>13. AirIsNew'
  BY <1>6, <1>8, <1>10 DEF MInv, Kept, AirIsNew
<1> QED
  BY <1>7, <1>9, <1>12, <1>13 DEF MInv

LEMMA PullKeepsMInv ==
  ASSUME MInv, IInv', NEW u \in Users, Pull(u)
  PROVE  MInv'
<1> MTypeOK
  BY DEF MInv
<1>1. /\ UNCHANGED <<initVars, wires, air, queue, acks, up, fetching, shown, lost>>
      /\ backlog' = [backlog EXCEPT ![u] = backlog[u] \o queue[u]]
  BY DEF Pull, Set, vars, mailVars
<1>2. /\ backlog[u] \o queue[u] \in Seq(wires)
      /\ ToSet(backlog[u] \o queue[u]) = ToSet(backlog[u]) \cup ToSet(queue[u])
  BY ToSetOfConcat DEF MTypeOK
<1>3. \A v \in Users : ToSet(backlog'[v]) \subseteq ToSet(backlog[v]) \cup ToSet(queue[v])
  BY <1>1, <1>2 DEF MTypeOK
<1>4. backlog' \in [Users -> Seq(wires)]
  BY <1>1, <1>2 DEF MTypeOK
<1>5. MTypeOK'
  BY <1>1, <1>4 DEF MTypeOK, IInv
<1>6. Routed' /\ Kept' /\ AirIsNew'
  BY <1>1, <1>3 DEF MInv, Routed, Kept, AirIsNew, Sender, initVars
<1> QED
  BY <1>5, <1>6 DEF MInv

LEMMA PostKeepsMInv ==
  ASSUME MInv, IInv', NEW w \in air, PostArrives(w)
  PROVE  MInv'
<1> MTypeOK
  BY DEF MInv
<1> DEFINE p == Peer(Sender(w))
<1>1. UNCHANGED <<initVars, wires, acks, up, fetching, backlog, shown, lost>>
  BY DEF PostArrives, vars, clientVars
<1>2. w \in wires
  BY DEF MTypeOK
<1>3. Sender(w) \in Users
  <2>1. /\ w.init \in Inits /\ initBy \in [Inits -> Users \cup {Nobody}]
        /\ initBy[w.init] # Nobody
    BY <1>2 DEF MInv, IInv, TypeOK, WiresInv, WireSet
  <2> QED
    BY <2>1, PeerFacts DEF Sender
<1>4. p \in Users /\ Sender(w) = Peer(p)
  BY <1>3, PeerFacts
<1>5. /\ queue' = [queue EXCEPT ![p] = Append(@, w)]
      /\ Append(queue[p], w) \in Seq(wires)
      /\ ToSet(Append(queue[p], w)) = ToSet(queue[p]) \cup {w}
  BY <1>2, <1>4, ToSetOfAppend DEF PostArrives, MTypeOK
<1> HIDE DEF p
<1>6. queue' \in [Users -> Seq(wires)]
  BY <1>5 DEF MTypeOK
<1>7. \A v \in Users : /\ v # p => ToSet(queue'[v]) = ToSet(queue[v])
                       /\ v = p => ToSet(queue'[v]) = ToSet(queue[v]) \cup {w}
  BY <1>5 DEF MTypeOK
<1>8. air' = air \ {w}
  BY DEF PostArrives
<1>9. MTypeOK'
  BY <1>1, <1>6, <1>8 DEF MTypeOK, IInv
<1>10. Routed'
  BY <1>1, <1>4, <1>7 DEF MInv, Routed, Sender, initVars
<1>11. Kept'
  BY <1>1, <1>7 DEF MInv, Kept
<1>12. AirIsNew'
  BY <1>1, <1>7, <1>8 DEF MInv, AirIsNew
<1> QED
  BY <1>9, <1>10, <1>11, <1>12 DEF MInv

\* What an acknowledgement does to the rows of its recipient.
LEMMA AckFacts ==
  ASSUME MTypeOK, NEW u \in Users, NEW w \in acks[u], AckArrives(u, w)
  PROVE  /\ queue' \in [Users -> Seq(wires)]
         /\ \A v \in Users \ {u} : queue'[v] = queue[v]
         /\ ToSet(queue'[u]) \in {ToSet(queue[u]), ToSet(queue[u]) \ {w}}
<1>1. CASE \E i \in DOMAIN queue[u] : queue[u][i] = w /\ Set(queue, u, RemoveAt(queue[u], i))
  <2>1. PICK i \in DOMAIN queue[u] : queue[u][i] = w /\ Set(queue, u, RemoveAt(queue[u], i))
    BY <1>1
  <2>2. queue[u] \in Seq(wires)
    BY DEF MTypeOK
  <2>3. /\ RemoveAt(queue[u], i) \in Seq(wires)
        /\ ToSet(RemoveAt(queue[u], i)) \subseteq ToSet(queue[u])
        /\ ToSet(queue[u]) \subseteq ToSet(RemoveAt(queue[u], i)) \cup {w}
    BY <2>1, <2>2, RemoveAtFacts
  <2> QED
    BY <2>1, <2>3 DEF Set, MTypeOK
<1>2. CASE w \notin ToSet(queue[u]) /\ queue' = queue
  BY <1>2 DEF MTypeOK
<1> QED
  BY <1>1, <1>2 DEF AckArrives

LEMMA AckKeepsMInv ==
  ASSUME MInv, IInv', NEW u \in Users, NEW w \in acks[u], AckArrives(u, w)
  PROVE  MInv'
<1> MTypeOK
  BY DEF MInv
<1>1. /\ UNCHANGED <<initVars, wires, air, up, fetching, backlog, shown, lost>>
      /\ acks' = [acks EXCEPT ![u] = acks[u] \ {w}]
  BY DEF AckArrives, Set, vars, clientVars
<1>2. w \in shown[u] \cup lost[u]
  BY DEF MInv, Kept
<1>3. \A v \in Users : /\ ToSet(queue'[v]) \subseteq ToSet(queue[v])
                       /\ ToSet(queue[v]) \subseteq ToSet(queue'[v]) \cup shown[v] \cup lost[v]
                       /\ acks'[v] \subseteq acks[v]
  <2>1. \A v \in Users : acks'[v] \subseteq acks[v]
    BY <1>1 DEF MTypeOK
  <2>2. ASSUME NEW v \in Users \ {u} PROVE ToSet(queue'[v]) = ToSet(queue[v])
    BY AckFacts
  <2>3. ToSet(queue'[u]) \in {ToSet(queue[u]), ToSet(queue[u]) \ {w}}
    BY AckFacts
  <2> QED
    BY <1>2, <2>1, <2>2, <2>3
<1>4. MTypeOK'
  <2>1. acks' \in [Users -> SUBSET wires]
    BY <1>1 DEF MTypeOK
  <2> QED
    BY <1>1, <2>1, AckFacts DEF MTypeOK, IInv
<1>5. Routed' /\ Kept' /\ AirIsNew'
  BY <1>1, <1>3 DEF MInv, Routed, Kept, AirIsNew, Sender, initVars
<1> QED
  BY <1>4, <1>5 DEF MInv

LEMMA RestartKeepsMInv ==
  ASSUME MInv, IInv', NEW u \in Users, AppRestarts(u)
  PROVE  MInv'
<1> MTypeOK
  BY DEF MInv
<1>1. wires' = wires /\ \A v \in wires : Sender(v)' = Sender(v)
  BY AppRestartsUsesService, WiresStay DEF MInv
<1>2. /\ UNCHANGED <<air, queue, acks, shown, lost>>
      /\ up' = [up EXCEPT ![u] = TRUE] /\ fetching' = [fetching EXCEPT ![u] = FALSE]
      /\ backlog' = [backlog EXCEPT ![u] = <<>>]
  BY DEF AppRestarts, Set, mailVars
<1>3. up' \in [Users -> BOOLEAN] /\ fetching' \in [Users -> BOOLEAN]
  BY <1>2 DEF MTypeOK
<1>4. backlog' \in [Users -> Seq(wires)]
  BY <1>2 DEF MTypeOK
<1>5. MTypeOK'
  BY <1>1, <1>2, <1>3, <1>4 DEF MTypeOK, IInv
<1>6. ToSet(<<>>) = {}
  BY DEF ToSet
<1>7. \A v \in Users : /\ ToSet(queue[v]) \subseteq wires /\ ToSet(backlog[v]) \subseteq wires
                       /\ ToSet(backlog'[v]) \subseteq ToSet(backlog[v])
  BY <1>2, <1>6, ToSetFacts DEF MTypeOK
<1>8. Routed' /\ Kept' /\ AirIsNew'
  BY <1>1, <1>2, <1>7 DEF MInv, Routed, Kept, AirIsNew
<1> QED
  BY <1>5, <1>8 DEF MInv

LEMMA NextKeepsMInv ==
  ASSUME MInv, [MNext]_allVars
  PROVE  MInv'
<1> MTypeOK /\ IInv
  BY DEF MInv
<1>1. [Next]_vars
  BY UsesService
<1>2. IInv'
  BY <1>1, NextKeepsIInv
<1>3. wires \subseteq wires' /\ \A w \in wires : Sender(w)' = Sender(w)
  BY <1>1, WiresStay
<1>4. CASE UNCHANGED allVars
  BY <1>2, <1>3, <1>4, QuietMail DEF allVars, mailVars, clientVars, MTypeOK
<1>5. ASSUME NEW u \in Users,
             OpenConversation(u) \/ BundleArrives(u) \/ Send(u) \/ ServiceDies(u)
      PROVE  MInv'
  <2>1. up' \in [Users -> BOOLEAN] /\ fetching' \in [Users -> BOOLEAN]
    BY <1>5 DEF OpenConversation, BundleArrives, Send, ServiceDies, Set, MTypeOK
  <2>2. /\ air' \subseteq air \cup (wires' \ wires)
        /\ UNCHANGED <<queue, acks, backlog, shown, lost>>
    BY <1>5 DEF OpenConversation, BundleArrives, Send, ServiceDies, mailVars
  <2> QED
    BY <1>2, <1>3, <2>1, <2>2, QuietMail
<1> QED
  BY <1>2, <1>4, <1>5, ProcessKeepsMInv, PullKeepsMInv, PostKeepsMInv, AckKeepsMInv,
     RestartKeepsMInv DEF MNext

\* The messenger's invariant holds: among other things, whatever a client acknowledges it
\* has stored, and whatever waits for decryption is on the server or stored.
THEOREM MessengerInvariance == MSpec => []MInv
<1>1. MInv /\ [MNext]_allVars => MInv'
  BY NextKeepsMInv
<1> QED
  BY <1>1, InitMInv, PTL DEF MSpec

\* Type correctness of the messenger.
THEOREM MessengerTypes == MSpec => []MTypeOK
<1>1. MInv => MTypeOK
  BY DEF MInv
<1> QED
  BY <1>1, MessengerInvariance, PTL

\* The clients use their services as CryptoService allows: its theorems hold here too.
THEOREM UsesServices == MSpec => Spec
<1>1. MInv /\ [MNext]_allVars => [Next]_vars
  BY UsesService
<1>2. MInit => Init
  BY DEF MInit
<1> QED
  BY <1>1, <1>2, MessengerInvariance, PTL DEF MSpec, Spec

\* The crash of a service costs no session, whatever the clients do.
THEOREM SessionsSurviveClients == MSpec => []DiskHasSession
  BY UsesServices, SessionsSurvive, PTL

-------------------------------------------------------------------------------
(* The messenger implements Delivery *)

LEMMA InitIsDelivery == MInit => D!Init
<1> SUFFICES ASSUME MInit PROVE D!Init
  OBVIOUS
<1>1. ToSet(<<>>) = {}
  BY DEF ToSet
<1>2. [u \in Users |-> ToSet(queue[u])] = [u \in Users |-> {}]
  BY <1>1 DEF MInit
<1> QED
  BY <1>2 DEF MInit, Init, D!Init

LEMMA ProcessIsDelivery ==
  ASSUME MInv, NEW u \in Users, Process(u)
  PROVE  [D!Next]_D!mail
<1> MTypeOK
  BY DEF MInv
<1>1. PICK w : /\ w = Head(backlog[u])
               /\ \/ up[u] /\ (Answered(u, w) \/ Unanswered(u, w))
                  \/ Unreachable(u, w)
  BY DEF Process
<1>2. w \in ToSet(queue[u]) \cup shown[u] \cup lost[u]
  <2>1. w \in ToSet(backlog[u])
    BY <1>1, BacklogIsRouted DEF Process
  <2> QED
    BY <2>1 DEF MInv, Kept
<1>3. wires' = wires /\ queue' = queue
  BY ProcessUsesService DEF Process
<1>4. \/ shown' = [shown EXCEPT ![u] = @ \cup {w}] /\ lost' = [lost EXCEPT ![u] = @ \ {w}]
      \/ shown' = shown /\ lost' = [lost EXCEPT ![u] = @ \cup ({w} \ shown[u])]
  BY <1>1 DEF Answered, Unanswered, Unreachable, Store, GiveUp, Set, MTypeOK
<1>5. shown \in [Users -> SUBSET wires] /\ lost \in [Users -> SUBSET wires]
  BY DEF MTypeOK
<1>6. CASE shown' = [shown EXCEPT ![u] = @ \cup {w}] /\ lost' = [lost EXCEPT ![u] = @ \ {w}]
  <2>1. CASE w \in ToSet(queue[u]) \cup lost[u]
    <3>1. D!Show(u)
      BY <1>3, <1>6, <2>1 DEF D!Show
    <3> QED
      BY <3>1 DEF D!Next
  <2>2. CASE w \notin ToSet(queue[u]) \cup lost[u]
    <3>1. shown[u] \cup {w} = shown[u] /\ lost[u] \ {w} = lost[u]
      BY <1>2, <2>2
    <3>2. UNCHANGED <<shown, lost>>
      BY <1>5, <1>6, <3>1
    <3> QED
      BY <1>3, <3>2 DEF D!mail
  <2> QED
    BY <2>1, <2>2
<1>7. CASE shown' = shown /\ lost' = [lost EXCEPT ![u] = @ \cup ({w} \ shown[u])]
  <2>1. CASE w \in ToSet(queue[u]) \ shown[u]
    <3>1. lost' = [lost EXCEPT ![u] = @ \cup {w}]
      BY <1>5, <1>7, <2>1
    <3>2. D!GiveUp(u)
      BY <1>3, <1>7, <2>1, <3>1 DEF D!GiveUp
    <3> QED
      BY <3>2 DEF D!Next
  <2>2. CASE w \notin ToSet(queue[u]) \ shown[u]
    <3>1. lost[u] \cup ({w} \ shown[u]) = lost[u]
      BY <1>2, <2>2
    <3>2. lost' = lost
      BY <1>5, <1>7, <3>1
    <3> QED
      BY <1>3, <1>7, <3>2 DEF D!mail
  <2> QED
    BY <2>1, <2>2
<1> QED
  BY <1>4, <1>6, <1>7

LEMMA PostIsDelivery ==
  ASSUME MInv, NEW w \in air, PostArrives(w)
  PROVE  D!Next
<1> MTypeOK
  BY DEF MInv
<1> DEFINE p == Peer(Sender(w))
<1>1. w \in wires /\ queue' = [queue EXCEPT ![p] = Append(@, w)]
  BY DEF PostArrives, MTypeOK
<1>2. p \in Users
  <2>1. /\ w.init \in Inits /\ initBy \in [Inits -> Users \cup {Nobody}]
        /\ initBy[w.init] # Nobody
    BY <1>1 DEF MInv, IInv, TypeOK, WiresInv, WireSet
  <2> QED
    BY <2>1, PeerFacts DEF Sender
<1> HIDE DEF p
<1>3. ToSet(Append(queue[p], w)) = ToSet(queue[p]) \cup {w}
  BY <1>1, <1>2, ToSetOfAppend DEF MTypeOK
<1>4. \A v \in Users : queue'[v] = IF v = p THEN Append(queue[p], w) ELSE queue[v]
  BY <1>1, <1>2 DEF MTypeOK
<1>5. [v \in Users |-> ToSet(queue'[v])]
        = [[v \in Users |-> ToSet(queue[v])] EXCEPT ![p] = @ \cup {w}]
  BY <1>2, <1>3, <1>4
<1>6. w \notin ToSet(queue[p]) \cup shown[p] \cup lost[p]
  BY <1>2 DEF MInv, AirIsNew
<1>7. UNCHANGED <<wires, shown, lost>>
  BY DEF PostArrives, vars, clientVars
<1>8. D!Accept(p)
  BY <1>1, <1>2, <1>5, <1>6, <1>7 DEF D!Accept
<1> QED
  BY <1>2, <1>8 DEF D!Next

LEMMA AckIsDelivery ==
  ASSUME MInv, NEW u \in Users, NEW w \in acks[u], AckArrives(u, w)
  PROVE  [D!Next]_D!mail
<1> MTypeOK
  BY DEF MInv
<1>1. /\ \A v \in Users \ {u} : queue'[v] = queue[v]
      /\ ToSet(queue'[u]) \in {ToSet(queue[u]), ToSet(queue[u]) \ {w}}
  BY AckFacts
<1>2. w \in shown[u] \cup lost[u]
  BY DEF MInv, Kept
<1>3. UNCHANGED <<wires, shown, lost>>
  BY DEF AckArrives, vars, clientVars
<1>4. CASE ToSet(queue'[u]) = ToSet(queue[u])
  <2>1. [v \in Users |-> ToSet(queue'[v])] = [v \in Users |-> ToSet(queue[v])]
    BY <1>1, <1>4
  <2> QED
    BY <1>3, <2>1 DEF D!mail
<1>5. CASE ToSet(queue'[u]) = ToSet(queue[u]) \ {w}
  <2>1. [v \in Users |-> ToSet(queue'[v])]
          = [[v \in Users |-> ToSet(queue[v])] EXCEPT ![u] = @ \ {w}]
    BY <1>1, <1>5
  <2>2. D!Clear(u)
    BY <1>2, <1>3, <2>1 DEF D!Clear
  <2> QED
    BY <2>2 DEF D!Next
<1> QED
  BY <1>1, <1>4, <1>5

\* Steps in which nothing happens to what the server queues and the clients store.
LEMMA QuietIsDelivery ==
  ASSUME wires \subseteq wires', UNCHANGED <<queue, shown, lost>>
  PROVE  D!Next
<1>1. [v \in Users |-> ToSet(queue'[v])] = [v \in Users |-> ToSet(queue[v])]
  OBVIOUS
<1> QED
  BY <1>1 DEF D!Next, D!Encrypt

LEMMA NextIsDelivery ==
  ASSUME MInv, [MNext]_allVars
  PROVE  [D!Next]_D!mail
<1>1. wires \subseteq wires'
  BY UsesService, WiresStay DEF MInv
<1>2. CASE UNCHANGED allVars
  BY <1>1, <1>2, QuietIsDelivery DEF allVars, mailVars, clientVars
<1>3. ASSUME NEW u \in Users,
             \/ OpenConversation(u) \/ BundleArrives(u) \/ Send(u) \/ Pull(u)
             \/ ServiceDies(u) \/ AppRestarts(u)
      PROVE  D!Next
  <2>1. UNCHANGED <<queue, shown, lost>>
    BY <1>3 DEF OpenConversation, BundleArrives, Send, Pull, ServiceDies, AppRestarts, mailVars
  <2> QED
    BY <1>1, <2>1, QuietIsDelivery
<1> QED
  BY <1>2, <1>3, ProcessIsDelivery, PostIsDelivery, AckIsDelivery DEF MNext

\* The messenger implements Delivery: for any number of messages, runs and crashes, a
\* message leaves the server's queue only when its recipient has stored it.
THEOREM MessengerDelivers == MSpec => DeliverySpec
<1>1. MInv /\ [MNext]_allVars => [D!Next]_D!mail
  BY NextIsDelivery
<1> QED
  BY <1>1, InitIsDelivery, MessengerInvariance, PTL DEF MSpec, DeliverySpec, D!Spec
=============================================================================
