----------------------------- MODULE LegacyProofs -----------------------------
(***************************************************************************)
(* Proofs about LegacyService, for any number of connections, passwords,   *)
(* conversations and keystores: the lock makes registrations exclusive, so *)
(* identity and salt on disk belong together although unlock_keystore does *)
(* not take the lock; and the bundle of each key in use reaches the peer.  *)
(***************************************************************************)
EXTENDS LegacyService, SequenceTheorems, TLAPS

-------------------------------------------------------------------------------
(* Jobs *)

LEMMA JobFacts ==
  ASSUME NEW j \in Job
  PROVE  /\ j.do \in {"unlock", "wait", "make", "check"} => j.pw \in Passwords
         /\ j.do = "check" => j.salt \in Salts
         /\ j.do \in {"open", "salt", "save"} => j.with \in Store
         /\ j.do \in {"initiate", "respond"} => j.conv \in Convs
         /\ j.do = "respond" => j.key \in Theirs
         /\ j.do \in {"idle", "unlock", "open", "wait", "check", "make", "salt", "save",
                      "initiate", "respond"}
BY DEF Job

LEMMA JobsMade ==
  /\ Idle \in Job /\ Idle.do = "idle"
  /\ \A pw \in Passwords : /\ [do |-> "unlock", pw |-> pw] \in Job
                           /\ [do |-> "wait", pw |-> pw] \in Job
                           /\ [do |-> "make", pw |-> pw] \in Job
                           /\ \A s \in Salts : [do |-> "check", pw |-> pw, salt |-> s] \in Job
  /\ \A w \in Store : /\ [do |-> "open", with |-> w] \in Job
                      /\ [do |-> "salt", with |-> w] \in Job
                      /\ [do |-> "save", with |-> w] \in Job
  /\ \A v \in Convs : /\ [do |-> "initiate", conv |-> v] \in Job
                      /\ \A k \in Theirs : [do |-> "respond", conv |-> v, key |-> k] \in Job
BY DEF Job, Idle

\* The two jobs that are made of another one.
LEMMA JobsGoOn ==
  ASSUME NEW j \in Job
  PROVE  /\ j.do = "wait" => [j EXCEPT !.do = "make"] = [do |-> "make", pw |-> j.pw]
         /\ j.do = "salt" => [j EXCEPT !.do = "save"] = [do |-> "save", with |-> j.with]
BY DEF Job

LEMMA JobBecomes ==
  ASSUME job \in [Conns -> Job], NEW c \in Conns, NEW j \in Job, Becomes(c, j)
  PROVE  /\ job' \in [Conns -> Job]
         /\ job'[c] = j
         /\ \A d \in Conns \ {c} : job'[d] = job[d]
BY DEF Becomes

-------------------------------------------------------------------------------
(* The lock *)

Registering == {"wait"} \cup Working

\* Who works is the first in the queue, and alone.
LEMMA HolderFacts ==
  ASSUME LegacyInv, NEW c \in Conns, job[c].do \in Working
  PROVE  /\ lock # <<>> /\ lock[1] = c
         /\ \A d \in Conns : job[d].do \in Working => d = c
<1>1. ASSUME NEW d \in Conns, job[d].do \in Working PROVE lock # <<>> /\ lock[1] = d
  <2>1. PICK i \in 1..Len(lock) : lock[i] = d
    BY <1>1 DEF LegacyInv, LockInv
  <2>2. i = 1
    BY <1>1, <2>1 DEF LegacyInv, LockInv, Working
  <2>3. lock \in Seq(Conns)
    BY DEF LegacyInv, LegacyTypeOK
  <2> QED
    BY <2>1, <2>2, <2>3
<1> QED
  BY <1>1

LEMMA TurnFacts ==
  ASSUME LegacyInv, NEW c \in Conns, HasTurn(c)
  PROVE  lock # <<>> /\ lock[1] = c
BY DEF HasTurn, LegacyInv, LegacyTypeOK

LEMMA LockStays ==
  ASSUME LegacyInv, NEW c \in Conns, NEW j \in Job, Becomes(c, j), lock' = lock,
         \/ job[c].do \notin Registering /\ j.do \notin Registering
         \/ /\ lock # <<>> /\ lock[1] = c
            /\ job[c].do \in Registering /\ j.do \in Registering
  PROVE  LockInv'
<1>1. lock \in Seq(Conns) /\ job \in [Conns -> Job]
  BY DEF LegacyInv, LegacyTypeOK
<1>2. job'[c] = j /\ \A d \in Conns \ {c} : job'[d] = job[d]
  BY <1>1, JobBecomes
<1>3. ASSUME NEW i \in 1..Len(lock)
      PROVE  job'[lock[i]].do \in {"wait"} \cup (IF i = 1 THEN Working ELSE {})
  <2>1. lock[i] \in Conns
    BY <1>1
  <2>2. job[lock[i]].do \in {"wait"} \cup (IF i = 1 THEN Working ELSE {})
    BY DEF LegacyInv, LockInv
  <2>3. CASE lock[i] # c
    BY <1>2, <2>1, <2>2, <2>3
  <2>4. CASE lock[i] = c
    <3>1. job[c].do \in Registering
      BY <2>2, <2>4 DEF Registering
    <3>2. 1 \in 1..Len(lock) /\ lock[1] = c
      BY <1>1, <3>1
    <3>3. i = 1
      BY <2>4, <3>2 DEF LegacyInv, LockInv
    <3> QED
      BY <1>2, <2>4, <3>1, <3>3 DEF Registering
  <2> QED
    BY <2>3, <2>4
<1>4. ASSUME NEW d \in Conns, job'[d].do \in Registering
      PROVE  \E i \in 1..Len(lock) : lock[i] = d
  <2>1. job[d].do \in Registering
    BY <1>2, <1>4
  <2> QED
    BY <2>1 DEF LegacyInv, LockInv, Registering
<1> QED
  BY <1>3, <1>4 DEF LegacyInv, LockInv, Registering

LEMMA LockGrows ==
  ASSUME LegacyInv, NEW c \in Conns, NEW j \in Job, Becomes(c, j), lock' = Append(lock, c),
         job[c].do = "idle", j.do = "wait"
  PROVE  lock' \in Seq(Conns) /\ LockInv'
<1>1. lock \in Seq(Conns) /\ job \in [Conns -> Job] /\ Len(lock) \in Nat
  BY DEF LegacyInv, LegacyTypeOK
<1>2. job'[c] = j /\ \A d \in Conns \ {c} : job'[d] = job[d]
  BY <1>1, JobBecomes
<1>3. /\ lock' \in Seq(Conns) /\ Len(lock') = Len(lock) + 1
      /\ \A i \in 1..Len(lock) : lock'[i] = lock[i]
      /\ lock'[Len(lock) + 1] = c
  BY <1>1, AppendProperties
<1>4. \A i \in 1..Len(lock) : lock[i] \in Conns /\ lock[i] # c
  BY <1>1 DEF LegacyInv, LockInv, Working
<1>5. \A i, k \in 1..Len(lock') : lock'[i] = lock'[k] => i = k
  <2> SUFFICES ASSUME NEW i \in 1..Len(lock'), NEW k \in 1..Len(lock'), lock'[i] = lock'[k]
               PROVE  i = k
    OBVIOUS
  <2>1. CASE i \in 1..Len(lock) /\ k \in 1..Len(lock)
    BY <1>3, <2>1 DEF LegacyInv, LockInv
  <2>2. CASE i = Len(lock) + 1 \/ k = Len(lock) + 1
    BY <1>1, <1>3, <1>4, <2>2
  <2> QED
    BY <1>1, <1>3, <2>1, <2>2
<1>6. ASSUME NEW i \in 1..Len(lock')
      PROVE  job'[lock'[i]].do \in {"wait"} \cup (IF i = 1 THEN Working ELSE {})
  <2>1. CASE i \in 1..Len(lock)
    BY <1>2, <1>3, <1>4, <2>1 DEF LegacyInv, LockInv
  <2>2. CASE i = Len(lock) + 1
    BY <1>2, <1>3, <2>2
  <2> QED
    BY <1>1, <1>3, <2>1, <2>2
<1>7. ASSUME NEW d \in Conns, job'[d].do \in {"wait"} \cup Working
      PROVE  \E i \in 1..Len(lock') : lock'[i] = d
  <2>1. CASE d = c
    BY <1>1, <1>3, <2>1
  <2>2. CASE d # c
    <3>1. PICK i \in 1..Len(lock) : lock[i] = d
      BY <1>2, <1>7, <2>2 DEF LegacyInv, LockInv
    <3> QED
      BY <1>1, <1>3, <3>1
  <2> QED
    BY <2>1, <2>2
<1> QED
  BY <1>3, <1>5, <1>6, <1>7 DEF LockInv

\* A registration that has ended leaves the lock to the next.
LEMMA LockShrinks ==
  ASSUME LegacyInv, NEW c \in Conns, Becomes(c, Idle), lock # <<>>, lock[1] = c,
         lock' = Tail(lock)
  PROVE  lock' \in Seq(Conns) /\ LockInv'
<1>1. lock \in Seq(Conns) /\ job \in [Conns -> Job] /\ Len(lock) \in Nat
  BY DEF LegacyInv, LegacyTypeOK
<1>2. job'[c] = Idle /\ \A d \in Conns \ {c} : job'[d] = job[d]
  BY <1>1, JobsMade, JobBecomes
<1>3. /\ lock' \in Seq(Conns) /\ Len(lock') = Len(lock) - 1
      /\ \A i \in 1..Len(lock') : lock'[i] = lock[i + 1]
  BY <1>1, HeadTailProperties
<1>4. ASSUME NEW i \in 1..Len(lock')
      PROVE  i + 1 \in 1..Len(lock) /\ lock'[i] = lock[i + 1] /\ lock'[i] \in Conns \ {c}
  <2>1. i + 1 \in 1..Len(lock) /\ 1 \in 1..Len(lock) /\ lock'[i] = lock[i + 1]
    BY <1>1, <1>3
  <2>2. lock[i + 1] # lock[1]
    BY <2>1 DEF LegacyInv, LockInv
  <2> QED
    BY <1>1, <2>1, <2>2
<1>5. \A i, k \in 1..Len(lock') : lock'[i] = lock'[k] => i = k
  <2> SUFFICES ASSUME NEW i \in 1..Len(lock'), NEW k \in 1..Len(lock'), lock'[i] = lock'[k]
               PROVE  i = k
    OBVIOUS
  <2>1. i + 1 = k + 1
    BY <1>4 DEF LegacyInv, LockInv
  <2> QED
    BY <1>1, <1>3, <2>1
<1>6. ASSUME NEW i \in 1..Len(lock') PROVE job'[lock'[i]].do = "wait"
  <2>1. job[lock[i + 1]].do \in {"wait"} \cup (IF i + 1 = 1 THEN Working ELSE {})
    BY <1>4 DEF LegacyInv, LockInv
  <2>2. i + 1 # 1
    BY <1>1, <1>3
  <2> QED
    BY <1>2, <1>4, <2>1, <2>2
<1>7. ASSUME NEW d \in Conns, job'[d].do \in {"wait"} \cup Working
      PROVE  \E i \in 1..Len(lock') : lock'[i] = d
  <2>1. d # c
    BY <1>2, <1>7, JobsMade DEF Working
  <2>2. PICK i \in 1..Len(lock) : lock[i] = d
    BY <1>2, <1>7, <2>1 DEF LegacyInv, LockInv
  <2>3. i # 1
    BY <2>1, <2>2
  <2>4. i - 1 \in 1..Len(lock') /\ (i - 1) + 1 = i
    BY <1>1, <1>3, <2>3
  <2> QED
    BY <1>3, <2>2, <2>4
<1> QED
  BY <1>3, <1>5, <1>6, <1>7 DEF LockInv

-------------------------------------------------------------------------------
(* What a step must show *)

Disks == [dir : BOOLEAN, salt : 0..MaxStores, identity : Store \cup {NoStore}]

\* A step of the keystore: only who works changes salt or identity, and what it then knows
\* of them is true.
LEMMA StoreStep ==
  ASSUME LegacyInv, NEW c \in Conns, NEW j \in Job, Becomes(c, j), UNCHANGED sessionVars,
         disk' \in Disks, handle' \in Store \cup {NoStore}, lock' \in Seq(Conns),
         stores' \in 0..MaxStores, LockInv', StoreOpens',
         \/ disk'.salt = disk.salt /\ disk'.identity = disk.identity /\ (disk.dir => disk'.dir)
         \/ job[c].do \in Working,
         ~ disk'.dir => disk' = Empty,
         j.do \in {"salt", "save"} => disk'.dir,
         j.do \in {"make", "salt"} => disk'.salt = 0,
         j.do \in {"make", "salt", "save"} => disk'.identity = NoStore,
         j.do = "save" => disk'.salt = j.with.salt
  PROVE  LegacyInv'
<1>1. /\ job' \in [Conns -> Job] /\ job'[c] = j
      /\ \A d \in Conns \ {c} : job'[d] = job[d]
  BY JobBecomes DEF LegacyInv
<1>2. LegacyTypeOK'
  <2>1. \A d \in Conns : job'[d].do \in {"idle", "unlock", "open", "wait", "check", "make", "salt",
                                         "save", "initiate", "respond"}
    BY <1>1, JobFacts
  <2> QED
    BY <2>1 DEF LegacyInv, LegacyTypeOK, Disks, sessionVars
<1>3. DiskInv'
  <2> SUFFICES ASSUME NEW d \in Conns
               PROVE  /\ job'[d].do \in {"make", "salt"} => disk'.salt = 0
                      /\ job'[d].do \in {"make", "salt", "save"} => disk'.identity = NoStore
                      /\ job'[d].do = "save" => disk'.salt = job'[d].with.salt
                      /\ job'[d].do \in {"salt", "save"} => disk'.dir
    BY DEF DiskInv, Empty, NoStore
  <2>1. CASE d = c
    BY <1>1, <2>1
  <2>2. CASE d # c /\ job[c].do \in Working
    <3>1. job'[d].do \notin Working
      BY <1>1, <2>2, HolderFacts
    <3> QED
      BY <3>1 DEF Working
  <2>3. CASE /\ d # c /\ disk'.salt = disk.salt /\ disk'.identity = disk.identity
             /\ disk.dir => disk'.dir
    BY <1>1, <2>3 DEF LegacyInv, DiskInv
  <2> QED
    BY <2>1, <2>2, <2>3
<1>4. BundleInv' /\ PeerCanFollow'
  BY DEF LegacyInv, BundleInv, PeerCanFollow, sessionVars
<1> QED
  BY <1>1, <1>2, <1>3, <1>4 DEF LegacyInv

\* A step of the sessions: it leaves keystore and registrations alone.
LEMMA SessionStep ==
  ASSUME LegacyInv, NEW c \in Conns, NEW j \in Job, Becomes(c, j), UNCHANGED storeVars,
         job[c].do \notin Registering, j.do \notin Registering,
         sk' \in [Convs -> Ours \cup Theirs \cup {NoKey}],
         pending' \in [Convs -> Ours \cup {NoKey}], made' \in 0..MaxKeys,
         sent' \subseteq [conv : Convs, key : Ours \cup Theirs, bundle : Ours \cup {NoKey}],
         BundleInv', PeerCanFollow'
  PROVE  LegacyInv'
<1>1. /\ job' \in [Conns -> Job] /\ job'[c] = j
      /\ \A d \in Conns \ {c} : job'[d] = job[d]
  BY JobBecomes DEF LegacyInv
<1>2. LegacyTypeOK'
  <2>1. \A d \in Conns : job'[d].do \in {"idle", "unlock", "open", "wait", "check", "make", "salt",
                                         "save", "initiate", "respond"}
    BY <1>1, JobFacts
  <2> QED
    BY <2>1 DEF LegacyInv, LegacyTypeOK, storeVars
<1>3. LockInv'
  BY LockStays DEF storeVars
<1>4. DiskInv'
  BY <1>1 DEF LegacyInv, DiskInv, storeVars, Registering, Working, Empty, NoStore
<1>5. StoreOpens'
  BY DEF LegacyInv, StoreOpens, storeVars, NoStore
<1> QED
  BY <1>1, <1>2, <1>3, <1>4, <1>5 DEF LegacyInv

-------------------------------------------------------------------------------
(* Each step keeps the invariant *)

LEMMA DiskFacts ==
  ASSUME LegacyInv
  PROVE  /\ disk \in Disks /\ Empty \in Disks /\ [disk EXCEPT !.dir = TRUE] \in Disks
         /\ [disk EXCEPT !.dir = TRUE].salt = disk.salt
         /\ [disk EXCEPT !.dir = TRUE].identity = disk.identity
         /\ [disk EXCEPT !.dir = TRUE].dir = TRUE
         /\ ~ disk.dir => disk = Empty
         /\ Empty.salt = 0 /\ Empty.identity = NoStore
<1>1. disk \in Disks
  BY DEF LegacyInv, LegacyTypeOK, Disks
<1>2. Empty \in Disks /\ Empty.salt = 0 /\ Empty.identity = NoStore
  BY LegacyAssumption DEF Disks, Empty
<1>3. ~ disk.dir => disk = Empty
  BY DEF LegacyInv, DiskInv
<1> QED
  BY <1>1, <1>2, <1>3 DEF Disks

\* Nothing happens to the disk, or its directory is made.
LEMMA SameDisk ==
  ASSUME LegacyInv, disk' \in {disk, [disk EXCEPT !.dir = TRUE]}
  PROVE  /\ disk' \in Disks
         /\ disk'.salt = disk.salt /\ disk'.identity = disk.identity /\ (disk.dir => disk'.dir)
         /\ ~ disk'.dir => disk' = Empty
         /\ StoreOpens'
<1>1. CASE disk' = disk
  BY <1>1, DiskFacts DEF LegacyInv, StoreOpens, NoStore
<1>2. CASE disk' = [disk EXCEPT !.dir = TRUE]
  BY <1>2, DiskFacts DEF LegacyInv, StoreOpens, NoStore
<1> QED
  BY <1>1, <1>2

LEMMA UnlockStep ==
  ASSUME LegacyInv, NEW c \in Conns, NEW pw \in Passwords, Unlock(c, pw)
  PROVE  LegacyInv'
<1> DEFINE j == [do |-> "unlock", pw |-> pw]
<1>1. j \in Job /\ j.do = "unlock"
  BY JobsMade
<1> HIDE DEF j
<1>2. Becomes(c, j) /\ job[c].do = "idle" /\ UNCHANGED <<storeVars, sessionVars>>
  BY DEF Unlock, Does, j
<1>3. LockInv'
  BY <1>1, <1>2, LockStays DEF storeVars, Registering, Working
<1> QED
  BY <1>1, <1>2, <1>3, SameDisk, StoreStep DEF storeVars, LegacyInv, LegacyTypeOK

LEMMA UnlockReadsStep ==
  ASSUME LegacyInv, NEW c \in Conns, UnlockReads(c)
  PROVE  LegacyInv'
<1>1. job[c].do = "unlock" /\ job[c] \in Job /\ UNCHANGED <<storeVars, sessionVars>>
  BY DEF UnlockReads, Does, LegacyInv
<1>2. PICK j \in Job : Becomes(c, j) /\ j.do \in {"idle", "open"}
  <2>1. CASE Becomes(c, Idle)
    BY <2>1, JobsMade
  <2>2. CASE /\ disk.salt # 0
             /\ Becomes(c, [do |-> "open", with |-> [salt |-> disk.salt, pw |-> job[c].pw]])
    <3>1. disk.salt \in Salts
      BY <2>2, LegacyAssumption DEF LegacyInv, LegacyTypeOK, Salts
    <3>2. [salt |-> disk.salt, pw |-> job[c].pw] \in Store
      BY <1>1, <3>1, JobFacts DEF Store
    <3> QED
      BY <2>2, <3>2, JobsMade
  <2> QED
    BY <2>1, <2>2 DEF UnlockReads
<1>3. LockInv'
  BY <1>1, <1>2, LockStays DEF storeVars, Registering, Working
<1> QED
  BY <1>1, <1>2, <1>3, SameDisk, StoreStep DEF storeVars, LegacyInv, LegacyTypeOK

LEMMA UnlockOpensStep ==
  ASSUME LegacyInv, NEW c \in Conns, UnlockOpens(c)
  PROVE  LegacyInv'
<1>1. job[c].do = "open" /\ job[c] \in Job /\ Becomes(c, Idle)
  BY DEF UnlockOpens, Does, LegacyInv
<1>2. disk' = [disk EXCEPT !.dir = TRUE] /\ UNCHANGED <<lock, stores, sessionVars>>
  BY DEF UnlockOpens
<1>3. handle' \in Store \cup {NoStore}
  BY <1>1, JobFacts DEF UnlockOpens, Opened, LegacyInv, LegacyTypeOK
<1>4. LockInv'
  BY <1>1, <1>2, JobsMade, LockStays DEF Registering, Working
<1> QED
  BY <1>1, <1>2, <1>3, <1>4, SameDisk, JobsMade, StoreStep DEF LegacyInv, LegacyTypeOK

LEMMA GenerateStep ==
  ASSUME LegacyInv, NEW c \in Conns, NEW pw \in Passwords, Generate(c, pw)
  PROVE  LegacyInv'
<1> DEFINE j == [do |-> "wait", pw |-> pw]
<1>1. j \in Job /\ j.do = "wait"
  BY JobsMade
<1> HIDE DEF j
<1>2. /\ Becomes(c, j) /\ job[c].do = "idle" /\ lock' = Append(lock, c)
      /\ UNCHANGED <<disk, handle, stores, sessionVars>>
  BY DEF Generate, Does, j
<1>3. lock' \in Seq(Conns) /\ LockInv'
  BY <1>1, <1>2, LockGrows
<1> QED
  BY <1>1, <1>2, <1>3, SameDisk, StoreStep DEF LegacyInv, LegacyTypeOK

\* A refusal: whatever became of the disk in between is consistent.
LEMMA RefuseStep ==
  ASSUME LegacyInv, NEW c \in Conns, Refuse(c), lock # <<>>, lock[1] = c,
         UNCHANGED <<handle, stores, sessionVars>>,
         disk' \in Disks, ~ disk'.dir => disk' = Empty, StoreOpens',
         \/ disk'.salt = disk.salt /\ disk'.identity = disk.identity /\ (disk.dir => disk'.dir)
         \/ job[c].do \in Working
  PROVE  LegacyInv'
<1>1. Becomes(c, Idle) /\ lock' = Tail(lock)
  BY DEF Refuse
<1>2. lock' \in Seq(Conns) /\ LockInv'
  BY <1>1, LockShrinks
<1> QED
  BY <1>1, <1>2, JobsMade, StoreStep DEF LegacyInv, LegacyTypeOK

LEMMA LookForKeystoreStep ==
  ASSUME LegacyInv, NEW c \in Conns, LookForKeystore(c)
  PROVE  LegacyInv'
<1>1. /\ job[c].do = "wait" /\ job[c] \in Job
      /\ UNCHANGED <<disk, handle, stores, sessionVars>>
      /\ lock # <<>> /\ lock[1] = c
  BY TurnFacts DEF LookForKeystore, Does, LegacyInv
<1>2. CASE Refuse(c)
  BY <1>1, <1>2, SameDisk, RefuseStep
<1>3. CASE UNCHANGED lock /\ ~ Refuse(c)
  <2>1. PICK j \in Job : /\ Becomes(c, j) /\ j.do \in {"make", "check"}
                         /\ j.do = "make" => ~ disk.dir
    <3>1. CASE ~ disk.dir /\ Becomes(c, [job[c] EXCEPT !.do = "make"])
      <4>1. [job[c] EXCEPT !.do = "make"] = [do |-> "make", pw |-> job[c].pw]
        BY <1>1, JobsGoOn
      <4>2. job[c].pw \in Passwords
        BY <1>1, JobFacts
      <4>3. [do |-> "make", pw |-> job[c].pw] \in Job
        BY <4>2, JobsMade
      <4> QED
        BY <3>1, <4>1, <4>3
    <3>2. CASE /\ disk.salt # 0
               /\ Becomes(c, [do |-> "check", pw |-> job[c].pw, salt |-> disk.salt])
      <4>1. disk.salt \in Salts /\ job[c].pw \in Passwords
        BY <1>1, <3>2, LegacyAssumption, JobFacts DEF LegacyInv, LegacyTypeOK, Salts
      <4> QED
        BY <3>2, <4>1, JobsMade
    <3> QED
      BY <1>3, <3>1, <3>2 DEF LookForKeystore
  <2>2. LockInv'
    BY <1>1, <1>3, <2>1, LockStays DEF Registering, Working
  <2>3. j.do = "make" => disk'.salt = 0 /\ disk'.identity = NoStore
    BY <1>1, <2>1, DiskFacts
  <2> QED
    BY <1>1, <1>3, <2>1, <2>2, <2>3, SameDisk, StoreStep DEF LegacyInv, LegacyTypeOK
<1> QED
  BY <1>2, <1>3 DEF LookForKeystore

LEMMA RemainsFacts ==
  ASSUME LegacyInv, NEW d \in {disk} \cup Remains, disk.dir
  PROVE  /\ d \in Disks /\ d.dir
         /\ d.salt # 0 /\ d.identity # NoStore => d = disk
<1>1. disk \in Disks
  BY DiskFacts
<1>2. CASE d = [disk EXCEPT !.salt = 0]
  <2>1. 0 \in 0..MaxStores
    BY LegacyAssumption
  <2> QED
    BY <1>1, <1>2, <2>1 DEF Disks
<1>3. CASE d = [disk EXCEPT !.identity = NoStore]
  <2>1. NoStore \in Store \cup {NoStore}
    OBVIOUS
  <2> QED
    BY <1>1, <1>3, <2>1 DEF Disks
<1>4. CASE d = [Empty EXCEPT !.dir = TRUE]
  <2>1. Empty \in Disks /\ Empty.salt = 0
    BY DiskFacts
  <2> QED
    BY <1>4, <2>1 DEF Disks
<1> QED
  BY <1>1, <1>2, <1>3, <1>4 DEF Remains

LEMMA RemoveKeystoreStep ==
  ASSUME LegacyInv, NEW c \in Conns, RemoveKeystore(c)
  PROVE  LegacyInv'
<1>1. /\ job[c].do = "check" /\ job[c] \in Job /\ UNCHANGED <<handle, stores, sessionVars>>
      /\ job[c].do \in Working
  BY DEF RemoveKeystore, Does, LegacyInv, Working
<1>2. lock # <<>> /\ lock[1] = c
  BY <1>1, HolderFacts
<1>3. CASE /\ disk' = Empty
           /\ Becomes(c, [do |-> "make", pw |-> job[c].pw]) /\ UNCHANGED lock
  <2> DEFINE j == [do |-> "make", pw |-> job[c].pw]
  <2>1. j \in Job /\ j.do = "make"
    BY <1>1, JobFacts, JobsMade
  <2> HIDE DEF j
  <2>2. Becomes(c, j)
    BY <1>3 DEF j
  <2>3. LockInv'
    BY <1>1, <1>2, <1>3, <2>1, <2>2, LockStays DEF Registering, Working
  <2>4. StoreOpens'
    BY <1>3, DiskFacts DEF StoreOpens, NoStore
  <2> QED
    BY <1>1, <1>3, <2>1, <2>2, <2>3, <2>4, DiskFacts, StoreStep DEF LegacyInv, LegacyTypeOK
<1>4. CASE Checked(c) /\ disk' \in {disk} \cup Remains /\ Refuse(c)
  <2>1. disk.dir
    BY <1>1, <1>4, DiskFacts DEF Checked, NoStore, Empty
  <2>2. StoreOpens'
    BY <1>4, <2>1, RemainsFacts DEF LegacyInv, StoreOpens, NoStore
  <2> QED
    BY <1>1, <1>2, <1>4, <2>1, <2>2, RemainsFacts, RefuseStep
<1>5. CASE disk' = [disk EXCEPT !.dir = TRUE] /\ Refuse(c)
  BY <1>1, <1>2, <1>5, SameDisk, RefuseStep
<1> QED
  BY <1>3, <1>4, <1>5 DEF RemoveKeystore

LEMMA MakeBundleStep ==
  ASSUME LegacyInv, NEW c \in Conns, MakeBundle(c)
  PROVE  LegacyInv'
<1>1. /\ job[c].do = "make" /\ job[c] \in Job /\ UNCHANGED <<handle, sessionVars>>
      /\ job[c].do \in Working
  BY DEF MakeBundle, Does, LegacyInv, Working
<1>2. /\ lock # <<>> /\ lock[1] = c
      /\ disk.salt = 0 /\ disk.identity = NoStore
  BY <1>1, HolderFacts DEF LegacyInv, DiskInv
<1>3. CASE /\ stores < MaxStores /\ disk' = [disk EXCEPT !.dir = TRUE] /\ stores' = stores + 1
           /\ Becomes(c, [do |-> "salt", with |-> [salt |-> stores + 1, pw |-> job[c].pw]])
           /\ UNCHANGED lock
  <2> DEFINE w == [salt |-> stores + 1, pw |-> job[c].pw]
             j == [do |-> "salt", with |-> w]
  <2>1. stores' \in 0..MaxStores /\ stores + 1 \in Salts /\ job[c].pw \in Passwords
    BY <1>1, <1>3, LegacyAssumption, JobFacts DEF LegacyInv, LegacyTypeOK, Salts
  <2>2. w \in Store
    BY <2>1 DEF Store
  <2> HIDE DEF w
  <2>3. j \in Job /\ j.do = "salt"
    BY <2>2, JobsMade
  <2> HIDE DEF j
  <2>4. Becomes(c, j)
    BY <1>3 DEF j, w
  <2>5. LockInv'
    BY <1>1, <1>2, <1>3, <2>3, <2>4, LockStays DEF Registering, Working
  <2> QED
    BY <1>1, <1>2, <1>3, <2>1, <2>3, <2>4, <2>5, SameDisk, StoreStep DEF LegacyInv, LegacyTypeOK
<1>4. CASE disk' \in {disk, [disk EXCEPT !.dir = TRUE]} /\ Refuse(c) /\ UNCHANGED stores
  BY <1>1, <1>2, <1>4, SameDisk, RefuseStep
<1> QED
  BY <1>3, <1>4 DEF MakeBundle

LEMMA WriteSaltStep ==
  ASSUME LegacyInv, NEW c \in Conns, WriteSalt(c)
  PROVE  LegacyInv'
<1>1. /\ job[c].do = "salt" /\ job[c] \in Job /\ UNCHANGED <<handle, lock, stores, sessionVars>>
      /\ job[c].do \in Working
  BY DEF WriteSalt, Does, LegacyInv, Working
<1>2. lock # <<>> /\ lock[1] = c /\ disk.identity = NoStore
  BY <1>1, HolderFacts DEF LegacyInv, DiskInv
<1> DEFINE j == [do |-> "save", with |-> job[c].with]
<1>3. j \in Job /\ j.do = "save" /\ j.with = job[c].with /\ j.with \in Store
  BY <1>1, JobFacts, JobsMade
<1>4. Becomes(c, j)
  BY <1>1, JobsGoOn DEF WriteSalt
<1> HIDE DEF j
<1>5. disk' = [disk EXCEPT !.salt = j.with.salt] /\ j.with.salt \in Salts
  BY <1>3 DEF WriteSalt, Store
<1>6. /\ disk' \in Disks /\ disk'.salt = j.with.salt /\ disk'.identity = NoStore
      /\ disk'.dir = disk.dir
  BY <1>2, <1>5, LegacyAssumption DEF LegacyInv, LegacyTypeOK, Disks, Salts
<1>7. LockInv'
  BY <1>1, <1>2, <1>3, <1>4, LockStays DEF Registering, Working
<1>8. StoreOpens'
  BY <1>6 DEF StoreOpens, NoStore
<1>10. disk.dir
  BY <1>1 DEF LegacyInv, DiskInv
<1> QED
  BY <1>1, <1>3, <1>4, <1>6, <1>7, <1>8, <1>10, StoreStep DEF LegacyInv, LegacyTypeOK

LEMMA SaveIdentityStep ==
  ASSUME LegacyInv, NEW c \in Conns, SaveIdentity(c)
  PROVE  LegacyInv'
<1> DEFINE w == job[c].with
<1>1. /\ job[c].do = "save" /\ job[c] \in Job /\ UNCHANGED <<stores, sessionVars>>
      /\ job[c].do \in Working
  BY DEF SaveIdentity, Does, LegacyInv, Working
<1>2. lock # <<>> /\ lock[1] = c /\ disk.salt = w.salt /\ disk.dir
  BY <1>1, HolderFacts DEF LegacyInv, DiskInv
<1>3. w \in Store
  BY <1>1, JobFacts
<1>4. /\ disk' = [disk EXCEPT !.identity = w] /\ handle' = w
      /\ Becomes(c, Idle) /\ lock' = Tail(lock)
  BY DEF SaveIdentity
<1> HIDE DEF w
<1>5. disk' \in Disks /\ disk'.salt = w.salt /\ disk'.identity = w /\ disk'.dir
  BY <1>2, <1>3, <1>4, DiskFacts DEF Disks
<1>6. lock' \in Seq(Conns) /\ LockInv'
  BY <1>2, <1>4, LockShrinks
<1>7. StoreOpens'
  BY <1>5 DEF StoreOpens
<1> QED
  BY <1>1, <1>3, <1>4, <1>5, <1>6, <1>7, JobsMade, StoreStep DEF LegacyInv, LegacyTypeOK

LEMMA WriteFailsStep ==
  ASSUME LegacyInv, NEW c \in Conns, WriteFails(c)
  PROVE  LegacyInv'
<1>1. /\ job[c].do \in Working /\ Refuse(c)
      /\ UNCHANGED <<disk, handle, stores, sessionVars>>
  BY DEF WriteFails, Does, Working
<1> QED
  BY <1>1, HolderFacts, SameDisk, RefuseStep

\* A step that changes what one connection does with a session, and nothing else.
LEMMA SameSessions ==
  ASSUME LegacyInv, UNCHANGED sessionVars
  PROVE  /\ sk' \in [Convs -> Ours \cup Theirs \cup {NoKey}]
         /\ pending' \in [Convs -> Ours \cup {NoKey}] /\ made' \in 0..MaxKeys
         /\ sent' \subseteq [conv : Convs, key : Ours \cup Theirs, bundle : Ours \cup {NoKey}]
         /\ BundleInv' /\ PeerCanFollow'
BY DEF LegacyInv, LegacyTypeOK, BundleInv, PeerCanFollow, sessionVars

LEMMA InitiateStep ==
  ASSUME LegacyInv, NEW c \in Conns, NEW v \in Convs, Initiate(c, v)
  PROVE  LegacyInv'
<1> DEFINE j == [do |-> "initiate", conv |-> v]
<1>1. j \in Job /\ j.do = "initiate"
  BY JobsMade
<1> HIDE DEF j
<1>2. Becomes(c, j) /\ job[c].do = "idle" /\ UNCHANGED storeVars /\ UNCHANGED sessionVars
  BY DEF Initiate, Does, j
<1> QED
  BY <1>1, <1>2, SameSessions, SessionStep DEF Registering, Working

LEMMA RespondStep ==
  ASSUME LegacyInv, NEW c \in Conns, NEW v \in Convs, NEW k \in Theirs, Respond(c, v, k)
  PROVE  LegacyInv'
<1> DEFINE j == [do |-> "respond", conv |-> v, key |-> k]
<1>1. j \in Job /\ j.do = "respond"
  BY JobsMade
<1> HIDE DEF j
<1>2. Becomes(c, j) /\ job[c].do = "idle" /\ UNCHANGED storeVars /\ UNCHANGED sessionVars
  BY DEF Respond, Does, j
<1> QED
  BY <1>1, <1>2, SameSessions, SessionStep DEF Registering, Working

LEMMA PqxdhFailsStep ==
  ASSUME LegacyInv, NEW c \in Conns, PqxdhFails(c)
  PROVE  LegacyInv'
<1>1. /\ Becomes(c, Idle) /\ job[c].do \in {"initiate", "respond"}
      /\ UNCHANGED storeVars /\ UNCHANGED sessionVars
  BY DEF PqxdhFails, Does
<1> QED
  BY <1>1, JobsMade, SameSessions, SessionStep DEF Registering, Working

\* The bundle of a new key waits.
LEMMA InitiatedStep ==
  ASSUME LegacyInv, NEW c \in Conns, Initiated(c)
  PROVE  LegacyInv'
<1> DEFINE v == job[c].conv
<1>1. /\ job[c].do = "initiate" /\ job[c] \in Job /\ v \in Convs
      /\ Becomes(c, Idle) /\ UNCHANGED storeVars /\ sent' = sent
  BY JobFacts DEF Initiated, Does, LegacyInv
<1>2. /\ made' = made + 1
      /\ sk' = [sk EXCEPT ![v] = made + 1] /\ pending' = [pending EXCEPT ![v] = made + 1]
  BY DEF Initiated
<1>3. made + 1 \in Ours /\ made + 1 \in 0..MaxKeys
  BY LegacyAssumption DEF Initiated, LegacyInv, LegacyTypeOK, Ours
<1> HIDE DEF v
<1>4. /\ sk' \in [Convs -> Ours \cup Theirs \cup {NoKey}]
      /\ pending' \in [Convs -> Ours \cup {NoKey}]
  BY <1>1, <1>2, <1>3 DEF LegacyInv, LegacyTypeOK
<1>5. sk'[v] = made + 1 /\ pending'[v] = made + 1
  BY <1>1, <1>2 DEF LegacyInv, LegacyTypeOK
<1>6. \A u \in Convs \ {v} : sk'[u] = sk[u] /\ pending'[u] = pending[u]
  BY <1>2 DEF LegacyInv, LegacyTypeOK
<1>7. BundleInv'
  BY <1>1, <1>5, <1>6 DEF LegacyInv, BundleInv
<1>8. PeerCanFollow' /\ sent' \subseteq [conv : Convs, key : Ours \cup Theirs,
                                        bundle : Ours \cup {NoKey}]
  BY <1>1 DEF LegacyInv, LegacyTypeOK, PeerCanFollow
<1> QED
  BY <1>1, <1>2, <1>3, <1>4, <1>7, <1>8, JobsMade, SessionStep DEF Registering, Working

\* The key of a peer needs no bundle.
LEMMA RespondedStep ==
  ASSUME LegacyInv, NEW c \in Conns, Responded(c)
  PROVE  LegacyInv'
<1> DEFINE v == job[c].conv
           k == job[c].key
<1>1. /\ job[c].do = "respond" /\ job[c] \in Job /\ v \in Convs /\ k \in Theirs
      /\ Becomes(c, Idle) /\ UNCHANGED storeVars /\ UNCHANGED <<pending, made, sent>>
  BY JobFacts DEF Responded, Does, LegacyInv
<1>2. sk' = [sk EXCEPT ![v] = k]
  BY DEF Responded
<1> HIDE DEF v, k
<1>3. k \notin Ours
  BY <1>1, LegacyAssumption DEF Ours
<1>4. sk' \in [Convs -> Ours \cup Theirs \cup {NoKey}]
  BY <1>1, <1>2 DEF LegacyInv, LegacyTypeOK
<1>5. sk'[v] = k /\ \A u \in Convs \ {v} : sk'[u] = sk[u]
  BY <1>1, <1>2 DEF LegacyInv, LegacyTypeOK
<1>6. BundleInv'
  BY <1>1, <1>3, <1>5 DEF LegacyInv, BundleInv
<1>7. PeerCanFollow' /\ sent' \subseteq [conv : Convs, key : Ours \cup Theirs,
                                        bundle : Ours \cup {NoKey}]
  BY <1>1 DEF LegacyInv, LegacyTypeOK, PeerCanFollow
<1>8. pending' \in [Convs -> Ours \cup {NoKey}] /\ made' \in 0..MaxKeys
  BY <1>1 DEF LegacyInv, LegacyTypeOK
<1> QED
  BY <1>1, <1>4, <1>6, <1>7, <1>8, JobsMade, SessionStep DEF Registering, Working

\* The bundle that waited is sent now, or was sent before.
LEMMA EncryptStep ==
  ASSUME LegacyInv, NEW c \in Conns, NEW v \in Convs, Encrypt(c, v)
  PROVE  LegacyInv'
<1> DEFINE m == [conv |-> v, key |-> sk[v], bundle |-> pending[v]]
           Messages == [conv : Convs, key : Ours \cup Theirs, bundle : Ours \cup {NoKey}]
<1>1. /\ sk[v] # NoKey /\ sent' = sent \cup {m} /\ pending' = [pending EXCEPT ![v] = NoKey]
      /\ UNCHANGED <<storeVars, sk, made, job>>
  BY DEF Encrypt
<1>2. /\ sk[v] \in Ours \cup Theirs /\ pending[v] \in Ours \cup {NoKey}
      /\ sent \subseteq Messages
  BY <1>1 DEF LegacyInv, LegacyTypeOK
<1>3. m \in Messages /\ m.conv = v /\ m.key = sk[v] /\ m.bundle = pending[v]
  BY <1>2
<1>4. NoKey \in Ours \cup {NoKey} /\ pending' \in [Convs -> Ours \cup {NoKey}]
  BY <1>1 DEF LegacyInv, LegacyTypeOK
<1>5. \A u \in Convs \ {v} : pending'[u] = pending[u]
  BY <1>1 DEF LegacyInv, LegacyTypeOK
<1> HIDE DEF m
<1>6. LegacyTypeOK'
  BY <1>1, <1>2, <1>3, <1>4 DEF LegacyInv, LegacyTypeOK, storeVars
<1>7. sk[v] \in Ours => \E n \in sent' : n.conv = v /\ n.bundle = sk[v]
  BY <1>1, <1>3 DEF LegacyInv, BundleInv
<1>8. BundleInv'
  BY <1>1, <1>5, <1>7 DEF LegacyInv, BundleInv
<1>9. PeerCanFollow'
  BY <1>1, <1>3, <1>7 DEF LegacyInv, PeerCanFollow
<1>10. LockInv' /\ DiskInv' /\ StoreOpens' /\ job' \in [Conns -> Job]
  BY <1>1 DEF LegacyInv, LockInv, DiskInv, StoreOpens, storeVars, Empty, NoStore
<1> QED
  BY <1>6, <1>8, <1>9, <1>10 DEF LegacyInv

\* What a service that dies leaves on disk is consistent; it knows of nothing else.
LEMMA RestartStep ==
  ASSUME LegacyInv, Restart
  PROVE  LegacyInv'
<1>1. /\ disk' \in Left /\ handle' = NoStore /\ lock' = <<>>
      /\ sk' = [v \in Convs |-> NoKey] /\ pending' = [v \in Convs |-> NoKey]
      /\ job' = [c \in Conns |-> Idle] /\ UNCHANGED <<stores, made, sent>>
  BY DEF Restart
<1>2. disk' \in Disks /\ (~ disk'.dir => disk' = Empty) /\ StoreOpens'
  <2>1. CASE disk' = disk
    BY <2>1, SameDisk
  <2>2. CASE disk' \in Remains /\ \E c \in Conns : Checked(c)
    <3>1. disk.dir
      BY <2>2, DiskFacts DEF Checked, NoStore, Empty
    <3>2. StoreOpens'
      BY <2>2, <3>1, RemainsFacts DEF LegacyInv, StoreOpens, NoStore
    <3> QED
      BY <2>2, <3>1, <3>2, RemainsFacts
  <2> QED
    BY <1>1, <2>1, <2>2 DEF Left
<1>3. \A c \in Conns : job'[c] = Idle /\ job'[c].do = "idle"
  BY <1>1, JobsMade
<1>4. job' \in [Conns -> Job]
  BY <1>1, JobsMade
<1>5. LockInv'
  BY <1>1, <1>3 DEF LockInv, Working
<1>6. DiskInv'
  BY <1>2, <1>3 DEF DiskInv, Empty, NoStore
<1>7. \A v \in Convs : sk'[v] \notin Ours
  BY <1>1, LegacyAssumption DEF NoKey, Ours
<1>8. BundleInv' /\ PeerCanFollow'
  BY <1>1, <1>7 DEF LegacyInv, BundleInv, PeerCanFollow
<1>9. LegacyTypeOK'
  <2>1. lock' \in Seq(Conns)
    BY <1>1
  <2>2. /\ sk' \in [Convs -> Ours \cup Theirs \cup {NoKey}]
        /\ pending' \in [Convs -> Ours \cup {NoKey}]
    BY <1>1
  <2> QED
    BY <1>1, <1>2, <1>3, <2>1, <2>2 DEF LegacyInv, LegacyTypeOK, Disks
<1> QED
  BY <1>2, <1>4, <1>5, <1>6, <1>8, <1>9 DEF LegacyInv

-------------------------------------------------------------------------------
(* The theorems *)

LEMMA LegacyInitially == LegacyInit => LegacyInv
<1> SUFFICES ASSUME LegacyInit PROVE LegacyInv
  OBVIOUS
<1>1. \A c \in Conns : job[c] = Idle /\ job[c].do = "idle"
  BY JobsMade DEF LegacyInit
<1>2. disk \in Disks /\ disk = Empty /\ disk.salt = 0
  BY LegacyAssumption DEF LegacyInit, Disks, Empty
<1>3. LegacyTypeOK
  <2>1. /\ sk \in [Convs -> Ours \cup Theirs \cup {NoKey}]
        /\ pending \in [Convs -> Ours \cup {NoKey}]
    BY DEF LegacyInit
  <2>2. lock \in Seq(Conns) /\ handle = NoStore
    BY DEF LegacyInit
  <2>3. stores \in 0..MaxStores /\ made \in 0..MaxKeys /\ sent = {}
    BY LegacyAssumption DEF LegacyInit
  <2> QED
    BY <1>1, <1>2, <2>1, <2>2, <2>3 DEF LegacyTypeOK, Disks
<1>4. job \in [Conns -> Job]
  BY JobsMade DEF LegacyInit
<1>5. LockInv
  BY <1>1 DEF LegacyInit, LockInv, Working
<1>6. DiskInv /\ StoreOpens
  BY <1>1, <1>2 DEF DiskInv, StoreOpens
<1>7. BundleInv /\ PeerCanFollow
  BY LegacyAssumption DEF LegacyInit, BundleInv, PeerCanFollow, NoKey, Ours
<1> QED
  BY <1>3, <1>4, <1>5, <1>6, <1>7 DEF LegacyInv

LEMMA LegacyStepKeeps == LegacyInv /\ [LegacyNext]_legacyVars => LegacyInv'
<1> SUFFICES ASSUME LegacyInv, [LegacyNext]_legacyVars PROVE LegacyInv'
  OBVIOUS
<1>1. ASSUME NEW c \in Conns, LegacyStep(c) PROVE LegacyInv'
  BY <1>1, UnlockReadsStep, UnlockOpensStep, LookForKeystoreStep, RemoveKeystoreStep,
     MakeBundleStep, WriteSaltStep, SaveIdentityStep, WriteFailsStep, InitiatedStep,
     RespondedStep, PqxdhFailsStep DEF LegacyStep
<1>2. ASSUME NEW c \in Conns, NEW pw \in Passwords, Unlock(c, pw) \/ Generate(c, pw)
      PROVE  LegacyInv'
  BY <1>2, UnlockStep, GenerateStep
<1>3. ASSUME NEW c \in Conns, NEW v \in Convs,
             Initiate(c, v) \/ Encrypt(c, v) \/ \E k \in Theirs : Respond(c, v, k)
      PROVE  LegacyInv'
  BY <1>3, InitiateStep, EncryptStep, RespondStep
<1>4. CASE Restart
  BY <1>4, RestartStep
<1>5. CASE UNCHANGED legacyVars
  BY <1>5 DEF legacyVars, storeVars, sessionVars, LegacyInv, LegacyTypeOK, LockInv, DiskInv,
     StoreOpens, BundleInv, PeerCanFollow, Empty, NoStore
<1> QED
  BY <1>1, <1>2, <1>3, <1>4, <1>5 DEF LegacyNext

\* The inductive invariant holds in every state: who holds the registration lock works alone,
\* and what it knows of the disk is true.
THEOREM LegacyInvariance == LegacySpec => []LegacyInv
BY LegacyInitially, LegacyStepKeeps, PTL DEF LegacySpec

\* Type correctness of the handlers' global state.
THEOREM LegacyTypes == LegacySpec => []LegacyTypeOK
<1>1. LegacyInv => LegacyTypeOK
  BY DEF LegacyInv
<1> QED
  BY <1>1, LegacyInvariance, PTL

\* Identity and salt on disk belong together, for any number of connections, passwords and
\* keystores, whatever registrations, unlocks and restarts do at the same time.
THEOREM KeystoreOpens == LegacySpec => []StoreOpens
<1>1. LegacyInv => StoreOpens
  BY DEF LegacyInv
<1> QED
  BY <1>1, LegacyInvariance, PTL

\* Of every key that was made here and encrypted with, the bundle was sent to the peer.
THEOREM PeersCanFollow == LegacySpec => []PeerCanFollow
<1>1. LegacyInv => PeerCanFollow
  BY DEF LegacyInv
<1> QED
  BY <1>1, LegacyInvariance, PTL
===============================================================================
