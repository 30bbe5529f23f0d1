-------------------------- MODULE MerkleAnchorProofs --------------------------
(***************************************************************************)
(* Proofs about MerkleAnchor: for any finite number of leaves, any rows,   *)
(* transactions, configuration values and faults, the invariant IInv is    *)
(* inductive.  The safety properties and the refinement follow from it.    *)
(***************************************************************************)
EXTENDS MerkleAnchor, FiniteSetTheorems, FunctionTheorems, TLAPS

USE LeavesAssumption, RootsAssumption, TxsAssumption, ConfigAssumption DEF NoIndex

-------------------------------------------------------------------------------
(* Facts about the counts *)

\* The build's limit is between one and the batch size: the set it counts is finite,
\* and it returns early when there is nothing to count.
LEMMA CountInRange ==
  ASSUME NEW S \in SUBSET Leaves, Cardinality(S) > 0
  PROVE  (IF Cardinality(S) >= BatchSize THEN BatchSize ELSE Cardinality(S))
           \in 1 .. BatchSize
<1>1. IsFiniteSet(S)
  BY FS_Subset
<1>2. Cardinality(S) \in Nat
  BY <1>1, FS_CardinalityType
<1> QED
  BY <1>2

\* Positions are natural numbers.
LEMMA PositionIsNat ==
  ASSUME NEW B \in SUBSET Leaves, NEW l \in B
  PROVE  Position(l, B) \in Nat
<1>1. IsFiniteSet({m \in B : m < l})
  BY FS_Subset
<1> QED
  BY <1>1, FS_CardinalityType DEF Position

-------------------------------------------------------------------------------
(* The inductive invariant *)

LEMMA InitIInv == Init => IInv
  BY DEF Init, IInv, TypeOK, ConfirmedOnChain, LeavesHaveRoots, LeavesFollowRoots,
            Unheard, HashesMatch,
         AttemptsBounded, WorkerInv, ChainInv, AttemptsInv, InBroadcast

\* A move of the worker that changes nothing else keeps the invariant if the new
\* place asks no more of the rows and the transaction than the old one did.
LEMMA JumpKeepsIInv ==
  ASSUME IInv, NEW from, NEW to \in {"off", "idle", "broadcast", "catch", "confirm"},
         Jump(from, to),
         to = "catch" => from \in InBroadcast,
         to = "confirm" => from = "wait" /\ txStatus[tx] = "mined"
  PROVE  IInv'
  BY DEF Jump, IInv, TypeOK, ConfirmedOnChain, LeavesHaveRoots, LeavesFollowRoots,
            Unheard, HashesMatch,
         AttemptsBounded, WorkerInv, ChainInv, AttemptsInv, InBroadcast, StoredBy,
         leafVars, rootVars, chainVars

\* reconcile() keeps the invariant: what it selects is in flight, and a root it
\* returns to "built" has no hash and was marked by a process that crashed since.
LEMMA ReconcileKeepsIInv == ASSUME IInv, Reconcile PROVE IInv'
<1> USE DEF IInv, TypeOK, ConfirmedOnChain, LeavesHaveRoots, LeavesFollowRoots,
            Unheard, HashesMatch,
            AttemptsBounded, WorkerInv, ChainInv, AttemptsInv, InBroadcast, StoredBy,
            RootsIn, SelectInFlight, NextRow, ConfirmRoots, SetRoot, ClearHash,
            leafVars, rootVars, chainVars
<1>1. CASE Start
  BY <1>1 DEF Start
<1>2. CASE StartFails
  BY <1>2, JumpKeepsIInv DEF StartFails
<1>3. CASE ReconcileSelectTx
  BY <1>3 DEF ReconcileSelectTx
<1>4. CASE ReconcileDone
  BY <1>4, JumpKeepsIInv DEF ReconcileDone
<1>5. CASE ReconcileFails
  BY <1>5, JumpKeepsIInv DEF ReconcileFails
<1>6. ASSUME NEW r \in Roots, ReconcileFound(r) PROVE IInv'
  BY <1>6 DEF ReconcileFound
<1>7. ASSUME NEW r \in Roots, ReconcileNotFound(r) PROVE IInv'
  BY <1>7 DEF ReconcileNotFound
<1>8. ASSUME NEW r \in Roots, ReconcileMined(r) PROVE IInv'
  BY <1>8 DEF ReconcileMined
<1>9. ASSUME NEW r \in Roots, ReconcileReverted(r) PROVE IInv'
  BY <1>9 DEF ReconcileReverted
<1>10. ASSUME NEW r \in Roots, ReconcileLeaves(r) PROVE IInv'
  <2>1. UNCHANGED <<leafState, rootState, txHash>>
    BY <1>10 DEF ReconcileLeaves
  <2>2. CASE NextRow("reconcileA", r)
    BY <2>1, <2>2
  <2>3. CASE NextRow("reconcileB", r)
    BY <2>1, <2>3
  <2> QED
    BY <1>10, <2>2, <2>3 DEF ReconcileLeaves
<1> QED
  BY <1>1, <1>2, <1>3, <1>4, <1>5, <1>6, <1>7, <1>8, <1>9, <1>10 DEF Reconcile

\* The build keeps the invariant: the new root's row was not there, so no leaf had
\* it, and the leaves it takes were pending.
LEMMA BuildCommitKeepsIInv == ASSUME IInv, BuildCommit PROVE IInv'
<1>1. PICK r \in Roots, B \in SUBSET LeavesIn("pending") :
        /\ IsOldest({r}, RootsIn("none"), 1)
        /\ IsOldest(B, LeavesIn("pending"), limit)
        /\ rootState' = [rootState EXCEPT ![r] = "built"]
        /\ leafState' = [l \in Leaves |-> IF l \in B THEN "batched" ELSE leafState[l]]
        /\ leafRoot' = [l \in Leaves |-> IF l \in B THEN r ELSE leafRoot[l]]
        /\ leafIndex' = [l \in Leaves |-> IF l \in B THEN Position(l, B) ELSE leafIndex[l]]
  BY Zenon DEF BuildCommit
<1>2. rootState[r] = "none"
  BY <1>1 DEF IsOldest, RootsIn
<1>3. B \subseteq Leaves /\ \A l \in B : leafState[l] = "pending"
  BY DEF LeavesIn
<1>4. leafIndex' \in [Leaves -> Nat \cup {NoIndex}]
  BY <1>1, <1>3, PositionIsNat DEF IInv, TypeOK
<1> QED
  BY <1>1, <1>2, <1>3, <1>4
     DEF BuildCommit, IInv, TypeOK, ConfirmedOnChain, LeavesHaveRoots, LeavesFollowRoots,
            Unheard, HashesMatch,
         AttemptsBounded, WorkerInv, ChainInv, AttemptsInv, InBroadcast, StoredBy, chainVars

LEMMA BuildKeepsIInv == ASSUME IInv, Build PROVE IInv'
<1> USE DEF IInv, TypeOK, ConfirmedOnChain, LeavesHaveRoots, LeavesFollowRoots,
            Unheard, HashesMatch,
            AttemptsBounded, WorkerInv, ChainInv, AttemptsInv, InBroadcast, StoredBy,
            leafVars, rootVars, chainVars
<1>1. CASE BuildSkip
  BY <1>1, JumpKeepsIInv DEF BuildSkip
<1>2. CASE BuildCount
  <2>1. limit' \in 1 .. BatchSize
    BY <1>2, CountInRange DEF BuildCount, LeavesIn
  <2> QED
    BY <1>2, <2>1 DEF BuildCount
<1>3. CASE BuildCommit
  BY <1>3, BuildCommitKeepsIInv
<1>4. CASE BuildFails
  BY <1>4 DEF BuildFails
<1> QED
  BY <1>1, <1>2, <1>3, <1>4 DEF Build

\* The mark keeps the invariant: what it marks was built, so it has no hash and an
\* attempt left.
LEMMA MarkKeepsIInv == ASSUME IInv, BroadcastMark PROVE IInv'
<1>1. PICK G \in SUBSET RootsIn("built") :
        /\ rootState' = [r \in Roots |-> IF r \in G THEN "broadcasting" ELSE rootState[r]]
        /\ attempts' = [r \in Roots |-> IF r \in G THEN attempts[r] + 1 ELSE attempts[r]]
        /\ \/ pc' = "submit" /\ rows' = G
           \/ Unheard /\ pc' = "idle" /\ rows' = {}
  BY DEF BroadcastMark
<1>2. G \subseteq Roots /\ \A r \in G : rootState[r] = "built"
  BY DEF RootsIn
<1>3. UNCHANGED <<leafState, leafRoot, leafIndex, txHash, txStatus, txRoots, tx, limit, restarts>>
  BY DEF BroadcastMark, leafVars, chainVars
<1> USE DEF IInv
<1>4. TypeOK'
  <2>1. /\ rootState' \in [Roots -> {"none", "built", "broadcasting", "confirmed", "failed"}]
        /\ attempts' \in [Roots -> Nat]
    BY <1>1 DEF TypeOK
  <2>2. pc' \in {"submit", "idle"} /\ rows' \in SUBSET Roots
    BY <1>1, <1>2
  <2> QED
    BY <1>3, <2>1, <2>2 DEF TypeOK, InBroadcast
<1>5. (ConfirmedOnChain /\ HashesMatch /\ ChainInv)'
  BY <1>1, <1>2, <1>3 DEF ConfirmedOnChain, HashesMatch, ChainInv, StoredBy
<1>6. \A r \in Roots : /\ rootState[r] # "none" => rootState'[r] # "none"
                       /\ rootState'[r] = "confirmed" <=> rootState[r] = "confirmed"
  BY <1>1, <1>2
<1>7. \A l \in Leaves : leafRoot[l] # NoRoot => leafRoot[l] \in Roots
  BY DEF TypeOK
<1>8. LeavesHaveRoots'
  BY <1>3, <1>6, <1>7 DEF LeavesHaveRoots
<1>9. (Unheard \/ LeavesFollowRoots)'
  BY <1>3, <1>6, <1>7, <1>8 DEF LeavesFollowRoots, Unheard
<1>10. ASSUME NEW r \in Roots
       PROVE  /\ attempts'[r] <= MaxAttempts + restarts
              /\ rootState'[r] \in {"none", "built"} =>
                   attempts'[r] < MaxAttempts + restarts
  <2>1. attempts[r] \in Nat /\ restarts \in Nat /\ MaxAttempts \in Nat
    BY ConfigAssumption DEF TypeOK
  <2>2. /\ attempts[r] <= MaxAttempts + restarts
        /\ rootState[r] \in {"none", "built"} => attempts[r] < MaxAttempts + restarts
    BY DEF AttemptsBounded, AttemptsInv
  <2>3. CASE r \in G
    <3>1. attempts'[r] = attempts[r] + 1 /\ rootState'[r] = "broadcasting"
      BY <1>1, <2>3
    <3>2. attempts[r] < MaxAttempts + restarts
      BY <1>2, <2>2, <2>3
    <3> QED
      BY <2>1, <3>1, <3>2
  <2>4. CASE r \notin G
    BY <1>1, <2>2, <2>4
  <2> QED
    BY <2>3, <2>4
<1>11. (AttemptsBounded /\ AttemptsInv)'
  BY <1>1, <1>3, <1>10 DEF AttemptsBounded, AttemptsInv
<1>12. WorkerInv'
  BY <1>1, <1>2, <1>3 DEF TypeOK, HashesMatch, WorkerInv, InBroadcast
<1> QED
  BY <1>4, <1>5, <1>8, <1>9, <1>11, <1>12

\* The broadcast keeps the invariant: from the mark to the confirmation the worker's
\* rows are the roots of its transaction, and all of them are in flight.
LEMMA BroadcastKeepsIInv == ASSUME IInv, Broadcast PROVE IInv'
<1> USE DEF IInv, TypeOK, ConfirmedOnChain, LeavesHaveRoots, LeavesFollowRoots,
            Unheard, HashesMatch,
            AttemptsBounded, WorkerInv, ChainInv, AttemptsInv, InBroadcast, StoredBy,
            RootsIn, NextRow, ConfirmRoots, SetRoot, ClearHash, EndRun,
            leafVars, rootVars, chainVars
<1>1. CASE BroadcastSkip
  BY <1>1, JumpKeepsIInv DEF BroadcastSkip
<1>2. CASE BroadcastMark
  BY <1>2, MarkKeepsIInv
<1>3. CASE SubmitFails
  BY <1>3, JumpKeepsIInv DEF SubmitFails
<1>4. ASSUME NEW t \in Txs, Submit(t) PROVE IInv'
  BY <1>4 DEF Submit
<1>5. CASE PersistTxHash
  BY <1>5 DEF PersistTxHash
<1>6. CASE PersistFails
  BY <1>6, JumpKeepsIInv DEF PersistFails
<1>7. CASE WaitMined
  BY <1>7, JumpKeepsIInv DEF WaitMined
<1>8. CASE WaitFails
  BY <1>8, JumpKeepsIInv DEF WaitFails
<1>9. CASE Confirm
  BY <1>9 DEF Confirm
<1>10. CASE ConfirmFails
  BY <1>10, JumpKeepsIInv DEF ConfirmFails
<1>11. CASE CatchEnds
  BY <1>11 DEF CatchEnds
<1>12. ASSUME NEW r \in Roots, CatchGivesUp(r) PROVE IInv'
  BY <1>12 DEF CatchGivesUp
<1>13. ASSUME NEW r \in Roots, CatchReturns(r) PROVE IInv'
  BY <1>13 DEF CatchReturns
<1> QED
  BY <1>1, <1>2, <1>3, <1>4, <1>5, <1>6, <1>7, <1>8, <1>9, <1>10, <1>11, <1>12, <1>13
     DEF Broadcast

LEMMA NextKeepsIInv == ASSUME IInv, [Next]_vars PROVE IInv'
<1> USE DEF IInv, TypeOK, ConfirmedOnChain, LeavesHaveRoots, LeavesFollowRoots,
            Unheard, HashesMatch,
            AttemptsBounded, WorkerInv, ChainInv, AttemptsInv, InBroadcast, StoredBy,
            leafVars, rootVars, chainVars, procVars
<1>1. ASSUME NEW l \in Leaves, PostMessage(l) PROVE IInv'
  BY <1>1 DEF PostMessage
<1>2. ASSUME NEW t \in Txs, Resolve(t) PROVE IInv'
  BY <1>2 DEF Resolve
<1>3. CASE Crash
  BY <1>3 DEF Crash
<1>4. CASE UNCHANGED vars
  BY <1>4 DEF vars
<1> QED
  BY <1>1, <1>2, <1>3, <1>4, ReconcileKeepsIInv, BuildKeepsIInv, BroadcastKeepsIInv
     DEF Next

\* The inductive invariant holds in every reachable state, whatever the leaves, the
\* roots, the transactions, the configuration and the faults.
THEOREM Invariance == Spec => []IInv
  BY InitIInv, NextKeepsIInv, PTL DEF Spec

\* The tables, the chain and the worker's memory keep their types.
THEOREM TypeCorrectness == Spec => []TypeOK
  BY Invariance, PTL DEF IInv

\* A confirmed root names a mined transaction that carried it.
THEOREM ConfirmedRootsAreOnChain == Spec => []ConfirmedOnChain
  BY Invariance, PTL DEF IInv

\* While no answer of PostgreSQL is lost, the states of merkle_leaves and of
\* merkle_roots never disagree.
THEOREM TablesAgree == ASSUME "ack" \notin Faults PROVE Spec => []LeavesFollowRoots
<1>1. IInv => LeavesFollowRoots
  BY DEF IInv, Unheard
<1> QED
  BY <1>1, Invariance, PTL

\* No root looks up, or is broadcast again under, a stale transaction hash.
THEOREM HashesAreFresh == Spec => []HashesMatch
  BY Invariance, PTL DEF IInv

\* A root is attempted at most once over the cap per crash.
THEOREM AttemptsHaveABound == Spec => []AttemptsBounded
  BY Invariance, PTL DEF IInv

-------------------------------------------------------------------------------
(* Submissions *)

\* A root that is about to be submitted has an attempt that no transaction has used.
SubmitInv ==
  \A r \in Roots :
    /\ IsFiniteSet(Submissions(r))
    /\ Cardinality(Submissions(r)) <= attempts[r]
    /\ pc = "submit" /\ r \in rows => Cardinality(Submissions(r)) < attempts[r]

LEMMA InitSubmitInv == Init => SubmitInv
<1> SUFFICES ASSUME Init, NEW r \in Roots
             PROVE  /\ IsFiniteSet(Submissions(r))
                    /\ Cardinality(Submissions(r)) <= attempts[r]
                    /\ ~ (pc = "submit")
  BY DEF SubmitInv
<1>1. Submissions(r) = {}
  BY DEF Init, Submissions
<1> QED
  BY <1>1, FS_EmptySet DEF Init

\* A step that submits nothing, and marks nothing.
LEMMA QuietKeepsSubmitInv ==
  ASSUME SubmitInv, txRoots' = txRoots, attempts' = attempts,
         pc' = "submit" => pc = "submit" /\ rows' = rows
  PROVE  SubmitInv'
  BY DEF SubmitInv, Submissions

LEMMA MarkKeepsSubmitInv == ASSUME IInv, SubmitInv, BroadcastMark PROVE SubmitInv'
<1>1. PICK G \in SUBSET Roots :
        /\ attempts' = [r \in Roots |-> IF r \in G THEN attempts[r] + 1 ELSE attempts[r]]
        /\ pc' = "submit" => rows' = G
  BY DEF BroadcastMark, RootsIn
<1> SUFFICES ASSUME NEW r \in Roots
             PROVE  /\ IsFiniteSet(Submissions(r)')
                    /\ Cardinality(Submissions(r)') <= attempts'[r]
                    /\ pc' = "submit" /\ r \in rows' => Cardinality(Submissions(r)') < attempts'[r]
  BY DEF SubmitInv
<1>2. Submissions(r)' = Submissions(r)
  BY DEF Submissions, BroadcastMark, chainVars
<1>3. IsFiniteSet(Submissions(r)) /\ Cardinality(Submissions(r)) <= attempts[r]
  BY DEF SubmitInv
<1>4. Cardinality(Submissions(r)) \in Nat
  BY <1>3, FS_CardinalityType
<1>5. attempts[r] \in Nat
  BY DEF IInv, TypeOK
<1> QED
  BY <1>1, <1>2, <1>3, <1>4, <1>5

LEMMA SubmitKeepsSubmitInv ==
  ASSUME IInv, SubmitInv, NEW t \in Txs, Submit(t)
  PROVE  SubmitInv'
<1> SUFFICES ASSUME NEW r \in Roots
             PROVE  /\ IsFiniteSet(Submissions(r)')
                    /\ Cardinality(Submissions(r)') <= attempts'[r]
                    /\ ~ (pc' = "submit")
  BY DEF SubmitInv
<1>1. attempts' = attempts /\ ~ (pc' = "submit")
  BY DEF Submit, rootVars
<1>2. IsFiniteSet(Submissions(r)) /\ Cardinality(Submissions(r)) <= attempts[r]
  BY DEF SubmitInv
<1>3. attempts[r] \in Nat /\ Cardinality(Submissions(r)) \in Nat
  BY <1>2, FS_CardinalityType DEF IInv, TypeOK
<1>4. CASE r \in rows
  <2>1. Submissions(r)' = Submissions(r) \cup {t}
    BY <1>4 DEF Submit, Submissions, IInv, TypeOK
  <2>2. t \notin Submissions(r)
    BY DEF Submit, Submissions, IInv, ChainInv
  <2>3. Cardinality(Submissions(r)) < attempts[r]
    BY <1>4 DEF Submit, SubmitInv
  <2>4. /\ IsFiniteSet(Submissions(r) \cup {t})
        /\ Cardinality(Submissions(r) \cup {t}) = Cardinality(Submissions(r)) + 1
    BY <1>2, <2>2, FS_AddElement
  <2>5. Cardinality(Submissions(r) \cup {t}) <= attempts[r]
    BY <1>3, <2>3, <2>4
  <2> QED
    BY <1>1, <2>1, <2>4, <2>5
<1>5. CASE r \notin rows
  <2>1. Submissions(r)' = Submissions(r)
    BY <1>5 DEF Submit, Submissions, IInv, TypeOK, ChainInv
  <2> QED
    BY <1>1, <1>2, <2>1
<1> QED
  BY <1>4, <1>5

LEMMA NextKeepsSubmitInv == ASSUME IInv, SubmitInv, [Next]_vars PROVE SubmitInv'
<1>1. CASE BroadcastMark
  BY <1>1, MarkKeepsSubmitInv
<1>2. CASE \E t \in Txs : Submit(t)
  BY <1>2, SubmitKeepsSubmitInv
<1>3. CASE ~ BroadcastMark /\ ~ \E t \in Txs : Submit(t)
  <2>1. /\ txRoots' = txRoots /\ attempts' = attempts
        /\ pc' = "submit" => pc = "submit" /\ rows' = rows
    <3> USE DEF leafVars, rootVars, chainVars, procVars, NextRow, Jump, EndRun
    <3>1. CASE Reconcile
      BY <3>1 DEF Reconcile, Start, StartFails, SelectInFlight, ReconcileSelectTx, ReconcileDone,
         ReconcileFails, ReconcileFound, ReconcileNotFound, ReconcileMined, ReconcileReverted,
         ReconcileLeaves
    <3>2. CASE Build
      BY <3>2 DEF Build, BuildSkip, BuildCount, BuildCommit, BuildFails
    <3>3. CASE Broadcast
      BY <3>3, <1>3 DEF Broadcast, BroadcastSkip, SubmitFails, PersistTxHash, PersistFails,
         WaitMined, WaitFails, Confirm, ConfirmFails, CatchEnds, CatchGivesUp, CatchReturns
    <3>4. CASE (\E l \in Leaves : PostMessage(l)) \/ (\E t \in Txs : Resolve(t)) \/ Crash
      BY <3>4 DEF PostMessage, Resolve, Crash
    <3>5. CASE UNCHANGED vars
      BY <3>5 DEF vars
    <3> QED
      BY <3>1, <3>2, <3>3, <3>4, <3>5 DEF Next
  <2> QED
    BY <2>1, QuietKeepsSubmitInv
<1> QED
  BY <1>1, <1>2, <1>3

\* However often the worker crashes, and whatever the node hides from it, a root is carried by
\* no more transactions than it has attempts.
THEOREM EverySubmissionCounts == Spec => []SubmissionsAreCounted
<1>1. SubmitInv => SubmissionsAreCounted
  BY DEF SubmitInv, SubmissionsAreCounted
<1> QED
  BY InitIInv, NextKeepsIInv, InitSubmitInv, NextKeepsSubmitInv, <1>1, PTL DEF Spec

-------------------------------------------------------------------------------
(* The leaves of a root are numbered without gaps *)

\* The positions of the leaves of B are 0, 1, ... in the order of creation.
LEMMA PositionsAreDense ==
  ASSUME NEW B \in SUBSET Leaves
  PROVE  /\ IsFiniteSet(B) /\ Cardinality(B) \in Nat
         /\ \A l, m \in B : l < m => Position(l, B) < Position(m, B)
         /\ {Position(l, B) : l \in B} = 0 .. Cardinality(B) - 1
<1> DEFINE Below(l) == {x \in B : x < l}
           n == Cardinality(B)
           f == [l \in B |-> Position(l, B)]
<1>1. IsFiniteSet(B) /\ n \in Nat
  BY FS_Subset, FS_CardinalityType
\* What is below l, and l, are one more.
<1>2. ASSUME NEW l \in B
      PROVE  /\ IsFiniteSet(Below(l) \cup {l})
             /\ Cardinality(Below(l) \cup {l}) = Position(l, B) + 1
  <2>1. IsFiniteSet(Below(l)) /\ l \notin Below(l)
    BY <1>1, FS_Subset
  <2>2. Cardinality(Below(l)) = Position(l, B)
    BY DEF Position
  <2> HIDE DEF Below
  <2> QED BY <2>1, <2>2, FS_AddElement
<1>3. ASSUME NEW l \in B, NEW m \in B, l < m
      PROVE  Position(l, B) < Position(m, B)
  <2>1. Below(l) \cup {l} \subseteq Below(m)
    <3>1. l \in Nat /\ m \in Nat /\ \A x \in B : x \in Nat
      BY LeavesAssumption
    <3>2. \A x \in B : x < l => x < m
      BY <3>1, <1>3
    <3> QED BY <3>2, <1>3
  <2>2. IsFiniteSet(Below(m)) /\ Cardinality(Below(m)) = Position(m, B)
    BY <1>1, FS_Subset DEF Position
  <2>3. Position(l, B) \in Nat /\ Position(m, B) \in Nat
    BY PositionIsNat
  <2> HIDE DEF Below
  <2>4. Cardinality(Below(l) \cup {l}) <= Cardinality(Below(m))
    BY <2>1, <2>2, FS_Subset
  <2> QED BY <1>2, <2>2, <2>3, <2>4
<1>4. ASSUME NEW l \in B PROVE Position(l, B) \in 0 .. n - 1
  <2>1. Below(l) \cup {l} \subseteq B
    OBVIOUS
  <2>2. Position(l, B) \in Nat
    BY PositionIsNat
  <2> HIDE DEF Below
  <2>3. Cardinality(Below(l) \cup {l}) <= n
    BY <2>1, <1>1, FS_Subset
  <2> QED BY <1>1, <1>2, <2>2, <2>3
<1>5. f \in Injection(B, 0 .. n - 1)
  <2>1. f \in [B -> 0 .. n - 1]
    BY <1>4
  <2>2. ASSUME NEW l \in B, NEW m \in B, f[l] = f[m] PROVE l = m
    <3>1. l \in Nat /\ m \in Nat /\ Position(l, B) \in Nat /\ Position(m, B) \in Nat
      BY PositionIsNat
    <3>2. Position(l, B) = Position(m, B)
      BY <2>2
    <3> QED BY <3>1, <3>2, <1>3
  <2> QED BY <2>1, <2>2, Fun_IsInj
<1>6. IsFiniteSet(0 .. n - 1) /\ Cardinality(0 .. n - 1) = n
  <2>1. 0 \in Int /\ n - 1 \in Int /\ (IF 0 > n - 1 THEN 0 ELSE n - 1 - 0 + 1) = n
    BY <1>1
  <2> HIDE DEF n
  <2> QED BY <2>1, FS_Interval
<1>7. f \in Surjection(B, 0 .. n - 1)
  <2> HIDE DEF f
  <2> QED BY <1>5, <1>6, FS_Injection
<1>8. {Position(l, B) : l \in B} = 0 .. n - 1
  BY <1>4, <1>7 DEF Surjection
<1> QED BY <1>1, <1>3, <1>8

\* A batch gets the positions, and no other root's leaves are touched: those of the batch
\* were pending, and the root's row was not there.
LEMMA BuildCommitPlaces == ASSUME IInv, IndexesAreDense, BuildCommit PROVE IndexesAreDense'
<1>1. PICK r \in Roots, B \in SUBSET LeavesIn("pending") :
        /\ IsOldest({r}, RootsIn("none"), 1)
        /\ IsOldest(B, LeavesIn("pending"), limit)
        /\ rootState' = [rootState EXCEPT ![r] = "built"]
        /\ leafState' = [l \in Leaves |-> IF l \in B THEN "batched" ELSE leafState[l]]
        /\ leafRoot' = [l \in Leaves |-> IF l \in B THEN r ELSE leafRoot[l]]
        /\ leafIndex' = [l \in Leaves |-> IF l \in B THEN Position(l, B) ELSE leafIndex[l]]
  BY Zenon DEF BuildCommit
<1>2. \A l \in Leaves : leafRoot[l] # r
  BY <1>1 DEF IsOldest, RootsIn, IInv, LeavesHaveRoots
<1>3. B \in SUBSET Leaves /\ \A l \in B : leafRoot[l] = NoRoot
  BY DEF LeavesIn, IInv, LeavesHaveRoots
<1>4. /\ IsFiniteSet(B) /\ Cardinality(B) \in Nat
      /\ \A l, m \in B : l < m => Position(l, B) < Position(m, B)
      /\ {Position(l, B) : l \in B} = 0 .. Cardinality(B) - 1
  BY <1>3, PositionsAreDense
<1>5. Cardinality(B) <= BatchSize
  <2>1. limit \in 1 .. BatchSize
    BY DEF BuildCommit, IInv, TypeOK
  <2>2. Cardinality(LeavesIn("pending")) \in Nat
    BY FS_Subset, FS_CardinalityType, LeavesIn("pending") \subseteq Leaves DEF LeavesIn
  <2>3. Cardinality(B) = IF Cardinality(LeavesIn("pending")) < limit
                         THEN Cardinality(LeavesIn("pending")) ELSE limit
    BY <1>1 DEF IsOldest
  <2> QED BY <2>1, <2>2, <2>3
<1> SUFFICES ASSUME NEW q \in Roots
             PROVE  LET under == {l \in Leaves : leafRoot'[l] = q}
                    IN  /\ {leafIndex'[l] : l \in under} = 0 .. Cardinality(under) - 1
                        /\ \A l, m \in under : l < m => leafIndex'[l] < leafIndex'[m]
                        /\ Cardinality(under) <= BatchSize
  BY DEF IndexesAreDense
<1>6. CASE q = r
  <2>1. {l \in Leaves : leafRoot'[l] = q} = B
    BY <1>1, <1>2, <1>3, <1>6
  <2>2. \A l \in B : leafIndex'[l] = Position(l, B)
    BY <1>1, <1>3
  <2>3. {leafIndex'[l] : l \in B} = {Position(l, B) : l \in B}
    BY <2>2
  <2> QED BY <2>1, <2>2, <2>3, <1>4, <1>5
<1>7. CASE q # r
  <2>1. {l \in Leaves : leafRoot'[l] = q} = {l \in Leaves : leafRoot[l] = q}
    BY <1>1, <1>3, <1>7
  <2>2. \A l \in Leaves : leafRoot[l] = q => leafIndex'[l] = leafIndex[l]
    BY <1>1, <1>3
  <2> DEFINE under == {l \in Leaves : leafRoot[l] = q}
  <2>3. /\ {leafIndex[l] : l \in under} = 0 .. Cardinality(under) - 1
        /\ \A l, m \in under : l < m => leafIndex[l] < leafIndex[m]
        /\ Cardinality(under) <= BatchSize
    BY DEF IndexesAreDense
  <2>4. \A l \in under : leafIndex'[l] = leafIndex[l]
    BY <2>2
  <2> HIDE DEF under
  <2>5. {leafIndex'[l] : l \in under} = {leafIndex[l] : l \in under}
    BY <2>4
  <2>6. \A l, m \in under : l < m => leafIndex'[l] < leafIndex'[m]
    BY <2>3, <2>4
  <2> QED BY <2>1, <2>3, <2>5, <2>6 DEF under
<1> QED BY <1>6, <1>7

\* No other step moves a leaf.
LEMMA OthersPlaceNothing ==
  ASSUME [Next]_vars, ~ BuildCommit
  PROVE  UNCHANGED <<leafRoot, leafIndex>>
<1> USE DEF leafVars, rootVars, chainVars, procVars, NextRow, Jump, EndRun
<1>1. CASE Reconcile
  BY <1>1 DEF Reconcile, Start, StartFails, SelectInFlight, ReconcileSelectTx, ReconcileDone,
     ReconcileFails, ReconcileFound, ReconcileNotFound, ReconcileMined, ReconcileReverted,
     ReconcileLeaves
<1>2. CASE Build
  BY <1>2 DEF Build, BuildSkip, BuildCount, BuildFails
<1>3. CASE Broadcast
  BY <1>3 DEF Broadcast, BroadcastSkip, BroadcastMark, Submit, SubmitFails, PersistTxHash,
     PersistFails, WaitMined, WaitFails, Confirm, ConfirmFails, CatchEnds, CatchGivesUp,
     CatchReturns
<1>4. CASE (\E l \in Leaves : PostMessage(l)) \/ (\E t \in Txs : Resolve(t)) \/ Crash
  BY <1>4 DEF PostMessage, Resolve, Crash
<1>5. CASE UNCHANGED vars
  BY <1>5 DEF vars
<1> QED BY <1>1, <1>2, <1>3, <1>4, <1>5 DEF Next

\* The leaves of a root have the positions 0, 1, ... in the order of their creation, whatever is
\* posted between the count and the transaction: proof.js rebuilds the tree that was stored.
THEOREM PositionsHaveNoGaps == Spec => []IndexesAreDense
<1>1. Init => IndexesAreDense
  <2> SUFFICES ASSUME Init PROVE IndexesAreDense
    OBVIOUS
  <2>1. Cardinality({}) = 0 /\ 0 .. 0 - 1 = {}
    BY FS_EmptySet
  <2>2. ASSUME NEW r \in Roots
        PROVE  LET under == {l \in Leaves : leafRoot[l] = r}
               IN  /\ {leafIndex[l] : l \in under} = 0 .. Cardinality(under) - 1
                   /\ \A l, m \in under : l < m => leafIndex[l] < leafIndex[m]
                   /\ Cardinality(under) <= BatchSize
    <3> DEFINE under == {l \in Leaves : leafRoot[l] = r}
    <3>1. under = {}
      BY DEF Init
    <3>2. {leafIndex[l] : l \in under} = {}
      BY <3>1
    <3> HIDE DEF under
    <3>3. /\ {leafIndex[l] : l \in under} = 0 .. Cardinality(under) - 1
          /\ \A l, m \in under : l < m => leafIndex[l] < leafIndex[m]
          /\ Cardinality(under) <= BatchSize
      BY <2>1, <3>1, <3>2
    <3> QED BY <3>3 DEF under
  <2> QED BY <2>2 DEF IndexesAreDense
<1>2. IInv /\ IndexesAreDense /\ [Next]_vars => IndexesAreDense'
  <2>1. ASSUME IInv, IndexesAreDense, [Next]_vars, ~ BuildCommit PROVE IndexesAreDense'
    BY <2>1, OthersPlaceNothing DEF IndexesAreDense
  <2> QED BY <2>1, BuildCommitPlaces
<1> QED
  BY InitIInv, NextKeepsIInv, <1>1, <1>2, PTL DEF Spec

-------------------------------------------------------------------------------
(* What is settled stays *)

\* A row that is being dealt with is in flight, so it is not settled.
LEMMA RowsAreInFlight ==
  ASSUME "ack" \notin Faults, IInv, pc \in InBroadcast \cup {"reconcileA", "reconcileB"}
  PROVE  \A r \in rows : rootState[r] = "broadcasting"
  BY DEF IInv, WorkerInv, Unheard

\* One step of the worker, of a request or of the chain takes back nothing settled:
\* whatever it overwrites was pending, built or in flight.
LEMMA StepTakesNothingBack ==
  ASSUME "ack" \notin Faults, IInv, Next PROVE TakesNothingBack
<1> USE DEF TakesNothingBack, leafVars, rootVars, chainVars, procVars
<1>0. DOMAIN rootState = Roots /\ DOMAIN txHash = Roots
  BY DEF IInv, TypeOK
<1>1. CASE Reconcile
  <2> USE RowsAreInFlight DEF InBroadcast, NextRow, SetRoot, ConfirmRoots, ClearHash, Jump,
          SelectInFlight
  <2>1. CASE Start \/ StartFails \/ ReconcileSelectTx \/ ReconcileDone \/ ReconcileFails
    BY <2>1 DEF Start, StartFails, ReconcileSelectTx, ReconcileDone, ReconcileFails
  <2>2. ASSUME NEW r \in Roots, ReconcileFound(r) \/ ReconcileNotFound(r)
        PROVE  TakesNothingBack
    BY <1>0, <2>2 DEF ReconcileFound, ReconcileNotFound
  <2>3. ASSUME NEW r \in Roots, ReconcileMined(r) \/ ReconcileReverted(r)
        PROVE  TakesNothingBack
    BY <1>0, <2>3 DEF ReconcileMined, ReconcileReverted
  <2>4. ASSUME NEW r \in Roots, ReconcileLeaves(r) PROVE TakesNothingBack
    BY <2>4 DEF ReconcileLeaves
  <2> QED
    BY <1>1, <2>1, <2>2, <2>3, <2>4 DEF Reconcile
<1>2. CASE Build
  <2>1. CASE BuildCommit
    BY <2>1 DEF BuildCommit, IsOldest, RootsIn, LeavesIn, IInv, TypeOK, LeavesHaveRoots
  <2>2. CASE BuildSkip \/ BuildCount \/ BuildFails
    BY <2>2 DEF BuildSkip, BuildCount, BuildFails, Jump
  <2> QED
    BY <1>2, <2>1, <2>2 DEF Build
<1>3. CASE Broadcast
  <2> USE RowsAreInFlight DEF InBroadcast, NextRow, SetRoot, ConfirmRoots, ClearHash, Jump, EndRun
  <2>1. CASE \/ BroadcastSkip \/ SubmitFails \/ PersistFails \/ WaitMined \/ WaitFails
             \/ ConfirmFails \/ CatchEnds
    BY <2>1 DEF BroadcastSkip, SubmitFails, PersistFails, WaitMined, WaitFails,
                ConfirmFails, CatchEnds
  <2>2. CASE BroadcastMark
    BY <2>2 DEF BroadcastMark, RootsIn
  <2>3. ASSUME NEW t \in Txs, Submit(t) PROVE TakesNothingBack
    BY <2>3 DEF Submit
  <2>4. CASE PersistTxHash
    BY <2>4 DEF PersistTxHash
  <2>5. CASE Confirm
    BY <2>5 DEF Confirm
  <2>6. ASSUME NEW r \in Roots, CatchGivesUp(r) \/ CatchReturns(r) PROVE TakesNothingBack
    BY <1>0, <2>6 DEF CatchGivesUp, CatchReturns
  <2> QED
    BY <1>3, <2>1, <2>2, <2>3, <2>4, <2>5, <2>6 DEF Broadcast
<1>4. CASE Crash \/ (\E l \in Leaves : PostMessage(l)) \/ (\E t \in Txs : Resolve(t))
  BY <1>4 DEF Crash, PostMessage, Resolve
<1> QED
  BY <1>1, <1>2, <1>3, <1>4 DEF Next

\* While no answer of PostgreSQL is lost, settled roots and leaves stay as they are.
THEOREM SettledNeverChanges == ASSUME "ack" \notin Faults PROVE Spec => SettledStays
<1>1. IInv /\ [Next]_vars => [TakesNothingBack]_vars
  BY StepTakesNothingBack
<1> QED
  BY <1>1, Invariance, PTL DEF Spec, SettledStays

-------------------------------------------------------------------------------
(* The pipeline implements the ledger: from its first state, and in every step, *)
(* it does to Posted, Stored and Anchored what AnchorLedger allows.  Steps fall *)
(* in four kinds: a message is posted; the chain comes to cover more leaves (a  *)
(* transaction is mined); the tables report more leaves (a root is confirmed);  *)
(* or the ledger does not change.                                               *)

\* The ledger starts empty.
LEMMA InitMaps == Init => Ledger!Init
<1> SUFFICES ASSUME Init PROVE Posted = {} /\ Stored = {} /\ Anchored = {}
  BY DEF Ledger!Init
<1> QED
  BY RootsAssumption DEF Init, Posted, Stored, Anchored, VerifyStatus

\* What a step must do to count as a Store of the ledger.
LEMMA StoreMaps ==
  ASSUME Posted' = Posted, Anchored' = Anchored,
         Stored \subseteq Stored', Stored' \subseteq Posted
  PROVE  Ledger!Next
<1>1. Stored' \in SUBSET Leaves
  BY DEF Posted
<1>2. Ledger!Store(Stored')
  BY DEF Ledger!Store
<1> QED
  BY <1>1, <1>2 DEF Ledger!Next

\* What a step must do to count as a Report of the ledger.
LEMMA ReportMaps ==
  ASSUME Posted' = Posted, Stored' = Stored,
         Anchored \subseteq Anchored', Anchored' \subseteq Stored
  PROVE  Ledger!Next
<1>1. Anchored' \in SUBSET Leaves
  BY DEF Stored
<1>2. Ledger!Report(Anchored')
  BY DEF Ledger!Report
<1> QED
  BY <1>1, <1>2 DEF Ledger!Next

\* A step that changes neither the tables' states nor the chain is a stutter.
LEMMA QuietMaps ==
  ASSUME UNCHANGED <<leafState, leafRoot, rootState, txStatus, txRoots>>
  PROVE  UNCHANGED Ledger!ledger
<1>1. Posted' = Posted
  BY DEF Posted
<1>2. Stored' = Stored
  BY DEF Stored, StoredBy
<1>3. Anchored' = Anchored
  BY DEF Anchored, VerifyStatus
<1> QED
  BY <1>1, <1>2, <1>3 DEF Ledger!ledger

\* A step that moves a root between states other than "confirmed" is a stutter.
LEMMA MoveMaps ==
  ASSUME UNCHANGED <<leafState, leafRoot, txStatus, txRoots>>,
         leafRoot \in [Leaves -> Roots \cup {NoRoot}],
         \A r \in Roots : rootState'[r] = "confirmed" <=> rootState[r] = "confirmed"
  PROVE  UNCHANGED Ledger!ledger
<1>1. Posted' = Posted
  BY DEF Posted
<1>2. Stored' = Stored
  BY DEF Stored, StoredBy
<1>3. Anchored' = Anchored
  BY DEF Anchored, VerifyStatus
<1> QED
  BY <1>1, <1>2, <1>3 DEF Ledger!ledger

\* A step that confirms roots the chain holds is a Report.
LEMMA ConfirmMaps ==
  ASSUME IInv, NEW R \in SUBSET Roots, ConfirmRoots(R),
         \A r \in R : \E t \in Txs : StoredBy(r, t),
         UNCHANGED <<leafRoot, txStatus, txRoots>>
  PROVE  Ledger!Next
<1>1. Posted' = Posted
  <2>1. \A l \in Leaves : leafRoot[l] \in R => leafState[l] # "none"
    BY RootsAssumption DEF IInv, LeavesHaveRoots
  <2>2. leafState' = [l \in Leaves |-> IF leafRoot[l] \in R THEN "confirmed" ELSE leafState[l]]
    BY DEF ConfirmRoots
  <2> QED
    BY <2>1, <2>2 DEF Posted
<1>2. Stored' = Stored
  BY DEF Stored, StoredBy
<1>3. Anchored \subseteq Anchored'
  BY DEF Anchored, VerifyStatus, ConfirmRoots, IInv, TypeOK
<1>4. Anchored' \subseteq Stored
  <2> SUFFICES ASSUME NEW l \in Leaves, leafRoot[l] # NoRoot,
                      rootState'[leafRoot[l]] = "confirmed"
               PROVE  \E t \in Txs : StoredBy(leafRoot[l], t)
    BY DEF Anchored, Stored, VerifyStatus
  <2>1. leafRoot[l] \in Roots
    BY DEF IInv, TypeOK
  <2>2. leafRoot[l] \in R \/ rootState[leafRoot[l]] = "confirmed"
    BY <2>1 DEF ConfirmRoots
  <2> QED
    BY <2>1, <2>2 DEF IInv, ConfirmedOnChain
<1> QED
  BY <1>1, <1>2, <1>3, <1>4, ReportMaps

\* Posting a message is a Post of its leaf.
LEMMA PostMaps == ASSUME IInv, NEW l \in Leaves, PostMessage(l) PROVE Ledger!Next
<1>1. Posted' = Posted \cup {l}
  BY DEF Posted, PostMessage, IInv, TypeOK
<1>2. Stored' = Stored
  BY DEF Stored, StoredBy, PostMessage, chainVars
<1>3. Anchored' = Anchored
  BY DEF Anchored, VerifyStatus, PostMessage, rootVars
<1> QED
  BY <1>1, <1>2, <1>3 DEF Ledger!Next, Ledger!Post

\* A transaction that leaves the pool may store leaves, and takes none back.
LEMMA ResolveMaps == ASSUME IInv, NEW t \in Txs, Resolve(t) PROVE Ledger!Next
<1>1. Posted' = Posted
  BY DEF Posted, Resolve, leafVars
<1>2. Anchored' = Anchored
  BY DEF Anchored, VerifyStatus, Resolve, leafVars, rootVars
<1>3. \A u \in Txs : txStatus[u] = "mined" => txStatus'[u] = "mined"
  BY DEF Resolve, IInv, TypeOK
<1>4. UNCHANGED <<leafState, leafRoot, txRoots>>
  BY DEF Resolve, leafVars
<1>5. Stored \subseteq Stored'
  BY <1>3, <1>4 DEF Stored, StoredBy
<1>6. Stored' \subseteq Posted
  BY <1>4 DEF Stored, Posted, IInv, TypeOK, LeavesHaveRoots
<1> QED
  BY <1>1, <1>2, <1>5, <1>6, StoreMaps

\* The build gives roots to pending leaves only: they were neither stored nor
\* reported, and the root's row is not confirmed.
LEMMA BuildCommitMaps == ASSUME IInv, BuildCommit PROVE Ledger!Next
<1>1. PICK r \in Roots, B \in SUBSET LeavesIn("pending") :
        /\ IsOldest({r}, RootsIn("none"), 1)
        /\ IsOldest(B, LeavesIn("pending"), limit)
        /\ rootState' = [rootState EXCEPT ![r] = "built"]
        /\ leafState' = [l \in Leaves |-> IF l \in B THEN "batched" ELSE leafState[l]]
        /\ leafRoot' = [l \in Leaves |-> IF l \in B THEN r ELSE leafRoot[l]]
        /\ leafIndex' = [l \in Leaves |-> IF l \in B THEN Position(l, B) ELSE leafIndex[l]]
  BY Zenon DEF BuildCommit
<1>2. rootState[r] = "none"
  BY <1>1 DEF IsOldest, RootsIn
<1>3. B \subseteq Leaves /\ \A l \in B : leafState[l] = "pending" /\ leafRoot[l] = NoRoot
  BY DEF LeavesIn, IInv, LeavesHaveRoots
<1>4. UNCHANGED <<txStatus, txRoots>>
  BY DEF BuildCommit, chainVars
<1>5. Posted' = Posted
  BY <1>1, <1>3 DEF Posted
<1>6. Anchored' = Anchored
  <2>1. \A l \in Leaves : VerifyStatus(l)' = VerifyStatus(l)
    <3> SUFFICES ASSUME NEW l \in Leaves PROVE VerifyStatus(l)' = VerifyStatus(l)
      OBVIOUS
    <3>1. rootState'[r] # "confirmed" /\ rootState[r] # "confirmed"
      BY <1>1, <1>2 DEF IInv, TypeOK
    <3>2. CASE l \in B
      <4>1. leafRoot'[l] = r /\ leafRoot[l] = NoRoot
        BY <1>1, <1>3, <3>2
      <4> QED BY <3>1, <4>1 DEF VerifyStatus
    <3>3. CASE l \notin B
      <4>1. leafRoot'[l] = leafRoot[l]
        BY <1>1, <3>3
      <4>2. leafRoot[l] # NoRoot => leafRoot[l] # r /\ leafRoot[l] \in Roots
        BY <1>2 DEF IInv, TypeOK, LeavesHaveRoots
      <4>3. \A q \in Roots : q # r => rootState'[q] = rootState[q]
        BY <1>1 DEF IInv, TypeOK
      <4> QED BY <4>1, <4>2, <4>3 DEF VerifyStatus
    <3> QED BY <3>2, <3>3
  <2> QED BY <2>1 DEF Anchored
<1>7. Stored \subseteq Stored'
  BY <1>1, <1>3, <1>4 DEF Stored, StoredBy
<1>8. Stored' \subseteq Posted
  BY <1>1, <1>3, <1>4 DEF Stored, Posted, IInv, LeavesHaveRoots
<1> QED
  BY <1>5, <1>6, <1>7, <1>8, StoreMaps

\* A transaction that is only pooled stores nothing yet.
LEMMA SubmitMaps == ASSUME IInv, NEW t \in Txs, Submit(t) PROVE UNCHANGED Ledger!ledger
<1>1. UNCHANGED <<leafState, leafRoot, rootState>>
  BY DEF Submit, leafVars, rootVars
<1>2. \A u \in Txs, r \in Roots : StoredBy(r, u)' <=> StoredBy(r, u)
  BY DEF Submit, StoredBy, IInv, TypeOK
<1>3. leafRoot \in [Leaves -> Roots \cup {NoRoot}]
  BY DEF IInv, TypeOK
<1>4. Posted' = Posted
  BY <1>1 DEF Posted
<1>5. Stored' = Stored
  BY <1>1, <1>2, <1>3 DEF Stored
<1>6. Anchored' = Anchored
  BY <1>1 DEF Anchored, VerifyStatus
<1> QED
  BY <1>4, <1>5, <1>6 DEF Ledger!ledger

\* reconcile() reports what it found in the chain's log or in a receipt; what it puts
\* back was in flight.
LEMMA ReconcileMaps ==
  ASSUME "ack" \notin Faults, IInv, Reconcile
  PROVE  [Ledger!Next]_Ledger!ledger
<1>1. /\ leafRoot \in [Leaves -> Roots \cup {NoRoot}]
      /\ DOMAIN rootState = Roots
  BY DEF IInv, TypeOK
<1>2. CASE Start \/ StartFails \/ ReconcileSelectTx \/ ReconcileDone \/ ReconcileFails
  BY <1>2, QuietMaps
     DEF Start, StartFails, ReconcileSelectTx, ReconcileDone, ReconcileFails,
         SelectInFlight, Jump, leafVars, rootVars, chainVars
<1>3. ASSUME NEW r \in Roots, ReconcileFound(r) PROVE Ledger!Next
  BY <1>3, ConfirmMaps DEF ReconcileFound, NextRow, chainVars
<1>4. ASSUME NEW r \in Roots, ReconcileMined(r) PROVE Ledger!Next
  <2>1. txHash[r] \in Txs
    BY <1>4 DEF ReconcileMined, NextRow, IInv, WorkerInv
  <2> QED
    BY <1>4, <2>1, ConfirmMaps DEF ReconcileMined, NextRow, chainVars
<1>5. ASSUME NEW r \in Roots, ReconcileNotFound(r) \/ ReconcileReverted(r)
      PROVE  UNCHANGED Ledger!ledger
  <2>1. rootState[r] = "broadcasting" /\ rootState' = [rootState EXCEPT ![r] = "built"]
    BY <1>5, RowsAreInFlight DEF ReconcileNotFound, ReconcileReverted, NextRow, SetRoot
  <2>2. UNCHANGED <<leafState, leafRoot, txStatus, txRoots>>
    BY <1>5 DEF ReconcileNotFound, ReconcileReverted, NextRow, SetRoot, chainVars
  <2> QED
    BY <1>1, <2>1, <2>2, MoveMaps
<1>6. ASSUME NEW r \in Roots, ReconcileLeaves(r) PROVE UNCHANGED Ledger!ledger
  BY <1>6, QuietMaps DEF ReconcileLeaves, NextRow, chainVars
<1> QED
  BY <1>2, <1>3, <1>4, <1>5, <1>6 DEF Reconcile

LEMMA BuildMaps == ASSUME IInv, Build PROVE [Ledger!Next]_Ledger!ledger
<1>1. CASE BuildSkip \/ BuildCount \/ BuildFails
  BY <1>1, QuietMaps
     DEF BuildSkip, BuildCount, BuildFails, Jump, leafVars, rootVars, chainVars
<1> QED
  BY <1>1, BuildCommitMaps DEF Build

\* The broadcast reports the roots of a mined transaction; before, and when it fails,
\* it moves roots between states the ledger does not tell apart.
LEMMA BroadcastMaps ==
  ASSUME "ack" \notin Faults, IInv, Broadcast
  PROVE  [Ledger!Next]_Ledger!ledger
<1>1. /\ leafRoot \in [Leaves -> Roots \cup {NoRoot}]
      /\ DOMAIN rootState = Roots
      /\ rows \in SUBSET Roots
  BY DEF IInv, TypeOK
<1>2. CASE \/ BroadcastSkip \/ SubmitFails \/ PersistTxHash \/ PersistFails \/ WaitMined
           \/ WaitFails \/ ConfirmFails \/ CatchEnds
  BY <1>2, QuietMaps
     DEF BroadcastSkip, SubmitFails, PersistTxHash, PersistFails, WaitMined, WaitFails,
         ConfirmFails, CatchEnds, EndRun, Jump, leafVars, rootVars, chainVars
<1>3. CASE BroadcastMark
  <2>1. \A r \in Roots : rootState'[r] = "confirmed" <=> rootState[r] = "confirmed"
    BY <1>3 DEF BroadcastMark, RootsIn
  <2>2. UNCHANGED <<leafState, leafRoot, txStatus, txRoots>>
    BY <1>3 DEF BroadcastMark, leafVars, chainVars
  <2> QED
    BY <1>1, <2>1, <2>2, MoveMaps
<1>4. ASSUME NEW t \in Txs, Submit(t) PROVE UNCHANGED Ledger!ledger
  BY <1>4, SubmitMaps
<1>5. CASE Confirm
  <2>1. tx \in Txs
    BY <1>5 DEF Confirm, IInv, TypeOK
  <2>2. pc = "confirm"
    BY <1>5 DEF Confirm
  <2> QED
    BY <1>1, <1>5, <2>1, ConfirmMaps DEF Confirm, chainVars
<1>6. ASSUME NEW r \in Roots, CatchGivesUp(r) \/ CatchReturns(r)
      PROVE  UNCHANGED Ledger!ledger
  <2>1. rootState[r] = "broadcasting"
    BY <1>6, RowsAreInFlight DEF CatchGivesUp, CatchReturns, NextRow, InBroadcast
  <2>2. \E s \in {"failed", "built"} : rootState' = [rootState EXCEPT ![r] = s]
    BY <1>6 DEF CatchGivesUp, CatchReturns, SetRoot
  <2>3. UNCHANGED <<leafState, leafRoot, txStatus, txRoots>>
    BY <1>6 DEF CatchGivesUp, CatchReturns, NextRow, SetRoot, chainVars
  <2> QED
    BY <1>1, <2>1, <2>2, <2>3, MoveMaps
<1> QED
  BY <1>2, <1>3, <1>4, <1>5, <1>6 DEF Broadcast

LEMMA StepMaps ==
  ASSUME "ack" \notin Faults, IInv, [Next]_vars
  PROVE  [Ledger!Next]_Ledger!ledger
<1>1. CASE Crash \/ UNCHANGED vars
  BY <1>1, QuietMaps DEF Crash, vars, leafVars, rootVars, chainVars
<1> QED
  BY <1>1, ReconcileMaps, BuildMaps, BroadcastMaps, PostMaps, ResolveMaps DEF Next

\* While no answer of PostgreSQL is lost, MerkleAnchor implements AnchorLedger: what GET /messages/:id/verify reports as
\* stored-on-blockchain is on the chain, and is reported for good.
THEOREM AnchorImplementsLedger == ASSUME "ack" \notin Faults PROVE Spec => LedgerSpec
  BY InitMaps, StepMaps, Invariance, PTL DEF Spec, LedgerSpec, Ledger!Spec
===============================================================================
