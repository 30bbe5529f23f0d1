----------------------------- MODULE MerkleAnchor -----------------------------
(***************************************************************************)
(* The pipeline that anchors messages on the chain.                        *)
(*                                                                         *)
(* POST /messages stores one leaf per message (table merkle_leaves).  The  *)
(* blockchain worker (server/blockchain/build-worker.js, publisher.js)     *)
(* groups pending leaves under a Merkle root (table merkle_roots), sends   *)
(* roots in transactions to the contract and confirms the roots, and their *)
(* leaves, from the receipts.  After a restart reconcile() decides what    *)
(* became of the roots the previous process had in flight.                 *)
(*                                                                         *)
(* One server process runs (README.md:111-123, PM2 in fork mode), and in   *)
(* it the `running` flag keeps ticks apart, so the worker is one thread of *)
(* control: the advisory lock excludes nobody here.  A crash of the        *)
(* process may come between any two awaits.  Every await on PostgreSQL or  *)
(* on the RPC node may fail: the other side did not act ("db", "rpc"), or  *)
(* it did and its answer is lost ("ack" for a COMMIT or an UPDATE, "rpc"   *)
(* for the submission of a transaction).                                   *)
(***************************************************************************)
EXTENDS Integers, FiniteSets

CONSTANTS
  Leaves,          \* leaves of the messages that may be posted, ordered by created_at
  Roots,           \* ids of the merkle_roots rows, a serial: ordered by creation
  Txs,             \* transactions the signer may send
  NoRoot, NoTx,    \* SQL's NULL in merkle_root_id and in tx_hash
  BatchSize,       \* merkle_batch_size: leaves of a full batch
  MinRoots,        \* merkle_broadcast_min_roots
  MaxRootsPerTx,   \* merkle_max_roots_per_tx
  MaxAttempts,     \* merkle_max_broadcast_attempts
  MaxRestarts,     \* bound: how often the process may crash
  Faults           \* which faults the environment may inject

ASSUME LeavesAssumption == Leaves \subseteq Nat /\ IsFiniteSet(Leaves)
ASSUME RootsAssumption == Roots \subseteq Nat /\ NoRoot \notin Roots
ASSUME TxsAssumption == NoTx \notin Txs
ASSUME ConfigAssumption ==
  /\ BatchSize \in Nat \ {0}
  /\ MinRoots \in Nat
  /\ MaxRootsPerTx \in Nat \ {0}
  /\ MaxAttempts \in Nat \ {0}
  /\ MaxRestarts \in Nat
ASSUME FaultsAssumption == Faults \subseteq {"db", "ack", "rpc", "revert", "drop"}

\* SQL's NULL in leaf_index.
NoIndex == -1

VARIABLES
  \* merkle_leaves, one row per leaf
  leafState,   \* "none": no such row yet
  leafRoot,    \* merkle_root_id
  leafIndex,   \* leaf_index
  \* merkle_roots, one row per root
  rootState,   \* "none": no such row yet
  txHash,      \* tx_hash
  attempts,    \* attempts
  \* the chain, with the contract and the node's pool of unmined transactions
  txStatus,
  txRoots,     \* the roots a transaction passes to storeBatchHashes
  \* the server process and its worker
  pc,          \* what the worker does next
  rows,        \* roots of the rows it read and has yet to deal with
  tx,          \* the transaction response it holds (tx)
  limit,       \* how many leaves the build counted (limit)
  restarts     \* crashes so far

leafVars  == <<leafState, leafRoot, leafIndex>>
rootVars  == <<rootState, txHash, attempts>>
chainVars == <<txStatus, txRoots>>
procVars  == <<pc, rows, tx, limit, restarts>>
vars      == <<leafVars, rootVars, chainVars, procVars>>

Init ==
  /\ leafState = [l \in Leaves |-> "none"]
  /\ leafRoot = [l \in Leaves |-> NoRoot]
  /\ leafIndex = [l \in Leaves |-> NoIndex]
  /\ rootState = [r \in Roots |-> "none"]
  /\ txHash = [r \in Roots |-> NoTx]
  /\ attempts = [r \in Roots |-> 0]
  /\ txStatus = [t \in Txs |-> "none"]
  /\ txRoots = [t \in Txs |-> {}]
  /\ pc = "down" /\ rows = {} /\ tx = NoTx /\ limit = 0
  /\ restarts = 0

-------------------------------------------------------------------------------

\* P holds the first n of S: what ORDER BY created_at LIMIT n selects.
IsOldest(P, S, n) ==
  /\ P \subseteq S
  /\ Cardinality(P) = IF Cardinality(S) < n THEN Cardinality(S) ELSE n
  /\ \A x \in P, y \in S \ P : x < y

LeavesIn(s) == {l \in Leaves : leafState[l] = s}
RootsIn(s)  == {r \in Roots : rootState[r] = s}

\* The contract emitted HashStored for r in t: a transaction that is mined stores
\* all its roots, one that reverts none.
StoredBy(r, t) == txStatus[t] = "mined" /\ r \in txRoots[t]

\* UPDATE merkle_roots SET state = 'confirmed' for the roots of R, and their leaves.
ConfirmRoots(R) ==
  /\ rootState' = [r \in Roots |-> IF r \in R THEN "confirmed" ELSE rootState[r]]
  /\ leafState' = [l \in Leaves |->
                     IF leafRoot[l] \in R THEN "confirmed" ELSE leafState[l]]

\* UPDATE merkle_roots SET state = s WHERE id = r.
SetRoot(r, s) ==
  /\ rootState' = [rootState EXCEPT ![r] = s]
  /\ UNCHANGED leafState

\* A statement took effect and its answer is lost: the await throws.
Unheard == "ack" \in Faults

ClearHash(r) == txHash' = [txHash EXCEPT ![r] = NoTx]

\* The worker moves on, and nothing else changes.
Jump(from, to) ==
  /\ pc = from
  /\ pc' = to
  /\ UNCHANGED <<leafVars, rootVars, chainVars, rows, tx, limit, restarts>>

\* The loop at p has dealt with the row of r: the caller says what became of the
\* row's state and hash.
NextRow(p, r) ==
  /\ pc = p
  /\ r \in rows
  /\ rows' = rows \ {r}
  /\ UNCHANGED <<leafRoot, leafIndex, attempts, chainVars, pc, tx, limit, restarts>>

\* run() returns.
EndRun ==
  /\ pc' = "idle"
  /\ rows' = {}
  /\ tx' = NoTx

-------------------------------------------------------------------------------
(* POST /messages *)

\* The transaction that stores a message inserts its leaf too.  created_at is the
\* time the transaction began, so leaves may become visible in another order.
PostMessage(l) ==
  /\ pc # "down"
  /\ leafState[l] = "none"
  /\ leafState' = [leafState EXCEPT ![l] = "pending"]
  /\ UNCHANGED <<leafRoot, leafIndex, rootVars, chainVars, procVars>>

-------------------------------------------------------------------------------
(* start() and reconcile() *)

\* One of reconcile()'s SELECTs: the rows in flight with the hashes it asks for.
SelectInFlight(from, to, hashes) ==
  /\ pc = from
  /\ pc' = to
  /\ rows' = {r \in RootsIn("broadcasting") : txHash[r] \in hashes}
  /\ UNCHANGED <<leafVars, rootVars, chainVars, tx, limit, restarts>>

\* The process starts, reads its configuration and the rows of case A.
Start == SelectInFlight("down", "reconcileA", {NoTx})

\* loadMerkleConfig() throws: start() rejects and run() is never scheduled.
StartFails == "db" \in Faults /\ Jump("down", "off")

\* (Mutation: the UPDATE does not store the hash of the transaction it found.)
ReconcileFound_NoHash(r) ==
  /\ NextRow("reconcileA", r)
  /\ \E t \in Txs : StoredBy(r, t)
  /\ ConfirmRoots({r})
  /\ UNCHANGED txHash

\* Case A, no tx_hash: the contract's log has an event for the root ...
ReconcileFound(r) ==
  /\ NextRow("reconcileA", r)
  /\ \E t \in Txs : StoredBy(r, t) /\ txHash' = [txHash EXCEPT ![r] = t]
  /\ ConfirmRoots({r})

\* ... or it has none, so far.
ReconcileNotFound(r) ==
  /\ NextRow("reconcileA", r)
  /\ ~ \E t \in Txs : StoredBy(r, t)
  /\ SetRoot(r, "built")
  /\ UNCHANGED txHash

\* (Mutation: the second SELECT forgets to ask for the state.)
ReconcileSelectTx_AnyState ==
  /\ pc = "reconcileA" /\ rows = {}
  /\ pc' = "reconcileB"
  /\ rows' = {r \in Roots : txHash[r] \in Txs}
  /\ UNCHANGED <<leafVars, rootVars, chainVars, tx, limit, restarts>>

\* The rows of case B, once those of case A are dealt with.
ReconcileSelectTx == rows = {} /\ SelectInFlight("reconcileA", "reconcileB", Txs)

\* (Mutations: only the root is updated; any receipt is taken for success.)
ReconcileMined_RootOnly(r) ==
  /\ NextRow("reconcileB", r)
  /\ txStatus[txHash[r]] = "mined"
  /\ SetRoot(r, "confirmed")
  /\ UNCHANGED txHash

ReconcileMined_AnyReceipt(r) ==
  /\ NextRow("reconcileB", r)
  /\ txStatus[txHash[r]] \in {"mined", "reverted"}
  /\ ConfirmRoots({r})
  /\ UNCHANGED txHash

\* Case B: the receipt of the row's transaction, and the root's event in it.
ReconcileMined(r) ==
  /\ NextRow("reconcileB", r)
  /\ txStatus[txHash[r]] = "mined"
  /\ ConfirmRoots({q \in {r} : StoredBy(q, txHash[r])})
  /\ UNCHANGED txHash

ReconcileReverted(r) ==
  /\ NextRow("reconcileB", r)
  /\ txStatus[txHash[r]] = "reverted"
  /\ SetRoot(r, "built")
  /\ ClearHash(r)

\* The row stays in flight until the next start: there is no receipt, or the loop
\* caught what went wrong for this row.
ReconcileLeaves(r) ==
  /\ \/ NextRow("reconcileB", r) /\ txStatus[txHash[r]] \in {"pooled", "dropped"}
     \/ /\ Faults \cap {"db", "rpc"} # {}
        /\ NextRow("reconcileA", r) \/ NextRow("reconcileB", r)
  /\ UNCHANGED <<leafState, rootState, txHash>>

ReconcileDone == rows = {} /\ Jump("reconcileB", "idle")

\* One of the two SELECTs fails: start() logs it and schedules run() all the same.
ReconcileFails ==
  /\ "db" \in Faults
  /\ rows = {}
  /\ Jump("down", "idle") \/ Jump("reconcileA", "idle")

-------------------------------------------------------------------------------
(* run(): buildPendingRoots() *)

\* Too few pending leaves for a batch, and the oldest is not old enough.
BuildSkip ==
  /\ Cardinality(LeavesIn("pending")) < BatchSize
  /\ Jump("idle", "broadcast")

\* (Mutation: no early return when nothing is pending.)
BuildCount_NoReturn ==
  /\ pc = "idle"
  /\ pc' = "build"
  /\ LET cnt == Cardinality(LeavesIn("pending"))
     IN  limit' = IF cnt >= BatchSize THEN BatchSize ELSE cnt
  /\ UNCHANGED <<leafVars, rootVars, chainVars, rows, tx, restarts>>

\* The count before the transaction: a full batch, or whatever there is once the
\* oldest pending leaf is older than the build interval (at any time, here).
BuildCount ==
  /\ pc = "idle"
  /\ pc' = "build"
  /\ LET cnt == Cardinality(LeavesIn("pending"))
     IN  cnt > 0 /\ limit' = IF cnt >= BatchSize THEN BatchSize ELSE cnt
  /\ UNCHANGED <<leafVars, rootVars, chainVars, rows, tx, restarts>>

\* Position of l when the leaves of B are listed in order of creation.
\* (Mutation: positions that count from one.)
Position_FromOne(l, B) == Cardinality({m \in B : m <= l})

Position(l, B) == Cardinality({m \in B : m < l})

\* The transaction: a row for the root of the oldest leaves, and their positions.  If
\* the COMMIT's answer is lost, run() ends.
BuildCommit ==
  /\ pc = "build"
  /\ pc' = "broadcast" \/ (Unheard /\ pc' = "idle")
  /\ limit' = 0
  /\ \E r \in Roots, B \in SUBSET LeavesIn("pending") :
       /\ IsOldest({r}, RootsIn("none"), 1)
       /\ IsOldest(B, LeavesIn("pending"), limit)
       /\ rootState' = [rootState EXCEPT ![r] = "built"]
       /\ leafState' = [l \in Leaves |-> IF l \in B THEN "batched" ELSE leafState[l]]
       /\ leafRoot' = [l \in Leaves |-> IF l \in B THEN r ELSE leafRoot[l]]
       /\ leafIndex' = [l \in Leaves |-> IF l \in B THEN Position(l, B) ELSE leafIndex[l]]
  /\ UNCHANGED <<txHash, attempts, chainVars, rows, tx, restarts>>

\* The transaction is rolled back, and run() ends without a broadcast.
BuildFails ==
  /\ "db" \in Faults
  /\ pc = "build"
  /\ pc' = "idle"
  /\ limit' = 0
  /\ UNCHANGED <<leafVars, rootVars, chainVars, rows, tx, restarts>>

-------------------------------------------------------------------------------
(* run(): broadcastBuiltRoots() *)

\* No root, or too few and the oldest is not old enough.
BroadcastSkip ==
  /\ RootsIn("built") = {} \/ Cardinality(RootsIn("built")) < MinRoots
  /\ Jump("broadcast", "idle")

\* (Mutation: broadcast_attempts is not incremented.)
BroadcastMark_Uncounted ==
  /\ pc = "broadcast"
  /\ \E G \in SUBSET RootsIn("built") :
       /\ G # {}
       /\ IsOldest(G, RootsIn("built"), MaxRootsPerTx)
       /\ rootState' = [r \in Roots |-> IF r \in G THEN "broadcasting" ELSE rootState[r]]
       /\ \/ pc' = "submit" /\ rows' = G
          \/ Unheard /\ pc' = "idle" /\ rows' = {}
  /\ UNCHANGED <<leafVars, txHash, attempts, chainVars, tx, limit, restarts>>

\* (a) The oldest built roots are marked before anything goes to the network.  The
\* count that precedes it reads the same rows: no other step builds a root.  The
\* transaction is outside the try block: if its answer is lost, run() ends.
BroadcastMark ==
  /\ pc = "broadcast"
  /\ \E G \in SUBSET RootsIn("built") :
       /\ G # {}
       /\ IsOldest(G, RootsIn("built"), MaxRootsPerTx)
       /\ rootState' = [r \in Roots |-> IF r \in G THEN "broadcasting" ELSE rootState[r]]
       /\ attempts' = [r \in Roots |-> IF r \in G THEN attempts[r] + 1 ELSE attempts[r]]
       /\ \/ pc' = "submit" /\ rows' = G
          \/ Unheard /\ pc' = "idle" /\ rows' = {}
  /\ UNCHANGED <<leafVars, txHash, chainVars, tx, limit, restarts>>

\* The node puts a new transaction with the marked roots in its pool.  The worker
\* learns its hash, or the node's answer is lost.
Submit(t) ==
  /\ pc = "submit"
  /\ txStatus[t] = "none"
  /\ txStatus' = [txStatus EXCEPT ![t] = "pooled"]
  /\ txRoots' = [txRoots EXCEPT ![t] = rows]
  /\ \/ pc' = "persist" /\ tx' = t
     \/ "rpc" \in Faults /\ pc' = "catch" /\ tx' = tx
  /\ UNCHANGED <<leafVars, rootVars, rows, limit, restarts>>

\* estimateGas() or the submission fails, and nothing reaches the pool.
SubmitFails == "rpc" \in Faults /\ Jump("submit", "catch")

\* (b) tx_hash is stored before the confirmation is awaited.
PersistTxHash ==
  /\ pc = "persist"
  /\ pc' = "wait" \/ (Unheard /\ pc' = "catch")
  /\ txHash' = [r \in Roots |-> IF r \in rows THEN tx ELSE txHash[r]]
  /\ UNCHANGED <<leafVars, rootState, attempts, chainVars, rows, tx, limit, restarts>>

PersistFails == "db" \in Faults /\ Jump("persist", "catch")

\* (c) tx.wait() resolves once the transaction is mined; it throws when the
\* transaction reverts, or when the node cannot be asked.
WaitMined == Jump("wait", "confirm") /\ txStatus[tx] = "mined"

WaitFails ==
  /\ Jump("wait", "catch")
  /\ txStatus[tx] = "reverted" \/ "rpc" \in Faults

\* confirmRootsFromReceipt(): the roots that have an event in the receipt.  If the
\* COMMIT's answer is lost, the catch block deals with rows that are confirmed.
Confirm ==
  /\ pc = "confirm"
  /\ ConfirmRoots({r \in rows : StoredBy(r, tx)})
  /\ EndRun \/ (Unheard /\ pc' = "catch" /\ UNCHANGED <<rows, tx>>)
  /\ UNCHANGED <<leafRoot, leafIndex, txHash, attempts, chainVars, limit, restarts>>

ConfirmFails == "db" \in Faults /\ Jump("confirm", "catch")

\* The catch block updates the rows one by one.  row.attempts + 1 is the value that
\* BroadcastMark left in the row.
CatchGivesUp(r) ==
  /\ NextRow("catch", r)
  /\ attempts[r] >= MaxAttempts
  /\ SetRoot(r, "failed")
  /\ UNCHANGED txHash

\* (Mutations: tx_hash is kept; the state is kept; the cap is compared with the value
\* from before the increment.)
CatchReturns_KeepsHash(r) ==
  /\ NextRow("catch", r)
  /\ attempts[r] < MaxAttempts
  /\ SetRoot(r, "built")
  /\ UNCHANGED txHash

CatchReturns_KeepsState(r) ==
  /\ NextRow("catch", r)
  /\ attempts[r] < MaxAttempts
  /\ ClearHash(r)
  /\ UNCHANGED <<rootState, leafState>>

CatchReturns_LateCap(r) ==
  /\ NextRow("catch", r)
  /\ attempts[r] - 1 < MaxAttempts
  /\ SetRoot(r, "built")
  /\ ClearHash(r)

CatchReturns(r) ==
  /\ NextRow("catch", r)
  /\ attempts[r] < MaxAttempts
  /\ SetRoot(r, "built")
  /\ ClearHash(r)

\* The loop is over, or one of its UPDATEs throws: then run() ends, and the rows
\* that are left stay in flight.
CatchEnds ==
  /\ pc = "catch"
  /\ rows = {} \/ "db" \in Faults
  /\ EndRun
  /\ UNCHANGED <<leafVars, rootVars, chainVars, limit, restarts>>

-------------------------------------------------------------------------------
(* The chain and the process *)

\* A transaction of the pool is mined, reverts, or is evicted from the pool.
Resolve(t) ==
  /\ txStatus[t] = "pooled"
  /\ \E s \in {"mined"} \cup (IF "revert" \in Faults THEN {"reverted"} ELSE {})
                        \cup (IF "drop" \in Faults THEN {"dropped"} ELSE {}) :
       txStatus' = [txStatus EXCEPT ![t] = s]
  /\ UNCHANGED <<leafVars, rootVars, txRoots, procVars>>

\* The process dies between two awaits: its memory goes, the tables stay.
Crash ==
  /\ restarts < MaxRestarts
  /\ pc # "down"
  /\ pc' = "down" /\ rows' = {} /\ tx' = NoTx /\ limit' = 0
  /\ restarts' = restarts + 1
  /\ UNCHANGED <<leafVars, rootVars, chainVars>>

-------------------------------------------------------------------------------

Reconcile ==
  \/ Start \/ StartFails \/ ReconcileSelectTx \/ ReconcileDone \/ ReconcileFails
  \/ \E r \in Roots : \/ ReconcileFound(r) \/ ReconcileNotFound(r) \/ ReconcileMined(r)
                      \/ ReconcileReverted(r) \/ ReconcileLeaves(r)

Build == BuildSkip \/ BuildCount \/ BuildCommit \/ BuildFails

Broadcast ==
  \/ BroadcastSkip \/ BroadcastMark
  \/ SubmitFails \/ \E t \in Txs : Submit(t)
  \/ PersistTxHash \/ PersistFails
  \/ WaitMined \/ WaitFails
  \/ Confirm \/ ConfirmFails
  \/ CatchEnds \/ \E r \in Roots : CatchGivesUp(r) \/ CatchReturns(r)

Next ==
  \/ \E l \in Leaves : PostMessage(l)
  \/ Reconcile
  \/ Build
  \/ Broadcast
  \/ \E t \in Txs : Resolve(t)
  \/ Crash

Spec == Init /\ [][Next]_vars

\* The worker ticks for ever (setInterval), PM2 restarts the process, and what it
\* awaits ends.  Leaves and roots age, so the skips cannot go on for ever: the count
\* and the mark are taken if they are possible again and again.  A pooled
\* transaction leaves the pool.
Fairness ==
  /\ WF_vars(Reconcile)
  /\ WF_vars(Build)
  /\ WF_vars(Broadcast)
  /\ SF_vars(BuildCount)
  /\ SF_vars(BroadcastMark)
  /\ \A t \in Txs : WF_vars(Resolve(t))

FairSpec == Spec /\ Fairness

-------------------------------------------------------------------------------
(* Properties *)

\* The worker's program counter while it deals with a group of marked roots.
InBroadcast == {"submit", "persist", "wait", "confirm", "catch"}

\* Type invariant: the rows, the chain and the worker's memory hold values of
\* their kinds, and the memory only what its place in the code allows.
TypeOK ==
  /\ leafState \in [Leaves -> {"none", "pending", "batched", "confirmed"}]
  /\ leafRoot \in [Leaves -> Roots \cup {NoRoot}]
  /\ leafIndex \in [Leaves -> Nat \cup {NoIndex}]
  /\ rootState \in [Roots -> {"none", "built", "broadcasting", "confirmed", "failed"}]
  /\ txHash \in [Roots -> Txs \cup {NoTx}]
  /\ attempts \in [Roots -> Nat]
  /\ txStatus \in [Txs -> {"none", "pooled", "mined", "reverted", "dropped"}]
  /\ txRoots \in [Txs -> SUBSET Roots]
  /\ pc \in {"down", "off", "reconcileA", "reconcileB", "idle", "build", "broadcast"}
             \cup InBroadcast
  /\ rows \in SUBSET Roots
  /\ tx \in Txs \cup {NoTx}
  /\ limit \in Nat
  /\ pc = "build" => limit \in 1 .. BatchSize
  /\ pc \in {"persist", "wait", "confirm"} => tx \in Txs
  /\ restarts \in 0 .. MaxRestarts

\* A root is confirmed only with the hash of a transaction that was mined and that
\* carried it: the proof a client gets names the transaction it can look up.
ConfirmedOnChain ==
  \A r \in Roots : rootState[r] = "confirmed" =>
                     txHash[r] \in Txs /\ StoredBy(r, txHash[r])

\* A leaf has a root exactly when it is no longer pending, and that root's row exists.
LeavesHaveRoots ==
  \A l \in Leaves :
    /\ leafState[l] \in {"none", "pending"} <=> leafRoot[l] = NoRoot
    /\ leafRoot[l] # NoRoot => rootState[leafRoot[l]] # "none"

\* ... and a leaf is confirmed exactly when its root is: the two tables are never
\* updated apart, whatever await the worker dies at.
LeavesFollowRoots ==
  /\ LeavesHaveRoots
  /\ \A l \in Leaves : leafRoot[l] # NoRoot =>
       (leafState[l] = "confirmed" <=> rootState[leafRoot[l]] = "confirmed")

\* The leaves of a root have the positions 0, 1, ... in the order of creation, at
\* most BatchSize of them.  proof.js rebuilds the tree ORDER BY leaf_index.
IndexesAreDense ==
  \A r \in Roots :
    LET under == {l \in Leaves : leafRoot[l] = r}
    IN  /\ {leafIndex[l] : l \in under} = 0 .. Cardinality(under) - 1
        /\ \A l, m \in under : l < m => leafIndex[l] < leafIndex[m]
        /\ Cardinality(under) <= BatchSize

\* A row without a transaction hash that reconcile() looks up, or that waits to be
\* broadcast, never keeps the hash of an earlier attempt, and a hash it has is that of a
\* transaction that carries this root: reconcile() asks for the right receipt.
HashesMatch ==
  \A r \in Roots :
    /\ rootState[r] \in {"none", "built"} => txHash[r] = NoTx
    /\ txHash[r] # NoTx => r \in txRoots[txHash[r]]

\* Each crash costs at most one attempt over the cap: a root in its last attempt
\* goes back to "built" through reconcile(), which does not look at attempts.
AttemptsBounded ==
  \A r \in Roots : attempts[r] <= MaxAttempts + restarts

\* Transactions that carry a root.
Submissions(r) == {t \in Txs : r \in txRoots[t]}

\* A root may be stored by several transactions, since a crash or an error of tx.wait() hides
\* one that is still in the pool: but each that was ever submitted has cost an attempt.
SubmissionsAreCounted == \A r \in Roots : Cardinality(Submissions(r)) <= attempts[r]

\* No step takes back what the tables say is settled: a confirmed or failed root
\* stays so and keeps its transaction hash, and a leaf keeps its root and position.
\* None of the worker's UPDATEs checks the state it overwrites.
TakesNothingBack ==
  /\ \A r \in Roots : rootState[r] \in {"confirmed", "failed"} =>
       rootState'[r] = rootState[r] /\ txHash'[r] = txHash[r]
  /\ \A l \in Leaves : leafRoot[l] # NoRoot =>
       leafRoot'[l] = leafRoot[l] /\ leafIndex'[l] = leafIndex[l]

SettledStays == [][TakesNothingBack]_vars

\* What the worker's memory says about the rows and the chain, at each place of
\* the code: the part of the inductive invariant that is about the worker.
WorkerInv ==
  /\ pc \in InBroadcast \cup {"reconcileA", "reconcileB"} =>
       \A r \in rows : rootState[r] = "broadcasting"
                       \/ (Unheard /\ pc = "catch" /\ rootState[r] = "confirmed")
  /\ pc \in {"submit", "persist", "reconcileA"} => \A r \in rows : txHash[r] = NoTx
  /\ pc = "reconcileB" => \A r \in rows : txHash[r] \in Txs
  /\ pc \in {"persist", "wait", "confirm"} => txRoots[tx] = rows
  /\ pc \in {"wait", "confirm"} => \A r \in rows : txHash[r] = tx
  /\ pc = "confirm" => txStatus[tx] = "mined"

\* A transaction that was never sent carries nothing.
ChainInv == \A t \in Txs : txStatus[t] = "none" => txRoots[t] = {}

\* A root that may be marked again, and every root until reconcile() is through,
\* has an attempt left under the bound.
AttemptsInv ==
  \A r \in Roots :
    (rootState[r] \in {"none", "built"} \/ pc \in {"down", "reconcileA", "reconcileB"})
      => attempts[r] < MaxAttempts + restarts

IInv ==
  /\ TypeOK
  /\ ConfirmedOnChain
  /\ LeavesHaveRoots
  /\ Unheard \/ LeavesFollowRoots
  /\ HashesMatch
  /\ AttemptsBounded
  /\ WorkerInv
  /\ ChainInv
  /\ AttemptsInv

\* What GET /messages/:id/verify says of a message neither deleted nor hidden.
VerifyStatus(l) ==
  IF leafRoot[l] # NoRoot /\ rootState[leafRoot[l]] = "confirmed"
  THEN "stored-on-blockchain"
  ELSE "pending"

\* The ledger these tables and this chain stand for.
Posted   == {l \in Leaves : leafState[l] # "none"}
Stored   == {l \in Leaves : leafRoot[l] # NoRoot /\ \E t \in Txs : StoredBy(leafRoot[l], t)}
Anchored == {l \in Leaves : VerifyStatus(l) = "stored-on-blockchain"}

Ledger == INSTANCE AnchorLedger WITH
  posted <- Posted, stored <- Stored, anchored <- Anchored

\* The pipeline implements the ledger: a message is reported as stored only when a
\* mined transaction carries its root, and for good.
LedgerSpec == Ledger!Spec

\* Every message posted ends up confirmed, or under a root the worker has given up
\* after its attempts: none is forgotten on the way.
EveryLeafSettles ==
  \A l \in Leaves :
    leafState[l] = "pending" ~>
      (leafState[l] = "confirmed"
       \/ (leafRoot[l] # NoRoot /\ rootState[leafRoot[l]] = "failed"))
===============================================================================
