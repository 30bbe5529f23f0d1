----------------------------- MODULE Verification -----------------------------
(***************************************************************************)
(* How it is verified that a message is anchored: the page verification.js *)
(* looks for a root on the chain (merkle-verify.js, in chunks of blocks)   *)
(* and then asks the server whether a leaf is under that root (proof.js);  *)
(* an app could ask the server directly.  The pipeline, which MerkleAnchor *)
(* has in detail, goes on meanwhile; here it is abstracted to batches that *)
(* are built, stored in a block, and confirmed.                            *)
(***************************************************************************)
EXTENDS MerkleTree, FiniteSets

CONSTANTS
  MaxMessages,   \* bound: messages posted; a message is the id of its leaf
  MaxRoots,      \* bound: batches
  MaxBlocks,     \* bound: blocks of the chain
  MaxLeaves,     \* bound: leaves of a tree whose proofs are tried
  DeployBlock,   \* CONTRACT_DEPLOY_BLOCK
  Chunk          \* CHUNK: blocks per query

ASSUME VerificationAssumption ==
  /\ MaxMessages \in Nat /\ MaxRoots \in Nat /\ MaxBlocks \in Nat
  /\ MaxLeaves \in Nat
  /\ DeployBlock \in Nat \ {0} /\ Chunk \in Nat \ {0}

VARIABLES
  posted,      \* messages, by created_at
  batches,     \* rows of merkle_roots: the messages of each, by leaf_index
  confirmed,   \* those whose state is confirmed
  chain,       \* for each block the roots stored in it
  check        \* what the verifier does, or what came of it

pipelineVars     == <<posted, batches, confirmed, chain>>
verificationVars == <<pipelineVars, check>>

Messages == 1..MaxMessages
Idle     == [do |-> "idle"]

VerificationInit ==
  /\ posted = <<>> /\ batches = <<>> /\ confirmed = {} /\ chain = <<>>
  /\ check = Idle

LeavesOf(b) == [i \in DOMAIN batches[b] |-> Leaf(batches[b][i])]
RootOf(b)   == Root(LeavesOf(b))

-------------------------------------------------------------------------------
(* The pipeline *)

\* created_at, when the transaction begins, and the id may be in different orders.
Post(m) ==
  /\ ~ \E i \in DOMAIN posted : posted[i] = m
  /\ posted' = Append(posted, m)
  /\ UNCHANGED <<batches, confirmed, chain, check>>

\* (Mutation: leaves stay pending when a root is built.)
Batched_None == 0

\* How many leaves are no longer pending, the oldest ones.
Batched ==
  Cardinality({i \in DOMAIN posted :
                 \E b \in DOMAIN batches : posted[i] \in ToSet(batches[b])})

\* The next n leaves by created_at.
Build(n) ==
  /\ Len(batches) < MaxRoots /\ Batched + n <= Len(posted)
  /\ batches' = Append(batches, SubSeq(posted, Batched + 1, Batched + n))
  /\ UNCHANGED <<posted, confirmed, chain, check>>

Mine(B) ==
  /\ Len(chain) < MaxBlocks /\ B \cap confirmed = {}
  /\ chain' = Append(chain, B)
  /\ UNCHANGED <<posted, batches, confirmed, check>>

Confirm(b) ==
  /\ \E n \in DOMAIN chain : b \in chain[n]
  /\ confirmed' = confirmed \cup {b}
  /\ UNCHANGED <<posted, batches, chain, check>>

-------------------------------------------------------------------------------
(* Step 1 of the page: GET /api/blockchain/verify *)

Ready == check.do \in {"idle", "found", "absent", "answered"}

\* The user pastes a root.  The number of the latest block is read.
LookUp(b) ==
  /\ Ready
  /\ check' = [do |-> "search", root |-> b, from |-> DeployBlock, latest |-> Len(chain)]
  /\ UNCHANGED pipelineVars

\* (Mutation: the block at the end of a chunk is left out.)
ChunkEnd_Short(c) == IF c.from + Chunk - 1 < c.latest THEN c.from + Chunk - 2 ELSE c.latest

ChunkEnd(c) == IF c.from + Chunk - 1 < c.latest THEN c.from + Chunk - 1 ELSE c.latest

Hits(c) == {n \in c.from..ChunkEnd(c) : c.root \in chain[n]}

\* A chunk is queried; the first of its logs is the answer, or the next chunk is due.
SearchChunk ==
  /\ check.do = "search" /\ check.from <= check.latest
  /\ \/ /\ Hits(check) = {}
        /\ check' = [check EXCEPT !.from = @ + Chunk]
     \/ \E n \in Hits(check) :
          /\ \A k \in Hits(check) : n <= k
          /\ check' = [do |-> "found", root |-> check.root, block |-> n]
  /\ UNCHANGED pipelineVars

SearchEnds ==
  /\ check.do = "search" /\ check.from > check.latest
  /\ check' = [do |-> "absent", root |-> check.root, latest |-> check.latest]
  /\ UNCHANGED pipelineVars

\* The RPC node does not answer, or the server.
SearchFails ==
  /\ check.do \in {"search", "asked", "rows"}
  /\ check' = Idle
  /\ UNCHANGED pipelineVars

-------------------------------------------------------------------------------
(* Step 2: POST /blockchain/verify-leaf *)

\* The page hashes the ciphertext, and has no session: it shows a root that was found.
PageAsks(m) ==
  /\ check.do = "found"
  /\ check' = [do |-> "asked", root |-> check.root, msg |-> m, leaf |-> Bare(m), page |-> TRUE]
  /\ UNCHANGED pipelineVars

\* A client with a session asks for the leaf of a message.
ClientAsks(m, b) ==
  /\ Ready
  /\ check' = [do |-> "asked", root |-> b, msg |-> m, leaf |-> Leaf(m), page |-> FALSE]
  /\ UNCHANGED pipelineVars

Answer(result) ==
  check' = [do |-> "answered", root |-> check.root, msg |-> check.msg, page |-> check.page,
            result |-> result]

\* requireAuth refuses, or the confirmed root is looked up.
SelectRoot ==
  /\ check.do = "asked"
  /\ \/ check.page /\ Answer("refused")
     \/ ~ check.page /\ check.root \notin confirmed /\ Answer("not confirmed")
     \/ ~ check.page /\ check.root \in confirmed /\ check' = [check EXCEPT !.do = "rows"]
  /\ UNCHANGED pipelineVars

\* (Mutation: ORDER BY id.)
SelectLeaves_ById(b) == LET ids == SortSeq(batches[b], <) IN [i \in DOMAIN ids |-> Leaf(ids[i])]

\* ORDER BY leaf_index.
SelectLeaves(b) == LeavesOf(b)

\* The leaf must be there, and the root must be the one asked for.
RecomputeRoot ==
  /\ check.do = "rows"
  /\ LET leaves   == SelectLeaves(check.root)
         verified == /\ \E i \in DOMAIN leaves : leaves[i] = check.leaf
                     /\ Root(leaves) = RootOf(check.root)
     IN  Answer(IF verified THEN "verified" ELSE "not verified")
  /\ UNCHANGED pipelineVars

VerificationNext ==
  \/ \E m \in Messages : Post(m) \/ PageAsks(m)
  \/ \E n \in Messages : Build(n)
  \/ \E B \in SUBSET DOMAIN batches : Mine(B)
  \/ \E b \in DOMAIN batches : \/ Confirm(b) \/ LookUp(b)
                               \/ \E m \in Messages : ClientAsks(m, b)
  \/ SearchChunk \/ SearchEnds \/ SearchFails
  \/ SelectRoot \/ RecomputeRoot

VerificationSpec == VerificationInit /\ [][VerificationNext]_verificationVars

-------------------------------------------------------------------------------
(* Properties *)

\* Type invariant.  (merkle_root_id and leaf_index are columns of a leaf: it has one place.)
VerificationTypeOK ==
  /\ posted \in Seq(Messages)
  /\ batches \in Seq(Seq(Messages))
  /\ \A b, c \in DOMAIN batches : \A i \in DOMAIN batches[b], j \in DOMAIN batches[c] :
       batches[b][i] = batches[c][j] => b = c /\ i = j
  /\ confirmed \subseteq DOMAIN batches
  /\ chain \in Seq(SUBSET DOMAIN batches)
  /\ \/ check = Idle
     \/ check \in [do : {"search"}, root : DOMAIN batches, from : Nat, latest : 0..Len(chain)]
     \/ check \in [do : {"found"}, root : DOMAIN batches, block : DOMAIN chain]
     \/ check \in [do : {"absent"}, root : DOMAIN batches, latest : 0..Len(chain)]
     \/ check \in [do : {"asked", "rows"}, root : DOMAIN batches, msg : Messages,
                   leaf : {Leaf(m) : m \in Messages} \cup {Bare(m) : m \in Messages},
                   page : BOOLEAN]
     \/ check \in [do : {"answered"}, root : DOMAIN batches, msg : Messages, page : BOOLEAN,
                   result : {"refused", "not confirmed", "verified", "not verified"}]

\* "We search the chain for a matching record and return its block" (verification.js:152-153):
\* a root that is in a block when the search begins is found, in the first such block, whatever
\* the chunks and whatever is mined meanwhile.
SearchIsExact ==
  /\ check.do = "found" => /\ check.root \in chain[check.block]
                           /\ \A n \in DeployBlock..(check.block - 1) : check.root \notin chain[n]
  /\ check.do = "absent" => \A n \in DeployBlock..check.latest : check.root \notin chain[n]

\* An answer of verify-leaf is about the chain: what is verified is a message of a root that is
\* stored, and a message of a root that was confirmed is verified.
AnswerIsRight ==
  check.do = "answered" /\ ~ check.page =>
    LET included == \E i \in DOMAIN batches[check.root] : batches[check.root][i] = check.msg
    IN  /\ check.result = "verified" =>
             included /\ \E n \in DOMAIN chain : check.root \in chain[n]
        /\ check.result = "not verified" => ~ included

\* What may become the first batch: the messages posted so far, and others to come.
FirstBatch(n) == [i \in 1..n |-> Leaf(IF i <= Len(posted) THEN posted[i] ELSE MaxMessages + i)]

Trees == IF batches = <<>> /\ chain = <<>> /\ check = Idle
         THEN {FirstBatch(n) : n \in (Len(posted)..MaxLeaves) \ {0}} ELSE {}

\* Every leaf has a proof, which verifies for it and for no other leaf, at any place and in a
\* batch of any size (getProof, verifyProof).
ProofsVerify ==
  \A leaves \in Trees : \A i, k \in DOMAIN leaves :
    VerifyProof(leaves[k], GetProof(leaves, i - 1), Root(leaves)) <=> i = k

\* Batches that differ by one edit: a leaf dropped, repeated at the end, or swapped.
Edits(s) ==
  {RemoveAt(s, i) : i \in DOMAIN s \ (IF Len(s) = 1 THEN DOMAIN s ELSE {})}
    \cup {Append(s, s[i]) : i \in DOMAIN s}
    \cup {[s EXCEPT ![p[1]] = s[p[2]], ![p[2]] = s[p[1]]] :
            p \in {q \in (DOMAIN s) \X (DOMAIN s) : q[1] < q[2]}}

\* "duplicateOdd:false must produce a different root than naively duplicating the odd leaf"
\* (merkle-core.test.js:77), and the order matters (merkle-core.js:6).
RootFixesLeaves ==
  \A leaves \in Trees : \A s \in Edits(leaves) : Root(s) # Root(leaves)

===============================================================================
