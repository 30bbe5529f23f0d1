-------------------------- MODULE VerificationProofs --------------------------
(***************************************************************************)
(* Proofs about Verification, for any number of messages, batches and      *)
(* blocks and any size of a chunk: a leaf has one place, a root is found   *)
(* in its first block or nowhere, and verify-leaf answers what is so.      *)
(* And about MerkleTree, for trees of any size: a root belongs to one      *)
(* sequence of leaves, and a proof to one of these leaves.  The functions  *)
(* that MerkleTree defines by recursion are shown to exist, after which    *)
(* arguments go from layer to layer, by a least counterexample.            *)
(***************************************************************************)
EXTENDS Verification, SequenceTheorems, FiniteSetTheorems, WellFoundedInduction, TLAPS

USE VerificationAssumption DEF VerificationAssumption

-------------------------------------------------------------------------------
(* The inductive invariant *)

\* The place i of posted is in a batch.
InBatch(i) == \E b \in DOMAIN batches : posted[i] \in ToSet(batches[b])

\* The leaves in batches are those of the first k messages.
PrefixInv ==
  /\ IsInjective(posted)
  /\ \A b \in DOMAIN batches : ToSet(batches[b]) \subseteq ToSet(posted)
  /\ \E k \in 0 .. Len(posted) : \A i \in DOMAIN posted : InBatch(i) <=> i <= k

\* A confirmed root is in a block.
ConfirmedInv == \A b \in confirmed : \E n \in DOMAIN chain : b \in chain[n]

\* No block that the search has done has the root.
Searched(c) ==
  c.do = "search" =>
    /\ c.from >= DeployBlock
    /\ \A n \in DeployBlock .. c.latest : n < c.from => c.root \notin chain[n]

\* A client asks for the leaf of its message; what is recomputed is confirmed.
Asked(c) ==
  /\ c.do \in {"asked", "rows"} /\ ~ c.page => c.leaf = Leaf(c.msg)
  /\ c.do = "rows" => c.root \in confirmed /\ ~ c.page

VerificationInv ==
  /\ VerificationTypeOK /\ PrefixInv /\ ConfirmedInv
  /\ Searched(check) /\ Asked(check)
  /\ SearchIsExact /\ AnswerIsRight

-------------------------------------------------------------------------------
(* Types *)

Checks(D, n) ==
  {Idle}
    \cup [do : {"search"}, root : D, from : Nat, latest : 0 .. n]
    \cup [do : {"found"}, root : D, block : 1 .. n]
    \cup [do : {"absent"}, root : D, latest : 0 .. n]
    \cup [do : {"asked", "rows"}, root : D, msg : Messages,
          leaf : {Leaf(m) : m \in Messages} \cup {Bare(m) : m \in Messages}, page : BOOLEAN]
    \cup [do : {"answered"}, root : D, msg : Messages, page : BOOLEAN,
          result : {"refused", "not confirmed", "verified", "not verified"}]

\* A leaf has one place.
OnePlace ==
  \A b, c \in DOMAIN batches : \A i \in DOMAIN batches[b], j \in DOMAIN batches[c] :
    batches[b][i] = batches[c][j] => b = c /\ i = j

LEMMA TypeParts ==
  ASSUME chain \in Seq(SUBSET DOMAIN batches)
  PROVE  VerificationTypeOK <=>
           /\ posted \in Seq(Messages) /\ batches \in Seq(Seq(Messages)) /\ OnePlace
           /\ confirmed \subseteq DOMAIN batches
           /\ check \in Checks(DOMAIN batches, Len(chain))
<1>1. DOMAIN chain = 1 .. Len(chain)
  BY LenProperties
<1> QED BY <1>1 DEF VerificationTypeOK, Checks, OnePlace

LEMMA TypePartsNext ==
  ASSUME chain' \in Seq(SUBSET DOMAIN batches')
  PROVE  VerificationTypeOK' <=>
           /\ posted' \in Seq(Messages) /\ batches' \in Seq(Seq(Messages)) /\ OnePlace'
           /\ confirmed' \subseteq DOMAIN batches'
           /\ check' \in Checks(DOMAIN batches', Len(chain'))
<1>1. DOMAIN chain' = 1 .. Len(chain')
  BY LenProperties
<1> QED BY <1>1 DEF VerificationTypeOK, Checks, OnePlace

LEMMA ChecksGrow ==
  ASSUME NEW D, NEW E, D \subseteq E, NEW m \in Nat, NEW n \in Nat, m <= n
  PROVE  Checks(D, m) \subseteq Checks(E, n)
<1>1. 0 .. m \subseteq 0 .. n /\ 1 .. m \subseteq 1 .. n
  OBVIOUS
<1> QED BY <1>1 DEF Checks

\* What a check may be, by what it does.
LEMMA CheckCases ==
  ASSUME NEW D, NEW n \in Nat, NEW c \in Checks(D, n)
  PROVE  /\ c.do \in {"idle", "search", "found", "absent", "asked", "rows", "answered"}
         /\ c.do # "idle" => c.root \in D
         /\ c.do = "search" => c \in [do : {"search"}, root : D, from : Nat, latest : 0 .. n]
         /\ c.do = "found" => c \in [do : {"found"}, root : D, block : 1 .. n]
         /\ c.do = "absent" => c \in [do : {"absent"}, root : D, latest : 0 .. n]
         /\ c.do \in {"asked", "rows"} =>
              c \in [do : {"asked", "rows"}, root : D, msg : Messages,
                     leaf : {Leaf(m) : m \in Messages} \cup {Bare(m) : m \in Messages},
                     page : BOOLEAN]
         /\ c.do = "answered" =>
              c \in [do : {"answered"}, root : D, msg : Messages, page : BOOLEAN,
                     result : {"refused", "not confirmed", "verified", "not verified"}]
<1>1. CASE c = Idle
  BY <1>1 DEF Idle
<1>2. CASE c \in [do : {"search"}, root : D, from : Nat, latest : 0 .. n]
  BY <1>2
<1>3. CASE c \in [do : {"found"}, root : D, block : 1 .. n]
  BY <1>3
<1>4. CASE c \in [do : {"absent"}, root : D, latest : 0 .. n]
  BY <1>4
<1>5. CASE c \in [do : {"asked", "rows"}, root : D, msg : Messages,
                  leaf : {Leaf(m) : m \in Messages} \cup {Bare(m) : m \in Messages},
                  page : BOOLEAN]
  BY <1>5
<1>6. CASE c \in [do : {"answered"}, root : D, msg : Messages, page : BOOLEAN,
                  result : {"refused", "not confirmed", "verified", "not verified"}]
  BY <1>6
<1> QED BY <1>1, <1>2, <1>3, <1>4, <1>5, <1>6 DEF Checks

LEMMA InitVerification == VerificationInit => VerificationInv
<1> SUFFICES ASSUME VerificationInit PROVE VerificationInv
  OBVIOUS
<1> USE DEF VerificationInit
<1>1. VerificationTypeOK
  BY DEF VerificationTypeOK
<1>2. PrefixInv
  <2>1. Len(posted) = 0 /\ DOMAIN posted = {} /\ DOMAIN batches = {}
    OBVIOUS
  <2> QED BY <2>1 DEF PrefixInv, IsInjective
<1>3. ConfirmedInv
  BY DEF ConfirmedInv
<1>4. check.do = "idle"
  BY DEF Idle
<1> QED BY <1>1, <1>2, <1>3, <1>4
        DEF VerificationInv, Searched, Asked, SearchIsExact, AnswerIsRight

LEMMA InvTypes ==
  ASSUME VerificationInv
  PROVE  /\ posted \in Seq(Messages) /\ batches \in Seq(Seq(Messages)) /\ OnePlace
         /\ confirmed \subseteq DOMAIN batches /\ chain \in Seq(SUBSET DOMAIN batches)
         /\ check \in Checks(DOMAIN batches, Len(chain))
         /\ Len(chain) \in Nat /\ DOMAIN chain = 1 .. Len(chain)
         /\ Len(batches) \in Nat /\ DOMAIN batches = 1 .. Len(batches)
         /\ Len(posted) \in Nat /\ DOMAIN posted = 1 .. Len(posted)
<1>1. VerificationTypeOK /\ chain \in Seq(SUBSET DOMAIN batches)
  BY DEF VerificationInv, VerificationTypeOK
<1>2. /\ posted \in Seq(Messages) /\ batches \in Seq(Seq(Messages)) /\ OnePlace
      /\ confirmed \subseteq DOMAIN batches
      /\ check \in Checks(DOMAIN batches, Len(chain))
  BY <1>1, TypeParts
<1>3. Len(chain) \in Nat /\ DOMAIN chain = 1 .. Len(chain)
  BY <1>1, LenProperties
<1>4. Len(batches) \in Nat /\ DOMAIN batches = 1 .. Len(batches)
  BY <1>2, LenProperties
<1>5. Len(posted) \in Nat /\ DOMAIN posted = 1 .. Len(posted)
  BY <1>2, LenProperties
<1> QED BY <1>1, <1>2, <1>3, <1>4, <1>5

-------------------------------------------------------------------------------
(* The pipeline *)

\* What is said of the check stays so while chain, batches and confirmed roots only grow.
LEMMA CheckStays ==
  ASSUME VerificationInv, check' = check,
         Len(chain') \in Nat, Len(chain) <= Len(chain'), DOMAIN chain' = 1 .. Len(chain'),
         \A n \in 1 .. Len(chain) : chain'[n] = chain[n],
         DOMAIN batches \subseteq DOMAIN batches',
         \A b \in DOMAIN batches : batches'[b] = batches[b],
         confirmed \subseteq confirmed'
  PROVE  /\ check' \in Checks(DOMAIN batches', Len(chain'))
         /\ Searched(check)' /\ Asked(check)' /\ SearchIsExact' /\ AnswerIsRight'
<1>0. /\ check \in Checks(DOMAIN batches, Len(chain)) /\ Len(chain) \in Nat
      /\ DOMAIN chain = 1 .. Len(chain)
      /\ Searched(check) /\ Asked(check) /\ SearchIsExact /\ AnswerIsRight
  BY InvTypes DEF VerificationInv
<1>1. check' \in Checks(DOMAIN batches', Len(chain'))
  BY <1>0, ChecksGrow
<1>2. \A n \in DeployBlock .. Len(chain) : chain'[n] = chain[n]
  BY <1>0
<1>3. Searched(check)'
  <2>1. ASSUME check.do = "search" PROVE check.latest \in 0 .. Len(chain)
    BY <1>0, <2>1, CheckCases
  <2> QED BY <2>1, <1>0, <1>2 DEF Searched
<1>4. Asked(check)'
  BY <1>0 DEF Asked
<1>5. SearchIsExact'
  <2>1. ASSUME check.do = "found" PROVE check.block \in 1 .. Len(chain)
    BY <1>0, <2>1, CheckCases
  <2>2. ASSUME check.do = "absent" PROVE check.latest \in 0 .. Len(chain)
    BY <1>0, <2>2, CheckCases
  <2> QED BY <2>1, <2>2, <1>0, <1>2 DEF SearchIsExact
<1>6. AnswerIsRight'
  <2>1. ASSUME check.do = "answered" PROVE check.root \in DOMAIN batches
    BY <1>0, <2>1, CheckCases
  <2>2. \A b : (\E n \in DOMAIN chain : b \in chain[n]) => \E n \in DOMAIN chain' : b \in chain'[n]
    BY <1>0
  <2> QED BY <2>1, <2>2, <1>0 DEF AnswerIsRight
<1> QED BY <1>1, <1>3, <1>4, <1>5, <1>6

LEMMA ToSetOfAppended ==
  ASSUME NEW S, NEW q \in Seq(S), NEW x \in S
  PROVE  /\ Append(q, x) \in Seq(S) /\ DOMAIN Append(q, x) = 1 .. Len(q) + 1
         /\ ToSet(Append(q, x)) = ToSet(q) \cup {x}
         /\ \A i \in 1 .. Len(q) : Append(q, x)[i] = q[i]
         /\ Append(q, x)[Len(q) + 1] = x
<1>1. /\ Append(q, x) \in Seq(S) /\ Len(Append(q, x)) = Len(q) + 1
      /\ \A i \in 1 .. Len(q) : Append(q, x)[i] = q[i]
      /\ Append(q, x)[Len(q) + 1] = x
  BY AppendProperties
<1>2. DOMAIN Append(q, x) = 1 .. Len(q) + 1 /\ Len(q) \in Nat /\ DOMAIN q = 1 .. Len(q)
  BY <1>1, LenProperties
<1>3. ToSet(Append(q, x)) = ToSet(q) \cup {x}
  BY <1>1, <1>2 DEF ToSet
<1> QED BY <1>1, <1>2, <1>3

LEMMA PostKeepsInv ==
  ASSUME VerificationInv, NEW m \in Messages, Post(m)
  PROVE  VerificationInv'
<1>0. PrefixInv /\ ConfirmedInv
  BY DEF VerificationInv
<1>1. /\ posted' = Append(posted, m) /\ ~ \E i \in DOMAIN posted : posted[i] = m
      /\ batches' = batches /\ confirmed' = confirmed /\ chain' = chain /\ check' = check
  BY DEF Post
<1>2. /\ posted' \in Seq(Messages) /\ DOMAIN posted' = 1 .. Len(posted) + 1
      /\ ToSet(posted') = ToSet(posted) \cup {m}
      /\ \A i \in 1 .. Len(posted) : posted'[i] = posted[i]
      /\ posted'[Len(posted) + 1] = m /\ Len(posted') = Len(posted) + 1
  BY <1>1, InvTypes, ToSetOfAppended, AppendProperties
<1>3. VerificationTypeOK'
  <2>1. OnePlace'
    BY <1>1, InvTypes DEF OnePlace
  <2> QED BY <2>1, <1>1, <1>2, InvTypes, TypePartsNext
<1>4. PrefixInv'
  <2>1. IsInjective(posted)'
    BY <1>0, <1>1, <1>2, InvTypes DEF PrefixInv, IsInjective
  <2>2. \A b \in DOMAIN batches : ToSet(batches[b]) \subseteq ToSet(posted')
    BY <1>0, <1>2 DEF PrefixInv
  <2>3. PICK k \in 0 .. Len(posted) : \A i \in DOMAIN posted : InBatch(i) <=> i <= k
    BY <1>0 DEF PrefixInv
  <2>4. m \notin ToSet(posted)
    BY <1>1 DEF ToSet
  <2>l. PICK last \in Nat : last = Len(posted) + 1
    BY InvTypes
  <2>5. \A i \in DOMAIN posted' : InBatch(i)' <=> i <= k
    <3>1. ASSUME NEW i \in 1 .. Len(posted) PROVE InBatch(i)' <=> i <= k
      BY <1>1, <1>2, <2>3, InvTypes DEF InBatch
    <3>2. ~ InBatch(last)' /\ ~ (last <= k)
      <4>1. \A b \in DOMAIN batches : m \notin ToSet(batches[b])
        BY <1>0, <2>4 DEF PrefixInv
      <4>2. ~ InBatch(last)'
        BY <4>1, <1>1, <1>2, <2>l DEF InBatch
      <4>3. ~ (last <= k)
        BY <2>3, <2>l, InvTypes
      <4> QED BY <4>2, <4>3
    <3>3. \A i \in 1 .. Len(posted) + 1 : i \in 1 .. Len(posted) \/ i = last
      BY <2>l, InvTypes
    <3> QED BY <3>1, <3>2, <3>3, <1>2
  <2>6. k \in 0 .. Len(posted')
    BY <1>2, InvTypes
  <2> QED BY <2>1, <2>2, <2>5, <2>6, <1>1 DEF PrefixInv
<1>5. ConfirmedInv'
  BY <1>0, <1>1 DEF ConfirmedInv
<1>6. Searched(check)' /\ Asked(check)' /\ SearchIsExact' /\ AnswerIsRight'
  BY <1>1, InvTypes, CheckStays
<1> QED BY <1>3, <1>4, <1>5, <1>6 DEF VerificationInv

LEMMA BatchedIs ==
  ASSUME NEW k \in 0 .. Len(posted), Len(posted) \in Nat, DOMAIN posted = 1 .. Len(posted),
         \A i \in DOMAIN posted : InBatch(i) <=> i <= k
  PROVE  Batched = k
<1>1. {i \in DOMAIN posted : \E b \in DOMAIN batches : posted[i] \in ToSet(batches[b])} = 1 .. k
  BY DEF InBatch
<1>2. 1 \in Int /\ k \in Int /\ (IF 1 > k THEN 0 ELSE k - 1 + 1) = k
  OBVIOUS
<1> QED BY <1>1, <1>2, FS_Interval DEF Batched

LEMMA SliceProperties ==
  ASSUME NEW S, NEW q \in Seq(S), NEW k \in Nat, NEW n \in Nat, 1 <= n, k + n <= Len(q)
  PROVE  /\ SubSeq(q, k + 1, k + n) \in Seq(S)
         /\ Len(SubSeq(q, k + 1, k + n)) = n
         /\ \A i \in 1 .. n : SubSeq(q, k + 1, k + n)[i] = q[k + i]
<1>1. k + 1 \in Int /\ k + n \in Int /\ Len(q) \in Nat /\ \A i \in 1 .. Len(q) : q[i] \in S
  BY LenProperties, ElementOfSeq
<1>2. \A i \in k + 1 .. k + n : q[i] \in S
  BY <1>1
<1>3. /\ SubSeq(q, k + 1, k + n) \in Seq(S)
      /\ Len(SubSeq(q, k + 1, k + n)) = IF k + 1 <= k + n THEN k + n - (k + 1) + 1 ELSE 0
      /\ \A i \in 1 .. k + n - (k + 1) + 1 : SubSeq(q, k + 1, k + n)[i] = q[k + 1 + i - 1]
  BY <1>1, <1>2, SubSeqProperties
<1>4. (IF k + 1 <= k + n THEN k + n - (k + 1) + 1 ELSE 0) = n /\ k + n - (k + 1) + 1 = n
  OBVIOUS
<1>5. \A i \in 1 .. n : k + 1 + i - 1 = k + i
  OBVIOUS
<1> QED BY <1>3, <1>4, <1>5

\* A batch of the next n messages.
LEMMA BuildKeepsInv ==
  ASSUME VerificationInv, NEW n \in Messages, Build(n)
  PROVE  VerificationInv'
<1>0. PrefixInv /\ ConfirmedInv /\ n \in Nat
  BY DEF VerificationInv, Messages
<1>1. PICK k \in 0 .. Len(posted) : \A i \in DOMAIN posted : InBatch(i) <=> i <= k
  BY <1>0 DEF PrefixInv
<1>2. Batched = k
  BY <1>1, InvTypes, BatchedIs
<1> DEFINE s == SubSeq(posted, k + 1, k + n)
           e == Len(batches) + 1
<1>3. /\ k + n <= Len(posted) /\ batches' = Append(batches, s)
      /\ posted' = posted /\ confirmed' = confirmed /\ chain' = chain /\ check' = check
  BY <1>2 DEF Build
<1>4. /\ s \in Seq(Messages) /\ Len(s) = n /\ DOMAIN s = 1 .. n
      /\ \A i \in 1 .. n : s[i] = posted[k + i] /\ k + i \in 1 .. Len(posted)
  <2>1. k + 1 \in Int /\ k + n \in Int /\ \A i \in k + 1 .. k + n : i \in 1 .. Len(posted)
    BY <1>0, <1>3, InvTypes
  <2>2. \A i \in k + 1 .. k + n : posted[i] \in Messages
    BY <2>1, InvTypes, ElementOfSeq
  <2> HIDE DEF s
  <2>3. /\ SubSeq(posted, k + 1, k + n) \in Seq(Messages)
        /\ Len(SubSeq(posted, k + 1, k + n)) = n
        /\ \A i \in 1 .. n : SubSeq(posted, k + 1, k + n)[i] = posted[k + i]
    BY <1>0, <1>1, <1>3, InvTypes, SliceProperties
  <2>5. \A i \in 1 .. n : k + i \in k + 1 .. k + n
    BY <1>0
  <2>6. s \in Seq(Messages) /\ Len(s) = n /\ \A i \in 1 .. n : s[i] = posted[k + i]
    BY <2>3 DEF s
  <2> QED BY <2>1, <2>5, <2>6, LenProperties
<1> HIDE DEF s
<1>5. /\ batches' \in Seq(Seq(Messages)) /\ DOMAIN batches' = 1 .. e
      /\ \A b \in 1 .. Len(batches) : batches'[b] = batches[b]
      /\ batches'[e] = s
  BY <1>3, <1>4, InvTypes, ToSetOfAppended
<1>6. DOMAIN batches \subseteq DOMAIN batches' /\ \A b \in DOMAIN batches : batches'[b] = batches[b]
  BY <1>5, InvTypes
<1>p. PICK new \in Nat : new = e
  BY InvTypes
<1>b. DOMAIN batches' = DOMAIN batches \cup {new} /\ batches'[new] = s /\ new \notin DOMAIN batches
  BY <1>5, <1>p, InvTypes
<1> HIDE DEF e
\* The messages of the new batch are in no other.
<1>7. \A i \in 1 .. n, b \in DOMAIN batches : s[i] \notin ToSet(batches[b])
  <2> SUFFICES ASSUME NEW i \in 1 .. n, NEW b \in DOMAIN batches, s[i] \in ToSet(batches[b])
               PROVE  FALSE
    OBVIOUS
  <2>1. k + i \in DOMAIN posted /\ posted[k + i] = s[i]
    BY <1>4, InvTypes
  <2>2. InBatch(k + i)
    BY <2>1 DEF InBatch
  <2>3. k + i <= k
    BY <1>1, <2>1, <2>2
  <2> QED BY <2>3, <1>0
<1>8. VerificationTypeOK'
  <2>1. OnePlace'
    <3> SUFFICES ASSUME NEW b \in DOMAIN batches', NEW c \in DOMAIN batches',
                        NEW i \in DOMAIN batches'[b], NEW j \in DOMAIN batches'[c],
                        batches'[b][i] = batches'[c][j]
                 PROVE  b = c /\ i = j
      BY DEF OnePlace
    <3>1. CASE b \in DOMAIN batches /\ c \in DOMAIN batches
      <4>1. i \in DOMAIN batches[b] /\ j \in DOMAIN batches[c] /\ batches[b][i] = batches[c][j]
        BY <3>1, <1>6
      <4> QED BY <3>1, <4>1, InvTypes DEF OnePlace
    <3>2. CASE b = new /\ c = new
      <4>1. i \in 1 .. n /\ j \in 1 .. n /\ s[i] = s[j]
        BY <3>2, <1>b, <1>4
      <4>2. posted[k + i] = posted[k + j] /\ k + i \in DOMAIN posted /\ k + j \in DOMAIN posted
        BY <4>1, <1>4, InvTypes
      <4>3. k + i = k + j
        BY <4>2, <1>0 DEF PrefixInv, IsInjective
      <4> QED BY <4>1, <4>3, <3>2
    <3>3. CASE b = new /\ c \in DOMAIN batches
      <4>1. i \in 1 .. n /\ s[i] = batches[c][j] /\ j \in DOMAIN batches[c]
        BY <3>3, <1>b, <1>4, <1>6
      <4> QED BY <4>1, <3>3, <1>7 DEF ToSet
    <3>4. CASE b \in DOMAIN batches /\ c = new
      <4>1. j \in 1 .. n /\ s[j] = batches[b][i] /\ i \in DOMAIN batches[b]
        BY <3>4, <1>b, <1>4, <1>6
      <4> QED BY <4>1, <3>4, <1>7 DEF ToSet
    <3> QED BY <3>1, <3>2, <3>3, <3>4, <1>b
  <2>2. chain' \in Seq(SUBSET DOMAIN batches')
    <3>1. SUBSET DOMAIN batches \subseteq SUBSET DOMAIN batches'
      BY <1>6
    <3> QED BY <3>1, <1>3, InvTypes, SeqMonotonic
  <2>3. check' \in Checks(DOMAIN batches', Len(chain'))
    BY <1>3, <1>6, InvTypes, ChecksGrow
  <2>4. confirmed' \subseteq DOMAIN batches' /\ posted' \in Seq(Messages)
    BY <1>3, <1>6, InvTypes
  <2> QED BY <2>1, <2>2, <2>3, <2>4, <1>5, TypePartsNext
<1>9. PrefixInv'
  <2>1. ToSet(s) \subseteq ToSet(posted)
    BY <1>4, InvTypes DEF ToSet
  <2>2. \A b \in DOMAIN batches' : ToSet(batches'[b]) \subseteq ToSet(posted)
    BY <2>1, <1>0, <1>6, <1>b DEF PrefixInv
  <2>3. \A i \in DOMAIN posted : InBatch(i)' <=> i <= k + n
    <3> SUFFICES ASSUME NEW i \in 1 .. Len(posted)
                 PROVE  InBatch(i)' <=> i <= k + n
      BY InvTypes
    <3>1. InBatch(i)' <=> InBatch(i) \/ posted[i] \in ToSet(s)
      BY <1>3, <1>6, <1>b DEF InBatch
    <3>2. posted[i] \in ToSet(s) <=> i \in k + 1 .. k + n
      <4>1. ASSUME posted[i] \in ToSet(s) PROVE i \in k + 1 .. k + n
        <5>1. PICK j \in 1 .. n : posted[i] = s[j]
          BY <4>1, <1>4 DEF ToSet
        <5>2. posted[i] = posted[k + j] /\ k + j \in DOMAIN posted /\ i \in DOMAIN posted
          BY <5>1, <1>4, InvTypes
        <5>3. i = k + j
          BY <5>2, <1>0 DEF PrefixInv, IsInjective
        <5> QED BY <5>3, <1>0
      <4>2. ASSUME i \in k + 1 .. k + n PROVE posted[i] \in ToSet(s)
        <5>1. i - k \in 1 .. n /\ k + (i - k) = i
          BY <4>2, <1>0
        <5>2. s[i - k] = posted[k + (i - k)]
          BY <5>1, <1>4
        <5> QED BY <5>1, <5>2, <1>4 DEF ToSet
      <4> QED BY <4>1, <4>2
    <3>3. InBatch(i) <=> i <= k
      BY <1>1, InvTypes
    <3>4. i <= k + n <=> i <= k \/ i \in k + 1 .. k + n
      BY <1>0, InvTypes
    <3> QED BY <3>1, <3>2, <3>3, <3>4
  <2>4. k + n \in 0 .. Len(posted) /\ IsInjective(posted)
    BY <1>0, <1>3, InvTypes DEF PrefixInv
  <2> QED BY <2>2, <2>3, <2>4, <1>3 DEF PrefixInv
<1>10. ConfirmedInv'
  BY <1>0, <1>3 DEF ConfirmedInv
<1>11. Searched(check)' /\ Asked(check)' /\ SearchIsExact' /\ AnswerIsRight'
  <2>1. Len(chain') \in Nat /\ Len(chain) <= Len(chain') /\ DOMAIN chain' = 1 .. Len(chain')
    BY <1>3, InvTypes
  <2> QED BY <2>1, <1>3, <1>6, CheckStays
<1> QED BY <1>8, <1>9, <1>10, <1>11 DEF VerificationInv

LEMMA MineKeepsInv ==
  ASSUME VerificationInv, NEW B \in SUBSET DOMAIN batches, Mine(B)
  PROVE  VerificationInv'
<1>0. PrefixInv /\ ConfirmedInv
  BY DEF VerificationInv
<1>1. /\ chain' = Append(chain, B)
      /\ posted' = posted /\ batches' = batches /\ confirmed' = confirmed /\ check' = check
  BY DEF Mine
<1>2. /\ chain' \in Seq(SUBSET DOMAIN batches) /\ DOMAIN chain' = 1 .. Len(chain) + 1
      /\ Len(chain') = Len(chain) + 1
      /\ \A n \in 1 .. Len(chain) : chain'[n] = chain[n]
  BY <1>1, InvTypes, ToSetOfAppended, AppendProperties
<1>3. /\ check' \in Checks(DOMAIN batches', Len(chain'))
      /\ Searched(check)' /\ Asked(check)' /\ SearchIsExact' /\ AnswerIsRight'
  <2>1. Len(chain') \in Nat /\ Len(chain) <= Len(chain') /\ DOMAIN chain' = 1 .. Len(chain')
    BY <1>2, InvTypes
  <2> QED BY <2>1, <1>1, <1>2, CheckStays
<1>4. VerificationTypeOK'
  <2>1. OnePlace'
    BY <1>1, InvTypes DEF OnePlace
  <2> QED BY <2>1, <1>1, <1>2, <1>3, InvTypes, TypePartsNext
<1>5. PrefixInv'
  BY <1>0, <1>1 DEF PrefixInv, InBatch
<1>6. ConfirmedInv'
  BY <1>0, <1>1, <1>2, InvTypes DEF ConfirmedInv
<1> QED BY <1>3, <1>4, <1>5, <1>6 DEF VerificationInv

LEMMA ConfirmKeepsInv ==
  ASSUME VerificationInv, NEW b \in DOMAIN batches, Confirm(b)
  PROVE  VerificationInv'
<1>0. PrefixInv /\ ConfirmedInv
  BY DEF VerificationInv
<1>1. /\ confirmed' = confirmed \cup {b} /\ \E n \in DOMAIN chain : b \in chain[n]
      /\ posted' = posted /\ batches' = batches /\ chain' = chain /\ check' = check
  BY DEF Confirm
<1>3. /\ check' \in Checks(DOMAIN batches', Len(chain'))
      /\ Searched(check)' /\ Asked(check)' /\ SearchIsExact' /\ AnswerIsRight'
  BY <1>1, InvTypes, CheckStays
<1>4. VerificationTypeOK'
  <2>1. OnePlace'
    BY <1>1, InvTypes DEF OnePlace
  <2> QED BY <2>1, <1>1, <1>3, InvTypes, TypePartsNext
<1>5. PrefixInv'
  BY <1>0, <1>1 DEF PrefixInv, InBatch
<1>6. ConfirmedInv'
  BY <1>0, <1>1 DEF ConfirmedInv
<1> QED BY <1>3, <1>4, <1>5, <1>6 DEF VerificationInv

-------------------------------------------------------------------------------
(* The search of the chain, and the questions about a leaf *)

\* A step of the verifier leaves the pipeline as it is.
LEMMA VerifierStep ==
  ASSUME VerificationInv, UNCHANGED pipelineVars,
         check' \in Checks(DOMAIN batches, Len(chain)),
         Searched(check)', Asked(check)', SearchIsExact', AnswerIsRight'
  PROVE  VerificationInv'
<1>0. PrefixInv /\ ConfirmedInv
  BY DEF VerificationInv
<1>1. posted' = posted /\ batches' = batches /\ confirmed' = confirmed /\ chain' = chain
  BY DEF pipelineVars
<1>2. VerificationTypeOK'
  <2>1. OnePlace'
    BY <1>1, InvTypes DEF OnePlace
  <2> QED BY <2>1, <1>1, InvTypes, TypePartsNext
<1>3. PrefixInv'
  BY <1>0, <1>1 DEF PrefixInv, InBatch
<1>4. ConfirmedInv'
  BY <1>0, <1>1 DEF ConfirmedInv
<1> QED BY <1>2, <1>3, <1>4 DEF VerificationInv

LEMMA LookUpKeepsInv ==
  ASSUME VerificationInv, NEW b \in DOMAIN batches, LookUp(b)
  PROVE  VerificationInv'
<1> DEFINE c == [do |-> "search", root |-> b, from |-> DeployBlock, latest |-> Len(chain)]
<1>1. check' = c /\ UNCHANGED pipelineVars
  BY DEF LookUp
<1>2. c \in Checks(DOMAIN batches, Len(chain))
  <2>1. DeployBlock \in Nat /\ Len(chain) \in 0 .. Len(chain)
    BY InvTypes
  <2>2. c \in [do : {"search"}, root : DOMAIN batches, from : Nat, latest : 0 .. Len(chain)]
    BY <2>1
  <2> QED BY <2>2 DEF Checks
<1>3. c.do = "search" /\ c.from = DeployBlock
  OBVIOUS
<1> HIDE DEF c
<1>4. Searched(check)'
  BY <1>1, <1>3 DEF Searched
<1>5. Asked(check)' /\ SearchIsExact' /\ AnswerIsRight'
  BY <1>1, <1>3 DEF Asked, SearchIsExact, AnswerIsRight
<1> QED BY <1>1, <1>2, <1>4, <1>5, VerifierStep

\* A chunk ends before the latest block, and no further than the next chunk begins.
LEMMA ChunkEnds ==
  ASSUME VerificationInv, check.do = "search"
  PROVE  /\ check.from \in Nat /\ check.latest \in 0 .. Len(chain)
         /\ check.root \in DOMAIN batches
         /\ check.from >= DeployBlock
         /\ ChunkEnd(check) \in Int
         /\ check.from <= check.latest =>
              /\ ChunkEnd(check) <= check.latest
              /\ \A n \in check.from .. check.latest :
                   n < check.from + Chunk <=> n <= ChunkEnd(check)
<1>1. check \in [do : {"search"}, root : DOMAIN batches, from : Nat, latest : 0 .. Len(chain)]
  BY InvTypes, CheckCases
<1>2. /\ check.from \in Nat /\ check.latest \in 0 .. Len(chain)
      /\ check.root \in DOMAIN batches
  BY <1>1
<1>3. check.from >= DeployBlock
  BY DEF VerificationInv, Searched
<1>4. /\ ChunkEnd(check) \in Int
      /\ check.from <= check.latest =>
           /\ ChunkEnd(check) <= check.latest
           /\ \A n \in check.from .. check.latest :
                n < check.from + Chunk <=> n <= ChunkEnd(check)
  BY <1>2, InvTypes DEF ChunkEnd
<1> QED BY <1>2, <1>3, <1>4

LEMMA SearchChunkKeepsInv ==
  ASSUME VerificationInv, SearchChunk
  PROVE  VerificationInv'
<1>1. /\ check.do = "search" /\ check.from <= check.latest /\ UNCHANGED pipelineVars
      /\ \/ Hits(check) = {} /\ check' = [check EXCEPT !.from = @ + Chunk]
         \/ \E n \in Hits(check) :
              /\ \A k \in Hits(check) : n <= k
              /\ check' = [do |-> "found", root |-> check.root, block |-> n]
  BY DEF SearchChunk
<1>2. /\ check \in [do : {"search"}, root : DOMAIN batches, from : Nat, latest : 0 .. Len(chain)]
      /\ Len(chain) \in Nat /\ chain' = chain
  BY <1>1, InvTypes, CheckCases DEF pipelineVars
<1>3. \A n \in DeployBlock .. check.latest : n < check.from => check.root \notin chain[n]
  BY <1>1 DEF VerificationInv, Searched
<1>4. CASE Hits(check) = {} /\ check' = [check EXCEPT !.from = @ + Chunk]
  <2> DEFINE c == [check EXCEPT !.from = @ + Chunk]
  <2>1. /\ c \in [do : {"search"}, root : DOMAIN batches, from : Nat, latest : 0 .. Len(chain)]
        /\ c.do = "search" /\ c.root = check.root /\ c.latest = check.latest
        /\ c.from = check.from + Chunk
    BY <1>2
  <2> HIDE DEF c
  <2>2. check' = c
    BY <1>4 DEF c
  <2>3. c \in Checks(DOMAIN batches, Len(chain))
    BY <2>1 DEF Checks
  <2>4. Searched(check)'
    <3>1. ASSUME NEW n \in DeployBlock .. check.latest, n < check.from + Chunk
          PROVE  check.root \notin chain[n]
      <4>1. CASE n < check.from
        BY <4>1, <1>3
      <4>2. CASE n >= check.from
        <5>1. n \in check.from .. ChunkEnd(check)
          BY <4>2, <3>1, <1>1, <1>2, ChunkEnds
        <5> QED BY <5>1, <1>4 DEF Hits
      <4> QED BY <4>1, <4>2, <1>2
    <3>2. check.from + Chunk >= DeployBlock
      BY <1>1, <1>2, ChunkEnds
    <3> QED BY <3>1, <3>2, <2>1, <2>2, <1>2 DEF Searched
  <2>5. Asked(check)' /\ SearchIsExact' /\ AnswerIsRight'
    BY <2>1, <2>2 DEF Asked, SearchIsExact, AnswerIsRight
  <2> QED BY <2>2, <2>3, <2>4, <2>5, <1>1, VerifierStep
<1>5. ASSUME NEW n \in Hits(check), \A k \in Hits(check) : n <= k,
             check' = [do |-> "found", root |-> check.root, block |-> n]
      PROVE  VerificationInv'
  <2>1. n \in check.from .. ChunkEnd(check) /\ check.root \in chain[n]
    BY DEF Hits
  <2>2. n \in 1 .. Len(chain) /\ n \in Nat
    BY <2>1, <1>1, <1>2, ChunkEnds
  <2> DEFINE c == [do |-> "found", root |-> check.root, block |-> n]
  <2>3. c \in Checks(DOMAIN batches, Len(chain))
    BY <2>2, <1>2 DEF Checks
  <2>4. c.do = "found" /\ c.root = check.root /\ c.block = n
    OBVIOUS
  <2> HIDE DEF c
  <2>5. check' = c
    BY <1>5 DEF c
  <2>6. SearchIsExact'
    <3>1. ASSUME NEW k \in DeployBlock .. n - 1 PROVE check.root \notin chain[k]
      <4>1. k \in DeployBlock .. check.latest /\ k < n /\ k \in Int
        BY <2>1, <2>2, <1>1, <1>2, ChunkEnds
      <4>2. CASE k < check.from
        BY <4>1, <4>2, <1>3
      <4>3. CASE k >= check.from
        <5>1. k \in check.from .. ChunkEnd(check)
          BY <4>1, <4>3, <2>1, <1>1, <1>2, ChunkEnds
        <5>2. k \notin Hits(check)
          BY <4>1, <1>5, <2>2
        <5> QED BY <5>1, <5>2 DEF Hits
      <4> QED BY <4>1, <4>2, <4>3, <1>2
    <3> QED BY <3>1, <2>1, <2>4, <2>5, <1>2 DEF SearchIsExact
  <2>7. Searched(check)' /\ Asked(check)' /\ AnswerIsRight'
    BY <2>4, <2>5 DEF Searched, Asked, AnswerIsRight
  <2> QED BY <2>3, <2>5, <2>6, <2>7, <1>1, VerifierStep
<1> QED BY <1>1, <1>4, <1>5

LEMMA SearchEndsKeepsInv ==
  ASSUME VerificationInv, SearchEnds
  PROVE  VerificationInv'
<1> DEFINE c == [do |-> "absent", root |-> check.root, latest |-> check.latest]
<1>1. check.do = "search" /\ check.from > check.latest /\ check' = c /\ UNCHANGED pipelineVars
  BY DEF SearchEnds
<1>2. /\ check \in [do : {"search"}, root : DOMAIN batches, from : Nat, latest : 0 .. Len(chain)]
      /\ Len(chain) \in Nat /\ chain' = chain
  BY <1>1, InvTypes, CheckCases DEF pipelineVars
<1>3. c \in Checks(DOMAIN batches, Len(chain))
  BY <1>2 DEF Checks
<1>4. c.do = "absent" /\ c.root = check.root /\ c.latest = check.latest
  OBVIOUS
<1> HIDE DEF c
<1>5. \A n \in DeployBlock .. check.latest : check.root \notin chain[n]
  <2>1. \A n \in DeployBlock .. check.latest : n < check.from
    BY <1>1, <1>2
  <2> QED BY <2>1, <1>1 DEF VerificationInv, Searched
<1>6. SearchIsExact'
  BY <1>1, <1>2, <1>4, <1>5 DEF SearchIsExact
<1>7. Searched(check)' /\ Asked(check)' /\ AnswerIsRight'
  BY <1>1, <1>4 DEF Searched, Asked, AnswerIsRight
<1> QED BY <1>1, <1>3, <1>6, <1>7, VerifierStep

LEMMA SearchFailsKeepsInv ==
  ASSUME VerificationInv, SearchFails
  PROVE  VerificationInv'
<1>1. check' = Idle /\ UNCHANGED pipelineVars
  BY DEF SearchFails
<1>2. Idle \in Checks(DOMAIN batches, Len(chain)) /\ Idle.do = "idle"
  BY DEF Checks, Idle
<1>3. Searched(check)' /\ Asked(check)' /\ SearchIsExact' /\ AnswerIsRight'
  BY <1>1, <1>2 DEF Searched, Asked, SearchIsExact, AnswerIsRight
<1> QED BY <1>1, <1>2, <1>3, VerifierStep

LEMMA PageAsksKeepsInv ==
  ASSUME VerificationInv, NEW m \in Messages, PageAsks(m)
  PROVE  VerificationInv'
<1> DEFINE c == [do |-> "asked", root |-> check.root, msg |-> m, leaf |-> Bare(m), page |-> TRUE]
<1>1. check.do = "found" /\ check' = c /\ UNCHANGED pipelineVars
  BY DEF PageAsks
<1>2. check.root \in DOMAIN batches
  BY <1>1, InvTypes, CheckCases
<1>3. c \in Checks(DOMAIN batches, Len(chain))
  BY <1>2 DEF Checks
<1>4. c.do = "asked" /\ c.page = TRUE
  OBVIOUS
<1> HIDE DEF c
<1>5. Searched(check)' /\ Asked(check)' /\ SearchIsExact' /\ AnswerIsRight'
  BY <1>1, <1>4 DEF Searched, Asked, SearchIsExact, AnswerIsRight
<1> QED BY <1>1, <1>3, <1>5, VerifierStep

LEMMA ClientAsksKeepsInv ==
  ASSUME VerificationInv, NEW m \in Messages, NEW b \in DOMAIN batches, ClientAsks(m, b)
  PROVE  VerificationInv'
<1> DEFINE c == [do |-> "asked", root |-> b, msg |-> m, leaf |-> Leaf(m), page |-> FALSE]
<1>1. check' = c /\ UNCHANGED pipelineVars
  BY DEF ClientAsks
<1>3. c \in Checks(DOMAIN batches, Len(chain))
  BY DEF Checks
<1>4. c.do = "asked" /\ c.leaf = Leaf(c.msg)
  OBVIOUS
<1> HIDE DEF c
<1>5. Searched(check)' /\ Asked(check)' /\ SearchIsExact' /\ AnswerIsRight'
  BY <1>1, <1>4 DEF Searched, Asked, SearchIsExact, AnswerIsRight
<1> QED BY <1>1, <1>3, <1>5, VerifierStep

\* What verify-leaf answers.
LEMMA AnswerIs ==
  ASSUME VerificationInv, check.do \in {"asked", "rows"}, UNCHANGED pipelineVars,
         NEW result \in {"refused", "not confirmed", "verified", "not verified"},
         Answer(result),
         ~ check.page /\ result = "verified" =>
           /\ \E i \in DOMAIN batches[check.root] : batches[check.root][i] = check.msg
           /\ \E n \in DOMAIN chain : check.root \in chain[n],
         ~ check.page /\ result = "not verified" =>
           ~ \E i \in DOMAIN batches[check.root] : batches[check.root][i] = check.msg
  PROVE  VerificationInv'
<1> DEFINE c == [do |-> "answered", root |-> check.root, msg |-> check.msg, page |-> check.page,
                 result |-> result]
<1>1. check' = c /\ batches' = batches /\ chain' = chain
  BY DEF Answer, pipelineVars
<1>2. check.root \in DOMAIN batches /\ check.msg \in Messages /\ check.page \in BOOLEAN
  <2>1. check \in [do : {"asked", "rows"}, root : DOMAIN batches, msg : Messages,
                   leaf : {Leaf(m) : m \in Messages} \cup {Bare(m) : m \in Messages},
                   page : BOOLEAN]
    BY InvTypes, CheckCases
  <2> QED BY <2>1
<1>3. c \in Checks(DOMAIN batches, Len(chain))
  BY <1>2 DEF Checks
<1>4. /\ c.do = "answered" /\ c.root = check.root /\ c.msg = check.msg
      /\ c.page = check.page /\ c.result = result
  OBVIOUS
<1> HIDE DEF c
<1>5. Searched(check)' /\ Asked(check)' /\ SearchIsExact'
  BY <1>1, <1>4 DEF Searched, Asked, SearchIsExact
<1>6. AnswerIsRight'
  BY <1>1, <1>4 DEF AnswerIsRight
<1> QED BY <1>1, <1>3, <1>5, <1>6, VerifierStep

LEMMA SelectRootKeepsInv ==
  ASSUME VerificationInv, SelectRoot
  PROVE  VerificationInv'
<1>1. check.do = "asked" /\ UNCHANGED pipelineVars
  BY DEF SelectRoot
<1>2. CASE check.page /\ Answer("refused")
  BY <1>1, <1>2, AnswerIs
<1>3. CASE Answer("not confirmed")
  BY <1>1, <1>3, AnswerIs
<1>4. CASE ~ check.page /\ check.root \in confirmed /\ check' = [check EXCEPT !.do = "rows"]
  <2> DEFINE c == [check EXCEPT !.do = "rows"]
             R == [do : {"asked", "rows"}, root : DOMAIN batches, msg : Messages,
                   leaf : {Leaf(m) : m \in Messages} \cup {Bare(m) : m \in Messages},
                   page : BOOLEAN]
  <2>1. check \in R
    BY <1>1, InvTypes, CheckCases
  <2>2. /\ c \in R /\ c.do = "rows" /\ c.root = check.root /\ c.msg = check.msg
        /\ c.leaf = check.leaf /\ c.page = check.page
    BY <2>1
  <2>3. c \in Checks(DOMAIN batches, Len(chain))
    BY <2>2 DEF Checks
  <2>4. check' = c
    BY <1>4
  <2> HIDE DEF c, R
  <2>5. check.leaf = Leaf(check.msg)
    BY <1>1, <1>4 DEF VerificationInv, Asked
  <2>6. Asked(check)'
    BY <2>2, <2>4, <2>5, <1>1, <1>4 DEF Asked, pipelineVars
  <2>7. Searched(check)' /\ SearchIsExact' /\ AnswerIsRight'
    BY <2>2, <2>4 DEF Searched, SearchIsExact, AnswerIsRight
  <2> QED BY <2>3, <2>4, <2>6, <2>7, <1>1, VerifierStep
<1> QED BY <1>2, <1>3, <1>4 DEF SelectRoot

LEMMA RecomputeRootKeepsInv ==
  ASSUME VerificationInv, RecomputeRoot
  PROVE  VerificationInv'
<1> DEFINE included == \E i \in DOMAIN batches[check.root] : batches[check.root][i] = check.msg
           verified == /\ \E i \in DOMAIN SelectLeaves(check.root) :
                            SelectLeaves(check.root)[i] = check.leaf
                       /\ Root(SelectLeaves(check.root)) = RootOf(check.root)
<1>1. /\ check.do = "rows" /\ UNCHANGED pipelineVars
      /\ Answer(IF verified THEN "verified" ELSE "not verified")
  BY DEF RecomputeRoot
<1>2. check.leaf = Leaf(check.msg) /\ check.root \in confirmed
  BY <1>1 DEF VerificationInv, Asked
<1>3. \E n \in DOMAIN chain : check.root \in chain[n]
  BY <1>2 DEF VerificationInv, ConfirmedInv
<1>4. verified <=> included
  <2>1. \A m, n : Leaf(m) = Leaf(n) => m = n
    BY DEF Leaf
  <2>2. /\ DOMAIN SelectLeaves(check.root) = DOMAIN batches[check.root]
        /\ \A i \in DOMAIN batches[check.root] :
             SelectLeaves(check.root)[i] = Leaf(batches[check.root][i])
    BY DEF SelectLeaves, LeavesOf
  <2>3. Root(SelectLeaves(check.root)) = RootOf(check.root)
    BY DEF RootOf, SelectLeaves
  <2> QED BY <2>1, <2>2, <2>3, <1>2
<1> HIDE DEF verified
<1>5. CASE verified
  <2>1. Answer("verified")
    BY <1>1, <1>5
  <2> QED BY <2>1, <1>1, <1>3, <1>4, <1>5, AnswerIs
<1>6. CASE ~ verified
  <2>1. Answer("not verified")
    BY <1>1, <1>6
  <2> QED BY <2>1, <1>1, <1>4, <1>6, AnswerIs
<1> QED BY <1>5, <1>6

LEMMA StutterKeepsInv ==
  ASSUME VerificationInv, UNCHANGED verificationVars
  PROVE  VerificationInv'
<1>1. check' = check /\ UNCHANGED pipelineVars
  BY DEF verificationVars
<1>2. UNCHANGED <<posted, batches, confirmed, chain>>
  BY <1>1 DEF pipelineVars
<1>3. /\ check' \in Checks(DOMAIN batches, Len(chain))
      /\ Searched(check)' /\ Asked(check)' /\ SearchIsExact' /\ AnswerIsRight'
  BY <1>1, <1>2, InvTypes, CheckStays
<1> QED BY <1>1, <1>3, VerifierStep

LEMMA NextKeepsInv ==
  ASSUME VerificationInv, [VerificationNext]_verificationVars
  PROVE  VerificationInv'
<1>1. ASSUME NEW m \in Messages, Post(m) \/ PageAsks(m) PROVE VerificationInv'
  BY <1>1, PostKeepsInv, PageAsksKeepsInv
<1>2. ASSUME NEW n \in Messages, Build(n) PROVE VerificationInv'
  BY <1>2, BuildKeepsInv
<1>3. ASSUME NEW B \in SUBSET DOMAIN batches, Mine(B) PROVE VerificationInv'
  BY <1>3, MineKeepsInv
<1>4. ASSUME NEW b \in DOMAIN batches, Confirm(b) \/ LookUp(b) PROVE VerificationInv'
  BY <1>4, ConfirmKeepsInv, LookUpKeepsInv
<1>5. ASSUME NEW b \in DOMAIN batches, NEW m \in Messages, ClientAsks(m, b)
      PROVE  VerificationInv'
  BY <1>5, ClientAsksKeepsInv
<1>6. CASE SearchChunk \/ SearchEnds \/ SearchFails
  BY <1>6, SearchChunkKeepsInv, SearchEndsKeepsInv, SearchFailsKeepsInv
<1>7. CASE SelectRoot \/ RecomputeRoot
  BY <1>7, SelectRootKeepsInv, RecomputeRootKeepsInv
<1>8. CASE UNCHANGED verificationVars
  BY <1>8, StutterKeepsInv
<1> QED BY <1>1, <1>2, <1>3, <1>4, <1>5, <1>6, <1>7, <1>8 DEF VerificationNext

LEMMA VerificationInvariant == VerificationSpec => []VerificationInv
<1>1. VerificationInv /\ [VerificationNext]_verificationVars => VerificationInv'
  BY NextKeepsInv
<1> QED BY <1>1, InitVerification, PTL DEF VerificationSpec

-------------------------------------------------------------------------------
(* Numbers *)

Less == {p \in Nat \X Nat : p[1] < p[2]}

\* A set of natural numbers that is not empty has a least element.
LEMMA LeastNatural ==
  ASSUME NEW S, S \subseteq Nat, S # {}
  PROVE  \E n \in S : \A m \in S : n <= m
<1>0. IsWellFoundedOn(Less, Nat)
  BY NatLessThanWellFounded DEF OpToRel, Less
<1>1. PICK x \in S : \A y \in S : ~ (<<y, x>> \in Less)
  BY <1>0, WFMin
<1>2. ASSUME NEW y \in S PROVE x <= y
  <2>1. <<y, x>> \in Nat \X Nat /\ ~ (<<y, x>> \in Less)
    BY <1>1
  <2>2. ~ (<<y, x>>[1] < <<y, x>>[2])
    BY <2>1 DEF Less
  <2> QED BY <2>2
<1> QED BY <1>2

\* What holds of 0, and of n + 1 if of n, holds of all numbers up to m (S: where it does not).
LEMMA Induct ==
  ASSUME NEW m \in Nat, NEW S, S \subseteq 0 .. m, 0 \notin S,
         \A n \in 0 .. m : n # m /\ n \notin S => n + 1 \notin S
  PROVE  S = {}
<1> SUFFICES ASSUME S # {} PROVE FALSE
  OBVIOUS
<1>0. S \subseteq Nat
  OBVIOUS
<1>1. PICK n \in S : \A k \in S : n <= k
  BY <1>0, LeastNatural
<1>2. n \in 0 .. m /\ n # 0
  OBVIOUS
<1>3. n - 1 \in 0 .. m /\ n - 1 # m /\ n - 1 \notin S /\ n - 1 + 1 = n
  BY <1>1, <1>2
<1> QED BY <1>3, <1>1

LEMMA InductNat ==
  ASSUME NEW S, S \subseteq Nat, 0 \notin S, \A n \in Nat : n \notin S => n + 1 \notin S
  PROVE  S = {}
<1> SUFFICES ASSUME S # {} PROVE FALSE
  OBVIOUS
<1>1. PICK n \in S : \A k \in S : n <= k
  BY LeastNatural
<1>2. n \in Nat /\ n # 0
  OBVIOUS
<1>3. n - 1 \in Nat /\ n - 1 \notin S /\ n - 1 + 1 = n
  BY <1>1, <1>2
<1> QED BY <1>3, <1>1

-------------------------------------------------------------------------------
(* Layers *)

\* The function that Layers defines, and layer n.
LayerOf(q) == CHOOSE f : f = [n \in Nat |-> IF n = 0 THEN q ELSE Parents(f[n - 1])]
Layer(q, n) == LayerOf(q)[n]

UpTo(q, n, g) == g = [i \in 0 .. n |-> IF i = 0 THEN q ELSE Parents(g[i - 1])]

\* The layers up to n, which there are, and which agree as far as both go.
LEMMA UpToExists ==
  ASSUME NEW q, NEW n \in Nat
  PROVE  \E g : UpTo(q, n, g)
<1> DEFINE S == {m \in Nat : ~ \E g : UpTo(q, m, g)}
<1>1. 0 \notin S
  <2> DEFINE g == [i \in 0 .. 0 |-> q]
  <2>1. UpTo(q, 0, g)
    BY DEF UpTo
  <2> QED BY <2>1
<1>2. ASSUME NEW m \in Nat, m \notin S PROVE m + 1 \notin S
  <2>1. PICK g : UpTo(q, m, g)
    BY <1>2
  <2> DEFINE h == [i \in 0 .. m + 1 |-> IF i = m + 1 THEN Parents(g[m]) ELSE g[i]]
  <2>2. \A i \in 0 .. m : g[i] = IF i = 0 THEN q ELSE Parents(g[i - 1])
    BY <2>1 DEF UpTo
  <2>3. ASSUME NEW i \in 0 .. m + 1 PROVE h[i] = IF i = 0 THEN q ELSE Parents(h[i - 1])
    <3>1. CASE i = m + 1
      <4>1. m \in 0 .. m + 1 /\ m # m + 1 /\ i - 1 = m /\ i # 0
        BY <3>1
      <4> QED BY <3>1, <4>1
    <3>2. CASE i # m + 1
      <4>1. i \in 0 .. m /\ (i # 0 => i - 1 \in 0 .. m + 1 /\ i - 1 # m + 1)
        BY <3>2
      <4>2. h[i] = g[i] /\ (i # 0 => h[i - 1] = g[i - 1])
        BY <3>2, <4>1
      <4> QED BY <2>2, <4>1, <4>2
    <3> QED BY <3>1, <3>2
  <2>4. UpTo(q, m + 1, h)
    BY <2>3 DEF UpTo
  <2> QED BY <2>4
<1>3. S = {}
  <2> HIDE DEF S
  <2>1. S \subseteq Nat
    BY DEF S
  <2> QED BY <1>1, <1>2, <2>1, InductNat
<1> QED BY <1>3

LEMMA UpToUnique ==
  ASSUME NEW q, NEW m \in Nat, NEW n \in Nat, m <= n,
         NEW g, NEW h, UpTo(q, m, g), UpTo(q, n, h)
  PROVE  \A i \in 0 .. m : g[i] = h[i]
<1> DEFINE S == {i \in 0 .. m : g[i] # h[i]}
<1>1. \A i \in 0 .. m : g[i] = IF i = 0 THEN q ELSE Parents(g[i - 1])
  BY DEF UpTo
<1>2. \A i \in 0 .. n : h[i] = IF i = 0 THEN q ELSE Parents(h[i - 1])
  BY DEF UpTo
<1>3. 0 \notin S
  BY <1>1, <1>2
<1>4. ASSUME NEW i \in 0 .. m, i # m, i \notin S PROVE i + 1 \notin S
  <2>1. i + 1 \in 0 .. m /\ i + 1 \in 0 .. n /\ i + 1 # 0 /\ i + 1 - 1 = i
    BY <1>4
  <2>2. g[i + 1] = Parents(g[i]) /\ h[i + 1] = Parents(h[i])
    BY <1>1, <1>2, <2>1
  <2> QED BY <1>4, <2>2
<1>5. S = {}
  <2> HIDE DEF S
  <2>1. S \subseteq 0 .. m
    BY DEF S
  <2> QED BY <1>3, <1>4, <2>1, Induct
<1> QED BY <1>5

\* The layers are what they are defined to be: there is such a function.
LEMMA LayerSteps ==
  ASSUME NEW q
  PROVE  Layer(q, 0) = q /\ \A n \in Nat : Layer(q, n + 1) = Parents(Layer(q, n))
<1> DEFINE G(n) == CHOOSE g : UpTo(q, n, g)
           f    == [n \in Nat |-> G(n)[n]]
<1>1. \A n \in Nat : UpTo(q, n, G(n))
  BY UpToExists
<1> HIDE DEF G
<1>2. ASSUME NEW n \in Nat PROVE f[n] = IF n = 0 THEN q ELSE Parents(f[n - 1])
  <2>1. G(n)[n] = IF n = 0 THEN q ELSE Parents(G(n)[n - 1])
    <3>1. n \in 0 .. n
      OBVIOUS
    <3> QED BY <1>1, <3>1 DEF UpTo
  <2>2. ASSUME n # 0 PROVE G(n)[n - 1] = G(n - 1)[n - 1]
    <3>1. n - 1 \in Nat /\ n - 1 <= n /\ n - 1 \in 0 .. n - 1
      BY <2>2
    <3>2. UpTo(q, n - 1, G(n - 1)) /\ UpTo(q, n, G(n))
      BY <1>1, <3>1
    <3> QED BY <3>1, <3>2, UpToUnique
  <2> QED BY <2>1, <2>2
<1>3. f = [n \in Nat |-> IF n = 0 THEN q ELSE Parents(f[n - 1])]
  BY <1>2
<1> HIDE DEF f
<1>4. LayerOf(q) = [n \in Nat |-> IF n = 0 THEN q ELSE Parents(LayerOf(q)[n - 1])]
  BY <1>3 DEF LayerOf
<1>5. Layer(q, 0) = q
  BY <1>4 DEF Layer
<1>6. ASSUME NEW n \in Nat PROVE Layer(q, n + 1) = Parents(Layer(q, n))
  <2>1. n + 1 \in Nat /\ n + 1 # 0 /\ n + 1 - 1 = n
    OBVIOUS
  <2> QED BY <1>4, <2>1 DEF Layer
<1> QED BY <1>5, <1>6

\* What Layers has are the layers.
LEMMA LayersAre ==
  ASSUME NEW q
  PROVE  Layers(q) = [n \in 0 .. Len(q) |-> Layer(q, n)]
BY DEF Layers, Layer, LayerOf

\* A layer of n nodes.
Row(q, n) == n \in Nat \ {0} /\ Len(q) = n /\ DOMAIN q = 1 .. n /\ \E S : q \in Seq(S)

\* Half a layer, rounded up.
LEMMA Half ==
  ASSUME NEW n \in Nat \ {0}
  PROVE  \E h \in Nat \ {0} : h = (n + 1) \div 2 /\ (n = 2 * h \/ n = 2 * h - 1)
<1> DEFINE h == (n + 1) \div 2
<1>1. h \in Nat \ {0} /\ (n = 2 * h \/ n = 2 * h - 1)
  OBVIOUS
<1> QED BY <1>1

\* The layer above n nodes has half as many.
LEMMA ParentsOf ==
  ASSUME NEW q, NEW n, Row(q, n)
  PROVE  \E h \in Nat \ {0} :
           /\ n = 2 * h \/ n = 2 * h - 1
           /\ Row(Parents(q), h)
           /\ \A k \in 1 .. h :
                Parents(q)[k] = IF 2 * k <= n THEN Inner(q[2 * k - 1], q[2 * k]) ELSE q[2 * k - 1]
<1>1. PICK h \in Nat \ {0} : h = (n + 1) \div 2 /\ (n = 2 * h \/ n = 2 * h - 1)
  BY Half DEF Row
<1> DEFINE p == Parents(q)
<1>2. p = [k \in 1 .. h |-> IF 2 * k <= n THEN Inner(q[2 * k - 1], q[2 * k]) ELSE q[2 * k - 1]]
  BY <1>1 DEF Parents, Row
<1> HIDE DEF p
<1>3. DOMAIN p = 1 .. h
  BY <1>2
<1>4. p \in Seq({p[k] : k \in 1 .. h})
  <2>1. \A k \in 1 .. h : p[k] \in {p[i] : i \in 1 .. h}
    OBVIOUS
  <2>2. p = [k \in 1 .. h |-> p[k]]
    BY <1>2
  <2> QED BY <2>1, <2>2, IsASeq
<1>5. Len(p) = h
  BY <1>3, <1>4, LenProperties
<1>6. Row(p, h)
  BY <1>3, <1>4, <1>5 DEF Row
<1>7. \A k \in 1 .. h :
        p[k] = IF 2 * k <= n THEN Inner(q[2 * k - 1], q[2 * k]) ELSE q[2 * k - 1]
  BY <1>2
<1> QED BY <1>1, <1>6, <1>7 DEF p

\* The size of a layer.
Width(q, i) == Len(Layer(q, i))

LEMMA LayerRows ==
  ASSUME NEW q, NEW n, Row(q, n)
  PROVE  \A i \in Nat : Row(Layer(q, i), Width(q, i))
<1> DEFINE S == {i \in Nat : ~ Row(Layer(q, i), Width(q, i))}
<1>1. 0 \notin S
  BY LayerSteps DEF Row, Width
<1>2. ASSUME NEW i \in Nat, i \notin S PROVE i + 1 \notin S
  <2>1. Layer(q, i + 1) = Parents(Layer(q, i))
    BY LayerSteps
  <2>2. PICK h \in Nat \ {0} : Row(Parents(Layer(q, i)), h)
    BY <1>2, ParentsOf
  <2>3. h = Width(q, i + 1)
    BY <2>1, <2>2 DEF Row, Width
  <2> QED BY <2>1, <2>2, <2>3
<1>3. S = {}
  <2>1. S \subseteq Nat
    OBVIOUS
  <2> HIDE DEF S
  <2> QED BY <1>1, <1>2, <2>1, InductNat
<1> QED BY <1>3

\* The nodes of a layer and those of the layer above.
LEMMA NextLayer ==
  ASSUME NEW q, NEW n, Row(q, n), NEW i \in Nat
  PROVE  LET a == Layer(q, i)
             b == Layer(q, i + 1)
             m == Width(q, i)
             h == Width(q, i + 1)
         IN  /\ m \in Nat \ {0} /\ h \in Nat \ {0} /\ (m = 2 * h \/ m = 2 * h - 1)
             /\ Row(a, m) /\ Row(b, h)
             /\ \A k \in 1 .. h :
                  b[k] = IF 2 * k <= m THEN Inner(a[2 * k - 1], a[2 * k]) ELSE a[2 * k - 1]
<1> DEFINE m == Width(q, i)
<1>1. Row(Layer(q, i), m) /\ Layer(q, i + 1) = Parents(Layer(q, i))
  BY LayerRows, LayerSteps
<1>2. PICK h \in Nat \ {0} :
        /\ m = 2 * h \/ m = 2 * h - 1
        /\ Row(Layer(q, i + 1), h)
        /\ \A k \in 1 .. h : Layer(q, i + 1)[k] =
             IF 2 * k <= m THEN Inner(Layer(q, i)[2 * k - 1], Layer(q, i)[2 * k])
             ELSE Layer(q, i)[2 * k - 1]
  <2> HIDE DEF m
  <2> QED BY <1>1, ParentsOf
<1>3. h = Width(q, i + 1) /\ m \in Nat \ {0}
  BY <1>1, <1>2 DEF Row, Width
<1> HIDE DEF m
<1> QED BY <1>1, <1>2, <1>3 DEF m

\* Each layer has a node less than the one below, as long as there are two.
LEMMA Shrinks ==
  ASSUME NEW q, NEW n, Row(q, n)
  PROVE  \A i \in Nat : Width(q, i) = 1 \/ Width(q, i) + i <= n
<1> DEFINE S == {i \in Nat : ~ (Width(q, i) = 1 \/ Width(q, i) + i <= n)}
<1>1. 0 \notin S
  <2>1. Width(q, 0) = n /\ n \in Nat
    BY LayerSteps DEF Row, Width
  <2> QED BY <2>1
<1>2. ASSUME NEW i \in Nat, i \notin S PROVE i + 1 \notin S
  <2> DEFINE m == Width(q, i)
             h == Width(q, i + 1)
  <2>1. m \in Nat \ {0} /\ h \in Nat \ {0} /\ (m = 2 * h \/ m = 2 * h - 1)
    BY NextLayer
  <2> HIDE DEF m, h
  <2>2. n \in Nat
    BY DEF Row
  <2>3. m = 1 \/ m + i <= n
    BY <1>2 DEF m
  <2>4. h = 1 \/ h + (i + 1) <= n
    BY <2>1, <2>2, <2>3
  <2> QED BY <2>4 DEF h
<1>3. S = {}
  <2>1. S \subseteq Nat
    OBVIOUS
  <2> HIDE DEF S
  <2> QED BY <1>1, <1>2, <2>1, InductNat
<1> QED BY <1>3

\* At layer n there is one node, the root; the layers above repeat it.
LEMMA TopIsRoot ==
  ASSUME NEW q, NEW n, Row(q, n), NEW k \in Nat, n <= k
  PROVE  Width(q, k) = 1 /\ Layer(q, k)[1] = Root(q)
<1>0. n \in Nat \ {0} /\ Len(q) = n
  BY DEF Row
<1>1. Width(q, n) = 1 /\ Width(q, k) = 1
  <2>1. Width(q, n) = 1 \/ Width(q, n) + n <= n
    BY <1>0, Shrinks
  <2>2. Width(q, k) = 1 \/ Width(q, k) + k <= n
    BY Shrinks
  <2>3. Width(q, n) \in Nat \ {0} /\ Width(q, k) \in Nat \ {0}
    BY <1>0, LayerRows DEF Row
  <2> QED BY <2>1, <2>2, <2>3, <1>0
<1>2. Root(q) = Layer(q, n)[1]
  <2>1. Layers(q) = [i \in 0 .. n |-> Layer(q, i)] /\ n \in 0 .. n
    BY <1>0, LayersAre
  <2> QED BY <1>0, <2>1 DEF Root
<1> DEFINE S == {i \in Nat : ~ (Width(q, n + i) = 1 /\ Layer(q, n + i)[1] = Layer(q, n)[1])}
<1>3. 0 \notin S
  BY <1>0, <1>1
<1>4. ASSUME NEW i \in Nat, i \notin S PROVE i + 1 \notin S
  <2>1. n + i \in Nat /\ n + (i + 1) = n + i + 1
    BY <1>0
  <2>2. PICK j \in Nat : j = n + i
    BY <2>1
  <2>3. Width(q, j) = 1 /\ Layer(q, j)[1] = Layer(q, n)[1]
    BY <1>4, <2>2
  <2> DEFINE h == Width(q, j + 1)
  <2>4. h \in Nat \ {0} /\ (Width(q, j) = 2 * h \/ Width(q, j) = 2 * h - 1)
    BY NextLayer
  <2>5. h = 1
    <3> HIDE DEF h
    <3> QED BY <2>3, <2>4
  <2>6. Layer(q, j + 1)[1] = Layer(q, j)[1]
    <3>1. \A e \in 1 .. Width(q, j + 1) :
            Layer(q, j + 1)[e] = IF 2 * e <= Width(q, j)
                                 THEN Inner(Layer(q, j)[2 * e - 1], Layer(q, j)[2 * e])
                                 ELSE Layer(q, j)[2 * e - 1]
      BY NextLayer
    <3>2. 1 \in 1 .. Width(q, j + 1) /\ ~ (2 * 1 <= Width(q, j)) /\ 2 * 1 - 1 = 1
      BY <2>3, <2>4, <2>5
    <3> QED BY <3>1, <3>2
  <2> QED BY <2>1, <2>2, <2>3, <2>4, <2>5, <2>6
<1>5. S = {}
  <2>1. S \subseteq Nat
    OBVIOUS
  <2> HIDE DEF S
  <2> QED BY <1>3, <1>4, <2>1, InductNat
<1>6. k - n \in Nat /\ n + (k - n) = k
  BY <1>0
<1>7. Layer(q, n + (k - n))[1] = Layer(q, n)[1]
  BY <1>5, <1>6
<1> QED BY <1>1, <1>2, <1>6, <1>7

\* The first leaf below the node x is d levels down.
Spine(x, d) ==
  \E f : /\ \E m : f[0] = Leaf(m)
         /\ f[d] = x
         /\ \A i \in 0 .. d - 1 : \E r : f[i + 1] = Inner(f[i], r)

LEMMA SpineOfLeaf ==
  ASSUME NEW m
  PROVE  Spine(Leaf(m), 0)
<1> DEFINE f == [i \in {0} |-> Leaf(m)]
<1>1. f[0] = Leaf(m)
  OBVIOUS
<1> HIDE DEF f
<1> QED BY <1>1 DEF Spine

LEMMA SpineOfInner ==
  ASSUME NEW d \in Nat, NEW x, NEW y, Spine(x, d)
  PROVE  Spine(Inner(x, y), d + 1)
<1>1. PICK f : /\ \E m : f[0] = Leaf(m)
               /\ f[d] = x
               /\ \A i \in 0 .. d - 1 : \E r : f[i + 1] = Inner(f[i], r)
  BY DEF Spine
<1> DEFINE g == [i \in 0 .. d + 1 |-> IF i = d + 1 THEN Inner(x, y) ELSE f[i]]
<1>2. g[d + 1] = Inner(x, y) /\ \A i \in 0 .. d : g[i] = f[i]
  OBVIOUS
<1> HIDE DEF g
<1>3. \E m : g[0] = Leaf(m)
  BY <1>1, <1>2
<1>4. ASSUME NEW i \in 0 .. d PROVE \E r : g[i + 1] = Inner(g[i], r)
  <2>1. CASE i = d
    BY <2>1, <1>1, <1>2
  <2>2. CASE i # d
    <3>1. i \in 0 .. d - 1 /\ i + 1 \in 0 .. d
      BY <2>2
    <3> QED BY <3>1, <1>1, <1>2
  <2> QED BY <2>1, <2>2
<1>5. d + 1 - 1 = d
  OBVIOUS
<1> QED BY <1>2, <1>3, <1>4, <1>5 DEF Spine

\* A leaf is no inner node, and an inner node has one pair of children.
LEMMA NodesDiffer ==
  /\ \A m, x, y : Leaf(m) # Inner(x, y)
  /\ \A x, y, u, v : Inner(x, y) = Inner(u, v) => x = u /\ y = v
  /\ \A m, n : Leaf(m) = Leaf(n) => m = n
<1>1. \A m, x, y : Leaf(m) # Inner(x, y)
  <2> SUFFICES ASSUME NEW m, NEW x, NEW y, Leaf(m) = Inner(x, y) PROVE FALSE
    OBVIOUS
  <2>1. Leaf(m)[1] = "leaf" /\ Inner(x, y)[1] = "node"
    BY DEF Leaf, Inner
  <2> QED BY <2>1
<1>2. \A x, y, u, v : Inner(x, y) = Inner(u, v) => x = u /\ y = v
  BY DEF Inner
<1>3. \A m, n : Leaf(m) = Leaf(n) => m = n
  BY DEF Leaf
<1> QED BY <1>1, <1>2, <1>3

\* A node has its first leaf at one depth only.
LEMMA SpineIsLong ==
  ASSUME NEW d \in Nat, NEW e \in Nat, NEW x, Spine(x, d), Spine(x, e), d <= e
  PROVE  d = e
<1>1. PICK f : /\ \E m : f[0] = Leaf(m)
               /\ f[d] = x
               /\ \A i \in 0 .. d - 1 : \E r : f[i + 1] = Inner(f[i], r)
  BY DEF Spine
<1>2. PICK g : /\ \E m : g[0] = Leaf(m)
               /\ g[e] = x
               /\ \A i \in 0 .. e - 1 : \E r : g[i + 1] = Inner(g[i], r)
  BY DEF Spine
<1> DEFINE S == {i \in 0 .. d : f[d - i] # g[e - i]}
<1>3. 0 \notin S
  BY <1>1, <1>2
<1>4. ASSUME NEW i \in 0 .. d, i # d, i \notin S PROVE i + 1 \notin S
  <2> DEFINE a == d - (i + 1)
             b == e - (i + 1)
  <2>1. a \in 0 .. d - 1 /\ b \in 0 .. e - 1 /\ a + 1 = d - i /\ b + 1 = e - i
    BY <1>4
  <2>2. f[d - i] = g[e - i]
    BY <1>4
  <2> HIDE DEF a, b
  <2>3. (\E r : f[a + 1] = Inner(f[a], r)) /\ (\E r : g[b + 1] = Inner(g[b], r))
    BY <1>1, <1>2, <2>1
  <2>4. f[a] = g[b]
    BY <2>1, <2>2, <2>3, NodesDiffer
  <2> QED BY <2>4 DEF a, b
<1>5. S = {}
  <2>1. S \subseteq 0 .. d
    OBVIOUS
  <2> HIDE DEF S
  <2> QED BY <1>3, <1>4, <2>1, Induct
<1>6. f[0] = g[e - d]
  <2>1. d \in 0 .. d /\ d - d = 0
    OBVIOUS
  <2>2. f[d - d] = g[e - d]
    BY <1>5, <2>1
  <2> QED BY <2>1, <2>2
<1>7. CASE d # e
  <2> DEFINE b == e - d - 1
  <2>1. b \in 0 .. e - 1 /\ b + 1 = e - d
    BY <1>7
  <2> HIDE DEF b
  <2>2. \E r : g[b + 1] = Inner(g[b], r)
    BY <1>2, <2>1
  <2> QED BY <1>1, <1>6, <2>1, <2>2, NodesDiffer
<1> QED BY <1>7

LEMMA SpineIsUnique ==
  ASSUME NEW d \in Nat, NEW e \in Nat, NEW x, Spine(x, d), Spine(x, e)
  PROVE  d = e
<1>1. d <= e \/ e <= d
  OBVIOUS
<1> QED BY <1>1, SpineIsLong

\* A sequence of leaves.
LeafRow(q, n) == Row(q, n) /\ \A i \in 1 .. n : \E m : q[i] = Leaf(m)

\* Every node of layer i but the last is over a full tree; only the last may be lower.
Full(q, i) ==
  /\ \A k \in 1 .. Width(q, i) : \E d \in 0 .. i : Spine(Layer(q, i)[k], d)
  /\ \A k \in 1 .. Width(q, i) : k < Width(q, i) => Spine(Layer(q, i)[k], i)

\* So it is in every tree.
LEMMA LayersAreFull ==
  ASSUME NEW q, NEW n, LeafRow(q, n)
  PROVE  \A i \in Nat : Full(q, i)
<1> DEFINE S == {i \in Nat : ~ Full(q, i)}
<1>0. Row(q, n)
  BY DEF LeafRow
<1>1. 0 \notin S
  <2>1. Layer(q, 0) = q /\ Width(q, 0) = n
    BY LayerSteps, <1>0 DEF Width, Row
  <2>2. \A k \in 1 .. n : Spine(q[k], 0)
    BY SpineOfLeaf DEF LeafRow
  <2>3. Full(q, 0)
    BY <2>1, <2>2 DEF Full
  <2> QED BY <2>3
<1>2. ASSUME NEW i \in Nat, i \notin S PROVE i + 1 \notin S
  <2> DEFINE a == Layer(q, i)
             b == Layer(q, i + 1)
             m == Width(q, i)
             h == Width(q, i + 1)
  <2>1. /\ m \in Nat \ {0} /\ h \in Nat \ {0} /\ (m = 2 * h \/ m = 2 * h - 1)
        /\ \A k \in 1 .. h :
             b[k] = IF 2 * k <= m THEN Inner(a[2 * k - 1], a[2 * k]) ELSE a[2 * k - 1]
    BY <1>0, NextLayer
  <2>2. /\ \A k \in 1 .. m : \E d \in 0 .. i : Spine(a[k], d)
        /\ \A k \in 1 .. m : k < m => Spine(a[k], i)
    BY <1>2 DEF Full
  <2> HIDE DEF a, b, m, h
  <2>3. ASSUME NEW k \in 1 .. h
        PROVE  /\ \E d \in 0 .. i + 1 : Spine(b[k], d)
               /\ k < h => Spine(b[k], i + 1)
    <3> DEFINE l == 2 * k - 1
    <3>0. l \in 1 .. m
      BY <2>1
    <3>1. CASE 2 * k <= m
      <4>1. l < m
        BY <3>1, <2>1
      <4> HIDE DEF l
      <4>2. Spine(a[l], i)
        BY <4>1, <3>0, <2>2
      <4>3. Spine(Inner(a[l], a[2 * k]), i + 1)
        BY <4>2, SpineOfInner
      <4>4. b[k] = Inner(a[l], a[2 * k])
        BY <3>1, <2>1 DEF l
      <4> QED BY <4>3, <4>4
    <3>2. CASE ~ (2 * k <= m)
      <4>1. k = h
        BY <3>2, <2>1
      <4>2. b[k] = a[l]
        BY <3>2, <2>1
      <4> HIDE DEF l
      <4>3. \E d \in 0 .. i : Spine(a[l], d)
        BY <3>0, <2>2
      <4> QED BY <4>1, <4>2, <4>3, <2>1
    <3> QED BY <3>1, <3>2
  <2>4. Full(q, i + 1)
    BY <2>3 DEF Full, b, h
  <2> QED BY <2>4
<1>3. S = {}
  <2>1. S \subseteq Nat
    OBVIOUS
  <2> HIDE DEF S
  <2> QED BY <1>1, <1>2, <2>1, InductNat
<1> QED BY <1>3

\* If layers i + 1 of two trees are equal, so are layers i: the last node of one cannot be
\* promoted where that of the other is a pair, since the pair is over a full tree.
LEMMA LayerBelow ==
  ASSUME NEW q, NEW n, LeafRow(q, n), NEW r, NEW o, LeafRow(r, o), NEW i \in Nat,
         Layer(q, i + 1) = Layer(r, i + 1)
  PROVE  Layer(q, i) = Layer(r, i)
<1>0. Row(q, n) /\ Row(r, o)
  BY DEF LeafRow
<1> DEFINE a == Layer(q, i)
           b == Layer(r, i)
           c == Layer(q, i + 1)
           l == Width(q, i)
           m == Width(r, i)
           h == Width(q, i + 1)
<1>1. h = Width(r, i + 1)
  BY DEF Width
<1>2. /\ l \in Nat \ {0} /\ h \in Nat \ {0} /\ (l = 2 * h \/ l = 2 * h - 1) /\ Row(a, l)
      /\ \A k \in 1 .. h : c[k] = IF 2 * k <= l THEN Inner(a[2 * k - 1], a[2 * k]) ELSE a[2 * k - 1]
  BY <1>0, NextLayer
<1>3. /\ m \in Nat \ {0} /\ (m = 2 * h \/ m = 2 * h - 1) /\ Row(b, m)
      /\ \A k \in 1 .. h : c[k] = IF 2 * k <= m THEN Inner(b[2 * k - 1], b[2 * k]) ELSE b[2 * k - 1]
  <2> DEFINE e == Layer(r, i + 1)
             g == Width(r, i + 1)
  <2>1. /\ m \in Nat \ {0} /\ (m = 2 * g \/ m = 2 * g - 1) /\ Row(b, m)
        /\ \A k \in 1 .. g :
             e[k] = IF 2 * k <= m THEN Inner(b[2 * k - 1], b[2 * k]) ELSE b[2 * k - 1]
    BY <1>0, NextLayer
  <2>2. e = c /\ g = h
    BY <1>1
  <2> HIDE DEF b, c, m, h, e, g
  <2> QED BY <2>1, <2>2
<1>4. Full(q, i) /\ Full(r, i)
  BY LayersAreFull
<1>f. /\ \A k \in 1 .. l : \E d \in 0 .. i : Spine(a[k], d)
      /\ \A k \in 1 .. l : k < l => Spine(a[k], i)
      /\ \A k \in 1 .. m : \E d \in 0 .. i : Spine(b[k], d)
      /\ \A k \in 1 .. m : k < m => Spine(b[k], i)
  BY <1>4 DEF Full
<1> HIDE DEF a, b, c, l, m, h
<1>5. CASE l = 2 * h /\ m = 2 * h - 1
  <2> DEFINE j == 2 * h - 1
  <2>1. j \in 1 .. l /\ j < l /\ j \in 1 .. m /\ h \in 1 .. h /\ 2 * h <= l /\ ~ (2 * h <= m)
    BY <1>2, <1>5
  <2>2. c[h] = Inner(a[j], a[2 * h]) /\ c[h] = b[j]
    BY <1>2, <1>3, <2>1
  <2> HIDE DEF j
  <2>3. Spine(b[j], i + 1)
    BY <2>1, <2>2, <1>f, SpineOfInner
  <2>4. PICK d \in 0 .. i : Spine(b[j], d)
    BY <2>1, <1>f
  <2>5. d \in Nat /\ d # i + 1 /\ i + 1 \in Nat
    OBVIOUS
  <2> QED BY <2>3, <2>4, <2>5, SpineIsUnique
<1>6. CASE m = 2 * h /\ l = 2 * h - 1
  <2> DEFINE j == 2 * h - 1
  <2>1. j \in 1 .. m /\ j < m /\ j \in 1 .. l /\ h \in 1 .. h /\ 2 * h <= m /\ ~ (2 * h <= l)
    BY <1>2, <1>3, <1>6
  <2>2. c[h] = Inner(b[j], b[2 * h]) /\ c[h] = a[j]
    BY <1>2, <1>3, <2>1
  <2> HIDE DEF j
  <2>3. Spine(a[j], i + 1)
    BY <2>1, <2>2, <1>f, SpineOfInner
  <2>4. PICK d \in 0 .. i : Spine(a[j], d)
    BY <2>1, <1>f
  <2>5. d \in Nat /\ d # i + 1 /\ i + 1 \in Nat
    OBVIOUS
  <2> QED BY <2>3, <2>4, <2>5, SpineIsUnique
<1>7. CASE l = m
  <2>1. ASSUME NEW j \in 1 .. l PROVE a[j] = b[j]
    <3>1. PICK k \in 1 .. h : j = 2 * k \/ j = 2 * k - 1
      <4>1. PICK k \in Nat \ {0} : j = 2 * k \/ j = 2 * k - 1
        BY Half
      <4>2. k \in 1 .. h
        BY <4>1, <1>2
      <4> QED BY <4>1, <4>2
    <3>2. CASE 2 * k <= l
      <4>1. Inner(a[2 * k - 1], a[2 * k]) = Inner(b[2 * k - 1], b[2 * k])
        BY <3>2, <1>2, <1>3, <1>7
      <4> HIDE DEF Inner
      <4>2. a[2 * k - 1] = b[2 * k - 1] /\ a[2 * k] = b[2 * k]
        BY <4>1, NodesDiffer
      <4> QED BY <4>2, <3>1
    <3>3. CASE ~ (2 * k <= l)
      <4>1. a[2 * k - 1] = b[2 * k - 1]
        BY <3>3, <1>2, <1>3, <1>7
      <4>2. j = 2 * k - 1
        BY <3>1, <3>3
      <4> QED BY <4>1, <4>2
    <3> QED BY <3>2, <3>3
  <2>2. PICK S, T : a \in Seq(S) /\ b \in Seq(T)
    BY <1>2, <1>3 DEF Row
  <2>3. a \in Seq(S \cup T) /\ b \in Seq(S \cup T) /\ Len(a) = l /\ Len(b) = l
    BY <2>2, <1>2, <1>3, <1>7, SeqMonotonic DEF Row
  <2>4. a = b
    BY <2>1, <2>3, SeqEqual
  <2> QED BY <2>4 DEF a, b
<1> QED BY <1>2, <1>3, <1>5, <1>6, <1>7

\* "Order matters" and an odd leaf is promoted, not duplicated (merkle-core.js:6): trees with the
\* same root have the same leaves, in the same order, however many there are.
THEOREM RootIsInjective ==
  ASSUME NEW q, NEW n, LeafRow(q, n), NEW r, NEW o, LeafRow(r, o), Root(q) = Root(r)
  PROVE  q = r
<1>0. Row(q, n) /\ Row(r, o) /\ n \in Nat /\ o \in Nat
  BY DEF LeafRow, Row
<1>1. PICK k \in Nat : n <= k /\ o <= k
  <2>1. n + o \in Nat /\ n <= n + o /\ o <= n + o
    BY <1>0
  <2> QED BY <2>1
<1>2. Layer(q, k) = Layer(r, k)
  <2>1. /\ Width(q, k) = 1 /\ Layer(q, k)[1] = Root(q)
        /\ Width(r, k) = 1 /\ Layer(r, k)[1] = Root(r)
    BY <1>0, <1>1, TopIsRoot
  <2>2. Row(Layer(q, k), 1) /\ Row(Layer(r, k), 1)
    BY <1>0, <2>1, LayerRows
  <2>3. PICK S, T : Layer(q, k) \in Seq(S) /\ Layer(r, k) \in Seq(T)
    BY <2>2 DEF Row
  <2>4. /\ Layer(q, k) \in Seq(S \cup T) /\ Layer(r, k) \in Seq(S \cup T)
        /\ Len(Layer(q, k)) = 1 /\ Len(Layer(r, k)) = 1
    BY <2>2, <2>3, SeqMonotonic DEF Row
  <2>5. \A j \in 1 .. 1 : Layer(q, k)[j] = Layer(r, k)[j]
    BY <2>1
  <2> QED BY <2>4, <2>5, SeqEqual
<1> DEFINE S == {i \in 0 .. k : Layer(q, k - i) # Layer(r, k - i)}
<1>3. 0 \notin S
  BY <1>2
<1>4. ASSUME NEW i \in 0 .. k, i # k, i \notin S PROVE i + 1 \notin S
  <2> DEFINE j == k - (i + 1)
  <2>1. j \in Nat /\ j + 1 = k - i
    BY <1>4
  <2>2. Layer(q, k - i) = Layer(r, k - i)
    BY <1>4
  <2> HIDE DEF j
  <2>3. Layer(q, j) = Layer(r, j)
    BY <2>1, <2>2, LayerBelow
  <2> QED BY <2>3 DEF j
<1>5. S = {}
  <2>1. S \subseteq 0 .. k
    OBVIOUS
  <2> HIDE DEF S
  <2> QED BY <1>3, <1>4, <2>1, Induct
<1>6. k \in 0 .. k /\ k - k = 0
  OBVIOUS
<1>7. Layer(q, 0) = Layer(r, 0)
  BY <1>5, <1>6
<1> QED BY <1>7, LayerSteps

-------------------------------------------------------------------------------
(* Climbing a proof *)

LEMMA MaxIsGreatest ==
  ASSUME NEW n \in Nat, NEW S, S \subseteq 1 .. n, S # {}
  PROVE  Max(S) \in S /\ \A y \in S : y <= Max(S)
<1> DEFINE D == {n - x : x \in S}
<1>1. \A x \in S : n - x \in Nat
  OBVIOUS
<1>2. D \subseteq Nat /\ D # {}
  BY <1>1
<1>3. PICK d \in D : \A e \in D : d <= e
  BY <1>2, LeastNatural
<1>4. PICK x \in S : d = n - x
  OBVIOUS
<1>5. ASSUME NEW y \in S PROVE x >= y
  <2>1. n - y \in D
    OBVIOUS
  <2>2. d <= n - y /\ x \in Int /\ y \in Int
    BY <1>3, <2>1
  <2> HIDE DEF D
  <2> QED BY <1>4, <2>2
<1> HIDE DEF D
<1>6. \E z \in S : \A y \in S : z >= y
  BY <1>5
<1>7. Max(S) \in S /\ \A y \in S : Max(S) >= y
  BY <1>6 DEF Max
<1> QED BY <1>7

LEMMA MaxOf ==
  ASSUME NEW n \in Nat, NEW S, S \subseteq 1 .. n + 1, n + 1 \in S
  PROVE  Max(S) = n + 1
<1>1. n + 1 \in Nat /\ S # {}
  OBVIOUS
<1>2. Max(S) \in S /\ \A y \in S : y <= Max(S)
  BY <1>1, MaxIsGreatest
<1>3. Max(S) \in 1 .. n + 1 /\ n + 1 <= Max(S)
  BY <1>2
<1> QED BY <1>3

\* A step up from h: the sibling is hashed on its side.
Up(h, p) == IF p.left THEN Inner(p.data, h) ELSE Inner(h, p.data)

Ascent(x, q) ==
  CHOOSE f : f = [s \in SUBSET DOMAIN q |->
                    IF s = {} THEN x ELSE Up(f[s \ {Max(s)}], q[Max(s)])]
Climbed(x, q) == Ascent(x, q)[DOMAIN q]

\* The fold of verifyProof over the entries of a proof, from a leaf x.
LEMMA VerifyClimbs ==
  ASSUME NEW x, NEW q, NEW root
  PROVE  VerifyProof(x, q, root) <=> Climbed(x, q) = root
BY DEF VerifyProof, FoldLeft, MapThenFoldSet, Ascent, Climbed, Up

AscentUpTo(x, q, n, f) ==
  f = [s \in SUBSET (1 .. n) |-> IF s = {} THEN x ELSE Up(f[s \ {Max(s)}], q[Max(s)])]

\* Such a fold there is, up to entry n.
LEMMA AscentExists ==
  ASSUME NEW x, NEW q, NEW n \in Nat
  PROVE  \E f : AscentUpTo(x, q, n, f)
<1> DEFINE S == {m \in Nat : ~ \E f : AscentUpTo(x, q, m, f)}
<1>1. 0 \notin S
  <2> DEFINE f == [s \in SUBSET (1 .. 0) |-> x]
  <2>1. \A s \in SUBSET (1 .. 0) : s = {}
    OBVIOUS
  <2>2. f = [s \in SUBSET (1 .. 0) |-> IF s = {} THEN x ELSE Up(f[s \ {Max(s)}], q[Max(s)])]
    BY <2>1
  <2> HIDE DEF f
  <2>3. AscentUpTo(x, q, 0, f)
    BY <2>2 DEF AscentUpTo
  <2> QED BY <2>3
<1>2. ASSUME NEW m \in Nat, m \notin S PROVE m + 1 \notin S
  <2>1. PICK f : AscentUpTo(x, q, m, f)
    BY <1>2
  <2> DEFINE g == [s \in SUBSET (1 .. m + 1) |->
                     IF m + 1 \in s THEN Up(f[s \ {m + 1}], q[m + 1]) ELSE f[s]]
  <2>2. \A s \in SUBSET (1 .. m) :
          f[s] = IF s = {} THEN x ELSE Up(f[s \ {Max(s)}], q[Max(s)])
    BY <2>1 DEF AscentUpTo
  <2>3. \A s \in SUBSET (1 .. m) : s \in SUBSET (1 .. m + 1) /\ m + 1 \notin s /\ g[s] = f[s]
    OBVIOUS
  <2>4. ASSUME NEW s \in SUBSET (1 .. m + 1)
        PROVE  g[s] = IF s = {} THEN x ELSE Up(g[s \ {Max(s)}], q[Max(s)])
    <3>1. CASE m + 1 \in s
      <4>1. Max(s) = m + 1 /\ s # {}
        BY <3>1, MaxOf
      <4>2. s \ {m + 1} \in SUBSET (1 .. m)
        OBVIOUS
      <4>3. g[s \ {m + 1}] = f[s \ {m + 1}]
        BY <4>2, <2>3
      <4>4. g[s] = Up(f[s \ {m + 1}], q[m + 1])
        BY <3>1
      <4> HIDE DEF g
      <4> QED BY <4>1, <4>3, <4>4
    <3>2. CASE m + 1 \notin s
      <4>1. s \in SUBSET (1 .. m)
        BY <3>2
      <4>2. s \ {Max(s)} \in SUBSET (1 .. m)
        BY <4>1
      <4>3. g[s] = f[s] /\ g[s \ {Max(s)}] = f[s \ {Max(s)}]
        BY <4>1, <4>2, <2>3
      <4> HIDE DEF g
      <4> QED BY <2>2, <4>1, <4>3
    <3> QED BY <3>1, <3>2
  <2>5. g = [s \in SUBSET (1 .. m + 1) |->
               IF s = {} THEN x ELSE Up(g[s \ {Max(s)}], q[Max(s)])]
    BY <2>4
  <2> HIDE DEF g
  <2>6. AscentUpTo(x, q, m + 1, g)
    BY <2>5 DEF AscentUpTo
  <2> QED BY <2>6
<1>3. S = {}
  <2>1. S \subseteq Nat
    OBVIOUS
  <2> HIDE DEF S
  <2> QED BY <1>1, <1>2, <2>1, InductNat
<1> QED BY <1>3

\* The fold over a proof goes up node by node.
LEMMA AscentSteps ==
  ASSUME NEW x, NEW q, NEW n \in Nat, DOMAIN q = 1 .. n
  PROVE  /\ Ascent(x, q)[1 .. 0] = x
         /\ \A k \in Nat : k + 1 <= n =>
              Ascent(x, q)[1 .. k + 1] = Up(Ascent(x, q)[1 .. k], q[k + 1])
<1>1. \E f : f = [s \in SUBSET DOMAIN q |->
                    IF s = {} THEN x ELSE Up(f[s \ {Max(s)}], q[Max(s)])]
  <2>1. PICK f : AscentUpTo(x, q, n, f)
    BY AscentExists
  <2>2. f = [s \in SUBSET DOMAIN q |->
               IF s = {} THEN x ELSE Up(f[s \ {Max(s)}], q[Max(s)])]
    BY <2>1 DEF AscentUpTo
  <2> QED BY <2>2
<1> DEFINE f == Ascent(x, q)
<1>2. f = [s \in SUBSET DOMAIN q |-> IF s = {} THEN x ELSE Up(f[s \ {Max(s)}], q[Max(s)])]
  BY <1>1 DEF Ascent
<1> HIDE DEF f
<1>3. \A s \in SUBSET (1 .. n) : f[s] = IF s = {} THEN x ELSE Up(f[s \ {Max(s)}], q[Max(s)])
  BY <1>2
<1>4. f[1 .. 0] = x
  <2>1. 1 .. 0 = {} /\ 1 .. 0 \in SUBSET (1 .. n)
    OBVIOUS
  <2> QED BY <1>3, <2>1
<1>5. ASSUME NEW k \in Nat, k + 1 <= n PROVE f[1 .. k + 1] = Up(f[1 .. k], q[k + 1])
  <2> DEFINE s == 1 .. k + 1
  <2>1. s \in SUBSET (1 .. n) /\ k + 1 \in s /\ s \subseteq 1 .. k + 1 /\ s \ {k + 1} = 1 .. k
    BY <1>5
  <2>2. Max(s) = k + 1
    BY <2>1, MaxOf
  <2> HIDE DEF s
  <2>3. f[s] = Up(f[s \ {Max(s)}], q[Max(s)])
    BY <1>3, <2>1
  <2> QED BY <2>1, <2>2, <2>3 DEF s
<1> QED BY <1>4, <1>5 DEF f

LEMMA UpIsInjective ==
  ASSUME NEW x, NEW y, NEW p, Up(x, p) = Up(y, p)
  PROVE  x = y
BY NodesDiffer DEF Up

\* A proof leads from one leaf only to a given root.
LEMMA ClimbIsInjective ==
  ASSUME NEW T, NEW q \in Seq(T), NEW x, NEW y, Climbed(x, q) = Climbed(y, q)
  PROVE  x = y
<1>1. PICK n \in Nat : n = Len(q) /\ DOMAIN q = 1 .. n
  BY LenProperties
<1> DEFINE f == Ascent(x, q)
           g == Ascent(y, q)
           S == {i \in 0 .. n : f[1 .. n - i] # g[1 .. n - i]}
<1>2. /\ f[1 .. 0] = x /\ g[1 .. 0] = y
      /\ \A k \in Nat : k + 1 <= n => /\ f[1 .. k + 1] = Up(f[1 .. k], q[k + 1])
                                      /\ g[1 .. k + 1] = Up(g[1 .. k], q[k + 1])
  BY <1>1, AscentSteps
<1>3. 0 \notin S
  <2>1. f[1 .. n] = g[1 .. n] /\ n - 0 = n
    BY <1>1 DEF Climbed
  <2> QED BY <2>1
<1> HIDE DEF f, g
<1>4. ASSUME NEW i \in 0 .. n, i # n, i \notin S PROVE i + 1 \notin S
  <2> DEFINE j == n - (i + 1)
  <2>1. j \in Nat /\ j + 1 = n - i /\ j + 1 <= n
    BY <1>4
  <2>2. f[1 .. n - i] = g[1 .. n - i]
    BY <1>4
  <2> HIDE DEF j
  <2>3. f[1 .. j] = g[1 .. j]
    BY <1>2, <2>1, <2>2, UpIsInjective
  <2> QED BY <2>3 DEF j
<1>5. S = {}
  <2>1. S \subseteq 0 .. n
    OBVIOUS
  <2> HIDE DEF S
  <2> QED BY <1>3, <1>4, <2>1, Induct
<1>6. n \in 0 .. n /\ n - n = 0
  OBVIOUS
<1>7. f[1 .. 0] = g[1 .. 0]
  BY <1>5, <1>6
<1> QED BY <1>2, <1>7

LEMMA ClimbOfEmpty ==
  ASSUME NEW x
  PROVE  Climbed(x, <<>>) = x
<1>1. DOMAIN <<>> = 1 .. 0 /\ 0 \in Nat
  OBVIOUS
<1> QED BY <1>1, AscentSteps DEF Climbed

LEMMA ClimbOfAppend ==
  ASSUME NEW T, NEW q \in Seq(T), NEW p \in T, NEW x
  PROVE  Climbed(x, Append(q, p)) = Up(Climbed(x, q), p)
<1>1. PICK n \in Nat : n = Len(q) /\ DOMAIN q = 1 .. n
  BY LenProperties
<1> DEFINE r == Append(q, p)
<1>2. /\ r \in Seq(T) /\ Len(r) = n + 1 /\ r[n + 1] = p /\ \A i \in 1 .. n : r[i] = q[i]
  BY <1>1, AppendProperties
<1>3. DOMAIN r = 1 .. n + 1 /\ n + 1 \in Nat
  BY <1>2, LenProperties
<1> HIDE DEF r
<1> DEFINE f == Ascent(x, q)
           g == Ascent(x, r)
           S == {i \in 0 .. n : f[1 .. i] # g[1 .. i]}
<1>4. /\ f[1 .. 0] = x
      /\ \A k \in Nat : k + 1 <= n => f[1 .. k + 1] = Up(f[1 .. k], q[k + 1])
  BY <1>1, AscentSteps
<1>5. /\ g[1 .. 0] = x
      /\ \A k \in Nat : k + 1 <= n + 1 => g[1 .. k + 1] = Up(g[1 .. k], r[k + 1])
  BY <1>3, AscentSteps
<1>d. Climbed(x, q) = f[1 .. n] /\ Climbed(x, r) = g[1 .. n + 1]
  BY <1>1, <1>3 DEF Climbed
<1> HIDE DEF f, g
<1>6. 0 \notin S
  BY <1>4, <1>5
<1>7. ASSUME NEW i \in 0 .. n, i # n, i \notin S PROVE i + 1 \notin S
  <2>1. i \in Nat /\ i + 1 <= n /\ i + 1 <= n + 1 /\ i + 1 \in 1 .. n
    BY <1>7
  <2>2. f[1 .. i] = g[1 .. i] /\ r[i + 1] = q[i + 1]
    BY <1>2, <1>7, <2>1
  <2>3. f[1 .. i + 1] = g[1 .. i + 1]
    BY <1>4, <1>5, <2>1, <2>2
  <2> QED BY <2>3
<1>8. S = {}
  <2>1. S \subseteq 0 .. n
    OBVIOUS
  <2> HIDE DEF S
  <2> QED BY <1>6, <1>7, <2>1, Induct
<1>9. f[1 .. n] = g[1 .. n]
  <2>1. n \in 0 .. n
    OBVIOUS
  <2> QED BY <1>8, <2>1
<1>10. g[1 .. n + 1] = Up(g[1 .. n], r[n + 1])
  BY <1>5
<1> QED BY <1>2, <1>9, <1>10, <1>d DEF r

-------------------------------------------------------------------------------
(* The entries of a proof *)

Recurs(f, D, a, F) ==
  f \in [Nat -> D] /\ f[0] = a /\ \A n \in Nat : f[n + 1] = F[n][f[n]]

\* Recursion over the numbers, from a, when the step is a function.
LEMMA Recursion ==
  ASSUME NEW D, NEW a \in D, NEW F \in [Nat -> [D -> D]]
  PROVE  \E f : Recurs(f, D, a, F)
<1> DEFINE Starts(n, g) == /\ g \in [Nat -> D] /\ g[0] = a
                           /\ \A i \in Nat : i < n => g[i + 1] = F[i][g[i]]
           S == {n \in Nat : ~ \E g : Starts(n, g)}
<1>1. 0 \notin S
  <2> DEFINE g == [i \in Nat |-> a]
  <2>1. Starts(0, g)
    OBVIOUS
  <2> QED BY <2>1
<1>2. ASSUME NEW n \in Nat, n \notin S PROVE n + 1 \notin S
  <2>1. PICK g : Starts(n, g)
    BY <1>2
  <2> DEFINE h == [g EXCEPT ![n + 1] = F[n][g[n]]]
  <2>2. F[n][g[n]] \in D
    BY <2>1
  <2>3. /\ h \in [Nat -> D] /\ h[n + 1] = F[n][g[n]]
        /\ \A i \in Nat : i # n + 1 => h[i] = g[i]
    BY <2>1, <2>2
  <2> HIDE DEF h
  <2>4. ASSUME NEW i \in Nat, i < n + 1 PROVE h[i + 1] = F[i][h[i]]
    <3>1. h[i] = g[i]
      BY <2>3, <2>4
    <3>2. CASE i = n
      BY <3>1, <3>2, <2>3
    <3>3. CASE i # n
      <4>1. i < n /\ i + 1 # n + 1 /\ i + 1 \in Nat
        BY <3>3, <2>4
      <4>2. h[i + 1] = g[i + 1]
        BY <4>1, <2>3
      <4> QED BY <4>1, <4>2, <3>1, <2>1
    <3> QED BY <3>2, <3>3
  <2>5. h[0] = a
    BY <2>1, <2>3
  <2>6. Starts(n + 1, h)
    BY <2>3, <2>4, <2>5
  <2> QED BY <2>6
<1>3. S = {}
  <2>1. S \subseteq Nat
    OBVIOUS
  <2> HIDE DEF S
  <2> QED BY <1>1, <1>2, <2>1, InductNat
<1> DEFINE G(n) == CHOOSE g : Starts(n, g)
<1>4. \A n \in Nat : Starts(n, G(n))
  BY <1>3
<1> HIDE DEF G, S
\* Two of them agree as far as both go.
<1>5. ASSUME NEW n \in Nat, NEW g, NEW h, Starts(n, g), Starts(n, h)
      PROVE  g[n] = h[n]
  <2> DEFINE R == {i \in 0 .. n : g[i] # h[i]}
  <2>1. 0 \notin R
    BY <1>5
  <2>2. ASSUME NEW i \in 0 .. n, i # n, i \notin R PROVE i + 1 \notin R
    <3>1. i \in Nat /\ i < n /\ g[i] = h[i]
      BY <2>2
    <3>2. g[i + 1] = h[i + 1]
      BY <3>1, <1>5
    <3> QED BY <3>2
  <2>3. R = {}
    <3>1. R \subseteq 0 .. n
      OBVIOUS
    <3> HIDE DEF R
    <3> QED BY <2>1, <2>2, <3>1, Induct
  <2>4. n \in 0 .. n
    OBVIOUS
  <2> QED BY <2>3, <2>4
<1> DEFINE f == [n \in Nat |-> G(n)[n]]
<1>6. f \in [Nat -> D]
  BY <1>4
<1>7. ASSUME NEW n \in Nat PROVE f[n + 1] = F[n][f[n]]
  <2>1. n + 1 \in Nat /\ n < n + 1
    OBVIOUS
  <2>2. Starts(n + 1, G(n + 1)) /\ Starts(n, G(n))
    BY <2>1, <1>4
  <2>3. Starts(n, G(n + 1))
    BY <2>2
  <2>4. G(n + 1)[n] = G(n)[n]
    BY <2>2, <2>3, <1>5
  <2>5. G(n + 1)[n + 1] = F[n][G(n + 1)[n]]
    BY <2>1, <2>2
  <2> QED BY <2>1, <2>4, <2>5
<1>8. f[0] = a
  BY <1>4
<1>9. Recurs(f, D, a, F)
  BY <1>6, <1>7, <1>8 DEF Recurs
<1> QED BY <1>9

\* Where the node above leaf i is in layer n.
PlaceOf(i) == CHOOSE f : f = [n \in Nat |-> IF n = 0 THEN i ELSE f[n - 1] \div 2]
Place(i, n) == PlaceOf(i)[n]

LEMMA PlaceSteps ==
  ASSUME NEW i \in Nat
  PROVE  /\ Place(i, 0) = i
         /\ \A n \in Nat : Place(i, n) \in Nat /\ Place(i, n + 1) = Place(i, n) \div 2
<1> DEFINE F == [n \in Nat |-> [k \in Nat |-> k \div 2]]
<1>1. F \in [Nat -> [Nat -> Nat]] /\ \A n, k \in Nat : F[n][k] = k \div 2
  OBVIOUS
<1> HIDE DEF F
<1>p. PICK f : Recurs(f, Nat, i, F)
  BY <1>1, Recursion
<1>2. f \in [Nat -> Nat] /\ f[0] = i /\ \A n \in Nat : f[n + 1] = F[n][f[n]]
  BY <1>p DEF Recurs
<1>3. ASSUME NEW n \in Nat PROVE f[n] = IF n = 0 THEN i ELSE f[n - 1] \div 2
  <2>1. CASE n # 0
    <3>1. n - 1 \in Nat /\ n - 1 + 1 = n
      BY <2>1
    <3> QED BY <2>1, <3>1, <1>1, <1>2
  <2> QED BY <2>1, <1>2
<1>4. f = [n \in Nat |-> IF n = 0 THEN i ELSE f[n - 1] \div 2]
  <2>1. f = [n \in Nat |-> f[n]]
    BY <1>2
  <2> QED BY <2>1, <1>3
<1> DEFINE g == PlaceOf(i)
<1>5. g = [n \in Nat |-> IF n = 0 THEN i ELSE g[n - 1] \div 2]
  BY <1>4 DEF PlaceOf
<1> HIDE DEF g
<1>6. g[0] = i
  BY <1>5
<1>7. ASSUME NEW n \in Nat PROVE g[n + 1] = g[n] \div 2
  <2>1. n + 1 \in Nat /\ n + 1 # 0 /\ n + 1 - 1 = n
    OBVIOUS
  <2> QED BY <1>5, <2>1
<1> DEFINE S == {n \in Nat : g[n] \notin Nat}
<1>8. \A n \in Nat : n \notin S => n + 1 \notin S
  <2>1. \A k \in Nat : k \div 2 \in Nat
    OBVIOUS
  <2> QED BY <1>7, <2>1
<1>9. S = {}
  <2>1. S \subseteq Nat /\ 0 \notin S
    BY <1>6
  <2> HIDE DEF S
  <2> QED BY <1>8, <2>1, InductNat
<1> QED BY <1>6, <1>7, <1>9 DEF Place, g

\* What the proof of leaf i has for layer n.
Step(q, i, n) ==
  LET s == Sibling(Layers(q)[n], Place(i, n))
  IN  IF s.at < Len(Layers(q)[n])
      THEN <<[left |-> s.left, data |-> Layers(q)[n][s.at + 1]]>> ELSE <<>>

LEMMA ProofIs ==
  ASSUME NEW q, NEW i
  PROVE  GetProof(q, i) = FlattenSeq([n \in 1 .. Len(q) |-> Step(q, i, n - 1)])
BY DEF GetProof, Step, Place, PlaceOf

\* With each entry of a proof the climb goes from a node to its parent; where there is none, the
\* node is promoted.
LEMMA StepUp ==
  ASSUME NEW q, NEW n, Row(q, n), NEW i \in Nat, NEW j \in 0 .. n - 1,
         Place(i, j) < Width(q, j)
  PROVE  /\ Place(i, j + 1) < Width(q, j + 1)
         /\ \/ /\ Step(q, i, j) = <<>>
               /\ Layer(q, j + 1)[Place(i, j + 1) + 1] = Layer(q, j)[Place(i, j) + 1]
            \/ \E p : /\ Step(q, i, j) = <<p>>
                      /\ Layer(q, j + 1)[Place(i, j + 1) + 1] =
                           Up(Layer(q, j)[Place(i, j) + 1], p)
<1>0. j \in Nat /\ n \in Nat /\ n = Len(q)
  BY DEF Row
<1> DEFINE a == Layer(q, j)
           b == Layer(q, j + 1)
           m == Width(q, j)
           h == Width(q, j + 1)
           c == Place(i, j)
           d == Place(i, j + 1)
<1>1. /\ m \in Nat \ {0} /\ h \in Nat \ {0} /\ (m = 2 * h \/ m = 2 * h - 1)
      /\ \A k \in 1 .. h :
           b[k] = IF 2 * k <= m THEN Inner(a[2 * k - 1], a[2 * k]) ELSE a[2 * k - 1]
  BY <1>0, NextLayer
<1>2. c \in Nat /\ d \in Nat /\ d = c \div 2 /\ c < m
  BY <1>0, PlaceSteps
<1>3. Layers(q)[j] = a /\ Len(a) = m
  BY <1>0, LayersAre DEF Width
<1>s. Step(q, i, j) =
        LET s == Sibling(a, c)
        IN  IF s.at < m THEN <<[left |-> s.left, data |-> a[s.at + 1]]>> ELSE <<>>
  BY <1>3 DEF Step
<1> HIDE DEF a, b, m, h, c, d
<1>4. c = 2 * d \/ c = 2 * d + 1
  BY <1>2
<1>5. d < h /\ d + 1 \in 1 .. h
  BY <1>1, <1>2, <1>4
<1>6. CASE c = 2 * d + 1
  <2> DEFINE p == [left |-> TRUE, data |-> a[c]]
  <2>1. c % 2 = 1 /\ c - 1 < m /\ c - 1 + 1 = c
    BY <1>6, <1>1, <1>2
  <2>2. Sibling(a, c).left = TRUE /\ Sibling(a, c).at = c - 1
    BY <2>1 DEF Sibling
  <2>3. Step(q, i, j) = <<p>>
    BY <1>s, <2>1, <2>2
  <2>4. 2 * (d + 1) <= m /\ 2 * (d + 1) - 1 = c /\ 2 * (d + 1) = c + 1
    BY <1>6, <1>1, <1>2
  <2>5. b[d + 1] = Inner(a[c], a[c + 1])
    BY <1>1, <1>5, <2>4
  <2>6. Up(a[c + 1], p) = Inner(a[c], a[c + 1])
    BY DEF Up
  <2> QED BY <2>3, <2>5, <2>6, <1>5 DEF a, b, c, d, h
<1>7. CASE c = 2 * d
  <2>1. ~ (c % 2 = 1)
    BY <1>7, <1>2
  <2>2. Sibling(a, c).left = FALSE /\ Sibling(a, c).at = c + 1
    BY <2>1 DEF Sibling
  <2>3. 2 * (d + 1) - 1 = c + 1 /\ 2 * (d + 1) = c + 2 /\ c + 1 + 1 = c + 2
    BY <1>7, <1>2
  <2>4. CASE c + 1 < m
    <3> DEFINE p == [left |-> FALSE, data |-> a[c + 2]]
    <3>1. Step(q, i, j) = <<p>>
      BY <1>s, <2>2, <2>3, <2>4
    <3>2. 2 * (d + 1) <= m
      BY <2>3, <2>4, <1>1, <1>2
    <3>3. b[d + 1] = Inner(a[c + 1], a[c + 2])
      BY <1>1, <1>5, <2>3, <3>2
    <3>4. Up(a[c + 1], p) = Inner(a[c + 1], a[c + 2])
      BY DEF Up
    <3> QED BY <3>1, <3>3, <3>4, <1>5 DEF a, b, c, d, h
  <2>5. CASE ~ (c + 1 < m)
    <3>1. Step(q, i, j) = <<>>
      BY <1>s, <2>2, <2>5
    <3>2. ~ (2 * (d + 1) <= m)
      BY <2>3, <2>5, <1>1, <1>2
    <3>3. b[d + 1] = a[c + 1]
      BY <1>1, <1>5, <2>3, <3>2
    <3> QED BY <3>1, <3>3, <1>5 DEF a, b, c, d, h
  <2> QED BY <2>4, <2>5
<1> QED BY <1>4, <1>6, <1>7

-------------------------------------------------------------------------------
(* A whole proof *)

\* The sequences so far, put together.
FlatOf(q) == CHOOSE f : f = [i \in 1 .. Len(q) |-> IF i = 1 THEN q[i] ELSE f[i - 1] \o q[i]]

LEMMA FlatSteps ==
  ASSUME NEW T, NEW q \in Seq(Seq(T)), NEW n \in Nat, Len(q) = n, n > 0
  PROVE  /\ FlattenSeq(q) = FlatOf(q)[n]
         /\ FlatOf(q)[1] = q[1]
         /\ \A i \in 1 .. n - 1 : FlatOf(q)[i + 1] = FlatOf(q)[i] \o q[i + 1]
         /\ \A i \in 1 .. n : FlatOf(q)[i] \in Seq(T)
<1>0. DOMAIN q = 1 .. n /\ \A i \in 1 .. n : q[i] \in Seq(T)
  BY LenProperties, ElementOfSeq
<1> DEFINE D == Seq(T)
           F == [i \in Nat |-> [s \in D |-> IF i + 2 <= n THEN s \o q[i + 2] ELSE s]]
<1>1. q[1] \in D
  BY <1>0
<1>2. ASSUME NEW i \in Nat, NEW s \in D
      PROVE  (IF i + 2 <= n THEN s \o q[i + 2] ELSE s) \in D
  <2>1. CASE i + 2 <= n
    <3>1. i + 2 \in 1 .. n
      BY <2>1
    <3>2. q[i + 2] \in D
      BY <3>1, <1>0
    <3>3. s \o q[i + 2] \in D
      BY <3>2, ConcatProperties
    <3> QED BY <2>1, <3>3
  <2> QED BY <2>1
<1>3. F \in [Nat -> [D -> D]]
  BY <1>2
<1>4. \A i \in Nat : \A s \in D : i + 2 <= n => F[i][s] = s \o q[i + 2]
  OBVIOUS
<1> HIDE DEF D, F
<1>5. PICK g : Recurs(g, D, q[1], F)
  BY <1>1, <1>3, Recursion
<1>6. g \in [Nat -> D] /\ g[0] = q[1] /\ \A i \in Nat : g[i + 1] = F[i][g[i]]
  BY <1>5 DEF Recurs
<1> DEFINE f == [i \in 1 .. n |-> g[i - 1]]
<1>7. ASSUME NEW i \in 1 .. n PROVE f[i] = IF i = 1 THEN q[i] ELSE f[i - 1] \o q[i]
  <2>1. CASE i # 1
    <3>1. /\ i - 2 \in Nat /\ i - 2 + 1 = i - 1 /\ i - 2 + 2 = i
          /\ i - 1 \in 1 .. n /\ i - 1 - 1 = i - 2
      BY <2>1
    <3>2. g[i - 1] = F[i - 2][g[i - 2]] /\ g[i - 2] \in D
      BY <1>6, <3>1
    <3>3. F[i - 2][g[i - 2]] = g[i - 2] \o q[i]
      <4>1. i - 2 + 2 <= n
        BY <3>1
      <4> QED BY <1>4, <3>1, <3>2, <4>1
    <3>4. f[i] = g[i - 1] /\ f[i - 1] = g[i - 2]
      BY <3>1
    <3> HIDE DEF f
    <3> QED BY <2>1, <3>2, <3>3, <3>4
  <2>2. CASE i = 1
    BY <2>2, <1>6
  <2> QED BY <2>1, <2>2
<1>8. f = [i \in 1 .. n |-> IF i = 1 THEN q[i] ELSE f[i - 1] \o q[i]]
  BY <1>7
<1> HIDE DEF f
<1> DEFINE h == FlatOf(q)
<1>9. h = [i \in 1 .. n |-> IF i = 1 THEN q[i] ELSE h[i - 1] \o q[i]]
  BY <1>8 DEF FlatOf
<1> HIDE DEF h
<1>10. h[1] = q[1]
  BY <1>9
<1>11. ASSUME NEW i \in 1 .. n - 1 PROVE h[i + 1] = h[i] \o q[i + 1]
  <2>1. PICK k \in 1 .. n : k = i + 1 /\ k # 1 /\ k - 1 = i
    OBVIOUS
  <2>2. h[k] = h[k - 1] \o q[k]
    BY <1>9, <2>1
  <2> QED BY <2>1, <2>2
<1> DEFINE S == {i \in 0 .. n - 1 : h[i + 1] \notin Seq(T)}
<1>12. 0 \notin S
  BY <1>0, <1>10
<1>13. ASSUME NEW i \in 0 .. n - 1, i # n - 1, i \notin S PROVE i + 1 \notin S
  <2>1. i + 1 \in 1 .. n - 1 /\ i + 1 + 1 \in 1 .. n
    BY <1>13
  <2>2. h[i + 1] \in Seq(T) /\ q[i + 1 + 1] \in Seq(T)
    BY <1>0, <1>13, <2>1
  <2>3. h[i + 1] \o q[i + 1 + 1] \in Seq(T)
    BY <2>2, ConcatProperties
  <2>4. h[i + 1 + 1] = h[i + 1] \o q[i + 1 + 1]
    BY <1>11, <2>1
  <2> QED BY <2>3, <2>4
<1>14. S = {}
  <2>1. S \subseteq 0 .. n - 1 /\ n - 1 \in Nat
    OBVIOUS
  <2> HIDE DEF S
  <2> QED BY <1>12, <1>13, <2>1, Induct
<1>15. ASSUME NEW i \in 1 .. n PROVE h[i] \in Seq(T)
  <2>1. i - 1 \in 0 .. n - 1 /\ i - 1 + 1 = i
    OBVIOUS
  <2> QED BY <1>14, <2>1
<1>16. FlattenSeq(q) = h[n]
  BY DEF FlattenSeq, FlatOf, h
<1> QED BY <1>10, <1>11, <1>15, <1>16 DEF h

\* A climb over sequences of at most one step each, put together.
LEMMA ClimbOfFlat ==
  ASSUME NEW T, NEW q \in Seq(Seq(T)), NEW n \in Nat, Len(q) = n, n > 0,
         NEW v,
         \A i \in 1 .. n : \/ q[i] = <<>> /\ v[i] = v[i - 1]
                           \/ \E p \in T : q[i] = <<p>> /\ v[i] = Up(v[i - 1], p)
  PROVE  Climbed(v[0], FlattenSeq(q)) = v[n]
<1> DEFINE h == FlatOf(q)
           x == v[0]
<1>1. /\ FlattenSeq(q) = h[n] /\ h[1] = q[1]
      /\ \A i \in 1 .. n - 1 : h[i + 1] = h[i] \o q[i + 1]
      /\ \A i \in 1 .. n : h[i] \in Seq(T)
  BY FlatSteps
<1> HIDE DEF h
\* One more sequence.
<1>2. ASSUME NEW s \in Seq(T), NEW i \in 1 .. n, Climbed(x, s) = v[i - 1]
      PROVE  Climbed(x, s \o q[i]) = v[i]
  <2>1. CASE q[i] = <<>> /\ v[i] = v[i - 1]
    <3>1. s \o q[i] = s
      BY <2>1, ConcatEmptySeq
    <3> QED BY <3>1, <2>1, <1>2
  <2>2. ASSUME NEW p \in T, q[i] = <<p>>, v[i] = Up(v[i - 1], p)
        PROVE  Climbed(x, s \o q[i]) = v[i]
    <3>1. s \o q[i] = Append(s, p)
      BY <2>2, AppendIsConcat
    <3> QED BY <3>1, <2>2, <1>2, ClimbOfAppend
  <2> QED BY <2>1, <2>2
<1> DEFINE S == {i \in 0 .. n - 1 : Climbed(x, h[i + 1]) # v[i + 1]}
<1>3. 0 \notin S
  <2>1. <<>> \in Seq(T) /\ Climbed(x, <<>>) = v[1 - 1] /\ 1 \in 1 .. n
    BY ClimbOfEmpty
  <2>2. <<>> \o q[1] = q[1]
    <3>1. q[1] \in Seq(T)
      BY <2>1, <1>1
    <3> QED BY <3>1, ConcatEmptySeq
  <2>3. Climbed(x, q[1]) = v[1]
    BY <2>1, <2>2, <1>2
  <2> QED BY <2>3, <1>1
<1>4. ASSUME NEW i \in 0 .. n - 1, i # n - 1, i \notin S PROVE i + 1 \notin S
  <2>1. i + 1 \in 1 .. n - 1 /\ i + 1 \in 1 .. n /\ i + 1 + 1 \in 1 .. n /\ i + 1 + 1 - 1 = i + 1
    BY <1>4
  <2>2. h[i + 1] \in Seq(T) /\ Climbed(x, h[i + 1]) = v[i + 1 + 1 - 1]
    BY <1>1, <1>4, <2>1
  <2>3. Climbed(x, h[i + 1] \o q[i + 1 + 1]) = v[i + 1 + 1]
    BY <1>2, <2>1, <2>2
  <2>4. h[i + 1 + 1] = h[i + 1] \o q[i + 1 + 1]
    BY <1>1, <2>1
  <2> QED BY <2>3, <2>4
<1>5. S = {}
  <2>1. S \subseteq 0 .. n - 1 /\ n - 1 \in Nat
    OBVIOUS
  <2> HIDE DEF S
  <2> QED BY <1>3, <1>4, <2>1, Induct
<1>6. n - 1 \in 0 .. n - 1 /\ n - 1 + 1 = n
  OBVIOUS
<1>7. Climbed(x, h[n]) = v[n]
  BY <1>5, <1>6
<1> QED BY <1>1, <1>7

\* The proof of a leaf leads from the leaf to the root.
LEMMA ProofLeadsToRoot ==
  ASSUME NEW q, NEW n, Row(q, n), NEW i \in 0 .. n - 1
  PROVE  /\ Climbed(q[i + 1], GetProof(q, i)) = Root(q)
         /\ \E T : GetProof(q, i) \in Seq(T)
<1>0. n \in Nat \ {0} /\ Len(q) = n /\ i \in Nat
  BY DEF Row
<1> DEFINE v == [j \in 0 .. n |-> Layer(q, j)[Place(i, j) + 1]]
           s == [j \in 1 .. n |-> Step(q, i, j - 1)]
           T == {Step(q, i, j)[1] : j \in 0 .. n - 1}
           S == {j \in 0 .. n : ~ (Place(i, j) < Width(q, j))}
<1>1. 0 \notin S
  <2>1. Place(i, 0) = i /\ Width(q, 0) = n
    BY <1>0, PlaceSteps, LayerSteps DEF Width
  <2> QED BY <1>0, <2>1
<1>2. ASSUME NEW j \in 0 .. n, j # n, j \notin S PROVE j + 1 \notin S
  <2>1. j \in 0 .. n - 1 /\ Place(i, j) < Width(q, j)
    BY <1>0, <1>2
  <2>2. Place(i, j + 1) < Width(q, j + 1)
    BY <1>0, <2>1, StepUp
  <2> QED BY <2>2
<1>3. S = {}
  <2>1. S \subseteq 0 .. n /\ n \in Nat
    BY <1>0
  <2> HIDE DEF S
  <2> QED BY <1>1, <1>2, <2>1, Induct
<1>4. ASSUME NEW j \in 1 .. n
      PROVE  \/ s[j] = <<>> /\ v[j] = v[j - 1]
             \/ \E p \in T : s[j] = <<p>> /\ v[j] = Up(v[j - 1], p)
  <2>1. PICK k \in 0 .. n - 1 : j = k + 1
    <3>1. j - 1 \in 0 .. n - 1 /\ j = j - 1 + 1
      BY <1>0
    <3> QED BY <3>1
  <2>2. /\ s[j] = Step(q, i, k)
        /\ v[j] = Layer(q, k + 1)[Place(i, k + 1) + 1]
        /\ v[j - 1] = Layer(q, k)[Place(i, k) + 1]
    <3>1. j - 1 = k /\ k \in 0 .. n /\ j \in 0 .. n
      BY <1>0, <2>1
    <3> QED BY <3>1, <2>1
  <2>3. k \in 0 .. n /\ Place(i, k) < Width(q, k)
    <3>1. k \in 0 .. n
      BY <1>0
    <3> QED BY <3>1, <1>3
  <2>4. \/ /\ Step(q, i, k) = <<>>
           /\ Layer(q, k + 1)[Place(i, k + 1) + 1] = Layer(q, k)[Place(i, k) + 1]
        \/ \E p : /\ Step(q, i, k) = <<p>>
                  /\ Layer(q, k + 1)[Place(i, k + 1) + 1] = Up(Layer(q, k)[Place(i, k) + 1], p)
    BY <1>0, <2>3, StepUp
  <2> HIDE DEF v, s
  <2>5. \A p : Step(q, i, k) = <<p>> => p \in T
    OBVIOUS
  <2> HIDE DEF T
  <2> QED BY <2>2, <2>4, <2>5
<1> HIDE DEF T
<1>5. s \in Seq(Seq(T)) /\ Len(s) = n
  <2>1. \A j \in 1 .. n : s[j] \in Seq(T)
    <3> HIDE DEF s, v
    <3>1. <<>> \in Seq(T) /\ \A p \in T : <<p>> \in Seq(T)
      OBVIOUS
    <3> QED BY <1>4, <3>1
  <2>2. s \in [1 .. n -> Seq(T)]
    BY <2>1
  <2> HIDE DEF s
  <2> QED BY <1>0, <2>2, LenProperties
<1>6. v[0] = q[i + 1]
  <2>1. Layer(q, 0) = q /\ Place(i, 0) = i
    BY <1>0, PlaceSteps, LayerSteps
  <2>2. 0 \in 0 .. n
    BY <1>0
  <2> QED BY <2>1, <2>2
<1>7. v[n] = Root(q)
  <2>1. n \in 0 .. n /\ n \in Nat /\ n <= n
    BY <1>0
  <2>2. Width(q, n) = 1 /\ Layer(q, n)[1] = Root(q)
    BY <2>1, TopIsRoot
  <2>3. Place(i, n) < Width(q, n) /\ Place(i, n) \in Nat
    BY <1>0, <1>3, <2>1, PlaceSteps
  <2>4. Place(i, n) + 1 = 1
    BY <2>2, <2>3
  <2> QED BY <2>1, <2>2, <2>4
<1>8. GetProof(q, i) = FlattenSeq(s)
  BY <1>0, ProofIs
<1> HIDE DEF s, v, S
<1>9. Climbed(v[0], FlattenSeq(s)) = v[n]
  BY <1>0, <1>4, <1>5, ClimbOfFlat
<1>10. FlattenSeq(s) \in Seq(T)
  <2>1. n \in Nat /\ n > 0 /\ n \in 1 .. n
    BY <1>0
  <2>2. FlattenSeq(s) = FlatOf(s)[n] /\ \A j \in 1 .. n : FlatOf(s)[j] \in Seq(T)
    BY <2>1, <1>5, FlatSteps
  <2> QED BY <2>1, <2>2
<1> QED BY <1>6, <1>7, <1>8, <1>9, <1>10

\* What getProof makes for a leaf of a tree of any size, verifyProof accepts for this leaf and for
\* nothing else (merkle-core.js:74-92).
THEOREM ProofFitsItsLeaf ==
  ASSUME NEW q, NEW n, Row(q, n), NEW i \in 0 .. n - 1, NEW x
  PROVE  VerifyProof(x, GetProof(q, i), Root(q)) <=> x = q[i + 1]
<1>1. /\ Climbed(q[i + 1], GetProof(q, i)) = Root(q)
      /\ \E T : GetProof(q, i) \in Seq(T)
  BY ProofLeadsToRoot
<1>2. Climbed(x, GetProof(q, i)) = Root(q) => x = q[i + 1]
  BY <1>1, ClimbIsInjective
<1> QED BY <1>1, <1>2, VerifyClimbs

-------------------------------------------------------------------------------
(* Batches *)

LeafNodes == {Leaf(m) : m \in Nat}

LEMMA RowOfLeaves ==
  ASSUME NEW q \in Seq(LeafNodes), Len(q) # 0
  PROVE  LeafRow(q, Len(q))
<1>1. Len(q) \in Nat \ {0} /\ DOMAIN q = 1 .. Len(q)
  BY LenProperties
<1>2. \A i \in 1 .. Len(q) : q[i] \in LeafNodes
  BY <1>1, ElementOfSeq
<1>3. \A i \in 1 .. Len(q) : \E m : q[i] = Leaf(m)
  BY <1>2 DEF LeafNodes
<1>4. Row(q, Len(q))
  BY <1>1 DEF Row
<1> QED BY <1>3, <1>4 DEF LeafRow

\* A batch has different leaves.
LEMMA FirstBatchIs ==
  ASSUME VerificationInv, NEW n \in Nat
  PROVE  /\ FirstBatch(n) \in Seq(LeafNodes) /\ Len(FirstBatch(n)) = n
         /\ DOMAIN FirstBatch(n) = 1 .. n
         /\ \A i, k \in 1 .. n : FirstBatch(n)[i] = FirstBatch(n)[k] => i = k
<1> DEFINE id == [i \in 1 .. n |-> IF i <= Len(posted) THEN posted[i] ELSE MaxMessages + i]
           b  == FirstBatch(n)
<1>1. Len(posted) \in Nat /\ DOMAIN posted = 1 .. Len(posted) /\ posted \in Seq(Messages)
  BY InvTypes
<1>2. \A i \in 1 .. Len(posted) : posted[i] \in 1 .. MaxMessages
  BY <1>1, ElementOfSeq DEF Messages
<1>3. \A i, k \in 1 .. Len(posted) : posted[i] = posted[k] => i = k
  BY <1>1 DEF VerificationInv, PrefixInv, IsInjective
<1>4. \A i \in 1 .. n : id[i] \in Nat
  BY <1>1, <1>2
<1>5. \A i, k \in 1 .. n : id[i] = id[k] => i = k
  BY <1>1, <1>2, <1>3
<1>6. b = [i \in 1 .. n |-> Leaf(id[i])]
  BY DEF FirstBatch
<1> HIDE DEF id, b
<1>7. \A i, k \in 1 .. n : b[i] = b[k] => i = k
  BY <1>5, <1>6, NodesDiffer
<1>8. b \in [1 .. n -> LeafNodes]
  BY <1>4, <1>6 DEF LeafNodes
<1>9. b \in Seq(LeafNodes) /\ Len(b) = n
  BY <1>8, LenProperties
<1> QED BY <1>7, <1>8, <1>9 DEF b

LEMMA BatchesHaveProofs ==
  ASSUME VerificationInv
  PROVE  ProofsVerify
<1> SUFFICES ASSUME NEW n \in (Len(posted) .. MaxLeaves) \ {0},
                    NEW i \in DOMAIN FirstBatch(n), NEW k \in DOMAIN FirstBatch(n)
             PROVE  VerifyProof(FirstBatch(n)[k], GetProof(FirstBatch(n), i - 1),
                                Root(FirstBatch(n))) <=> i = k
  BY DEF ProofsVerify, Trees
<1> DEFINE b == FirstBatch(n)
<1>0. n \in Nat \ {0}
  BY InvTypes
<1>1. /\ b \in Seq(LeafNodes) /\ Len(b) = n /\ DOMAIN b = 1 .. n
      /\ \A j, l \in 1 .. n : b[j] = b[l] => j = l
  BY <1>0, FirstBatchIs
<1> HIDE DEF b
<1>2. Row(b, n)
  BY <1>0, <1>1, RowOfLeaves DEF LeafRow
<1>3. i - 1 \in 0 .. n - 1 /\ i - 1 + 1 = i /\ i \in 1 .. n /\ k \in 1 .. n
  BY <1>0, <1>1 DEF b
<1>4. VerifyProof(b[k], GetProof(b, i - 1), Root(b)) <=> b[k] = b[i - 1 + 1]
  BY <1>2, <1>3, ProofFitsItsLeaf
<1> QED BY <1>1, <1>3, <1>4 DEF b

LEMMA RootsOfBatches ==
  ASSUME NEW b \in Seq(LeafNodes), Len(b) # 0,
         NEW s \in Seq(LeafNodes), Len(s) # 0, Root(s) = Root(b)
  PROVE  s = b
BY RowOfLeaves, RootIsInjective

LEMMA BatchesDiffer ==
  ASSUME VerificationInv
  PROVE  RootFixesLeaves
<1> SUFFICES ASSUME NEW n \in (Len(posted) .. MaxLeaves) \ {0}, NEW s \in Edits(FirstBatch(n))
             PROVE  Root(s) # Root(FirstBatch(n))
  BY DEF RootFixesLeaves, Trees
<1> DEFINE b == FirstBatch(n)
<1>0. n \in Nat \ {0}
  BY InvTypes
<1>1. /\ b \in Seq(LeafNodes) /\ Len(b) = n /\ DOMAIN b = 1 .. n
      /\ \A j, l \in 1 .. n : b[j] = b[l] => j = l
  BY <1>0, FirstBatchIs
<1>e. s \in Edits(b)
  OBVIOUS
<1> HIDE DEF b
<1>2. \A i \in 1 .. n : b[i] \in LeafNodes
  BY <1>1, ElementOfSeq
<1>3. s \in Seq(LeafNodes) /\ Len(s) # 0 /\ s # b
  <2>1. ASSUME NEW i \in 1 .. n, n # 1, s = RemoveAt(b, i)
        PROVE  s \in Seq(LeafNodes) /\ Len(s) # 0 /\ s # b
    <3> DEFINE u == SubSeq(b, 1, i - 1)
               w == SubSeq(b, i + 1, n)
    <3>1. u \in Seq(LeafNodes) /\ Len(u) = i - 1
      <4>1. /\ 1 \in Int /\ i - 1 \in Int /\ \A j \in 1 .. i - 1 : b[j] \in LeafNodes
            /\ (IF 1 <= i - 1 THEN i - 1 - 1 + 1 ELSE 0) = i - 1
        BY <1>0, <1>2
      <4> QED BY <1>1, <4>1, SubSeqProperties
    <3>2. w \in Seq(LeafNodes) /\ Len(w) = n - i
      <4>1. /\ n \in Int /\ i + 1 \in Int /\ \A j \in i + 1 .. n : b[j] \in LeafNodes
            /\ (IF i + 1 <= n THEN n - (i + 1) + 1 ELSE 0) = n - i
        BY <1>0, <1>2
      <4> QED BY <1>1, <4>1, SubSeqProperties
    <3>3. s = u \o w
      BY <1>1, <2>1 DEF RemoveAt
    <3> HIDE DEF u, w
    <3>4. s \in Seq(LeafNodes) /\ Len(s) = i - 1 + (n - i)
      BY <3>1, <3>2, <3>3, ConcatProperties
    <3>5. i - 1 + (n - i) = n - 1 /\ n - 1 # 0 /\ n - 1 # n
      BY <1>0, <2>1
    <3> QED BY <3>4, <3>5, <1>1
  <2>2. ASSUME NEW i \in 1 .. n, s = Append(b, b[i])
        PROVE  s \in Seq(LeafNodes) /\ Len(s) # 0 /\ s # b
    <3>1. s \in Seq(LeafNodes) /\ Len(s) = n + 1
      BY <1>1, <1>2, <2>2, AppendProperties
    <3>2. n + 1 # 0 /\ n + 1 # n
      BY <1>0
    <3> QED BY <1>1, <3>1, <3>2
  <2>3. ASSUME NEW i \in 1 .. n, NEW k \in 1 .. n, i < k, s = [b EXCEPT ![i] = b[k], ![k] = b[i]]
        PROVE  s \in Seq(LeafNodes) /\ Len(s) # 0 /\ s # b
    <3>1. b \in [1 .. n -> LeafNodes]
      BY <1>1, <1>2
    <3>2. s \in [1 .. n -> LeafNodes] /\ s[i] = b[k]
      BY <3>1, <2>3
    <3>3. s \in Seq(LeafNodes) /\ Len(s) = n
      BY <1>0, <3>2, LenProperties
    <3>4. b[k] # b[i]
      BY <1>1, <2>3
    <3> QED BY <1>0, <3>2, <3>3, <3>4
  <2>4. \/ \E i \in 1 .. n : n # 1 /\ s = RemoveAt(b, i)
        \/ \E i \in 1 .. n : s = Append(b, b[i])
        \/ \E p \in (1 .. n) \X (1 .. n) :
             p[1] < p[2] /\ s = [b EXCEPT ![p[1]] = b[p[2]], ![p[2]] = b[p[1]]]
    BY <1>1, <1>e DEF Edits
  <2>5. ASSUME NEW p \in (1 .. n) \X (1 .. n),
               p[1] < p[2], s = [b EXCEPT ![p[1]] = b[p[2]], ![p[2]] = b[p[1]]]
        PROVE  s \in Seq(LeafNodes) /\ Len(s) # 0 /\ s # b
    BY <2>3, <2>5
  <2> QED BY <2>1, <2>2, <2>4, <2>5
<1>4. b \in Seq(LeafNodes) /\ Len(b) # 0
  BY <1>0, <1>1
<1>5. Root(s) # Root(b)
  BY <1>3, <1>4, RootsOfBatches
<1> QED BY <1>5 DEF b

\* No batch is empty.
Batches == \A b \in DOMAIN batches : Len(batches[b]) # 0

LEMMA BuildKeepsBatches ==
  ASSUME VerificationInv, Batches, NEW n \in Messages, Build(n)
  PROVE  Batches'
<1>1. PICK k \in 0 .. Len(posted) : \A i \in DOMAIN posted : InBatch(i) <=> i <= k
  BY DEF VerificationInv, PrefixInv
<1>2. Batched = k
  BY <1>1, InvTypes, BatchedIs
<1> DEFINE s == SubSeq(posted, k + 1, k + n)
<1>3. k + n <= Len(posted) /\ batches' = Append(batches, s)
  BY <1>2 DEF Build
<1>4. k \in Nat /\ n \in Nat /\ 1 <= n /\ posted \in Seq(Messages)
  BY InvTypes DEF Messages
<1>5. s \in Seq(Messages) /\ Len(s) = n
  BY <1>3, <1>4, SliceProperties
<1> HIDE DEF s
<1>6. /\ DOMAIN batches' = 1 .. Len(batches) + 1 /\ batches'[Len(batches) + 1] = s
      /\ \A b \in 1 .. Len(batches) : batches'[b] = batches[b]
  BY <1>3, <1>5, InvTypes, ToSetOfAppended
<1>7. \A b \in DOMAIN batches' : b \in DOMAIN batches \/ b = Len(batches) + 1
  BY <1>6, InvTypes
<1>8. \A b \in DOMAIN batches' : Len(batches'[b]) # 0
  BY <1>4, <1>5, <1>6, <1>7, InvTypes DEF Batches
<1> QED BY <1>8 DEF Batches

LEMMA BatchesInvariant == VerificationSpec => []Batches
<1>1. VerificationInit => Batches
  <2>1. VerificationInit => DOMAIN batches = {}
    BY DEF VerificationInit
  <2> QED BY <2>1 DEF Batches
<1>2. VerificationInv /\ Batches /\ [VerificationNext]_verificationVars => Batches'
  <2> SUFFICES ASSUME VerificationInv, Batches, [VerificationNext]_verificationVars
               PROVE  Batches'
    OBVIOUS
  <2>1. (\E n \in Messages : Build(n)) \/ batches' = batches
    BY DEF VerificationNext, verificationVars, pipelineVars, Post, PageAsks, Mine, Confirm,
           LookUp, ClientAsks, SearchChunk, SearchEnds, SearchFails, SelectRoot, RecomputeRoot
  <2>2. CASE batches' = batches
    BY <2>2 DEF Batches
  <2> QED BY <2>1, <2>2, BuildKeepsBatches
<1> QED BY <1>1, <1>2, VerificationInvariant, PTL DEF VerificationSpec

\* Different batches have different roots.
OwnRoots == \A b, c \in DOMAIN batches : RootOf(b) = RootOf(c) => b = c

LEMMA RootsAreOwn ==
  ASSUME VerificationInv, Batches
  PROVE  OwnRoots
<1> SUFFICES ASSUME NEW b \in DOMAIN batches, NEW c \in DOMAIN batches, RootOf(b) = RootOf(c)
             PROVE  b = c
  BY DEF OwnRoots
<1>1. ASSUME NEW d \in DOMAIN batches
      PROVE  /\ LeavesOf(d) \in Seq(LeafNodes) /\ Len(LeavesOf(d)) = Len(batches[d])
             /\ Len(batches[d]) \in Nat \ {0} /\ DOMAIN batches[d] = 1 .. Len(batches[d])
             /\ \A i \in DOMAIN batches[d] : LeavesOf(d)[i] = Leaf(batches[d][i])
  <2> DEFINE n == Len(batches[d])
             q == LeavesOf(d)
  <2>1. batches[d] \in Seq(Messages)
    BY InvTypes, ElementOfSeq
  <2>2. n \in Nat \ {0} /\ DOMAIN batches[d] = 1 .. n /\ \A i \in 1 .. n : batches[d][i] \in Messages
    BY <2>1, LenProperties, ElementOfSeq DEF Batches
  <2>3. q = [i \in 1 .. n |-> Leaf(batches[d][i])]
    BY <2>2 DEF LeavesOf
  <2>4. \A i \in 1 .. n : Leaf(batches[d][i]) \in LeafNodes
    BY <2>2 DEF LeafNodes, Messages
  <2> HIDE DEF n, q
  <2>5. q \in [1 .. n -> LeafNodes]
    BY <2>3, <2>4
  <2>6. q \in Seq(LeafNodes) /\ Len(q) = n
    BY <2>2, <2>5, LenProperties
  <2> QED BY <2>2, <2>3, <2>6 DEF n, q
<1>2. LeavesOf(b) = LeavesOf(c)
  BY <1>1, RootsOfBatches DEF RootOf
<1>3. 1 \in DOMAIN batches[b] /\ 1 \in DOMAIN batches[c]
  BY <1>1, <1>2
<1>4. batches[b][1] = batches[c][1]
  BY <1>1, <1>2, <1>3, NodesDiffer
<1> QED BY <1>3, <1>4, InvTypes DEF OnePlace

-------------------------------------------------------------------------------
(* The theorems *)

\* Every row, block and answer is what it should be, and a leaf is in one batch, at one place:
\* a batch takes the next leaves by created_at, and these are no longer pending
\* (merkle_root_id, leaf_index).
THEOREM VerificationTypes == VerificationSpec => []VerificationTypeOK
<1>1. VerificationInv => VerificationTypeOK
  BY DEF VerificationInv
<1> QED BY <1>1, VerificationInvariant, PTL

\* The search of merkle-verify.js gives the first block that has the root, for any CHUNK and any
\* length of the chain and whatever is mined meanwhile; it says that there is none only if no
\* block up to the latest it read has it.
THEOREM SearchFindsExactly == VerificationSpec => []SearchIsExact
<1>1. VerificationInv => SearchIsExact
  BY DEF VerificationInv
<1> QED BY <1>1, VerificationInvariant, PTL

\* What verify-leaf says to a client is so: a message that it verifies is in a batch whose root
\* is in a block, and of a confirmed batch no message is denied (proof.js).
THEOREM AnswersAreRight == VerificationSpec => []AnswerIsRight
<1>1. VerificationInv => AnswerIsRight
  BY DEF VerificationInv
<1> QED BY <1>1, VerificationInvariant, PTL

\* getProof and verifyProof fit together, for a batch of any size: a proof verifies for the leaf it
\* was made for and for no other.  (ProofFitsItsLeaf says so of any tree whatever.)
THEOREM ProofsFitLeaves == VerificationSpec => []ProofsVerify
<1>1. VerificationInv => ProofsVerify
  BY BatchesHaveProofs
<1> QED BY <1>1, VerificationInvariant, PTL

\* No edit of a batch, of any size, keeps its root: an odd node that is promoted and not
\* duplicated (merkle-core.js:6) cannot be mistaken for a pair.  (RootIsInjective says so of any
\* two sequences of leaves.)
THEOREM RootsFixLeaves == VerificationSpec => []RootFixesLeaves
<1>1. VerificationInv => RootFixesLeaves
  BY BatchesDiffer
<1> QED BY <1>1, VerificationInvariant, PTL

\* No two batches have the same root: the INSERT of a root (build-worker.js:45) never meets the
\* UNIQUE constraint of merkle_roots.merkle_root (schema.sql:453-455), and a root that the page or a
\* client names is that of one batch.
THEOREM BatchesHaveTheirOwnRoots == VerificationSpec => []OwnRoots
<1>1. VerificationInv /\ Batches => OwnRoots
  BY RootsAreOwn
<1> QED BY <1>1, VerificationInvariant, BatchesInvariant, PTL
===============================================================================
