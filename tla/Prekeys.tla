------------------------------- MODULE Prekeys -------------------------------
(***************************************************************************)
(* One-time prekeys (core/keys.py) and what PQXDH does with them           *)
(* (core/pqxdh.py).  They come in pairs, one key for each leg of PQXDH,    *)
(* kept in two lists with the same numbers.  Pair n of a user is the only  *)
(* one with that number, so the number stands for its keys.                *)
(***************************************************************************)
EXTENDS Naturals, Sequences, SequencesExt

CONSTANT OpkCount   \* OPK_COUNT

ASSUME OpkCountAssumption == OpkCount \in Nat \ {0}

\* The numbers of the pairs of a bundle: x25519_opks and kem_opks.
Bundle == [x25519 : Seq(Nat), kem : Seq(Nat)]

Numbers(b) == ToSet(b.x25519) \cup ToSet(b.kem)
IsEmptyBundle(b) == b.x25519 = <<>> /\ b.kem = <<>>

\* _assert_opk_lists_valid: the same length, and the same number at every index.
ListsValid(b) ==
  /\ Len(b.x25519) = Len(b.kem)
  /\ \A i \in DOMAIN b.x25519 : b.x25519[i] = b.kem[i]

\* (Mutation: the first number is skipped.)
Batch_Late(count, start) == [i \in 1 .. count |-> start + i]

\* generate_opk_pairs: numbers from start on.
Batch(count, start) == [i \in 1 .. count |-> start + i - 1]
Pairs(count, start) == [x25519 |-> Batch(count, start), kem |-> Batch(count, start)]

\* (Mutation: the number after the last one of the list, whatever the list still has.)
Highest_Count(b) == Len(b.x25519)

\* The highest number in either list.
Highest(b) == CHOOSE n \in Numbers(b) : \A m \in Numbers(b) : m <= n

\* replenish_one_time_prekeys: what is to be added to the lists, which must be valid.
\* Nothing in the client calls it yet.
Replenished(b) ==
  IF IsEmptyBundle(b) THEN Pairs(OpkCount, 1)
  ELSE IF Len(b.x25519) >= OpkCount THEN Pairs(0, 1)
  ELSE Pairs(OpkCount - Len(b.x25519), Highest(b) + 1)

\* _consume_opk: the entry with the number n, of which a list has at most one.
Drop(l, n) == IF n \in ToSet(l) THEN RemoveAt(l, CHOOSE i \in DOMAIN l : l[i] = n) ELSE l
Without(b, n) == [x25519 |-> Drop(b.x25519, n), kem |-> Drop(b.kem, n)]

-------------------------------------------------------------------------------
(* PQXDH *)

\* An answer of GET /keys: whose bundle it is, and at most one pair, by its number.
NoPair == 0
Offers(owners) == [of : owners, x25519 : Seq(Nat), kem : Seq(Nat)]

\* _parse_remote_opks.
Parses(offer) == ListsValid([x25519 |-> offer.x25519, kem |-> offer.kem])

\* initiate: the identities and keys that its secret is made of, with an ephemeral key of
\* its own.  Without a pair, the KEM leg is made for the identity key.
Initiate(ephemeral, offer) ==
  [ephemeral |-> ephemeral, with |-> offer.of,
   pair |-> IF offer.x25519 = <<>> THEN NoPair ELSE offer.x25519[1]]

\* respond needs both secrets of the pair.
CanRespond(b, init) ==
  init.pair # NoPair => init.pair \in ToSet(b.x25519) \cap ToSet(b.kem)

\* The secret the responder computes from its own keys.
Respond(owner, init) == [init EXCEPT !.with = owner]
===============================================================================
