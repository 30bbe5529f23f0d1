----------------------------- MODULE AnchorLedger -----------------------------
(***************************************************************************)
(* What anchoring promises, with neither worker nor transactions: messages *)
(* are posted, the chain comes to hold digests that cover some of them,    *)
(* and a message is reported as stored on the blockchain only when the     *)
(* chain covers it, for good.                                              *)
(***************************************************************************)
CONSTANT Leaves

VARIABLES
  posted,    \* leaves of the messages the server has accepted
  stored,    \* leaves some digest on the chain covers
  anchored   \* leaves GET /messages/:id/verify reports as stored-on-blockchain

ledger == <<posted, stored, anchored>>

Init == posted = {} /\ stored = {} /\ anchored = {}

Post(l) ==
  /\ posted' = posted \cup {l}
  /\ UNCHANGED <<stored, anchored>>

Store(S) ==
  /\ S \subseteq posted
  /\ stored' = stored \cup S
  /\ UNCHANGED <<posted, anchored>>

Report(S) ==
  /\ S \subseteq stored
  /\ anchored' = anchored \cup S
  /\ UNCHANGED <<posted, stored>>

Next ==
  \/ \E l \in Leaves : Post(l)
  \/ \E S \in SUBSET Leaves : Store(S) \/ Report(S)

Spec == Init /\ [][Next]_ledger
===============================================================================
