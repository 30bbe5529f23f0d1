------------------------------- MODULE Delivery -------------------------------
(***************************************************************************)
(* What the messenger promises its users: the server keeps a message for   *)
(* its recipient until that has stored it; only messages that were sent    *)
(* and accepted are stored; and a message that is stored decrypted stays   *)
(* so.  One that was given up may still be decrypted if it comes again.    *)
(***************************************************************************)
CONSTANT Users

VARIABLES
  sent,      \* messages that have been encrypted
  queued,    \* messages the server keeps for a user
  shown,     \* messages a user has stored decrypted
  lost       \* messages a user has given up, and stored as an envelope

mail == <<sent, queued, shown, lost>>

Init ==
  /\ sent = {}
  /\ queued = [u \in Users |-> {}]
  /\ shown = [u \in Users |-> {}] /\ lost = [u \in Users |-> {}]

Encrypt ==
  /\ sent \subseteq sent'
  /\ UNCHANGED <<queued, shown, lost>>

Accept(u) ==
  /\ \E w \in sent \ (queued[u] \cup shown[u] \cup lost[u]) :
       queued' = [queued EXCEPT ![u] = @ \cup {w}]
  /\ UNCHANGED <<sent, shown, lost>>

Show(u) ==
  /\ \E w \in queued[u] \cup lost[u] :
       /\ shown' = [shown EXCEPT ![u] = @ \cup {w}]
       /\ lost' = [lost EXCEPT ![u] = @ \ {w}]
  /\ UNCHANGED <<sent, queued>>

GiveUp(u) ==
  /\ \E w \in queued[u] \ shown[u] : lost' = [lost EXCEPT ![u] = @ \cup {w}]
  /\ UNCHANGED <<sent, queued, shown>>

Clear(u) ==
  /\ \E w \in shown[u] \cup lost[u] : queued' = [queued EXCEPT ![u] = @ \ {w}]
  /\ UNCHANGED <<sent, shown, lost>>

Next == Encrypt \/ \E u \in Users : Accept(u) \/ Show(u) \/ GiveUp(u) \/ Clear(u)

Spec == Init /\ [][Next]_mail
===============================================================================
