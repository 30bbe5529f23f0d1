--------------------------------- MODULE Calls ---------------------------------
(***************************************************************************)
(* What the client of the crypto service relies on: one call at a time,    *)
(* which is answered with its own result, or fails; each call takes effect *)
(* at most once, and in the order of the calls, though one that has failed *)
(* may take effect later.                                                  *)
(***************************************************************************)
EXTENDS Naturals

CONSTANT MaxCalls

VARIABLES
  state,    \* of each call
  acted     \* calls that took effect

callVars == <<state, acted>>

Init == state = [i \in 1..MaxCalls |-> "none"] /\ acted = {}

Open(i) ==
  /\ \A j \in 1..MaxCalls : state[j] \in IF j < i THEN {"answered", "failed"} ELSE {"none"}
  /\ \E s \in {"open", "failed"} : state' = [state EXCEPT ![i] = s]
  /\ UNCHANGED acted

Act(i) ==
  /\ state[i] # "none" /\ \A j \in acted : j < i
  /\ acted' = acted \cup {i}
  /\ UNCHANGED state

Return(i) ==
  /\ state[i] = "open" /\ i \in acted
  /\ state' = [state EXCEPT ![i] = "answered"]
  /\ UNCHANGED acted

Fail(i) ==
  /\ state[i] = "open"
  /\ state' = [state EXCEPT ![i] = "failed"]
  /\ UNCHANGED acted

Next == \E i \in 1..MaxCalls : Open(i) \/ Act(i) \/ Return(i) \/ Fail(i)

Spec == Init /\ [][Next]_callVars
===============================================================================
