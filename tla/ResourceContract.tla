-------------------------- MODULE ResourceContract --------------------------
(***************************************************************************)
(* What a web resource request whose answer is deferred is owed: the       *)
(* deferral is completed once, with a response if the document that asked  *)
(* is still displayed and without one if it is not.                        *)
(***************************************************************************)
CONSTANT Request

VARIABLES
  state,    \* of each request: "idle", "open", "answered" or "dropped"
  current   \* the requests, made or to be made, of a document still displayed

contractVars == <<state, current>>

Init == state = [r \in Request |-> "idle"] /\ current = Request

Stay(r) == state'[r] = state[r]
Ask(r) == state[r] = "idle" /\ r \in current /\ state'[r] = "open"
Answer(r) == state[r] \in {"idle", "open"} /\ r \in current /\ state'[r] = "answered"
Drop(r) == state[r] = "open" /\ r \notin current /\ state'[r] = "dropped"

Next ==
  /\ current' \subseteq current
  /\ DOMAIN state' = Request
  /\ \A r \in Request : Stay(r) \/ Ask(r) \/ Answer(r) \/ Drop(r)

Spec == Init /\ [][Next]_contractVars
=============================================================================
