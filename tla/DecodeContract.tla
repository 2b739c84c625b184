--------------------------- MODULE DecodeContract ---------------------------
(***************************************************************************)
(* What a decode request promises its page, whichever host runs it: a      *)
(* request that answered `pending' is told exactly one terminal event,     *)
(* unless its audience (the popup, the document, the process) is gone, and *)
(* then it is dropped in silence.                                          *)
(***************************************************************************)
EXTENDS Sequences

CONSTANT Task, Event

VARIABLES
  pending,   \* requests that answered `pending' and were told nothing yet
  audience,  \* requests whose page may still be told
  told       \* the terminal events each request was sent, in order

contractVars == <<pending, audience, told>>

Init ==
  /\ pending = {}
  /\ audience = Task
  /\ told = [t \in Task |-> <<>>]

(* Moves of one request; several requests may move in one step.            *)
Stay(t) == (t \in pending' <=> t \in pending) /\ told'[t] = told[t]
Ask(t) ==
  /\ t \in audience \ pending /\ t \in pending'
  /\ told[t] = <<>> /\ told'[t] = <<>>
Tell(t) ==
  /\ t \in pending \cap audience
  /\ t \notin pending'
  /\ \E e \in Event : told'[t] = Append(told[t], e)
Forget(t) ==
  /\ t \in pending /\ t \notin pending'
  /\ t \notin audience'
  /\ told'[t] = told[t]

Next ==
  /\ audience' \subseteq audience
  /\ pending' \subseteq Task
  /\ told' \in [Task -> Seq(Event)]
  /\ \A t \in Task : Stay(t) \/ Ask(t) \/ Tell(t) \/ Forget(t)

Spec == Init /\ [][Next]_contractVars
=============================================================================
