-------------------------- MODULE SessionContract ---------------------------
(***************************************************************************)
(* What a protocol session promises the page (docs/vitepress/api/          *)
(* jit-session.md): an operation that is accepted stays pending until it   *)
(* gets its one outcome; one attempt is open at a time, and it is reported *)
(* finished before another begins; a session that is stopped, left or      *)
(* released leaves nothing pending and no attempt open; a released one     *)
(* does not come back.                                                     *)
(***************************************************************************)
CONSTANT Operation

VARIABLES
  phase,    \* "none", "active", "stopped" or "released"
  attempt,  \* the open attempt: "closed", "preparing" or "playing"
  pending   \* operations without an outcome

vars == <<phase, attempt, pending>>

Init == phase = "none" /\ attempt = "closed" /\ pending = {}

Create ==
  /\ phase \in {"none", "released"} /\ phase' = "active"
  /\ attempt' = "closed" /\ pending' = {}

(* A new operation may supersede pending ones and begin an attempt.        *)
Accept(o) ==
  /\ phase \in {"active", "stopped"} /\ phase' = "active"
  /\ o \notin pending /\ o \in pending' /\ pending' \subseteq pending \cup {o}
  /\ attempt' \in {attempt, "preparing"}

(* Outcomes arrive; the attempt starts to play, gives way to the next that *)
(* plays, or ends.                                                         *)
Progress ==
  /\ phase = "active" /\ UNCHANGED phase
  /\ pending' \subseteq pending
  /\ attempt' \in {attempt, "playing", "closed"}

\* the user plays a row the stopped session left
Resume ==
  /\ phase = "stopped" /\ phase' = "active"
  /\ attempt' = "playing" /\ UNCHANGED pending

Leave ==
  /\ phase \in {"active", "stopped"} /\ phase' \in {"stopped", "released"}
  /\ attempt' = "closed" /\ pending' = {}

Next == Create \/ (\E o \in Operation : Accept(o)) \/ Progress \/ Resume \/ Leave

Spec == Init /\ [][Next]_vars
=============================================================================
