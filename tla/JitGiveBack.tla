---------------------------- MODULE JitGiveBack ----------------------------
(***************************************************************************)
(* What giving back means to the user: JitSession with a history of which  *)
(* occurrences were heard.  The account (JitNativeLedger) counts what the  *)
(* session attributed; the history counts what the player began, so that   *)
(* the two can disagree.                                                   *)
(***************************************************************************)
EXTENDS JitSession

VARIABLE
  begun  \* history: occurrences whose track began, and whether that was attributed

giveBackVars == <<vars, begun>>

GiveBackInit == Init /\ begun = [o \in Occurrence |-> "no"]

(* The occurrence a row of the shadow playlist stands for, by its entry.    *)
OccurrenceOf(row) ==
  {entry.ref : entry \in {x \in {s.current, s.next} : x.serial = rows[row]}} \cap Occurrence
Plays(track, o) == track.list = "shadow" /\ track.row \in DOMAIN rows /\ o \in OccurrenceOf(track.row)

(* on_playback_new_track is seen by the step it posts, if that runs before  *)
(* the track is stopped or followed by another one.                         *)
Begins(o) == Plays(item', o) /\ (Opens \/ NextTrack)
Noticed(o) == phase = "playing" /\ Plays(item, o) /\ AttributeNewTrack

(* The history is that of one context: it ends when that is given back or   *)
(* given up.  What a session does without one is JitSession's own matter.   *)
Closed == native.status \in {"restored", "detached"}

GiveBackNext ==
  /\ ~Closed
  /\ Next
  /\ begun' = [o \in Occurrence |->
       CASE native'.status \notin {"managed", "restoring"} -> "no"
         [] Begins(o) -> "unseen"
         [] Noticed(o) -> "seen"
         [] OTHER -> begun[o]]

GiveBackSpec == GiveBackInit /\ [][GiveBackNext]_giveBackVars

-----------------------------------------------------------------------------
(* A context that is given back leaves in the native queue the occurrences *)
(* the page kept and the player never began, once each and in their order, *)
(* then the row the source goes on with, and nothing else: however they    *)
(* were supplied, skipped, replaced and withdrawn before, and in however   *)
(* many attempts (RestoreNativeContext).  It is asked where the player has *)
(* taken nothing between two attempts and no start went unattributed: a    *)
(* track that stops or is followed before its posted step runs stays kept. *)
NotBegun == Selected(native.order, {i \in DOMAIN native.order : begun[native.order[i]] = "no"})
QueuedOccurrences(q) == [i \in DOMAIN q |-> q[i].of]
Undisturbed ==
  /\ \A o \in Occurrence : begun[o] # "unseen"
  /\ QueuedOccurrences(QueueWithdrawn) = SubSeq(NotBegun, 1, Len(QueueWithdrawn))
GivenBackInOrder ==
  [][native.status # "restored" /\ native'.status = "restored" /\ Undisturbed =>
       QueuedOccurrences(queue') = NotBegun \o (IF SourceLeft(native) THEN <<NoRef>> ELSE <<>>)]_giveBackVars
=============================================================================
