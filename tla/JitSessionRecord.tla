-------------------------- MODULE JitSessionRecord --------------------------
(***************************************************************************)
(* The record of one protocol session (jit_session_runtime::Session) and   *)
(* what the facts of the playback do to it.  Pure operators: the caller    *)
(* holds QueueManager's lock.                                              *)
(*                                                                         *)
(* An attempt is known by its status; the ids are fresh, so only the       *)
(* number of attempts begun and not yet reported with attemptFinished is   *)
(* counted.  An operation is the entry it is for and whether it added that *)
(* entry or skipped to it; finished operations are forgotten.  The         *)
(* revision, the log of requests, titles, positions and reasons are left   *)
(* out.                                                                    *)
(***************************************************************************)
EXTENDS Integers, FiniteSets

NoSerial == -1  \* of an entry that is not there; the adopted track's is 0
NoRef == 0      \* an entry that is a resource address
NoDocument == [window |-> "none", load |-> 0]

Entry(serial, op, status, ref) ==
  [serial |-> serial, op |-> op, status |-> status, submitted |-> FALSE, ref |-> ref]
Nobody == Entry(NoSerial, "none", "ended", NoRef)

Unopened ==
  [phase |-> "none", owner |-> NoDocument, current |-> Nobody, next |-> Nobody,
   ready |-> FALSE, eoq |-> FALSE, started |-> FALSE, needed |-> FALSE,
   asked |-> FALSE,  \* the owner was sent the needNext of this wait
   open |-> 0,       \* attempts begun without an attemptFinished
   pending |-> {}]
NewSession(document) == [Unopened EXCEPT !.phase = "active", !.owner = document]

(* phase "legacy" is the phase "stopped" with the reason legacyTakeover.    *)
Phase == {"none", "active", "stopped", "legacy", "released"}
Schedules(s) == s.phase \in {"active", "stopped"}  \* ProtocolSchedules
HasCurrent(s) == s.current.serial # NoSerial
HasNext(s) == s.next.serial # NoSerial
OpOf(entry) == [entry |-> entry.serial, op |-> entry.op]

-----------------------------------------------------------------------------
Begin(s, entry) == [s EXCEPT !.pending = @ \cup {OpOf(entry)}]
FinishOperation(s, entry) == [s EXCEPT !.pending = @ \ {OpOf(entry)}]
SupersedePending(s) == [s EXCEPT !.pending = {}]

\* Mutant of EndCurrent: an attempt that never started is not reported
EndCurrentPlayed(s) ==
  IF s.current.status # "playing" THEN s
  ELSE [s EXCEPT !.current.status = "ended", !.open = @ - 1]
EndCurrent(s) ==
  IF ~HasCurrent(s) \/ s.current.status = "ended" THEN s
  ELSE [s EXCEPT !.current.status = "ended", !.open = @ - 1]

Attempt(s, entry) == [s EXCEPT !.current = entry, !.open = @ + 1]
NoNext(s) == [s EXCEPT !.next = Nobody, !.ready = FALSE]
ClearRequest(s) == [s EXCEPT !.needed = FALSE, !.asked = FALSE]

(* An event for a document that is gone is dropped.                        *)
RequestNext(s, heard) ==
  IF s.phase # "active" \/ ~HasCurrent(s) \/ HasNext(s) \/ s.eoq \/ s.needed THEN s
  ELSE [s EXCEPT !.needed = TRUE, !.asked = heard]

Submitted(s, serial) ==
  IF s.phase = "active" /\ s.current.serial = serial
  THEN [s EXCEPT !.current.submitted = TRUE] ELSE s

-----------------------------------------------------------------------------
(* Session halves of the callbacks.                                        *)
FailOperation(s, serial, heard) ==
  LET failed == {o \in s.pending : o.entry = serial}
      t == [s EXCEPT !.pending = @ \ failed]
      u == IF OpOf(s.current) \in failed THEN EndCurrent(t) ELSE t
      v == IF OpOf(s.next) \in failed THEN ClearRequest(NoNext(u)) ELSE u
  IN IF failed = {} THEN s ELSE RequestNext(v, heard)

(* The entry whose row plays is current, and is the session's current or   *)
(* its next.                                                               *)
Follows(s, current) ==
  Schedules(s) /\ HasCurrent(s) /\ current \in {s.current.serial, s.next.serial}

TrackStarted(s, current, advanced, heard) ==
  LET shifted ==
        IF s.current.serial # current
        THEN Attempt([EndCurrent(FinishOperation(s, s.current)) EXCEPT !.next = Nobody], s.next)
        ELSE IF s.current.status # "preparing"
             THEN Attempt(EndCurrent(s), [s.current EXCEPT !.op = "none"])
             ELSE s
      playing == [shifted EXCEPT !.phase = "active", !.current.status = "playing",
                                 !.current.submitted = TRUE,
                                 !.ready = @ /\ ~advanced]
  IN RequestNext(FinishOperation(ClearRequest(playing), playing.current), heard)

Leave(s) == ClearRequest(NoNext(SupersedePending(EndCurrent(s))))

\* SessionPlaybackExternal
External(s) ==
  IF s.phase # "active" \/ ~HasCurrent(s) THEN s ELSE [Leave(s) EXCEPT !.phase = "stopped"]

\* Mutant of PlaybackEnded: a track that did not open keeps its operation
PlaybackEndedPending(s, heard) ==
  IF s.phase # "active" \/ ~s.current.submitted \/ s.current.status = "ended" THEN s
  ELSE RequestNext(EndCurrent(s), heard)
\* SessionPlaybackStopped, stop_reason_eof
PlaybackEnded(s, heard) ==
  IF s.phase # "active" \/ ~s.current.submitted \/ s.current.status = "ended" THEN s
  ELSE RequestNext(EndCurrent(IF s.current.status = "preparing"
                              THEN FinishOperation(s, s.current) ELSE s), heard)

\* SessionPlaybackStopped, stop_reason_user
UserStopped(s) ==
  LET t == SupersedePending(EndCurrent(s))
      u == IF t.ready THEN t ELSE NoNext(t)
  IN [ClearRequest(u) EXCEPT !.phase = "stopped"]
=============================================================================
