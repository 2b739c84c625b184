----------------------------- MODULE JitSession -----------------------------
(***************************************************************************)
(* A protocol session (jitSession) of class QueueManager: one document of  *)
(* a page controls it and supplies the track to play and, while that one   *)
(* plays, the next.  The session may take over native playback: it empties *)
(* the user's playback queue into an account and gives back what it did    *)
(* not play.  Commands, callbacks of the player and posted steps all run   *)
(* on the main thread, each as one action.                                 *)
(*                                                                         *)
(* Only the owning document's commands are looked at, with the revision it *)
(* last read; a repeated request is answered from the log and changes      *)
(* nothing.  A posted step whose ticket a later command outdated returns   *)
(* at once, so outdating a ticket takes the step back.  Nobody edits the   *)
(* rows of the shadow playlist here (JitQueue does): an owner is all a row *)
(* keeps, none after m_rows.Reset.  Playback order, active playlist,       *)
(* positions and rechecks of failed attempts are left out.                 *)
(*                                                                         *)
(* The player is external.  It settles on what follows a track where       *)
(* NextMayBePreselected says it may, while the track still plays.          *)
(***************************************************************************)
EXTENDS JitShadowRows, JitSessionRecord, JitNativeLedger

CONSTANTS
  Window,     \* windows with a document that may own a session
  UserQueue,  \* the user's playback queue at the start: occurrences in order
  UserTrack,  \* the row of the source playlist that plays at the start, or NoRow
  MaxEntry,   \* bound: entries given to the shadow playlist
  MaxReload,  \* bound: reloads of a window
  Upsets,     \* the acts of the user that are considered, and failing writes
  MaxUpsets   \* bound: how many of them

ASSUME SessionAssumption ==
  /\ Upsets \subseteq {"stop", "play", "queue", "remove", "write"} \cup Change
  /\ MaxEntry \in Nat \ {0} /\ {MaxReload, MaxUpsets} \subseteq Nat
  /\ UserQueue \in Seq(Occurrence) /\ UserTrack \in SourceRow \cup {NoRow}

VARIABLES
  load,         \* the document loaded in each window
  \* QueueManager
  s,            \* m_protocol
  native,       \* m_native: the account
  ticket,       \* m_nativeTicket
  idle,         \* m_state is Idle
  currentEntry, nextEntry, lastEntry,
  rows,         \* the shadow playlist: the entry that owns each row
  \* the main thread
  posted,       \* steps posted with inMainThread that are not outdated
  resolving,    \* adds whose locations are being expanded
  \* the player
  item, phase,  \* the track it plays or opens
  picked,       \* what it settled on to follow
  list,         \* the playlist it plays from
  queue,        \* the native playback queue
  upsets

managerVars == <<idle, currentEntry, nextEntry>>
threadVars == <<posted, resolving>>
playerVars == <<item, phase, picked, list>>
vars == <<load, s, native, ticket, managerVars, lastEntry, rows, threadVars,
          playerVars, queue, upsets>>

Track(l, row, occurrence) == [list |-> l, row |-> row, of |-> occurrence]
NoTrack == Track("none", NoRow, NoRef)
Nothing == Track("end", NoRow, NoRef)  \* playback ends after the track
ShadowTrack(row) == Track("shadow", row, NoRef)
SourceTrack(row) == Track("source", row, NoRef)
QueuedTrack(o) == Track("other", NoRow, o)
QueuedRow(row, e) == Track("shadow", row, e)  \* an item of the native queue
NoTicket == [row |-> NoRow, entry |-> NoEntry, of |-> NoRef]

Init ==
  /\ load = [w \in Window |-> 0]
  /\ s = Unopened /\ native = NoContext /\ ticket = NoTicket
  /\ idle = TRUE /\ currentEntry = NoEntry /\ nextEntry = NoEntry /\ lastEntry = 0
  /\ rows = <<>> /\ posted = <<>> /\ resolving = {}
  /\ item = (IF UserTrack = NoRow THEN NoTrack ELSE SourceTrack(UserTrack))
  /\ phase = (IF UserTrack = NoRow THEN "stopped" ELSE "playing")
  /\ picked = NoTrack /\ list = "source"
  /\ queue = [i \in DOMAIN UserQueue |-> QueuedTrack(UserQueue[i])]
  /\ upsets = 0

Upset(kind) == kind \in Upsets /\ upsets < MaxUpsets /\ upsets' = upsets + 1

-----------------------------------------------------------------------------
Document(w) == [window |-> w, load |-> load[w]]
Alive(document) == document.window \in Window /\ document = Document(document.window)
Heard == Alive(s.owner)
Controlled == s.phase \notin {"none", "released"} /\ Heard

Step(kind, entry) == [kind |-> kind, entry |-> entry]
AttributionStep == Step("track", NoEntry)
RestoringStep == Step("restore", NoEntry)
Without(steps, kinds) == Selected(steps, {i \in DOMAIN steps : steps[i].kind \notin kinds})
AddKinds == {"current", "next"}
SessionKinds == AddKinds \cup {"track"}  \* what EndSession outdates

EndSession == posted' = Without(posted, SessionKinds) /\ resolving' = {}
\* Mutant of TakeNext: the add it replaces stays live
TakeNextKept(step) == posted' = Append(posted, step) /\ UNCHANGED resolving
TakeNext(step) ==
  /\ posted' = Append(Without(posted, {"next"}), step)
  /\ resolving' = {t \in resolving : t.kind # "next"}

Table(L) == [Reset EXCEPT !.rows = [i \in DOMAIN L |-> Row(L[i], "Single", "handle")]]
Ownerless(L) == [i \in DOMAIN L |-> NoEntry]
RowOf(L, entry) == FirstRowOf(Table(L), entry)

(* A track of a list whose rows first .. last are removed.                  *)
Shrunk(track, first, last) ==
  IF track.list # "shadow" \/ track.row < first THEN track
  ELSE [track EXCEPT !.row = IF @ <= last THEN NoRow ELSE @ - (last - first + 1)]
Unlocated(track) == Shrunk(track, 1, Len(rows))

ItemInShadow == item.list = "shadow" /\ item.row # NoRow

(* CheckNextWithdrawable, with NextMayBePreselected.                        *)
MayBePreselected == phase = "playing" /\ picked # NoTrack
NextWithdrawable == ~MayBePreselected \/ RowOf(rows, nextEntry) = NoRow

-----------------------------------------------------------------------------
(* The ticket: the next entry's row, put in the native queue to lead from   *)
(* the track that was taken over to the shadow playlist.                    *)
TicketPlaces ==
  {i \in DOMAIN queue : ticket # NoTicket /\ queue[i] = QueuedRow(ticket.row, ticket.entry)}
QueueWithdrawn ==
  IF TicketPlaces = {} THEN queue
  ELSE LET i == CHOOSE k \in TicketPlaces : \A j \in TicketPlaces : k <= j IN Cut(queue, i, i)
NativeWithdrawn ==
  IF ticket.of = NoRef THEN native
  ELSE IF TicketPlaces # {} THEN WithdrawQueued(native, ticket.of)
  ELSE Submit(native, ticket.of)
WithdrawNativeTicket == ticket' = NoTicket /\ queue' = QueueWithdrawn

MarkSubmitted(n, entry) ==
  LET ref == IF s.current.serial = entry THEN s.current.ref
             ELSE IF s.next.serial = entry THEN s.next.ref ELSE NoRef
  IN IF ref \in Occurrence THEN Submit(n, ref) ELSE n

(* ActivatePlaybackOnShadow.  It empties the native queue, which is put     *)
(* back: an item with coordinates is whatever is at them now.               *)
Requeued(q, L) ==
  LET there == Selected(q, {i \in DOMAIN q : q[i].list # "shadow" \/ q[i].row \in DOMAIN L})
  IN [i \in DOMAIN there |->
        IF there[i].list = "shadow" THEN QueuedRow(there[i].row, L[there[i].row]) ELSE there[i]]
Activate(row) ==
  /\ item' = ShadowTrack(row) /\ phase' = "opening"
  /\ picked' = NoTrack /\ list' = "shadow"

(* RestoreNativeContext, once the ticket is withdrawn: q is the queue then, *)
(* n the account.  Either it cannot begin, or it gives back the first       *)
(* "given" occurrences, all of them unless a list could not be written.     *)
GivenBack(n, o) ==
  IF ~SourceLeft(n) /\ Remaining(n)[Len(Remaining(n))] = o THEN Track("own", 1, o) ELSE QueuedTrack(o)
RestoredBefore(n) == Cardinality({o \in Occurrence : n.disposition[o] = "restored"})

RestoreChecked(n, q) ==
  IF n.status = "conflicted" THEN n
  ELSE IF n.changed # {} THEN Conflict(n)
  ELSE IF ~CanRestore(n) THEN n
  ELSE IF Len(q) # RestoredBefore(n) THEN Conflict(PlanRestore(n))
  ELSE PlanRestore(n)
Restorable(n, q) == Open(n) /\ CanRestore(n) /\ n.changed = {} /\ Len(q) = RestoredBefore(n)

Items(n) == [i \in DOMAIN Remaining(n) |-> GivenBack(n, Remaining(n)[i])]
SourceItems(n) == IF SourceLeft(n) THEN <<SourceTrack(n.next)>> ELSE <<>>

GiveBack(n, q) ==
  /\ native' = FinishRestore(Restored(PlanRestore(n), Len(Items(n))))
  /\ queue' = q \o Items(n) \o SourceItems(n)

(* The queue already holds the occurrence when the account refuses it.      *)
GiveBackRefused(n, q) ==
  /\ native' = Restored(PlanRestore(n), Givable(n))
  /\ queue' = q \o SubSeq(Items(n), 1, Givable(n) + 1)

GiveBackSome(n, q) ==
  \E given \in 0..Givable(n) :
    /\ given < Len(Items(n))
    /\ native' = Restored(PlanRestore(n), given)
    /\ queue' = q \o SubSeq(Items(n), 1, given)

PlayingFrom(n) == IF SourceLeft(n) THEN list' = "source" ELSE UNCHANGED list

(* Restores, or leaves the context as the checks find it.                   *)
RestoreNativeContext(n, q) ==
  \/ /\ Restorable(n, q) /\ PlayingFrom(n) /\ UNCHANGED upsets
     /\ IF Givable(n) = Len(Items(n)) THEN GiveBack(n, q) ELSE GiveBackRefused(n, q)
  \/ Restorable(n, q) /\ Upset("write") /\ GiveBackSome(n, q) /\ PlayingFrom(n)
  \/ /\ ~Restorable(n, q)
     /\ native' = (IF Open(n) THEN RestoreChecked(n, q) ELSE n)
     /\ queue' = q /\ UNCHANGED <<list, upsets>>

-----------------------------------------------------------------------------
(* Sessions and who controls them.                                         *)
Create(w) ==
  /\ s.phase \in {"none", "released"}
  /\ s' = NewSession(Document(w))
  /\ native' = NoContext /\ ticket' = NoTicket
  /\ UNCHANGED <<load, managerVars, lastEntry, rows, threadVars, playerVars, queue, upsets>>

\* Mutant of Told: the new owner is not sent the outstanding request
ToldNothing(t) == t
Told(t) == [t EXCEPT !.asked = t.needed]

(* claimControl: resume by the window whose document was reloaded, handover *)
(* by any.                                                                  *)
ClaimControl(w, mode) ==
  /\ s.phase \notin {"none", "released"}
  /\ mode = "resume" => w = s.owner.window /\ ~Heard
  /\ s' = Told([s EXCEPT !.owner = Document(w)])
  /\ native' = DiscardPrepared(native)
  /\ UNCHANGED <<load, ticket, managerVars, lastEntry, rows, threadVars, playerVars, queue, upsets>>

Reload(w) ==
  /\ load[w] < MaxReload
  /\ load' = [load EXCEPT ![w] = @ + 1]
  /\ UNCHANGED <<s, native, ticket, managerVars, lastEntry, rows, threadVars, playerVars, queue, upsets>>

-----------------------------------------------------------------------------
(* play and playNative.  StartCurrentEntry and StartNativeEntry take the    *)
(* serial and post the add.                                                 *)
StartEntry(e) ==
  /\ currentEntry' = e /\ nextEntry' = NoEntry /\ idle' = FALSE
  /\ posted' = Append(Without(posted, SessionKinds), Step("current", e)) /\ resolving' = {}

PlayEntry(ref) ==
  LET entry == Entry(lastEntry + 1, "add", "preparing", ref)
      t == ClearRequest(NoNext(EndCurrent(SupersedePending(s))))
  IN
  /\ Controlled /\ ~Recovering(native) /\ lastEntry < MaxEntry
  /\ lastEntry' = lastEntry + 1
  /\ s' = Begin(Attempt([t EXCEPT !.eoq = FALSE, !.phase = "active", !.started = TRUE], entry), entry)
  /\ native' = DiscardPrepared(NativeWithdrawn)
  /\ WithdrawNativeTicket
  /\ StartEntry(lastEntry')
  /\ UNCHANGED <<load, rows, playerVars, upsets>>

Play == PlayEntry(NoRef)

(* Rows of the source are read again: a changed source gives none.          *)
Supplies(ref) ==
  /\ native.status = "managed"
  /\ ref \in SourceRow => "lists" \notin native.changed

PlayNative(ref) == Supplies(ref) /\ PlayEntry(ref)

-----------------------------------------------------------------------------
(* setNext, setNativeNext, setNativeQueue.                                  *)
Withdraws(e) ==
  LET row == RowOf(rows, e) IN
  IF row = NoRow THEN UNCHANGED <<rows, item, picked>>
  ELSE /\ rows' = Cut(rows, row, row)
       /\ item' = Shrunk(item, row, row) /\ picked' = Shrunk(picked, row, row)

\* Mutant of ReplaceNext: the ticket of the old entry stays
ReplaceNextTicketKept(e) ==
  /\ Withdraws(nextEntry) /\ UNCHANGED <<ticket, queue>>
  /\ nextEntry' = e /\ idle' = FALSE /\ UNCHANGED currentEntry
  /\ IF e = NoEntry
     THEN posted' = Without(posted, {"next"}) /\ resolving' = {t \in resolving : t.kind # "next"}
     ELSE TakeNext(Step("next", e))
(* WithdrawNextEntry, then the steps posted for a new next entry.           *)
ReplaceNext(e) ==
  /\ WithdrawNativeTicket
  /\ Withdraws(nextEntry)
  /\ nextEntry' = e /\ idle' = FALSE /\ UNCHANGED currentEntry
  /\ IF e = NoEntry
     THEN posted' = Without(posted, {"next"}) /\ resolving' = {t \in resolving : t.kind # "next"}
     ELSE TakeNext(Step("next", e))

MaySetNext == Controlled /\ ~Recovering(native) /\ s.phase = "active" /\ HasCurrent(s) /\ NextWithdrawable
NextTaken == ClearRequest(NoNext(FinishOperation(s, s.next)))

NextEntry(ref) ==
  LET entry == Entry(lastEntry + 1, "add", "preparing", ref) IN
  /\ MaySetNext /\ lastEntry < MaxEntry
  /\ lastEntry' = lastEntry + 1
  /\ s' = Begin([NextTaken EXCEPT !.next = entry, !.eoq = FALSE], entry)
  /\ native' = NativeWithdrawn
  /\ ReplaceNext(lastEntry')
  /\ UNCHANGED <<load, phase, list, upsets>>

SetNext == NextEntry(NoRef)
SetNativeNext(ref) == Supplies(ref) /\ NextEntry(ref)

WithdrawNext(endOfQueue) ==
  /\ MaySetNext
  /\ s' = RequestNext([NextTaken EXCEPT !.eoq = endOfQueue], Heard)
  /\ native' = NativeWithdrawn
  /\ ReplaceNext(NoEntry)
  /\ UNCHANGED <<load, lastEntry, phase, list, upsets>>

(* The next entry may be one of the occurrences that are not retained; it   *)
(* is then withdrawn first.                                                 *)
NextDropped(retained) == HasNext(s) /\ Editable(native, s.next.ref) /\ s.next.ref \notin Kept(retained)

SetNativeQueue(retained) ==
  /\ Controlled /\ CanEdit(native, retained)
  /\ IF NextDropped(retained)
     THEN /\ NextWithdrawable
          /\ native' = CommitEdit(NativeWithdrawn, retained)
          /\ s' = RequestNext(NextTaken, Heard)
          /\ ReplaceNext(NoEntry)
     ELSE /\ Withdrawals(native, retained) = {}
          /\ native' = CommitEdit(native, retained)
          /\ s' = RequestNext(s, Heard)
          /\ UNCHANGED <<ticket, queue, rows, item, picked, managerVars, threadVars>>
  /\ UNCHANGED <<load, lastEntry, phase, list, upsets>>

-----------------------------------------------------------------------------
\* Mutant of SkippedTo: the attempt that is left gets no attemptFinished
SkippedToQuietly(entry) == ClearRequest(NoNext(Attempt(s, entry)))
SkippedTo(entry) == ClearRequest(NoNext(Attempt(EndCurrent(s), entry)))

Skip ==
  LET row == RowOf(rows, s.next.serial)
      entry == [s.next EXCEPT !.op = "skip", !.status = "preparing"]
  IN
  /\ Controlled /\ ~Recovering(native)
  /\ s.phase = "active" /\ s.current.status = "playing" /\ HasNext(s) /\ s.ready /\ row # NoRow
  /\ s' = Submitted(Begin(SkippedTo(entry), entry), rows[row])
  /\ native' = MarkSubmitted(NativeWithdrawn, entry.serial)
  /\ ticket' = NoTicket /\ queue' = Requeued(QueueWithdrawn, rows)
  /\ Activate(row)
  /\ UNCHANGED <<load, managerVars, lastEntry, rows, threadVars, upsets>>

(* StopInternal(true) and ClearInternal.                                    *)
ClearInternal ==
  /\ rows' = <<>> /\ currentEntry' = NoEntry /\ nextEntry' = NoEntry /\ idle' = TRUE
  /\ EndSession
Silence == item' = NoTrack /\ phase' = "stopped" /\ picked' = NoTrack
ClearInternalKept ==
  /\ ClearInternal
  /\ item' = Unlocated(item) /\ picked' = Unlocated(picked) /\ UNCHANGED phase

Stop ==
  LET t == ClearRequest(NoNext(EndCurrent(SupersedePending(s)))) IN
  /\ Controlled /\ ~Recovering(native)
  /\ s' = [t EXCEPT !.phase = "stopped"]
  /\ IF s.started /\ s.phase = "active" THEN ClearInternal /\ Silence
     ELSE IF s.started THEN ClearInternalKept
     ELSE UNCHANGED <<managerVars, rows, threadVars, item, phase, picked>>
  /\ ticket' = NoTicket
  /\ RestoreNativeContext(DiscardPrepared(NativeWithdrawn), QueueWithdrawn)
  /\ UNCHANGED <<load, lastEntry>>

(* A context that cannot be given back keeps the session.                   *)
Release(disposition) ==
  LET restored == ~Open(native) \/ native'.status \in {"restored", "detached"} IN
  /\ Controlled
  /\ disposition = "detach" => native.status \notin {"none", "prepared"}
  /\ Open(native) /\ disposition = "restore" => NextWithdrawable
  /\ IF ~Open(native)
     THEN native' = DiscardPrepared(native) /\ UNCHANGED <<ticket, queue, list, upsets>>
     ELSE /\ ticket' = NoTicket
          /\ IF disposition = "detach"
             THEN native' = Detach(NativeWithdrawn) /\ queue' = QueueWithdrawn /\ UNCHANGED <<list, upsets>>
             ELSE RestoreNativeContext(NativeWithdrawn, QueueWithdrawn)
  /\ s' = (IF restored THEN [Leave(SupersedePending(s)) EXCEPT !.phase = "released"] ELSE s)
  /\ IF restored /\ s.started /\ s.phase # "legacy"
     THEN ClearInternalKept
     ELSE UNCHANGED <<managerVars, rows, threadVars, item, phase, picked>>
  /\ UNCHANGED <<load, lastEntry>>

-----------------------------------------------------------------------------
(* Calls of the legacy jitQueue; playNow and clear stand for all of them.   *)
\* Mutant of TakenOver: the controller loses the session with the context open
TakenOverReleased(t) ==
  IF ~Schedules(t) THEN t ELSE [EndCurrent(ClearRequest(SupersedePending(t))) EXCEPT !.phase = "released"]
TakenOver(t) ==
  IF ~Schedules(t) THEN t
  ELSE IF Open(native) THEN [Leave(t) EXCEPT !.phase = "legacy"]
  ELSE [EndCurrent(ClearRequest(SupersedePending(t))) EXCEPT !.phase = "released"]

LegacyTakeover ==
  /\ s' = TakenOver(s)
  /\ native' = (IF ~Schedules(s) THEN NativeWithdrawn
                ELSE IF Open(native) THEN Conflict(NativeWithdrawn)
                ELSE DiscardPrepared(NativeWithdrawn))
  /\ WithdrawNativeTicket

LegacyPlayNow ==
  /\ lastEntry < MaxEntry
  /\ lastEntry' = lastEntry + 1
  /\ LegacyTakeover
  /\ StartEntry(lastEntry')
  /\ UNCHANGED <<load, rows, playerVars, upsets>>

LegacyClear ==
  /\ LegacyTakeover
  /\ ClearInternalKept
  /\ UNCHANGED <<load, lastEntry, list, upsets>>

-----------------------------------------------------------------------------
(* prepareAdoption and adoptNative.  What is no longer as in the snapshot   *)
(* can only be prepared again, so an outdated snapshot is discarded.        *)
Unplayed == s.phase = "active" /\ ~s.started /\ ~HasCurrent(s) /\ ~HasNext(s) /\ idle
Playing(track) == phase = "playing" /\ item = track

PrepareAdoption ==
  /\ Controlled /\ Unplayed /\ rows = <<>>
  /\ \A i \in DOMAIN queue : queue[i].of \in Occurrence
  /\ native.status \in {"none", "prepared", "restored", "detached"}
  /\ \E row \in SourceRow : Playing(SourceTrack(row)) /\ native' = Prepared(row, [i \in DOMAIN queue |-> queue[i].of])
  /\ UNCHANGED <<load, s, ticket, managerVars, lastEntry, rows, threadVars, playerVars, queue, upsets>>

AdoptNative ==
  LET entry == [Entry(0, "none", "playing", native.current) EXCEPT !.submitted = TRUE] IN
  /\ Controlled /\ Unplayed /\ native.status = "prepared" /\ Playing(SourceTrack(native.current))
  /\ native' = Adopt(native)
  /\ s' = RequestNext(Attempt([s EXCEPT !.started = TRUE], entry), Heard)
  /\ rows' = <<>> /\ queue' = <<>> /\ list' = "shadow"
  /\ currentEntry' = NoEntry /\ nextEntry' = NoEntry /\ idle' = FALSE
  /\ EndSession
  /\ UNCHANGED <<load, ticket, lastEntry, item, phase, picked, upsets>>

-----------------------------------------------------------------------------
(* HandleResolvedItems and ReportSessionAdd, for an add that is still live. *)
(* L, it and pk are the rows and the player's tracks as the step finds them *)
\* Mutant of FailAdd: the page is not told that the location gave nothing
FailAddSilent(e, L, it, pk) ==
  /\ rows' = L /\ item' = it /\ picked' = pk
  /\ UNCHANGED <<s, native, ticket, queue, phase, list>>
FailAdd(e, L, it, pk) ==
  LET failed == {entry \in {s.current, s.next} : OpOf(entry) \in s.pending /\ entry.serial = e}
      refs == {entry.ref : entry \in failed} \cap Occurrence
  IN
  /\ s' = FailOperation(s, e, Heard)
  /\ native' = (IF native.status = "none" \/ refs = {} THEN native
                ELSE Indeterminate(native, CHOOSE o \in refs : TRUE))
  /\ rows' = L /\ item' = it /\ picked' = pk
  /\ UNCHANGED <<ticket, queue, phase, list>>

LandCurrent(e, L) ==
  LET at == CurrentInsertPosition(Table(L), nextEntry, Len(L)) IN
  /\ rows' = Splice(L, at, <<e>>)
  /\ Activate(at + 1)
  /\ s' = Submitted(s, e)
  /\ native' = MarkSubmitted(native, e)
  /\ queue' = Requeued(queue, rows') /\ UNCHANGED ticket

(* RemoveBufferedNextFromShadow: what follows the current entry goes.       *)
KeptRows(L) == IF LastRowOf(Table(L), currentEntry) = NoRow THEN Len(L) ELSE LastRowOf(Table(L), currentEntry)

(* QueueNativeTicket: only a track outside the shadow playlist needs it.    *)
QueuesTicket == native.status = "managed" /\ phase # "stopped" /\ ~ItemInShadow
QueueTicket(row) ==
  /\ ticket' = [row |-> row, entry |-> s.next.serial,
                 of |-> IF s.next.ref \in Occurrence THEN s.next.ref ELSE NoRef]
  /\ queue' = Append(QueueWithdrawn, QueuedRow(row, s.next.serial))
  /\ native' = (IF s.next.ref \in Occurrence THEN Queue(NativeWithdrawn, s.next.ref) ELSE NativeWithdrawn)

LandNext(e, L, it, pk) ==
  LET keep == KeptRows(L)
      row == keep + 1
      reported == [entry |-> e, op |-> "add"] \in s.pending /\ s.phase = "active" /\ s.next.serial = e
  IN
  /\ rows' = Append(SubSeq(L, 1, keep), e)
  /\ s' = IF reported THEN FinishOperation([s EXCEPT !.ready = TRUE], s.next) ELSE s
  /\ IF reported /\ s.current.status = "ended"
     THEN /\ Activate(row)
          /\ native' = MarkSubmitted(native, e)
          /\ queue' = Requeued(queue, rows') /\ UNCHANGED ticket
     ELSE /\ item' = Shrunk(it, row, Len(L)) /\ picked' = Shrunk(pk, row, Len(L))
          /\ IF reported /\ QueuesTicket THEN QueueTicket(row) ELSE UNCHANGED <<ticket, queue, native>>
          /\ UNCHANGED <<phase, list>>

Land(step, L, it, pk) ==
  \/ FailAdd(step.entry, L, it, pk)
  \/ step.kind = "current" /\ LandCurrent(step.entry, L)
  \/ step.kind = "next" /\ LandNext(step.entry, L, it, pk)

(* The posted half of an add; the current slot clears the playlist.  A      *)
(* local file, a direct url and a native reference land at once; other      *)
(* locations are expanded first.                                            *)
IsNative(e) == \E entry \in {s.current, s.next} : entry.serial = e /\ entry.ref # NoRef

AddToPlaylist ==
  LET step == Head(posted)
      clears == step.kind = "current"
      L == IF clears THEN <<>> ELSE rows
      it == IF clears THEN Unlocated(item) ELSE item
      pk == IF clears THEN Unlocated(picked) ELSE picked
  IN
  /\ posted # <<>> /\ step.kind \in AddKinds
  /\ posted' = Tail(posted)
  /\ \/ Land(step, L, it, pk) /\ UNCHANGED resolving
     \/ /\ ~IsNative(step.entry)
        /\ resolving' = resolving \cup {step}
        /\ rows' = L /\ item' = it /\ picked' = pk
        /\ UNCHANGED <<s, native, ticket, queue, phase, list>>
  /\ UNCHANGED <<load, managerVars, lastEntry, upsets>>

Resolved ==
  /\ \E step \in resolving :
       resolving' = resolving \ {step} /\ Land(step, rows, item, picked)
  /\ UNCHANGED <<load, managerVars, lastEntry, posted, upsets>>

-----------------------------------------------------------------------------
(* AttributeNewTrack, in the order of the code.                             *)
ReleaseSession ==
  IF idle THEN UNCHANGED <<s, native, idle, rows>> /\ posted' = Tail(posted) /\ UNCHANGED resolving
  ELSE /\ s' = External(s)
       /\ native' = (IF s.phase = "active" /\ HasCurrent(s) /\ native.status = "managed"
                     THEN Conflict(native) ELSE native)
       /\ idle' = TRUE /\ rows' = Ownerless(rows)
       /\ EndSession

TracksRow(attribution) ==
  LET current == IF attribution = "Advance" THEN nextEntry ELSE currentEntry IN
  /\ IF attribution = "Advance"
     THEN currentEntry' = nextEntry /\ nextEntry' = NoEntry /\ EndSession
     ELSE UNCHANGED <<currentEntry, nextEntry, resolving>> /\ posted' = Tail(posted)
  /\ idle' = FALSE
  /\ rows' = SubSeq(rows, item.row, Len(rows))  \* RemovePlayedRows
  /\ item' = Shrunk(item, 1, item.row - 1) /\ picked' = Shrunk(picked, 1, item.row - 1)
  /\ ticket' = NoTicket
  /\ IF Follows(s, current)
     THEN LET t == TrackStarted(s, current, attribution = "Advance", Heard) IN
          s' = t /\ native' = Started(native, t.current.ref)
     ELSE UNCHANGED <<s, native>>

AttributeNewTrack ==
  /\ posted # <<>> /\ Head(posted).kind = "track"
  /\ IF phase # "playing"
     THEN posted' = Tail(posted) /\ UNCHANGED <<s, native, ticket, managerVars, rows, resolving, item, picked>>
     ELSE LET attribution == Attribute(Table(rows), IF ItemInShadow THEN item.row ELSE NoRow,
                                       currentEntry, nextEntry, idle)
          IN IF attribution = "Release"
             THEN ReleaseSession /\ UNCHANGED <<ticket, currentEntry, nextEntry, item, picked>>
             ELSE TracksRow(attribution)
  /\ UNCHANGED <<load, lastEntry, phase, list, queue, upsets>>

(* The step a user's stop posts: future occurrences go back.                *)
RestoreStep ==
  /\ posted # <<>> /\ Head(posted).kind = "restore"
  /\ posted' = Tail(posted)
  /\ IF s.phase \in {"stopped", "legacy"} /\ Open(native)
     THEN ticket' = NoTicket /\ RestoreNativeContext(NativeWithdrawn, QueueWithdrawn)
     ELSE UNCHANGED <<ticket, native, queue, list, upsets>>
  /\ UNCHANGED <<load, s, managerVars, lastEntry, rows, resolving, item, phase, picked>>

-----------------------------------------------------------------------------
(* The player.  Any start, stop or change of its queue outdates a snapshot. *)
Outdated == native' = DiscardPrepared(native)

OnPlaybackNewTrack ==
  /\ phase' = "playing" /\ picked' = NoTrack
  /\ posted' = Append(Without(posted, {"track"}), AttributionStep)
  /\ Outdated
  /\ UNCHANGED <<load, s, ticket, managerVars, lastEntry, rows, resolving, queue, upsets>>

Opens == phase = "opening" /\ OnPlaybackNewTrack /\ UNCHANGED <<item, list>>

(* Once settled, what follows starts when the track ends.                   *)
NextTrack ==
  /\ phase = "playing" /\ picked \notin {NoTrack, Nothing}
  /\ item' = picked /\ list' = (IF picked.list = "other" THEN list ELSE picked.list)
  /\ OnPlaybackNewTrack

(* The head of the native queue, or the track after this one in its list;   *)
(* any track of the list when the player cannot tell where it is.           *)
TracksOf(l) ==
  CASE l = "source" -> {SourceTrack(r) : r \in SourceRow}
    [] l = "shadow" -> {ShadowTrack(r) : r \in DOMAIN rows}
    [] OTHER -> {}
After(track) == [track EXCEPT !.row = @ + 1]
Successors ==
  IF item.list # list \/ item.row = NoRow THEN TracksOf(list) \cup {Nothing}
  ELSE IF After(item) \in TracksOf(list) THEN {After(item)} ELSE {Nothing}

(* An item whose row has gone from its coordinates is played without any.   *)
Taken(t) ==
  IF t.list # "shadow" THEN t
  ELSE IF t.row \in DOMAIN rows /\ rows[t.row] = t.of THEN ShadowTrack(t.row)
  ELSE QueuedTrack(NoRef)

Settles ==
  /\ phase = "playing" /\ picked = NoTrack
  /\ IF queue # <<>>
     THEN picked' = Taken(Head(queue)) /\ queue' = Tail(queue)
     ELSE picked' \in Successors /\ queue' = queue
  /\ Outdated
  /\ UNCHANGED <<load, s, ticket, managerVars, lastEntry, rows, threadVars, item, phase, list, upsets>>

(* on_playback_stop(eof): what was to follow, if anything, did not open.    *)
PlaybackEnds ==
  /\ phase = "opening" \/ MayBePreselected
  /\ Silence
  /\ s' = PlaybackEnded(s, Heard)
  /\ UNCHANGED <<load, native, ticket, managerVars, lastEntry, rows, threadVars, list, queue, upsets>>

(* on_playback_stop(user).                                                  *)
UserStops ==
  /\ phase # "stopped" /\ Upset("stop")
  /\ Silence
  /\ IF Schedules(s) /\ HasCurrent(s) /\ s.started
     THEN IF s.phase = "active"
          THEN /\ s' = UserStopped(s) /\ idle' = TRUE
               /\ posted' = Append(Without(posted, SessionKinds), RestoringStep) /\ resolving' = {}
          ELSE UNCHANGED <<s, idle, threadVars>>
     ELSE UNCHANGED s /\ IF idle THEN UNCHANGED <<idle, threadVars>> ELSE idle' = TRUE /\ EndSession
  /\ Outdated
  /\ UNCHANGED <<load, ticket, currentEntry, nextEntry, lastEntry, rows, list, queue>>

(* The user starts a track of a playlist, which empties the native queue;   *)
(* puts one into that queue; or changes a setting or a list the account     *)
(* relies on.                                                               *)
UserPlays ==
  /\ Upset("play")
  /\ \E track \in TracksOf("source") \cup TracksOf("shadow") : item' = track /\ list' = track.list
  /\ phase' = "opening" /\ picked' = NoTrack /\ queue' = <<>>
  /\ Outdated
  /\ UNCHANGED <<load, s, ticket, managerVars, lastEntry, rows, threadVars>>

UserQueues ==
  /\ Upset("queue")
  /\ queue' = Append(queue, QueuedTrack(NoRef))
  /\ Outdated
  /\ UNCHANGED <<load, s, ticket, managerVars, lastEntry, rows, threadVars, playerVars>>

UserChanges(change) ==
  /\ Upset(change)
  /\ native' = (CASE native.status = "prepared" -> NoContext
                  [] native.status \in {"managed", "restoring"} -> [native EXCEPT !.changed = @ \cup {change}]
                  [] OTHER -> native)  \* it makes no difference
  /\ UNCHANGED <<load, s, ticket, managerVars, lastEntry, rows, threadVars, playerVars, queue>>

(* on_playlist_remove, which nothing but another component may cause.       *)
OnShadowPlaylistRemoved ==
  /\ Upset("remove")
  /\ s' = External(s)
  /\ native' = (IF s.phase = "active" /\ HasCurrent(s) /\ native.status = "managed"
                THEN Conflict(native) ELSE native)
  /\ idle' = TRUE /\ rows' = <<>>
  /\ item' = Unlocated(item) /\ picked' = Unlocated(picked)
  /\ queue' = [i \in DOMAIN queue |-> IF queue[i].list = "shadow" THEN QueuedTrack(NoRef) ELSE queue[i]]
  /\ EndSession
  /\ UNCHANGED <<load, ticket, currentEntry, nextEntry, lastEntry, phase, list>>

-----------------------------------------------------------------------------
MainThread == AddToPlaylist \/ AttributeNewTrack \/ RestoreStep

Retained == UNION {[1..n -> Occurrence] : n \in 0..Cardinality(Occurrence)}

Page ==
  \/ \E w \in Window : Create(w) \/ Reload(w) \/ \E mode \in {"resume", "handover"} : ClaimControl(w, mode)
  \/ Play \/ SetNext \/ Skip \/ Stop
  \/ \E endOfQueue \in BOOLEAN : WithdrawNext(endOfQueue)
  \/ \E disposition \in {"restore", "detach"} : Release(disposition)
  \/ LegacyPlayNow \/ LegacyClear
  \/ PrepareAdoption \/ AdoptNative
  \/ \E ref \in Occurrence \cup SourceRow : PlayNative(ref) \/ SetNativeNext(ref)
  \/ \E retained \in Retained : SetNativeQueue(retained)

Player == Opens \/ Settles \/ NextTrack \/ PlaybackEnds

User ==
  \/ UserStops \/ UserPlays \/ UserQueues \/ OnShadowPlaylistRemoved
  \/ \E change \in Change : UserChanges(change)

Next == MainThread \/ Resolved \/ Page \/ Player \/ User

(* As long as something is posted, being resolved, to be opened or played   *)
(* to its end, one of these goes on; which of them is left open.            *)
Progress == MainThread \/ Resolved \/ Player
Fairness == WF_vars(Progress)

Spec == Init /\ [][Next]_vars /\ Fairness

-----------------------------------------------------------------------------
Operation == [entry : 1..MaxEntry, op : {"add", "skip"}]
Ref == {NoRef} \cup Occurrence \cup SourceRow
SessionEntry ==
  [serial : NoSerial..MaxEntry, op : {"none", "add", "skip"},
   status : {"preparing", "playing", "ended"}, submitted : BOOLEAN, ref : Ref]
SessionRecord ==
  [phase : Phase, owner : [window : Window \cup {"none"}, load : 0..MaxReload],
   current : SessionEntry, next : SessionEntry, ready : BOOLEAN, eoq : BOOLEAN,
   started : BOOLEAN, needed : BOOLEAN, asked : BOOLEAN, open : {0, 1}, pending : SUBSET Operation]
Account ==
  [status : Status, current : SourceRow, next : 1..(SourceCount + 1), order : Seq(Occurrence),
   changed : SUBSET Change, disposition : [Occurrence -> Disposition]]
Waiting == [kind : SessionKinds \cup {"restore"}, entry : 0..MaxEntry]
Tracks ==
  [list : {"none", "end", "source", "shadow", "other", "own"}, row : Nat,
   of : {NoRef} \cup Occurrence \cup 1..MaxEntry]
Located(track) == track.list = "shadow" => track.row <= Len(rows)

TypeOK ==
  /\ load \in [Window -> 0..MaxReload]
  /\ s \in SessionRecord /\ native \in Account
  /\ ticket \in [row : Nat, entry : 0..MaxEntry, of : {NoRef} \cup Occurrence]
  /\ idle \in BOOLEAN
  /\ lastEntry \in 0..MaxEntry /\ {currentEntry, nextEntry} \subseteq 0..lastEntry
  /\ rows \in Seq(0..lastEntry)
  /\ posted \in Seq(Waiting) /\ resolving \subseteq Waiting
  /\ item \in Tracks /\ picked \in Tracks /\ Located(item) /\ Located(picked)
  /\ phase \in {"stopped", "opening", "playing"} /\ (phase = "stopped" <=> item = NoTrack)
  /\ list \in {"source", "shadow", "other", "own"} /\ queue \in Seq(Tracks)
  /\ upsets \in 0..MaxUpsets

(* An operation without an outcome is on its way to one: its entry is still *)
(* being added, or was handed to the player, which is not stopped.  Else    *)
(* the page would wait forever (FailSessionOperation, ReportSessionAdd,     *)
(* SessionPlaybackStopped).                                                 *)
BeingAdded(kind, e) == Step(kind, e) \in {posted[i] : i \in DOMAIN posted} \cup resolving
OperationsCarried ==
  \A o \in s.pending :
    \/ o = OpOf(s.next) /\ ~s.ready /\ BeingAdded("next", o.entry)
    \/ /\ o = OpOf(s.current) /\ s.current.status = "preparing"
       /\ BeingAdded("current", o.entry) \/ (s.current.submitted /\ phase # "stopped")

(* A session whose attempt has started and that has nothing to follow it    *)
(* waits for an answer to needNext, and the document in control was sent    *)
(* the request, whichever document that is by now (RequestNext,             *)
(* SessionClaim).                                                           *)
SupplyAsked ==
  s.phase = "active" /\ HasCurrent(s) /\ s.current.status # "preparing" /\ ~HasNext(s) /\ ~s.eoq
    => s.needed /\ (Heard => s.asked)

(* When the player settles on what follows the session's track, a next      *)
(* entry that was reported ready is what it settles on - from the shadow    *)
(* playlist, or from a track that was taken over by way of the ticket -     *)
(* unless another item of the native queue goes first: the user's, or one   *)
(* whose coordinates another row has come to.                               *)
NextIsReady ==
  /\ s.phase = "active" /\ s.current.status = "playing" /\ HasNext(s) /\ s.ready
  /\ ItemInShadow \/ native.status = "managed"
  /\ AttributionStep \notin {posted[i] : i \in DOMAIN posted}
AnotherGoesFirst == queue # <<>> /\ Head(queue).of # s.next.serial
NextIsPicked ==
  [][phase = "playing" /\ picked = NoTrack /\ phase' = "playing" /\ picked' # NoTrack /\ NextIsReady
       => AnotherGoesFirst \/ picked' = ShadowTrack(RowOf(rows, s.next.serial))]_vars

(* The session as the page sees it keeps SessionContract.                   *)
OpenAttempt ==
  IF s.open # (IF s.current.status = "ended" THEN 0 ELSE 1) THEN "miscounted"
  ELSE IF s.current.status = "ended" THEN "closed" ELSE s.current.status
Contract == INSTANCE SessionContract WITH
  phase <- IF s.phase = "legacy" THEN "stopped" ELSE s.phase,
  attempt <- OpenAttempt, pending <- s.pending
ContractSpec == Contract!Spec

(* Every operation gets its outcome: no entry is left with one pending.     *)
Awaits(e) == \E o \in s.pending : o.entry = e
EveryOperationSettles == \A e \in 1..MaxEntry : Awaits(e) ~> ~Awaits(e)

(* The row put in the native queue is that of the session's next entry,     *)
(* buffered and ready: whoever withdraws, replaces or follows the entry     *)
(* takes care of the ticket (WithdrawNativeTicket, SessionTrackStarted).    *)
TicketLeadsToNext ==
  ticket # NoTicket /\ native.status = "managed" /\ s.phase = "active" =>
    ticket.entry = s.next.serial /\ s.ready /\ RowOf(rows, ticket.entry) # NoRow

(* Nobody loses the way to the native playback that was taken over: a       *)
(* session is released only with its context given back or given up, also   *)
(* when the legacy jitQueue takes over (LegacyTakeover, SessionRelease).    *)
ReleasedIsGivenBack == s.phase = "released" => ~Open(native)
=============================================================================
