------------------------------ MODULE JitQueue ------------------------------
(***************************************************************************)
(* The legacy jitQueue of class QueueManager: a page gives the host the    *)
(* track to play and, when asked, the one after it; the host keeps both in *)
(* a shadow playlist of the player.  Everything runs on the main thread:   *)
(* commands of the page, callbacks of the player, and the steps posted     *)
(* with fb2k::inMainThread or finished by process_locations_async.  Each   *)
(* is one action.                                                          *)
(*                                                                         *)
(* A protocol session (jitSession) never exists here, so LegacyTakeover    *)
(* and the Session... calls do nothing.  The caller's trackId is           *)
(* represented by the serial of its entry: both are set and cleared        *)
(* together.  The user's active playlist is saved and restored where the   *)
(* playback order is, and left out; so are titles and the events no        *)
(* property is about.  The player is external; what it plays after a track *)
(* it can no longer locate is left open.                                   *)
(***************************************************************************)
EXTENDS JitShadowRows, FiniteSets

CONSTANTS
  Resource,   \* handles the urls of a page resolve to
  Foreign,    \* handles the user drops into the shadow playlist
  UserOrder,  \* the user's playback order, not Default
  MaxEntry,   \* bound: commands that take an entry serial
  MaxPosted,  \* bound: steps waiting for the main thread when the player acts
  MaxRows,    \* bound: rows of one entry
  MaxEdits    \* bound: edits the user makes of the shadow playlist

ASSUME JitAssumption ==
  /\ Resource # {}
  /\ UserOrder \in Nat \ {0}
  /\ {MaxEntry, MaxPosted, MaxRows} \subseteq Nat \ {0} /\ MaxEdits \in Nat

VARIABLES
  \* QueueManager
  state, table, currentEntry, nextEntry, lastEntry, needNextRequested,
  hasShadow,    \* m_shadowPlaylistIndex is valid
  savedOrder,
  session, next, track,  \* jit_shadow::Generations
  \* the main thread
  posted,       \* steps posted with inMainThread, first in first out
  resolving,    \* adds whose locations are being expanded
  \* the player
  shadow,       \* the playlist's rows: handle, and the entry that added it
  item, phase,  \* the item it plays or opens
  edits,        \* edits the user has made of the shadow playlist
  order,
  \* the page
  reported      \* trackId of the jitQueue:trackChanged the last step sent

commandVars == <<currentEntry, nextEntry, lastEntry, needNextRequested>>
contextVars == <<savedOrder, order>>
genVars == <<session, next, track>>
threadVars == <<posted, resolving>>
playerVars == <<shadow, item, phase>>
vars == <<edits, state, table, hasShadow, reported, commandVars, contextVars, genVars, threadVars, playerVars>>

Entry == 1..MaxEntry
Handle == Resource \cup Foreign
State == {"Idle", "Active", "WaitingNext", "Exhausted"}
Playlist == {"user", "shadow"}
Unsaved == -1

Added(e, handles) == [i \in DOMAIN handles |-> [handle |-> handles[i], of |-> e]]
Handles(L) == [i \in DOMAIN L |-> L[i].handle]
NoItem == [list |-> "none", row |-> NoRow, handle |-> "none"]
UserItem == [list |-> "user", row |-> NoRow, handle |-> "user"]
ShadowItem(L, r) == [list |-> "shadow", row |-> r, handle |-> L[r].handle]

Init ==
  /\ state = "Idle" /\ table = Reset
  /\ currentEntry = NoEntry /\ nextEntry = NoEntry /\ lastEntry = 0
  /\ needNextRequested = FALSE
  /\ hasShadow = FALSE
  /\ savedOrder = Unsaved
  /\ session = 0 /\ next = 0 /\ track = 0
  /\ posted = <<>> /\ resolving = {}
  /\ shadow = <<>> /\ item = NoItem /\ phase = "stopped" /\ edits = 0
  /\ order = UserOrder
  /\ reported = NoEntry

-----------------------------------------------------------------------------
(* Generations.  The counters are compared for equality only, so a new     *)
(* value is any that no ticket still waiting carries.                      *)
IsAdd(t) == t.kind = "add"
Posted == {posted[i] : i \in DOMAIN posted}
Adds == {t \in Posted : IsAdd(t)} \cup resolving
Fresh(used) == CHOOSE n \in 0..Cardinality(used) : n \notin used

Add(e, slot, s, n) == [kind |-> "add", entry |-> e, slot |-> slot, session |-> s, next |-> n]
Attribution(tr, h) == [kind |-> "attribute", track |-> tr, handle |-> h]
RequestStep == [kind |-> "request"]

EndSession ==
  /\ session' = Fresh({t.session : t \in Adds})
  /\ track' = Fresh({t.track : t \in {u \in Posted : u.kind = "attribute"}})
  /\ UNCHANGED next
\* Mutant of IsLive: a replaced current entry is not told apart
IsLiveAsCurrent(t) == t.slot = "Current" \/ (t.session = session /\ t.next = next)
IsLive(t) == t.session = session /\ (t.slot = "Current" \/ t.next = next)
FreshNext == Fresh({t.next : t \in Adds})
FreshTrack == Fresh({t.track : t \in {u \in Posted : u.kind = "attribute"}})

-----------------------------------------------------------------------------
(* The playing item while rows are removed.                                *)
Shrunk(it, first, last) ==
  IF it.list # "shadow" \/ it.row < first THEN it
  ELSE [it EXCEPT !.row = IF @ <= last THEN NoRow ELSE @ - (last - first + 1)]
Unlocated == IF item.list = "shadow" THEN [item EXCEPT !.row = NoRow] ELSE item

PlayingRow == IF hasShadow /\ item.list = "shadow" THEN item.row ELSE NoRow

(* ActivatePlaybackOnShadow; the native playback queue is put back as it   *)
(* was.                                                                    *)
ActivatePlaybackOnShadow(L, row) ==
  /\ item' = ShadowItem(L, row) /\ phase' = "opening"

(* The context is saved only by the command that leaves Idle.              *)
SaveUserContext ==
  /\ savedOrder' = IF state = "Idle" THEN order ELSE savedOrder
  /\ order' = 0

RestoreUserContext ==
  /\ order' = IF savedOrder # Unsaved THEN savedOrder ELSE order
  /\ savedOrder' = Unsaved

KeepWait == UNCHANGED needNextRequested  \* Mutant of NewWait: the request of the last wait is not forgotten
NewWait == needNextRequested' = FALSE

-----------------------------------------------------------------------------
(* Commands of the page.                                                   *)
PlayNow ==
  /\ lastEntry < MaxEntry
  /\ lastEntry' = lastEntry + 1
  /\ SaveUserContext
  /\ EndSession
  /\ currentEntry' = lastEntry' /\ nextEntry' = NoEntry
  /\ NewWait
  /\ state' = "Active"
  /\ hasShadow' = TRUE
  /\ posted' = Append(posted, Add(lastEntry', "Current", session', 0))
  /\ UNCHANGED <<table, resolving, playerVars>>

EnqueueNext ==
  /\ state \in {"Active", "WaitingNext"}
  /\ lastEntry < MaxEntry
  /\ lastEntry' = lastEntry + 1
  /\ next' = FreshNext /\ UNCHANGED <<session, track>>
  /\ nextEntry' = lastEntry' /\ UNCHANGED currentEntry
  /\ NewWait
  /\ state' = "Active"
  /\ hasShadow' = TRUE
  /\ posted' = Append(posted, Add(lastEntry', "Next", session, next'))
  /\ UNCHANGED <<table, resolving, contextVars, playerVars>>

(* playback_control::next() when the following shadow row is not known:    *)
(* the head of the native queue, or nothing more to play.                  *)
PlayerNext ==
  /\ \/ item' = item /\ phase' = phase
     \/ item' = UserItem /\ phase' = "opening"

Skip ==
  /\ state # "Idle"
  /\ IF PlayingRow # NoRow /\ PlayingRow < Len(shadow)
     THEN ActivatePlaybackOnShadow(shadow, PlayingRow + 1) /\ state' = "Active"
     ELSE PlayerNext /\ UNCHANGED state
  /\ UNCHANGED <<table, hasShadow, commandVars, contextVars,
                 genVars, threadVars, shadow>>

(* ClearInternal, apart from the context it restores.                      *)
Emptied(it) ==
  /\ shadow' = IF hasShadow THEN <<>> ELSE shadow
  /\ item' = IF hasShadow /\ it.list = "shadow" THEN [it EXCEPT !.row = NoRow] ELSE it
  /\ table' = Reset
  /\ currentEntry' = NoEntry /\ nextEntry' = NoEntry
  /\ NewWait

Stop(clearBuffer) ==
  /\ EndSession
  /\ RestoreUserContext
  /\ state' = "Idle" /\ phase' = "stopped"
  /\ IF clearBuffer THEN Emptied(NoItem)
     ELSE item' = NoItem /\ UNCHANGED <<shadow, table, currentEntry, nextEntry, needNextRequested>>
  /\ UNCHANGED <<lastEntry, hasShadow, threadVars>>

Clear ==
  /\ EndSession
  /\ RestoreUserContext
  /\ state' = "Idle"
  /\ Emptied(item)
  /\ UNCHANGED <<lastEntry, hasShadow, threadVars, phase>>

NotifyEmpty ==
  /\ state' = "Exhausted"
  /\ UNCHANGED <<table, hasShadow, commandVars, contextVars, genVars, threadVars, playerVars>>

(* PreloadBatch.  A batch that does not start playback is appended to the  *)
(* session as it is; one that does makes every row a row of the batch.     *)
AlreadyPlaying(replace) == state = "Active" /\ ~replace

PreloadBatch(handles, startIndex, replace) ==
  LET old == IF replace THEN <<>> ELSE shadow
      checked == Verify(IF replace THEN Reset ELSE table, Handles(old))
      e == lastEntry + 1
      new == old \o Added(e, handles)
  IN
  /\ lastEntry < MaxEntry
  /\ lastEntry' = e
  /\ SaveUserContext
  /\ hasShadow' = TRUE
  /\ shadow' = new
  /\ IF AlreadyPlaying(replace)
     THEN /\ table' = Insert(checked, Len(old), e, "Batch", handles)
          /\ UNCHANGED <<state, currentEntry, nextEntry, needNextRequested, genVars, item, phase>>
     ELSE /\ table' = ResetAsBatch(Handles(new), e)
          /\ EndSession
          /\ ActivatePlaybackOnShadow(new, Len(old) + startIndex)
          /\ state' = "Active"
          /\ currentEntry' = NoEntry /\ nextEntry' = NoEntry
          /\ NewWait
  /\ UNCHANGED threadVars

-----------------------------------------------------------------------------
(* HandleResolvedItems, for an add that is still live.  A next entry takes *)
(* the place of what follows the current one.                              *)
LastCurrentRow == LastRowOf(Verify(table, Handles(shadow)), currentEntry)
Replaces(t) == t.slot = "Next" /\ LastCurrentRow # NoRow /\ LastCurrentRow < Len(shadow)

Keep(t) == IF Replaces(t) THEN LastCurrentRow ELSE Len(shadow)
Kept(t) == SubSeq(shadow, 1, Keep(t))
KeptTable(t) ==
  LET shrunk == Remove(Verify(table, Handles(shadow)), Keep(t) + 1, Len(shadow))
  IN  Verify(IF Replaces(t) THEN shrunk ELSE table, Handles(Kept(t)))
Position(t) ==
  IF t.slot = "Current" THEN CurrentInsertPosition(KeptTable(t), nextEntry, Keep(t)) ELSE Keep(t)

Insertion(t, handles) ==
  LET new == Splice(Kept(t), Position(t), Added(t.entry, handles)) IN
  /\ shadow' = new
  /\ table' = Insert(KeptTable(t), Position(t), t.entry, "Single", handles)
  /\ IF t.slot = "Current"
     THEN /\ ActivatePlaybackOnShadow(new, Position(t) + 1)
          /\ state' = IF state = "Idle" THEN state ELSE "Active"
     ELSE /\ item' = Shrunk(item, Keep(t) + 1, Len(shadow))
          /\ UNCHANGED <<phase, state>>

HandleResolvedItems(t, handles) ==
  /\ IF IsLive(t) /\ handles # <<>> /\ hasShadow
     THEN Insertion(t, handles)
     ELSE UNCHANGED <<state, table, playerVars>>  \* dropped, or jitQueue:error
  /\ UNCHANGED <<hasShadow, commandVars, contextVars, genVars>>

(* What an add's location resolves to: nothing, one resource, or several.  *)
Resolution == UNION {[1..n -> Resource] : n \in 0..MaxRows}

(* The posted half of AddUrlToPlaylistAsync and AddLocalFileToPlaylistAsync*)
(* in the order of the code: the current slot clears the playlist, then    *)
(* the location resolves at once or later.                                 *)
AddToPlaylist(t) ==
  /\ posted # <<>> /\ t = Head(posted) /\ IsAdd(t)
  /\ posted' = Tail(posted)
  /\ IF ~IsLive(t) \/ ~hasShadow
     THEN UNCHANGED <<table, shadow, item, resolving>>
     ELSE /\ resolving' = resolving \cup {t}
          /\ IF t.slot = "Current"
             THEN shadow' = <<>> /\ table' = Reset /\ item' = Unlocated
             ELSE UNCHANGED <<shadow, table, item>>
  /\ UNCHANGED <<state, hasShadow, commandVars, contextVars, genVars, phase>>

Resolved(t, handles) ==
  /\ t \in resolving
  /\ resolving' = resolving \ {t}
  /\ HandleResolvedItems(t, handles)
  /\ UNCHANGED posted

(* The page is not told of an aborted expansion.                           *)
ResolutionAborted(t) ==
  /\ t \in resolving
  /\ resolving' = resolving \ {t}
  /\ UNCHANGED <<state, table, hasShadow, commandVars, contextVars, genVars, posted, playerVars>>

-----------------------------------------------------------------------------
(* ReleaseSession: playback left the session.                              *)
ReleaseSession(checked) ==
  /\ IF state = "Idle"
     THEN table' = checked /\ UNCHANGED <<state, contextVars, genVars>>
     ELSE /\ state' = "Idle" /\ table' = Reset
          /\ RestoreUserContext
          /\ EndSession
  /\ reported' = NoEntry
  /\ UNCHANGED <<shadow, item, currentEntry, nextEntry, needNextRequested>>

(* RemovePlayedRows: the playing row becomes the first, unless the rows    *)
(* can no longer be attributed.                                            *)
RemovePlayedRows(checked, row) ==
  IF row > 1 /\ ~checked.stale
  THEN /\ shadow' = SubSeq(shadow, row, Len(shadow))
       /\ table' = Remove(checked, 1, row - 1)
       /\ item' = Shrunk(item, 1, row - 1)
  ELSE table' = checked /\ UNCHANGED <<shadow, item>>

Advance == EndSession /\ currentEntry' = nextEntry /\ nextEntry' = NoEntry

(* The session goes on with the playing row.  jitQueue:trackChanged names  *)
(* the current entry; with no next entry jitQueue:needNext follows.        *)
StayInSession(attribution, checked) ==
  /\ IF attribution = "Advance"
     THEN Advance
     ELSE UNCHANGED <<genVars, currentEntry, nextEntry>>
  /\ NewWait
  /\ RemovePlayedRows(checked, PlayingRow)
  /\ reported' = currentEntry'
  /\ state' = IF nextEntry' = NoEntry THEN "WaitingNext" ELSE "Active"
  /\ UNCHANGED contextVars

AttributeNewTrack(t) ==
  /\ posted # <<>> /\ t = Head(posted) /\ t.kind = "attribute"
  /\ posted' = Tail(posted)
  /\ IF t.track = track /\ phase = "playing" /\ item.handle = t.handle
     THEN LET checked == IF PlayingRow # NoRow THEN Verify(table, Handles(shadow)) ELSE table
              attribution == Attribute(checked, PlayingRow, currentEntry, nextEntry, state = "Idle")
          IN IF attribution = "Release"
             THEN ReleaseSession(checked)
             ELSE StayInSession(attribution, checked)
     ELSE /\ reported' = NoEntry
          /\ UNCHANGED <<state, table, currentEntry, nextEntry, needNextRequested,
                         contextVars, genVars, shadow, item>>
  /\ UNCHANGED <<lastEntry, hasShadow, resolving, phase>>

(* The step OnPlaybackTime posts.                                          *)
RequestNextTrack ==
  /\ posted # <<>> /\ Head(posted).kind = "request"
  /\ posted' = Tail(posted)
  /\ state' = IF nextEntry = NoEntry /\ state = "Active" THEN "WaitingNext" ELSE state
  /\ UNCHANGED <<table, hasShadow, commandVars, contextVars, genVars, resolving, playerVars>>

-----------------------------------------------------------------------------
(* The player's callbacks.                                                 *)
NoCallback == UNCHANGED <<state, table, hasShadow, commandVars, contextVars, genVars, threadVars>>

(* on_playback_new_track, once the item is open.                           *)
NewTrack ==
  /\ phase = "opening" /\ Len(posted) < MaxPosted
  /\ phase' = "playing"
  /\ track' = FreshTrack /\ UNCHANGED <<session, next>>
  /\ posted' = Append(posted, Attribution(track', item.handle))
  /\ UNCHANGED <<state, table, hasShadow, commandVars, contextVars, resolving, shadow, item>>

(* on_playback_stop(eof).  The rows counted include the one that ended.    *)
PlaybackEnds ==
  /\ phase # "stopped"
  /\ phase' = "stopped" /\ item' = NoItem
  /\ state' = IF state # "Idle" /\ (~hasShadow \/ shadow = <<>>) THEN "Exhausted" ELSE state
  /\ UNCHANGED <<table, hasShadow, commandVars, contextVars, genVars, threadVars, shadow>>

(* The player goes on by itself: to the native queue or the user's list,   *)
(* or to the next shadow row; to any row when it cannot tell the next one. *)
(* The notice of a track's end queues behind the attribution of its start. *)
Follows(row) ==
  IF order = 0 /\ item.list = "shadow" /\ item.row # NoRow
  THEN row = item.row + 1 ELSE item.list = "shadow"

NextFollows ==
  /\ phase = "playing"
  /\ \A t \in Posted : t.kind # "attribute"
  /\ phase' = "opening"
  /\ \/ item' = UserItem
     \/ \E row \in DOMAIN shadow : Follows(row) /\ item' = ShadowItem(shadow, row)
  /\ UNCHANGED shadow
  /\ NoCallback

(* The user starts a track, of another playlist or of the shadow playlist. *)
UserPlays ==
  /\ phase' = "opening"
  /\ \/ item' = UserItem
     \/ \E row \in DOMAIN shadow : item' = ShadowItem(shadow, row)
  /\ UNCHANGED shadow
  /\ NoCallback

(* on_playback_stop(user).                                                 *)
UserStops ==
  /\ phase # "stopped"
  /\ phase' = "stopped" /\ item' = NoItem
  /\ IF state = "Idle" THEN UNCHANGED <<state, contextVars, genVars>>
     ELSE state' = "Idle" /\ EndSession /\ RestoreUserContext
  /\ UNCHANGED <<table, hasShadow, commandVars, threadVars, shadow>>

(* on_playback_time, near the end of a track of known length.              *)
NearTheEnd == state # "Idle" /\ nextEntry = NoEntry /\ ~needNextRequested

PlaybackTime ==
  /\ phase = "playing" /\ NearTheEnd
  /\ RequestStep \notin Posted \/ Len(posted) < MaxPosted
  /\ needNextRequested' = TRUE
  /\ posted' = Append(posted, RequestStep)
  /\ UNCHANGED <<state, table, hasShadow, currentEntry, nextEntry, lastEntry,
                 contextVars, genVars, resolving, playerVars>>

(* The user edits the shadow playlist: the lock allows it.                 *)
Edit == edits < MaxEdits /\ edits' = edits + 1

UserAppends ==
  /\ hasShadow /\ Edit
  /\ \E h \in Foreign : shadow' = shadow \o Added(NoEntry, <<h>>)
  /\ UNCHANGED <<item, phase>>
  /\ NoCallback

UserRemoves ==
  /\ hasShadow /\ Edit
  /\ \E row \in DOMAIN shadow :
       shadow' = Cut(shadow, row, row) /\ item' = Shrunk(item, row, row)
  /\ UNCHANGED phase
  /\ NoCallback

(* on_playlist_remove.                                                     *)
OnShadowPlaylistRemoved ==
  /\ hasShadow
  /\ hasShadow' = FALSE /\ shadow' = <<>>
  /\ item' = Unlocated
  /\ state' = "Idle" /\ table' = Reset
  /\ EndSession
  /\ UNCHANGED <<commandVars, contextVars, threadVars, phase>>

-----------------------------------------------------------------------------
\* a step that sends no jitQueue:trackChanged
Quiet == reported' = NoEntry

MainThread ==
  \/ Quiet /\ (RequestNextTrack \/ \E t \in Posted : AddToPlaylist(t))
  \/ \E t \in Posted : AttributeNewTrack(t)

Page ==
  \/ PlayNow \/ EnqueueNext \/ Skip \/ Clear \/ NotifyEmpty
  \/ \E clearBuffer \in BOOLEAN : Stop(clearBuffer)
  \/ \E handles \in Resolution \ {<<>>}, replace \in BOOLEAN :
       \E startIndex \in DOMAIN handles : PreloadBatch(handles, startIndex, replace)

Locations == \E t \in resolving :
  ResolutionAborted(t) \/ \E handles \in Resolution : Resolved(t, handles)

Player ==
  \/ NewTrack \/ PlaybackEnds \/ NextFollows \/ PlaybackTime
  \/ UserPlays \/ UserStops
  \/ OnShadowPlaylistRemoved

Next ==
  \/ UNCHANGED edits /\ MainThread
  \/ UNCHANGED edits /\ Quiet /\ (Page \/ Locations \/ Player)
  \/ Quiet /\ (UserAppends \/ UserRemoves)

Spec == Init /\ [][Next]_vars

-----------------------------------------------------------------------------
ShadowRow == [handle : Handle, of : 0..MaxEntry]
TableRow == [entry : 0..MaxEntry, kind : {"Single", "Batch"}, handle : Handle]
Ticket == [kind : {"add"}, entry : Entry, slot : {"Current", "Next"}, session : Nat, next : Nat]
Step ==
  Ticket \cup [kind : {"attribute"}, track : Nat, handle : Handle \cup {"user"}] \cup {RequestStep}

TypeOK ==
  /\ state \in State
  /\ table \in [rows : Seq(TableRow), stale : BOOLEAN]
  /\ lastEntry \in 0..MaxEntry
  /\ currentEntry \in 0..lastEntry
  /\ nextEntry = NoEntry \/ nextEntry \in (currentEntry + 1)..lastEntry
  /\ {needNextRequested, hasShadow} \subseteq BOOLEAN
  /\ savedOrder \in {Unsaved, 0, UserOrder} /\ order \in {0, UserOrder}
  /\ {session, next, track} \subseteq Nat
  /\ posted \in Seq(Step)
  /\ resolving \subseteq Ticket /\ IsFiniteSet(resolving)
  /\ shadow \in Seq(ShadowRow)
  /\ item \in {NoItem, UserItem} \cup [list : {"shadow"}, row : 0..Len(shadow), handle : Handle]
  /\ phase \in {"stopped", "opening", "playing"} /\ (phase = "stopped" <=> item = NoItem)
  /\ edits \in 0..MaxEdits
  /\ reported \in 0..lastEntry

(* A table that would pass its comparison with the playlist gives every    *)
(* row of a playNow or an enqueueNext to the entry that added it, whatever *)
(* single edit the user made in between.                                   *)
RowsExact ==
  LET checked == Verify(table, Handles(shadow)) IN
  ~checked.stale =>
    \A i \in DOMAIN checked.rows :
      checked.rows[i].kind = "Single" => checked.rows[i].entry \in {NoEntry, shadow[i].of}

(* Rows appear in the shadow playlist for the current and the next entry   *)
(* of a session, or for the batch of the same step: a superseded add has   *)
(* no effect (docs of jitQueue:error, "neither added nor played").         *)
RowsAddedBy(L, e) == Cardinality({i \in DOMAIN L : L[i].of = e})
Landed(e) == RowsAddedBy(shadow', e) > RowsAddedBy(shadow, e)
SupersededNeverLands ==
  [][\A e \in Entry : Landed(e) =>
       /\ e \in {currentEntry', nextEntry'} \/ e \notin 1..lastEntry
       /\ state' # "Idle"]_vars

(* jitQueue:trackChanged names the entry whose row is playing; a row of a  *)
(* batch keeps the id as it was.                                           *)
BatchRowPlays == PlayingRow \in DOMAIN table.rows /\ table.rows[PlayingRow].kind = "Batch"
ChangedNamesPlaying ==
  reported # NoEntry =>
    /\ phase = "playing" /\ PlayingRow # NoRow
    /\ shadow[PlayingRow].of = reported \/ BatchRowPlays

(* preloadBatch with replace: false adds rows behind those of a session    *)
(* that plays, and does not start another track (docs/vitepress/api/       *)
(* jit-queue.md).                                                          *)
SessionPlays ==
  /\ state \in {"Active", "WaitingNext"} /\ phase = "playing"
  /\ PlayingRow \in DOMAIN table.rows /\ table.rows[PlayingRow].entry # NoEntry
BatchAppended ==
  lastEntry' # lastEntry /\ Len(shadow') > Len(shadow) /\ SubSeq(shadow', 1, Len(shadow)) = shadow
AppendNeverInterrupts ==
  [][SessionPlays /\ BatchAppended => item' = item /\ phase' = phase]_vars

(* A session that stops or is left gives the user's playback order back    *)
(* (QueueManager.h, RestoreUserContext).                                   *)
OrderRestored ==
  [][state # "Idle" /\ state' = "Idle" /\ hasShadow' => order' = UserOrder]_vars

(* A session that plays its last track asks the page for the next one: the *)
(* request can still be made by on_playback_time, or a step that sends one *)
(* is posted.  A flag left over from an earlier wait, or an attribution    *)
(* that came to nothing, would leave the page unasked and playback would   *)
(* end (OnPlaybackTime, RequestNextTrack, StayInSession).                  *)
AsksForNext ==
  state = "Active" /\ phase = "playing" /\ nextEntry = NoEntry =>
    ~needNextRequested \/ \E t \in Posted : t.kind \in {"request", "attribute"}
-----------------------------------------------------------------------------
(* What these properties rest on.                                          *)

(* An add that is still of its session was issued for the entry that holds *)
(* its slot, and the session is not idle.                                  *)
TicketsExact ==
  \A t \in Adds : t.session = session =>
    /\ state # "Idle"
    /\ t.slot = "Current" => t.entry = currentEntry
    /\ t.slot = "Next" /\ t.next = next => t.entry = nextEntry

(* The table's rows are those of the playlist, as far as they go.          *)
Fits(rows, L) ==
  /\ Len(rows) <= Len(L)
  /\ \A i \in 1..Len(rows) :
       /\ rows[i].handle = L[i].handle
       /\ rows[i].kind = "Single" => rows[i].entry \in {NoEntry, L[i].of}
Settled(t, L) == t.stale \/ (Fits(t.rows, L) /\ Len(t.rows) = Len(L))

(* Before the user's edit the table is as long as the playlist or empty;   *)
(* afterwards it fits, or its length gives the removal away.               *)
TableExact ==
  /\ table.stale \/ Fits(table.rows, shadow) \/ Len(table.rows) > Len(shadow)
  /\ edits = 0 => Settled(table, shadow) \/ table.rows = <<>>
  /\ ~hasShadow => shadow = <<>>
=============================================================================
