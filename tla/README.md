# foo_ui_webview2: models and proofs

foo_ui_webview2 is a foobar2000 component whose user interface is a web page in a WebView2 control. The page calls
the host through a bridge (`src/src/api`), the host answers and sends events, and the host drives the player through
the foobar2000 SDK. This directory holds TLA+ models of the parts of the host whose correctness depends on order:
queues of work shared by pages, worker threads that outlive whoever asked, answers that must reach the right document
or nobody, and a playlist edited by three parties. Each module is a translation of the code it names; `PROJECT.json`
gives the lines of every definition.

Run a check with `tlc -workers 2 -config X.cfg M` and the proofs with `tlapm M.tla`.

## 1. The system

### Threads and how components talk

Nearly everything runs on foobar2000's **main thread**: bridge calls, SDK callbacks, WebView2 events, window
messages, and functions posted with `fb2k::inMainThread`. Beside it there are workers of the **CPU pool**
(`fb2k::inCpuWorkerThread`: decodes, artwork, metadata, file and media reads), two **media I/O threads**, and the
SDK's own location resolver. State is owned by the main thread or guarded by one mutex per class, so the interesting
steps are: a call on the main thread, a worker's region between two locks, and a posted function. Those are the
actions of the modules. Between a post and the posted function anything else may run, the destruction of the poster
included.

### Inventory

| Component | State | Operations | What is hard, and what makes it correct |
|---|---|---|---|
| Waveform decode jobs (`WaveformTaskQueue`, `AudioApi.cpp`) | jobs, waiting tasks, index by decode key, running slots, tokens, specs, result cache | generate, cancel, popup close, quit, worker's return | One job serves many requests; it may be aborted while it still holds a slot, and its key reused. Every request gets exactly one terminal event, or silence if its audience is gone; slots are never overcommitted nor idle. |
| PCM decode jobs (`AudioApi.cpp`) | the same queue with one slot, shared memory buffers, document stamps | decodePcm, cancel, reload, panel or popup close, quit, worker's return | The worker writes through a raw pointer into memory the main thread owns; the page may reload in between. |
| Artwork pipeline (`ArtworkWorkerQueue`, `ArtworkRequestLifecycle`, `WebViewHostArtwork`) | queue, single flights by key, followers, generation, deferrals | request, navigate, controller created, close, destroy, worker, completion | Completions are posted to a host that may be dying; shared extractions outlive a navigation. Each deferral is completed once. |
| JIT shadow queue (`QueueManager`, `JitShadowRows`) | state, row table, entry serials, generations, saved context | playNow, enqueueNext, skip, stop, clear, notifyEmpty, preloadBatch; player callbacks | The page, the player and the user edit one playlist; adds resolve late; the same file may be two rows. Superseded adds have no effect; the track reported is the one that plays; the page is asked for the next track. |
| JIT session protocol (`QueueSession*.cpp`, `JitSessionModel.h`) | session record (phase, current and next entry, open operations), controlling document, ticket in the native queue | create, claim, play, setNext, clearNext, endOfQueue, skip, stop, release, legacy takeover; player callbacks | A page that reloads under an outstanding request; adds that land late; a player that has settled on what follows. Every operation gets one outcome, the page is asked for the next track, and what it named next is what plays next. |
| JIT native adoption (`QueueNativeAdoption.cpp`, `JitNativeContext.h`) | an account of the user's queue items and source rows taken over | prepare, adopt, play and supply a reference, discard, restore | Items are played, replaced, stopped or handed back while the user changes queue and playlists. What was kept and never begun goes back, once each and in order; a start whose attribution is still posted is the exception (findings). |
| PCM and spectrum streams (`PcmRing.cpp`, `AudioApi.cpp`) | subscriptions, ring, epoch | subscribe, tick, format change, unsubscribe | One writer, one reader without locks; epochs replaced under the reader. |
| Asynchronous operations (`AsyncOperationRegistry`) | live tokens by id and window | register, cancel, remove, cancel by window, shutdown | Cancel races the worker's own removal. |
| Media read queue, media byte service | one drain; two I/O threads, 32 tasks, tokens | add, drain; enqueue, stop | The pool may refuse; stop joins threads from the main thread. |
| WebView environment, crash recovery (`WebViewEnvironment`, `WebViewPanel`, `MainWindow*`) | shared environment and who waits for it; per window a host and a dead mark; rebuild lock, attempts, timers, health check | preheat, open, close, environment and controller completed, browser or page exits, reports, rebuild, retry, restore | One dead browser, many hosts; reports arrive in any order and late; completions race exits. The main window is never given up silently, and does not rebuild without end. |
| Bridge, ports, plugin registry | pending calls, port pairs | dispatch, defer, answer, close | One answer per call, to the document that asked. |
| WebView host, main window and start-up, popups | visibility, presentation, close confirmation | navigate, show, close | Timers against events; a page that never confirms. |
| Library cache and change log, autoplaylists | cache, log with versions | library callbacks, resume | A page that resumes from a version no longer in the log. |
| The rest | | | Path security, menus, tray, drag and drop, preferences, selection, other handlers: synchronous wrappers or decisions over strings, see `PROJECT.json`. |

`PROJECT.json` lists every component with its files and status, and the hazards of the code with the properties that
cover them.

## 2. Plan

Order is by how much of the program's own concurrency a part carries.

1. **Decode jobs** (checked and proved): `WaveformTaskQueue`, hosts `WaveformJobs` and `PcmJobs`, contract `DecodeContract`.
2. **Artwork pipeline** (checked and proved): `ArtworkRequestLifecycle`, `ArtworkWorkerQueue`, composed in
   `ArtworkPipeline`, contract `ResourceContract`.
3. **JIT shadow queue** (checked and proved): pure `JitShadowRows`, state machine `JitQueue`.
4. **JIT session and native adoption** (checked and proved): pure `JitSessionRecord` and `JitNativeLedger`, composed
   with the row table in `JitSession`, contract `SessionContract`; `JitGiveBack` adds a history of what the player began.
   Left to prove: the action properties `NextIsPicked` and `GivenBackInOrder`.
5. **Recovery** (checked and proved): `WebViewEnvironment`, and the windows over it in `CrashRecovery`.
6. Left: `AsyncOperations`, `MediaReadQueue`, `MediaIoQueue`, `PcmStreams`; ports, popup close, start-up presentation,
   change log, scaled artwork cache.

Abstract specifications still worth stating: a port pair is open at both ends or at neither; a page that resumes from
the change log sees every change once.

## 3. The modules

### Decode jobs

`WaveformTaskQueue` is class `WaveformTaskQueue` (`src/src/api/WaveformTaskQueue.cpp`): `jobState`, `waiters`,
`jobByTask`, `openByKey`, `owner`, with one action per method (`SubmitMerged`, `SubmitNew`, `RemoveWaiters` for the
cancellations, `Finish`, `DropAll`). `Pump` is part of the actions whose methods call it. Its indexes by key and by task
are variables of their own, because in the code they can disagree with the jobs.

`WaveformJobs` is `struct WaveformJobs` and the functions of `AudioApi.cpp` around it: what the host stores beside
the queue (specs, tokens), the workers, the LRU cache, `told` (the events each request was sent). A worker decodes
until `WorkerReturns` posts an outcome, and `OnWaveformJobFinished`, or `OnLateWorker` after quit, is the posted
function. `PcmJobs` is the same queue under `decodePcm`, with the buffer of each job, the document a page shows
now, and the document each request came from. A job's record holds its documents, its token and its buffer, and all three go
when it is erased: a request can be attributed to a page only before that, which is why the order in which a handler emits
and erases matters. The stamps themselves stay, so that what a request was owed can be judged afterwards.

`DecodeContract` says what a page may rely on, with nothing of queues: a pending request either gets one terminal
event, or is dropped silently once its audience is gone. Both hosts refine it (`ContractSpec`). For PCM the audience
is the document of the request's stamp, as long as a page shows it and the process does not quit: a request that leaves
the queue without being told, while that document is still shown, breaks the contract.

### Artwork pipeline

`ArtworkRequestLifecycle` (captures, generations, what a completion is allowed to do), `ArtworkWorkerQueue` (queue,
single flights, followers, the one worker) and `ArtworkPipeline`, which EXTENDS both and is the handler in
`WebViewHostArtwork.cpp` with the host's navigation and destructor. The worker's `Execute` is cut where the code
takes its lock: begin, extracted, dispatched, done. Posted completions are a set because each runs when its own post
comes up. `ResourceContract` is the promise to WebView2: one completion per deferral.

### JIT shadow queue

`JitShadowRows` is `JitShadowRows.h` as operators: the table of rows, its comparison with the playlist, and the decision
what a playing row means. `JitQueue` is `QueueManager` with the queue of posted steps (`posted`, first in first out,
as `inMainThread` runs them), the locations being resolved, and a model of the player: the shadow playlist, the
playing item, the playback order. Each row remembers the entry that added it (`of`), which the code does not know, so
that the attribution can be judged. The generation counters are compared for equality only; a new value is any value
no waiting ticket carries. Adds always resolve in a step of their own; the code's synchronous path is the case where
that step comes next. Every dropped or failed add is kept, with no effect.

The player is the environment: tracks may start at any time, end, be followed by the next row or by something else,
and the user may start, stop, append or remove. Left out: the active playlist (saved and restored where the playback
order is), titles, events no property speaks of, start-up and shutdown, a shadow playlist that moves, and what a
`jitSession` adds to each handler.

### JIT session and native adoption

`JitSessionRecord` is the record `jit_session_runtime::Session` with the functions on it (`RequestNext`, `SupersedePending`,
`SetNext`, and what a start, an end or a stop of the player does). `JitNativeLedger` is `jit_native::NativeContext`: the
status of the account and the disposition of each occurrence, one operator per method, a refusal leaves the record as
it is. Both are operators on records, so `JitSession` reads like the code: an action takes the record through the
methods the handler calls. Its actions are the commands of the page (`QueueSessionCommands.cpp`), the deferred steps of
their adds, the callbacks of the player (`QueueSessionPlayback.cpp`), the ticket (the next entry's row put into the
native queue when the adopted track is not in the shadow playlist), the give-back (`QueueNativeAdoption.cpp`), and the
takeover by a legacy `jitQueue` call. `SessionContract` is what the page is promised: one outcome per operation, one
open attempt, nothing pending once the session is stopped or released. `JitGiveBack` watches `JitSession` and records of each
occurrence whether its track began and whether the session's posted step saw it, so that a give-back is judged by what
the player did and not by the account it is computed from.

The player settles on what follows a track where `NextMayBePreselected` says it may. So tracks have a known
length here; without one the code treats the choice as open. The user may stop, play a row, queue a row, change a list,
or remove the shadow playlist, each at any time and `MaxUpsets` times in all. In the code `NextMayBePreselected` is a window of
time before the end of the track; here it is that the player has settled, the moment the window is meant for. Two
actions stand for all legacy calls that take a session over, one that ends with a cleared row table and one that plays
a row; what else those calls do is in `JitQueue`. Left out: the revision numbers (a command
is one the page sent with the revision it read) and the replay log (a repeated request changes nothing), titles and
positions, playback order and active playlist, and what a quitting process does to the session.

### WebView environment and crash recovery

`WebViewEnvironment` is the class of that name with the hosts of the windows up to their controllers, and the browser
process as an external actor: it may exit at any time, its controllers and the environment are dead from then on, and
each finished host has a report to come. A call that creates a controller is accepted, and then completes, or is
refused at once: the code ignores the result (`WebViewHost.cpp:136`, `:211`), so a refused host hears nothing any
more. `CrashRecovery` is what `WebViewPanel` and `MainWindow` do with the reports: the dead mark, the scheduled
rebuild with its limit (`DecideBrowserExitRebuild`), the lock, the health check after a restore, the user's retry. The
clock is reduced to whether the window of time that counts rebuilds is over. A destroyed host's callbacks return at
once (its liveness flag), so destroying it takes its window out of the waiting list.

## 4. What the runs check

| Run | Result |
|---|---|
| `waveform_jobs` | Indexes exact, slots used and respected, host records follow the queue, requests of closed windows leave, aborting jobs take no one, `cancelled` only if asked, the contract, and every request settles. |
| `pcm_jobs` | No buffer is closed under its writer, one open buffer, every slot will be freed, submission order, one event for each request whose document is still shown and silence only for the others (the contract), every request settles. |
| `artwork` | `singleFlight_` exact, each waiting completion held in one place, nothing of a dead host touched, the contract, every deferral of a live host settles, destruction ends. |
| `jit` | Two entries or batches of up to two rows of one file, and an edit by the user: rows attributed to the entry that added them (`RowsExact`), `trackChanged` names the entry that plays (`ChangedNamesPlaying`), superseded adds add no row (`SupersededNeverLands`), and a session that plays with nothing after it has asked for a track, or a step that will ask is posted (`AsksForNext`). |
| `jit_session` | A session of three entries over an empty native queue, a reload, and one upset: an operation without an outcome is on its way to one (`OperationsCarried`) and gets it (`EveryOperationSettles`); the document in control has been asked for the next track (`SupplyAsked`); a ready next entry is what the player settles on (`NextIsPicked`); the page's contract. |
| `jit_native` | A session that takes over a playing track and two queued ones: the ticket is the session's next entry (`TicketLeadsToNext`), a session is released only with its account closed (`ReleasedIsGivenBack`), and what is given back is what was kept and never began, in order, once, if no start went unattributed (`GivenBackInOrder`). |
| `recovery` | Browser and page crashes at any moment: the main window works, or is being created by a creation under way or an accepted controller call, or failed with the retry open, or is dead with a rebuild ahead or its rebuilds used up, unless its controller call was refused (`NeverAbandoned`); crash rebuilds stay within the limit (`QuotaKept`); every creation ends, accepted or refused (`CreationEnds`). |
| `artwork_drain`, `artwork_reload`, `jit_append`, `jit_order`, `recovery_refused` | Disagreements between the code and what it says of itself, below. |

### Findings

* `artwork_drain`: `DrainAll` erases a queued leader's flight before it collects the followers, so their deferrals are
  never completed, against the comment above it.
* `artwork_reload`: a request of the new document joins an extraction the navigation aborted and is answered 503.
* `jit_append`: `preloadBatch` with `replace: false` interrupts a session that is playing but waits for its next
  track, since only `Active` counts as playing. The API page says that it starts playback only when the session is
  not already playing.
* `jit_order`: `notifyEmpty` on an idle queue, `playNow`, `stop`: the order forced at `playNow` was never saved.
* `recovery_refused`: what `CreateCoreWebView2Controller` and `CreateCoreWebView2CompositionController` return is not looked
  at (`WebViewHost.cpp:136`, `:211`). If WebView2 refuses the call at once, as it may on the environment of a browser that
  has exited, no completion comes, `OnWebViewInitFailed` is not called, and the rebuild lock stays held and the retry
  disabled. The comment at `MainWindow.cpp:1680-1682` says why the lock must be released there.

Behaviour met while modelling the session and the recovery that no run states. Of the first, the documents promise the
opposite; of the others they do not say so in so many words. A property that could be disturbed by one of these says so in its premise.

* A track that starts is attributed in a posted step. In between, `release` and `stop` hand an occurrence back that has
  already begun, so it plays twice; a `setNext` withdraws the row that is playing. The comment at
  `QueueSessionCommands.cpp:273` and `api/jit-session.md:441` ("Starting a queue occurrence consumes it, so it is not given
  back later.") say otherwise. The same happens to a track that stops or is followed before its step runs. `NextIsPicked`
  leaves those steps out by its premise, and `GivenBackInOrder` by the premise `Undisturbed`: no occurrence has a start
  that went unseen. Without it TLC finds the double play.
* A session whose current entry has ended while its next is ready waits: the next is started only when its add lands
  (`QueueSessionPlayback.cpp:78`). This happens when a pending `play` fails, when the add lands after the player had
  settled that nothing follows, and when the player cannot open the buffered row. `api/jit-session.md:197` reads as if
  the next entry would play.
* After `skip` the user may replay the old row: `SessionTrackStarted` returns early (line 110), and the session shows
  one entry preparing while another plays.
* A ticket can be lost: the adopted track plays, a slow `play` lands behind a `setNext` whose row was queued, and
  starting it moves the queued coordinates to another row. The record of the ticket is reset (line 105) and the item
  stays. `AnotherGoesFirst` in `NextIsPicked` is this case and the user's own items.
* When the shadow playlist is removed while the session is stopped, the ticket stays recorded; `TicketLeadsToNext`
  speaks of active sessions.
* Recovery is the main window's: a popup or panel marked dead stays so until it is closed and opened again.
* If a page's exit is reported before its browser's and its reload fails, the rebuild may destroy the host before the
  second report, and nobody invalidates the environment: the rebuild gets the dead one, fails, and only the user's
  retry helps. A late report of another host throws away a new environment; the cost is one more creation.
* A restore that succeeds while a health check is pending arms the short timer, whose firing then counts as that
  check's timeout.

### Bounds, and why they are enough

* Waveform: 3 requests, 3 jobs, 2 keys, 2 slots, 1 cached result, a popup's page and a caller without routing. Three
  requests are what it takes for two to share a job while a third queues, and for a key to be reused while its
  aborted job still holds a slot. PCM: the code's own single slot, 3 requests, a panel with two documents and a
  popup with one.
* Artwork: 3 requests, 2 keys, queue depth 1, 2 navigations: a leader in flight, a leader queued, and a third that
  follows, is refused, or belongs to the next document.
* JIT: in `jit` `MaxEntry` is 2 (a current and a next, or an entry and its replacement, or one that a stopped
  session never used), with up to two rows per entry and `MaxEdits` 1. A next that is replaced by a third entry while its
  add resolves is not in the run; the theorem `SupersededAddsNothing` has it for any number. `jit_append` and `jit_order`
  have the bounds their counterexamples need. `MaxPosted` 1 keeps the player from starting
  a further track while a step waits; since starts and commands still interleave with the waiting step, superseded
  attributions happen. One resource: the table cannot tell two rows of one file apart, so a single file is the hard
  case. Two edits between comparisons are outside: removing a row and appending the same file deceives the table,
  which keeps handles only; nothing in the documents promises otherwise (`hazards`).

* JIT session: `jit_session` has 3 entries (a current, a next, and its replacement), 1 reload (a second document that
  claims), no adopted items, and one upset among stop, play, queue, a changed list and removal. `jit_native` has 2
  occurrences, 2 rows of the source with its first playing, 2 entries and one upset among a stop, a change of the
  lists and a failing write: one occurrence can be played or submitted while the other is pending, and a give-back can
  come in two attempts. The run follows one context to its end; what comes after it is a session without one, as in
  `jit_session`, or a new takeover. One window: a second one would only hold commands the code refuses for lack of the
  token.
* Recovery: two windows, the code's limits (3 rebuilds, 4 reloads), and nothing else: exits, retries and restores are
  unbounded, the state is finite.

`CHECK_DEADLOCK FALSE` where requests are bounded and the system comes to rest.

### Fairness

* A worker that has been started returns, and a function posted to the main thread runs (`WF` on `WorkerReturns`,
  `On...Finished`, `OnComplete`, `Worker`, `MainThread`): the CPU pool and foobar2000's message loop guarantee it.
  Decoders poll their abort token, so they return after an abort as well.
* `DestroyEnds`: the destructor waits for the worker and continues.
* `Progress` of `JitSession`: as long as a step is posted, an add is being resolved, or a track is opened or played to
  its end, one of these goes on. Which one is left open, so no resolution or track is assumed to be quick; but a track
  does end, and after a `skip` and a replay of the old row that end is what settles the skip.
* `EnvironmentCreated` and `ControllerCreated`: WebView2 completes, with success or failure, each creation it accepted.
  Of a controller call it refused nothing is assumed: that host never leaves its state by itself.
* Nothing is assumed fair of pages, users or navigation, nor of the player beyond `Progress`. `JitQueue` has no fairness:
  `AsksForNext` is stated as safety, the request being still open to the next `on_playback_time` or posted.
  For a track without a length `on_playback_time` does not ask (`duration > 0` in `PlaybackCallback.cpp`).

## 5. What is proved

Theorems hold for all values of the constants under `QueueAssumption` and `HostAssumption` (callers are identities,
popups are window ids, the null values lie outside their sets, the bounds are natural numbers, the cache has a
place). A limit of zero slots is raised to one, as the constructor does.

* `WaveformTaskQueueProofs`: `QueueSafe` and `QueueOrdered` are about `QueueSpec`, the queue under *any* host that
  calls its operations. The invariant `QueueInv` is `QueueTypeOK`, `IndexesExact`, `SlotsRespected` and the freshness of ids.
  The indexes are needed because a job is found by key or by task, and an aborting job must have lost its key;
  `SlotsRespected` says both that active jobs fit the slots and that nothing is queued while one is free, and the
  second half needs `PumpCount`: that `Pump` starts the oldest jobs, as many as there are free slots.
* `WaveformJobsProofs`: `HostStepsQueue` shows that every step of the host is a step of `QueueNext`, so the queue's
  invariant carries over; `HostInv` adds that records, tokens and workers agree with the job states, that requests of
  closed windows are gone and that task ids are fresh, with one lemma per kind of step. From it follow every
  invariant of the run (`IndexesHold`, `SlotsHold`, `RecordsHold`, `ReachableHolds`, and `TypesHold`, which has the bound
  of the cache: `CacheTypeOK` and `JobsKeyed`, that a job being decoded has a key), the action properties (`JobsOrdered`,
  `CancelsAreAskedFor`) and the refinement of the contract (`JobsKeepContract`).
* `PcmJobsProofs`: the same queue under the other host, for any number of slots. The invariant joins `QueueInv` with what
  the host stores: `RecordsExact` (a record for each job of the queue; after quit only for those whose worker runs),
  `SlotWillBeFreed`, `BuffersExact` (a worker that runs has a buffer, and a buffer belongs to an active job with a record:
  this is what `NeverClosedUnderWriter` needs, since reload, close and quit look at the job and not at the worker),
  `DocumentsExact` and `RequestsExact` (a waiting request was told nothing and its owner is the page of its stamp) and
  `StampsPast` (no stamp is ahead of the document shown, so a stamp that differs stays different). `OneBufferAtATime`
  assumes `Slots = 1`, which is what `GetPcmJobs` passes. `PcmAssumption` says that no two pages have one popup's window id:
  `WindowManager::GenerateId` counts up (`src/src/window/WindowManager.cpp:426`).
* `ArtworkPipelineProofs`: `PipelineInv`, for any requests, keys, navigations and queue depth. `HoldersApart` is the core: an
  open deferral is led, followed or posted, never two of these, and one of them while the host lives; this is why each
  path may complete what it takes without looking at the others. It needs `FlightsExact` (a leader's completion finds its
  followers and no others), `ItemsExact` (the worker's item is no longer queued), `AnswersExact` (nothing is known of a
  request not made yet, a deferral completes once), `PhasesExact` (what a new, dying or dead host may still hold) and
  `CapturesPast` (no capture is ahead of the document, so a stale one stays stale). The theorems are the invariants of the
  run, `GoneIsUntouched` and the refinement `RequestsKeepContract`.
* `JitQueueProofs`: first the row table as an algebra, for any table and playlist: what `Verify`, `Insert`, `Remove`, `Cut`
  and `Splice` return position by position (`VerifyTable`, `InsertTable`, `RemoveTable`, `CutParts`, `SpliceParts`; those on
  sequences are in `JitShadowRowsProofs`, which the session's proofs use too), and that a rewrite never adds rows of an entry that is not its own (`CountCut`, `CountSplice`, `CountSubSeq`). Then two inductive
  invariants. `TicketsExact` (an add of the present session carries the entry of its slot, and the session is not
  idle) rests on `Generations`: a new generation is none that a waiting add carries. It gives `SupersededAddsNothing`,
  whatever the user edits. `TableExact` says that the table fits the playlist, or is stale, or is longer than the
  playlist and so will be found out; `KeptSettled`, `InsertSettled`, `PrefixFits` and `SuffixSettled` carry it through an
  add, a replacement and the removal of played rows. It gives `RowsAttributed` and `ChangedIsPlaying` under the
  hypothesis `MaxEdits <= 1`. The hypothesis is needed: a removal followed by an append makes the lengths agree again, and
  the table keeps handles only, so the properties are false of the code with two edits (first of the hazards without
  a property). With one edit the table is never deceived, wherever the edit falls.

* `JitSessionProofs`: `TypeOK`, `OperationsCarried`, `SupplyAsked`, `ReleasedIsGivenBack`, `TicketLeadsToNext` and the refinement
  `SessionKeepsContract`, for any windows, occurrences, source playlist, bounds and acts of the user, under
  `SessionAssumption` and `LedgerAssumption` (bounds are natural numbers, the user's queue is made of occurrences, and an
  occurrence is neither a row nor null). The inductive invariant `IInv` is what they have in common:
  * `Sound`, of the record alone: the next entry is younger than the current one and is being prepared, an attempt is
    open exactly when the current entry has not ended, and an operation is pending only for an entry that lacks its
    outcome. The contract's `attempt` is a function of it.
  * `StepsExact`: each waiting add is for an entry of its own, not yet in the shadow playlist, and an add of the next
    entry is for the session's. Without it an add could land twice, or settle an operation of another entry. It needs
    `Following` (what the queue manager calls next is the session's next) and `Replaced` (while an attempt with nothing
    after it is being prepared, a row that the manager would move on to is the attempt's own), because the attribution
    goes by the manager's entries: were it to move to a row that is not the session's, a pending play would be forgotten.
  * `Carried`, which is `OperationsCarried` with the posted and the resolving adds taken together, and `Answered`
    (`SupplyAsked`, with the request it may still owe to a document that is not heard).
  * `Owned` (no session belongs to a document that was not loaded yet, so a reload cannot give it its owner back),
    `Planned` (a prepared context has no row settled on, so adopting it may empty the row table), and the types.

  `TicketLeadsToNext` needs two more facts, each kept by every step from a state of `IInv`. `Ticketed`: a ticket means
  that the session has started, so that no context is prepared under it, and in an active session over native playback
  it is the ready next entry's, whose row is in the shadow playlist. `CurrentFirst`: a posted add of a current entry,
  which would clear that playlist, has no other add ahead of it and none being resolved; without it an add could still
  put a ticket on a row that the next add removes.

  Each method of a record or of an account has a lemma that says what it returns field by field; each action has one
  that it keeps `IInv` and is a step of the contract or a stutter of it (`StepKeeps`).

* `CrashRecoveryProofs`: `NeverAbandonedAlways` and `QuotaKeptAlways`, for any windows and limits, under
  `RecoveryAssumption` (the main window is a window, the limit of rebuilds is not zero). The invariant adds three facts
  to `NeverAbandoned`. `Waiters`: the list of callbacks is exact, and empty unless a creation runs; without it a waiting
  window could have nobody to call it. `Owned`: reports, dead marks and health checks belong to a finished host, so
  the lock is free when they come in, and the early returns under the lock lose nothing. `Counted`: a timer that
  is set has been counted and not used, so a rebuild that fires cannot pass the limit. One lemma says what a step that only
  brings hosts up or down must keep (`HostStepSafe`), one what a rebuild does, and there is one lemma per group of actions.

Only model-checked: liveness (`EveryTaskSettles`, `EveryDeferralSettles`, `DestructionEnds`, `EveryOperationSettles`,
`CreationEnds`), which is out of the prover's reach, `AsksForNext`, which needs an invariant about the waiting steps
of its own, and two action properties of the session that are still to be proved. `NextIsPicked` needs an invariant
about the place of the row after the playing one and of the rows the queued items name, besides `IInv`;
`GivenBackInOrder` needs what `Selected` returns for each item queued by a give-back. The runs that expect a violation
have nothing to prove.

## 6. Not modelled

Computed data (samples, images, spectra), the scaled and negative artwork caches (which of 200, 304, 404 is answered), wording
of events, and three ways to fail that the code leaves unhandled or handles by giving up:

* a main thread that refuses posts;
* a CPU pool that refuses a worker. `inCpuWorkerThread` may throw: out of `StartWaveformJobs` (`AudioApi.cpp:1966`) and
  `StartPcmJobs` (line 2599) after the job took its slot, and out of the artwork queue's `PumpLocked`
  (`ArtworkWorkerQueue.h:186-192`) with `busy_` set and the item popped, so the slot or the one worker is never given back.
  The liveness properties of those modules, and `SlotWillBeFreed`, are for a pool that takes its work;
* an exception after `GetDeferral` and a `CreateWebResourceResponse` that fails (`WebViewHostArtwork.cpp:348-390`, `643-650`).

The components with status `not_modelled` in `PROJECT.json`
carry their reason: planned, user interface of the platform, pure conversions covered by unit tests, generated or
third-party code.

By lines, most of the repository is of the last three kinds: the foobar2000 SDK and the JSON library under `src/lib`, the
generated schemas under `src/src/api/generated`, window chrome and menus, and handlers that pass one call on to
the player's own services. They keep no state whose order matters, and a model of them would restate them. What has
state of its own beside the parts above is in the plan.
