------------------------------ MODULE PcmJobs ------------------------------
(***************************************************************************)
(* The host of audio.decodePcm.  It owns a second WaveformTaskQueue.  Here *)
(* the worker writes samples straight into a shared buffer that the main   *)
(* thread created when the job started and alone may close, and a result   *)
(* is delivered only to the very document that asked for it.               *)
(***************************************************************************)
EXTENDS WaveformTaskQueue, Sequences

CONSTANTS
  Popup,   \* the windows that close by PopupWindow::OnDestroy
  PageOf,  \* the window id of the page at each hwnd
  MaxDoc   \* bound: documents each page shows one after another

(* A popup's window id is its own: WindowManager::GenerateId counts up.     *)
ASSUME PcmAssumption ==
  /\ Popup \subseteq WindowId
  /\ PageOf \in [Hwnd -> WindowId]
  /\ \A g, h \in Hwnd : PageOf[g] = PageOf[h] /\ PageOf[h] \in Popup => g = h
  /\ MaxDoc \in [Hwnd -> Nat \ {0}]

VARIABLES
  doc,        \* the document each page shows: what DocumentStamp tells apart; 0 once the host is gone
  stamp,      \* PcmWaiterDocument of each request
  documents,  \* PcmJob::documents: every request that ever waited on the job
  records,    \* keys of PcmJobs::jobs
  tokens,     \* PcmJob::token
  buffer,     \* PcmJob::buffer, and what became of it
  worker,     \* the worker of a job, or the outcome posted to the main thread
  nextTask,   \* nextTaskNumber
  shuttingDown,
  told        \* terminal events sent to each request

hostVars == <<doc, stamp, documents, records, tokens, buffer, worker, nextTask, shuttingDown, told>>
vars == <<queueVars, hostVars>>

Event == {"ready", "failed", "cancelled"}
NoStamp == [hwnd |-> NoHwnd, doc |-> 0]

TypeOK ==
  /\ QueueTypeOK
  /\ doc \in [Hwnd -> Nat] /\ \A h \in Hwnd : doc[h] <= MaxDoc[h]
  /\ stamp \in [Task -> [hwnd : Hwnd \cup {NoHwnd}, doc : Nat]]
  /\ documents \in [Job -> SUBSET Task]
  /\ records \subseteq Job
  /\ tokens \in [Job -> {"none", "armed", "aborted"}]
  /\ buffer \in [Job -> {"none", "open", "detached"}]
  /\ worker \in [Job -> {"none", "running"} \cup Outcome]
  /\ nextTask \in 1..(MaxTask + 1)
  /\ shuttingDown \in BOOLEAN
  /\ told \in [Task -> {<<>>} \cup {<<e>> : e \in Event}]

Init ==
  /\ QueueInit
  /\ doc = [h \in Hwnd |-> 1]
  /\ stamp = [t \in Task |-> NoStamp]
  /\ documents = [j \in Job |-> {}]
  /\ records = {}
  /\ tokens = [j \in Job |-> "none"]
  /\ buffer = [j \in Job |-> "none"]
  /\ worker = [j \in Job |-> "none"]
  /\ nextTask = 1
  /\ shuttingDown = FALSE
  /\ told = [t \in Task |-> <<>>]

-----------------------------------------------------------------------------
Alive(h) == doc[h] # 0
CallerAt(h) == [hwnd |-> h, windowId |-> PageOf[h]]

(* ResolvePcmPage: IsCurrentDocument of the stamp taken at the request.    *)
IsCurrentDocument(t) == stamp[t].hwnd # NoHwnd /\ stamp[t].doc = doc[stamp[t].hwnd] /\ stamp[t].doc # 0

EmitTo(T, eventOf) ==
  told' = [t \in Task |-> IF t \in T /\ IsCurrentDocument(t) THEN Append(told[t], eventOf[t]) ELSE told[t]]

Starting == {j \in Job : jobState'[j] = "decoding" /\ jobState[j] # "decoding"}

(* StartPcmJobs: the buffer is created from the environment of any page    *)
(* that asked; when that fails the failure is posted like a worker's       *)
(* return, and no token or worker exists.                                  *)
HasEnvironment(j, docs) == \E t \in docs[j] : Alive(stamp'[t].hwnd)
(* Mutant of StartPcmJobs: a failed allocation is logged and not posted.   *)
StartPcmJobsSilently(J, recs, docs, tok, buf, wrk) ==
  \E allocated \in SUBSET {j \in J \cap recs : HasEnvironment(j, docs)} :
    /\ buffer' = [j \in Job |-> IF j \in allocated THEN "open" ELSE buf[j]]
    /\ tokens' = [j \in Job |-> IF j \in allocated THEN "armed" ELSE tok[j]]
    /\ worker' = [j \in Job |-> IF j \in allocated THEN "running" ELSE wrk[j]]
StartPcmJobs(J, recs, docs, tok, buf, wrk) ==
  \E allocated \in SUBSET {j \in J \cap recs : HasEnvironment(j, docs)} :
    /\ buffer' = [j \in Job |-> IF j \in allocated THEN "open" ELSE buf[j]]
    /\ tokens' = [j \in Job |-> IF j \in allocated THEN "armed" ELSE tok[j]]
    /\ worker' = [j \in Job |-> CASE j \in allocated -> "running"
                                  [] j \in (J \cap recs) \ allocated -> "Failed"
                                  [] OTHER -> wrk[j]]

(* AbortPcmJobs: the tokens after the workers of the jobs J were told.     *)
AbortPcmJobs(J) == [j \in Job |-> IF j \in J /\ tokens[j] # "none" THEN "aborted" ELSE tokens[j]]

(* The record of a job takes with it all it holds: the documents, by which *)
(* alone a request is still attributed to a page, the token, and the       *)
(* buffer, which ~SharedPcmBuffer closes.                                  *)
EraseRecords(J) ==
  /\ records' = records \ J
  /\ documents' = [j \in Job |-> IF j \in J THEN {} ELSE documents[j]]
ForgetPcmJobs(J, tok, buf) ==
  /\ EraseRecords(J)
  /\ tokens' = [j \in Job |-> IF j \in J THEN "none" ELSE tok[j]]
  /\ buffer' = [j \in Job |-> IF j \in J THEN "none" ELSE buf[j]]

(* The requests T are given up: jobs without a worker are forgotten, the   *)
(* others only aborted, for a worker still writes to their buffers.        *)
GiveUpEverything(T) ==  \* mutant of GiveUp: the aborted jobs are forgotten too
  ForgetPcmJobs(DiscardedBy(T) \cup AbortedBy(T), AbortPcmJobs(AbortedBy(T)), buffer)
GiveUp(T) == ForgetPcmJobs(DiscardedBy(T), AbortPcmJobs(AbortedBy(T)), buffer)

-----------------------------------------------------------------------------
(* AudioDecodePcm, past its synchronous rejections.                        *)
DecodePcm(h, k) ==
  /\ ~shuttingDown
  /\ Alive(h)
  /\ nextTask <= MaxTask
  /\ nextTask' = nextTask + 1
  /\ Submit(nextTask, k, CallerAt(h))
  /\ records' = records \cup {jobByTask'[nextTask]}
  /\ documents' = [documents EXCEPT ![jobByTask'[nextTask]] = @ \cup {nextTask}]
  /\ stamp' = [stamp EXCEPT ![nextTask] = [hwnd |-> h, doc |-> doc[h]]]
  /\ StartPcmJobs(Starting, records', documents', tokens, buffer, worker)
  /\ UNCHANGED <<doc, shuttingDown, told>>

(* EmitPcmCancelled finds the page among the documents of the records.     *)
AttributedTooLate(t) ==  \* mutant of Attributed: looked up after ForgetPcmJobs
  {t} \cap UNION {documents[j] : j \in records \ DiscardedBy({t})}
Attributed(t) == {t} \cap UNION {documents[j] : j \in records}

(* AudioCancelDecodePcm: the CANCELLED event still needs the document that *)
(* asked, so a reloaded page cancels in silence.                           *)
CancelDecodePcm(t, h) ==
  /\ Alive(h)
  /\ Cancel(t, CallerAt(h))
  /\ EmitTo(Attributed(t), [x \in {t} |-> "cancelled"])
  /\ GiveUp({t})
  /\ UNCHANGED <<doc, stamp, worker, nextTask, shuttingDown>>

(* The page navigates, or its host is reset or replaced: another document. *)
NewDocument(h) ==
  /\ Alive(h)
  /\ doc[h] < MaxDoc[h]
  /\ doc' = [doc EXCEPT ![h] = @ + 1]
  /\ UNCHANGED <<queueVars, stamp, documents, records, tokens, buffer, worker, nextTask, shuttingDown, told>>

(* A panel is removed: its host goes away, its requests are not cancelled. *)
ClosePanel(h) ==
  /\ Alive(h)
  /\ PageOf[h] \notin Popup
  /\ doc' = [doc EXCEPT ![h] = 0]
  /\ UNCHANGED <<queueVars, stamp, documents, records, tokens, buffer, worker, nextTask, shuttingDown, told>>

(* PopupWindow::OnDestroy: CancelAllPcmForWindow, then DestroyWebView.     *)
ClosePopup(h) ==
  /\ Alive(h)
  /\ PageOf[h] \in Popup
  /\ DropWindow(PageOf[h])
  /\ GiveUp(WaitersOfWindow(PageOf[h]))
  /\ doc' = [doc EXCEPT ![h] = 0]
  /\ UNCHANGED <<stamp, worker, nextTask, shuttingDown, told>>

(* PcmShutdownInitQuit::on_quit: a worker may still be writing, so the     *)
(* buffers are detached, not closed.                                       *)
BuffersAtQuit ==
  [j \in Job |-> IF j \in records \ queued /\ buffer[j] # "none" THEN "detached" ELSE buffer[j]]
OnQuit ==
  /\ ~shuttingDown
  /\ shuttingDown' = TRUE
  /\ DropAll
  /\ ForgetPcmJobs(queued, AbortPcmJobs(DropAllAborts), BuffersAtQuit)
  /\ UNCHANGED <<doc, stamp, worker, nextTask, told>>

(* DecodePcm returns on the worker thread and posts its result.            *)
WorkerReturns(j) ==
  /\ worker[j] = "running"
  /\ \E o \in Outcome :
       /\ o = "Aborted" => tokens[j] = "aborted"
       /\ worker' = [worker EXCEPT ![j] = o]
  /\ UNCHANGED <<queueVars, doc, stamp, documents, records, tokens, buffer, nextTask, shuttingDown, told>>

(* DeliverPcmResult: a success fails for a waiter whose page is no longer  *)
(* trusted or whose buffer post fails.                                     *)
EventsOf(o) ==
  CASE o = "Succeeded" -> {"ready", "failed"}
    [] o = "Failed" -> {"failed"}
    [] o = "Aborted" -> {"cancelled"}

(* Finish's notify, resolved in the job's documents: a cancelled request   *)
(* is still in the documents but no longer a waiter.                       *)
EveryDocument(j) == documents[j]  \* mutant of Notified
Notified(j) == waiters[j] \cap documents[j]

BuffersKept(j) == buffer          \* mutant of BuffersAfter: closed too late
BuffersAfter(j) == [buffer EXCEPT ![j] = "none"]

(* OnPcmJobFinished: deliver, close the buffer, then start the next job.   *)
OnPcmJobFinished(j) ==
  /\ worker[j] \in Outcome
  /\ j \in records
  /\ ~shuttingDown
  /\ Finish(j)
  /\ \E eventOf \in [Notified(j) -> EventsOf(worker[j])] : EmitTo(Notified(j), eventOf)
  /\ EraseRecords({j})
  /\ UNCHANGED <<doc, stamp, nextTask, shuttingDown>>
  /\ StartPcmJobs(Starting, records', documents', [tokens EXCEPT ![j] = "none"],
                  BuffersAfter(j), [worker EXCEPT ![j] = "none"])

OnLateWorker(j) ==
  /\ worker[j] \in Outcome
  /\ shuttingDown \/ j \notin records
  /\ ForgetPcmJobs({j}, tokens, buffer)
  /\ worker' = [worker EXCEPT ![j] = "none"]
  /\ UNCHANGED <<queueVars, doc, stamp, nextTask, shuttingDown, told>>

Next ==
  \/ \E h \in Hwnd, k \in Key : DecodePcm(h, k)
  \/ \E t \in Task, h \in Hwnd : CancelDecodePcm(t, h)
  \/ \E h \in Hwnd : NewDocument(h)
  \/ \E h \in Hwnd : ClosePanel(h)
  \/ \E h \in Hwnd : ClosePopup(h)
  \/ OnQuit
  \/ \E j \in Job : WorkerReturns(j)
  \/ \E j \in Job : OnPcmJobFinished(j)
  \/ \E j \in Job : OnLateWorker(j)

Fairness ==
  \A j \in Job : WF_vars(WorkerReturns(j)) /\ WF_vars(OnPcmJobFinished(j) \/ OnLateWorker(j))

Spec == Init /\ [][Next]_vars /\ Fairness

-----------------------------------------------------------------------------
(* The memory a worker writes to stays mapped until the worker is back,    *)
(* through cancellation, closed popups and quit.                           *)
NeverClosedUnderWriter ==
  \A j \in Job : worker[j] = "running" => buffer[j] \in {"open", "detached"}

(* The host holds one decode buffer at a time, and none that no job        *)
(* accounts for: a finished or discarded job leaves no open buffer behind. *)
OneOpenBuffer ==
  /\ \A i, j \in Job : buffer[i] = "open" /\ buffer[j] = "open" => i = j
  /\ \A j \in Job : buffer[j] = "open" => j \in records /\ j \in Active

(* A job that holds the slot has a worker or a posted result that will     *)
(* give the slot back, also when its buffer could not be created.          *)
SlotWillBeFreed == \A j \in Job : worker[j] # "none" <=> j \in Active \cap records

(* The strengthening the three invariants above, and the promise below,    *)
(* need.  Records and buffers exist for the queue's jobs; a job knows its  *)
(* waiters; a waiter was told nothing yet and is attributed to the page    *)
(* that asked; no stamp is ahead of the document its page shows.           *)
RecordsExact ==
  IF shuttingDown THEN records \subseteq Active
  ELSE records = {j \in Job : jobState[j] # "absent"}
BuffersExact ==
  \A j \in Job :
    /\ worker[j] = "running" => buffer[j] # "none"
    /\ buffer[j] # "none" => j \in Active \cap records
    /\ buffer[j] = "open" => ~shuttingDown
DocumentsExact ==
  \A j \in Job :
    /\ j \in records => waiters[j] \subseteq documents[j]
    /\ \A t \in documents[j] : t < nextTask /\ jobByTask[t] \in {j, NoJob}
Waiting(t) ==
  /\ ~shuttingDown /\ t < nextTask /\ told[t] = <<>>
  /\ stamp[t].hwnd \in Hwnd /\ owner[t] = CallerAt(stamp[t].hwnd)
RequestsExact ==
  /\ shuttingDown <=> closed
  /\ \A t \in Task : jobByTask[t] # NoJob => Waiting(t)
  /\ \A t \in Task : t >= nextTask => told[t] = <<>>
StampsPast ==
  \A t \in Task : stamp[t].hwnd \in Hwnd =>
    doc[stamp[t].hwnd] = 0 \/ stamp[t].doc <= doc[stamp[t].hwnd]
HostInv ==
  /\ TypeOK /\ RecordsExact /\ SlotWillBeFreed /\ BuffersExact
  /\ DocumentsExact /\ RequestsExact /\ StampsPast

(* The promise of audio.decodePcm, DecodeContract, to a document that      *)
(* asked: a request is told exactly one terminal event, and leaves the     *)
(* queue in that very step, unless its document is gone by then; whoever   *)
(* shares its job, and in whatever order cancellations, reloads, workers   *)
(* and the erasing of records come.                                        *)
Pending == {t \in Task : jobByTask[t] # NoJob}
Audience == {t \in Task : ~shuttingDown /\ (t < nextTask => IsCurrentDocument(t))}
Contract == INSTANCE DecodeContract WITH pending <- Pending, audience <- Audience
ContractSpec == Contract!Spec

(* Every request that answered `pending' is answered or dropped.           *)
EveryTaskSettles == \A t \in Task : t \in Pending ~> t \notin Pending
=============================================================================
