---------------------------- MODULE WaveformJobs ----------------------------
(***************************************************************************)
(* The host of audio.generateFullWaveform: requests, cancellation, popup   *)
(* close and quit on the main thread, and one worker per decoding job that *)
(* posts its result back to the main thread.  State of struct WaveformJobs *)
(* beside the queue it owns, the worker threads, the waveform cache, and   *)
(* the terminal events each request was sent.                              *)
(***************************************************************************)
EXTENDS WaveformTaskQueue, Sequences

CONSTANTS
  Caller,    \* identities CallerContext resolves for the pages that call
  Popup,     \* window ids of popups: the windows that close
  MaxCached  \* WaveformCache::MAX_ENTRIES

ASSUME HostAssumption ==
  /\ Caller \subseteq Identity
  /\ Popup \subseteq WindowId
  /\ MaxCached \in Nat \ {0}

VARIABLES
  specs,       \* WaveformJobs::specs
  tokens,      \* WaveformJobs::tokens: is there a token, was it aborted
  worker,      \* the worker of a job, and the outcome it posted back
  cache,       \* keys of WaveformCache, by lastAccess, oldest first
  nextTaskId,  \* g_waveformTaskIdCounter
  openWindows, \* windows not destroyed yet
  shuttingDown,
  told         \* terminal events sent to each request

hostVars == <<specs, tokens, worker, cache, nextTaskId, openWindows, shuttingDown, told>>
vars == <<queueVars, hostVars>>

Event == {"ready", "failed", "cancelled"}
Token == {"none", "armed", "aborted"}
Worker == {"none", "running"} \cup Outcome

HostTypeOK ==
  /\ specs \subseteq Job
  /\ tokens \in [Job -> Token]
  /\ worker \in [Job -> Worker]
  /\ nextTaskId \in 1..(MaxTask + 1)
  /\ openWindows \subseteq WindowId
  /\ shuttingDown \in BOOLEAN
  /\ told \in [Task -> Seq(Event)]
CacheTypeOK == cache \in Seq(Key) /\ Len(cache) <= MaxCached
TypeOK == QueueTypeOK /\ HostTypeOK /\ CacheTypeOK

Init ==
  /\ QueueInit
  /\ specs = {}
  /\ tokens = [j \in Job |-> "none"]
  /\ worker = [j \in Job |-> "none"]
  /\ cache = <<>>
  /\ nextTaskId = 1
  /\ openWindows = WindowId
  /\ shuttingDown = FALSE
  /\ told = [t \in Task |-> <<>>]

-----------------------------------------------------------------------------
CanCall(who) == who.windowId \in openWindows \cup {NoWindow}

Send(T, e) == told' = [t \in Task |-> IF t \in T THEN Append(told[t], e) ELSE told[t]]

(* The jobs the queue starts in this step, read off its own decision.      *)
Starting == {j \in Job : jobState'[j] = "decoding" /\ jobState[j] # "decoding"}

(* Mutant of StartWaveformJobs: it runs before the spec is stored.         *)
StartWithStoredSpecs(J, tok, wrk, spc) ==
  /\ tokens' = [j \in Job |-> IF j \in J \cap specs THEN "armed" ELSE tok[j]]
  /\ worker' = [j \in Job |-> IF j \in J \cap specs THEN "running" ELSE wrk[j]]
(* StartWaveformJobs: a fresh token and a worker for each job that has a   *)
(* spec.                                                                   *)
StartWaveformJobs(J, tok, wrk, spc) ==
  /\ tokens' = [j \in Job |-> IF j \in J \cap spc THEN "armed" ELSE tok[j]]
  /\ worker' = [j \in Job |-> IF j \in J \cap spc THEN "running" ELSE wrk[j]]

AbortWaveformJobs(J) ==
  tokens' = [j \in Job |-> IF j \in J /\ tokens[j] # "none" THEN "aborted" ELSE tokens[j]]

(* Mutant of ForgetWaveformJobs: the specs of discarded jobs stay.         *)
ForgetNothing(J) == UNCHANGED specs
ForgetWaveformJobs(J) == specs' = specs \ J

(* WaveformCache: a hit or a write makes the key the most recent; writing  *)
(* a new key to a full cache evicts the least recent one.                  *)
Place(c, k) == CHOOSE i \in 1..Len(c) : c[i] = k
Touch(c, k) ==
  IF \A i \in 1..Len(c) : c[i] # k THEN Append(c, k)
  ELSE SubSeq(c, 1, Place(c, k) - 1) \o SubSeq(c, Place(c, k) + 1, Len(c)) \o <<k>>
Cached(k) == \E i \in 1..Len(cache) : cache[i] = k
PutInCacheUnbounded(k) == cache' = Touch(cache, k)  \* mutant of PutInCache
PutInCache(k) ==
  cache' = IF ~Cached(k) /\ Len(cache) >= MaxCached THEN Append(Tail(cache), k)
           ELSE Touch(cache, k)

-----------------------------------------------------------------------------
(* AudioGenerateFullWaveform with preferCache, answered from the cache.    *)
AnswerFromCache(k, who) ==
  /\ CanCall(who)
  /\ Cached(k)
  /\ cache' = Touch(cache, k)
  /\ UNCHANGED <<queueVars, specs, tokens, worker, nextTaskId, openWindows, shuttingDown, told>>

(* The same request answered `pending', preferCache off or the key absent. *)
GenerateFullWaveform(k, who, preferCache) ==
  /\ CanCall(who)
  /\ ~(preferCache /\ Cached(k))
  /\ ~shuttingDown
  /\ nextTaskId <= MaxTask
  /\ nextTaskId' = nextTaskId + 1
  /\ Submit(nextTaskId, k, who)
  /\ specs' = IF openByKey[k] = NoJob THEN specs \cup {nextJobId} ELSE specs
  /\ StartWaveformJobs(Starting, tokens, worker, specs')
  /\ UNCHANGED <<cache, openWindows, shuttingDown, told>>

(* AudioCancelFullWaveform.                                                *)
CancelFullWaveform(t, who) ==
  /\ CanCall(who)
  /\ Cancel(t, who)
  /\ Send({t}, "cancelled")
  /\ AbortWaveformJobs(AbortedBy({t}))
  /\ ForgetWaveformJobs(DiscardedBy({t}))
  /\ UNCHANGED <<worker, cache, nextTaskId, openWindows, shuttingDown>>

(* PopupWindow::OnDestroy: CancelAllWaveformTasksForWindow, then the       *)
(* popup's page is destroyed.                                              *)
ClosePopup(w) ==
  /\ w \in openWindows
  /\ DropWindow(w)
  /\ AbortWaveformJobs(AbortedBy(WaitersOfWindow(w)))
  /\ ForgetWaveformJobs(DiscardedBy(WaitersOfWindow(w)))
  /\ openWindows' = openWindows \ {w}
  /\ UNCHANGED <<worker, cache, nextTaskId, shuttingDown, told>>

(* WaveformShutdownInitQuit::on_quit.                                      *)
OnQuit ==
  /\ ~shuttingDown
  /\ shuttingDown' = TRUE
  /\ DropAll
  /\ AbortWaveformJobs(DropAllAborts)
  /\ ForgetWaveformJobs(queued)
  /\ UNCHANGED <<worker, cache, nextTaskId, openWindows, told>>

(* DecodeWaveform returns on the worker: it may have passed its last abort *)
(* check, so an aborted job can still succeed or fail; only an aborted     *)
(* token makes it throw exception_aborted.                                 *)
WorkerReturns(j) ==
  /\ worker[j] = "running"
  /\ \E o \in Outcome :
       /\ o = "Aborted" => tokens[j] = "aborted"
       /\ worker' = [worker EXCEPT ![j] = o]
  /\ UNCHANGED <<queueVars, specs, tokens, cache, nextTaskId, openWindows, shuttingDown, told>>

EventOf(o) ==
  CASE o = "Succeeded" -> "ready" [] o = "Failed" -> "failed" [] o = "Aborted" -> "cancelled"

(* OnWaveformJobFinished, before and after on_quit.                        *)
OnWaveformJobFinished(j) ==
  /\ worker[j] \in Outcome
  /\ j \in specs
  /\ ~shuttingDown
  /\ specs' = specs \ {j}
  /\ Finish(j)
  /\ IF worker[j] = "Succeeded" THEN PutInCache(jobKey[j]) ELSE UNCHANGED cache
  /\ Send(waiters[j], EventOf(worker[j]))
  /\ StartWaveformJobs(Starting, [tokens EXCEPT ![j] = "none"], [worker EXCEPT ![j] = "none"],
                       specs')
  /\ UNCHANGED <<nextTaskId, openWindows, shuttingDown>>

OnLateWorker(j) ==
  /\ worker[j] \in Outcome
  /\ shuttingDown \/ j \notin specs
  /\ specs' = specs \ {j}
  /\ tokens' = [tokens EXCEPT ![j] = "none"]
  /\ worker' = [worker EXCEPT ![j] = "none"]
  /\ UNCHANGED <<queueVars, cache, nextTaskId, openWindows, shuttingDown, told>>

Next ==
  \/ \E k \in Key, who \in Caller : AnswerFromCache(k, who)
  \/ \E k \in Key, who \in Caller, p \in BOOLEAN : GenerateFullWaveform(k, who, p)
  \/ \E t \in Task, who \in Caller : CancelFullWaveform(t, who)
  \/ \E w \in Popup : ClosePopup(w)
  \/ OnQuit
  \/ \E j \in Job : WorkerReturns(j)
  \/ \E j \in Job : OnWaveformJobFinished(j)
  \/ \E j \in Job : OnLateWorker(j)

(* A decoder ends or sees the abort, and the main thread runs what is      *)
(* posted to it.  Nothing is assumed about pages.                          *)
Fairness ==
  \A j \in Job : WF_vars(WorkerReturns(j)) /\ WF_vars(OnWaveformJobFinished(j) \/ OnLateWorker(j))

Spec == Init /\ [][Next]_vars /\ Fairness

-----------------------------------------------------------------------------
(* What the host keeps per job follows the queue: each job has a spec, a   *)
(* job that holds a slot has a worker that is running or has a result on   *)
(* its way, and its token is aborted exactly when the queue gave up on it. *)
(* A slot without a worker would never be given back.                      *)
SpecsExact ==
  IF shuttingDown THEN specs \subseteq Active
  ELSE specs = {j \in Job : jobState[j] # "absent"}
WorkersExact == \A j \in Job : worker[j] # "none" <=> j \in Active \cap specs
TokensExact ==
  \A j \in Job :
    /\ tokens[j] = "armed" <=> j \in specs /\ jobState[j] = "decoding"
    /\ tokens[j] = "aborted" <=> j \in specs /\ jobState[j] = "aborting"
AbortsExact == \A j \in Job : worker[j] = "Aborted" => jobState[j] = "aborting"
RecordsFollowQueue == SpecsExact /\ WorkersExact /\ TokensExact /\ AbortsExact

(* No request is left in the queue for a popup that has closed or a        *)
(* process that is quitting: nobody could be told, so it would only hold   *)
(* a decoder.  `closed' and the host's own flag agree.                     *)
PendingReachable ==
  /\ shuttingDown <=> closed
  /\ \A t \in Task : jobByTask[t] # NoJob => ~shuttingDown /\ CanCall(owner[t])

(* Ids not handed out yet have no history.                                 *)
TasksFresh ==
  \A t \in Task : t >= nextTaskId
    => jobByTask[t] = NoJob /\ owner[t] = Nobody /\ told[t] = <<>>

(* Inductive: the promise to the page needs the queue, the records and the *)
(* ids to agree.                                                           *)
HostInv == HostTypeOK /\ RecordsFollowQueue /\ PendingReachable /\ TasksFresh

(* A request is told `cancelled' only in the step in which it is itself    *)
(* cancelled by someone who may: giving up on a job never takes down a     *)
(* request of another page that wants the same track.                      *)
CancelledOnlyIfAsked ==
  [][\A t \in Task : told'[t] # told[t] /\ told'[t][Len(told'[t])] = "cancelled"
       => \E who \in Caller : CancelFullWaveform(t, who)]_vars

(* The promise to the page, with who can still be told.                    *)
Pending == {t \in Task : jobByTask[t] # NoJob}
Audience == {t \in Task : ~shuttingDown /\ CanCall(owner[t])}
Contract == INSTANCE DecodeContract WITH pending <- Pending, audience <- Audience
ContractSpec == Contract!Spec

(* Every request that answered `pending' is answered or dropped in the end *)
(* however many others are ahead of it.                                    *)
EveryTaskSettles == \A t \in Task : t \in Pending ~> t \notin Pending
=============================================================================
