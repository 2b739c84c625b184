-------------------------- MODULE WaveformJobsProofs --------------------------
(***************************************************************************)
(* The host keeps the queue's rules and its own records in step with it,   *)
(* so it keeps the promise of DecodeContract to every page, for any number *)
(* of requests, slots, tracks, popups and callers.                         *)
(***************************************************************************)
EXTENDS WaveformJobs, WaveformTaskQueueProofs, SequenceTheorems

Inv == QueueInv /\ HostInv

(* The host calls nothing but the queue's operations, with a task id it    *)
(* has just generated.                                                     *)
LEMMA HostStepsQueue ==
  ASSUME HostInv, [Next]_vars
  PROVE  [QueueNext]_queueVars
<1> USE HostAssumption
<1>1. ASSUME NEW k \in Key, NEW who \in Caller, NEW p \in BOOLEAN, GenerateFullWaveform(k, who, p)
      PROVE  QueueNext
  <2>1. nextTaskId \in Task
    BY <1>1, QueueAssumption DEF HostInv, HostTypeOK, GenerateFullWaveform, Task
  <2> QED BY <1>1, <2>1 DEF GenerateFullWaveform, QueueNext
<1>2. ASSUME NEW t \in Task, NEW who \in Caller, CancelFullWaveform(t, who)
      PROVE  QueueNext
  BY <1>2 DEF CancelFullWaveform, QueueNext
<1>3. ASSUME NEW w \in Popup, ClosePopup(w) PROVE QueueNext
  BY <1>3 DEF ClosePopup, QueueNext
<1>4. CASE OnQuit
  BY <1>4 DEF OnQuit, QueueNext
<1>5. ASSUME NEW j \in Job, OnWaveformJobFinished(j) PROVE QueueNext
  BY <1>5 DEF OnWaveformJobFinished, QueueNext
<1>6. ASSUME NEW j \in Job, WorkerReturns(j) \/ OnLateWorker(j) PROVE UNCHANGED queueVars
  BY <1>6 DEF WorkerReturns, OnLateWorker
<1>7. ASSUME NEW k \in Key, NEW who \in Caller, AnswerFromCache(k, who)
      PROVE  UNCHANGED queueVars
  BY <1>7 DEF AnswerFromCache
<1>8. CASE UNCHANGED vars
  BY <1>8 DEF vars
<1> QED BY <1>1, <1>2, <1>3, <1>4, <1>5, <1>6, <1>7, <1>8 DEF Next

LEMMA InitInv == Init => Inv
<1> SUFFICES ASSUME Init PROVE Inv
  OBVIOUS
<1>1. QueueInv
  BY QueueInitInv DEF Init
<1>2. HostTypeOK
  <2>1. nextTaskId \in 1..(MaxTask + 1)
    BY QueueAssumption DEF Init
  <2>2. told \in [Task -> Seq(Event)]
    BY DEF Init
  <2> QED BY <2>1, <2>2 DEF Init, HostTypeOK, Token, Worker
<1>3. RecordsFollowQueue
  BY DEF Init, QueueInit, RecordsFollowQueue, SpecsExact, WorkersExact, TokensExact, AbortsExact
<1>4. PendingReachable
  BY DEF Init, QueueInit, PendingReachable
<1>5. TasksFresh
  BY DEF Init, QueueInit, TasksFresh
<1> QED BY <1>1, <1>2, <1>3, <1>4, <1>5 DEF Inv, HostInv

-----------------------------------------------------------------------------
(* Giving up on jobs: the specs of the discarded ones are erased, the      *)
(* tokens of the aborted ones fire, and no worker is touched.              *)
LEMMA GiveUpRecords ==
  ASSUME QueueInv, HostTypeOK, RecordsFollowQueue,
         NEW D \in SUBSET Job, NEW A \in SUBSET Job,
         \A j \in Job :
           /\ j \in D => jobState[j] = "queued" /\ jobState'[j] = "absent"
           /\ j \in A => jobState[j] = "decoding" /\ jobState'[j] = "aborting"
           /\ j \notin D \cup A => jobState'[j] = jobState[j],
         ~shuttingDown, shuttingDown' => \A j \in Job : jobState'[j] # "queued",
         AbortWaveformJobs(A), ForgetWaveformJobs(D), worker' = worker
  PROVE  RecordsFollowQueue'
<1>1. specs = {j \in Job : jobState[j] # "absent"} /\ specs' = specs \ D
  BY DEF RecordsFollowQueue, SpecsExact, ForgetWaveformJobs
<1>2. specs' = {j \in Job : jobState'[j] # "absent"}
  BY <1>1
<1>3. \A j \in Job : jobState'[j] \in JobState
  BY DEF QueueInv, QueueTypeOK, JobState
<1>4. SpecsExact'
  BY <1>2, <1>3 DEF SpecsExact, Active, ActiveIn, JobState
<1>5. Active' = Active
  BY DEF Active, ActiveIn
<1>6. WorkersExact'
  BY <1>1, <1>2, <1>5 DEF RecordsFollowQueue, WorkersExact, Active, ActiveIn
<1>7. TokensExact'
  <2> SUFFICES ASSUME NEW j \in Job
               PROVE  /\ tokens'[j] = "armed" <=> j \in specs' /\ jobState'[j] = "decoding"
                      /\ tokens'[j] = "aborted" <=> j \in specs' /\ jobState'[j] = "aborting"
    BY DEF TokensExact
  <2>1. /\ tokens[j] = "armed" <=> j \in specs /\ jobState[j] = "decoding"
        /\ tokens[j] = "aborted" <=> j \in specs /\ jobState[j] = "aborting"
    BY DEF RecordsFollowQueue, TokensExact
  <2>2. tokens'[j] = IF j \in A /\ tokens[j] # "none" THEN "aborted" ELSE tokens[j]
    BY DEF AbortWaveformJobs
  <2> QED BY <2>1, <2>2, <1>1, <1>2
<1>8. AbortsExact'
  BY DEF RecordsFollowQueue, AbortsExact
<1> QED BY <1>4, <1>6, <1>7, <1>8 DEF RecordsFollowQueue

(* Starting jobs: a fresh token and a worker for exactly the jobs that the *)
(* queue has just moved into a slot.                                       *)
LEMMA StartRecords ==
  ASSUME QueueInv', ~shuttingDown',
         specs' = {j \in Job : jobState'[j] # "absent"},
         NEW tok, NEW wrk, StartWaveformJobs(Starting, tok, wrk, specs'),
         \A j \in Job \ Starting :
           /\ tok[j] = "armed" <=> jobState'[j] = "decoding"
           /\ tok[j] = "aborted" <=> jobState'[j] = "aborting"
           /\ wrk[j] # "none" <=> jobState'[j] \in {"decoding", "aborting"}
           /\ wrk[j] = "Aborted" => jobState'[j] = "aborting"
  PROVE  RecordsFollowQueue'
<1>1. \A j \in Job : jobState'[j] \in JobState
  BY DEF QueueInv, QueueTypeOK, JobState
<1>2. \A j \in Starting : j \in Job /\ jobState'[j] = "decoding" /\ j \in specs'
  BY DEF Starting
<1>3. \A j \in Job : /\ tokens'[j] = IF j \in Starting THEN "armed" ELSE tok[j]
                    /\ worker'[j] = IF j \in Starting THEN "running" ELSE wrk[j]
  BY <1>2 DEF StartWaveformJobs
<1>4. SpecsExact'
  BY DEF SpecsExact
<1>5. \A j \in Job : j \in Active' \cap specs' <=> jobState'[j] \in {"decoding", "aborting"}
  BY DEF Active, ActiveIn
<1>6. WorkersExact'
  BY <1>2, <1>3, <1>5 DEF WorkersExact
<1>7. TokensExact'
  BY <1>2, <1>3 DEF TokensExact
<1>8. AbortsExact'
  BY <1>2, <1>3 DEF AbortsExact
<1> QED BY <1>4, <1>6, <1>7, <1>8 DEF RecordsFollowQueue

LEMMA GenerateRecords ==
  ASSUME Inv, QueueInv', NEW k \in Key, NEW who \in Caller, NEW p \in BOOLEAN,
         GenerateFullWaveform(k, who, p)
  PROVE  RecordsFollowQueue'
<1>1. nextTaskId \in Task /\ who \in Identity
  BY QueueAssumption, HostAssumption DEF Inv, HostInv, HostTypeOK, GenerateFullWaveform, Task
<1>2. /\ ~shuttingDown /\ ~shuttingDown'
      /\ specs = {j \in Job : jobState[j] # "absent"}
      /\ StartWaveformJobs(Starting, tokens, worker, specs')
  BY DEF GenerateFullWaveform, Inv, HostInv, RecordsFollowQueue, SpecsExact
<1>3. \A j \in Job :
        /\ tokens[j] = "armed" <=> jobState[j] = "decoding"
        /\ tokens[j] = "aborted" <=> jobState[j] = "aborting"
        /\ worker[j] # "none" <=> jobState[j] \in {"decoding", "aborting"}
        /\ worker[j] = "Aborted" => jobState[j] = "aborting"
  BY <1>2 DEF Inv, HostInv, RecordsFollowQueue, TokensExact, WorkersExact, AbortsExact, Active, ActiveIn
<1>4. \A j \in Starting : j \in Job /\ jobState'[j] = "decoding" /\ jobState[j] # "decoding"
  BY DEF Starting
<1>5. \A j \in Job \ Starting : ~(jobState'[j] = "decoding" /\ jobState[j] # "decoding")
  BY DEF Starting
<1>6. CASE SubmitMerged(nextTaskId, k, who)
  <2>1. jobState' = jobState /\ specs' = specs
    BY <1>6 DEF SubmitMerged, GenerateFullWaveform
  <2> QED BY <2>1, <1>2, <1>3, StartRecords
<1>7. CASE SubmitNew(nextTaskId, k, who)
  <2> DEFINE n == nextJobId
  <2>1. /\ n \in Job /\ jobState[n] = "absent" /\ jobState'[n] \in {"queued", "decoding"}
        /\ \A j \in Job \ {n} : \/ jobState'[j] = jobState[j]
                                \/ jobState[j] = "queued" /\ jobState'[j] = "decoding"
    BY <1>1, <1>7, SubmitStates DEF Inv
  <2>2. specs' = specs \cup {n}
    BY <1>7 DEF SubmitNew, GenerateFullWaveform
  <2>3. specs' = {j \in Job : jobState'[j] # "absent"}
    BY <2>1, <2>2, <1>2
  <2> QED BY <2>1, <2>2, <2>3, <1>2, <1>3, <1>5, StartRecords
<1> QED BY <1>6, <1>7 DEF GenerateFullWaveform, Submit

LEMMA FinishRecords ==
  ASSUME Inv, QueueInv', NEW n \in Job, OnWaveformJobFinished(n)
  PROVE  RecordsFollowQueue'
<1> DEFINE tok == [tokens EXCEPT ![n] = "none"]
           wrk == [worker EXCEPT ![n] = "none"]
<1>1. /\ ~shuttingDown'
      /\ specs = {j \in Job : jobState[j] # "absent"}
      /\ specs' = specs \ {n}
      /\ StartWaveformJobs(Starting, tok, wrk, specs')
  BY DEF OnWaveformJobFinished, Inv, HostInv, RecordsFollowQueue, SpecsExact
<1>2. /\ jobState'[n] = "absent"
      /\ \A j \in Job \ {n} : \/ jobState'[j] = jobState[j]
                              \/ jobState[j] = "queued" /\ jobState'[j] = "decoding"
  BY FinishStates DEF OnWaveformJobFinished, Inv
<1>3. specs' = {j \in Job : jobState'[j] # "absent"}
  BY <1>1, <1>2
<1>4. \A j \in Job :
        /\ tokens[j] = "armed" <=> jobState[j] = "decoding"
        /\ tokens[j] = "aborted" <=> jobState[j] = "aborting"
        /\ worker[j] # "none" <=> jobState[j] \in {"decoding", "aborting"}
        /\ worker[j] = "Aborted" => jobState[j] = "aborting"
  BY <1>1 DEF Inv, HostInv, RecordsFollowQueue, TokensExact, WorkersExact, AbortsExact,
              Active, ActiveIn
<1>5. \A j \in Job : /\ tok[j] = IF j = n THEN "none" ELSE tokens[j]
                    /\ wrk[j] = IF j = n THEN "none" ELSE worker[j]
  BY DEF Inv, HostInv, HostTypeOK
<1>6. \A j \in Job \ Starting : ~(jobState'[j] = "decoding" /\ jobState[j] # "decoding")
  BY DEF Starting
<1> HIDE DEF tok, wrk
<1>7. \A j \in Job \ Starting :
        /\ tok[j] = "armed" <=> jobState'[j] = "decoding"
        /\ tok[j] = "aborted" <=> jobState'[j] = "aborting"
        /\ wrk[j] # "none" <=> jobState'[j] \in {"decoding", "aborting"}
        /\ wrk[j] = "Aborted" => jobState'[j] = "aborting"
  BY <1>2, <1>4, <1>5, <1>6
<1> QED BY <1>1, <1>3, <1>7, StartRecords

LEMMA RecordsStep ==
  ASSUME Inv, QueueInv', [Next]_vars
  PROVE  RecordsFollowQueue'
<1> USE DEF Inv, HostInv
<1>1. ASSUME NEW k \in Key, NEW who \in Caller, NEW p \in BOOLEAN, GenerateFullWaveform(k, who, p)
      PROVE  RecordsFollowQueue'
  BY <1>1, GenerateRecords
<1>2. ASSUME NEW T \in SUBSET Task, RemoveWaiters(T), AbortWaveformJobs(AbortedBy(T)),
             ForgetWaveformJobs(DiscardedBy(T)), worker' = worker, shuttingDown' = shuttingDown
      PROVE  RecordsFollowQueue'
  <2>1. CASE ~shuttingDown
    <3>1. DiscardedBy(T) \in SUBSET Job /\ AbortedBy(T) \in SUBSET Job
      BY DEF DiscardedBy, AbortedBy, Emptied
    <3> QED BY <1>2, <2>1, <3>1, RemovalStates, GiveUpRecords
  <2>2. CASE shuttingDown
    <3>1. \A j \in Job : waiters[j] = {}
      <4>1. \A t \in Task, j \in Job : jobByTask[t] # j
        BY <2>2, QueueAssumption DEF PendingReachable, Job, NoJob
      <4> QED BY <4>1 DEF QueueInv, QueueTypeOK, IndexesExact, TaskIndexExact
    <3>2. DiscardedBy(T) = {} /\ AbortedBy(T) = {}
      BY <3>1 DEF DiscardedBy, AbortedBy, Emptied
    <3>3. \A j \in Job : jobState'[j] = jobState[j]
      BY <1>2, <3>2, RemovalStates
    <3>4. specs' = specs /\ \A j \in Job : tokens'[j] = tokens[j]
      BY <1>2, <3>2 DEF ForgetWaveformJobs, AbortWaveformJobs
    <3>5. Active' = Active
      BY <3>3 DEF Active, ActiveIn
    <3> QED BY <1>2, <2>2, <3>3, <3>4, <3>5
            DEF RecordsFollowQueue, SpecsExact, WorkersExact, TokensExact, AbortsExact
  <2> QED BY <2>1, <2>2
<1>3. ASSUME NEW t \in Task, NEW who \in Caller, CancelFullWaveform(t, who)
      PROVE  RecordsFollowQueue'
  BY <1>2, <1>3, {t} \in SUBSET Task DEF CancelFullWaveform, Cancel
<1>4. ASSUME NEW w \in Popup, ClosePopup(w) PROVE RecordsFollowQueue'
  BY <1>2, <1>4, WaitersOfWindow(w) \in SUBSET Task DEF ClosePopup, DropWindow, WaitersOfWindow
<1>5. CASE OnQuit
  <2>1. queued \in SUBSET Job /\ DropAllAborts \in SUBSET Job
    BY DEF QueueInv, QueueTypeOK, DropAllAborts
  <2>2. \A j \in Job :
          /\ j \in queued => jobState[j] = "queued" /\ jobState'[j] = "absent"
          /\ j \in DropAllAborts => jobState[j] = "decoding" /\ jobState'[j] = "aborting"
          /\ j \notin queued \cup DropAllAborts => jobState'[j] = jobState[j]
    BY <1>5, DropAllStates DEF OnQuit
  <2>3. \A j \in Job : jobState'[j] # "queued"
    BY <1>5, <2>2 DEF OnQuit, DropAll, QueueInv, IndexesExact, QueuedExact
  <2> QED BY <1>5, <2>1, <2>2, <2>3, GiveUpRecords DEF OnQuit
<1>6. ASSUME NEW j \in Job, OnWaveformJobFinished(j) PROVE RecordsFollowQueue'
  BY <1>6, FinishRecords
<1>7. ASSUME NEW j \in Job, WorkerReturns(j) PROVE RecordsFollowQueue'
  <2>1. PICK o \in Outcome : /\ o = "Aborted" => tokens[j] = "aborted"
                             /\ worker' = [worker EXCEPT ![j] = o]
    BY <1>7 DEF WorkerReturns
  <2>2. UNCHANGED <<queueVars, specs, tokens, shuttingDown>> /\ worker[j] # "none" /\ o # "none"
    BY <1>7, <2>1 DEF WorkerReturns, Outcome
  <2>3. \A i \in Job : worker'[i] # "none" <=> worker[i] # "none"
    BY <2>1, <2>2 DEF HostTypeOK
  <2>4. WorkersExact' /\ SpecsExact' /\ TokensExact'
    BY <2>2, <2>3 DEF queueVars, RecordsFollowQueue, SpecsExact, WorkersExact, TokensExact,
                      Active, ActiveIn
  <2>5. AbortsExact'
    BY <2>1, <2>2 DEF queueVars, RecordsFollowQueue, AbortsExact, TokensExact, HostTypeOK
  <2> QED BY <2>4, <2>5 DEF RecordsFollowQueue
<1>8. ASSUME NEW j \in Job, OnLateWorker(j) PROVE RecordsFollowQueue'
  <2>1. /\ UNCHANGED <<queueVars, shuttingDown>>
        /\ worker[j] # "none"
        /\ specs' = specs \ {j}
        /\ tokens' = [tokens EXCEPT ![j] = "none"]
        /\ worker' = [worker EXCEPT ![j] = "none"]
        /\ shuttingDown \/ j \notin specs
    BY <1>8 DEF OnLateWorker, Outcome
  <2>2. shuttingDown
    BY <2>1 DEF RecordsFollowQueue, WorkersExact
  <2>3. SpecsExact' /\ WorkersExact'
    BY <2>1, <2>2 DEF queueVars, RecordsFollowQueue, SpecsExact, WorkersExact, Active, ActiveIn,
                      HostTypeOK
  <2>4. TokensExact' /\ AbortsExact'
    BY <2>1 DEF queueVars, RecordsFollowQueue, TokensExact, AbortsExact, HostTypeOK
  <2> QED BY <2>3, <2>4 DEF RecordsFollowQueue
<1>9. ASSUME \/ \E k \in Key, who \in Caller : AnswerFromCache(k, who)
             \/ UNCHANGED vars
      PROVE  RecordsFollowQueue'
  <2>1. UNCHANGED <<queueVars, specs, tokens, worker, shuttingDown>>
    BY <1>9 DEF AnswerFromCache, vars, hostVars
  <2> QED BY <2>1 DEF queueVars, RecordsFollowQueue, SpecsExact, WorkersExact, TokensExact,
                      AbortsExact, Active, ActiveIn
<1> QED BY <1>1, <1>3, <1>4, <1>5, <1>6, <1>7, <1>8, <1>9 DEF Next

-----------------------------------------------------------------------------
(* Only Submit makes a request pending, and only for a page that is open;  *)
(* closing a popup and quitting take their requests out of the queue.      *)
LEMMA PendingStep ==
  ASSUME Inv, [Next]_vars
  PROVE  PendingReachable' /\ TasksFresh'
<1> USE DEF Inv, HostInv
<1> DEFINE Reach(t) == jobByTask[t] # NoJob => ~shuttingDown /\ CanCall(owner[t])
           Fresh(t) == t >= nextTaskId
                         => jobByTask[t] = NoJob /\ owner[t] = Nobody /\ told[t] = <<>>
<1>0. \A t \in Task : Reach(t) /\ Fresh(t)
  BY DEF PendingReachable, TasksFresh
<1>1. ASSUME \A t \in Task : jobByTask'[t] \in {jobByTask[t], NoJob},
             UNCHANGED <<owner, openWindows, shuttingDown, closed, nextTaskId>>,
             \A t \in Task : told'[t] = told[t] \/ jobByTask[t] # NoJob
      PROVE  PendingReachable' /\ TasksFresh'
  BY <1>0, <1>1 DEF PendingReachable, TasksFresh, CanCall
<1>2. ASSUME NEW k \in Key, NEW who \in Caller, NEW p \in BOOLEAN, GenerateFullWaveform(k, who, p)
      PROVE  PendingReachable' /\ TasksFresh'
  <2>1. /\ nextTaskId \in Task /\ nextTaskId \in Nat /\ nextTaskId' = nextTaskId + 1
        /\ ~shuttingDown /\ CanCall(who)
        /\ UNCHANGED <<openWindows, shuttingDown, told>>
    BY <1>2, QueueAssumption DEF GenerateFullWaveform, HostTypeOK, Task
  <2>2. /\ closed' = closed
        /\ owner' = [owner EXCEPT ![nextTaskId] = who]
        /\ \A t \in Task \ {nextTaskId} : jobByTask'[t] = jobByTask[t]
    BY <1>2, <2>1 DEF GenerateFullWaveform, Submit, SubmitMerged, SubmitNew, QueueInv, QueueTypeOK
  <2>3. \A t \in Task : t >= nextTaskId + 1 => t # nextTaskId /\ t >= nextTaskId
    BY <2>1, QueueAssumption DEF Task
  <2>4. PendingReachable'
    BY <1>0, <2>1, <2>2 DEF PendingReachable, CanCall, QueueInv, QueueTypeOK
  <2>5. TasksFresh'
    BY <1>0, <2>1, <2>2, <2>3 DEF TasksFresh, QueueInv, QueueTypeOK
  <2> QED BY <2>4, <2>5
<1>3. ASSUME NEW t \in Task, NEW who \in Caller, CancelFullWaveform(t, who)
      PROVE  PendingReachable' /\ TasksFresh'
  BY <1>1, <1>3 DEF CancelFullWaveform, Cancel, RemoveWaiters, Send
<1>4. ASSUME NEW w \in Popup, ClosePopup(w) PROVE PendingReachable' /\ TasksFresh'
  <2>1. /\ \A t \in Task : jobByTask'[t] = IF t \in WaitersOfWindow(w) THEN NoJob ELSE jobByTask[t]
        /\ openWindows' = openWindows \ {w}
        /\ UNCHANGED <<owner, shuttingDown, closed, nextTaskId, told>>
    BY <1>4 DEF ClosePopup, DropWindow, RemoveWaiters
  <2>2. \A t \in Task : t \in WaitersOfWindow(w) <=> jobByTask[t] # NoJob /\ owner[t].windowId = w
    BY DEF WaitersOfWindow
  <2>3. PendingReachable'
    BY <1>0, <2>1, <2>2 DEF PendingReachable, CanCall
  <2>4. TasksFresh'
    BY <1>0, <2>1 DEF TasksFresh
  <2> QED BY <2>3, <2>4
<1>5. CASE OnQuit
  BY <1>0, <1>5 DEF OnQuit, DropAll, PendingReachable, TasksFresh
<1>6. ASSUME NEW j \in Job, OnWaveformJobFinished(j) PROVE PendingReachable' /\ TasksFresh'
  <2>1. \A t \in waiters[j] : t \in Task /\ jobByTask[t] = j /\ j # NoJob
    BY QueueAssumption DEF QueueInv, QueueTypeOK, IndexesExact, TaskIndexExact, Job, NoJob
  <2>2. \A t \in Task : told'[t] = told[t] \/ jobByTask[t] # NoJob
    BY <1>6, <2>1 DEF OnWaveformJobFinished, Send
  <2>3. \A t \in Task : jobByTask'[t] \in {jobByTask[t], NoJob}
    BY <1>6 DEF OnWaveformJobFinished, Finish
  <2>4. UNCHANGED <<owner, openWindows, shuttingDown, closed, nextTaskId>>
    BY <1>6 DEF OnWaveformJobFinished, Finish
  <2> QED BY <1>1, <2>2, <2>3, <2>4
<1>7. ASSUME \/ \E j \in Job : WorkerReturns(j) \/ OnLateWorker(j)
             \/ \E k \in Key, who \in Caller : AnswerFromCache(k, who)
             \/ UNCHANGED vars
      PROVE  PendingReachable' /\ TasksFresh'
  BY <1>1, <1>7 DEF WorkerReturns, OnLateWorker, AnswerFromCache, vars, hostVars, queueVars
<1> QED BY <1>2, <1>3, <1>4, <1>5, <1>6, <1>7 DEF Next

LEMMA HostTypeStep ==
  ASSUME Inv, [Next]_vars
  PROVE  HostTypeOK'
<1> USE DEF Inv, HostInv
<1>1. ASSUME NEW T \in SUBSET Task, NEW e \in Event, Send(T, e)
      PROVE  told' \in [Task -> Seq(Event)]
  <2>1. \A t \in Task : told[t] \in Seq(Event) /\ Append(told[t], e) \in Seq(Event)
    BY DEF HostTypeOK
  <2> QED BY <1>1, <2>1 DEF Send
<1>2. ASSUME NEW J, NEW tok \in [Job -> Token], NEW wrk \in [Job -> Worker], NEW spc,
             StartWaveformJobs(J, tok, wrk, spc)
      PROVE  tokens' \in [Job -> Token] /\ worker' \in [Job -> Worker]
  BY <1>2 DEF StartWaveformJobs, Token, Worker
<1>3. ASSUME NEW J, AbortWaveformJobs(J) PROVE tokens' \in [Job -> Token]
  BY <1>3 DEF AbortWaveformJobs, HostTypeOK, Token
<1>4. ASSUME NEW k \in Key, NEW who \in Caller, NEW p \in BOOLEAN, GenerateFullWaveform(k, who, p)
      PROVE  HostTypeOK'
  <2>1. nextTaskId' \in 1..(MaxTask + 1)
    BY <1>4, QueueAssumption DEF GenerateFullWaveform, HostTypeOK
  <2>2. specs' \subseteq Job
    <3>1. openByKey[k] = NoJob => nextJobId \in Job
      BY <1>4, QueueAssumption
         DEF GenerateFullWaveform, Submit, SubmitMerged, SubmitNew, QueueInv, QueueTypeOK, Job
    <3> QED BY <1>4, <3>1 DEF GenerateFullWaveform, HostTypeOK
  <2>3. tokens' \in [Job -> Token] /\ worker' \in [Job -> Worker]
    BY <1>2, <1>4 DEF GenerateFullWaveform, HostTypeOK
  <2> QED BY <1>4, <2>1, <2>2, <2>3 DEF GenerateFullWaveform, HostTypeOK
<1>5. ASSUME NEW t \in Task, NEW who \in Caller, CancelFullWaveform(t, who) PROVE HostTypeOK'
  BY <1>1, <1>3, <1>5, {t} \in SUBSET Task, "cancelled" \in Event
     DEF CancelFullWaveform, ForgetWaveformJobs, HostTypeOK, Event
<1>6. ASSUME NEW w \in Popup, ClosePopup(w) PROVE HostTypeOK'
  BY <1>3, <1>6 DEF ClosePopup, ForgetWaveformJobs, HostTypeOK
<1>7. CASE OnQuit
  BY <1>3, <1>7 DEF OnQuit, ForgetWaveformJobs, HostTypeOK
<1>8. ASSUME NEW j \in Job, WorkerReturns(j) PROVE HostTypeOK'
  BY <1>8 DEF WorkerReturns, HostTypeOK, Worker
<1>9. ASSUME NEW j \in Job, OnWaveformJobFinished(j) PROVE HostTypeOK'
  <2>1. EventOf(worker[j]) \in Event /\ waiters[j] \in SUBSET Task
    BY <1>9 DEF OnWaveformJobFinished, EventOf, Event, Outcome, QueueInv, QueueTypeOK
  <2>2. told' \in [Task -> Seq(Event)]
    BY <1>1, <1>9, <2>1 DEF OnWaveformJobFinished
  <2>3. /\ [tokens EXCEPT ![j] = "none"] \in [Job -> Token]
        /\ [worker EXCEPT ![j] = "none"] \in [Job -> Worker]
    BY DEF HostTypeOK, Token, Worker
  <2>4. tokens' \in [Job -> Token] /\ worker' \in [Job -> Worker]
    BY <1>2, <1>9, <2>3 DEF OnWaveformJobFinished
  <2> QED BY <1>9, <2>2, <2>4 DEF OnWaveformJobFinished, HostTypeOK
<1>10. ASSUME NEW j \in Job, OnLateWorker(j) PROVE HostTypeOK'
  BY <1>10 DEF OnLateWorker, HostTypeOK, Token, Worker
<1>11. ASSUME \/ \E k \in Key, who \in Caller : AnswerFromCache(k, who)
              \/ UNCHANGED vars
       PROVE  HostTypeOK'
  BY <1>11 DEF AnswerFromCache, vars, hostVars, HostTypeOK
<1> QED BY <1>4, <1>5, <1>6, <1>7, <1>8, <1>9, <1>10, <1>11 DEF Next

LEMMA StepInv == Inv /\ [Next]_vars => Inv'
<1> SUFFICES ASSUME Inv, [Next]_vars PROVE Inv'
  OBVIOUS
<1>1. QueueInv'
  BY HostStepsQueue, QueueStepInv DEF Inv
<1>2. HostInv'
  BY <1>1, HostTypeStep, RecordsStep, PendingStep DEF HostInv
<1> QED BY <1>1, <1>2 DEF Inv

LEMMA InvAlways == Spec => []Inv
BY InitInv, StepInv, PTL DEF Spec

(* The queue's indexes say what its jobs say, whatever the host does.      *)
THEOREM IndexesHold == Spec => []IndexesExact
<1>1. Inv => IndexesExact
  BY DEF Inv, QueueInv
<1> QED BY <1>1, InvAlways, PTL

(* No slot of the host's queue is overcommitted or idle.                   *)
THEOREM SlotsHold == Spec => []SlotsRespected
<1>1. Inv => SlotsRespected
  BY DEF Inv, QueueInv
<1> QED BY <1>1, InvAlways, PTL

(* The host's records and the queue describe the same jobs.                *)
THEOREM RecordsHold == Spec => []RecordsFollowQueue
<1>1. Inv => RecordsFollowQueue
  BY DEF Inv, HostInv
<1> QED BY <1>1, InvAlways, PTL

(* No request of a closed popup, or of a quitting process, is left behind. *)
THEOREM ReachableHolds == Spec => []PendingReachable
<1>1. Inv => PendingReachable
  BY DEF Inv, HostInv
<1> QED BY <1>1, InvAlways, PTL

-----------------------------------------------------------------------------
(* The cache: what Touch does to its length.                               *)
LEMMA TouchLength ==
  ASSUME NEW c \in Seq(Key), NEW k \in Key
  PROVE  /\ Touch(c, k) \in Seq(Key)
         /\ (\E i \in 1..Len(c) : c[i] = k) => Len(Touch(c, k)) = Len(c)
         /\ ~(\E i \in 1..Len(c) : c[i] = k) => Len(Touch(c, k)) = Len(c) + 1
<1>1. CASE \A i \in 1..Len(c) : c[i] # k
  BY <1>1 DEF Touch
<1>2. CASE \E i \in 1..Len(c) : c[i] = k
  <2> DEFINE p == Place(c, k)
             left == SubSeq(c, 1, p - 1)
             right == SubSeq(c, p + 1, Len(c))
  <2>1. p \in 1..Len(c)
    BY <1>2 DEF Place
  <2> HIDE DEF p
  <2>2. left \in Seq(Key) /\ Len(left) = p - 1
    BY <2>1, SubSeqProperties
  <2>3. right \in Seq(Key) /\ Len(right) = Len(c) - p
    BY <2>1, SubSeqProperties
  <2>4. Touch(c, k) = left \o right \o <<k>>
    BY <1>2 DEF Touch, p
  <2> HIDE DEF left, right
  <2>5. left \o right \in Seq(Key) /\ Len(left \o right) = Len(left) + Len(right)
    BY <2>2, <2>3
  <2>6. <<k>> \in Seq(Key) /\ Len(<<k>>) = 1
    OBVIOUS
  <2>7. left \o right \o <<k>> \in Seq(Key) /\ Len(left \o right \o <<k>>) = Len(left \o right) + 1
    BY <2>5, <2>6
  <2>8. Len(left) + Len(right) + 1 = Len(c)
    BY <2>1, <2>2, <2>3
  <2> QED BY <1>2, <2>4, <2>5, <2>7, <2>8
<1> QED BY <1>1, <1>2

LEMMA CacheStep ==
  ASSUME Inv, JobsKeyed, CacheTypeOK, [Next]_vars
  PROVE  CacheTypeOK'
<1>0. cache \in Seq(Key) /\ Len(cache) \in Nat /\ Len(cache) <= MaxCached /\ MaxCached \in Nat \ {0}
  BY HostAssumption DEF CacheTypeOK
<1>1. ASSUME NEW k \in Key, NEW who \in Caller, AnswerFromCache(k, who) PROVE CacheTypeOK'
  BY <1>0, <1>1, TouchLength DEF AnswerFromCache, Cached, CacheTypeOK
<1>2. ASSUME NEW k \in Key, PutInCache(k) PROVE CacheTypeOK'
  <2>1. CASE ~Cached(k) /\ Len(cache) >= MaxCached
    <3> DEFINE rest == Tail(cache)
    <3>1. cache' = Append(rest, k)
      BY <1>2, <2>1 DEF PutInCache
    <3>2. rest \in Seq(Key) /\ Len(rest) = Len(cache) - 1
      BY <1>0, <2>1
    <3> HIDE DEF rest
    <3>3. Append(rest, k) \in Seq(Key) /\ Len(Append(rest, k)) = Len(rest) + 1
      BY <3>2
    <3> QED BY <1>0, <3>1, <3>2, <3>3 DEF CacheTypeOK
  <2>2. CASE Cached(k) \/ ~(Len(cache) >= MaxCached)
    <3>1. cache' = Touch(cache, k)
      BY <1>2, <2>2 DEF PutInCache
    <3>2. /\ Touch(cache, k) \in Seq(Key)
          /\ Cached(k) => Len(Touch(cache, k)) = Len(cache)
          /\ ~Cached(k) => Len(Touch(cache, k)) = Len(cache) + 1
      BY <1>0, TouchLength DEF Cached
    <3> QED BY <1>0, <2>2, <3>1, <3>2 DEF CacheTypeOK
  <2> QED BY <2>1, <2>2
<1>3. ASSUME NEW j \in Job, OnWaveformJobFinished(j) PROVE CacheTypeOK'
  <2>1. jobKey[j] \in Key
    BY <1>3 DEF OnWaveformJobFinished, Finish, JobsKeyed
  <2> QED BY <1>2, <1>3, <2>1 DEF OnWaveformJobFinished, CacheTypeOK
<1>4. ASSUME UNCHANGED cache PROVE CacheTypeOK'
  BY <1>4 DEF CacheTypeOK
<1> QED BY <1>1, <1>3, <1>4
        DEF Next, GenerateFullWaveform, CancelFullWaveform, ClosePopup, OnQuit, WorkerReturns,
            OnLateWorker, vars, hostVars

(* Every variable keeps its type; the cache of finished waveforms never    *)
(* holds more than MaxCached entries and only real keys.                   *)
THEOREM TypesHold == Spec => []TypeOK
<1> DEFINE TInv == Inv /\ JobsKeyed /\ CacheTypeOK
<1>1. Init => TInv
  <2>1. Init => JobsKeyed
    BY DEF Init, QueueInit, JobsKeyed
  <2>2. Init => CacheTypeOK
    BY HostAssumption DEF Init, CacheTypeOK
  <2> QED BY <2>1, <2>2, InitInv
<1>2. TInv /\ [Next]_vars => TInv'
  <2> SUFFICES ASSUME TInv, [Next]_vars PROVE TInv'
    OBVIOUS
  <2>1. [QueueNext]_queueVars
    BY HostStepsQueue DEF Inv
  <2> QED BY <2>1, StepInv, QueueStepKeyed, CacheStep DEF Inv
<1>3. TInv => TypeOK
  BY DEF Inv, QueueInv, HostInv, TypeOK
<1> QED BY <1>1, <1>2, <1>3, PTL DEF Spec

-----------------------------------------------------------------------------
(* Jobs start in the order they were submitted, and an aborting job takes  *)
(* no new waiter: what the queue promises under any host.                  *)
THEOREM JobsOrdered == Spec => StartsInOrder /\ AbortingIsSealed
<1>1. Inv /\ [Next]_vars
        => [\A j \in Job : jobState[j] # "decoding" /\ jobState'[j] = "decoding"
              => \A i \in queued' : j < i]_queueVars
  BY HostStepsQueue, QueueStepInOrder DEF Inv
<1>2. Inv /\ [Next]_vars
        => [\A j \in Job : jobState[j] = "aborting"
              => waiters'[j] = {} /\ jobState'[j] \in {"aborting", "absent"}]_queueVars
  BY HostStepsQueue, QueueStepSealed DEF Inv
<1> QED BY <1>1, <1>2, InvAlways, PTL DEF Spec, StartsInOrder, AbortingIsSealed

(* A worker's abort reaches nobody: the job it belongs to lost its last    *)
(* waiter when it was aborted, and took no new one.                        *)
THEOREM CancelsAreAskedFor == Spec => CancelledOnlyIfAsked
<1> DEFINE P == \A t \in Task :
                  told'[t] # told[t] /\ told'[t][Len(told'[t])] = "cancelled"
                    => \E who \in Caller : CancelFullWaveform(t, who)
<1>1. ASSUME Inv, [Next]_vars PROVE [P]_vars
  <2> SUFFICES ASSUME NEW t \in Task, told'[t] # told[t],
                      told'[t][Len(told'[t])] = "cancelled"
               PROVE  \E who \in Caller : CancelFullWaveform(t, who)
    OBVIOUS
  <2>1. ASSUME UNCHANGED told PROVE FALSE
    BY <2>1
  <2>2. ASSUME NEW T \in SUBSET Task, NEW e \in Event, Send(T, e) PROVE t \in T /\ e = "cancelled"
    <3>1. told'[t] = IF t \in T THEN Append(told[t], e) ELSE told[t]
      BY <2>2 DEF Send
    <3>2. told[t] \in Seq(Event)
      BY <1>1 DEF Inv, HostInv, HostTypeOK
    <3>3. Append(told[t], e)[Len(Append(told[t], e))] = e
      BY <3>2
    <3> QED BY <3>1, <3>3
  <2>3. ASSUME NEW x \in Task, NEW who \in Caller, CancelFullWaveform(x, who)
        PROVE  x = t
    BY <2>2, <2>3, {x} \in SUBSET Task, "cancelled" \in Event DEF CancelFullWaveform, Event
  <2>4. ASSUME NEW j \in Job, OnWaveformJobFinished(j) PROVE FALSE
    <3>1. EventOf(worker[j]) \in Event /\ waiters[j] \in SUBSET Task
      BY <2>4, <1>1 DEF OnWaveformJobFinished, EventOf, Event, Outcome, Inv, QueueInv, QueueTypeOK
    <3>2. t \in waiters[j] /\ EventOf(worker[j]) = "cancelled"
      BY <2>2, <2>4, <3>1 DEF OnWaveformJobFinished
    <3>3. worker[j] = "Aborted"
      BY <2>4, <3>2 DEF OnWaveformJobFinished, EventOf, Outcome
    <3>4. jobState[j] = "aborting"
      BY <1>1, <3>3 DEF Inv, HostInv, RecordsFollowQueue, AbortsExact
    <3> QED BY <1>1, <3>2, <3>4 DEF Inv, QueueInv, IndexesExact, WaitedForExact
  <2> QED BY <1>1, <2>1, <2>3, <2>4
          DEF Next, AnswerFromCache, GenerateFullWaveform, ClosePopup, OnQuit, WorkerReturns,
              OnLateWorker, vars, hostVars
<1> QED BY <1>1, InvAlways, PTL DEF Spec, CancelledOnlyIfAsked

-----------------------------------------------------------------------------
(* The host implements the promise: of every request it is asked, told or  *)
(* forgotten in the steps in which the contract allows it.                 *)
THEOREM JobsKeepContract == Spec => ContractSpec
<1> DEFINE CNext == Contract!Next
           cvars == <<Pending, Audience, told>>
<1>1. Init => Contract!Init
  BY DEF Init, QueueInit, Contract!Init, Pending, Audience, CanCall, Nobody
<1>2. ASSUME Inv, Inv', [Next]_vars PROVE [CNext]_cvars
  <2> USE DEF Contract!Next, Contract!Stay, Contract!Ask, Contract!Tell, Contract!Forget
  <2>1. /\ Pending' \subseteq Task /\ told' \in [Task -> Seq(Event)]
        /\ \A t \in Task : told[t] \in Seq(Event)
    BY <1>2 DEF Pending, Inv, HostInv, HostTypeOK
  <2>2. ASSUME UNCHANGED <<jobByTask, owner, openWindows, shuttingDown, told>>
        PROVE  UNCHANGED cvars
    BY <2>2 DEF Pending, Audience, CanCall
  <2>3. \A t \in Pending : t \in Audience
    BY <1>2 DEF Pending, Audience, Inv, HostInv, PendingReachable
  <2>4. ASSUME NEW T \in SUBSET Pending,
               \A t \in Task : jobByTask'[t] = IF t \in T THEN NoJob ELSE jobByTask[t]
        PROVE  Pending' = Pending \ T
    BY <2>4 DEF Pending
  <2>5. ASSUME NEW T \in SUBSET Pending, NEW e \in Event,
               Pending' = Pending \ T, Audience' = Audience, Send(T, e)
        PROVE  CNext
    <3>1. ASSUME NEW t \in Task PROVE Contract!Stay(t) \/ Contract!Tell(t)
      <4>1. told'[t] = IF t \in T THEN Append(told[t], e) ELSE told[t]
        BY <2>5 DEF Send
      <4> QED BY <2>3, <2>5, <4>1
    <3> QED BY <2>1, <2>5, <3>1
  <2>6. ASSUME NEW T \in SUBSET Pending,
               Pending' = Pending \ T, Audience' \subseteq Audience,
               \A t \in T : t \notin Audience', told' = told
        PROVE  CNext
    <3>1. ASSUME NEW t \in Task PROVE Contract!Stay(t) \/ Contract!Forget(t)
      BY <2>6
    <3> QED BY <2>1, <2>6, <3>1
  <2>7. ASSUME NEW k \in Key, NEW who \in Caller, NEW p \in BOOLEAN, GenerateFullWaveform(k, who, p)
        PROVE  CNext
    <3> DEFINE n == nextTaskId
    <3>1. n \in Task /\ n >= n
      BY <1>2, <2>7, QueueAssumption DEF GenerateFullWaveform, Inv, HostInv, HostTypeOK, Task
    <3>2. jobByTask[n] = NoJob /\ owner[n] = Nobody /\ told[n] = <<>>
      BY <1>2, <3>1 DEF Inv, HostInv, TasksFresh
    <3>3. /\ ~shuttingDown /\ CanCall(who)
          /\ UNCHANGED <<openWindows, shuttingDown, told>>
          /\ owner' = [owner EXCEPT ![n] = who]
          /\ \A t \in Task \ {n} : jobByTask'[t] = jobByTask[t]
          /\ jobByTask'[n] # NoJob
      <4>1. nextJobId # NoJob
        BY <1>2, QueueAssumption DEF Inv, QueueInv, QueueTypeOK, NoJob
      <4> QED BY <1>2, <2>7, <3>1, <4>1
              DEF GenerateFullWaveform, Submit, SubmitMerged, SubmitNew, Inv, QueueInv, QueueTypeOK
    <3>4. n \in Audience \ Pending /\ Pending' = Pending \cup {n}
      BY <3>1, <3>2, <3>3 DEF Audience, Pending, CanCall, Nobody
    <3>5. Audience' \subseteq Audience
      BY <1>2, <3>3, <3>4 DEF Audience, CanCall, Inv, QueueInv, QueueTypeOK
    <3>6. ASSUME NEW t \in Task PROVE Contract!Stay(t) \/ Contract!Ask(t)
      BY <3>2, <3>3, <3>4
    <3> QED BY <2>1, <3>5, <3>6
  <2>8. ASSUME NEW x \in Task, NEW who \in Caller, CancelFullWaveform(x, who) PROVE CNext
    <3>1. {x} \in SUBSET Pending /\ Send({x}, "cancelled") /\ "cancelled" \in Event
      BY <2>8 DEF CancelFullWaveform, Cancel, Pending, Event
    <3>2. Pending' = Pending \ {x}
      BY <2>4, <2>8, <3>1 DEF CancelFullWaveform, Cancel, RemoveWaiters
    <3>3. Audience' = Audience
      BY <2>8 DEF CancelFullWaveform, Cancel, RemoveWaiters, Audience, CanCall
    <3> QED BY <2>5, <3>1, <3>2, <3>3
  <2>9. ASSUME NEW w \in Popup, ClosePopup(w) PROVE CNext
    <3> DEFINE T == WaitersOfWindow(w)
    <3>1. T \in SUBSET Pending /\ told' = told
      BY <2>9 DEF WaitersOfWindow, Pending, ClosePopup
    <3>2. Pending' = Pending \ T
      <4>1. \A t \in Task : jobByTask'[t] = IF t \in T THEN NoJob ELSE jobByTask[t]
        BY <2>9 DEF ClosePopup, DropWindow, RemoveWaiters
      <4> HIDE DEF T
      <4> QED BY <2>4, <3>1, <4>1
    <3>3. Audience' \subseteq Audience /\ \A t \in T : t \notin Audience'
      BY <2>9 DEF ClosePopup, DropWindow, RemoveWaiters, Audience, CanCall, WaitersOfWindow
    <3> HIDE DEF T
    <3> QED BY <2>6, <3>1, <3>2, <3>3
  <2>10. CASE OnQuit
    <3>1. Pending' = Pending \ Pending /\ Audience' = {} /\ told' = told
      BY <2>10 DEF OnQuit, DropAll, Pending, Audience
    <3> QED BY <2>6, <3>1
  <2>11. ASSUME NEW j \in Job, OnWaveformJobFinished(j) PROVE CNext
    <3>1. \A t \in waiters[j] : t \in Task /\ jobByTask[t] # NoJob
      BY <1>2, QueueAssumption
         DEF Inv, QueueInv, QueueTypeOK, IndexesExact, TaskIndexExact, Job, NoJob
    <3>2. waiters[j] \in SUBSET Pending
      BY <3>1 DEF Pending
    <3>3. Pending' = Pending \ waiters[j]
      BY <2>4, <2>11, <3>2 DEF OnWaveformJobFinished, Finish
    <3>4. Audience' = Audience
      BY <2>11 DEF OnWaveformJobFinished, Finish, Audience, CanCall
    <3>5. EventOf(worker[j]) \in Event /\ Send(waiters[j], EventOf(worker[j]))
      BY <2>11 DEF OnWaveformJobFinished, EventOf, Event, Outcome
    <3> QED BY <2>5, <3>2, <3>3, <3>4, <3>5
  <2>12. ASSUME \/ \E j \in Job : WorkerReturns(j) \/ OnLateWorker(j)
                \/ \E k \in Key, who \in Caller : AnswerFromCache(k, who)
                \/ UNCHANGED vars
         PROVE  UNCHANGED cvars
    BY <2>2, <2>12 DEF WorkerReturns, OnLateWorker, AnswerFromCache, vars, hostVars, queueVars
  <2> HIDE DEF CNext, cvars
  <2> QED BY <1>2, <2>7, <2>8, <2>9, <2>10, <2>11, <2>12 DEF Next
<1> QED BY <1>1, <1>2, InvAlways, PTL DEF Spec, ContractSpec, Contract!Spec, Contract!contractVars
==============================================================================
