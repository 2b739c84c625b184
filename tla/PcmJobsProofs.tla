---------------------------- MODULE PcmJobsProofs ----------------------------
(***************************************************************************)
(* The host of audio.decodePcm keeps the queue's rules, never unmaps the   *)
(* buffer a worker writes to, gives every slot back, and keeps the promise *)
(* of DecodeContract to the document that asked, for any number of         *)
(* requests, slots, tracks, pages and documents.  Only that one buffer is  *)
(* open at a time needs the single slot GetPcmJobs asks for.               *)
(***************************************************************************)
EXTENDS PcmJobs, WaveformTaskQueueProofs

Inv == QueueInv /\ HostInv
RecordsInv == RecordsExact /\ SlotWillBeFreed /\ BuffersExact
PromiseInv == DocumentsExact /\ RequestsExact /\ StampsPast

(* The host calls nothing but the queue's operations, with a task id it    *)
(* has just generated.                                                     *)
LEMMA HostStepsQueue ==
  ASSUME Inv, [Next]_vars
  PROVE  [QueueNext]_queueVars
<1> USE PcmAssumption
<1>0. \A h \in Hwnd : CallerAt(h) \in Identity /\ PageOf[h] \in WindowId
  BY DEF CallerAt, Identity
<1>1. ASSUME NEW h \in Hwnd, NEW k \in Key, DecodePcm(h, k) PROVE QueueNext
  <2>1. nextTask \in Task
    BY <1>1, QueueAssumption DEF Inv, HostInv, TypeOK, DecodePcm, Task
  <2> QED BY <1>0, <1>1, <2>1 DEF DecodePcm, QueueNext
<1>2. ASSUME NEW t \in Task, NEW h \in Hwnd, CancelDecodePcm(t, h) PROVE QueueNext
  BY <1>0, <1>2 DEF CancelDecodePcm, QueueNext
<1>3. ASSUME NEW h \in Hwnd, ClosePopup(h) PROVE QueueNext
  BY <1>0, <1>3 DEF ClosePopup, QueueNext
<1>4. CASE OnQuit
  BY <1>4 DEF OnQuit, QueueNext
<1>5. ASSUME NEW j \in Job, OnPcmJobFinished(j) PROVE QueueNext
  BY <1>5 DEF OnPcmJobFinished, QueueNext
<1>6. ASSUME \/ \E j \in Job : WorkerReturns(j) \/ OnLateWorker(j)
             \/ \E h \in Hwnd : NewDocument(h) \/ ClosePanel(h)
             \/ UNCHANGED vars
      PROVE  UNCHANGED queueVars
  BY <1>6 DEF WorkerReturns, OnLateWorker, NewDocument, ClosePanel, vars
<1> QED BY <1>1, <1>2, <1>3, <1>4, <1>5, <1>6 DEF Next

LEMMA InitInv == Init => Inv
<1> SUFFICES ASSUME Init PROVE Inv
  OBVIOUS
<1>1. QueueInv
  BY QueueInitInv DEF Init
<1>2. TypeOK
  <2>1. nextTask \in 1..(MaxTask + 1)
    BY QueueAssumption DEF Init
  <2>2. doc \in [Hwnd -> Nat] /\ \A h \in Hwnd : doc[h] <= MaxDoc[h]
    BY PcmAssumption DEF Init
  <2> QED BY <1>1, <2>1, <2>2 DEF Init, TypeOK, NoStamp, QueueInv
<1>3. RecordsExact /\ SlotWillBeFreed /\ BuffersExact
  BY DEF Init, QueueInit, RecordsExact, SlotWillBeFreed, BuffersExact
<1>4. DocumentsExact /\ RequestsExact
  BY DEF Init, QueueInit, DocumentsExact, RequestsExact
<1>5. StampsPast
  BY QueueAssumption DEF Init, StampsPast, NoStamp
<1> QED BY <1>1, <1>2, <1>3, <1>4, <1>5 DEF Inv, HostInv

-----------------------------------------------------------------------------
(* Giving up on jobs: the records of the discarded ones are erased, which  *)
(* never had a buffer, and at quit every open buffer is detached, while no *)
(* worker is touched.                                                      *)
LEMMA GiveUpRecords ==
  ASSUME QueueInv, TypeOK, RecordsInv,
         NEW D \in SUBSET Job, NEW A \in SUBSET Job,
         \A j \in Job :
           /\ j \in D => jobState[j] = "queued" /\ jobState'[j] = "absent"
           /\ j \in A => jobState[j] = "decoding" /\ jobState'[j] = "aborting"
           /\ j \notin D \cup A => jobState'[j] = jobState[j],
         ~shuttingDown, shuttingDown' => \A j \in Job : jobState'[j] # "queued",
         records' = records \ D, worker' = worker,
         \A j \in Job : buffer'[j] = IF j \in D THEN "none"
                                     ELSE IF shuttingDown' THEN BuffersAtQuit[j] ELSE buffer[j]
  PROVE  RecordsInv'
<1>1. records = {j \in Job : jobState[j] # "absent"}
  BY DEF RecordsInv, RecordsExact
<1>2. records' = {j \in Job : jobState'[j] # "absent"}
  BY <1>1
<1>3. \A j \in Job : jobState[j] \in JobState /\ jobState'[j] \in JobState
  BY DEF QueueInv, QueueTypeOK, JobState
<1>4. RecordsExact'
  BY <1>2, <1>3 DEF RecordsExact, Active, ActiveIn, JobState
<1>5. Active' = Active
  BY DEF Active, ActiveIn
<1>6. Active \cap records' = Active \cap records
  BY <1>1 DEF Active, ActiveIn
<1>7. SlotWillBeFreed'
  BY <1>5, <1>6 DEF RecordsInv, SlotWillBeFreed
<1>8. \A j \in Job : j \in queued => j \notin Active
  BY DEF QueueInv, IndexesExact, QueuedExact, Active, ActiveIn
<1>9. \A j \in Job : /\ buffer'[j] # "none" <=> buffer[j] # "none"
                     /\ shuttingDown' => buffer'[j] # "open"
  <2> SUFFICES ASSUME NEW j \in Job
               PROVE  /\ buffer'[j] # "none" <=> buffer[j] # "none"
                      /\ shuttingDown' => buffer'[j] # "open"
    OBVIOUS
  <2>1. j \in D => buffer[j] = "none"
    BY DEF RecordsInv, BuffersExact, Active, ActiveIn
  <2>2. BuffersAtQuit[j] = IF j \in records \ queued /\ buffer[j] # "none" THEN "detached" ELSE buffer[j]
    BY DEF BuffersAtQuit
  <2>3. buffer[j] # "none" => j \in records \ queued
    BY <1>8 DEF RecordsInv, BuffersExact
  <2> QED BY <2>1, <2>2, <2>3
<1>10. BuffersExact'
  BY <1>5, <1>6, <1>9 DEF RecordsInv, BuffersExact
<1> QED BY <1>4, <1>7, <1>10 DEF RecordsInv

(* Starting jobs: each job the queue has just moved into a slot gets a     *)
(* worker and a buffer, or the posted failure to create the buffer.        *)
LEMMA StartRecords ==
  ASSUME QueueInv', ~shuttingDown',
         records' = {j \in Job : jobState'[j] # "absent"},
         NEW tok, NEW buf, NEW wrk,
         StartPcmJobs(Starting, records', documents', tok, buf, wrk),
         \A j \in Job \ Starting :
           /\ wrk[j] # "none" <=> jobState'[j] \in {"decoding", "aborting"}
           /\ wrk[j] = "running" => buf[j] # "none"
           /\ buf[j] # "none" => jobState'[j] \in {"decoding", "aborting"}
  PROVE  RecordsInv'
<1>1. \A j \in Starting : j \in Job /\ jobState'[j] = "decoding" /\ j \in records'
  BY DEF Starting
<1>2. PICK allocated \in SUBSET {j \in Starting \cap records' : HasEnvironment(j, documents')} :
        /\ buffer' = [j \in Job |-> IF j \in allocated THEN "open" ELSE buf[j]]
        /\ worker' = [j \in Job |-> CASE j \in allocated -> "running"
                                      [] j \in (Starting \cap records') \ allocated -> "Failed"
                                      [] OTHER -> wrk[j]]
  BY DEF StartPcmJobs
<1>3. \A j \in allocated : j \in Starting
  BY <1>2
<1>4. ASSUME NEW j \in Job
      PROVE  /\ j \in allocated => worker'[j] = "running" /\ buffer'[j] = "open"
             /\ j \in Starting \ allocated => worker'[j] = "Failed"
             /\ j \notin Starting => worker'[j] = wrk[j] /\ buffer'[j] = buf[j]
  BY <1>1, <1>2, <1>3
<1>5. \A j \in Job : j \in Active' \cap records' <=> jobState'[j] \in {"decoding", "aborting"}
  BY DEF Active, ActiveIn
<1>6. RecordsExact'
  BY DEF RecordsExact
<1>7. SlotWillBeFreed'
  BY <1>1, <1>4, <1>5 DEF SlotWillBeFreed
<1>8. BuffersExact'
  BY <1>1, <1>4, <1>5 DEF BuffersExact
<1> QED BY <1>6, <1>7, <1>8 DEF RecordsInv

(* What RecordsInv says of one job while the process is not quitting.      *)
LEMMA RecordsOfJob ==
  ASSUME RecordsInv, ~shuttingDown, NEW j \in Job
  PROVE  /\ worker[j] # "none" <=> jobState[j] \in {"decoding", "aborting"}
         /\ worker[j] = "running" => buffer[j] # "none"
         /\ buffer[j] # "none" => jobState[j] \in {"decoding", "aborting"}
BY DEF RecordsInv, RecordsExact, SlotWillBeFreed, BuffersExact, Active, ActiveIn

LEMMA DecodeRecords ==
  ASSUME Inv, QueueInv', NEW h \in Hwnd, NEW k \in Key, DecodePcm(h, k)
  PROVE  RecordsInv'
<1> DEFINE n == nextTask
<1>1. n \in Task /\ CallerAt(h) \in Identity
  BY QueueAssumption, PcmAssumption
     DEF Inv, HostInv, TypeOK, DecodePcm, Task, CallerAt, Identity
<1>2. /\ ~shuttingDown /\ ~shuttingDown'
      /\ records = {j \in Job : jobState[j] # "absent"}
      /\ records' = records \cup {jobByTask'[n]}
      /\ StartPcmJobs(Starting, records', documents', tokens, buffer, worker)
  BY DEF DecodePcm, Inv, HostInv, RecordsExact
<1>3. RecordsInv
  BY DEF Inv, HostInv, RecordsInv
<1>4. \A j \in Job \ Starting : ~(jobState'[j] = "decoding" /\ jobState[j] # "decoding")
  BY DEF Starting
<1>5. CASE SubmitMerged(n, k, CallerAt(h))
  <2>1. jobState' = jobState /\ jobByTask'[n] = openByKey[k] /\ openByKey[k] # NoJob
    BY <1>1, <1>5 DEF SubmitMerged, Inv, QueueInv, QueueTypeOK
  <2>2. openByKey[k] \in Job /\ jobState[openByKey[k]] # "absent"
    BY <2>1 DEF Inv, QueueInv, QueueTypeOK, IndexesExact, KeyIndexExact
  <2>3. records' = {j \in Job : jobState'[j] # "absent"}
    BY <1>2, <2>1, <2>2
  <2> QED BY <1>2, <1>3, <2>1, <2>3, RecordsOfJob, StartRecords
<1>6. CASE SubmitNew(n, k, CallerAt(h))
  <2> DEFINE m == nextJobId
  <2>1. /\ m \in Job /\ jobState[m] = "absent" /\ jobState'[m] \in {"queued", "decoding"}
        /\ \A j \in Job \ {m} : \/ jobState'[j] = jobState[j]
                                \/ jobState[j] = "queued" /\ jobState'[j] = "decoding"
    BY <1>1, <1>6, SubmitStates DEF Inv
  <2>2. jobByTask'[n] = m
    BY <1>1, <1>6 DEF SubmitNew, Inv, QueueInv, QueueTypeOK
  <2>3. records' = {j \in Job : jobState'[j] # "absent"}
    BY <1>2, <2>1, <2>2
  <2>4. \A j \in Job \ Starting :
          /\ worker[j] # "none" <=> jobState'[j] \in {"decoding", "aborting"}
          /\ worker[j] = "running" => buffer[j] # "none"
          /\ buffer[j] # "none" => jobState'[j] \in {"decoding", "aborting"}
    BY <1>2, <1>3, <1>4, <2>1, RecordsOfJob
  <2> QED BY <1>2, <2>3, <2>4, StartRecords
<1> QED BY <1>5, <1>6 DEF DecodePcm, Submit

LEMMA FinishRecords ==
  ASSUME Inv, QueueInv', NEW n \in Job, OnPcmJobFinished(n)
  PROVE  RecordsInv'
<1> DEFINE tok == [tokens EXCEPT ![n] = "none"]
           buf == BuffersAfter(n)
           wrk == [worker EXCEPT ![n] = "none"]
<1>1. /\ ~shuttingDown /\ ~shuttingDown'
      /\ records = {j \in Job : jobState[j] # "absent"}
      /\ records' = records \ {n}
      /\ StartPcmJobs(Starting, records', documents', tok, buf, wrk)
  BY DEF OnPcmJobFinished, EraseRecords, Inv, HostInv, RecordsExact
<1>2. /\ jobState'[n] = "absent"
      /\ \A j \in Job \ {n} : \/ jobState'[j] = jobState[j]
                              \/ jobState[j] = "queued" /\ jobState'[j] = "decoding"
  BY FinishStates DEF OnPcmJobFinished, Inv
<1>3. records' = {j \in Job : jobState'[j] # "absent"}
  BY <1>1, <1>2
<1>4. \A j \in Job : /\ buf[j] = IF j = n THEN "none" ELSE buffer[j]
                     /\ wrk[j] = IF j = n THEN "none" ELSE worker[j]
  BY DEF Inv, HostInv, TypeOK, BuffersAfter
<1>5. \A j \in Job \ Starting : ~(jobState'[j] = "decoding" /\ jobState[j] # "decoding")
  BY DEF Starting
<1>6. RecordsInv
  BY DEF Inv, HostInv, RecordsInv
<1> HIDE DEF tok, buf, wrk
<1>7. \A j \in Job \ Starting :
        /\ wrk[j] # "none" <=> jobState'[j] \in {"decoding", "aborting"}
        /\ wrk[j] = "running" => buf[j] # "none"
        /\ buf[j] # "none" => jobState'[j] \in {"decoding", "aborting"}
  BY <1>1, <1>2, <1>4, <1>5, <1>6, RecordsOfJob
<1> QED BY <1>1, <1>3, <1>7, StartRecords

(* No waiter is left once the process quits, so dropping waiters then      *)
(* changes no job.                                                         *)
LEMMA QuittingIsEmpty ==
  ASSUME Inv, shuttingDown
  PROVE  /\ \A t \in Task : jobByTask[t] = NoJob
         /\ \A j \in Job : waiters[j] = {}
<1>1. \A t \in Task : jobByTask[t] = NoJob
  BY DEF Inv, HostInv, RequestsExact, Waiting
<1>2. \A j \in Job : j # NoJob
  BY QueueAssumption DEF Job, NoJob
<1> QED BY <1>1, <1>2 DEF Inv, QueueInv, QueueTypeOK, IndexesExact, TaskIndexExact

LEMMA RecordsStep ==
  ASSUME Inv, QueueInv', [Next]_vars
  PROVE  RecordsInv'
<1>0. QueueInv /\ TypeOK /\ RecordsInv
  BY DEF Inv, HostInv, RecordsInv
<1>1. ASSUME NEW h \in Hwnd, NEW k \in Key, DecodePcm(h, k) PROVE RecordsInv'
  BY <1>1, DecodeRecords
<1>2. ASSUME NEW T \in SUBSET Task, RemoveWaiters(T), GiveUp(T),
             UNCHANGED <<worker, shuttingDown>>
      PROVE  RecordsInv'
  <2>1. DiscardedBy(T) \in SUBSET Job /\ AbortedBy(T) \in SUBSET Job
    BY DEF DiscardedBy, AbortedBy, Emptied
  <2>2. /\ records' = records \ DiscardedBy(T)
        /\ \A j \in Job : buffer'[j] = IF j \in DiscardedBy(T) THEN "none" ELSE buffer[j]
    BY <1>2 DEF GiveUp, ForgetPcmJobs, EraseRecords
  <2>3. CASE ~shuttingDown
    BY <1>0, <1>2, <2>1, <2>2, <2>3, RemovalStates, GiveUpRecords
  <2>4. CASE shuttingDown
    <3>1. DiscardedBy(T) = {} /\ AbortedBy(T) = {}
      BY <2>4, QuittingIsEmpty DEF DiscardedBy, AbortedBy, Emptied
    <3>2. \A j \in Job : jobState'[j] = jobState[j]
      BY <1>0, <1>2, <3>1, RemovalStates
    <3>3. Active' = Active /\ records' = records
      BY <2>2, <3>1, <3>2 DEF Active, ActiveIn
    <3>4. \A j \in Job : buffer'[j] = buffer[j]
      BY <2>2, <3>1
    <3> QED BY <1>0, <1>2, <2>4, <3>3, <3>4
            DEF RecordsInv, RecordsExact, SlotWillBeFreed, BuffersExact
  <2> QED BY <2>3, <2>4
<1>3. ASSUME NEW t \in Task, NEW h \in Hwnd, CancelDecodePcm(t, h) PROVE RecordsInv'
  BY <1>2, <1>3, {t} \in SUBSET Task DEF CancelDecodePcm, Cancel
<1>4. ASSUME NEW h \in Hwnd, ClosePopup(h) PROVE RecordsInv'
  BY <1>2, <1>4, WaitersOfWindow(PageOf[h]) \in SUBSET Task
     DEF ClosePopup, DropWindow, WaitersOfWindow
<1>5. CASE OnQuit
  <2>1. queued \in SUBSET Job /\ DropAllAborts \in SUBSET Job
    BY DEF Inv, QueueInv, QueueTypeOK, DropAllAborts
  <2>2. \A j \in Job :
          /\ j \in queued => jobState[j] = "queued" /\ jobState'[j] = "absent"
          /\ j \in DropAllAborts => jobState[j] = "decoding" /\ jobState'[j] = "aborting"
          /\ j \notin queued \cup DropAllAborts => jobState'[j] = jobState[j]
    BY <1>0, <1>5, DropAllStates DEF OnQuit
  <2>3. \A j \in Job : jobState'[j] # "queued"
    BY <1>0, <1>5, <2>2 DEF OnQuit, DropAll, QueueInv, IndexesExact, QueuedExact
  <2>4. /\ ~shuttingDown /\ shuttingDown' /\ records' = records \ queued
        /\ worker' = worker
        /\ \A j \in Job : buffer'[j] = IF j \in queued THEN "none" ELSE BuffersAtQuit[j]
    BY <1>5 DEF OnQuit, ForgetPcmJobs, EraseRecords
  <2> QED BY <1>0, <2>1, <2>2, <2>3, <2>4, GiveUpRecords
<1>6. ASSUME NEW j \in Job, OnPcmJobFinished(j) PROVE RecordsInv'
  BY <1>6, FinishRecords
<1>7. ASSUME NEW j \in Job, WorkerReturns(j) PROVE RecordsInv'
  <2>1. PICK o \in Outcome : worker' = [worker EXCEPT ![j] = o]
    BY <1>7 DEF WorkerReturns
  <2>2. UNCHANGED <<queueVars, records, buffer, shuttingDown>> /\ worker[j] # "none"
    BY <1>7 DEF WorkerReturns
  <2>3. \A i \in Job : /\ worker'[i] # "none" <=> worker[i] # "none"
                       /\ worker'[i] = "running" => worker[i] = "running"
    BY <1>0, <2>1, <2>2 DEF TypeOK, Outcome
  <2>4. Active' = Active
    BY <2>2 DEF queueVars, Active, ActiveIn
  <2>5. RecordsExact'
    BY <1>0, <2>2, <2>4 DEF queueVars, RecordsInv, RecordsExact
  <2> QED BY <1>0, <2>2, <2>3, <2>4, <2>5 DEF RecordsInv, SlotWillBeFreed, BuffersExact
<1>8. ASSUME NEW j \in Job, OnLateWorker(j) PROVE RecordsInv'
  <2>1. /\ UNCHANGED <<queueVars, shuttingDown>>
        /\ worker[j] # "none"
        /\ records' = records \ {j}
        /\ \A i \in Job : buffer'[i] = IF i \in {j} THEN "none" ELSE buffer[i]
        /\ worker' = [worker EXCEPT ![j] = "none"]
        /\ shuttingDown \/ j \notin records
    BY <1>8 DEF OnLateWorker, ForgetPcmJobs, EraseRecords, Outcome
  <2>2. shuttingDown
    BY <1>0, <2>1 DEF RecordsInv, SlotWillBeFreed
  <2>3. Active' = Active
    BY <2>1 DEF queueVars, Active, ActiveIn
  <2>4. \A i \in Job : /\ worker'[i] = IF i = j THEN "none" ELSE worker[i]
                       /\ buffer'[i] = IF i = j THEN "none" ELSE buffer[i]
    BY <1>0, <2>1 DEF TypeOK
  <2>5. RecordsExact'
    BY <1>0, <2>1, <2>2, <2>3 DEF RecordsInv, RecordsExact
  <2> QED BY <1>0, <2>1, <2>2, <2>3, <2>4, <2>5 DEF RecordsInv, SlotWillBeFreed, BuffersExact
<1>9. ASSUME \/ \E h \in Hwnd : NewDocument(h) \/ ClosePanel(h)
             \/ UNCHANGED vars
      PROVE  RecordsInv'
  <2>1. UNCHANGED <<queueVars, records, buffer, worker, shuttingDown>>
    BY <1>9 DEF NewDocument, ClosePanel, vars, hostVars
  <2> QED BY <1>0, <2>1 DEF queueVars, RecordsInv, RecordsExact, SlotWillBeFreed, BuffersExact,
                            Active, ActiveIn
<1> QED BY <1>1, <1>3, <1>4, <1>5, <1>6, <1>7, <1>8, <1>9 DEF Next

-----------------------------------------------------------------------------
(* A record takes its documents with it, and no others.                    *)
LEMMA ErasedDocuments ==
  ASSUME NEW J \in SUBSET Job, EraseRecords(J)
  PROVE  \A j \in Job : documents'[j] = IF j \in J THEN {} ELSE documents[j]
BY DEF EraseRecords

(* Requests leave the queue, told or not, together with the records of the *)
(* jobs that are over, and pages may close: what is left still waits for   *)
(* the document that asked.                                                *)
LEMMA LeavingKeepsPromise ==
  ASSUME Inv, NEW T \in SUBSET Task, NEW J \in SUBSET Job, EraseRecords(J),
         \A t \in Task : jobByTask'[t] = IF t \in T THEN NoJob ELSE jobByTask[t],
         \A j \in Job : waiters'[j] \subseteq waiters[j],
         \A h \in Hwnd : doc'[h] \in {doc[h], 0},
         \A t \in Task : told'[t] = told[t] \/ (t \in T /\ jobByTask[t] # NoJob),
         UNCHANGED <<owner, stamp, nextTask, shuttingDown, closed>>
  PROVE  PromiseInv'
<1> USE DEF Inv, HostInv
<1>1. \A j \in Job : documents'[j] \subseteq documents[j]
  BY ErasedDocuments
<1>2. \A j \in Job : documents[j] \subseteq Task
  BY DEF TypeOK
<1>3. DocumentsExact'
  <2> SUFFICES ASSUME NEW j \in Job
               PROVE  /\ j \in records' => waiters'[j] \subseteq documents'[j]
                      /\ \A t \in documents'[j] : t < nextTask' /\ jobByTask'[t] \in {j, NoJob}
    BY DEF DocumentsExact
  <2>1. j \in records' => j \in records /\ documents'[j] = documents[j]
    BY DEF EraseRecords
  <2>2. /\ j \in records => waiters[j] \subseteq documents[j]
        /\ \A t \in documents[j] : t < nextTask /\ jobByTask[t] \in {j, NoJob}
    BY DEF DocumentsExact
  <2> QED BY <1>1, <1>2, <2>1, <2>2
<1>4. RequestsExact'
  <2>1. ASSUME NEW t \in Task, jobByTask'[t] # NoJob PROVE Waiting(t)'
    <3>1. t \notin T /\ jobByTask[t] # NoJob /\ Waiting(t)
      BY <2>1 DEF RequestsExact
    <3>2. told'[t] = told[t]
      BY <3>1
    <3> QED BY <3>1, <3>2 DEF Waiting, CallerAt
  <2>2. ASSUME NEW t \in Task, t >= nextTask PROVE told'[t] = <<>>
    <3>1. told[t] = <<>> /\ nextTask \in Nat
      BY <2>2, QueueAssumption DEF RequestsExact, TypeOK
    <3>2. jobByTask[t] # NoJob => t < nextTask
      BY DEF RequestsExact, Waiting
    <3>3. t \in Nat
      BY QueueAssumption DEF Task
    <3> QED BY <2>2, <3>1, <3>2, <3>3
  <2> QED BY <2>1, <2>2 DEF RequestsExact
<1>5. StampsPast'
  BY DEF StampsPast
<1> QED BY <1>3, <1>4, <1>5 DEF PromiseInv

LEMMA DecodeKeepsPromise ==
  ASSUME Inv, NEW h \in Hwnd, NEW k \in Key, DecodePcm(h, k)
  PROVE  PromiseInv'
<1> USE DEF Inv, HostInv
<1> DEFINE n == nextTask
           m == jobByTask'[n]
<1>1. n \in Task /\ n \in Nat /\ n' = n + 1
  BY QueueAssumption DEF TypeOK, DecodePcm, Task
<1>2. /\ ~shuttingDown /\ UNCHANGED <<shuttingDown, doc, told>>
      /\ records' = records \cup {m}
      /\ documents' = [documents EXCEPT ![m] = @ \cup {n}]
      /\ stamp' = [stamp EXCEPT ![n] = [hwnd |-> h, doc |-> doc[h]]]
  BY DEF DecodePcm
<1>3. /\ closed' = closed /\ m \in Job /\ m # NoJob
      /\ owner' = [owner EXCEPT ![n] = CallerAt(h)]
      /\ \A t \in Task \ {n} : jobByTask'[t] = jobByTask[t]
      /\ \A j \in Job : waiters'[j] \subseteq waiters[j] \cup (IF j = m THEN {n} ELSE {})
  <2>1. CASE SubmitMerged(n, k, CallerAt(h))
    <3>1. openByKey[k] \in Job /\ openByKey[k] # NoJob
      BY <2>1 DEF SubmitMerged, QueueInv, QueueTypeOK
    <3>2. m = openByKey[k]
      BY <1>1, <2>1 DEF SubmitMerged, QueueInv, QueueTypeOK
    <3> QED BY <1>1, <2>1, <3>1, <3>2 DEF SubmitMerged, QueueInv, QueueTypeOK
  <2>2. CASE SubmitNew(n, k, CallerAt(h))
    <3>1. nextJobId \in Job /\ nextJobId # NoJob
      BY <2>2, QueueAssumption DEF SubmitNew, QueueInv, QueueTypeOK, Job, NoJob
    <3>2. m = nextJobId
      BY <1>1, <2>2 DEF SubmitNew, QueueInv, QueueTypeOK
    <3> QED BY <1>1, <2>2, <3>1, <3>2 DEF SubmitNew, QueueInv, QueueTypeOK
  <2> QED BY <2>1, <2>2 DEF DecodePcm, Submit
<1>4. \A j \in Job : documents'[j] = IF j = m THEN documents[m] \cup {n} ELSE documents[j]
  BY <1>2, <1>3 DEF TypeOK
<1>5. \A j \in Job : waiters[j] # {} => j \in records
  BY <1>2 DEF RecordsExact, QueueInv, IndexesExact, WaitedForExact
<1>6. m \in records \/ waiters[m] = {}
  BY <1>3, <1>5
<1>7. \A t \in Task : stamp'[t] = IF t = n THEN [hwnd |-> h, doc |-> doc[h]] ELSE stamp[t]
  BY <1>1, <1>2 DEF TypeOK
<1>8. \A t \in Task : t \in Nat /\ (t < n => t # n /\ t < n + 1) /\ (t >= n + 1 => t >= n)
  BY <1>1, QueueAssumption DEF Task
<1>9. \A j \in Job : documents[j] \subseteq Task
  BY DEF TypeOK
<1> HIDE DEF n, m
<1>10. DocumentsExact'
  <2> SUFFICES ASSUME NEW j \in Job
               PROVE  /\ j \in records' => waiters'[j] \subseteq documents'[j]
                      /\ \A t \in documents'[j] : t < nextTask' /\ jobByTask'[t] \in {j, NoJob}
    BY DEF DocumentsExact
  <2>1. /\ j \in records => waiters[j] \subseteq documents[j]
        /\ \A t \in documents[j] : t < n /\ jobByTask[t] \in {j, NoJob}
    BY DEF DocumentsExact, n
  <2>2. j \in records' => waiters'[j] \subseteq documents'[j]
    BY <1>2, <1>3, <1>4, <1>6, <2>1
  <2>3. ASSUME NEW t \in documents'[j] PROVE t < nextTask' /\ jobByTask'[t] \in {j, NoJob}
    <3>1. CASE t \in documents[j]
      <4>1. t \in Task /\ t < n /\ t # n /\ t < n + 1
        BY <1>8, <1>9, <2>1, <3>1
      <4> QED BY <1>1, <1>3, <2>1, <3>1, <4>1 DEF n
    <3>2. CASE t \notin documents[j]
      <4>1. j = m /\ t = n
        BY <1>4, <3>2
      <4> QED BY <1>1, <4>1 DEF n, m
    <3> QED BY <3>1, <3>2
  <2> QED BY <2>2, <2>3
<1>11. RequestsExact'
  <2>1. ASSUME NEW t \in Task, jobByTask'[t] # NoJob PROVE Waiting(t)'
    <3>1. CASE t = n
      <4>1. told[n] = <<>>
        BY <1>1 DEF RequestsExact, n
      <4>2. stamp'[n].hwnd = h /\ owner'[n] = CallerAt(h)
        BY <1>1, <1>3, <1>7 DEF QueueInv, QueueTypeOK
      <4> QED BY <1>1, <1>2, <3>1, <4>1, <4>2 DEF Waiting, CallerAt, n
    <3>2. CASE t # n
      <4>1. jobByTask[t] # NoJob /\ Waiting(t)
        BY <1>3, <2>1, <3>2 DEF RequestsExact
      <4>2. owner'[t] = owner[t] /\ stamp'[t] = stamp[t]
        BY <1>3, <1>7, <3>2 DEF QueueInv, QueueTypeOK
      <4> QED BY <1>1, <1>2, <1>8, <4>1, <4>2 DEF Waiting, CallerAt, n
    <3> QED BY <3>1, <3>2
  <2>2. \A t \in Task : t >= nextTask' => told'[t] = <<>>
    BY <1>1, <1>2, <1>8 DEF RequestsExact, n
  <2> QED BY <1>2, <1>3, <2>1, <2>2 DEF RequestsExact
<1>12. StampsPast'
  <2>1. doc[h] <= doc[h]
    BY DEF TypeOK
  <2> QED BY <1>2, <1>7, <2>1 DEF StampsPast
<1> QED BY <1>10, <1>11, <1>12 DEF PromiseInv

(* What a cancellation does to the requests, whoever it was for.           *)
LEMMA PromiseStep ==
  ASSUME Inv, [Next]_vars
  PROVE  PromiseInv'
<1> USE DEF Inv, HostInv
<1>1. ASSUME NEW h \in Hwnd, NEW k \in Key, DecodePcm(h, k) PROVE PromiseInv'
  BY <1>1, DecodeKeepsPromise
<1>2. ASSUME NEW T \in SUBSET Task, RemoveWaiters(T), GiveUp(T),
             \A h \in Hwnd : doc'[h] \in {doc[h], 0},
             \A t \in Task : told'[t] = told[t] \/ (t \in T /\ jobByTask[t] # NoJob),
             UNCHANGED <<stamp, nextTask, shuttingDown>>
      PROVE  PromiseInv'
  <2>1. DiscardedBy(T) \in SUBSET Job
    BY DEF DiscardedBy, Emptied
  <2>2. EraseRecords(DiscardedBy(T))
    BY <1>2 DEF GiveUp, ForgetPcmJobs
  <2>3. /\ \A t \in Task : jobByTask'[t] = IF t \in T THEN NoJob ELSE jobByTask[t]
        /\ \A j \in Job : waiters'[j] \subseteq waiters[j]
        /\ UNCHANGED <<owner, closed>>
    BY <1>2 DEF RemoveWaiters
  <2> QED BY <1>2, <2>1, <2>2, <2>3, LeavingKeepsPromise
<1>3. ASSUME NEW t \in Task, NEW h \in Hwnd, CancelDecodePcm(t, h) PROVE PromiseInv'
  <2>1. /\ jobByTask[t] # NoJob
        /\ \A x \in Task : told'[x] = told[x] \/ x \in {t}
    BY <1>3 DEF CancelDecodePcm, Cancel, EmitTo, Attributed
  <2>2. /\ RemoveWaiters({t}) /\ GiveUp({t})
        /\ UNCHANGED <<doc, stamp, nextTask, shuttingDown>>
    BY <1>3 DEF CancelDecodePcm, Cancel
  <2>3. \A g \in Hwnd : doc'[g] \in {doc[g], 0}
    BY <2>2
  <2>4. \A x \in Task : told'[x] = told[x] \/ (x \in {t} /\ jobByTask[x] # NoJob)
    BY <2>1
  <2>5. {t} \in SUBSET Task
    OBVIOUS
  <2> HIDE DEF Inv, HostInv
  <2> QED BY <1>2, <2>2, <2>3, <2>4, <2>5
<1>4. ASSUME NEW h \in Hwnd, ClosePopup(h) PROVE PromiseInv'
  <2>1. \A g \in Hwnd : doc'[g] \in {doc[g], 0}
    BY <1>4 DEF ClosePopup, TypeOK
  <2>2. WaitersOfWindow(PageOf[h]) \in SUBSET Task
    BY DEF WaitersOfWindow
  <2>3. /\ RemoveWaiters(WaitersOfWindow(PageOf[h]))
        /\ GiveUp(WaitersOfWindow(PageOf[h]))
        /\ UNCHANGED <<stamp, nextTask, shuttingDown, told>>
    BY <1>4 DEF ClosePopup, DropWindow
  <2> HIDE DEF Inv, HostInv
  <2> QED BY <1>2, <2>1, <2>2, <2>3
<1>5. CASE OnQuit
  <2>1. /\ closed' /\ shuttingDown' /\ UNCHANGED <<doc, stamp, told, nextTask>>
        /\ \A t \in Task : jobByTask'[t] = NoJob
        /\ \A j \in Job : waiters'[j] = {}
        /\ EraseRecords(queued)
    BY <1>5 DEF OnQuit, DropAll, ForgetPcmJobs
  <2>2. queued \in SUBSET Job
    BY DEF QueueInv, QueueTypeOK
  <2>3. \A j \in Job : documents'[j] \subseteq documents[j] /\ documents[j] \subseteq Task
    BY <2>1, <2>2, ErasedDocuments DEF TypeOK
  <2>4. DocumentsExact'
    BY <2>1, <2>3 DEF DocumentsExact
  <2>5. RequestsExact'
    BY <2>1 DEF RequestsExact
  <2>6. StampsPast'
    BY <2>1 DEF StampsPast
  <2> QED BY <2>4, <2>5, <2>6 DEF PromiseInv
<1>6. ASSUME NEW j \in Job, OnPcmJobFinished(j) PROVE PromiseInv'
  <2>1. \A t \in waiters[j] : t \in Task /\ jobByTask[t] = j /\ j # NoJob
    BY QueueAssumption DEF QueueInv, QueueTypeOK, IndexesExact, TaskIndexExact, Job, NoJob
  <2>3. /\ \A t \in Task : jobByTask'[t] = IF t \in waiters[j] THEN NoJob ELSE jobByTask[t]
        /\ \A i \in Job : waiters'[i] \subseteq waiters[i]
        /\ UNCHANGED <<owner, closed, doc, stamp, nextTask, shuttingDown>>
        /\ EraseRecords({j})
    BY <1>6 DEF OnPcmJobFinished, Finish, QueueInv, QueueTypeOK
  <2>4. \A t \in Task : told'[t] = told[t] \/ t \in waiters[j]
    BY <1>6 DEF OnPcmJobFinished, EmitTo, Notified
  <2>5. waiters[j] \in SUBSET Task /\ {j} \in SUBSET Job
    BY <2>1
  <2>6. \A t \in Task : told'[t] = told[t] \/ (t \in waiters[j] /\ jobByTask[t] # NoJob)
    BY <2>1, <2>4
  <2>7. \A h \in Hwnd : doc'[h] \in {doc[h], 0}
    BY <2>3
  <2> HIDE DEF Inv, HostInv
  <2> QED BY <2>3, <2>5, <2>6, <2>7, LeavingKeepsPromise
<1>7. ASSUME NEW j \in Job, OnLateWorker(j) PROVE PromiseInv'
  <2>1. EraseRecords({j}) /\ UNCHANGED <<queueVars, doc, stamp, nextTask, shuttingDown, told>>
    BY <1>7 DEF OnLateWorker, ForgetPcmJobs
  <2>2. shuttingDown
    BY <1>7 DEF OnLateWorker, SlotWillBeFreed, Outcome
  <2>3. \A t \in Task : jobByTask[t] = NoJob
    BY <2>2, QuittingIsEmpty
  <2>4. {j} \in SUBSET Job /\ Task \in SUBSET Task /\ j # NoJob
    BY QueueAssumption DEF Job, NoJob
  <2>5. UNCHANGED <<owner, closed, jobByTask, waiters>>
    BY <2>1 DEF queueVars
  <2>6. \A t \in Task : jobByTask'[t] = IF t \in Task THEN NoJob ELSE jobByTask[t]
    BY <2>3, <2>5
  <2>7. /\ \A i \in Job : waiters'[i] \subseteq waiters[i]
        /\ \A h \in Hwnd : doc'[h] \in {doc[h], 0}
        /\ \A t \in Task : told'[t] = told[t]
    BY <2>1, <2>5
  <2> HIDE DEF Inv, HostInv
  <2> QED BY <2>1, <2>4, <2>5, <2>6, <2>7, LeavingKeepsPromise
<1>8. ASSUME NEW h \in Hwnd, NewDocument(h) \/ ClosePanel(h) PROVE PromiseInv'
  <2>1. /\ UNCHANGED <<queueVars, stamp, documents, records, nextTask, shuttingDown, told>>
        /\ doc' = [doc EXCEPT ![h] = doc[h] + 1] \/ doc' = [doc EXCEPT ![h] = 0]
        /\ doc[h] # 0
    BY <1>8 DEF NewDocument, ClosePanel, Alive
  <2>2. UNCHANGED <<owner, closed, jobByTask, waiters>>
    BY <2>1 DEF queueVars
  <2>3. DocumentsExact' /\ RequestsExact'
    BY <2>1, <2>2 DEF DocumentsExact, RequestsExact, Waiting, CallerAt
  <2>4. ASSUME NEW g \in Hwnd
        PROVE  doc'[g] = 0 \/ doc'[g] = doc[g] \/ (doc'[g] = doc[g] + 1 /\ doc[g] # 0)
    <3>1. doc \in [Hwnd -> Nat]
      BY DEF TypeOK
    <3>2. CASE doc' = [doc EXCEPT ![h] = doc[h] + 1]
      BY <2>1, <3>1, <3>2
    <3>3. CASE doc' = [doc EXCEPT ![h] = 0]
      BY <3>1, <3>3
    <3> QED BY <2>1, <3>2, <3>3
  <2>5. StampsPast'
    <3> SUFFICES ASSUME NEW t \in Task, stamp[t].hwnd \in Hwnd
                 PROVE  doc'[stamp[t].hwnd] = 0 \/ stamp[t].doc <= doc'[stamp[t].hwnd]
      BY <2>1 DEF StampsPast
    <3>1. doc[stamp[t].hwnd] = 0 \/ stamp[t].doc <= doc[stamp[t].hwnd]
      BY DEF StampsPast
    <3>2. stamp[t].doc \in Nat /\ doc[stamp[t].hwnd] \in Nat
      BY DEF TypeOK
    <3> QED BY <2>4, <3>1, <3>2
  <2> QED BY <2>3, <2>5 DEF PromiseInv
<1>9. ASSUME (\E j \in Job : WorkerReturns(j)) \/ UNCHANGED vars PROVE PromiseInv'
  <2>1. UNCHANGED <<queueVars, doc, stamp, documents, records, nextTask, shuttingDown, told>>
    BY <1>9 DEF WorkerReturns, vars, hostVars
  <2>2. UNCHANGED <<owner, closed, jobByTask, waiters>>
    BY <2>1 DEF queueVars
  <2> QED BY <2>1, <2>2
          DEF PromiseInv, DocumentsExact, RequestsExact, StampsPast, Waiting, CallerAt
<1> QED BY <1>1, <1>3, <1>4, <1>5, <1>6, <1>7, <1>8, <1>9 DEF Next

-----------------------------------------------------------------------------
(* A request that waits was told nothing, so what it is told is one event. *)
LEMMA EmitTypes ==
  ASSUME TypeOK, NEW T \in SUBSET Task, NEW e, EmitTo(T, e),
         \A t \in T : told[t] = <<>> /\ e[t] \in Event
  PROVE  told' \in [Task -> {<<>>} \cup {<<x>> : x \in Event}]
<1>1. \A t \in Task : told[t] \in {<<>>} \cup {<<x>> : x \in Event}
  BY DEF TypeOK
<1>2. ASSUME NEW t \in T PROVE Append(told[t], e[t]) = <<e[t]>>
  <2>1. ASSUME NEW x \in Event PROVE Append(<<>>, x) = <<x>>
    <3>1. <<>> \in Seq(Event)
      OBVIOUS
    <3>2. Append(<<>>, x) \in Seq(Event) /\ Len(Append(<<>>, x)) = 1 /\ Append(<<>>, x)[1] = x
      BY <3>1
    <3> QED BY <3>2
  <2> QED BY <2>1
<1>3. \A t \in Task :
        (IF t \in T /\ IsCurrentDocument(t) THEN Append(told[t], e[t]) ELSE told[t])
          \in {<<>>} \cup {<<x>> : x \in Event}
  BY <1>1, <1>2
<1> QED BY <1>3 DEF EmitTo

LEMMA EraseTypes ==
  ASSUME TypeOK, NEW J, EraseRecords(J)
  PROVE  /\ records' \subseteq Job
         /\ documents' \in [Job -> SUBSET Task]
BY DEF TypeOK, EraseRecords

LEMMA ForgetTypes ==
  ASSUME TypeOK, NEW J, NEW A, NEW buf \in [Job -> {"none", "open", "detached"}],
         ForgetPcmJobs(J, AbortPcmJobs(A), buf)
  PROVE  /\ records' \subseteq Job
         /\ documents' \in [Job -> SUBSET Task]
         /\ tokens' \in [Job -> {"none", "armed", "aborted"}]
         /\ buffer' \in [Job -> {"none", "open", "detached"}]
<1>1. EraseRecords(J)
  BY DEF ForgetPcmJobs
<1>2. AbortPcmJobs(A) \in [Job -> {"none", "armed", "aborted"}]
  BY DEF AbortPcmJobs, TypeOK
<1> QED BY <1>1, <1>2, EraseTypes DEF ForgetPcmJobs

LEMMA StartTypes ==
  ASSUME NEW J, NEW recs, NEW docs,
         NEW tok \in [Job -> {"none", "armed", "aborted"}],
         NEW buf \in [Job -> {"none", "open", "detached"}],
         NEW wrk \in [Job -> {"none", "running"} \cup Outcome],
         StartPcmJobs(J, recs, docs, tok, buf, wrk)
  PROVE  /\ tokens' \in [Job -> {"none", "armed", "aborted"}]
         /\ buffer' \in [Job -> {"none", "open", "detached"}]
         /\ worker' \in [Job -> {"none", "running"} \cup Outcome]
<1>0. PICK allocated \in SUBSET {j \in J \cap recs : HasEnvironment(j, docs)} :
        /\ buffer' = [j \in Job |-> IF j \in allocated THEN "open" ELSE buf[j]]
        /\ tokens' = [j \in Job |-> IF j \in allocated THEN "armed" ELSE tok[j]]
        /\ worker' = [j \in Job |-> CASE j \in allocated -> "running"
                                      [] j \in (J \cap recs) \ allocated -> "Failed"
                                      [] OTHER -> wrk[j]]
  BY DEF StartPcmJobs
<1>1. tokens' \in [Job -> {"none", "armed", "aborted"}]
  BY <1>0
<1>2. buffer' \in [Job -> {"none", "open", "detached"}]
  BY <1>0
<1>3. ASSUME NEW j \in Job
      PROVE (CASE j \in allocated -> "running"
               [] j \in (J \cap recs) \ allocated -> "Failed"
               [] OTHER -> wrk[j]) \in {"none", "running"} \cup Outcome
  <2>1. "Failed" \in Outcome
    BY DEF Outcome
  <2>2. wrk[j] \in {"none", "running"} \cup Outcome
    OBVIOUS
  <2> QED BY <2>1, <2>2
<1>4. worker' \in [Job -> {"none", "running"} \cup Outcome]
  BY <1>0, <1>3
<1> QED BY <1>1, <1>2, <1>4

LEMMA ClosedTypes ==
  ASSUME TypeOK, NEW h \in Hwnd, doc' = [doc EXCEPT ![h] = 0]
  PROVE  doc' \in [Hwnd -> Nat] /\ \A g \in Hwnd : doc'[g] <= MaxDoc[g]
<1>1. doc \in [Hwnd -> Nat] /\ \A g \in Hwnd : doc[g] <= MaxDoc[g]
  BY DEF TypeOK
<1>2. ASSUME NEW g \in Hwnd PROVE doc'[g] <= MaxDoc[g]
  <2>1. MaxDoc[g] \in Nat
    BY PcmAssumption
  <2>2. 0 <= MaxDoc[g] /\ doc'[g] \in {0, doc[g]}
    BY <1>1, <2>1
  <2> QED BY <1>1, <2>2
<1> QED BY <1>1, <1>2

LEMMA TypeStep ==
  ASSUME Inv, QueueInv', [Next]_vars
  PROVE  TypeOK'
<1>0. QueueTypeOK' /\ TypeOK
  BY DEF Inv, HostInv, QueueInv
<1>1. ASSUME NEW h \in Hwnd, NEW k \in Key, DecodePcm(h, k) PROVE TypeOK'
  <2> DEFINE n == nextTask
             m == jobByTask'[n]
  <2>1. n \in Task /\ n' \in 1..(MaxTask + 1) /\ UNCHANGED <<doc, shuttingDown, told>>
    BY <1>0, <1>1, QueueAssumption DEF TypeOK, DecodePcm, Task
  <2>2. m \in Job
    <3>1. jobByTask' \in [Task -> Job \cup {NoJob}]
      BY <1>0 DEF QueueTypeOK
    <3>2. m # NoJob
      <4>1. nextJobId # NoJob
        BY QueueAssumption DEF Inv, QueueInv, QueueTypeOK, NoJob
      <4> QED BY <1>1, <2>1, <4>1
              DEF DecodePcm, Submit, SubmitMerged, SubmitNew, Inv, QueueInv, QueueTypeOK
    <3> QED BY <2>1, <3>1, <3>2
  <2>3. /\ records' = records \cup {m}
        /\ documents' = [documents EXCEPT ![m] = @ \cup {n}]
        /\ stamp' = [stamp EXCEPT ![n] = [hwnd |-> h, doc |-> doc[h]]]
        /\ StartPcmJobs(Starting, records', documents', tokens, buffer, worker)
    BY <1>1 DEF DecodePcm
  <2> HIDE DEF n, m
  <2>4. /\ records' \subseteq Job
        /\ documents' \in [Job -> SUBSET Task]
        /\ stamp' \in [Task -> [hwnd : Hwnd \cup {NoHwnd}, doc : Nat]]
    BY <1>0, <2>1, <2>2, <2>3 DEF TypeOK
  <2>5. /\ tokens' \in [Job -> {"none", "armed", "aborted"}]
        /\ buffer' \in [Job -> {"none", "open", "detached"}]
        /\ worker' \in [Job -> {"none", "running"} \cup Outcome]
    <3>1. /\ tokens \in [Job -> {"none", "armed", "aborted"}]
          /\ buffer \in [Job -> {"none", "open", "detached"}]
          /\ worker \in [Job -> {"none", "running"} \cup Outcome]
      BY <1>0 DEF TypeOK
    <3> QED BY <2>3, <3>1, StartTypes
  <2> QED BY <1>0, <2>1, <2>4, <2>5 DEF TypeOK, n
<1>2. buffer \in [Job -> {"none", "open", "detached"}]
  BY <1>0 DEF TypeOK
<1>3. ASSUME NEW t \in Task, NEW h \in Hwnd, CancelDecodePcm(t, h) PROVE TypeOK'
  <2> DEFINE T == Attributed(t)
             e == [x \in {t} |-> "cancelled"]
  <2>1. told[t] = <<>>
    BY <1>3 DEF CancelDecodePcm, Cancel, Inv, HostInv, RequestsExact, Waiting
  <2>2. EmitTo(T, e) /\ T \in SUBSET Task /\ \A x \in T : told[x] = <<>> /\ e[x] \in Event
    BY <1>3, <2>1 DEF CancelDecodePcm, Attributed, Event
  <2> HIDE DEF T, e
  <2>3. told' \in [Task -> {<<>>} \cup {<<x>> : x \in Event}]
    BY <1>0, <2>2, EmitTypes
  <2>4. /\ UNCHANGED <<doc, stamp, worker, nextTask, shuttingDown>>
        /\ ForgetPcmJobs(DiscardedBy({t}), AbortPcmJobs(AbortedBy({t})), buffer)
    BY <1>3 DEF CancelDecodePcm, GiveUp
  <2> QED BY <1>0, <1>2, <2>3, <2>4, ForgetTypes DEF TypeOK
<1>4. ASSUME NEW h \in Hwnd, ClosePopup(h) PROVE TypeOK'
  <2> DEFINE T == WaitersOfWindow(PageOf[h])
  <2>1. /\ UNCHANGED <<stamp, worker, nextTask, shuttingDown, told>>
        /\ ForgetPcmJobs(DiscardedBy(T), AbortPcmJobs(AbortedBy(T)), buffer)
        /\ doc' = [doc EXCEPT ![h] = 0]
    BY <1>4 DEF ClosePopup, GiveUp
  <2>2. doc' \in [Hwnd -> Nat] /\ \A g \in Hwnd : doc'[g] <= MaxDoc[g]
    BY <1>0, <2>1, ClosedTypes
  <2> HIDE DEF T
  <2> QED BY <1>0, <1>2, <2>1, <2>2, ForgetTypes DEF TypeOK
<1>5. CASE OnQuit
  <2>1. /\ UNCHANGED <<doc, stamp, worker, nextTask, told>> /\ shuttingDown' = TRUE
        /\ ForgetPcmJobs(queued, AbortPcmJobs(DropAllAborts), BuffersAtQuit)
    BY <1>5 DEF OnQuit
  <2>2. BuffersAtQuit \in [Job -> {"none", "open", "detached"}]
    BY <1>2 DEF BuffersAtQuit
  <2> QED BY <1>0, <2>1, <2>2, ForgetTypes DEF TypeOK
<1>6. ASSUME NEW j \in Job, OnPcmJobFinished(j) PROVE TypeOK'
  <2>1. \A t \in Notified(j) : t \in Task /\ jobByTask[t] = j /\ j # NoJob
    BY QueueAssumption
       DEF Notified, Inv, QueueInv, QueueTypeOK, IndexesExact, TaskIndexExact, Job, NoJob
  <2>2. \A t \in Notified(j) : told[t] = <<>>
    BY <2>1 DEF Inv, HostInv, RequestsExact, Waiting
  <2>3. EventsOf(worker[j]) \subseteq Event
    BY <1>6 DEF OnPcmJobFinished, EventsOf, Event, Outcome
  <2>4. PICK e \in [Notified(j) -> EventsOf(worker[j])] : EmitTo(Notified(j), e)
    BY <1>6 DEF OnPcmJobFinished
  <2>5. told' \in [Task -> {<<>>} \cup {<<x>> : x \in Event}]
    <3>1. Notified(j) \in SUBSET Task /\ \A t \in Notified(j) : e[t] \in Event
      BY <2>1, <2>3, <2>4
    <3> QED BY <1>0, <2>2, <2>4, <3>1, EmitTypes
  <2>6. /\ [tokens EXCEPT ![j] = "none"] \in [Job -> {"none", "armed", "aborted"}]
        /\ BuffersAfter(j) \in [Job -> {"none", "open", "detached"}]
        /\ [worker EXCEPT ![j] = "none"] \in [Job -> {"none", "running"} \cup Outcome]
    BY <1>0 DEF TypeOK, BuffersAfter
  <2>7. /\ UNCHANGED <<doc, stamp, nextTask, shuttingDown>> /\ EraseRecords({j})
        /\ StartPcmJobs(Starting, records', documents', [tokens EXCEPT ![j] = "none"],
                        BuffersAfter(j), [worker EXCEPT ![j] = "none"])
    BY <1>6 DEF OnPcmJobFinished
  <2>8. /\ tokens' \in [Job -> {"none", "armed", "aborted"}]
        /\ buffer' \in [Job -> {"none", "open", "detached"}]
        /\ worker' \in [Job -> {"none", "running"} \cup Outcome]
    BY <2>6, <2>7, StartTypes
  <2> QED BY <1>0, <2>5, <2>7, <2>8, EraseTypes DEF TypeOK
<1>7. ASSUME NEW j \in Job, WorkerReturns(j) PROVE TypeOK'
  BY <1>0, <1>7 DEF WorkerReturns, TypeOK
<1>8. ASSUME NEW j \in Job, OnLateWorker(j) PROVE TypeOK'
  <2>1. /\ records' \subseteq Job
        /\ documents' \in [Job -> SUBSET Task]
        /\ tokens' \in [Job -> {"none", "armed", "aborted"}]
        /\ buffer' \in [Job -> {"none", "open", "detached"}]
        /\ worker' \in [Job -> {"none", "running"} \cup Outcome]
    BY <1>0, <1>8, EraseTypes DEF OnLateWorker, ForgetPcmJobs, TypeOK
  <2> QED BY <1>0, <1>8, <2>1 DEF OnLateWorker, TypeOK
<1>9. ASSUME NEW h \in Hwnd, NewDocument(h) \/ ClosePanel(h) PROVE TypeOK'
  <2>1. doc' \in [Hwnd -> Nat] /\ \A g \in Hwnd : doc'[g] <= MaxDoc[g]
    <3>1. CASE NewDocument(h)
      <4>1. doc' = [doc EXCEPT ![h] = doc[h] + 1] /\ doc[h] < MaxDoc[h]
        BY <3>1 DEF NewDocument
      <4>2. doc[h] \in Nat /\ MaxDoc[h] \in Nat
        BY <1>0, PcmAssumption DEF TypeOK
      <4> QED BY <1>0, <4>1, <4>2 DEF TypeOK
    <3>2. CASE ClosePanel(h)
      BY <1>0, <3>2, ClosedTypes DEF ClosePanel
    <3> QED BY <1>9, <3>1, <3>2
  <2> QED BY <1>0, <1>9, <2>1 DEF NewDocument, ClosePanel, TypeOK
<1>10. CASE UNCHANGED vars
  BY <1>0, <1>10 DEF vars, hostVars, TypeOK
<1> QED BY <1>1, <1>3, <1>4, <1>5, <1>6, <1>7, <1>8, <1>9, <1>10 DEF Next

LEMMA StepInv == Inv /\ [Next]_vars => Inv'
<1> SUFFICES ASSUME Inv, [Next]_vars PROVE Inv'
  OBVIOUS
<1>1. QueueInv'
  BY HostStepsQueue, QueueStepInv DEF Inv
<1>2. HostInv'
  BY <1>1, TypeStep, RecordsStep, PromiseStep DEF HostInv, RecordsInv, PromiseInv
<1> QED BY <1>1, <1>2 DEF Inv

LEMMA InvAlways == Spec => []Inv
BY InitInv, StepInv, PTL DEF Spec

-----------------------------------------------------------------------------
(* Every variable keeps its type; in particular a request is told at most  *)
(* one terminal event.                                                     *)
THEOREM TypesHold == Spec => []TypeOK
<1>1. Inv => TypeOK
  BY DEF Inv, HostInv
<1> QED BY <1>1, InvAlways, PTL

(* The buffer a worker writes to stays mapped until the worker is back.    *)
THEOREM WriterKeepsBuffer == Spec => []NeverClosedUnderWriter
<1>1. Inv => NeverClosedUnderWriter
  BY DEF Inv, HostInv, TypeOK, BuffersExact, NeverClosedUnderWriter
<1> QED BY <1>1, InvAlways, PTL

(* Every slot that is taken has a worker or a posted result to free it.    *)
THEOREM SlotsComeBack == Spec => []SlotWillBeFreed
<1>1. Inv => SlotWillBeFreed
  BY DEF Inv, HostInv
<1> QED BY <1>1, InvAlways, PTL

(* With the one slot GetPcmJobs asks for, one decode buffer is open at a   *)
(* time, and it belongs to a job the host knows.                           *)
THEOREM OneBufferAtATime ==
  ASSUME Slots = 1
  PROVE  Spec => []OneOpenBuffer
<1>1. ASSUME Inv PROVE OneOpenBuffer
  <2>1. \A j \in Job : buffer[j] = "open" => j \in records /\ j \in Active
    BY <1>1 DEF Inv, HostInv, BuffersExact
  <2>2. IsFiniteSet(Active) /\ Cardinality(Active) <= 1
    <3>1. Active \subseteq Job
      BY DEF Active, ActiveIn
    <3> QED BY <1>1, <3>1, JobsFinite
            DEF Inv, QueueInv, SlotsRespected, SlotBound, ActiveCount
  <2>3. ASSUME NEW i \in Active, NEW j \in Active, i # j PROVE FALSE
    <3>0. IsFiniteSet({i}) /\ Cardinality({i}) = 1
      BY FS_Singleton
    <3>1. IsFiniteSet({i} \cup {j}) /\ Cardinality({i} \cup {j}) = 2
      BY <2>3, <3>0, FS_AddElement
    <3>2. Cardinality({i} \cup {j}) <= Cardinality(Active)
      BY <2>2, FS_Subset
    <3>3. Cardinality(Active) \in Nat
      BY <2>2, FS_CardinalityType
    <3> QED BY <2>2, <3>1, <3>2, <3>3
  <2> QED BY <2>1, <2>3 DEF OneOpenBuffer
<1> QED BY <1>1, InvAlways, PTL

(* Jobs start in the order they were submitted, also when one fails to get *)
(* its buffer.                                                             *)
THEOREM JobsOrdered == Spec => StartsInOrder
<1>1. Inv /\ [Next]_vars
        => [\A j \in Job : jobState[j] # "decoding" /\ jobState'[j] = "decoding"
              => \A i \in queued' : j < i]_queueVars
  BY HostStepsQueue, QueueStepInOrder DEF Inv
<1> QED BY <1>1, InvAlways, PTL DEF Spec, StartsInOrder

-----------------------------------------------------------------------------
(* The contract's steps.  A request that has an audience loses it only     *)
(* when its document goes or the process quits, and none but a new request *)
(* gains one: the document a stamp names never comes back.                 *)
LEMMA AudienceShrinks ==
  ASSUME Inv, shuttingDown => shuttingDown', nextTask' = nextTask,
         stamp' = stamp,
         \A h \in Hwnd : \/ doc'[h] \in {doc[h], 0}
                         \/ doc[h] # 0 /\ doc'[h] = doc[h] + 1
  PROVE  Audience' \subseteq Audience
<1> SUFFICES ASSUME NEW t \in Task, IsCurrentDocument(t)' PROVE IsCurrentDocument(t)
  BY DEF Audience
<1> DEFINE h == stamp[t].hwnd
<1>1. stamp'[t] = stamp[t]
  OBVIOUS
<1>2. h \in Hwnd /\ doc[h] \in Nat /\ stamp[t].doc \in Nat
  <2>1. stamp[t] \in [hwnd : Hwnd \cup {NoHwnd}, doc : Nat] /\ doc \in [Hwnd -> Nat]
    BY DEF Inv, HostInv, TypeOK
  <2>2. h # NoHwnd
    BY <1>1 DEF IsCurrentDocument
  <2> QED BY <2>1, <2>2
<1>3. stamp[t].doc = doc'[h] /\ stamp[t].doc # 0 /\ h # NoHwnd
  BY <1>1 DEF IsCurrentDocument
<1>4. doc[h] = 0 \/ stamp[t].doc <= doc[h]
  BY <1>2 DEF Inv, HostInv, StampsPast
<1>5. doc'[h] = doc[h]
  BY <1>2, <1>3, <1>4
<1> QED BY <1>3, <1>5 DEF IsCurrentDocument

LEMMA ToldTypes == TypeOK' => told' \in [Task -> Seq(Event)]
<1>1. <<>> \in Seq(Event) /\ \A e \in Event : <<e>> \in Seq(Event)
  OBVIOUS
<1>2. \A x \in {<<>>} \cup {<<e>> : e \in Event} : x \in Seq(Event)
  BY <1>1, Zenon
<1> QED BY <1>2 DEF TypeOK

(* Requests leave in one step: those that are told had an audience, the    *)
(* others have none left.                                                  *)
LEMMA LeavingIsContract ==
  ASSUME Inv', Audience' \subseteq Audience, NEW T \in SUBSET Pending,
         \A t \in Task : jobByTask'[t] = IF t \in T THEN NoJob ELSE jobByTask[t],
         \A t \in Task : t \notin T => told'[t] = told[t],
         \A t \in T : \/ t \in Audience /\ \E e \in Event : told'[t] = Append(told[t], e)
                      \/ t \notin Audience' /\ told'[t] = told[t]
  PROVE  Contract!Next
<1> USE DEF Contract!Stay, Contract!Tell, Contract!Forget
<1>1. Pending' = Pending \ T /\ Pending' \subseteq Task /\ T \subseteq Task
  BY DEF Pending
<1>2. told' \in [Task -> Seq(Event)]
  BY ToldTypes DEF Inv, HostInv
<1>3. ASSUME NEW t \in Task PROVE Contract!Stay(t) \/ Contract!Tell(t) \/ Contract!Forget(t)
  <2>1. CASE t \notin T
    BY <1>1, <2>1
  <2>2. CASE t \in T
    BY <1>1, <2>2
  <2> QED BY <2>1, <2>2
<1> QED BY <1>1, <1>2, <1>3 DEF Contract!Next

LEMMA EmittedOrForgotten ==
  ASSUME Inv, Audience' \subseteq Audience, nextTask' = nextTask,
         NEW T \in SUBSET Pending, NEW e, EmitTo(T, e), \A t \in T : e[t] \in Event
  PROVE  /\ \A t \in Task : t \notin T => told'[t] = told[t]
         /\ \A t \in T : \/ t \in Audience /\ \E x \in Event : told'[t] = Append(told[t], x)
                         \/ t \notin Audience' /\ told'[t] = told[t]
<1>1. T \subseteq Task
  BY DEF Pending
<1>2. \A t \in Task : told'[t] = IF t \in T /\ IsCurrentDocument(t)
                                   THEN Append(told[t], e[t]) ELSE told[t]
  BY DEF EmitTo
<1>3. \A t \in T : ~shuttingDown /\ t < nextTask
  BY DEF Pending, Inv, HostInv, RequestsExact, Waiting
<1>4. \A t \in T : t \in Audience <=> IsCurrentDocument(t)
  BY <1>1, <1>3 DEF Audience
<1> QED BY <1>1, <1>2, <1>4

LEMMA AskingIsContract ==
  ASSUME Inv, Inv', NEW h \in Hwnd, NEW k \in Key, DecodePcm(h, k)
  PROVE  Contract!Next
<1> DEFINE n == nextTask
<1>1. n \in Task /\ nextTask' = n + 1 /\ n \in Nat /\ n # 0
  BY QueueAssumption DEF DecodePcm, Inv, HostInv, TypeOK, Task
<1>2. jobByTask[n] = NoJob /\ told[n] = <<>>
  BY <1>1 DEF Inv, HostInv, RequestsExact, Waiting
<1>3. /\ ~shuttingDown /\ ~shuttingDown' /\ told' = told /\ doc' = doc
      /\ \A t \in Task \ {n} : jobByTask'[t] = jobByTask[t] /\ stamp'[t] = stamp[t]
      /\ jobByTask'[n] # NoJob
  <2>1. nextJobId # NoJob
    BY QueueAssumption DEF Inv, QueueInv, QueueTypeOK, NoJob
  <2>2. jobByTask \in [Task -> Job \cup {NoJob}] /\ stamp \in [Task -> [hwnd : Hwnd \cup {NoHwnd}, doc : Nat]]
    BY DEF Inv, QueueInv, QueueTypeOK, HostInv, TypeOK
  <2> QED BY <1>1, <2>1, <2>2
          DEF DecodePcm, Submit, SubmitMerged, SubmitNew, Inv, QueueInv, QueueTypeOK
<1>4. n \in Audience \ Pending /\ Pending' = Pending \cup {n}
  <2>1. ~(n < nextTask)
    BY <1>1
  <2>2. n \in Audience \ Pending
    BY <1>1, <1>2, <1>3, <2>1 DEF Audience, Pending
  <2>3. \A t \in Task : t \in Pending' <=> t \in Pending \/ t = n
    BY <1>1, <1>2, <1>3 DEF Pending
  <2>4. Pending \subseteq Task /\ Pending' \subseteq Task
    BY DEF Pending
  <2> HIDE DEF n
  <2> QED BY <1>1, <2>2, <2>3, <2>4
<1>5. Audience' \subseteq Audience
  <2> SUFFICES ASSUME NEW t \in Audience' PROVE t \in Audience
    OBVIOUS
  <2>1. CASE t = n
    BY <1>4, <2>1
  <2>2. CASE t # n
    <3>1. t \in Task /\ t \in Nat
      BY DEF Audience, Task
    <3>2. (t < nextTask => t < nextTask') /\ stamp'[t] = stamp[t]
      BY <1>1, <1>3, <2>2, <3>1
    <3> QED BY <1>3, <3>1, <3>2 DEF Audience, IsCurrentDocument
  <2> QED BY <2>1, <2>2
<1>6. told' \in [Task -> Seq(Event)]
  BY ToldTypes DEF Inv, HostInv
<1>7. ASSUME NEW t \in Task PROVE Contract!Stay(t) \/ Contract!Ask(t)
  BY <1>2, <1>3, <1>4 DEF Contract!Stay, Contract!Ask
<1> QED BY <1>4, <1>5, <1>6, <1>7 DEF Contract!Next, Pending

(* The host implements the promise: a request is told once and only while  *)
(* the document that asked is shown, or forgotten after it has gone.       *)
THEOREM JobsKeepContract == Spec => ContractSpec
<1> DEFINE CNext == Contract!Next
           cvars == <<Pending, Audience, told>>
<1>1. Init => Contract!Init
  BY QueueAssumption DEF Init, QueueInit, Contract!Init, Pending, Audience, Task
<1>2. ASSUME Inv, Inv', [Next]_vars PROVE [CNext]_cvars
  <2>0. \A j \in Job : \A t \in waiters[j] : t \in Pending
    BY <1>2, QueueAssumption
       DEF Pending, Inv, QueueInv, QueueTypeOK, IndexesExact, TaskIndexExact, Job, NoJob
  <2>2. ASSUME NEW h \in Hwnd, NEW k \in Key, DecodePcm(h, k) PROVE CNext
    BY <1>2, <2>2, AskingIsContract
  <2>3. ASSUME NEW t \in Task, NEW h \in Hwnd, CancelDecodePcm(t, h) PROVE CNext
    <3> DEFINE T == Attributed(t)
               e == [x \in {t} |-> "cancelled"]
    <3>1. /\ UNCHANGED <<doc, stamp, nextTask, shuttingDown>>
          /\ EmitTo(T, e) /\ t \in Pending
          /\ \A x \in Task : jobByTask'[x] = IF x \in {t} THEN NoJob ELSE jobByTask[x]
      BY <2>3 DEF CancelDecodePcm, Cancel, RemoveWaiters, Pending
    <3>2. Audience' \subseteq Audience
      BY <1>2, <3>1, AudienceShrinks
    <3>3. T = {t} /\ e[t] \in Event
      <4>1. jobByTask[t] \in Job /\ t \in waiters[jobByTask[t]] /\ jobState[jobByTask[t]] # "absent"
        BY <1>2, <3>1
           DEF Pending, Inv, QueueInv, QueueTypeOK, IndexesExact, TaskIndexExact, WaitedForExact
      <4>2. ~shuttingDown
        BY <1>2, <3>1 DEF Pending, Inv, HostInv, RequestsExact, Waiting
      <4>3. jobByTask[t] \in records /\ t \in documents[jobByTask[t]]
        BY <1>2, <4>1, <4>2 DEF Inv, HostInv, RecordsExact, DocumentsExact
      <4> QED BY <4>3 DEF Attributed, Event
    <3> HIDE DEF T, e
    <3>4. {t} \in SUBSET Pending /\ EmitTo({t}, e) /\ \A x \in {t} : e[x] \in Event
      BY <3>1, <3>3
    <3> QED BY <1>2, <3>1, <3>2, <3>4, EmittedOrForgotten, LeavingIsContract
  <2>4. ASSUME NEW h \in Hwnd, ClosePopup(h) PROVE CNext
    <3> DEFINE T == WaitersOfWindow(PageOf[h])
    <3>1. /\ UNCHANGED <<stamp, nextTask, shuttingDown, told>>
          /\ doc' = [doc EXCEPT ![h] = 0] /\ PageOf[h] \in Popup
          /\ \A x \in Task : jobByTask'[x] = IF x \in T THEN NoJob ELSE jobByTask[x]
      BY <2>4 DEF ClosePopup, DropWindow, RemoveWaiters
    <3>2. \A g \in Hwnd : doc'[g] = IF g = h THEN 0 ELSE doc[g]
      BY <1>2, <3>1 DEF Inv, HostInv, TypeOK
    <3>3. T \in SUBSET Pending
      BY DEF WaitersOfWindow, Pending
    <3>4. ASSUME NEW t \in T PROVE t \notin Audience'
      <4>1. t \in Task /\ jobByTask[t] # NoJob /\ owner[t].windowId = PageOf[h]
        BY DEF WaitersOfWindow
      <4>2. ~shuttingDown /\ t < nextTask /\ stamp[t].hwnd \in Hwnd /\ owner[t] = CallerAt(stamp[t].hwnd)
        BY <1>2, <4>1 DEF Inv, HostInv, RequestsExact, Waiting
      <4>3. stamp[t].hwnd = h
        BY <3>1, <4>1, <4>2, PcmAssumption DEF CallerAt
      <4>4. ~IsCurrentDocument(t)'
        BY <3>1, <3>2, <4>2, <4>3 DEF IsCurrentDocument
      <4> QED BY <3>1, <4>2, <4>4 DEF Audience
    <3> HIDE DEF T
    <3>5. Audience' \subseteq Audience
      BY <1>2, <3>1, <3>2, AudienceShrinks
    <3> QED BY <1>2, <3>1, <3>3, <3>4, <3>5, LeavingIsContract
  <2>5. CASE OnQuit
    <3>1. /\ told' = told /\ Audience' = {} /\ Pending \in SUBSET Pending
          /\ \A x \in Task : jobByTask'[x] = IF x \in Pending THEN NoJob ELSE jobByTask[x]
      BY <2>5 DEF OnQuit, DropAll, Pending, Audience
    <3> QED BY <1>2, <3>1, LeavingIsContract
  <2>6. ASSUME NEW j \in Job, OnPcmJobFinished(j) PROVE CNext
    <3>1. /\ UNCHANGED <<doc, stamp, nextTask, shuttingDown>>
          /\ j \in records
          /\ \A x \in Task : jobByTask'[x] = IF x \in waiters[j] THEN NoJob ELSE jobByTask[x]
      BY <2>6 DEF OnPcmJobFinished, Finish
    <3>2. Audience' \subseteq Audience
      BY <1>2, <3>1, AudienceShrinks
    <3>3. Notified(j) = waiters[j] /\ waiters[j] \in SUBSET Pending
      BY <1>2, <2>0, <3>1 DEF Notified, Inv, HostInv, DocumentsExact
    <3>4. EventsOf(worker[j]) \subseteq Event
      BY <2>6 DEF OnPcmJobFinished, EventsOf, Event, Outcome
    <3>5. PICK e \in [Notified(j) -> EventsOf(worker[j])] : EmitTo(Notified(j), e)
      BY <2>6 DEF OnPcmJobFinished
    <3>6. EmitTo(waiters[j], e) /\ \A t \in waiters[j] : e[t] \in Event
      BY <3>3, <3>4, <3>5
    <3> QED BY <1>2, <3>1, <3>2, <3>3, <3>6, EmittedOrForgotten, LeavingIsContract
  <2>7. ASSUME NEW h \in Hwnd, NewDocument(h) \/ ClosePanel(h) PROVE CNext
    <3>1. /\ UNCHANGED <<stamp, nextTask, shuttingDown, told>> /\ jobByTask' = jobByTask
          /\ doc[h] # 0
          /\ doc' = [doc EXCEPT ![h] = doc[h] + 1] \/ doc' = [doc EXCEPT ![h] = 0]
      BY <2>7 DEF NewDocument, ClosePanel, Alive, queueVars
    <3>2. \A g \in Hwnd : \/ doc'[g] \in {doc[g], 0}
                          \/ doc[g] # 0 /\ doc'[g] = doc[g] + 1
      BY <1>2, <3>1 DEF Inv, HostInv, TypeOK
    <3>3. Audience' \subseteq Audience
      BY <1>2, <3>1, <3>2, AudienceShrinks
    <3>4. {} \in SUBSET Pending /\ \A x \in Task : jobByTask'[x] = IF x \in {} THEN NoJob ELSE jobByTask[x]
      BY <3>1
    <3> QED BY <1>2, <3>1, <3>3, <3>4, LeavingIsContract
  <2>8. ASSUME NEW j \in Job, OnLateWorker(j) PROVE [CNext]_cvars
    <3>1. /\ UNCHANGED <<doc, stamp, nextTask, shuttingDown, told>>
          /\ jobByTask' = jobByTask
      BY <2>8 DEF OnLateWorker, queueVars
    <3>2. Audience' \subseteq Audience
      BY <1>2, <3>1, AudienceShrinks
    <3>3. {} \in SUBSET Pending /\ \A x \in Task : jobByTask'[x] = IF x \in {} THEN NoJob ELSE jobByTask[x]
      BY <3>1
    <3> QED BY <1>2, <3>1, <3>2, <3>3, LeavingIsContract
  <2>9. ASSUME (\E j \in Job : WorkerReturns(j)) \/ UNCHANGED vars PROVE UNCHANGED cvars
    BY <2>9 DEF WorkerReturns, vars, hostVars, queueVars, Pending, Audience, IsCurrentDocument
  <2> HIDE DEF CNext, cvars
  <2> QED BY <1>2, <2>2, <2>3, <2>4, <2>5, <2>6, <2>7, <2>8, <2>9 DEF Next
<1> QED BY <1>1, <1>2, InvAlways, PTL DEF Spec, ContractSpec, Contract!Spec, Contract!contractVars
=============================================================================
