-------------------------- MODULE WaveformTaskQueue --------------------------
(***************************************************************************)
(* Bookkeeping of decode jobs: class WaveformTaskQueue.  Requests with the *)
(* same decode key share one job, at most Slots jobs occupy a decoder, and *)
(* queued jobs start in submission order.  The queue only decides; a host  *)
(* (WaveformJobs, PcmJobs) extends this module and carries the decisions   *)
(* out.  Every entry point runs on the main thread, so each is one step.   *)
(*                                                                         *)
(* A job's waiters are a set: the vector's order only orders the events of *)
(* one Finish.  queued_ is a deque of ids that are handed out in           *)
(* increasing order, pushed at the back and removed in place, so it is the *)
(* set `queued' read in increasing order.                                  *)
(***************************************************************************)
EXTENDS Naturals, FiniteSets

CONSTANTS
  Key, NoKey,     \* decode keys, and the key of no job
  MaxTask,        \* bound: requests ever made
  MaxJob,         \* bound: jobs ever created
  MaxConcurrent,  \* constructor argument
  Hwnd, NoHwnd,   \* window handles of callers, and the null handle
  WindowId, NoWindow  \* window ids of callers, and the empty id

ASSUME QueueAssumption ==
  /\ MaxTask \in Nat
  /\ MaxJob \in Nat
  /\ MaxConcurrent \in Nat
  /\ NoKey \notin Key
  /\ NoHwnd \notin Hwnd
  /\ NoWindow \notin WindowId

Task == 1..MaxTask
Job == 1..MaxJob
NoJob == 0
Identity == [hwnd : Hwnd \cup {NoHwnd}, windowId : WindowId \cup {NoWindow}]
Nobody == [hwnd |-> NoHwnd, windowId |-> NoWindow]
Slots == IF MaxConcurrent = 0 THEN 1 ELSE MaxConcurrent

VARIABLES
  jobState,   \* jobs_[j].state, "absent" when jobs_ has no j
  jobKey,     \* jobs_[j].key
  waiters,    \* jobs_[j].waiters
  owner,      \* Waiter::owner of every task that was ever submitted
  queued,     \* queued_
  openByKey,  \* openByKey_
  jobByTask,  \* jobByTask_
  closed,     \* closed_
  nextJobId   \* nextJobId_

queueVars == <<jobState, jobKey, waiters, owner, queued, openByKey, jobByTask,
               closed, nextJobId>>

JobState == {"absent", "queued", "decoding", "aborting"}
Outcome == {"Succeeded", "Failed", "Aborted"}

QueueTypeOK ==
  /\ jobState \in [Job -> JobState]
  /\ jobKey \in [Job -> Key \cup {NoKey}]
  /\ waiters \in [Job -> SUBSET Task]
  /\ owner \in [Task -> Identity]
  /\ queued \subseteq Job
  /\ openByKey \in [Key -> Job \cup {NoJob}]
  /\ jobByTask \in [Task -> Job \cup {NoJob}]
  /\ closed \in BOOLEAN
  /\ nextJobId \in 1..(MaxJob + 1)

QueueInit ==
  /\ jobState = [j \in Job |-> "absent"]
  /\ jobKey = [j \in Job |-> NoKey]
  /\ waiters = [j \in Job |-> {}]
  /\ owner = [t \in Task |-> Nobody]
  /\ queued = {}
  /\ openByKey = [k \in Key |-> NoJob]
  /\ jobByTask = [t \in Task |-> NoJob]
  /\ closed = FALSE
  /\ nextJobId = 1

-----------------------------------------------------------------------------

ActiveIn(st) == {j \in Job : st[j] \in {"decoding", "aborting"}}
Active == ActiveIn(jobState)
ActiveCount == Cardinality(Active)

(* Mutants of PumpStarts: aborting jobs are not counted; the youngest job  *)
(* goes first.                                                             *)
PumpStartsIgnoringAborts(st, q) ==
  {j \in q : ~closed /\ Cardinality({i \in Job : st[i] = "decoding"})
                          + Cardinality({i \in q : i < j}) < Slots}
PumpStartsYoungest(st, q) ==
  {j \in q : ~closed /\ Cardinality(ActiveIn(st)) + Cardinality({i \in q : i > j}) < Slots}

(* Pump: the jobs of the queue q that take the slots left free by the      *)
(* states st, oldest first.  A closed queue starts nothing.                *)
PumpStarts(st, q) ==
  IF closed THEN {}
  ELSE {j \in q :
          Cardinality(ActiveIn(st)) + Cardinality({i \in q : i < j}) < Slots}

Pump(st, q) ==
  LET start == PumpStarts(st, q)
  IN  /\ jobState' = [j \in Job |-> IF j \in start THEN "decoding" ELSE st[j]]
      /\ queued' = q \ start

-----------------------------------------------------------------------------
(* Submit joins the open job of the key, if there is one.                  *)
SubmitMerged(t, k, who) ==
  /\ openByKey[k] # NoJob
  /\ waiters' = [waiters EXCEPT ![openByKey[k]] = @ \cup {t}]
  /\ jobByTask' = [jobByTask EXCEPT ![t] = openByKey[k]]
  /\ owner' = [owner EXCEPT ![t] = who]
  /\ UNCHANGED <<jobState, jobKey, queued, openByKey, closed, nextJobId>>

SubmitNew(t, k, who) ==
  /\ openByKey[k] = NoJob
  /\ nextJobId <= MaxJob
  /\ nextJobId' = nextJobId + 1
  /\ jobKey' = [jobKey EXCEPT ![nextJobId] = k]
  /\ waiters' = [waiters EXCEPT ![nextJobId] = {t}]
  /\ openByKey' = [openByKey EXCEPT ![k] = nextJobId]
  /\ jobByTask' = [jobByTask EXCEPT ![t] = nextJobId]
  /\ owner' = [owner EXCEPT ![t] = who]
  /\ Pump([jobState EXCEPT ![nextJobId] = "queued"], queued \cup {nextJobId})
  /\ UNCHANGED closed

(* The taskId is unique among live waiters: the host generates it.         *)
Submit(t, k, who) ==
  /\ jobByTask[t] = NoJob
  /\ SubmitMerged(t, k, who) \/ SubmitNew(t, k, who)

-----------------------------------------------------------------------------
(* JudgeCancel: either identity matching is enough; a request that carried *)
(* no identity can be cancelled by anyone.                                 *)
Unattributed(who) == who = Nobody
IsOwner(who, canceller) ==
  \/ who.hwnd # NoHwnd /\ who.hwnd = canceller.hwnd
  \/ who.windowId # NoWindow /\ who.windowId = canceller.windowId
MayCancel(who, canceller) == Unattributed(who) \/ IsOwner(who, canceller)

(* RemoveWaiter, for each waiter of T: the jobs it leaves without waiters. *)
Emptied(T) == {j \in Job : waiters[j] # {} /\ waiters[j] \subseteq T}
DiscardedBy(T) == {j \in Emptied(T) : jobState[j] = "queued"}
AbortedBy(T) == {j \in Emptied(T) : jobState[j] = "decoding"}
(* Mutants of OpenWithout: the id under the key is not compared; the entry *)
(* of an emptied job stays.                                                *)
OpenWithoutKeys(J) ==
  [k \in Key |-> IF \E j \in J : jobKey[j] = k THEN NoJob ELSE openByKey[k]]
OpenKept(J) == openByKey
OpenWithout(J) ==
  [k \in Key |-> IF \E j \in J : jobKey[j] = k /\ openByKey[k] = j
                 THEN NoJob ELSE openByKey[k]]

RemoveWaiters(T) ==
  /\ waiters' = [j \in Job |-> waiters[j] \ T]
  /\ jobByTask' = [t \in Task |-> IF t \in T THEN NoJob ELSE jobByTask[t]]
  /\ openByKey' = OpenWithout(Emptied(T))
  /\ queued' = queued \ DiscardedBy(T)
  /\ jobState' = [j \in Job |-> CASE j \in DiscardedBy(T) -> "absent"
                                  [] j \in AbortedBy(T) -> "aborting"
                                  [] OTHER -> jobState[j]]
  /\ jobKey' = [j \in Job |-> IF j \in DiscardedBy(T) THEN NoKey ELSE jobKey[j]]
  /\ UNCHANGED <<owner, closed, nextJobId>>

(* Cancel, when it does anything: an unknown, finished or denied task      *)
(* changes nothing.                                                        *)
Cancel(t, canceller) ==
  /\ jobByTask[t] # NoJob
  /\ MayCancel(owner[t], canceller)
  /\ RemoveWaiters({t})

(* DropWindow: an empty windowId matches nothing.                          *)
(* Mutants of WaitersOfWindow: every window's requests; queued jobs only.  *)
WaitersOfAnyWindow(w) == {t \in Task : jobByTask[t] # NoJob}
WaitersOfQueuedJobs(w) ==
  {t \in Task : owner[t].windowId = w /\ \E j \in queued : t \in waiters[j]}
WaitersOfWindow(w) == {t \in Task : jobByTask[t] # NoJob /\ owner[t].windowId = w}
DropWindow(w) ==
  /\ w # NoWindow
  /\ RemoveWaiters(WaitersOfWindow(w))

-----------------------------------------------------------------------------
(* Finish, for a job whose worker was started; any other id is ignored.    *)
Finish(j) ==
  /\ jobState[j] \in {"decoding", "aborting"}
  /\ openByKey' = OpenWithout({j})
  /\ jobByTask' = [t \in Task |-> IF t \in waiters[j] THEN NoJob ELSE jobByTask[t]]
  /\ jobKey' = [jobKey EXCEPT ![j] = NoKey]
  /\ waiters' = [waiters EXCEPT ![j] = {}]
  /\ Pump([jobState EXCEPT ![j] = "absent"], queued)
  /\ UNCHANGED <<owner, closed, nextJobId>>

(* DropAll: what is decoding is aborted, what is queued is discarded.      *)
DropAllAborts == {j \in Job : jobState[j] = "decoding"}
DropAll ==
  /\ closed' = TRUE
  /\ waiters' = [j \in Job |-> {}]
  /\ jobState' = [j \in Job |-> CASE j \in queued -> "absent"
                                  [] j \in DropAllAborts -> "aborting"
                                  [] OTHER -> jobState[j]]
  /\ jobKey' = [j \in Job |-> IF j \in queued THEN NoKey ELSE jobKey[j]]
  /\ queued' = {}
  /\ openByKey' = [k \in Key |-> NoJob]
  /\ jobByTask' = [t \in Task |-> NoJob]
  /\ UNCHANGED <<owner, nextJobId>>

-----------------------------------------------------------------------------
(* The queue by itself, under any host that keeps its calling rules.       *)
QueueNext ==
  \/ \E t \in Task, k \in Key, who \in Identity : Submit(t, k, who)
  \/ \E t \in Task, canceller \in Identity : Cancel(t, canceller)
  \/ \E w \in WindowId : DropWindow(w)
  \/ \E j \in Job : Finish(j)
  \/ DropAll

QueueSpec == QueueInit /\ [][QueueNext]_queueVars

-----------------------------------------------------------------------------
(* The indexes say exactly what the jobs say: a task waits on one job at   *)
(* most and jobByTask_ finds it; openByKey_ finds the one job of a key     *)
(* that still accepts waiters; queued_ holds the queued jobs.  A job that  *)
(* is being aborted shares its key with the job that replaced it, so a     *)
(* careless Finish or RemoveWaiter would erase or keep the wrong entry.    *)
TaskIndexExact == \A t \in Task, j \in Job : t \in waiters[j] <=> jobByTask[t] = j
KeyIndexExact ==
  \A k \in Key, j \in Job :
    openByKey[k] = j <=> jobState[j] \in {"queued", "decoding"} /\ jobKey[j] = k
QueuedExact == \A j \in Job : j \in queued <=> jobState[j] = "queued"
WaitedForExact ==
  \A j \in Job : waiters[j] # {} <=> jobState[j] \in {"queued", "decoding"}
IndexesExact == TaskIndexExact /\ KeyIndexExact /\ QueuedExact /\ WaitedForExact

(* No more jobs than slots occupy a decoder, aborting ones included, and   *)
(* no job waits in the queue while a slot is free.                         *)
SlotBound == ActiveCount <= Slots
NoIdleSlot == ~closed /\ queued # {} => ActiveCount = Slots
SlotsRespected == SlotBound /\ NoIdleSlot

(* The inductive invariant: SlotsRespected needs the indexes to be exact,  *)
(* and a new job must not reuse an id.                                     *)
IdsFresh == \A j \in Job : j >= nextJobId => jobState[j] = "absent"
(* A job has a key as long as it exists: what a worker decoded can be      *)
(* stored under it.                                                        *)
JobsKeyed == \A j \in Job : jobState[j] # "absent" => jobKey[j] \in Key
QueueInv == QueueTypeOK /\ IdsFresh /\ IndexesExact /\ SlotsRespected

(* A job starts only when every job submitted before it has left the       *)
(* queue: cancellations, aborts and merges in between do not let a younger *)
(* job overtake.                                                           *)
StartsInOrder ==
  [][\A j \in Job : jobState[j] # "decoding" /\ jobState'[j] = "decoding"
       => \A i \in queued' : j < i]_queueVars

(* A job that is being aborted takes no new waiter and ends only by        *)
(* Finish, which gives its slot back.                                      *)
AbortingIsSealed ==
  [][\A j \in Job : jobState[j] = "aborting"
       => waiters'[j] = {} /\ jobState'[j] \in {"aborting", "absent"}]_queueVars
=============================================================================
