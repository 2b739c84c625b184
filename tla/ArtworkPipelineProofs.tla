------------------------ MODULE ArtworkPipelineProofs ------------------------
(***************************************************************************)
(* The artwork pipeline for any number of requests, covers, navigations    *)
(* and queue places: its flights are exact, every open deferral has one    *)
(* holder while its host lives, nothing is touched once the host is gone,  *)
(* and each request gets what ResourceContract owes it.                    *)
(***************************************************************************)
EXTENDS ArtworkPipeline, FiniteSetTheorems, TLAPS

LEMMA RequestsFinite ==
  ASSUME NEW S \in SUBSET Request
  PROVE  IsFiniteSet(S) /\ Cardinality(S) \in Nat
<1>1. IsFiniteSet(Request)
  BY FS_Interval, LifecycleAssumption DEF Request
<1>2. IsFiniteSet(S)
  BY <1>1, FS_Subset
<1> QED BY <1>2, FS_CardinalityType

(* A queue that is not empty has an oldest item: the least of the segments *)
(* below its items is minimal for inclusion.                               *)
LEMMA OldestIsQueued ==
  ASSUME NEW q \in SUBSET Request, q # {}
  PROVE  Oldest(q) \in q
<1> DEFINE R == StrictSubsetOrdering(Nat)
           T == {1..s : s \in q}
<1>1. IsWellFoundedOn(R, FiniteSubsetsOf(Nat))
  BY FS_StrictSubsetOrderingWellFounded
<1>2. T \subseteq FiniteSubsetsOf(Nat)
  <2>1. ASSUME NEW s \in q PROVE (1..s) \subseteq Nat /\ IsFiniteSet(1..s)
    BY FS_Interval, LifecycleAssumption DEF Request
  <2> QED BY <2>1 DEF FiniteSubsetsOf
<1>3. T # {}
  OBVIOUS
<1>4. PICK seg \in T : \A y \in T : <<y, seg>> \notin R
  <2> HIDE DEF R, T
  <2> QED BY <1>1, <1>2, <1>3, WFMin
<1>5. PICK m \in q : seg = 1..m
  BY <1>4
<1>6. ASSUME NEW x \in q, x < m PROVE FALSE
  <2>1. m \in Nat \ {0} /\ x \in Nat \ {0}
    BY LifecycleAssumption DEF Request
  <2>2. (1..x) \subseteq (1..m) /\ (1..x) # (1..m)
    BY <2>1, <1>6, m \in 1..m, m \notin 1..x
  <2>3. <<1..x, 1..m>> \in R
    BY <2>1, <2>2 DEF StrictSubsetOrdering
  <2> QED BY <2>3, <1>4, <1>5
<1>7. \A x \in q : m <= x
  BY <1>6, LifecycleAssumption DEF Request
<1> QED BY <1>7 DEF Oldest

(* PumpLocked leaves the worker alone, or hands it an item of the queue;   *)
(* an idle worker of a running queue is given what there is.               *)
LEMMA Pumped ==
  ASSUME NEW q \in SUBSET Request, NEW st, NEW r, PumpLocked(q, st, r)
  PROVE  \/ /\ ~(running /\ st = "idle" /\ q # {})
            /\ queue' = q /\ stage' = st /\ inFlight' = r
         \/ /\ running /\ st = "idle" /\ inFlight' \in q
            /\ queue' = q \ {inFlight'} /\ stage' = "scheduled"
BY OldestIsQueued DEF PumpLocked

(* The requests that lead an extraction, after each of the queue's steps.  *)
LEMMA LeadLeads ==
  ASSUME ArtworkQueueTypeOK, ItemsExact, NEW k \in Key, NEW n \in Request, Lead(n, k)
  PROVE  \A r \in Request : Leads(r)' <=> Leads(r) \/ r = n
<1>1. queue \cup {n} \in SUBSET Request /\ PumpLocked(queue \cup {n}, stage, inFlight)
  BY DEF Lead, ArtworkQueueTypeOK
<1>2. \/ queue' = queue \cup {n} /\ stage' = stage /\ inFlight' = inFlight /\ stage # "idle"
      \/ /\ stage = "idle" /\ inFlight' \in queue \cup {n}
         /\ queue' = (queue \cup {n}) \ {inFlight'} /\ stage' = "scheduled"
  BY <1>1, Pumped DEF Lead
<1> QED BY <1>2 DEF Leads

LEMMA DispatchLeads ==
  ASSUME ItemsExact, NEW result, Dispatch(flightKey, result)
  PROVE  /\ Leads(inFlight)
         /\ \A r \in Request : Leads(r)' <=> Leads(r) /\ r # inFlight
BY DEF Dispatch, Executed, Leads, ItemsExact

LEMMA DoneLeads ==
  ASSUME ArtworkQueueTypeOK, WorkerDone
  PROVE  \A r \in Request : Leads(r)' <=> Leads(r)
<1>1. queue \in SUBSET Request /\ PumpLocked(queue, "idle", NoRequest) /\ stage = "dispatched"
  BY DEF WorkerDone, ArtworkQueueTypeOK
<1>2. \/ queue' = queue /\ stage' = "idle" /\ inFlight' = NoRequest
      \/ /\ inFlight' \in queue
         /\ queue' = queue \ {inFlight'} /\ stage' = "scheduled"
  BY <1>1, Pumped
<1> QED BY <1>1, <1>2 DEF Leads

LEMMA OtherLeads ==
  ASSUME UNCHANGED <<queue, inFlight>>,
         stage' = stage \/ (stage = "scheduled" /\ stage' = "extracting")
  PROVE  \A r \in Request : Leads(r)' <=> Leads(r)
BY DEF Leads

-----------------------------------------------------------------------------
LEMMA InitInv == Init => PipelineInv
<1> SUFFICES ASSUME Init PROVE PipelineInv
  OBVIOUS
<1> USE LifecycleAssumption, ArtworkQueueAssumption, PipelineAssumption
<1> USE DEF Init, ArtworkQueueInit, LifecycleInit
<1>1. TypeOK
  <2>1. Cardinality(queue) <= MaxQueueDepth /\ queue \subseteq Request
    BY FS_EmptySet
  <2>2. capture \in [Request -> Capture]
    BY DEF NoCapture, Capture
  <2>3. ArtworkQueueTypeOK
    <3>1. posted \in [Request -> Seq(Result)]
      <4>1. <<>> \in Seq(Result)
        OBVIOUS
      <4> QED BY <4>1
    <3> QED BY <2>1, <3>1 DEF ArtworkQueueTypeOK, Stage
  <2>4. LifecycleTypeOK
    <3>1. navigationGeneration \in 0..MaxNavigation /\ hostGeneration \in 0..2
      OBVIOUS
    <3>2. terminal \in [Request -> Reason \cup {"none"}]
      OBVIOUS
    <3>3. alive \in BOOLEAN /\ closing \in BOOLEAN
      OBVIOUS
    <3> QED BY <2>2, <3>1, <3>2, <3>3 DEF LifecycleTypeOK
  <2>5. HostTypeOK
    BY DEF HostTypeOK, Response
  <2> QED BY <2>3, <2>4, <2>5 DEF TypeOK
<1>2. \A r \in Request : ~Leads(r) /\ ~Follows(r) /\ posted[r] = <<>>
  BY DEF Leads, Follows
<1>3. PhasesExact /\ ItemsExact
  BY DEF PhasesExact, ItemsExact, NoRequest
<1>4. FlightsExact
  BY DEF FlightsExact
<1>5. AnswersExact
  BY DEF AnswersExact, Untouched, Open
<1>6. HoldersApart
  BY <1>2 DEF HoldersApart, Apart, Open, Posted
<1>7. CapturesPast
  BY DEF CapturesPast, NoCapture
<1> QED BY <1>1, <1>3, <1>4, <1>5, <1>6, <1>7 DEF PipelineInv

(* What Submit puts at the back is one item more than a queue that was not *)
(* full.                                                                   *)
LEMMA PumpTypes ==
  ASSUME ArtworkQueueTypeOK, NEW n \in SUBSET Request, NEW st \in Stage,
         NEW i \in Request \cup {NoRequest},
         Cardinality(n) <= MaxQueueDepth, PumpLocked(n, st, i)
  PROVE  /\ queue' \subseteq Request /\ Cardinality(queue') <= MaxQueueDepth
         /\ stage' \in Stage /\ inFlight' \in Request \cup {NoRequest}
<1>1. queue' \subseteq n /\ stage' \in Stage /\ inFlight' \in Request \cup {NoRequest}
  BY Pumped DEF Stage
<1>2. Cardinality(queue') <= Cardinality(n)
  BY <1>1, RequestsFinite, FS_Subset
<1>3. Cardinality(queue') \in Nat /\ Cardinality(n) \in Nat
  BY <1>1, RequestsFinite
<1> QED BY <1>1, <1>2, <1>3, ArtworkQueueAssumption

LEMMA QueueTypeStep ==
  ASSUME PipelineInv, [Next]_vars
  PROVE  ArtworkQueueTypeOK'
<1>0. ArtworkQueueTypeOK /\ nextRequest \in 1..(MaxRequest + 1) /\ flightKey \in [Request -> Key \cup {NoKey}]
  BY DEF PipelineInv, TypeOK, HostTypeOK
<1>1. ASSUME NEW k \in Key, RequestQueued(k) PROVE ArtworkQueueTypeOK'
  <2>1. nextRequest \in Request
    BY <1>0, <1>1, LifecycleAssumption DEF RequestQueued, Arrives, Request
  <2>2. CASE Join(nextRequest, k)
    BY <1>0, <2>1, <2>2 DEF Join, ArtworkQueueTypeOK
  <2>3. CASE Lead(nextRequest, k)
    <3> DEFINE q == queue \cup {nextRequest}
    <3>1. q \in SUBSET Request /\ Cardinality(q) <= MaxQueueDepth
      <4>1. queue \in SUBSET Request
        BY <1>0 DEF ArtworkQueueTypeOK
      <4>2. IsFiniteSet(queue) /\ Cardinality(queue) \in Nat
        BY <4>1, RequestsFinite
      <4>3. Cardinality(queue) < MaxQueueDepth
        BY <2>3, <4>2, ArtworkQueueAssumption DEF Lead, IsFull
      <4>4. Cardinality(q) <= Cardinality(queue) + 1
        <5>1. Cardinality(q) = IF nextRequest \in queue THEN Cardinality(queue) ELSE Cardinality(queue) + 1
          BY <4>2, FS_AddElement
        <5> HIDE DEF q
        <5> QED BY <4>2, <5>1
      <4>5. q \in SUBSET Request /\ Cardinality(q) \in Nat
        BY <2>1, <4>1, RequestsFinite
      <4> QED BY <4>2, <4>3, <4>4, <4>5, ArtworkQueueAssumption
    <3>2. PumpLocked(q, stage, inFlight)
      BY <2>3 DEF Lead
    <3> HIDE DEF q
    <3>3. stage \in Stage /\ inFlight \in Request \cup {NoRequest}
      BY <1>0 DEF ArtworkQueueTypeOK
    <3>4. /\ queue' \subseteq Request /\ Cardinality(queue') <= MaxQueueDepth
          /\ stage' \in Stage /\ inFlight' \in Request \cup {NoRequest}
      BY <1>0, <3>1, <3>2, <3>3, PumpTypes
    <3> QED BY <1>0, <2>3, <3>4 DEF Lead, ArtworkQueueTypeOK
  <2> QED BY <1>1, <2>2, <2>3 DEF RequestQueued
<1>2. ASSUME NEW R, NEW result \in Result, Post(R, result) PROVE posted' \in [Request -> Seq(Result)]
  BY <1>0, <1>2 DEF Post, ArtworkQueueTypeOK
<1>3. ASSUME NEW r \in Request, OnComplete(r) PROVE ArtworkQueueTypeOK'
  <2>1. posted[r] \in Seq(Result) /\ posted[r] # <<>>
    BY <1>0, <1>3 DEF OnComplete, ArtworkQueueTypeOK
  <2>2. Tail(posted[r]) \in Seq(Result)
    BY <2>1
  <2>3. posted' \in [Request -> Seq(Result)]
    BY <1>0, <1>3, <2>2 DEF OnComplete, ArtworkQueueTypeOK
  <2> QED BY <1>0, <1>3, <2>3 DEF OnComplete, ArtworkQueueTypeOK
<1>4. CASE DestroyBegins
  <2>1. /\ Post(Drained(flightKey), "unavailable") /\ "unavailable" \in Result
        /\ queue' = {} /\ flights' = {} /\ followers' = [k \in Key |-> {}]
        /\ aborted' = Busy /\ UNCHANGED <<stage, inFlight>> /\ running' = FALSE
    BY <1>4 DEF DestroyBegins, DrainAll, Result
  <2>2. posted' \in [Request -> Seq(Result)]
    BY <1>2, <2>1
  <2>3. Busy \subseteq Request
    BY <1>0 DEF Busy, PipelineInv, ItemsExact, ArtworkQueueTypeOK
  <2>4. Cardinality(queue') <= MaxQueueDepth
    BY <2>1, FS_EmptySet, ArtworkQueueAssumption
  <2> QED BY <1>0, <2>1, <2>2, <2>3, <2>4 DEF ArtworkQueueTypeOK
<1>5. ASSUME NEW result \in Result, Dispatch(flightKey, result) PROVE ArtworkQueueTypeOK'
  <2>1. Post(Told(flightKey[inFlight], result), result)
    BY <1>5 DEF Dispatch
  <2>2. posted' \in [Request -> Seq(Result)]
    BY <1>2, <2>1
  <2>3. UNCHANGED <<running, queue, inFlight, aborted>> /\ stage' \in Stage
    BY <1>5 DEF Dispatch, Stage
  <2>4. flights' \subseteq Key /\ followers' \in [Key -> SUBSET Request]
    BY <1>0, <1>5 DEF Dispatch, FlightsWithout, ArtworkQueueTypeOK
  <2> QED BY <1>0, <2>2, <2>3, <2>4 DEF ArtworkQueueTypeOK
<1>6. CASE WorkerDone
  <2>1. /\ queue \in SUBSET Request /\ Cardinality(queue) <= MaxQueueDepth
        /\ "idle" \in Stage /\ NoRequest \in Request \cup {NoRequest}
    BY <1>0 DEF ArtworkQueueTypeOK, Stage
  <2>2. /\ queue' \subseteq Request /\ Cardinality(queue') <= MaxQueueDepth
        /\ stage' \in Stage /\ inFlight' \in Request \cup {NoRequest}
    BY <1>0, <1>6, <2>1, PumpTypes DEF WorkerDone
  <2> QED BY <1>0, <1>6, <2>2 DEF WorkerDone, ArtworkQueueTypeOK
<1>7. CASE NavigationStarting
  <2>1. Busy \subseteq Request
    BY <1>0 DEF Busy, PipelineInv, ItemsExact, ArtworkQueueTypeOK
  <2> QED BY <1>0, <1>7, <2>1 DEF NavigationStarting, CancelStale, Cancellable, ArtworkQueueTypeOK
<1>8. CASE ControllerCreated
  BY <1>0, <1>8 DEF ControllerCreated, ArtworkQueueTypeOK
<1>9. CASE ExecuteBegins
  BY <1>0, <1>9 DEF ExecuteBegins, ArtworkQueueTypeOK, Stage
<1>10. ASSUME UNCHANGED workerVars PROVE ArtworkQueueTypeOK'
  BY <1>0, <1>10 DEF workerVars, ArtworkQueueTypeOK
<1>11. ASSUME \/ \E k \in Key : RequestDenied(k) \/ RequestAnsweredInline(k) \/ RequestRefused(k)
              \/ DestroyEnds \/ UNCHANGED vars
       PROVE  UNCHANGED workerVars
  BY <1>11 DEF RequestDenied, RequestAnsweredInline, RequestRefused, Refuse, DestroyEnds, vars
<1> QED BY <1>1, <1>3, <1>4, <1>5, <1>6, <1>7, <1>8, <1>9, <1>10, <1>11 DEF Next, Worker

-----------------------------------------------------------------------------
(* The lifecycle and the host.                                             *)
LEMMA ArrivesFacts ==
  ASSUME PipelineInv, NEW k \in Key, Arrives(k)
  PROVE  /\ nextRequest \in Request /\ nextRequest' = nextRequest + 1
         /\ host = "live" /\ host' = "live" /\ Untouched(nextRequest)
         /\ ~Leads(nextRequest) /\ ~Follows(nextRequest) /\ posted[nextRequest] = <<>>
         /\ nextRequest # inFlight
<1>1. nextRequest \in Request /\ nextRequest >= nextRequest
  BY LifecycleAssumption DEF Arrives, PipelineInv, TypeOK, HostTypeOK, Request
<1>2. Untouched(nextRequest)
  BY <1>1 DEF PipelineInv, AnswersExact
<1>3. ~Leads(nextRequest) /\ ~Follows(nextRequest) /\ posted[nextRequest] = <<>>
  BY <1>1, <1>2 DEF PipelineInv, HoldersApart, Apart, Untouched, Open, Posted
<1>4. nextRequest # inFlight
  BY <1>1, LifecycleAssumption DEF PipelineInv, ItemsExact, Request
<1> QED BY <1>1, <1>2, <1>3, <1>4 DEF Arrives

LEMMA LifecycleTypeStep ==
  ASSUME PipelineInv, [Next]_vars
  PROVE  LifecycleTypeOK' /\ CapturesPast'
<1>0. LifecycleTypeOK /\ CapturesPast
  BY DEF PipelineInv, TypeOK
<1>1. ASSUME UNCHANGED <<navigationGeneration, hostGeneration, alive, closing, capture>>,
             terminal' \in [Request -> Reason \cup {"none"}]
      PROVE  LifecycleTypeOK' /\ CapturesPast'
  BY <1>0, <1>1 DEF LifecycleTypeOK, CapturesPast
<1>2. CASE ControllerCreated
  <2>1. hostGeneration = 0 /\ ~closing
    BY <1>2 DEF ControllerCreated, PipelineInv, PhasesExact
  <2> QED BY <1>0, <1>2, <2>1
          DEF ControllerCreated, OnControllerCreated, LifecycleTypeOK, CapturesPast
<1>3. CASE NavigationStarting
  <2>1. navigationGeneration' \in {navigationGeneration, navigationGeneration + 1}
    BY <1>3 DEF NavigationStarting, OnNavigationStarting
  <2>2. navigationGeneration' \in 0..MaxNavigation /\ navigationGeneration <= navigationGeneration'
    BY <1>0, <1>3, <2>1, LifecycleAssumption DEF NavigationStarting, LifecycleTypeOK
  <2>3. UNCHANGED <<hostGeneration, alive, closing, capture, terminal>>
    BY <1>3 DEF NavigationStarting, OnNavigationStarting
  <2>4. ASSUME NEW r \in Request PROVE capture[r].nav <= navigationGeneration'
    <3>1. capture[r].nav \in 0..MaxNavigation /\ capture[r].nav <= navigationGeneration
      BY <1>0 DEF LifecycleTypeOK, Capture, CapturesPast
    <3> QED BY <1>0, <2>2, <3>1, LifecycleAssumption DEF LifecycleTypeOK
  <2> QED BY <1>0, <2>2, <2>3, <2>4 DEF LifecycleTypeOK, CapturesPast
<1>4. ASSUME NEW k \in Key, Arrives(k), terminal' \in [Request -> Reason \cup {"none"}]
      PROVE LifecycleTypeOK' /\ CapturesPast'
  <2>1. /\ UNCHANGED <<navigationGeneration, hostGeneration, alive, closing>>
        /\ capture' = [capture EXCEPT ![nextRequest] = Now]
    BY <1>4 DEF Arrives, CaptureRequest
  <2>2. Now \in Capture /\ Now.nav = navigationGeneration
    BY <1>0 DEF LifecycleTypeOK, Now, Capture
  <2>3. capture' \in [Request -> Capture]
    BY <1>0, <2>1, <2>2 DEF LifecycleTypeOK
  <2>4. ASSUME NEW r \in Request PROVE capture'[r].nav <= navigationGeneration
    <3>1. capture'[r] = capture[r] \/ capture'[r] = Now
      BY <1>0, <2>1 DEF LifecycleTypeOK
    <3>2. navigationGeneration <= navigationGeneration
      BY <1>0, LifecycleAssumption DEF LifecycleTypeOK
    <3> QED BY <1>0, <2>2, <3>1, <3>2 DEF CapturesPast
  <2> QED BY <1>0, <1>4, <2>1, <2>3, <2>4 DEF LifecycleTypeOK, CapturesPast
<1>5. ASSUME NEW n, NEW answer, AnswerInline(n, answer)
      PROVE terminal' \in [Request -> Reason \cup {"none"}]
  BY <1>0, <1>5 DEF AnswerInline, LifecycleTypeOK, Reason
<1>6. ASSUME NEW k \in Key,
             RequestDenied(k) \/ RequestAnsweredInline(k) \/ RequestQueued(k) \/ RequestRefused(k)
      PROVE  Arrives(k) /\ terminal' \in [Request -> Reason \cup {"none"}]
  <2>1. CASE RequestQueued(k)
    BY <1>0, <2>1 DEF RequestQueued, LifecycleTypeOK
  <2>2. CASE RequestDenied(k) \/ RequestAnsweredInline(k) \/ RequestRefused(k)
    BY <1>5, <2>2 DEF RequestDenied, RequestAnsweredInline, RequestRefused
  <2> QED BY <1>6, <2>1, <2>2
<1>7. ASSUME NEW r \in Request, OnComplete(r) PROVE LifecycleTypeOK' /\ CapturesPast'
  <2>1. TerminalReason(r) \in Reason
    BY DEF TerminalReason, Reason
  <2>2. terminal' \in [Request -> Reason \cup {"none"}]
    BY <1>0, <1>7, <2>1 DEF OnComplete, Complete, LifecycleTypeOK
  <2> QED BY <1>1, <1>7, <2>2 DEF OnComplete
<1>8. CASE DestroyEnds
  <2>1. hostGeneration <= 1
    BY <1>8 DEF DestroyEnds, PipelineInv, PhasesExact
  <2>2. hostGeneration' \in 0..2
    BY <1>0, <1>8, <2>1 DEF DestroyEnds, OnClose, LifecycleTypeOK
  <2> QED BY <1>0, <1>8, <2>2 DEF DestroyEnds, OnClose, LifecycleTypeOK, CapturesPast
<1>9. ASSUME DestroyBegins \/ Worker \/ UNCHANGED vars PROVE UNCHANGED lifecycleVars
  BY <1>9 DEF DestroyBegins, Worker, vars
<1>10. ASSUME UNCHANGED lifecycleVars PROVE LifecycleTypeOK' /\ CapturesPast'
  BY <1>0, <1>1, <1>10 DEF lifecycleVars, LifecycleTypeOK
<1> QED BY <1>2, <1>3, <1>4, <1>6, <1>7, <1>8, <1>9, <1>10 DEF Next

LEMMA PhasesStep ==
  ASSUME PipelineInv, [Next]_vars
  PROVE  PhasesExact'
<1>0. PhasesExact /\ hostGeneration \in 0..2
  BY DEF PipelineInv, TypeOK, LifecycleTypeOK
<1>1. CASE ControllerCreated
  <2>1. /\ host = "new" /\ host' = "live" /\ running' /\ hostAlive' = hostAlive
        /\ hostGeneration' = (IF closing THEN hostGeneration ELSE hostGeneration + 1)
        /\ closing' = closing /\ alive' = (alive \/ ~closing)
    BY <1>1 DEF ControllerCreated, OnControllerCreated
  <2>2. hostAlive /\ ~closing /\ hostGeneration = 0
    BY <1>0, <2>1 DEF PhasesExact
  <2>3. alive'
    BY <2>1, <2>2, Zenon
  <2> QED BY <2>1, <2>2, <2>3 DEF PhasesExact
<1>2. CASE NavigationStarting
  BY <1>0, <1>2
     DEF NavigationStarting, OnNavigationStarting, CancelStale, hostVars, PhasesExact
<1>3. ASSUME NEW k \in Key,
             RequestDenied(k) \/ RequestAnsweredInline(k) \/ RequestQueued(k) \/ RequestRefused(k)
      PROVE  PhasesExact'
  <2>1. /\ Arrives(k) /\ running' = running
    BY <1>3 DEF RequestDenied, RequestAnsweredInline, RequestQueued, RequestRefused,
                Join, Lead, Refuse, workerVars
  <2> QED BY <1>0, <2>1 DEF Arrives, PhasesExact
<1>4. ASSUME NEW r \in Request, OnComplete(r) PROVE PhasesExact'
  BY <1>0, <1>4 DEF OnComplete, PhasesExact
<1>5. CASE DestroyBegins
  BY <1>0, <1>5
     DEF DestroyBegins, AliveOnceDestroying, DrainAll, lifecycleVars, PhasesExact
<1>6. CASE DestroyEnds
  BY <1>0, <1>6 DEF DestroyEnds, OnClose, workerVars, PhasesExact
<1>7. CASE Worker
  <2>1. UNCHANGED <<running, alive, closing, hostGeneration>> /\ UNCHANGED hostVars
    BY <1>7 DEF Worker, ExecuteBegins, Dispatch, WorkerDone, lifecycleVars
  <2>2. host # "live" => queue' = {} /\ flights' = {} /\ \A k \in Key : followers'[k] = {}
    <3> SUFFICES ASSUME host # "live"
                 PROVE  queue' = {} /\ flights' = {} /\ \A k \in Key : followers'[k] = {}
      OBVIOUS
    <3>1. queue = {} /\ flights = {} /\ ~running /\ \A k \in Key : followers[k] = {}
      BY <1>0 DEF PhasesExact
    <3>2. followers \in [Key -> SUBSET Request]
      BY DEF PipelineInv, TypeOK, ArtworkQueueTypeOK
    <3> QED BY <1>7, <3>1, <3>2
            DEF Worker, ExecuteBegins, Dispatch, FlightsWithout, WorkerDone, PumpLocked
  <2>3. stage # "idle"
    BY <1>7 DEF Worker, ExecuteBegins, Dispatch, Executed, WorkerDone
  <2> QED BY <1>0, <2>1, <2>2, <2>3 DEF hostVars, PhasesExact
<1>8. CASE UNCHANGED vars
  BY <1>0, <1>8 DEF vars, workerVars, lifecycleVars, hostVars, PhasesExact
<1> QED BY <1>1, <1>2, <1>3, <1>4, <1>5, <1>6, <1>7, <1>8 DEF Next

LEMMA ItemsStep ==
  ASSUME PipelineInv, [Next]_vars
  PROVE  ItemsExact'
<1>0. /\ ItemsExact /\ ArtworkQueueTypeOK /\ nextRequest \in Nat
      /\ inFlight \in Nat /\ \A r \in Request : r \in Nat /\ r # NoRequest
  BY LifecycleAssumption
     DEF PipelineInv, TypeOK, ArtworkQueueTypeOK, HostTypeOK, Request, NoRequest
<1>1. \A r \in queue : r < nextRequest
  BY <1>0 DEF PipelineInv, AnswersExact, HoldersApart, Apart, Leads, Open, Untouched, ArtworkQueueTypeOK
<1>2. ASSUME NEW k \in Key, RequestQueued(k) PROVE ItemsExact'
  <2>1. /\ nextRequest \in Request /\ nextRequest' = nextRequest + 1 /\ nextRequest # inFlight
    BY <1>2, ArrivesFacts DEF RequestQueued
  <2>2. CASE Join(nextRequest, k)
    BY <1>0, <2>1, <2>2 DEF Join, ItemsExact
  <2>3. CASE Lead(nextRequest, k)
    <3>1. queue \cup {nextRequest} \in SUBSET Request /\ PumpLocked(queue \cup {nextRequest}, stage, inFlight)
      BY <1>0, <2>1, <2>3 DEF Lead, ArtworkQueueTypeOK
    <3>2. \/ queue' = queue \cup {nextRequest} /\ stage' = stage /\ inFlight' = inFlight
          \/ /\ stage' = "scheduled" /\ inFlight' \in queue \cup {nextRequest}
             /\ queue' = (queue \cup {nextRequest}) \ {inFlight'}
      BY <3>1, Pumped
    <3>3. inFlight' < nextRequest'
      <4>1. nextRequest < nextRequest' /\ nextRequest' = nextRequest + 1
        BY <1>0, <2>1
      <4>2. \A r \in queue : r < nextRequest'
        BY <1>0, <1>1, <4>1 DEF ArtworkQueueTypeOK
      <4>3. inFlight < nextRequest'
        BY <1>0, <4>1 DEF ItemsExact
      <4> QED BY <3>2, <4>1, <4>2, <4>3
    <3>4. stage' = "idle" <=> inFlight' = NoRequest
      BY <1>0, <2>1, <3>1, <3>2 DEF ItemsExact
    <3> QED BY <1>0, <2>1, <3>2, <3>3, <3>4 DEF ItemsExact
  <2> QED BY <1>2, <2>2, <2>3 DEF RequestQueued
<1>3. CASE WorkerDone /\ nextRequest' = nextRequest
  <2>1. queue \in SUBSET Request /\ PumpLocked(queue, "idle", NoRequest)
    BY <1>0, <1>3 DEF WorkerDone, ArtworkQueueTypeOK
  <2>2. \/ queue' = queue /\ stage' = "idle" /\ inFlight' = NoRequest
        \/ /\ stage' = "scheduled" /\ inFlight' \in queue /\ queue' = queue \ {inFlight'}
    BY <2>1, Pumped
  <2>3. NoRequest < nextRequest /\ NoRequest \notin queue
    BY <1>0, LifecycleAssumption
       DEF PipelineInv, TypeOK, HostTypeOK, ArtworkQueueTypeOK, NoRequest
  <2> QED BY <1>0, <1>1, <1>3, <2>1, <2>2, <2>3 DEF ItemsExact
<1>4. ASSUME UNCHANGED <<queue, inFlight>>, nextRequest' \in {nextRequest, nextRequest + 1},
             stage' = "idle" <=> stage = "idle"
      PROVE  ItemsExact'
  <2>1. inFlight < nextRequest'
    BY <1>0, <1>4 DEF ItemsExact
  <2> QED BY <1>0, <1>4, <2>1 DEF ItemsExact
<1>5. CASE DestroyBegins
  BY <1>0, <1>5 DEF DestroyBegins, DrainAll, ItemsExact
<1>6. ASSUME \/ ControllerCreated \/ NavigationStarting \/ DestroyEnds \/ UNCHANGED vars
             \/ \E r \in Request : OnComplete(r)
             \/ \E k \in Key : RequestDenied(k) \/ RequestAnsweredInline(k) \/ RequestRefused(k)
      PROVE  UNCHANGED <<queue, inFlight, stage>> /\ nextRequest' \in {nextRequest, nextRequest + 1}
  BY <1>6 DEF ControllerCreated, NavigationStarting, CancelStale, hostVars, DestroyEnds, vars,
              workerVars, OnComplete, RequestDenied, RequestAnsweredInline, RequestRefused,
              Refuse, Arrives
<1>7. CASE Worker /\ ~WorkerDone
  <2>1. /\ nextRequest' = nextRequest /\ UNCHANGED <<queue, inFlight>>
        /\ stage # "idle" /\ stage' # "idle"
    BY <1>7 DEF Worker, hostVars, ExecuteBegins, Dispatch, Executed
  <2> QED BY <1>4, <2>1
<1>8. WorkerDone /\ Worker => nextRequest' = nextRequest
  BY DEF Worker, hostVars
<1> QED BY <1>2, <1>3, <1>4, <1>5, <1>6, <1>7, <1>8 DEF Next

-----------------------------------------------------------------------------
(* The flights, stated for each leader and each key.                       *)
Leaders == {s \in Request : Leads(s)}

LEMMA FlightsOfLeaders ==
  ASSUME NEW F, NEW f, NEW L
  PROVE  F = {f[r] : r \in L} <=> (\A r \in L : f[r] \in F) /\ (\A k \in F : \E r \in L : f[r] = k)
OBVIOUS

LEMMA FlightsKeptStep ==
  ASSUME FlightsExact, ArtworkQueueTypeOK, host' = "live" => host = "live", UNCHANGED <<flights, followers>>,
         \A r \in Request : Leads(r)' <=> Leads(r),
         \A r \in Request : flightKey'[r] = flightKey[r] \/ (~Leads(r) /\ ~Follows(r))
  PROVE  FlightsExact'
<1> SUFFICES ASSUME host' = "live" PROVE FlightsExact'
  BY DEF FlightsExact
<1>1. Leaders' = Leaders /\ \A r \in Leaders : flightKey'[r] = flightKey[r] /\ r \in Request
  BY DEF Leaders
<1>2. flights = {flightKey[r] : r \in Leaders}
  BY DEF FlightsExact, Leaders
<1>3. flights' = {flightKey'[r] : r \in Leaders'}
  <2>1. /\ \A r \in Leaders' : flightKey'[r] \in flights'
        /\ \A k \in flights' : \E r \in Leaders' : flightKey'[r] = k
    BY <1>1, <1>2
  <2> QED BY <2>1, FlightsOfLeaders
<1>4. \A r, s \in Request : Leads(r)' /\ Leads(s)' /\ flightKey'[r] = flightKey'[s] => r = s
  BY DEF FlightsExact
<1>5. ASSUME NEW k \in Key, NEW r \in followers'[k] PROVE k \in flights' /\ flightKey'[r] = k
  <2>1. r \in followers[k] /\ k \in flights /\ flightKey[r] = k
    BY <1>5 DEF FlightsExact
  <2>2. r \in Request => flightKey'[r] = flightKey[r]
    BY <2>1 DEF Follows
  <2>3. r \in Request
    BY <2>1 DEF ArtworkQueueTypeOK
  <2> QED BY <2>1, <2>2, <2>3
<1> QED BY <1>3, <1>4, <1>5 DEF FlightsExact, Leaders

LEMMA JoinFlights ==
  ASSUME PipelineInv, NEW k \in Key, Arrives(k), Join(nextRequest, k)
  PROVE  FlightsExact'
<1> DEFINE n == nextRequest
<1>1. n \in Request /\ host = "live" /\ ~Leads(n) /\ ~Follows(n)
  BY ArrivesFacts
<1>2. /\ UNCHANGED <<flights, queue, stage, inFlight>> /\ k \in flights
      /\ followers' = [followers EXCEPT ![k] = @ \cup {n}]
      /\ flightKey' = [flightKey EXCEPT ![n] = k]
  BY DEF Join, Arrives
<1>3. followers \in [Key -> SUBSET Request] /\ flightKey \in [Request -> Key \cup {NoKey}] /\ FlightsExact
  BY DEF PipelineInv, TypeOK, ArtworkQueueTypeOK, HostTypeOK
<1>4. flightKey'[n] = k /\ \A r \in Request : r # n => flightKey'[r] = flightKey[r]
  BY <1>1, <1>2, <1>3
<1> HIDE DEF n
<1>5. Leaders' = Leaders /\ \A r \in Leaders : r \in Request /\ r # n
  BY <1>1, <1>2 DEF Leaders, Leads
<1>6. flights = {flightKey[r] : r \in Leaders}
  BY <1>1, <1>3 DEF FlightsExact, Leaders
<1>7. flights' = {flightKey'[r] : r \in Leaders'}
  <2>1. /\ \A r \in Leaders' : flightKey'[r] \in flights'
        /\ \A c \in flights' : \E r \in Leaders' : flightKey'[r] = c
    BY <1>2, <1>4, <1>5, <1>6
  <2> QED BY <2>1, FlightsOfLeaders
<1>8. \A r, s \in Request : Leads(r)' /\ Leads(s)' /\ flightKey'[r] = flightKey'[s] => r = s
  BY <1>1, <1>3, <1>4, <1>5 DEF FlightsExact, Leaders
<1>9. ASSUME NEW c \in Key, NEW r \in followers'[c] PROVE c \in flights' /\ flightKey'[r] = c
  <2>1. r \in followers[c] \/ (c = k /\ r = n)
    BY <1>2, <1>3
  <2>2. CASE r \in followers[c]
    <3>1. r \in Request /\ r # n
      BY <1>1, <1>3, <2>2 DEF Follows
    <3> QED BY <1>1, <1>2, <1>3, <1>4, <2>2, <3>1 DEF FlightsExact
  <2> QED BY <1>2, <1>4, <2>1, <2>2
<1> QED BY <1>7, <1>8, <1>9 DEF FlightsExact, Leaders

LEMMA LeadFlights ==
  ASSUME PipelineInv, NEW k \in Key, Arrives(k), Lead(nextRequest, k)
  PROVE  FlightsExact'
<1> DEFINE n == nextRequest
<1>1. n \in Request /\ host = "live" /\ ~Leads(n) /\ ~Follows(n)
  BY ArrivesFacts
<1>2. /\ flights' = flights \cup {k} /\ k \notin flights /\ followers' = followers
      /\ flightKey' = [flightKey EXCEPT ![n] = k]
  BY DEF Lead, Arrives
<1>3. /\ followers \in [Key -> SUBSET Request] /\ flightKey \in [Request -> Key \cup {NoKey}]
      /\ FlightsExact
  BY DEF PipelineInv, TypeOK, ArtworkQueueTypeOK, HostTypeOK
<1>4. flightKey'[n] = k /\ \A r \in Request : r # n => flightKey'[r] = flightKey[r]
  BY <1>1, <1>2, <1>3
<1>5. Leaders' = Leaders \cup {n} /\ \A r \in Leaders : r \in Request /\ r # n
  BY <1>1, LeadLeads DEF Leaders, PipelineInv, TypeOK
<1> HIDE DEF n
<1>6. flights = {flightKey[r] : r \in Leaders}
  BY <1>1, <1>3 DEF FlightsExact, Leaders
<1>7. flights' = {flightKey'[r] : r \in Leaders'}
  <2>1. /\ \A r \in Leaders' : flightKey'[r] \in flights'
        /\ \A c \in flights' : \E r \in Leaders' : flightKey'[r] = c
    BY <1>2, <1>4, <1>5, <1>6
  <2> QED BY <2>1, FlightsOfLeaders
<1>8. \A r, s \in Leaders' : flightKey'[r] = flightKey'[s] => r = s
  <2>1. \A r, s \in Leaders : flightKey[r] = flightKey[s] => r = s
    BY <1>1, <1>3 DEF FlightsExact, Leaders
  <2>2. \A r \in Leaders : flightKey[r] # k
    BY <1>2, <1>6
  <2> QED BY <1>4, <1>5, <2>1, <2>2
<1>9. ASSUME NEW c \in Key, NEW r \in followers'[c] PROVE c \in flights' /\ flightKey'[r] = c
  <2>1. r \in Request /\ r # n
    BY <1>1, <1>2, <1>3 DEF Follows
  <2> QED BY <1>1, <1>2, <1>3, <1>4, <2>1 DEF FlightsExact
<1> QED BY <1>7, <1>8, <1>9 DEF FlightsExact, Leaders

LEMMA DispatchFlights ==
  ASSUME PipelineInv, NEW result, Dispatch(flightKey, result), UNCHANGED <<host, flightKey>>
  PROVE  FlightsExact'
<1> SUFFICES ASSUME host = "live" PROVE FlightsExact'
  BY DEF FlightsExact
<1> DEFINE k == flightKey[inFlight]
<1>1. /\ flights' = flights \ {k} /\ followers' = [followers EXCEPT ![k] = {}]
  BY DEF Dispatch, FlightsWithout
<1>2. inFlight \in Leaders /\ Leaders' = Leaders \ {inFlight}
  <2>1. inFlight # NoRequest
    BY DEF Dispatch, Executed, PipelineInv, ItemsExact
  <2>2. inFlight \in Request
    BY <2>1 DEF PipelineInv, TypeOK, ArtworkQueueTypeOK
  <2> QED BY <2>2, DispatchLeads DEF Leaders, PipelineInv
<1>3. followers \in [Key -> SUBSET Request] /\ FlightsExact
  BY DEF PipelineInv, TypeOK, ArtworkQueueTypeOK
<1> HIDE DEF k
<1>4. flights = {flightKey[r] : r \in Leaders}
  BY <1>3 DEF FlightsExact, Leaders
<1>5. \A r, s \in Leaders : flightKey[r] = flightKey[s] => r = s
  BY <1>3 DEF FlightsExact, Leaders
<1>6. flights' = {flightKey'[r] : r \in Leaders'}
  <2>1. /\ \A r \in Leaders' : flightKey'[r] \in flights'
        /\ \A c \in flights' : \E r \in Leaders' : flightKey'[r] = c
    BY <1>1, <1>2, <1>4, <1>5 DEF k
  <2> QED BY <2>1, FlightsOfLeaders
<1>7. ASSUME NEW c \in Key, NEW r \in followers'[c] PROVE c \in flights' /\ flightKey'[r] = c
  <2>1. c # k /\ r \in followers[c]
    BY <1>1, <1>3
  <2> QED BY <1>1, <1>3, <2>1 DEF FlightsExact
<1>8. \A r, s \in Leaders' : flightKey'[r] = flightKey'[s] => r = s
  BY <1>2, <1>5
<1> QED BY <1>6, <1>7, <1>8 DEF FlightsExact, Leaders

LEMMA FlightsStep ==
  ASSUME PipelineInv, [Next]_vars
  PROVE  FlightsExact'
<1>0. ArtworkQueueTypeOK /\ FlightsExact /\ flightKey \in [Request -> Key \cup {NoKey}]
  BY DEF PipelineInv, TypeOK, HostTypeOK
<1>1. CASE ControllerCreated
  <2>1. /\ stage' = "idle" /\ queue' = {} /\ flights' = {} /\ \A k \in Key : followers'[k] = {}
    BY <1>1 DEF ControllerCreated, PipelineInv, PhasesExact
  <2>2. \A r \in Request : ~Leads(r)'
    BY <2>1 DEF Leads
  <2> QED BY <2>1, <2>2 DEF FlightsExact
<1>2. CASE DestroyBegins \/ DestroyEnds
  BY <1>2 DEF DestroyBegins, DestroyEnds, FlightsExact
<1>3. ASSUME UNCHANGED <<host, flights, followers, flightKey>>,
             \A r \in Request : Leads(r)' <=> Leads(r)
      PROVE  FlightsExact'
  BY <1>0, <1>3, FlightsKeptStep
<1>4. ASSUME \/ NavigationStarting \/ UNCHANGED vars \/ \E r \in Request : OnComplete(r)
             \/ Worker /\ ExecuteBegins
      PROVE  /\ UNCHANGED <<host, flights, followers, flightKey>>
             /\ \A r \in Request : Leads(r)' <=> Leads(r)
  <2>1. /\ UNCHANGED <<host, flights, followers, flightKey, queue, inFlight>>
        /\ stage' = stage \/ (stage = "scheduled" /\ stage' = "extracting")
    BY <1>4 DEF NavigationStarting, CancelStale, vars, workerVars, hostVars, OnComplete, Worker,
                ExecuteBegins
  <2> QED BY <2>1, OtherLeads
<1>5. CASE Worker /\ WorkerDone
  <2>1. UNCHANGED <<host, flights, followers, flightKey>>
    BY <1>5 DEF Worker, WorkerDone, hostVars
  <2> QED BY <1>0, <1>3, <1>5, <2>1, DoneLeads
<1>6. ASSUME NEW result \in Result, Worker, Dispatch(flightKey, result) PROVE FlightsExact'
  <2>1. UNCHANGED <<host, flightKey>>
    BY <1>6 DEF Worker, hostVars
  <2> QED BY <1>6, <2>1, DispatchFlights
<1>7. ASSUME NEW k \in Key, RequestDenied(k) \/ RequestAnsweredInline(k) \/ RequestRefused(k)
      PROVE  FlightsExact'
  <2>1. Arrives(k) /\ UNCHANGED workerVars
    BY <1>7 DEF RequestDenied, RequestAnsweredInline, RequestRefused, Refuse
  <2>2. /\ nextRequest \in Request /\ host = "live" /\ host' = "live"
        /\ ~Leads(nextRequest) /\ ~Follows(nextRequest)
    BY <2>1, ArrivesFacts
  <2>3. flightKey' = [flightKey EXCEPT ![nextRequest] = k]
    BY <2>1 DEF Arrives
  <2>4. \A r \in Request : flightKey'[r] = flightKey[r] \/ (~Leads(r) /\ ~Follows(r))
    BY <1>0, <2>2, <2>3
  <2>5. UNCHANGED <<flights, followers, queue, inFlight>> /\ stage' = stage
    BY <2>1 DEF workerVars
  <2> QED BY <1>0, <2>2, <2>4, <2>5, OtherLeads, FlightsKeptStep
<1>8. ASSUME NEW k \in Key, RequestQueued(k) PROVE FlightsExact'
  BY <1>8, JoinFlights, LeadFlights DEF RequestQueued
<1> QED BY <1>1, <1>2, <1>3, <1>4, <1>5, <1>6, <1>7, <1>8 DEF Next, Worker

-----------------------------------------------------------------------------
(* What each request was told.                                             *)
LEMMA AnswersOfOne ==
  ASSUME AnswersExact, nextRequest \in Nat, NEW n \in Request,
         nextRequest' \in {nextRequest, nextRequest + 1}, n < nextRequest',
         \A r \in Request : r # n =>
           /\ r \in deferred' <=> r \in deferred
           /\ completed'[r] = completed[r] /\ response'[r] = response[r] /\ terminal'[r] = terminal[r],
         completed'[n] <= IF n \in deferred' THEN 1 ELSE 0,
         Open(n)' => terminal'[n] = "none" /\ response'[n] = "none"
  PROVE  AnswersExact'
<1>1. ASSUME NEW r \in Request, r # n
      PROVE  /\ r >= nextRequest' => Untouched(r)'
             /\ completed'[r] <= IF r \in deferred' THEN 1 ELSE 0
             /\ Open(r)' => terminal'[r] = "none" /\ response'[r] = "none"
  <2>1. r >= nextRequest' => r >= nextRequest
    BY LifecycleAssumption DEF Request
  <2>2. /\ r >= nextRequest => Untouched(r)
        /\ completed[r] <= IF r \in deferred THEN 1 ELSE 0
        /\ Open(r) => terminal[r] = "none" /\ response[r] = "none"
    BY DEF AnswersExact
  <2>3. /\ r \in deferred' <=> r \in deferred
        /\ completed'[r] = completed[r] /\ response'[r] = response[r] /\ terminal'[r] = terminal[r]
    BY <1>1
  <2> QED BY <2>1, <2>2, <2>3 DEF Untouched, Open
<1>2. ~(n >= nextRequest')
  BY LifecycleAssumption DEF Request
<1> QED BY <1>1, <1>2 DEF AnswersExact

LEMMA PostedIsOpen ==
  ASSUME PipelineInv, NEW r \in Request, posted[r] # <<>>
  PROVE  /\ Open(r) /\ terminal[r] = "none" /\ response[r] = "none" /\ r < nextRequest
         /\ ~Leads(r) /\ ~Follows(r) /\ \E result \in Result : posted[r] = <<result>>
<1>1. /\ Open(r) /\ ~Leads(r) /\ ~Follows(r) /\ \E result \in Result : posted[r] = <<result>>
  BY DEF PipelineInv, HoldersApart, Apart, Posted
<1>2. terminal[r] = "none" /\ response[r] = "none"
  BY <1>1 DEF PipelineInv, AnswersExact
<1>3. ~(r >= nextRequest)
  BY <1>1 DEF PipelineInv, AnswersExact, Untouched, Open
<1>4. r \in Nat /\ nextRequest \in Nat
  BY LifecycleAssumption DEF PipelineInv, TypeOK, HostTypeOK, Request
<1> QED BY <1>1, <1>2, <1>3, <1>4

LEMMA AnswersStep ==
  ASSUME PipelineInv, [Next]_vars
  PROVE  AnswersExact'
<1>0. /\ AnswersExact /\ nextRequest \in Nat
      /\ completed \in [Request -> Nat] /\ response \in [Request -> Response]
      /\ terminal \in [Request -> Reason \cup {"none"}]
  BY LifecycleAssumption DEF PipelineInv, TypeOK, HostTypeOK, LifecycleTypeOK
<1>1. ASSUME NEW k \in Key, Arrives(k)
      PROVE  /\ nextRequest \in Request /\ nextRequest' = nextRequest + 1
             /\ nextRequest < nextRequest' /\ Untouched(nextRequest)
  BY <1>0, <1>1, ArrivesFacts
<1>2. ASSUME NEW k \in Key, RequestDenied(k) \/ RequestAnsweredInline(k) PROVE AnswersExact'
  <2>1. Arrives(k) /\ UNCHANGED <<deferred, completed>> /\ \E a : AnswerInline(nextRequest, a)
    BY <1>2 DEF RequestDenied, RequestAnsweredInline
  <2>2. \A r \in Request : r # nextRequest => response'[r] = response[r] /\ terminal'[r] = terminal[r]
    BY <1>0, <2>1 DEF AnswerInline
  <2>3. completed'[nextRequest] = 0 /\ nextRequest \notin deferred'
    BY <1>1, <2>1 DEF Untouched
  <2> QED BY <1>0, <1>1, <2>1, <2>2, <2>3, AnswersOfOne DEF Open
<1>3. ASSUME NEW k \in Key, RequestQueued(k) PROVE AnswersExact'
  <2>1. Arrives(k) /\ deferred' = deferred \cup {nextRequest} /\ UNCHANGED <<terminal, completed, response>>
    BY <1>3 DEF RequestQueued
  <2>2. completed'[nextRequest] = 0 /\ terminal'[nextRequest] = "none" /\ response'[nextRequest] = "none"
    BY <1>1, <2>1 DEF Untouched
  <2> QED BY <1>0, <1>1, <2>1, <2>2, AnswersOfOne
<1>4. ASSUME NEW k \in Key, RequestRefused(k) PROVE AnswersExact'
  <2>1. /\ Arrives(k) /\ deferred' = deferred \cup {nextRequest}
        /\ AnswerInline(nextRequest, "unavailable")
        /\ completed' = [completed EXCEPT ![nextRequest] = @ + 1]
    BY <1>4 DEF RequestRefused
  <2>2. \A r \in Request : r # nextRequest =>
          completed'[r] = completed[r] /\ response'[r] = response[r] /\ terminal'[r] = terminal[r]
    BY <1>0, <2>1 DEF AnswerInline
  <2>3. completed'[nextRequest] = 1
    BY <1>0, <1>1, <2>1 DEF Untouched
  <2> QED BY <1>0, <1>1, <2>1, <2>2, <2>3, AnswersOfOne DEF Open
<1>5. ASSUME NEW r \in Request, OnComplete(r) PROVE AnswersExact'
  <2>1. Open(r) /\ r < nextRequest
    BY <1>5, PostedIsOpen DEF OnComplete
  <2>2. UNCHANGED <<deferred, nextRequest>> /\ completed' = [completed EXCEPT ![r] = @ + 1]
    BY <1>5 DEF OnComplete
  <2>3. \A s \in Request : s # r =>
          completed'[s] = completed[s] /\ response'[s] = response[s] /\ terminal'[s] = terminal[s]
    BY <1>0, <1>5 DEF OnComplete, Complete
  <2>4. completed'[r] = 1 /\ r \in deferred'
    BY <1>0, <2>1, <2>2 DEF Open
  <2> QED BY <1>0, <2>1, <2>2, <2>3, <2>4, AnswersOfOne DEF Open
<1>6. ASSUME ControllerCreated \/ NavigationStarting \/ DestroyBegins \/ DestroyEnds \/ Worker \/ UNCHANGED vars
      PROVE  UNCHANGED <<nextRequest, deferred, completed, response, terminal>>
  BY <1>6 DEF ControllerCreated, OnControllerCreated, NavigationStarting, OnNavigationStarting,
              DestroyBegins, DestroyEnds, OnClose, Worker, vars, hostVars, lifecycleVars
<1>7. ASSUME UNCHANGED <<nextRequest, deferred, completed, response, terminal>> PROVE AnswersExact'
  BY <1>0, <1>7 DEF AnswersExact, Untouched, Open
<1> QED BY <1>2, <1>3, <1>4, <1>5, <1>6, <1>7 DEF Next

-----------------------------------------------------------------------------
(* Who holds an open deferral.                                             *)
LEMMA ApartKept ==
  ASSUME NEW r \in Request, Apart(r), Leads(r)' <=> Leads(r), Follows(r)' <=> Follows(r),
         posted'[r] = posted[r], Open(r)' <=> Open(r), host' = "live" => host = "live"
  PROVE  Apart(r)'
BY DEF Apart, Posted

(* A leader or a follower that is posted a result hands its deferral over. *)
LEMMA ApartPosted ==
  ASSUME NEW r \in Request, Apart(r), Leads(r) \/ Follows(r), ~Leads(r)', ~Follows(r)',
         NEW result \in Result, posted'[r] = Append(posted[r], result), Open(r)' <=> Open(r)
  PROVE  Apart(r)'
<1>1. posted[r] = <<>> /\ Open(r)
  BY DEF Apart, Posted
<1>2. Append(<<>>, result) = <<result>> /\ <<result>> # <<>>
  <2>1. <<>> \in Seq(Result)
    OBVIOUS
  <2>2. Append(<<>>, result) \in Seq(Result) /\ Len(Append(<<>>, result)) = 1 /\ Append(<<>>, result)[1] = result
    BY <2>1
  <2> QED BY <2>2
<1> QED BY <1>1, <1>2 DEF Apart, Posted

LEMMA PostedTo ==
  ASSUME ArtworkQueueTypeOK, NEW R, NEW result \in Result, Post(R, result), NEW r \in Request
  PROVE  posted'[r] = IF r \in R THEN Append(posted[r], result) ELSE posted[r]
BY DEF Post

LEMMA DispatchHolders ==
  ASSUME PipelineInv, NEW result \in Result, Dispatch(flightKey, result), UNCHANGED hostVars
  PROVE  HoldersApart'
<1> DEFINE k == flightKey[inFlight]
           R == Told(k, result)
<1>1. ArtworkQueueTypeOK /\ ItemsExact /\ FlightsExact /\ HoldersApart
  BY DEF PipelineInv, TypeOK
<1>2. /\ Post(R, result) /\ followers' = [followers EXCEPT ![k] = {}]
      /\ UNCHANGED <<host, deferred, completed>>
  BY DEF Dispatch, hostVars
<1>3. Leads(inFlight) /\ \A r \in Request : Leads(r)' <=> Leads(r) /\ r # inFlight
  BY <1>1, DispatchLeads
<1>4. inFlight \in Request
  <2>1. inFlight # NoRequest
    BY <1>1 DEF Dispatch, Executed, ItemsExact
  <2> QED BY <1>1, <2>1 DEF ArtworkQueueTypeOK
<1>5. ASSUME NEW c \in Key, NEW r \in followers[c]
      PROVE  host = "live" /\ c \in flights /\ flightKey[r] = c /\ r \in Request
  <2>1. host = "live"
    BY <1>5 DEF PipelineInv, PhasesExact
  <2> QED BY <1>1, <2>1 DEF FlightsExact, ArtworkQueueTypeOK
<1> DEFINE told == k \in Key /\ k \in flights
<1>6. ASSUME NEW r \in Request PROVE Apart(r)'
  <2>1. Apart(r) /\ (Open(r)' <=> Open(r))
    BY <1>1, <1>2 DEF HoldersApart, Open
  <2>2. posted'[r] = IF r \in R THEN Append(posted[r], result) ELSE posted[r]
    BY <1>1, <1>2, PostedTo
  <2>3. k \in flights => k \in Key
    BY <1>1 DEF ArtworkQueueTypeOK
  <2>4. r \in R <=> r = inFlight \/ (k \in flights /\ r \in followers[k])
    BY DEF Told
  <2> HIDE DEF k, R
  <2>5. Follows(r)' <=> \E c \in Key : c # k /\ r \in followers[c]
    BY <1>1, <1>2 DEF Follows, ArtworkQueueTypeOK
  <2>6. CASE r = inFlight
    <3>1. ~Follows(r) /\ ~Leads(r)'
      BY <1>3, <2>1, <2>6 DEF Apart
    <3>2. ~Follows(r)'
      BY <2>5, <3>1 DEF Follows
    <3> QED BY <1>3, <2>1, <2>2, <2>4, <2>6, <3>1, <3>2, ApartPosted
  <2>7. CASE r # inFlight /\ k \in flights /\ r \in followers[k]
    <3>1. Follows(r) /\ ~Leads(r)'
      BY <1>3, <2>1, <2>3, <2>7 DEF Apart, Follows
    <3>2. ~Follows(r)'
      BY <1>5, <2>3, <2>5, <2>7
    <3> QED BY <2>1, <2>2, <2>4, <2>7, <3>1, <3>2, ApartPosted
  <2>8. CASE r \notin R
    <3>1. Leads(r)' <=> Leads(r)
      BY <1>3, <2>4, <2>8
    <3>2. Follows(r)' <=> Follows(r)
      <4>1. ASSUME NEW c \in Key, r \in followers[c] PROVE c # k
        BY <1>5, <2>4, <2>8, <4>1
      <4> QED BY <2>5, <4>1 DEF Follows
    <3> QED BY <1>2, <2>1, <2>2, <2>8, <3>1, <3>2, ApartKept
  <2> QED BY <2>4, <2>6, <2>7, <2>8
<1> QED BY <1>6 DEF HoldersApart

LEMMA DestroyHolders ==
  ASSUME PipelineInv, DestroyBegins
  PROVE  HoldersApart'
<1>1. ArtworkQueueTypeOK /\ ItemsExact /\ HoldersApart
  BY DEF PipelineInv, TypeOK
<1>2. /\ Post(Drained(flightKey), "unavailable") /\ "unavailable" \in Result
      /\ queue' = {} /\ followers' = [c \in Key |-> {}]
      /\ UNCHANGED <<stage, inFlight, deferred, completed>> /\ host' # "live"
  BY DEF DestroyBegins, DrainAll, Result
<1>3. ASSUME NEW r \in Request PROVE Apart(r)'
  <2>1. Apart(r) /\ (Open(r)' <=> Open(r)) /\ ~Follows(r)'
    BY <1>1, <1>2 DEF HoldersApart, Open, Follows
  <2>2. Leads(r)' <=> Leads(r) /\ r \notin queue
    BY <1>1, <1>2 DEF Leads, ItemsExact
  <2>3. r \in Drained(flightKey) => r \in queue \/ Follows(r)
    BY <1>1 DEF Drained, Follows, ArtworkQueueTypeOK
  <2>4. posted'[r] = IF r \in Drained(flightKey) THEN Append(posted[r], "unavailable") ELSE posted[r]
    BY <1>1, <1>2, PostedTo
  <2>5. CASE r \in Drained(flightKey)
    <3>1. (Leads(r) \/ Follows(r)) /\ ~Leads(r)'
      BY <2>1, <2>2, <2>3, <2>5 DEF Leads, Apart
    <3> QED BY <1>2, <2>1, <2>4, <2>5, <3>1, ApartPosted
  <2>6. CASE r \notin Drained(flightKey)
    BY <1>2, <2>1, <2>2, <2>4, <2>6 DEF Apart, Posted
  <2> QED BY <2>5, <2>6
<1> QED BY <1>3 DEF HoldersApart

LEMMA QueuedHolders ==
  ASSUME PipelineInv, NEW k \in Key, RequestQueued(k)
  PROVE  HoldersApart'
<1>0. PICK n \in Request : n = nextRequest
  BY ArrivesFacts DEF RequestQueued
<1>1. ArtworkQueueTypeOK /\ ItemsExact /\ HoldersApart
  BY DEF PipelineInv, TypeOK
<1>2. /\ n \in Request /\ host = "live" /\ Untouched(n)
      /\ ~Leads(n) /\ ~Follows(n) /\ posted[n] = <<>>
  BY <1>0, ArrivesFacts DEF RequestQueued
<1>3. /\ deferred' = deferred \cup {n} /\ completed' = completed /\ posted' = posted
      /\ Join(n, k) \/ Lead(n, k)
  BY <1>0 DEF RequestQueued, Join, Lead
<1>4. ASSUME NEW r \in Request, r # n, Leads(r)' <=> Leads(r), Follows(r)' <=> Follows(r)
      PROVE  Apart(r)'
  <2>1. Apart(r) /\ (Open(r)' <=> Open(r)) /\ posted'[r] = posted[r]
    BY <1>1, <1>3, <1>4 DEF HoldersApart, Open
  <2> QED BY <1>2, <1>4, <2>1, ApartKept
<1>5. ASSUME ~(Leads(n)' /\ Follows(n)'), Leads(n)' \/ Follows(n)' PROVE Apart(n)'
  <2>1. Open(n)' /\ posted'[n] = <<>>
    BY <1>2, <1>3 DEF Open, Untouched
  <2> QED BY <1>5, <2>1 DEF Apart, Posted
<1>6. CASE Join(n, k)
  <2>1. UNCHANGED <<queue, stage, inFlight>> /\ followers' = [followers EXCEPT ![k] = @ \cup {n}]
    BY <1>6 DEF Join
  <2>2. \A r \in Request : Leads(r)' <=> Leads(r)
    BY <2>1, OtherLeads
  <2>3. \A r \in Request : Follows(r)' <=> Follows(r) \/ r = n
    BY <1>1, <2>1 DEF Follows, ArtworkQueueTypeOK
  <2> QED BY <1>2, <1>4, <1>5, <2>2, <2>3 DEF HoldersApart
<1>7. CASE Lead(n, k)
  <2>1. \A r \in Request : Leads(r)' <=> Leads(r) \/ r = n
    BY <1>1, <1>2, <1>7, LeadLeads
  <2>2. \A r \in Request : Follows(r)' <=> Follows(r)
    BY <1>7 DEF Lead, Follows
  <2> QED BY <1>2, <1>4, <1>5, <2>1, <2>2 DEF HoldersApart
<1> QED BY <1>3, <1>6, <1>7

LEMMA HoldersStep ==
  ASSUME PipelineInv, [Next]_vars
  PROVE  HoldersApart'
<1>0. ArtworkQueueTypeOK /\ ItemsExact /\ HoldersApart
  BY DEF PipelineInv, TypeOK
<1>1. ASSUME UNCHANGED <<followers, posted>>, host' = "live" => host = "live",
             \A r \in Request : (Leads(r)' <=> Leads(r)) /\ (Open(r)' <=> Open(r))
      PROVE  HoldersApart'
  <2>1. \A r \in Request : Follows(r)' <=> Follows(r)
    BY <1>1 DEF Follows
  <2> QED BY <1>0, <1>1, <2>1, ApartKept DEF HoldersApart
<1>2. CASE ControllerCreated
  <2>1. /\ nextRequest = 1 /\ UNCHANGED <<queue, stage, inFlight, followers, posted, deferred, completed>>
    BY <1>2 DEF ControllerCreated, PipelineInv, PhasesExact
  <2>2. ASSUME NEW r \in Request PROVE Apart(r)'
    <3>1. r >= nextRequest
      BY <2>1, LifecycleAssumption DEF Request
    <3>2. ~Open(r) /\ Apart(r)
      BY <1>0, <3>1 DEF PipelineInv, AnswersExact, Untouched, Open, HoldersApart
    <3> QED BY <2>1, <3>2 DEF Apart, Leads, Follows, Posted, Open
  <2> QED BY <2>2 DEF HoldersApart
<1>3. ASSUME \/ NavigationStarting \/ DestroyEnds \/ UNCHANGED vars
             \/ Worker /\ ExecuteBegins
      PROVE  HoldersApart'
  <2>1. /\ UNCHANGED <<queue, inFlight, followers, posted, deferred, completed>>
        /\ host' = "live" => host = "live"
        /\ stage' = stage \/ (stage = "scheduled" /\ stage' = "extracting")
    BY <1>3 DEF NavigationStarting, CancelStale, DestroyEnds, vars, workerVars, hostVars, Worker,
                ExecuteBegins
  <2>2. \A r \in Request : (Leads(r)' <=> Leads(r)) /\ (Open(r)' <=> Open(r))
    BY <2>1, OtherLeads DEF Open
  <2> QED BY <1>1, <2>1, <2>2
<1>4. CASE Worker /\ WorkerDone
  <2>1. UNCHANGED <<host, followers, posted, deferred, completed>>
    BY <1>4 DEF Worker, WorkerDone, hostVars
  <2>2. \A r \in Request : (Leads(r)' <=> Leads(r)) /\ (Open(r)' <=> Open(r))
    BY <1>0, <1>4, <2>1, DoneLeads DEF Open
  <2> QED BY <1>1, <2>1, <2>2
<1>5. ASSUME NEW k \in Key, RequestDenied(k) \/ RequestAnsweredInline(k) \/ RequestRefused(k)
      PROVE  HoldersApart'
  <2>1. Arrives(k) /\ UNCHANGED workerVars
    BY <1>5 DEF RequestDenied, RequestAnsweredInline, RequestRefused, Refuse
  <2>2. nextRequest \in Request /\ host = "live" /\ Untouched(nextRequest)
    BY <2>1, ArrivesFacts
  <2>3. completed \in [Request -> Nat]
    BY DEF PipelineInv, TypeOK, HostTypeOK
  <2>4. \A r \in Request : Open(r)' <=> Open(r)
    <3>1. CASE RequestDenied(k) \/ RequestAnsweredInline(k)
      BY <3>1 DEF RequestDenied, RequestAnsweredInline, Open
    <3>2. CASE RequestRefused(k)
      <4>1. /\ deferred' = deferred \cup {nextRequest}
            /\ completed' = [completed EXCEPT ![nextRequest] = @ + 1]
        BY <3>2 DEF RequestRefused
      <4>2. completed'[nextRequest] = 1 /\ ~Open(nextRequest)
        BY <2>2, <2>3, <4>1 DEF Untouched, Open
      <4>3. \A r \in Request : r # nextRequest => completed'[r] = completed[r]
        BY <2>3, <4>1
      <4> QED BY <4>1, <4>2, <4>3 DEF Open
    <3> QED BY <1>5, <3>1, <3>2
  <2>5. UNCHANGED <<queue, inFlight, stage, followers, posted>>
    BY <2>1 DEF workerVars
  <2> QED BY <1>1, <2>2, <2>4, <2>5, OtherLeads
<1>6. ASSUME NEW r \in Request, OnComplete(r) PROVE HoldersApart'
  <2>1. /\ posted[r] # <<>> /\ posted' = [posted EXCEPT ![r] = Tail(posted[r])]
        /\ completed' = [completed EXCEPT ![r] = @ + 1]
        /\ UNCHANGED <<host, queue, inFlight, stage, followers, deferred>>
    BY <1>6 DEF OnComplete
  <2>2. ~Leads(r) /\ ~Follows(r) /\ Open(r) /\ \E result \in Result : posted[r] = <<result>>
    BY <2>1, PostedIsOpen
  <2>3. posted'[r] = <<>> /\ ~Open(r)'
    <3>1. posted'[r] = Tail(posted[r])
      BY <1>0, <2>1 DEF ArtworkQueueTypeOK
    <3>2. Tail(posted[r]) = <<>>
      BY <2>2
    <3>3. completed'[r] = 1
      BY <2>1, <2>2 DEF PipelineInv, TypeOK, HostTypeOK, Open
    <3> QED BY <3>1, <3>2, <3>3 DEF Open
  <2>4. \A s \in Request : (Leads(s)' <=> Leads(s)) /\ (Follows(s)' <=> Follows(s))
    BY <2>1, OtherLeads DEF Follows
  <2>5. ASSUME NEW s \in Request, s # r PROVE Apart(s)'
    <3>1. posted'[s] = posted[s] /\ (Open(s)' <=> Open(s)) /\ Apart(s)
      BY <1>0, <2>1, <2>5 DEF ArtworkQueueTypeOK, HoldersApart, Open, PipelineInv, TypeOK, HostTypeOK
    <3> QED BY <2>1, <2>4, <3>1, ApartKept
  <2>6. Apart(r)'
    BY <2>2, <2>3, <2>4 DEF Apart, Posted
  <2> QED BY <2>5, <2>6 DEF HoldersApart
<1>7. ASSUME NEW result \in Result, Worker, Dispatch(flightKey, result) PROVE HoldersApart'
  BY <1>7, DispatchHolders DEF Worker
<1> QED BY <1>2, <1>3, <1>4, <1>5, <1>6, <1>7, DestroyHolders, QueuedHolders DEF Next, Worker

-----------------------------------------------------------------------------
LEMMA HostTypeStep ==
  ASSUME PipelineInv, [Next]_vars
  PROVE  HostTypeOK'
<1>0. HostTypeOK /\ posted \in [Request -> Seq(Result)]
  BY DEF PipelineInv, TypeOK, ArtworkQueueTypeOK
<1>1. ASSUME NEW n, NEW answer \in Response, AnswerInline(n, answer)
      PROVE  response' \in [Request -> Response]
  BY <1>0, <1>1 DEF AnswerInline, HostTypeOK
<1>2. ASSUME NEW k \in Key, Arrives(k)
      PROVE  /\ nextRequest \in Request /\ nextRequest' \in 1..(MaxRequest + 1)
             /\ flightKey' \in [Request -> Key \cup {NoKey}] /\ UNCHANGED <<host, hostAlive>>
  <2>1. nextRequest' \in 1..(MaxRequest + 1)
    BY <1>0, <1>2, LifecycleAssumption DEF Arrives, HostTypeOK
  <2>2. flightKey' \in [Request -> Key \cup {NoKey}]
    BY <1>0, <1>2 DEF Arrives, HostTypeOK
  <2> QED BY <1>2, <2>1, <2>2, ArrivesFacts DEF Arrives
<1>3. {"forbidden", "resolved", "failed", "unavailable"} \subseteq Response
  BY DEF Response, Result
<1>4. ASSUME NEW k \in Key, RequestDenied(k) \/ RequestAnsweredInline(k) PROVE HostTypeOK'
  <2>1. Arrives(k) /\ UNCHANGED <<deferred, completed>>
    BY <1>4 DEF RequestDenied, RequestAnsweredInline
  <2>2. PICK answer \in Response : AnswerInline(nextRequest, answer)
    BY <1>3, <1>4 DEF RequestDenied, RequestAnsweredInline
  <2>3. response' \in [Request -> Response]
    BY <1>1, <2>2
  <2> QED BY <1>0, <1>2, <2>1, <2>3 DEF HostTypeOK
<1>5. ASSUME NEW k \in Key, RequestQueued(k) PROVE HostTypeOK'
  BY <1>0, <1>2, <1>5 DEF RequestQueued, HostTypeOK
<1>6. ASSUME NEW k \in Key, RequestRefused(k) PROVE HostTypeOK'
  <2>1. /\ Arrives(k) /\ deferred' = deferred \cup {nextRequest}
        /\ AnswerInline(nextRequest, "unavailable")
        /\ completed' = [completed EXCEPT ![nextRequest] = @ + 1]
    BY <1>6 DEF RequestRefused
  <2>2. response' \in [Request -> Response]
    <3>1. "unavailable" \in Response
      BY <1>3
    <3> QED BY <1>1, <2>1, <3>1
  <2>3. completed' \in [Request -> Nat]
    <3>1. completed \in [Request -> Nat] /\ completed[nextRequest] + 1 \in Nat
      BY <1>0, <1>2, <2>1 DEF HostTypeOK
    <3> QED BY <2>1, <3>1
  <2> QED BY <1>0, <1>2, <2>1, <2>2, <2>3 DEF HostTypeOK
<1>7. ASSUME NEW r \in Request, OnComplete(r) PROVE HostTypeOK'
  <2>1. PICK result \in Result : posted[r] = <<result>>
    BY <1>7, PostedIsOpen DEF OnComplete
  <2>2. Head(posted[r]) \in Response
    BY <2>1 DEF Response
  <2>3. response' \in [Request -> Response]
    BY <1>0, <1>7, <2>2 DEF OnComplete, HostTypeOK
  <2>4. completed' \in [Request -> Nat]
    BY <1>0, <1>7 DEF OnComplete, HostTypeOK
  <2> QED BY <1>0, <1>7, <2>3, <2>4 DEF OnComplete, HostTypeOK
<1>8. CASE ControllerCreated \/ DestroyBegins \/ DestroyEnds
  <2>1. /\ host' \in {"new", "live", "destroying", "gone"} /\ hostAlive' \in BOOLEAN
        /\ UNCHANGED <<nextRequest, flightKey, deferred, completed, response>>
    BY <1>0, <1>8 DEF ControllerCreated, DestroyBegins, DestroyEnds, AliveOnceDestroying, HostTypeOK
  <2> QED BY <1>0, <2>1 DEF HostTypeOK
<1>9. CASE NavigationStarting \/ Worker \/ UNCHANGED vars
  BY <1>0, <1>9 DEF NavigationStarting, Worker, vars, hostVars, HostTypeOK
<1> QED BY <1>4, <1>5, <1>6, <1>7, <1>8, <1>9 DEF Next

LEMMA StepInv == PipelineInv /\ [Next]_vars => PipelineInv'
BY QueueTypeStep, LifecycleTypeStep, HostTypeStep, PhasesStep, ItemsStep, FlightsStep, AnswersStep,
   HoldersStep
   DEF PipelineInv, TypeOK

LEMMA InvAlways == Spec => []PipelineInv
BY InitInv, StepInv, PTL DEF Spec

-----------------------------------------------------------------------------
(* Every variable has its type; in particular the queue never grows past   *)
(* kMaxQueueDepth.                                                         *)
THEOREM TypesHold == Spec => []TypeOK
<1>1. PipelineInv => TypeOK
  BY DEF PipelineInv
<1> QED BY <1>1, InvAlways, PTL

(* While the host lives, singleFlight_ holds the keys of the items queued  *)
(* or being extracted, one item each, and a follower its leader's key.     *)
THEOREM FlightsHold == Spec => []FlightsExact
<1>1. PipelineInv => FlightsExact
  BY DEF PipelineInv
<1> QED BY <1>1, InvAlways, PTL

(* An open deferral has one holder, which will complete it once, and a     *)
(* completed one has none.                                                 *)
THEOREM DeferralsHeldOnce == Spec => []HeldOnce
<1>1. ASSUME PipelineInv PROVE HeldOnce
  <2> SUFFICES ASSUME NEW r \in Request
               PROVE  /\ ~Open(r) => Holders(r) = 0
                      /\ Holders(r) <= 1
                      /\ Open(r) /\ host = "live" => Holders(r) = 1
    BY DEF HeldOnce
  <2>1. Apart(r)
    BY <1>1 DEF PipelineInv, HoldersApart
  <2>2. Len(posted[r]) = IF Posted(r) THEN 1 ELSE 0
    <3>1. posted[r] = <<>> => Len(posted[r]) = 0
      OBVIOUS
    <3>2. ASSUME NEW result \in Result, posted[r] = <<result>> PROVE Len(posted[r]) = 1
      BY <3>2
    <3> QED BY <2>1, <3>1, <3>2 DEF Apart, Posted
  <2> QED BY <2>1, <2>2 DEF Apart, Holders
<1> QED BY <1>1, InvAlways, PTL

(* Once the host is gone no worker and no late completion touches what it  *)
(* owned: the wait in ~ArtworkWorkerQueue and the flag artworkHostAlive_.  *)
THEOREM GoneIsUntouched == Spec => NothingTouchedAfterwards
<1> DEFINE P == host = "gone" => UNCHANGED <<running, queue, flights, followers, stage, inFlight,
                                             lifecycleVars, response>>
<1>1. ASSUME PipelineInv, [Next]_vars PROVE [P]_vars
  <2> SUFFICES ASSUME host = "gone"
               PROVE  UNCHANGED <<running, queue, flights, followers, stage, inFlight,
                                  lifecycleVars, response>>
    OBVIOUS
  <2>1. stage = "idle" /\ hostAlive = FALSE
    BY <1>1 DEF PipelineInv, PhasesExact, TypeOK, HostTypeOK
  <2>2. ~Worker
    BY <2>1 DEF Worker, ExecuteBegins, Dispatch, Executed, WorkerDone
  <2>3. ASSUME NEW r \in Request, OnComplete(r)
        PROVE  UNCHANGED <<running, queue, flights, followers, stage, inFlight,
                           lifecycleVars, response>>
    BY <2>1, <2>3 DEF OnComplete, lifecycleVars
  <2>4. CASE UNCHANGED vars
    BY <2>4 DEF vars, workerVars, hostVars
  <2> QED BY <1>1, <2>2, <2>3, <2>4
          DEF Next, ControllerCreated, NavigationStarting, DestroyBegins, DestroyEnds,
              RequestDenied, RequestAnsweredInline, RequestQueued, RequestRefused, Arrives
<1> QED BY <1>1, InvAlways, PTL DEF Spec, NothingTouchedAfterwards

-----------------------------------------------------------------------------
(* The contract's view of a request.                                       *)
LEMMA States ==
  ASSUME PipelineInv, NEW r \in Request
  PROVE  /\ StateOf(r) = "idle" <=> r \notin deferred /\ response[r] = "none"
         /\ StateOf(r) = "open" <=> Open(r)
         /\ StateOf(r) = "answered" <=> response[r] # "none"
         /\ StateOf(r) = "dropped" <=> r \in deferred /\ completed[r] = 1 /\ response[r] = "none"
<1>1. /\ completed[r] \in Nat /\ completed[r] <= IF r \in deferred THEN 1 ELSE 0
      /\ Open(r) => response[r] = "none"
  BY DEF PipelineInv, TypeOK, HostTypeOK, AnswersExact
<1>2. completed[r] = (IF r \in deferred THEN 1 ELSE 0) \/ Open(r)
  BY <1>1 DEF Open
<1> QED BY <1>1, <1>2 DEF StateOf, Open

LEMMA StatesNext ==
  ASSUME PipelineInv', NEW r \in Request
  PROVE  /\ StateOf(r)' = "idle" <=> r \notin deferred' /\ response'[r] = "none"
         /\ StateOf(r)' = "open" <=> Open(r)'
         /\ StateOf(r)' = "answered" <=> response'[r] # "none"
         /\ StateOf(r)' = "dropped" <=> r \in deferred' /\ completed'[r] = 1 /\ response'[r] = "none"
<1>1. /\ completed'[r] \in Nat /\ completed'[r] <= IF r \in deferred' THEN 1 ELSE 0
      /\ Open(r)' => response'[r] = "none"
  BY DEF PipelineInv, TypeOK, HostTypeOK, AnswersExact
<1>2. completed'[r] = (IF r \in deferred' THEN 1 ELSE 0) \/ Open(r)'
  BY <1>1 DEF Open
<1> QED BY <1>1, <1>2 DEF StateOf, Open

(* The requests whose document is displayed only become fewer.             *)
LEMMA CurrentShrinks ==
  ASSUME PipelineInv, [Next]_vars
  PROVE  Current' \subseteq Current
<1> SUFFICES ASSUME NEW r \in Request, r < nextRequest' => host' = "live" /\ capture'[r] = Now',
                    r < nextRequest
             PROVE  host = "live" /\ capture[r] = Now
  BY DEF Current
<1>0. r \in Nat /\ nextRequest \in Nat /\ ~(r >= nextRequest)
  BY LifecycleAssumption DEF PipelineInv, TypeOK, HostTypeOK, Request
<1>1. CASE ControllerCreated
  BY <1>0, <1>1, LifecycleAssumption DEF ControllerCreated, PipelineInv, PhasesExact, Request
<1>2. CASE NavigationStarting
  <2>1. /\ host = "live" /\ nextRequest' = nextRequest /\ capture' = capture
        /\ CanAccessHost
    BY <1>2 DEF NavigationStarting, OnNavigationStarting, hostVars, PipelineInv, PhasesExact,
                CanAccessHost
  <2>2. navigationGeneration' = navigationGeneration + 1 /\ navigationGeneration \in Nat
    BY <1>2, <2>1, LifecycleAssumption
       DEF NavigationStarting, OnNavigationStarting, PipelineInv, TypeOK, LifecycleTypeOK
  <2>3. capture[r].nav = navigationGeneration' /\ capture[r].nav <= navigationGeneration
    BY <1>0, <2>1 DEF Now, PipelineInv, CapturesPast
  <2> QED BY <2>2, <2>3
<1>3. ASSUME NEW k \in Key, Arrives(k) PROVE host = "live" /\ capture[r] = Now
  <2>1. nextRequest' = nextRequest + 1 /\ nextRequest \in Request /\ r < nextRequest'
    BY <1>0, <1>3, ArrivesFacts
  <2>2. capture'[r] = capture[r] /\ Now' = Now /\ host = "live"
    BY <1>0, <1>3, <2>1 DEF Arrives, CaptureRequest, Now, PipelineInv, TypeOK, LifecycleTypeOK
  <2> QED BY <2>1, <2>2
<1>4. CASE DestroyBegins \/ DestroyEnds
  BY <1>0, <1>4 DEF DestroyBegins, DestroyEnds
<1>5. ASSUME \/ Worker \/ UNCHANGED vars \/ \E s \in Request : OnComplete(s)
      PROVE  UNCHANGED <<host, nextRequest, capture, navigationGeneration, hostGeneration>>
  BY <1>5 DEF Worker, vars, OnComplete, lifecycleVars, hostVars
<1> QED BY <1>0, <1>1, <1>2, <1>3, <1>4, <1>5
        DEF Next, RequestDenied, RequestAnsweredInline, RequestQueued, RequestRefused, Now

(* A completion is accepted exactly for a displayed document.              *)
LEMMA AcceptedIffCurrent ==
  ASSUME PipelineInv, NEW r \in Request, posted[r] # <<>>, host # "destroying"
  PROVE  r \in Current <=> hostAlive /\ IsAccepted(r)
<1>1. terminal[r] = "none" /\ r < nextRequest
  BY PostedIsOpen
<1>2. capture[r] = Now <=> capture[r].nav = navigationGeneration /\ capture[r].host = hostGeneration
  <2>1. capture[r] \in [nav : 0..MaxNavigation, host : 0..2]
    BY DEF PipelineInv, TypeOK, LifecycleTypeOK, Capture
  <2> QED BY <2>1 DEF Now
<1>3. host # "new"
  BY <1>1, LifecycleAssumption DEF PipelineInv, PhasesExact, Request
<1>4. hostAlive <=> host = "live"
  BY <1>3 DEF PipelineInv, PhasesExact
<1>5. host = "live" => CanAccessHost
  BY DEF PipelineInv, PhasesExact, CanAccessHost
<1>6. host = "live" => (TerminalReason(r) = "Completed" <=> capture[r] = Now)
  BY <1>2, <1>5 DEF TerminalReason
<1> QED BY <1>1, <1>4, <1>6 DEF Current, IsAccepted

(* Each request gets what ResourceContract owes it.                        *)
THEOREM RequestsKeepContract == Spec => ContractSpec
<1> DEFINE states == [r \in Request |-> StateOf(r)]
           cvars == <<states, Current>>
<1>1. Init => Contract!Init
  <2> SUFFICES ASSUME Init PROVE states = [r \in Request |-> "idle"] /\ Current = Request
    BY DEF Contract!Init
  <2>1. \A r \in Request : StateOf(r) = "idle"
    BY DEF Init, StateOf
  <2>2. \A r \in Request : ~(r < nextRequest)
    BY LifecycleAssumption DEF Init, Request
  <2> QED BY <2>1, <2>2 DEF Current
<1>2. ASSUME PipelineInv, PipelineInv', [Next]_vars PROVE [Contract!Next]_cvars
  <2> USE DEF Contract!Stay, Contract!Ask, Contract!Answer, Contract!Drop
  <2>1. Current' \subseteq Current
    BY <1>2, CurrentShrinks
  <2>2. ASSUME \A r \in Request : Contract!Stay(r) \/ Contract!Ask(r) \/ Contract!Answer(r) \/ Contract!Drop(r)
        PROVE  Contract!Next
    BY <2>1, <2>2 DEF Contract!Next
  <2>3. \A r \in Request : states[r] = StateOf(r) /\ states'[r] = StateOf(r)'
    OBVIOUS
  <2>4. ASSUME NEW r \in Request, r \in deferred' <=> r \in deferred,
               completed'[r] = completed[r], response'[r] = response[r]
        PROVE  Contract!Stay(r)
    BY <2>3, <2>4 DEF StateOf
  <2>5. ASSUME NEW k \in Key, Arrives(k)
        PROVE  /\ nextRequest \in Request /\ nextRequest \in Current /\ StateOf(nextRequest) = "idle"
               /\ Untouched(nextRequest)
    <3>1. nextRequest \in Request /\ Untouched(nextRequest)
      BY <1>2, <2>5, ArrivesFacts
    <3>2. ~(nextRequest < nextRequest)
      BY <3>1, LifecycleAssumption DEF Request
    <3> QED BY <1>2, <3>1, <3>2, States DEF Current, Untouched
  <2>6. ASSUME NEW k \in Key,
               RequestDenied(k) \/ RequestAnsweredInline(k) \/ RequestQueued(k) \/ RequestRefused(k)
        PROVE  Contract!Next
    <3>0. Arrives(k)
      BY <2>6 DEF RequestDenied, RequestAnsweredInline, RequestQueued, RequestRefused
    <3>1. PICK n \in Request : n = nextRequest
      BY <2>5, <3>0
    <3>2. n \in Current /\ StateOf(n) = "idle" /\ Untouched(n)
      BY <2>5, <3>0, <3>1
    <3>3. /\ completed \in [Request -> Nat] /\ response \in [Request -> Response]
      BY <1>2 DEF PipelineInv, TypeOK, HostTypeOK
    <3>4. CASE RequestQueued(k)
      <4>1. deferred' = deferred \cup {n} /\ UNCHANGED <<completed, response>>
        BY <3>1, <3>4 DEF RequestQueued
      <4>2. StateOf(n)' = "open"
        BY <1>2, <3>2, <4>1, StatesNext DEF Open, Untouched
      <4>3. Contract!Ask(n)
        BY <2>3, <3>2, <4>2
      <4>4. \A r \in Request : r # n => Contract!Stay(r)
        BY <2>4, <4>1
      <4> QED BY <2>2, <4>3, <4>4
    <3>5. CASE RequestDenied(k) \/ RequestAnsweredInline(k) \/ RequestRefused(k)
      <4>1. PICK answer \in {"forbidden", "resolved", "failed", "unavailable"} : AnswerInline(n, answer)
        BY <3>1, <3>5 DEF RequestDenied, RequestAnsweredInline, RequestRefused
      <4>2. response'[n] # "none" /\ \A r \in Request : r # n => response'[r] = response[r]
        BY <3>3, <4>1 DEF AnswerInline
      <4>3. \A r \in Request : r # n => (r \in deferred' <=> r \in deferred) /\ completed'[r] = completed[r]
        BY <3>1, <3>3, <3>5 DEF RequestDenied, RequestAnsweredInline, RequestRefused
      <4>4. Contract!Answer(n)
        BY <1>2, <2>3, <3>2, <4>2, StatesNext
      <4>5. \A r \in Request : r # n => Contract!Stay(r)
        BY <2>4, <4>2, <4>3
      <4> QED BY <2>2, <4>4, <4>5
    <3> QED BY <2>6, <3>4, <3>5
  <2>7. ASSUME NEW r \in Request, OnComplete(r) PROVE Contract!Next
    <3>1. posted[r] # <<>> /\ host # "destroying" /\ Open(r) /\ response[r] = "none"
      BY <1>2, <2>7, PostedIsOpen DEF OnComplete
    <3>2. StateOf(r) = "open" /\ (r \in Current <=> hostAlive /\ IsAccepted(r))
      BY <1>2, <3>1, States, AcceptedIffCurrent
    <3>3. /\ completed \in [Request -> Nat] /\ response \in [Request -> Response]
      BY <1>2 DEF PipelineInv, TypeOK, HostTypeOK
    <3>4. deferred' = deferred /\ completed' = [completed EXCEPT ![r] = @ + 1]
      BY <2>7 DEF OnComplete
    <3>5. \A s \in Request : s # r => completed'[s] = completed[s] /\ response'[s] = response[s]
      BY <2>7, <3>3 DEF OnComplete
    <3>6. \A s \in Request : s # r => Contract!Stay(s)
      BY <2>4, <3>4, <3>5
    <3>7. CASE r \in Current
      <4>1. PICK result \in Result : posted[r] = <<result>>
        BY <1>2, <3>1, PostedIsOpen
      <4>2. response'[r] = Head(posted[r]) /\ Head(posted[r]) # "none"
        BY <2>7, <3>2, <3>3, <3>7, <4>1 DEF OnComplete, Result
      <4>3. Contract!Answer(r)
        BY <1>2, <2>3, <3>2, <3>7, <4>2, StatesNext
      <4> QED BY <2>2, <3>6, <4>3
    <3>8. CASE r \notin Current
      <4>1. response'[r] = "none"
        BY <2>7, <3>1, <3>2, <3>3, <3>8 DEF OnComplete
      <4>2. completed'[r] = 1 /\ r \in deferred'
        BY <3>1, <3>3, <3>4 DEF Open
      <4>3. Contract!Drop(r)
        BY <1>2, <2>3, <3>2, <3>8, <4>1, <4>2, StatesNext
      <4> QED BY <2>2, <3>6, <4>3
    <3> QED BY <3>7, <3>8
  <2>8. ASSUME ControllerCreated \/ NavigationStarting \/ DestroyBegins \/ DestroyEnds \/ Worker \/ UNCHANGED vars
        PROVE  Contract!Next
    <3>1. UNCHANGED <<deferred, completed, response>>
      BY <2>8 DEF ControllerCreated, NavigationStarting, DestroyBegins, DestroyEnds, Worker, vars, hostVars
    <3> QED BY <2>2, <2>4, <3>1
  <2> HIDE DEF states
  <2> QED BY <1>2, <2>6, <2>7, <2>8 DEF Next
<1> QED BY <1>1, <1>2, InvAlways, PTL DEF Spec, ContractSpec, Contract!Spec, Contract!contractVars
=============================================================================
