--------------------------- MODULE ArtworkPipeline ---------------------------
(***************************************************************************)
(* Artwork requests of one WebViewHost: the handler that defers them, the  *)
(* worker queue that extracts the covers, the lifecycle that judges the    *)
(* document, and the host's birth, navigations and destruction.            *)
(*                                                                         *)
(* The main thread takes the steps of the host and of the completions, and *)
(* the worker those of ExecuteBegins, Dispatch and WorkerDone.  The        *)
(* destructor blocks the main thread between its two halves.  A host       *)
(* initialises its controller once (WebViewPanel::InitializeWebView makes  *)
(* a new host for every WebView), so the queue is created, never reused.   *)
(* The caches decide which of 200, 304 and 404 a request gets, which is    *)
(* not told apart here.                                                    *)
(***************************************************************************)
EXTENDS ArtworkWorkerQueue

CONSTANT NoKey  \* the key of a request not made yet

ASSUME PipelineAssumption == NoKey \notin Key

VARIABLES
  host,         \* "new", "live", "destroying" (blocked in ~WebViewHost), "gone"
  hostAlive,    \* *artworkHostAlive_
  nextRequest,  \* the lifecycle's nextRequestId_ plus one
  flightKey,    \* flightKey of each request
  deferred,     \* requests that hold a deferral
  completed,    \* how often each deferral was completed
  response      \* the response put on each request

hostVars == <<host, hostAlive, nextRequest, flightKey, deferred, completed, response>>
vars == <<workerVars, lifecycleVars, hostVars>>

Response == Result \cup {"none", "forbidden"}

HostTypeOK ==
  /\ host \in {"new", "live", "destroying", "gone"}
  /\ hostAlive \in BOOLEAN
  /\ nextRequest \in 1..(MaxRequest + 1)
  /\ flightKey \in [Request -> Key \cup {NoKey}]
  /\ deferred \subseteq Request
  /\ completed \in [Request -> Nat]
  /\ response \in [Request -> Response]

(* Every variable has its type; the queue is never longer than its bound.  *)
TypeOK == ArtworkQueueTypeOK /\ LifecycleTypeOK /\ HostTypeOK

Init ==
  /\ ArtworkQueueInit /\ LifecycleInit
  /\ host = "new" /\ hostAlive = TRUE /\ nextRequest = 1
  /\ flightKey = [r \in Request |-> NoKey]
  /\ deferred = {}
  /\ completed = [r \in Request |-> 0]
  /\ response = [r \in Request |-> "none"]

-----------------------------------------------------------------------------
(* CreateControllerWithEnvironment, once the controller exists.            *)
ControllerCreated ==
  /\ host = "new" /\ host' = "live"
  /\ OnControllerCreated
  /\ running' = TRUE
  /\ UNCHANGED <<queue, flights, followers, stage, inFlight, aborted, posted>>
  /\ UNCHANGED <<hostAlive, nextRequest, flightKey, deferred, completed, response>>

(* The NavigationStarting handler.                                         *)
NavigationStarting ==
  /\ host = "live" /\ navigationGeneration < MaxNavigation
  /\ OnNavigationStarting
  /\ CancelStale({r \in Request : capture[r] # Now'})
  /\ UNCHANGED hostVars

(* The WebResourceRequested handler for a well-formed artwork URL: the     *)
(* capture, then a refusal, the synchronous path, or the queue.            *)
Arrives(k) ==
  /\ host = "live" /\ nextRequest <= MaxRequest
  /\ CaptureRequest(nextRequest)
  /\ flightKey' = [flightKey EXCEPT ![nextRequest] = k]
  /\ nextRequest' = nextRequest + 1
  /\ UNCHANGED <<host, hostAlive, navigationGeneration, hostGeneration, alive, closing>>

(* The request is answered before the handler returns.  An exception of    *)
(* the synchronous path answers 500 and leaves no terminal reason.         *)
AnswerInline(r, answer) ==
  /\ response' = [response EXCEPT ![r] = answer]
  /\ terminal' = [terminal EXCEPT ![r] = IF answer = "failed" THEN "none" ELSE "Completed"]

RequestDenied(k) ==
  /\ Arrives(k)
  /\ AnswerInline(nextRequest, "forbidden")
  /\ UNCHANGED <<deferred, completed>> /\ UNCHANGED workerVars
RequestAnsweredInline(k) ==
  /\ Arrives(k)
  /\ \E answer \in {"resolved", "failed"} : AnswerInline(nextRequest, answer)
  /\ UNCHANGED <<deferred, completed>> /\ UNCHANGED workerVars
RequestQueued(k) ==
  /\ Arrives(k)
  /\ Join(nextRequest, k) \/ Lead(nextRequest, k)
  /\ deferred' = deferred \cup {nextRequest}
  /\ UNCHANGED <<terminal, completed, response>>
RequestRefused(k) ==
  /\ Arrives(k)
  /\ Refuse(k)
  /\ deferred' = deferred \cup {nextRequest}
  /\ AnswerInline(nextRequest, "unavailable")
  /\ completed' = [completed EXCEPT ![nextRequest] = @ + 1]

(* WorkItem::complete on the main thread: the host's own members are read  *)
(* only while artworkHostAlive_ says it exists.                            *)
OnComplete(r) ==
  /\ host # "destroying" /\ posted[r] # <<>>
  /\ posted' = [posted EXCEPT ![r] = Tail(@)]
  /\ completed' = [completed EXCEPT ![r] = @ + 1]
  /\ IF hostAlive
     THEN /\ Complete(r)
          /\ response' = [response EXCEPT ![r] = IF IsAccepted(r) THEN Head(posted[r]) ELSE @]
     ELSE UNCHANGED <<terminal, response>>
  /\ UNCHANGED <<running, queue, flights, followers, stage, inFlight, aborted>>
  /\ UNCHANGED <<navigationGeneration, hostGeneration, alive, closing, capture>>
  /\ UNCHANGED <<host, hostAlive, nextRequest, flightKey, deferred>>

(* ~WebViewHost up to the wait in ~ArtworkWorkerQueue: the flag, DrainAll, *)
(* and the queue's destructor, which stops it and drains again in vain.    *)
(* Mutant of AliveOnceDestroying: the flag is not cleared.                 *)
AliveUnlessToldOtherwise == hostAlive
AliveOnceDestroying == FALSE
DestroyBegins ==
  /\ host \in {"new", "live"} /\ host' = "destroying"
  /\ hostAlive' = AliveOnceDestroying
  /\ DrainAll(flightKey)
  /\ running' = FALSE
  /\ UNCHANGED lifecycleVars
  /\ UNCHANGED <<nextRequest, flightKey, deferred, completed, response>>

(* The wait is over: the rest of ~WebViewHost.                             *)
DestroyEnds ==
  /\ host = "destroying" /\ host' = "gone"
  /\ stage = "idle"
  /\ OnClose
  /\ UNCHANGED workerVars
  /\ UNCHANGED <<hostAlive, nextRequest, flightKey, deferred, completed, response>>

Worker ==
  /\ \/ ExecuteBegins
     \/ \E result \in Result : Dispatch(flightKey, result)
     \/ WorkerDone
  /\ UNCHANGED lifecycleVars /\ UNCHANGED hostVars

Next ==
  \/ ControllerCreated \/ NavigationStarting \/ DestroyBegins \/ DestroyEnds
  \/ \E k \in Key : \/ RequestDenied(k) \/ RequestAnsweredInline(k)
                    \/ RequestQueued(k) \/ RequestRefused(k)
  \/ \E r \in Request : OnComplete(r)
  \/ Worker

(* The CPU pool runs what it was given, the main thread runs what was      *)
(* posted to it, and the destructor goes on once its wait is over.         *)
Fairness ==
  /\ WF_vars(Worker)
  /\ WF_vars(DestroyEnds)
  /\ \A r \in Request : WF_vars(OnComplete(r))

Spec == Init /\ [][Next]_vars /\ Fairness

-----------------------------------------------------------------------------
Open(r) == r \in deferred /\ completed[r] = 0
Leads(r) ==
  \/ r \in queue
  \/ r = inFlight /\ stage \in {"scheduled", "extracting"}
Follows(r) == \E k \in Key : r \in followers[k]

(* While the host lives, singleFlight_ holds exactly the keys of the items *)
(* queued or being extracted, no two of which share a key, and a follower  *)
(* has its leader's key: the leader's completion finds every follower, and *)
(* never those of another extraction.                                      *)
FlightsExact ==
  host = "live" =>
    /\ flights = {flightKey[r] : r \in {s \in Request : Leads(s)}}
    /\ \A r, s \in Request : Leads(r) /\ Leads(s) /\ flightKey[r] = flightKey[s] => r = s
    /\ \A k \in Key : \A r \in followers[k] : k \in flights /\ flightKey[r] = k

(* An open deferral has one holder, which will complete it: as a leader, a *)
(* follower or a posted completion; a completed one has none.  Only the    *)
(* destruction of the host can lose one (see NoneForgotten).               *)
Holders(r) == (IF Leads(r) THEN 1 ELSE 0) + (IF Follows(r) THEN 1 ELSE 0) + Len(posted[r])
HeldOnce ==
  \A r \in Request :
    /\ ~Open(r) => Holders(r) = 0
    /\ Holders(r) <= 1
    /\ Open(r) /\ host = "live" => Holders(r) = 1

(* The strengthening the invariants above, and the contract below, need.   *)
(* Each phase of the host fixes what its members hold; the worker's item   *)
(* is not in the queue; nothing is known of a request not made yet; an     *)
(* open deferral was told nothing, and its holders exclude each other; no  *)
(* capture is ahead of the document displayed.                             *)
PhasesExact ==
  /\ hostAlive <=> host \in {"new", "live"}
  /\ running <=> host = "live"
  /\ closing <=> host = "gone"
  /\ host = "live" => alive
  /\ host = "gone" => ~alive
  /\ host = "new" => nextRequest = 1 /\ hostGeneration = 0
  /\ host \in {"live", "destroying"} => hostGeneration <= 1
  /\ host # "live" => queue = {} /\ flights = {} /\ \A k \in Key : followers[k] = {}
  /\ host \in {"new", "gone"} => stage = "idle"
ItemsExact ==
  /\ stage = "idle" <=> inFlight = NoRequest
  /\ inFlight \notin queue /\ inFlight < nextRequest
Untouched(r) ==
  r \notin deferred /\ completed[r] = 0 /\ response[r] = "none" /\ terminal[r] = "none"
AnswersExact ==
  \A r \in Request :
    /\ r >= nextRequest => Untouched(r)
    /\ completed[r] <= IF r \in deferred THEN 1 ELSE 0
    /\ Open(r) => terminal[r] = "none" /\ response[r] = "none"
Posted(r) == posted[r] # <<>>
Apart(r) ==
  /\ Leads(r) \/ Follows(r) \/ Posted(r) => Open(r)
  /\ ~(Leads(r) /\ Follows(r)) /\ (Posted(r) => ~Leads(r) /\ ~Follows(r))
  /\ Posted(r) => \E result \in Result : posted[r] = <<result>>
  /\ Open(r) /\ host = "live" => Leads(r) \/ Follows(r) \/ Posted(r)
HoldersApart == \A r \in Request : Apart(r)
CapturesPast == \A r \in Request : capture[r].nav <= navigationGeneration
PipelineInv ==
  /\ TypeOK /\ PhasesExact /\ ItemsExact /\ FlightsExact
  /\ AnswersExact /\ HoldersApart /\ CapturesPast

(* After the host is gone no completion and no worker touches what it      *)
(* owned.                                                                  *)
NothingTouchedAfterwards ==
  [][host = "gone" => UNCHANGED <<running, queue, flights, followers, stage, inFlight,
                                  lifecycleVars, response>>]_vars

(* Each request gets what ResourceContract owes it: one completion, with a *)
(* response exactly when its document is still displayed.                  *)
StateOf(r) ==
  CASE r \notin deferred /\ response[r] = "none" -> "idle"
    [] r \in deferred /\ completed[r] = 0 /\ response[r] = "none" -> "open"
    [] response[r] # "none" /\ completed[r] = (IF r \in deferred THEN 1 ELSE 0) -> "answered"
    [] r \in deferred /\ completed[r] = 1 /\ response[r] = "none" -> "dropped"
    [] OTHER -> "broken"
Current == {r \in Request : r < nextRequest => host = "live" /\ capture[r] = Now}
Contract == INSTANCE ResourceContract WITH
  state <- [r \in Request |-> StateOf(r)], current <- Current
ContractSpec == Contract!Spec

(* Every deferral is completed, unless its host is destroyed first; and    *)
(* the destruction of a host does not wait for ever.                       *)
EveryDeferralSettles == \A r \in Request : Open(r) ~> (~Open(r) \/ host # "live")
DestructionEnds == (host = "destroying") ~> (host = "gone")

(* The queue's destructor says "Complete every outstanding deferral" and   *)
(* DrainAll that "deferrals never hang": somebody is still going to        *)
(* complete each open one.                                                 *)
NoneForgotten == \A r \in Request : Open(r) => Holders(r) > 0

(* CancelStale says it cancels "queued items that are stale": a request of *)
(* the displayed document that the queue accepted is not answered 503.     *)
OnlyStaleCancelled ==
  [][\A r \in Request : Open(r) => response'[r] # "unavailable"]_vars
=============================================================================
