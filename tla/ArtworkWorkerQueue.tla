------------------------- MODULE ArtworkWorkerQueue -------------------------
(***************************************************************************)
(* Cover extraction off the main thread: class ArtworkWorkerQueue.  The    *)
(* main thread submits and cancels, one worker extracts, and the requests  *)
(* that want the same cover share one extraction: the first leads, the     *)
(* others follow.  Every lock region is one step.                          *)
(*                                                                         *)
(* A work item is named by the request id of its capture, whose            *)
(* generations it copies.  queue_ is pushed at the back with growing ids   *)
(* and popped at the front, so it is the set `queue' read in increasing    *)
(* order.  The order in which one result is posted to leader and followers *)
(* is left out, so a flight's followers are a set.                         *)
(***************************************************************************)
EXTENDS ArtworkRequestLifecycle, FiniteSets, Sequences

CONSTANTS
  Key,            \* flight keys: path, picture type, size and If-None-Match
  MaxQueueDepth   \* kMaxQueueDepth

ASSUME ArtworkQueueAssumption == MaxQueueDepth \in Nat \ {0}

NoRequest == 0

(* What a page can be told: the answer of the caches or of the extractor   *)
(* (200, 304 or 404), 500, or 503.                                         *)
Result == {"resolved", "failed", "unavailable"}

VARIABLES
  running,    \* running_, and whether the queue exists at all
  queue,      \* queue_
  flights,    \* the keys of singleFlight_
  followers,  \* singleFlight_[k]
  stage,      \* "idle": ~busy_; otherwise where the worker's lambda is
  inFlight,   \* the item the worker holds
  aborted,    \* the items, queued or in flight, whose aborter is set
  posted      \* completions given to the main thread that have not run yet

workerVars == <<running, queue, flights, followers, stage, inFlight, aborted, posted>>

Stage == {"idle", "scheduled", "extracting", "dispatched"}

ArtworkQueueTypeOK ==
  /\ running \in BOOLEAN
  /\ queue \subseteq Request /\ Cardinality(queue) <= MaxQueueDepth
  /\ flights \subseteq Key
  /\ followers \in [Key -> SUBSET Request]
  /\ stage \in Stage
  /\ inFlight \in Request \cup {NoRequest}
  /\ aborted \subseteq Request
  /\ posted \in [Request -> Seq(Result)]

ArtworkQueueInit ==
  /\ running = FALSE
  /\ queue = {} /\ flights = {} /\ followers = [k \in Key |-> {}]
  /\ stage = "idle" /\ inFlight = NoRequest
  /\ aborted = {} /\ posted = [r \in Request |-> <<>>]

-----------------------------------------------------------------------------
(* PostCompletion.  That the main thread refuses the post is not modelled. *)
Post(R, result) ==
  posted' = [r \in Request |-> IF r \in R THEN Append(posted[r], result) ELSE posted[r]]

Busy == IF stage = "idle" THEN {} ELSE {inFlight}
Oldest(q) == CHOOSE r \in q : \A s \in q : r <= s

(* PumpLocked on queue q, when the worker is at stage st with item r.      *)
PumpLocked(q, st, r) ==
  IF running /\ st = "idle" /\ q # {}
  THEN inFlight' = Oldest(q) /\ queue' = q \ {Oldest(q)} /\ stage' = "scheduled"
  ELSE inFlight' = r /\ queue' = q /\ stage' = st

(* Submit, by what it does with request r of key k.                        *)
(* Mutant of IsFull: one item too many.                                    *)
IsFullLate == Cardinality(queue) > MaxQueueDepth
IsFull == Cardinality(queue) >= MaxQueueDepth
Join(r, k) ==
  /\ running /\ k \in flights
  /\ followers' = [followers EXCEPT ![k] = @ \cup {r}]
  /\ UNCHANGED <<running, queue, flights, stage, inFlight, aborted, posted>>
Lead(r, k) ==
  /\ running /\ k \notin flights /\ ~IsFull
  /\ flights' = flights \cup {k}
  /\ PumpLocked(queue \cup {r}, stage, inFlight)
  /\ UNCHANGED <<running, followers, aborted, posted>>
Refuse(k) ==
  /\ running => k \notin flights /\ IsFull
  /\ UNCHANGED workerVars

(* CancelStale, where stale are the requests whose two generations differ  *)
(* from the current ones.  The items stay where they are.                  *)
Cancellable == queue \cup Busy
CancelStale(stale) ==
  /\ aborted' = aborted \cup (Cancellable \cap stale)
  /\ UNCHANGED <<running, queue, flights, followers, stage, inFlight, posted>>

(* DrainAll, where keyOf is each request's flight key.  The entry of a     *)
(* queued leader is erased together with its followers; only the followers *)
(* of the item in flight are collected.                                    *)
Drained(keyOf) == queue \cup UNION {followers[k] : k \in flights \ {keyOf[r] : r \in queue}}
DrainAll(keyOf) ==
  /\ Post(Drained(keyOf), "unavailable")
  /\ queue' = {} /\ flights' = {} /\ followers' = [k \in Key |-> {}]
  /\ aborted' = Busy
  /\ UNCHANGED <<stage, inFlight>>

-----------------------------------------------------------------------------
(* Execute reads the aborter first; a set one answers 503 at once.         *)
ExecuteBegins ==
  /\ stage = "scheduled" /\ inFlight \notin aborted
  /\ stage' = "extracting"
  /\ UNCHANGED <<running, queue, flights, followers, inFlight, aborted, posted>>

(* What Execute may return: 503 only from a set aborter, which the caches' *)
(* answers and an error need not notice.                                   *)
Executed(result) ==
  \/ stage = "scheduled" /\ inFlight \in aborted /\ result = "unavailable"
  \/ stage = "extracting" /\ result \in Result
       /\ (result = "unavailable" => inFlight \in aborted)

(* The end of Execute, and Dispatch: the leader's entry is found by key.   *)
(* Mutants: the followers are not told of a cancelled leader; the entry    *)
(* stays.                                                                  *)
ToldUnlessCancelled(k, result) ==
  {inFlight} \cup (IF k \in flights /\ result # "unavailable" THEN followers[k] ELSE {})
Told(k, result) == {inFlight} \cup (IF k \in flights THEN followers[k] ELSE {})
FlightsKept(k) == flights
FlightsWithout(k) == flights \ {k}
Dispatch(keyOf, result) ==
  LET k == keyOf[inFlight]
  IN /\ Executed(result)
     /\ Post(Told(k, result), result)
     /\ flights' = FlightsWithout(k)
     /\ followers' = [followers EXCEPT ![k] = {}]
     /\ stage' = "dispatched"
     /\ UNCHANGED <<running, queue, inFlight, aborted>>

(* The last lock region of the lambda.  Mutants: it does not pump; it      *)
(* returns early once the queue is stopping.                               *)
WorkerDoneUnpumped ==
  /\ stage = "dispatched"
  /\ stage' = "idle" /\ inFlight' = NoRequest
  /\ aborted' = aborted \ {inFlight}
  /\ UNCHANGED <<running, queue, flights, followers, posted>>
WorkerDoneIfRunning ==
  /\ stage = "dispatched" /\ running
  /\ PumpLocked(queue, "idle", NoRequest)
  /\ aborted' = aborted \ {inFlight}
  /\ UNCHANGED <<running, flights, followers, posted>>
WorkerDone ==
  /\ stage = "dispatched"
  /\ PumpLocked(queue, "idle", NoRequest)
  /\ aborted' = aborted \ {inFlight}
  /\ UNCHANGED <<running, flights, followers, posted>>
=============================================================================
