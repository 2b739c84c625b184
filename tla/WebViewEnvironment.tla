------------------------- MODULE WebViewEnvironment -------------------------
(***************************************************************************)
(* The WebView2 environment all windows share, and the WebViewHost of each *)
(* window from GetEnvironment to its controller.                           *)
(*                                                                         *)
(* An environment stands for one browser process.  The process may exit at *)
(* any time: the environment and every controller made from it are useless *)
(* from then on, and whoever holds them learns of it by a report, or by a  *)
(* creation that fails.  The windows' own reactions are in CrashRecovery.  *)
(* The liveness flag of a destroyed host makes its callbacks return, so a  *)
(* host that is destroyed simply stops waiting here.                       *)
(***************************************************************************)
EXTENDS Naturals

CONSTANT Window

VARIABLES
  ready,     \* ready_
  creating,  \* creating_
  waiting,   \* the windows whose callback is in pendingCallbacks_
  envLive,   \* whether the browser of environment_ runs
  host,      \* how far each window's host has come
  live,      \* whether the browser of a host's environment runs
  reports    \* ProcessFailed events each host has still to be told of

envVars == <<ready, creating, waiting, envLive>>
hostVars == <<host, live, reports>>

Kind == {"render", "browser"}  \* FailureClass; the others recover by themselves

EnvironmentTypeOK ==
  /\ ready \in BOOLEAN /\ creating \in BOOLEAN /\ envLive \in BOOLEAN
  /\ waiting \in SUBSET Window
  /\ host \in [Window -> {"none", "environment", "controller", "refused", "ready", "failed"}]
  /\ live \in [Window -> BOOLEAN]
  /\ reports \in [Window -> SUBSET Kind]

EnvironmentInit ==
  /\ ready = FALSE /\ creating = FALSE /\ waiting = {} /\ envLive = FALSE
  /\ host = [w \in Window |-> "none"]
  /\ live = [w \in Window |-> FALSE]
  /\ reports = [w \in Window |-> {}]

\* every host of ws is over another environment, which runs or not
Attached(ws, runs) ==
  /\ live' = [w \in Window |-> IF w \in ws THEN runs ELSE live[w]]
  /\ reports' = [w \in Window |-> IF w \in ws THEN {} ELSE reports[w]]
Moved(ws, s, runs) ==
  /\ host' = [w \in Window |-> IF w \in ws THEN s ELSE host[w]]
  /\ Attached(ws, runs)

(* CreateControllerWithEnvironment of the hosts ws.  WebView2 accepts the  *)
(* call and will complete it, or refuses it at once.  What the call        *)
(* returns is ignored, so a host that is refused hears nothing, ever.      *)
CreateControllers(ws, runs) ==
  /\ \E accepted \in SUBSET ws :
       host' = [w \in Window |-> CASE w \in accepted -> "controller"
                                   [] w \in ws \ accepted -> "refused"
                                   [] OTHER -> host[w]]
  /\ Attached(ws, runs)

-----------------------------------------------------------------------------
\* Mutant of DrainPendingCallbacksOnFailure: they stay in the list.
DrainKeepsCallbacks(ws) ==
  /\ creating' = FALSE /\ waiting' = ws
  /\ Moved(ws, "environment", FALSE)

(* CreateEnvironmentInternal fails at once: everybody who waits is told.   *)
DrainPendingCallbacksOnFailure(ws) ==
  /\ creating' = FALSE /\ waiting' = {}
  /\ Moved(ws, "failed", FALSE)

(* Preheat: an environment nobody has asked for yet.                       *)
Preheat ==
  /\ ~ready /\ ~creating
  /\ \/ creating' = TRUE /\ UNCHANGED <<waiting, hostVars>>
     \/ DrainPendingCallbacksOnFailure(waiting)
  /\ UNCHANGED <<ready, envLive>>

(* WebViewHost::Initialize of a new host of w: GetEnvironment, and the     *)
(* controller at once when there is an environment, which may be dead.     *)
Initialize(w, isReady) ==
  /\ ready' = isReady
  /\ UNCHANGED envLive
  /\ \/ /\ isReady
        /\ CreateControllers({w}, envLive)
        /\ UNCHANGED <<creating, waiting>>
     \/ /\ ~isReady
        /\ creating' = TRUE /\ waiting' = waiting \cup {w}
        /\ Moved({w}, "environment", FALSE)
     \/ ~isReady /\ ~creating /\ DrainPendingCallbacksOnFailure(waiting \cup {w})

(* ~WebViewHost, when no new host follows.                                 *)
Destroy(w) ==
  /\ waiting' = waiting \ {w}
  /\ Moved({w}, "none", FALSE)
  /\ UNCHANGED <<ready, creating, envLive>>

(* The completion of CreateCoreWebView2EnvironmentWithOptions: a new       *)
(* environment has a browser that runs.                                    *)
EnvironmentCompleted ==
  /\ creating
  /\ \/ /\ ready' = TRUE /\ creating' = FALSE /\ envLive' = TRUE
        /\ waiting' = {} /\ CreateControllers(waiting, TRUE)
     \/ DrainPendingCallbacksOnFailure(waiting) /\ UNCHANGED <<ready, envLive>>

(* The completion of a CreateCoreWebView2Controller that was accepted: it  *)
(* cannot succeed once the browser has exited.                             *)
ControllerCompleted(w) ==
  /\ host[w] = "controller"
  /\ \/ live[w] /\ Moved({w}, "ready", TRUE)
     \/ Moved({w}, "failed", FALSE)
  /\ UNCHANGED envVars

\* Mutant of Invalidate: it forgets a creation under way as well.
InvalidateStopsCreation ==
  ready' = FALSE /\ creating' = FALSE /\ UNCHANGED <<waiting, envLive>>

(* Invalidate: an environment being created is left alone.                 *)
Invalidate == ready' = FALSE /\ UNCHANGED <<creating, waiting, envLive>>

-----------------------------------------------------------------------------
(* The browser process exits: every finished host is going to be told.     *)
BrowserExits ==
  /\ envLive \/ \E w \in Window : live[w]
  /\ envLive' = FALSE
  /\ live' = [w \in Window |-> FALSE]
  /\ reports' = [w \in Window |-> IF host[w] = "ready" /\ live[w]
                                  THEN reports[w] \cup {"browser"} ELSE reports[w]]
  /\ UNCHANGED <<ready, creating, waiting, host>>

(* A page's own process exits or hangs.                                    *)
RenderFails(w) ==
  /\ host[w] = "ready" /\ live[w]
  /\ reports' = [reports EXCEPT ![w] = @ \cup {"render"}]
  /\ UNCHANGED <<envVars, host, live>>
=============================================================================
