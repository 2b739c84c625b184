--------------------------- MODULE CrashRecovery ---------------------------
(***************************************************************************)
(* What the windows do about a WebView that dies: the ProcessFailed        *)
(* handler of their hosts, and the main window's two ways back, a rebuild  *)
(* scheduled after a crash (limited per window of time) and the health     *)
(* check of the page after it was hidden.                                  *)
(*                                                                         *)
(* All of it runs on the main thread.  Window messages, timers and         *)
(* completions come in any order; what the clock decides is whether the    *)
(* current window of time has expired.  A health check's answer counts     *)
(* while its generation is the last one, that is while probePending is     *)
(* set for it; older answers change nothing and are no steps here.         *)
(***************************************************************************)
EXTENDS WebViewEnvironment

CONSTANTS
  Main,          \* the main window; the others are popups and panels
  RebuildLimit,  \* kBrowserRebuildAttemptLimit
  HealthLimit    \* PAGE_HEALTH_RECOVERY_LIMIT

ASSUME RecoveryAssumption ==
  /\ Main \in Window
  /\ RebuildLimit \in Nat \ {0} /\ HealthLimit \in Nat

VARIABLES
  dead,            \* webViewProcessDead_ of each window
  rebuilding,      \* webViewRebuildInProgress_
  attempts,        \* browserExitRebuildAttempts_
  expired,         \* the window of time that counts them is over
  rebuildTimer,    \* PROCESS_DEAD_REBUILD_TIMER_ID is set
  healthAttempts,  \* bgSuspendHealthRecoveryAttempts_
  probePending,    \* pageHealthProbePending_
  healthTimer,     \* PAGE_HEALTH_RETRY_TIMER_ID is set
  rebuilt          \* history: crash rebuilds since the window of time began

quotaVars == <<attempts, expired, rebuildTimer, rebuilt>>
healthVars == <<healthAttempts, probePending, healthTimer>>
vars == <<envVars, hostVars, dead, rebuilding, quotaVars, healthVars>>

(* Every variable has its type.                                            *)
TypeOK ==
  /\ EnvironmentTypeOK
  /\ dead \in [Window -> BOOLEAN]
  /\ rebuilding \in BOOLEAN /\ expired \in BOOLEAN /\ rebuildTimer \in BOOLEAN
  /\ probePending \in BOOLEAN /\ healthTimer \in BOOLEAN
  /\ attempts \in 0..RebuildLimit /\ healthAttempts \in 0..HealthLimit
  /\ rebuilt \in Nat

Init ==
  /\ EnvironmentInit
  /\ dead = [w \in Window |-> FALSE]
  /\ rebuilding = FALSE
  /\ attempts = 0 /\ expired = FALSE /\ rebuildTimer = FALSE /\ rebuilt = 0
  /\ healthAttempts = 0 /\ probePending = FALSE /\ healthTimer = FALSE

-----------------------------------------------------------------------------
\* OnWebViewReady and OnWebViewInitFailed of the main window release the lock
\* once its new host has ended one way or the other
StillRebuilding(begun) == begun /\ host'[Main] \notin {"ready", "failed"}

\* Mutant of ScheduleProcessDeadRebuild: a full window is begun anew.
ScheduleForgetsLimit ==
  /\ ~rebuilding
  /\ attempts' = (attempts % RebuildLimit) + 1
  /\ rebuildTimer' = TRUE
  /\ expired' = FALSE
  /\ rebuilt' = IF attempts = 0 \/ expired THEN 0 ELSE rebuilt

(* ScheduleProcessDeadRebuild, with DecideBrowserExitRebuild: begin a      *)
(* window of time, count in it, or give up until it is over.  A timer that *)
(* is set already is set anew, which makes two schedules one rebuild.      *)
ScheduleProcessDeadRebuild ==
  \/ /\ ~rebuilding /\ (attempts = 0 \/ expired)
     /\ attempts' = 1 /\ expired' = FALSE /\ rebuilt' = 0
     /\ rebuildTimer' = TRUE
  \/ /\ ~rebuilding /\ attempts \in 1..(RebuildLimit - 1) /\ ~expired
     /\ attempts' = attempts + 1
     /\ rebuildTimer' = TRUE
     /\ UNCHANGED <<expired, rebuilt>>
  \/ /\ rebuilding \/ (attempts = RebuildLimit /\ ~expired)
     /\ UNCHANGED quotaVars

(* RebuildWebViewAfterHealthFailure: one at a time; all the timers of the  *)
(* old host go with it.  Its early return under the lock is no step: no    *)
(* caller can meet the lock (NeverAbandoned: while it is held the host is  *)
(* being created or was refused, and every caller has a host that ended    *)
(* up ready or failed).                                                    *)
RebuildWebView(isReady) ==
  /\ ~rebuilding
  /\ Initialize(Main, isReady)
  /\ rebuilding' = StillRebuilding(TRUE)
  /\ dead' = [dead EXCEPT ![Main] = FALSE]
  /\ rebuildTimer' = FALSE
  /\ healthAttempts' = 0 /\ probePending' = FALSE /\ healthTimer' = FALSE

-----------------------------------------------------------------------------
(* The window's OnCreate: its first WebView.                               *)
Opens(w) ==
  /\ host[w] = "none"
  /\ Initialize(w, ready)
  /\ rebuilding' = StillRebuilding(rebuilding)
  /\ UNCHANGED <<dead, quotaVars, healthVars>>

(* A popup or panel is destroyed: DestroyWebView.                          *)
Closes(w) ==
  /\ w # Main /\ host[w] # "none"
  /\ Destroy(w)
  /\ dead' = [dead EXCEPT ![w] = FALSE]
  /\ UNCHANGED <<rebuilding, quotaVars, healthVars>>

Preheats ==
  /\ Preheat
  /\ rebuilding' = StillRebuilding(rebuilding)
  /\ UNCHANGED <<dead, quotaVars, healthVars>>

EnvironmentCreated ==
  /\ EnvironmentCompleted
  /\ rebuilding' = StillRebuilding(rebuilding)
  /\ UNCHANGED <<dead, quotaVars, healthVars>>

ControllerCreated(w) ==
  /\ ControllerCompleted(w)
  /\ rebuilding' = StillRebuilding(rebuilding)
  /\ UNCHANGED <<dead, quotaVars, healthVars>>

BrowserDies == BrowserExits /\ UNCHANGED <<dead, rebuilding, quotaVars, healthVars>>
RenderDies(w) == RenderFails(w) /\ UNCHANGED <<dead, rebuilding, quotaVars, healthVars>>

-----------------------------------------------------------------------------
\* OnWebViewProcessFailed with recovered = FALSE: only the main window acts
MarkedDead(w) ==
  /\ dead' = [dead EXCEPT ![w] = TRUE]
  /\ IF w = Main THEN ScheduleProcessDeadRebuild ELSE UNCHANGED quotaVars

(* ProcessFailed of a render process: Reload, and all is well if it does.  *)
(* It cannot once the browser has exited too.                              *)
RenderProcessFailed(w) ==
  /\ "render" \in reports[w]
  /\ reports' = [reports EXCEPT ![w] = @ \ {"render"}]
  /\ \/ live[w] /\ UNCHANGED <<dead, quotaVars>>
     \/ MarkedDead(w)
  /\ UNCHANGED <<envVars, host, live, rebuilding, healthVars>>

(* ProcessFailed of the browser process: the environment is no good.       *)
BrowserProcessFailed(w) ==
  /\ "browser" \in reports[w]
  /\ reports' = [reports EXCEPT ![w] = @ \ {"browser"}]
  /\ Invalidate
  /\ MarkedDead(w)
  /\ UNCHANGED <<host, live, rebuilding, healthVars>>

(* The rebuild timer: only a WebView that is still dead is replaced.       *)
RebuildTimerFires ==
  /\ rebuildTimer
  /\ \/ /\ dead[Main]
        /\ RebuildWebView(ready)
        /\ rebuilt' = rebuilt + 1
     \/ /\ ~dead[Main]
        /\ rebuildTimer' = FALSE
        /\ UNCHANGED <<envVars, hostVars, dead, rebuilding, healthVars, rebuilt>>
  /\ UNCHANGED <<attempts, expired>>

WindowOfTimeEnds ==
  /\ attempts > 0 /\ ~expired /\ expired' = TRUE
  /\ UNCHANGED <<envVars, hostVars, dead, rebuilding, attempts, rebuildTimer, rebuilt, healthVars>>

(* "Reload interface" in the menu of a window whose WebView never came up: *)
(* Invalidate, then the rebuild.                                           *)
UserRetries ==
  /\ host[Main] = "failed"
  /\ RebuildWebView(FALSE)
  /\ UNCHANGED <<attempts, expired, rebuilt>>

-----------------------------------------------------------------------------
(* RestoreSurfaceAfterHidden: the page is checked once its surface is      *)
(* back; if it is not and the WebView is dead, a rebuild is scheduled.     *)
RestoreSurfaceAfterHidden ==
  /\ host[Main] = "ready"
  /\ \/ /\ healthAttempts' = 0 /\ healthTimer' = TRUE
        /\ UNCHANGED <<probePending, quotaVars>>
     \/ dead[Main] /\ ScheduleProcessDeadRebuild /\ UNCHANGED healthVars
     \/ ~dead[Main] /\ UNCHANGED <<quotaVars, healthVars>>
  /\ UNCHANGED <<envVars, hostVars, dead, rebuilding>>

(* HandleRestoredPageHealthResult.                                         *)
HandleRestoredPageHealthResult(healthy) ==
  /\ \/ /\ healthy
        /\ healthAttempts' = 0 /\ probePending' = FALSE /\ healthTimer' = FALSE
        /\ UNCHANGED <<envVars, hostVars, dead, rebuilding, rebuildTimer>>
     \/ /\ ~healthy /\ healthAttempts < HealthLimit
        /\ healthAttempts' = healthAttempts + 1 /\ probePending' = FALSE /\ healthTimer' = TRUE
        /\ UNCHANGED <<envVars, hostVars, dead, rebuilding, rebuildTimer>>
     \/ ~healthy /\ healthAttempts = HealthLimit /\ RebuildWebView(ready)
  /\ UNCHANGED <<attempts, expired, rebuilt>>

(* The health timer: a check that never answered has failed, else a new    *)
(* one begins, unless the page is hidden again.                            *)
HealthTimerFires ==
  /\ healthTimer
  /\ \/ probePending /\ HandleRestoredPageHealthResult(FALSE)
     \/ /\ ~probePending
        /\ \/ probePending' = TRUE /\ UNCHANGED healthTimer
           \/ healthTimer' = FALSE /\ UNCHANGED probePending
        /\ UNCHANGED <<envVars, hostVars, dead, rebuilding, quotaVars, healthAttempts>>

(* The check of the page answers.                                          *)
PageAnswers(healthy) ==
  /\ probePending
  /\ HandleRestoredPageHealthResult(healthy)

Next ==
  \/ \E w \in Window :
       \/ Opens(w) \/ Closes(w) \/ ControllerCreated(w) \/ RenderDies(w)
       \/ RenderProcessFailed(w) \/ BrowserProcessFailed(w)
  \/ Preheats \/ EnvironmentCreated \/ BrowserDies
  \/ RebuildTimerFires \/ WindowOfTimeEnds \/ UserRetries
  \/ RestoreSurfaceAfterHidden \/ HealthTimerFires
  \/ \E healthy \in BOOLEAN : PageAnswers(healthy)

\* WebView2 completes every creation it accepted, one way or the other; of a
\* controller it refused nothing is assumed
Fairness ==
  /\ WF_vars(EnvironmentCreated)
  /\ \A w \in Window : WF_vars(ControllerCreated(w))

Spec == Init /\ [][Next]_vars /\ Fairness

-----------------------------------------------------------------------------
\* somebody is going to complete the creation of w's host: an environment that
\* really is being created, or a controller call that WebView2 accepted
BeingCreated(w) ==
  \/ host[w] = "environment" /\ w \in waiting /\ creating
  \/ host[w] = "controller"

\* a dead main window has a rebuild ahead, or used up its rebuilds
Rescued == rebuildTimer \/ attempts = RebuildLimit

(* Once the main window was opened it is never given up silently, unless   *)
(* the call that creates its controller is refused (see LockReleased): it  *)
(* is being created by a creation that really runs; or it failed, and then *)
(* the user can retry, for the lock is free; or it works; or its browser   *)
(* has exited and the report is on its way; or it is known dead, and then  *)
(* a rebuild is scheduled or the limit is used up (MainWindow.cpp, OnWeb-  *)
(* ViewProcessFailed and OnWebViewInitFailed; Invalidate during creation). *)
(* But for a refusal the lock is held only while the host is being         *)
(* created, and the timer is set only for a dead window.                   *)
NeverAbandoned ==
  /\ host[Main] \notin {"none", "refused"} =>
       \/ BeingCreated(Main)
       \/ host[Main] = "failed" /\ ~rebuilding
       \/ host[Main] = "ready" /\ ~dead[Main] /\ (live[Main] \/ "browser" \in reports[Main])
       \/ host[Main] = "ready" /\ dead[Main] /\ Rescued
  /\ rebuilding => BeingCreated(Main) \/ host[Main] = "refused"
  /\ rebuildTimer => dead[Main]

(* One window of time sees at most RebuildLimit rebuilds after a crash,    *)
(* whatever restores, double reports and health checks come in between     *)
(* (DecideBrowserExitRebuild and the timer it arms).                       *)
QuotaKept == rebuilt <= RebuildLimit

(* No WebView waits for ever for its environment or for a controller that  *)
(* was accepted: it comes up, fails, has its controller call refused, or   *)
(* is closed, however often the browser dies and the environment is        *)
(* invalidated meanwhile (GetEnvironment's callbacks, their drain).        *)
CreationEnds ==
  \A w \in Window : host[w] \in {"environment", "controller"}
                      ~> host[w] \in {"none", "refused", "ready", "failed"}

(* The rebuild lock is released again: `if the rebuild lock were not       *)
(* released here ... all later rebuilds would be blocked for ever'         *)
(* (MainWindow.cpp:1680-1682).  False: OnWebViewInitFailed is not called   *)
(* when CreateCoreWebView2Controller refuses (WebViewHost.cpp:136, 211).   *)
LockReleased == rebuilding ~> ~rebuilding
=============================================================================
