------------------------ MODULE CrashRecoveryProofs ------------------------
(***************************************************************************)
(* NeverAbandoned and QuotaKept for any windows and any limits.            *)
(*                                                                         *)
(* Neither is inductive.  That a window waits for an environment somebody  *)
(* creates needs the list of waiters to be exact and empty without a       *)
(* creation (Waiters); that the lock is free when a report or a timer      *)
(* comes in needs reports and health checks to belong to a finished host   *)
(* (Owned); and the quota holds because a timer that is set has been       *)
(* counted and not yet used (Counted).                                     *)
(***************************************************************************)
EXTENDS CrashRecovery, TLAPS

\* pendingCallbacks_ is exact, and empty unless a creation runs
Waiters ==
  /\ creating => ~ready
  /\ \A w \in Window : w \in waiting <=> host[w] = "environment"
  /\ waiting # {} => creating

\* reports, the dead mark and health checks are about a finished host
Owned ==
  /\ \A w \in Window : reports[w] # {} => host[w] = "ready"
  /\ dead[Main] \/ healthTimer \/ probePending => host[Main] = "ready"

\* a timer that is set is a rebuild counted in attempts and still to come
Counted ==
  /\ rebuilt <= attempts
  /\ rebuildTimer => rebuilt < attempts

IInv == TypeOK /\ Waiters /\ Owned /\ Counted /\ NeverAbandoned

Stage == {"none", "environment", "controller", "refused", "ready", "failed"}

\* how a host whose creation was just asked for can end up in the same step
Ended == {"failed", "refused"}

-----------------------------------------------------------------------------
(* A new host waits for a creation that runs, has its controller created,  *)
(* is refused one, or has failed; no other window is disturbed, for nobody *)
(* waits when no creation runs.                                            *)
LEMMA InitializeSafe ==
  ASSUME EnvironmentTypeOK, Waiters, NEW w \in Window, NEW isReady \in BOOLEAN,
         isReady => ready, host[w] # "environment", Initialize(w, isReady)
  PROVE  /\ EnvironmentTypeOK' /\ Waiters'
         /\ BeingCreated(w)' \/ host'[w] \in Ended
         /\ host'[w] \in {"environment", "controller"} \cup Ended /\ reports'[w] = {}
         /\ creating => creating'
         /\ waiting \subseteq waiting'
         /\ \A v \in Window \ {w} :
              host'[v] = host[v] /\ live'[v] = live[v] /\ reports'[v] = reports[v]
<1>0. ready' = isReady /\ envLive' = envLive /\ envLive \in BOOLEAN /\ {w} \in SUBSET Window
  BY DEF Initialize, EnvironmentTypeOK
<1> DEFINE Began(stage) ==
      /\ host' \in [Window -> Stage] /\ live' \in [Window -> BOOLEAN]
      /\ reports' \in [Window -> SUBSET Kind]
      /\ host'[w] = stage /\ reports'[w] = {}
      /\ \A v \in Window \ {w} :
           host'[v] = host[v] /\ live'[v] = live[v] /\ reports'[v] = reports[v]
<1>a. ASSUME NEW stage \in Stage, NEW runs \in BOOLEAN, Moved({w}, stage, runs)
      PROVE  Began(stage)
  <2>1. /\ host' \in [Window -> Stage] /\ live' \in [Window -> BOOLEAN]
        /\ reports' \in [Window -> SUBSET Kind]
        /\ \A v \in {w} : host'[v] = stage /\ live'[v] = runs /\ reports'[v] = {}
        /\ \A v \in Window \ {w} :
             host'[v] = host[v] /\ live'[v] = live[v] /\ reports'[v] = reports[v]
    BY <1>0, <1>a DEF Moved, Attached, EnvironmentTypeOK, Stage
  <2> QED BY <2>1
<1>b. ASSUME CreateControllers({w}, envLive)
      PROVE  Began("controller") \/ Began("refused")
  <2>1. PICK accepted \in SUBSET {w} :
          host' = [v \in Window |-> CASE v \in accepted -> "controller"
                                      [] v \in {w} \ accepted -> "refused"
                                      [] OTHER -> host[v]]
    BY <1>b DEF CreateControllers
  <2>2. accepted = {} \/ accepted = {w}
    OBVIOUS
  <2>3. Moved({w}, "controller", envLive) \/ Moved({w}, "refused", envLive)
    BY <1>b, <2>1, <2>2, <1>0 DEF CreateControllers, Moved
  <2> QED BY <1>0, <1>a, <2>3 DEF Stage
<1> HIDE DEF Began
<1>1. CASE isReady /\ CreateControllers({w}, envLive) /\ UNCHANGED <<creating, waiting>>
  <2>1. Began("controller") \/ Began("refused")
    BY <1>1, <1>b
  <2>2. CASE Began("controller")
    BY <1>0, <1>1, <2>2 DEF Began, EnvironmentTypeOK, Waiters, BeingCreated, Stage, Ended
  <2>3. CASE Began("refused")
    BY <1>0, <1>1, <2>3 DEF Began, EnvironmentTypeOK, Waiters, BeingCreated, Stage, Ended
  <2> QED BY <2>1, <2>2, <2>3
<1>2. CASE /\ ~isReady /\ creating' = TRUE /\ waiting' = waiting \cup {w}
           /\ Moved({w}, "environment", FALSE)
  <2>1. Began("environment")
    BY <1>2, <1>a DEF Stage
  <2> QED BY <1>0, <1>2, <2>1 DEF Began, EnvironmentTypeOK, Waiters, BeingCreated, Stage, Ended
<1>3. CASE ~isReady /\ ~creating /\ DrainPendingCallbacksOnFailure(waiting \cup {w})
  <2>1. waiting = {} /\ waiting \cup {w} = {w}
    BY <1>3 DEF Waiters
  <2>2. creating' = FALSE /\ waiting' = {} /\ Moved({w}, "failed", FALSE)
    BY <1>3, <2>1 DEF DrainPendingCallbacksOnFailure
  <2>3. Began("failed")
    BY <2>2, <1>a DEF Stage
  <2> QED BY <1>0, <1>3, <2>1, <2>2, <2>3 DEF Began, EnvironmentTypeOK, Waiters, Stage, Ended
<1> QED BY <1>1, <1>2, <1>3 DEF Initialize

(* A schedule keeps the count, and leaves the main window with a rebuild   *)
(* ahead unless the limit is used up: the lock is free.                    *)
LEMMA ScheduleSafe ==
  ASSUME TypeOK, Counted, ~rebuilding, ScheduleProcessDeadRebuild
  PROVE  /\ attempts' \in 0..RebuildLimit /\ rebuilt' \in Nat
         /\ expired' \in BOOLEAN /\ rebuildTimer' \in BOOLEAN
         /\ Counted' /\ Rescued'
<1> USE DEF Counted, Rescued
<1>0. /\ RebuildLimit \in Nat /\ RebuildLimit >= 1 /\ attempts \in 0..RebuildLimit /\ rebuilt \in Nat
      /\ expired \in BOOLEAN /\ rebuildTimer \in BOOLEAN
  BY RecoveryAssumption DEF TypeOK
<1>1. CASE attempts' = 1 /\ expired' = FALSE /\ rebuilt' = 0 /\ rebuildTimer' = TRUE
  <2>1. attempts' \in 0..RebuildLimit
    BY <1>0, <1>1
  <2>2. rebuilt' \in Nat /\ expired' \in BOOLEAN /\ rebuildTimer' \in BOOLEAN
    BY <1>1
  <2> QED BY <1>1, <2>1, <2>2
<1>2. CASE /\ attempts \in 1..(RebuildLimit - 1) /\ attempts' = attempts + 1
           /\ rebuildTimer' = TRUE /\ UNCHANGED <<expired, rebuilt>>
  BY <1>0, <1>2
<1>3. CASE attempts = RebuildLimit /\ UNCHANGED quotaVars
  <2>1. attempts' = attempts /\ expired' = expired /\ rebuilt' = rebuilt /\ rebuildTimer' = rebuildTimer
    BY <1>3 DEF quotaVars
  <2> QED BY <1>0, <1>3, <2>1
<1> QED BY <1>1, <1>2, <1>3 DEF ScheduleProcessDeadRebuild

(* A rebuild begins a host for the main window and clears all about the    *)
(* old one.                                                                *)
LEMMA RebuildSafe ==
  ASSUME IInv, NEW isReady \in BOOLEAN, isReady => ready,
         host[Main] # "environment", RebuildWebView(isReady),
         UNCHANGED <<attempts, expired>>, rebuilt' \in Nat, rebuilt' <= attempts
  PROVE  IInv'
<1> USE RecoveryAssumption
<1>1. /\ EnvironmentTypeOK' /\ Waiters'
      /\ BeingCreated(Main)' \/ host'[Main] \in Ended
      /\ host'[Main] \in {"environment", "controller"} \cup Ended /\ reports'[Main] = {}
      /\ \A v \in Window \ {Main} : host'[v] = host[v] /\ reports'[v] = reports[v]
  BY InitializeSafe DEF IInv, TypeOK, RebuildWebView
<1>2. TypeOK'
  <2>1. rebuilding' \in BOOLEAN
    BY Zenon DEF RebuildWebView, StillRebuilding
  <2>2. dead' \in [Window -> BOOLEAN]
    BY DEF IInv, TypeOK, RebuildWebView
  <2>3. /\ rebuildTimer' = FALSE /\ probePending' = FALSE /\ healthTimer' = FALSE
        /\ healthAttempts' = 0
    BY DEF RebuildWebView
  <2>4. expired' \in BOOLEAN /\ attempts' \in 0..RebuildLimit /\ healthAttempts' \in 0..HealthLimit
    BY <2>3 DEF IInv, TypeOK
  <2> QED BY <1>1, <2>1, <2>2, <2>3, <2>4 DEF TypeOK
<1>3. Owned' /\ Counted'
  BY <1>1 DEF IInv, TypeOK, Owned, Counted, RebuildWebView, Ended
<1>4. NeverAbandoned'
  BY <1>1 DEF IInv, TypeOK, RebuildWebView, StillRebuilding, NeverAbandoned, Ended
<1> QED BY <1>1, <1>2, <1>3, <1>4 DEF IInv

(* A step that only brings a host up or down is safe if the main window's  *)
(* finished host is left alone and an unfinished one goes on, fails, is    *)
(* refused its controller, or finishes over a browser that runs.           *)
LEMMA HostStepSafe ==
  ASSUME IInv, EnvironmentTypeOK', Waiters', UNCHANGED <<quotaVars, healthVars>>,
         dead' \in [Window -> BOOLEAN], dead'[Main] = dead[Main],
         rebuilding' \in BOOLEAN,
         rebuilding' => rebuilding /\ host'[Main] \notin {"ready", "failed"},
         \A w \in Window : reports'[w] # {} => host'[w] = "ready",
         host[Main] = "ready" =>
           host'[Main] = "ready" /\ live'[Main] = live[Main] /\ reports'[Main] = reports[Main],
         host[Main] # "ready" =>
           \/ host[Main] = "none" /\ host'[Main] = "none"
           \/ BeingCreated(Main)' \/ host'[Main] \in Ended
           \/ host'[Main] = "ready" /\ live'[Main]
  PROVE  IInv'
<1>1. /\ attempts' = attempts /\ expired' = expired /\ rebuildTimer' = rebuildTimer /\ rebuilt' = rebuilt
      /\ healthAttempts' = healthAttempts /\ probePending' = probePending /\ healthTimer' = healthTimer
  BY DEF quotaVars, healthVars
<1>2. TypeOK' /\ Counted'
  BY <1>1 DEF IInv, TypeOK, Counted
<1>3. Owned'
  BY <1>1 DEF IInv, Owned
<1>4. NeverAbandoned'
  <2>1. host[Main] # "ready" => ~dead[Main] /\ ~rebuildTimer
    BY DEF IInv, Owned, NeverAbandoned
  <2>2. CASE host[Main] = "ready"
    <3>1. ~rebuilding
      BY <2>2 DEF IInv, NeverAbandoned, BeingCreated
    <3> QED BY <1>1, <2>2, <3>1 DEF IInv, NeverAbandoned, BeingCreated, Rescued
  <2>3. CASE host[Main] # "ready"
    <3>1. rebuilding => host[Main] # "none"
      BY DEF IInv, NeverAbandoned, BeingCreated
    <3> QED BY <1>1, <2>1, <2>3, <3>1 DEF NeverAbandoned, Ended
  <2> QED BY <2>2, <2>3
<1> QED BY <1>2, <1>3, <1>4 DEF IInv

LEMMA InitSafe == Init => IInv
<1> SUFFICES ASSUME Init PROVE IInv
  OBVIOUS
<1> USE RecoveryAssumption DEF Init, EnvironmentInit
<1>1. EnvironmentTypeOK /\ Waiters
  BY DEF EnvironmentTypeOK, Waiters
<1>2. TypeOK
  <2>1. attempts \in 0..RebuildLimit /\ healthAttempts \in 0..HealthLimit
    OBVIOUS
  <2> QED BY <1>1, <2>1 DEF TypeOK
<1>3. Owned /\ Counted /\ NeverAbandoned
  BY DEF Owned, Counted, NeverAbandoned
<1> QED BY <1>1, <1>2, <1>3 DEF IInv

(* A window opens.                                                         *)
LEMMA OpensSafe ==
  ASSUME IInv, NEW w \in Window, Opens(w)
  PROVE  IInv'
<1> USE RecoveryAssumption
<1>1. ready \in BOOLEAN
  BY DEF IInv, TypeOK, EnvironmentTypeOK
<1>2. /\ EnvironmentTypeOK' /\ Waiters'
      /\ BeingCreated(w)' \/ host'[w] \in Ended
      /\ host'[w] \in {"environment", "controller"} \cup Ended /\ reports'[w] = {}
      /\ creating => creating' /\ waiting \subseteq waiting'
      /\ \A v \in Window \ {w} :
           host'[v] = host[v] /\ live'[v] = live[v] /\ reports'[v] = reports[v]
  <2>1. Initialize(w, ready) /\ host[w] # "environment"
    BY DEF Opens
  <2> QED BY <1>1, <2>1, InitializeSafe DEF IInv, TypeOK
<1>3. \A v \in Window : reports'[v] # {} => host'[v] = "ready"
  BY <1>2 DEF IInv, Owned
<1>4. host[Main] = "ready" =>
        host'[Main] = "ready" /\ live'[Main] = live[Main] /\ reports'[Main] = reports[Main]
  BY <1>2 DEF Opens
<1>5. host[Main] # "ready" =>
        \/ host[Main] = "none" /\ host'[Main] = "none"
        \/ BeingCreated(Main)' \/ host'[Main] \in Ended
  <2>1. CASE w = Main
    BY <1>2, <2>1
  <2>2. CASE w # Main
    BY <1>2, <2>2 DEF IInv, NeverAbandoned, BeingCreated, Ended
  <2> QED BY <2>1, <2>2
<1>6. rebuilding' = StillRebuilding(rebuilding) /\ UNCHANGED <<quotaVars, healthVars>> /\ dead' = dead
  BY DEF Opens
<1> QED BY <1>2, <1>3, <1>4, <1>5, <1>6, HostStepSafe DEF IInv, TypeOK, StillRebuilding

(* A popup or panel closes.                                                *)
LEMMA ClosesSafe ==
  ASSUME IInv, NEW w \in Window, Closes(w)
  PROVE  IInv'
<1> USE RecoveryAssumption
<1>1. /\ host' \in [Window -> Stage] /\ live' \in [Window -> BOOLEAN]
      /\ reports' \in [Window -> SUBSET Kind]
      /\ host'[w] = "none" /\ reports'[w] = {}
      /\ \A v \in Window \ {w} :
           host'[v] = host[v] /\ live'[v] = live[v] /\ reports'[v] = reports[v]
      /\ waiting' = waiting \ {w} /\ UNCHANGED <<ready, creating, envLive>>
  BY DEF IInv, TypeOK, EnvironmentTypeOK, Closes, Destroy, Moved, Attached, Stage
<1>2. EnvironmentTypeOK' /\ Waiters'
  BY <1>1 DEF IInv, TypeOK, EnvironmentTypeOK, Waiters, Stage
<1>3. /\ \A v \in Window : reports'[v] # {} => host'[v] = "ready"
      /\ host'[Main] = host[Main] /\ live'[Main] = live[Main] /\ reports'[Main] = reports[Main]
      /\ BeingCreated(Main) => BeingCreated(Main)'
  BY <1>1 DEF IInv, Owned, Closes, BeingCreated
<1>4. /\ dead' \in [Window -> BOOLEAN] /\ dead'[Main] = dead[Main] /\ rebuilding' = rebuilding
      /\ UNCHANGED <<quotaVars, healthVars>>
  BY DEF IInv, TypeOK, Closes
<1>5. rebuilding => host'[Main] \notin {"ready", "failed"}
  BY <1>3 DEF IInv, NeverAbandoned, BeingCreated
<1>6. host[Main] # "ready" =>
        \/ host[Main] = "none" /\ host'[Main] = "none"
        \/ BeingCreated(Main)' \/ host'[Main] \in Ended
  BY <1>3 DEF IInv, NeverAbandoned, Ended
<1> QED BY <1>2, <1>3, <1>4, <1>5, <1>6, HostStepSafe DEF IInv, TypeOK
(* Completions of creations.                                               *)
LEMMA PreheatsSafe ==
  ASSUME IInv, Preheats
  PROVE  IInv'
<1> USE RecoveryAssumption
<1>1. waiting = {}
  BY DEF IInv, Waiters, Preheats, Preheat
<1>2. host' = host /\ live' = live /\ reports' = reports
  <2>1. (host' = host /\ live' = live /\ reports' = reports) \/ Moved({}, "failed", FALSE)
    BY <1>1 DEF Preheats, Preheat, DrainPendingCallbacksOnFailure, hostVars
  <2>2. ASSUME Moved({}, "failed", FALSE) PROVE host' = host /\ live' = live /\ reports' = reports
    BY <2>2 DEF Moved, Attached, IInv, TypeOK, EnvironmentTypeOK
  <2> QED BY <2>1, <2>2
<1>3. waiting' = {} /\ ready' = ready /\ envLive' = envLive /\ creating' \in BOOLEAN /\ ~ready /\ ~creating
  BY <1>1 DEF Preheats, Preheat, DrainPendingCallbacksOnFailure
<1>4. EnvironmentTypeOK' /\ Waiters'
  BY <1>1, <1>2, <1>3 DEF IInv, TypeOK, EnvironmentTypeOK, Waiters
<1>5. rebuilding' = StillRebuilding(rebuilding) /\ dead' = dead /\ UNCHANGED <<quotaVars, healthVars>>
  BY DEF Preheats
<1>6. host[Main] # "ready" => host[Main] \in {"none"} \cup Ended \/ BeingCreated(Main)'
  BY <1>1, <1>2, <1>3 DEF IInv, NeverAbandoned, BeingCreated, Ended
<1> QED BY <1>2, <1>4, <1>5, <1>6, HostStepSafe DEF IInv, TypeOK, Owned, StillRebuilding

LEMMA EnvironmentCreatedSafe ==
  ASSUME IInv, EnvironmentCreated
  PROVE  IInv'
<1> USE RecoveryAssumption
<1>1. /\ host' \in [Window -> Stage] /\ live' \in [Window -> BOOLEAN]
      /\ reports' \in [Window -> SUBSET Kind]
      /\ \A w \in waiting : host'[w] \in {"controller"} \cup Ended /\ reports'[w] = {}
      /\ \A w \in Window \ waiting :
           host'[w] = host[w] /\ live'[w] = live[w] /\ reports'[w] = reports[w]
  <2>1. CreateControllers(waiting, TRUE) \/ Moved(waiting, "failed", FALSE)
    BY DEF EnvironmentCreated, EnvironmentCompleted, DrainPendingCallbacksOnFailure
  <2>2. waiting \in SUBSET Window
    BY DEF IInv, TypeOK, EnvironmentTypeOK
  <2>3. CASE CreateControllers(waiting, TRUE)
    <3>1. PICK accepted \in SUBSET waiting :
            host' = [w \in Window |-> CASE w \in accepted -> "controller"
                                        [] w \in waiting \ accepted -> "refused"
                                        [] OTHER -> host[w]]
      BY <2>3 DEF CreateControllers
    <3>2. \A w \in Window :
            host'[w] = IF w \in accepted THEN "controller"
                       ELSE IF w \in waiting THEN "refused" ELSE host[w]
      BY <3>1
    <3>3. host' \in [Window -> Stage]
      <4>1. \A w \in Window : host'[w] \in Stage
        BY <3>2 DEF IInv, TypeOK, EnvironmentTypeOK, Stage
      <4> QED BY <3>1, <4>1
    <3> QED BY <2>2, <2>3, <3>2, <3>3 DEF CreateControllers, Attached, IInv, TypeOK,
               EnvironmentTypeOK, Ended
  <2>4. CASE Moved(waiting, "failed", FALSE)
    BY <2>2, <2>4 DEF Moved, Attached, IInv, TypeOK, EnvironmentTypeOK, Stage, Ended
  <2> QED BY <2>1, <2>3, <2>4
<1>2. /\ creating' = FALSE /\ waiting' = {}
      /\ ready' \in BOOLEAN /\ envLive' \in BOOLEAN
  BY DEF IInv, TypeOK, EnvironmentTypeOK, EnvironmentCreated, EnvironmentCompleted,
         DrainPendingCallbacksOnFailure
<1>3. EnvironmentTypeOK' /\ Waiters'
  BY <1>1, <1>2 DEF IInv, Waiters, EnvironmentTypeOK, Stage, Ended
<1>4. \A w \in Window : reports'[w] # {} => host'[w] = "ready"
  BY <1>1 DEF IInv, Owned
<1>5. host[Main] = "ready" =>
        host'[Main] = "ready" /\ live'[Main] = live[Main] /\ reports'[Main] = reports[Main]
  BY <1>1 DEF IInv, Waiters
<1>6. host[Main] # "ready" =>
        \/ host[Main] = "none" /\ host'[Main] = "none"
        \/ BeingCreated(Main)' \/ host'[Main] \in Ended
  BY <1>1 DEF IInv, Waiters, NeverAbandoned, BeingCreated, Ended
<1>7. rebuilding' = StillRebuilding(rebuilding) /\ dead' = dead /\ UNCHANGED <<quotaVars, healthVars>>
  BY DEF EnvironmentCreated
<1> QED BY <1>3, <1>4, <1>5, <1>6, <1>7, HostStepSafe DEF IInv, TypeOK, StillRebuilding

LEMMA ControllerCreatedSafe ==
  ASSUME IInv, NEW w \in Window, ControllerCreated(w)
  PROVE  IInv'
<1> USE RecoveryAssumption
<1>1. /\ host' \in [Window -> Stage] /\ live' \in [Window -> BOOLEAN]
      /\ reports' \in [Window -> SUBSET Kind]
      /\ (host'[w] = "ready" /\ live'[w]) \/ host'[w] = "failed"
      /\ host[w] = "controller" /\ reports'[w] = {}
      /\ \A v \in Window \ {w} :
           host'[v] = host[v] /\ live'[v] = live[v] /\ reports'[v] = reports[v]
  BY DEF IInv, TypeOK, EnvironmentTypeOK, ControllerCreated, ControllerCompleted, Moved, Attached, Stage
<1>2. ready' = ready /\ creating' = creating /\ waiting' = waiting /\ envLive' = envLive
  BY DEF ControllerCreated, ControllerCompleted, envVars
<1>3. EnvironmentTypeOK' /\ Waiters'
  BY <1>1, <1>2 DEF IInv, TypeOK, EnvironmentTypeOK, Waiters, Stage
<1>4. \A v \in Window : reports'[v] # {} => host'[v] = "ready"
  BY <1>1 DEF IInv, Owned
<1>5. host[Main] = "ready" =>
        host'[Main] = "ready" /\ live'[Main] = live[Main] /\ reports'[Main] = reports[Main]
  BY <1>1
<1>6. host[Main] # "ready" =>
        \/ host[Main] = "none" /\ host'[Main] = "none"
        \/ BeingCreated(Main)' \/ host'[Main] \in Ended
        \/ host'[Main] = "ready" /\ live'[Main]
  BY <1>1, <1>2 DEF IInv, NeverAbandoned, BeingCreated, Ended
<1>7. rebuilding' = StillRebuilding(rebuilding) /\ dead' = dead /\ UNCHANGED <<quotaVars, healthVars>>
  BY DEF ControllerCreated
<1> QED BY <1>3, <1>4, <1>5, <1>6, <1>7, HostStepSafe DEF IInv, TypeOK, StillRebuilding
-----------------------------------------------------------------------------
(* Exits and their reports.                                                *)
LEMMA DeathsSafe ==
  ASSUME IInv, BrowserDies \/ \E w \in Window : RenderDies(w)
  PROVE  IInv'
<1> USE RecoveryAssumption
<1>1. /\ ready' = ready /\ creating' = creating /\ waiting' = waiting /\ host' = host
      /\ dead' = dead /\ rebuilding' = rebuilding /\ UNCHANGED <<quotaVars, healthVars>>
      /\ envLive' \in BOOLEAN /\ live' \in [Window -> BOOLEAN] /\ reports' \in [Window -> SUBSET Kind]
  <2>1. live \in [Window -> BOOLEAN] /\ reports \in [Window -> SUBSET Kind] /\ envLive \in BOOLEAN
    BY DEF IInv, TypeOK, EnvironmentTypeOK
  <2>2. CASE BrowserDies
    BY <2>1, <2>2 DEF BrowserDies, BrowserExits, Kind
  <2>3. ASSUME NEW w \in Window, RenderDies(w) PROVE <1>1!:
    <3>1. reports' \in [Window -> SUBSET Kind]
      BY <2>1, <2>3 DEF RenderDies, RenderFails, Kind
    <3> QED BY <2>1, <2>3, <3>1 DEF RenderDies, RenderFails, envVars
  <2> QED BY <2>2, <2>3
<1>2. \A w \in Window :
        /\ reports'[w] # {} => host[w] = "ready"
        /\ "browser" \in reports[w] => "browser" \in reports'[w]
        /\ host[w] = "ready" /\ live[w] => live'[w] \/ "browser" \in reports'[w]
  BY DEF BrowserDies, BrowserExits, RenderDies, RenderFails, IInv, Owned, TypeOK, EnvironmentTypeOK
<1>3. /\ attempts' = attempts /\ expired' = expired /\ rebuildTimer' = rebuildTimer /\ rebuilt' = rebuilt
      /\ healthAttempts' = healthAttempts /\ probePending' = probePending /\ healthTimer' = healthTimer
  BY <1>1 DEF quotaVars, healthVars
<1>4. TypeOK' /\ Waiters' /\ Counted'
  BY <1>1, <1>3 DEF IInv, TypeOK, EnvironmentTypeOK, Waiters, Counted
<1>5. Owned' /\ NeverAbandoned'
  BY <1>1, <1>2, <1>3 DEF IInv, Owned, NeverAbandoned, BeingCreated, Rescued
<1> QED BY <1>4, <1>5 DEF IInv

(* A report taken from a finished host either changes nothing more, or     *)
(* marks its window dead and, for the main window, schedules a rebuild.    *)
LEMMA ReportSafe ==
  ASSUME IInv, NEW w \in Window, NEW kind \in reports[w],
         reports' = [reports EXCEPT ![w] = @ \ {kind}],
         ready' \in BOOLEAN, ready' => ready,
         UNCHANGED <<creating, waiting, envLive, host, live, rebuilding, healthVars>>,
         \/ kind # "browser" /\ UNCHANGED <<dead, quotaVars>>
         \/ MarkedDead(w)
  PROVE  IInv'
<1> USE RecoveryAssumption
<1>1. host[w] = "ready" /\ kind \in Kind
  BY DEF IInv, Owned, TypeOK, EnvironmentTypeOK
<1>2. /\ creating' = creating /\ waiting' = waiting /\ envLive' = envLive /\ host' = host /\ live' = live
      /\ rebuilding' = rebuilding
      /\ healthAttempts' = healthAttempts /\ probePending' = probePending /\ healthTimer' = healthTimer
  BY DEF healthVars
<1>3. /\ reports' \in [Window -> SUBSET Kind]
      /\ \A v \in Window : reports'[v] # {} => host[v] = "ready"
      /\ \A v \in Window : v # w \/ kind # "browser" =>
           ("browser" \in reports[v] => "browser" \in reports'[v])
  BY DEF IInv, TypeOK, EnvironmentTypeOK, Owned
<1>4. EnvironmentTypeOK' /\ Waiters'
  BY <1>2, <1>3 DEF IInv, TypeOK, EnvironmentTypeOK, Waiters
<1>5. host[Main] = "ready" => ~rebuilding
  BY DEF IInv, NeverAbandoned, BeingCreated
<1>6. CASE \/ kind # "browser" /\ UNCHANGED <<dead, quotaVars>>
           \/ w # Main /\ MarkedDead(w)
  <2>1. /\ dead' \in [Window -> BOOLEAN] /\ dead'[Main] = dead[Main]
        /\ attempts' = attempts /\ expired' = expired /\ rebuildTimer' = rebuildTimer /\ rebuilt' = rebuilt
        /\ "browser" \in reports[Main] => "browser" \in reports'[Main]
    BY <1>3, <1>6 DEF MarkedDead, quotaVars, IInv, TypeOK
  <2>2. TypeOK' /\ Counted'
    BY <1>2, <1>4, <2>1 DEF IInv, TypeOK, Counted
  <2>3. Owned' /\ NeverAbandoned'
    BY <1>2, <1>3, <2>1 DEF IInv, Owned, NeverAbandoned, BeingCreated, Rescued
  <2> QED BY <1>4, <2>2, <2>3 DEF IInv
<1>7. CASE w = Main /\ MarkedDead(w)
  <2>1. dead' \in [Window -> BOOLEAN] /\ dead'[Main]
    BY <1>7 DEF MarkedDead, IInv, TypeOK
  <2>2. /\ attempts' \in 0..RebuildLimit /\ rebuilt' \in Nat
        /\ expired' \in BOOLEAN /\ rebuildTimer' \in BOOLEAN
        /\ Counted' /\ Rescued'
    BY <1>1, <1>5, <1>7, ScheduleSafe DEF MarkedDead, IInv
  <2>3. TypeOK'
    BY <1>2, <1>4, <2>1, <2>2 DEF IInv, TypeOK
  <2>4. Owned' /\ NeverAbandoned'
    BY <1>1, <1>2, <1>3, <1>5, <1>7, <2>1, <2>2 DEF IInv, Owned, NeverAbandoned
  <2> QED BY <1>4, <2>2, <2>3, <2>4 DEF IInv
<1> QED BY <1>6, <1>7

LEMMA ProcessFailedSafe ==
  ASSUME IInv, NEW w \in Window, RenderProcessFailed(w) \/ BrowserProcessFailed(w)
  PROVE  IInv'
<1>1. CASE RenderProcessFailed(w)
  <2>1. ready' = ready /\ ready \in BOOLEAN
    BY <1>1 DEF RenderProcessFailed, envVars, IInv, TypeOK, EnvironmentTypeOK
  <2>2. UNCHANGED <<creating, waiting, envLive, host, live, rebuilding, healthVars>>
    BY <1>1 DEF RenderProcessFailed, envVars
  <2> QED BY <1>1, <2>1, <2>2, ReportSafe DEF RenderProcessFailed
<1>2. CASE BrowserProcessFailed(w)
  <2>1. ready' = FALSE /\ UNCHANGED <<creating, waiting, envLive, host, live, rebuilding, healthVars>>
    BY <1>2 DEF BrowserProcessFailed, Invalidate
  <2> QED BY <1>2, <2>1, ReportSafe DEF BrowserProcessFailed
<1> QED BY <1>1, <1>2
-----------------------------------------------------------------------------
(* The main window's timers, restores and retries.                         *)
LEMMA TimersSafe ==
  ASSUME IInv, RebuildTimerFires \/ WindowOfTimeEnds \/ UserRetries
  PROVE  IInv'
<1> USE RecoveryAssumption
<1>1. CASE RebuildTimerFires
  <2>1. dead[Main] /\ host[Main] = "ready" /\ rebuilt < attempts /\ ready \in BOOLEAN
    BY <1>1 DEF RebuildTimerFires, IInv, NeverAbandoned, Owned, Counted, TypeOK, EnvironmentTypeOK
  <2>2. RebuildWebView(ready) /\ rebuilt' = rebuilt + 1 /\ UNCHANGED <<attempts, expired>>
    BY <1>1, <2>1 DEF RebuildTimerFires
  <2>3. rebuilt' \in Nat /\ rebuilt' <= attempts
    BY <2>1, <2>2 DEF IInv, TypeOK
  <2> QED BY <2>1, <2>2, <2>3, RebuildSafe
<1>2. CASE WindowOfTimeEnds
  <2>1. /\ expired' \in BOOLEAN
        /\ UNCHANGED <<ready, creating, waiting, envLive, host, live, reports, dead, rebuilding,
                       attempts, rebuildTimer, rebuilt, healthAttempts, probePending, healthTimer>>
    BY <1>2 DEF WindowOfTimeEnds, envVars, hostVars, healthVars
  <2>2. TypeOK' /\ Waiters' /\ Counted'
    BY <2>1 DEF IInv, TypeOK, EnvironmentTypeOK, Waiters, Counted
  <2>3. Owned' /\ NeverAbandoned'
    BY <2>1 DEF IInv, Owned, NeverAbandoned, BeingCreated, Rescued
  <2> QED BY <2>2, <2>3 DEF IInv
<1>3. CASE UserRetries
  <2>1. /\ host[Main] # "environment" /\ RebuildWebView(FALSE)
        /\ UNCHANGED <<attempts, expired>> /\ rebuilt' = rebuilt
    BY <1>3 DEF UserRetries
  <2>2. rebuilt' \in Nat /\ rebuilt' <= attempts
    BY <2>1 DEF IInv, TypeOK, Counted
  <2> QED BY <2>1, <2>2, RebuildSafe
<1> QED BY <1>1, <1>2, <1>3

\* A step of the health check alone, or of a schedule for a dead window.
LEMMA HealthStepSafe ==
  ASSUME IInv, host[Main] = "ready",
         UNCHANGED <<envVars, hostVars, dead, rebuilding>>,
         healthAttempts' \in 0..HealthLimit, probePending' \in BOOLEAN, healthTimer' \in BOOLEAN,
         UNCHANGED quotaVars \/ (dead[Main] /\ ScheduleProcessDeadRebuild)
  PROVE  IInv'
<1> USE RecoveryAssumption
<1>1. /\ ready' = ready /\ creating' = creating /\ waiting' = waiting /\ envLive' = envLive
      /\ host' = host /\ live' = live /\ reports' = reports /\ dead' = dead /\ rebuilding' = rebuilding
  BY DEF envVars, hostVars
<1>2. ~rebuilding
  BY DEF IInv, NeverAbandoned, BeingCreated
<1>3. /\ attempts' \in 0..RebuildLimit /\ rebuilt' \in Nat
      /\ expired' \in BOOLEAN /\ rebuildTimer' \in BOOLEAN
      /\ Counted'
      /\ (dead[Main] => Rescued') /\ (rebuildTimer' => dead[Main])
  <2>1. CASE UNCHANGED quotaVars
    <3>1. attempts' = attempts /\ expired' = expired /\ rebuildTimer' = rebuildTimer /\ rebuilt' = rebuilt
      BY <2>1 DEF quotaVars
    <3> QED BY <3>1 DEF IInv, TypeOK, Counted, NeverAbandoned, BeingCreated, Rescued
  <2>2. CASE dead[Main] /\ ScheduleProcessDeadRebuild
    BY <1>2, <2>2, ScheduleSafe DEF IInv
  <2> QED BY <2>1, <2>2
<1>4. TypeOK' /\ Waiters'
  BY <1>1, <1>3 DEF IInv, TypeOK, EnvironmentTypeOK, Waiters
<1>5. Owned' /\ NeverAbandoned'
  BY <1>1, <1>2, <1>3 DEF IInv, Owned, NeverAbandoned, BeingCreated
<1> QED BY <1>3, <1>4, <1>5 DEF IInv

LEMMA HealthSafe ==
  ASSUME IInv,
         \/ RestoreSurfaceAfterHidden \/ HealthTimerFires
         \/ \E healthy \in BOOLEAN : PageAnswers(healthy)
  PROVE  IInv'
<1> USE RecoveryAssumption
<1>1. /\ healthAttempts \in 0..HealthLimit /\ probePending \in BOOLEAN /\ healthTimer \in BOOLEAN
      /\ 0 \in 0..HealthLimit /\ ready \in BOOLEAN
  BY DEF IInv, TypeOK, EnvironmentTypeOK
<1>2. healthTimer \/ probePending => host[Main] = "ready"
  BY DEF IInv, Owned
<1>3. CASE RestoreSurfaceAfterHidden
  <2>1. /\ host[Main] = "ready" /\ UNCHANGED <<envVars, hostVars, dead, rebuilding>>
        /\ healthAttempts' \in 0..HealthLimit /\ probePending' \in BOOLEAN /\ healthTimer' \in BOOLEAN
    BY <1>1, <1>3 DEF RestoreSurfaceAfterHidden, healthVars
  <2>2. UNCHANGED quotaVars \/ (dead[Main] /\ ScheduleProcessDeadRebuild)
    BY <1>3 DEF RestoreSurfaceAfterHidden, quotaVars
  <2> QED BY <2>1, <2>2, HealthStepSafe
<1>4. ASSUME NEW healthy \in BOOLEAN, HandleRestoredPageHealthResult(healthy), host[Main] = "ready"
      PROVE  IInv'
  <2>1. CASE /\ UNCHANGED <<envVars, hostVars, dead, rebuilding, rebuildTimer, attempts, expired, rebuilt>>
             /\ probePending' = FALSE /\ healthTimer' \in BOOLEAN
             /\ \/ healthAttempts' = 0
                \/ healthAttempts < HealthLimit /\ healthAttempts' = healthAttempts + 1
    <3>1. UNCHANGED <<envVars, hostVars, dead, rebuilding>>
      BY <2>1
    <3>2. UNCHANGED quotaVars \/ (dead[Main] /\ ScheduleProcessDeadRebuild)
      BY <2>1 DEF quotaVars
    <3>3. healthAttempts' = 0 \/ (healthAttempts < HealthLimit /\ healthAttempts' = healthAttempts + 1)
      BY <2>1
    <3>4. healthAttempts' \in 0..HealthLimit
      BY <1>1, <3>3
    <3>5. probePending' \in BOOLEAN /\ healthTimer' \in BOOLEAN
      BY <2>1
    <3> QED BY <1>4, <3>1, <3>2, <3>4, <3>5, HealthStepSafe
  <2>2. CASE RebuildWebView(ready) /\ UNCHANGED <<attempts, expired, rebuilt>>
    <3>1. host[Main] # "environment" /\ rebuilt' \in Nat /\ rebuilt' <= attempts
      BY <1>4, <2>2 DEF IInv, TypeOK, Counted
    <3> QED BY <1>1, <2>2, <3>1, RebuildSafe
  <2> QED BY <1>4, <2>1, <2>2 DEF HandleRestoredPageHealthResult
<1>5. CASE HealthTimerFires
  <2>1. host[Main] = "ready"
    BY <1>2, <1>5 DEF HealthTimerFires
  <2>2. CASE /\ UNCHANGED <<envVars, hostVars, dead, rebuilding, quotaVars, healthAttempts>>
             /\ probePending' \in BOOLEAN /\ healthTimer' \in BOOLEAN
    <3>1. UNCHANGED <<envVars, hostVars, dead, rebuilding>>
      BY <2>2
    <3>2. UNCHANGED quotaVars \/ (dead[Main] /\ ScheduleProcessDeadRebuild)
      BY <2>2 DEF quotaVars
    <3>3. healthAttempts' \in 0..HealthLimit
      BY <1>1, <2>2 DEF quotaVars
    <3> QED BY <2>1, <2>2, <3>1, <3>2, <3>3, HealthStepSafe
  <2>3. CASE HandleRestoredPageHealthResult(FALSE)
    BY <1>4, <2>1, <2>3
  <2> QED BY <1>1, <1>5, <2>2, <2>3 DEF HealthTimerFires
<1>6. ASSUME NEW healthy \in BOOLEAN, PageAnswers(healthy) PROVE IInv'
  BY <1>2, <1>4, <1>6 DEF PageAnswers
<1> QED BY <1>3, <1>5, <1>6

-----------------------------------------------------------------------------
LEMMA StepSafe == IInv /\ [Next]_vars => IInv'
<1> SUFFICES ASSUME IInv, [Next]_vars PROVE IInv'
  OBVIOUS
<1>1. ASSUME NEW w \in Window,
             \/ Opens(w) \/ Closes(w) \/ ControllerCreated(w)
             \/ RenderProcessFailed(w) \/ BrowserProcessFailed(w)
      PROVE  IInv'
  BY <1>1, OpensSafe, ClosesSafe, ControllerCreatedSafe, ProcessFailedSafe
<1>2. CASE Preheats \/ EnvironmentCreated
  BY <1>2, PreheatsSafe, EnvironmentCreatedSafe
<1>3. CASE BrowserDies \/ \E w \in Window : RenderDies(w)
  BY <1>3, DeathsSafe
<1>4. CASE RebuildTimerFires \/ WindowOfTimeEnds \/ UserRetries
  BY <1>4, TimersSafe
<1>5. CASE \/ RestoreSurfaceAfterHidden \/ HealthTimerFires
           \/ \E healthy \in BOOLEAN : PageAnswers(healthy)
  BY <1>5, HealthSafe
<1>6. CASE UNCHANGED vars
  <2>1. UNCHANGED <<ready, creating, waiting, envLive, host, live, reports, dead, rebuilding, attempts,
                    expired, rebuildTimer, rebuilt, healthAttempts, probePending, healthTimer>>
    BY <1>6 DEF vars, envVars, hostVars, quotaVars, healthVars
  <2>2. TypeOK' /\ Waiters' /\ Counted'
    BY <2>1 DEF IInv, TypeOK, EnvironmentTypeOK, Waiters, Counted
  <2>3. Owned' /\ NeverAbandoned'
    BY <2>1 DEF IInv, Owned, NeverAbandoned, BeingCreated, Rescued
  <2> QED BY <2>2, <2>3 DEF IInv
<1> QED BY <1>1, <1>2, <1>3, <1>4, <1>5, <1>6 DEF Next

LEMMA IInvAlways == Spec => []IInv
BY InitSafe, StepSafe, PTL DEF Spec

(* The main window is never given up silently (OnWebViewProcessFailed,     *)
(* OnWebViewInitFailed, RebuildWebViewAfterHealthFailure), whatever the    *)
(* number of windows that share the environment and the two limits.        *)
THEOREM NeverAbandonedAlways == Spec => []NeverAbandoned
<1>1. IInv => NeverAbandoned
  BY DEF IInv
<1> QED BY <1>1, IInvAlways, PTL

(* One window of time sees at most RebuildLimit crash rebuilds (Decide-    *)
(* BrowserExitRebuild), whatever its value.                                *)
THEOREM QuotaKeptAlways == Spec => []QuotaKept
<1>1. IInv => QuotaKept
  BY RecoveryAssumption DEF IInv, TypeOK, Counted, QuotaKept
<1> QED BY <1>1, IInvAlways, PTL
=============================================================================
