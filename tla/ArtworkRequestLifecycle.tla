----------------------- MODULE ArtworkRequestLifecycle -----------------------
(***************************************************************************)
(* Which document asked, and may it still be answered: class               *)
(* ArtworkRequestLifecycle.  Its methods each hold one lock, and its       *)
(* callers are all on the main thread.  The registration tokens it counts  *)
(* decide nothing and are left out, and so are OnControllerRecreated and   *)
(* OnControllerRecovery, which only the tests call.                        *)
(***************************************************************************)
EXTENDS Naturals

CONSTANTS
  MaxRequest,     \* bound: requests ever captured
  MaxNavigation   \* bound: navigations of one host

ASSUME LifecycleAssumption == MaxRequest \in Nat /\ MaxNavigation \in Nat

Request == 1..MaxRequest

VARIABLES
  navigationGeneration,  \* navigationGeneration_
  hostGeneration,        \* hostGeneration_
  alive, closing,        \* alive_, closing_
  capture,               \* requests_[r].capture, NoCapture when there is none
  terminal               \* requests_[r].terminalReason

lifecycleVars ==
  <<navigationGeneration, hostGeneration, alive, closing, capture, terminal>>

Capture == [nav : 0..MaxNavigation, host : 0..2]
NoCapture == [nav |-> 0, host |-> 0]
Reason == {"Completed", "NavigationSuperseded", "HostSuperseded", "HostClosed"}

LifecycleTypeOK ==
  /\ navigationGeneration \in 0..MaxNavigation
  /\ hostGeneration \in 0..2
  /\ alive \in BOOLEAN /\ closing \in BOOLEAN
  /\ capture \in [Request -> Capture]
  /\ terminal \in [Request -> Reason \cup {"none"}]

LifecycleInit ==
  /\ navigationGeneration = 0 /\ hostGeneration = 0
  /\ alive = FALSE /\ closing = FALSE
  /\ capture = [r \in Request |-> NoCapture]
  /\ terminal = [r \in Request |-> "none"]

Now == [nav |-> navigationGeneration, host |-> hostGeneration]
CanAccessHost == alive /\ ~closing

OnNavigationStarting ==
  /\ navigationGeneration' =
       IF CanAccessHost THEN navigationGeneration + 1 ELSE navigationGeneration
  /\ UNCHANGED <<hostGeneration, alive, closing, capture, terminal>>

OnControllerCreated ==
  /\ hostGeneration' = IF closing THEN hostGeneration ELSE hostGeneration + 1
  /\ alive' = (alive \/ ~closing)
  /\ UNCHANGED <<navigationGeneration, closing, capture, terminal>>

OnClose ==
  /\ hostGeneration' = IF closing THEN hostGeneration ELSE hostGeneration + 1
  /\ closing' = TRUE /\ alive' = FALSE
  /\ UNCHANGED <<navigationGeneration, capture, terminal>>

(* CaptureRequest, which yields nothing unless CanAccessHost.              *)
CaptureRequest(r) ==
  /\ CanAccessHost
  /\ capture' = [capture EXCEPT ![r] = Now]

TerminalReason(r) ==
  CASE ~CanAccessHost -> "HostClosed"
    [] CanAccessHost /\ capture[r].host # hostGeneration -> "HostSuperseded"
    [] CanAccessHost /\ capture[r].host = hostGeneration
         /\ capture[r].nav # navigationGeneration -> "NavigationSuperseded"
    [] OTHER -> "Completed"

(* Complete: the first call of a request settles its reason, and only a    *)
(* first call for a current document is accepted.                          *)
Complete(r) ==
  terminal' = [terminal EXCEPT ![r] = IF @ = "none" THEN TerminalReason(r) ELSE @]
(* Mutant of IsAccepted: the document is not compared.                     *)
IsAcceptedAnyway(r) == terminal[r] = "none"
IsAccepted(r) == terminal[r] = "none" /\ TerminalReason(r) = "Completed"
=============================================================================
