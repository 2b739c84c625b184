-------------------------- MODULE MCCrashRecovery --------------------------
(***************************************************************************)
(* The main window and a popup on one environment, with the code's own     *)
(* limits: the popup wants environments and reports exits at any time of   *)
(* the main window's recovery.  Nothing else has to be bounded.            *)
(***************************************************************************)
EXTENDS CrashRecovery

CONSTANTS main, popup
MCWindow == {main, popup}
=============================================================================
