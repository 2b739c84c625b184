--------------------------- MODULE MCWaveformJobs ---------------------------
(***************************************************************************)
(* Two tracks and two slots; the page of a popup, and a caller without     *)
(* routing context, whose requests anyone may cancel.                      *)
(***************************************************************************)
EXTENDS WaveformJobs

CONSTANTS k1, k2, hPopup, wMain, wPopup

MCKey == {k1, k2}
MCHwnd == {hPopup}
MCWindowId == {wMain, wPopup}
MCPopup == {wPopup}
MCCaller == {[hwnd |-> hPopup, windowId |-> wPopup],
             [hwnd |-> NoHwnd, windowId |-> NoWindow]}
=============================================================================
