------------------------------ MODULE MCPcmJobs ------------------------------
(***************************************************************************)
(* One slot, as in GetPcmJobs; a panel that may reload and a popup.        *)
(***************************************************************************)
EXTENDS PcmJobs

CONSTANTS k1, k2, hPanel, hPopup, wMain, wPopup

MCKey == {k1, k2}
MCHwnd == {hPanel, hPopup}
MCWindowId == {wMain, wPopup}
MCPopup == {wPopup}
MCPageOf == [h \in MCHwnd |-> IF h = hPopup THEN wPopup ELSE wMain]
MCMaxDoc == [h \in MCHwnd |-> IF h = hPanel THEN 2 ELSE 1]
=============================================================================
