SPECIFICATION Spec
CONSTANTS
  k1 = k1
  k2 = k2
  hPopup = hPopup
  wMain = wMain
  wPopup = wPopup
  NoKey = NoKey
  NoHwnd = NoHwnd
  NoWindow = NoWindow
  Key <- MCKey
  Hwnd <- MCHwnd
  WindowId <- MCWindowId
  Popup <- MCPopup
  Caller <- MCCaller
  MaxTask = 3
  MaxJob = 3
  MaxConcurrent = 2
  MaxCached = 1
INVARIANTS TypeOK IndexesExact SlotsRespected RecordsFollowQueue PendingReachable
PROPERTIES AbortingIsSealed CancelledOnlyIfAsked ContractSpec EveryTaskSettles
\* requests are bounded, so the model comes to rest after OnQuit
CHECK_DEADLOCK FALSE
