SPECIFICATION Spec
CONSTANTS
  k1 = k1
  k2 = k2
  hPanel = hPanel
  hPopup = hPopup
  wMain = wMain
  wPopup = wPopup
  NoKey = NoKey
  NoHwnd = NoHwnd
  NoWindow = NoWindow
  Key <- MCKey
  Hwnd <- MCHwnd
  WindowId <- MCWindowId
  Popup <- MCPopup
  PageOf <- MCPageOf
  MaxTask = 3
  MaxJob = 3
  MaxConcurrent = 1
  MaxDoc <- MCMaxDoc
INVARIANTS TypeOK NeverClosedUnderWriter OneOpenBuffer SlotWillBeFreed
PROPERTIES StartsInOrder ContractSpec EveryTaskSettles
\* requests are bounded, so the model comes to rest after OnQuit
CHECK_DEADLOCK FALSE
