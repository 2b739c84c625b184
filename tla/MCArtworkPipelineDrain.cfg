SPECIFICATION Spec
CONSTANTS
  k1 = k1
  k2 = k2
  Key <- MCKey
  NoKey = NoKey
  MaxRequest = 3
  MaxQueueDepth = 1
  MaxNavigation = 2
INVARIANT NoneForgotten
\* requests are bounded, so the model comes to rest once the host is gone
CHECK_DEADLOCK FALSE
