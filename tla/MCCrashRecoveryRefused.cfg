SPECIFICATION Spec
CONSTANTS
  main = main
  popup = popup
  Window <- MCWindow
  Main = main
  RebuildLimit = 3
  HealthLimit = 4
PROPERTY LockReleased
