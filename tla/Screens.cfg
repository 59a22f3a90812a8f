SPECIFICATION ScreensSpec
CONSTANTS
  MaxFailed = 2
INVARIANTS
  NoOrphanWait
  PressActsOnce
PROPERTIES
  SurfaceComesBack
  BackGoesBack
CHECK_DEADLOCK FALSE
