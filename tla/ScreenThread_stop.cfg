SPECIFICATION ScreenFairSpec
CONSTANTS
  MaxPictures = 2
  SurfaceFails = FALSE
PROPERTY StopReturns
CHECK_DEADLOCK FALSE
