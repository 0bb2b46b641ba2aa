SPECIFICATION FrameSpec
CONSTANTS
  Angles = {straight, turned}
  Straight = straight
  Masks <- MCMasks
  Values <- MCValues
  FlipInVblank = TRUE
  EyeSwapInterval = 1
  TimeoutInterval = 2
  MaxVblankCount = 2
INVARIANTS
  FrameTypeOK
  FlipKeepsPace
  ScannedEyeIsToldEye
