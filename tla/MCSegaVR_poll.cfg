SPECIFICATION FairSpec
CONSTANTS
  Angles = {straight, turned}
  Straight = straight
  Masks <- MCMasks
  Values <- MCValues
  FlipInVblank = FALSE
  EyeSwapInterval = 1
  TimeoutInterval = 3
  MaxVblankCount = 4
INVARIANTS
  OneEye
  TimeoutHonoured
PROPERTIES
  EyeSteadyBetweenVblanks
  EyesAlternate
  HandshakeAlternates
  AbandonedTimesOut
