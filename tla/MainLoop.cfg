SPECIFICATION LoopFairSpec
CONSTANTS
  SwapEyeFrames = FALSE
  FlipBetweenPolls = TRUE
  QuadshotCount = 3
  PerFrame = 2
  Wrap = 7
  MaxElapsed = 8
INVARIANTS
  LoopTypeOK
  FreshSeriesStartsLeft
  KeepsPace
PROPERTIES
  CombinedTwiceOnlyFrozen
  SeriesEnds
  ScreenUpdated
  QuitEnds
CHECK_DEADLOCK FALSE
