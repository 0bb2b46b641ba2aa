SPECIFICATION ScreenFairSpec
CONSTANTS
  MaxPictures = 5
  SurfaceFails = TRUE
INVARIANT NoTornPicture
PROPERTIES NobodyLeftInside PictureReachesScreen
CHECK_DEADLOCK FALSE
