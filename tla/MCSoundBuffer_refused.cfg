SPECIFICATION SoundSpec
CONSTANTS
  Silence = 0
  Samples = {0, 1}
  Segments = {1}
  Devices <- OneDevice
INVARIANT CleanupIsComplete
CHECK_DEADLOCK FALSE
