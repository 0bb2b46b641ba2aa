SPECIFICATION SoundSpec
CONSTANTS
  Silence = 0
  Samples = {0, 1}
  Segments <- ManySegments
  Devices <- ManyDevices
INVARIANT ChannelsKept
PROPERTY PlaysLatestInOrder
CHECK_DEADLOCK FALSE
