SPECIFICATION FramesFairSpec
CONSTANTS
  FramesInFlight = 3
  ImageCount = 4
INVARIANT FrameInv
INVARIANT ImagesNotLost
PROPERTY ImplementsRing
PROPERTY BeginFrameReturns
CHECK_DEADLOCK FALSE
