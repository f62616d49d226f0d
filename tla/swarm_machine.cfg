SPECIFICATION FairSpec
CONSTANTS
  Commands = {c1}
  EventLimit = 2
  PageLimit = 2
  AskedLimits = {0, 1, 3}
  MaxChannels = 2
  MaxFrames = 4
INVARIANTS
  CursorOrder
  NothingSkipped
  HeadStateFromOwner
PROPERTIES
  SeenOnce
  CommandOnNewestChannel
  FrameIsRead
CHECK_DEADLOCK FALSE
