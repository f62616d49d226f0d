SPECIFICATION Spec
CONSTANTS
  Requests = {}
  Operations = {o1}
  Invokes = {i1, i2}
  FrameIds = {f1, f2}
  ChunkCount = 2
  MaxRoutes = 1
  MaxInvokes = 1
  MaxPendingFrames = 1
  MaxPendingChunks = 2
  MaxChannels = 2
  MaxViewers = 2
  MaxAge = 1
  NoRequest = NoRequest
  NoOperation = NoOperation
SYMMETRY Interchangeable
INVARIANTS
  ViewerOnNewestChannel
  ViewerSessionReleased
  EphemeralIsWaiting
  GreetedChannelIsOnline
CHECK_DEADLOCK FALSE
