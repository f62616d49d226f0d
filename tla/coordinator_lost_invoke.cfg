SPECIFICATION Spec
CONSTANTS
  Requests = {}
  Operations = {o1}
  Invokes = {i1}
  FrameIds = {f1}
  ChunkCount = 1
  MaxRoutes = 1
  MaxInvokes = 1
  MaxPendingFrames = 1
  MaxPendingChunks = 1
  MaxChannels = 1
  MaxViewers = 0
  MaxAge = 0
  NoRequest = NoRequest
  NoOperation = NoOperation
INVARIANTS
  WaitingInvokeIsRegistered
CHECK_DEADLOCK FALSE
