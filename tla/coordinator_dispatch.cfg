SPECIFICATION FairSpec
CONSTANTS
  Requests = {r1, r2}
  Operations = {o1, o2}
  Invokes = {i1}
  FrameIds = {f1}
  ChunkCount = 2
  MaxRoutes = 1
  MaxInvokes = 1
  MaxPendingFrames = 1
  MaxPendingChunks = 2
  MaxChannels = 2
  MaxViewers = 0
  MaxAge = 0
  NoRequest = NoRequest
  NoOperation = NoOperation
INVARIANTS
  PendingIsRouted
  NothingOnClosedChannel
  ResultFromOwnChannel
PROPERTIES
  KeepsDispatchContract
  RequestsAnswered
  InvokesLeave
CHECK_DEADLOCK FALSE
