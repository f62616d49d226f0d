\* One invocation with three records, overlapping runs of the alarm.
SPECIFICATION FairSpec
CONSTANTS
  i1 = i1
  Invocations = {i1}
  PerInvocation = 3
  RecordLimit = 3
  ActiveLimit = 2
  Aging <- First
  Oversized <- Last
  Destinations = {d1, d2}
  Environments = {d1, d2}
  MaxPending = 2
  FlushRecords = 2
  BatchRecords = 2
  Handlers = {h1, h2}
  NoDestination = NoDestination
  NoBatch = NoBatch
INVARIANTS
  AdmittedIsKept
PROPERTIES
  KeepsLog
  RecordsArrive
CHECK_DEADLOCK FALSE
