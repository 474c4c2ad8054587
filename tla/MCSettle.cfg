SPECIFICATION Spec
CONSTANTS
  a = a
  none = none
  noLayer = noLayer
  noTomb = noTomb
  noId = noId
  noSource = noSource
  noPriority = noPriority
  self = self
  NoValue = none
  NoLayer = noLayer
  NoTomb = noTomb
  NoId = noId
  NoSource = noSource
  NoPriority = noPriority
  Self = self
  Source = {}
  Tol = 0
  Dims = TRUE
  Uncompared = {}
  Color = {}
  Priority = {1}
  Level <- MCLevel
  Takes <- MCTakes
  Id <- MCId
  Requests <- MCRequests
  Reports <- MCReports
  Calls <- MCCalls
  SetsExpired = FALSE
  MaxActs = 3
PROPERTY OwnWhileSettling
CHECK_DEADLOCK FALSE
