SPECIFICATION Spec
CONSTANTS
  a = a
  b = b
  s = s
  none = none
  noLayer = noLayer
  noTomb = noTomb
  noId = noId
  noSource = noSource
  noPriority = noPriority
  self = self
  warm = warm
  cool = cool
  NoValue = none
  NoLayer = noLayer
  NoTomb = noTomb
  NoId = noId
  NoSource = noSource
  NoPriority = noPriority
  Self = self
  Source = {s}
  Tol = 0
  Dims = TRUE
  Uncompared = {}
  Color = {}
  Priority = {1, 2}
  Level <- MCLevel
  Takes <- MCTakes
  Id <- MCId
  LampPolicies = {"take_back"}
  Requests <- MCOffOverOn
  Targets <- MCTargets
  Reports <- MCReports
  Calls <- MCCalls
  Feeds <- MCFewFeeds
  Sources = {"user"}
  Happenings = {}
PROPERTIES
  TimerOnlyDims
