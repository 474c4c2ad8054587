SPECIFICATION DSpec
CONSTANTS
  a = a
  b = b
  s = s
  none = none
  noLayer = noLayer
  noTomb = noTomb
  noId = noId
  noSource = noSource
  noPriority = noPriority
  self = self
  warm = warm
  cool = cool
  NoValue = none
  NoLayer = noLayer
  NoTomb = noTomb
  NoId = noId
  NoSource = noSource
  NoPriority = noPriority
  Self = self
  Source = {s}
  Tol = 0
  Dims = TRUE
  Uncompared = {}
  Color = {}
  Priority = {1, 2}
  Level <- MCOneLevel
  Takes <- MCTakes
  Id <- MCId
  LampPolicies = {"take_back"}
  Requests <- MCOnAndOff
  Targets <- MCAll
  Reports <- MCOnOffReports
  Calls <- MCFewCalls
  Feeds <- MCFewFeeds
  Sources = {"user"}
  Happenings = {"absence", "render", "replay"}
INVARIANTS
  DecisionHolds
  BarredNotHeld
PROPERTIES
  HeldBackStaysDark
