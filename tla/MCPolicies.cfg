SPECIFICATION DSpec
CONSTANTS
  a = a
  b = b
  s = s
  none = none
  noLayer = noLayer
  noTomb = noTomb
  noId = noId
  noSource = noSource
  noPriority = noPriority
  self = self
  NoValue = none
  NoLayer = noLayer
  NoTomb = noTomb
  NoId = noId
  NoSource = noSource
  NoPriority = noPriority
  Self = self
  Source = {}
  Tol = 0
  Dims = TRUE
  Uncompared = {}
  warm = warm
  cool = cool
  Color = {warm, cool}
  Priority = {1, 2}
  Level <- MCOneLevel
  Takes <- MCTakesAll
  Id <- MCOneId
  LampPolicies = {"take_back", "edit_active", "reassert", "base_keep_layers"}
  Requests <- MCColourOne
  Targets <- MCAll
  Reports <- MCColourReports
  Calls <- MCColourCalls
  Feeds <- MCColourFeeds
  Sources = {"user", "device"}
  Happenings = {"replay"}
INVARIANTS
  DecisionHolds
  RepeatOnlyRefreshes
PROPERTIES
  ClearKeepsDecision
  PersonShown
