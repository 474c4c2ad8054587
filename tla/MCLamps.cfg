SPECIFICATION Spec
CONSTANTS
  a = a
  b = b
  l1 = l1
  l2 = l2
  room = room
  group = group
  none = none
  noLayer = noLayer
  noTomb = noTomb
  noId = noId
  noSource = noSource
  noPriority = noPriority
  self = self
  NoValue = none
  NoLayer = noLayer
  NoTomb = noTomb
  NoId = noId
  NoSource = noSource
  NoPriority = noPriority
  Self = self
  Source = {}
  Tol = 0
  Dims = FALSE
  Uncompared = {}
  Color = {}
  Priority = {1, 2}
  Level <- MCLevel
  Takes <- MCTakes
  Id <- MCId
  Lamp <- MCLamp
  Rooms <- MCRooms
  Members <- MCMembers
  Vendor <- MCVendor
  Rank <- MCRank
  Requests <- MCRequests
  Aims <- MCAims
  Calls <- MCCalls
  Scenes <- MCScenes
  Reports <- MCReports
  MaxActs = 3
INVARIANTS
  TypeOK
  SceneHolds
  AllShow
  RoomsLead
  SetGoesThrough
PROPERTIES
  OldPressStaysOld
CHECK_DEADLOCK FALSE
