SPECIFICATION Spec
CONSTANTS
  low = low
  mid = mid
  high = high
  src = src
  none = none
  noLayer = noLayer
  noId = noId
  noSource = noSource
  red = red
  green = green
  blue = blue
  grey = grey
  NoValue = none
  NoLayer = noLayer
  NoId = noId
  NoSource = noSource
  Source = {src}
  Tol = 0
  Dims = TRUE
  Uncompared = {}
  Level <- MCLevel
  Color <- MCColor
  Takes <- MCTakes
  Id <- MCId
  Priority <- MCPriority
  Stacks <- MCStacks
  Bases <- MCBases
INVARIANTS
  FoldAgrees
  FoldWithoutFollowAgrees
  FollowNeverDecidesState
CHECK_DEADLOCK FALSE
