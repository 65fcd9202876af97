SPECIFICATION Spec
CONSTANTS
  Gaps = 3
  MaxIdle = 4
  MaxBlocks = 2
  Threshold = 1
  MaxState = 4
  MaxLayers = 5
  MaxWeight = 4
  MaxTokens = 4
  MaxThreads = 16
  NumThreads = 4
  MostBlocks = 2
  TileDim = 2
  Warp = 4
  CacheTokens = 5
  LeastRow = 2
  MostRow = 5
  BlockWarp = 16
  BlockThreads = 256
  MaxIterations = 2
  NormReg = 2
  MaxReg = 2
  SimdWidth = 2
  TileSize = 32
  None = None
CHECK_DEADLOCK FALSE
INVARIANTS PlanIsBest StagesAreBalanced SettingsAreSound GroupsAgree ShardsKeepTheirPlace PiecesMakeTheWhole
