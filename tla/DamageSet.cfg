SPECIFICATION Spec
CONSTANTS
  Width = 7
  Height = 5
  TileSize = 2
  MaxRects = 2
  MaxCandidates = 4
  FullPercent = 70
  MergeBudget = 4
  ChunkPixels = 5
  Samples <- MCSamples
CHECK_DEADLOCK FALSE
INVARIANTS
  TypeOK
  ChangesCovered
  FrameArrives
