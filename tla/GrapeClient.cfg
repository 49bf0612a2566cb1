SPECIFICATION ClientSpec
CONSTANTS
  ChunkCount = 3
  MaxAttempts = 4
  MaxDamage = 5
  MaxFaults = 2
  MaxFrames = 2
  Displays <- MCDisplays
  Pictures <- MCPictures
CHECK_DEADLOCK FALSE
INVARIANTS
  ClientTypeOK
  UploadedIsExact
  RetriesCoverDamage
  SuccessLeavesPrinted
  NoStaleHandle
  FailureLeavesLittle
  PictureShown
