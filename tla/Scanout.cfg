SPECIFICATION FairSpec
CONSTANTS
  a = a
  red = red
  Drawn <- MCDrawn
  Tiles = {a, b}
  Colors = {black, red}
  Black = black
  Blank = Blank
  MaxFrames = 3
  MaxFaults = 1
CHECK_DEADLOCK FALSE
INVARIANTS
  TypeOK
  PresentWhole
  ReferenceIsScreen
  WorkerScheduled
  RestsOnNewest
  RemoteObjectsAccounted
PROPERTIES
  ImplementsMailbox
  FrameReachesScreen
