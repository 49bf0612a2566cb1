SPECIFICATION FairSpec
CONSTANTS
  Threads = {t1, t2}
  NoThread = NoThread
  Bits = 3
INVARIANTS
  TypeOK
  RefusedOnlyWhenFull
PROPERTIES
  IdsNotReused
  SearchEnds
