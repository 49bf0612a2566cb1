SPECIFICATION FairSpec
CONSTANTS
  Callers = {c1, c2}
  MaxWorks = 1
CHECK_DEADLOCK FALSE
INVARIANTS
  TypeOK
  NoUseAfterRelease
  EverythingReleased
PROPERTY
  BindingEnds
