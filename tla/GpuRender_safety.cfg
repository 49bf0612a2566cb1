SPECIFICATION Spec
CONSTANTS
  Files = {f1, f2}
  Threads = {t1, t2}
  Contexts = {c1, c2}
  NoFile = NoFile
  NoContext = NoContext
  MaxSeqno = 2
SYMMETRY MCSymmetry
CHECK_DEADLOCK FALSE
INVARIANTS
  TypeOK
  RefsMatchHolders
  SubmitOnLiveContext
  SubmissionsStayAllocated
  SignalledIsPublished
