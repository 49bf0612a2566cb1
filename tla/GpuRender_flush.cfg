SPECIFICATION Spec
CONSTANTS
  Files = {f1}
  Threads = {t1}
  Contexts = {c1}
  NoFile = NoFile
  NoContext = NoContext
  MaxSeqno = 1
CHECK_DEADLOCK FALSE

PROPERTY FlushOnLiveWorkqueue
