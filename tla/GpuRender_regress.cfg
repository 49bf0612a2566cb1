SPECIFICATION Spec
CONSTANTS
  Files = {f1}
  Threads = {t1, t2}
  Contexts = {c1}
  NoFile = NoFile
  NoContext = NoContext
  MaxSeqno = 2
CHECK_DEADLOCK FALSE

PROPERTY CompletedNeverRegresses
