SPECIFICATION FairSpec
CONSTANTS
  Callers = {k1}
  Opcodes = {present, submit}
  EchoOpcodes = {submit}
  SeqLimit = 3
  NoCaller = NoCaller
  MaxRequests = 4
  MaxFaults = 1
  MaxSessions = 1
CHECK_DEADLOCK FALSE
PROPERTIES
  LinkRecovers
