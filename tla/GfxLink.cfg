SPECIFICATION FairSpec
CONSTANTS
  Callers = {k1, k2}
  Opcodes = {present, submit}
  EchoOpcodes = {submit}
  SeqLimit = 2
  NoCaller = NoCaller
  MaxRequests = 4
  MaxFaults = 1
  MaxSessions = 2
CHECK_DEADLOCK FALSE
INVARIANTS
  TypeOK
  AnswerIsOwn
  SubmitAnswerIsOwn
PROPERTY
  AnsweredWhenInStep
