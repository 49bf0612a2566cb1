SPECIFICATION Spec
CONSTANTS
  MaxBytes = 16
  Opcodes = {"NOP", "other"}
  Sizes = {0, 7, 8, 12, 16, 24}
  Flags = {0, 1}
CHECK_DEADLOCK FALSE
INVARIANTS
  AcceptsWellFormed
