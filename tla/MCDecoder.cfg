SPECIFICATION Spec
CONSTANTS
  ByteBits = 8
  RegisterCount = 32
  RobCapacity = 1
  GenerationSize = 2
  None = None
  MaxFlips = 1
INVARIANTS DecodesWhatWasAssembled AcceptsOnlyEncodings FlagsFollowOperation
CHECK_DEADLOCK FALSE
