SPECIFICATION MCSpec
CONSTANTS
  ByteBits = 2
  RegisterCount = 3
  RobCapacity = 1
  GenerationSize = 2
  None = None
  InstructionWidth = 4
  ExitRegister = 1
  MemorySize = 16
  Values = {0, 1, 3}
  Decode <- MCDecode
PROPERTIES SetLessThanComparesRegisters
CHECK_DEADLOCK FALSE
