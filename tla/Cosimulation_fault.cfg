SPECIFICATION BothSpec
CONSTANTS
  ByteBits = 2
  RegisterCount = 3
  RobCapacity = 6
  GenerationSize = 3
  None = None
  RsCapacity = 4
  LsqCapacity = 2
  TableSize = 2
  DataLatency = 3
  InstructionWidth = 4
  ExitRegister = 1
  MemorySize = 32
  CodeWords = 6
  Alphabet = {4, 12, 19}
  ShortWords = 1
  ShortAlphabets = {}
  OperationAlphabet = {}
  Images <- MCImages
  Decode <- MCDecode
INVARIANTS FaultsAreArchitectural
CHECK_DEADLOCK FALSE
