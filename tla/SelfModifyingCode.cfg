SPECIFICATION HistorySpec
CONSTANTS
  ByteBits = 2
  RegisterCount = 3
  RobCapacity = 4
  GenerationSize = 3
  None = None
  RsCapacity = 2
  LsqCapacity = 2
  TableSize = 2
  DataLatency = 3
  InstructionWidth = 4
  ExitRegister = 1
  MemorySize = 24
  CodeWords = 4
  Alphabet = {3, 6, 7, 12, 13, 14, 18, 20, 21}
  ShortWords = 1
  ShortAlphabets = {}
  OperationAlphabet = {}
  Images <- MCImages
  Decode <- MCDecode
PROPERTIES StaleByTheQueueAtMost
CHECK_DEADLOCK FALSE
