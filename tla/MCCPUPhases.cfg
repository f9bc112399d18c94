SPECIFICATION PhasedSpec
CONSTANTS
  ByteBits = 2
  RegisterCount = 3
  RobCapacity = 4
  GenerationSize = 3
  None = None
  RsCapacity = 2
  LsqCapacity = 2
  TableSize = 2
  DataLatency = 3
  InstructionWidth = 4
  ExitRegister = 1
  MemorySize = 24
  CodeWords = 4
  Alphabet = {}
  ShortWords = 1
  ShortAlphabets = {}
  OperationAlphabet = {}
  Images <- MCPhaseImages
  Decode <- MCDecode
INVARIANTS NextStartsFromLatched
PROPERTIES ImplementsCycle
CHECK_DEADLOCK FALSE
