SPECIFICATION ProgramSpec
CONSTANTS
  ByteBits = 2
  RegisterCount = 3
  RobCapacity = 4
  GenerationSize = 3
  None = None
  RsCapacity = 2
  LsqCapacity = 2
  TableSize = 2
  DataLatency = 3
  InstructionWidth = 4
  ExitRegister = 1
  MemorySize = 24
  CodeWords = 4
  Alphabet = {2, 8, 12, 13}
  ShortWords = 2
  ShortAlphabets = {{6, 9, 15}}
  OperationAlphabet = {}
  MaxCount = 16
  Images <- MCImages
  Decode <- MCDecode
INVARIANTS StoresAreNonSpeculative
PROPERTIES ImplementsInterpreter PrintsTheInterpretersResult IncorrectMeansFlushed
CHECK_DEADLOCK FALSE
