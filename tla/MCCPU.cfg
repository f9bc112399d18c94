SPECIFICATION Spec
CONSTANTS
  ByteBits = 2
  RegisterCount = 3
  RobCapacity = 5
  GenerationSize = 3
  None = None
  RsCapacity = 2
  LsqCapacity = 2
  TableSize = 2
  DataLatency = 3
  InstructionWidth = 4
  ExitRegister = 1
  MemorySize = 28
  CodeWords = 5
  Alphabet = {3, 4, 6, 12}
  ShortWords = 4
  ShortAlphabets = {{1, 2, 7, 12, 13, 14, 15}, {6, 7, 8, 9, 10, 11, 12}}
  OperationAlphabet = {"ADD", "SUB", "AND", "XOR", "OR", "SLL", "SRL", "SRA", "ADDI", "SLTI", "SLTIU", "XORI", "ORI", "ANDI", "SLLI", "SRLI", "SRAI", "LUI", "AUIPC", "LB", "LH", "LW", "LBU", "LHU", "SB", "SH", "SW", "BEQ", "BNE", "BLT", "BGE", "BLTU", "BGEU", "JAL", "JALR", "HALT", "INVALID"}
  Images <- MCImages
  Decode <- MCDecode
INVARIANTS TypeOK RatNamesYoungestWriter OnePlaceEach WakeUpStillToCome StoppedBehindHalt
  StoresAreNonSpeculative AnswersMeetTheirRequests AssertionsHold
PROPERTIES ImplementsInterpreter Progress
CHECK_DEADLOCK FALSE
