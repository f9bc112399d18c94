SPECIFICATION Spec
CONSTANTS
  ByteBits = 1
  RegisterCount = 1
  RobCapacity = 1
  GenerationSize = 2
  None = None
  MemorySize = 3
  MaxTokens = 5
  MaxLines = 2
INVARIANTS ImageIsTheFile FaultsAreReported
