SPECIFICATION Spec
CONSTANTS
  ByteBits = 1
  RegisterCount = 1
  RobCapacity = 2
  GenerationSize = 2
  None = None
  LsqCapacity = 2
  DataLatency = 3
  MemorySize = 2
  Operations = {"LB", "SB"}
  Operands = {0, 1}
  Offset = 0
PROPERTIES ImplementsInOrderMemory AccessesFinish
CHECK_DEADLOCK FALSE
