SPECIFICATION Spec
CONSTANTS
  ByteBits = 1
  RegisterCount = 1
  RobCapacity = 3
  GenerationSize = 2
  None = None
  RsCapacity = 3
  InstructionWidth = 4
INVARIANTS TypeOK BoundedOvertaking
PROPERTIES ResultsWaitOneCycle ExecutedOnce NothingStarves
