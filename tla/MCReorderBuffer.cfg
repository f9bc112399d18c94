SPECIFICATION MCSpec
CONSTANTS
  ByteBits = 1
  RegisterCount = 1
  RobCapacity = 3
  GenerationSize = 2
  None = None
  Operations = {"SW", "BEQ"}
  Targets = {0, 4}
INVARIANTS TypeOK RingIsContiguous TagsNameTheirSlots
PROPERTIES NewTagsAlwaysDiffer CommitsInOrder
