----------------------------- MODULE CPUProofs -----------------------------
(***************************************************************************)
(* Proofs, for every program, predictor and size of the queues, of the     *)
(* types of the CPU and of the invariants of CPUProperties that relate its *)
(* components.                                                             *)
(*                                                                         *)
(* Types: one lemma per wire, then one per component, then the cycle that  *)
(* joins them.  The other invariants all rest on the ring of the reorder   *)
(* buffer: what one cycle does to the instructions in flight is stated     *)
(* once, by CycleOfTheRing, and the rename table and the fetch stage are   *)
(* followed against it.                                                    *)
(***************************************************************************)
EXTENDS CPUProperties, WellFoundedInduction, TLAPS

----------------------------------------------------------------------------
(* The instances speak of the same values. *)

LEMMA SameSignals ==
  /\ ROB!RobTag = RobTag /\ RAT!RobTag = RobTag /\ RS!RobTag = RobTag
  /\ LSQ!RobTag = RobTag /\ MEM!RobTag = RobTag
  /\ ROB!Word = Word /\ RF!Word = Word /\ RS!Word = Word /\ LSQ!Word = Word
  /\ MEM!Word = Word /\ Issue!Word = Word
  /\ Address = Word /\ ROB!Address = Word /\ RS!Address = Word /\ LSQ!Address = Word
  /\ MEM!Address = Word /\ Issue!Address = Word
  /\ ROB!RegisterIndex = RegisterIndex /\ RAT!RegisterIndex = RegisterIndex
  /\ RF!RegisterIndex = RegisterIndex
  /\ ROB!RobIndex = RobIndex /\ ROB!TagGeneration = TagGeneration
BY DEF Address, ROB!Address, RS!Address, LSQ!Address, MEM!Address, Issue!Address,
       RobTag, RobIndex, TagGeneration, Word, WordSize, WordBits, RegisterIndex,
       ROB!RobTag, ROB!RobIndex, ROB!TagGeneration, RAT!RobTag, RAT!RobIndex,
       RAT!TagGeneration, RS!RobTag, RS!RobIndex, RS!TagGeneration, LSQ!RobTag,
       LSQ!RobIndex, LSQ!TagGeneration, MEM!RobTag, MEM!RobIndex, MEM!TagGeneration,
       ROB!Word, ROB!WordSize, ROB!WordBits, RF!Word, RF!WordSize, RF!WordBits,
       RS!Word, RS!WordSize, RS!WordBits, LSQ!Word, LSQ!WordSize, LSQ!WordBits,
       MEM!Word, MEM!WordSize, MEM!WordBits, Issue!Word, Issue!WordSize, Issue!WordBits,
       ROB!RegisterIndex, RAT!RegisterIndex, RF!RegisterIndex

LEMMA SameOperations ==
  /\ ROB!OP = OP /\ RS!OP = OP /\ LSQ!OP = OP /\ Issue!OP = OP
  /\ \A op : /\ LSQ!is_load(op) = is_load(op)
             /\ LSQ!is_store(op) = is_store(op)
             /\ ROB!is_store(op) = is_store(op)
             /\ ROB!is_control(op) = is_control(op)
             /\ Issue!is_load(op) = is_load(op)
             /\ Issue!is_store(op) = is_store(op)
             /\ Issue!writes_rd(op) = writes_rd(op)
             /\ FU!is_jump(op) = is_jump(op)
             /\ FU!is_control(op) = is_control(op)
<1> USE DEF RegisterOps, ImmediateOps, UpperOps, LoadOps, StoreOps, BranchOps, JumpOps
<1>1. ROB!OP = OP
  BY DEF OP, ROB!OP, ROB!RegisterOps, ROB!ImmediateOps, ROB!UpperOps, ROB!LoadOps,
         ROB!StoreOps, ROB!BranchOps, ROB!JumpOps
<1>2. RS!OP = OP
  BY DEF OP, RS!OP, RS!RegisterOps, RS!ImmediateOps, RS!UpperOps, RS!LoadOps,
         RS!StoreOps, RS!BranchOps, RS!JumpOps
<1>3. LSQ!OP = OP
  BY DEF OP, LSQ!OP, LSQ!RegisterOps, LSQ!ImmediateOps, LSQ!UpperOps, LSQ!LoadOps,
         LSQ!StoreOps, LSQ!BranchOps, LSQ!JumpOps
<1>4. Issue!OP = OP
  BY DEF OP, Issue!OP, Issue!RegisterOps, Issue!ImmediateOps, Issue!UpperOps, Issue!LoadOps,
         Issue!StoreOps, Issue!BranchOps, Issue!JumpOps
<1>5. LSQ!LoadOps = LoadOps /\ LSQ!StoreOps = StoreOps /\ ROB!StoreOps = StoreOps
      /\ Issue!LoadOps = LoadOps /\ Issue!StoreOps = StoreOps /\ FU!JumpOps = JumpOps
      /\ ROB!BranchOps = BranchOps /\ ROB!JumpOps = JumpOps /\ FU!BranchOps = BranchOps
  BY DEF LSQ!LoadOps, LSQ!StoreOps, ROB!StoreOps, Issue!LoadOps, Issue!StoreOps,
         FU!JumpOps, ROB!BranchOps, ROB!JumpOps, FU!BranchOps
<1>6. Issue!RegisterOps = RegisterOps /\ Issue!ImmediateOps = ImmediateOps
      /\ Issue!UpperOps = UpperOps /\ Issue!JumpOps = JumpOps
  BY DEF Issue!RegisterOps, Issue!ImmediateOps, Issue!UpperOps, Issue!JumpOps
<1> USE ONLY <1>1, <1>2, <1>3, <1>4, <1>5, <1>6
<1>7. ASSUME NEW op
      PROVE  /\ LSQ!is_load(op) = is_load(op)
             /\ LSQ!is_store(op) = is_store(op)
             /\ ROB!is_store(op) = is_store(op)
             /\ ROB!is_control(op) = is_control(op)
             /\ Issue!is_load(op) = is_load(op)
             /\ Issue!is_store(op) = is_store(op)
             /\ Issue!writes_rd(op) = writes_rd(op)
             /\ FU!is_jump(op) = is_jump(op)
             /\ FU!is_control(op) = is_control(op)
  BY DEF is_load, is_store, is_jump, is_branch, is_control, writes_rd, LSQ!is_load,
         LSQ!is_store, ROB!is_store, ROB!is_control, ROB!is_branch, ROB!is_jump,
         Issue!is_load, Issue!is_store, Issue!writes_rd, FU!is_jump, FU!is_control,
         FU!is_branch
<1> QED
  BY <1>7

LEMMA SameRecords ==
  /\ ROB!ROBEntry =
       [tag : RobTag, op : OP, pc : Word, rd : RegisterIndex, value : Word,
        writes_rd : BOOLEAN, ready : BOOLEAN, predicted_next_pc : Word,
        actual_next_pc : Word, branch_taken : BOOLEAN]
  /\ RS!RSEntry = [op : OP, destination : RobTag, lhs : Operand, rhs : Operand,
                   immediate : Word, pc : Word]
  /\ LSQ!LSQEntry =
       [op : OP, destination : RobTag, base : Operand, store_data : Operand,
        immediate : Word, address : Word, address_ready : BOOLEAN, request_sent : BOOLEAN]
  /\ MEM!DataMemoryRequest =
       [is_store : BOOLEAN, width : MemoryWidth, address : Word, value : Word, tag : RobTag]
  /\ MEM!DataMemoryResponse =
       [tag : RobTag, value : Word, is_store : BOOLEAN, success : BOOLEAN]
  /\ Issue!DecodePacket = [pc : Word, decoded : DecodedInstruction, predicted_pc : Word]
  /\ RAT!RATWrite = [rd : RegisterIndex, tag : RobTag]
  /\ RF!RegisterWrite = [rd : RegisterIndex, value : Word]
  /\ FUResult = [tag : RobTag, result : Word, actual_next_pc : Word,
                 branch_taken : BOOLEAN, has_control_result : BOOLEAN]
  /\ Execute = [op : OP, operand1 : Word, operand2 : Word, immediate : Word,
                pc : Word, tag : RobTag]
<1>1. RS!Operand = Operand /\ LSQ!Operand = Operand
  BY SameSignals DEF RS!Operand, LSQ!Operand, Operand, RS!Maybe, LSQ!Maybe, Maybe
<1>2. MEM!MemoryWidth = MemoryWidth
  BY DEF MEM!MemoryWidth, MemoryWidth, MEM!BYTE, BYTE, MEM!HALF, HALF, MEM!WORD, WORD
<1>3. Issue!DecodedInstruction = DecodedInstruction
  BY SameSignals, SameOperations
     DEF Issue!DecodedInstruction, DecodedInstruction, Issue!RegisterIndex, RegisterIndex
<1>4. ROB!ROBEntry = [tag : RobTag, op : OP, pc : Word, rd : RegisterIndex, value : Word,
        writes_rd : BOOLEAN, ready : BOOLEAN, predicted_next_pc : Word,
        actual_next_pc : Word, branch_taken : BOOLEAN]
  BY SameSignals, SameOperations DEF ROB!ROBEntry
<1>5. RS!RSEntry = [op : OP, destination : RobTag, lhs : Operand, rhs : Operand,
                    immediate : Word, pc : Word]
  BY <1>1, SameSignals, SameOperations DEF RS!RSEntry
<1>6. LSQ!LSQEntry =
        [op : OP, destination : RobTag, base : Operand, store_data : Operand,
         immediate : Word, address : Word, address_ready : BOOLEAN, request_sent : BOOLEAN]
  BY <1>1, SameSignals, SameOperations DEF LSQ!LSQEntry
<1> QED
  BY <1>2, <1>3, <1>4, <1>5, <1>6, SameSignals
     DEF MEM!DataMemoryRequest, MEM!DataMemoryResponse, Issue!DecodePacket, RAT!RATWrite,
         RF!RegisterWrite, FUResult, Execute

----------------------------------------------------------------------------
(* Words: every operation of the functional unit, of the load queue and of *)
(* memory has a word for its result.                                       *)

LEMMA Division ==
  ASSUME NEW value \in Nat, NEW divisor \in Nat \ {0}
  PROVE  /\ value % divisor \in 0 .. divisor - 1
         /\ value \div divisor \in 0 .. value
         /\ \A bound \in Nat : value < divisor * bound => value \div divisor < bound
<1>1. value % divisor \in 0 .. divisor - 1
  OBVIOUS
<1>2. value \div divisor \in Nat /\ value \div divisor <= value
  OBVIOUS
<1>3. ASSUME NEW bound \in Nat, value < divisor * bound
      PROVE  value \div divisor < bound
  BY <1>3
<1> QED
  BY <1>1, <1>2, <1>3

LEMMA Sizes ==
  /\ WordBits \in Nat \ {0} /\ WordSize \in Nat \ {0} /\ ByteSize \in Nat \ {0}
  /\ Word \subseteq Nat /\ 0 \in Word
  /\ FU!WordBits = WordBits /\ FU!WordSize = WordSize
  /\ LSQ!WordBits = WordBits /\ LSQ!WordSize = WordSize
  /\ MEM!ByteSize = ByteSize
<1>1. ByteBits \in Nat \ {0} /\ WordBits \in Nat \ {0} /\ WordBits = 4 * ByteBits
  BY SignalsAssumption DEF WordBits
<1>2. WordBits \in 0 .. WordBits /\ ByteBits \in 0 .. WordBits
  BY <1>1
<1>3. WordSize \in Nat \ {0} /\ ByteSize \in Nat \ {0}
  BY <1>2, PowersAssumption DEF WordSize, ByteSize
<1> QED
  BY <1>1, <1>3 DEF Word, WordSize, WordBits, ByteSize, FU!WordBits, FU!WordSize,
     LSQ!WordBits, LSQ!WordSize, MEM!ByteSize

LEMMA Additions ==
  ASSUME NEW lhs \in Nat, NEW rhs \in Nat
  PROVE  /\ FU!add(lhs, rhs) \in Word /\ LSQ!add(lhs, rhs) \in Word
         /\ rhs \in Word => FU!sub(lhs, rhs) \in Word
         /\ FU!clear_least_significant_bit(FU!add(lhs, rhs)) \in Word
<1>1. FU!add(lhs, rhs) \in Word /\ LSQ!add(lhs, rhs) \in Word
  <2>1. lhs + rhs \in Nat
    OBVIOUS
  <2> QED
    BY <2>1, Division, Sizes DEF FU!add, LSQ!add, Word
<1>2. ASSUME rhs \in Word
      PROVE  FU!sub(lhs, rhs) \in Word
  <2>1. lhs + WordSize - rhs \in Nat
    BY <1>2, Sizes DEF Word
  <2> QED
    BY <2>1, Division, Sizes DEF FU!sub, Word
<1>3. ASSUME NEW value \in Word
      PROVE  FU!clear_least_significant_bit(value) \in Word
  <2>1. value \in Nat /\ value < WordSize
    BY Sizes DEF Word
  <2>2. value % 2 \in 0 .. 1 /\ value % 2 <= value
    BY <2>1
  <2> QED
    BY <2>1, <2>2, Sizes DEF FU!clear_least_significant_bit, Word
<1> QED
  BY <1>1, <1>2, <1>3

(* A shift drops bits at one end and fills in at the other.                *)
LEMMA Shifts ==
  ASSUME NEW value \in Word, NEW operand \in Word
  PROVE  LET amount == FU!shift_amount(operand)
         IN  /\ FU!shift_left(value, amount) \in Word
             /\ FU!shift_right(value, amount) \in Word
             /\ FU!arithmetic_shift_right(value, amount) \in Word
<1> DEFINE amount == FU!shift_amount(operand)
           scale == 2 ^ amount
           filled == 2 ^ (WordBits - amount)
<1>1. value \in Nat /\ value < WordSize /\ operand \in Nat
  BY Sizes DEF Word
<1>2. amount \in 0 .. WordBits - 1
  BY <1>1, Division, Sizes DEF FU!shift_amount
<1>3. amount \in 0 .. WordBits /\ WordBits - amount \in 0 .. WordBits
  BY <1>2, Sizes
<1>4. scale \in Nat \ {0} /\ filled \in Nat \ {0} /\ scale * filled = WordSize
  BY <1>3, PowersAssumption
<1>5. FU!shift_left(value, amount) = (value * scale) % WordSize
  BY Sizes DEF FU!shift_left
<1>6. FU!shift_right(value, amount) = value \div scale
  BY DEF FU!shift_right
<1>7. FU!arithmetic_shift_right(value, amount) \in
        {value \div scale, value \div scale + WordSize - filled}
  BY <1>6, Sizes DEF FU!arithmetic_shift_right
<1> HIDE DEF amount, scale, filled
<1>8. FU!shift_left(value, amount) \in Word
  <2>1. value * scale \in Nat
    BY <1>1, <1>4
  <2> QED
    BY <1>5, <2>1, Division, Sizes DEF Word
<1>9. value \div scale \in 0 .. value
  BY <1>1, <1>4, Division
<1>10. value \div scale < filled
  BY <1>1, <1>4, Division
<1>11. filled <= WordSize
  BY <1>4
<1>12. FU!shift_right(value, amount) \in Word
  BY <1>1, <1>6, <1>9, Sizes DEF Word
<1>13. FU!arithmetic_shift_right(value, amount) \in Word
  BY <1>1, <1>4, <1>7, <1>9, <1>10, <1>11, Sizes DEF Word
<1> QED
  BY <1>8, <1>12, <1>13 DEF amount

(* What the functional unit computes is a result of its type.              *)
LEMMA Execution ==
  ASSUME NEW execute \in Execute
  PROVE  /\ FU!execute_instruction(execute) \in FUResult
         /\ FU!execute_instruction(execute).tag = execute.tag
<1> DEFINE lhs == execute.operand1
           rhs == execute.operand2
<1>1. /\ lhs \in Word /\ rhs \in Word /\ execute.pc \in Word /\ execute.immediate \in Word
      /\ execute.tag \in RobTag
  BY SameRecords
<1>2. lhs \in Nat /\ rhs \in Nat /\ execute.pc \in Nat /\ execute.immediate \in Nat
  BY <1>1, Sizes
<1>3. /\ FU!bit_and(lhs, rhs) \in Word
      /\ FU!bit_or(lhs, rhs) \in Word
      /\ FU!bit_xor(lhs, rhs) \in Word
  BY BitsAssumption DEF FU!bit_and, FU!bit_or, FU!bit_xor
<1>4. \A pc \in Nat : FU!sequential_pc(pc) \in Word
  BY Additions, CPUAssumption DEF FU!sequential_pc
<1>5. 1 \in Word
  <2>1. WordSize > 1
    <3>1. 1 \in 0 .. WordBits /\ WordBits - 1 \in 0 .. WordBits
      BY Sizes
    <3>2. 2 ^ 1 * 2 ^ (WordBits - 1) = WordSize /\ 2 ^ (WordBits - 1) \in Nat \ {0}
      BY <3>1, PowersAssumption
    <3>3. 2 ^ 1 = 2
      OBVIOUS
    <3> QED
      BY <3>2, <3>3
  <2> QED
    BY <2>1, Sizes DEF Word
<1>6. FU!result_of(execute) \in Word
  <2>1. /\ FU!add(lhs, rhs) \in Word /\ FU!sub(lhs, rhs) \in Word
    BY <1>1, <1>2, Additions
  <2>2. /\ FU!shift_left(lhs, FU!shift_amount(rhs)) \in Word
        /\ FU!shift_right(lhs, FU!shift_amount(rhs)) \in Word
        /\ FU!arithmetic_shift_right(lhs, FU!shift_amount(rhs)) \in Word
    BY <1>1, Shifts
  <2> QED
    BY <1>2, <1>3, <1>4, <1>5, <2>1, <2>2, Sizes DEF FU!result_of
<1>7. FU!next_pc_of(execute) \in Word
  BY <1>2, <1>4, Additions DEF FU!next_pc_of
<1>8. FU!taken(execute) \in BOOLEAN /\ FU!is_control(execute.op) \in BOOLEAN
  <2>1. /\ (lhs = rhs) \in BOOLEAN /\ (lhs # rhs) \in BOOLEAN
        /\ FU!signed_less_than(lhs, rhs) \in BOOLEAN
        /\ FU!signed_greater_equal(lhs, rhs) \in BOOLEAN
        /\ (lhs < rhs) \in BOOLEAN /\ (lhs >= rhs) \in BOOLEAN
        /\ FU!is_jump(execute.op) \in BOOLEAN
    BY DEF FU!signed_less_than, FU!signed_greater_equal, FU!is_jump
  <2> QED
    BY <2>1 DEF FU!taken, FU!is_control, FU!is_branch, FU!is_jump
<1> QED
  BY <1>1, <1>6, <1>7, <1>8, SameRecords DEF FU!execute_instruction

(* What a load makes of the bytes it read is a word.                       *)
LEMMA Extension ==
  ASSUME NEW op, NEW value \in Word
  PROVE  LSQ!extend_load_result(op, value) \in Word
<1> DEFINE bits == LSQ!memory_width(op) * ByteBits
           limit == 2 ^ bits
           narrowed == value % limit
<1>1. value \in Nat
  BY Sizes
<1>2. bits \in 0 .. WordBits /\ WordBits - bits \in 0 .. WordBits
  BY SignalsAssumption DEF LSQ!memory_width, WordBits
<1>3. limit \in Nat \ {0} /\ limit <= WordSize
  <2>1. limit \in Nat \ {0} /\ 2 ^ (WordBits - bits) \in Nat \ {0}
    BY <1>2, PowersAssumption
  <2>2. limit * 2 ^ (WordBits - bits) = WordSize
    BY <1>2, PowersAssumption
  <2> HIDE DEF limit
  <2> QED
    BY <2>1, <2>2
<1>4. LSQ!zero_extend(value, bits) = narrowed
  BY DEF LSQ!zero_extend
<1>5. LSQ!sign_extend(value, bits) \in {narrowed, narrowed + WordSize - limit}
  BY <1>4, Sizes DEF LSQ!sign_extend
<1>6. LSQ!extend_load_result(op, value) \in {narrowed, narrowed + WordSize - limit}
  BY <1>4, <1>5 DEF LSQ!extend_load_result
<1> HIDE DEF limit, bits
<1>7. narrowed \in 0 .. limit - 1
  BY <1>1, <1>3, Division
<1> HIDE DEF narrowed
<1> QED
  BY <1>3, <1>6, <1>7, Sizes DEF Word

LEMMA BytePowers ==
  /\ ByteSize ^ 0 = 1 /\ ByteSize ^ 1 = ByteSize
  /\ ByteSize ^ 2 = ByteSize * ByteSize /\ ByteSize ^ 3 = ByteSize * ByteSize * ByteSize
  /\ WordSize = ByteSize * ByteSize * ByteSize * ByteSize
  /\ \A n \in 0 .. 3 : ByteSize ^ n \in Nat \ {0}
<1>1. /\ ByteSize ^ 0 = 1
      /\ ByteSize ^ (0 + 1) = ByteSize ^ 0 * ByteSize
      /\ ByteSize ^ (1 + 1) = ByteSize ^ 1 * ByteSize
      /\ ByteSize ^ (2 + 1) = ByteSize ^ 2 * ByteSize
      /\ ByteSize ^ (3 + 1) = ByteSize ^ 3 * ByteSize
      /\ WordSize = ByteSize ^ 4
  BY PowersAssumption
<1>2. ByteSize \in Nat \ {0}
  BY Sizes
<1>3. /\ ByteSize ^ 1 = ByteSize /\ ByteSize ^ 2 = ByteSize * ByteSize
      /\ ByteSize ^ 3 = ByteSize * ByteSize * ByteSize
      /\ WordSize = ByteSize * ByteSize * ByteSize * ByteSize
  BY <1>1, <1>2
<1>4. /\ ByteSize * ByteSize \in Nat \ {0}
      /\ ByteSize * ByteSize * ByteSize \in Nat \ {0}
  BY <1>2
<1>5. \A n \in 0 .. 3 : n = 0 \/ n = 1 \/ n = 2 \/ n = 3
  OBVIOUS
<1> QED
  BY <1>1, <1>2, <1>3, <1>4, <1>5

(* Four bytes make a word, and what is stored of a word are bytes.         *)
LEMMA Reading ==
  ASSUME NEW image \in Image, NEW address \in Word, NEW width \in MemoryWidth
  PROVE  /\ MEM!read(image, address, width) \in Maybe(Word)
         /\ MEM!in_bounds(address, width) => MEM!read(image, address, width) \in Word
         /\ MEM!in_bounds(address, width) \in BOOLEAN
<1> DEFINE byte(i) == IF i < width THEN image[address + i] * ByteSize ^ i ELSE 0
           highest == ByteSize - 1
<1>1. CASE ~MEM!in_bounds(address, width)
  BY <1>1 DEF MEM!read, MEM!in_bounds, Maybe
<1>2. CASE MEM!in_bounds(address, width)
  <2>1. address \in Nat /\ MemorySize \in Nat /\ width \in {1, 2, 4}
        /\ address + width <= MemorySize
    BY <1>2, Sizes, MemoryImageAssumption
       DEF MEM!in_bounds, MemoryWidth, BYTE, HALF, WORD
  <2>2. ASSUME NEW i \in 0 .. 3, i < width
        PROVE  image[address + i] \in 0 .. highest
    <3>1. address + i \in 0 .. MemorySize - 1
      BY <2>1, <2>2
    <3> QED
      BY <3>1 DEF Image, Byte
  <2>3. /\ byte(0) \in 0 .. highest
        /\ byte(1) \in 0 .. highest * ByteSize
        /\ byte(2) \in 0 .. highest * ByteSize * ByteSize
        /\ byte(3) \in 0 .. highest * ByteSize * ByteSize * ByteSize
    <3>1. ASSUME NEW scale \in Nat, NEW value \in 0 .. highest
          PROVE  value * scale \in 0 .. highest * scale
      BY Sizes
    <3>2. /\ ByteSize \in Nat \ {0} /\ ByteSize * ByteSize \in Nat
          /\ ByteSize * ByteSize * ByteSize \in Nat
      BY Sizes
    <3>3. /\ highest \in Nat /\ highest * ByteSize \in Nat
          /\ highest * ByteSize * ByteSize \in Nat
          /\ highest * ByteSize * ByteSize * ByteSize \in Nat
      BY <3>2
    <3>4. byte(0) \in 0 .. highest
      BY <2>1, <2>2, <3>2, <3>3, BytePowers
    <3>5. byte(1) \in 0 .. highest * ByteSize
      BY <2>1, <2>2, <3>1, <3>2, <3>3, BytePowers
    <3>6. byte(2) \in 0 .. highest * ByteSize * ByteSize
      BY <2>1, <2>2, <3>1, <3>2, <3>3, BytePowers
    <3>7. byte(3) \in 0 .. highest * ByteSize * ByteSize * ByteSize
      BY <2>1, <2>2, <3>1, <3>2, <3>3, BytePowers
    <3> QED
      BY <3>4, <3>5, <3>6, <3>7
  <2>4. MEM!read(image, address, width) = byte(0) + byte(1) + byte(2) + byte(3)
    BY <1>2, Sizes DEF MEM!read
  <2> HIDE DEF byte
  <2>5. byte(0) + byte(1) + byte(2) + byte(3) \in 0 .. WordSize - 1
    BY <2>3, Sizes, BytePowers
  <2> QED
    BY <2>4, <2>5 DEF Word, Maybe, MEM!in_bounds
<1> QED
  BY <1>1, <1>2 DEF MEM!in_bounds

LEMMA Writing ==
  ASSUME NEW image \in Image, NEW address \in Word, NEW width \in MemoryWidth,
         NEW value \in Word
  PROVE  MEM!write(image, address, width, value) \in Image
<1>1. ASSUME NEW a \in 0 .. MemorySize - 1, a \in address .. address + width - 1
      PROVE  (value \div ByteSize ^ (a - address)) % ByteSize \in Byte
  <2>1. address \in Nat /\ value \in Nat /\ width \in {1, 2, 4} /\ a \in Nat
    BY Sizes, MemoryImageAssumption DEF MemoryWidth, BYTE, HALF, WORD
  <2>2. a - address \in 0 .. 3
    BY <1>1, <2>1
  <2>3. ByteSize ^ (a - address) \in Nat \ {0}
    BY <2>2, BytePowers
  <2>4. value \div ByteSize ^ (a - address) \in Nat
    BY <2>1, <2>3, Division
  <2> QED
    BY <2>4, Division, Sizes DEF Byte
<1> QED
  BY <1>1, Sizes DEF MEM!write, Image

----------------------------------------------------------------------------
(* The common data bus. *)

LEMMA Bus ==
  ASSUME TypeOK
  PROVE  /\ integer_result \in Maybe(FUResult) /\ load_result \in Maybe(FUResult)
         /\ completion \in Maybe(FUResult) /\ broadcast \in Maybe(CDBMsg)
         /\ integer_granted \in BOOLEAN /\ load_granted \in BOOLEAN
<1>1. integer_result \in Maybe(FUResult) /\ load_result \in Maybe(FUResult)
  BY DEF integer_result, load_result, TypeOK, LsqTypeOK, Maybe
<1>2. completion \in Maybe(FUResult)
  BY <1>1 DEF completion, CDB!completion, Maybe
<1>3. broadcast = IF completion = None THEN None
                  ELSE [tag |-> completion.tag, value |-> completion.result]
  BY DEF broadcast, CDB!broadcast, completion
<1>4. broadcast \in Maybe(CDBMsg)
  BY <1>2, <1>3 DEF Maybe, FUResult, CDBMsg
<1>5. integer_granted \in BOOLEAN /\ load_granted \in BOOLEAN
  BY DEF integer_granted, load_granted, CDB!integer_granted, CDB!load_granted
<1> QED
  BY <1>1, <1>2, <1>4, <1>5

LEMMA BusStep ==
  ASSUME TypeOK, CDB!apply(integer_result, load_result)
  PROVE  prefer_load' \in BOOLEAN
BY DEF CDB!apply, CDB!next_prefer_load, CDB!integer_granted, TypeOK

----------------------------------------------------------------------------
(* The reorder buffer. *)

LEMMA RobHead ==
  ASSUME TypeOK
  PROVE  /\ ROB!front \in Maybe(ROB!ROBEntry) /\ ROB!commit \in Maybe(ROB!ROBEntry)
         /\ ROB!front # None => rob_count # 0 /\ ROB!front = rob_cur[rob_head]
         /\ ROB!commit # None =>
              rob_count # 0 /\ ROB!commit = rob_cur[rob_head] /\ ROB!commit.ready
         /\ flush => ROB!commit # None
         /\ flush <=> ROB!flush
         /\ flush \in BOOLEAN
<1>1. ROB!front \in Maybe(ROB!ROBEntry)
  BY DEF ROB!front, TypeOK, RobTypeOK, Maybe
<1>2. ROB!front # None => rob_count # 0 /\ ROB!front = rob_cur[rob_head]
  BY DEF ROB!front, ROB!empty
<1>3. flush <=> ROB!flush
  BY SameOperations DEF flush, ROB!flush, ROB!commit, ROB!mispredicted
<1>4. ROB!commit \in {None, ROB!front} /\ (ROB!commit # None => ROB!front.ready)
  BY DEF ROB!commit
<1>5. flush => ROB!commit # None
  BY DEF flush, ROB!commit
<1>6. flush \in BOOLEAN
  BY DEF flush
<1> QED
  BY <1>1, <1>2, <1>3, <1>4, <1>5, <1>6 DEF Maybe

Entries == [RobIndex -> Maybe(ROB!ROBEntry)]

(* Recording results changes neither which slots are taken nor what is in  *)
(* them.                                                                   *)
SameInstruction(one, other) ==
  /\ one.tag = other.tag /\ one.op = other.op
  /\ one.rd = other.rd /\ one.writes_rd = other.writes_rd
  /\ one.pc = other.pc /\ one.predicted_next_pc = other.predicted_next_pc
SameOccupants(entries) ==
  /\ entries \in Entries
  /\ \A slot \in RobIndex :
       /\ entries[slot] # None <=> rob_cur[slot] # None
       /\ rob_cur[slot] # None => SameInstruction(entries[slot], rob_cur[slot])

LEMMA WithResult ==
  ASSUME NEW entry \in ROB!ROBEntry, NEW result \in FUResult
  PROVE  /\ ROB!with_result(entry, result) \in ROB!ROBEntry
         /\ SameInstruction(ROB!with_result(entry, result), entry)
<1>1. ROB!with_result(entry, result) \in ROB!ROBEntry
  BY SameSignals DEF ROB!with_result, ROB!ROBEntry, FUResult
<1>2. SameInstruction(ROB!with_result(entry, result), entry)
  BY DEF ROB!with_result, ROB!ROBEntry, SameInstruction
<1> QED
  BY <1>1, <1>2

LEMMA Recording ==
  ASSUME TypeOK, NEW result \in Maybe(FUResult), NEW stored \in Maybe(RobTag)
  PROVE  SameOccupants(ROB!apply_store_completion(ROB!apply_completion(rob_cur, result), stored))
<1> DEFINE recorded == ROB!apply_completion(rob_cur, result)
           completed == ROB!apply_store_completion(recorded, stored)
<1>1. rob_cur \in Entries
  BY DEF TypeOK, RobTypeOK, Entries
<1>2. SameOccupants(recorded)
  <2>1. CASE result = None \/ ~ROB!matching_entry(result.tag, rob_cur)
    BY <1>1, <2>1 DEF ROB!apply_completion, SameOccupants, SameInstruction
  <2>2. CASE ~(result = None \/ ~ROB!matching_entry(result.tag, rob_cur))
    <3> DEFINE entry == ROB!with_result(rob_cur[result.tag.index], result)
    <3>1. result \in FUResult /\ result.tag.index \in RobIndex
      BY <2>2 DEF Maybe, FUResult, RobTag
    <3>2. rob_cur[result.tag.index] \in ROB!ROBEntry
      BY <1>1, <2>2, <3>1 DEF ROB!matching_entry, Maybe, Entries
    <3>3. /\ entry \in ROB!ROBEntry /\ entry # None
          /\ SameInstruction(entry, rob_cur[result.tag.index])
      BY <3>1, <3>2, WithResult, NothingAssumption
    <3>4. recorded = [rob_cur EXCEPT ![result.tag.index] = entry]
      BY <2>2 DEF ROB!apply_completion
    <3> HIDE DEF entry, recorded
    <3> QED
      BY <1>1, <3>1, <3>2, <3>3, <3>4, NothingAssumption
         DEF Maybe, Entries, SameOccupants, SameInstruction
  <2> QED
    BY <2>1, <2>2
<1> HIDE DEF recorded
<1>3. SameOccupants(completed)
  <2>1. CASE ~ROB!matching_entry(stored, rob_cur) \/ ~ROB!is_store(recorded[stored.index].op)
    BY <1>2, <2>1 DEF ROB!apply_store_completion
  <2>2. CASE ~(~ROB!matching_entry(stored, rob_cur)
               \/ ~ROB!is_store(recorded[stored.index].op))
    <3> DEFINE entry == [recorded[stored.index] EXCEPT !.ready = TRUE]
    <3>1. stored \in RobTag /\ stored.index \in RobIndex
      BY <2>2 DEF Maybe, RobTag, ROB!matching_entry
    <3>2. completed = [recorded EXCEPT ![stored.index] = entry]
      BY <2>2 DEF ROB!apply_store_completion
    <3>3. recorded[stored.index] \in ROB!ROBEntry /\ rob_cur[stored.index] # None
      BY <1>2, <2>2, <3>1 DEF Maybe, ROB!matching_entry, SameOccupants, Entries
    <3>4. /\ entry \in ROB!ROBEntry /\ entry # None
          /\ SameInstruction(entry, recorded[stored.index])
      BY <3>3, NothingAssumption DEF SameInstruction, ROB!ROBEntry
    <3> HIDE DEF entry, completed
    <3> QED
      BY <1>2, <3>1, <3>2, <3>3, <3>4 DEF Maybe, Entries, SameOccupants, SameInstruction
  <2> QED
    BY <2>1, <2>2
<1> QED
  BY <1>3 DEF recorded

LEMMA RobStep ==
  ASSUME TypeOK, NEW issue_entry \in Maybe(ROB!ROBEntry),
         NEW result \in Maybe(FUResult), NEW stored \in Maybe(RobTag),
         ROB!apply(issue_entry, result, stored)
  PROVE  RobTypeOK'
<1>1. /\ rob_cur \in Entries /\ rob_generations \in [RobIndex -> TagGeneration]
      /\ rob_head \in RobIndex /\ rob_tail \in RobIndex /\ rob_count \in 0 .. RobCapacity
      /\ RobCapacity \in Nat \ {0}
  BY SignalsAssumption DEF TypeOK, RobTypeOK, Entries
<1>2. \A slot \in RobIndex : ROB!following_slot(slot) \in RobIndex
  BY <1>1 DEF ROB!following_slot, RobIndex
<1>3. CASE ROB!flush /\ ROB!clear_speculative_entries
  BY <1>1, <1>2, <1>3, SameSignals DEF ROB!clear_speculative_entries, RobTypeOK, Maybe
<1>4. CASE ROB!advance(issue_entry, result, stored)
  <2> DEFINE completed ==
               ROB!apply_store_completion(ROB!apply_completion(rob_cur, result), stored)
             remaining == IF ROB!commit = None THEN rob_count ELSE rob_count - 1
  <2>1. completed \in Entries
    BY Recording DEF SameOccupants
  <2>2. /\ rob_head' = IF ROB!commit = None THEN rob_head ELSE ROB!following_slot(rob_head)
        /\ IF ROB!accepts(issue_entry)
           THEN /\ rob_cur' = [ROB!retire(completed) EXCEPT ![rob_tail] = issue_entry]
                /\ rob_generations' =
                     [rob_generations EXCEPT ![rob_tail] = issue_entry.tag.generation]
                /\ rob_tail' = ROB!following_slot(rob_tail)
                /\ rob_count' = remaining + 1
           ELSE /\ rob_cur' = ROB!retire(completed)
                /\ rob_count' = remaining
                /\ UNCHANGED <<rob_generations, rob_tail>>
    BY <1>4 DEF ROB!advance
  <2> HIDE DEF completed
  <2>3. ROB!retire(completed) \in Entries
    BY <1>1, <2>1 DEF ROB!retire, Maybe, Entries
  <2>4. remaining \in 0 .. rob_count
    BY <1>1, RobHead
  <2> HIDE DEF remaining
  <2>5. CASE ROB!accepts(issue_entry)
    <3>1. issue_entry \in ROB!ROBEntry /\ rob_count # RobCapacity
      BY <2>5 DEF ROB!accepts, ROB!full, Maybe
    <3>2. issue_entry.tag.generation \in TagGeneration
      BY <3>1, SameRecords DEF RobTag
    <3> QED
      BY <1>1, <1>2, <2>2, <2>3, <2>4, <2>5, <3>1, <3>2 DEF RobTypeOK, Maybe, Entries
  <2>6. CASE ~ROB!accepts(issue_entry)
    BY <1>1, <1>2, <2>2, <2>3, <2>4, <2>6 DEF RobTypeOK, Entries
  <2> QED
    BY <2>5, <2>6
<1> QED
  BY <1>3, <1>4 DEF ROB!apply

----------------------------------------------------------------------------
(* The tables, the functional unit and the memory unit. *)

LEMMA RatStep ==
  ASSUME TypeOK, NEW new_write \in Maybe(RAT!RATWrite), NEW done \in Maybe(RAT!RATWrite),
         RAT!apply(new_write, done, flush)
  PROVE  rat' \in [RegisterIndex -> Maybe(RobTag)]
<1> DEFINE Table == [RegisterIndex -> Maybe(RobTag)]
<1>1. \A w \in Maybe(RAT!RATWrite) : w # None => w.rd \in RegisterIndex /\ w.tag \in RobTag
  BY SameRecords DEF Maybe
<1>2. RAT!clear_committed(rat, done) \in Table
  BY <1>1 DEF RAT!clear_committed, TypeOK, Maybe
<1>3. \A table \in Table : RAT!set_producer(table, new_write) \in Table
  BY <1>1 DEF RAT!set_producer, Maybe
<1>4. RAT!invalidated \in Table
  BY SameSignals DEF RAT!invalidated, Maybe
<1> QED
  BY <1>2, <1>3, <1>4 DEF RAT!apply

LEMMA RegisterStep ==
  ASSUME TypeOK, NEW new_write \in Maybe(RF!RegisterWrite), RF!apply(new_write)
  PROVE  register' \in [RegisterIndex -> Word] /\ register'[0] = 0
<1>1. new_write # None => new_write.rd \in RegisterIndex /\ new_write.value \in Word
  BY SameRecords DEF Maybe
<1> QED
  BY <1>1 DEF RF!apply, TypeOK

LEMMA PredictorStep ==
  ASSUME TypeOK, NEW update \in Maybe(ROB!ROBEntry), BP!apply(update)
  PROVE  counters' \in [0 .. TableSize - 1 -> BP!Counter]
<1>1. CASE update = None
  BY <1>1 DEF BP!apply, TypeOK
<1>2. CASE update # None
  <2> DEFINE index == BP!index_of(update.pc)
             counter == BP!trained(counters[index], update.branch_taken)
  <2>1. update.pc \in Nat
    BY <1>2, SameRecords, Sizes DEF Maybe
  <2>2. update.pc \div InstructionWidth \in Nat
    BY <2>1, CPUAssumption, Division
  <2>3. index \in 0 .. TableSize - 1
    BY <2>2, CPUAssumption, Division DEF BP!index_of
  <2>4. counters[index] \in 0 .. 3
    BY <2>3 DEF TypeOK, BP!Counter, BP!kStrongNotTaken, BP!kStrongTaken
  <2>5. counter \in BP!Counter
    BY <2>4 DEF BP!trained, BP!Counter, BP!kStrongNotTaken, BP!kStrongTaken
  <2>6. counters' = [counters EXCEPT ![index] = counter]
    BY <1>2 DEF BP!apply
  <2> HIDE DEF index, counter
  <2> QED
    BY <2>3, <2>5, <2>6 DEF TypeOK
<1> QED
  BY <1>1, <1>2

LEMMA UnitStep ==
  ASSUME TypeOK, NEW execute \in Maybe(Execute), NEW result_accepted \in BOOLEAN,
         FU!apply(execute, flush, result_accepted)
  PROVE  fu_result' \in Maybe(FUResult)
<1>1. CASE FU!accepts(execute, flush, result_accepted)
  <2>1. execute \in Execute
    BY <1>1 DEF FU!accepts, Maybe
  <2>2. fu_result' = FU!execute_instruction(execute)
    BY <1>1 DEF FU!apply
  <2> QED
    BY <2>1, <2>2, Execution DEF Maybe
<1>2. CASE ~FU!accepts(execute, flush, result_accepted)
  BY <1>2 DEF FU!apply, TypeOK, Maybe
<1> QED
  BY <1>1, <1>2

LEMMA MemoryStep ==
  ASSUME TypeOK, NEW request \in Maybe(MEM!DataMemoryRequest), MEM!apply(request)
  PROVE  /\ memory' \in Image
         /\ transaction' \in Maybe(MEM!DataTransaction)
         /\ response' \in Maybe(MEM!DataMemoryResponse)
<1>1. MEM!DataTransaction = [request : MEM!DataMemoryRequest, remaining_cycles : 1 .. DataLatency]
  BY DEF MEM!DataTransaction
<1>2. transaction # None =>
        /\ transaction \in MEM!DataTransaction
        /\ transaction.request \in MEM!DataMemoryRequest
        /\ transaction.remaining_cycles \in 1 .. DataLatency
  BY <1>1 DEF TypeOK, Maybe
<1>3. DataLatency \in Nat \ {0}
  BY CPUAssumption
<1>4. transaction' \in Maybe(MEM!DataTransaction)
  <2>1. CASE MEM!accepts(request)
    BY <1>1, <1>3, <2>1 DEF MEM!apply, MEM!next_transaction, MEM!accepts, Maybe
  <2>2. CASE ~MEM!accepts(request) /\ (transaction = None \/ MEM!completes)
    BY <2>2 DEF MEM!apply, MEM!next_transaction, Maybe
  <2>3. CASE ~MEM!accepts(request) /\ ~(transaction = None \/ MEM!completes)
    <3>1. transaction' = [transaction EXCEPT !.remaining_cycles = @ - 1]
      BY <2>3 DEF MEM!apply, MEM!next_transaction
    <3>2. transaction.remaining_cycles \in 2 .. DataLatency
      BY <1>2, <1>3, <2>3 DEF MEM!completes
    <3> QED
      BY <1>2, <1>3, <2>3, <3>1, <3>2 DEF MEM!DataTransaction, Maybe
  <2> QED
    BY <2>1, <2>2, <2>3
<1>5. ASSUME MEM!completes
      PROVE  /\ MEM!response_to(transaction.request) \in MEM!DataMemoryResponse
             /\ MEM!written(transaction.request) \in Image
  <2> DEFINE served == transaction.request
  <2>1. /\ served.is_store \in BOOLEAN /\ served.width \in MemoryWidth
        /\ served.address \in Word /\ served.value \in Word /\ served.tag \in RobTag
    BY <1>2, <1>5, SameRecords DEF MEM!completes
  <2> HIDE DEF served
  <2>2. memory \in Image
    BY DEF TypeOK
  <2>3. /\ MEM!read(memory, served.address, served.width) \in Maybe(Word)
        /\ MEM!in_bounds(served.address, served.width) \in BOOLEAN
    BY <2>1, <2>2, Reading
  <2>4. MEM!write(memory, served.address, served.width, served.value) \in Image
    BY <2>1, <2>2, Writing
  <2>5. MEM!response_to(served) \in MEM!DataMemoryResponse
    BY <2>1, <2>3, SameRecords, Sizes DEF MEM!response_to, Maybe
  <2>6. MEM!written(served) \in Image
    BY <2>2, <2>4 DEF MEM!written
  <2> QED
    BY <2>5, <2>6 DEF served
<1>6. memory' \in Image /\ response' \in Maybe(MEM!DataMemoryResponse)
  BY <1>5 DEF MEM!apply, TypeOK, Maybe
<1> QED
  BY <1>4, <1>6

----------------------------------------------------------------------------
(* The reservation station. *)

LEMMA LessThan == \A m, n \in Nat : <<m, n>> \in OpToRel(<, Nat) <=> m < n
BY Zenon DEF OpToRel

LEMMA SmallestOf ==
  ASSUME NEW S, S \subseteq Nat, S # {}
  PROVE  \E m \in S : \A n \in S : m <= n
<1>1. PICK m \in S : \A n \in S : ~(<<n, m>> \in OpToRel(<, Nat))
  BY NatLessThanWellFounded, WFMin
<1>2. \A n \in S : ~(n < m)
  BY <1>1, LessThan
<1> QED
  BY <1>2

(* The search for a ready entry, and that for a free slot, find one when   *)
(* there is one.                                                           *)
LEMMA Selection ==
  ASSUME TypeOK
  PROVE  /\ RS!select_ready_index \in Maybe(RS!ready_slots)
         /\ RS!select_ready_index = None <=> RS!ready_slots = {}
<1>1. None \notin RS!ready_slots
  BY NothingAssumption DEF RS!ready_slots
<1>2. CASE RS!ready_slots = {}
  BY <1>2 DEF RS!select_ready_index, Maybe
<1>3. CASE RS!ready_slots # {}
  <2> DEFINE distance(slot) == (slot + RsCapacity - rs_cursor) % RsCapacity
             distances == {distance(slot) : slot \in RS!ready_slots}
  <2>1. \A slot \in RS!ready_slots : distance(slot) \in Nat
    <3>1. RsCapacity \in Nat \ {0} /\ rs_cursor \in 0 .. RsCapacity - 1
      BY CPUAssumption DEF TypeOK, RsTypeOK, RS!Slot
    <3>2. \A slot \in RS!ready_slots : slot + RsCapacity - rs_cursor \in Nat
      BY <3>1 DEF RS!ready_slots, RS!Slot
    <3> QED
      BY <3>1, <3>2
  <2>2. PICK least \in distances : \A other \in distances : least <= other
    <3>1. distances \subseteq Nat /\ distances # {}
      BY <1>3, <2>1
    <3> QED
      BY <3>1, SmallestOf
  <2>3. \E slot \in RS!ready_slots :
          \A other \in RS!ready_slots : distance(slot) <= distance(other)
    BY <2>2
  <2>4. RS!select_ready_index =
          CHOOSE slot \in RS!ready_slots :
            \A other \in RS!ready_slots : distance(slot) <= distance(other)
    BY <1>3 DEF RS!select_ready_index
  <2> QED
    BY <1>1, <1>3, <2>3, <2>4 DEF Maybe
<1> QED
  BY <1>2, <1>3

LEMMA FreeIndex ==
  ASSUME NEW entries
  PROVE  /\ RS!find_free_index(entries) = None => \A slot \in RS!Slot : entries[slot] # None
         /\ RS!find_free_index(entries) # None =>
              /\ RS!find_free_index(entries) \in RS!Slot
              /\ entries[RS!find_free_index(entries)] = None
<1>1. CASE \A slot \in RS!Slot : entries[slot] # None
  BY <1>1 DEF RS!find_free_index
<1>2. CASE ~(\A slot \in RS!Slot : entries[slot] # None)
  <2> DEFINE frees == {slot \in RS!Slot : entries[slot] = None}
  <2>1. frees \subseteq Nat /\ frees # {}
    BY <1>2, CPUAssumption DEF RS!Slot
  <2>2. PICK slot \in frees : \A other \in frees : slot <= other
    BY <2>1, SmallestOf
  <2>3. \E s \in RS!Slot : /\ entries[s] = None
                           /\ \A other \in RS!Slot : entries[other] = None => s <= other
    BY <2>2
  <2>4. RS!find_free_index(entries) =
          CHOOSE s \in RS!Slot : /\ entries[s] = None
                                /\ \A other \in RS!Slot : entries[other] = None => s <= other
    BY <1>2 DEF RS!find_free_index
  <2> QED
    BY <2>3, <2>4, NothingAssumption
<1> QED
  BY <1>1, <1>2

Stations == [RS!Slot -> Maybe(RS!RSEntry)]

LEMMA Dispatch ==
  ASSUME TypeOK
  PROVE  dispatch \in Maybe(Execute)
<1>1. CASE flush \/ RS!select_ready_index = None
  BY <1>1 DEF dispatch, RS!dispatch, Maybe
<1>2. CASE ~(flush \/ RS!select_ready_index = None)
  <2> DEFINE entry == rs_cur[RS!select_ready_index]
  <2>1. entry \in RS!RSEntry
    BY <1>2, Selection DEF TypeOK, RsTypeOK, Maybe, RS!ready_slots
  <2>2. dispatch = RS!make_execute(entry)
    BY <1>2 DEF dispatch, RS!dispatch
  <2> HIDE DEF entry
  <2>3. /\ entry.op \in OP /\ entry.destination \in RobTag /\ entry.immediate \in Word
        /\ entry.pc \in Word /\ entry.lhs.value \in Word /\ entry.rhs.value \in Word
    BY <2>1, SameRecords DEF Operand
  <2> QED
    BY <2>2, <2>3, SameRecords DEF RS!make_execute, Maybe
<1> QED
  BY <1>1, <1>2

LEMMA StationWakes ==
  ASSUME NEW entry \in RS!RSEntry, NEW cdb \in Maybe(CDBMsg)
  PROVE  /\ RS!wake_entry(entry, cdb) \in RS!RSEntry
         /\ RS!wake_entry(entry, cdb).destination = entry.destination
         /\ RS!wake_entry(entry, cdb).op = entry.op
<1>1. \A value : RS!ready_operand(value) = ready_operand(value)
  BY DEF RS!ready_operand, ready_operand
<1>2. ASSUME NEW operand \in Operand
      PROVE  RS!wake_operand(operand, cdb) \in Operand
  BY <1>1 DEF RS!wake_operand, ready_operand, Operand, Maybe, CDBMsg
<1>3. entry # None
  BY NothingAssumption
<1>4. RS!wake_entry(entry, cdb) =
        [entry EXCEPT !.lhs = RS!wake_operand(@, cdb), !.rhs = RS!wake_operand(@, cdb)]
  BY <1>3 DEF RS!wake_entry
<1> QED
  BY <1>2, <1>4, SameRecords

(* What is left of the station when the dispatched entry is gone.          *)
LEMMA StationRemaining ==
  ASSUME TypeOK, NEW cdb \in Maybe(CDBMsg), NEW free \in BOOLEAN
  PROVE  LET left == RS!remaining(cdb, free)
         IN  /\ left \in Stations
             /\ \A slot \in RS!Slot :
                  /\ left[slot] # None <=> rs_cur[slot] # None /\ slot # RS!dispatched(free)
                  /\ left[slot] # None => left[slot] = RS!wake_entry(rs_cur[slot], cdb)
<1> DEFINE left == RS!remaining(cdb, free)
<1>1. ASSUME NEW slot \in RS!Slot
      PROVE  /\ left[slot] \in Maybe(RS!RSEntry)
             /\ left[slot] # None <=> rs_cur[slot] # None /\ slot # RS!dispatched(free)
             /\ left[slot] # None => left[slot] = RS!wake_entry(rs_cur[slot], cdb)
  <2>1. left[slot] = IF slot = RS!dispatched(free) THEN None
                     ELSE RS!wake_entry(rs_cur[slot], cdb)
    BY DEF RS!remaining
  <2>2. CASE rs_cur[slot] = None
    BY <2>1, <2>2 DEF RS!wake_entry, Maybe
  <2>3. CASE rs_cur[slot] # None
    <3>1. rs_cur[slot] \in RS!RSEntry
      BY <2>3 DEF TypeOK, RsTypeOK, Maybe
    <3> QED
      BY <2>1, <2>3, <3>1, StationWakes, NothingAssumption DEF Maybe
  <2> QED
    BY <2>2, <2>3
<1>2. left = [slot \in RS!Slot |-> left[slot]]
  BY DEF RS!remaining
<1>3. left \in Stations
  <2> HIDE DEF left
  <2> QED
    BY <1>1, <1>2 DEF Stations
<1> QED
  BY <1>1, <1>3

LEMMA StationStep ==
  ASSUME TypeOK, NEW issue_entry \in Maybe(RS!RSEntry), NEW cdb \in Maybe(CDBMsg),
         NEW free \in BOOLEAN, RS!apply(issue_entry, cdb, free, flush)
  PROVE  RsTypeOK'
<1>1. RsCapacity \in Nat \ {0} /\ 0 \in RS!Slot
  BY CPUAssumption DEF RS!Slot
<1>2. CASE flush
  BY <1>1, <1>2, RobHead DEF RS!apply, RsTypeOK, RS!no_entries, Maybe
<1>3. CASE ~flush
  <2> DEFINE left == RS!remaining(cdb, free)
             place == RS!find_free_index(left)
  <2>1. /\ rs_cur' = RS!insert(left, issue_entry)
        /\ rs_cursor' = IF RS!dispatched(free) = None THEN rs_cursor
                        ELSE RS!cursor_after(RS!dispatched(free))
    BY <1>3 DEF RS!apply
  <2>2. left \in Stations
    BY StationRemaining
  <2>3. place # None => place \in RS!Slot
    BY FreeIndex
  <2>4. rs_cur' = IF issue_entry = None \/ place = None THEN left
                  ELSE [left EXCEPT ![place] = issue_entry]
    BY <2>1 DEF RS!insert
  <2> HIDE DEF left, place
  <2>5. rs_cur' \in [RS!Slot -> Maybe(RS!RSEntry)]
    BY <2>2, <2>3, <2>4 DEF Stations
  <2>6. RS!dispatched(free) # None => RS!dispatched(free) \in RS!Slot
    BY Selection DEF RS!dispatched, Maybe, RS!ready_slots
  <2>7. rs_cursor' \in RS!Slot
    <3>1. \A slot \in RS!Slot : RS!cursor_after(slot) \in RS!Slot
      BY <1>1, Division DEF RS!cursor_after, RS!Slot
    <3> QED
      BY <2>1, <2>6, <3>1 DEF TypeOK, RsTypeOK
  <2> QED
    BY <2>5, <2>7 DEF RsTypeOK
<1> QED
  BY <1>2, <1>3

----------------------------------------------------------------------------
(* The load/store queue. *)

LEMMA QueueHead ==
  ASSUME TypeOK
  PROVE  /\ LSQ!front \in Maybe(LSQ!LSQEntry)
         /\ LSQ!front # None => lsq_count # 0 /\ LSQ!front = lsq_cur[lsq_head]
BY DEF LSQ!front, LSQ!empty, TypeOK, LsqTypeOK, Maybe

LEMMA QueueWires ==
  ASSUME TypeOK
  PROVE  /\ store_completion \in Maybe(RobTag)
         /\ memory_request \in Maybe(MEM!DataMemoryRequest)
         /\ LSQ!completed_load_result(response, FALSE) \in Maybe(FUResult)
         /\ LSQ!remove_head(response, FALSE) => LSQ!front # None
<1>1. LSQ!front # None =>
        /\ LSQ!front.op \in OP /\ LSQ!front.destination \in RobTag
        /\ LSQ!front.address \in Word /\ LSQ!front.store_data \in Operand
  BY QueueHead, SameRecords DEF Maybe
<1>2. LSQ!remove_head(response, FALSE) => LSQ!front # None /\ response # None
  BY DEF LSQ!remove_head, LSQ!matching_response
<1>3. store_completion \in Maybe(RobTag)
  <2>1. CASE store_completion = None
    BY <2>1 DEF Maybe
  <2>2. CASE store_completion # None
    <3>1. store_completion = LSQ!front.destination /\ LSQ!front # None
      BY <2>2 DEF store_completion, LSQ!store_completion, LSQ!remove_head, LSQ!matching_response
    <3> QED
      BY <1>1, <3>1 DEF Maybe
  <2> QED
    BY <2>1, <2>2
<1>4. memory_request \in Maybe(MEM!DataMemoryRequest)
  <2>1. CASE memory_request = None
    BY <2>1 DEF Maybe
  <2>2. CASE memory_request # None
    <3>1. memory_request = LSQ!make_memory_request(LSQ!front) /\ LSQ!front # None
      BY <2>2 DEF memory_request, LSQ!memory_request
    <3>2. LSQ!memory_width(LSQ!front.op) \in MemoryWidth
      BY DEF LSQ!memory_width, MemoryWidth, BYTE, HALF, WORD
    <3>3. LSQ!is_store(LSQ!front.op) \in BOOLEAN
      BY DEF LSQ!is_store
    <3>4. LSQ!front.store_data.value \in Word
      BY <1>1, <3>1 DEF Operand
    <3> QED
      BY <1>1, <3>1, <3>2, <3>3, <3>4, SameRecords, Sizes DEF LSQ!make_memory_request, Maybe
  <2> QED
    BY <2>1, <2>2
<1>5. LSQ!completed_load_result(response, FALSE) \in Maybe(FUResult)
  <2> DEFINE loaded == LSQ!completed_load_result(response, FALSE)
  <2>1. CASE loaded = None
    BY <2>1 DEF Maybe
  <2>2. CASE loaded # None
    <3>1. /\ LSQ!remove_head(response, FALSE)
          /\ loaded = [tag |-> LSQ!front.destination,
                       result |-> LSQ!extend_load_result(LSQ!front.op, response.value),
                       actual_next_pc |-> 0, branch_taken |-> FALSE,
                       has_control_result |-> FALSE]
      BY <2>2 DEF LSQ!completed_load_result
    <3>2. response.value \in Word
      BY <1>2, <3>1, SameRecords DEF TypeOK, Maybe
    <3>3. LSQ!extend_load_result(LSQ!front.op, response.value) \in Word
      BY <3>2, Extension
    <3>4. LSQ!front.destination \in RobTag
      BY <1>1, <1>2, <3>1
    <3>5. [tag |-> LSQ!front.destination,
           result |-> LSQ!extend_load_result(LSQ!front.op, response.value),
           actual_next_pc |-> 0, branch_taken |-> FALSE, has_control_result |-> FALSE]
            \in FUResult
      BY <3>3, <3>4, Sizes DEF FUResult, Address
    <3>6. loaded \in FUResult
      BY <3>1, <3>5, Zenon
    <3> QED
      BY <3>6, Zenon DEF Maybe
  <2> QED
    BY <2>1, <2>2
<1> QED
  BY <1>2, <1>3, <1>4, <1>5

Queues == [LSQ!Slot -> Maybe(LSQ!LSQEntry)]

LEMMA QueueWakes ==
  ASSUME NEW entry \in LSQ!LSQEntry, NEW cdb \in Maybe(CDBMsg)
  PROVE  /\ LSQ!wake_entry(entry, cdb) \in LSQ!LSQEntry
         /\ LSQ!addressed(entry) \in LSQ!LSQEntry
<1>1. \A value : LSQ!ready_operand(value) = ready_operand(value)
  BY DEF LSQ!ready_operand, ready_operand
<1>2. ASSUME NEW operand \in Operand
      PROVE  LSQ!wake_operand(operand, cdb) \in Operand
  BY <1>1 DEF LSQ!wake_operand, ready_operand, Operand, Maybe, CDBMsg
<1>3. entry # None
  BY NothingAssumption
<1>4. LSQ!wake_entry(entry, cdb) =
        [entry EXCEPT !.base = LSQ!wake_operand(@, cdb),
                      !.store_data = IF LSQ!is_store(entry.op) THEN LSQ!wake_operand(@, cdb)
                                     ELSE @]
  BY <1>3 DEF LSQ!wake_entry
<1>5. LSQ!wake_entry(entry, cdb) \in LSQ!LSQEntry
  BY <1>2, <1>4, SameRecords
<1>6. LSQ!add(entry.base.value, entry.immediate) \in Word
  <2>1. entry.base.value \in Word /\ entry.immediate \in Word
    BY SameRecords DEF Operand
  <2> QED
    BY <2>1, Additions, Sizes
<1>7. LSQ!addressed(entry) \in LSQ!LSQEntry
  BY <1>3, <1>6, SameRecords DEF LSQ!addressed
<1> QED
  BY <1>5, <1>7

LEMMA Served ==
  ASSUME NEW slot, NEW cdb, NEW removed \in BOOLEAN, NEW sent \in BOOLEAN
  PROVE  LSQ!served(slot, cdb, removed, sent) =
           LET entry == LSQ!wake_entry(lsq_cur[slot], cdb)
           IN  IF slot = lsq_head /\ removed THEN None
               ELSE IF slot = lsq_head /\ sent THEN LSQ!mark_request_sent(entry)
               ELSE entry
<1>1. CASE slot = lsq_head /\ removed
  BY <1>1 DEF LSQ!served
<1>2. CASE ~(slot = lsq_head /\ removed) /\ slot = lsq_head /\ sent
  BY <1>2 DEF LSQ!served
<1>3. CASE ~(slot = lsq_head /\ removed) /\ ~(slot = lsq_head /\ sent)
  BY <1>3 DEF LSQ!served
<1> QED
  BY <1>1, <1>2, <1>3

LEMMA QueueStep ==
  ASSUME TypeOK, NEW issue_entry \in Maybe(LSQ!LSQEntry), NEW cdb \in Maybe(CDBMsg),
         NEW request, request # None => LSQ!front # None, NEW granted \in BOOLEAN,
         LSQ!apply(issue_entry, cdb, response, request, granted, flush)
  PROVE  LsqTypeOK'
<1>1. LsqCapacity \in Nat \ {0} /\ 0 \in LSQ!Slot
  BY CPUAssumption DEF LSQ!Slot
<1>2. CASE flush
  BY <1>1, <1>2, RobHead DEF LSQ!apply, LSQ!clear, LsqTypeOK, LSQ!no_entries, Maybe
<1>3. CASE ~flush
  <2> DEFINE removed == LSQ!remove_head(response, FALSE)
             entries == [slot \in LSQ!Slot |->
                           LSQ!served(slot, cdb, removed, request # None)]
             inserted == IF LSQ!accepts(issue_entry)
                         THEN [entries EXCEPT ![lsq_tail] = issue_entry] ELSE entries
             loaded == LSQ!completed_load_result(response, FALSE)
  <2>1. LSQ!advance(issue_entry, cdb, response, request, granted)
    BY <1>3 DEF LSQ!apply
  <2>2. /\ lsq_cur' = [slot \in LSQ!Slot |-> LSQ!addressed(inserted[slot])]
        /\ lsq_head' = IF removed THEN LSQ!following(lsq_head) ELSE lsq_head
        /\ lsq_tail' = IF LSQ!accepts(issue_entry) THEN LSQ!following(lsq_tail) ELSE lsq_tail
        /\ lsq_count' = (lsq_count + (IF LSQ!accepts(issue_entry) THEN 1 ELSE 0))
                          - (IF removed THEN 1 ELSE 0)
        /\ lsq_load_result' = IF loaded # None THEN loaded
                              ELSE IF granted THEN None ELSE lsq_load_result
    BY <2>1 DEF LSQ!advance
  <2>3. ASSUME NEW slot \in LSQ!Slot
        PROVE  LSQ!served(slot, cdb, removed, request # None) \in Maybe(LSQ!LSQEntry)
    <3> DEFINE entry == LSQ!wake_entry(lsq_cur[slot], cdb)
    <3>1. LSQ!served(slot, cdb, removed, request # None) =
            IF slot = lsq_head /\ removed THEN None
            ELSE IF slot = lsq_head /\ request # None THEN LSQ!mark_request_sent(entry)
            ELSE entry
      <4>1. removed \in BOOLEAN
        BY DEF LSQ!remove_head
      <4> HIDE DEF removed
      <4> QED
        BY <4>1, Served
    <3>2. CASE lsq_cur[slot] = None
      <4>1. entry = None
        BY <3>2 DEF LSQ!wake_entry
      <4>2. slot = lsq_head => request = None
        BY <3>2, QueueHead
      <4> QED
        BY <3>1, <4>1, <4>2 DEF Maybe
    <3>3. CASE lsq_cur[slot] # None
      <4>1. entry \in LSQ!LSQEntry
        BY <3>3, QueueWakes DEF TypeOK, LsqTypeOK, Maybe
      <4> HIDE DEF entry
      <4>2. LSQ!mark_request_sent(entry) \in LSQ!LSQEntry
        BY <4>1 DEF LSQ!mark_request_sent, LSQ!LSQEntry
      <4> QED
        BY <3>1, <4>1, <4>2 DEF Maybe
    <3> QED
      BY <3>2, <3>3
  <2>4. entries \in Queues
    BY <2>3 DEF Queues
  <2> HIDE DEF entries, removed
  <2>5. inserted \in Queues
    BY <2>4 DEF Queues, LSQ!accepts, Maybe
  <2> HIDE DEF inserted
  <2>6. ASSUME NEW slot \in LSQ!Slot
        PROVE  LSQ!addressed(inserted[slot]) \in Maybe(LSQ!LSQEntry)
    <3>1. CASE inserted[slot] = None
      BY <3>1 DEF LSQ!addressed, Maybe
    <3>2. CASE inserted[slot] # None
      BY <2>5, <3>2, QueueWakes DEF Queues, Maybe
    <3> QED
      BY <3>1, <3>2
  <2>7. lsq_cur' \in [LSQ!Slot -> Maybe(LSQ!LSQEntry)]
    BY <2>2, <2>6
  <2>8. \A slot \in LSQ!Slot : LSQ!following(slot) \in LSQ!Slot
    BY <1>1, Division DEF LSQ!following, LSQ!Slot
  <2>9. lsq_head' \in LSQ!Slot /\ lsq_tail' \in LSQ!Slot
    BY <2>2, <2>8 DEF TypeOK, LsqTypeOK
  <2>10. removed => lsq_count # 0
    BY QueueWires, QueueHead DEF removed
  <2>11. LSQ!accepts(issue_entry) => lsq_count # LsqCapacity
    BY DEF LSQ!accepts, LSQ!full
  <2>12. lsq_count' \in 0 .. LsqCapacity
    BY <1>1, <2>2, <2>10, <2>11 DEF TypeOK, LsqTypeOK
  <2>13. lsq_load_result' \in Maybe(FUResult)
    BY <2>2, QueueWires DEF TypeOK, LsqTypeOK, Maybe
  <2> QED
    BY <2>7, <2>9, <2>12, <2>13 DEF LsqTypeOK
<1> QED
  BY <1>2, <1>3

----------------------------------------------------------------------------
(* The issue unit. *)

LEMMA Fetching ==
  ASSUME TypeOK
  PROVE  packet \in Maybe(Issue!DecodePacket)
<1>1. CASE ~fetch_attempted \/ fetched = None
  BY <1>1 DEF packet, Maybe
<1>2. CASE ~(~fetch_attempted \/ fetched = None)
  <2>1. current_pc \in Word /\ memory \in Image /\ MEM!WORD \in MemoryWidth
    BY DEF TypeOK, Address, MEM!WORD, MemoryWidth, BYTE, HALF, WORD
  <2>2. fetched \in Word
    BY <1>2, <2>1, Reading DEF fetched, MEM!fetch, Maybe
  <2>3. Decode[fetched] \in DecodedInstruction
    BY <2>2, CPUAssumption
  <2>4. \A decoded \in DecodedInstruction : predicted_next_pc(decoded, current_pc) \in Word
    BY <2>1, Additions, Sizes, CPUAssumption DEF predicted_next_pc, DecodedInstruction
  <2>5. packet = [pc |-> current_pc, decoded |-> Decode[fetched],
                  predicted_pc |-> predicted_next_pc(Decode[fetched], current_pc)]
    BY <1>2 DEF packet
  <2> QED
    BY <2>1, <2>3, <2>4, <2>5, SameRecords DEF Maybe
<1> QED
  BY <1>1, <1>2

LEMMA Lookup ==
  ASSUME TypeOK, NEW tag \in Maybe(RobTag)
  PROVE  /\ ROB!lookup(tag) \in Maybe(ROB!ROBEntry)
         /\ ROB!lookup(tag) # None =>
              /\ tag \in RobTag /\ rob_cur[tag.index] # None
              /\ rob_cur[tag.index].tag = tag /\ ROB!lookup(tag) = rob_cur[tag.index]
<1>1. ROB!lookup(tag) # None =>
        /\ tag # None /\ rob_cur[tag.index] # None
        /\ rob_cur[tag.index].tag = tag /\ ROB!lookup(tag) = rob_cur[tag.index]
  BY DEF ROB!lookup, ROB!matching_entry
<1>2. tag # None => tag \in RobTag /\ tag.index \in RobIndex
  BY DEF Maybe, RobTag
<1> QED
  BY <1>1, <1>2 DEF TypeOK, RobTypeOK, Maybe

LEMMA Sources ==
  ASSUME TypeOK, NEW r \in RegisterIndex
  PROVE  Issue!resolve_register(r, source_state(r), broadcast) \in Operand
<1> DEFINE source == source_state(r)
           producer == RAT!lookup(r)
<1>1. producer \in Maybe(RobTag)
  BY DEF RAT!lookup, TypeOK, Maybe
<1>2. /\ source.producer = producer
      /\ source.architectural_value = IF r = 0 THEN 0 ELSE register[r]
      /\ source.producer_value \in {0, ROB!lookup(producer).value}
      /\ source.producer_value = 0 \/ ROB!lookup(producer) # None
  BY DEF source_state
<1>3. source.architectural_value \in Word
  BY <1>2, Sizes DEF TypeOK
<1>4. source.producer_value \in Word
  <2>1. ROB!lookup(producer) # None => ROB!lookup(producer).value \in Word
    BY <1>1, Lookup, SameRecords DEF Maybe
  <2> QED
    BY <1>2, <2>1, Sizes
<1> HIDE DEF source, producer
<1>5. /\ \A value : Issue!ready_operand(value) = ready_operand(value)
      /\ \A tag : Issue!waiting_operand(tag) = waiting_operand(tag)
  BY DEF Issue!ready_operand, ready_operand, Issue!waiting_operand, waiting_operand
<1>6. /\ \A value \in Word : ready_operand(value) \in Operand
      /\ \A tag \in RobTag : waiting_operand(tag) \in Operand
  BY Sizes DEF ready_operand, waiting_operand, Operand, Maybe
<1>7. broadcast # None => broadcast.value \in Word
  BY Bus DEF Maybe, CDBMsg
<1>8. Issue!resolve_register(r, source, broadcast) \in Operand
  BY <1>1, <1>2, <1>3, <1>4, <1>5, <1>6, <1>7, Sizes DEF Issue!resolve_register, Maybe
<1> QED
  BY <1>8 DEF source

(* A tag is handed out only by a ring that has room.                       *)
LEMMA Tag ==
  ASSUME TypeOK
  PROVE  /\ ROB!next_tag \in Maybe(RobTag)
         /\ ROB!next_tag = None <=> ROB!full
<1>1. ROB!following_generation(rob_generations[rob_tail]) \in TagGeneration
  BY SignalsAssumption DEF ROB!following_generation, TagGeneration, TypeOK, RobTypeOK
<1>2. [index |-> rob_tail,
       generation |-> ROB!following_generation(rob_generations[rob_tail])] \in RobTag
  BY <1>1 DEF TypeOK, RobTypeOK, RobTag
<1> QED
  BY <1>2, NoneAssumption DEF ROB!next_tag, Maybe

(* What the issue unit sends goes to every queue at once.                  *)
LEMMA IssueWires ==
  ASSUME TypeOK
  PROVE  /\ issue_outputs.rob \in Maybe(ROB!ROBEntry)
         /\ issue_outputs.rs \in Maybe(RS!RSEntry)
         /\ issue_outputs.lsq \in Maybe(LSQ!LSQEntry)
         /\ issue_outputs.rename \in Maybe(RAT!RATWrite)
         /\ issue_outputs.rob # None =>
              /\ issue_outputs.status = "Issued"
              /\ packet # None /\ packet \in Issue!DecodePacket
              /\ ROB!next_tag # None /\ ~ROB!full
              /\ issue_outputs = issued(packet, ROB!next_tag)
              /\ Issue!need_rs(packet.decoded.op) => issue_outputs.rs # None
              /\ Issue!need_lsq(packet.decoded.op) => issue_outputs.lsq # None
         /\ issue_outputs.rob = None =>
              /\ issue_outputs.status # "Issued"
              /\ issue_outputs.rs = None /\ issue_outputs.lsq = None
              /\ issue_outputs.rename = None
<1> DEFINE answer == Issue!issue_status(packet, ROB!next_tag, ~ROB!full, RS!available, ~LSQ!full)
<1>1. issue_outputs = IF answer = "Issued" THEN issued(packet, ROB!next_tag)
                      ELSE no_issue(answer)
  BY DEF issue_outputs
<1>2. CASE answer = "Issued"
  <2>1. packet # None /\ ROB!next_tag # None
    BY <1>2 DEF Issue!issue_status
  <2>2. packet \in Issue!DecodePacket /\ ROB!next_tag \in RobTag /\ ~ROB!full
    BY <2>1, Fetching, Tag DEF Maybe
  <2> DEFINE instruction == packet.decoded
             rs1 == Issue!resolve_register(instruction.rs1, source_state(instruction.rs1), broadcast)
             rs2 == Issue!resolve_register(instruction.rs2, source_state(instruction.rs2), broadcast)
             tag == ROB!next_tag
  <2>3. /\ instruction.op \in OP /\ instruction.rd \in RegisterIndex
        /\ instruction.rs1 \in RegisterIndex /\ instruction.rs2 \in RegisterIndex
        /\ instruction.immediate \in Word /\ packet.pc \in Word /\ packet.predicted_pc \in Word
    BY <2>2, SameRecords DEF DecodedInstruction
  <2>4. rs1 \in Operand /\ rs2 \in Operand
    BY <2>3, Sources
  <2>5. issued(packet, tag) =
          [status |-> "Issued",
           rob |-> Issue!rob_entry(packet, tag),
           rs |-> IF Issue!need_rs(instruction.op) THEN Issue!rs_entry(packet, tag, rs1, rs2)
                  ELSE None,
           lsq |-> IF Issue!need_lsq(instruction.op) THEN Issue!lsq_entry(packet, tag, rs1, rs2)
                   ELSE None,
           rename |-> IF Issue!renames(instruction) THEN [rd |-> instruction.rd, tag |-> tag]
                      ELSE None]
    BY DEF issued
  <2> HIDE DEF rs1, rs2, tag
  <2>6. \A value \in Word : Issue!ready_operand(value) \in Operand
    BY DEF Issue!ready_operand, Operand, Maybe
  <2>7. Issue!rob_entry(packet, tag) \in ROB!ROBEntry
    <3>1. Issue!renames(instruction) \in BOOLEAN
      BY DEF Issue!renames, Issue!writes_rd
    <3> QED
      BY <2>2, <2>3, <3>1, SameRecords, Sizes DEF Issue!rob_entry, tag
  <2>8. Issue!rs_entry(packet, tag, rs1, rs2) \in RS!RSEntry
    <3>1. ASSUME NEW source, NEW operand \in Operand
          PROVE  Issue!select_operand(source, operand, instruction.immediate, packet.pc)
                   \in Operand
      BY <2>3, <2>6, Sizes DEF Issue!select_operand
    <3> QED
      BY <2>2, <2>3, <2>4, <3>1, SameRecords DEF Issue!rs_entry, tag
  <2>9. Issue!lsq_entry(packet, tag, rs1, rs2) \in LSQ!LSQEntry
    BY <2>2, <2>3, <2>4, <2>6, SameRecords, Sizes DEF Issue!lsq_entry, tag
  <2>10. [rd |-> instruction.rd, tag |-> tag] \in RAT!RATWrite
    BY <2>2, <2>3, SameRecords DEF tag
  <2>11. /\ Issue!rob_entry(packet, tag) # None
         /\ Issue!rs_entry(packet, tag, rs1, rs2) # None
         /\ Issue!lsq_entry(packet, tag, rs1, rs2) # None
    BY <2>7, <2>8, <2>9, NothingAssumption
  <2>12. issue_outputs = issued(packet, tag)
    BY <1>1, <1>2 DEF tag
  <2> QED
    BY <2>1, <2>2, <2>5, <2>7, <2>8, <2>9, <2>10, <2>11, <2>12 DEF Maybe, tag
<1>3. CASE answer # "Issued"
  BY <1>1, <1>3 DEF no_issue, Maybe
<1> QED
  BY <1>2, <1>3

----------------------------------------------------------------------------
(* The CPU. *)

(* Construction and CPU::load() put the same values everywhere, but for    *)
(* the image.                                                              *)
LEMMA ResetTypes ==
  /\ [slot \in RobIndex |-> None] \in Entries /\ 0 \in RobIndex /\ 0 \in 0 .. RobCapacity
  /\ [slot \in RobIndex |-> 0] \in [RobIndex -> TagGeneration]
  /\ RAT!invalidated \in [RegisterIndex -> Maybe(RobTag)]
  /\ [r \in RegisterIndex |-> 0] \in [RegisterIndex -> Word] /\ 0 \in RegisterIndex
  /\ RS!no_entries \in Stations /\ 0 \in RS!Slot
  /\ LSQ!no_entries \in Queues /\ 0 \in LSQ!Slot /\ 0 \in 0 .. LsqCapacity
  /\ BP!weak_not_taken \in [0 .. TableSize - 1 -> BP!Counter]
  /\ 0 \in Byte /\ 0 \in Address
<1>1. 0 \in RobIndex /\ 0 \in 0 .. RobCapacity /\ 0 \in TagGeneration /\ 0 \in RegisterIndex
  BY SignalsAssumption DEF RobIndex, TagGeneration, RegisterIndex
<1>2. 0 \in RS!Slot /\ 0 \in LSQ!Slot /\ 0 \in 0 .. LsqCapacity
  BY CPUAssumption DEF RS!Slot, LSQ!Slot
<1>3. RAT!invalidated \in [RegisterIndex -> Maybe(RobTag)]
  BY SameSignals DEF RAT!invalidated, Maybe
<1>4. BP!weak_not_taken \in [0 .. TableSize - 1 -> BP!Counter]
  BY DEF BP!weak_not_taken, BP!Counter, BP!kStrongNotTaken, BP!kStrongTaken, BP!kWeakNotTaken
<1>5. 0 \in Byte /\ 0 \in Address /\ 0 \in Word
  BY Sizes DEF Byte, Address
<1> QED
  BY <1>1, <1>2, <1>3, <1>4, <1>5
     DEF Entries, Stations, Queues, RS!no_entries, LSQ!no_entries, Maybe

LEMMA InitTypes == Init => TypeOK
<1> SUFFICES ASSUME Init PROVE TypeOK
  OBVIOUS
<1>1. RobTypeOK
  BY ResetTypes, SameSignals DEF Init, ROB!Init, RobTypeOK, Entries
<1>2. RsTypeOK /\ LsqTypeOK
  BY ResetTypes DEF Init, RS!Init, LSQ!Init, RsTypeOK, LsqTypeOK, Stations, Queues, Maybe
<1>3. /\ rat \in [RegisterIndex -> Maybe(RobTag)]
      /\ register \in [RegisterIndex -> Word] /\ register[0] = 0
      /\ fu_result \in Maybe(FUResult) /\ prefer_load \in BOOLEAN
      /\ counters \in [0 .. TableSize - 1 -> BP!Counter]
  BY ResetTypes, SameSignals
     DEF Init, RAT!Init, RF!Init, FU!Init, CDB!Init, BP!Init, Maybe
<1>4. /\ memory \in Image
      /\ transaction \in Maybe(MEM!DataTransaction)
      /\ response \in Maybe(MEM!DataMemoryResponse)
  BY ResetTypes DEF Init, MEM!Init, Image, Maybe
<1>5. /\ current_pc \in Address /\ fetch_stopped \in BOOLEAN
      /\ status \in Status /\ exit_code \in Byte
  BY ResetTypes DEF Init, Status
<1> QED
  BY <1>1, <1>2, <1>3, <1>4, <1>5 DEF TypeOK

LEMMA LoadTypes == Load => TypeOK'
<1> SUFFICES ASSUME Load PROVE TypeOK'
  OBVIOUS
<1>1. RobTypeOK'
  BY ResetTypes, SameSignals DEF Load, ROB!reset, RobTypeOK, Entries
<1>2. RsTypeOK' /\ LsqTypeOK'
  BY ResetTypes DEF Load, RS!reset, LSQ!reset, RsTypeOK, LsqTypeOK, Stations, Queues, Maybe
<1>3. /\ rat' \in [RegisterIndex -> Maybe(RobTag)]
      /\ register' \in [RegisterIndex -> Word] /\ register'[0] = 0
      /\ fu_result' \in Maybe(FUResult) /\ prefer_load' \in BOOLEAN
      /\ counters' \in [0 .. TableSize - 1 -> BP!Counter]
  BY ResetTypes, SameSignals
     DEF Load, RAT!reset, RF!reset, FU!reset, CDB!reset, BP!reset, Maybe
<1>4. /\ memory' \in Image
      /\ transaction' \in Maybe(MEM!DataTransaction)
      /\ response' \in Maybe(MEM!DataMemoryResponse)
  BY CPUAssumption DEF Load, MEM!load, MEM!reset, Maybe
<1>5. /\ current_pc' \in Address /\ fetch_stopped' \in BOOLEAN
      /\ status' \in Status /\ exit_code' \in Byte
  BY ResetTypes DEF Load, Status
<1> QED
  BY <1>1, <1>2, <1>3, <1>4, <1>5 DEF TypeOK

(* The components' shares of a cycle, with the wires in between.           *)
LEMMA CycleParts ==
  ASSUME Cycle
  PROVE  /\ status = "Running"
         /\ CDB!apply(integer_result, load_result)
         /\ ROB!apply(issue_outputs.rob, completion, store_completion)
         /\ RS!apply(issue_outputs.rs, broadcast, fu_available, flush)
         /\ LSQ!apply(issue_outputs.lsq, broadcast, response, memory_request, load_granted, flush)
         /\ FU!apply(dispatch, flush, integer_granted)
         /\ RF!apply(register_write)
         /\ RAT!apply(issue_outputs.rename, rat_commit, flush)
         /\ BP!apply(predictor_update)
         /\ MEM!apply(memory_request)
         /\ current_pc' = next_pc(issue_outputs)
         /\ fetch_stopped' = next_fetch_stopped(issue_outputs)
         /\ status' = next_status(issue_outputs)
         /\ exit_code' = next_exit_code
BY DEF Cycle

LEMMA CommitWires ==
  ASSUME TypeOK
  PROVE  /\ register_write \in Maybe(RF!RegisterWrite)
         /\ rat_commit \in Maybe(RAT!RATWrite)
         /\ predictor_update \in Maybe(ROB!ROBEntry)
<1>1. commit = None \/ commit \in ROB!ROBEntry
  BY RobHead DEF commit, Maybe
<1>2. commit # None =>
        /\ commit.rd \in RegisterIndex /\ commit.value \in Word /\ commit.tag \in RobTag
  BY <1>1, SameRecords
<1> QED
  BY <1>1, <1>2, SameRecords DEF register_write, rat_commit, predictor_update, Maybe

LEMMA CycleTypes == TypeOK /\ Cycle => TypeOK'
<1> SUFFICES ASSUME TypeOK, Cycle PROVE TypeOK'
  OBVIOUS
<1>1. RobTypeOK'
  BY CycleParts, IssueWires, Bus, QueueWires, RobStep
<1>2. RsTypeOK'
  <2>1. fu_available \in BOOLEAN
    BY Bus DEF fu_available, FU!can_accept
  <2> QED
    BY <2>1, CycleParts, IssueWires, Bus, StationStep
<1>3. LsqTypeOK'
  <2>1. memory_request # None => LSQ!front # None
    BY DEF memory_request, LSQ!memory_request
  <2> QED
    BY <2>1, CycleParts, IssueWires, Bus, QueueStep
<1>4. rat' \in [RegisterIndex -> Maybe(RobTag)]
  BY CycleParts, IssueWires, CommitWires, RatStep
<1>5. register' \in [RegisterIndex -> Word] /\ register'[0] = 0
  BY CycleParts, CommitWires, RegisterStep
<1>6. fu_result' \in Maybe(FUResult) /\ prefer_load' \in BOOLEAN
  BY CycleParts, Bus, Dispatch, UnitStep, BusStep
<1>7. counters' \in [0 .. TableSize - 1 -> BP!Counter]
  BY CycleParts, CommitWires, PredictorStep
<1>8. /\ memory' \in Image
      /\ transaction' \in Maybe(MEM!DataTransaction)
      /\ response' \in Maybe(MEM!DataMemoryResponse)
  BY CycleParts, QueueWires, MemoryStep
<1>9. current_pc' \in Address
  <2>1. flush => redirect_pc \in Word
    <3>1. flush => ROB!front # None
      BY DEF flush
    <3> QED
      BY <3>1, RobHead, SameRecords DEF redirect_pc, Maybe
  <2>2. issue_outputs.rob # None => issue_outputs.rob.predicted_next_pc \in Word
    BY IssueWires, SameRecords DEF Maybe
  <2> QED
    BY <2>1, <2>2, CycleParts DEF next_pc, TypeOK, Address
<1>10. fetch_stopped' \in BOOLEAN
  BY CycleParts DEF next_fetch_stopped
<1>11. status' \in Status
  BY CycleParts DEF next_status, TypeOK, Status
<1>12. exit_code' \in Byte
  <2>1. register[ExitRegister] \in Nat
    BY CPUAssumption, Sizes DEF TypeOK
  <2> QED
    BY <2>1, CycleParts, Division, Sizes DEF next_exit_code, TypeOK, Byte
<1> QED
  BY <1>1, <1>2, <1>3, <1>4, <1>5, <1>6, <1>7, <1>8, <1>9, <1>10, <1>11, <1>12 DEF TypeOK

LEMMA NextTypes == TypeOK /\ [Next]_vars => TypeOK'
<1>1. TypeOK /\ UNCHANGED vars => TypeOK'
  BY DEF vars, coreVars, TypeOK, RobTypeOK, RsTypeOK, LsqTypeOK
<1> QED
  BY <1>1, LoadTypes, CycleTypes DEF Next

(* Every latch, wire and architectural register of cpu.cpp holds a value   *)
(* of its C++ type whatever program is loaded, whatever the predictor      *)
(* guesses and however long the CPU runs: rings keep their indices, no     *)
(* address or result outgrows a register, x0 stays 0.                      *)
THEOREM TypeCorrect == Spec => []TypeOK
<1>1. Init => TypeOK
  BY InitTypes
<1>2. TypeOK /\ [MainNext]_vars => TypeOK'
  BY NextTypes DEF MainNext, LoadOnce, Next
<1> QED
  BY <1>1, <1>2, PTL DEF Spec

----------------------------------------------------------------------------
(* The ring. *)

(* The CPU's ring is contiguous, like any reorder buffer (ReorderBuffer):   *)
(* exactly the rob_count oldest places are taken.                          *)
RobContiguous ==
  /\ \A slot \in RobIndex : rob_cur[slot] # None <=> age(slot) < rob_count
  /\ rob_tail = IF rob_head + rob_count >= RobCapacity
                THEN rob_head + rob_count - RobCapacity ELSE rob_head + rob_count

(* A tag in flight is the latest its slot gave out. *)
RobTagged ==
  \A slot \in RobIndex : rob_cur[slot] # None =>
    rob_cur[slot].tag = [index |-> slot, generation |-> rob_generations[slot]]

(* x0 has no writer. *)
WritersNameRegisters ==
  \A slot \in RobIndex :
    rob_cur[slot] # None /\ rob_cur[slot].writes_rd => rob_cur[slot].rd # 0

RingInv == TypeOK /\ RobContiguous /\ RobTagged /\ WritersNameRegisters

IInv == RingInv /\ RatNamesYoungestWriter /\ StoppedBehindHalt

----------------------------------------------------------------------------
(* Going round the ring. *)

(* Ages without the modulo. *)
LEMMA Ages ==
  ASSUME TypeOK, NEW slot \in RobIndex
  PROVE  /\ age(slot) = IF slot >= rob_head THEN slot - rob_head
                        ELSE slot + RobCapacity - rob_head
         /\ age(slot) \in RobIndex /\ age(slot) \in Nat
         /\ age(slot) = 0 <=> slot = rob_head
<1>1. /\ RobCapacity \in Nat /\ RobCapacity > 0
      /\ slot \in Nat /\ slot < RobCapacity
      /\ rob_head \in Nat /\ rob_head < RobCapacity
  BY SignalsAssumption DEF RobIndex, TypeOK, RobTypeOK
<1>2. CASE slot >= rob_head
  <2> DEFINE d == slot - rob_head
  <2>1. d \in Nat /\ d < RobCapacity /\ slot + RobCapacity - rob_head = d + RobCapacity
    BY <1>1, <1>2
  <2> HIDE DEF d
  <2>2. (d + RobCapacity) % RobCapacity = d
    BY <1>1, <2>1
  <2> QED
    BY <1>1, <1>2, <2>1, <2>2 DEF age, RobIndex, d
<1>3. CASE slot < rob_head
  <2> DEFINE d == slot + RobCapacity - rob_head
  <2>1. d \in Nat /\ d < RobCapacity /\ d > 0
    BY <1>1, <1>3
  <2> HIDE DEF d
  <2>2. d % RobCapacity = d
    BY <1>1, <2>1
  <2> QED
    BY <1>1, <1>3, <2>1, <2>2 DEF age, RobIndex, d
<1> QED
  BY <1>1, <1>2, <1>3

AgesInRange == \A slot \in RobIndex : age(slot) \in RobIndex
LEMMA AllAges == TypeOK => AgesInRange
BY Ages DEF AgesInRange

LEMMA AgesDiffer ==
  ASSUME TypeOK, NEW one \in RobIndex, NEW other \in RobIndex, age(one) = age(other)
  PROVE  one = other
<1>1. /\ RobCapacity \in Nat /\ RobCapacity > 0
      /\ rob_head \in Nat /\ rob_head < RobCapacity
      /\ one \in Nat /\ one < RobCapacity /\ other \in Nat /\ other < RobCapacity
  BY SignalsAssumption DEF RobIndex, TypeOK, RobTypeOK
<1> QED
  BY <1>1, Ages

(* The slot behind another. *)
LEMMA Following ==
  ASSUME NEW slot \in RobIndex
  PROVE  /\ ROB!following_slot(slot) \in RobIndex
         /\ ROB!following_slot(slot) = IF slot + 1 = RobCapacity THEN 0 ELSE slot + 1
<1>1. RobCapacity \in Nat /\ RobCapacity > 0
  BY SignalsAssumption
<1>2. slot \in Nat /\ slot + 1 <= RobCapacity
  BY <1>1 DEF RobIndex
<1>3. CASE slot + 1 = RobCapacity
  <2>1. (slot + 1) % RobCapacity = 0
    BY <1>1, <1>2, <1>3
  <2> QED
    BY <2>1, <1>1, <1>3 DEF ROB!following_slot, RobIndex
<1>4. CASE slot + 1 # RobCapacity
  <2>1. (slot + 1) % RobCapacity = slot + 1
    BY <1>1, <1>2, <1>4
  <2> QED
    BY <2>1, <1>1, <1>2, <1>4 DEF ROB!following_slot, RobIndex
<1> QED
  BY <1>3, <1>4

(* While there is room, the tail is the only place of age rob_count. *)
LEMMA AgeOfTheTail ==
  ASSUME TypeOK, RobContiguous, ~ROB!full
  PROVE  /\ rob_count \in Nat /\ rob_count < RobCapacity
         /\ age(rob_tail) = rob_count /\ rob_cur[rob_tail] = None
<1>1. /\ RobCapacity \in Nat /\ RobCapacity > 0
      /\ rob_head \in Nat /\ rob_head < RobCapacity
      /\ rob_count \in Nat /\ rob_count < RobCapacity /\ rob_tail \in RobIndex
  BY SignalsAssumption DEF RobIndex, TypeOK, RobTypeOK, ROB!full
<1>2. age(rob_tail) = rob_count
  BY <1>1, Ages DEF RobContiguous, RobIndex
<1> QED
  BY <1>1, <1>2 DEF RobContiguous

(* When the head moves on, everything is one place older. *)
LEMMA AgesBehindTheHead ==
  ASSUME TypeOK, rob_head' = ROB!following_slot(rob_head), NEW slot \in RobIndex
  PROVE  age(slot)' = IF slot = rob_head THEN RobCapacity - 1 ELSE age(slot) - 1
<1>1. /\ RobCapacity \in Nat /\ RobCapacity > 0
      /\ slot \in Nat /\ slot < RobCapacity /\ rob_head \in RobIndex
      /\ rob_head \in Nat /\ rob_head < RobCapacity
  BY SignalsAssumption DEF RobIndex, TypeOK, RobTypeOK
<1>2. rob_head' = IF rob_head + 1 = RobCapacity THEN 0 ELSE rob_head + 1
  BY <1>1, Following
<1> DEFINE d == slot + RobCapacity - rob_head'
<1>3. age(slot)' = d % RobCapacity
  BY DEF age
<1>4. CASE d < RobCapacity
  <2>1. d \in Nat
    BY <1>1, <1>2
  <2>2. d % RobCapacity = d
    BY <1>1, <2>1, <1>4
  <2> QED
    BY <1>1, <1>2, <1>3, <2>1, <2>2, <1>4, Ages
<1>5. CASE d >= RobCapacity
  <2> DEFINE e == d - RobCapacity
  <2>1. e \in Nat /\ e < RobCapacity /\ d = e + RobCapacity
    BY <1>1, <1>2, <1>5
  <2> HIDE DEF e, d
  <2>2. (e + RobCapacity) % RobCapacity = e
    BY <1>1, <2>1
  <2>3. age(slot)' = e
    BY <1>3, <2>1, <2>2
  <2> QED
    BY <1>1, <1>2, <1>5, <2>3, Ages DEF e, d
<1> QED
  BY <1>1, <1>2, <1>4, <1>5

----------------------------------------------------------------------------
(* What one cycle does to the instructions in flight.                      *)

(* The head of the ring commits. *)
retired == IF commit = None THEN 0 ELSE 1

(* The instruction in the slot is neither flushed nor committed now. *)
stays(slot) ==
  /\ rob_cur[slot] # None /\ ~flush
  /\ commit # None => slot # rob_head

joins(slot) == slot = rob_tail /\ ~flush /\ issue_outputs.rob # None

(* The entries once this cycle's results are recorded. *)
with_results ==
  ROB!apply_store_completion(ROB!apply_completion(rob_cur, completion), store_completion)

(* The entry the issue unit makes is one the ring accepts. *)
LEMMA IssuedEntry ==
  ASSUME TypeOK, issue_outputs.rob # None
  PROVE  /\ ROB!accepts(issue_outputs.rob) /\ ~ROB!full
         /\ issue_outputs.rob \in ROB!ROBEntry
         /\ issue_outputs.rob = Issue!rob_entry(packet, ROB!next_tag)
         /\ issue_outputs.rob.tag = ROB!next_tag
         /\ issue_outputs.rob.tag =
              [index |-> rob_tail,
               generation |-> ROB!following_generation(rob_generations[rob_tail])]
<1>1. /\ issue_outputs.rob \in ROB!ROBEntry /\ ~ROB!full
      /\ issue_outputs = issued(packet, ROB!next_tag)
  BY IssueWires DEF Maybe
<1>2. issue_outputs.rob = Issue!rob_entry(packet, ROB!next_tag)
  BY <1>1 DEF issued
<1>3. issue_outputs.rob.tag = ROB!next_tag
  BY <1>2 DEF Issue!rob_entry
<1> QED
  BY <1>1, <1>2, <1>3 DEF ROB!accepts, ROB!next_tag

(* Nothing commits from an empty ring, and a flush commits. *)
LEMMA Retiring ==
  ASSUME TypeOK
  PROVE  /\ commit # None => rob_count > 0 /\ commit = rob_cur[rob_head] /\ commit.ready
         /\ flush => commit # None
         /\ retired \in {0, 1} /\ retired <= rob_count
<1>1. rob_count \in Nat
  BY SignalsAssumption DEF TypeOK, RobTypeOK
<1> QED
  BY <1>1, RobHead DEF commit, retired

(* The flight of the instructions through one cycle: slot by slot, those   *)
(* that stay are the same and move up, the issued one is behind them all.  *)
LEMMA CycleOfTheRing ==
  ASSUME RingInv, Cycle
  PROVE  /\ \A slot \in RobIndex :
              rob_cur'[slot] # None <=> stays(slot) \/ joins(slot)
         /\ \A slot \in RobIndex : stays(slot) =>
              /\ SameInstruction(rob_cur'[slot], rob_cur[slot])
              /\ rob_cur'[slot] = with_results[slot]
              /\ rob_generations'[slot] = rob_generations[slot]
              /\ age(slot)' = age(slot) - retired
         /\ \A slot \in RobIndex : joins(slot) =>
              /\ rob_cur'[slot] = issue_outputs.rob
              /\ rob_generations'[slot] = issue_outputs.rob.tag.generation
              /\ age(slot)' = rob_count - retired
         /\ ~flush => rob_count' = rob_count - retired
                                     + (IF issue_outputs.rob = None THEN 0 ELSE 1)
         /\ flush => rob_count' = 0
         /\ RobContiguous'
<1> DEFINE issue == issue_outputs.rob
           recorded == with_results
<1>1. /\ RobCapacity \in Nat /\ RobCapacity > 0
      /\ rob_head \in RobIndex /\ rob_tail \in RobIndex
      /\ rob_count \in Nat /\ rob_count <= RobCapacity
      /\ retired \in {0, 1} /\ retired <= rob_count
  BY SignalsAssumption, Retiring DEF RingInv, TypeOK, RobTypeOK
<1>2. TypeOK /\ TypeOK' /\ RobContiguous
  BY CycleTypes DEF RingInv
<1>3. SameOccupants(recorded)
  BY <1>2, Recording, Bus, QueueWires DEF with_results
<1>4. ROB!apply(issue, completion, store_completion)
  BY CycleParts
<1>5. issue # None => ROB!accepts(issue) /\ ~ROB!full
  BY <1>2, IssuedEntry
<1>6. issue = None => ~ROB!accepts(issue)
  BY DEF ROB!accepts
<1>7. CASE flush
  <2>1. /\ rob_cur' = [slot \in RobIndex |-> None] /\ rob_count' = 0
        /\ rob_head' = ROB!following_slot(rob_head) /\ rob_tail' = rob_head'
    <3>1. ROB!flush
      BY <1>2, <1>7, RobHead
    <3>2. ROB!clear_speculative_entries
      BY <1>4, <3>1 DEF ROB!apply
    <3> QED
      BY <3>2, SameSignals DEF ROB!clear_speculative_entries
  <2>2. RobContiguous'
    <3>1. \A slot \in RobIndex : ~(age(slot)' < 0)
      <4>1. AgesInRange'
        BY <1>2, AllAges, PTL
      <4> QED
        BY <4>1, <1>1 DEF AgesInRange, RobIndex
    <3>2. rob_head' \in Nat /\ rob_head' < RobCapacity
      BY <1>1, <2>1, Following DEF RobIndex
    <3> QED
      BY <1>1, <2>1, <3>1, <3>2 DEF RobContiguous
  <2> QED
    BY <1>7, <2>1, <2>2 DEF stays, joins
<1>8. CASE ~flush
  <2>1. ROB!advance(issue, completion, store_completion)
    BY <1>2, <1>4, <1>8, RobHead DEF ROB!apply
  <2>2. /\ rob_head' = IF retired = 0 THEN rob_head ELSE ROB!following_slot(rob_head)
        /\ rob_count' = rob_count - retired + (IF issue = None THEN 0 ELSE 1)
        /\ issue = None => rob_tail' = rob_tail /\ rob_generations' = rob_generations
        /\ issue # None =>
             /\ rob_tail' = ROB!following_slot(rob_tail)
             /\ rob_generations' = [rob_generations EXCEPT ![rob_tail] = issue.tag.generation]
        /\ issue = None => rob_cur' = ROB!retire(recorded)
        /\ issue # None => rob_cur' = [ROB!retire(recorded) EXCEPT ![rob_tail] = issue]
    <3> HIDE DEF issue
    <3> QED
      BY <1>1, <1>5, <1>6, <2>1 DEF ROB!advance, retired, commit, with_results
  <2>3. \A slot \in RobIndex :
          ROB!retire(recorded)[slot] # None <=> stays(slot)
    BY <1>1, <1>3, <1>8 DEF ROB!retire, commit, stays, SameOccupants, Entries
  <2>4. \A slot \in RobIndex : stays(slot) =>
          SameInstruction(ROB!retire(recorded)[slot], rob_cur[slot])
    BY <1>1, <1>3, <1>8 DEF ROB!retire, commit, stays, SameOccupants, Entries
  <2>5. issue # None => /\ age(rob_tail) = rob_count /\ rob_count < RobCapacity
                        /\ ~stays(rob_tail)
    BY <1>2, <1>5, AgeOfTheTail DEF stays
  <2>6. \A slot \in RobIndex :
          /\ age(slot)' = IF retired = 0 THEN age(slot)
                          ELSE IF slot = rob_head THEN RobCapacity - 1 ELSE age(slot) - 1
          /\ age(slot) \in Nat /\ age(slot) < RobCapacity
          /\ age(slot) = 0 <=> slot = rob_head
    <3>1. CASE retired = 0
      BY <1>1, <1>2, <2>2, <3>1, Ages DEF age, RobIndex
    <3>2. CASE retired = 1
      BY <1>1, <1>2, <2>2, <3>2, Ages, AgesBehindTheHead DEF RobIndex
    <3> QED
      BY <1>1, <3>1, <3>2
  <2>7. \A slot \in RobIndex : joins(slot) <=> slot = rob_tail /\ issue # None
    BY <1>8 DEF joins
  <2>8. \A slot \in RobIndex :
          stays(slot) <=> age(slot) < rob_count /\ (retired = 1 => slot # rob_head)
    BY <1>2, <1>8 DEF stays, RobContiguous, retired
  <2>9. Entries # {} /\ ROB!retire(recorded) \in Entries
    BY <1>1, <1>3 DEF ROB!retire, SameOccupants, Entries, Maybe
  <2> HIDE DEF recorded
  <2>10. \A slot \in RobIndex : rob_cur'[slot] # None <=> stays(slot) \/ joins(slot)
    BY <1>1, <2>2, <2>3, <2>7, <2>9 DEF Entries
  <2>11. \A slot \in RobIndex : stays(slot) =>
           /\ SameInstruction(rob_cur'[slot], rob_cur[slot])
           /\ rob_cur'[slot] = with_results[slot]
           /\ rob_generations'[slot] = rob_generations[slot]
    <3>1. \A slot \in RobIndex : stays(slot) => ROB!retire(recorded)[slot] = recorded[slot]
      BY <1>1, <1>3 DEF ROB!retire, commit, stays, SameOccupants, Entries
    <3>2. \A slot \in RobIndex : stays(slot) => rob_cur'[slot] = ROB!retire(recorded)[slot]
      BY <1>1, <2>2, <2>5, <2>9 DEF Entries
    <3> QED
      BY <1>1, <1>2, <2>2, <2>4, <2>5, <3>1, <3>2 DEF TypeOK, RobTypeOK, recorded
  <2>12. \A slot \in RobIndex : stays(slot) => age(slot)' = age(slot) - retired
    BY <1>1, <2>6, <2>8
  <2>13. \A slot \in RobIndex : joins(slot) =>
           /\ rob_cur'[slot] = issue
           /\ rob_generations'[slot] = issue.tag.generation
    BY <1>1, <1>2, <2>2, <2>7, <2>9 DEF Entries, TypeOK, RobTypeOK
  <2>14. \A slot \in RobIndex : joins(slot) => age(slot)' = rob_count - retired
    BY <1>1, <2>5, <2>6, <2>7
  <2>15. RobContiguous'
    <3>1. \A slot \in RobIndex : rob_cur'[slot] # None <=> age(slot)' < rob_count'
      <4> TAKE slot \in RobIndex
      <4>1. issue # None => (slot = rob_tail <=> age(slot) = rob_count)
        BY <1>1, <1>2, <2>5, AgesDiffer
      <4> HIDE DEF issue
      <4> QED
        BY <1>1, <2>2, <2>5, <2>6, <2>7, <2>8, <2>10, <4>1
    <3>2. /\ rob_head' = IF retired = 0 THEN rob_head
                         ELSE IF rob_head + 1 = RobCapacity THEN 0 ELSE rob_head + 1
          /\ rob_tail' = IF issue = None THEN rob_tail
                         ELSE IF rob_tail + 1 = RobCapacity THEN 0 ELSE rob_tail + 1
      BY <1>1, <2>2, Following
    <3>3. rob_tail' = IF rob_head' + rob_count' >= RobCapacity
                      THEN rob_head' + rob_count' - RobCapacity ELSE rob_head' + rob_count'
      BY <1>1, <1>2, <2>2, <2>5, <3>2 DEF RobContiguous, RobIndex
    <3> QED
      BY <3>1, <3>3 DEF RobContiguous
  <2> QED
    BY <1>8, <2>2, <2>10, <2>11, <2>12, <2>13, <2>14, <2>15
<1> QED
  BY <1>7, <1>8

----------------------------------------------------------------------------
(* The ring's invariant. *)

(* What the issue unit writes into a new entry. *)
LEMMA EntryOf ==
  ASSUME NEW p, NEW tag
  PROVE  LET entry == Issue!rob_entry(p, tag)
         IN  /\ entry.tag = tag /\ entry.op = p.decoded.op /\ entry.rd = p.decoded.rd
             /\ entry.writes_rd <=> writes_rd(entry.op) /\ entry.rd # 0
             /\ entry.ready <=> entry.op = "HALT"
<1> DEFINE entry == Issue!rob_entry(p, tag)
<1>1. ASSUME NEW w, w = Issue!renames(p.decoded), NEW h, h = (p.decoded.op = "HALT")
      PROVE  /\ entry.tag = tag /\ entry.op = p.decoded.op /\ entry.rd = p.decoded.rd
             /\ entry.writes_rd = w /\ entry.ready = h
  <2>1. entry = [tag |-> tag, op |-> p.decoded.op, pc |-> p.pc, rd |-> p.decoded.rd,
                 value |-> 0, writes_rd |-> w, ready |-> h,
                 predicted_next_pc |-> p.predicted_pc, actual_next_pc |-> 0,
                 branch_taken |-> FALSE]
    BY <1>1, Zenon DEF Issue!rob_entry
  <2> HIDE DEF entry
  <2> QED
    BY <2>1
<1>2. entry.writes_rd = Issue!renames(p.decoded)
  BY <1>1, Zenon
<1>3. entry.ready = (p.decoded.op = "HALT")
  BY <1>1, Zenon
<1>4. entry.tag = tag /\ entry.op = p.decoded.op /\ entry.rd = p.decoded.rd
  BY <1>1, Zenon
<1> HIDE DEF entry
<1>5. Issue!renames(p.decoded) <=> writes_rd(entry.op) /\ entry.rd # 0
  BY <1>4, SameOperations DEF Issue!renames, Issue!writes_rd, writes_rd
<1> QED
  BY <1>2, <1>3, <1>4, <1>5, Zenon DEF entry

(* An issued instruction takes the next tag and renames no x0. *)
LEMMA CycleKeepsRing == RingInv /\ Cycle => RingInv'
<1> SUFFICES ASSUME RingInv, Cycle PROVE RingInv'
  OBVIOUS
<1>1. TypeOK /\ TypeOK' /\ RobTagged /\ WritersNameRegisters
  BY CycleTypes DEF RingInv
<1>2. RobTagged'
  <2> SUFFICES ASSUME NEW slot \in RobIndex, rob_cur'[slot] # None
               PROVE  rob_cur'[slot].tag = [index |-> slot, generation |-> rob_generations'[slot]]
    BY DEF RobTagged
  <2>1. CASE stays(slot)
    BY <1>1, <2>1, CycleOfTheRing DEF RobTagged, SameInstruction, stays
  <2>2. CASE joins(slot)
    <3>1. issue_outputs.rob.tag =
            [index |-> slot, generation |-> ROB!following_generation(rob_generations[rob_tail])]
      BY <1>1, <2>2, IssuedEntry DEF joins
    <3> QED
      BY <2>2, <3>1, CycleOfTheRing
  <2> QED
    BY <2>1, <2>2, CycleOfTheRing
<1>3. WritersNameRegisters'
  <2> SUFFICES ASSUME NEW slot \in RobIndex, rob_cur'[slot] # None, rob_cur'[slot].writes_rd
               PROVE  rob_cur'[slot].rd # 0
    BY DEF WritersNameRegisters
  <2>1. CASE stays(slot)
    BY <1>1, <2>1, CycleOfTheRing DEF WritersNameRegisters, SameInstruction, stays
  <2>2. CASE joins(slot)
    <3>1. rob_cur'[slot] = Issue!rob_entry(packet, ROB!next_tag)
      BY <1>1, <2>2, IssuedEntry, CycleOfTheRing DEF joins
    <3> QED
      BY <3>1, EntryOf
  <2> QED
    BY <2>1, <2>2, CycleOfTheRing
<1> QED
  BY <1>1, <1>2, <1>3, CycleOfTheRing DEF RingInv

(* The empty ring, when the CPU is made and when it is loaded. *)
LEMMA EmptyRing ==
  ASSUME TypeOK, rob_cur = [slot \in RobIndex |-> None],
         rob_head = 0, rob_tail = 0, rob_count = 0
  PROVE  RingInv
<1>1. \A slot \in RobIndex : ~(age(slot) < 0)
  BY Ages
<1>2. RobContiguous
  BY <1>1, SignalsAssumption DEF RobContiguous
<1> QED
  BY <1>2 DEF RingInv, RobTagged, WritersNameRegisters

RingIsEmpty ==
  /\ rob_cur = [slot \in RobIndex |-> None]
  /\ rob_head = 0 /\ rob_tail = 0 /\ rob_count = 0

LEMMA InitEmpties == Init => RingIsEmpty
BY SameSignals DEF Init, ROB!Init, RingIsEmpty
LEMMA LoadEmpties == Load => RingIsEmpty'
BY SameSignals DEF Load, ROB!reset, RingIsEmpty

LEMMA InitKeepsRing == Init => RingInv
BY InitEmpties, InitTypes, EmptyRing DEF RingIsEmpty

LEMMA LoadKeepsRing == Load => RingInv'
<1>1. TypeOK /\ RingIsEmpty => RingInv
  BY EmptyRing DEF RingIsEmpty
<1> QED
  BY <1>1, LoadEmpties, LoadTypes, PTL

----------------------------------------------------------------------------
(* The rename table. *)

(* A tag in flight tells its slot. *)
LEMMA TagTellsSlot ==
  ASSUME RingInv, NEW slot \in RobIndex, rob_cur[slot] # None
  PROVE  /\ rob_cur[slot].tag.index = slot
         /\ rob_cur[slot].tag.generation = rob_generations[slot]
         /\ rob_cur[slot].tag = [index |-> slot, generation |-> rob_generations[slot]]
BY DEF RingInv, RobTagged

LEMMA TagsAreDistinct ==
  ASSUME RingInv, NEW slot \in RobIndex, rob_cur[slot] # None,
         NEW other \in RobIndex, rob_cur[other] # None,
         rob_cur[slot].tag = rob_cur[other].tag
  PROVE  slot = other
<1>1. rob_cur[slot].tag.index = slot /\ rob_cur[other].tag.index = other
  BY TagTellsSlot
<1> QED
  BY <1>1

LEMMA EmptyTable ==
  ASSUME rob_cur = [slot \in RobIndex |-> None], rat = [r \in RegisterIndex |-> None]
  PROVE  RatNamesYoungestWriter
BY DEF RatNamesYoungestWriter, writers

(* What a cycle writes into the table for one register. *)
LEMMA CycleOfTheTable ==
  ASSUME RingInv, Cycle, NEW r \in RegisterIndex
  PROVE  LET entry == issue_outputs.rob
             renamed == entry # None /\ entry.writes_rd /\ entry.rd = r
             cleared == commit # None /\ commit.writes_rd /\ commit.rd = r
         IN  /\ flush => rat'[r] = None
             /\ ~flush /\ renamed => rat'[r] = entry.tag
             /\ ~flush /\ ~renamed =>
                  rat'[r] = IF cleared /\ rat[r] = commit.tag THEN None ELSE rat[r]
<1> DEFINE entry == issue_outputs.rob
           rename == issue_outputs.rename
           renamed == entry # None /\ entry.writes_rd /\ entry.rd = r
           cleared == commit # None /\ commit.writes_rd /\ commit.rd = r
<1>1. TypeOK /\ rat \in [RegisterIndex -> Maybe(RobTag)]
  BY DEF RingInv, TypeOK
<1>2. RAT!apply(rename, rat_commit, flush)
  BY CycleParts
<1>3. /\ renamed => rename # None /\ rename.rd = r /\ rename.tag = entry.tag /\ r # 0
      /\ ~renamed => rename = None \/ rename.rd # r
      /\ rename # None => rename.rd \in RegisterIndex
  <2>1. CASE entry = None
    BY <1>1, <2>1, IssueWires
  <2>2. CASE entry # None
    <3>1. /\ entry = Issue!rob_entry(packet, ROB!next_tag)
          /\ issue_outputs = issued(packet, ROB!next_tag)
      BY <1>1, <2>2, IssuedEntry, IssueWires
    <3>2. /\ entry.tag = ROB!next_tag /\ entry.rd = packet.decoded.rd
          /\ entry.op = packet.decoded.op
          /\ entry.writes_rd <=> writes_rd(entry.op) /\ entry.rd # 0
      BY <3>1, EntryOf
    <3>3. Issue!renames(packet.decoded) <=> writes_rd(entry.op) /\ entry.rd # 0
      BY <3>2, SameOperations DEF Issue!renames
    <3>4. rename = IF Issue!renames(packet.decoded)
                   THEN [rd |-> packet.decoded.rd, tag |-> ROB!next_tag] ELSE None
      BY <3>1 DEF issued
    <3>5. rename # None => rename.rd \in RegisterIndex
      BY <1>1, IssueWires, SameSignals DEF Maybe, RAT!RATWrite
    <3>6. [rd |-> packet.decoded.rd, tag |-> ROB!next_tag] # None
      <4>1. packet \in Issue!DecodePacket /\ ROB!next_tag \in RobTag
        BY <1>1, <2>2, IssueWires, Tag DEF Maybe
      <4> QED
        BY <4>1, NothingAssumption, SameRecords DEF RAT!RATWrite, DecodedInstruction
    <3> HIDE DEF entry, rename
    <3> QED
      BY <2>2, <3>2, <3>3, <3>4, <3>5, <3>6
  <2> QED
    BY <2>1, <2>2
<1>4. /\ cleared => rat_commit # None /\ rat_commit.rd = r /\ rat_commit.tag = commit.tag
                    /\ r # 0
      /\ ~cleared => rat_commit = None \/ rat_commit.rd # r
      /\ rat_commit # None => rat_commit.rd \in RegisterIndex
  <2>1. CASE commit # None /\ commit.writes_rd
    <3>1. rob_cur[rob_head] # None /\ commit = rob_cur[rob_head] /\ rob_head \in RobIndex
      BY <1>1, <2>1, Retiring DEF TypeOK, RobTypeOK
    <3>2. commit.rd # 0
      BY <2>1, <3>1 DEF RingInv, WritersNameRegisters
    <3>3. commit \in ROB!ROBEntry
      BY <1>1, <3>1 DEF TypeOK, RobTypeOK, Maybe
    <3>4. rat_commit = [rd |-> commit.rd, tag |-> commit.tag]
      BY <2>1 DEF rat_commit
    <3>5. rat_commit # None /\ rat_commit.rd \in RegisterIndex
      <4>1. rat_commit \in RAT!RATWrite
        BY <3>3, <3>4, SameRecords
      <4> QED
        BY <4>1, NothingAssumption, SameRecords
    <3> QED
      BY <2>1, <3>2, <3>4, <3>5
  <2>2. CASE ~(commit # None /\ commit.writes_rd)
    BY <2>2 DEF rat_commit
  <2> QED
    BY <2>1, <2>2
<1> HIDE DEF rename, renamed, cleared, entry
<1>5. CASE flush
  BY <1>2, <1>5, SameSignals DEF RAT!apply, RAT!invalidated
<1>6. CASE ~flush
  <2> DEFINE left == RAT!clear_committed(rat, rat_commit)
  <2>1. rat' = RAT!set_producer(left, rename)
    BY <1>2, <1>6 DEF RAT!apply
  <2>2. /\ left \in [RegisterIndex -> Maybe(RobTag)]
        /\ left[r] = IF cleared /\ rat[r] = commit.tag THEN None ELSE rat[r]
    BY <1>1, <1>4 DEF RAT!clear_committed, Maybe
  <2> HIDE DEF left
  <2>3. rat'[r] = IF renamed THEN entry.tag ELSE left[r]
    BY <1>3, <2>1, <2>2 DEF RAT!set_producer
  <2> QED
    BY <1>6, <2>2, <2>3 DEF entry, renamed, cleared
<1> QED
  BY <1>5, <1>6 DEF entry, renamed, cleared

(* Who writes the register after a cycle: those that stay and the new one. *)
LEMMA CycleOfTheWriters ==
  ASSUME RingInv, Cycle, NEW r \in RegisterIndex, NEW slot \in RobIndex
  PROVE  slot \in writers(r)' <=>
           \/ slot \in writers(r) /\ stays(slot)
           \/ joins(slot) /\ issue_outputs.rob.writes_rd /\ issue_outputs.rob.rd = r
<1>1. /\ rob_cur'[slot] # None <=> stays(slot) \/ joins(slot)
      /\ stays(slot) => SameInstruction(rob_cur'[slot], rob_cur[slot])
      /\ joins(slot) => rob_cur'[slot] = issue_outputs.rob
  BY CycleOfTheRing
<1>2. stays(slot) => rob_cur[slot] # None
  BY DEF stays
<1>3. joins(slot) => ~stays(slot) /\ slot \notin writers(r)
  <2>1. joins(slot) => rob_cur[slot] = None
    BY AgeOfTheTail, IssuedEntry DEF joins, RingInv
  <2> QED
    BY <2>1, <1>2 DEF writers
<1> QED
  BY <1>1, <1>2, <1>3 DEF writers, SameInstruction

(* The entry at the head is older than any other. *)
LEMMA CycleKeepsTable == RingInv /\ RatNamesYoungestWriter /\ Cycle => RatNamesYoungestWriter'
<1> SUFFICES ASSUME RingInv, RatNamesYoungestWriter, Cycle, NEW r \in RegisterIndex
             PROVE  IF writers(r)' = {} THEN rat'[r] = None
                    ELSE \E slot \in writers(r)' :
                           /\ rat'[r] = rob_cur'[slot].tag
                           /\ \A other \in writers(r)' : age(other)' <= age(slot)'
  BY DEF RatNamesYoungestWriter
<1> DEFINE entry == issue_outputs.rob
           renamed == entry # None /\ entry.writes_rd /\ entry.rd = r
           cleared == commit # None /\ commit.writes_rd /\ commit.rd = r
<1>1. /\ TypeOK /\ rob_head \in RobIndex /\ rob_tail \in RobIndex /\ rob_count \in Nat
      /\ retired \in {0, 1}
  BY Retiring, SignalsAssumption DEF RingInv, TypeOK, RobTypeOK
<1>2. /\ writers(r) \subseteq RobIndex /\ writers(r)' \subseteq RobIndex
      /\ \A slot \in writers(r) : rob_cur[slot] # None
  BY DEF writers
<1>3. CASE flush
  <2>1. writers(r)' = {}
    BY <1>2, <1>3, CycleOfTheWriters DEF stays, joins
  <2> QED
    BY <1>3, <2>1, CycleOfTheTable
<1>4. CASE ~flush /\ renamed
  <2> PICK new \in RobIndex : new = rob_tail
    BY <1>1
  <2>1. joins(new) /\ new \in writers(r)'
    BY <1>1, <1>4, CycleOfTheWriters DEF joins
  <2>2. rat'[r] = rob_cur'[new].tag
    BY <1>1, <1>4, <2>1, CycleOfTheTable, CycleOfTheRing
  <2>3. ASSUME NEW other \in writers(r)' PROVE age(other)' <= age(new)'
    <3>1. age(new)' = rob_count - retired
      BY <1>1, <2>1, CycleOfTheRing
    <3>2. CASE joins(other)
      BY <1>1, <3>1, <3>2 DEF joins
    <3>3. CASE stays(other)
      <4>1. age(other)' = age(other) - retired /\ age(other) \in Nat /\ age(other) < rob_count
        BY <1>1, <1>2, <3>3, CycleOfTheRing, Ages DEF stays, RingInv, RobContiguous
      <4> QED
        BY <1>1, <3>1, <4>1
    <3> QED
      BY <1>2, <2>3, <3>2, <3>3, CycleOfTheWriters
  <2> QED
    BY <2>1, <2>2, <2>3
<1>5. CASE ~flush /\ ~renamed
  <2>1. rat'[r] = IF cleared /\ rat[r] = commit.tag THEN None ELSE rat[r]
    BY <1>5, CycleOfTheTable
  <2>2. \A slot \in RobIndex : slot \in writers(r)' <=>
          slot \in writers(r) /\ (commit # None => slot # rob_head)
    BY <1>2, <1>5, CycleOfTheWriters DEF stays, joins
  <2>3. cleared <=> commit # None /\ rob_head \in writers(r)
    BY <1>1, Retiring DEF writers, RingInv, RobContiguous, commit, ROB!commit, ROB!front
  <2>4. CASE writers(r) = {}
    BY <1>2, <2>1, <2>2, <2>3, <2>4 DEF RatNamesYoungestWriter
  <2>5. ASSUME writers(r) # {}
        PROVE  IF writers(r)' = {} THEN rat'[r] = None
               ELSE \E slot \in writers(r)' :
                      /\ rat'[r] = rob_cur'[slot].tag
                      /\ \A other \in writers(r)' : age(other)' <= age(slot)'
    <3>1. PICK slot \in writers(r) :
            /\ rat[r] = rob_cur[slot].tag
            /\ \A other \in writers(r) : age(other) <= age(slot)
      BY <2>5 DEF RatNamesYoungestWriter
    <3>2. slot \in RobIndex /\ rob_cur[slot] # None
      BY <1>2
    <3>3. CASE commit # None /\ slot = rob_head
      <4>1. age(rob_head) = 0
        BY <1>1, Ages
      <4>2. \A other \in writers(r) : other = rob_head
        <5> TAKE other \in writers(r)
        <5>1. other \in RobIndex /\ age(other) \in Nat /\ age(other) <= 0
          BY <1>1, <1>2, <3>1, <3>3, <4>1, Ages
        <5> QED
          BY <1>1, <5>1, Ages
      <4>3. writers(r)' = {}
        BY <1>2, <2>2, <3>3, <4>2
      <4>4. cleared /\ rat[r] = commit.tag
        BY <1>1, <2>3, <3>1, <3>3, Retiring
      <4> QED
        BY <2>1, <4>3, <4>4
    <3>4. CASE ~(commit # None /\ slot = rob_head)
      <4>1. slot \in writers(r)' /\ stays(slot)
        BY <1>5, <2>2, <3>2, <3>4 DEF stays
      <4>2. rat'[r] = rat[r]
        <5>1. cleared => rob_cur[rob_head] # None /\ commit = rob_cur[rob_head]
          BY <1>1, <1>2, <2>3, Retiring
        <5>2. cleared => rat[r] # commit.tag
          BY <1>1, <3>1, <3>2, <3>4, <5>1, TagsAreDistinct
        <5> QED
          BY <2>1, <5>2
      <4>3. rat'[r] = rob_cur'[slot].tag
        BY <3>1, <3>2, <4>1, <4>2, CycleOfTheRing DEF SameInstruction
      <4>4. ASSUME NEW other \in writers(r)' PROVE age(other)' <= age(slot)'
        <5>1. other \in writers(r) /\ stays(other) /\ other \in RobIndex
          BY <1>2, <1>5, <2>2 DEF stays
        <5>2. age(other)' = age(other) - retired /\ age(slot)' = age(slot) - retired
          BY <3>2, <4>1, <5>1, CycleOfTheRing
        <5> QED
          BY <1>1, <3>1, <3>2, <5>1, <5>2, Ages
      <4> QED
        BY <4>1, <4>3, <4>4
    <3> QED
      BY <3>3, <3>4
  <2> QED
    BY <2>4, <2>5
<1> QED
  BY <1>3, <1>4, <1>5

----------------------------------------------------------------------------
(* The fetch stage. *)

(* A HALT in the slot, with nothing behind it. *)
YoungestIsHalt(slot) ==
  /\ rob_cur[slot] # None /\ rob_cur[slot].op = "HALT"
  /\ \A other \in RobIndex : rob_cur[other] # None => age(other) <= age(slot)

(* A stopped CPU fetches nothing, so that nothing is issued. *)
LEMMA NoIssueWhenStopped ==
  ASSUME TypeOK, fetch_stopped \/ flush
  PROVE  issue_outputs.rob = None
<1>1. packet = None
  BY DEF packet, fetch_attempted
<1> QED
  BY <1>1, IssueWires

LEMMA CycleKeepsStop == RingInv /\ StoppedBehindHalt /\ Cycle => StoppedBehindHalt'
<1> SUFFICES ASSUME RingInv, StoppedBehindHalt, Cycle, status' = "Running"
             PROVE  fetch_stopped' <=> \E slot \in RobIndex : YoungestIsHalt(slot)'
  BY DEF StoppedBehindHalt, YoungestIsHalt
<1> DEFINE entry == issue_outputs.rob
<1>1. /\ TypeOK /\ rob_head \in RobIndex /\ rob_tail \in RobIndex /\ rob_count \in Nat
      /\ retired \in {0, 1} /\ fetch_stopped \in BOOLEAN
  BY Retiring, SignalsAssumption DEF RingInv, TypeOK, RobTypeOK
<1>2. fetch_stopped <=> \E slot \in RobIndex : YoungestIsHalt(slot)
  BY CycleParts DEF StoppedBehindHalt, YoungestIsHalt
<1>3. fetch_stopped' <=> ~flush /\ (fetch_stopped \/ (entry # None /\ entry.op = "HALT"))
  BY CycleParts DEF next_fetch_stopped
<1>4. commit # None => commit.op # "HALT"
  BY CycleParts DEF next_status, halted
<1>5. \A slot \in RobIndex : rob_cur'[slot] # None <=> stays(slot) \/ joins(slot)
  BY CycleOfTheRing
<1>6. \A slot \in RobIndex : stays(slot) =>
        /\ rob_cur'[slot].op = rob_cur[slot].op /\ rob_cur[slot] # None
        /\ age(slot)' = age(slot) - retired
        /\ age(slot) \in Nat /\ age(slot) < rob_count
  BY <1>1, CycleOfTheRing, Ages DEF SameInstruction, stays, RingInv, RobContiguous
<1>7. CASE flush
  BY <1>3, <1>5, <1>7 DEF stays, joins, YoungestIsHalt
<1>8. CASE ~flush /\ entry # None
  <2> PICK new \in RobIndex : new = rob_tail
    BY <1>1
  <2>1. joins(new) /\ rob_cur'[new] = entry /\ age(new)' = rob_count - retired
    BY <1>8, CycleOfTheRing DEF joins
  <2>2. \A slot \in RobIndex : joins(slot) => slot = new
    BY DEF joins
  <2>3. ~fetch_stopped
    BY <1>1, <1>8, NoIssueWhenStopped
  <2>4. \A slot \in RobIndex : rob_cur'[slot] # None => age(slot)' <= age(new)'
    BY <1>1, <1>5, <1>6, <2>1, <2>2
  <2>5. \A slot \in RobIndex : rob_cur'[slot] # None /\ age(new)' <= age(slot)' => slot = new
    BY <1>1, <1>5, <1>6, <2>1, <2>2
  <2>6. rob_cur'[new] # None
    BY <1>5, <2>1
  <2>7. entry.op = "HALT" <=> \E slot \in RobIndex : YoungestIsHalt(slot)'
    BY <2>1, <2>4, <2>5, <2>6 DEF YoungestIsHalt
  <2> QED
    BY <1>3, <1>8, <2>3, <2>7
<1>9. CASE ~flush /\ entry = None
  <2>1. \A slot \in RobIndex : rob_cur'[slot] # None <=> stays(slot)
    BY <1>5, <1>9 DEF joins
  <2>2. ASSUME NEW slot \in RobIndex, YoungestIsHalt(slot)
        PROVE  YoungestIsHalt(slot)'
    <3>1. stays(slot)
      <4>1. commit # None => slot # rob_head
        BY <1>1, <1>4, <2>2, Retiring DEF YoungestIsHalt
      <4> QED
        BY <1>9, <2>2, <4>1 DEF stays, YoungestIsHalt
    <3>2. \A other \in RobIndex : rob_cur'[other] # None => age(other)' <= age(slot)'
      BY <1>1, <1>6, <2>1, <2>2, <3>1 DEF YoungestIsHalt
    <3>3. rob_cur'[slot] # None /\ rob_cur'[slot].op = "HALT"
      BY <1>6, <2>1, <2>2, <3>1 DEF YoungestIsHalt
    <3> QED
      BY <3>2, <3>3 DEF YoungestIsHalt
  <2>3. ASSUME NEW slot \in RobIndex, YoungestIsHalt(slot)'
        PROVE  YoungestIsHalt(slot)
    <3>1. /\ rob_cur'[slot] # None /\ rob_cur'[slot].op = "HALT"
          /\ \A other \in RobIndex : rob_cur'[other] # None => age(other)' <= age(slot)'
      BY <2>3 DEF YoungestIsHalt
    <3>2. stays(slot) /\ rob_cur[slot] # None /\ rob_cur[slot].op = "HALT"
      BY <1>6, <2>1, <3>1
    <3>3. ASSUME NEW other \in RobIndex, rob_cur[other] # None
          PROVE  age(other) <= age(slot)
      <4>1. CASE stays(other)
        BY <1>1, <1>6, <2>1, <3>1, <3>2, <4>1
      <4>2. CASE ~stays(other)
        BY <1>1, <1>6, <1>9, <3>2, <3>3, <4>2, Ages DEF stays
      <4> QED
        BY <4>1, <4>2
    <3> QED
      BY <3>2, <3>3 DEF YoungestIsHalt
  <2> QED
    BY <1>2, <1>3, <1>9, <2>2, <2>3
<1> QED
  BY <1>7, <1>8, <1>9

----------------------------------------------------------------------------
(* The invariants together. *)

LEMMA EmptyEstablishes ==
  ASSUME RingInv, RingIsEmpty, rat = [r \in RegisterIndex |-> None], fetch_stopped = FALSE
  PROVE  IInv
BY DEF RingIsEmpty, RatNamesYoungestWriter, writers, StoppedBehindHalt, IInv

TableIsEmpty == rat = [r \in RegisterIndex |-> None] /\ fetch_stopped = FALSE

LEMMA InitEstablishes == Init => IInv
BY InitKeepsRing, InitEmpties, EmptyEstablishes, SameSignals
   DEF Init, RAT!Init, RAT!invalidated

LEMMA LoadEstablishes == Load => IInv'
<1>1. RingInv /\ RingIsEmpty /\ TableIsEmpty => IInv
  BY EmptyEstablishes DEF TableIsEmpty
<1>2. Load => TableIsEmpty'
  BY SameSignals DEF Load, RAT!reset, RAT!invalidated, TableIsEmpty
<1> QED
  BY <1>1, <1>2, LoadKeepsRing, LoadEmpties, PTL

LEMMA StutterPreserves == IInv /\ UNCHANGED vars => IInv'
<1> SUFFICES ASSUME IInv, UNCHANGED vars PROVE IInv'
  OBVIOUS
<1>1. TypeOK'
  BY NextTypes DEF IInv, RingInv
<1>2. /\ rob_cur' = rob_cur /\ rob_generations' = rob_generations /\ rob_head' = rob_head
      /\ rob_tail' = rob_tail /\ rob_count' = rob_count /\ rat' = rat
      /\ status' = status /\ fetch_stopped' = fetch_stopped
  BY DEF vars, coreVars
<1>3. RobContiguous' /\ RobTagged' /\ WritersNameRegisters'
  BY <1>2 DEF IInv, RingInv, RobContiguous, RobTagged, WritersNameRegisters, age
<1>4. RatNamesYoungestWriter' /\ StoppedBehindHalt'
  BY <1>2 DEF IInv, RatNamesYoungestWriter, writers, StoppedBehindHalt, age
<1> QED
  BY <1>1, <1>3, <1>4 DEF IInv, RingInv

LEMMA NextPreserves == IInv /\ [Next]_vars => IInv'
<1>1. IInv /\ Cycle => IInv'
  BY CycleKeepsRing, CycleKeepsTable, CycleKeepsStop DEF IInv
<1> QED
  BY <1>1, LoadEstablishes, StutterPreserves DEF Next

(* In every step of the CPU (CPU::cycle(), CPU::load()) the occupied slots *)
(* stay those from the head to the tail, each tag names its slot, and the  *)
(* rename table and the fetch stage follow the ring.                       *)
THEOREM Invariance == Spec => []IInv
<1>1. IInv /\ [MainNext]_vars => IInv'
  BY NextPreserves DEF MainNext, LoadOnce, Next
<1> QED
  BY <1>1, InitEstablishes, PTL DEF Spec

(* The rename table names the youngest uncommitted writer of each register *)
(* (rename_table.cpp), however commits, issues and flushes coincide.       *)
THEOREM TableFollowsRing == Spec => []RatNamesYoungestWriter
BY Invariance, PTL DEF IInv

(* Fetching is stopped exactly while the youngest instruction in flight is *)
(* a HALT (cpu.cpp:319-330): no HALT is run past, and one on a wrong path  *)
(* does not stop the CPU for good.                                         *)
THEOREM HaltStopsFetch == Spec => []StoppedBehindHalt
BY Invariance, PTL DEF IInv
=============================================================================
