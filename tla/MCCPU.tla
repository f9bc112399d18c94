------------------------------- MODULE MCCPU -------------------------------
(***************************************************************************)
(* The CPU on small programs: all sequences of instructions from an        *)
(* alphabet, followed by HALT and data.                                    *)
(***************************************************************************)
EXTENDS CPUProperties, Sequences

CONSTANTS
  CodeWords,          \* length of the longest programs
  Alphabet,           \* the instructions they are made of, as words
  ShortWords,         \* length of the shorter programs
  ShortAlphabets,     \* the sets of instructions these are made of
  OperationAlphabet   \* the operations tried one by one

instruction(op, rd, rs1, rs2, immediate) ==
  [op |-> op, rd |-> rd, rs1 |-> rs1, rs2 |-> rs2, immediate |-> immediate]

minus(n) == WordSize - n

DataAddress == 4 * (CodeWords + 1)

(* The instructions the programs are made of. *)
Instructions == <<
  instruction("HALT", 0, 0, 0, 0),
  instruction("ADDI", 1, 1, 0, 64),
  instruction("ADD", 2, 1, 2, 0),
  instruction("SUB", 1, 2, 1, 0),
  instruction("ADDI", 0, 1, 0, 3),
  instruction("LW", 1, 0, 0, DataAddress),
  instruction("LW", 2, 1, 0, DataAddress),
  instruction("SW", 0, 0, 1, DataAddress),
  instruction("SW", 0, 1, 2, DataAddress),
  instruction("SB", 0, 0, 2, DataAddress + 1),
  instruction("LBU", 2, 0, 0, DataAddress),
  instruction("BEQ", 0, 1, 0, 8),
  instruction("BNE", 0, 1, 2, minus(4)),
  instruction("JAL", 2, 0, 0, 8),
  instruction("JALR", 0, 1, 0, 1),
  instruction("ADDI", 1, 0, 0, minus(3)),
  instruction("ADDI", 2, 1, 0, 130),
  instruction("ADDI", 2, 0, 0, 3),
  instruction("LW", 2, 0, 0, minus(4)),
  instruction("SB", 0, 0, 2, 12),
  instruction("SB", 0, 0, 1, 12)
>>

(* One instruction of each operation. *)
Operations == <<
  "ADD", "SUB", "AND", "XOR", "OR", "SLL", "SRL", "SRA", "ADDI", "SLTI", "SLTIU",
  "XORI", "ORI", "ANDI", "SLLI", "SRLI", "SRAI", "LUI", "AUIPC", "LB", "LH", "LW",
  "LBU", "LHU", "SB", "SH", "SW", "BEQ", "BNE", "BLT", "BGE", "BLTU", "BGEU",
  "JAL", "JALR", "HALT", "INVALID", "SLT", "SLTU" >>

example(op) ==
  IF is_load(op) \/ is_store(op) THEN instruction(op, 2, 0, 1, DataAddress + 3)
  ELSE IF is_control(op) THEN instruction(op, 2, 1, 2, 8)
  ELSE instruction(op, 2, 1, 2, IF op \in RegisterOps THEN 0 ELSE 5)

Encodings == Instructions \o [i \in DOMAIN Operations |-> example(Operations[i])]

(* The instruction a word encodes; any other word is invalid. *)
MCDecode ==
  [w \in Word |-> IF w \in DOMAIN Encodings THEN Encodings[w]
                  ELSE instruction("INVALID", 0, 0, 0, 0)]

(* A program, HALT, and words of data: 131, whose top byte is negative and *)
(* which encodes no instruction.                                           *)
image_of(program) ==
  [a \in 0 .. MemorySize - 1 |->
     LET word == IF a \div 4 < Len(program) THEN program[a \div 4 + 1]
                 ELSE IF a \div 4 = Len(program) THEN 1 ELSE 131
     IN  (word \div ByteSize ^ (a % 4)) % ByteSize]

(* Every operation in the alphabet, after x1 and x2 have been set. *)
OperationPrograms ==
  {<<first, second, Len(Instructions) + i, 3>> :
     first \in {2, 16}, second \in {17, 18},
     i \in {j \in DOMAIN Operations : Operations[j] \in OperationAlphabet}}

Programs ==
  [1 .. CodeWords -> Alphabet]
    \cup UNION {[1 .. ShortWords -> alphabet] : alphabet \in ShortAlphabets}
    \cup OperationPrograms

MCImages == {image_of(program) : program \in Programs}
============================================================================
