------------------------------ MODULE Decoder ------------------------------
(***************************************************************************)
(* The instruction decoder (isa/decoder.cpp): from the 32 bits of a word   *)
(* to an operation, its registers, its immediate and the flags the core    *)
(* reads.  A word is the set of the positions of its 1 bits, so a field is *)
(* a slice of the set moved down, and a sign extension adds positions.     *)
(***************************************************************************)
EXTENDS Instruction, Integers
LOCAL INSTANCE FiniteSetsExt

Bit == 0 .. 31
InstructionBits == SUBSET Bit

extract_bits(bits, high, low) == {p - low : p \in bits \cap (low .. high)}
shift_left(field, amount) == {p + amount : p \in field}
bit_if(condition, position) == IF condition THEN {position} ELSE {}
sign_extend(field, width) ==
  IF width - 1 \in field THEN field \cup (width .. 31) ELSE field

(* The number a field of a few bits stands for. *)
number(field) == MapThenSumSet(LAMBDA p : 2 ^ p, field)

opcode(bits) == number(extract_bits(bits, 6, 0))
funct3(bits) == number(extract_bits(bits, 14, 12))
funct7(bits) == number(extract_bits(bits, 31, 25))
rd(bits) == extract_bits(bits, 11, 7)
rs1(bits) == extract_bits(bits, 19, 15)
rs2(bits) == extract_bits(bits, 24, 20)

kLoadOpcode == 3
kOpImmediateOpcode == 19
kAuipcOpcode == 23
kStoreOpcode == 35
kOpOpcode == 51
kLuiOpcode == 55
kBranchOpcode == 99
kJalrOpcode == 103
kJalOpcode == 111

kBaseFunct7 == 0
kAlternateFunct7 == 32

(* 0x0ff00513: the word that would be addi x10, x0, 255. *)
kHaltEncoding == {0, 1, 4, 8, 10} \cup (20 .. 27)

----------------------------------------------------------------------------
(* The immediates of the five formats that have one. *)
decode_I_immediate(bits) == sign_extend(extract_bits(bits, 31, 20), 12)

decode_S_immediate(bits) ==
  sign_extend(shift_left(extract_bits(bits, 31, 25), 5) \cup extract_bits(bits, 11, 7), 12)

b_without_bit_7(bits) ==
  sign_extend(bit_if(31 \in bits, 12) \cup shift_left(extract_bits(bits, 30, 25), 5)
                \cup shift_left(extract_bits(bits, 11, 8), 1), 13)
decode_B_immediate(bits) ==
  sign_extend(bit_if(31 \in bits, 12) \cup bit_if(7 \in bits, 11)
                \cup shift_left(extract_bits(bits, 30, 25), 5)
                \cup shift_left(extract_bits(bits, 11, 8), 1), 13)

decode_U_immediate(bits) == bits \cap (12 .. 31)

decode_J_immediate(bits) ==
  sign_extend(bit_if(31 \in bits, 20) \cup shift_left(extract_bits(bits, 19, 12), 12)
                \cup bit_if(20 \in bits, 11)
                \cup shift_left(extract_bits(bits, 30, 21), 1), 21)

----------------------------------------------------------------------------
(* Which operation the fields name, or INVALID. *)
R_op(bits) ==
  CASE funct7(bits) = kBaseFunct7 ->
         <<"ADD", "SLL", "SLT", "SLTU", "XOR", "SRL", "OR", "AND">>[funct3(bits) + 1]
    [] funct7(bits) = kAlternateFunct7 /\ funct3(bits) = 0 -> "SUB"
    [] funct7(bits) = kAlternateFunct7 /\ funct3(bits) = 5 -> "SRA"
    [] OTHER -> "INVALID"

immediate_op_any_funct7(bits) ==
  IF funct3(bits) = 5 /\ funct7(bits) = kAlternateFunct7 THEN "SRAI"
  ELSE <<"ADDI", "SLLI", "SLTI", "SLTIU", "XORI", "SRLI", "ORI", "ANDI">>[funct3(bits) + 1]
immediate_op(bits) ==
  CASE funct3(bits) = 1 -> IF funct7(bits) = kBaseFunct7 THEN "SLLI" ELSE "INVALID"
    [] funct3(bits) = 5 -> (CASE funct7(bits) = kBaseFunct7 -> "SRLI"
                              [] funct7(bits) = kAlternateFunct7 -> "SRAI"
                              [] OTHER -> "INVALID")
    [] OTHER ->
         <<"ADDI", "", "SLTI", "SLTIU", "XORI", "", "ORI", "ANDI">>[funct3(bits) + 1]

load_op(bits) ==
  <<"LB", "LH", "LW", "INVALID", "LBU", "LHU", "INVALID", "INVALID">>[funct3(bits) + 1]

store_op(bits) == IF funct3(bits) > 2 THEN "INVALID" ELSE <<"SB", "SH", "SW">>[funct3(bits) + 1]

branch_op(bits) ==
  <<"BEQ", "BNE", "INVALID", "INVALID", "BLT", "BGE", "BLTU", "BGEU">>[funct3(bits) + 1]

----------------------------------------------------------------------------
(* DecodedInstruction{}: what every unrecognised word decodes to. *)
no_instruction ==
  [op |-> "INVALID", rd |-> {}, rs1 |-> {}, rs2 |-> {}, immediate |-> {},
   lhs_source |-> "Zero", rhs_source |-> "Zero", uses_rs1 |-> FALSE, uses_rs2 |-> FALSE,
   writes_rd |-> FALSE, is_load |-> FALSE, is_store |-> FALSE,
   is_branch |-> FALSE, is_jump |-> FALSE]

write_register(register) == register # {}

decode_R_type(bits) ==
  IF R_op(bits) = "INVALID" THEN no_instruction
  ELSE [no_instruction EXCEPT
          !.op = R_op(bits), !.rd = rd(bits), !.rs1 = rs1(bits), !.rs2 = rs2(bits),
          !.lhs_source = "Register", !.rhs_source = "Register",
          !.uses_rs1 = TRUE, !.uses_rs2 = TRUE, !.writes_rd = write_register(rd(bits))]

(* What the three opcodes of the I format have in common. *)
I_fields(op, bits) ==
  [no_instruction EXCEPT
     !.op = op, !.rd = rd(bits), !.rs1 = rs1(bits), !.immediate = decode_I_immediate(bits),
     !.lhs_source = "Register", !.rhs_source = "Immediate",
     !.uses_rs1 = TRUE, !.writes_rd = write_register(rd(bits))]

decode_I_type(bits) ==
  CASE opcode(bits) = kOpImmediateOpcode /\ immediate_op(bits) \in {"SLLI", "SRLI", "SRAI"} ->
         [I_fields(immediate_op(bits), bits) EXCEPT !.immediate = extract_bits(bits, 24, 20)]
    [] opcode(bits) = kOpImmediateOpcode
         /\ immediate_op(bits) \notin {"SLLI", "SRLI", "SRAI", "INVALID"} ->
         I_fields(immediate_op(bits), bits)
    [] opcode(bits) = kLoadOpcode /\ load_op(bits) # "INVALID" ->
         [I_fields(load_op(bits), bits) EXCEPT !.is_load = TRUE]
    [] opcode(bits) = kJalrOpcode /\ funct3(bits) = 0 ->
         [I_fields("JALR", bits) EXCEPT !.is_jump = TRUE]
    [] OTHER -> no_instruction

decode_S_type(bits) ==
  IF store_op(bits) = "INVALID" THEN no_instruction
  ELSE [no_instruction EXCEPT
          !.op = store_op(bits), !.rs1 = rs1(bits), !.rs2 = rs2(bits),
          !.immediate = decode_S_immediate(bits),
          !.lhs_source = "Register", !.rhs_source = "Immediate",
          !.uses_rs1 = TRUE, !.uses_rs2 = TRUE, !.is_store = TRUE]

decode_B_type(bits) ==
  IF branch_op(bits) = "INVALID" THEN no_instruction
  ELSE [no_instruction EXCEPT
          !.op = branch_op(bits), !.rs1 = rs1(bits), !.rs2 = rs2(bits),
          !.immediate = decode_B_immediate(bits),
          !.lhs_source = "Register", !.rhs_source = "Register",
          !.uses_rs1 = TRUE, !.uses_rs2 = TRUE, !.is_branch = TRUE]

decode_J_type(bits) ==
  [no_instruction EXCEPT
     !.op = "JAL", !.rd = rd(bits), !.immediate = decode_J_immediate(bits),
     !.lhs_source = "ProgramCounter", !.rhs_source = "Immediate",
     !.writes_rd = write_register(rd(bits)), !.is_jump = TRUE]

upper_from_zero(bits) ==
  [no_instruction EXCEPT
     !.op = IF opcode(bits) = kLuiOpcode THEN "LUI" ELSE "AUIPC",
     !.rd = rd(bits), !.immediate = decode_U_immediate(bits),
     !.rhs_source = "Immediate", !.writes_rd = write_register(rd(bits))]
decode_U_type(bits) ==
  [upper_from_zero(bits) EXCEPT
     !.lhs_source = IF opcode(bits) = kLuiOpcode THEN "Zero" ELSE "ProgramCounter"]

decode(bits) ==
  IF bits = kHaltEncoding THEN [no_instruction EXCEPT !.op = "HALT"]
  ELSE CASE opcode(bits) = kOpOpcode -> decode_R_type(bits)
         [] opcode(bits) \in {kLoadOpcode, kOpImmediateOpcode, kJalrOpcode} -> decode_I_type(bits)
         [] opcode(bits) = kStoreOpcode -> decode_S_type(bits)
         [] opcode(bits) = kBranchOpcode -> decode_B_type(bits)
         [] opcode(bits) \in {kLuiOpcode, kAuipcOpcode} -> decode_U_type(bits)
         [] opcode(bits) = kJalOpcode -> decode_J_type(bits)
         [] OTHER -> no_instruction
============================================================================
