----------------------------- MODULE Assembler -----------------------------
(***************************************************************************)
(* The encoders of tests/unit/decoder_test.cpp, which lay an instruction   *)
(* out as the RISC-V manual does, and the fields each operation has in the *)
(* tables of its tests.  They stand for the assembler that made the image. *)
(* Words are sets of bit positions, as in Decoder.                         *)
(***************************************************************************)
EXTENDS Integers, Sequences

LOCAL field(value, low, high) == value \cap (low .. high)
LOCAL at(bits, amount) == {p + amount : p \in bits}
LOCAL bits_of(number) == {p \in 0 .. 6 : (number \div 2 ^ p) % 2 = 1}

(* operation -> opcode, funct3 and, in the R format and the shifts, funct7 *)
LOCAL fields(opcode, ops) == [op \in DOMAIN ops |-> <<opcode>> \o ops[op]]
RFields ==
  fields(51, [ADD |-> <<0, 0>>, SUB |-> <<0, 32>>, SLL |-> <<1, 0>>, SLT |-> <<2, 0>>,
              SLTU |-> <<3, 0>>, XOR |-> <<4, 0>>, SRL |-> <<5, 0>>, SRA |-> <<5, 32>>,
              OR |-> <<6, 0>>, AND |-> <<7, 0>>])
ShiftFields == fields(19, [SLLI |-> <<1, 0>>, SRLI |-> <<5, 0>>, SRAI |-> <<5, 32>>])
ArithmeticFields ==
  fields(19, [ADDI |-> <<0>>, SLTI |-> <<2>>, SLTIU |-> <<3>>, XORI |-> <<4>>,
              ORI |-> <<6>>, ANDI |-> <<7>>])
LoadFields == fields(3, [LB |-> <<0>>, LH |-> <<1>>, LW |-> <<2>>, LBU |-> <<4>>, LHU |-> <<5>>])
JalrFields == fields(103, [JALR |-> <<0>>])
StoreFields == fields(35, [SB |-> <<0>>, SH |-> <<1>>, SW |-> <<2>>])
BranchFields ==
  fields(99, [BEQ |-> <<0>>, BNE |-> <<1>>, BLT |-> <<4>>, BGE |-> <<5>>,
              BLTU |-> <<6>>, BGEU |-> <<7>>])
UpperOpcode == [LUI |-> 55, AUIPC |-> 23]

LOCAL opcode_bits(f) == bits_of(f[1])
LOCAL funct3_bits(f) == at(bits_of(f[2]), 12)
LOCAL funct7_bits(f) == at(bits_of(f[3]), 25)

encode_r(f, i) ==
  funct7_bits(f) \cup at(i.rs2, 20) \cup at(i.rs1, 15) \cup funct3_bits(f)
    \cup at(i.rd, 7) \cup opcode_bits(f)

encode_i(f, i) ==
  at(field(i.immediate, 0, 11), 20) \cup at(i.rs1, 15) \cup funct3_bits(f)
    \cup at(i.rd, 7) \cup opcode_bits(f)

encode_s(f, i) ==
  at(field(i.immediate, 5, 11), 20) \cup at(i.rs2, 20) \cup at(i.rs1, 15)
    \cup funct3_bits(f) \cup at(field(i.immediate, 0, 4), 7) \cup opcode_bits(f)

encode_b(f, i) ==
  at(field(i.immediate, 12, 12), 19) \cup at(field(i.immediate, 5, 10), 20)
    \cup at(i.rs2, 20) \cup at(i.rs1, 15) \cup funct3_bits(f)
    \cup at(field(i.immediate, 1, 4), 7) \cup at(field(i.immediate, 11, 11), -4)
    \cup opcode_bits(f)

encode_u(opcode, i) == field(i.immediate, 12, 31) \cup at(i.rd, 7) \cup bits_of(opcode)

encode_j(i) ==
  at(field(i.immediate, 20, 20), 11) \cup at(field(i.immediate, 1, 10), 20)
    \cup at(field(i.immediate, 11, 11), 9) \cup field(i.immediate, 12, 19)
    \cup at(i.rd, 7) \cup bits_of(111)

encode(i) ==
  CASE i.op \in DOMAIN RFields -> encode_r(RFields[i.op], i)
    [] i.op \in DOMAIN ShiftFields ->
         encode_i(ShiftFields[i.op], i) \cup funct7_bits(ShiftFields[i.op])
    [] i.op \in DOMAIN ArithmeticFields -> encode_i(ArithmeticFields[i.op], i)
    [] i.op \in DOMAIN LoadFields -> encode_i(LoadFields[i.op], i)
    [] i.op \in DOMAIN JalrFields -> encode_i(JalrFields[i.op], i)
    [] i.op \in DOMAIN StoreFields -> encode_s(StoreFields[i.op], i)
    [] i.op \in DOMAIN BranchFields -> encode_b(BranchFields[i.op], i)
    [] i.op \in DOMAIN UpperOpcode -> encode_u(UpperOpcode[i.op], i)
    [] i.op = "JAL" -> encode_j(i)
============================================================================
