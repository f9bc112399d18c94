---------------------------- MODULE Interpreter ----------------------------
(***************************************************************************)
(* The sequential reference interpreter (reference/interpreter.cpp): one   *)
(* instruction at a time, straight on the registers and the memory image.  *)
(* It is the abstract specification the out-of-order CPU implements.       *)
(*                                                                         *)
(* kReady and kRunning, which step() treats alike, are both "Running"; the *)
(* error statuses have the names the CPU gives them.                       *)
(***************************************************************************)
EXTENDS Instruction, MemoryImage

CONSTANTS
  InstructionWidth,   \* kInstructionWidth
  ExitRegister,       \* x10, whose low byte is the exit code
  Decode              \* Decoder::decode, as a function on words

VARIABLES pc, register, memory, status, exit_code

vars == <<pc, register, memory, status, exit_code>>

Status == {"NotLoaded", "Running", "Halted", "LoadError", "FetchOutOfBound",
           "InvalidInstruction", "MemoryOutOfBound"}

Init ==
  /\ pc = 0 /\ exit_code = 0 /\ status = "NotLoaded"
  /\ register = [r \in RegisterIndex |-> 0]
  /\ memory = [address \in 0 .. MemorySize - 1 |-> 0]

(* load(): an image file that does not parse leaves in memory what was     *)
(* read of it before the error.                                            *)
load ==
  /\ pc' = 0 /\ exit_code' = 0
  /\ register' = [r \in RegisterIndex |-> 0]
  /\ status' \in {"Running", "LoadError"}
  /\ memory' \in Image

(* The second operand.  SLT and SLTU compare with the immediate field,     *)
(* which the decoder leaves 0 for them, and not with rs2.                  *)
operand2(instruction) ==
  IF instruction.op \in RegisterOps \ {"SLT", "SLTU"} THEN register[instruction.rs2]
  ELSE instruction.immediate

next_instruction == add(pc, InstructionWidth)

computed(instruction) ==
  LET lhs == register[instruction.rs1]
      rhs == operand2(instruction)
      op == instruction.op
  IN CASE op \in {"ADD", "ADDI"} -> add(lhs, rhs)
       [] op = "SUB" -> sub(lhs, rhs)
       [] op = "LUI" -> instruction.immediate
       [] op = "AUIPC" -> add(pc, instruction.immediate)
       [] op \in {"AND", "ANDI"} -> bit_and(lhs, rhs)
       [] op \in {"OR", "ORI"} -> bit_or(lhs, rhs)
       [] op \in {"XOR", "XORI"} -> bit_xor(lhs, rhs)
       [] op \in {"SLL", "SLLI"} -> shift_left(lhs, shift_amount(rhs))
       [] op \in {"SRL", "SRLI"} -> shift_right(lhs, shift_amount(rhs))
       [] op \in {"SRA", "SRAI"} -> arithmetic_shift_right(lhs, shift_amount(rhs))
       [] op \in {"SLT", "SLTI"} -> IF signed_less_than(lhs, rhs) THEN 1 ELSE 0
       [] op \in {"SLTU", "SLTIU"} -> IF lhs < rhs THEN 1 ELSE 0
       [] OTHER -> next_instruction

branch_taken(instruction) ==
  LET lhs == register[instruction.rs1]
      rhs == register[instruction.rs2]
      op == instruction.op
  IN CASE op = "BEQ" -> lhs = rhs
       [] op = "BNE" -> lhs # rhs
       [] op = "BLT" -> signed_less_than(lhs, rhs)
       [] op = "BGE" -> signed_greater_equal(lhs, rhs)
       [] op = "BLTU" -> lhs < rhs
       [] op = "BGEU" -> lhs >= rhs
       [] OTHER -> FALSE

next_pc(instruction) ==
  CASE instruction.op = "JALR" ->
         clear_least_significant_bit(add(register[instruction.rs1], instruction.immediate))
    [] instruction.op = "JAL" \/ branch_taken(instruction) -> add(pc, instruction.immediate)
    [] OTHER -> next_instruction

access_width(op) ==
  CASE op \in {"LB", "LBU", "SB"} -> BYTE
    [] op \in {"LH", "LHU", "SH"} -> HALF
    [] OTHER -> WORD

effective_address(instruction) == add(register[instruction.rs1], instruction.immediate)

loaded(instruction) ==
  LET width == access_width(instruction.op)
      raw == read(memory, effective_address(instruction), width)
  IN  IF instruction.op \in {"LB", "LH"} THEN sign_extend(raw, width * ByteBits) ELSE raw

----------------------------------------------------------------------------
stop(reason) == status' = reason /\ UNCHANGED <<pc, register, memory, exit_code>>

halt ==
  /\ status' = "Halted"
  /\ exit_code' = register[ExitRegister] % ByteSize
  /\ UNCHANGED <<pc, register, memory>>

write_back(rd, value) ==
  register' = IF rd = 0 THEN register ELSE [register EXCEPT ![rd] = value]

go_on(instruction) == pc' = next_pc(instruction) /\ UNCHANGED <<status, exit_code>>

access(instruction) ==
  LET address == effective_address(instruction)
      width == access_width(instruction.op)
  IN
  \/ ~in_bounds(address, width) /\ stop("MemoryOutOfBound")
  \/ /\ in_bounds(address, width) /\ is_load(instruction.op)
     /\ write_back(instruction.rd, loaded(instruction))
     /\ UNCHANGED memory /\ go_on(instruction)
  \/ /\ in_bounds(address, width) /\ is_store(instruction.op)
     /\ memory' = write(memory, address, width, register[instruction.rs2])
     /\ UNCHANGED register /\ go_on(instruction)

execute(instruction) ==
  /\ IF writes_rd(instruction.op)
     THEN write_back(instruction.rd, computed(instruction)) ELSE UNCHANGED register
  /\ UNCHANGED memory /\ go_on(instruction)

(* A fetched word, or None, is decoded and executed. *)
execute_word(fetched) ==
  LET instruction == Decode[fetched]
  IN
  \/ fetched = None /\ stop("FetchOutOfBound")
  \/ /\ fetched # None
     /\ \/ instruction.op = "HALT" /\ halt
        \/ instruction.op = "INVALID" /\ stop("InvalidInstruction")
        \/ (is_load(instruction.op) \/ is_store(instruction.op)) /\ access(instruction)
        \/ /\ ~is_load(instruction.op) /\ ~is_store(instruction.op)
           /\ instruction.op \notin {"HALT", "INVALID"} /\ execute(instruction)

(* step(): fetch, decode and execute one instruction. *)
step == status = "Running" /\ execute_word(read(memory, pc, WORD))

Next == step \/ load

Spec == Init /\ [][Next]_vars
============================================================================
