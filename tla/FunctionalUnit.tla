--------------------------- MODULE FunctionalUnit ---------------------------
(***************************************************************************)
(* The integer and branch unit (tomasulo/functional_unit.cpp): it computes *)
(* in one cycle and holds the result until the common data bus takes it.   *)
(***************************************************************************)
EXTENDS Instruction, WordArithmetic

CONSTANT InstructionWidth   \* kInstructionWidth (4)

VARIABLE current_result   \* the result waiting for the bus, or None

Init == current_result = None

reset == current_result' = None

can_accept(result_accepted) == result_accepted \/ current_result = None

sequential_pc(pc) == add(pc, InstructionWidth)

(* What an instruction writes to its destination register. *)
result_of(execute) ==
  LET lhs == execute.operand1
      rhs == execute.operand2
  IN CASE execute.op \in {"ADD", "ADDI", "LUI", "AUIPC"} -> add(lhs, rhs)
       [] execute.op = "SUB" -> sub(lhs, rhs)
       [] execute.op \in {"AND", "ANDI"} -> bit_and(lhs, rhs)
       [] execute.op \in {"OR", "ORI"} -> bit_or(lhs, rhs)
       [] execute.op \in {"XOR", "XORI"} -> bit_xor(lhs, rhs)
       [] execute.op \in {"SLL", "SLLI"} -> shift_left(lhs, shift_amount(rhs))
       [] execute.op \in {"SRL", "SRLI"} -> shift_right(lhs, shift_amount(rhs))
       [] execute.op \in {"SRA", "SRAI"} -> arithmetic_shift_right(lhs, shift_amount(rhs))
       [] execute.op \in {"SLTU", "SLTIU"} -> IF lhs < rhs THEN 1 ELSE 0
       [] execute.op \in {"SLT", "SLTI"} -> IF signed_less_than(lhs, rhs) THEN 1 ELSE 0
       [] is_jump(execute.op) -> sequential_pc(execute.pc)
       [] OTHER -> 0

taken(execute) ==
  LET lhs == execute.operand1
      rhs == execute.operand2
  IN CASE execute.op = "BEQ" -> lhs = rhs
       [] execute.op = "BNE" -> lhs # rhs
       [] execute.op = "BLT" -> signed_less_than(lhs, rhs)
       [] execute.op = "BGE" -> signed_greater_equal(lhs, rhs)
       [] execute.op = "BLTU" -> lhs < rhs
       [] execute.op = "BGEU" -> lhs >= rhs
       [] OTHER -> is_jump(execute.op)

next_pc_of(execute) ==
  CASE execute.op = "JALR" ->
         clear_least_significant_bit(add(execute.operand1, execute.immediate))
    [] taken(execute) /\ execute.op # "JALR" -> add(execute.pc, execute.immediate)
    [] OTHER -> sequential_pc(execute.pc)

(* Loads, stores, HALT and INVALID have no result here. *)
executable(op) == ~is_load(op) /\ ~is_store(op) /\ op \notin {"HALT", "INVALID"}

execute_instruction(execute) ==
  [tag |-> execute.tag, result |-> result_of(execute),
   actual_next_pc |-> next_pc_of(execute), branch_taken |-> taken(execute),
   has_control_result |-> is_control(execute.op)]

accepts(execute, flush, result_accepted) ==
  /\ ~flush /\ execute # None
  /\ can_accept(result_accepted) /\ executable(execute.op)

apply(execute, flush, result_accepted) ==
  current_result' = IF accepts(execute, flush, result_accepted)
                    THEN execute_instruction(execute)
                    ELSE IF flush \/ result_accepted THEN None
                    ELSE current_result
=============================================================================
