---------------------------- MODULE Instruction ----------------------------
(***************************************************************************)
(* Decoded instructions: the operations of isa/instruction.hpp, and what   *)
(* the decoder derives from the operation alone (which operands it reads,  *)
(* whether it writes a register, which queue it needs).                    *)
(***************************************************************************)
EXTENDS Signals

RegisterOps == {"ADD", "SUB", "AND", "XOR", "OR", "SLL", "SLT", "SLTU", "SRL", "SRA"}
ImmediateOps == {"ADDI", "SLTI", "SLTIU", "XORI", "ORI", "ANDI", "SLLI", "SRLI", "SRAI"}
UpperOps == {"LUI", "AUIPC"}
LoadOps == {"LB", "LH", "LW", "LBU", "LHU"}
StoreOps == {"SB", "SH", "SW"}
BranchOps == {"BEQ", "BNE", "BLT", "BGE", "BLTU", "BGEU"}
JumpOps == {"JAL", "JALR"}

OP == RegisterOps \cup ImmediateOps \cup UpperOps \cup LoadOps \cup StoreOps
        \cup BranchOps \cup JumpOps \cup {"HALT", "INVALID"}

DecodedInstruction ==
  [op : OP, rd : RegisterIndex, rs1 : RegisterIndex, rs2 : RegisterIndex,
   immediate : Word]

(* Reservation station -> functional unit. *)
Execute == [op : OP, operand1 : Word, operand2 : Word, immediate : Word,
            pc : Address, tag : RobTag]

is_load(op) == op \in LoadOps
is_store(op) == op \in StoreOps
is_branch(op) == op \in BranchOps
is_jump(op) == op \in JumpOps
is_control(op) == is_branch(op) \/ is_jump(op)

writes_rd(op) ==
  op \in RegisterOps \cup ImmediateOps \cup UpperOps \cup LoadOps \cup JumpOps

lhs_source(op) ==
  CASE op = "LUI" -> "Zero"
    [] op \in {"AUIPC", "JAL"} -> "ProgramCounter"
    [] op \in {"HALT", "INVALID"} -> "Zero"
    [] OTHER -> "Register"

rhs_source(op) ==
  CASE op \in RegisterOps \cup BranchOps -> "Register"
    [] op \in {"HALT", "INVALID"} -> "Zero"
    [] OTHER -> "Immediate"
============================================================================
