---------------------------- MODULE MCInterpreter ----------------------------
(***************************************************************************)
(* The reference interpreter on programs that set two registers, compare   *)
(* them and halt.                                                          *)
(***************************************************************************)
EXTENDS Interpreter, Sequences

CONSTANT Values   \* what the registers are set to

instruction(op, rd, rs1, rs2, immediate) ==
  [op |-> op, rd |-> rd, rs1 |-> rs1, rs2 |-> rs2, immediate |-> immediate]

(* Words 0 to 9 decode to: HALT, the comparisons, and setting a register.  *)
MCDecode ==
  [w \in Word |->
     CASE w = 1 -> instruction("SLT", 2, 1, 2, 0)
       [] w = 2 -> instruction("SLTU", 2, 1, 2, 0)
       [] w >= 128 -> instruction("ADDI", 1, 0, 0, w - 128)
       [] w \in 64 .. 127 -> instruction("ADDI", 2, 0, 0, w - 64)
       [] OTHER -> instruction("HALT", 0, 0, 0, 0)]

image_of(program) ==
  [a \in 0 .. MemorySize - 1 |-> (program[a \div 4 + 1] \div ByteSize ^ (a % 4)) % ByteSize]

MCLoad ==
  /\ status = "NotLoaded"
  /\ \E lhs \in Values, rhs \in Values, compare \in {1, 2} :
       memory' = image_of(<<128 + lhs, 64 + rhs, compare, 0>>)
  /\ load

MCSpec == Init /\ [][step \/ MCLoad]_vars

(* functional_unit_test.cpp:122-124, "{OP::SLTU, 1U, 0xffffffffU, 1U}":    *)
(* SLT and SLTU compare the values of the two source registers.            *)
ComparesRegisters ==
  LET instruction_at_pc == Decode[read(memory, pc, WORD)]
      lhs == register[instruction_at_pc.rs1]
      rhs == register[instruction_at_pc.rs2]
  IN  status = "Running" =>
        /\ instruction_at_pc.op = "SLT" =>
             register'[instruction_at_pc.rd] = (IF signed_less_than(lhs, rhs) THEN 1 ELSE 0)
        /\ instruction_at_pc.op = "SLTU" =>
             register'[instruction_at_pc.rd] = (IF lhs < rhs THEN 1 ELSE 0)

SetLessThanComparesRegisters == [][ComparesRegisters]_vars
=============================================================================
