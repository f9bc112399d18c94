----------------------------- MODULE IssueUnit -----------------------------
(***************************************************************************)
(* The issue unit (tomasulo/issue_unit.cpp) is combinational: from one     *)
(* decoded instruction, the tag reserved for it and what is known of its   *)
(* two source registers it makes the entries the queues are to take.       *)
(***************************************************************************)
EXTENDS Instruction

(* What Fetch hands over. *)
DecodePacket == [pc : Address, decoded : DecodedInstruction, predicted_pc : Address]

(* What is known of a source register: with no producer its value is the   *)
(* architectural one; otherwise the producer may already be done.          *)
SourceState ==
  [architectural_value : Word, producer : Maybe(RobTag), producer_ready : BOOLEAN,
   producer_value : Word]

need_lsq(op) == is_load(op) \/ is_store(op)
need_rs(op) == op # "HALT" /\ ~need_lsq(op)

IssueStatus ==
  {"InvalidInstruction", "InvalidAllocation", "Unavailability", "Issued", "Empty"}

issue_status(packet, allocated_tag, rob_available, rs_available, lsq_available) ==
  CASE packet = None -> "Empty"
    [] packet # None /\ packet.decoded.op = "INVALID" -> "InvalidInstruction"
    [] OTHER ->
         LET op == packet.decoded.op
         IN  CASE allocated_tag = None -> "InvalidAllocation"
               [] /\ allocated_tag # None
                  /\ \/ ~rob_available
                     \/ need_lsq(op) /\ ~lsq_available
                     \/ need_rs(op) /\ ~rs_available -> "Unavailability"
               [] OTHER -> "Issued"

resolve_without_bypass(index, source, cdb) ==
  CASE index = 0 -> ready_operand(0)
    [] index # 0 /\ source.producer = None -> ready_operand(source.architectural_value)
    [] index # 0 /\ source.producer_ready -> ready_operand(source.producer_value)
    [] OTHER -> waiting_operand(source.producer)
(* A result broadcast in this very cycle is taken from the bus: an operand *)
(* that waited for it instead would never be woken.                        *)
resolve_register(index, source, cdb) ==
  IF index = 0 THEN ready_operand(0)
  ELSE IF source.producer = None THEN ready_operand(source.architectural_value)
  ELSE IF cdb # None /\ cdb.tag = source.producer THEN ready_operand(cdb.value)
  ELSE IF source.producer_ready THEN ready_operand(source.producer_value)
  ELSE waiting_operand(source.producer)

select_operand(source, register_operand, immediate, pc) ==
  CASE source = "Immediate" -> ready_operand(immediate)
    [] source = "ProgramCounter" -> ready_operand(pc)
    [] source = "Register" -> register_operand
    [] OTHER -> ready_operand(0)

(* x0 is never renamed and never written. *)
renames(instruction) == writes_rd(instruction.op) /\ instruction.rd # 0

(* HALT is the one instruction that needs no execution. *)
rob_entry(packet, tag) ==
  [tag |-> tag, op |-> packet.decoded.op, pc |-> packet.pc, rd |-> packet.decoded.rd,
   value |-> 0, writes_rd |-> renames(packet.decoded),
   ready |-> packet.decoded.op = "HALT",
   predicted_next_pc |-> packet.predicted_pc, actual_next_pc |-> 0,
   branch_taken |-> FALSE]

rs_entry(packet, tag, rs1, rs2) ==
  LET instruction == packet.decoded IN
  [op |-> instruction.op, destination |-> tag,
   lhs |-> select_operand(lhs_source(instruction.op), rs1, instruction.immediate, packet.pc),
   rhs |-> select_operand(rhs_source(instruction.op), rs2, instruction.immediate, packet.pc),
   immediate |-> instruction.immediate, pc |-> packet.pc]

lsq_entry(packet, tag, rs1, rs2) ==
  [op |-> packet.decoded.op, destination |-> tag, base |-> rs1,
   store_data |-> IF is_store(packet.decoded.op) THEN rs2 ELSE ready_operand(0),
   immediate |-> packet.decoded.immediate, address |-> 0,
   address_ready |-> FALSE, request_sent |-> FALSE]
============================================================================
