----------------------------- MODULE MCDecoder -----------------------------
(***************************************************************************)
(* A word of memory that is fetched: an instruction the assembler wrote,   *)
(* or anything else a speculative fetch may find there, data included,     *)
(* here every word at most MaxFlips bits away from an instruction.         *)
(***************************************************************************)
EXTENDS Decoder, FiniteSets

A == INSTANCE Assembler

CONSTANT MaxFlips

VARIABLES
  bits,        \* the word
  assembled,   \* the instruction it was assembled from, or None
  flips        \* how many bits differ from an instruction's

vars == <<bits, assembled, flips>>

----------------------------------------------------------------------------
(* Instructions to assemble: two choices of registers, and immediates with *)
(* each bit of the format alone, with none and with all.                   *)
alone_and_together(low, width) ==
  {{}, low .. 31} \cup {IF p = width - 1 THEN p .. 31 ELSE {p} : p \in low .. width - 1}

immediates(op) ==
  CASE op \in {"SLLI", "SRLI", "SRAI"} -> {{}, 0 .. 4} \cup {{p} : p \in 0 .. 4}
    [] op \in ImmediateOps \cup LoadOps \cup StoreOps \cup {"JALR"} -> alone_and_together(0, 12)
    [] op \in BranchOps -> alone_and_together(1, 13)
    [] op \in UpperOps -> alone_and_together(12, 32)
    [] op = "JAL" -> alone_and_together(1, 21)
    [] OTHER -> {{}}

registers(op) ==
  {[rd |-> IF op \in StoreOps \cup BranchOps THEN {} ELSE r[1],
    rs1 |-> IF op \in UpperOps \cup {"JAL"} THEN {} ELSE r[2],
    rs2 |-> IF op \in RegisterOps \cup StoreOps \cup BranchOps THEN r[3] ELSE {}] :
     r \in {<<{1, 3}, {}, 0 .. 4>>, <<{}, {0, 2, 4}, {1, 3}>>, <<{0, 4}, {1, 2}, {2}>>}}

instruction(op, r, immediate) ==
  [op |-> op, rd |-> r.rd, rs1 |-> r.rs1, rs2 |-> r.rs2, immediate |-> immediate]

(* addi x10, x0, 255 *)
li_a0_255 == instruction("ADDI", [rd |-> {1, 3}, rs1 |-> {}, rs2 |-> {}], 0 .. 7)

Samples ==
  {li_a0_255} \cup
  UNION {{instruction(op, r, immediate) : r \in registers(op), immediate \in immediates(op)} :
           op \in OP \ {"HALT", "INVALID"}}

----------------------------------------------------------------------------
Init == assembled \in Samples /\ bits = A!encode(assembled) /\ flips = 0

(* The word holds something else. *)
Flip ==
  /\ flips < MaxFlips
  /\ \E p \in Bit : bits' = (bits \cup {p}) \ (bits \cap {p})
  /\ assembled' = None
  /\ flips' = flips + 1

Spec == Init /\ [][Flip]_vars

----------------------------------------------------------------------------
what_it_says(d) ==
  [op |-> d.op, rd |-> d.rd, rs1 |-> d.rs1, rs2 |-> d.rs2, immediate |-> d.immediate]

(* Whatever bits an instruction's registers and immediate have, the        *)
(* decoder (decoder.cpp:28) puts them back together; the one exception is  *)
(* the encoding reserved for the stop marker.                              *)
DecodesWhatWasAssembled ==
  assembled # None =>
    IF assembled = li_a0_255 THEN decode(bits) = [no_instruction EXCEPT !.op = "HALT"]
    ELSE what_it_says(decode(bits)) = assembled

(* A word that decodes to an instruction is that instruction's encoding:   *)
(* no funct7 or funct3 the manual does not assign is taken for another     *)
(* (decoder.cpp:157, 182, 258), so a fetch that runs into data stops the   *)
(* machine or executes what an assembler would have written so.            *)
AcceptsOnlyEncodings ==
  LET d == decode(bits)
  IN  d.op \notin {"INVALID", "HALT"} => A!encode(what_it_says(d)) = bits

(* The flags the six decode functions set one by one agree with what the   *)
(* issue unit, the reorder buffer and the queues take for granted of the   *)
(* operation (issue_unit.cpp:99-136, instruction.hpp:76-85), and an        *)
(* instruction never reads a register it does not declare.                 *)
FlagsFollowOperation ==
  LET d == decode(bits)
  IN  /\ <<d.is_load, d.is_store, d.is_branch, d.is_jump>>
           = <<is_load(d.op), is_store(d.op), is_branch(d.op), is_jump(d.op)>>
      /\ <<d.lhs_source, d.rhs_source>> = <<lhs_source(d.op), rhs_source(d.op)>>
      /\ d.writes_rd <=> writes_rd(d.op) /\ d.rd # {}
      /\ d.uses_rs1 <=> d.lhs_source = "Register"
      /\ d.uses_rs2 <=> d.rhs_source = "Register" \/ d.is_store
============================================================================
