-------------------------- MODULE BranchPredictor --------------------------
(***************************************************************************)
(* The bimodal predictor (tomasulo/branch_predictor.cpp): a table of       *)
(* two-bit saturating counters, trained by committed branches only.        *)
(* Its two statistics counters, which nothing reads back, are in Program.  *)
(***************************************************************************)
EXTENDS Instruction

CONSTANTS
  TableSize,         \* BranchPredictor::kTableSize (256)
  InstructionWidth   \* the index drops the bits below an instruction's address

VARIABLE counters   \* current_

kStrongNotTaken == 0
kWeakNotTaken == 1
kWeakTaken == 2
kStrongTaken == 3
Counter == kStrongNotTaken .. kStrongTaken

weak_not_taken == [index \in 0 .. TableSize - 1 |-> kWeakNotTaken]

Init == counters = weak_not_taken

reset == counters' = weak_not_taken

index_of(pc) == (pc \div InstructionWidth) % TableSize

predict_taken(pc) == counters[index_of(pc)] >= kWeakTaken

trained(counter, taken) ==
  CASE taken /\ counter < kStrongTaken -> counter + 1
    [] ~taken /\ counter > kStrongNotTaken -> counter - 1
    [] OTHER -> counter

(* update is a branch's entry as it commits, or None. *)
apply(update) ==
  counters' = IF update = None THEN counters
              ELSE [counters EXCEPT ![index_of(update.pc)] = trained(@, update.branch_taken)]
============================================================================
