---------------------------- MODULE Cosimulation ----------------------------
(***************************************************************************)
(* The CPU and the reference interpreter load the same image and each runs *)
(* it to its end, at its own pace: what one says about a program can be    *)
(* compared with what the other says.                                      *)
(***************************************************************************)
EXTENDS MCCPU

VARIABLES ref_pc, ref_register, ref_memory, ref_status, ref_exit_code

refVars == <<ref_pc, ref_register, ref_memory, ref_status, ref_exit_code>>

Ref == INSTANCE Interpreter WITH
         pc <- ref_pc, register <- ref_register, memory <- ref_memory,
         status <- ref_status, exit_code <- ref_exit_code

BothInit == Init /\ Ref!Init

LoadBoth == LoadOnce /\ ref_memory' = memory' /\ Ref!load /\ ref_status' = status'

BothNext ==
  \/ LoadBoth
  \/ Cycle /\ UNCHANGED refVars
  \/ Ref!step /\ UNCHANGED vars

BothSpec == BothInit /\ [][BothNext]_<<vars, refVars>>

(* README.md:11: after a misprediction "the simulator removes the younger  *)
(* instructions of the wrong path and fetches again from the right         *)
(* address".  Then a program the interpreter runs to its HALT never stops  *)
(* the CPU with a memory fault.                                            *)
FaultsAreArchitectural ==
  status = "MemoryOutOfBound" => ref_status # "Halted"
=============================================================================
