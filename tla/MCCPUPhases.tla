---------------------------- MODULE MCCPUPhases ----------------------------
(***************************************************************************)
(* The shuffled calls of cycle() on a few programs, among them the kinds   *)
(* that cpu_test.cpp runs under several seeds: dependent arithmetic, loads *)
(* and stores, and branches, and here also faults, HALTs and invalid words *)
(* on right and wrong paths.                                               *)
(***************************************************************************)
EXTENDS MCCPU, CPUPhases

MCPrograms == {
  <<2, 8, 11, 12>>,    \* a store, a narrow load of what it wrote, a branch
  <<6, 3, 12, 8>>,     \* a branch and a sum wait for a load
  <<12, 19, 8, 2>>,    \* a load on the wrong path of a branch
  <<12, 1, 6, 3>>,     \* a HALT on the wrong path of a branch
  <<14, 0, 2, 15>>,    \* an invalid word on a wrong path, then a bad address
  <<2, 6, 7, 4>>,      \* a load out of bounds
  <<8, 9, 10, 11>>,    \* stores fill the load/store queue
  <<18, 0, 3, 3>>,     \* an invalid word on the right path
  <<6, 3, 12, 13>>,    \* a loop
  <<16, 17, 13, 5>>,   \* a backward branch that is not taken
  <<2, 14, 15, 6>>,    \* a jump over a jump to a misaligned address
  <<6, 2, 3, 4>> }     \* a load's and a sum's results meet on the bus

MCPhaseImages == {image_of(program) : program \in MCPrograms}
=============================================================================
