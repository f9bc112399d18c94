------------------------------ MODULE Program ------------------------------
(***************************************************************************)
(* The simulator as a program (main.cpp): the CPU with its statistics      *)
(* (cpu.cpp:84-120, 222, 441, branch_predictor.cpp:40-79), loaded and run, *)
(* and what main() prints.  Like the tests (cpu_test.cpp:390-401), a       *)
(* caller may load the CPU again before it reports.                        *)
(***************************************************************************)
EXTENDS CPUProperties

CONSTANT MaxCount   \* the counts, of 64 bits in the code, stop here

ASSUME ProgramAssumption == MaxCount \in Nat

VARIABLES
  cycle_count, committed_count,      \* of the CPU
  prediction_count, correct_count,   \* of the branch predictor
  output                             \* what main() has printed and returned

statistics == <<cycle_count, committed_count, prediction_count, correct_count>>
programVars == <<vars, statistics, output>>

count_up(n) == IF n = MaxCount THEN n ELSE n + 1
count_if(condition, n) == IF condition THEN count_up(n) ELSE n

----------------------------------------------------------------------------
ProgramInit ==
  /\ Init
  /\ cycle_count = 0 /\ committed_count = 0
  /\ prediction_count = 0 /\ correct_count = 0
  /\ output = None

LoadProgram ==
  /\ output = None
  /\ Load
  /\ cycle_count' = 0 /\ committed_count' = 0
  /\ prediction_count' = 0 /\ correct_count' = 0
  /\ UNCHANGED output

(* A HALT is not counted. *)
counted_with_halt == commit # None
counted == commit # None /\ commit.op # "HALT"

branch_was_taken == predictor_update.branch_taken
predicted_correctly ==
  predictor_update.predicted_next_pc = predictor_update.actual_next_pc

RunCycle ==
  /\ output = None
  /\ Cycle
  /\ cycle_count' = count_up(cycle_count)
  /\ committed_count' = count_if(counted, committed_count)
  /\ prediction_count' = count_if(predictor_update # None, prediction_count)
  /\ correct_count' =
       IF predictor_update = None THEN correct_count
       ELSE count_if(predicted_correctly, correct_count)
  /\ UNCHANGED output

failure == [exit |-> 1, value |-> None, committed |-> None, branches |-> None]

report ==
  [exit |-> 0, value |-> exit_code % ByteSize,
   committed |-> committed_count, branches |-> prediction_count]

(* main() returns: load() has failed, or run() has come back.              *)
Exit ==
  /\ output = None
  /\ status \notin {"NotLoaded", "Running"}
  /\ output' = IF status = "Halted" THEN report ELSE failure
  /\ UNCHANGED <<vars, statistics>>

ProgramNext == LoadProgram \/ RunCycle \/ Exit

ProgramSpec == ProgramInit /\ [][ProgramNext]_programVars

----------------------------------------------------------------------------
(* main.cpp:30-43: what is printed is the result of the whole program, and *)
(* `committed` and `branches` are the instructions and the branches the    *)
(* reference interpreter executes for it (cpu.cpp:441, interpreter.cpp:    *)
(* 389): nothing on a wrong path is counted, nothing on the right one left *)
(* out, and nothing of an earlier program after a reload.  A failure is    *)
(* allowed of any program that has not halted (SequentialProgram!Report):  *)
(* this says nothing of when main() may fail.                              *)
PrintedProgram == INSTANCE SequentialProgram WITH
  pc <- committed_pc, status <- committed_status,
  instruction_count <- IF head_store_written THEN count_up(committed_count)
                       ELSE committed_count,
  branch_count <- prediction_count
PrintsTheInterpretersResult == PrintedProgram!ProgramSpec

(* A branch that is not counted as correct (branch_predictor.cpp:42) is    *)
(* one the pipeline is emptied for in the same cycle (cpu.cpp:140), and    *)
(* the other way round.  Both compare the same two addresses of the entry  *)
(* at the head of the ring; what is checked is the count of right          *)
(* predictions, which main() prints.                                       *)
WrongBranchesFlush ==
  RunCycle /\ prediction_count < MaxCount =>
    (prediction_count' - correct_count') - (prediction_count - correct_count)
      = IF flush /\ is_branch(ROB!front.op) THEN 1 ELSE 0
IncorrectMeansFlushed == [][WrongBranchesFlush]_programVars
============================================================================
