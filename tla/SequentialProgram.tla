------------------------- MODULE SequentialProgram -------------------------
(***************************************************************************)
(* What a user of the simulator sees: a program is loaded and interpreted, *)
(* its instructions and branches are counted (instruction_count_ of        *)
(* reference/interpreter.cpp) and, if it halts, its result is printed.     *)
(***************************************************************************)
EXTENDS Interpreter

CONSTANT MaxCount   \* counts stop here

VARIABLES instruction_count, branch_count, output

count_if(condition, n) == IF condition /\ n < MaxCount THEN n + 1 ELSE n

ProgramInit == Init /\ instruction_count = 0 /\ branch_count = 0 /\ output = None

LoadProgram ==
  /\ output = None
  /\ load
  /\ instruction_count' = 0 /\ branch_count' = 0
  /\ UNCHANGED output

executes_branch == is_branch(Decode[read(memory, pc, WORD)].op)

(* HALT and an instruction that faults are not counted. *)
StepProgram ==
  /\ output = None
  /\ step
  /\ instruction_count' = count_if(status' = "Running", instruction_count)
  /\ branch_count' = count_if(status' = "Running" /\ executes_branch, branch_count)
  /\ UNCHANGED output

failure == [exit |-> 1, value |-> None, committed |-> None, branches |-> None]

report ==
  [exit |-> 0, value |-> exit_code, committed |-> instruction_count,
   branches |-> branch_count]

(* The result is that of the whole program.  A program that has not halted *)
(* can only be reported as a failure, at any moment: of the file, of the   *)
(* program, or of a load the CPU has executed ahead of it.                 *)
Report ==
  /\ output = None /\ status # "NotLoaded"
  /\ output' = IF status = "Halted" THEN report ELSE failure
  /\ UNCHANGED <<vars, instruction_count, branch_count>>

ProgramNext == LoadProgram \/ StepProgram \/ Report

ProgramSpec == ProgramInit /\ [][ProgramNext]_<<vars, instruction_count, branch_count, output>>
============================================================================
