------------------------- MODULE DelayedInterpreter -------------------------
(***************************************************************************)
(* The sequential interpreter of a machine without FENCE.I, which the      *)
(* decoder rejects: an instruction is fetched from memory as it is or as   *)
(* it was before the last few writes.                                      *)
(***************************************************************************)
EXTENDS Interpreter, SequencesExt

CONSTANT Lag   \* how many writes a fetch may miss

VARIABLE past   \* memory before each of the last Lag writes, latest first

DelayedInit == Init /\ past = << >>

DelayedLoad == load /\ past' = << >>

remembered(image) == SubSeq(<<image>> \o past, 1, Min({Lag, Len(past) + 1}))

DelayedStep ==
  /\ status = "Running"
  /\ \E image \in ToSet(past) \cup {memory} : execute_word(read(image, pc, WORD))
  /\ past' = IF memory' = memory THEN past ELSE remembered(memory)

DelayedNext == DelayedLoad \/ DelayedStep

DelayedSpec == DelayedInit /\ [][DelayedNext]_<<vars, past>>
=============================================================================
