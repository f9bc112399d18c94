------------------------- MODULE SelfModifyingCode -------------------------
(***************************************************************************)
(* The CPU running programs that store into their own instructions.        *)
(* fetchAndDecoded (cpu.cpp:170-192) reads memory as it is, without        *)
(* looking at the stores that wait in the load/store queue.  The programs  *)
(* are small ones, some of whose instructions write their fourth word.     *)
(***************************************************************************)
EXTENDS MCCPU, SequencesExt

VARIABLE past   \* history: memory before each of the last writes, latest first

(* A fetch can only miss the stores that wait in the queue. *)
Lag == LsqCapacity

remembered(image) == SubSeq(<<image>> \o past, 1, Min({Lag, Len(past) + 1}))

HistoryInit == Init /\ past = << >>

LoadWithHistory == LoadOnce /\ past' = << >>

CycleWithHistory ==
  /\ Cycle
  /\ past' = IF memory' = memory THEN past ELSE remembered(memory)

HistoryNext == LoadWithHistory \/ CycleWithHistory

HistorySpec == HistoryInit /\ [][HistoryNext]_<<vars, past>>

(* However stale the fetched words (cpu.cpp:177), each is what memory held *)
(* at most LsqCapacity writes before its instruction takes effect, and     *)
(* apart from that such a program runs as on the interpreter.              *)
Delayed == INSTANCE DelayedInterpreter WITH pc <- committed_pc, status <- committed_status
StaleByTheQueueAtMost == Delayed!DelayedSpec
=============================================================================
