-------------------------------- MODULE CPU --------------------------------
(***************************************************************************)
(* The Tomasulo CPU (tomasulo/cpu.cpp): the components, wired together and *)
(* stepped one clock cycle at a time.                                      *)
(*                                                                         *)
(* CPU::cycle() observes the latched state, freezes every component's      *)
(* decision (plan), hands each component its inputs (apply) and then       *)
(* latches all of them.  Here the wires are operators over the latched     *)
(* state and Cycle is the conjunction of the components' steps: no         *)
(* component sees another's next state.                                    *)
(***************************************************************************)
EXTENDS Instruction, MemoryImage

CONSTANTS
  RsCapacity, LsqCapacity, TableSize, DataLatency,
  InstructionWidth, ExitRegister,
  Images,         \* the images that files may describe, whole or in part
  Decode          \* Decoder::decode, as a function on words

ASSUME CPUAssumption ==
  /\ RsCapacity \in Nat \ {0}
  /\ LsqCapacity \in Nat \ {0}
  /\ TableSize \in Nat \ {0}
  /\ DataLatency \in Nat \ {0}
  /\ InstructionWidth \in Nat \ {0}
  /\ ExitRegister \in RegisterIndex
  /\ Images \subseteq Image
  /\ Decode \in [Word -> DecodedInstruction]

(* A tag does not come round while memory still serves its last owner:     *)
(* three cycles against 2^32 generations.                                  *)
ASSUME LatencyAssumption == DataLatency <= GenerationSize

VARIABLES
  rob_cur, rob_generations, rob_head, rob_tail, rob_count,
  rat, register,
  rs_cur, rs_cursor,
  lsq_cur, lsq_head, lsq_tail, lsq_count, lsq_load_result,
  fu_result, prefer_load,
  memory, transaction, response,
  counters,
  current_pc, fetch_stopped, status, exit_code

coreVars == <<current_pc, fetch_stopped, status, exit_code>>

vars == <<rob_cur, rob_generations, rob_head, rob_tail, rob_count, rat, register,
          rs_cur, rs_cursor, lsq_cur, lsq_head, lsq_tail, lsq_count, lsq_load_result,
          fu_result, prefer_load, memory, transaction, response, counters, coreVars>>

ROB == INSTANCE ReorderBuffer WITH
         cur <- rob_cur, generations <- rob_generations,
         head <- rob_head, tail <- rob_tail, count <- rob_count
RAT == INSTANCE RenameTable WITH cur_table <- rat
RF == INSTANCE RegisterFile
RS == INSTANCE ReservationStation WITH cur_rs <- rs_cur, dispatch_cursor <- rs_cursor
LSQ == INSTANCE LoadStoreQueue WITH
         cur <- lsq_cur, head <- lsq_head, tail <- lsq_tail, count <- lsq_count,
         cur_load_result <- lsq_load_result
FU == INSTANCE FunctionalUnit WITH current_result <- fu_result
CDB == INSTANCE CommonDataBus
MEM == INSTANCE MemoryUnit WITH
         current_transaction <- transaction, current_response <- response
BP == INSTANCE BranchPredictor
Issue == INSTANCE IssueUnit

(* None is nothing a latch or a wire may hold. *)
ASSUME NothingAssumption ==
  None \notin ROB!ROBEntry \cup RS!RSEntry \cup RS!Slot \cup LSQ!LSQEntry \cup Execute
              \cup FUResult \cup CDBMsg \cup MEM!DataMemoryRequest \cup MEM!DataTransaction
              \cup MEM!DataMemoryResponse \cup Issue!DecodePacket \cup RAT!RATWrite
              \cup RF!RegisterWrite \cup Word

(* Bits of a word make a word: a sum the provers cannot compute. *)
ASSUME BitsAssumption ==
  \A positions \in SUBSET FU!BitPosition : FU!from_bits(positions) \in Word

Status == {"NotLoaded", "Running", "Halted", "LoadError", "FetchOutOfBound",
           "InvalidInstruction", "MemoryOutOfBound", "InternalError"}

----------------------------------------------------------------------------
(* Phase A: the wires that depend on the latched state alone. *)

(* preview_rob(): the head of the ring is a finished, mispredicted control *)
(* instruction, so that everything younger is on the wrong path.           *)
flush ==
  LET entry == ROB!front
  IN  /\ entry # None /\ entry.ready /\ is_control(entry.op)
      /\ entry.predicted_next_pc # entry.actual_next_pc

predicted_again == ROB!front.predicted_next_pc
redirect_pc == ROB!front.actual_next_pc

(* preview_rob(): the store that may write memory now. *)
store_request ==
  LET entry == ROB!front
  IN  IF entry # None /\ is_store(entry.op) /\ ~entry.ready THEN entry.tag ELSE None

(* A flush keeps the wrong path's results off the bus. *)
integer_result == IF flush THEN None ELSE fu_result
load_result == IF flush THEN None ELSE lsq_load_result

broadcast == CDB!broadcast(integer_result, load_result)
completion == CDB!completion(integer_result, load_result)
load_granted == CDB!load_granted(integer_result, load_result)
integer_granted == CDB!integer_granted(integer_result, load_result)

----------------------------------------------------------------------------
(* Phase B, Issue: fetch, decode, predict, read the sources. *)

fetch_attempted == ~flush /\ ~fetch_stopped /\ ~ROB!full

fetched == MEM!fetch(current_pc)

fetch_error == fetch_attempted /\ fetched = None

predicted_next_pc(instruction, pc) ==
  IF \/ instruction.op = "JAL"
     \/ is_branch(instruction.op) /\ BP!predict_taken(pc)
  THEN FU!add(pc, instruction.immediate)
  ELSE FU!add(pc, InstructionWidth)

(* What the fetch stage hands to the issue unit. *)
packet ==
  IF ~fetch_attempted \/ fetched = None THEN None
  ELSE LET decoded == Decode[fetched]
       IN  [pc |-> current_pc, decoded |-> decoded,
            predicted_pc |-> predicted_next_pc(decoded, current_pc)]

unfinished_producer(r) ==
  LET producer == RAT!lookup(r)
      entry == ROB!lookup(producer)
      done == entry # None
  IN  [architectural_value |-> IF r = 0 THEN 0 ELSE register[r],
       producer |-> producer, producer_ready |-> done,
       producer_value |-> IF done THEN entry.value ELSE 0]
source_state(r) ==
  LET producer == RAT!lookup(r)
      entry == ROB!lookup(producer)
      done == entry # None /\ entry.ready
  IN  [architectural_value |-> IF r = 0 THEN 0 ELSE register[r],
       producer |-> producer, producer_ready |-> done,
       producer_value |-> IF done THEN entry.value ELSE 0]

no_issue(issue_status) ==
  [status |-> issue_status, rob |-> None, rs |-> None, lsq |-> None, rename |-> None]

issued(p, tag) ==
  LET op == p.decoded.op
      rs1 == Issue!resolve_register(p.decoded.rs1, source_state(p.decoded.rs1), broadcast)
      rs2 == Issue!resolve_register(p.decoded.rs2, source_state(p.decoded.rs2), broadcast)
  IN  [status |-> "Issued",
       rob |-> Issue!rob_entry(p, tag),
       rs |-> IF Issue!need_rs(op) THEN Issue!rs_entry(p, tag, rs1, rs2) ELSE None,
       lsq |-> IF Issue!need_lsq(op) THEN Issue!lsq_entry(p, tag, rs1, rs2) ELSE None,
       rename |-> IF Issue!renames(p.decoded) THEN [rd |-> p.decoded.rd, tag |-> tag]
                  ELSE None]

(* What IssueUnit::plan() answers in this cycle. *)
issue_outputs ==
  LET p == packet
      tag == ROB!next_tag
      issue_status == Issue!issue_status(p, tag, ~ROB!full, RS!available, ~LSQ!full)
  IN  IF issue_status = "Issued" THEN issued(p, tag) ELSE no_issue(issue_status)

----------------------------------------------------------------------------
(* Phase B, the other plans. *)

dispatch == RS!dispatch(flush)
fu_available == FU!can_accept(integer_granted)

memory_error == LSQ!memory_error(response, flush)
store_completion == LSQ!store_completion(response, flush)
memory_request ==
  LSQ!memory_request(store_request, MEM!data_port_available, load_granted, flush)

commit == ROB!commit
halted == commit # None /\ commit.op = "HALT"

register_write ==
  IF commit # None /\ commit.writes_rd THEN [rd |-> commit.rd, value |-> commit.value]
  ELSE None
rat_commit ==
  IF commit # None /\ commit.writes_rd THEN [rd |-> commit.rd, tag |-> commit.tag]
  ELSE None
predictor_update == IF commit # None /\ is_branch(commit.op) THEN commit ELSE None

----------------------------------------------------------------------------
(* What a cycle does to the CPU's own registers. *)

next_pc(issue) ==
  IF flush THEN redirect_pc
  ELSE IF issue.rob # None THEN issue.rob.predicted_next_pc
  ELSE current_pc

stays_stopped(issue) == fetch_stopped \/ (issue.rob # None /\ issue.rob.op = "HALT")
(* Fetching stops behind a HALT, unless the HALT is on the wrong path. *)
next_fetch_stopped(issue) ==
  ~flush /\ (fetch_stopped \/ (issue.rob # None /\ issue.rob.op = "HALT"))

(* A fetch or decode error counts only when nothing older is in flight;    *)
(* the others count at once.  A later line overrides an earlier one.       *)
next_status(issue) ==
  IF halted THEN "Halted"
  ELSE IF memory_error THEN "MemoryOutOfBound"
  ELSE IF issue.status = "InvalidAllocation" THEN "InternalError"
  ELSE IF issue.status = "InvalidInstruction" /\ ROB!empty THEN "InvalidInstruction"
  ELSE IF fetch_error /\ ROB!empty THEN "FetchOutOfBound"
  ELSE status

next_exit_code == IF halted THEN register[ExitRegister] % ByteSize ELSE exit_code

----------------------------------------------------------------------------
Init ==
  /\ ROB!Init /\ RAT!Init /\ RF!Init /\ RS!Init /\ LSQ!Init /\ FU!Init
  /\ CDB!Init /\ MEM!Init /\ BP!Init
  /\ current_pc = 0 /\ fetch_stopped = FALSE
  /\ status = "NotLoaded" /\ exit_code = 0

(* CPU::load(): everything is reset and the image replaced.  When the file *)
(* does not parse, what was read of it stays in memory.                    *)
Load ==
  /\ ROB!reset /\ RAT!reset /\ RF!reset /\ RS!reset /\ LSQ!reset /\ FU!reset
  /\ CDB!reset /\ BP!reset
  /\ \E image \in Images : MEM!load(image)
  /\ current_pc' = 0 /\ fetch_stopped' = FALSE /\ exit_code' = 0
  /\ status' \in {"Running", "LoadError"}

(* CPU::cycle(): the outputs of the issue unit are frozen before any       *)
(* component applies its inputs.                                           *)
Cycle ==
  /\ status = "Running"
  /\ \E issue \in {issue_outputs} :
     /\ CDB!apply(integer_result, load_result)
     /\ ROB!apply(issue.rob, completion, store_completion)
     /\ RS!apply(issue.rs, broadcast, fu_available, flush)
     /\ LSQ!apply(issue.lsq, broadcast, response, memory_request, load_granted, flush)
     /\ FU!apply(dispatch, flush, integer_granted)
     /\ RF!apply(register_write)
     /\ RAT!apply(issue.rename, rat_commit, flush)
     /\ BP!apply(predictor_update)
     /\ MEM!apply(memory_request)
     /\ current_pc' = next_pc(issue)
     /\ fetch_stopped' = next_fetch_stopped(issue)
     /\ status' = next_status(issue)
     /\ exit_code' = next_exit_code

(* The CPU object may be loaded again at any time ... *)
Next == Load \/ Cycle
(* ... but main() loads it once and then runs it. *)
LoadOnce == status = "NotLoaded" /\ Load
MainNext == LoadOnce \/ Cycle

(* CPU::run() calls cycle() for as long as the status is Running. *)
Spec == Init /\ [][MainNext]_vars /\ WF_vars(Cycle)
============================================================================
