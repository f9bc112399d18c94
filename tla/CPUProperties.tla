--------------------------- MODULE CPUProperties ---------------------------
(***************************************************************************)
(* What the CPU promises: it implements the sequential interpreter, and    *)
(* the invariants that relate its components while it does.                *)
(***************************************************************************)
EXTENDS CPU, FiniteSets

----------------------------------------------------------------------------
(* The type invariant, component by component. *)

RobTypeOK ==
  /\ rob_cur \in [RobIndex -> Maybe(ROB!ROBEntry)]
  /\ rob_generations \in [RobIndex -> TagGeneration]
  /\ rob_head \in RobIndex /\ rob_tail \in RobIndex /\ rob_count \in 0 .. RobCapacity

RsTypeOK ==
  /\ rs_cur \in [RS!Slot -> Maybe(RS!RSEntry)]
  /\ rs_cursor \in RS!Slot

LsqTypeOK ==
  /\ lsq_cur \in [LSQ!Slot -> Maybe(LSQ!LSQEntry)]
  /\ lsq_head \in LSQ!Slot /\ lsq_tail \in LSQ!Slot /\ lsq_count \in 0 .. LsqCapacity
  /\ lsq_load_result \in Maybe(FUResult)

(* Every latch of the CPU holds a value of its C++ type; words and         *)
(* addresses never leave the width of a register, rings their indices.     *)
TypeOK ==
  /\ RobTypeOK /\ RsTypeOK /\ LsqTypeOK
  /\ rat \in [RegisterIndex -> Maybe(RobTag)]
  /\ register \in [RegisterIndex -> Word] /\ register[0] = 0
  /\ fu_result \in Maybe(FUResult) /\ prefer_load \in BOOLEAN
  /\ memory \in Image
  /\ transaction \in Maybe(MEM!DataTransaction)
  /\ response \in Maybe(MEM!DataMemoryResponse)
  /\ counters \in [0 .. TableSize - 1 -> BP!Counter]
  /\ current_pc \in Address /\ fetch_stopped \in BOOLEAN
  /\ status \in Status /\ exit_code \in Byte

----------------------------------------------------------------------------
(* The refinement mapping to the sequential interpreter. *)

(* The store at the head of the ring has reached memory, though it is not  *)
(* committed yet: the answer is on its way, or already recorded.           *)
head_store_written ==
  LET entry == ROB!front
  IN  /\ entry # None /\ is_store(entry.op)
      /\ \/ entry.ready
         \/ /\ response # None /\ response.is_store /\ response.success
            /\ response.tag = entry.tag

(* The address of the first instruction whose effect is not architectural  *)
(* yet.  A committed HALT has moved the fetch address past itself.         *)
committed_pc ==
  IF status = "Halted" THEN (current_pc + WordSize - InstructionWidth) % WordSize
  ELSE IF ROB!empty THEN current_pc
  ELSE IF head_store_written
       THEN (ROB!front.pc + InstructionWidth) % WordSize
       ELSE ROB!front.pc

(* The CPU reports a memory fault when the answer arrives, with older      *)
(* instructions possibly uncommitted: the interpreter is then still behind *)
(* and has not met the fault.                                              *)
committed_status == IF status = "MemoryOutOfBound" THEN "Running" ELSE status

Sequential == INSTANCE Interpreter WITH pc <- committed_pc, status <- committed_status

(* Whatever is executed early, late or on a wrong path, registers, memory, *)
(* exit code and stop reason change as if the interpreter ran the program: *)
(* README.md, "ROB guarantees that the program state is updated in order". *)
ImplementsInterpreter == Sequential!Spec

(* A running CPU keeps committing: no instruction waits for ever for an    *)
(* operand, a slot, the bus or memory.  run() has no other way out.        *)
Progress == []<>(status # "Running" \/ ROB!commit # None)

----------------------------------------------------------------------------
(* How old an instruction is: 0 at the head of the ring. *)
age(slot) == (slot + RobCapacity - rob_head) % RobCapacity

writers(r) ==
  {slot \in RobIndex : /\ rob_cur[slot] # None
                       /\ rob_cur[slot].writes_rd /\ rob_cur[slot].rd = r}

(* rename_table.cpp: the table names the youngest uncommitted writer of    *)
(* each register, across commits, issues and flushes in the same cycle.    *)
RatNamesYoungestWriter ==
  \A r \in RegisterIndex :
    IF writers(r) = {} THEN rat[r] = None
    ELSE \E slot \in writers(r) :
           /\ rat[r] = rob_cur[slot].tag
           /\ \A other \in writers(r) : age(other) <= age(slot)

(* Where an unfinished instruction can be: waiting in a queue, or finished *)
(* and waiting for the bus.                                                *)
places(tag) ==
  {<<"RS", slot>> : slot \in {s \in RS!Slot : rs_cur[s] # None /\ rs_cur[s].destination = tag}}
  \cup {<<"LSQ", slot>> : slot \in {s \in LSQ!Slot :
                                      lsq_cur[s] # None /\ lsq_cur[s].destination = tag}}
  \cup (IF fu_result # None /\ fu_result.tag = tag THEN {<<"FU", 0>>} ELSE {})
  \cup (IF lsq_load_result # None /\ lsq_load_result.tag = tag THEN {<<"Load", 0>>} ELSE {})

(* cpu.cpp:296-376 spreads one instruction over several components: each   *)
(* unfinished one is in exactly one place, so that it finishes once, and   *)
(* each finished one is nowhere, so that nothing finishes it again.        *)
OnePlaceEach ==
  \A slot \in RobIndex : rob_cur[slot] # None =>
    Cardinality(places(rob_cur[slot].tag)) = IF rob_cur[slot].ready THEN 0 ELSE 1

(* An operand that waits does so for an older, unfinished instruction that *)
(* will write a register: its broadcast is still to come (issue_unit.cpp:  *)
(* 26-31, the same-cycle bypass).                                          *)
awaited(operand, consumer) ==
  operand.ready \/
  LET producer == ROB!lookup(operand.tag)
      follower == ROB!lookup(consumer)
  IN  /\ producer # None /\ follower # None
      /\ producer.writes_rd /\ ~producer.ready
      /\ age(operand.tag.index) < age(consumer.index)

WakeUpStillToCome ==
  /\ \A slot \in RS!Slot : rs_cur[slot] # None =>
       /\ awaited(rs_cur[slot].lhs, rs_cur[slot].destination)
       /\ awaited(rs_cur[slot].rhs, rs_cur[slot].destination)
  /\ \A slot \in LSQ!Slot : lsq_cur[slot] # None =>
       /\ awaited(lsq_cur[slot].base, lsq_cur[slot].destination)
       /\ awaited(lsq_cur[slot].store_data, lsq_cur[slot].destination)

(* A store that memory is writing, or has just written, is the head of the *)
(* ring: no flush and no older fault can come after it.                    *)
StoresAreNonSpeculative ==
  status = "Running" =>
    /\ transaction # None /\ transaction.request.is_store =>
         ROB!front # None /\ ROB!front.tag = transaction.request.tag
    /\ response # None /\ response.is_store =>
         ROB!front # None /\ ROB!front.tag = response.tag

(* memory_unit.cpp:157-160: the answer is visible for one cycle.  A queue  *)
(* head that has asked memory is being served or answered in this cycle,   *)
(* and an answer it accepts is to its own request, never to that of a      *)
(* flushed load whose slot it reuses.                                      *)
AnswersMeetTheirRequests ==
  status = "Running" =>
    /\ LSQ!front # None /\ LSQ!front.request_sent =>
         \/ transaction # None /\ transaction.request = LSQ!make_memory_request(LSQ!front)
         \/ LSQ!matching_response(response)
    /\ LSQ!matching_response(response) => LSQ!front.request_sent

(* cpu.cpp:319-330: fetching is stopped exactly while the youngest         *)
(* instruction in flight is a HALT; one on a wrong path goes with it.      *)
StoppedBehindHalt ==
  status = "Running" =>
    (fetch_stopped <=>
       \E slot \in RobIndex :
         /\ rob_cur[slot] # None /\ rob_cur[slot].op = "HALT"
         /\ \A other \in RobIndex : rob_cur[other] # None => age(other) <= age(slot))

(* The assertions of cpu.cpp:421-437, load_store_queue.cpp:255 and         *)
(* functional_unit.cpp:211: what one component decides to send, the        *)
(* component it sends it to takes.                                         *)
AssertionsHold ==
  status = "Running" =>
    /\ LET issue == issue_outputs
       IN  issue.status = "Issued" /\ ~ROB!flush =>
             /\ ROB!accepts(issue.rob)
             /\ issue.rs # None =>
                  RS!issue_accepted(issue.rs, broadcast, fu_available, flush)
             /\ issue.lsq # None => LSQ!accepts(issue.lsq)
    /\ dispatch # None /\ fu_available => FU!accepts(dispatch, flush, integer_granted)
    /\ memory_request # None => MEM!accepts(memory_request)
    /\ LSQ!completed_load_result(response, flush) # None =>
         lsq_load_result = None \/ load_granted
============================================================================
