-------------------------- MODULE CPUPhasesProofs --------------------------
(***************************************************************************)
(* Proofs that one call of CPU::cycle(), whatever the orders in which it   *)
(* calls the components, is one step of CPU.                               *)
(*                                                                         *)
(* Clocked is CPU with every variable replaced, so that its operators are  *)
(* copies of those of CPU over other values, as those of NextROB are of    *)
(* those of ROB.  The first lemmas say that the copies agree while the     *)
(* latched values are the ones seen, and that a phase which writes none of *)
(* them leaves what they say alone.                                        *)
(***************************************************************************)
EXTENDS CPUPhases, TLAPS

(* What phase A observes, and what each component answers in phase B, as   *)
(* functions of the latched state.                                         *)
Observed(available) ==
  [flush |-> flush, store_request |-> store_request,
   broadcast |-> broadcast, completion |-> completion,
   load_granted |-> load_granted, integer_granted |-> integer_granted,
   prefer_load |-> CDB!next_prefer_load(integer_result, load_result),
   memory_response |-> response, memory_available |-> MEM!data_port_available,
   fu_available |-> available]

issue_answer == [outputs |-> issue_outputs, fetch_error |-> fetch_error]
rob_answer ==
  [commit |-> ROB!commit, flush |-> ROB!flush,
   redirect_pc |-> IF ROB!flush THEN ROB!commit.actual_next_pc ELSE 0]
rs_answer == [dispatch |-> dispatch]
lsq_answer ==
  [memory_request |-> memory_request, store_completion |-> store_completion,
   memory_error |-> memory_error]

----------------------------------------------------------------------------
(* What a component's next values are once it has applied. *)

rob_completed ==
  ROB!apply_store_completion(ROB!apply_completion(rob_cur, completion), store_completion)
rob_remaining == IF ROB!commit = None THEN rob_count ELSE rob_count - 1

RobApplied ==
  IF flush
  THEN /\ next_rob_cur = [slot \in RobIndex |-> None]
       /\ next_rob_generations = rob_generations
       /\ next_rob_head = ROB!following_slot(rob_head)
       /\ next_rob_tail = ROB!following_slot(rob_head)
       /\ next_rob_count = 0
  ELSE /\ next_rob_head = IF ROB!commit = None THEN rob_head ELSE ROB!following_slot(rob_head)
       /\ IF ROB!accepts(issue_outputs.rob)
          THEN /\ next_rob_cur =
                    [ROB!retire(rob_completed) EXCEPT ![rob_tail] = issue_outputs.rob]
               /\ next_rob_generations =
                    [rob_generations EXCEPT ![rob_tail] = issue_outputs.rob.tag.generation]
               /\ next_rob_tail = ROB!following_slot(rob_tail)
               /\ next_rob_count = rob_remaining + 1
          ELSE /\ next_rob_cur = ROB!retire(rob_completed)
               /\ next_rob_generations = rob_generations
               /\ next_rob_tail = rob_tail
               /\ next_rob_count = rob_remaining

RsApplied ==
  IF flush THEN next_rs_cur = RS!no_entries /\ next_rs_cursor = 0
  ELSE /\ next_rs_cur = RS!insert(RS!remaining(broadcast, fu_available), issue_outputs.rs)
       /\ next_rs_cursor = IF RS!dispatched(fu_available) = None THEN rs_cursor
                           ELSE RS!cursor_after(RS!dispatched(fu_available))

lsq_removed == LSQ!remove_head(response, FALSE)
lsq_loaded == LSQ!completed_load_result(response, FALSE)
lsq_served ==
  [slot \in LSQ!Slot |-> LSQ!served(slot, broadcast, lsq_removed, memory_request # None)]
lsq_inserted ==
  IF LSQ!accepts(issue_outputs.lsq)
  THEN [lsq_served EXCEPT ![lsq_tail] = issue_outputs.lsq] ELSE lsq_served

LsqApplied ==
  IF flush
  THEN /\ next_lsq_cur = LSQ!no_entries
       /\ next_lsq_head = 0 /\ next_lsq_tail = 0 /\ next_lsq_count = 0
       /\ next_lsq_load_result = None
  ELSE /\ next_lsq_cur = [slot \in LSQ!Slot |-> LSQ!addressed(lsq_inserted[slot])]
       /\ next_lsq_head = IF lsq_removed THEN LSQ!following(lsq_head) ELSE lsq_head
       /\ next_lsq_tail =
            IF LSQ!accepts(issue_outputs.lsq) THEN LSQ!following(lsq_tail) ELSE lsq_tail
       /\ next_lsq_count = (lsq_count + (IF LSQ!accepts(issue_outputs.lsq) THEN 1 ELSE 0))
                             - (IF lsq_removed THEN 1 ELSE 0)
       /\ next_lsq_load_result = IF lsq_loaded # None THEN lsq_loaded
                                 ELSE IF load_granted THEN None ELSE lsq_load_result

FuApplied ==
  next_fu_result = IF FU!accepts(dispatch, flush, integer_granted)
                   THEN FU!execute_instruction(dispatch)
                   ELSE IF flush \/ integer_granted THEN None ELSE fu_result

RatApplied ==
  next_rat = IF flush THEN RAT!invalidated
             ELSE RAT!set_producer(RAT!clear_committed(rat, rat_commit),
                                   issue_outputs.rename)

BpApplied ==
  next_counters =
    IF predictor_update = None THEN counters
    ELSE [counters EXCEPT ![BP!index_of(predictor_update.pc)] =
                            BP!trained(@, predictor_update.branch_taken)]

RfApplied ==
  pending_write = IF register_write = None \/ register_write.rd = 0 THEN None
                  ELSE register_write

MemApplied ==
  /\ next_transaction = MEM!next_transaction(memory_request)
  /\ next_response = IF MEM!completes THEN MEM!response_to(transaction.request) ELSE None
  /\ next_store_write = store_served

CdbApplied == next_prefer_load = CDB!next_prefer_load(integer_result, load_result)

----------------------------------------------------------------------------
(* The inductive invariant. *)

(* The frozen values are those of the latched state, which no phase before *)
(* the latches has touched.                                                *)
WiresAreObserved ==
  /\ phase = "plan" =>
       /\ wires = Observed(FALSE)
       /\ next_core = [pc |-> current_pc, fetch_stopped |-> fetch_stopped, status |-> status]
  /\ phase = "apply" =>
       /\ wires = Observed(fu_available)
       /\ next_core = [pc |-> next_pc(issue_outputs),
                       fetch_stopped |-> next_fetch_stopped(issue_outputs),
                       status |-> status]

Answered(module) == (phase = "plan" /\ module \in called) \/ phase = "apply"

AnswersAreFrozen ==
  /\ decided = [module \in PlanModule |-> decided[module]]
  /\ Answered("Issue") => decided["Issue"] = issue_answer
  /\ Answered("ReorderBuffer") => decided["ReorderBuffer"] = rob_answer
  /\ Answered("ReservationStation") => decided["ReservationStation"] = rs_answer
  /\ Answered("LoadStoreQueue") => decided["LoadStoreQueue"] = lsq_answer

Applied(module) == phase = "apply" /\ module \in called

NextIsApplied ==
  /\ Applied("CommonDataBus") => CdbApplied
  /\ Applied("ReorderBuffer") => RobApplied
  /\ Applied("ReservationStation") => RsApplied
  /\ Applied("LoadStoreQueue") => LsqApplied
  /\ Applied("FunctionalUnit") => FuApplied
  /\ Applied("RegisterFile") => RfApplied
  /\ Applied("RenameTable") => RatApplied
  /\ Applied("BranchPredictor") => BpApplied
  /\ Applied("MemoryUnit") => MemApplied

(* A transaction serves a request: None would be no store to schedule. *)
ServesARequest(served) ==
  served # None =>
    \E request, cycles :
      request # None /\ served = [request |-> request, remaining_cycles |-> cycles]

PhasesInv ==
  /\ phase \in {"idle", "plan", "apply", "latch"}
  /\ phase # "idle" => status = "Running"
  /\ fetch_stopped \in BOOLEAN /\ next_core.fetch_stopped \in BOOLEAN
  /\ NextStartsFromLatched
  /\ WiresAreObserved
  /\ AnswersAreFrozen
  /\ NextIsApplied
  /\ ServesARequest(transaction) /\ ServesARequest(next_transaction)

----------------------------------------------------------------------------
(* While the latched values are the ones seen, Clocked says what CPU says. *)

LEMMA SameRing ==
  ASSUME phase # "latch"
  PROVE  /\ Clocked!ROB!empty <=> ROB!empty
         /\ Clocked!ROB!full <=> ROB!full
         /\ Clocked!ROB!front = ROB!front
         /\ Clocked!ROB!next_tag = ROB!next_tag
         /\ Clocked!ROB!commit = ROB!commit
         /\ \A tag : Clocked!ROB!lookup(tag) = ROB!lookup(tag)
BY DEF seen, Clocked!ROB!empty, ROB!empty, Clocked!ROB!full, ROB!full,
     Clocked!ROB!front, ROB!front, Clocked!ROB!next_tag, ROB!next_tag,
     Clocked!ROB!commit, ROB!commit, Clocked!ROB!lookup, ROB!lookup,
     Clocked!ROB!matching_entry, ROB!matching_entry, Clocked!ROB!following_generation,
     ROB!following_generation

LEMMA SameFlush ==
  ASSUME phase # "latch"
  PROVE  /\ Clocked!flush = flush
         /\ Clocked!redirect_pc = redirect_pc
         /\ Clocked!store_request = store_request
         /\ Clocked!integer_result = integer_result
         /\ Clocked!load_result = load_result
BY SameRing DEF seen, Clocked!flush, flush, Clocked!redirect_pc, redirect_pc,
     Clocked!store_request, store_request, Clocked!integer_result, integer_result,
     Clocked!load_result, load_result, Clocked!is_control, is_control,
     Clocked!is_branch, is_branch, Clocked!is_jump, is_jump, Clocked!is_store, is_store,
     Clocked!BranchOps, BranchOps, Clocked!JumpOps, JumpOps, Clocked!StoreOps, StoreOps

LEMMA SameBus ==
  ASSUME phase # "latch"
  PROVE  /\ Clocked!broadcast = broadcast
         /\ Clocked!completion = completion
         /\ Clocked!load_granted = load_granted
         /\ Clocked!integer_granted = integer_granted
         /\ Clocked!fu_available = fu_available
         /\ Clocked!CDB!next_prefer_load(integer_result, load_result)
              = CDB!next_prefer_load(integer_result, load_result)
BY SameFlush DEF seen, Clocked!broadcast, broadcast, Clocked!completion, completion,
     Clocked!load_granted, load_granted, Clocked!integer_granted, integer_granted,
     Clocked!fu_available, fu_available, Clocked!CDB!broadcast, CDB!broadcast,
     Clocked!CDB!completion, CDB!completion, Clocked!CDB!load_granted, CDB!load_granted,
     Clocked!CDB!integer_granted, CDB!integer_granted, Clocked!CDB!next_prefer_load,
     CDB!next_prefer_load, Clocked!FU!can_accept, FU!can_accept

LEMMA SamePacket ==
  ASSUME phase # "latch"
  PROVE  /\ Clocked!fetch_error <=> fetch_error
         /\ Clocked!packet = packet
<1>1. Clocked!fetch_attempted <=> fetch_attempted
  BY SameRing, SameFlush DEF seen, Clocked!fetch_attempted, fetch_attempted
<1>2. Clocked!fetched = fetched
  BY DEF seen, Clocked!fetched, fetched, Clocked!MEM!fetch, MEM!fetch, Clocked!MEM!read,
       MEM!read, Clocked!MEM!in_bounds, MEM!in_bounds, Clocked!MEM!ByteSize,
       MEM!ByteSize, Clocked!MEM!WORD, MEM!WORD
<1>3. \A instruction, pc :
        Clocked!predicted_next_pc(instruction, pc) = predicted_next_pc(instruction, pc)
  BY DEF seen, Clocked!predicted_next_pc, predicted_next_pc, Clocked!is_branch,
       is_branch, Clocked!BranchOps, BranchOps, Clocked!BP!predict_taken,
       BP!predict_taken, Clocked!BP!index_of, BP!index_of, Clocked!BP!kWeakTaken,
       BP!kWeakTaken, Clocked!FU!add, FU!add, Clocked!FU!WordSize, FU!WordSize,
       Clocked!FU!WordBits, FU!WordBits
<1> QED BY <1>1, <1>2, <1>3 DEF seen, Clocked!fetch_error, fetch_error, Clocked!packet,
     packet

LEMMA SameEntries ==
  /\ \A index, source, cdb : Clocked!Issue!resolve_register(index, source, cdb)
                               = Issue!resolve_register(index, source, cdb)
  /\ \A p, tag : Clocked!Issue!rob_entry(p, tag) = Issue!rob_entry(p, tag)
  /\ \A p, tag, rs1, rs2 :
       /\ Clocked!Issue!rs_entry(p, tag, rs1, rs2) = Issue!rs_entry(p, tag, rs1, rs2)
       /\ Clocked!Issue!lsq_entry(p, tag, rs1, rs2) = Issue!lsq_entry(p, tag, rs1, rs2)
  /\ \A decoded : Clocked!Issue!renames(decoded) <=> Issue!renames(decoded)
  /\ \A op : /\ Clocked!Issue!need_rs(op) <=> Issue!need_rs(op)
             /\ Clocked!Issue!need_lsq(op) <=> Issue!need_lsq(op)
  /\ \A p, tag, a, b, c :
       Clocked!Issue!issue_status(p, tag, a, b, c) = Issue!issue_status(p, tag, a, b, c)
BY DEF Clocked!Issue!resolve_register, Issue!resolve_register,
     Clocked!Issue!ready_operand, Issue!ready_operand, Clocked!Issue!waiting_operand,
     Issue!waiting_operand, Clocked!Issue!rob_entry, Issue!rob_entry,
     Clocked!Issue!rs_entry, Issue!rs_entry, Clocked!Issue!lsq_entry, Issue!lsq_entry,
     Clocked!Issue!renames, Issue!renames, Clocked!Issue!need_rs, Issue!need_rs,
     Clocked!Issue!need_lsq, Issue!need_lsq, Clocked!Issue!issue_status,
     Issue!issue_status, Clocked!Issue!select_operand, Issue!select_operand,
     Clocked!Issue!lhs_source, Issue!lhs_source, Clocked!Issue!rhs_source,
     Issue!rhs_source, Clocked!Issue!writes_rd, Issue!writes_rd, Clocked!Issue!is_load,
     Issue!is_load, Clocked!Issue!is_store, Issue!is_store, Clocked!Issue!LoadOps,
     Issue!LoadOps, Clocked!Issue!StoreOps, Issue!StoreOps, Clocked!Issue!RegisterOps,
     Issue!RegisterOps, Clocked!Issue!ImmediateOps, Issue!ImmediateOps,
     Clocked!Issue!UpperOps, Issue!UpperOps, Clocked!Issue!BranchOps, Issue!BranchOps,
     Clocked!Issue!JumpOps, Issue!JumpOps

LEMMA SameIssue ==
  ASSUME phase # "latch"
  PROVE  Clocked!issue_outputs = issue_outputs
<1>1. \A r : Clocked!source_state(r) = source_state(r)
  BY SameRing DEF seen, Clocked!source_state, source_state, Clocked!RAT!lookup,
       RAT!lookup
<1>2. \A p, tag : Clocked!issued(p, tag) = issued(p, tag)
  BY <1>1, SameEntries, SameBus DEF Clocked!issued, issued
<1>3. Clocked!RS!available <=> RS!available
  BY DEF seen, Clocked!RS!available, RS!available, Clocked!RS!Slot, RS!Slot
<1>4. Clocked!LSQ!full <=> LSQ!full
  BY DEF seen, Clocked!LSQ!full, LSQ!full
<1> QED
  BY <1>2, <1>3, <1>4, SameEntries, SameRing, SamePacket DEF Clocked!issue_outputs,
       issue_outputs, Clocked!no_issue, no_issue

LEMMA SamePlans ==
  ASSUME phase # "latch"
  PROVE  /\ Clocked!dispatch = dispatch
         /\ Clocked!RS!select_ready_index = RS!select_ready_index
         /\ Clocked!memory_error <=> memory_error
         /\ Clocked!store_completion = store_completion
         /\ Clocked!memory_request = memory_request
         /\ Clocked!halted <=> halted
         /\ Clocked!register_write = register_write
         /\ Clocked!rat_commit = rat_commit
         /\ Clocked!predictor_update = predictor_update
<1>1. Clocked!RS!select_ready_index = RS!select_ready_index
  <2>1. Clocked!RS!ready_slots = RS!ready_slots
    BY DEF seen, Clocked!RS!ready_slots, RS!ready_slots, Clocked!RS!Slot, RS!Slot
  <2> QED BY <2>1 DEF seen, Clocked!RS!select_ready_index, RS!select_ready_index
<1>2. Clocked!dispatch = dispatch
  BY <1>1, SameFlush DEF seen, Clocked!dispatch, dispatch, Clocked!RS!dispatch,
       RS!dispatch, Clocked!RS!make_execute, RS!make_execute
<1>3. (Clocked!memory_error <=> memory_error) /\ Clocked!store_completion = store_completion
  BY SameFlush DEF seen, Clocked!memory_error, memory_error, Clocked!store_completion,
       store_completion, Clocked!LSQ!memory_error, LSQ!memory_error,
       Clocked!LSQ!store_completion, LSQ!store_completion, Clocked!LSQ!remove_head,
       LSQ!remove_head, Clocked!LSQ!matching_response, LSQ!matching_response,
       Clocked!LSQ!front, LSQ!front, Clocked!LSQ!empty, LSQ!empty, Clocked!LSQ!is_store,
       LSQ!is_store, Clocked!LSQ!StoreOps, LSQ!StoreOps
<1>4. Clocked!memory_request = memory_request
  BY SameFlush, SameBus DEF seen, Clocked!memory_request, memory_request,
       Clocked!LSQ!memory_request, LSQ!memory_request, Clocked!LSQ!may_send,
       LSQ!may_send, Clocked!LSQ!make_memory_request, LSQ!make_memory_request,
       Clocked!LSQ!memory_width, LSQ!memory_width, Clocked!LSQ!front, LSQ!front,
       Clocked!LSQ!empty, LSQ!empty, Clocked!LSQ!is_store, LSQ!is_store,
       Clocked!LSQ!is_load, LSQ!is_load, Clocked!LSQ!LoadOps, LSQ!LoadOps,
       Clocked!LSQ!StoreOps, LSQ!StoreOps, Clocked!MEM!data_port_available,
       MEM!data_port_available
<1>5. Clocked!commit = commit
  BY SameRing DEF Clocked!commit, commit
<1>6. (Clocked!halted <=> halted) /\ Clocked!register_write = register_write
  BY <1>5 DEF Clocked!halted, halted, Clocked!register_write, register_write
<1>7. Clocked!rat_commit = rat_commit /\ Clocked!predictor_update = predictor_update
  BY <1>5 DEF Clocked!rat_commit, rat_commit, Clocked!predictor_update,
       predictor_update, Clocked!is_branch, is_branch, Clocked!BranchOps, BranchOps
<1> QED BY <1>1, <1>2, <1>3, <1>4, <1>6, <1>7

----------------------------------------------------------------------------
(* What depends on the latched state alone does not change with it. *)

LEMMA Frozen ==
  ASSUME UNCHANGED vars
  PROVE  /\ UNCHANGED <<Observed(FALSE), Observed(fu_available)>>
         /\ UNCHANGED <<issue_answer, rob_answer, rs_answer, lsq_answer>>
         /\ UNCHANGED <<flush, integer_result, load_result, broadcast, completion,
                        load_granted, integer_granted, fu_available>>
         /\ UNCHANGED <<ROB!empty, ROB!commit, commit, RS!select_ready_index, dispatch,
                        memory_request, store_completion, issue_outputs>>
         /\ UNCHANGED <<next_pc(issue_outputs), next_fetch_stopped(issue_outputs),
                        CDB!next_prefer_load(integer_result, load_result)>>
<1> USE DEF vars, coreVars
<1>1. UNCHANGED <<ROB!empty, ROB!full, ROB!front, ROB!next_tag, ROB!commit, ROB!flush>>
  BY DEF ROB!empty, ROB!full, ROB!front, ROB!next_tag, ROB!commit, ROB!flush,
       ROB!lookup, ROB!matching_entry, ROB!following_generation, ROB!mispredicted
<1>2. UNCHANGED <<flush, redirect_pc, store_request, integer_result, load_result, commit>>
  BY <1>1 DEF flush, redirect_pc, store_request, integer_result, load_result, commit
<1>3. UNCHANGED <<broadcast, completion, load_granted, integer_granted, fu_available,
                  CDB!next_prefer_load(integer_result, load_result)>>
  BY <1>2 DEF broadcast, completion, load_granted, integer_granted, fu_available,
       CDB!broadcast, CDB!completion, CDB!load_granted, CDB!integer_granted,
       CDB!next_prefer_load, FU!can_accept
<1>4. UNCHANGED <<RS!select_ready_index, dispatch>>
  <2>1. UNCHANGED RS!select_ready_index
    BY DEF RS!select_ready_index, RS!ready_slots
  <2> QED BY <1>2, <2>1 DEF dispatch, RS!dispatch
<1>5. UNCHANGED <<memory_request, store_completion, memory_error, MEM!data_port_available>>
  BY <1>2, <1>3 DEF memory_request, store_completion, memory_error, LSQ!memory_request,
       LSQ!memory_error, LSQ!store_completion, LSQ!remove_head, LSQ!matching_response,
       LSQ!front, LSQ!empty, LSQ!may_send, MEM!data_port_available
<1>6. UNCHANGED <<fetch_attempted, fetched, fetch_error>>
  BY <1>1, <1>2 DEF fetch_attempted, fetched, fetch_error, MEM!fetch, MEM!read
<1>7. UNCHANGED issue_outputs
  <2>1. UNCHANGED packet
    BY <1>6 DEF packet, predicted_next_pc, BP!predict_taken
  <2>2. UNCHANGED <<RS!available, LSQ!full>>
    BY DEF RS!available, LSQ!full
  <2>3. \A r : UNCHANGED source_state(r)
    BY DEF source_state, RAT!lookup, ROB!lookup, ROB!matching_entry
  <2> QED BY <1>1, <1>3, <2>1, <2>2, <2>3 DEF issue_outputs, issued, no_issue
<1> QED
  BY <1>1, <1>2, <1>3, <1>4, <1>5, <1>6, <1>7
  DEF Observed, issue_answer, rob_answer, rs_answer, lsq_answer, next_pc,
       next_fetch_stopped

(* No instruction is issued in the cycle of a flush. *)
LEMMA NothingIssuedInFlush ==
  ASSUME flush
  PROVE  /\ issue_outputs.rob = None /\ issue_outputs.rs = None
         /\ issue_outputs.lsq = None /\ issue_outputs.rename = None
BY DEF issue_outputs, packet, fetch_attempted, Issue!issue_status, no_issue

LEMMA PlannedFlush ==
  /\ ROB!flush <=> flush
  /\ flush => ROB!commit.actual_next_pc = redirect_pc
BY DEF flush, redirect_pc, ROB!flush, ROB!commit, ROB!mispredicted, ROB!is_control,
     ROB!is_branch, ROB!is_jump, ROB!BranchOps, ROB!JumpOps, is_control, is_branch,
     is_jump, BranchOps, JumpOps

LEMMA FrozenResults ==
  ASSUME UNCHANGED vars
  PROVE  /\ UNCHANGED <<ROB!accepts(issue_outputs.rob), ROB!retire(rob_completed)>>
         /\ UNCHANGED <<RS!dispatched(fu_available), RS!remaining(broadcast, fu_available)>>
         /\ UNCHANGED <<lsq_removed, lsq_loaded, LSQ!accepts(issue_outputs.lsq), lsq_inserted>>
         /\ UNCHANGED <<rat_commit, register_write, predictor_update>>
         /\ UNCHANGED <<MEM!completes, store_served, MEM!next_transaction(memory_request),
                        MEM!response_to(transaction.request)>>
<1> USE DEF vars, coreVars
<1>1. UNCHANGED <<commit, ROB!commit, completion, store_completion, broadcast,
                  fu_available, RS!select_ready_index, memory_request, issue_outputs>>
  BY Frozen
<1>2. UNCHANGED <<ROB!accepts(issue_outputs.rob), ROB!retire(rob_completed)>>
  BY <1>1 DEF rob_completed, ROB!accepts, ROB!full, ROB!next_tag, ROB!retire,
       ROB!apply_store_completion, ROB!apply_completion, ROB!matching_entry
<1>3. UNCHANGED <<RS!dispatched(fu_available), RS!remaining(broadcast, fu_available)>>
  BY <1>1 DEF RS!dispatched, RS!remaining
<1>4. UNCHANGED <<lsq_removed, lsq_loaded, LSQ!accepts(issue_outputs.lsq), lsq_served>>
  BY <1>1 DEF lsq_removed, lsq_loaded, lsq_served, LSQ!remove_head,
       LSQ!completed_load_result, LSQ!matching_response, LSQ!front, LSQ!empty,
       LSQ!accepts, LSQ!full, LSQ!served
<1>5. UNCHANGED lsq_inserted
  BY <1>1, <1>4 DEF lsq_inserted
<1>6. UNCHANGED <<rat_commit, register_write, predictor_update>>
  BY <1>1 DEF rat_commit, register_write, predictor_update
<1>7. UNCHANGED <<MEM!completes, store_served, MEM!next_transaction(memory_request),
                  MEM!response_to(transaction.request)>>
  BY <1>1 DEF store_served, MEM!completes, MEM!next_transaction, MEM!accepts,
       MEM!response_to, MEM!read
<1> QED BY <1>2, <1>3, <1>4, <1>5, <1>6, <1>7

LEMMA AppliedStays ==
  ASSUME UNCHANGED vars
  PROVE  /\ CdbApplied /\ UNCHANGED next_prefer_load => CdbApplied'
         /\ RobApplied /\ UNCHANGED robNext => RobApplied'
         /\ RsApplied /\ UNCHANGED rsNext => RsApplied'
         /\ LsqApplied /\ UNCHANGED lsqNext => LsqApplied'
         /\ FuApplied /\ UNCHANGED next_fu_result => FuApplied'
         /\ RfApplied /\ UNCHANGED pending_write => RfApplied'
         /\ RatApplied /\ UNCHANGED next_rat => RatApplied'
         /\ BpApplied /\ UNCHANGED next_counters => BpApplied'
         /\ MemApplied /\ UNCHANGED memNext => MemApplied'
<1> USE Frozen, FrozenResults DEF vars
<1>1. CdbApplied /\ UNCHANGED next_prefer_load => CdbApplied'
  BY DEF CdbApplied
<1>2. RobApplied /\ UNCHANGED robNext => RobApplied'
  BY DEF RobApplied, rob_remaining, robNext
<1>3. RsApplied /\ UNCHANGED rsNext => RsApplied'
  BY DEF RsApplied, rsNext
<1>4. LsqApplied /\ UNCHANGED lsqNext => LsqApplied'
  BY DEF LsqApplied, lsqNext
<1>5. FuApplied /\ UNCHANGED next_fu_result => FuApplied'
  BY DEF FuApplied, FU!accepts, FU!can_accept
<1>6. RfApplied /\ UNCHANGED pending_write => RfApplied'
  BY DEF RfApplied
<1>7. RatApplied /\ UNCHANGED next_rat => RatApplied'
  BY DEF RatApplied
<1>8. BpApplied /\ UNCHANGED next_counters => BpApplied'
  BY DEF BpApplied
<1>9. MemApplied /\ UNCHANGED memNext => MemApplied'
  BY DEF MemApplied, memNext
<1> QED BY <1>1, <1>2, <1>3, <1>4, <1>5, <1>6, <1>7, <1>8, <1>9

----------------------------------------------------------------------------
(* apply() of each component on a next value that starts from the latched  *)
(* one: a copy of the component's own step, with the same result.          *)

LEMMA ApplyInputs ==
  ASSUME PhasesInv, phase = "apply"
  PROVE  /\ wires.flush = flush /\ wires.broadcast = broadcast
         /\ wires.completion = completion /\ wires.memory_response = response
         /\ wires.load_granted = load_granted /\ wires.integer_granted = integer_granted
         /\ wires.prefer_load = CDB!next_prefer_load(integer_result, load_result)
         /\ available_to_rs = fu_available
         /\ issue = issue_outputs
         /\ unless_flushed(issue.rob) = issue_outputs.rob
         /\ unless_flushed(issue.rs) = issue_outputs.rs
         /\ unless_flushed(issue.lsq) = issue_outputs.lsq
         /\ rat_write_input = issue_outputs.rename
         /\ committing = commit /\ flushing = flush
         /\ register_write_input = register_write
         /\ rat_commit_input = rat_commit
         /\ predictor_input = predictor_update
         /\ memory_requested = memory_request
         /\ decided["LoadStoreQueue"].store_completion = store_completion
         /\ decided["LoadStoreQueue"].memory_error = memory_error
         /\ decided["Issue"].fetch_error = fetch_error
         /\ decided["ReservationStation"].dispatch = dispatch
<1>1. wires = Observed(fu_available)
  BY DEF PhasesInv, WiresAreObserved
<1>2. /\ decided["Issue"] = issue_answer /\ decided["ReorderBuffer"] = rob_answer
      /\ decided["ReservationStation"] = rs_answer
      /\ decided["LoadStoreQueue"] = lsq_answer
  BY DEF PhasesInv, AnswersAreFrozen, Answered
<1>3. /\ wires.flush = flush /\ wires.broadcast = broadcast
      /\ wires.completion = completion /\ wires.memory_response = response
      /\ wires.load_granted = load_granted /\ wires.integer_granted = integer_granted
      /\ wires.prefer_load = CDB!next_prefer_load(integer_result, load_result)
      /\ available_to_rs = fu_available
  BY <1>1 DEF Observed, available_to_rs
<1>4. issue = issue_outputs /\ decided["Issue"].fetch_error = fetch_error
  BY <1>2 DEF issue, issue_answer
<1>5. /\ memory_requested = memory_request
      /\ decided["LoadStoreQueue"].store_completion = store_completion
      /\ decided["LoadStoreQueue"].memory_error = memory_error
      /\ decided["ReservationStation"].dispatch = dispatch
  BY <1>2 DEF memory_requested, lsq_answer, rs_answer
<1>6. committing = commit /\ flushing = flush
  <2>1. committing = commit /\ flushing = ROB!flush
    BY <1>2 DEF committing, flushing, rob_answer, commit
  <2>2. ROB!flush = flush
    BY PlannedFlush DEF flush, ROB!flush
  <2> QED BY <2>1, <2>2
<1>7. /\ unless_flushed(issue.rob) = issue_outputs.rob
      /\ unless_flushed(issue.rs) = issue_outputs.rs
      /\ unless_flushed(issue.lsq) = issue_outputs.lsq
      /\ rat_write_input = issue_outputs.rename
  BY <1>3, <1>4, <1>6, NothingIssuedInFlush DEF unless_flushed, rat_write_input
<1>8. /\ register_write_input = register_write
      /\ rat_commit_input = rat_commit
      /\ predictor_input = predictor_update
  BY <1>6 DEF register_write_input, register_write, rat_commit_input, rat_commit,
       predictor_input, predictor_update
<1> QED BY <1>3, <1>4, <1>5, <1>6, <1>7, <1>8

LEMMA RobApplies ==
  ASSUME UNCHANGED vars, robNext = robLatched,
         NextROB!apply(issue_outputs.rob, completion, store_completion)
  PROVE  RobApplied'
<1>1. UNCHANGED <<flush, completion, store_completion, issue_outputs, ROB!commit>>
  BY Frozen
<1>2. /\ next_rob_cur = rob_cur /\ next_rob_generations = rob_generations
      /\ next_rob_head = rob_head /\ next_rob_tail = rob_tail /\ next_rob_count = rob_count
  BY DEF robNext, robLatched
<1>3. (NextROB!flush <=> flush) /\ NextROB!commit = ROB!commit
  BY <1>2, PlannedFlush DEF NextROB!flush, ROB!flush, NextROB!commit, ROB!commit,
       NextROB!front, ROB!front, NextROB!empty, ROB!empty, NextROB!mispredicted,
       ROB!mispredicted, NextROB!is_control, ROB!is_control, NextROB!is_branch,
       ROB!is_branch, NextROB!is_jump, ROB!is_jump, NextROB!BranchOps, ROB!BranchOps,
       NextROB!JumpOps, ROB!JumpOps
<1>4. UNCHANGED <<rob_cur, rob_generations, rob_head, rob_tail, rob_count>>
  BY DEF vars
<1>5. CASE flush
  BY <1>1, <1>2, <1>3, <1>4, <1>5
  DEF NextROB!apply, ROB!apply, NextROB!clear_speculative_entries,
       ROB!clear_speculative_entries, NextROB!following_slot, ROB!following_slot,
       NextROB!RobIndex, ROB!RobIndex, RobIndex, RobApplied
<1>6. CASE ~flush
  <2>1. NextROB!accepts(issue_outputs.rob) <=> ROB!accepts(issue_outputs.rob)
    BY <1>2 DEF NextROB!accepts, ROB!accepts, NextROB!full, ROB!full, NextROB!next_tag,
         ROB!next_tag, NextROB!following_generation, ROB!following_generation
  <2>2. NextROB!retire(NextROB!apply_store_completion(
          NextROB!apply_completion(next_rob_cur, completion), store_completion))
          = ROB!retire(rob_completed)
    BY <1>2, <1>3 DEF rob_completed, NextROB!retire, ROB!retire,
         NextROB!apply_store_completion, ROB!apply_store_completion,
         NextROB!apply_completion, ROB!apply_completion, NextROB!matching_entry,
         ROB!matching_entry, NextROB!with_result, ROB!with_result, NextROB!is_store,
         ROB!is_store, NextROB!StoreOps, ROB!StoreOps
  <2> QED
    BY <1>1, <1>2, <1>3, <1>4, <1>6, <2>1, <2>2, FrozenResults
    DEF NextROB!apply, ROB!apply, NextROB!advance, ROB!advance, NextROB!following_slot,
         ROB!following_slot, RobApplied, rob_remaining
<1> QED BY <1>5, <1>6

LEMMA RsApplies ==
  ASSUME UNCHANGED vars, rsNext = rsLatched,
         NextRS!apply(issue_outputs.rs, broadcast, fu_available, flush)
  PROVE  RsApplied'
<1>1. UNCHANGED <<flush, broadcast, fu_available, issue_outputs, RS!select_ready_index>>
  BY Frozen
<1>2. next_rs_cur = rs_cur /\ next_rs_cursor = rs_cursor
  BY DEF rsNext, rsLatched
<1>3. UNCHANGED <<rs_cur, rs_cursor>>
  BY DEF vars
<1>4. NextRS!select_ready_index = RS!select_ready_index
  <2>1. NextRS!ready_slots = RS!ready_slots
    BY <1>2 DEF NextRS!ready_slots, RS!ready_slots, NextRS!Slot, RS!Slot
  <2> QED BY <1>2, <2>1 DEF NextRS!select_ready_index, RS!select_ready_index
<1>5. /\ NextRS!dispatched(fu_available) = RS!dispatched(fu_available)
      /\ NextRS!remaining(broadcast, fu_available) = RS!remaining(broadcast, fu_available)
  BY <1>2, <1>4 DEF NextRS!dispatched, RS!dispatched, NextRS!remaining, RS!remaining,
       NextRS!wake_entry, RS!wake_entry, NextRS!wake_operand, RS!wake_operand,
       NextRS!ready_operand, RS!ready_operand, NextRS!Slot, RS!Slot
<1>6. \A entries : NextRS!insert(entries, issue_outputs.rs)
                      = RS!insert(entries, issue_outputs.rs)
  BY DEF NextRS!insert, RS!insert, NextRS!find_free_index, RS!find_free_index,
       NextRS!Slot, RS!Slot
<1> QED
  BY <1>1, <1>2, <1>3, <1>5, <1>6, FrozenResults DEF NextRS!apply, RS!apply,
       NextRS!no_entries, RS!no_entries, NextRS!Slot, RS!Slot, NextRS!cursor_after,
       RS!cursor_after, RsApplied

LEMMA LsqApplies ==
  ASSUME UNCHANGED vars, lsqNext = lsqLatched,
         NextLSQ!apply(issue_outputs.lsq, broadcast, response, memory_request,
                       load_granted, flush)
  PROVE  LsqApplied'
<1>1. UNCHANGED <<flush, broadcast, response, memory_request, load_granted, issue_outputs>>
  BY Frozen DEF vars
<1>2. /\ next_lsq_cur = lsq_cur /\ next_lsq_head = lsq_head /\ next_lsq_tail = lsq_tail
      /\ next_lsq_count = lsq_count /\ next_lsq_load_result = lsq_load_result
  BY DEF lsqNext, lsqLatched
<1>3. UNCHANGED <<lsq_cur, lsq_head, lsq_tail, lsq_count, lsq_load_result>>
  BY DEF vars
<1>4. /\ NextLSQ!remove_head(response, FALSE) = lsq_removed
      /\ NextLSQ!completed_load_result(response, FALSE) = lsq_loaded
  BY <1>2 DEF lsq_removed, lsq_loaded, NextLSQ!remove_head, LSQ!remove_head,
       NextLSQ!completed_load_result, LSQ!completed_load_result,
       NextLSQ!matching_response, LSQ!matching_response, NextLSQ!front, LSQ!front,
       NextLSQ!empty, LSQ!empty, NextLSQ!is_store, LSQ!is_store, NextLSQ!is_load,
       LSQ!is_load, NextLSQ!StoreOps, LSQ!StoreOps, NextLSQ!LoadOps, LSQ!LoadOps,
       NextLSQ!extend_load_result, LSQ!extend_load_result, NextLSQ!zero_extend,
       LSQ!zero_extend, NextLSQ!sign_extend, LSQ!sign_extend, NextLSQ!get_bit,
       LSQ!get_bit, NextLSQ!memory_width, LSQ!memory_width, NextLSQ!WordSize,
       LSQ!WordSize, NextLSQ!WordBits, LSQ!WordBits
<1>5. \A slot, sent : NextLSQ!served(slot, broadcast, lsq_removed, sent)
                        = LSQ!served(slot, broadcast, lsq_removed, sent)
  BY <1>2 DEF NextLSQ!served, LSQ!served, NextLSQ!wake_entry, LSQ!wake_entry,
       NextLSQ!wake_operand, LSQ!wake_operand, NextLSQ!ready_operand, LSQ!ready_operand,
       NextLSQ!mark_request_sent, LSQ!mark_request_sent, NextLSQ!is_store, LSQ!is_store,
       NextLSQ!StoreOps, LSQ!StoreOps
<1>6. \A entry : NextLSQ!addressed(entry) = LSQ!addressed(entry)
  BY DEF NextLSQ!addressed, LSQ!addressed, NextLSQ!add, LSQ!add, NextLSQ!WordSize,
       LSQ!WordSize, NextLSQ!WordBits, LSQ!WordBits
<1>7. NextLSQ!accepts(issue_outputs.lsq) <=> LSQ!accepts(issue_outputs.lsq)
  BY <1>2 DEF NextLSQ!accepts, LSQ!accepts, NextLSQ!full, LSQ!full
<1>8. CASE flush
  BY <1>1, <1>8 DEF NextLSQ!apply, LSQ!apply, NextLSQ!clear, LSQ!clear,
       NextLSQ!no_entries, LSQ!no_entries, NextLSQ!Slot, LSQ!Slot, LsqApplied
<1>9. CASE ~flush
  <2>1. [slot \in NextLSQ!Slot |->
           NextLSQ!served(slot, broadcast, lsq_removed, memory_request # None)] = lsq_served
    BY <1>5 DEF lsq_served, NextLSQ!Slot, LSQ!Slot
  <2>2. next_lsq_cur' = [slot \in LSQ!Slot |-> LSQ!addressed(lsq_inserted[slot])]
    <3>1. next_lsq_cur' =
            [slot \in NextLSQ!Slot |->
               NextLSQ!addressed(
                 (IF NextLSQ!accepts(issue_outputs.lsq)
                  THEN [lsq_served EXCEPT ![next_lsq_tail] = issue_outputs.lsq]
                  ELSE lsq_served)[slot])]
      BY <1>4, <1>9, <2>1 DEF NextLSQ!apply, NextLSQ!advance
    <3> QED BY <1>2, <1>6, <1>7, <3>1 DEF lsq_inserted, NextLSQ!Slot, LSQ!Slot
  <2> QED
    BY <1>1, <1>2, <1>3, <1>4, <1>7, <1>9, <2>2, FrozenResults
    DEF NextLSQ!apply, LSQ!apply, NextLSQ!advance, LSQ!advance, NextLSQ!following,
         LSQ!following, LsqApplied
<1> QED BY <1>8, <1>9

(* The two copies of the functional unit compute alike. *)
LEMMA SameExecution ==
  \A execute :
    /\ NextFU!execute_instruction(execute) = FU!execute_instruction(execute)
    /\ Clocked!FU!execute_instruction(execute) = FU!execute_instruction(execute)
    /\ NextFU!executable(execute.op) <=> FU!executable(execute.op)
    /\ Clocked!FU!executable(execute.op) <=> FU!executable(execute.op)
<1>1. \A positions : /\ NextFU!from_bits(positions) = FU!from_bits(positions)
                     /\ Clocked!FU!from_bits(positions) = FU!from_bits(positions)
  BY DEF NextFU!from_bits, NextFU!WordBits, Clocked!FU!from_bits, FU!from_bits,
       Clocked!FU!WordBits, FU!WordBits
<1>2. ASSUME NEW lhs, NEW rhs
      PROVE  /\ NextFU!bit_and(lhs, rhs) = FU!bit_and(lhs, rhs)
             /\ NextFU!bit_or(lhs, rhs) = FU!bit_or(lhs, rhs)
             /\ NextFU!bit_xor(lhs, rhs) = FU!bit_xor(lhs, rhs)
             /\ Clocked!FU!bit_and(lhs, rhs) = FU!bit_and(lhs, rhs)
             /\ Clocked!FU!bit_or(lhs, rhs) = FU!bit_or(lhs, rhs)
             /\ Clocked!FU!bit_xor(lhs, rhs) = FU!bit_xor(lhs, rhs)
  BY <1>1 DEF Clocked!FU!bit_and, Clocked!FU!bit_or, Clocked!FU!bit_xor,
       Clocked!FU!BitPosition, Clocked!FU!get_bit, Clocked!FU!WordBits, NextFU!bit_and,
       FU!bit_and, NextFU!bit_or, FU!bit_or, NextFU!bit_xor, FU!bit_xor,
       NextFU!BitPosition, FU!BitPosition, NextFU!get_bit, FU!get_bit, NextFU!WordBits,
       FU!WordBits
<1>3. ASSUME NEW execute
      PROVE  /\ NextFU!result_of(execute) = FU!result_of(execute)
             /\ Clocked!FU!result_of(execute) = FU!result_of(execute)
  BY <1>2 DEF Clocked!FU!result_of, Clocked!FU!add, Clocked!FU!sub,
       Clocked!FU!shift_left, Clocked!FU!shift_right, Clocked!FU!shift_amount,
       Clocked!FU!arithmetic_shift_right, Clocked!FU!get_bit,
       Clocked!FU!signed_less_than, Clocked!FU!signed, Clocked!FU!WordSize,
       Clocked!FU!WordBits, Clocked!FU!sequential_pc, Clocked!FU!is_jump,
       Clocked!FU!JumpOps, NextFU!result_of, FU!result_of, NextFU!add, FU!add,
       NextFU!sub, FU!sub, NextFU!shift_left, FU!shift_left, NextFU!shift_right,
       FU!shift_right, NextFU!shift_amount, FU!shift_amount,
       NextFU!arithmetic_shift_right, FU!arithmetic_shift_right, NextFU!get_bit,
       FU!get_bit, NextFU!signed_less_than, FU!signed_less_than, NextFU!signed,
       FU!signed, NextFU!WordSize, FU!WordSize, NextFU!WordBits, FU!WordBits,
       NextFU!sequential_pc, FU!sequential_pc, NextFU!is_jump, FU!is_jump,
       NextFU!JumpOps, FU!JumpOps
<1>4. ASSUME NEW execute
      PROVE  /\ NextFU!taken(execute) = FU!taken(execute)
             /\ Clocked!FU!taken(execute) = FU!taken(execute)
  BY DEF Clocked!FU!taken, Clocked!FU!signed_less_than, Clocked!FU!signed_greater_equal,
       Clocked!FU!signed, Clocked!FU!WordSize, Clocked!FU!WordBits, Clocked!FU!is_jump,
       Clocked!FU!JumpOps, NextFU!taken, FU!taken, NextFU!signed_less_than,
       FU!signed_less_than, NextFU!signed_greater_equal, FU!signed_greater_equal,
       NextFU!signed, FU!signed, NextFU!WordSize, FU!WordSize, NextFU!WordBits,
       FU!WordBits, NextFU!is_jump, FU!is_jump, NextFU!JumpOps, FU!JumpOps
<1>5. ASSUME NEW execute
      PROVE  /\ NextFU!next_pc_of(execute) = FU!next_pc_of(execute)
             /\ Clocked!FU!next_pc_of(execute) = FU!next_pc_of(execute)
  BY <1>4 DEF Clocked!FU!next_pc_of, Clocked!FU!clear_least_significant_bit,
       Clocked!FU!add, Clocked!FU!sequential_pc, Clocked!FU!WordSize,
       Clocked!FU!WordBits, NextFU!next_pc_of, FU!next_pc_of,
       NextFU!clear_least_significant_bit, FU!clear_least_significant_bit, NextFU!add,
       FU!add, NextFU!sequential_pc, FU!sequential_pc, NextFU!WordSize, FU!WordSize,
       NextFU!WordBits, FU!WordBits
<1>6. ASSUME NEW execute
      PROVE  /\ NextFU!execute_instruction(execute) = FU!execute_instruction(execute)
             /\ Clocked!FU!execute_instruction(execute) = FU!execute_instruction(execute)
  BY <1>3, <1>4, <1>5 DEF Clocked!FU!execute_instruction, Clocked!FU!is_control,
       Clocked!FU!is_branch, Clocked!FU!is_jump, Clocked!FU!BranchOps,
       Clocked!FU!JumpOps, NextFU!execute_instruction, FU!execute_instruction,
       NextFU!is_control, FU!is_control, NextFU!is_branch, FU!is_branch, NextFU!is_jump,
       FU!is_jump, NextFU!BranchOps, FU!BranchOps, NextFU!JumpOps, FU!JumpOps
<1>7. ASSUME NEW execute
      PROVE  /\ NextFU!executable(execute.op) <=> FU!executable(execute.op)
             /\ Clocked!FU!executable(execute.op) <=> FU!executable(execute.op)
  BY DEF Clocked!FU!executable, Clocked!FU!is_load, Clocked!FU!is_store,
       Clocked!FU!LoadOps, Clocked!FU!StoreOps, NextFU!executable, FU!executable,
       NextFU!is_load, FU!is_load, NextFU!is_store, FU!is_store, NextFU!LoadOps,
       FU!LoadOps, NextFU!StoreOps, FU!StoreOps
<1> QED BY <1>6, <1>7

LEMMA FuApplies ==
  ASSUME UNCHANGED vars, next_fu_result = fu_result,
         NextFU!apply(dispatch, flush, integer_granted)
  PROVE  FuApplied'
<1>1. UNCHANGED <<dispatch, flush, integer_granted, fu_result>>
  BY Frozen DEF vars
<1> QED
  BY <1>1, SameExecution DEF FuApplied, NextFU!apply, FU!apply, NextFU!accepts,
       FU!accepts, NextFU!can_accept, FU!can_accept

LEMMA RatApplies ==
  ASSUME UNCHANGED vars, next_rat = rat,
         NextRAT!apply(issue_outputs.rename, rat_commit, flush)
  PROVE  RatApplied'
<1>1. UNCHANGED <<flush, rat_commit, issue_outputs, rat>>
  BY Frozen, FrozenResults DEF vars
<1>2. \A table, update : /\ NextRAT!set_producer(table, update) = RAT!set_producer(table, update)
                        /\ NextRAT!clear_committed(table, update)
                             = RAT!clear_committed(table, update)
  BY DEF NextRAT!set_producer, RAT!set_producer, NextRAT!clear_committed,
       RAT!clear_committed
<1> QED BY <1>1, <1>2 DEF NextRAT!apply, RAT!apply, NextRAT!invalidated,
     RAT!invalidated, NextRAT!RegisterIndex, RAT!RegisterIndex, RatApplied

LEMMA BpApplies ==
  ASSUME UNCHANGED vars, next_counters = counters, NextBP!apply(predictor_update)
  PROVE  BpApplied'
<1>1. UNCHANGED <<predictor_update, counters>>
  BY FrozenResults DEF vars
<1>2. /\ \A pc : NextBP!index_of(pc) = BP!index_of(pc)
      /\ \A counter, taken : NextBP!trained(counter, taken) = BP!trained(counter, taken)
  BY DEF NextBP!index_of, BP!index_of, NextBP!trained, BP!trained, NextBP!kStrongTaken,
       BP!kStrongTaken, NextBP!kStrongNotTaken, BP!kStrongNotTaken
<1> QED BY <1>1, <1>2 DEF NextBP!apply, BP!apply, BpApplied

LEMMA RfApplies ==
  ASSUME UNCHANGED vars, register_file_apply(register_write)
  PROVE  RfApplied'
BY FrozenResults DEF register_file_apply, RfApplied

LEMMA MemApplies ==
  ASSUME UNCHANGED vars, memory_apply(memory_request)
  PROVE  MemApplied'
BY FrozenResults DEF memory_apply, MemApplied

----------------------------------------------------------------------------
(* What a component has applied is, seen from the latches, its step of CPU. *)

LEMMA RobSteps ==
  ASSUME phase # "latch", phase' = "latch", UNCHANGED robNext, RobApplied
  PROVE  Clocked!ROB!apply(issue_outputs.rob, completion, store_completion)
<1>1. UNCHANGED <<next_rob_cur, next_rob_generations, next_rob_head, next_rob_tail,
                  next_rob_count>>
  BY DEF robNext
<1>2. (Clocked!ROB!flush <=> flush) /\ Clocked!ROB!commit = ROB!commit
  BY SameRing, PlannedFlush DEF Clocked!ROB!flush, ROB!flush, Clocked!ROB!mispredicted,
       ROB!mispredicted, Clocked!ROB!is_control, ROB!is_control, Clocked!ROB!is_branch,
       ROB!is_branch, Clocked!ROB!is_jump, ROB!is_jump, Clocked!ROB!BranchOps,
       ROB!BranchOps, Clocked!ROB!JumpOps, ROB!JumpOps
<1>3. CASE flush
  BY <1>1, <1>2, <1>3 DEF seen, Clocked!ROB!apply, ROB!apply,
       Clocked!ROB!clear_speculative_entries, ROB!clear_speculative_entries,
       Clocked!ROB!following_slot, ROB!following_slot, Clocked!ROB!RobIndex,
       ROB!RobIndex, RobIndex, RobApplied
<1>4. CASE ~flush
  <2>1. Clocked!ROB!accepts(issue_outputs.rob) <=> ROB!accepts(issue_outputs.rob)
    BY SameRing DEF Clocked!ROB!accepts, ROB!accepts
  <2>2. Clocked!ROB!retire(Clocked!ROB!apply_store_completion(
          Clocked!ROB!apply_completion(rob_cur, completion), store_completion))
          = ROB!retire(rob_completed)
    BY <1>2 DEF seen, rob_completed, Clocked!ROB!retire, ROB!retire,
         Clocked!ROB!apply_store_completion, ROB!apply_store_completion,
         Clocked!ROB!apply_completion, ROB!apply_completion, Clocked!ROB!matching_entry,
         ROB!matching_entry, Clocked!ROB!with_result, ROB!with_result,
         Clocked!ROB!is_store, ROB!is_store, Clocked!ROB!StoreOps, ROB!StoreOps
  <2> QED
    BY <1>1, <1>2, <1>4, <2>1, <2>2
    DEF seen, Clocked!ROB!apply, ROB!apply, Clocked!ROB!advance, ROB!advance,
         Clocked!ROB!following_slot, ROB!following_slot, RobApplied, rob_remaining
<1> QED BY <1>3, <1>4

LEMMA RsSteps ==
  ASSUME phase # "latch", phase' = "latch", UNCHANGED rsNext, RsApplied
  PROVE  Clocked!RS!apply(issue_outputs.rs, broadcast, fu_available, flush)
<1>1. UNCHANGED <<next_rs_cur, next_rs_cursor>>
  BY DEF rsNext
<1>2. /\ Clocked!RS!dispatched(fu_available) = RS!dispatched(fu_available)
      /\ Clocked!RS!remaining(broadcast, fu_available) = RS!remaining(broadcast, fu_available)
  BY SamePlans DEF seen, Clocked!RS!dispatched, RS!dispatched, Clocked!RS!remaining,
       RS!remaining, Clocked!RS!wake_entry, RS!wake_entry, Clocked!RS!wake_operand,
       RS!wake_operand, Clocked!RS!ready_operand, RS!ready_operand, Clocked!RS!Slot,
       RS!Slot
<1>3. \A entries : Clocked!RS!insert(entries, issue_outputs.rs)
                      = RS!insert(entries, issue_outputs.rs)
  BY DEF Clocked!RS!insert, RS!insert, Clocked!RS!find_free_index, RS!find_free_index,
       Clocked!RS!Slot, RS!Slot
<1> QED BY <1>1, <1>2, <1>3 DEF seen, Clocked!RS!apply, RS!apply, Clocked!RS!no_entries,
     RS!no_entries, Clocked!RS!Slot, RS!Slot, Clocked!RS!cursor_after, RS!cursor_after,
     RsApplied

LEMMA LsqSteps ==
  ASSUME phase # "latch", phase' = "latch", UNCHANGED lsqNext, LsqApplied
  PROVE  Clocked!LSQ!apply(issue_outputs.lsq, broadcast, response, memory_request,
                           load_granted, flush)
<1>1. UNCHANGED <<next_lsq_cur, next_lsq_head, next_lsq_tail, next_lsq_count,
                  next_lsq_load_result>>
  BY DEF lsqNext
<1>2. /\ Clocked!LSQ!remove_head(response, FALSE) = lsq_removed
      /\ Clocked!LSQ!completed_load_result(response, FALSE) = lsq_loaded
  BY DEF seen, lsq_removed, lsq_loaded, Clocked!LSQ!remove_head, LSQ!remove_head,
       Clocked!LSQ!completed_load_result, LSQ!completed_load_result,
       Clocked!LSQ!matching_response, LSQ!matching_response, Clocked!LSQ!front,
       LSQ!front, Clocked!LSQ!empty, LSQ!empty, Clocked!LSQ!is_store, LSQ!is_store,
       Clocked!LSQ!is_load, LSQ!is_load, Clocked!LSQ!StoreOps, LSQ!StoreOps,
       Clocked!LSQ!LoadOps, LSQ!LoadOps, Clocked!LSQ!extend_load_result,
       LSQ!extend_load_result, Clocked!LSQ!zero_extend, LSQ!zero_extend,
       Clocked!LSQ!sign_extend, LSQ!sign_extend, Clocked!LSQ!get_bit, LSQ!get_bit,
       Clocked!LSQ!memory_width, LSQ!memory_width, Clocked!LSQ!WordSize, LSQ!WordSize,
       Clocked!LSQ!WordBits, LSQ!WordBits
<1>3. \A slot, sent : Clocked!LSQ!served(slot, broadcast, lsq_removed, sent)
                        = LSQ!served(slot, broadcast, lsq_removed, sent)
  BY DEF seen, Clocked!LSQ!served, LSQ!served, Clocked!LSQ!wake_entry, LSQ!wake_entry,
       Clocked!LSQ!wake_operand, LSQ!wake_operand, Clocked!LSQ!ready_operand,
       LSQ!ready_operand, Clocked!LSQ!mark_request_sent, LSQ!mark_request_sent,
       Clocked!LSQ!is_store, LSQ!is_store, Clocked!LSQ!StoreOps, LSQ!StoreOps
<1>4. \A entry : Clocked!LSQ!addressed(entry) = LSQ!addressed(entry)
  BY DEF Clocked!LSQ!addressed, LSQ!addressed, Clocked!LSQ!add, LSQ!add,
       Clocked!LSQ!WordSize, LSQ!WordSize, Clocked!LSQ!WordBits, LSQ!WordBits
<1>5. Clocked!LSQ!accepts(issue_outputs.lsq) <=> LSQ!accepts(issue_outputs.lsq)
  BY DEF seen, Clocked!LSQ!accepts, LSQ!accepts, Clocked!LSQ!full, LSQ!full
<1>6. CASE flush
  BY <1>1, <1>6 DEF seen, Clocked!LSQ!apply, LSQ!apply, Clocked!LSQ!clear, LSQ!clear,
       Clocked!LSQ!no_entries, LSQ!no_entries, Clocked!LSQ!Slot, LSQ!Slot, LsqApplied
<1>7. CASE ~flush
  <2>1. [slot \in Clocked!LSQ!Slot |->
           Clocked!LSQ!served(slot, broadcast, lsq_removed, memory_request # None)]
          = lsq_served
    BY <1>3 DEF lsq_served, Clocked!LSQ!Slot, LSQ!Slot
  <2>2. [slot \in Clocked!LSQ!Slot |->
           Clocked!LSQ!addressed(
             (IF Clocked!LSQ!accepts(issue_outputs.lsq)
              THEN [lsq_served EXCEPT ![lsq_tail] = issue_outputs.lsq]
              ELSE lsq_served)[slot])]
          = [slot \in LSQ!Slot |-> LSQ!addressed(lsq_inserted[slot])]
    BY <1>4, <1>5 DEF lsq_inserted, Clocked!LSQ!Slot, LSQ!Slot
  <2> QED
    BY <1>1, <1>2, <1>5, <1>7, <2>1, <2>2
    DEF seen, Clocked!LSQ!apply, LSQ!apply, Clocked!LSQ!advance, LSQ!advance,
         Clocked!LSQ!following, LSQ!following, LsqApplied
<1> QED BY <1>6, <1>7

LEMMA FuSteps ==
  ASSUME phase # "latch", phase' = "latch", UNCHANGED next_fu_result, FuApplied
  PROVE  Clocked!FU!apply(dispatch, flush, integer_granted)
BY SameExecution DEF seen, FuApplied, Clocked!FU!apply, FU!apply, Clocked!FU!accepts,
     FU!accepts, Clocked!FU!can_accept, FU!can_accept

LEMMA RatSteps ==
  ASSUME phase # "latch", phase' = "latch", UNCHANGED next_rat, RatApplied
  PROVE  Clocked!RAT!apply(issue_outputs.rename, rat_commit, flush)
<1>1. \A table, update : /\ Clocked!RAT!set_producer(table, update) = RAT!set_producer(table, update)
                        /\ Clocked!RAT!clear_committed(table, update)
                             = RAT!clear_committed(table, update)
  BY DEF Clocked!RAT!set_producer, RAT!set_producer, Clocked!RAT!clear_committed,
       RAT!clear_committed
<1> QED BY <1>1 DEF seen, Clocked!RAT!apply, RAT!apply, Clocked!RAT!invalidated,
     RAT!invalidated, Clocked!RAT!RegisterIndex, RAT!RegisterIndex, RatApplied

LEMMA BpSteps ==
  ASSUME phase # "latch", phase' = "latch", UNCHANGED next_counters, BpApplied
  PROVE  Clocked!BP!apply(predictor_update)
<1>1. /\ \A pc : Clocked!BP!index_of(pc) = BP!index_of(pc)
      /\ \A counter, taken : Clocked!BP!trained(counter, taken) = BP!trained(counter, taken)
  BY DEF Clocked!BP!index_of, BP!index_of, Clocked!BP!trained, BP!trained,
       Clocked!BP!kStrongTaken, BP!kStrongTaken, Clocked!BP!kStrongNotTaken,
       BP!kStrongNotTaken
<1> QED BY <1>1 DEF seen, Clocked!BP!apply, BP!apply, BpApplied

LEMMA RfSteps ==
  ASSUME phase # "latch", phase' = "latch", UNCHANGED <<register, pending_write>>, RfApplied
  PROVE  Clocked!RF!apply(register_write)
BY DEF seen, Clocked!RF!apply, RF!apply, RfApplied, written_registers

(* What the latch schedules is what MemoryUnit says of the store served.   *)
LEMMA MemSteps ==
  ASSUME phase # "latch", phase' = "latch", UNCHANGED <<memory, memNext>>, MemApplied,
         ServesARequest(transaction)
  PROVE  Clocked!MEM!apply(memory_request)
<1>1. UNCHANGED <<next_transaction, next_response, next_store_write>>
  BY DEF memNext
<1>2. /\ Clocked!MEM!completes <=> MEM!completes
      /\ Clocked!MEM!next_transaction(memory_request) = MEM!next_transaction(memory_request)
  BY DEF seen, Clocked!MEM!completes, MEM!completes, Clocked!MEM!next_transaction,
       MEM!next_transaction, Clocked!MEM!accepts, MEM!accepts
<1>3. \A request : /\ Clocked!MEM!response_to(request) = MEM!response_to(request)
                   /\ MEM!in_bounds(request.address, request.width)
                        <=> in_bounds(request.address, request.width)
  BY DEF seen, in_bounds, Clocked!MEM!response_to, MEM!response_to, Clocked!MEM!read,
       MEM!read, Clocked!MEM!in_bounds, MEM!in_bounds, Clocked!MEM!ByteSize,
       MEM!ByteSize
<1>4. \A request : Clocked!MEM!written(request)
                     = IF request.is_store /\ in_bounds(request.address, request.width)
                       THEN write(memory, request.address, request.width, request.value)
                       ELSE memory
  BY DEF seen, in_bounds, write, ByteSize, Clocked!MEM!written, Clocked!MEM!write,
       Clocked!MEM!in_bounds, Clocked!MEM!ByteSize
<1>5. MEM!completes => transaction.request # None
  BY DEF ServesARequest, MEM!completes
<1>6. written_memory' = IF MEM!completes THEN Clocked!MEM!written(transaction.request)
                        ELSE memory
  BY <1>1, <1>3, <1>4, <1>5 DEF written_memory, store_served, MemApplied
<1> QED BY <1>1, <1>2, <1>3, <1>6 DEF seen, Clocked!MEM!apply, MemApplied

----------------------------------------------------------------------------
(* The invariant holds at first and every call keeps it. *)

LEMMA InitHolds == PhasedInit => PhasesInv
<1> SUFFICES ASSUME PhasedInit PROVE PhasesInv
  OBVIOUS
<1>1. phase = "idle" /\ transaction = None /\ next_transaction = None
  BY DEF PhasedInit, Idle, Init, MEM!Init
<1>2. decided = [module \in PlanModule |-> decided[module]]
  BY DEF PhasedInit, Idle, nothing_decided
<1>3. robNext = robLatched
  BY DEF PhasedInit, Init, robNext, robLatched, NextROB!Init, ROB!Init,
       NextROB!RobIndex, ROB!RobIndex
<1>4. rsNext = rsLatched
  BY DEF PhasedInit, Init, rsNext, rsLatched, NextRS!Init, RS!Init, NextRS!no_entries,
       RS!no_entries, NextRS!Slot, RS!Slot
<1>5. lsqNext = lsqLatched
  BY DEF PhasedInit, Init, lsqNext, lsqLatched, NextLSQ!Init, LSQ!Init,
       NextLSQ!no_entries, LSQ!no_entries, NextLSQ!Slot, LSQ!Slot
<1>6. next_fu_result = fu_result /\ next_prefer_load = prefer_load
  BY DEF PhasedInit, Init, NextFU!Init, FU!Init, CDB!Init
<1>7. next_rat = rat /\ next_counters = counters
  BY DEF PhasedInit, Init, NextRAT!Init, RAT!Init, NextRAT!invalidated, RAT!invalidated,
       NextRAT!RegisterIndex, RAT!RegisterIndex, NextBP!Init, BP!Init,
       NextBP!weak_not_taken, BP!weak_not_taken, NextBP!kWeakNotTaken, BP!kWeakNotTaken
<1>8. /\ pending_write = None /\ next_transaction = transaction /\ next_response = response
      /\ written_memory = memory
  BY DEF PhasedInit, Init, MEM!Init, written_memory
<1>9. fetch_stopped = FALSE /\ next_core.fetch_stopped = FALSE
  BY DEF PhasedInit, Init
<1>10. NextStartsFromLatched
  BY <1>3, <1>4, <1>5, <1>6, <1>7, <1>8 DEF NextStartsFromLatched
<1> QED
  BY <1>1, <1>2, <1>9, <1>10 DEF PhasesInv, WiresAreObserved, AnswersAreFrozen,
       Answered, NextIsApplied, Applied, ServesARequest

(* load() resets the next values as it resets the latched ones. *)
LEMMA LoadKeeps ==
  ASSUME PhasesInv, PhasedLoad
  PROVE  PhasesInv'
<1>1. phase = "idle" /\ UNCHANGED <<phase, called, wires, decided>>
  BY DEF PhasedLoad, callVars
<1>2. transaction' = None /\ next_transaction' = None
  BY DEF PhasedLoad, Load, MEM!load, MEM!reset, memory_reset
<1>3. robNext' = robLatched'
  BY DEF PhasedLoad, Load, robNext, robLatched, NextROB!reset, ROB!reset,
       NextROB!RobIndex, ROB!RobIndex
<1>4. rsNext' = rsLatched'
  BY DEF PhasedLoad, Load, rsNext, rsLatched, NextRS!reset, RS!reset, NextRS!no_entries,
       RS!no_entries, NextRS!Slot, RS!Slot
<1>5. lsqNext' = lsqLatched'
  BY DEF PhasedLoad, Load, lsqNext, lsqLatched, NextLSQ!reset, LSQ!reset,
       NextLSQ!no_entries, LSQ!no_entries, NextLSQ!Slot, LSQ!Slot
<1>6. next_fu_result' = fu_result' /\ next_prefer_load' = prefer_load'
  BY DEF PhasedLoad, Load, NextFU!reset, FU!reset, CDB!reset
<1>7. next_rat' = rat' /\ next_counters' = counters'
  BY DEF PhasedLoad, Load, NextRAT!reset, RAT!reset, NextRAT!invalidated,
       RAT!invalidated, NextRAT!RegisterIndex, RAT!RegisterIndex, NextBP!reset,
       BP!reset, NextBP!weak_not_taken, BP!weak_not_taken, NextBP!kWeakNotTaken,
       BP!kWeakNotTaken
<1>8. /\ pending_write' = None /\ next_transaction' = transaction'
      /\ next_response' = response' /\ written_memory' = memory'
  BY DEF PhasedLoad, Load, MEM!load, MEM!reset, memory_reset, written_memory
<1>9. NextStartsFromLatched'
  BY <1>3, <1>4, <1>5, <1>6, <1>7, <1>8 DEF NextStartsFromLatched
<1>10. AnswersAreFrozen'
  BY <1>1 DEF PhasesInv, AnswersAreFrozen, Answered
<1>11. fetch_stopped' = FALSE /\ next_core'.fetch_stopped = FALSE
  BY DEF PhasedLoad, Load
<1> QED
  BY <1>1, <1>2, <1>9, <1>10, <1>11 DEF PhasesInv, WiresAreObserved, NextIsApplied,
       Applied, ServesARequest

LEMMA ObserveKeeps ==
  ASSUME PhasesInv, Observe
  PROVE  PhasesInv'
<1>1. /\ phase = "idle" /\ status = "Running" /\ phase' = "plan" /\ called' = {}
      /\ UNCHANGED <<vars, componentNext>>
  BY DEF Observe
<1>2. UNCHANGED <<robNext, next_rat, pending_write, rsNext, lsqNext, next_fu_result,
                  next_prefer_load, next_counters, memNext>>
  BY <1>1 DEF componentNext
<1>3. UNCHANGED <<robLatched, rat, rsLatched, lsqLatched, fu_result, prefer_load,
                  memory, transaction, response, counters, status, current_pc, fetch_stopped>>
  BY <1>1 DEF vars, coreVars, robLatched, rsLatched, lsqLatched
<1>4. NextStartsFromLatched'
  BY <1>1, <1>2, <1>3 DEF PhasesInv, NextStartsFromLatched, written_memory, memNext
<1>5. WiresAreObserved'
  BY <1>1, <1>3, Frozen DEF WiresAreObserved, Observe, Observed
<1>6. AnswersAreFrozen'
  BY <1>1 DEF Observe, AnswersAreFrozen, Answered, nothing_decided
<1>7. next_core'.fetch_stopped = fetch_stopped
  BY DEF Observe
<1> QED
  BY <1>1, <1>2, <1>3, <1>4, <1>5, <1>6, <1>7
  DEF PhasesInv, NextIsApplied, Applied, ServesARequest, memNext

LEMMA PlanKeeps ==
  ASSUME PhasesInv, Plan
  PROVE  PhasesInv'
<1>1. /\ phase = "plan" /\ phase' = "plan"
      /\ UNCHANGED <<vars, componentNext, next_core, wires>>
  BY DEF Plan
<1>2. UNCHANGED <<robNext, next_rat, pending_write, rsNext, lsqNext, next_fu_result,
                  next_prefer_load, next_counters, memNext>>
  BY <1>1 DEF componentNext
<1>3. UNCHANGED <<robLatched, rat, rsLatched, lsqLatched, fu_result, prefer_load,
                  memory, transaction, response, counters, status, current_pc, fetch_stopped>>
  BY <1>1 DEF vars, coreVars, robLatched, rsLatched, lsqLatched
<1>4. NextStartsFromLatched'
  BY <1>1, <1>2, <1>3 DEF PhasesInv, NextStartsFromLatched, written_memory, memNext
<1>5. WiresAreObserved'
  BY <1>1, <1>3, Frozen DEF PhasesInv, WiresAreObserved
<1>6. /\ decision("Issue") = issue_answer
      /\ decision("ReorderBuffer") = rob_answer
      /\ decision("ReservationStation") = rs_answer
      /\ decision("LoadStoreQueue") = lsq_answer
  <2>1. wires = Observed(FALSE)
    BY <1>1 DEF PhasesInv, WiresAreObserved
  <2>2. /\ wires.flush = flush /\ wires.store_request = store_request
        /\ wires.load_granted = load_granted /\ wires.memory_response = response
        /\ wires.memory_available = MEM!data_port_available
    BY <2>1 DEF Observed
  <2> QED
    BY <2>2 DEF decision, issue_answer, rob_answer, rs_answer, lsq_answer, dispatch,
         memory_request, store_completion, memory_error
<1>7. AnswersAreFrozen'
  <2>1. PICK module \in PlanModule :
          /\ decided' = [decided EXCEPT ![module] = decision(module)]
          /\ called' = called \cup {module}
    BY DEF Plan
  <2>2. decided = [other \in PlanModule |-> decided[other]]
    BY DEF PhasesInv, AnswersAreFrozen
  <2>3. /\ decided' = [other \in PlanModule |-> decided'[other]]
        /\ \A other \in PlanModule :
             decided'[other] = IF other = module THEN decision(module) ELSE decided[other]
    BY <2>1, <2>2
  <2> QED
    BY <1>1, <1>6, <2>1, <2>3, Frozen DEF PhasesInv, AnswersAreFrozen, Answered,
         PlanModule
<1> QED
  BY <1>1, <1>2, <1>3, <1>4, <1>5, <1>7
  DEF PhasesInv, NextIsApplied, Applied, ServesARequest, memNext

LEMMA FreezeKeeps ==
  ASSUME PhasesInv, Freeze
  PROVE  PhasesInv'
<1>1. /\ phase = "plan" /\ phase' = "apply" /\ called = PlanModule /\ called' = {}
      /\ UNCHANGED <<vars, componentNext, decided>>
  BY DEF Freeze
<1>2. UNCHANGED <<robNext, next_rat, pending_write, rsNext, lsqNext, next_fu_result,
                  next_prefer_load, next_counters, memNext>>
  BY <1>1 DEF componentNext
<1>3. UNCHANGED <<robLatched, rat, rsLatched, lsqLatched, fu_result, prefer_load,
                  memory, transaction, response, counters, status, current_pc, fetch_stopped>>
  BY <1>1 DEF vars, coreVars, robLatched, rsLatched, lsqLatched
<1>4. NextStartsFromLatched'
  BY <1>1, <1>2, <1>3 DEF PhasesInv, NextStartsFromLatched, written_memory, memNext
<1>5. /\ decided["Issue"] = issue_answer /\ decided["ReorderBuffer"] = rob_answer
      /\ decided["ReservationStation"] = rs_answer
      /\ decided["LoadStoreQueue"] = lsq_answer
  BY <1>1 DEF PhasesInv, AnswersAreFrozen, Answered, PlanModule
<1>6. AnswersAreFrozen'
  BY <1>1, <1>5, Frozen DEF PhasesInv, AnswersAreFrozen
<1>7. wires = Observed(FALSE)
        /\ next_core = [pc |-> current_pc, fetch_stopped |-> fetch_stopped, status |-> status]
  BY <1>1 DEF PhasesInv, WiresAreObserved
<1>8. wires' = Observed(fu_available)
  BY <1>7 DEF Freeze, Observed, fu_will_accept, fu_available
<1>9. /\ decided["Issue"].outputs = issue_outputs
      /\ decided["ReorderBuffer"].flush = flush
      /\ flush => decided["ReorderBuffer"].redirect_pc = redirect_pc
  <2>1. ROB!flush = flush
    BY PlannedFlush DEF flush, ROB!flush
  <2> QED BY <1>5, <2>1, PlannedFlush DEF issue_answer, rob_answer
<1>10. flush \in BOOLEAN /\ fetch_stopped \in BOOLEAN
  BY DEF flush, PhasesInv
<1>11. next_core' = [pc |-> next_pc(issue_outputs),
                     fetch_stopped |-> next_fetch_stopped(issue_outputs), status |-> status]
  <2>1. CASE flush
    BY <1>7, <1>9, <2>1 DEF Freeze, next_pc, next_fetch_stopped
  <2>2. CASE ~flush /\ issue_outputs.rob # None
    <3>1. next_core' = [next_core EXCEPT
                          !.pc = issue_outputs.rob.predicted_next_pc,
                          !.fetch_stopped = @ \/ issue_outputs.rob.op = "HALT"]
      BY <1>9, <1>10, <2>2 DEF Freeze
    <3>2. next_fetch_stopped(issue_outputs)
            = (fetch_stopped \/ issue_outputs.rob.op = "HALT")
      BY <1>10, <2>2 DEF next_fetch_stopped
    <3> QED BY <1>7, <2>2, <3>1, <3>2 DEF next_pc
  <2>3. CASE ~flush /\ issue_outputs.rob = None
    <3>1. next_core' = next_core
      BY <1>9, <1>10, <2>3 DEF Freeze
    <3> QED BY <1>7, <1>10, <2>3, <3>1 DEF next_pc, next_fetch_stopped
  <2> QED BY <1>10, <2>1, <2>2, <2>3
<1>12. next_core'.fetch_stopped \in BOOLEAN /\ UNCHANGED fetch_stopped
  BY <1>3, <1>11 DEF next_fetch_stopped
<1>13. WiresAreObserved'
  BY <1>1, <1>3, <1>8, <1>11, Frozen DEF WiresAreObserved
<1> QED
  BY <1>1, <1>2, <1>3, <1>4, <1>6, <1>10, <1>12, <1>13
  DEF PhasesInv, NextIsApplied, Applied, ServesARequest, memNext

LEMMA ApplyKeeps ==
  ASSUME PhasesInv, Apply
  PROVE  PhasesInv'
<1>1. /\ phase = "apply" /\ phase' = "apply"
      /\ UNCHANGED <<vars, next_core, wires, decided>>
  BY DEF Apply
<1>2. UNCHANGED <<robLatched, rat, rsLatched, lsqLatched, fu_result, prefer_load,
                  memory, transaction, response, counters, status, current_pc, fetch_stopped>>
  BY <1>1 DEF vars, coreVars, robLatched, rsLatched, lsqLatched
<1>3. PICK module \in ApplyModule \ called :
        /\ called' = called \cup {module}
        /\ IF module = "CommonDataBus" THEN next_prefer_load' = wires.prefer_load
           ELSE UNCHANGED next_prefer_load
        /\ IF module = "ReorderBuffer"
           THEN NextROB!apply(issue_outputs.rob, completion, store_completion)
           ELSE UNCHANGED robNext
        /\ IF module = "ReservationStation"
           THEN NextRS!apply(issue_outputs.rs, broadcast, fu_available, flush)
           ELSE UNCHANGED rsNext
        /\ IF module = "LoadStoreQueue"
           THEN NextLSQ!apply(issue_outputs.lsq, broadcast, response, memory_request,
                              load_granted, flush)
           ELSE UNCHANGED lsqNext
        /\ IF module = "FunctionalUnit" THEN NextFU!apply(dispatch, flush, integer_granted)
           ELSE UNCHANGED next_fu_result
        /\ IF module = "RegisterFile" THEN register_file_apply(register_write)
           ELSE UNCHANGED pending_write
        /\ IF module = "RenameTable"
           THEN NextRAT!apply(issue_outputs.rename, rat_commit, flush)
           ELSE UNCHANGED next_rat
        /\ IF module = "BranchPredictor" THEN NextBP!apply(predictor_update)
           ELSE UNCHANGED next_counters
        /\ IF module = "MemoryUnit" THEN memory_apply(memory_request)
           ELSE UNCHANGED memNext
  BY <1>1, ApplyInputs DEF Apply
<1>4. \A other : other \in called' <=> other \in called \/ other = module
  BY <1>3
<1>5. NextStartsFromLatched'
  BY <1>1, <1>2, <1>3, <1>4 DEF PhasesInv, NextStartsFromLatched, written_memory, memNext
<1>6. WiresAreObserved'
  BY <1>1, <1>2, Frozen DEF PhasesInv, WiresAreObserved
<1>7. AnswersAreFrozen'
  BY <1>1, Frozen DEF PhasesInv, AnswersAreFrozen, Answered
<1>8. NextIsApplied'
  <2>1. "ReorderBuffer" \in called' => RobApplied'
    BY <1>1, <1>3, <1>4, AppliedStays, RobApplies DEF PhasesInv, NextStartsFromLatched,
         NextIsApplied, Applied
  <2>2. "ReservationStation" \in called' => RsApplied'
    BY <1>1, <1>3, <1>4, AppliedStays, RsApplies DEF PhasesInv, NextStartsFromLatched,
         NextIsApplied, Applied
  <2>3. "LoadStoreQueue" \in called' => LsqApplied'
    BY <1>1, <1>3, <1>4, AppliedStays, LsqApplies DEF PhasesInv, NextStartsFromLatched,
         NextIsApplied, Applied
  <2>4. "FunctionalUnit" \in called' => FuApplied'
    BY <1>1, <1>3, <1>4, AppliedStays, FuApplies DEF PhasesInv, NextStartsFromLatched,
         NextIsApplied, Applied
  <2>5. "RegisterFile" \in called' => RfApplied'
    BY <1>1, <1>3, <1>4, AppliedStays, RfApplies DEF PhasesInv, NextStartsFromLatched,
         NextIsApplied, Applied
  <2>6. "RenameTable" \in called' => RatApplied'
    BY <1>1, <1>3, <1>4, AppliedStays, RatApplies DEF PhasesInv, NextStartsFromLatched,
         NextIsApplied, Applied
  <2>7. "BranchPredictor" \in called' => BpApplied'
    BY <1>1, <1>3, <1>4, AppliedStays, BpApplies DEF PhasesInv, NextStartsFromLatched,
         NextIsApplied, Applied
  <2>8. "MemoryUnit" \in called' => MemApplied'
    BY <1>1, <1>3, <1>4, AppliedStays, MemApplies DEF PhasesInv, NextStartsFromLatched,
         NextIsApplied, Applied
  <2>9. "CommonDataBus" \in called' => CdbApplied'
    BY <1>1, <1>3, <1>4, AppliedStays, ApplyInputs, Frozen DEF CdbApplied, PhasesInv,
         NextIsApplied, Applied
  <2> QED
    BY <1>1, <2>1, <2>2, <2>3, <2>4, <2>5, <2>6, <2>7, <2>8, <2>9 DEF NextIsApplied,
         Applied
<1>9. ServesARequest(next_transaction)'
  <2>1. CASE module # "MemoryUnit"
    BY <1>3, <2>1 DEF PhasesInv, ServesARequest, memNext
  <2>2. CASE module = "MemoryUnit"
    <3>1. next_transaction' = MEM!next_transaction(memory_request)
      BY <1>3, <2>2 DEF memory_apply
    <3>2. CASE MEM!accepts(memory_request)
      BY <3>1, <3>2 DEF MEM!next_transaction, MEM!accepts, ServesARequest
    <3>3. CASE transaction = None \/ MEM!completes
      BY <3>1, <3>3 DEF MEM!next_transaction, ServesARequest, MEM!accepts, MEM!completes
    <3>4. CASE transaction # None /\ ~MEM!completes
      <4>1. PICK request, cycles :
              request # None
                /\ transaction = [request |-> request, remaining_cycles |-> cycles]
        BY <3>4 DEF PhasesInv, ServesARequest
      <4>2. next_transaction' = [request |-> request, remaining_cycles |-> cycles - 1]
        BY <3>1, <3>4, <4>1 DEF MEM!next_transaction, MEM!accepts
      <4> QED BY <4>1, <4>2 DEF ServesARequest
    <3> QED BY <3>2, <3>3, <3>4
  <2> QED BY <2>1, <2>2
<1> QED
  BY <1>1, <1>2, <1>5, <1>6, <1>7, <1>8, <1>9 DEF PhasesInv, ServesARequest

LEMMA DecideKeeps ==
  ASSUME PhasesInv, Decide
  PROVE  PhasesInv'
<1>1. /\ phase = "apply" /\ phase' = "latch" /\ called = ApplyModule /\ called' = {}
      /\ next_core' = [next_core EXCEPT !.status = status_decided]
      /\ UNCHANGED <<fetch_stopped, status, transaction, componentNext, decided>>
  BY DEF Decide, memLatched
<1>2. UNCHANGED <<next_transaction, next_core.fetch_stopped>>
  BY <1>1 DEF componentNext, memNext, PhasesInv, WiresAreObserved
<1> QED
  BY <1>1, <1>2 DEF PhasesInv, NextStartsFromLatched, WiresAreObserved,
       AnswersAreFrozen, Answered, NextIsApplied, Applied, ServesARequest

(* Writing the same bytes again changes nothing. *)
LEMMA WriteTwice ==
  \A image, address, width, value :
    write(write(image, address, width, value), address, width, value)
      = write(image, address, width, value)
BY DEF write

LEMMA LatchKeeps ==
  ASSUME PhasesInv, Latch
  PROVE  /\ PhasesInv'
         /\ UNCHANGED <<written_registers, written_memory>>
<1>1. /\ phase = "latch" /\ phase' = "latch"
      /\ UNCHANGED <<coreVars, robNext, next_rat, rsNext, lsqNext, next_fu_result,
                     next_prefer_load, next_counters, memNext, next_core, decided>>
  BY DEF Latch
<1>2. PICK module \in ApplyModule \ called :
        /\ called' = called \cup {module}
        /\ IF module = "ReorderBuffer" THEN latch_rob ELSE UNCHANGED robLatched
        /\ IF module = "ReservationStation" THEN latch_rs ELSE UNCHANGED rsLatched
        /\ IF module = "LoadStoreQueue" THEN latch_lsq ELSE UNCHANGED lsqLatched
        /\ IF module = "FunctionalUnit" THEN fu_result' = next_fu_result
           ELSE UNCHANGED fu_result
        /\ IF module = "CommonDataBus" THEN prefer_load' = next_prefer_load
           ELSE UNCHANGED prefer_load
        /\ IF module = "RegisterFile" THEN latch_register_file
           ELSE UNCHANGED <<register, pending_write>>
        /\ IF module = "RenameTable" THEN rat' = next_rat ELSE UNCHANGED rat
        /\ IF module = "BranchPredictor" THEN counters' = next_counters
           ELSE UNCHANGED counters
        /\ IF module = "MemoryUnit" THEN latch_memory ELSE UNCHANGED memLatched
  BY DEF Latch
<1>3. \A other : other \in called' <=> other \in called \/ other = module
  BY <1>2
<1>4. "ReorderBuffer" \in called' => robNext' = robLatched'
  BY <1>1, <1>2, <1>3 DEF PhasesInv, NextStartsFromLatched, latch_rob, robNext,
       robLatched
<1>5. "ReservationStation" \in called' => rsNext' = rsLatched'
  BY <1>1, <1>2, <1>3 DEF PhasesInv, NextStartsFromLatched, latch_rs, rsNext, rsLatched
<1>6. "LoadStoreQueue" \in called' => lsqNext' = lsqLatched'
  BY <1>1, <1>2, <1>3 DEF PhasesInv, NextStartsFromLatched, latch_lsq, lsqNext,
       lsqLatched
<1>7. "MemoryUnit" \in called' =>
        next_transaction' = transaction' /\ next_response' = response'
  BY <1>1, <1>2, <1>3 DEF PhasesInv, NextStartsFromLatched, latch_memory, memNext,
       memLatched
<1>8. "RegisterFile" \in called' => pending_write' = None
  BY <1>1, <1>2, <1>3 DEF PhasesInv, NextStartsFromLatched, latch_register_file
<1>9. /\ UNCHANGED written_memory
      /\ "MemoryUnit" \in called' => written_memory' = memory'
  <2>1. UNCHANGED next_store_write
    BY <1>1 DEF memNext
  <2>2. CASE module = "MemoryUnit"
    <3>1. memory' = written_memory
      BY <1>2, <2>2 DEF latch_memory
    <3> QED BY <2>1, <3>1, WriteTwice DEF written_memory
  <2>3. CASE module # "MemoryUnit"
    BY <1>1, <1>2, <1>3, <2>1, <2>3 DEF PhasesInv, NextStartsFromLatched,
         written_memory, memLatched
  <2> QED BY <2>2, <2>3
<1>10. NextStartsFromLatched'
  BY <1>1, <1>2, <1>3, <1>4, <1>5, <1>6, <1>7, <1>8, <1>9 DEF PhasesInv,
       NextStartsFromLatched
<1>11. UNCHANGED written_registers
  BY <1>2 DEF latch_register_file, written_registers
<1>12. ServesARequest(transaction)' /\ ServesARequest(next_transaction)'
  BY <1>1, <1>2 DEF PhasesInv, ServesARequest, latch_memory, memNext, memLatched
<1> QED
  BY <1>1, <1>9, <1>10, <1>11, <1>12
  DEF PhasesInv, coreVars, WiresAreObserved, AnswersAreFrozen, Answered, NextIsApplied,
       Applied

LEMMA FinishKeeps ==
  ASSUME PhasesInv, Finish
  PROVE  PhasesInv'
<1>1. /\ phase = "latch" /\ phase' = "idle" /\ called = ApplyModule /\ called' = {}
      /\ fetch_stopped' = next_core.fetch_stopped /\ decided' = nothing_decided
      /\ UNCHANGED <<robLatched, rat, rsLatched, lsqLatched, fu_result, prefer_load,
                     memLatched, counters, componentNext, next_core>>
  BY DEF Finish
<1>2. UNCHANGED <<robNext, next_rat, pending_write, rsNext, lsqNext, next_fu_result,
                  next_prefer_load, next_counters, memNext, memory, transaction,
                  response>>
  BY <1>1 DEF componentNext, memNext, memLatched
<1>3. NextStartsFromLatched'
  BY <1>1, <1>2 DEF PhasesInv, NextStartsFromLatched, written_memory, memNext,
       ApplyModule
<1> QED
  BY <1>1, <1>2, <1>3 DEF PhasesInv, WiresAreObserved, AnswersAreFrozen, Answered,
       nothing_decided, NextIsApplied, Applied, ServesARequest, memNext

LEMMA StutterKeeps ==
  ASSUME PhasesInv, UNCHANGED phasedVars
  PROVE  PhasesInv'
<1>1. UNCHANGED <<vars, componentNext, next_core, phase, called, wires, decided>>
  BY DEF phasedVars, callVars
<1>2. UNCHANGED <<robNext, next_rat, pending_write, rsNext, lsqNext, next_fu_result,
                  next_prefer_load, next_counters, memNext>>
  BY <1>1 DEF componentNext
<1>3. UNCHANGED <<robLatched, rat, rsLatched, lsqLatched, fu_result, prefer_load, memory,
                  transaction, response, counters, status, current_pc, fetch_stopped>>
  BY <1>1 DEF vars, coreVars, robLatched, rsLatched, lsqLatched
<1>4. NextStartsFromLatched'
  BY <1>1, <1>2, <1>3 DEF PhasesInv, NextStartsFromLatched, written_memory, memNext
<1>5. WiresAreObserved' /\ AnswersAreFrozen'
  BY <1>1, <1>3, Frozen DEF PhasesInv, WiresAreObserved, AnswersAreFrozen, Answered
<1>6. NextIsApplied'
  BY <1>1, <1>2, AppliedStays DEF PhasesInv, NextIsApplied, Applied
<1>7. ServesARequest(transaction)' /\ ServesARequest(next_transaction)'
  BY <1>1, <1>2, <1>3 DEF PhasesInv, ServesARequest, memNext
<1> QED BY <1>1, <1>3, <1>4, <1>5, <1>6, <1>7 DEF PhasesInv

LEMMA StepKeeps ==
  ASSUME PhasesInv, [PhasedLoad \/ PhasedCycle]_phasedVars
  PROVE  PhasesInv'
BY LoadKeeps, ObserveKeeps, PlanKeeps, FreezeKeeps, ApplyKeeps, DecideKeeps, LatchKeeps,
     FinishKeeps, StutterKeeps DEF PhasedCycle

THEOREM Invariance == PhasedSpec => []PhasesInv
<1>1. PhasedInit => PhasesInv
  BY InitHolds
<1>2. PhasesInv /\ [PhasedLoad \/ PhasedCycle]_phasedVars => PhasesInv'
  BY StepKeeps
<1> QED BY <1>1, <1>2, PTL DEF PhasedSpec

(* cpu.cpp:217-481: no latch copies a value that an earlier cycle left in  *)
(* a component's next state.                                               *)
THEOREM NothingIsLatchedTwice == PhasedSpec => []NextStartsFromLatched
<1>1. PhasesInv => NextStartsFromLatched
  BY DEF PhasesInv
<1> QED BY <1>1, Invariance, PTL

----------------------------------------------------------------------------
(* Refinement: the last decision is the step of CPU, every other call is a *)
(* stutter of what is seen.                                                *)

LEMMA InitRefines == PhasedInit => Clocked!Init
<1> SUFFICES ASSUME PhasedInit PROVE Clocked!Init
  OBVIOUS
<1>1. phase # "latch" /\ Init
  BY DEF PhasedInit, Idle
<1>2. Clocked!ROB!Init /\ Clocked!RAT!Init /\ Clocked!RF!Init
  BY <1>1 DEF Init, seen, Clocked!ROB!Init, ROB!Init, Clocked!ROB!RobIndex,
       ROB!RobIndex, Clocked!RAT!Init, RAT!Init, Clocked!RAT!invalidated,
       RAT!invalidated, Clocked!RAT!RegisterIndex, RAT!RegisterIndex, Clocked!RF!Init,
       RF!Init, Clocked!RF!RegisterIndex, RF!RegisterIndex
<1>3. Clocked!RS!Init /\ Clocked!LSQ!Init /\ Clocked!FU!Init
  BY <1>1 DEF Init, seen, Clocked!RS!Init, RS!Init, Clocked!RS!no_entries,
       RS!no_entries, Clocked!RS!Slot, RS!Slot, Clocked!LSQ!Init, LSQ!Init,
       Clocked!LSQ!no_entries, LSQ!no_entries, Clocked!LSQ!Slot, LSQ!Slot,
       Clocked!FU!Init, FU!Init
<1>4. Clocked!CDB!Init /\ Clocked!MEM!Init /\ Clocked!BP!Init
  BY <1>1 DEF Init, seen, Clocked!CDB!Init, CDB!Init, Clocked!MEM!Init, MEM!Init,
       Clocked!BP!Init, BP!Init, Clocked!BP!weak_not_taken, BP!weak_not_taken,
       Clocked!BP!kWeakNotTaken, BP!kWeakNotTaken
<1> QED BY <1>1, <1>2, <1>3, <1>4 DEF Init, Clocked!Init, seen

LEMMA LoadRefines ==
  ASSUME PhasedLoad
  PROVE  Clocked!Load
<1>1. phase # "latch" /\ phase' # "latch" /\ Load
  BY DEF PhasedLoad, callVars
<1>2. Clocked!ROB!reset /\ Clocked!RAT!reset /\ Clocked!RF!reset
  BY <1>1 DEF Load, seen, Clocked!ROB!reset, ROB!reset, Clocked!ROB!RobIndex,
       ROB!RobIndex, Clocked!RAT!reset, RAT!reset, Clocked!RAT!invalidated,
       RAT!invalidated, Clocked!RAT!RegisterIndex, RAT!RegisterIndex, Clocked!RF!reset,
       RF!reset, Clocked!RF!RegisterIndex, RF!RegisterIndex
<1>3. Clocked!RS!reset /\ Clocked!LSQ!reset /\ Clocked!FU!reset
  BY <1>1 DEF Load, seen, Clocked!RS!reset, RS!reset, Clocked!RS!no_entries,
       RS!no_entries, Clocked!RS!Slot, RS!Slot, Clocked!LSQ!reset, LSQ!reset,
       Clocked!LSQ!no_entries, LSQ!no_entries, Clocked!LSQ!Slot, LSQ!Slot,
       Clocked!FU!reset, FU!reset
<1>4. Clocked!CDB!reset /\ Clocked!BP!reset
  BY <1>1 DEF Load, seen, Clocked!CDB!reset, CDB!reset, Clocked!BP!reset, BP!reset,
       Clocked!BP!weak_not_taken, BP!weak_not_taken, Clocked!BP!kWeakNotTaken,
       BP!kWeakNotTaken
<1>5. \E image \in Images : Clocked!MEM!load(image)
  BY <1>1 DEF Load, seen, Clocked!MEM!load, MEM!load, Clocked!MEM!reset, MEM!reset
<1> QED BY <1>1, <1>2, <1>3, <1>4, <1>5 DEF Load, Clocked!Load, seen

(* Before the latches nothing is seen of what the components prepare. *)
LEMMA PreparationUnseen ==
  ASSUME UNCHANGED vars, phase # "latch", phase' # "latch"
  PROVE  UNCHANGED Clocked!vars
BY DEF vars, coreVars, Clocked!vars, Clocked!coreVars, seen

LEMMA DecideRefines ==
  ASSUME PhasesInv, Decide
  PROVE  Clocked!Cycle
<1> DEFINE i == issue_outputs
<1>1. /\ phase = "apply" /\ phase' = "latch" /\ called = ApplyModule /\ status = "Running"
      /\ next_core' = [next_core EXCEPT !.status = status_decided]
      /\ UNCHANGED <<register, memLatched, componentNext>>
  BY DEF Decide, PhasesInv
<1>2. phase # "latch" /\ phase' = "latch"
  BY <1>1
<1>3. UNCHANGED <<robNext, next_rat, pending_write, rsNext, lsqNext, next_fu_result,
                  next_prefer_load, next_counters, memNext, register, memory>>
  BY <1>1 DEF componentNext, memLatched
<1>4. /\ CdbApplied /\ RobApplied /\ RsApplied /\ LsqApplied /\ FuApplied
      /\ RfApplied /\ RatApplied /\ BpApplied /\ MemApplied
      /\ ServesARequest(transaction)
  BY <1>1 DEF PhasesInv, NextIsApplied, Applied, ApplyModule
<1>5. Clocked!ROB!apply(i.rob, completion, store_completion)
  BY <1>2, <1>3, <1>4, RobSteps
<1>6. Clocked!RS!apply(i.rs, broadcast, fu_available, flush)
  BY <1>2, <1>3, <1>4, RsSteps
<1>7. Clocked!LSQ!apply(i.lsq, broadcast, response, memory_request, load_granted, flush)
  BY <1>2, <1>3, <1>4, LsqSteps
<1>8. /\ Clocked!FU!apply(dispatch, flush, integer_granted)
      /\ Clocked!RAT!apply(i.rename, rat_commit, flush)
      /\ Clocked!BP!apply(predictor_update)
  BY <1>2, <1>3, <1>4, FuSteps, RatSteps, BpSteps
<1>9. Clocked!RF!apply(register_write) /\ Clocked!MEM!apply(memory_request)
  BY <1>2, <1>3, <1>4, RfSteps, MemSteps
<1>10. Clocked!CDB!apply(integer_result, load_result)
  BY <1>2, <1>3, <1>4, SameBus DEF seen, CdbApplied, Clocked!CDB!apply
<1>11. next_core = [pc |-> next_pc(i), fetch_stopped |-> next_fetch_stopped(i),
                    status |-> status]
  BY <1>1 DEF PhasesInv, WiresAreObserved
<1>12. status_decided = next_status(i)
  BY <1>1, <1>11, ApplyInputs DEF status_decided, next_status, halted
<1>13. next_core' = [pc |-> next_pc(i), fetch_stopped |-> next_fetch_stopped(i),
                     status |-> next_status(i)]
  BY <1>1, <1>11, <1>12
<1>14. exit_code' = next_exit_code
  BY <1>1, ApplyInputs DEF Decide, next_exit_code, halted
<1>15. /\ Clocked!next_pc(i) = next_pc(i)
       /\ Clocked!next_fetch_stopped(i) <=> next_fetch_stopped(i)
       /\ Clocked!next_status(i) = next_status(i)
       /\ Clocked!next_exit_code = next_exit_code
  BY <1>2, SameFlush, SamePlans, SamePacket, SameRing
  DEF seen, Clocked!next_pc, next_pc, Clocked!next_fetch_stopped, next_fetch_stopped,
       Clocked!next_status, next_status, Clocked!next_exit_code, next_exit_code,
       Clocked!ByteSize, ByteSize
<1>16. /\ seen(current_pc, next_core.pc)' = Clocked!next_pc(i)
       /\ seen(fetch_stopped, next_core.fetch_stopped)' = Clocked!next_fetch_stopped(i)
       /\ seen(status, next_core.status)' = Clocked!next_status(i)
       /\ exit_code' = Clocked!next_exit_code
  BY <1>2, <1>13, <1>14, <1>15 DEF seen, Clocked!next_fetch_stopped, next_fetch_stopped
<1>17. Clocked!issue_outputs = i /\ seen(status, next_core.status) = "Running"
  BY <1>1, <1>2, SameIssue DEF seen
<1>18. seen(response, next_response) = response
  BY <1>2 DEF seen
<1> HIDE DEF i
<1> QED
  BY <1>2, <1>5, <1>6, <1>7, <1>8, <1>9, <1>10, <1>16, <1>17, <1>18,
     SameFlush, SameBus, SamePlans
  DEF Clocked!Cycle

LEMMA LatchUnseen ==
  ASSUME PhasesInv, Latch
  PROVE  UNCHANGED Clocked!vars
<1>1. /\ phase = "latch" /\ phase' = "latch"
      /\ UNCHANGED <<coreVars, robNext, next_rat, rsNext, lsqNext, next_fu_result,
                     next_prefer_load, next_counters, memNext, next_core>>
  BY DEF Latch
<1>2. UNCHANGED <<written_registers, written_memory>>
  BY LatchKeeps
<1> QED
  BY <1>1, <1>2 DEF seen, Clocked!vars, Clocked!coreVars, coreVars, robNext, rsNext,
       lsqNext, memNext

LEMMA FinishUnseen ==
  ASSUME PhasesInv, Finish
  PROVE  UNCHANGED Clocked!vars
<1>1. /\ phase = "latch" /\ phase' = "idle" /\ called = ApplyModule
      /\ current_pc' = next_core.pc /\ fetch_stopped' = next_core.fetch_stopped
      /\ status' = next_core.status
      /\ UNCHANGED <<robLatched, rat, register, rsLatched, lsqLatched, fu_result,
                     prefer_load, memLatched, counters, exit_code>>
  BY DEF Finish
<1>2. /\ robNext = robLatched /\ rsNext = rsLatched /\ lsqNext = lsqLatched
      /\ next_fu_result = fu_result /\ next_prefer_load = prefer_load
      /\ next_rat = rat /\ next_counters = counters /\ pending_write = None
      /\ next_transaction = transaction /\ next_response = response
      /\ written_memory = memory
  BY <1>1 DEF PhasesInv, NextStartsFromLatched, ApplyModule
<1>3. written_registers = register
  BY <1>2 DEF written_registers
<1> QED
  BY <1>1, <1>2, <1>3 DEF seen, Clocked!vars, Clocked!coreVars, robNext, robLatched,
       rsNext, rsLatched, lsqNext, lsqLatched, memLatched

LEMMA StutterUnseen ==
  ASSUME UNCHANGED phasedVars
  PROVE  UNCHANGED Clocked!vars
<1>1. UNCHANGED <<vars, componentNext, next_core, phase>>
  BY DEF phasedVars, callVars
<1>2. UNCHANGED <<written_registers, written_memory>>
  BY <1>1 DEF written_registers, written_memory, vars, componentNext, memNext
<1> QED
  BY <1>1, <1>2 DEF seen, vars, coreVars, componentNext, robNext, rsNext, lsqNext,
       memNext, Clocked!vars, Clocked!coreVars

(* cpu.cpp:256-257 and 386-387, "independent of the order of the calls":   *)
(* one call of cycle(), in any of the orders it may shuffle, is one Cycle  *)
(* of CPU, and so whatever is proved of CPU's steps holds of the code's.   *)
THEOREM OrdersDoNotMatter == PhasedSpec => ImplementsCycle
<1>1. PhasedInit => Clocked!Init
  BY InitRefines
<1>2. PhasesInv /\ [PhasedLoad \/ PhasedCycle]_phasedVars => [Clocked!Next]_(Clocked!vars)
  <2> SUFFICES ASSUME PhasesInv, [PhasedLoad \/ PhasedCycle]_phasedVars
               PROVE  Clocked!Next \/ UNCHANGED Clocked!vars
    OBVIOUS
  <2>1. CASE PhasedLoad
    BY <2>1, LoadRefines DEF Clocked!Next
  <2>2. CASE Observe \/ Plan \/ Freeze \/ Apply
    <3>1. UNCHANGED vars /\ phase # "latch" /\ phase' # "latch"
      BY <2>2 DEF Observe, Plan, Freeze, Apply
    <3> QED BY <3>1, PreparationUnseen
  <2>3. CASE Decide
    BY <2>3, DecideRefines DEF Clocked!Next
  <2>4. CASE Latch
    BY <2>4, LatchUnseen
  <2>5. CASE Finish
    BY <2>5, FinishUnseen
  <2>6. CASE UNCHANGED phasedVars
    BY <2>6, StutterUnseen
  <2> QED BY <2>1, <2>2, <2>3, <2>4, <2>5, <2>6 DEF PhasedCycle
<1> QED BY <1>1, <1>2, Invariance, PTL DEF PhasedSpec, ImplementsCycle
=============================================================================

