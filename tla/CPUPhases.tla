----------------------------- MODULE CPUPhases -----------------------------
(***************************************************************************)
(* One call of CPU::cycle() (tomasulo/cpu.cpp:217-481), call by call.      *)
(*                                                                         *)
(* CPU takes a cycle as one step of all components together.  The code     *)
(* calls their plan(), apply() and latch() one after the other, in orders  *)
(* it shuffles (initialize_execution_orders), and keeps a latched and a    *)
(* next value of everything.  The variables of CPU are the latched values  *)
(* here; next_x is the next value of x.  That a cycle is then still one    *)
(* step of CPU, whatever the orders, is what ImplementsCycle says.         *)
(***************************************************************************)
EXTENDS CPU

VARIABLES
  next_rob_cur, next_rob_generations, next_rob_head, next_rob_tail, next_rob_count,
  next_rat,
  pending_write,      \* RegisterFile::pending_write_
  next_rs_cur, next_rs_cursor,
  next_lsq_cur, next_lsq_head, next_lsq_tail, next_lsq_count, next_lsq_load_result,
  next_fu_result, next_prefer_load, next_counters,
  next_transaction, next_response,
  next_store_write,   \* MemoryUnit::next_store_write_
  next_core,          \* next_pc_, next_fetch_stopped_ and the local next_status
  phase,              \* what cycle() is doing
  called,             \* the components already called in this phase
  wires,              \* phase A: what was observed of the latched state
  decided             \* phase B: the decisions the components have returned

robLatched == <<rob_cur, rob_generations, rob_head, rob_tail, rob_count>>
robNext == <<next_rob_cur, next_rob_generations, next_rob_head, next_rob_tail,
             next_rob_count>>
rsLatched == <<rs_cur, rs_cursor>>
rsNext == <<next_rs_cur, next_rs_cursor>>
lsqLatched == <<lsq_cur, lsq_head, lsq_tail, lsq_count, lsq_load_result>>
lsqNext == <<next_lsq_cur, next_lsq_head, next_lsq_tail, next_lsq_count,
             next_lsq_load_result>>
memLatched == <<memory, transaction, response>>
memNext == <<next_transaction, next_response, next_store_write>>
componentNext == <<robNext, next_rat, pending_write, rsNext, lsqNext, next_fu_result,
                   next_prefer_load, next_counters, memNext>>
callVars == <<phase, called, wires, decided>>
phasedVars == <<vars, componentNext, next_core, callVars>>

(* apply() begins by copying the latched value to the next one, so that it *)
(* is the component's own step on its next value (NextStartsFromLatched).  *)
NextROB == INSTANCE ReorderBuffer WITH
             cur <- next_rob_cur, generations <- next_rob_generations,
             head <- next_rob_head, tail <- next_rob_tail, count <- next_rob_count
NextRAT == INSTANCE RenameTable WITH cur_table <- next_rat
NextRS == INSTANCE ReservationStation WITH
            cur_rs <- next_rs_cur, dispatch_cursor <- next_rs_cursor
NextLSQ == INSTANCE LoadStoreQueue WITH
             cur <- next_lsq_cur, head <- next_lsq_head, tail <- next_lsq_tail,
             count <- next_lsq_count, cur_load_result <- next_lsq_load_result
NextFU == INSTANCE FunctionalUnit WITH current_result <- next_fu_result
NextBP == INSTANCE BranchPredictor WITH counters <- next_counters

PlanModule == {"Issue", "ReorderBuffer", "ReservationStation", "LoadStoreQueue"}
ApplyModule == {"CommonDataBus", "ReorderBuffer", "ReservationStation", "LoadStoreQueue",
                "FunctionalUnit", "RegisterFile", "RenameTable", "BranchPredictor",
                "MemoryUnit"}

nothing_decided == [module \in PlanModule |-> None]

----------------------------------------------------------------------------
Idle == phase = "idle" /\ called = {} /\ wires = None /\ decided = nothing_decided

PhasedInit ==
  /\ Init
  /\ NextROB!Init /\ NextRAT!Init /\ NextRS!Init /\ NextLSQ!Init /\ NextFU!Init
  /\ NextBP!Init /\ next_prefer_load = FALSE
  /\ pending_write = None
  /\ next_transaction = None /\ next_response = None /\ next_store_write = None
  /\ next_core = [pc |-> 0, fetch_stopped |-> FALSE, status |-> "NotLoaded"]
  /\ Idle

(* MemoryUnit::reset(): a store that was written at the last clock edge is *)
(* still scheduled, and must not outlive its program.                      *)
memory_reset_keeps_store ==
  /\ next_transaction' = None /\ next_response' = None
  /\ UNCHANGED next_store_write
memory_reset ==
  next_transaction' = None /\ next_response' = None /\ next_store_write' = None

(* CPU::load() between two cycles, at any time: the resets clear the       *)
(* latched and the next values alike.                                      *)
PhasedLoad ==
  /\ phase = "idle" /\ Load
  /\ NextROB!reset /\ NextRAT!reset /\ NextRS!reset /\ NextLSQ!reset /\ NextFU!reset
  /\ NextBP!reset /\ next_prefer_load' = FALSE
  /\ pending_write' = None
  /\ memory_reset
  /\ next_core' = [pc |-> 0, fetch_stopped |-> FALSE, status |-> status']
  /\ UNCHANGED callVars

----------------------------------------------------------------------------
(* Phase A: cycle() observes the latched state. *)
Observe ==
  /\ phase = "idle" /\ status = "Running"
  /\ wires' = [flush |-> flush, store_request |-> store_request,
               broadcast |-> broadcast, completion |-> completion,
               load_granted |-> load_granted, integer_granted |-> integer_granted,
               prefer_load |-> CDB!next_prefer_load(integer_result, load_result),
               memory_response |-> response, memory_available |-> MEM!data_port_available,
               fu_available |-> FALSE]
  /\ phase' = "plan" /\ called' = {} /\ decided' = nothing_decided
  /\ next_core' = [pc |-> current_pc, fetch_stopped |-> fetch_stopped, status |-> status]
  /\ UNCHANGED <<vars, componentNext>>

(* What plan() of a component returns. *)
decision(module) ==
  CASE module = "Issue" -> [outputs |-> issue_outputs, fetch_error |-> fetch_error]
    [] module = "ReorderBuffer" ->
         [commit |-> ROB!commit, flush |-> ROB!flush,
          redirect_pc |-> IF ROB!flush THEN ROB!commit.actual_next_pc ELSE 0]
    [] module = "ReservationStation" -> [dispatch |-> RS!dispatch(wires.flush)]
    [] module = "LoadStoreQueue" ->
         [memory_request |->
            LSQ!memory_request(wires.store_request, wires.memory_available,
                               wires.load_granted, wires.flush),
          store_completion |-> LSQ!store_completion(wires.memory_response, wires.flush),
          memory_error |-> LSQ!memory_error(wires.memory_response, wires.flush)]

(* Phase B: the components plan, in any order. *)
Plan ==
  /\ phase = "plan"
  /\ \E module \in PlanModule \ called :
       /\ decided' = [decided EXCEPT ![module] = decision(module)]
       /\ called' = called \cup {module}
  /\ UNCHANGED <<vars, componentNext, next_core, phase, wires>>

(* rs_inputs.fu_available is computed once, before any component applies. *)
fu_will_accept == FU!can_accept(wires.integer_granted)

(* Every output is frozen now: the inputs of the apply calls are made. *)
Freeze ==
  /\ phase = "plan" /\ called = PlanModule
  /\ wires' = [wires EXCEPT !.fu_available = fu_will_accept]
  /\ next_core' =
       LET rob == decided["ReorderBuffer"]
           entry == decided["Issue"].outputs.rob
           issue_effective == entry # None /\ ~rob.flush
       IN  CASE rob.flush ->
                  [next_core EXCEPT !.pc = rob.redirect_pc, !.fetch_stopped = FALSE]
             [] issue_effective ->
                  [next_core EXCEPT !.pc = entry.predicted_next_pc,
                                    !.fetch_stopped = @ \/ entry.op = "HALT"]
             [] OTHER -> next_core
  /\ phase' = "apply" /\ called' = {}
  /\ UNCHANGED <<vars, componentNext, decided>>

----------------------------------------------------------------------------
(* The inputs of the apply calls, from the frozen decisions. *)

issue == decided["Issue"].outputs
committing == decided["ReorderBuffer"].commit
flushing == decided["ReorderBuffer"].flush
memory_requested == decided["LoadStoreQueue"].memory_request

(* An issue in the cycle of a flush is void. *)
unless_flushed(entry) == IF wires.flush THEN None ELSE entry

register_write_input ==
  IF committing # None /\ committing.writes_rd
  THEN [rd |-> committing.rd, value |-> committing.value] ELSE None

rat_commit_input ==
  IF committing # None /\ committing.writes_rd
  THEN [rd |-> committing.rd, tag |-> committing.tag] ELSE None

rat_write_input == IF flushing THEN None ELSE issue.rename

predictor_input ==
  IF committing # None /\ is_branch(committing.op) THEN committing ELSE None

(* RegisterFile::apply(): the write waits for the latch; x0 is not written. *)
register_file_apply(update) ==
  pending_write' = IF update = None \/ update.rd = 0 THEN None ELSE update

(* MemoryUnit::apply(): a store that is served waits for the latch. *)
store_served ==
  LET request == transaction.request
  IN  IF MEM!completes /\ request.is_store /\ in_bounds(request.address, request.width)
      THEN request ELSE None

memory_apply(request) ==
  /\ next_transaction' = MEM!next_transaction(request)
  /\ next_response' = IF MEM!completes THEN MEM!response_to(transaction.request) ELSE None
  /\ next_store_write' = store_served

available_to_rs_so_far == NextFU!can_accept(wires.integer_granted)
available_to_rs == wires.fu_available

(* Phase C: the components apply their inputs, in any order.  Each writes  *)
(* its next values and nothing else.                                       *)
Apply ==
  /\ phase = "apply"
  /\ \E module \in ApplyModule \ called :
       /\ called' = called \cup {module}
       /\ IF module = "CommonDataBus" THEN next_prefer_load' = wires.prefer_load
          ELSE UNCHANGED next_prefer_load
       /\ IF module = "ReorderBuffer"
          THEN NextROB!apply(unless_flushed(issue.rob), wires.completion,
                             decided["LoadStoreQueue"].store_completion)
          ELSE UNCHANGED robNext
       /\ IF module = "ReservationStation"
          THEN NextRS!apply(unless_flushed(issue.rs), wires.broadcast,
                            available_to_rs, wires.flush)
          ELSE UNCHANGED rsNext
       /\ IF module = "LoadStoreQueue"
          THEN NextLSQ!apply(unless_flushed(issue.lsq), wires.broadcast,
                             wires.memory_response, memory_requested,
                             wires.load_granted, wires.flush)
          ELSE UNCHANGED lsqNext
       /\ IF module = "FunctionalUnit"
          THEN NextFU!apply(decided["ReservationStation"].dispatch, wires.flush,
                            wires.integer_granted)
          ELSE UNCHANGED next_fu_result
       /\ IF module = "RegisterFile" THEN register_file_apply(register_write_input)
          ELSE UNCHANGED pending_write
       /\ IF module = "RenameTable"
          THEN NextRAT!apply(rat_write_input, rat_commit_input, flushing)
          ELSE UNCHANGED next_rat
       /\ IF module = "BranchPredictor" THEN NextBP!apply(predictor_input)
          ELSE UNCHANGED next_counters
       /\ IF module = "MemoryUnit" THEN memory_apply(memory_requested)
          ELSE UNCHANGED memNext
  /\ UNCHANGED <<vars, next_core, phase, wires, decided>>

(* Whether the ring is empty, and what the registers hold, is asked after  *)
(* the apply calls and before the latches: of the old cycle.               *)
status_decided ==
  IF committing # None /\ committing.op = "HALT" THEN "Halted"
  ELSE IF decided["LoadStoreQueue"].memory_error THEN "MemoryOutOfBound"
  ELSE IF issue.status = "InvalidAllocation" THEN "InternalError"
  ELSE IF issue.status = "InvalidInstruction" /\ ROB!empty THEN "InvalidInstruction"
  ELSE IF decided["Issue"].fetch_error /\ ROB!empty THEN "FetchOutOfBound"
  ELSE next_core.status

Decide ==
  /\ phase = "apply" /\ called = ApplyModule
  /\ next_core' = [next_core EXCEPT !.status = status_decided]
  /\ exit_code' = IF committing # None /\ committing.op = "HALT"
                  THEN register[ExitRegister] % ByteSize ELSE exit_code
  /\ phase' = "latch" /\ called' = {}
  /\ UNCHANGED <<robLatched, rat, register, rsLatched, lsqLatched, fu_result, prefer_load,
                 memLatched, counters, current_pc, fetch_stopped, status,
                 componentNext, wires, decided>>

----------------------------------------------------------------------------
(* latch() of each component. *)

latch_rob ==
  /\ rob_cur' = next_rob_cur /\ rob_generations' = next_rob_generations
  /\ rob_head' = next_rob_head /\ rob_tail' = next_rob_tail /\ rob_count' = next_rob_count

latch_rs_entries_only == rs_cur' = next_rs_cur /\ UNCHANGED rs_cursor
latch_rs == rs_cur' = next_rs_cur /\ rs_cursor' = next_rs_cursor

latch_lsq ==
  /\ lsq_cur' = next_lsq_cur
  /\ lsq_head' = next_lsq_head /\ lsq_tail' = next_lsq_tail /\ lsq_count' = next_lsq_count
  /\ lsq_load_result' = next_lsq_load_result

(* The write is performed, and performed once. *)
written_registers ==
  IF pending_write = None THEN register
  ELSE [register EXCEPT ![pending_write.rd] = pending_write.value]

latch_register_file == register' = written_registers /\ pending_write' = None

(* The store reaches memory at the clock edge; the pending write is        *)
(* dropped by the next apply().                                            *)
written_memory ==
  IF next_store_write = None THEN memory
  ELSE write(memory, next_store_write.address, next_store_write.width,
             next_store_write.value)

latch_memory ==
  /\ memory' = written_memory
  /\ transaction' = next_transaction /\ response' = next_response

(* Phase D: latch_all(), in any order. *)
Latch ==
  /\ phase = "latch"
  /\ \E module \in ApplyModule \ called :
       /\ called' = called \cup {module}
       /\ IF module = "ReorderBuffer" THEN latch_rob ELSE UNCHANGED robLatched
       /\ IF module = "ReservationStation" THEN latch_rs ELSE UNCHANGED rsLatched
       /\ IF module = "LoadStoreQueue" THEN latch_lsq ELSE UNCHANGED lsqLatched
       /\ IF module = "FunctionalUnit" THEN fu_result' = next_fu_result
          ELSE UNCHANGED fu_result
       /\ IF module = "CommonDataBus" THEN prefer_load' = next_prefer_load
          ELSE UNCHANGED prefer_load
       /\ IF module = "RegisterFile" THEN latch_register_file
          ELSE UNCHANGED <<register, pending_write>>
       /\ IF module = "RenameTable" THEN rat' = next_rat ELSE UNCHANGED rat
       /\ IF module = "BranchPredictor" THEN counters' = next_counters
          ELSE UNCHANGED counters
       /\ IF module = "MemoryUnit" THEN latch_memory ELSE UNCHANGED memLatched
  /\ UNCHANGED <<coreVars, robNext, next_rat, rsNext, lsqNext, next_fu_result,
                 next_prefer_load, next_counters, memNext, next_core,
                 phase, wires, decided>>

(* The last lines of cycle(). *)
Finish ==
  /\ phase = "latch" /\ called = ApplyModule
  /\ current_pc' = next_core.pc /\ fetch_stopped' = next_core.fetch_stopped
  /\ status' = next_core.status
  /\ phase' = "idle" /\ called' = {} /\ wires' = None /\ decided' = nothing_decided
  /\ UNCHANGED <<robLatched, rat, register, rsLatched, lsqLatched, fu_result, prefer_load,
                 memLatched, counters, exit_code, componentNext, next_core>>

----------------------------------------------------------------------------
PhasedCycle == Observe \/ Plan \/ Freeze \/ Apply \/ Decide \/ Latch \/ Finish

PhasedSpec == PhasedInit /\ [][PhasedLoad \/ PhasedCycle]_phasedVars /\ WF_phasedVars(PhasedCycle)

(* A cycle takes effect when everything is decided: from then on what the  *)
(* latches will copy counts, before that what they hold.                   *)
seen(latched, next) == IF phase = "latch" THEN next ELSE latched

Clocked == INSTANCE CPU WITH
  rob_cur <- seen(rob_cur, next_rob_cur),
  rob_generations <- seen(rob_generations, next_rob_generations),
  rob_head <- seen(rob_head, next_rob_head), rob_tail <- seen(rob_tail, next_rob_tail),
  rob_count <- seen(rob_count, next_rob_count),
  rat <- seen(rat, next_rat), register <- seen(register, written_registers),
  rs_cur <- seen(rs_cur, next_rs_cur), rs_cursor <- seen(rs_cursor, next_rs_cursor),
  lsq_cur <- seen(lsq_cur, next_lsq_cur), lsq_head <- seen(lsq_head, next_lsq_head),
  lsq_tail <- seen(lsq_tail, next_lsq_tail), lsq_count <- seen(lsq_count, next_lsq_count),
  lsq_load_result <- seen(lsq_load_result, next_lsq_load_result),
  fu_result <- seen(fu_result, next_fu_result),
  prefer_load <- seen(prefer_load, next_prefer_load),
  memory <- seen(memory, written_memory),
  transaction <- seen(transaction, next_transaction),
  response <- seen(response, next_response),
  counters <- seen(counters, next_counters),
  current_pc <- seen(current_pc, next_core.pc),
  fetch_stopped <- seen(fetch_stopped, next_core.fetch_stopped),
  status <- seen(status, next_core.status)

(* cpu.cpp:256-257 and 386-387, "independent of the order of the calls":   *)
(* whatever the orders, one call of cycle() is one step of all components  *)
(* from the same old state, as CPU has it.                                 *)
ImplementsCycle == Clocked!Init /\ [][Clocked!Next]_(Clocked!vars)

(* A component that has not applied yet in this cycle has a next value     *)
(* equal to its latched one, and one that has latched again so: nothing    *)
(* that an earlier cycle left behind is ever latched a second time.  A     *)
(* register write is dropped by its latch (register_file.cpp:48); a store  *)
(* stays scheduled until the next apply() or load(), but memory holds it:  *)
(* to write it once more would change nothing.                             *)
NextStartsFromLatched ==
  LET settled(module) == \/ phase \in {"idle", "plan"}
                         \/ phase = "apply" /\ module \notin called
                         \/ phase = "latch" /\ module \in called
  IN  /\ settled("ReorderBuffer") => robNext = robLatched
      /\ settled("ReservationStation") => rsNext = rsLatched
      /\ settled("LoadStoreQueue") => lsqNext = lsqLatched
      /\ settled("FunctionalUnit") => next_fu_result = fu_result
      /\ settled("CommonDataBus") => next_prefer_load = prefer_load
      /\ settled("RenameTable") => next_rat = rat
      /\ settled("BranchPredictor") => next_counters = counters
      /\ settled("RegisterFile") => pending_write = None
      /\ settled("MemoryUnit") =>
           /\ next_transaction = transaction /\ next_response = response
           /\ written_memory = memory
=============================================================================
