--------------------------- MODULE LoadStoreQueue ---------------------------
(***************************************************************************)
(* The load/store queue (tomasulo/load_store_queue.cpp): memory            *)
(* instructions in program order.  Only the head talks to memory: a load   *)
(* as soon as its address is known and the result buffer is free, a store  *)
(* only once the reorder buffer says it is its turn to commit.             *)
(***************************************************************************)
EXTENDS Instruction, WordArithmetic

CONSTANT LsqCapacity   \* LoadStoreQueue::kCapacity (16)

VARIABLES
  cur,                 \* slot -> the entry in it, or None
  head, tail, count,
  cur_load_result      \* a finished load's result waiting for the bus, or None

lsqVars == <<cur, head, tail, count, cur_load_result>>

Slot == 0 .. LsqCapacity - 1

LSQEntry ==
  [op : OP, destination : RobTag, base : Operand, store_data : Operand,
   immediate : Word, address : Address, address_ready : BOOLEAN,
   request_sent : BOOLEAN]

no_entries == [slot \in Slot |-> None]

Init ==
  /\ cur = no_entries /\ head = 0 /\ tail = 0 /\ count = 0
  /\ cur_load_result = None

reset ==
  /\ cur' = no_entries /\ head' = 0 /\ tail' = 0 /\ count' = 0
  /\ cur_load_result' = None

empty == count = 0
full == count = LsqCapacity
front == IF empty THEN None ELSE cur[head]

(* LB, LBU, SB move one byte, LH, LHU, SH two, LW, SW four. *)
memory_width(op) ==
  CASE op \in {"LB", "LBU", "SB"} -> 1
    [] op \in {"LH", "LHU", "SH"} -> 2
    [] OTHER -> 4

extend_with_zeroes(op, raw_value) == zero_extend(raw_value, memory_width(op) * ByteBits)
extend_load_result(op, raw_value) ==
  CASE op \in {"LB", "LH"} -> sign_extend(raw_value, memory_width(op) * ByteBits)
    [] OTHER -> zero_extend(raw_value, memory_width(op) * ByteBits)

----------------------------------------------------------------------------
(* plan(): nothing happens in the cycle of a flush. *)

matching_any_tag(response) ==
  /\ front # None /\ response # None
  /\ is_store(front.op) = response.is_store
(* The answer is for the head: the tag tells it from the answer to a load  *)
(* that was flushed while memory was still serving it.                     *)
matching_response(response) ==
  /\ front # None /\ response # None
  /\ front.destination = response.tag
  /\ is_store(front.op) = response.is_store

memory_error(response, flush) ==
  ~flush /\ matching_response(response) /\ ~response.success

(* The head is finished and leaves the queue. *)
remove_head(response, flush) ==
  ~flush /\ matching_response(response) /\ response.success

completed_load_result(response, flush) ==
  IF remove_head(response, flush) /\ is_load(front.op)
  THEN [tag |-> front.destination,
        result |-> extend_load_result(front.op, response.value),
        actual_next_pc |-> 0, branch_taken |-> FALSE, has_control_result |-> FALSE]
  ELSE None

(* The store that has really been written to memory. *)
store_completion(response, flush) ==
  IF remove_head(response, flush) /\ is_store(front.op) THEN front.destination ELSE None

may_store_when_ready(store_request, load_result_granted) ==
  IF is_load(front.op) THEN cur_load_result = None \/ load_result_granted
  ELSE front.store_data.ready
may_send(store_request, load_result_granted) ==
  IF is_load(front.op) THEN cur_load_result = None \/ load_result_granted
  ELSE front.store_data.ready /\ store_request # None /\ store_request = front.destination

make_memory_request(entry) ==
  [is_store |-> is_store(entry.op), width |-> memory_width(entry.op),
   address |-> entry.address,
   value |-> IF is_store(entry.op) THEN entry.store_data.value ELSE 0,
   tag |-> entry.destination]

memory_request(store_request, memory_available, load_result_granted, flush) ==
  IF /\ ~flush /\ front # None
     /\ ~front.request_sent /\ front.address_ready /\ memory_available
     /\ may_send(store_request, load_result_granted)
  THEN make_memory_request(front) ELSE None

----------------------------------------------------------------------------
(* apply() *)

wake_operand(operand, cdb) ==
  IF ~operand.ready /\ cdb # None /\ operand.tag = cdb.tag
  THEN ready_operand(cdb.value) ELSE operand

wake_base_only(entry, cdb) ==
  IF entry = None THEN None ELSE [entry EXCEPT !.base = wake_operand(@, cdb)]
wake_entry(entry, cdb) ==
  IF entry = None THEN None
  ELSE [entry EXCEPT !.base = wake_operand(@, cdb),
                     !.store_data = IF is_store(entry.op) THEN wake_operand(@, cdb) ELSE @]

(* update_addresses(): an address is computed once, when its base arrives. *)
addressed(entry) ==
  IF entry = None \/ entry.address_ready \/ ~entry.base.ready THEN entry
  ELSE [entry EXCEPT !.address = add(entry.base.value, entry.immediate),
                     !.address_ready = TRUE]

mark_request_sent(entry) == [entry EXCEPT !.request_sent = TRUE]

(* A slot after wake-up, the head's removal and the head's request. *)
served(slot, cdb, removed, sent) ==
  LET entry == wake_entry(cur[slot], cdb)
  IN  CASE slot = head /\ removed -> None
        [] slot = head /\ ~removed /\ sent -> mark_request_sent(entry)
        [] OTHER -> entry

accepts(issue_entry) == issue_entry # None /\ ~full

following_unwrapped(slot) == slot + 1
following(slot) == (slot + 1) % LsqCapacity

clear ==
  /\ cur' = no_entries /\ head' = 0 /\ tail' = 0 /\ count' = 0
  /\ cur_load_result' = None

advance(issue_entry, cdb, response, request, load_result_granted) ==
  LET removed == remove_head(response, FALSE)
      entries == [slot \in Slot |-> served(slot, cdb, removed, request # None)]
      inserted == IF accepts(issue_entry) THEN [entries EXCEPT ![tail] = issue_entry]
                  ELSE entries
      loaded == completed_load_result(response, FALSE)
  IN
  /\ cur' = [slot \in Slot |-> addressed(inserted[slot])]
  /\ head' = IF removed THEN following(head) ELSE head
  /\ tail' = IF accepts(issue_entry) THEN following(tail) ELSE tail
  /\ count' = (count + (IF accepts(issue_entry) THEN 1 ELSE 0))
                - (IF removed THEN 1 ELSE 0)
  /\ cur_load_result' = IF loaded # None THEN loaded
                        ELSE IF load_result_granted THEN None
                        ELSE cur_load_result

apply(issue_entry, cdb, response, request, load_result_granted, flush) ==
  \/ flush /\ clear
  \/ ~flush /\ advance(issue_entry, cdb, response, request, load_result_granted)
=============================================================================
