----------------------------- MODULE MemoryUnit -----------------------------
(***************************************************************************)
(* The memory unit (memory/memory_unit.cpp): instructions are fetched      *)
(* combinationally; data go through one port that serves one transaction   *)
(* at a time in DataLatency cycles and answers for exactly one cycle.      *)
(***************************************************************************)
EXTENDS Instruction, MemoryImage

CONSTANT DataLatency   \* MemoryUnit::kDataLatency (3)

VARIABLES
  memory,                \* memory_: the image
  current_transaction,   \* the request being served and its cycles left, or None
  current_response       \* the answer visible this cycle, or None

memVars == <<memory, current_transaction, current_response>>

DataMemoryRequest ==
  [is_store : BOOLEAN, width : MemoryWidth, address : Address, value : Word, tag : RobTag]

DataTransaction == [request : DataMemoryRequest, remaining_cycles : 1 .. DataLatency]

DataMemoryResponse == [tag : RobTag, value : Word, is_store : BOOLEAN, success : BOOLEAN]

Init ==
  /\ memory = [address \in 0 .. MemorySize - 1 |-> 0]
  /\ current_transaction = None
  /\ current_response = None

transaction_survives == UNCHANGED <<current_transaction, current_response>>
reset == current_transaction' = None /\ current_response' = None

load(image) == memory' = image /\ reset

(* The word at pc, None out of bounds. *)
fetch(pc) == read(memory, pc, WORD)

data_port_assumed_free == TRUE
data_port_available == current_transaction = None

(* complete_current_transaction(): what the port answers to a request. *)
response_to(request) ==
  LET value == IF request.is_store THEN 0 ELSE read(memory, request.address, request.width)
  IN  [tag |-> request.tag,
       value |-> IF value = None THEN 0 ELSE value,
       is_store |-> request.is_store,
       success |-> in_bounds(request.address, request.width)]

completes == current_transaction # None /\ current_transaction.remaining_cycles = 1

accepts(request) == current_transaction = None /\ request # None

next_transaction(request) ==
  CASE accepts(request) -> [request |-> request, remaining_cycles |-> DataLatency]
    [] ~accepts(request) /\ (current_transaction = None \/ completes) -> None
    [] OTHER -> [current_transaction EXCEPT !.remaining_cycles = @ - 1]

(* schedule_store() and, at the latch, apply_store_write(). *)
written(request) ==
  IF request.is_store /\ in_bounds(request.address, request.width)
  THEN write(memory, request.address, request.width, request.value)
  ELSE memory

apply(request) ==
  /\ current_transaction' = next_transaction(request)
  /\ current_response' = IF completes THEN response_to(current_transaction.request) ELSE None
  /\ memory' = IF completes THEN written(current_transaction.request) ELSE memory
=============================================================================
