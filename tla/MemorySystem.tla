---------------------------- MODULE MemorySystem ----------------------------
(***************************************************************************)
(* The load/store queue and the memory unit with the rest of the core      *)
(* replaced by anything it might do: issue a memory instruction, broadcast *)
(* an operand, take a loaded value or let it wait, authorise the store at  *)
(* the head of the ring, or flush.  The wiring is that of CPU::cycle()     *)
(* (cpu.cpp:239-244, 285-300).                                             *)
(***************************************************************************)
EXTENDS Instruction, MemoryImage

CONSTANTS
  LsqCapacity, DataLatency,
  Operations,   \* the memory operations the core issues
  Operands,     \* the values operands have or get
  Offset        \* the immediate of every instruction

ASSUME MemorySystemAssumption ==
  /\ LsqCapacity \in Nat \ {0} /\ DataLatency \in Nat \ {0}
  /\ Operations \subseteq LoadOps \cup StoreOps
  /\ Operands \subseteq Word /\ Offset \in Word

VARIABLES
  lsq_cur, lsq_head, lsq_tail, lsq_count, lsq_load_result,
  memory, transaction, response,
  authorised,   \* the store at the head of the ring, or None
  stopped       \* memory_error has stopped the CPU

vars == <<lsq_cur, lsq_head, lsq_tail, lsq_count, lsq_load_result,
          memory, transaction, response, authorised, stopped>>

LSQ == INSTANCE LoadStoreQueue WITH
         cur <- lsq_cur, head <- lsq_head, tail <- lsq_tail, count <- lsq_count,
         cur_load_result <- lsq_load_result
MEM == INSTANCE MemoryUnit WITH
         current_transaction <- transaction, current_response <- response

(* None is nothing a latch or a wire may hold. *)
ASSUME NothingAssumption ==
  None \notin LSQ!LSQEntry \cup MEM!DataMemoryRequest \cup MEM!DataTransaction
              \cup MEM!DataMemoryResponse \cup FUResult \cup CDBMsg \cup Word

queued == {lsq_cur[slot] : slot \in LSQ!Slot} \ {None}
queued_tags == {entry.destination : entry \in queued}

Init ==
  /\ LSQ!Init /\ MEM!Init
  /\ authorised = None /\ stopped = FALSE

----------------------------------------------------------------------------
(* What the core may do.  The tags of instructions in flight differ        *)
(* (ReorderBufferProofs, TagsAreUnique), and a tag is not given out again  *)
(* while memory or the result buffer still holds it: a generation has 32   *)
(* bits.                                                                   *)
tags_in_use ==
  queued_tags
  \cup {t.request.tag : t \in {transaction} \ {None}}
  \cup {answer.tag : answer \in {response, lsq_load_result} \ {None}}

(* A producer that is not a memory instruction. *)
outside_tags == {[index |-> RobCapacity - 1, generation |-> 0]}

(* Free tags differ in nothing: one stands for all. *)
fresh_tags ==
  LET free == {tag \in RobTag : tag.index # RobCapacity - 1} \ tags_in_use
  IN  IF free = {} THEN {} ELSE {CHOOSE tag \in free : TRUE}

waited_for == {operand.tag : operand \in
                 {o \in {entry.base : entry \in queued}
                        \cup {entry.store_data : entry \in queued} : ~o.ready}}

(* An operand is known, or comes from outside or from a load before it     *)
(* that has not been broadcast.                                            *)
possible_operands(granted) ==
  {ready_operand(value) : value \in Operands}
  \cup {waiting_operand(tag) :
          tag \in outside_tags
                  \cup {entry.destination : entry \in {e \in queued : is_load(e.op)}}
                  \cup {result.tag : result \in IF granted THEN {}
                                                ELSE {lsq_load_result} \ {None}}}

new_entries(granted) ==
  {[op |-> op, destination |-> tag, base |-> base, store_data |-> data,
    immediate |-> Offset, address |-> 0, address_ready |-> FALSE, request_sent |-> FALSE] :
     op \in Operations, tag \in fresh_tags,
     base \in possible_operands(granted), data \in possible_operands(granted)}

(* A load has no data; the issue unit looks whether there is room. *)
issuable(granted) ==
  IF LSQ!full THEN {None}
  ELSE Maybe({entry \in new_entries(granted) :
                is_load(entry.op) => entry.store_data = ready_operand(0)})

(* What the bus carries: the loaded value it grants, or a result from outside. *)
broadcasts(granted) ==
  IF granted THEN {[tag |-> lsq_load_result.tag, value |-> lsq_load_result.result]}
  ELSE Maybe({[tag |-> tag, value |-> value] :
                tag \in waited_for \cap outside_tags, value \in Operands})

(* A store at the head of the ring stays there until it is done; only a    *)
(* control instruction at the head can cause a flush.                      *)
next_authorised(completed) ==
  IF authorised # None /\ completed = None THEN {authorised}
  ELSE {None} \cup {entry.destination : entry \in {e \in {LSQ!front'} \ {None} : is_store(e.op)}}

----------------------------------------------------------------------------
(* One cycle of the two components. *)
advance(issue_entry, cdb, granted, flush) ==
  LET request == LSQ!memory_request(authorised, MEM!data_port_available, granted, flush)
  IN
  /\ LSQ!apply(issue_entry, cdb, response, request, granted, flush)
  /\ MEM!apply(request)
  /\ stopped' = LSQ!memory_error(response, flush)

Flush ==
  /\ ~stopped /\ authorised = None
  /\ advance(None, None, FALSE, TRUE)
  /\ authorised' = None

Cycle ==
  /\ ~stopped
  /\ \E granted \in IF lsq_load_result = None THEN {FALSE} ELSE BOOLEAN :
       \E issue_entry \in issuable(granted), cdb \in broadcasts(granted) :
         advance(issue_entry, cdb, granted, FALSE)
  /\ authorised' \in next_authorised(LSQ!store_completion(response, FALSE))

Next == Cycle \/ Flush

(* run() goes on calling cycle(). *)
Spec == Init /\ [][Next]_vars /\ WF_vars(Cycle)

----------------------------------------------------------------------------
(* The store at the head of the queue has been written: the answer is on   *)
(* its way.                                                                *)
head_written ==
  /\ LSQ!matching_response(response)
  /\ response.is_store /\ response.success

access_of(entry) ==
  [tag |-> entry.destination, op |-> entry.op,
   address |-> IF entry.address_ready THEN entry.address ELSE None,
   value |-> IF is_store(entry.op) /\ entry.store_data.ready
             THEN entry.store_data.value ELSE None]

(* What the queue holds, oldest first, but for a store that is written. *)
done == IF head_written THEN 1 ELSE 0
accesses ==
  [i \in 1 .. lsq_count - done |->
     access_of(lsq_cur[(lsq_head + i - 1 + done) % LsqCapacity])]

Promise == INSTANCE InOrderMemory WITH
  pending <- accesses, image <- memory, delivered <- lsq_load_result, faulted <- stopped

(* load_store_queue.cpp:194-198, "memory is accessed strictly in queue     *)
(* order": each access takes effect once, in program order, on its own     *)
(* answer, and none that was flushed.                                      *)
ImplementsInOrderMemory == Promise!Init /\ [][Promise!Next]_(Promise!vars)

(* What the queue may expect of the core: the bus takes a loaded value in  *)
(* the end (ExecutionEngine), operands from outside arrive, and a store    *)
(* gets to the head of the ring once everything before it is done.         *)
core_is_fair ==
  /\ []<>(lsq_load_result = None)
  /\ []<>(waited_for \cap outside_tags = {})
  /\ []<>(authorised # None \/ LSQ!front = None \/ is_load(LSQ!front.op))

(* memory_unit.cpp:157-160, the answer is gone after a cycle: whatever was *)
(* queued leaves the queue, served or flushed, even behind the answer to   *)
(* an instruction that is no longer there.                                 *)
AccessesFinish ==
  core_is_fair =>
    \A tag \in RobTag \ outside_tags : []<>(stopped \/ tag \notin queued_tags)
=============================================================================
