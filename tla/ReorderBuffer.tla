--------------------------- MODULE ReorderBuffer ---------------------------
(***************************************************************************)
(* The reorder buffer (tomasulo/reorder_buffer.cpp): a ring of             *)
(* RobCapacity slots that allocates tags in program order, records results *)
(* as they arrive, and commits from its head.                              *)
(*                                                                         *)
(* The state is the latched one (cur_, generations_, head_, tail_,         *)
(* count_).  plan() is the operators commit, flush and store_request over  *)
(* it; apply() followed by latch() is one step.                            *)
(***************************************************************************)
EXTENDS Instruction, Sequences

VARIABLES
  cur,          \* slot -> the entry in it, or None
  generations,  \* slot -> generation of its latest allocation
  head, tail, count

robVars == <<cur, generations, head, tail, count>>

(* What commit and recovery need of an instruction. *)
ROBEntry ==
  [tag : RobTag, op : OP, pc : Address, rd : RegisterIndex, value : Word,
   writes_rd : BOOLEAN, ready : BOOLEAN, predicted_next_pc : Address,
   actual_next_pc : Address, branch_taken : BOOLEAN]

(* None is no entry either. *)
ASSUME EntryAssumption == None \notin ROBEntry

Init ==
  /\ cur = [slot \in RobIndex |-> None]
  /\ generations = [slot \in RobIndex |-> 0]
  /\ head = 0 /\ tail = 0 /\ count = 0

reset ==
  /\ cur' = [slot \in RobIndex |-> None]
  /\ generations' = [slot \in RobIndex |-> 0]
  /\ head' = 0 /\ tail' = 0 /\ count' = 0

empty == count = 0
full == count = RobCapacity

following_slot_unwrapped(slot) == slot + 1
following_slot(slot) == (slot + 1) % RobCapacity

following_generation_stuck(generation) == generation
following_generation(generation) == (generation + 1) % GenerationSize

(* entries[tag.index] holds the very instruction the tag was given to: the *)
(* generation is compared as well as the slot.                             *)
matching_entry(tag, entries) ==
  /\ tag # None
  /\ entries[tag.index] # None
  /\ entries[tag.index].tag = tag

(* The tag the next issued instruction gets, None when the ring is full. *)
next_tag ==
  IF full THEN None
  ELSE [index |-> tail, generation |-> following_generation(generations[tail])]

front == IF empty THEN None ELSE cur[head]

lookup(tag) == IF matching_entry(tag, cur) THEN cur[tag.index] ELSE None

mispredicted(entry) ==
  is_control(entry.op) /\ entry.predicted_next_pc # entry.actual_next_pc

----------------------------------------------------------------------------
(* plan(): decided from the latched head alone. *)

commit == IF front # None /\ front.ready THEN front ELSE None

flush == commit # None /\ mispredicted(commit)

(* A store at the head is told that it may write memory. *)
store_request ==
  IF front # None /\ is_store(front.op) /\ ~front.ready THEN front.tag ELSE None

----------------------------------------------------------------------------
(* apply(): results recorded this cycle can be committed in the next one.  *)

with_result(entry, completion) ==
  LET control == completion.has_control_result
  IN  [entry EXCEPT
        !.value = completion.result, !.ready = TRUE,
        !.actual_next_pc =
          IF control THEN completion.actual_next_pc ELSE entry.actual_next_pc,
        !.branch_taken =
          IF control THEN completion.branch_taken ELSE entry.branch_taken]

apply_completion(entries, completion) ==
  IF completion = None \/ ~matching_entry(completion.tag, cur) THEN entries
  ELSE [entries EXCEPT ![completion.tag.index] = with_result(@, completion)]

apply_store_completion(entries, tag) ==
  IF ~matching_entry(tag, cur) \/ ~is_store(entries[tag.index].op) THEN entries
  ELSE [entries EXCEPT ![tag.index] = [@ EXCEPT !.ready = TRUE]]

accepts_any_tag(issue_entry) == issue_entry # None /\ ~full
(* An entry is taken only with the tag the ring would give it. *)
accepts(issue_entry) ==
  issue_entry # None /\ ~full /\ issue_entry.tag = next_tag

retire(entries) ==
  IF commit = None THEN entries ELSE [entries EXCEPT ![head] = None]

(* A mispredicted control instruction commits and everything younger goes. *)
(* The generations are kept: a result of the wrong path may still arrive.  *)
clear_younger_only ==
  /\ cur' = [slot \in RobIndex |-> IF slot = head THEN cur[head] ELSE None]
  /\ tail' = following_slot(head)
  /\ count' = 1
  /\ UNCHANGED <<head, generations>>
clear_keeping_tail ==
  /\ cur' = [slot \in RobIndex |-> None]
  /\ head' = following_slot(head)
  /\ count' = 0
  /\ UNCHANGED <<tail, generations>>
clear_speculative_entries ==
  /\ cur' = [slot \in RobIndex |-> None]
  /\ head' = following_slot(head)
  /\ tail' = following_slot(head)
  /\ count' = 0
  /\ UNCHANGED generations

advance(issue_entry, completion, store_completion) ==
  LET completed ==
        apply_store_completion(apply_completion(cur, completion), store_completion)
      remaining == IF commit = None THEN count ELSE count - 1
  IN
  /\ head' = IF commit = None THEN head ELSE following_slot(head)
  /\ IF accepts(issue_entry)
     THEN /\ cur' = [retire(completed) EXCEPT ![tail] = issue_entry]
          /\ generations' = [generations EXCEPT ![tail] = issue_entry.tag.generation]
          /\ tail' = following_slot(tail)
          /\ count' = remaining + 1
     ELSE /\ cur' = retire(completed)
          /\ count' = remaining
          /\ UNCHANGED <<generations, tail>>

apply(issue_entry, completion, store_completion) ==
  \/ flush /\ clear_speculative_entries
  \/ ~flush /\ advance(issue_entry, completion, store_completion)

----------------------------------------------------------------------------
(* The ring driven by any caller whatsoever. *)
Next ==
  \/ \E issue_entry \in Maybe(ROBEntry), completion \in Maybe(FUResult),
        store_completion \in Maybe(RobTag) :
        apply(issue_entry, completion, store_completion)
  \/ reset

Spec == Init /\ [][Next]_robVars

----------------------------------------------------------------------------
(* What the ring guarantees whatever its callers do. *)

(* The latches of reorder_buffer.hpp:109-124 hold values of their types.   *)
TypeOK ==
  /\ cur \in [RobIndex -> Maybe(ROBEntry)]
  /\ generations \in [RobIndex -> TagGeneration]
  /\ head \in RobIndex
  /\ tail \in RobIndex
  /\ count \in 0 .. RobCapacity

(* Going round from the head, how far a slot is. *)
distance(slot) == IF slot >= head THEN slot - head ELSE slot + RobCapacity - head

(* The three redundant views of the ring agree (reorder_buffer.cpp:        *)
(* 135-167, 211-219): exactly the count slots from the head on are taken,  *)
(* and the tail is the first slot behind them.                             *)
RingIsContiguous ==
  /\ \A slot \in RobIndex : cur[slot] # None <=> distance(slot) < count
  /\ tail = IF head + count >= RobCapacity THEN head + count - RobCapacity
            ELSE head + count

(* An entry's tag leads back to the entry, and is the latest tag its slot  *)
(* gave out (reorder_buffer.cpp:42-65): two instructions in flight never   *)
(* share a tag, and matching_entry() finds the one that is meant.          *)
TagsNameTheirSlots ==
  \A slot \in RobIndex : cur[slot] # None =>
    cur[slot].tag = [index |-> slot, generation |-> generations[slot]]

(* A slot never gives an instruction the tag it gave out last, not even    *)
(* right after a flush: a result still on its way to the previous occupant *)
(* (common/types.hpp:16-17) does not match the new one.                    *)
NewTagsDiffer ==
  \A slot \in RobIndex :
    (cur[slot] = None /\ cur'[slot] # None) =>
       cur'[slot].tag # [index |-> slot, generation |-> generations[slot]]

NewTagsAlwaysDiffer == [][NewTagsDiffer]_robVars

(* The tags in ring order are a bounded first-in first-out queue. *)
tags_in_order == [i \in 1 .. count |-> cur[(head + i - 1) % RobCapacity].tag]
Queue == INSTANCE InOrderQueue WITH
           queue <- tags_in_order, Tag <- RobTag, Capacity <- RobCapacity
CommitsInOrder == Queue!Spec
=============================================================================
