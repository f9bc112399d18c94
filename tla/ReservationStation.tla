------------------------- MODULE ReservationStation -------------------------
(***************************************************************************)
(* The integer reservation station (tomasulo/reservation_station.cpp):     *)
(* instructions wait in fixed slots for their operands and are dispatched  *)
(* round-robin, one a cycle, to the functional unit.                       *)
(***************************************************************************)
EXTENDS Instruction, FiniteSets

CONSTANT RsCapacity   \* ReservationStation::kCapacity (16)

VARIABLES
  cur_rs,           \* slot -> the entry in it, or None (not busy)
  dispatch_cursor   \* where the search for a ready entry starts

rsVars == <<cur_rs, dispatch_cursor>>

Slot == 0 .. RsCapacity - 1

RSEntry == [op : OP, destination : RobTag, lhs : Operand, rhs : Operand,
            immediate : Word, pc : Address]

no_entries == [slot \in Slot |-> None]

Init == cur_rs = no_entries /\ dispatch_cursor = 0

reset == cur_rs' = no_entries /\ dispatch_cursor' = 0

available == \E slot \in Slot : cur_rs[slot] = None

ready_slots ==
  {slot \in Slot : /\ cur_rs[slot] # None
                   /\ cur_rs[slot].lhs.ready
                   /\ cur_rs[slot].rhs.ready}

select_lowest_ready_index ==
  IF ready_slots = {} THEN None
  ELSE CHOOSE slot \in ready_slots : \A other \in ready_slots : slot <= other
(* The first ready slot at or after the cursor, going round. *)
select_ready_index ==
  LET distance(slot) == (slot + RsCapacity - dispatch_cursor) % RsCapacity
  IN  IF ready_slots = {} THEN None
      ELSE CHOOSE slot \in ready_slots :
             \A other \in ready_slots : distance(slot) <= distance(other)

make_execute(entry) ==
  [op |-> entry.op, operand1 |-> entry.lhs.value, operand2 |-> entry.rhs.value,
   immediate |-> entry.immediate, pc |-> entry.pc, tag |-> entry.destination]

(* plan(): the entry offered to the functional unit this cycle. *)
dispatch(flush) ==
  IF flush \/ select_ready_index = None THEN None
  ELSE make_execute(cur_rs[select_ready_index])

wake_operand(operand, cdb) ==
  IF ~operand.ready /\ cdb # None /\ operand.tag = cdb.tag
  THEN ready_operand(cdb.value) ELSE operand

wake_entry(entry, cdb) ==
  IF entry = None THEN None
  ELSE [entry EXCEPT !.lhs = wake_operand(@, cdb), !.rhs = wake_operand(@, cdb)]

dispatched_unasked(fu_available) == select_ready_index
(* The slot is freed only if the functional unit took the instruction. *)
dispatched(fu_available) == IF fu_available THEN select_ready_index ELSE None

cursor_after_unwrapped(slot) == slot + 1
cursor_after(slot) == (slot + 1) % RsCapacity

(* What the entries are before this cycle's new instruction is placed. *)
remaining(cdb, fu_available) ==
  [slot \in Slot |-> IF slot = dispatched(fu_available) THEN None
                     ELSE wake_entry(cur_rs[slot], cdb)]

find_free_index(entries) ==
  IF \A slot \in Slot : entries[slot] # None THEN None
  ELSE CHOOSE slot \in Slot :
         /\ entries[slot] = None
         /\ \A other \in Slot : entries[other] = None => slot <= other

insert(entries, issue_entry) ==
  LET slot == find_free_index(entries)
  IN  IF issue_entry = None \/ slot = None THEN entries
      ELSE [entries EXCEPT ![slot] = issue_entry]

(* apply() returns whether the new instruction found a slot. *)
issue_accepted(issue_entry, cdb, fu_available, flush) ==
  /\ ~flush /\ issue_entry # None
  /\ find_free_index(remaining(cdb, fu_available)) # None

apply(issue_entry, cdb, fu_available, flush) ==
  \/ /\ flush
     /\ cur_rs' = no_entries /\ dispatch_cursor' = 0
  \/ /\ ~flush
     /\ cur_rs' = insert(remaining(cdb, fu_available), issue_entry)
     /\ dispatch_cursor' =
          IF dispatched(fu_available) = None THEN dispatch_cursor
          ELSE cursor_after(dispatched(fu_available))
=============================================================================
