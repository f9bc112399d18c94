------------------------ MODULE ExecutionEngineProofs ------------------------
(***************************************************************************)
(* Proofs, for every number of slots, of tags and of words, of what        *)
(* ExecutionEngine states of the station, the unit and the bus.            *)
(***************************************************************************)
EXTENDS ExecutionEngine, WellFoundedInduction, TLAPS

Slot == RS!Slot
occupied == {slot \in Slot : rs_cur[slot] # None}

(* How many slots the round-robin search looks at before this one. *)
turns(slot) == (slot + RsCapacity - rs_cursor) % RsCapacity

(* Every dispatch an entry has seen is a slot that the search is past: the *)
(* number of those and of the slots still before it stays below the        *)
(* capacity.                                                               *)
TurnsAreKept == \A slot \in Slot : overtaken[slot] + turns(slot) < RsCapacity

(* The tags in the station and in the unit are of different instructions,  *)
(* and none of a load waiting for the bus.                                 *)
TagsDiffer ==
  /\ \A slot \in occupied :
       rs_cur[slot].op = "ADD" /\ rs_cur[slot].destination \in integer_tags
  /\ \A one, other \in occupied :
       rs_cur[one].destination = rs_cur[other].destination => one = other
  /\ fu_result # None => fu_result.tag \in integer_tags \ station_tags
  /\ load_result # None => load_result.tag \in load_tags

IInv == TypeOK /\ TurnsAreKept /\ TagsDiffer

----------------------------------------------------------------------------
(* Arithmetic of the round-robin search. *)

LEMMA LessThan == \A m, n \in Nat : <<m, n>> \in OpToRel(<, Nat) <=> m < n
BY Zenon DEF OpToRel

LEMMA SmallestOf ==
  ASSUME NEW S, S \subseteq Nat, S # {}
  PROVE  \E m \in S : \A n \in S : m <= n
<1>1. PICK m \in S : \A n \in S : ~(<<n, m>> \in OpToRel(<, Nat))
  BY NatLessThanWellFounded, WFMin
<1>2. \A n \in S : ~(n < m)
  BY <1>1, LessThan
<1> QED
  BY <1>2

LEMMA Turns ==
  ASSUME TypeOK, NEW slot \in Slot
  PROVE  /\ turns(slot) = IF slot >= rs_cursor THEN slot - rs_cursor
                          ELSE slot + RsCapacity - rs_cursor
         /\ turns(slot) \in Slot
<1>1. RsCapacity \in Nat /\ RsCapacity > 0
  BY ExecutionAssumption
<1>2. slot \in Nat /\ slot < RsCapacity /\ rs_cursor \in Nat /\ rs_cursor < RsCapacity
  BY <1>1 DEF TypeOK, Slot, RS!Slot
<1>3. CASE slot >= rs_cursor
  <2>1. (slot + RsCapacity - rs_cursor) % RsCapacity = slot - rs_cursor
    BY <1>1, <1>2, <1>3
  <2> QED
    BY <2>1, <1>1, <1>2, <1>3 DEF turns, Slot, RS!Slot
<1>4. CASE ~(slot >= rs_cursor)
  <2>1. (slot + RsCapacity - rs_cursor) % RsCapacity = slot + RsCapacity - rs_cursor
    BY <1>1, <1>2, <1>4
  <2> QED
    BY <2>1, <1>1, <1>2, <1>4 DEF turns, Slot, RS!Slot
<1> QED
  BY <1>3, <1>4

(* The search stops at the ready entry that is the fewest turns away.      *)
LEMMA SelectedComesFirst ==
  ASSUME TypeOK, RS!ready_slots # {}
  PROVE  /\ RS!select_ready_index \in RS!ready_slots
         /\ \A slot \in RS!ready_slots : turns(RS!select_ready_index) <= turns(slot)
<1> DEFINE waits == {turns(slot) : slot \in RS!ready_slots}
<1>1. waits \subseteq Nat /\ waits # {}
  <2>1. \A slot \in RS!ready_slots : slot \in Slot
    BY DEF RS!ready_slots, Slot
  <2>2. \A slot \in Slot : turns(slot) \in Slot
    BY Turns
  <2>3. Slot \subseteq Nat
    BY ExecutionAssumption DEF Slot, RS!Slot
  <2> QED
    BY <2>1, <2>2, <2>3
<1>2. PICK least \in waits : \A wait \in waits : least <= wait
  BY <1>1, SmallestOf
<1>3. PICK slot \in RS!ready_slots : \A other \in RS!ready_slots : turns(slot) <= turns(other)
  BY <1>2
<1>4. RS!select_ready_index =
        CHOOSE s \in RS!ready_slots : \A other \in RS!ready_slots : turns(s) <= turns(other)
  BY DEF RS!select_ready_index, turns
<1> QED
  BY <1>3, <1>4

----------------------------------------------------------------------------
(* The steps' wires and the values on them. *)

(* The wires of a cycle without a flush. *)
on_bus == broadcast(FALSE)
integer_wins == integer_granted(FALSE)
load_wins == load_granted(FALSE)
unit_is_free == fu_available(FALSE)

(* The instances speak of the same values.                                 *)
LEMMA SameValues ==
  /\ RS!RSEntry = [op : OP, destination : RobTag, lhs : Operand, rhs : Operand,
                   immediate : Word, pc : Address]
  /\ \A value : RS!ready_operand(value) = ready_operand(value)
<1>1. RS!OP = OP
  BY DEF RS!OP, OP, RS!RegisterOps, RegisterOps, RS!ImmediateOps, ImmediateOps, RS!UpperOps,
         UpperOps, RS!LoadOps, LoadOps, RS!StoreOps, StoreOps, RS!BranchOps, BranchOps,
         RS!JumpOps, JumpOps
<1>2. RS!Word = Word /\ RS!Address = Address
  BY DEF RS!Word, Word, RS!Address, Address, RS!WordSize, WordSize, RS!WordBits, WordBits
<1>3. RS!RobTag = RobTag
  BY DEF RS!RobTag, RobTag, RS!RobIndex, RobIndex, RS!TagGeneration, TagGeneration
<1>4. RS!Operand = Operand
  BY <1>2, <1>3 DEF RS!Operand, Operand, RS!Maybe, Maybe
<1>5. \A value : RS!ready_operand(value) = ready_operand(value)
  BY DEF RS!ready_operand, ready_operand
<1> QED
  BY <1>1, <1>2, <1>3, <1>4, <1>5 DEF RS!RSEntry

(* What is on the bus is the result that was granted it.                   *)
LEMMA Broadcast ==
  ASSUME TypeOK
  PROVE  /\ on_bus \in Maybe(CDBMsg)
         /\ integer_wins => fu_result # None /\ on_bus # None /\ on_bus.tag = fu_result.tag
         /\ load_wins => load_result # None /\ on_bus # None /\ on_bus.tag = load_result.tag
         /\ ~integer_wins /\ ~load_wins => on_bus = None
         /\ ~(integer_wins /\ load_wins)
<1>1. /\ integer_wins <=> fu_result # None /\ (load_result = None \/ ~prefer_load)
      /\ load_wins <=> load_result # None /\ (fu_result = None \/ prefer_load)
      /\ integer_wins \in BOOLEAN /\ load_wins \in BOOLEAN
  BY DEF integer_wins, load_wins, integer_granted, load_granted, CDB!integer_granted,
         CDB!load_granted
<1>2. on_bus = IF load_wins THEN [tag |-> load_result.tag, value |-> load_result.result]
               ELSE IF integer_wins THEN [tag |-> fu_result.tag, value |-> fu_result.result]
               ELSE None
  <2>1. CDB!completion(fu_result, load_result) =
          IF load_wins THEN load_result ELSE IF integer_wins THEN fu_result ELSE None
    BY <1>1 DEF CDB!completion, CDB!load_granted, CDB!integer_granted
  <2> QED
    BY <1>1, <2>1 DEF on_bus, broadcast, CDB!broadcast
<1>3. (integer_wins => fu_result \in FUResult) /\ (load_wins => load_result \in FUResult)
  BY <1>1 DEF TypeOK, Maybe
<1>4. \A result \in FUResult : [tag |-> result.tag, value |-> result.result] \in CDBMsg
  BY DEF FUResult, CDBMsg
<1>5. on_bus \in Maybe(CDBMsg) /\ (integer_wins \/ load_wins => on_bus \in CDBMsg)
  BY <1>1, <1>2, <1>3, <1>4 DEF Maybe
<1>6. integer_wins \/ load_wins => on_bus # None
  BY <1>5, NothingAssumption
<1> QED
  BY <1>1, <1>2, <1>5, <1>6

(* The slot dispatched is a ready one.                                     *)
LEMMA Accepted ==
  ASSUME TypeOK
  PROVE  /\ accepted_slot = RS!dispatched(unit_is_free)
         /\ accepted_slot # None =>
              /\ accepted_slot \in RS!ready_slots /\ accepted_slot \in occupied
              /\ accepted_slot = RS!select_ready_index
              /\ unit_is_free
              /\ \A slot \in RS!ready_slots : turns(accepted_slot) <= turns(slot)
<1>1. accepted_slot = RS!dispatched(unit_is_free)
  BY DEF accepted_slot, RS!dispatched, unit_is_free
<1>2. ASSUME accepted_slot # None
      PROVE  unit_is_free /\ RS!ready_slots # {}
             /\ accepted_slot = RS!select_ready_index
  BY <1>2 DEF accepted_slot, RS!select_ready_index, unit_is_free
<1> QED
  BY <1>1, <1>2, SelectedComesFirst DEF RS!ready_slots, occupied, Slot

(* A broadcast leaves an entry in its slot, with its destination.          *)
LEMMA WakeEntry ==
  ASSUME NEW entry \in RS!RSEntry, NEW cdb \in Maybe(CDBMsg)
  PROVE  /\ RS!wake_entry(entry, cdb) \in RS!RSEntry
         /\ RS!wake_entry(entry, cdb).destination = entry.destination
         /\ RS!wake_entry(entry, cdb).op = entry.op
<1>1. ASSUME NEW operand \in Operand
      PROVE  RS!wake_operand(operand, cdb) \in Operand
  BY SameValues DEF RS!wake_operand, ready_operand, Operand, Maybe, CDBMsg
<1>2. entry # None
  BY NothingAssumption
<1>3. RS!wake_entry(entry, cdb) =
        [entry EXCEPT !.lhs = RS!wake_operand(@, cdb), !.rhs = RS!wake_operand(@, cdb)]
  BY <1>2 DEF RS!wake_entry
<1> QED
  BY <1>1, <1>3, SameValues

Stations == [Slot -> Maybe(RS!RSEntry)]

(* What is left of the station when the dispatched entry is gone.          *)
LEMMA Remaining ==
  ASSUME TypeOK, NEW cdb \in Maybe(CDBMsg), NEW fu_is_free \in BOOLEAN
  PROVE  LET left == RS!remaining(cdb, fu_is_free)
         IN  /\ left \in Stations
             /\ \A slot \in Slot :
                  /\ left[slot] # None <=>
                       rs_cur[slot] # None /\ slot # RS!dispatched(fu_is_free)
                  /\ left[slot] # None =>
                       /\ left[slot].destination = rs_cur[slot].destination
                       /\ left[slot].op = rs_cur[slot].op
<1> DEFINE left == RS!remaining(cdb, fu_is_free)
<1>1. ASSUME NEW slot \in Slot
      PROVE  /\ left[slot] \in Maybe(RS!RSEntry)
             /\ left[slot] # None <=>
                  rs_cur[slot] # None /\ slot # RS!dispatched(fu_is_free)
             /\ left[slot] # None =>
                  /\ left[slot].destination = rs_cur[slot].destination
                  /\ left[slot].op = rs_cur[slot].op
  <2>1. left[slot] = IF slot = RS!dispatched(fu_is_free) THEN None
                     ELSE RS!wake_entry(rs_cur[slot], cdb)
    BY DEF RS!remaining, Slot
  <2>2. CASE rs_cur[slot] = None
    BY <2>1, <2>2 DEF RS!wake_entry, Maybe
  <2>3. CASE rs_cur[slot] # None
    <3>1. rs_cur[slot] \in RS!RSEntry
      BY <2>3 DEF TypeOK, Slot, Maybe
    <3> QED
      BY <2>1, <2>3, <3>1, WakeEntry, NothingAssumption DEF Maybe
  <2> QED
    BY <2>2, <2>3
<1>2. left = [slot \in Slot |-> left[slot]]
  BY DEF RS!remaining, Slot
<1>3. left \in Stations
  <2> HIDE DEF left
  <2> QED
    BY <1>1, <1>2 DEF Stations
<1> QED
  BY <1>1, <1>3

(* Where a new entry goes.                                                 *)
LEMMA FreeIndex ==
  ASSUME NEW entries \in Stations, NEW free \in Slot, entries[free] = None
  PROVE  /\ RS!find_free_index(entries) \in Slot
         /\ entries[RS!find_free_index(entries)] = None
         /\ RS!find_free_index(entries) # None
<1> DEFINE frees == {slot \in Slot : entries[slot] = None}
<1>1. frees \subseteq Nat /\ frees # {}
  BY ExecutionAssumption DEF Slot, RS!Slot
<1>2. PICK slot \in frees : \A other \in frees : slot <= other
  BY <1>1, SmallestOf
<1>3. RS!find_free_index(entries) =
        CHOOSE s \in Slot : /\ entries[s] = None
                            /\ \A other \in Slot : entries[other] = None => s <= other
  BY DEF RS!find_free_index, Slot
<1>4. \E s \in Slot : /\ entries[s] = None
                      /\ \A other \in Slot : entries[other] = None => s <= other
  BY <1>2
<1> QED
  BY <1>3, <1>4, NothingAssumption DEF Slot

(* Placing an entry disturbs no other.                                     *)
LEMMA Insert ==
  ASSUME NEW entries \in Stations, NEW entry \in Maybe(RS!RSEntry)
  PROVE  LET filled == RS!insert(entries, entry)
         IN  /\ filled \in Stations
             /\ \A slot \in Slot : entries[slot] # None => filled[slot] = entries[slot]
             /\ entry = None => filled = entries
             /\ entry # None =>
                  \/ filled = entries
                  \/ \E place \in Slot : /\ entries[place] = None
                                         /\ filled = [entries EXCEPT ![place] = entry]
<1>1. CASE entry = None \/ RS!find_free_index(entries) = None
  BY <1>1 DEF RS!insert
<1>2. CASE ~(entry = None \/ RS!find_free_index(entries) = None)
  <2> DEFINE place == RS!find_free_index(entries)
  <2>1. \E free \in Slot : entries[free] = None
    BY <1>2 DEF RS!find_free_index, Slot
  <2>2. place \in Slot /\ entries[place] = None
    BY <2>1, FreeIndex
  <2>3. RS!insert(entries, entry) = [entries EXCEPT ![place] = entry]
    BY <1>2 DEF RS!insert
  <2> HIDE DEF place
  <2> QED
    BY <1>2, <2>2, <2>3 DEF Stations
<1> QED
  BY <1>1, <1>2

----------------------------------------------------------------------------
(* What the environment may send. *)

LEMMA WordSizePositive == WordSize \in Nat \ {0}
<1>1. WordBits \in 0 .. WordBits
  BY SignalsAssumption DEF WordBits
<1> QED
  BY <1>1, PowersAssumption DEF WordSize

LEMMA Constants ==
  /\ RsCapacity \in Nat /\ RsCapacity > 0 /\ Slot = 0 .. RsCapacity - 1 /\ None \notin Slot
  /\ 0 \in Word /\ load_tags \subseteq RobTag /\ integer_tags \subseteq RobTag
  /\ integer_tags \cap load_tags = {}
<1>1. RsCapacity \in Nat /\ RsCapacity > 0 /\ Slot = 0 .. RsCapacity - 1 /\ None \notin Slot
  BY ExecutionAssumption, NothingAssumption DEF Slot, RS!Slot
<1>2. 0 \in Word
  BY WordSizePositive DEF Word
<1>3. RobCapacity - 1 \in RobIndex /\ 0 \in TagGeneration
  BY SignalsAssumption DEF RobIndex, TagGeneration
<1> QED
  BY <1>1, <1>2, <1>3 DEF load_tags, integer_tags, RobTag

LEMMA UnfinishedTags ==
  ASSUME TypeOK
  PROVE  unfinished_tags \subseteq RobTag
<1>1. station_tags \subseteq RobTag
  BY SameValues DEF station_tags, TypeOK, Maybe
<1>2. ASSUME NEW result \in {fu_result, load_result} \ {None}
      PROVE  result.tag \in RobTag
  BY <1>2 DEF TypeOK, Maybe, FUResult
<1> QED
  BY <1>1, <1>2 DEF unfinished_tags

LEMMA Issuable ==
  ASSUME TypeOK, NEW issue_entry \in issuable
  PROVE  /\ issue_entry \in Maybe(RS!RSEntry)
         /\ issue_entry # None =>
              /\ issue_entry.op = "ADD"
              /\ issue_entry.destination \in integer_tags \ unfinished_tags
<1>1. CASE issue_entry = None
  BY <1>1 DEF Maybe
<1>2. CASE issue_entry # None
  <2>1. PICK tag \in one_of(integer_tags \ unfinished_tags), lhs \in possible_operands :
          issue_entry = [op |-> "ADD", destination |-> tag, lhs |-> lhs,
                         rhs |-> ready_operand(0), immediate |-> 0, pc |-> 0]
    BY <1>2 DEF issuable, Maybe
  <2>2. tag \in integer_tags \ unfinished_tags
    BY <2>1 DEF one_of
  <2>3. ready_operand(0) \in Operand
    BY Constants DEF ready_operand, Operand, Maybe
  <2>4. lhs \in Operand
    <3>1. \A awaited \in RobTag : waiting_operand(awaited) \in Operand
      BY Constants DEF waiting_operand, Operand, Maybe
    <3> QED
      BY <2>1, <2>3, <3>1, UnfinishedTags, Constants DEF possible_operands
  <2>5. "ADD" \in OP /\ 0 \in Address
    BY Constants DEF OP, RegisterOps, Address
  <2>6. issue_entry \in RS!RSEntry
    BY <2>1, <2>2, <2>3, <2>4, <2>5, Constants, SameValues
  <2> QED
    BY <2>1, <2>2, <2>6 DEF Maybe
<1> QED
  BY <1>1, <1>2

LEMMA LoadResults ==
  ASSUME TypeOK, TagsDiffer, load_result' \in next_load_results
  PROVE  /\ load_result' \in Maybe(FUResult)
         /\ load_result' # None => load_result'.tag \in load_tags
         /\ load_result # None /\ ~load_wins => load_result' = load_result
<1>1. CASE load_result # None /\ ~load_wins
  BY <1>1 DEF next_load_results, load_wins, TypeOK, TagsDiffer
<1>2. CASE ~(load_result # None /\ ~load_wins)
  <2>1. CASE load_result' = None
    BY <1>2, <2>1 DEF Maybe
  <2>2. CASE load_result' # None
    <3>1. PICK tag \in load_tags : load_result' = finished_load(tag)
      BY <1>2, <2>2 DEF next_load_results, load_wins
    <3>2. finished_load(tag) \in FUResult /\ finished_load(tag).tag = tag
      BY Constants DEF finished_load, FUResult, Address
    <3> QED
      BY <1>2, <3>1, <3>2 DEF Maybe
  <2> QED
    BY <2>1, <2>2
<1> QED
  BY <1>1, <1>2

(* An addition's result is a message like any other.                       *)
LEMMA Execution ==
  ASSUME NEW execute \in Execute, execute.op = "ADD"
  PROVE  /\ FU!execute_instruction(execute) \in FUResult
         /\ FU!execute_instruction(execute).tag = execute.tag
         /\ FU!executable(execute.op)
<1>1. FU!WordSize = WordSize
  BY DEF FU!WordSize, WordSize, FU!WordBits, WordBits
<1>2. \A one, other \in Nat : FU!add(one, other) \in Word
  BY <1>1, WordSizePositive DEF FU!add, Word
<1>3. /\ execute.operand1 \in Nat /\ execute.operand2 \in Nat /\ execute.pc \in Nat
      /\ execute.tag \in RobTag
  BY WordSizePositive DEF Execute, Word, Address
<1>4. /\ ~FU!is_jump(execute.op) /\ ~FU!is_branch(execute.op)
      /\ ~FU!is_load(execute.op) /\ ~FU!is_store(execute.op)
  BY DEF FU!is_jump, FU!JumpOps, FU!is_branch, FU!BranchOps, FU!is_load, FU!LoadOps,
         FU!is_store, FU!StoreOps
<1>5. FU!result_of(execute) = FU!add(execute.operand1, execute.operand2)
  BY <1>4 DEF FU!result_of
<1>6. FU!taken(execute) = FALSE
  BY <1>4 DEF FU!taken
<1>7. FU!next_pc_of(execute) = FU!add(execute.pc, InstructionWidth)
  BY <1>6 DEF FU!next_pc_of, FU!sequential_pc
<1>8. FU!is_control(execute.op) = FALSE
  BY <1>4 DEF FU!is_control
<1>9. FU!result_of(execute) \in Word /\ FU!next_pc_of(execute) \in Word
  BY <1>2, <1>3, <1>5, <1>7, ExecutionAssumption
<1>10. FU!execute_instruction(execute) =
         [tag |-> execute.tag, result |-> FU!result_of(execute),
          actual_next_pc |-> FU!next_pc_of(execute), branch_taken |-> FALSE,
          has_control_result |-> FALSE]
  BY <1>6, <1>8 DEF FU!execute_instruction
<1>11. FU!executable(execute.op)
  BY <1>4 DEF FU!executable
<1> QED
  BY <1>3, <1>9, <1>10, <1>11 DEF FUResult, Address

(* The unit takes what the station offers when it can accept anything.     *)
LEMMA UnitTakes ==
  ASSUME TypeOK, TagsDiffer, FU!apply(RS!dispatch(FALSE), FALSE, integer_granted(FALSE))
  PROVE  /\ fu_result' \in Maybe(FUResult)
         /\ accepted_slot # None =>
              fu_result' # None /\ fu_result'.tag = rs_cur[accepted_slot].destination
         /\ accepted_slot = None =>
              fu_result' = IF integer_wins THEN None ELSE fu_result
         /\ unit_is_free <=> integer_wins \/ fu_result = None
<1>1. unit_is_free <=> integer_wins \/ fu_result = None
  BY DEF unit_is_free, fu_available, FU!can_accept, integer_wins
<1>2. CASE accepted_slot = None
  <2>1. ~FU!accepts(RS!dispatch(FALSE), FALSE, integer_granted(FALSE))
    <3>1. CASE ~fu_available(FALSE)
      BY <3>1 DEF FU!accepts, fu_available
    <3>2. CASE RS!select_ready_index = None
      BY <3>2 DEF FU!accepts, RS!dispatch
    <3> QED
      BY <1>2, <3>1, <3>2 DEF accepted_slot
  <2>2. fu_result' = IF integer_wins THEN None ELSE fu_result
    BY <2>1 DEF FU!apply, integer_wins
  <2> QED
    BY <1>1, <1>2, <2>2 DEF TypeOK, Maybe
<1>3. CASE accepted_slot # None
  <2> DEFINE slot == accepted_slot
             entry == rs_cur[slot]
             execute == RS!make_execute(entry)
  <2>1. /\ slot \in occupied /\ slot = RS!select_ready_index /\ unit_is_free
        /\ entry \in RS!RSEntry /\ entry.op = "ADD"
    BY <1>3, Accepted DEF occupied, Slot, TypeOK, TagsDiffer, Maybe
  <2>2. execute = [op |-> entry.op, operand1 |-> entry.lhs.value,
                   operand2 |-> entry.rhs.value, immediate |-> entry.immediate,
                   pc |-> entry.pc, tag |-> entry.destination]
    BY DEF RS!make_execute
  <2>3. execute \in Execute /\ execute.op = "ADD" /\ execute.tag = entry.destination
    BY <2>1, <2>2, SameValues DEF Execute, Operand
  <2>4. RS!dispatch(FALSE) = execute
    BY <1>3, <2>1 DEF RS!dispatch
  <2> HIDE DEF execute
  <2>5. /\ FU!execute_instruction(execute) \in FUResult
        /\ FU!execute_instruction(execute).tag = entry.destination
        /\ FU!executable(execute.op)
    BY <2>3, Execution
  <2>6. execute # None
    BY <2>3, NothingAssumption
  <2>7. FU!accepts(execute, FALSE, integer_granted(FALSE))
    BY <2>1, <2>5, <2>6 DEF FU!accepts, unit_is_free, fu_available
  <2>8. fu_result' = FU!execute_instruction(execute)
    BY <2>4, <2>7 DEF FU!apply
  <2>9. fu_result' \in FUResult /\ fu_result' # None
    BY <2>5, <2>8, NothingAssumption
  <2> QED
    BY <1>1, <1>3, <2>5, <2>8, <2>9 DEF Maybe
<1> QED
  BY <1>2, <1>3

----------------------------------------------------------------------------
(* The station's part of a cycle: the dispatched entry goes, the new one   *)
(* takes a free place, the others stay where they are.                     *)
StaysBut(place) ==
  \A slot \in Slot \ {place} :
    /\ rs_cur'[slot] # None <=> rs_cur[slot] # None /\ slot # accepted_slot
    /\ rs_cur'[slot] # None => /\ rs_cur'[slot].destination = rs_cur[slot].destination
                               /\ rs_cur'[slot].op = rs_cur[slot].op

Placed(place, issue_entry) ==
  /\ place \in Slot /\ issue_entry # None /\ rs_cur'[place] = issue_entry
  /\ rs_cur[place] = None \/ place = accepted_slot

LEMMA StationStep ==
  ASSUME TypeOK, TagsDiffer, NEW issue_entry \in issuable,
         RS!apply(issue_entry, broadcast(FALSE), fu_available(FALSE), FALSE)
  PROVE  /\ rs_cur' \in Stations
         /\ rs_cursor' = IF accepted_slot = None THEN rs_cursor
                         ELSE (accepted_slot + 1) % RsCapacity
         /\ \E place \in Maybe(Slot) :
              StaysBut(place) /\ (place # None => Placed(place, issue_entry))
<1> DEFINE left == RS!remaining(on_bus, unit_is_free)
           filled == RS!insert(left, issue_entry)
<1>1. rs_cur' = filled
  BY DEF RS!apply, on_bus, unit_is_free
<1>2. rs_cursor' = IF accepted_slot = None THEN rs_cursor
                   ELSE (accepted_slot + 1) % RsCapacity
  BY Accepted DEF RS!apply, RS!cursor_after, unit_is_free
<1>3. on_bus \in Maybe(CDBMsg) /\ unit_is_free \in BOOLEAN
  BY Broadcast DEF unit_is_free, fu_available, FU!can_accept
<1>4. /\ left \in Stations
      /\ \A slot \in Slot :
           /\ left[slot] # None <=> rs_cur[slot] # None /\ slot # accepted_slot
           /\ left[slot] # None => /\ left[slot].destination = rs_cur[slot].destination
                                   /\ left[slot].op = rs_cur[slot].op
  BY <1>3, Remaining, Accepted
<1>5. issue_entry \in Maybe(RS!RSEntry)
  BY Issuable
<1> HIDE DEF left
<1>6. /\ filled \in Stations
      /\ issue_entry = None => filled = left
      /\ issue_entry # None =>
           \/ filled = left
           \/ \E place \in Slot : /\ left[place] = None
                                  /\ filled = [left EXCEPT ![place] = issue_entry]
  BY <1>4, <1>5, Insert
<1> HIDE DEF filled
<1>7. CASE filled = left
  <2>1. StaysBut(None)
    BY <1>1, <1>4, <1>7 DEF StaysBut
  <2> QED
    BY <1>1, <1>2, <1>6, <2>1 DEF Maybe
<1>8. CASE filled # left
  <2>1. PICK place \in Slot : /\ left[place] = None
                              /\ filled = [left EXCEPT ![place] = issue_entry]
    BY <1>6, <1>8
  <2>2. StaysBut(place)
    BY <1>1, <1>4, <2>1 DEF StaysBut, Stations
  <2>3. issue_entry # None
    BY <1>6, <1>8
  <2>4. Placed(place, issue_entry)
    BY <1>1, <1>4, <2>1, <2>3 DEF Placed, Stations
  <2> QED
    BY <1>1, <1>2, <1>6, <2>2, <2>4 DEF Maybe
<1> QED
  BY <1>7, <1>8

(* A slot that is passed over comes nearer, and nearer by more than the    *)
(* one dispatch it is charged with.                                        *)
LEMMA TurnsStep ==
  ASSUME TypeOK, TurnsAreKept, overtaken' = next_overtaken, rs_cursor' \in Slot,
         rs_cursor' = (IF accepted_slot = None THEN rs_cursor
                       ELSE (accepted_slot + 1) % RsCapacity)
  PROVE  TurnsAreKept' /\ overtaken' \in [Slot -> Nat]
<1> SUFFICES ASSUME NEW slot \in Slot
             PROVE  overtaken'[slot] \in Nat /\ overtaken'[slot] + turns(slot)' < RsCapacity
  BY DEF TurnsAreKept, next_overtaken, Slot
<1>1. /\ RsCapacity \in Nat /\ RsCapacity > 0
      /\ slot \in Nat /\ slot < RsCapacity /\ rs_cursor \in Nat /\ rs_cursor < RsCapacity
      /\ rs_cursor' \in Nat /\ rs_cursor' < RsCapacity
  BY Constants DEF TypeOK, Slot
<1>2. turns(slot)' = IF slot >= rs_cursor' THEN slot - rs_cursor'
                     ELSE slot + RsCapacity - rs_cursor'
  <2>1. CASE slot >= rs_cursor'
    BY <1>1, <2>1 DEF turns
  <2>2. CASE ~(slot >= rs_cursor')
    BY <1>1, <2>2 DEF turns
  <2> QED
    BY <2>1, <2>2
<1>3. /\ turns(slot) = IF slot >= rs_cursor THEN slot - rs_cursor
                       ELSE slot + RsCapacity - rs_cursor
      /\ overtaken[slot] \in Nat /\ overtaken[slot] + turns(slot) < RsCapacity
  BY Turns DEF TurnsAreKept, TypeOK, Slot
<1>4. overtaken'[slot] =
        IF slot \notin RS!ready_slots \/ slot = accepted_slot THEN 0
        ELSE IF accepted_slot = None \/ overtaken[slot] = RsCapacity THEN overtaken[slot]
        ELSE overtaken[slot] + 1
  BY DEF next_overtaken, Slot
<1>5. CASE slot \notin RS!ready_slots \/ slot = accepted_slot
  BY <1>1, <1>2, <1>4, <1>5
<1>6. CASE slot \in RS!ready_slots /\ slot # accepted_slot /\ accepted_slot = None
  BY <1>1, <1>2, <1>3, <1>4, <1>6
<1>7. CASE slot \in RS!ready_slots /\ slot # accepted_slot /\ accepted_slot # None
  <2>1. /\ accepted_slot \in Slot /\ accepted_slot \in Nat /\ accepted_slot < RsCapacity
        /\ turns(accepted_slot) <= turns(slot)
    BY <1>1, <1>7, Accepted, Constants DEF occupied
  <2>2. turns(accepted_slot) = IF accepted_slot >= rs_cursor THEN accepted_slot - rs_cursor
                               ELSE accepted_slot + RsCapacity - rs_cursor
    BY <2>1, Turns
  <2>3. rs_cursor' = IF accepted_slot + 1 = RsCapacity THEN 0 ELSE accepted_slot + 1
    <3>1. CASE accepted_slot + 1 = RsCapacity
      BY <1>1, <1>7, <2>1, <3>1
    <3>2. CASE accepted_slot + 1 # RsCapacity
      BY <1>1, <1>7, <2>1, <3>2
    <3> QED
      BY <3>1, <3>2
  <2>4. turns(slot)' < turns(slot)
    BY <1>1, <1>2, <1>3, <1>7, <2>1, <2>2, <2>3
  <2>5. overtaken[slot] # RsCapacity
    BY <1>1, <1>3
  <2> QED
    BY <1>1, <1>2, <1>3, <1>4, <1>7, <2>4, <2>5
<1> QED
  BY <1>5, <1>6, <1>7

LEMMA CursorStays ==
  ASSUME TypeOK
  PROVE  (IF accepted_slot = None THEN rs_cursor ELSE (accepted_slot + 1) % RsCapacity) \in Slot
<1>1. CASE accepted_slot = None
  BY <1>1 DEF TypeOK, Slot
<1>2. CASE accepted_slot # None
  <2>1. accepted_slot \in Nat /\ accepted_slot < RsCapacity
    BY <1>2, Accepted, Constants DEF occupied
  <2>2. CASE accepted_slot + 1 = RsCapacity
    <3>1. (accepted_slot + 1) % RsCapacity = 0
      BY <2>1, <2>2, Constants
    <3> QED
      BY <1>2, <3>1, Constants
  <2>3. CASE accepted_slot + 1 # RsCapacity
    <3>1. (accepted_slot + 1) % RsCapacity = accepted_slot + 1
      BY <2>1, <2>3, Constants
    <3> QED
      BY <1>2, <2>1, <2>3, <3>1, Constants
  <2> QED
    BY <2>2, <2>3
<1> QED
  BY <1>1, <1>2

(* A result that is not granted stays in the unit, and one that is granted *)
(* makes room for another.                                                 *)
LEMMA TagsStep ==
  ASSUME TypeOK, TypeOK', TagsDiffer, NEW issue_entry \in issuable,
         RS!apply(issue_entry, broadcast(FALSE), fu_available(FALSE), FALSE),
         FU!apply(RS!dispatch(FALSE), FALSE, integer_granted(FALSE)),
         load_result' \in next_load_results
  PROVE  TagsDiffer'
<1>1. PICK place \in Maybe(Slot) :
        StaysBut(place) /\ (place # None => Placed(place, issue_entry))
  BY StationStep
<1>2. issue_entry # None =>
        /\ issue_entry.op = "ADD" /\ issue_entry.destination \in integer_tags
        /\ issue_entry.destination \notin unfinished_tags
  BY Issuable
<1>3. /\ accepted_slot # None =>
           /\ fu_result' # None /\ fu_result'.tag = rs_cur[accepted_slot].destination
           /\ accepted_slot \in occupied
      /\ accepted_slot = None => fu_result' = IF integer_wins THEN None ELSE fu_result
  BY UnitTakes, Accepted
<1>4. \A slot \in occupied' :
        \/ slot \in occupied /\ slot # accepted_slot
             /\ rs_cur'[slot].destination = rs_cur[slot].destination
             /\ rs_cur'[slot].op = rs_cur[slot].op
             /\ slot # place
        \/ slot = place /\ place # None /\ rs_cur'[slot] = issue_entry /\ issue_entry # None
  BY <1>1, Constants DEF StaysBut, Placed, occupied, Maybe
<1>5. \A slot \in occupied : rs_cur[slot].destination \in unfinished_tags
  BY DEF occupied, unfinished_tags, station_tags, Slot
<1>6. fu_result # None => fu_result.tag \in unfinished_tags
  BY DEF unfinished_tags
<1>7. \A slot \in occupied' :
        rs_cur'[slot].op = "ADD" /\ rs_cur'[slot].destination \in integer_tags
  BY <1>2, <1>4 DEF TagsDiffer
<1>8. \A one, other \in occupied' :
        rs_cur'[one].destination = rs_cur'[other].destination => one = other
  <2> SUFFICES ASSUME NEW one \in occupied', NEW other \in occupied',
                      rs_cur'[one].destination = rs_cur'[other].destination
               PROVE  one = other
    OBVIOUS
  <2>1. CASE one # place /\ other # place
    BY <1>4, <2>1 DEF TagsDiffer
  <2>2. CASE one = place \/ other = place
    BY <1>2, <1>4, <1>5, <2>2
  <2> QED
    BY <2>1, <2>2
<1>9. fu_result' # None =>
        /\ fu_result'.tag \in integer_tags
        /\ \A slot \in occupied' : rs_cur'[slot].destination # fu_result'.tag
  <2>1. CASE accepted_slot # None
    BY <1>2, <1>3, <1>4, <1>5, <2>1 DEF TagsDiffer
  <2>2. CASE accepted_slot = None /\ fu_result' # None
    <3>1. fu_result' = fu_result /\ fu_result # None
      BY <1>3, <2>2
    <3>2. fu_result.tag \in integer_tags /\ \A slot \in occupied :
            rs_cur[slot].destination # fu_result.tag
      BY <3>1 DEF TagsDiffer, station_tags, occupied, Slot
    <3> QED
      BY <1>2, <1>4, <1>6, <3>1, <3>2
  <2> QED
    BY <2>1, <2>2
<1>10. fu_result' # None => fu_result'.tag \notin station_tags'
  BY <1>9 DEF station_tags, occupied, Slot
<1>11. load_result' # None => load_result'.tag \in load_tags
  BY LoadResults
<1> QED
  BY <1>7, <1>8, <1>9, <1>10, <1>11 DEF TagsDiffer, load_tags, integer_tags

LEMMA InitEstablishes == Init => IInv
<1> SUFFICES ASSUME Init PROVE IInv
  OBVIOUS
<1>1. TypeOK
  <2>1. /\ rs_cur = [slot \in Slot |-> None] /\ rs_cursor = 0 /\ fu_result = None
        /\ prefer_load = FALSE /\ load_result = None /\ overtaken = [slot \in Slot |-> 0]
    BY DEF Init, RS!Init, RS!no_entries, FU!Init, CDB!Init, Slot
  <2>2. 0 \in Slot
    BY Constants
  <2> QED
    BY <2>1, <2>2 DEF TypeOK, Maybe, Slot
<1>2. TurnsAreKept
  <2>1. \A slot \in Slot : overtaken[slot] = 0 /\ turns(slot) \in Slot
    BY <1>1, Turns DEF Init, Slot
  <2> QED
    BY <2>1, Constants DEF TurnsAreKept
<1>3. TagsDiffer
  BY Constants DEF Init, RS!Init, RS!no_entries, FU!Init, TagsDiffer, occupied, Slot
<1> QED
  BY <1>1, <1>2, <1>3 DEF IInv

LEMMA CyclePreserves == IInv /\ Cycle => IInv'
<1> SUFFICES ASSUME IInv, Cycle PROVE IInv'
  OBVIOUS
<1>1. TypeOK /\ TurnsAreKept /\ TagsDiffer
  BY DEF IInv
<1>2. PICK issue_entry \in issuable :
        RS!apply(issue_entry, broadcast(FALSE), fu_available(FALSE), FALSE)
  BY DEF Cycle
<1>3. /\ rs_cur' \in Stations
      /\ rs_cursor' = IF accepted_slot = None THEN rs_cursor
                      ELSE (accepted_slot + 1) % RsCapacity
  BY <1>1, <1>2, StationStep
<1>4. rs_cursor' \in Slot
  BY <1>1, <1>3, CursorStays
<1>5. TurnsAreKept' /\ overtaken' \in [Slot -> Nat]
  BY <1>1, <1>3, <1>4, TurnsStep DEF Cycle
<1>6. fu_result' \in Maybe(FUResult)
  BY <1>1, UnitTakes DEF Cycle
<1>7. load_result' \in Maybe(FUResult)
  BY <1>1, LoadResults DEF Cycle
<1>8. prefer_load' \in BOOLEAN
  BY <1>1 DEF Cycle, CDB!apply, CDB!next_prefer_load, CDB!integer_granted, TypeOK
<1>9. TypeOK'
  BY <1>3, <1>4, <1>5, <1>6, <1>7, <1>8 DEF TypeOK, Stations, Slot
<1>10. TagsDiffer'
  BY <1>1, <1>2, <1>9, TagsStep DEF Cycle
<1> QED
  BY <1>5, <1>9, <1>10 DEF IInv

LEMMA FlushPreserves == IInv /\ Flush => IInv'
<1> SUFFICES ASSUME IInv, Flush PROVE IInv'
  OBVIOUS
<1>1. /\ rs_cur' = RS!no_entries /\ rs_cursor' = 0 /\ fu_result' = None
      /\ load_result' = None /\ overtaken' = [slot \in RS!Slot |-> 0]
  BY DEF Flush, RS!apply, FU!apply, FU!accepts
<1>2. prefer_load' \in BOOLEAN
  BY DEF Flush, CDB!apply, CDB!next_prefer_load, CDB!integer_granted, IInv, TypeOK
<1>3. TypeOK'
  BY <1>1, <1>2, Constants DEF RS!no_entries, TypeOK, Maybe, Slot
<1>4. TurnsAreKept'
  <2>1. \A slot \in Slot : turns(slot)' < RsCapacity
    <3> TAKE slot \in Slot
    <3>1. turns(slot)' = (slot + RsCapacity - 0) % RsCapacity
      BY <1>1 DEF turns
    <3> QED
      BY <3>1, Constants
  <2>2. \A slot \in Slot : overtaken'[slot] = 0 /\ turns(slot)' \in Int
    BY <1>1, Constants DEF turns, Slot
  <2> QED
    BY <2>1, <2>2, Constants DEF TurnsAreKept
<1>5. TagsDiffer'
  BY <1>1, Constants DEF RS!no_entries, TagsDiffer, occupied, Slot
<1> QED
  BY <1>3, <1>4, <1>5 DEF IInv

LEMMA NextPreserves == IInv /\ [Next]_vars => IInv'
<1>1. IInv /\ UNCHANGED vars => IInv'
  BY DEF vars, engineVars, IInv, TypeOK, TurnsAreKept, TagsDiffer, turns, occupied, station_tags
<1> QED
  BY <1>1, CyclePreserves, FlushPreserves DEF Next

----------------------------------------------------------------------------
(* What holds of every history of cycles and flushes. *)

THEOREM Invariance == Spec => []IInv
<1>1. Init => IInv
  BY InitEstablishes
<1>2. IInv /\ [Next]_vars => IInv'
  BY NextPreserves
<1> QED
  BY <1>1, <1>2, PTL DEF Spec

(* The cursor is always a slot, and what the latches hold is what their    *)
(* readers expect (reservation_station.hpp:76-81).                         *)
THEOREM TypeCorrect == Spec => []TypeOK
<1>1. IInv => TypeOK
  BY DEF IInv
<1> QED
  BY <1>1, Invariance, PTL

(* A ready entry sees every other slot dispatched at most once before it   *)
(* is (reservation_station.cpp:50-60, 146-154), with any number of slots.  *)
THEOREM OvertakingIsBounded == Spec => []BoundedOvertaking
<1>1. IInv => BoundedOvertaking
  <2> SUFFICES ASSUME IInv, NEW slot \in Slot
               PROVE  overtaken[slot] < RsCapacity
    BY DEF BoundedOvertaking, Slot
  <2>1. turns(slot) \in Slot
    BY Turns DEF IInv
  <2>2. turns(slot) \in Nat
    BY <2>1, Constants
  <2>3. overtaken[slot] \in Nat
    BY DEF IInv, TypeOK, Slot
  <2>4. overtaken[slot] + turns(slot) < RsCapacity
    BY DEF IInv, TurnsAreKept
  <2> QED
    BY <2>2, <2>3, <2>4, Constants
<1> QED
  BY <1>1, Invariance, PTL

(* A result that loses the bus gets it in the next cycle, whichever unit   *)
(* it comes from (common_data_bus.cpp:45-83).                              *)
THEOREM LoserGoesNext == Spec => ResultsWaitOneCycle
<1>1. IInv /\ [Next]_vars => [WaitsOneCycle]_vars
  <2> SUFFICES ASSUME IInv, Cycle
               PROVE  /\ fu_result # None /\ ~integer_wins => integer_wins'
                      /\ load_result # None /\ ~load_wins => load_wins'
    BY DEF WaitsOneCycle, integer_wins, load_wins
  <2>1. /\ integer_wins <=> fu_result # None /\ (load_result = None \/ ~prefer_load)
        /\ load_wins <=> load_result # None /\ (fu_result = None \/ prefer_load)
        /\ integer_wins' <=> fu_result' # None /\ (load_result' = None \/ ~prefer_load')
        /\ load_wins' <=> load_result' # None /\ (fu_result' = None \/ prefer_load')
    BY DEF integer_wins, load_wins, integer_granted, load_granted, CDB!integer_granted,
           CDB!load_granted
  <2>2. integer_wins \/ load_wins => (prefer_load' <=> integer_wins)
    <3>1. integer_wins <=> CDB!integer_granted(fu_result, load_result)
      BY DEF integer_wins, integer_granted
    <3>2. integer_wins \/ load_wins => CDB!completion(fu_result, load_result) # None
      BY <2>1 DEF CDB!completion, CDB!load_granted, CDB!integer_granted
    <3> QED
      BY <3>1, <3>2 DEF Cycle, CDB!apply, CDB!next_prefer_load
  <2>3. fu_result # None /\ ~integer_wins => fu_result' = fu_result
    <3>1. accepted_slot # None => integer_wins \/ fu_result = None
      BY Accepted, UnitTakes DEF Cycle, IInv
    <3> QED
      BY <3>1, UnitTakes DEF Cycle, IInv
  <2>4. load_result # None /\ ~load_wins => load_result' = load_result
    BY LoadResults DEF Cycle, IInv
  <2> QED
    BY <2>1, <2>2, <2>3, <2>4
<1> QED
  BY <1>1, Invariance, PTL DEF Spec, ResultsWaitOneCycle

(* An instruction is in the station or in the unit until the bus carries   *)
(* its result, and in neither afterwards: none is lost between them, none  *)
(* executes twice (reservation_station.cpp:128-172, functional_unit.cpp:   *)
(* 186-216).                                                               *)
THEOREM EachExecutesOnce == Spec => ExecutedOnce
<1>1. IInv /\ IInv' /\ [Next]_vars => [LeavesWhenBroadcast]_vars
  <2> SUFFICES ASSUME IInv, IInv', Cycle, NEW tag \in integer_tags, in_engine(tag)
               PROVE  in_engine(tag)' <=> tag \notin {cdb.tag : cdb \in {on_bus} \ {None}}
    BY DEF LeavesWhenBroadcast, on_bus
  <2>1. PICK issue_entry \in issuable :
          RS!apply(issue_entry, broadcast(FALSE), fu_available(FALSE), FALSE)
    BY DEF Cycle
  <2>2. PICK place \in Maybe(Slot) :
          StaysBut(place) /\ (place # None => Placed(place, issue_entry))
    BY <2>1, StationStep DEF IInv
  <2>3. /\ accepted_slot # None =>
             /\ fu_result' # None /\ fu_result'.tag = rs_cur[accepted_slot].destination
             /\ accepted_slot \in occupied /\ (integer_wins \/ fu_result = None)
        /\ accepted_slot = None => fu_result' = IF integer_wins THEN None ELSE fu_result
    BY UnitTakes, Accepted DEF Cycle, IInv
  <2>4. tag \in {cdb.tag : cdb \in {on_bus} \ {None}} <=>
          integer_wins /\ fu_result # None /\ fu_result.tag = tag
    <3>1. load_wins => load_result # None /\ load_result.tag \notin integer_tags
      BY Broadcast, Constants DEF IInv, TagsDiffer
    <3> QED
      BY <3>1, Broadcast DEF IInv
  <2>5. /\ in_engine(tag) <=> \/ \E slot \in occupied : rs_cur[slot].destination = tag
                              \/ fu_result # None /\ fu_result.tag = tag
        /\ in_engine(tag)' <=> \/ \E slot \in occupied' : rs_cur'[slot].destination = tag
                               \/ fu_result' # None /\ fu_result'.tag = tag
    BY DEF in_engine, station_tags, occupied, Slot
  <2>6. issue_entry # None => issue_entry.destination \notin unfinished_tags
    BY <2>1, Issuable DEF IInv
  <2>7. tag \in unfinished_tags
    BY DEF in_engine, unfinished_tags
  <2>8. CASE fu_result # None /\ fu_result.tag = tag
    <3>1. \A slot \in occupied : rs_cur[slot].destination # tag
      BY <2>8 DEF IInv, TagsDiffer, station_tags, occupied, Slot
    <3>2. \A slot \in occupied' : rs_cur'[slot].destination # tag
      BY <2>2, <2>6, <2>7, <3>1, Constants DEF StaysBut, Placed, occupied, Maybe
    <3> QED
      BY <2>3, <2>4, <2>5, <2>8, <3>1, <3>2
  <2>9. CASE ~(fu_result # None /\ fu_result.tag = tag)
    <3>1. PICK slot \in occupied : rs_cur[slot].destination = tag
      BY <2>5, <2>9
    <3>2. CASE slot = accepted_slot
      BY <2>3, <2>4, <2>5, <2>9, <3>1, <3>2, Constants DEF occupied
    <3>3. CASE slot # accepted_slot
      <4>1. slot # place
        BY <2>2, <3>1, <3>3, Constants DEF Placed, occupied
      <4>2. slot \in occupied' /\ rs_cur'[slot].destination = tag
        BY <2>2, <3>1, <3>3, <4>1 DEF StaysBut, occupied
      <4> QED
        BY <2>4, <2>5, <2>9, <4>2
    <3> QED
      BY <3>2, <3>3
  <2> QED
    BY <2>8, <2>9
<1> QED
  BY <1>1, Invariance, PTL DEF Spec, ExecutedOnce
==============================================================================
