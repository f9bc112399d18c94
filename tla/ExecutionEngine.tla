--------------------------- MODULE ExecutionEngine ---------------------------
(***************************************************************************)
(* The reservation station, the functional unit and the common data bus,   *)
(* with the rest of the core replaced by anything it might do: issue an    *)
(* instruction whenever there is a slot, finish a load whenever the load   *)
(* queue's result buffer is free, and flush.  The wiring is that of        *)
(* CPU::cycle() (cpu.cpp:230-237, 332-340).                                *)
(***************************************************************************)
EXTENDS Instruction, WordArithmetic, FiniteSets

CONSTANTS RsCapacity, InstructionWidth

ASSUME ExecutionAssumption ==
  /\ RsCapacity \in Nat \ {0}
  /\ InstructionWidth \in Nat

VARIABLES
  rs_cur, rs_cursor, fu_result, prefer_load,
  load_result,   \* a finished load's result waiting for the bus, or None
  overtaken      \* history: slot -> dispatches since its entry became ready

engineVars == <<rs_cur, rs_cursor, fu_result, prefer_load, load_result>>
vars == <<engineVars, overtaken>>

RS == INSTANCE ReservationStation WITH cur_rs <- rs_cur, dispatch_cursor <- rs_cursor
FU == INSTANCE FunctionalUnit WITH current_result <- fu_result
CDB == INSTANCE CommonDataBus

(* None is no slot, no entry and no message either. *)
ASSUME NothingAssumption == None \notin RS!Slot \cup RS!RSEntry \cup Execute \cup FUResult \cup CDBMsg

----------------------------------------------------------------------------
(* The wires of one cycle. *)
integer_granted(flush) == ~flush /\ CDB!integer_granted(fu_result, load_result)
load_granted(flush) == ~flush /\ CDB!load_granted(fu_result, load_result)
broadcast(flush) == IF flush THEN None ELSE CDB!broadcast(fu_result, load_result)
fu_available(flush) == FU!can_accept(integer_granted(flush))

accepted_slot ==
  IF fu_available(FALSE) THEN RS!select_ready_index ELSE None

----------------------------------------------------------------------------
(* What the core may do.  The tags of instructions in flight differ. *)
station_tags == {rs_cur[slot].destination : slot \in {s \in RS!Slot : rs_cur[s] # None}}
unfinished_tags == station_tags \cup {r.tag : r \in {fu_result, load_result} \ {None}}

(* A load in the queue, whose result is still to come; the other tags of   *)
(* its slot are not used.                                                  *)
load_tags == {[index |-> RobCapacity - 1, generation |-> 0]}
integer_tags == {tag \in RobTag : tag.index # RobCapacity - 1}

(* Free tags differ in nothing: one stands for all. *)
one_of(tags) == IF tags = {} THEN {} ELSE {CHOOSE tag \in tags : TRUE}

(* An operand is known, or comes from an instruction that has not been     *)
(* broadcast and is not in this cycle.                                     *)
possible_operands ==
  LET now == broadcast(FALSE)
      awaited == (unfinished_tags \cup load_tags) \ {cdb.tag : cdb \in {now} \ {None}}
  IN  {ready_operand(0)} \cup {waiting_operand(tag) : tag \in awaited}

issuable ==
  IF ~RS!available THEN {None}
  ELSE Maybe({[op |-> "ADD", destination |-> tag, lhs |-> lhs, rhs |-> ready_operand(0),
               immediate |-> 0, pc |-> 0] :
                tag \in one_of(integer_tags \ unfinished_tags), lhs \in possible_operands})

finished_load(tag) ==
  [tag |-> tag, result |-> 0, actual_next_pc |-> 0, branch_taken |-> FALSE,
   has_control_result |-> FALSE]

(* The buffer takes a new result when it is empty or gets the bus. *)
next_load_results ==
  IF load_result # None /\ ~load_granted(FALSE) THEN {load_result}
  ELSE {None} \cup {finished_load(tag) :
                      tag \in load_tags \ {r.tag : r \in {load_result} \ {None}}}

(* Each dispatch is counted against the ready entries it leaves behind, up *)
(* to the bound that must not be reached.                                  *)
next_overtaken ==
  [slot \in RS!Slot |->
     IF slot \notin RS!ready_slots \/ slot = accepted_slot THEN 0
     ELSE IF accepted_slot = None \/ overtaken[slot] = RsCapacity THEN overtaken[slot]
     ELSE overtaken[slot] + 1]

----------------------------------------------------------------------------
Init ==
  /\ RS!Init /\ FU!Init /\ CDB!Init
  /\ load_result = None
  /\ overtaken = [slot \in RS!Slot |-> 0]

Cycle ==
  /\ \E issue_entry \in issuable :
       RS!apply(issue_entry, broadcast(FALSE), fu_available(FALSE), FALSE)
  /\ FU!apply(RS!dispatch(FALSE), FALSE, integer_granted(FALSE))
  /\ CDB!apply(fu_result, load_result)
  /\ load_result' \in next_load_results
  /\ overtaken' = next_overtaken

Flush ==
  /\ RS!apply(None, None, fu_available(TRUE), TRUE)
  /\ FU!apply(RS!dispatch(TRUE), TRUE, FALSE)
  /\ CDB!apply(None, None)
  /\ load_result' = None
  /\ overtaken' = [slot \in RS!Slot |-> 0]

Next == Cycle \/ Flush

(* run() goes on calling cycle(). *)
Spec == Init /\ [][Next]_vars /\ WF_vars(Cycle)

----------------------------------------------------------------------------
(* The latches and registers hold values of their types: the cursor stays  *)
(* in the station (reservation_station.hpp:76-81, common_data_bus.hpp:50,  *)
(* functional_unit.hpp).                                                   *)
TypeOK ==
  /\ rs_cur \in [RS!Slot -> Maybe(RS!RSEntry)]
  /\ rs_cursor \in RS!Slot
  /\ fu_result \in Maybe(FUResult)
  /\ prefer_load \in BOOLEAN
  /\ load_result \in Maybe(FUResult)
  /\ overtaken \in [RS!Slot -> Nat]

(* reservation_station.hpp:79, "round-robin, so that the slots with low    *)
(* indices do not hold the priority for ever": a ready entry sees each     *)
(* other slot dispatched at most once before its turn comes.               *)
BoundedOvertaking == \A slot \in RS!Slot : overtaken[slot] < RsCapacity

(* common_data_bus.hpp:50, "round-robin, so that neither loads nor the     *)
(* integer unit starve": a result that loses the bus gets it in the next   *)
(* cycle.                                                                  *)
WaitsOneCycle ==
  Cycle => /\ fu_result # None /\ ~integer_granted(FALSE) => integer_granted(FALSE)'
           /\ load_result # None /\ ~load_granted(FALSE) => load_granted(FALSE)'
ResultsWaitOneCycle == [][WaitsOneCycle]_vars

(* Whatever the load queue and the issue unit do, an instruction in the    *)
(* station or in the functional unit is broadcast in the end, or flushed,  *)
(* if the loads it depends on come.                                        *)
in_engine(tag) ==
  tag \in station_tags \/ (fu_result # None /\ fu_result.tag = tag)

NothingStarves ==
  (\A tag \in load_tags : []<>(\A slot \in RS!Slot : rs_cur[slot] # None =>
                                  rs_cur[slot].lhs # waiting_operand(tag)))
  => \A tag \in integer_tags : []<>~in_engine(tag)

(* An instruction stays in the station or the unit until the bus carries   *)
(* its result, and is gone then (reservation_station.cpp:147,              *)
(* functional_unit.cpp:39): none is lost when the unit cannot take what    *)
(* the station offers, and none is executed twice.                         *)
LeavesWhenBroadcast ==
  Cycle => \A tag \in integer_tags : in_engine(tag) =>
             (in_engine(tag)' <=> tag \notin {cdb.tag : cdb \in {broadcast(FALSE)} \ {None}})
ExecutedOnce == [][LeavesWhenBroadcast]_vars
==============================================================================
